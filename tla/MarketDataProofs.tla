-------------------------- MODULE MarketDataProofs --------------------------
(***************************************************************************)
(* Proofs about MarketData, for any number of stocks, runs of the worker,  *)
(* batches, connections, days, importers and ranges: first the quotes and  *)
(* their way to the clients, then the two stores of bars.                  *)
(*                                                                         *)
(* The invariant of the quotes has two halves.  Of the writer: a run of    *)
(* the worker owns the batch it writes, nobody touches a batch that is     *)
(* closed, and all that is cached or published is in such a batch.  Of the *)
(* pushes: a connection that ended is in no map, a connection is in the    *)
(* bucket of its channel alone, and what a broadcast still has to send     *)
(* fits the clients it names.                                              *)
(* On top of it, age and remaining life of a cached quote stay bounded.    *)
(***************************************************************************)
EXTENDS MarketData, SequenceTheorems, FiniteSetTheorems, WellFoundedInduction, TLAPS

Closed   == {"success", "partial"}
QuoteBatch == [status : Closed \cup {"running", "failed", "write_failed"}, rows : SUBSET Codes]
Sync     == [at : {"idle", "recorded", "stored", "publishing"}, batch : Nat,
             valid : SUBSET Codes, rest : SUBSET Codes, held : Nat]
Quote    == [age : Nat, left : Nat, batch : Nat]
Cached   == Quote \cup {NoQuote}
Message  == [code : Codes, batch : Nat]

WriterTypes == quoteBatches \in Seq(QuoteBatch) /\ sync \in [Syncs -> Sync]
CacheTypes ==
    /\ redis \in [Codes -> Cached] /\ l1 \in [Codes -> Cached]
    /\ asked \subseteq Codes /\ feed \in Seq(Message)

\* A run that is under way owns a batch, which says how far the run is.
Owns(s) ==
    /\ sync[s].batch \in 1 .. Len(quoteBatches)
    /\ sync[s].at \in {"recorded", "stored"} => quoteBatches[sync[s].batch].status = "running"
    /\ sync[s].at = "publishing" =>
          /\ quoteBatches[sync[s].batch].status \in Closed
          /\ sync[s].rest \subseteq quoteBatches[sync[s].batch].rows
OneWriter ==
    /\ \A s \in Syncs : sync[s].at # "idle" => Owns(s)
    /\ \A s, t \in Syncs :
          sync[s].at # "idle" /\ sync[t].at # "idle" /\ sync[s].batch = sync[t].batch => s = t

\* What may be shown: display data of the backend, or a row of a closed batch.
Shown(c, b) ==
    \/ b = 0
    \/ /\ b \in 1 .. Len(quoteBatches)
       /\ c \in quoteBatches[b].rows /\ quoteBatches[b].status \in Closed
Keeps == \A c \in Codes, b \in Nat : Shown(c, b) => Shown(c, b)'

\* What the caches may hold of a stock.
Showable(c) == {q \in Cached : q # NoQuote => Shown(c, q.batch)}
CachesShown == \A c \in Codes : redis[c] \in Showable(c) /\ l1[c] \in Showable(c)
FeedShown == \A i \in 1 .. Len(feed) : Shown(feed[i].code, feed[i].batch)

QuoteInv == WriterTypes /\ CacheTypes /\ OneWriter /\ CachesShown /\ FeedShown

-----------------------------------------------------------------------------
(* The worker's runs and their batches. *)

\* A step that leaves batches and runs alone.
LEMMA WritersIdle ==
    ASSUME WriterTypes, OneWriter, UNCHANGED <<quoteBatches, sync>>
    PROVE  WriterTypes' /\ OneWriter' /\ Keeps
  BY DEF WriterTypes, OneWriter, Owns, Keeps, Shown

\* A new batch, alone or with a run that owns it.
LEMMA FetchOwns ==
    ASSUME WriterTypes, OneWriter, NEW s \in Syncs, FetchBatch(s)
    PROVE  WriterTypes' /\ OneWriter' /\ Keeps
  <1> USE DEF WriterTypes
  <1>1. PICK valid \in SUBSET Codes :
            /\ quoteBatches' = Append(quoteBatches,
                  [status |-> IF valid = {} THEN "failed" ELSE "running", rows |-> {}])
            /\ sync' = IF valid = {} THEN sync
                       ELSE [sync EXCEPT ![s] = [@ EXCEPT !.at = "recorded", !.valid = valid,
                                                         !.batch = Len(quoteBatches) + 1]]
    BY DEF FetchBatch, ValidCodes
  <1> DEFINE new == [status |-> IF valid = {} THEN "failed" ELSE "running", rows |-> {}]
  <1>2. new \in QuoteBatch
    BY DEF QuoteBatch, Closed
  <1>3. /\ quoteBatches' \in Seq(QuoteBatch) /\ Len(quoteBatches) \in Nat
        /\ Len(quoteBatches') = Len(quoteBatches) + 1
        /\ \A i \in 1 .. Len(quoteBatches) : quoteBatches'[i] = quoteBatches[i]
        /\ quoteBatches'[Len(quoteBatches) + 1] = new
    BY <1>1, <1>2, AppendProperties, LenProperties
  <1>4. Keeps
    BY <1>3 DEF Keeps, Shown
  <1>5. CASE valid = {}
    BY <1>1, <1>3, <1>4, <1>5 DEF OneWriter, Owns
  <1>6. CASE valid # {}
    <2> DEFINE next == [sync[s] EXCEPT !.at = "recorded", !.valid = valid,
                                       !.batch = Len(quoteBatches) + 1]
    <2>0. sync[s] \in Sync /\ Len(quoteBatches) + 1 \in Nat
      BY <1>3
    <2>a. /\ next \in Sync /\ next.at = "recorded"
          /\ next.batch = Len(quoteBatches) + 1
      BY <2>0 DEF Sync
    <2>b. sync' = [sync EXCEPT ![s] = next]
      BY <1>1, <1>6
    <2>1. /\ sync' \in [Syncs -> Sync]
          /\ sync'[s].at = "recorded" /\ sync'[s].batch = Len(quoteBatches) + 1
          /\ \A t \in Syncs \ {s} : sync'[t] = sync[t]
      <3> HIDE DEF next
      <3> QED  BY <2>a, <2>b
    <2>2. quoteBatches'[Len(quoteBatches) + 1].status = "running"
      BY <1>3, <1>6
    <2>3. \A t \in Syncs : sync'[t].at # "idle" => Owns(t)'
      BY <1>3, <2>1, <2>2 DEF OneWriter, Owns
    <2>4. \A t, u \in Syncs :
             sync'[t].at # "idle" /\ sync'[u].at # "idle" /\ sync'[t].batch = sync'[u].batch
                => t = u
      BY <1>3, <2>1 DEF OneWriter, Owns
    <2> QED  BY <1>3, <1>4, <2>1, <2>3, <2>4 DEF OneWriter
  <1> QED  BY <1>5, <1>6

\* What a run does to its own batch while it is running disturbs no other run
\* and nothing that may be shown.
LEMMA WriteOwn ==
    ASSUME WriterTypes, OneWriter, NEW s \in Syncs, NEW row \in QuoteBatch, NEW next \in Sync,
           sync[s].at \in {"recorded", "stored"},
           quoteBatches' = [quoteBatches EXCEPT ![sync[s].batch] = row],
           sync' = [sync EXCEPT ![s] = next],
           next.at = "idle" \/ next.batch = sync[s].batch,
           next.at \in {"recorded", "stored"} => row.status = "running",
           next.at = "publishing" => row.status \in Closed /\ next.rest \subseteq row.rows
    PROVE  WriterTypes' /\ OneWriter' /\ Keeps
  <1> DEFINE b == sync[s].batch
  <1>1. b \in 1 .. Len(quoteBatches) /\ quoteBatches[b].status = "running"
    BY DEF OneWriter, Owns
  <1>2. /\ quoteBatches' \in Seq(QuoteBatch)
        /\ Len(quoteBatches') = Len(quoteBatches)
        /\ \A i \in 1 .. Len(quoteBatches) :
              quoteBatches'[i] = IF i = b THEN row ELSE quoteBatches[i]
    BY <1>1, ExceptSeq DEF WriterTypes
  <1>3. /\ sync' \in [Syncs -> Sync] /\ sync'[s] = next
        /\ \A t \in Syncs \ {s} : sync'[t] = sync[t]
    BY DEF WriterTypes
  <1>4. Keeps
    BY <1>1, <1>2 DEF Keeps, Shown, Closed
  <1>5. \A t \in Syncs \ {s} : sync[t].at # "idle" => sync[t].batch # b
    BY DEF OneWriter
  <1>6. \A t \in Syncs : sync'[t].at # "idle" => Owns(t)'
    <2> SUFFICES ASSUME NEW t \in Syncs, sync'[t].at # "idle"  PROVE Owns(t)'
      OBVIOUS
    <2>1. CASE t = s
      BY <1>1, <1>2, <1>3, <2>1 DEF Owns
    <2>2. CASE t # s
      <3>1. sync'[t] = sync[t] /\ Owns(t) /\ sync[t].batch # b
        BY <1>3, <1>5, <2>2 DEF OneWriter
      <3> QED  BY <1>2, <3>1 DEF Owns
    <2> QED  BY <2>1, <2>2
  <1>7. \A t, u \in Syncs :
           sync'[t].at # "idle" /\ sync'[u].at # "idle" /\ sync'[t].batch = sync'[u].batch
              => t = u
    BY <1>3, <1>5 DEF OneWriter
  <1> QED  BY <1>2, <1>3, <1>4, <1>6, <1>7 DEF WriterTypes, OneWriter

\* A step that leaves the batches alone and lets runs end, count time or
\* publish less.
LEMMA WriteNone ==
    ASSUME WriterTypes, OneWriter, UNCHANGED quoteBatches, sync' \in [Syncs -> Sync],
           \A s \in Syncs : sync'[s].at # "idle" =>
              /\ sync'[s].at = sync[s].at /\ sync'[s].batch = sync[s].batch
              /\ sync'[s].rest \subseteq sync[s].rest
    PROVE  WriterTypes' /\ OneWriter' /\ Keeps
  BY DEF WriterTypes, OneWriter, Owns, Keeps, Shown

LEMMA WriterStep ==
    ASSUME WriterTypes, OneWriter, QuoteNext
    PROVE  WriterTypes' /\ OneWriter' /\ Keeps
  <1>1. ASSUME NEW s \in Syncs, FetchBatch(s)  PROVE WriterTypes' /\ OneWriter' /\ Keeps
    BY <1>1, FetchOwns
  <1>2. ASSUME NEW s \in Syncs, InsertQuotes(s)  PROVE WriterTypes' /\ OneWriter' /\ Keeps
    <2> DEFINE b == sync[s].batch
               row == [quoteBatches[b] EXCEPT !.rows = sync[s].valid]
               next == [sync[s] EXCEPT !.at = "stored"]
    <2>1. b \in 1 .. Len(quoteBatches) /\ quoteBatches[b] \in QuoteBatch /\ sync[s] \in Sync
          /\ quoteBatches[b].status = "running" /\ sync[s].at = "recorded"
      BY <1>2, LenProperties DEF InsertQuotes, SyncAt, OneWriter, Owns, WriterTypes
    <2>2. row \in QuoteBatch /\ row.status = "running" /\ next \in Sync
          /\ next.at = "stored" /\ next.batch = b
      BY <2>1 DEF QuoteBatch, Sync
    <2>3. quoteBatches' = [quoteBatches EXCEPT ![b] = row] /\ sync' = [sync EXCEPT ![s] = next]
      BY <1>2 DEF InsertQuotes
    <2> QED  BY <2>1, <2>2, <2>3, WriteOwn
  <1>3. ASSUME NEW s \in Syncs, InsertQuotesFails(s)  PROVE WriterTypes' /\ OneWriter' /\ Keeps
    <2> DEFINE b == sync[s].batch
               row == [quoteBatches[b] EXCEPT !.status = "write_failed"]
    <2>1. b \in 1 .. Len(quoteBatches) /\ quoteBatches[b] \in QuoteBatch /\ sync[s].at = "recorded"
      BY <1>3, LenProperties DEF InsertQuotesFails, SyncAt, OneWriter, Owns, WriterTypes
    <2>2. row \in QuoteBatch /\ IdleSync \in Sync /\ IdleSync.at = "idle"
      BY <2>1 DEF QuoteBatch, Sync, IdleSync
    <2>3. quoteBatches' = [quoteBatches EXCEPT ![b] = row] /\ sync' = [sync EXCEPT ![s] = IdleSync]
      BY <1>3 DEF InsertQuotesFails
    <2> QED  BY <2>1, <2>2, <2>3, WriteOwn
  <1>4. ASSUME NEW s \in Syncs, FinalizeBatch(s)  PROVE WriterTypes' /\ OneWriter' /\ Keeps
    <2> DEFINE b == sync[s].batch
               row == [quoteBatches[b] EXCEPT !.status =
                          IF sync[s].valid = Codes THEN "success" ELSE "partial"]
               next == [sync[s] EXCEPT !.at = "publishing", !.rest = quoteBatches[b].rows]
    <2>1. b \in 1 .. Len(quoteBatches) /\ quoteBatches[b] \in QuoteBatch /\ sync[s] \in Sync
          /\ sync[s].at = "stored"
      BY <1>4, LenProperties DEF FinalizeBatch, SyncAt, OneWriter, Owns, WriterTypes
    <2>2. row \in QuoteBatch /\ row.status \in Closed /\ row.rows = quoteBatches[b].rows
          /\ next \in Sync /\ next.at = "publishing" /\ next.batch = b
          /\ next.rest = quoteBatches[b].rows
      BY <2>1 DEF QuoteBatch, Sync, Closed
    <2>3. quoteBatches' = [quoteBatches EXCEPT ![b] = row] /\ sync' = [sync EXCEPT ![s] = next]
      BY <1>4 DEF FinalizeBatch, Accepted
    <2> QED  BY <2>1, <2>2, <2>3, WriteOwn
  <1>5. ASSUME NEW s \in Syncs, Publish(s)  PROVE WriterTypes' /\ OneWriter' /\ Keeps
    <2>1. PICK c \in sync[s].rest :
             sync' = [sync EXCEPT ![s] = IF @.rest = {c} THEN IdleSync
                                         ELSE [@ EXCEPT !.rest = sync[s].rest \ {c}]]
      BY <1>5 DEF Publish
    <2> DEFINE left == [sync[s] EXCEPT !.rest = @ \ {c}]
               next == IF sync[s].rest = {c} THEN IdleSync ELSE left
    <2>2. sync[s] \in Sync /\ UNCHANGED quoteBatches
      BY <1>5 DEF Publish, WriterTypes
    <2>3. /\ left \in Sync /\ left.at = sync[s].at /\ left.batch = sync[s].batch
          /\ left.rest \subseteq sync[s].rest
      BY <2>2 DEF Sync
    <2>4. IdleSync \in Sync /\ IdleSync.at = "idle"
      BY DEF Sync, IdleSync
    <2>5. sync' = [sync EXCEPT ![s] = next]
      BY <2>1
    <2>6. /\ next \in Sync
          /\ next.at # "idle" => /\ next.at = sync[s].at /\ next.batch = sync[s].batch
                                 /\ next.rest \subseteq sync[s].rest
      BY <2>3, <2>4
    <2>7. /\ sync' \in [Syncs -> Sync] /\ sync'[s] = next
          /\ \A t \in Syncs \ {s} : sync'[t] = sync[t]
      <3> HIDE DEF next
      <3> QED  BY <2>5, <2>6 DEF WriterTypes
    <2>8. \A t \in Syncs : sync'[t].at # "idle" =>
             /\ sync'[t].at = sync[t].at /\ sync'[t].batch = sync[t].batch
             /\ sync'[t].rest \subseteq sync[t].rest
      <3> HIDE DEF next
      <3> QED  BY <2>6, <2>7
    <2> QED  BY <2>2, <2>7, <2>8, WriteNone
  <1>6. ASSUME NEW s \in Syncs, SyncDies(s)  PROVE WriterTypes' /\ OneWriter' /\ Keeps
    <2>1. /\ sync' \in [Syncs -> Sync] /\ UNCHANGED quoteBatches
          /\ \A t \in Syncs : sync'[t].at # "idle" => sync'[t] = sync[t]
      BY <1>6 DEF SyncDies, WriterTypes, Sync, IdleSync
    <2> QED  BY <2>1, WriteNone
  <1>7. CASE QuoteTick
    <2>1. sync' = [t \in Syncs |-> IF SyncAt(t, "idle") THEN IdleSync
                                   ELSE [sync[t] EXCEPT !.held = @ + 1]]
          /\ UNCHANGED quoteBatches
      BY <1>7 DEF QuoteTick
    <2>2. \A t \in Syncs : sync[t] \in Sync
      BY DEF WriterTypes
    <2>3. IdleSync \in Sync /\ IdleSync.at = "idle"
      BY DEF Sync, IdleSync
    <2>4. \A t \in Syncs : [sync[t] EXCEPT !.held = @ + 1] \in Sync
      BY <2>2 DEF Sync
    <2>5. sync' \in [Syncs -> Sync]
      BY <2>1, <2>3, <2>4
    <2>6. \A t \in Syncs : sync'[t].at # "idle" =>
             /\ sync'[t].at = sync[t].at /\ sync'[t].batch = sync[t].batch
             /\ sync'[t].rest = sync[t].rest
      BY <2>1, <2>2, <2>3 DEF SyncAt, Sync
    <2> QED  BY <2>1, <2>5, <2>6, WriteNone
  <1>8. CASE AskQuote \/ AskQuotesBatch \/ ProviderAnswers
    BY <1>8, WritersIdle DEF AskQuote, AskQuotesBatch, AskQuotes, ProviderAnswers
  <1> QED  BY <1>1, <1>2, <1>3, <1>4, <1>5, <1>6, <1>7, <1>8 DEF QuoteNext

-----------------------------------------------------------------------------
(* The caches and the messages. *)

\* What could be shown before a step still can.
LEMMA CachesKept ==
    ASSUME Keeps, redis' \in [Codes -> Cached], l1' \in [Codes -> Cached],
           \A c \in Codes : redis'[c] \in Showable(c) /\ l1'[c] \in Showable(c)
    PROVE  CachesShown'
  BY DEF CachesShown, Showable, Keeps, Cached, Quote

LEMMA FeedKept ==
    ASSUME Keeps, feed' \in Seq(Message),
           \A i \in 1 .. Len(feed') : Shown(feed'[i].code, feed'[i].batch)
    PROVE  FeedShown'
  <1>1. \A i \in 1 .. Len(feed') : feed'[i] \in Message
    BY ElementOfSeq
  <1> QED  BY <1>1 DEF FeedShown, Keeps, Message

\* A quote of the batch its run is publishing.
LEMMA PublishShows ==
    ASSUME WriterTypes, OneWriter, CacheTypes, CachesShown, FeedShown, Keeps,
           NEW s \in Syncs, Publish(s)
    PROVE  CacheTypes' /\ CachesShown' /\ FeedShown'
  <1>1. PICK c \in sync[s].rest :
            /\ SetQuote(c, [age |-> sync[s].held, left |-> WorkerTtl, batch |-> sync[s].batch])
            /\ \/ feed' = Append(feed, [code |-> c, batch |-> sync[s].batch])
               \/ feed' = feed
    BY DEF Publish
  <1> DEFINE quote == [age |-> sync[s].held, left |-> WorkerTtl, batch |-> sync[s].batch]
             message == [code |-> c, batch |-> sync[s].batch]
  <1>2. /\ sync[s] \in Sync /\ c \in Codes
        /\ sync[s].batch \in 1 .. Len(quoteBatches)
        /\ quoteBatches[sync[s].batch].status \in Closed
        /\ c \in quoteBatches[sync[s].batch].rows
    BY <1>1 DEF Publish, SyncAt, WriterTypes, OneWriter, Owns, Sync
  <1>3. quote \in Showable(c) /\ message \in Message /\ Shown(c, sync[s].batch)
    BY <1>2, TicksAssumption DEF Showable, Shown, Cached, Quote, Message, Sync
  <1>4. UNCHANGED <<l1, asked>>
    BY DEF Publish
  <1>5. /\ redis' \in [Codes -> Cached]
        /\ \A d \in Codes : redis'[d] \in Showable(d) /\ l1'[d] \in Showable(d)
    <2> HIDE DEF quote
    <2>1. quote \in Cached
      BY <1>3 DEF Showable
    <2>2. redis' = [redis EXCEPT ![c] = quote] \/ redis' = redis
      BY <1>1 DEF SetQuote, quote
    <2> QED  BY <1>2, <1>3, <1>4, <2>1, <2>2 DEF CacheTypes, CachesShown
  <1>6. /\ feed' \in Seq(Message)
        /\ \A i \in 1 .. Len(feed') : Shown(feed'[i].code, feed'[i].batch)
    <2>1. CASE feed' = Append(feed, message)
      <3>1. /\ feed' \in Seq(Message) /\ Len(feed') = Len(feed) + 1
            /\ feed'[Len(feed) + 1] = message
            /\ \A i \in 1 .. Len(feed) : feed'[i] = feed[i]
        BY <1>3, <2>1, AppendProperties DEF CacheTypes
      <3>2. Len(feed) \in Nat /\ message.code = c /\ message.batch = sync[s].batch
        BY LenProperties DEF CacheTypes
      <3> HIDE DEF message
      <3> QED  BY <1>3, <3>1, <3>2 DEF FeedShown
    <2>2. CASE feed' = feed
      BY <2>2 DEF CacheTypes, FeedShown
    <2> QED  BY <1>1, <2>1, <2>2
  <1> QED  BY <1>4, <1>5, <1>6, CachesKept, FeedKept DEF CacheTypes

\* L1 and Redis refill each other with what they hold.
LEMMA AskShows ==
    ASSUME CacheTypes, CachesShown, FeedShown, Keeps, NEW codes \in SUBSET Codes,
           NEW ttl \in Nat, AskQuotes(codes, ttl)
    PROVE  CacheTypes' /\ CachesShown' /\ FeedShown'
  <1>1. PICK up \in BOOLEAN :
          LET found == [c \in Codes |-> IF c \in codes THEN Lookup(c, up) ELSE NoQuote]
          IN /\ l1' = [c \in Codes |-> Refill(c, found[c], ttl)]
             /\ redis' = [c \in Codes |-> AfterHit(c, found[c])]
             /\ asked' = {c \in codes : found[c] = NoQuote}
    BY DEF AskQuotes
  <1>2. UNCHANGED feed
    BY DEF AskQuotes
  <1> DEFINE found == [c \in Codes |-> IF c \in codes THEN Lookup(c, up) ELSE NoQuote]
  <1>3. ASSUME NEW c \in Codes  PROVE found[c] \in Showable(c)
    BY DEF Lookup, CachesShown, Showable, Cached
  <1>4. ASSUME NEW c \in Codes  PROVE Refill(c, found[c], ttl) \in Showable(c)
    <2> HIDE DEF found
    <2> DEFINE kept == [found[c] EXCEPT !.left = ttl]
    <2>1. CASE l1[c] = NoQuote /\ found[c] # NoQuote
      <3>1. found[c] \in Quote /\ Shown(c, found[c].batch)
        BY <1>3, <2>1 DEF Showable, Cached
      <3>2. kept \in Quote /\ kept.batch = found[c].batch
        BY <3>1 DEF Quote
      <3> QED  BY <2>1, <3>1, <3>2 DEF Refill, Showable, Cached
    <2> QED  BY <2>1 DEF Refill, CachesShown
  <1>5. \A c \in Codes : Showable(c) \subseteq Cached
    BY DEF Showable
  <1>6. /\ redis' = redis /\ l1' \in [Codes -> Cached] /\ asked' \subseteq Codes
        /\ \A c \in Codes : l1'[c] \in Showable(c)
    BY <1>1, <1>4, <1>5 DEF AfterHit, CacheTypes
  <1> QED  BY <1>2, <1>6, CachesKept, FeedKept DEF CacheTypes, CachesShown, FeedShown

\* What the provider answers is display data.
LEMMA AnswerShows ==
    ASSUME CacheTypes, CachesShown, FeedShown, Keeps, ProviderAnswers
    PROVE  CacheTypes' /\ CachesShown' /\ FeedShown'
  <1> DEFINE fresh == [age |-> 0, left |-> QuoteTtl, batch |-> 0]
  <1>1. PICK usable \in SUBSET asked :
          /\ l1' = [c \in Codes |-> IF c \in usable THEN fresh ELSE l1[c]]
          /\ \/ redis' = [c \in Codes |-> IF c \in usable THEN fresh ELSE redis[c]]
             \/ redis' = redis
    BY DEF ProviderAnswers, Answers
  <1>2. asked' = {} /\ UNCHANGED feed
    BY DEF ProviderAnswers
  <1>3. \A c \in Codes : fresh \in Showable(c)
    BY TicksAssumption DEF Showable, Shown, Cached, Quote
  <1> HIDE DEF fresh
  <1>4. \A c \in Codes : Showable(c) \subseteq Cached
    BY DEF Showable
  <1>5. /\ redis' \in [Codes -> Cached] /\ l1' \in [Codes -> Cached]
        /\ \A c \in Codes : redis'[c] \in Showable(c) /\ l1'[c] \in Showable(c)
    BY <1>1, <1>3, <1>4 DEF CacheTypes, CachesShown
  <1> QED  BY <1>2, <1>5, CachesKept, FeedKept DEF CacheTypes, FeedShown

LEMMA TickShows ==
    ASSUME CacheTypes, CachesShown, FeedShown, Keeps, QuoteTick
    PROVE  CacheTypes' /\ CachesShown' /\ FeedShown'
  <1>1. ASSUME NEW c \in Codes, NEW q \in Showable(c)  PROVE Older(q) \in Showable(c)
    <2> DEFINE older == [q EXCEPT !.age = @ + 1, !.left = @ - 1]
    <2>1. CASE q # NoQuote /\ q.left # 0
      <3>1. q \in Quote /\ Shown(c, q.batch)
        BY <1>1, <2>1 DEF Showable, Cached
      <3>2. q.age + 1 \in Nat /\ q.left - 1 \in Nat
        BY <2>1, <3>1 DEF Quote
      <3>3. older \in Quote /\ older.batch = q.batch
        <4> DEFINE a == q.age + 1
                   l == q.left - 1
        <4> HIDE DEF a, l
        <4>1. a \in Nat /\ l \in Nat
          BY <3>2 DEF a, l
        <4>2. [q EXCEPT !.age = a, !.left = l] \in Quote
              /\ [q EXCEPT !.age = a, !.left = l].batch = q.batch
          BY <3>1, <4>1 DEF Quote
        <4> QED  BY <4>2 DEF a, l
      <3> QED  BY <2>1, <3>1, <3>3 DEF Older, Showable, Cached
    <2> QED  BY <2>1 DEF Older, Showable, Cached
  <1>2. /\ redis' = [c \in Codes |-> Older(redis[c])] /\ l1' = [c \in Codes |-> Older(l1[c])]
        /\ UNCHANGED <<asked, feed>>
    BY DEF QuoteTick
  <1>3. /\ redis' \in [Codes -> Cached] /\ l1' \in [Codes -> Cached]
        /\ \A c \in Codes : redis'[c] \in Showable(c) /\ l1'[c] \in Showable(c)
    BY <1>1, <1>2 DEF CachesShown, Showable
  <1> QED  BY <1>2, <1>3, CachesKept, FeedKept DEF CacheTypes, FeedShown

LEMMA QuoteStep ==
    ASSUME QuoteInv, QuoteNext
    PROVE  QuoteInv' /\ Keeps
  <1> USE DEF QuoteInv
  <1>1. WriterTypes' /\ OneWriter' /\ Keeps
    BY WriterStep
  <1>2. ASSUME NEW s \in Syncs, \/ FetchBatch(s) \/ InsertQuotes(s) \/ InsertQuotesFails(s)
                                \/ FinalizeBatch(s) \/ SyncDies(s)
        PROVE  CacheTypes' /\ CachesShown' /\ FeedShown'
    <2>1. UNCHANGED <<redis, l1, asked, feed>>
      BY <1>2 DEF FetchBatch, InsertQuotes, InsertQuotesFails, FinalizeBatch, SyncDies
    <2> QED  BY <1>1, <2>1, CachesKept, FeedKept DEF CacheTypes, CachesShown, FeedShown
  <1>3. ASSUME NEW s \in Syncs, Publish(s)  PROVE CacheTypes' /\ CachesShown' /\ FeedShown'
    BY <1>1, <1>3, PublishShows
  <1>4. CASE AskQuote \/ AskQuotesBatch
    BY <1>1, <1>4, AskShows, TicksAssumption DEF AskQuote, AskQuotesBatch
  <1>5. CASE ProviderAnswers
    BY <1>1, <1>5, AnswerShows
  <1>6. CASE QuoteTick
    BY <1>1, <1>6, TickShows
  <1> QED  BY <1>1, <1>2, <1>3, <1>4, <1>5, <1>6 DEF QuoteNext

-----------------------------------------------------------------------------
(* The connections and what they are sent. *)

Casts == [message : Message, rest : SUBSET Clients, dead : SUBSET Clients]
PushTypes ==
    /\ serving \subseteq Clients
    /\ connections \in [Codes -> SUBSET Clients] /\ channel \in [Clients -> Codes \cup {NoCode}]
    /\ lastPing \in [Clients -> {"fresh", "late", "none"}]
    /\ got \in [Clients -> Message \cup {NoMessage}]
    /\ cast # NoCast => cast \in Casts

\* A client hears of no other stock than the one its connection is for.
Fits(w, message) == /\ Shown(message.code, message.batch)
                    /\ channel[w] \in {message.code, NoCode}
CastFits == cast # NoCast => /\ Shown(cast.message.code, cast.message.batch)
                             /\ \A w \in cast.rest : Fits(w, cast.message)
GotFits  == \A w \in Clients : got[w] # NoMessage => Fits(w, got[w])

PushInv == PushTypes /\ NothingIsLeftBehind /\ CastFits /\ GotFits

\* A step of the quotes leaves the pushes as they are and what was sent shown.
LEMMA PushesKept ==
    ASSUME PushInv, Keeps, UNCHANGED pushVars
    PROVE  PushInv'
  <1>1. UNCHANGED <<serving, connections, channel, lastPing, cast, got>>
    BY DEF pushVars
  <1>2. PushTypes' /\ NothingIsLeftBehind'
    BY <1>1 DEF PushInv, PushTypes, NothingIsLeftBehind
  <1>3. \A m \in Message : Shown(m.code, m.batch) => Shown(m.code, m.batch)'
    BY DEF Keeps, Message
  <1>4. CastFits'
    BY <1>1, <1>3 DEF PushInv, PushTypes, CastFits, Fits, Casts
  <1>5. GotFits'
    BY <1>1, <1>3 DEF PushInv, PushTypes, GotFits, Fits
  <1> QED  BY <1>2, <1>4, <1>5 DEF PushInv

\* disconnect takes a client out of every map.
LEMMA DisconnectLeaves ==
    ASSUME PushTypes, NothingIsLeftBehind, NEW ws \in SUBSET Clients, Disconnect(ws),
           serving' = serving \/ \E w \in ws : serving' = serving \ {w}
    PROVE  /\ connections' \in [Codes -> SUBSET Clients]
           /\ channel' \in [Clients -> Codes \cup {NoCode}]
           /\ lastPing' \in [Clients -> {"fresh", "late", "none"}]
           /\ \A w \in Clients : channel'[w] \in {channel[w], NoCode}
           /\ NothingIsLeftBehind'
  <1>1. /\ connections' = [c \in Codes |-> connections[c] \ ws]
        /\ channel' = [w \in Clients |-> IF w \in ws THEN NoCode ELSE channel[w]]
        /\ lastPing' = [w \in Clients |-> IF w \in ws THEN "none" ELSE lastPing[w]]
    BY DEF Disconnect
  <1>2. \A w \in Clients \ serving' : channel'[w] = NoCode /\ lastPing'[w] = "none"
    BY <1>1 DEF NothingIsLeftBehind
  <1>3. \A w \in Clients, c \in Codes : w \in connections'[c] <=> channel'[w] = c
    BY <1>1, NoCodeAssumption DEF NothingIsLeftBehind
  <1> QED  BY <1>1, <1>2, <1>3 DEF PushTypes, NothingIsLeftBehind

LEMMA PushStep ==
    ASSUME QuoteInv, PushInv, PushNext
    PROVE  QuoteInv' /\ PushInv'
  <1> USE DEF PushInv
  <1>1. ASSUME UNCHANGED quoteVars  PROVE QuoteInv' /\ Keeps
    BY <1>1 DEF quoteVars, QuoteInv, WriterTypes, CacheTypes, OneWriter, Owns, CachesShown,
                Showable, FeedShown, Shown, Keeps
  <1>2. ASSUME UNCHANGED quoteVars
        PROVE  \A c, b : Shown(c, b)' <=> Shown(c, b)
    BY <1>2 DEF quoteVars, Shown
  <1>3. ASSUME NEW w \in Clients, Connect(w), UNCHANGED quoteVars  PROVE PushInv'
    <2>1. PICK c \in Codes :
            /\ connections' = [connections EXCEPT ![c] = @ \cup {w}]
            /\ channel' = [channel EXCEPT ![w] = c]
      BY <1>3 DEF Connect
    <2>2. /\ w \notin serving /\ (cast # NoCast => w \notin cast.rest)
          /\ serving' = serving \cup {w} /\ lastPing' = [lastPing EXCEPT ![w] = "fresh"]
          /\ got' = [got EXCEPT ![w] = NoMessage] /\ cast' = cast
      BY <1>3 DEF Connect
    <2>3. \A d \in Codes : w \notin connections[d]
      BY <2>2, NoCodeAssumption DEF NothingIsLeftBehind
    <2>4. PushTypes'
      BY <2>1, <2>2 DEF PushTypes
    <2>5. NothingIsLeftBehind'
      BY <2>1, <2>2, <2>3 DEF PushTypes, NothingIsLeftBehind
    <2>6. CastFits'
      BY <1>2, <1>3, <2>1, <2>2 DEF PushTypes, CastFits, Fits, Casts
    <2>7. GotFits'
      BY <1>2, <1>3, <2>1, <2>2 DEF PushTypes, GotFits, Fits
    <2> QED  BY <2>4, <2>5, <2>6, <2>7
  <1>4. ASSUME NEW ws \in SUBSET Clients, Disconnect(ws), got' = got,
               serving' = serving \/ \E w \in ws : serving' = serving \ {w},
               cast' = cast \/ cast' = NoCast, UNCHANGED quoteVars
        PROVE  PushInv'
    <2>1. /\ connections' \in [Codes -> SUBSET Clients]
          /\ channel' \in [Clients -> Codes \cup {NoCode}]
          /\ lastPing' \in [Clients -> {"fresh", "late", "none"}]
          /\ \A w \in Clients : channel'[w] \in {channel[w], NoCode}
          /\ NothingIsLeftBehind'
      BY <1>4, DisconnectLeaves
    <2>2. PushTypes'
      BY <1>4, <2>1 DEF PushTypes
    <2>3. CastFits'
      BY <1>2, <1>4, <2>1 DEF PushTypes, CastFits, Fits, Casts
    <2>4. GotFits'
      BY <1>2, <1>4, <2>1 DEF PushTypes, GotFits, Fits
    <2> QED  BY <2>1, <2>2, <2>3, <2>4
  <1>5. ASSUME NEW w \in Clients, PeerCloses(w), UNCHANGED quoteVars  PROVE PushInv'
    <2>1. /\ {w} \in SUBSET Clients /\ Disconnect({w}) /\ got' = got /\ cast' = cast
          /\ \E u \in {w} : serving' = serving \ {u}
      BY <1>5 DEF PeerCloses
    <2> QED  BY <1>4, <1>5, <2>1
  <1>6. ASSUME Heartbeat, UNCHANGED quoteVars  PROVE PushInv'
    <2> DEFINE stale == {w \in Clients : lastPing[w] = "late"}
    <2>1. /\ stale \in SUBSET Clients /\ Disconnect(stale)
          /\ serving' = serving /\ got' = got /\ cast' = cast
      BY <1>6 DEF Heartbeat
    <2> HIDE DEF stale
    <2> QED  BY <1>4, <1>6, <2>1
  <1>7. ASSUME BroadcastEnds, UNCHANGED quoteVars  PROVE PushInv'
    <2>1. /\ cast.dead \in SUBSET Clients /\ Disconnect(cast.dead)
          /\ serving' = serving /\ got' = got /\ cast' = NoCast
      BY <1>7 DEF BroadcastEnds, PushTypes, Casts
    <2> QED  BY <1>4, <1>7, <2>1
  <1>8. ASSUME NEW w \in Clients, Ping(w) \/ PingIsLate(w), UNCHANGED quoteVars  PROVE PushInv'
    <2>1. /\ UNCHANGED <<serving, connections, channel, cast, got>>
          /\ w \in serving
          /\ \/ lastPing' = [lastPing EXCEPT ![w] = "fresh"]
             \/ lastPing' = [lastPing EXCEPT ![w] = "late"]
      BY <1>8 DEF Ping, PingIsLate, NothingIsLeftBehind
    <2>2. PushTypes' /\ NothingIsLeftBehind'
      BY <2>1 DEF PushTypes, NothingIsLeftBehind
    <2>3. CastFits' /\ GotFits'
      BY <1>2, <1>8, <2>1 DEF CastFits, GotFits, Fits
    <2> QED  BY <2>2, <2>3
  <1>9. ASSUME NEW w \in Clients, Send(w), UNCHANGED quoteVars  PROVE PushInv'
    <2>1. /\ cast # NoCast /\ cast \in Casts /\ w \in cast.rest /\ Fits(w, cast.message)
          /\ UNCHANGED <<serving, connections, channel, lastPing>>
      BY <1>9 DEF Send, PushTypes, CastFits
    <2>2. /\ cast' \in Casts /\ cast'.message = cast.message /\ cast'.rest \subseteq cast.rest
          /\ got' = [got EXCEPT ![w] = cast.message] \/ got' = got
      BY <1>9, <2>1 DEF Send, Casts
    <2>3. PushTypes' /\ NothingIsLeftBehind'
      BY <2>1, <2>2 DEF PushTypes, NothingIsLeftBehind, Casts
    <2>4. CastFits'
      BY <1>2, <1>9, <2>1, <2>2 DEF CastFits, Fits
    <2>5. GotFits'
      BY <1>2, <1>9, <2>1, <2>2 DEF PushTypes, GotFits, Fits
    <2> QED  BY <2>3, <2>4, <2>5
  <1>10. ASSUME Broadcast, UNCHANGED <<quoteBatches, sync, redis, l1, asked>>
         PROVE  QuoteInv' /\ PushInv'
    <2>1. /\ feed # <<>> /\ feed' = Tail(feed)
          /\ cast' = [message |-> Head(feed), rest |-> connections[Head(feed).code], dead |-> {}]
          /\ UNCHANGED <<serving, connections, channel, lastPing, got>>
      BY <1>10 DEF Broadcast
    <2>2. \A c, b : Shown(c, b)' <=> Shown(c, b)
      BY <1>10 DEF Shown
    <2>3. /\ feed \in Seq(Message) /\ feed' \in Seq(Message)
          /\ Len(feed') = Len(feed) - 1 /\ Len(feed) \in Nat
          /\ \A i \in 1 .. Len(feed') : feed'[i] = feed[i + 1]
      BY <2>1, HeadTailProperties, LenProperties DEF QuoteInv, CacheTypes
    <2>4. FeedShown'
      BY <2>2, <2>3 DEF QuoteInv, FeedShown
    <2>5. WriterTypes' /\ OneWriter' /\ CacheTypes' /\ CachesShown'
      BY <1>10, <2>3 DEF QuoteInv, WriterTypes, CacheTypes, OneWriter, Owns, CachesShown,
                         Showable, Shown
    <2>6. Head(feed) \in Message /\ Shown(Head(feed).code, Head(feed).batch)
      BY <2>1, <2>3, HeadTailProperties DEF QuoteInv, FeedShown
    <2>7. Head(feed).code \in Codes /\ connections[Head(feed).code] \subseteq Clients
      BY <2>6 DEF Message, PushTypes
    <2>8. /\ cast' \in Casts /\ cast'.message = Head(feed)
          /\ cast'.rest = connections[Head(feed).code]
      BY <2>1, <2>6, <2>7 DEF Casts
    <2>9. PushTypes' /\ NothingIsLeftBehind' /\ GotFits'
      BY <2>1, <2>2, <2>8 DEF PushTypes, NothingIsLeftBehind, GotFits, Fits
    <2>10. CastFits'
      BY <2>1, <2>2, <2>6, <2>7, <2>8 DEF CastFits, Fits, NothingIsLeftBehind
    <2> QED  BY <2>4, <2>5, <2>9, <2>10 DEF QuoteInv
  <1> QED  BY <1>1, <1>3, <1>5, <1>6, <1>7, <1>8, <1>9, <1>10 DEF PushNext

-----------------------------------------------------------------------------

Inv == QuoteInv /\ PushInv

LEMMA InvInit == ASSUME Init  PROVE Inv
  <1>1. QuoteInit /\ PushInit
    BY DEF Init
  <1>2. WriterTypes /\ OneWriter
    BY <1>1 DEF QuoteInit, WriterTypes, OneWriter, IdleSync, Sync
  <1>3. CacheTypes /\ CachesShown /\ FeedShown
    BY <1>1 DEF QuoteInit, NoQuotes, CacheTypes, CachesShown, Showable, Cached, FeedShown
  <1>4. PushInv
    BY <1>1, NoCodeAssumption DEF PushInit, PushInv, PushTypes, NothingIsLeftBehind,
                                  CastFits, GotFits
  <1> QED  BY <1>2, <1>3, <1>4 DEF Inv, QuoteInv

LEMMA InvStep == ASSUME Inv, [Next]_vars  PROVE Inv'
  <1> USE DEF Inv
  <1>1. CASE UNCHANGED <<quoteVars, pushVars>>
    BY <1>1, PushesKept DEF quoteVars, QuoteInv, WriterTypes, CacheTypes, OneWriter, Owns,
                            CachesShown, Showable, FeedShown, Shown, Keeps
  <1>2. CASE QuoteNext /\ UNCHANGED pushVars
    BY <1>2, QuoteStep, PushesKept
  <1>3. CASE PushNext
    BY <1>3, PushStep
  <1> QED  BY <1>1, <1>2, <1>3 DEF Next, Readers, Subscribers, vars

\* QuotesAreOnRecord and NothingIsLeftBehind follow from it.
LEMMA InvImplies == ASSUME Inv  PROVE NothingIsLeftBehind /\ QuotesAreOnRecord
  <1>1. \A c \in Codes, b \in Nat : Shown(c, b) => OnRecord(c, b)
    BY DEF Shown, OnRecord, Closed
  <1>2. ASSUME NEW c \in Codes, NEW q \in {redis[c], l1[c]} \ {NoQuote}
        PROVE  OnRecord(c, q.batch)
    <2>1. q \in Quote /\ Shown(c, q.batch)
      BY <1>2 DEF Inv, QuoteInv, CachesShown, Showable, Cached
    <2> QED  BY <1>1, <2>1 DEF Quote
  <1>3. ASSUME NEW i \in 1 .. Len(feed)  PROVE OnRecord(feed[i].code, feed[i].batch)
    <2>1. feed[i] \in Message
      BY ElementOfSeq DEF Inv, QuoteInv, CacheTypes
    <2>2. Shown(feed[i].code, feed[i].batch)
      BY DEF Inv, QuoteInv, FeedShown
    <2> QED  BY <1>1, <2>1, <2>2 DEF Message
  <1>4. ASSUME NEW w \in Clients, got[w] # NoMessage
        PROVE  OnRecord(got[w].code, got[w].batch) /\ channel[w] \in {got[w].code, NoCode}
    <2>1. got[w] \in Message /\ Fits(w, got[w])
      BY <1>4 DEF Inv, PushInv, PushTypes, GotFits
    <2> QED  BY <1>1, <2>1 DEF Message, Fits
  <1>5. NothingIsLeftBehind
    BY DEF Inv, PushInv
  <1>6. FeedIsOnRecord
    BY <1>2, <1>3 DEF FeedIsOnRecord
  <1> QED  BY <1>4, <1>5, <1>6 DEF QuotesAreOnRecord

\* Whatever is awaited while connections end - a broadcast to a snapshot that
\* still names them, a heartbeat, their own handlers - no map of the
\* WebSocketManager keeps one, for any number of connections and stocks.
THEOREM ConnectionsLeaveNothing == Spec => []NothingIsLeftBehind
  BY InvInit, InvStep, InvImplies, PTL DEF Spec

\* Whatever a run of the worker leaves undone, nothing reaches a cache, a message
\* or a client that is not stored with its provenance in a closed batch, unless
\* it is the backend's own display data; and a client hears of its stock only.
THEOREM QuotesAlwaysOnRecord == Spec => []QuotesAreOnRecord
  BY InvInit, InvStep, InvImplies, PTL DEF Spec

-----------------------------------------------------------------------------
(* How old a cached quote can be. *)

RedisLife == Max({Hold + WorkerTtl, QuoteTtl})
L1Life    == Max({RefillTtl, BatchRefillTtl})

\* Age and remaining life add up to no more than a value was given.
Fresh ==
    /\ \A s \in Syncs : sync[s].held <= Hold
    /\ \A c \in Codes : redis[c] # NoQuote => redis[c].age + redis[c].left <= RedisLife
    /\ \A c \in Codes : l1[c] # NoQuote => l1[c].age + l1[c].left <= RedisLife + L1Life

LEMMA MaxOfTwo ==
    ASSUME NEW a \in Nat, NEW b \in Nat
    PROVE  Max({a, b}) \in Nat /\ a <= Max({a, b}) /\ b <= Max({a, b})
  <1>1. \E x \in {a, b} : \A y \in {a, b} : x >= y
    BY a \in Nat, b \in Nat, a >= b \/ b >= a
  <1>2. Max({a, b}) \in {a, b} /\ \A y \in {a, b} : Max({a, b}) >= y
    BY <1>1 DEF Max
  <1> QED  BY <1>2

LEMMA Lives ==
    /\ RedisLife \in Nat /\ L1Life \in Nat
    /\ Hold + WorkerTtl <= RedisLife /\ QuoteTtl <= RedisLife
    /\ RefillTtl <= L1Life /\ BatchRefillTtl <= L1Life
  <1>1. Hold + WorkerTtl \in Nat /\ QuoteTtl \in Nat /\ RefillTtl \in Nat /\ BatchRefillTtl \in Nat
    BY TicksAssumption
  <1> QED  BY <1>1, MaxOfTwo DEF RedisLife, L1Life

\* Only the tick adds to what a run has held, and it waits for a run at its bound.
LEMMA HeldStep ==
    ASSUME WriterTypes, Fresh, QuoteNext
    PROVE  \A s \in Syncs : sync'[s].held <= Hold
  <1>1. /\ \A s \in Syncs : sync[s] \in Sync /\ sync[s].held <= Hold
        /\ IdleSync.held = 0 /\ Hold \in Nat
    BY TicksAssumption DEF WriterTypes, Fresh, IdleSync
  <1>2. ASSUME NEW s \in Syncs,
               /\ DOMAIN sync' = Syncs /\ \A t \in Syncs \ {s} : sync'[t] = sync[t]
               /\ sync'[s].held \in {0, sync[s].held}
        PROVE  \A t \in Syncs : sync'[t].held <= Hold
    BY <1>1, <1>2
  <1>3. ASSUME NEW s \in Syncs, \/ FetchBatch(s) \/ InsertQuotes(s) \/ InsertQuotesFails(s)
                                \/ FinalizeBatch(s) \/ Publish(s) \/ SyncDies(s)
        PROVE  \A t \in Syncs : sync'[t].held <= Hold
    <2>1. CASE FetchBatch(s)
      <3>1. PICK valid \in SUBSET Codes :
              sync' = IF valid = {} THEN sync
                      ELSE [sync EXCEPT ![s] = [@ EXCEPT !.at = "recorded", !.valid = valid,
                                                        !.batch = Len(quoteBatches) + 1]]
        BY <2>1 DEF FetchBatch, ValidCodes
      <3> DEFINE next == [sync[s] EXCEPT !.at = "recorded", !.valid = valid,
                                         !.batch = Len(quoteBatches) + 1]
      <3>2. next.held = sync[s].held /\ (sync' = [sync EXCEPT ![s] = next] \/ sync' = sync)
        BY <1>1, <3>1 DEF Sync
      <3> HIDE DEF next
      <3> QED  BY <1>2, <3>2 DEF WriterTypes
    <2>2. CASE InsertQuotes(s)
      <3> DEFINE next == [sync[s] EXCEPT !.at = "stored"]
      <3>1. next.held = sync[s].held /\ sync' = [sync EXCEPT ![s] = next]
        BY <1>1, <2>2 DEF Sync, InsertQuotes
      <3> HIDE DEF next
      <3> QED  BY <1>2, <3>1 DEF WriterTypes
    <2>3. CASE InsertQuotesFails(s) \/ SyncDies(s)
      <3>1. sync' = [sync EXCEPT ![s] = IdleSync]
        BY <2>3 DEF InsertQuotesFails, SyncDies
      <3> QED  BY <1>1, <1>2, <3>1 DEF WriterTypes
    <2>4. CASE FinalizeBatch(s)
      <3> DEFINE next == [sync[s] EXCEPT !.at = "publishing", !.rest = Accepted(s)]
      <3>1. next.held = sync[s].held /\ sync' = [sync EXCEPT ![s] = next]
        BY <1>1, <2>4 DEF Sync, FinalizeBatch
      <3> HIDE DEF next
      <3> QED  BY <1>2, <3>1 DEF WriterTypes
    <2>5. CASE Publish(s)
      <3>1. PICK c \in sync[s].rest :
              sync' = [sync EXCEPT ![s] = IF @.rest = {c} THEN IdleSync
                                          ELSE [@ EXCEPT !.rest = sync[s].rest \ {c}]]
        BY <2>5 DEF Publish
      <3>2. [sync[s] EXCEPT !.rest = sync[s].rest \ {c}].held = sync[s].held
        BY <1>1 DEF Sync
      <3> DEFINE next == IF sync[s].rest = {c} THEN IdleSync
                         ELSE [sync[s] EXCEPT !.rest = sync[s].rest \ {c}]
      <3>3. next.held \in {0, sync[s].held} /\ sync' = [sync EXCEPT ![s] = next]
        BY <1>1, <3>1, <3>2
      <3> HIDE DEF next
      <3> QED  BY <1>2, <3>3 DEF WriterTypes
    <2> QED  BY <1>3, <2>1, <2>2, <2>3, <2>4, <2>5
  <1>4. CASE QuoteTick
    <2>1. /\ \A s \in Syncs : sync[s].at # "idle" => sync[s].held < Hold
          /\ sync' = [s \in Syncs |-> IF SyncAt(s, "idle") THEN IdleSync
                                      ELSE [sync[s] EXCEPT !.held = @ + 1]]
      BY <1>4 DEF QuoteTick
    <2>2. \A s \in Syncs : [sync[s] EXCEPT !.held = @ + 1].held = sync[s].held + 1
                           /\ sync[s].held \in Nat
      BY <1>1 DEF Sync
    <2> QED  BY <1>1, <2>1, <2>2 DEF SyncAt
  <1>5. CASE AskQuote \/ AskQuotesBatch \/ ProviderAnswers
    BY <1>1, <1>5 DEF AskQuote, AskQuotesBatch, AskQuotes, ProviderAnswers
  <1> QED  BY <1>3, <1>4, <1>5 DEF QuoteNext

\* A value starts with its life, is refilled with one of L1's, and ages.
LEMMA LifeStep ==
    ASSUME QuoteInv, Fresh, QuoteNext
    PROVE  /\ \A c \in Codes : redis'[c] # NoQuote => redis'[c].age + redis'[c].left <= RedisLife
           /\ \A c \in Codes : l1'[c] # NoQuote => l1'[c].age + l1'[c].left <= RedisLife + L1Life
  <1>1. /\ \A s \in Syncs : sync[s] \in Sync /\ sync[s].held <= Hold
        /\ redis \in [Codes -> Cached] /\ l1 \in [Codes -> Cached] /\ asked \subseteq Codes
        /\ {Hold, WorkerTtl, QuoteTtl, RefillTtl, BatchRefillTtl} \subseteq Nat
    BY TicksAssumption DEF QuoteInv, WriterTypes, CacheTypes, Fresh
  <1> DEFINE Young(q, life) == q # NoQuote => q.age + q.left <= life
  <1>2. \A c \in Codes : Young(redis[c], RedisLife) /\ Young(l1[c], RedisLife + L1Life)
    BY DEF Fresh
  <1>3. ASSUME UNCHANGED <<redis, l1>>
        PROVE  \A c \in Codes : Young(redis'[c], RedisLife) /\ Young(l1'[c], RedisLife + L1Life)
    BY <1>2, <1>3
  <1>4. ASSUME NEW s \in Syncs, Publish(s)
        PROVE  \A c \in Codes : Young(redis'[c], RedisLife) /\ Young(l1'[c], RedisLife + L1Life)
    <2>1. PICK d \in sync[s].rest :
            SetQuote(d, [age |-> sync[s].held, left |-> WorkerTtl, batch |-> sync[s].batch])
      BY <1>4 DEF Publish
    <2> DEFINE quote == [age |-> sync[s].held, left |-> WorkerTtl, batch |-> sync[s].batch]
    <2>2. quote.age + quote.left <= RedisLife
      <3>1. sync[s].held \in Nat
        BY <1>1 DEF Sync
      <3> QED  BY <1>1, <3>1, Lives
    <2>3. l1' = l1 /\ (redis' = [redis EXCEPT ![d] = quote] \/ redis' = redis)
      BY <1>4, <2>1 DEF Publish, SetQuote
    <2> HIDE DEF quote
    <2> QED  BY <1>1, <1>2, <2>2, <2>3
  <1>5. ASSUME NEW codes \in SUBSET Codes, NEW ttl \in {RefillTtl, BatchRefillTtl},
               AskQuotes(codes, ttl)
        PROVE  \A c \in Codes : Young(redis'[c], RedisLife) /\ Young(l1'[c], RedisLife + L1Life)
    <2>1. PICK up \in BOOLEAN :
            LET found == [c \in Codes |-> IF c \in codes THEN Lookup(c, up) ELSE NoQuote]
            IN /\ l1' = [c \in Codes |-> Refill(c, found[c], ttl)]
               /\ redis' = [c \in Codes |-> AfterHit(c, found[c])]
      BY <1>5 DEF AskQuotes
    <2> DEFINE found == [c \in Codes |-> IF c \in codes THEN Lookup(c, up) ELSE NoQuote]
    <2>2. ASSUME NEW c \in Codes  PROVE Young(Refill(c, found[c], ttl), RedisLife + L1Life)
      <3>1. CASE l1[c] = NoQuote /\ found[c] # NoQuote
        <4>1. found[c] = redis[c]
          BY <3>1 DEF Lookup
        <4>2. redis[c] \in Quote /\ redis[c].age <= RedisLife
          BY <1>1, <1>2, <3>1, <4>1, Lives DEF Cached, Quote
        <4>3. /\ [redis[c] EXCEPT !.left = ttl].age = redis[c].age
              /\ [redis[c] EXCEPT !.left = ttl].left = ttl
          BY <4>2 DEF Quote
        <4>4. redis[c].age + ttl <= RedisLife + L1Life
          BY <1>1, <4>2, Lives DEF Quote
        <4> QED  BY <3>1, <4>1, <4>3, <4>4 DEF Refill
      <3> QED  BY <1>2, <3>1 DEF Refill
    <2> HIDE DEF found
    <2> QED  BY <1>1, <1>2, <2>1, <2>2 DEF AfterHit, found
  <1>6. CASE ProviderAnswers
    <2> DEFINE fresh == [age |-> 0, left |-> QuoteTtl, batch |-> 0]
    <2>1. PICK usable \in SUBSET asked :
            /\ l1' = [c \in Codes |-> IF c \in usable THEN fresh ELSE l1[c]]
            /\ \/ redis' = [c \in Codes |-> IF c \in usable THEN fresh ELSE redis[c]]
               \/ redis' = redis
      BY <1>6 DEF ProviderAnswers, Answers
    <2>2. fresh.age + fresh.left <= RedisLife /\ fresh.age + fresh.left <= RedisLife + L1Life
      BY <1>1, Lives
    <2> HIDE DEF fresh
    <2> QED  BY <1>2, <2>1, <2>2
  <1>7. CASE QuoteTick
    <2>1. redis' = [c \in Codes |-> Older(redis[c])] /\ l1' = [c \in Codes |-> Older(l1[c])]
      BY <1>7 DEF QuoteTick
    <2>2. ASSUME NEW q \in Cached, NEW life \in Nat, Young(q, life)
          PROVE  Young(Older(q), life)
      <3>1. CASE q # NoQuote /\ q.left # 0
        <4>1. q \in Quote /\ q.age \in Nat /\ q.left \in Nat
          BY <3>1 DEF Cached, Quote
        <4> DEFINE a == q.age + 1
                   l == q.left - 1
        <4>2. a + l <= life
          BY <2>2, <3>1, <4>1
        <4> HIDE DEF a, l
        <4>3. [q EXCEPT !.age = a, !.left = l].age = a /\ [q EXCEPT !.age = a, !.left = l].left = l
          BY <4>1 DEF Quote
        <4>4. Older(q) = [q EXCEPT !.age = a, !.left = l]
          BY <3>1 DEF Older, a, l
        <4> QED  BY <4>2, <4>3, <4>4
      <3> QED  BY <3>1 DEF Older
    <2>3. RedisLife \in Nat /\ RedisLife + L1Life \in Nat
      BY Lives
    <2> QED  BY <1>1, <1>2, <2>1, <2>2, <2>3
  <1>8. ASSUME NEW s \in Syncs, \/ FetchBatch(s) \/ InsertQuotes(s) \/ InsertQuotesFails(s)
                                \/ FinalizeBatch(s) \/ SyncDies(s)
        PROVE  UNCHANGED <<redis, l1>>
    BY <1>8 DEF FetchBatch, InsertQuotes, InsertQuotesFails, FinalizeBatch, SyncDies
  <1>9. CASE AskQuote \/ AskQuotesBatch
    BY <1>5, <1>9 DEF AskQuote, AskQuotesBatch
  <1> QED  BY <1>3, <1>4, <1>6, <1>7, <1>8, <1>9 DEF QuoteNext

LEMMA FreshInit == ASSUME Init  PROVE Fresh
  BY TicksAssumption DEF Init, QuoteInit, Fresh, IdleSync, NoQuotes

LEMMA FreshNext == ASSUME Inv, Fresh, [Next]_vars  PROVE Fresh'
  <1>1. CASE QuoteNext
    BY <1>1, HeldStep, LifeStep DEF Inv, QuoteInv, Fresh
  <1>2. CASE UNCHANGED <<quoteBatches, sync, redis, l1, asked>>
    BY <1>2 DEF Fresh
  <1> QED  BY <1>1, <1>2 DEF Next, Readers, Subscribers, PushNext, quoteVars, vars

LEMMA FreshImplies == ASSUME Inv, Fresh  PROVE ServedQuotesAreFresh
  <1> SUFFICES ASSUME NEW c \in Codes, Lookup(c, TRUE) # NoQuote
               PROVE  Lookup(c, TRUE).age <= RedisLife + L1Life
    BY DEF ServedQuotesAreFresh, RedisLife, L1Life
  <1>1. CASE l1[c] # NoQuote
    <2>1. l1[c] \in Quote
      BY <1>1 DEF Inv, QuoteInv, CacheTypes, Cached
    <2> QED  BY <1>1, <2>1, Lives DEF Fresh, Lookup, Quote
  <1>2. CASE l1[c] = NoQuote
    <2>1. Lookup(c, TRUE) = redis[c] /\ redis[c] \in Quote
      BY <1>2 DEF Lookup, Inv, QuoteInv, CacheTypes, Cached
    <2>2. redis[c].age + redis[c].left <= RedisLife
      BY <2>1 DEF Fresh
    <2>3. redis[c].age \in Nat /\ redis[c].left \in Nat
      BY <2>1 DEF Quote
    <2>4. redis[c].age <= RedisLife + L1Life
      BY <2>2, <2>3, Lives
    <2> QED  BY <2>1, <2>4
  <1> QED  BY <1>1, <1>2

\* However L1 and Redis refill each other, no caller is served a quote older than
\* the longest life in Redis, one refill and the time a worker needs: a bound
\* that no number of hits extends.
THEOREM QuotesAlwaysFresh == Spec => []ServedQuotesAreFresh
  BY InvInit, InvStep, FreshInit, FreshNext, FreshImplies, PTL DEF Spec

-----------------------------------------------------------------------------
(* The stores of bars.  Of KlineStore: a certificate names a certified     *)
(* batch and the row holds its columns and no other's; the batch of an     *)
(* import under way is validated and not yet certified.  BarsInv adds what *)
(* importers hold, what the certified store has and what reviews found.    *)

DataBatch == [provider : {"unknown", "synthetic", "sohu"}, passed : BOOLEAN,
              status : {"validated", "rejected", "failed", "certified", "rolled_back"}]
Bar       == [prices : Nat, rest : Nat]
Evidence  == [batch : Nat, certified : BOOLEAN]

KlineTypes ==
    /\ klines \in [Keys -> Bar \cup {NoBar}] /\ provenance \in [Keys -> Evidence \cup {NoBar}]
    /\ dataBatches \in Seq(DataBatch)
    /\ saves \subseteq SUBSET Keys
    /\ importing.at \in {"idle", "checked"}

\* Values and provenance are written together.
Paired == \A k \in Keys : klines[k] = NoBar <=> provenance[k] = NoBar

\* The batch a certificate names.
Backed(b) == /\ b \in 1 .. Len(dataBatches)
             /\ dataBatches[b].status = "certified" /\ Known(dataBatches[b].provider)
CertificatesBacked ==
    \A k \in CertifiedKeys :
        /\ Backed(provenance[k].batch)
        /\ klines[k] = [prices |-> provenance[k].batch, rest |-> provenance[k].batch]

\* The batch of the importer's open transaction.
ImportOpen ==
    importing.at = "checked" =>
        /\ importing.keys \subseteq Keys
        /\ importing.batch \in 1 .. Len(dataBatches)
        /\ dataBatches[importing.batch].status = "validated"

KlineInv == KlineTypes /\ Paired /\ CertificatesBacked /\ ImportOpen

-----------------------------------------------------------------------------

\* Another batch backs no certificate and takes none away.
LEMMA BatchAppended ==
    ASSUME KlineInv, NEW batch \in DataBatch, dataBatches' = Append(dataBatches, batch)
    PROVE  /\ dataBatches' \in Seq(DataBatch) /\ NextBatch \in Nat
           /\ NextBatch \in 1 .. Len(dataBatches') /\ dataBatches'[NextBatch] = batch
           /\ \A b \in 1 .. Len(dataBatches) :
                 b \in 1 .. Len(dataBatches') /\ dataBatches'[b] = dataBatches[b]
           /\ \A b : Backed(b) => Backed(b)'
  <1>1. /\ dataBatches' \in Seq(DataBatch) /\ Len(dataBatches) \in Nat
        /\ Len(dataBatches') = Len(dataBatches) + 1
        /\ dataBatches'[Len(dataBatches) + 1] = batch
        /\ \A b \in 1 .. Len(dataBatches) : dataBatches'[b] = dataBatches[b]
    BY AppendProperties, LenProperties DEF KlineInv, KlineTypes
  <1> QED  BY <1>1 DEF Backed, NextBatch

\* A save of the display path or a backfill: the rows it writes lose their
\* certificate, whatever columns they keep.
LEMMA OverwriteUncertifies ==
    ASSUME KlineInv, NEW keys \in SUBSET Keys, NEW whole \in BOOLEAN, NEW batch \in DataBatch,
           dataBatches' = Append(dataBatches, batch), RecordProvenance(keys, NextBatch),
           klines' = [k \in Keys |-> IF k \in keys THEN Overwritten(k, NextBatch, whole)
                                     ELSE klines[k]],
           saves' \subseteq saves, UNCHANGED importing
    PROVE  KlineInv'
  <1>1. /\ dataBatches' \in Seq(DataBatch) /\ NextBatch \in Nat
        /\ \A b \in 1 .. Len(dataBatches) :
              b \in 1 .. Len(dataBatches') /\ dataBatches'[b] = dataBatches[b]
        /\ \A b : Backed(b) => Backed(b)'
    BY BatchAppended
  <1>2. \A k \in Keys : Overwritten(k, NextBatch, whole) \in Bar
    BY <1>1 DEF Overwritten, Bar, KlineInv, KlineTypes
  <1>3. [batch |-> NextBatch, certified |-> FALSE] \in Evidence
    BY <1>1 DEF Evidence
  <1>4. NoBar \notin Bar \cup Evidence
    BY NoBarAssumption DEF Bar, Evidence
  <1>5. KlineTypes'
    BY <1>1, <1>2, <1>3 DEF KlineInv, KlineTypes, RecordProvenance
  <1>6. Paired'
    BY <1>2, <1>3, <1>4 DEF KlineInv, Paired, RecordProvenance
  <1>7. ASSUME NEW k \in CertifiedKeys'
        PROVE  k \notin keys /\ k \in CertifiedKeys
    BY <1>7 DEF CertifiedKeys, RecordProvenance
  <1>8. CertificatesBacked'
    BY <1>1, <1>7 DEF KlineInv, CertificatesBacked, CertifiedKeys, RecordProvenance
  <1>9. ImportOpen'
    BY <1>1 DEF KlineInv, ImportOpen
  <1> QED  BY <1>5, <1>6, <1>8, <1>9 DEF KlineInv

LEMMA KlineStep ==
    ASSUME KlineInv, KlineNext
    PROVE  KlineInv'
  <1>1. CASE SaveDisplayed
    <2>1. PICK keys \in saves :
            /\ klines' = [k \in Keys |-> IF k \in keys THEN Overwritten(k, NextBatch, FALSE)
                                         ELSE klines[k]]
            /\ RecordProvenance(keys, NextBatch) /\ saves' = saves \ {keys}
            /\ dataBatches' = Append(dataBatches, NewBatch("unknown", TRUE))
            /\ UNCHANGED importing
      BY <1>1 DEF SaveDisplayed
    <2>2. keys \in SUBSET Keys /\ NewBatch("unknown", TRUE) \in DataBatch
      BY DEF KlineInv, KlineTypes, NewBatch, Known, DataBatch
    <2> QED  BY <2>1, <2>2, OverwriteUncertifies
  <1>2. CASE Backfill
    <2>1. PICK keys \in SUBSET Keys, provider \in {"unknown", "synthetic"} :
            /\ klines' = [k \in Keys |-> IF k \in keys THEN Overwritten(k, NextBatch, TRUE)
                                         ELSE klines[k]]
            /\ RecordProvenance(keys, NextBatch)
            /\ dataBatches' = Append(dataBatches, NewBatch(provider, TRUE))
            /\ UNCHANGED <<saves, importing>>
      <3>1. PICK stamp \in Stamps, days \in SUBSET KlineDays, provider \in {"unknown", "synthetic"} :
              LET keys == IF provider = "synthetic" THEN SyntheticKeys(days) ELSE days \X {stamp}
              IN /\ klines' = [k \in Keys |-> IF k \in keys THEN Overwritten(k, NextBatch, TRUE)
                                              ELSE klines[k]]
                 /\ RecordProvenance(keys, NextBatch)
                 /\ dataBatches' = Append(dataBatches, NewBatch(provider, TRUE))
        BY <1>2 DEF Backfill
      <3> DEFINE keys == IF provider = "synthetic" THEN SyntheticKeys(days) ELSE days \X {stamp}
      <3>2. keys \in SUBSET Keys
        BY StampsAssumption DEF SyntheticKeys, Keys
      <3> QED  BY <1>2, <3>1, <3>2 DEF Backfill
    <2>2. NewBatch(provider, TRUE) \in DataBatch
      BY DEF NewBatch, Known, DataBatch
    <2> QED  BY <2>1, <2>2, OverwriteUncertifies
  <1>3. CASE GetKline
    <2>1. /\ UNCHANGED <<klines, provenance, dataBatches, importing>>
          /\ saves' \subseteq SUBSET Keys
      BY <1>3 DEF GetKline, KlineInv, KlineTypes, Keys
    <2> QED  BY <2>1 DEF KlineInv, KlineTypes, Paired, CertificatesBacked, CertifiedKeys, Backed,
                         ImportOpen
  <1>4. CASE CacheExpires \/ SaveIsLost
    <2>1. /\ UNCHANGED <<klines, provenance, dataBatches, importing>>
          /\ saves' \subseteq saves
      BY <1>4 DEF CacheExpires, SaveIsLost
    <2> QED  BY <2>1 DEF KlineInv, KlineTypes, Paired, CertificatesBacked, CertifiedKeys, Backed,
                         ImportOpen
  <1>5. CASE ImportFails
    <2>1. PICK batch \in DataBatch :
            /\ dataBatches' = Append(dataBatches, batch)
            /\ UNCHANGED <<klines, provenance, saves, importing>>
      BY <1>5 DEF ImportFails, DataBatch
    <2> QED  BY <2>1, BatchAppended DEF KlineInv, KlineTypes, Paired, CertificatesBacked,
                                        CertifiedKeys, ImportOpen
  <1>6. CASE ImportChecks
    <2>1. PICK days \in SUBSET KlineDays, ok \in BOOLEAN :
            /\ dataBatches' = Append(dataBatches,
                  IF ok /\ ~ Collides(days) THEN NewBatch("sohu", ok)
                  ELSE [NewBatch("sohu", ok) EXCEPT !.status = "rejected"])
            /\ importing' = IF ok /\ ~ Collides(days)
                            THEN [at |-> "checked", keys |-> days \X {"close"}, batch |-> NextBatch]
                            ELSE NotImporting
            /\ UNCHANGED <<klines, provenance, saves>>
      BY <1>6 DEF ImportChecks
    <2> DEFINE batch == IF ok /\ ~ Collides(days) THEN NewBatch("sohu", ok)
                        ELSE [NewBatch("sohu", ok) EXCEPT !.status = "rejected"]
    <2>2. batch \in DataBatch /\ (ok /\ ~ Collides(days) => batch.status = "validated")
      BY DEF NewBatch, Known, DataBatch
    <2>3. days \X {"close"} \subseteq Keys
      BY StampsAssumption DEF Keys
    <2>4. dataBatches' = Append(dataBatches, batch)
      BY <2>1
    <2> HIDE DEF batch
    <2>5. /\ dataBatches' \in Seq(DataBatch)
          /\ NextBatch \in 1 .. Len(dataBatches') /\ dataBatches'[NextBatch] = batch
          /\ \A b : Backed(b) => Backed(b)'
      BY <2>2, <2>4, BatchAppended
    <2>6. KlineTypes' /\ Paired' /\ CertificatesBacked'
      BY <2>1, <2>5 DEF KlineInv, KlineTypes, Paired, CertificatesBacked, CertifiedKeys,
                        NotImporting
    <2>7. ImportOpen'
      BY <2>1, <2>2, <2>3, <2>5 DEF ImportOpen, NotImporting
    <2> QED  BY <2>6, <2>7 DEF KlineInv
  <1>7. CASE ImportCommits
    <2>0. PICK b : b = importing.batch
      OBVIOUS
    <2> DEFINE row == [dataBatches[b] EXCEPT !.status = "certified"]
    <2>1. /\ importing.keys \subseteq Keys /\ b \in 1 .. Len(dataBatches) /\ b \in Nat
          /\ dataBatches[b] \in DataBatch /\ Known(dataBatches[b].provider)
      BY <1>7, <2>0, ElementOfSeq, LenProperties
         DEF ImportCommits, Certifiable, KlineInv, KlineTypes, ImportOpen
    <2>2. row \in DataBatch /\ row.status = "certified" /\ row.provider = dataBatches[b].provider
      BY <2>1 DEF DataBatch
    <2>3. dataBatches' = [dataBatches EXCEPT ![b] = row] /\ importing' = NotImporting
          /\ saves' = saves
      BY <1>7, <2>0 DEF ImportCommits
    <2>4. /\ dataBatches' \in Seq(DataBatch) /\ Len(dataBatches') = Len(dataBatches)
          /\ dataBatches'[b] = row
          /\ \A c \in 1 .. Len(dataBatches) : c # b => dataBatches'[c] = dataBatches[c]
      <3> HIDE DEF row
      <3> QED  BY <2>1, <2>2, <2>3, ExceptSeq DEF KlineInv, KlineTypes
    <2>5. Backed(b)' /\ \A c : Backed(c) => Backed(c)'
      <3> HIDE DEF row
      <3> QED  BY <2>1, <2>2, <2>4 DEF Backed
    <2> DEFINE bar == [prices |-> b, rest |-> b]
               evidence == [batch |-> b, certified |-> TRUE]
    <2>6. /\ klines' = [k \in Keys |-> IF k \in importing.keys THEN bar ELSE klines[k]]
          /\ provenance' = [k \in Keys |-> IF k \in importing.keys THEN evidence ELSE provenance[k]]
      BY <1>7, <2>0 DEF ImportCommits
    <2>7. bar \in Bar /\ evidence \in Evidence /\ bar # NoBar /\ evidence # NoBar
      <3>1. bar \in Bar /\ evidence \in Evidence
        BY <2>1 DEF Bar, Evidence
      <3>2. NoBar \notin Bar /\ NoBar \notin Evidence
        BY NoBarAssumption DEF Bar, Evidence
      <3> QED  BY <3>1, <3>2
    <2>8. KlineTypes'
      <3> HIDE DEF row, bar, evidence
      <3> QED  BY <2>3, <2>4, <2>6, <2>7 DEF KlineInv, KlineTypes, NotImporting
    <2>9. Paired'
      <3> HIDE DEF row, bar, evidence
      <3> QED  BY <2>6, <2>7 DEF KlineInv, Paired
    <2>10. CertificatesBacked'
      <3> SUFFICES ASSUME NEW k \in CertifiedKeys'
                   PROVE  /\ Backed(provenance[k].batch)'
                          /\ klines'[k] = [prices |-> provenance'[k].batch,
                                           rest |-> provenance'[k].batch]
        BY DEF CertificatesBacked
      <3>1. k \in Keys
        BY DEF CertifiedKeys
      <3>2. CASE k \in importing.keys
        <4>1. klines'[k] = bar /\ provenance'[k] = evidence
          BY <2>6, <3>1, <3>2
        <4> QED  BY <2>5, <4>1
      <3>3. CASE k \notin importing.keys
        <4>1. klines'[k] = klines[k] /\ provenance'[k] = provenance[k]
          BY <2>6, <3>1, <3>3
        <4>2. k \in CertifiedKeys
          BY <4>1 DEF CertifiedKeys
        <4> QED  BY <2>5, <4>1, <4>2 DEF KlineInv, CertificatesBacked
      <3> QED  BY <3>2, <3>3
    <2>11. ImportOpen'
      BY <2>3 DEF ImportOpen, NotImporting
    <2> QED  BY <2>8, <2>9, <2>10, <2>11 DEF KlineInv
  <1>8. CASE ImportRollsBack
    <2>0. PICK b : b = importing.batch
      OBVIOUS
    <2> DEFINE row == [dataBatches[b] EXCEPT !.status = "rolled_back"]
    <2>1. /\ b \in 1 .. Len(dataBatches) /\ dataBatches[b] \in DataBatch
          /\ dataBatches[b].status = "validated"
      BY <1>8, <2>0, ElementOfSeq DEF ImportRollsBack, KlineInv, KlineTypes, ImportOpen
    <2>2. row \in DataBatch
      BY <2>1 DEF DataBatch
    <2>3. /\ dataBatches' = [dataBatches EXCEPT ![b] = row] /\ importing' = NotImporting
          /\ UNCHANGED <<klines, provenance, saves>>
      BY <1>8, <2>0 DEF ImportRollsBack
    <2>4. /\ dataBatches' \in Seq(DataBatch) /\ Len(dataBatches') = Len(dataBatches)
          /\ \A c \in 1 .. Len(dataBatches) : c # b => dataBatches'[c] = dataBatches[c]
      <3> HIDE DEF row
      <3> QED  BY <2>1, <2>2, <2>3, ExceptSeq DEF KlineInv, KlineTypes
    <2>5. \A c : Backed(c) => Backed(c)'
      <3> HIDE DEF row
      <3> QED  BY <2>1, <2>4 DEF Backed, Known
    <2> HIDE DEF row
    <2>6. KlineTypes' /\ Paired' /\ ImportOpen'
      BY <2>3, <2>4 DEF KlineInv, KlineTypes, Paired, ImportOpen, NotImporting
    <2>7. CertificatesBacked'
      BY <2>3, <2>5 DEF KlineInv, CertificatesBacked, CertifiedKeys
    <2> QED  BY <2>6, <2>7 DEF KlineInv
  <1> QED  BY <1>1, <1>2, <1>3, <1>4, <1>5, <1>6, <1>7, <1>8 DEF KlineNext

-----------------------------------------------------------------------------
(* CertifiedStore: what an importer holds. *)

Fetched   == {<<>>} \cup UNION {[D -> Published] : D \in SUBSET Days}
ImportRow == [at : {"idle", "month", "fetched", "ingest", "insert", "audit", "finish"},
              month : Months \cup {0}, rows : Fetched, sampled : BOOLEAN, release : Releases]

\* What it holds is of its month, and what it is about to insert fits the calendar.
HoldsMonth(q) ==
    /\ q.at \in {"month", "fetched", "ingest", "insert"} => q.month \in Months
    /\ q.at \in {"fetched", "ingest", "insert"} => DOMAIN q.rows \subseteq DaysOf(q.month)
    /\ q.at = "insert" => CalendarFits(q.rows)
ImportersHold ==
    imp \in [Importers -> ImportRow] /\ \A p \in Importers : HoldsMonth(imp[p])

LEMMA IdleHolds == Idle \in ImportRow /\ HoldsMonth(Idle)
  <1>1. (CHOOSE r \in Releases : TRUE) \in Releases
    BY RangesAssumption
  <1> QED  BY <1>1 DEF Idle, ImportRow, Fetched, HoldsMonth

LEMMA ResponseFetched ==
    ASSUME NEW f \in Publications, NEW m
    PROVE  Response(f, m) \in Fetched /\ DOMAIN Response(f, m) \subseteq DaysOf(m)
  <1> DEFINE D == {e \in DaysOf(m) : f[e] # NoRow}
  <1>1. D \in SUBSET Days /\ D \subseteq DaysOf(m)
    BY DEF DaysOf
  <1>2. \A d \in D : f[d] \in Published
    BY <1>1 DEF Published
  <1>3. Response(f, m) = [d \in D |-> f[d]]
    BY DEF Response
  <1> HIDE DEF D
  <1>4. Response(f, m) \in [D -> Published] /\ DOMAIN Response(f, m) = D
    BY <1>2, <1>3
  <1> QED  BY <1>1, <1>4 DEF Fetched

\* One importer goes on; the calendar stays.
LEMMA ImporterGoesOn ==
    ASSUME ImportersHold, NEW p \in Importers, NEW next \in ImportRow, HoldsMonth(next),
           imp' = [imp EXCEPT ![p] = next], UNCHANGED calendar
    PROVE  ImportersHold'
  <1>1. imp' \in [Importers -> ImportRow]
    BY DEF ImportersHold
  <1>2. \A q : HoldsMonth(q) <=> HoldsMonth(q)'
    BY DEF HoldsMonth, CalendarFits, OpenIn, Span, DaysOf
  <1>3. \A q \in Importers : HoldsMonth(imp'[q])
    BY DEF ImportersHold
  <1> QED  BY <1>1, <1>2, <1>3 DEF ImportersHold

LEMMA AfterHolds ==
    ASSUME ImportersHold, NEW p \in Importers, NEW sampled \in BOOLEAN, UNCHANGED calendar,
           imp[p].at \in {"month", "fetched", "ingest", "insert"}, imp' = After(p, sampled)
    PROVE  ImportersHold'
  <1> DEFINE m == imp[p].month + 1
             next == [imp[p] EXCEPT !.at = IF m \in Months THEN "month" ELSE "audit",
                                    !.month = IF m \in Months THEN m ELSE 0,
                                    !.rows = <<>>, !.sampled = imp[p].sampled /\ sampled]
  <1>1. imp[p] \in ImportRow
    BY DEF ImportersHold
  <1>2. (imp[p].sampled /\ sampled) \in BOOLEAN
    OBVIOUS
  <1>3. next \in ImportRow
    BY <1>1, <1>2 DEF ImportRow, Fetched
  <1>4. HoldsMonth(next)
    BY <1>1 DEF HoldsMonth, ImportRow
  <1>5. imp' = [imp EXCEPT ![p] = next]
    BY DEF After
  <1> HIDE DEF next
  <1> QED  BY <1>3, <1>4, <1>5, ImporterGoesOn

LEMMA ImportersStep ==
    ASSUME ImportersHold, CertifiedNext
    PROVE  ImportersHold'
  <1>1. ASSUME NEW p \in Importers, Bind(p)  PROVE ImportersHold'
    <2>1. PICK release \in Releases :
            imp' = [imp EXCEPT ![p] = [Idle EXCEPT !.at = "month", !.month = 1,
                                                 !.release = release]]
      BY <1>1 DEF Bind
    <2> DEFINE next == [Idle EXCEPT !.at = "month", !.month = 1, !.release = release]
    <2>2. next \in ImportRow /\ HoldsMonth(next)
      BY IdleHolds, RangesAssumption DEF ImportRow, HoldsMonth
    <2>3. imp' = [imp EXCEPT ![p] = next] /\ UNCHANGED calendar
      BY <1>1, <2>1 DEF Bind
    <2> HIDE DEF next
    <2> QED  BY <2>2, <2>3, ImporterGoesOn
  <1>2. ASSUME NEW p \in Importers, Kill(p) \/ InsertConflicts(p) \/ FinishRun(p)
        PROVE  ImportersHold'
    BY <1>2, IdleHolds, ImporterGoesOn DEF Kill, InsertConflicts, FinishRun
  <1>3. ASSUME NEW p \in Importers, Fetch(p)  PROVE ImportersHold'
    <2>1. PICK f \in Publications :
            imp' = [imp EXCEPT ![p].at = "fetched", ![p].rows = Response(f, imp[p].month)]
      BY <1>3 DEF Fetch
    <2>2. PICK rows : rows = Response(f, imp[p].month)
      OBVIOUS
    <2>3. rows \in Fetched /\ DOMAIN rows \subseteq DaysOf(imp[p].month)
      BY <2>2, ResponseFetched
    <2> DEFINE next == [imp[p] EXCEPT !.at = "fetched", !.rows = rows]
    <2>4. imp[p] \in ImportRow /\ imp[p].month \in Months
      BY <1>3 DEF Fetch, Holds, ImportersHold, HoldsMonth
    <2>5. next \in ImportRow /\ HoldsMonth(next)
      BY <2>3, <2>4 DEF ImportRow, HoldsMonth
    <2>6. imp' = [imp EXCEPT ![p] = next] /\ UNCHANGED calendar
      BY <1>3, <2>1, <2>2, <2>4 DEF Fetch, ImportersHold
    <2> HIDE DEF next
    <2> QED  BY <2>5, <2>6, ImporterGoesOn
  <1>4. ASSUME NEW p \in Importers, \/ FetchFails(p) \/ CheckExisting(p)
                                    \/ RejectBatch(p) \/ InsertBatch(p)
        PROVE  ImportersHold'
    <2>1. /\ imp[p].at \in {"month", "fetched", "ingest", "insert"} /\ UNCHANGED calendar
          /\ \E sampled \in BOOLEAN : imp' = After(p, sampled)
      BY <1>4 DEF FetchFails, CheckExisting, RejectBatch, InsertBatch, Holds
    <2> QED  BY <2>1, AfterHolds
  <1>5. ASSUME NEW p \in Importers, \/ NothingStored(p) \/ AcceptBatch(p)
                                    \/ Audit(p) \/ AuditBreaks(p)
        PROVE  ImportersHold'
    <2>1. PICK at : /\ imp' = [imp EXCEPT ![p].at = at]
                    /\ \/ imp[p].at = "fetched" /\ at = "ingest"
                       \/ imp[p].at = "ingest" /\ at = "insert" /\ CalendarFits(imp[p].rows)
                       \/ at = "finish"
                    /\ UNCHANGED calendar
      BY <1>5 DEF NothingStored, AcceptBatch, Audit, AuditBreaks, Holds
    <2> DEFINE next == [imp[p] EXCEPT !.at = at]
    <2>2. imp[p] \in ImportRow /\ HoldsMonth(imp[p])
      BY DEF ImportersHold
    <2>3. next \in ImportRow /\ HoldsMonth(next)
      BY <2>1, <2>2 DEF ImportRow, HoldsMonth
    <2>4. imp' = [imp EXCEPT ![p] = next]
      BY <2>1
    <2> HIDE DEF next
    <2> QED  BY <2>1, <2>3, <2>4, ImporterGoesOn
  <1>6. CASE UNCHANGED <<calendar, imp>>
    BY <1>6 DEF ImportersHold, HoldsMonth, CalendarFits, OpenIn, Span, DaysOf
  <1>7. (\E range \in Ranges : Review(range) \/ Admit(range)) \/ LoadBars \/ StartEngine \/ EndSession
        => UNCHANGED <<calendar, imp>>
    BY DEF Review, Admit, LoadBars, StartEngine, EndSession
  <1> QED  BY <1>1, <1>2, <1>3, <1>4, <1>5, <1>6, <1>7 DEF CertifiedNext

-----------------------------------------------------------------------------
(* CertifiedStore: the bars and their batches. *)

StoreRow   == [value : Published, batch : Nat]
CertBatch  == [status : {"certified", "rejected"}, response : Fetched,
               release : Releases \cup {"pilot"}]
Checkpoint == {"none", "running", "fetch_failed", "validation_failed", "review_required",
               "certified"}
StoreTypes ==
    /\ store \in [Days -> StoreRow \cup {NoRow}] /\ batches \in Seq(CertBatch)
    /\ checkpoints \in [Months -> Checkpoint]
StoreInv == StoreTypes /\ BatchesAreWhole

\* No step takes a bar away.
Grows == \A ds \in SUBSET Days : Stored(ds) \subseteq Stored(ds)'

Whole(b) ==
    IF batches[b].status = "certified"
    THEN /\ RowsOf(b) = DOMAIN batches[b].response
         /\ \A d \in RowsOf(b) : store[d].value = batches[b].response[d]
         /\ RowsOf(b) = OpenIn(Span(RowsOf(b)))
    ELSE RowsOf(b) = {}

\* Steps that write no batch.
LEMMA StoreKept ==
    ASSUME StoreInv, ImportersHold', UNCHANGED <<calendar, store, batches>>,
           statuses' \subseteq {"normal_trade", "unresolved"},
           checkpoints' \in [Months -> Checkpoint],
           \A m \in Months : checkpoints'[m] = "certified" => Stored(DaysOf(m)) # {}
    PROVE  StoreInv' /\ Grows
  <1>1. CertifiedTypeOK'
    BY DEF StoreInv, BatchesAreWhole, CertifiedTypeOK, ImportersHold, ImportRow, Checkpoint
  <1>2. \A b : Whole(b) => Whole(b)'
    BY DEF Whole, RowsOf, OpenIn, Span
  <1>3. \A b \in 1 .. Len(batches) : Whole(b)
    BY DEF StoreInv, BatchesAreWhole, Whole
  <1>4. \A ds : Stored(ds)' = Stored(ds)
    BY DEF Stored
  <1>5. BatchesAreWhole'
    BY <1>1, <1>2, <1>3, <1>4 DEF BatchesAreWhole, Whole, DaysOf
  <1> QED  BY <1>4, <1>5 DEF StoreInv, StoreTypes, Grows

\* Another batch with its bars, or with none, that touches no stored bar.
LEMMA StoreGrows ==
    ASSUME StoreInv, ImportersHold', UNCHANGED <<calendar, statuses>>, NEW batch \in CertBatch,
           batches' = Append(batches, batch),
           store' = [d \in Days |->
                       IF batch.status = "certified" /\ d \in DOMAIN batch.response
                       THEN [value |-> batch.response[d], batch |-> Len(batches) + 1]
                       ELSE store[d]],
           batch.status = "certified" =>
              /\ CalendarFits(batch.response) /\ DOMAIN batch.response \subseteq Days
              /\ Stored(DOMAIN batch.response) = {},
           checkpoints' \in [Months -> Checkpoint],
           \A m \in Months : checkpoints'[m] = "certified" =>
              \/ checkpoints[m] = "certified"
              \/ batch.status = "certified" /\ DOMAIN batch.response \cap DaysOf(m) # {}
    PROVE  StoreInv' /\ Grows
  <1>1. PICK n : n = Len(batches) + 1
    OBVIOUS
  <1>2. /\ n \in Nat /\ n \notin 1 .. Len(batches) /\ Len(batches) \in Nat
        /\ batches' \in Seq(CertBatch) /\ Len(batches') = n /\ batches'[n] = batch
        /\ \A b \in 1 .. Len(batches) : batches'[b] = batches[b]
        /\ 1 .. Len(batches') = 1 .. Len(batches) \cup {n}
    BY <1>1, AppendProperties, LenProperties DEF StoreInv, StoreTypes
  <1>3. PICK new : new = IF batch.status = "certified" THEN DOMAIN batch.response ELSE {}
    OBVIOUS
  <1>4. /\ new \subseteq Days /\ \A d \in new : batch.response[d] \in Published
        /\ \A d \in new : store[d] = NoRow
    BY <1>3 DEF CertBatch, Fetched, Stored
  <1>5. \A d \in Days : store'[d] = IF d \in new THEN [value |-> batch.response[d], batch |-> n]
                                    ELSE store[d]
    BY <1>1, <1>3
  <1>6. \A d \in new : /\ store'[d] \in StoreRow /\ store'[d] # NoRow
                       /\ store'[d].batch = n /\ store'[d].value = batch.response[d]
    <2> SUFFICES ASSUME NEW d \in new
                 PROVE  /\ store'[d] \in StoreRow /\ store'[d] # NoRow
                        /\ store'[d].batch = n /\ store'[d].value = batch.response[d]
      OBVIOUS
    <2>1. store'[d] = [value |-> batch.response[d], batch |-> n]
      BY <1>4, <1>5
    <2>2. batch.response[d] \in Published /\ n \in Nat
      BY <1>2, <1>4
    <2>3. [value |-> batch.response[d], batch |-> n] \in StoreRow
      BY <2>2 DEF StoreRow
    <2>4. NoRow \notin StoreRow
      BY NothingAssumption DEF StoreRow
    <2> QED  BY <2>1, <2>3, <2>4
  <1>7. \A d \in Days : store[d] # NoRow => store[d].batch \in 1 .. Len(batches)
    BY DEF StoreInv, BatchesAreWhole, CertifiedTypeOK
  <1>8. store' \in [Days -> StoreRow \cup {NoRow}]
    <2>1. \A d \in Days : store'[d] \in StoreRow \cup {NoRow}
      BY <1>5, <1>6 DEF StoreInv, StoreTypes
    <2> QED  BY <2>1
  <1>9. RowsOf(n)' = new
    <2>1. RowsOf(n)' = {d \in Days : store'[d] # NoRow /\ store'[d].batch = n}
      BY DEF RowsOf
    <2>2. ASSUME NEW d \in Days  PROVE store'[d] # NoRow /\ store'[d].batch = n <=> d \in new
      <3>1. CASE d \in new
        BY <1>6, <3>1
      <3>2. CASE d \notin new
        BY <1>2, <1>5, <1>7, <3>2
      <3> QED  BY <3>1, <3>2
    <2> QED  BY <1>4, <2>1, <2>2
  <1>10. \A b \in 1 .. Len(batches) : RowsOf(b)' = RowsOf(b) /\ RowsOf(b) \cap new = {}
    BY <1>2, <1>4, <1>5, <1>6 DEF RowsOf
  <1>11. \A ds \in SUBSET Days : Stored(ds)' = Stored(ds) \cup (new \cap ds)
    BY <1>4, <1>5, <1>6 DEF Stored
  <1>12. CertifiedTypeOK'
    <2>1. \A d \in Days : store'[d] = NoRow \/ store'[d].batch \in 1 .. Len(batches')
      BY <1>2, <1>5, <1>6, <1>7
    <2> QED
      BY <2>1 DEF StoreInv, BatchesAreWhole, CertifiedTypeOK, ImportersHold, ImportRow, Checkpoint
  <1>13. \A ds : OpenIn(Span(ds))' = OpenIn(Span(ds))
    BY DEF OpenIn, Span
  <1>14. ASSUME NEW b \in 1 .. Len(batches)  PROVE Whole(b)'
    <2>1. Whole(b)
      BY DEF StoreInv, BatchesAreWhole, Whole
    <2>2. batches'[b] = batches[b] /\ RowsOf(b)' = RowsOf(b)
      BY <1>2, <1>10
    <2>3. \A d \in RowsOf(b) : store'[d] = store[d]
      BY <1>5, <1>10 DEF RowsOf
    <2>4. OpenIn(Span(RowsOf(b)))' = OpenIn(Span(RowsOf(b)))
      BY <2>2 DEF OpenIn, Span
    <2> QED  BY <2>1, <2>2, <2>3, <2>4 DEF Whole
  <1>15. Whole(n)'
    <2>1. CASE batch.status = "certified"
      <3>1. new = DOMAIN batch.response /\ new = OpenIn(Span(new))
        BY <1>3, <2>1 DEF CalendarFits
      <3>2. OpenIn(Span(RowsOf(n)))' = OpenIn(Span(new))
        BY <1>9 DEF OpenIn, Span
      <3> QED  BY <1>2, <1>6, <1>9, <2>1, <3>1, <3>2 DEF Whole
    <2>2. CASE batch.status # "certified"
      BY <1>2, <1>3, <1>9, <2>2 DEF Whole
    <2> QED  BY <2>1, <2>2
  <1>16. \A m \in Months : checkpoints'[m] = "certified" => Stored(DaysOf(m))' # {}
    <2> SUFFICES ASSUME NEW m \in Months, checkpoints'[m] = "certified"
                 PROVE  Stored(DaysOf(m))' # {}
      OBVIOUS
    <2>1. DaysOf(m) \in SUBSET Days /\ DaysOf(m)' = DaysOf(m)
      BY DEF DaysOf
    <2>2. Stored(DaysOf(m))' = Stored(DaysOf(m)) \cup (new \cap DaysOf(m))
      BY <1>11, <2>1
    <2>3. checkpoints[m] = "certified" => Stored(DaysOf(m)) # {}
      BY DEF StoreInv, BatchesAreWhole
    <2> QED  BY <1>3, <2>2, <2>3
  <1>17. BatchesAreWhole'
    BY <1>2, <1>12, <1>14, <1>15, <1>16 DEF BatchesAreWhole, Whole
  <1> QED  BY <1>2, <1>8, <1>11, <1>17 DEF StoreInv, StoreTypes, Grows

LEMMA StoreStep ==
    ASSUME ImportersHold, StoreInv, CertifiedNext
    PROVE  StoreInv' /\ Grows
  <1>0. ImportersHold'
    BY ImportersStep
  <1>1. ASSUME UNCHANGED <<calendar, store, batches, checkpoints>>,
               statuses' \subseteq {"normal_trade", "unresolved"}
        PROVE  StoreInv' /\ Grows
    BY <1>0, <1>1, StoreKept DEF StoreInv, StoreTypes, BatchesAreWhole
  <1>2. statuses \subseteq {"normal_trade", "unresolved"}
    BY DEF StoreInv, BatchesAreWhole, CertifiedTypeOK
  <1>3. ASSUME NEW p \in Importers,
               \/ Bind(p) \/ Kill(p) \/ NothingStored(p) \/ AcceptBatch(p)
               \/ InsertConflicts(p) \/ Audit(p) \/ AuditBreaks(p) \/ FinishRun(p)
        PROVE  StoreInv' /\ Grows
    BY <1>1, <1>2, <1>3 DEF Bind, Kill, NothingStored, AcceptBatch, InsertConflicts, Audit,
                            AuditBreaks, FinishRun
  <1>4. CASE (\E range \in Ranges : Review(range) \/ Admit(range))
             \/ LoadBars \/ StartEngine \/ EndSession
    BY <1>1, <1>2, <1>4 DEF Review, Admit, LoadBars, StartEngine, EndSession
  <1>5. ASSUME NEW p \in Importers, Fetch(p) \/ FetchFails(p) \/ CheckExisting(p)
        PROVE  StoreInv' /\ Grows
    <2>1. PICK status \in Checkpoint :
            /\ checkpoints' = [checkpoints EXCEPT ![imp[p].month] = status]
            /\ status = "certified" => Stored(DaysOf(imp[p].month)) # {}
      BY <1>5 DEF Fetch, FetchFails, CheckExisting, ExistingDecision, Checkpoint
    <2>2. UNCHANGED <<calendar, store, batches, statuses>>
      BY <1>5 DEF Fetch, FetchFails, CheckExisting
    <2>3. /\ checkpoints' \in [Months -> Checkpoint]
          /\ \A m \in Months : checkpoints'[m] = "certified" => Stored(DaysOf(m)) # {}
      BY <2>1 DEF StoreInv, StoreTypes, BatchesAreWhole
    <2> QED  BY <1>0, <1>2, <2>2, <2>3, StoreKept
  <1>6. ASSUME NEW p \in Importers, NEW status \in {"certified", "rejected"},
               UNCHANGED <<calendar, statuses>>, batches' = Append(batches, Batch(p, status)),
               store' = [d \in Days |->
                           IF status = "certified" /\ d \in DOMAIN imp[p].rows
                           THEN [value |-> imp[p].rows[d], batch |-> Len(batches) + 1]
                           ELSE store[d]],
               status = "certified" => imp[p].at = "insert" /\ Stored(DOMAIN imp[p].rows) = {},
               checkpoints' = [checkpoints EXCEPT ![imp[p].month] =
                                 IF status = "certified" THEN "certified" ELSE "validation_failed"]
        PROVE  StoreInv' /\ Grows
    <2>1. PICK batch : batch = Batch(p, status)
      OBVIOUS
    <2>2. /\ batch \in CertBatch /\ batch.status = status /\ batch.response = imp[p].rows
          /\ imp[p] \in ImportRow /\ HoldsMonth(imp[p])
      BY <2>1 DEF Batch, CertBatch, ImportersHold, ImportRow
    <2>3. status = "certified" =>
            /\ CalendarFits(imp[p].rows) /\ DOMAIN imp[p].rows \subseteq DaysOf(imp[p].month)
            /\ DOMAIN imp[p].rows # {} /\ DOMAIN imp[p].rows \subseteq Days
      BY <1>6, <2>2 DEF HoldsMonth, CalendarFits, DaysOf
    <2>4. /\ checkpoints' \in [Months -> Checkpoint]
          /\ \A m \in Months : checkpoints'[m] = "certified" =>
                \/ checkpoints[m] = "certified"
                \/ status = "certified" /\ DOMAIN imp[p].rows \cap DaysOf(m) # {}
      BY <1>6, <2>3 DEF StoreInv, StoreTypes, Checkpoint
    <2> QED  BY <1>0, <1>6, <2>1, <2>2, <2>3, <2>4, StoreGrows
  <1>7. ASSUME NEW p \in Importers, RejectBatch(p)  PROVE StoreInv' /\ Grows
    <2>1. store' = [d \in Days |-> store[d]]
      BY <1>7 DEF RejectBatch, StoreInv, StoreTypes
    <2> QED  BY <1>6, <1>7, <2>1 DEF RejectBatch
  <1>8. ASSUME NEW p \in Importers, InsertBatch(p)  PROVE StoreInv' /\ Grows
    BY <1>6, <1>8 DEF InsertBatch, Holds
  <1> QED  BY <1>3, <1>4, <1>5, <1>7, <1>8 DEF CertifiedNext

-----------------------------------------------------------------------------
(* CertifiedStore: reviews, audits and the backtest. *)

ReviewRow == [status : {"ready", "review_required", "rejected"}, at : Nat,
              missing : {"complete", "unresolved"}]
Session   == [at : {"idle", "admitted", "loaded", "running"}, range : SUBSET Days,
              bars : SUBSET Days]
ReviewTypes == /\ reviews \in [Ranges -> ReviewRow \cup {NoReview}] /\ now \in Nat
               /\ audit \in [at : Nat, passed : BOOLEAN] /\ session \in Session

\* What was complete when a review was given still is.
ReviewsTrue == \A r \in Ranges : reviews[r] # NoReview /\ reviews[r].missing = "complete"
                                   => OpenIn(r) \subseteq Stored(r)
SessionComplete == session.at \in {"loaded", "running"}
                      => OpenIn(session.range) \subseteq session.bars
AuditsOrdered == /\ audit.at <= now /\ (reviews[Days] # NoReview => reviews[Days].at <= now)
                 /\ ReadyOutlivesBrokenAudits
ReviewInv == ReviewTypes /\ ReviewsTrue /\ SessionComplete /\ AuditsOrdered

\* Of the reviews that cover a range one is the narrowest, so get_review has one.
LEMMA LeastNat ==
    ASSUME NEW T \in SUBSET Nat, T # {}
    PROVE  \E x \in T : \A y \in T : x <= y
  <1>1. PICK x \in T : \A y \in T : <<y, x>> \notin OpToRel(<, Nat)
    BY WFMin, NatLessThanWellFounded, Zenon
  <1>2. \A y \in T : ~ (y < x)
    BY <1>1, Zenon DEF OpToRel
  <1> QED  BY <1>2

LEMMA ChosenCovers ==
    ASSUME NEW range, Covering(range) # {}
    PROVE  \E r \in Covering(range) : ChosenReview(range) = reviews[r]
  <1> DEFINE C == Covering(range)
             Sizes == {Cardinality(r) : r \in C}
  <1>1. \A r \in C : IsFiniteSet(r)
    BY RangesAssumption, FS_Subset DEF Covering
  <1>2. Sizes \in SUBSET Nat /\ Sizes # {}
    BY <1>1, FS_CardinalityType
  <1>3. PICK n \in Sizes : \A k \in Sizes : n <= k
    BY <1>2, LeastNat
  <1>4. \E r \in C : \A s \in C : Cardinality(r) <= Cardinality(s)
    BY <1>3
  <1> QED  BY <1>4 DEF ChosenReview

LEMMA ReviewStep ==
    ASSUME StoreInv, ReviewInv, Grows, CertifiedNext
    PROVE  ReviewInv'
  <1> USE DEF ReviewInv
  <1>1. /\ \A r \in Ranges : r \in SUBSET Days /\ Stored(r) \subseteq Stored(r)'
        /\ \A r \in Ranges : Missing(r) \in {"complete", "unresolved"}
        /\ \A r \in Ranges : Missing(r) = "complete" => OpenIn(r) \subseteq Stored(r)
        /\ NoReview \notin ReviewRow
    BY RangesAssumption, NothingAssumption DEF Grows, Missing, ReviewRow
  <1>2. UNCHANGED calendar /\ \A r : OpenIn(r)' = OpenIn(r)
    BY DEF CertifiedNext, Bind, Kill, Fetch, FetchFails, CheckExisting, NothingStored,
           RejectBatch, AcceptBatch, InsertBatch, InsertConflicts, Audit, AuditBreaks,
           FinishRun, Review, Admit, LoadBars, StartEngine, EndSession, OpenIn
  <1>3. ASSUME UNCHANGED <<reviews, audit, now>>, session' \in Session, SessionComplete'
        PROVE  ReviewInv'
    <2>1. ReviewTypes'
      BY <1>3 DEF ReviewTypes
    <2>2. ReviewsTrue'
      BY <1>1, <1>2, <1>3 DEF ReviewsTrue
    <2>3. AuditsOrdered'
      BY <1>3 DEF AuditsOrdered, ReadyOutlivesBrokenAudits
    <2> QED  BY <1>3, <2>1, <2>2, <2>3
  <1>4. ASSUME NEW p \in Importers,
               \/ Bind(p) \/ Kill(p) \/ Fetch(p) \/ FetchFails(p) \/ CheckExisting(p)
               \/ NothingStored(p) \/ RejectBatch(p) \/ AcceptBatch(p) \/ InsertBatch(p)
               \/ InsertConflicts(p) \/ FinishRun(p)
        PROVE  ReviewInv'
    <2>1. UNCHANGED <<reviews, audit, now, session>>
      BY <1>4 DEF Bind, Kill, Fetch, FetchFails, CheckExisting, NothingStored, RejectBatch,
                  AcceptBatch, InsertBatch, InsertConflicts, FinishRun
    <2>2. session' \in Session /\ SessionComplete'
      BY <1>2, <2>1 DEF ReviewTypes, SessionComplete
    <2> QED  BY <1>3, <2>1, <2>2
  <1>5. ASSUME NEW r \in Ranges, NEW review \in ReviewRow,
               reviews' = [reviews EXCEPT ![r] = review], review.at = now + 1, now' = now + 1,
               review.missing = Missing(r), UNCHANGED <<session, store>>
        PROVE  /\ reviews' \in [Ranges -> ReviewRow \cup {NoReview}] /\ now' \in Nat
               /\ ReviewsTrue' /\ SessionComplete' /\ session' \in Session
    <2>1. \A s \in Ranges : reviews'[s] = IF s = r THEN review ELSE reviews[s]
      BY <1>5 DEF ReviewTypes
    <2>2. ReviewsTrue'
      BY <1>1, <1>2, <1>5, <2>1 DEF ReviewsTrue
    <2> QED  BY <1>2, <1>5, <2>2 DEF ReviewTypes, SessionComplete
  <1>6. ASSUME NEW p \in Importers, Audit(p)  PROVE ReviewInv'
    <2>1. /\ now' = now + 1 /\ reviews' = [reviews EXCEPT ![Days] = AuditReview(now + 1)]
          /\ audit' = [at |-> now + 1, passed |-> TRUE] /\ UNCHANGED <<session, store>>
      BY <1>6 DEF Audit
    <2>2. /\ AuditReview(now + 1) \in ReviewRow /\ AuditReview(now + 1).at = now + 1
          /\ AuditReview(now + 1).missing = Missing(Days) /\ Days \in Ranges
          /\ AuditReview(now + 1).status = "review_required"
      BY <1>1, RangesAssumption DEF AuditReview, ReviewRow, ReviewTypes
    <2>3. /\ reviews' \in [Ranges -> ReviewRow \cup {NoReview}] /\ now' \in Nat
          /\ ReviewsTrue' /\ SessionComplete' /\ session' \in Session
      BY <1>5, <2>1, <2>2
    <2>4. reviews'[Days] = AuditReview(now + 1)
      BY <2>1, <2>2 DEF ReviewTypes
    <2>5. AuditsOrdered'
      BY <2>1, <2>2, <2>4 DEF AuditsOrdered, ReadyOutlivesBrokenAudits, ReviewTypes
    <2> QED  BY <2>1, <2>3, <2>5 DEF ReviewTypes
  <1>7. ASSUME NEW r \in Ranges, Review(r)  PROVE ReviewInv'
    <2>1. PICK sound \in BOOLEAN :
            reviews' = [reviews EXCEPT ![r] = [status |-> Decision(r, sound), at |-> now + 1,
                                               missing |-> Missing(r)]]
      BY <1>7 DEF Review
    <2>2. PICK review : review = [status |-> Decision(r, sound), at |-> now + 1,
                                  missing |-> Missing(r)]
      OBVIOUS
    <2>3. /\ review \in ReviewRow /\ review.at = now + 1 /\ review.missing = Missing(r)
          /\ reviews' = [reviews EXCEPT ![r] = review]
      BY <1>1, <2>1, <2>2 DEF ReviewRow, Decision, ReviewTypes
    <2>4. now' = now + 1 /\ UNCHANGED <<session, store, audit>>
      BY <1>7 DEF Review
    <2>5. /\ reviews' \in [Ranges -> ReviewRow \cup {NoReview}] /\ now' \in Nat
          /\ ReviewsTrue' /\ SessionComplete' /\ session' \in Session
      BY <1>5, <2>3, <2>4
    <2>6. reviews'[Days] = IF r = Days THEN review ELSE reviews[Days]
      BY <2>3, RangesAssumption DEF ReviewTypes
    <2>7. AuditsOrdered'
      <3>1. /\ now \in Nat /\ audit.at \in Nat /\ audit.at <= now
            /\ reviews[Days] # NoReview => reviews[Days].at \in Nat /\ reviews[Days].at <= now
        BY RangesAssumption DEF ReviewTypes, AuditsOrdered, ReviewRow
      <3>2. CASE r = Days
        BY <2>3, <2>4, <2>6, <3>1, <3>2 DEF AuditsOrdered, ReadyOutlivesBrokenAudits
      <3>3. CASE r # Days
        BY <2>4, <2>6, <3>1, <3>3 DEF AuditsOrdered, ReadyOutlivesBrokenAudits
      <3> QED  BY <3>2, <3>3
    <2> QED  BY <2>4, <2>5, <2>7 DEF ReviewTypes
  <1>8. ASSUME NEW p \in Importers, AuditBreaks(p)  PROVE ReviewInv'
    <2>1. /\ now' = now + 1 /\ audit' = [at |-> now + 1, passed |-> FALSE]
          /\ UNCHANGED <<reviews, session, store>>
      BY <1>8 DEF AuditBreaks
    <2>2. ReviewTypes' /\ ReviewsTrue' /\ SessionComplete'
      BY <1>1, <1>2, <2>1 DEF ReviewTypes, ReviewsTrue, SessionComplete
    <2>3. AuditsOrdered'
      BY <2>1, RangesAssumption DEF AuditsOrdered, ReadyOutlivesBrokenAudits, ReviewTypes, ReviewRow
    <2> QED  BY <2>2, <2>3
  <1>9. ASSUME NEW r \in Ranges, Admit(r)  PROVE ReviewInv'
    <2>1. /\ session' = [NoSession EXCEPT !.at = "admitted", !.range = r]
          /\ UNCHANGED <<reviews, audit, now>>
      BY <1>9 DEF Admit
    <2>2. session' \in Session /\ session'.at = "admitted"
      BY <1>1, <2>1 DEF Session, NoSession
    <2> QED  BY <1>3, <2>1, <2>2 DEF SessionComplete
  <1>10. CASE LoadBars
    <2>1. UNCHANGED <<reviews, audit, now>>
      BY <1>10 DEF LoadBars
    <2>2. CASE Ready(session.range)
      <3>1. PICK r \in Covering(session.range) : ChosenReview(session.range) = reviews[r]
        BY <2>2, ChosenCovers DEF Ready
      <3>2. r \in Ranges /\ session.range \subseteq r /\ OpenIn(r) \subseteq Stored(r)
        BY <2>2, <3>1 DEF Covering, Ready, ReviewsTrue
      <3>3. OpenIn(session.range) \subseteq Stored(session.range)
        BY <3>2 DEF OpenIn, Stored
      <3>4. PICK bars : bars = Stored(session.range)
        OBVIOUS
      <3>5. bars \in SUBSET Days /\ session \in Session
        BY <3>4 DEF Stored, ReviewTypes, Session
      <3>6. session' = [session EXCEPT !.at = "loaded", !.bars = bars]
        BY <1>10, <2>2, <3>4 DEF LoadBars
      <3>7. session' \in Session /\ session'.range = session.range /\ session'.bars = bars
        BY <3>5, <3>6 DEF Session
      <3> QED  BY <1>2, <1>3, <2>1, <3>3, <3>4, <3>7 DEF SessionComplete
    <2>3. CASE ~ Ready(session.range)
      <3>1. session' \in Session /\ session'.at = "idle"
        BY <1>10, <2>3 DEF LoadBars, NoSession, Session
      <3> QED  BY <1>3, <2>1, <3>1 DEF SessionComplete
    <2> QED  BY <2>2, <2>3
  <1>11. CASE StartEngine \/ EndSession
    <2>1. /\ UNCHANGED <<reviews, audit, now>>
          /\ \/ session' = NoSession
             \/ session.at = "loaded" /\ session' = [session EXCEPT !.at = "running"]
      BY <1>11 DEF StartEngine, EndSession
    <2>2. CASE session' = NoSession
      <3>1. session' \in Session /\ session'.at = "idle"
        BY <2>2 DEF NoSession, Session
      <3> QED  BY <1>3, <2>1, <3>1 DEF SessionComplete
    <2>3. CASE session.at = "loaded" /\ session' = [session EXCEPT !.at = "running"]
      <3>1. /\ session' \in Session /\ session'.range = session.range
            /\ session'.bars = session.bars
        BY <2>3 DEF ReviewTypes, Session
      <3> QED  BY <1>2, <1>3, <2>1, <2>3, <3>1 DEF SessionComplete
    <2> QED  BY <2>1, <2>2, <2>3
  <1> QED  BY <1>4, <1>6, <1>7, <1>8, <1>9, <1>10, <1>11 DEF CertifiedNext

-----------------------------------------------------------------------------

BarsInv == KlineInv /\ ImportersHold /\ StoreInv /\ ReviewInv

LEMMA StoreStarts == ASSUME CertifiedInit  PROVE StoreInv
  <1>1. checkpoints = [m \in Months |-> "none"] /\ statuses = {} /\ imp = [p \in Importers |-> Idle]
    BY DEF CertifiedInit
  <1>2. \A p \in Importers : imp[p].month \in Months \cup {0}
    BY <1>1 DEF Idle
  <1>3. CASE store = [d \in Days |-> NoRow] /\ batches = <<>>
    BY <1>1, <1>2, <1>3 DEF StoreInv, StoreTypes, Checkpoint, BatchesAreWhole, CertifiedTypeOK
  <1>4. ASSUME NEW f \in Publications,
               CalendarFits(Response(f, 1)),
               batches = <<[status |-> "certified", release |-> "pilot",
                            response |-> Response(f, 1)]>>,
               store = [d \in Days |-> IF d \in DOMAIN Response(f, 1)
                                      THEN [value |-> Response(f, 1)[d], batch |-> 1] ELSE NoRow]
        PROVE  StoreInv
    <2>1. PICK pilot : pilot = Response(f, 1)
      OBVIOUS
    <2>2. pilot \in Fetched /\ DOMAIN pilot \subseteq Days /\ CalendarFits(pilot)
      BY <1>4, <2>1, ResponseFetched DEF DaysOf
    <2>3. \A d \in DOMAIN pilot : pilot[d] \in Published
      BY <2>2 DEF Fetched
    <2>4. PICK batch : batch = [status |-> "certified", release |-> "pilot", response |-> pilot]
      OBVIOUS
    <2>5. /\ batch \in CertBatch /\ batch.status = "certified" /\ batch.response = pilot
          /\ batches \in Seq(CertBatch) /\ Len(batches) = 1 /\ batches[1] = batch
      BY <1>4, <2>1, <2>2, <2>4 DEF CertBatch
    <2>6. \A d \in Days : /\ d \in DOMAIN pilot => store[d] = [value |-> pilot[d], batch |-> 1]
                          /\ d \notin DOMAIN pilot => store[d] = NoRow
      BY <1>4, <2>1
    <2>7. \A d \in DOMAIN pilot : /\ store[d] \in StoreRow /\ store[d] # NoRow
                                  /\ store[d].batch = 1 /\ store[d].value = pilot[d]
      <3> SUFFICES ASSUME NEW d \in DOMAIN pilot
                   PROVE  /\ store[d] \in StoreRow /\ store[d] # NoRow
                          /\ store[d].batch = 1 /\ store[d].value = pilot[d]
        OBVIOUS
      <3>1. store[d] = [value |-> pilot[d], batch |-> 1] /\ pilot[d] \in Published
        BY <2>2, <2>3, <2>6
      <3>2. [value |-> pilot[d], batch |-> 1] \in StoreRow
        BY <3>1 DEF StoreRow
      <3>3. NoRow \notin StoreRow
        BY NothingAssumption DEF StoreRow
      <3> QED  BY <3>1, <3>2, <3>3
    <2>8. store \in [Days -> StoreRow \cup {NoRow}]
      <3>1. \A d \in Days : store[d] \in StoreRow \cup {NoRow}
        BY <2>6, <2>7
      <3> QED  BY <1>4, <3>1
    <2>9. RowsOf(1) = DOMAIN pilot
      <3>1. \A d \in Days : store[d] # NoRow /\ store[d].batch = 1 <=> d \in DOMAIN pilot
        BY <2>6, <2>7
      <3> QED  BY <2>2, <3>1 DEF RowsOf
    <2>10. CertifiedTypeOK
      <3>1. \A d \in Days : store[d] = NoRow \/ store[d].batch \in 1 .. Len(batches)
        <4> SUFFICES ASSUME NEW d \in Days
                     PROVE  store[d] = NoRow \/ store[d].batch \in 1 .. Len(batches)
          OBVIOUS
        <4>1. CASE d \in DOMAIN pilot
          BY <2>5, <2>7, <4>1
        <4>2. CASE d \notin DOMAIN pilot
          BY <2>6, <4>2
        <4> QED  BY <4>1, <4>2
      <3>2. \A m \in Months : checkpoints[m] = "none"
        BY <1>1
      <3> QED  BY <1>1, <1>2, <3>1, <3>2 DEF CertifiedTypeOK
    <2>11. Whole(1)
      <3>1. DOMAIN pilot = OpenIn(Span(DOMAIN pilot))
        BY <2>2 DEF CalendarFits
      <3>2. RowsOf(1) = OpenIn(Span(RowsOf(1)))
        BY <2>9, <3>1
      <3> QED  BY <2>5, <2>7, <2>9, <3>2 DEF Whole
    <2>12. BatchesAreWhole
      BY <1>1, <2>5, <2>10, <2>11 DEF BatchesAreWhole, Whole
    <2> QED  BY <1>1, <2>5, <2>8, <2>12 DEF StoreInv, StoreTypes, Checkpoint
  <1> QED  BY <1>3, <1>4 DEF CertifiedInit

LEMMA BarsInvInit == ASSUME Init  PROVE BarsInv
  <1>1. KlineInit /\ CertifiedInit
    BY DEF Init
  <1>2. KlineInv
    BY <1>1 DEF KlineInit, KlineInv, KlineTypes, Paired, CertificatesBacked, CertifiedKeys,
                ImportOpen, NotImporting
  <1>3. ImportersHold
    BY <1>1, IdleHolds DEF CertifiedInit, ImportersHold
  <1>4. StoreInv
    BY <1>1, StoreStarts
  <1>5. ReviewInv
    BY <1>1, RangesAssumption
       DEF CertifiedInit, ReviewInv, ReviewTypes, ReviewsTrue, SessionComplete, AuditsOrdered,
           ReadyOutlivesBrokenAudits, Session, NoSession
  <1> QED  BY <1>2, <1>3, <1>4, <1>5 DEF BarsInv

LEMMA BarsInvStep == ASSUME BarsInv, [Next]_vars  PROVE BarsInv'
  <1> USE DEF BarsInv
  <1>1. ASSUME UNCHANGED klineVars  PROVE KlineInv'
    BY <1>1 DEF klineVars, KlineInv, KlineTypes, Paired, CertificatesBacked, CertifiedKeys,
                Backed, ImportOpen
  <1>2. ASSUME UNCHANGED certifiedVars  PROVE ImportersHold' /\ StoreInv' /\ ReviewInv'
    <2>1. UNCHANGED <<calendar, store, batches, checkpoints, reviews, statuses, audit, now,
                      imp, session>>
      BY <1>2 DEF certifiedVars
    <2>2. ImportersHold'
      BY <2>1 DEF ImportersHold, HoldsMonth, CalendarFits, OpenIn, Span, DaysOf
    <2>3. StoreInv' /\ Grows
      BY <2>1, <2>2, StoreKept DEF StoreInv, StoreTypes, BatchesAreWhole, CertifiedTypeOK
    <2>4. ReviewInv'
      BY <2>1 DEF ReviewInv, ReviewTypes, ReviewsTrue, SessionComplete, AuditsOrdered,
                  ReadyOutlivesBrokenAudits, OpenIn, Stored
    <2> QED  BY <2>2, <2>3, <2>4
  <1>3. ASSUME KlineNext  PROVE KlineInv'
    BY <1>3, KlineStep
  <1>4. ASSUME CertifiedNext  PROVE ImportersHold' /\ StoreInv' /\ ReviewInv'
    BY <1>4, ImportersStep, StoreStep, ReviewStep
  <1> QED  BY <1>1, <1>2, <1>3, <1>4 DEF Next, vars

LEMMA BarsInvImplies ==
    ASSUME BarsInv
    PROVE  /\ CertifiedBarsAreIntact /\ BatchesAreWhole
           /\ RunsSeeEveryDay /\ ReadyOutlivesBrokenAudits
  <1>1. CertifiedBarsAreIntact
    BY DEF BarsInv, KlineInv, Paired, CertificatesBacked, Backed, CertifiedBarsAreIntact
  <1> QED
    BY <1>1 DEF BarsInv, StoreInv, ReviewInv, SessionComplete, AuditsOrdered, RunsSeeEveryDay

\* In whatever order display saves, backfills and imports commit, a certified row
\* of market.klines is wholly what its certified batch brought.
THEOREM CertifiedBarsIntact == Spec => []CertifiedBarsAreIntact
  BY BarsInvInit, BarsInvStep, BarsInvImplies, PTL DEF Spec

\* However many importers work at once and wherever they are killed, the certified
\* store holds batches whole or not at all, without a hole between their bars.
THEOREM CertifiedBatchesWhole == Spec => []BatchesAreWhole
  BY BarsInvInit, BarsInvStep, BarsInvImplies, PTL DEF Spec

\* A backtest that starts has a certified bar for every open day of its range,
\* whatever imports and reviews happened since it was admitted.
THEOREM RunsAlwaysSeeEveryDay == Spec => []RunsSeeEveryDay
  BY BarsInvInit, BarsInvStep, BarsInvImplies, PTL DEF Spec

\* A ready review outlives a later audit of its range only if that audit broke.
THEOREM ReadinessFollowsAudits == Spec => []ReadyOutlivesBrokenAudits
  BY BarsInvInit, BarsInvStep, BarsInvImplies, PTL DEF Spec
=============================================================================
