----------------------------- MODULE QuoteFeed -----------------------------
(***************************************************************************)
(* Quotes from the provider to the caller.  Worker tasks                   *)
(* (sync_realtime_quotes, which beat starts every three seconds whether or *)
(* not the last one has ended) collect a batch, store it with its          *)
(* provenance in transactions of their own, cache what was stored in Redis *)
(* and publish it; the backend answers from its own memory (L1), from      *)
(* Redis, or from the provider.  Ages and times to live count ticks.       *)
(***************************************************************************)
EXTENDS Integers, FiniteSets, Sequences, FiniteSetsExt

CONSTANTS
    Codes, Syncs,                \* stocks; runs of the worker's task
    WorkerTtl, QuoteTtl,         \* Redis: QUOTE_TTL of the worker, TTL_QUOTE of the backend
    RefillTtl, BatchRefillTtl,   \* L1, when filled from Redis by get and by mget
    Hold,                        \* bound: ticks a worker needs to store what it fetched
    MaxBatches, MaxFeed,         \* bounds: batches; messages waiting at the subscriber
    NoQuote

ASSUME TicksAssumption == {Hold, WorkerTtl, QuoteTtl, RefillTtl, BatchRefillTtl} \subseteq Nat

VARIABLES
    quoteBatches,  \* market.quote_batches: [status, rows], rows in quotes and quote_provenance
    sync,          \* worker task -> what it holds
    redis, l1,     \* code -> [age, left, batch] or NoQuote; batch 0: fetched by the backend
    asked,         \* codes the backend is fetching from the provider
    feed           \* messages of channel:quotes:* the subscriber has not read

quoteVars == <<quoteBatches, sync, redis, l1, asked, feed>>

IdleSync == [at |-> "idle", batch |-> 0, valid |-> {}, rest |-> {}, held |-> 0]
NoQuotes == [c \in Codes |-> NoQuote]

QuoteInit ==
    /\ quoteBatches = <<>>
    /\ sync = [s \in Syncs |-> IdleSync]
    /\ redis = NoQuotes /\ l1 = NoQuotes
    /\ asked = {} /\ feed = <<>>

SyncAt(s, at) == sync[s].at = at

----------------------------------------------------------------------------
(* The worker: QuoteSyncService.sync_all and QuoteStore.persist_batch.     *)

\* What validate_quote passes of the answer of the fixed provider: nothing when
\* there is no answer or its provenance is unusable.
ValidCodes == SUBSET Codes

\* fetch_quotes_with_provenance and _insert_batch, a transaction: a batch without
\* a usable quote (fetch_failed, validation_failed) ends here.
FetchBatch(s) ==
    /\ SyncAt(s, "idle") /\ Len(quoteBatches) < MaxBatches
    /\ \E valid \in ValidCodes :
          /\ quoteBatches' = Append(quoteBatches,
                [status |-> IF valid = {} THEN "failed" ELSE "running", rows |-> {}])
          /\ sync' = IF valid = {} THEN sync
                     ELSE [sync EXCEPT ![s] = [@ EXCEPT !.at = "recorded", !.valid = valid,
                                                       !.batch = Len(quoteBatches) + 1]]
    /\ UNCHANGED <<redis, l1, asked, feed>>

\* _insert_quotes_and_provenance, a transaction: each row with its provenance.
\* Two tasks do not store the same code at the same microsecond.
InsertQuotes(s) ==
    /\ SyncAt(s, "recorded")
    /\ quoteBatches' = [quoteBatches EXCEPT ![sync[s].batch].rows = sync[s].valid]
    /\ sync' = [sync EXCEPT ![s].at = "stored"]
    /\ UNCHANGED <<redis, l1, asked, feed>>

\* It fails: the batch is closed as write_failed and nothing is published.
InsertQuotesFails(s) ==
    /\ SyncAt(s, "recorded")
    /\ quoteBatches' = [quoteBatches EXCEPT ![sync[s].batch].status = "write_failed"]
    /\ sync' = [sync EXCEPT ![s] = IdleSync]
    /\ UNCHANGED <<redis, l1, asked, feed>>

\* Mutant: every requested code is cached and published.
AcceptedAsRequested(s) == Codes

\* What persist_batch reports as stored: accepted_codes.
Accepted(s) == quoteBatches[sync[s].batch].rows

\* _finalize_batch, a transaction.
FinalizeBatch(s) ==
    /\ SyncAt(s, "stored")
    /\ quoteBatches' = [quoteBatches EXCEPT ![sync[s].batch].status =
                          IF sync[s].valid = Codes THEN "success" ELSE "partial"]
    /\ sync' = [sync EXCEPT ![s] = [@ EXCEPT !.at = "publishing", !.rest = Accepted(s)]]
    /\ UNCHANGED <<redis, l1, asked, feed>>

\* A value that was set just now; Redis may be down, and cache.set only logs it.
\* If it raises instead, nothing is published, which Publish allows in any case.
SetQuote(c, quote) == \/ redis' = [redis EXCEPT ![c] = quote]
                      \/ redis' = redis

\* One accepted code: cached, then published; a message is lost when Redis or
\* the subscription is down.
Publish(s) ==
    /\ SyncAt(s, "publishing")
    /\ \E c \in sync[s].rest :
          /\ SetQuote(c, [age |-> sync[s].held, left |-> WorkerTtl, batch |-> sync[s].batch])
          /\ \/ Len(feed) < MaxFeed /\ feed' = Append(feed, [code |-> c, batch |-> sync[s].batch])
             \/ feed' = feed
          /\ sync' = [sync EXCEPT ![s] = IF @.rest = {c} THEN IdleSync
                                         ELSE [@ EXCEPT !.rest = sync[s].rest \ {c}]]
    /\ UNCHANGED <<quoteBatches, l1, asked>>

\* The task is killed: it leaves what it committed, its batch "running".
SyncDies(s) ==
    /\ sync[s].at # "idle"
    /\ sync' = [sync EXCEPT ![s] = IdleSync]
    /\ UNCHANGED <<quoteBatches, redis, l1, asked, feed>>

----------------------------------------------------------------------------
(* The backend: CacheManager and DataService.                              *)

\* CacheManager.get and mget: L1, then Redis, which may be down and then misses.
Lookup(c, up) == IF l1[c] # NoQuote THEN l1[c] ELSE IF up THEN redis[c] ELSE NoQuote
\* A value read from Redis is kept in L1 for a time that its remaining time in
\* Redis does not bound.
Refill(c, found, ttl) ==
    IF l1[c] = NoQuote /\ found # NoQuote THEN [found EXCEPT !.left = ttl] ELSE l1[c]
\* Mutant: a hit extends the life of the value in Redis.
AfterHitRenewed(c, found) == IF found = NoQuote THEN redis[c] ELSE [found EXCEPT !.left = QuoteTtl]

\* A hit leaves Redis as it is.
AfterHit(c, found) == redis[c]

\* get_quote_result (one code) and get_quotes_batch (many): the answer is what
\* the caches have; what they have not is asked of the provider.  Callers share
\* the caches and nothing else, so one waits for the provider at a time.
AskQuotes(codes, ttl) ==
    /\ asked = {}
    /\ \E up \in BOOLEAN :
          LET found == [c \in Codes |-> IF c \in codes THEN Lookup(c, up) ELSE NoQuote]
          IN /\ l1' = [c \in Codes |-> Refill(c, found[c], ttl)]
             /\ redis' = [c \in Codes |-> AfterHit(c, found[c])]
             /\ asked' = {c \in codes : found[c] = NoQuote}
    /\ UNCHANGED <<quoteBatches, sync, feed>>

AskQuote == \E c \in Codes : AskQuotes({c}, RefillTtl)
AskQuotesBatch == AskQuotes(Codes, BatchRefillTtl)

\* _request_typed and _payload_result: timeouts are retried once, and what still
\* fails, or is not what was asked for, is no answer for these codes.
Answers(codes) == SUBSET codes

\* The provider answers: each usable quote goes to L1 and to Redis, over what
\* another one stored there meanwhile.
ProviderAnswers ==
    /\ asked # {}
    /\ \E usable \in Answers(asked), up \in BOOLEAN :
          LET fresh == [age |-> 0, left |-> QuoteTtl, batch |-> 0]
              over(cache) == [c \in Codes |-> IF c \in usable THEN fresh ELSE cache[c]]
          IN /\ l1' = over(l1)
             /\ redis' = IF up THEN over(redis) ELSE redis
    /\ asked' = {}
    /\ UNCHANGED <<quoteBatches, sync, feed>>

Older(cached) ==
    IF cached = NoQuote \/ cached.left = 0 THEN NoQuote
    ELSE [cached EXCEPT !.age = @ + 1, !.left = @ - 1]

QuoteTick ==
    /\ \A s \in Syncs : sync[s].at # "idle" => sync[s].held < Hold
    /\ sync' = [s \in Syncs |-> IF SyncAt(s, "idle") THEN IdleSync ELSE [sync[s] EXCEPT !.held = @ + 1]]
    /\ redis' = [c \in Codes |-> Older(redis[c])]
    /\ l1' = [c \in Codes |-> Older(l1[c])]
    /\ UNCHANGED <<quoteBatches, asked, feed>>

QuoteNext ==
    \/ \E s \in Syncs : \/ FetchBatch(s) \/ InsertQuotes(s)
                        \/ InsertQuotesFails(s) \/ FinalizeBatch(s) \/ Publish(s) \/ SyncDies(s)
    \/ AskQuote \/ AskQuotesBatch \/ ProviderAnswers
    \/ QuoteTick

----------------------------------------------------------------------------

OnRecord(c, batch) == batch # 0 => c \in quoteBatches[batch].rows
                                   /\ quoteBatches[batch].status \in {"success", "partial"}

FeedIsOnRecord ==
    /\ \A c \in Codes : \A q \in {redis[c], l1[c]} \ {NoQuote} : OnRecord(c, q.batch)
    /\ \A i \in 1..Len(feed) : OnRecord(feed[i].code, feed[i].batch)

\* CacheManager: however L1 and Redis refill each other, nothing a caller can be
\* served is older than the longest life in Redis, one refill of L1 and the time
\* a worker needs.
ServedQuotesAreFresh ==
    \A c \in Codes : Lookup(c, TRUE) # NoQuote =>
        Lookup(c, TRUE).age <= Max({Hold + WorkerTtl, QuoteTtl}) + Max({RefillTtl, BatchRefillTtl})
=============================================================================
