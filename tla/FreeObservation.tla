-------------------------- MODULE FreeObservation --------------------------
(***************************************************************************)
(* The free-observation track: scripts that a developer runs by hand over  *)
(* a directory of JSON files.  One fetches the daily bars of a date, one   *)
(* evaluates a moving-average cross over chosen batches, one applies the   *)
(* resulting candidates to a virtual account, one reviews how candidates   *)
(* turned out.  No script overwrites a file, none knows which files the    *)
(* others chose: dates are fetched in any order and again, documents are   *)
(* applied twice, ledgers are continued from any earlier one.              *)
(*                                                                         *)
(* A batch is identified by its content: its hash leaves out fetched_at,   *)
(* which is its place in files here.  Quantities are in lots, a content    *)
(* gives every stock its close, 0 if it has no row.                        *)
(*                                                                         *)
(* Sources: data/tushare_free_observation.py, data/free_observation_       *)
(* {dual_ma,ledger,review}.py, scripts/*free_observation*.py.              *)
(***************************************************************************)
EXTENDS Integers, FiniteSetsExt, SequencesExt

CONSTANTS
    Codes,          \* stock codes, as numbers
    Dates,          \* trade dates
    Contents,       \* what the provider may answer for a date
    History,        \* the batches of the past, already on disk
    FastPeriod, SlowPeriod, Percent,    \* of the strategy snapshot
    VirtualCash,    \* --initial-cash
    MaxFiles, MaxDocuments, MaxLedgers  \* bounds on the directory

ASSUME PeriodsAssumption ==
    FastPeriod \in Nat \ {0} /\ SlowPeriod \in Nat /\ FastPeriod < SlowPeriod
ASSUME FilesAssumption ==
    /\ Codes \in SUBSET Nat /\ IsFiniteSet(Codes)
    /\ Dates \subseteq Nat \ {0} /\ Contents \subseteq [Codes -> Nat]
    /\ History \in Seq([date : Nat \ {0}, rows : [Codes -> Nat]])
    /\ VirtualCash \in Nat
ASSUME PercentAssumption == Percent \in 1 .. 100

VARIABLES
    files,      \* the batches, in the order in which they were fetched
    documents,  \* the candidate documents
    ledgers     \* the ledger documents, each naming the one it continues

observationVars == <<files, documents, ledgers>>

ObservationInit == files = History /\ documents = {} /\ ledgers = <<>>

-----------------------------------------------------------------------------
(* fetch_daily: an answer without rows is refused.                         *)

Fetch(date, content) ==
    /\ Len(files) < MaxFiles
    /\ \E s \in Codes : content[s] > 0
    /\ files' = Append(files, [date |-> date, rows |-> content])
    /\ UNCHANGED <<documents, ledgers>>

-----------------------------------------------------------------------------
(* FreeObservationDualMaEvaluator.evaluate.                                *)

\* _validated_rows: a stock has one row on a date.
NoDuplicates(batches) ==
    \A i, j \in batches : i # j /\ files[i].date = files[j].date =>
        \A s \in Codes : files[i].rows[s] = 0 \/ files[j].rows[s] = 0

Closes(batches, s) ==
    LET with == {i \in batches : files[i].rows[s] > 0}
        ordered == SetToSortSeq(with, LAMBDA i, j : files[i].date < files[j].date)
    IN  [k \in 1 .. Cardinality(with) |-> files[ordered[k]].rows[s]]

\* The mean of the last n closes up to k, times both periods.
Mean(closes, n, k) ==
    FoldSeq(+, 0, SubSeq(closes, k - n + 1, k)) * ((FastPeriod * SlowPeriod) \div n)

WouldAction(closes) ==
    LET k == Len(closes)
        fast(i) == Mean(closes, FastPeriod, i)
        slow(i) == Mean(closes, SlowPeriod, i)
    IN  IF k < SlowPeriod + 1 THEN "HOLD"
        ELSE IF fast(k - 1) <= slow(k - 1) /\ fast(k) > slow(k) THEN "BUY"
        ELSE IF fast(k - 1) >= slow(k - 1) /\ fast(k) < slow(k) THEN "SELL"
        ELSE "HOLD"

\* A document names its batches by content and the latest fetched_at of them.
\* That a trade date later than its fetch is refused is left out: the model
\* evaluates such batches as well.
Evaluate(batches) ==
    /\ Cardinality(documents) < MaxDocuments
    /\ batches # {} /\ NoDuplicates(batches)
    /\ LET stocks == {s \in Codes : \E i \in batches : files[i].rows[s] > 0}
       IN  documents' = documents \cup
              {[inputs   |-> {files[i] : i \in batches},
                observed |-> Max(batches),
                actions  |-> [s \in stocks |-> WouldAction(Closes(batches, s))]]}
    /\ UNCHANGED <<files, ledgers>>

-----------------------------------------------------------------------------
(* FreeObservationLedger.apply.                                            *)

Nobody == [lots |-> 0, since |-> 0]
VirtualAccount == [cash |-> VirtualCash, held |-> [s \in Codes |-> Nobody], last |-> 0]

\* _latest_row: the candidate's own batches.
Baseline(doc, s) ==
    CHOOSE b \in doc.inputs : b.rows[s] > 0 /\ \A c \in doc.inputs :
                                 c.rows[s] > 0 => c.date <= b.date

ObservedEvent(type, date, s, lots, amount) ==
    [type |-> type, date |-> date, stock |-> s, lots |-> lots, amount |-> amount]

\* Mutant: a position may be closed on the day it was opened.
SettledSameDay(position, date) == date >= position.since

Settled(position, date) == date > position.since

\* _apply_candidate: the event it appends; cash buys whole lots only.
Outcome(account, doc, s) ==
    LET b == Baseline(doc, s)
        close == b.rows[s]
        position == account.held[s]
        lots == (account.cash * Percent) \div (100 * close)
        E(type, n) == ObservedEvent(type, b.date, s, n, n * close)
    IN  CASE doc.actions[s] = "HOLD" -> E("held", 0)
          [] doc.actions[s] = "BUY" ->
                IF position.lots > 0 THEN E("already_open", 0)
                ELSE IF lots = 0 THEN E("insufficient_cash", 0) ELSE E("opened", lots)
          [] doc.actions[s] = "SELL" ->
                IF position.lots = 0 THEN E("no_open_position", 0)
                ELSE IF ~Settled(position, b.date) THEN E("t_plus_one", 0)
                ELSE E("closed", position.lots)

\* _rebuild, one event; _apply_candidate changes the state the same way.
Booked(account, e) ==
    LET dated == [account EXCEPT !.last = Max({@, e.date})]
    IN  CASE e.type = "opened" ->
                [dated EXCEPT !.cash = @ - e.amount,
                              !.held[e.stock] = [lots |-> e.lots, since |-> e.date]]
          [] e.type = "closed" ->
                [dated EXCEPT !.cash = @ + e.amount, !.held[e.stock] = Nobody]
          [] OTHER -> dated

Rebuilt(events) == FoldLeft(Booked, VirtualAccount, events)

\* One candidate, unless its date lies before the ledger's last: that refuses
\* them all.
Considered(state, doc, s) ==
    IF state.refused \/ Baseline(doc, s).date < state.account.last
    THEN [state EXCEPT !.refused = TRUE]
    ELSE LET e == Outcome(state.account, doc, s)
         IN  [refused |-> FALSE, events |-> Append(state.events, e),
              account |-> Booked(state.account, e)]

\* The candidates in the order of their codes, the largest last.
Applied(account, doc) ==
    MapThenFoldSet(LAMBDA s, state : Considered(state, doc, s),
                   [refused |-> FALSE, events |-> <<>>, account |-> account],
                   LAMBDA s : s, Max, DOMAIN doc.actions)

\* A first run, or the continuation of any ledger; the prior one must rebuild.
ApplyLedger(doc, prior) ==
    /\ Len(ledgers) < MaxLedgers
    /\ LET events == IF prior = 0 THEN <<>> ELSE ledgers[prior].events
           account == Rebuilt(events)
           result == Applied(account, doc)
       IN  /\ prior > 0 => account = ledgers[prior].account
           /\ ~result.refused
           /\ ledgers' = Append(ledgers, [doc |-> doc, prior |-> prior,
                                          events |-> events \o result.events,
                                          account |-> result.account])
    /\ UNCHANGED <<files, documents>>

-----------------------------------------------------------------------------
(* FreeObservationReview.evaluate: nothing is kept of it but its file.     *)

\* Mutant: a row that was there when the candidate was observed counts.
LaterRowsEverFetched(doc, batches, s) ==
    {i \in batches : files[i].rows[s] > 0 /\ files[i].date > Baseline(doc, s).date}

\* _first_later_row, before the earliest is taken.
LaterRows(doc, batches, s) ==
    {i \in batches : /\ files[i].rows[s] > 0
                     /\ files[i].date > Baseline(doc, s).date
                     /\ i > doc.observed}

\* The rows the review may score: it does not say which of two of one date.
Realizations(doc, batches, s) ==
    LET later == LaterRows(doc, batches, s)
    IN  {i \in later : \A j \in later : files[i].date <= files[j].date}

\* A review needs the candidate's batches and refuses two of one content.
Reviewable(doc, batches) ==
    /\ doc.inputs \subseteq {files[i] : i \in batches}
    /\ \A i, j \in batches : i # j => files[i] # files[j]

Verdict(doc, s, i) ==
    LET change == files[i].rows[s] - Baseline(doc, s).rows[s]
    IN  CASE doc.actions[s] = "HOLD" -> "not_scored"
          [] doc.actions[s] = "BUY"  -> IF change > 0 THEN "matched" ELSE "missed"
          [] doc.actions[s] = "SELL" -> IF change < 0 THEN "matched" ELSE "missed"

-----------------------------------------------------------------------------
ObservationNext ==
    \/ \E date \in Dates, content \in Contents : Fetch(date, content)
    \/ \E batches \in SUBSET DOMAIN files : Evaluate(batches)
    \/ \E doc \in documents, prior \in 0 .. Len(ledgers) : ApplyLedger(doc, prior)

-----------------------------------------------------------------------------
(* Properties. *)

EventsOf(l, type, s) ==
    {k \in DOMAIN l.events : l.events[k].type = type /\ l.events[k].stock = s}

\* Whatever documents were applied to whatever ledger, in any order and again:
\* the account is what its events rebuild, so that it can be continued; no
\* money appears or is overspent; dates do not go back; and what is closed was
\* opened on an earlier date and is closed once (_apply_candidate, _rebuild).
\* A document applied twice in a row changes the account only if the first
\* time a purchase was skipped for lack of cash.
ObservationAccountsAddUp ==
    \A i \in DOMAIN ledgers :
        LET l == ledgers[i]
            amounts(type) == SumFunctionOnSet([k \in DOMAIN l.events |-> l.events[k].amount],
                                              {k \in DOMAIN l.events : l.events[k].type = type})
            from == IF l.prior = 0 THEN 0 ELSE Len(ledgers[l.prior].events)
        IN  /\ Rebuilt(l.events) = l.account
            /\ l.account.cash = VirtualCash - amounts("opened") + amounts("closed")
            /\ l.account.cash >= 0
            /\ \A k \in 2 .. Len(l.events) : l.events[k - 1].date <= l.events[k].date
            /\ \A s \in Codes : \A k \in EventsOf(l, "closed", s) :
                  LET opened == {j \in EventsOf(l, "opened", s) : j < k}
                  IN  /\ Cardinality(opened) = 1 + Cardinality({j \in EventsOf(l, "closed", s) : j < k})
                      /\ l.events[Max(opened)].date < l.events[k].date
                      /\ l.events[Max(opened)].lots = l.events[k].lots
            /\ l.prior > 0 /\ ledgers[l.prior].doc = l.doc
                   /\ ledgers[l.prior].account # l.account =>
                  \E k \in 1 .. from : /\ l.events[k].type = "insufficient_cash"
                                       /\ l.doc.actions[l.events[k].stock] = "BUY"

\* Over any batches a review may be given, among them later answers for the
\* dates the candidate used, a verdict rests on a row that was fetched when all
\* of the candidate's own batches were, of a later date than any row the
\* candidate used for that stock (_first_later_row).
ReviewsKnowNoHindsight ==
    \A doc \in documents, batches \in SUBSET DOMAIN files :
        Reviewable(doc, batches) =>
            \A s \in DOMAIN doc.actions : \A i \in Realizations(doc, batches, s) :
                /\ Verdict(doc, s, i) # "not_scored" => doc.actions[s] # "HOLD"
                /\ \A b \in doc.inputs : /\ b.rows[s] > 0 => b.date < files[i].date
                                         /\ \E j \in 1 .. i - 1 : files[j] = b
=============================================================================
