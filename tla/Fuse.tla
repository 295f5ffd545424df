-------------------------------- MODULE Fuse --------------------------------
(***************************************************************************)
(* The circuit breaker of one trading mode.  It lives in two stores that   *)
(* have no common commit: rows of risk.fuse_records, read and written      *)
(* inside READ COMMITTED transactions, and the Redis key fuse:{mode},      *)
(* which is written and deleted at once.  Three kinds of session meet:     *)
(* activations (POST /risk/fuse/activate), recoveries (POST                *)
(* /risk/fuse/recover) and the orders that check it before they go on.     *)
(* A fuse record is named by the activation that inserts it.  The modes    *)
(* share neither rows nor keys, so one is enough.                          *)
(*                                                                         *)
(* Sources: risk/fuse.py, api/risk.py, trade/preflight.py, db/__init__.py. *)
(***************************************************************************)
EXTENDS Naturals, FiniteSets

CONSTANTS
    Activations,   \* executions of POST /risk/fuse/activate
    Recoveries,    \* executions of POST /risk/fuse/recover
    Checks,        \* executions of OrderPreflight.check_fuse
    Leftovers,     \* what an earlier release may have left in the key
    None           \* no record named

Readers  == Recoveries \cup Checks     \* those that call get_state
Sessions == Activations \cup Readers

ASSUME SessionsAssumption ==
    /\ Activations \cap Recoveries = {}
    /\ Activations \cap Checks = {}
    /\ Recoveries \cap Checks = {}
ASSUME LeftoversAssumption == Leftovers \subseteq {"unreadable"}
ASSUME NoneAssumption == None \notin Activations

VARIABLES
    record,     \* committed fuse_records rows, by inserting activation
    cache,      \* the Redis key fuse:{mode}
    pc,         \* how far a session has come
    saw,        \* what a session's query of fuse_records answered
    target,     \* the record a recovery's approval names
    standing    \* history: the records active ever since an order came in

stores == <<record, cache>>
vars == <<record, cache, pc, saw, target, standing>>

ActiveRecords == {a \in Activations : record[a] = "active"}

ActivationSteps == {"idle", "activating", "written", "activated", "confirmed",
                    "failed", "aborted"}
RecoverySteps == {"idle", "looked", "fused", "approved", "lifted", "cleared",
                  "recovered", "noop", "refused", "conflict", "failed"}
CheckSteps == {"idle", "entered", "looked", "passed", "blocked"}

TypeOK ==
    /\ record \in [Activations -> {"none", "active", "recovered"}]
    /\ cache \in {"empty", "active"} \cup Leftovers
    /\ pc \in [Sessions -> ActivationSteps \cup RecoverySteps \cup CheckSteps]
    /\ \A a \in Activations : pc[a] \in ActivationSteps
    /\ \A v \in Recoveries : pc[v] \in RecoverySteps
    /\ \A c \in Checks : pc[c] \in CheckSteps
    /\ saw \in [Sessions -> {"nothing", "active", "inactive", "unavailable"}]
    /\ target \in [Recoveries -> Activations \cup {None}]
    /\ standing \in [Checks -> SUBSET Activations]

Init ==
    /\ record = [a \in Activations |-> "none"]
    /\ cache \in {"empty"} \cup Leftovers
    /\ pc = [s \in Sessions |-> "idle"]
    /\ saw = [s \in Sessions |-> "nothing"]
    /\ target = [v \in Recoveries |-> None]
    /\ standing = [c \in Checks |-> {}]

Goes(s, step) == pc' = [pc EXCEPT ![s] = step]

\* _db_is_fused: the committed rows, as this statement finds them.
RecordsSay == IF ActiveRecords = {} THEN "inactive" ELSE "active"

-----------------------------------------------------------------------------
(* Activation: look at the rows; insert a record, or note that there is    *)
(* one; write the key either way; commit.                                  *)

\* The record is inserted, or the no-op event recorded, in an open
\* transaction: nobody sees either before the commit.
Begin(a) ==
    /\ pc[a] = "idle"
    /\ saw' = [saw EXCEPT ![a] = RecordsSay]
    /\ Goes(a, "activating")
    /\ UNCHANGED <<stores, target, standing>>

\* _sync_cache(active=True): visible at once, before the commit.
WriteKey(a) ==
    /\ pc[a] = "activating"
    /\ cache' = "active"
    /\ Goes(a, "written")
    /\ UNCHANGED <<record, saw, target, standing>>

\* The end of get_db and the answer {"is_active": True}.
CommitActivation(a) ==
    /\ pc[a] = "written"
    /\ IF saw[a] = "active"
       THEN Goes(a, "confirmed") /\ UNCHANGED record
       ELSE Goes(a, "activated") /\ record' = [record EXCEPT ![a] = "active"]
    /\ UNCHANGED <<cache, saw, target, standing>>

\* A statement, Redis, the alert or the commit raises, or the process dies:
\* the transaction is rolled back, the key is not.
FailActivation(a) ==
    /\ \/ pc[a] \in {"idle", "activating"} /\ Goes(a, "failed")
       \/ pc[a] = "written" /\ Goes(a, "aborted")
    /\ UNCHANGED <<stores, saw, target, standing>>

-----------------------------------------------------------------------------
(* get_state: the rows first, then the key, each of which may be out of    *)
(* reach.  The callers only ask whether the status is 'inactive'.          *)

\* Mutant: a database out of reach counts as 'no fuse'.
QueryRecordsOpen(s) ==
    /\ pc[s] = (IF s \in Checks THEN "entered" ELSE "idle")
    /\ \E answer \in {RecordsSay, "inactive"} : saw' = [saw EXCEPT ![s] = answer]
    /\ Goes(s, "looked")

QueryRecords(s) ==
    /\ pc[s] = (IF s \in Checks THEN "entered" ELSE "idle")
    /\ \E answer \in {RecordsSay, "unavailable"} : saw' = [saw EXCEPT ![s] = answer]
    /\ Goes(s, "looked")

\* The status, from the answer about the rows and what GET returned.
Status(rows, key) ==
    IF rows = "unavailable" \/ key \notin {"empty", "active"} THEN "blocked_unknown"
    ELSE IF rows = "active" THEN "active"
    ELSE IF key = "active" THEN "blocked_inconsistent" ELSE "inactive"

Statuses(s) == {Status(saw[s], key) : key \in {cache, "unavailable"}}

-----------------------------------------------------------------------------
(* A check: what an order asks before it goes on to the risk rules.        *)

\* An order request comes in; the check is one of its later steps.
EnterOrder(c) ==
    /\ pc[c] = "idle"
    /\ standing' = [standing EXCEPT ![c] = ActiveRecords]
    /\ Goes(c, "entered")
    /\ UNCHANGED <<stores, saw, target>>

CheckRecords(c) ==
    /\ QueryRecords(c)
    /\ UNCHANGED <<stores, target, standing>>

\* is_fused; an exception around it blocks as well.
CheckKey(c) ==
    /\ pc[c] = "looked"
    /\ \E status \in Statuses(c) :
          Goes(c, IF status = "inactive" THEN "passed" ELSE "blocked")
    /\ UNCHANGED <<stores, saw, target, standing>>

FailCheck(c) ==
    /\ pc[c] \in {"entered", "looked"}
    /\ Goes(c, "blocked")
    /\ UNCHANGED <<stores, saw, target, standing>>

-----------------------------------------------------------------------------
(* Recovery: three transactions.  The first only reads, the second         *)
(* consumes the approval, the third lifts the record and deletes the key.  *)

RecoverLooksAtRecords(v) ==
    /\ QueryRecords(v)
    /\ UNCHANGED <<stores, target, standing>>

RecoverLooksAtKey(v) ==
    /\ pc[v] = "looked"
    /\ \E status \in Statuses(v) :
          Goes(v, IF status = "inactive" THEN "noop" ELSE "fused")
    /\ UNCHANGED <<stores, saw, target, standing>>

\* consume_operation_approval, with what it binds: any record id at all.
ConsumeApproval(v) ==
    /\ pc[v] = "fused"
    /\ \/ \E a \in Activations :
             target' = [target EXCEPT ![v] = a] /\ Goes(v, "approved")
       \/ Goes(v, "refused") /\ UNCHANGED target
    /\ UNCHANGED <<stores, saw, standing>>

\* Recoveries whose UPDATE holds the lock of the record's row.
Lifting(a) == {v \in Recoveries : target[v] = a /\ pc[v] \in {"lifted", "cleared"}}

\* The UPDATE waits for the lock of the row and then compares is_active.
Lift(v) ==
    /\ pc[v] = "approved" /\ Lifting(target[v]) = {}
    /\ Goes(v, IF record[target[v]] = "active" THEN "lifted" ELSE "conflict")
    /\ UNCHANGED <<stores, saw, target, standing>>

ClearKey(v) ==
    /\ pc[v] = "lifted"
    /\ cache' = "empty"
    /\ Goes(v, "cleared")
    /\ UNCHANGED <<record, saw, target, standing>>

\* The end of get_db and the answer {"is_active": False}.
CommitRecovery(v) ==
    /\ pc[v] = "cleared"
    /\ record' = [record EXCEPT ![target[v]] = "recovered"]
    /\ standing' = [c \in Checks |->
                      IF pc[c] \in {"entered", "looked"} THEN standing[c] \ {target[v]}
                                                        ELSE standing[c]]
    /\ Goes(v, "recovered")
    /\ UNCHANGED <<cache, saw, target>>

\* Redis or a statement raises, or the process dies; the approval stays
\* consumed, a deleted key stays deleted.
FailRecovery(v) ==
    /\ pc[v] \in {"idle", "looked", "fused", "approved", "lifted", "cleared"}
    /\ Goes(v, "failed")
    /\ UNCHANGED <<stores, saw, target, standing>>

\* Redis runs without persistence and evicts any key (allkeys-lru).
LoseKey ==
    /\ cache # "empty"
    /\ cache' = "empty"
    /\ UNCHANGED <<record, pc, saw, target, standing>>

-----------------------------------------------------------------------------
StepOf(s) ==
    \/ s \in Activations /\ (Begin(s) \/ WriteKey(s) \/ CommitActivation(s))
    \/ s \in Checks /\ (EnterOrder(s) \/ CheckRecords(s) \/ CheckKey(s))
    \/ s \in Recoveries /\ \/ RecoverLooksAtRecords(s) \/ RecoverLooksAtKey(s)
                           \/ ConsumeApproval(s) \/ Lift(s) \/ ClearKey(s)
                           \/ CommitRecovery(s)

Next ==
    \/ \E s \in Sessions : StepOf(s)
    \/ \E a \in Activations : FailActivation(a)
    \/ \E c \in Checks : FailCheck(c)
    \/ \E v \in Recoveries : FailRecovery(v)
    \/ LoseKey

Spec == Init /\ [][Next]_vars

-----------------------------------------------------------------------------
(* Properties. *)

\* No order passes the check while a record that was already active when
\* the order came in still stands, whatever became of the key or of Redis and
\* the database in between (get_state, check_fuse).
StandingFuseStopsOrders ==
    \A c \in Checks : pc[c] = "passed" => standing[c] = {}

\* A record stops being active through one recovery whose approval names
\* it, and no two recoveries both report to have lifted it (recover's
\* compare-and-set under the row lock).
OneRecoveryPerRecord ==
    /\ \A a \in Activations :
          record[a] = "recovered" <=>
              \E v \in Recoveries : pc[v] = "recovered" /\ target[v] = a
    /\ \A v, w \in Recoveries :
          pc[v] = "recovered" /\ pc[w] = "recovered" /\ target[v] = target[w] => v = w

\* The key blocks the mode without a record behind it only if an activation
\* has still to commit, was rolled back after it wrote the key, or found the
\* fuse active and wrote the key again: activations that insert their record
\* and commit, with their recoveries, never leave it behind.
GhostKeyHasACause ==
    cache = "active" /\ ActiveRecords = {} =>
        \E a \in Activations : pc[a] \in {"written", "aborted", "confirmed"}

\* The rows and the key together: no order passes a standing fuse, each record
\* is lifted by one recovery, and a key without a record has a known cause.
FuseIsSound ==
    TypeOK /\ StandingFuseStopsOrders /\ OneRecoveryPerRecord /\ GhostKeyHasACause

-----------------------------------------------------------------------------
(* A claim of the repository that the code does not keep. *)

\* An activation answers {"is_active": True} (api/risk.py:186): in the step
\* in which it answers, the mode is blocked by a record or by the key.
ActivationBlocks ==
    [][\A a \in Activations :
          pc[a] = "written" /\ pc'[a] \in {"activated", "confirmed"}
            => (ActiveRecords # {})' \/ cache' # "empty"]_vars
=============================================================================
