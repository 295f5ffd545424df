-------------------------- MODULE StrategyVersions --------------------------
(***************************************************************************)
(* Governance of one strategy type.  Its configuration is a row of         *)
(* immutable versions under a head (revision, active version).  A strategy *)
(* admin submits the next version, which at once takes the head away from  *)
(* the version that was active; a risk admin approves it; in local         *)
(* development one audited script submits, approves and activates under    *)
(* one principal.  Each request is a PostgreSQL transaction that takes its *)
(* row locks one after another, the three kinds in different orders.       *)
(* Backtests take a snapshot of the active version when they are queued    *)
(* and compare it again before they run; the worker's strategy pool reads  *)
(* the active version without that comparison.                             *)
(*                                                                         *)
(* Version n is the row with version_number n, so the head's revision is   *)
(* the number of versions.  A parameter set is one value: an update that   *)
(* names params replaces it.  Hashes are equal when what they hash is.     *)
(***************************************************************************)
EXTENDS Naturals, Sequences, FiniteSets

CONSTANTS
    Admins,             \* principals with the role strategy_admin
    RiskAdmins,         \* principals with the role risk_admin
    Requests,           \* transactions, each serves one request
    Backtests,          \* queued backtest jobs of the strategy
    Params,             \* parameter sets of the catalogue's schema
    Default,            \* the catalogue's default_params
    Catalogs,           \* hashes of the catalogue entry, one per release
    ActivationRevision, \* the revision the activation script insists on
    Updates,            \* the [enabled, params] clients send, Nothing if left out
    MaxVersions,        \* bound on the versions submitted
    Nothing             \* a field the request leaves out, or no holder

Principals == Admins \cup RiskAdmins

ASSUME GovernanceAssumption ==
    /\ Admins \cap RiskAdmins = {}
    /\ Default \in Params /\ Catalogs # {}
    /\ IsFiniteSet(Requests)
    /\ MaxVersions \in Nat
    /\ ActivationRevision \in 0 .. MaxVersions - 1   \* room for the script's version
    /\ Nothing \notin Params \cup Requests \cup BOOLEAN \cup Principals
    /\ Updates \subseteq [enabled : BOOLEAN \cup {Nothing},
                         params : Params \cup {Nothing}]
    /\ [enabled |-> Nothing, params |-> Nothing] \notin Updates

VARIABLES
    versions,    \* the rows of strategy_versions with their approvals
    active,      \* the head's active_version_id, 0 for NULL
    live,        \* strategies.is_active
    activated,   \* versions with an 'activated' event inside its validity
    catalog,     \* the hash of the catalogue the running release ships
    authorized,  \* principals with a logged single-operator authorization
    exceptions,  \* versions logged as approved under the exception
    lock,        \* who holds a row or advisory lock
    req,         \* the state of a request
    job          \* the state of a backtest job

governed == <<versions, active, live, activated, authorized, exceptions>>
vars == <<governed, catalog, lock, req, job>>

Revision == Len(versions)
RowOf(v) == <<"version", v>>
Rows     == {<<"type">>, <<"subject">>, <<"head">>}
            \cup {RowOf(v) : v \in 1 .. MaxVersions}
            \cup {<<"principal", a>> : a \in Principals}

\* Mutant: the script locks its rows before it takes the advisory lock.
LockOrderLateAdvisory(r) ==
    CASE r.kind = "submit"   -> << <<"type">>, <<"subject">>, <<"head">> >>
      [] r.kind = "approve"  -> <<RowOf(r.version), <<"head">>, <<"subject">> >>
      [] r.kind = "activate" -> << <<"subject">>, <<"head">>, <<"type">> >>
      [] r.kind = "none"     -> <<>>

\* The locks a request takes, in the order its statements take them.  A
\* plain FOR UPDATE over a join locks its tables in the order they are named.
LockOrder(r) ==
    CASE r.kind = "submit"   -> << <<"type">>, <<"subject">>, <<"head">> >>
      [] r.kind = "approve"  -> <<RowOf(r.version), <<"head">>, <<"subject">> >>
      [] r.kind = "activate" -> << <<"principal", r.actor>>, <<"type">>,
                                   <<"subject">>, <<"head">>, RowOf(r.version)>>
      [] r.kind = "none"     -> <<>>

Idle == [kind |-> "none", actor |-> Nothing, version |-> 0, expected |-> 0,
         enabled |-> Nothing, params |-> Nothing, held |-> 0]

VersionRows == [requester : Principals, approver : Principals \cup {Nothing},
                status : {"pending", "approved"}, enabled : BOOLEAN,
                params : Params, catalog : Catalogs,
                omitted : SUBSET {"enabled", "params"}]

TypeOK ==
    /\ versions \in Seq(VersionRows) /\ Revision <= MaxVersions
    /\ active \in 0 .. Revision
    /\ live \in BOOLEAN
    /\ activated \subseteq 1 .. Revision
    /\ catalog \in Catalogs
    /\ authorized \subseteq Admins
    /\ exceptions \subseteq 1 .. Revision
    /\ lock \in [Rows -> Requests \cup {Nothing}]
    /\ \A r \in Requests : req[r].held \in 0 .. Len(LockOrder(req[r]))
    /\ job \in [Backtests -> [pc : {"none", "queued", "verified", "running", "ended"},
                              version : 0 .. MaxVersions]]

Init ==
    /\ versions = <<>>
    /\ active = 0
    /\ live = FALSE
    /\ activated = {}
    /\ catalog = CHOOSE c \in Catalogs : TRUE
    /\ authorized = {}
    /\ exceptions = {}
    /\ lock = [x \in Rows |-> Nothing]
    /\ req = [r \in Requests |-> Idle]
    /\ job = [b \in Backtests |-> [pc |-> "none", version |-> 0]]

----------------------------------------------------------------------------
(* What the head says.                                                     *)

\* _verified_config: the version was made under the catalogue in force.
Verified(v) == versions[v].catalog = catalog

\* The configuration status _entry_from_row reports for the head.
ConfigStatus ==
    IF active # 0
    THEN IF ~ (versions[active].status = "approved" /\ active = Revision)
         THEN "invalid"
         ELSE IF ~ Verified(active) THEN "invalid"
         ELSE IF versions[active].enabled THEN "approved" ELSE "approved_disabled"
    ELSE IF Revision = 0 THEN "unconfigured"
    ELSE IF versions[Revision].status = "pending" /\ Verified(Revision)
         THEN "pending_approval" ELSE "invalid"

\* What the worker's get_active_strategies returns: no catalogue is compared.
InPool == /\ active # 0 /\ active = Revision
          /\ versions[active].enabled /\ versions[active].status = "approved"

\* StrategyAdmissionService.resolve: one live subject whose active version
\* is approved, enabled, verified and inside the validity of its activation.
Admitted == live /\ ConfigStatus = "approved" /\ active \in activated

----------------------------------------------------------------------------
(* Transactions: begin, take the locks one by one, commit or be rolled     *)
(* back.                                                                   *)

Free(r) == [x \in Rows |-> IF lock[x] = r THEN Nothing ELSE lock[x]]

\* The request is over: its locks go, and it is free for another one.
End(r) == lock' = Free(r) /\ req' = [req EXCEPT ![r] = Idle]

Begin(r, request) ==
    /\ req[r] = Idle
    /\ req' = [req EXCEPT ![r] = request]
    /\ UNCHANGED <<governed, catalog, lock, job>>

\* POST /strategy/{type}/update and /strategy/create: the client sends the
\* revision it last saw, and the fields it wants changed.  The parameters stand
\* for one field, so that what is merged into them replaces them.
BeginSubmit(r) ==
    \E a \in Admins, u \in Updates :
        /\ Revision < MaxVersions
        /\ Begin(r, [Idle EXCEPT !.kind = "submit", !.actor = a,
                                 !.enabled = u.enabled, !.params = u.params,
                                 !.expected = Revision])

\* POST /strategy/versions/{id}/approve.
BeginApprove(r) ==
    \E a \in RiskAdmins, v \in 1 .. Revision :
        Begin(r, [Idle EXCEPT !.kind = "approve", !.actor = a, !.version = v])

\* The activation script, for a source version.
BeginActivate(r) ==
    \E a \in authorized, v \in 1 .. Revision :
        /\ Revision < MaxVersions
        /\ Begin(r, [Idle EXCEPT !.kind = "activate", !.actor = a, !.version = v])

AllHeld(r) == req[r].kind # "none" /\ req[r].held = Len(LockOrder(req[r]))
NextRow(r) == LockOrder(req[r])[req[r].held + 1]

Acquire(r) ==
    /\ req[r].kind # "none" /\ ~ AllHeld(r)
    /\ lock[NextRow(r)] = Nothing
    /\ lock' = [lock EXCEPT ![NextRow(r)] = r]
    /\ req' = [req EXCEPT ![r].held = @ + 1]
    /\ UNCHANGED <<governed, catalog, job>>

\* Whom a request waits for; PostgreSQL rolls back a request that waits,
\* through others, for itself.
Blocker(r) == IF req[r].kind = "none" \/ AllHeld(r) THEN Nothing ELSE lock[NextRow(r)]

Deadlocked(r) ==
    /\ Blocker(r) # Nothing
    /\ \E n \in 1 .. Cardinality(Requests) :
         \E chain \in [0 .. n -> Requests] :
            /\ chain[0] = r /\ chain[n] = r
            /\ \A i \in 1 .. n : chain[i] = Blocker(chain[i - 1])

AbortDeadlock(r) ==
    /\ Deadlocked(r)
    /\ End(r)
    /\ UNCHANGED <<governed, catalog, job>>

\* The version a submission inserts: what it leaves out comes from the
\* active version, and from the catalogue when none is active.
NewVersion(q) ==
    LET base == IF active = 0 THEN [enabled |-> FALSE, params |-> Default]
                ELSE [enabled |-> versions[active].enabled,
                      params |-> versions[active].params]
    IN [requester |-> q.actor, approver |-> Nothing, status |-> "pending",
        enabled |-> IF q.enabled = Nothing THEN base.enabled ELSE q.enabled,
        params |-> IF q.params = Nothing THEN base.params ELSE q.params,
        catalog |-> catalog,
        omitted |-> {f \in {"enabled", "params"} :
                        IF f = "enabled" THEN q.enabled = Nothing
                        ELSE q.params = Nothing}]

\* Mutant: the active version is built on without verifying it.
SubmittableUnverified(q) == q.expected = Revision

\* The revision is still the one the client saw, and the active version the
\* submission builds on verifies against the catalogue.
Submittable(q) == q.expected = Revision /\ (active # 0 => Verified(active))

CommitSubmit(r) ==
    /\ req[r].kind = "submit" /\ AllHeld(r)
    /\ IF Submittable(req[r])
       THEN /\ versions' = Append(versions, NewVersion(req[r]))
            /\ active' = 0
       ELSE UNCHANGED <<versions, active>>
    /\ End(r)
    /\ UNCHANGED <<live, activated, authorized, exceptions, catalog, job>>

\* Mutant: any pending version may be approved, also a superseded one.
ApprovableWhenStale(q) ==
    /\ versions[q.version].status = "pending"
    /\ versions[q.version].requester # q.actor
    /\ Verified(q.version)

\* The version waits for approval, is not the approver's own, is the newest,
\* none is active, and it verifies.
Approvable(q) ==
    /\ versions[q.version].status = "pending"
    /\ versions[q.version].requester # q.actor
    /\ Revision = q.version /\ active = 0
    /\ Verified(q.version)

CommitApprove(r) ==
    LET q == req[r] IN
    /\ q.kind = "approve" /\ AllHeld(r)
    /\ IF Approvable(q)
       THEN /\ versions' = [versions EXCEPT ![q.version].status = "approved",
                                            ![q.version].approver = q.actor]
            /\ active' = q.version
       ELSE UNCHANGED <<versions, active>>
    /\ End(r)
    /\ UNCHANGED <<live, activated, authorized, exceptions, catalog, job>>

\* The script's conditions: an approved and enabled source that verifies, a
\* subject never activated, no active version, and the expected revisions.
Activatable(q) ==
    /\ versions[q.version].status = "approved" /\ versions[q.version].enabled
    /\ Verified(q.version)
    /\ ~ live /\ active = 0
    /\ Revision = ActivationRevision /\ q.version = 1

\* In one transaction: submit the source's parameters as the next version,
\* approve it under the exception, log its validity, activate the subject.
CommitActivate(r) ==
    LET q == req[r] IN
    /\ q.kind = "activate" /\ AllHeld(r)
    /\ IF Activatable(q)
       THEN /\ versions' = Append(versions,
                    [NewVersion([q EXCEPT !.enabled = TRUE,
                                          !.params = versions[q.version].params])
                     EXCEPT !.status = "approved", !.approver = q.actor])
            /\ active' = Revision + 1
            /\ live' = TRUE
            /\ activated' = activated \cup {Revision + 1}
            /\ exceptions' = exceptions \cup {Revision + 1}
       ELSE UNCHANGED <<versions, active, live, activated, exceptions>>
    /\ End(r)
    /\ UNCHANGED <<authorized, catalog, job>>

\* record_local_development_single_operator_exception.py: one logged
\* authorization per principal, under the lock of the principal's row.
Authorize ==
    \E a \in Admins :
        /\ lock[<<"principal", a>>] = Nothing
        /\ authorized' = authorized \cup {a}
        /\ UNCHANGED <<versions, active, live, activated, exceptions, catalog,
                       lock, req, job>>

\* A release ships another catalogue.
Release ==
    /\ \E c \in Catalogs \ {catalog} : catalog' = c
    /\ UNCHANGED <<governed, lock, req, job>>

\* Ninety days after its activation a version is out of its validity.
Lapse ==
    /\ \E v \in activated : activated' = activated \ {v}
    /\ UNCHANGED <<versions, active, live, authorized, exceptions, catalog,
                   lock, req, job>>

----------------------------------------------------------------------------
(* Backtests.                                                              *)

JobStep(b, from, to, v) ==
    /\ job[b].pc = from
    /\ job' = [job EXCEPT ![b] = [pc |-> to, version |-> v]]
    /\ UNCHANGED <<governed, catalog, lock, req>>

\* BacktestJobService.enqueue: the snapshot of the approved and enabled head.
EnqueueBacktest(b) ==
    /\ ConfigStatus = "approved"
    /\ JobStep(b, "none", "queued", active)

\* verify_active_snapshot: the same version is still approved and enabled.
SnapshotHolds(b) == ConfigStatus = "approved" /\ active = job[b].version

\* execute verifies once after the claim and create_and_run once more.
VerifyBacktest(b) ==
    \/ SnapshotHolds(b) /\ JobStep(b, "queued", "verified", job[b].version)
    \/ SnapshotHolds(b) /\ JobStep(b, "verified", "running", job[b].version)
RefuseBacktest(b) ==
    \E from \in {"queued", "verified"} :
        /\ ~ SnapshotHolds(b)
        /\ JobStep(b, from, "ended", 0)
FinishBacktest(b) == JobStep(b, "running", "ended", 0)

----------------------------------------------------------------------------
Next ==
    \/ \E r \in Requests :
          \/ BeginSubmit(r) \/ BeginApprove(r) \/ BeginActivate(r)
          \/ Acquire(r) \/ AbortDeadlock(r)
          \/ CommitSubmit(r) \/ CommitApprove(r) \/ CommitActivate(r)
    \/ \E b \in Backtests :
          \/ EnqueueBacktest(b) \/ VerifyBacktest(b)
          \/ RefuseBacktest(b) \/ FinishBacktest(b)
    \/ Authorize \/ Release \/ Lapse

Spec == Init /\ [][Next]_vars

----------------------------------------------------------------------------
(* Properties.                                                             *)

\* The head is what the approvals say: the active version is the newest one
\* and approved, and no version in front of the newest can be used again.
HeadIsApproved ==
    /\ active # 0 => active = Revision /\ versions[active].status = "approved"
    /\ Revision > 0 => (active = 0 <=> versions[Revision].status = "pending")

\* Nobody approves a version of their own, but under an exception that was
\* authorized and whose use was logged with the approval.
SeparationOfDuties ==
    \A v \in 1 .. Revision :
        versions[v].approver = versions[v].requester
            => v \in exceptions /\ versions[v].approver \in authorized

\* A submission that leaves a field out keeps the value of the version before
\* it, unless that version was never approved: then the field falls back to
\* the catalogue's default although an older approved value exists.
OmittedFieldsKeepTheApproved ==
    \A v \in 1 .. Revision :
        LET kept(old) ==
                /\ "params" \in versions[v].omitted => versions[v].params = old.params
                /\ "enabled" \in versions[v].omitted => versions[v].enabled = old.enabled
        IN \/ v > 1 /\ versions[v - 1].status = "approved" /\ kept(versions[v - 1])
           \/ v > 1 /\ versions[v - 1].status = "pending"
                    /\ kept([enabled |-> FALSE, params |-> Default])
           \/ v = 1 /\ kept([enabled |-> FALSE, params |-> Default])

\* The three together: the stored governance state of version_service.submit
\* and approve and of the activation script is sound after every commit.
GovernanceIsSound ==
    TypeOK /\ HeadIsApproved /\ SeparationOfDuties /\ OmittedFieldsKeepTheApproved

\* What no step does: approve a version that has been superseded, replace an
\* active version made under another catalogue (a release that changes the
\* catalogue freezes the strategy until the old catalogue is back), or start
\* a backtest on a version that is not the verified, active one.
StepsAreGoverned ==
    [][/\ \A v \in 1 .. Revision :
              versions[v].status = "pending" /\ versions'[v].status = "approved"
                  => v = Revision /\ active = 0
       /\ active # 0 /\ ~ Verified(active) => versions' = versions /\ active' = active
       /\ \A b \in Backtests :
              job[b].pc # "running" /\ job'[b].pc = "running"
                  => active = job[b].version /\ Verified(active)]_vars

\* Submissions and the script take the type's advisory lock first, so requests
\* deadlock only when one of them is an approval: it alone takes the head's row
\* before the subject's.
OnlyApprovalsDeadlock ==
    \A r \in Requests :
        Deadlocked(r) => \E s \in Requests : Deadlocked(s) /\ req[s].kind = "approve"

============================================================================
