-------------------------- MODULE GovernanceProofs --------------------------
(***************************************************************************)
(* Proofs about the two parts of the system whose rows are the evidence    *)
(* for a decision: the versions of a strategy with their approvals, and    *)
(* the research evidence with its reviews.                                 *)
(*                                                                         *)
(* StrategyVersions: two invariants carry everything.  One                 *)
(* is about the requests under way: whom they name, which version, and     *)
(* which locks they hold, the first ones of their order.  The other is the *)
(* stored governance state itself, inductive with the first beside it,     *)
(* because a version that is not the newest never changes again.           *)
(*                                                                         *)
(* ResearchEvidence: one invariant for each of its parts:                  *)
(* what a collector has put on record, that a key of a reviewer has one    *)
(* row, that a review of the terms is about a terms row there is, and who  *)
(* may take the file of a snapshot away.                                   *)
(***************************************************************************)
EXTENDS StrategyVersions, ResearchEvidence, SequenceTheorems, FiniteSetTheorems,
        WellFoundedInduction, TLAPS

RequestRows == [kind : {"none", "submit", "approve", "activate"},
                actor : Principals \cup {Nothing}, version : Nat, expected : Nat,
                enabled : BOOLEAN \cup {Nothing}, params : Params \cup {Nothing}, held : Nat]

\* What a request may name: who has the role for it, a version there is, and
\* a submission only while the bound leaves room for a version.
Entitled(q) ==
    /\ q.kind = "submit" => q.actor \in Admins /\ q.expected < MaxVersions
    /\ q.kind = "approve" => q.actor \in RiskAdmins /\ q.version \in 1 .. Len(versions)
    /\ q.kind = "activate" => q.actor \in authorized /\ q.version \in 1 .. Len(versions)

\* How many locks a request takes.
Locks(q) == CASE q.kind = "none" -> 0 [] q.kind = "activate" -> 5 [] OTHER -> 3

\* A request holds the first rows of its order, and nothing else.
LocksInOrder ==
    \A r \in Requests, x \in Rows :
        lock[x] = r => \E i \in 1 .. req[r].held : LockOrder(req[r])[i] = x

RequestsInv ==
    /\ req \in [Requests -> RequestRows]
    /\ lock \in [Rows -> Requests \cup {Nothing}]
    /\ \A r \in Requests : Entitled(req[r]) /\ req[r].held <= Locks(req[r])
    /\ LocksInOrder

JobRows == [pc : {"none", "queued", "verified", "running", "ended"}, version : 0 .. MaxVersions]

StoredTypes ==
    /\ versions \in Seq(VersionRows) /\ Revision <= MaxVersions
    /\ active \in 0 .. Revision /\ live \in BOOLEAN
    /\ activated \subseteq 1 .. Revision /\ exceptions \subseteq 1 .. Revision
    /\ catalog \in Catalogs /\ authorized \subseteq Admins
    /\ job \in [Backtests -> JobRows]

StoredInv ==
    StoredTypes /\ HeadIsApproved /\ SeparationOfDuties /\ OmittedFieldsKeepTheApproved

Inv == RequestsInv /\ StoredInv

-----------------------------------------------------------------------------
(* Requests and their locks. *)

LEMMA OrderLength ==
    ASSUME NEW q \in RequestRows
    PROVE  Len(LockOrder(q)) = Locks(q) /\ Locks(q) \in Nat
  <1>1. CASE q.kind = "none"
    BY <1>1 DEF LockOrder, Locks
  <1>2. CASE q.kind = "submit"
    BY <1>2 DEF LockOrder, Locks
  <1>3. CASE q.kind = "approve"
    BY <1>3 DEF LockOrder, Locks
  <1>4. CASE q.kind = "activate"
    BY <1>4 DEF LockOrder, Locks
  <1> QED  BY <1>1, <1>2, <1>3, <1>4 DEF RequestRows

\* What a request holds does not change its order.
LEMMA OrderStays ==
    ASSUME NEW q \in RequestRows, NEW p \in RequestRows, p.kind = q.kind,
           p.actor = q.actor, p.version = q.version
    PROVE  LockOrder(p) = LockOrder(q) /\ Locks(p) = Locks(q)
  BY DEF LockOrder, Locks

LEMMA IdleRequest == Idle \in RequestRows /\ Entitled(Idle) /\ Idle.held = 0 /\ Idle.kind = "none"
  BY DEF Idle, RequestRows, Entitled

\* What a step may do to the stored state without troubling a request.
Forward == Len(versions) <= Len(versions)' /\ authorized \subseteq authorized'

LEMMA StillEntitled ==
    ASSUME NEW q \in RequestRows, Entitled(q), Forward,
           Len(versions) \in Nat, Len(versions)' \in Nat
    PROVE  Entitled(q)'
  BY DEF Entitled, Forward, RequestRows

\* One request goes on to what it is next; the others stay.
LEMMA RequestGoesOn ==
    ASSUME RequestsInv, Forward, Len(versions) \in Nat, Len(versions)' \in Nat,
           NEW r \in Requests, NEW next \in RequestRows, req' = [req EXCEPT ![r] = next],
           Entitled(next)', next.held <= Locks(next),
           lock' \in [Rows -> Requests \cup {Nothing}],
           \A s \in Requests \ {r}, x \in Rows : lock'[x] = s => lock[x] = s,
           \A x \in Rows : lock'[x] = r => \E i \in 1 .. next.held : LockOrder(next)[i] = x
    PROVE  RequestsInv'
  <1>1. req' \in [Requests -> RequestRows]
    BY DEF RequestsInv
  <1>2. req'[r] = next /\ \A s \in Requests \ {r} : req'[s] = req[s]
    BY DEF RequestsInv
  <1>3. ASSUME NEW s \in Requests  PROVE Entitled(req[s])' /\ req'[s].held <= Locks(req'[s])
    <2>1. CASE s = r
      BY <1>2, <2>1 DEF Entitled
    <2>2. CASE s # r
      <3>1. PICK q : q = req[s]
        OBVIOUS
      <3>2. q \in RequestRows /\ Entitled(q) /\ q.held <= Locks(q)
        BY <3>1 DEF RequestsInv
      <3>3. Entitled(q)'
        BY <3>2, StillEntitled
      <3>4. req'[s] = q
        BY <1>2, <2>2, <3>1
      <3> QED  BY <3>2, <3>3, <3>4 DEF Entitled
    <2> QED  BY <2>1, <2>2
  <1>4. ASSUME NEW s \in Requests, NEW x \in Rows, lock'[x] = s
        PROVE  \E i \in 1 .. req'[s].held : LockOrder(req'[s])[i] = x
    <2>1. CASE s = r
      BY <1>2, <1>4, <2>1
    <2>2. CASE s # r
      BY <1>2, <1>4, <2>2 DEF RequestsInv, LocksInOrder
    <2> QED  BY <2>1, <2>2
  <1>5. LocksInOrder'
    BY <1>4 DEF LocksInOrder, LockOrder
  <1> QED  BY <1>1, <1>3, <1>5 DEF RequestsInv, Locks

\* A new request holds nothing.
LEMMA RequestBegins ==
    ASSUME RequestsInv, NEW r \in Requests, NEW next \in RequestRows, Begin(r, next),
           Entitled(next), next.held = 0, Len(versions) \in Nat
    PROVE  RequestsInv'
  <1>1. /\ UNCHANGED <<versions, authorized, lock>> /\ req[r] = Idle
        /\ req' = [req EXCEPT ![r] = next]
    BY DEF Begin, governed
  <1>2. Entitled(next)'
    BY <1>1 DEF Entitled
  <1>3. \A x \in Rows : lock[x] # r
    <2> SUFFICES ASSUME NEW x \in Rows, lock[x] = r  PROVE FALSE
      OBVIOUS
    <2>1. PICK i \in 1 .. req[r].held : LockOrder(req[r])[i] = x
      BY DEF RequestsInv, LocksInOrder
    <2> QED  BY <1>1, <2>1, IdleRequest
  <1>4. 0 <= Locks(next) /\ Locks(next) \in Nat
    BY OrderLength
  <1>5. lock' \in [Rows -> Requests \cup {Nothing}] /\ next.held <= Locks(next)
    BY <1>1, <1>4 DEF RequestsInv
  <1>6. /\ \A s \in Requests \ {r}, x \in Rows : lock'[x] = s => lock[x] = s
        /\ \A x \in Rows : lock'[x] = r => \E i \in 1 .. next.held : LockOrder(next)[i] = x
    BY <1>1, <1>3
  <1>7. Forward /\ Len(versions)' \in Nat
    BY <1>1 DEF Forward
  <1> QED  BY <1>1, <1>2, <1>5, <1>6, <1>7, RequestGoesOn

\* A request that ends lets all its rows go.
LEMMA RequestEnds ==
    ASSUME RequestsInv, NEW r \in Requests, End(r), Forward,
           Len(versions) \in Nat, Len(versions)' \in Nat
    PROVE  RequestsInv'
  <1>1. \A x \in Rows : lock'[x] = IF lock[x] = r THEN Nothing ELSE lock[x]
    BY DEF End, Free
  <1>2. lock' \in [Rows -> Requests \cup {Nothing}]
    BY DEF End, Free, RequestsInv
  <1>3. Nothing \notin Requests
    BY GovernanceAssumption
  <1>4. PICK idle : idle = Idle
    OBVIOUS
  <1>5. idle \in RequestRows /\ idle.held = 0 /\ idle.kind = "none"
    BY <1>4, IdleRequest
  <1>6. Entitled(idle)' /\ idle.held <= Locks(idle)
    BY <1>5, OrderLength DEF Entitled
  <1>7. req' = [req EXCEPT ![r] = idle]
    BY <1>4 DEF End
  <1>8. /\ \A s \in Requests \ {r}, x \in Rows : lock'[x] = s => lock[x] = s
        /\ \A x \in Rows : lock'[x] # r
    BY <1>1, <1>3
  <1> QED  BY <1>2, <1>5, <1>6, <1>7, <1>8, RequestGoesOn

LEMMA RequestAcquires ==
    ASSUME RequestsInv, NEW r \in Requests, Acquire(r), Len(versions) \in Nat
    PROVE  RequestsInv'
  <1>1. PICK q : q = req[r]
    OBVIOUS
  <1>2. PICK next : next = [q EXCEPT !.held = q.held + 1]
    OBVIOUS
  <1>3. q \in RequestRows /\ Entitled(q) /\ q.held <= Locks(q) /\ q.held # Locks(q)
    BY <1>1, OrderLength DEF RequestsInv, Acquire, AllHeld
  <1>4. /\ next \in RequestRows /\ next.held = q.held + 1
        /\ next.kind = q.kind /\ next.actor = q.actor /\ next.version = q.version
        /\ next.expected = q.expected
    BY <1>2, <1>3 DEF RequestRows
  <1>5. LockOrder(next) = LockOrder(q) /\ Locks(next) = Locks(q) /\ Locks(q) \in Nat
    BY <1>3, <1>4, OrderStays, OrderLength
  <1>6. PICK row : row = LockOrder(q)[q.held + 1]
    OBVIOUS
  <1>7. /\ UNCHANGED <<versions, authorized>>
        /\ lock' = [lock EXCEPT ![row] = r] /\ req' = [req EXCEPT ![r] = next]
    BY <1>1, <1>2, <1>6 DEF Acquire, governed, NextRow
  <1>8. Entitled(next)'
    BY <1>3, <1>4, <1>7 DEF Entitled
  <1>9. q.held \in Nat /\ next.held <= Locks(next)
    BY <1>3, <1>4, <1>5 DEF RequestRows
  <1>10. lock' \in [Rows -> Requests \cup {Nothing}]
    BY <1>7 DEF RequestsInv
  <1>11. ASSUME NEW x \in Rows, lock'[x] = r
         PROVE  \E i \in 1 .. next.held : LockOrder(next)[i] = x
    <2>1. CASE x = row
      BY <1>4, <1>5, <1>6, <1>9, <2>1
    <2>2. CASE x # row
      <3>1. lock[x] = r
        BY <1>7, <1>11, <2>2 DEF RequestsInv
      <3>2. PICK i \in 1 .. q.held : LockOrder(q)[i] = x
        BY <1>1, <3>1 DEF RequestsInv, LocksInOrder
      <3> QED  BY <1>4, <1>5, <1>9, <3>2
    <2> QED  BY <2>1, <2>2
  <1>12. \A s \in Requests \ {r}, x \in Rows : lock'[x] = s => lock[x] = s
    BY <1>7 DEF RequestsInv
  <1>13. Forward /\ Len(versions)' \in Nat
    BY <1>7 DEF Forward
  <1> QED  BY <1>4, <1>7, <1>8, <1>9, <1>10, <1>11, <1>12, <1>13, RequestGoesOn

LEMMA RequestsStep ==
    ASSUME RequestsInv, Forward, Len(versions) \in Nat, Len(versions)' \in Nat,
           authorized \subseteq Admins, [Next]_vars
    PROVE  RequestsInv'
  <1>1. CASE UNCHANGED <<versions, authorized, lock, req>>
    BY <1>1 DEF RequestsInv, LocksInOrder, Entitled
  <1>2. ASSUME NEW r \in Requests, BeginSubmit(r)  PROVE RequestsInv'
    <2>1. PICK a \in Admins, u \in Updates :
            /\ Revision < MaxVersions
            /\ Begin(r, [Idle EXCEPT !.kind = "submit", !.actor = a,
                                     !.enabled = u.enabled, !.params = u.params,
                                     !.expected = Revision])
      BY <1>2 DEF BeginSubmit
    <2>2. PICK next : next = [Idle EXCEPT !.kind = "submit", !.actor = a,
                                          !.enabled = u.enabled, !.params = u.params,
                                          !.expected = Revision]
      OBVIOUS
    <2>3. next \in RequestRows /\ Entitled(next) /\ next.held = 0
      BY <2>1, <2>2, GovernanceAssumption
         DEF Idle, RequestRows, Entitled, Revision, Principals
    <2> QED  BY <2>1, <2>2, <2>3, RequestBegins
  <1>3. ASSUME NEW r \in Requests, BeginApprove(r)  PROVE RequestsInv'
    <2>1. PICK a \in RiskAdmins, v \in 1 .. Revision :
            Begin(r, [Idle EXCEPT !.kind = "approve", !.actor = a, !.version = v])
      BY <1>3 DEF BeginApprove
    <2>2. PICK next : next = [Idle EXCEPT !.kind = "approve", !.actor = a, !.version = v]
      OBVIOUS
    <2>3. /\ next.kind = "approve" /\ next.actor = a /\ next.version = v /\ next.held = 0
          /\ next = [kind |-> "approve", actor |-> a, version |-> v, expected |-> 0,
                     enabled |-> Nothing, params |-> Nothing, held |-> 0]
      BY <2>2 DEF Idle
    <2>4. a \in Principals /\ v \in Nat
      BY <2>1 DEF Principals, Revision
    <2>5. next \in RequestRows
      BY <2>3, <2>4 DEF RequestRows
    <2>6. Entitled(next)
      BY <2>1, <2>3 DEF Entitled, Revision
    <2> QED  BY <2>1, <2>2, <2>3, <2>5, <2>6, RequestBegins
  <1>4. ASSUME NEW r \in Requests, BeginActivate(r)  PROVE RequestsInv'
    <2>1. PICK a \in authorized, v \in 1 .. Revision :
            Begin(r, [Idle EXCEPT !.kind = "activate", !.actor = a, !.version = v])
      BY <1>4 DEF BeginActivate
    <2>2. PICK next : next = [Idle EXCEPT !.kind = "activate", !.actor = a, !.version = v]
      OBVIOUS
    <2>3. /\ next.kind = "activate" /\ next.actor = a /\ next.version = v /\ next.held = 0
          /\ next = [kind |-> "activate", actor |-> a, version |-> v, expected |-> 0,
                     enabled |-> Nothing, params |-> Nothing, held |-> 0]
      BY <2>2 DEF Idle
    <2>4. a \in Principals /\ v \in Nat
      BY <2>1 DEF Principals, Revision
    <2>5. next \in RequestRows
      BY <2>3, <2>4 DEF RequestRows
    <2>6. Entitled(next)
      BY <2>1, <2>3 DEF Entitled, Revision
    <2> QED  BY <2>1, <2>2, <2>3, <2>5, <2>6, RequestBegins
  <1>5. ASSUME NEW r \in Requests,
               \/ AbortDeadlock(r) \/ CommitSubmit(r) \/ CommitApprove(r) \/ CommitActivate(r)
        PROVE  RequestsInv'
    <2>1. End(r)
      BY <1>5 DEF AbortDeadlock, CommitSubmit, CommitApprove, CommitActivate
    <2> QED  BY <2>1, RequestEnds
  <1>6. ASSUME NEW b \in Backtests, \/ EnqueueBacktest(b) \/ VerifyBacktest(b)
                                    \/ RefuseBacktest(b) \/ FinishBacktest(b)
        PROVE  UNCHANGED <<versions, authorized, lock, req>>
    BY <1>6 DEF EnqueueBacktest, VerifyBacktest, RefuseBacktest, FinishBacktest, JobStep, governed
  <1>7. CASE Authorize
    <2>1. UNCHANGED <<versions, lock, req>>
      BY <1>7 DEF Authorize
    <2>2. \A r \in Requests : Entitled(req[r])'
      BY <2>1, StillEntitled DEF RequestsInv, Entitled, Forward
    <2> QED  BY <2>1, <2>2 DEF RequestsInv, LocksInOrder, Locks
  <1>8. CASE Release \/ Lapse
    BY <1>1, <1>8 DEF Release, Lapse, governed
  <1>9. CASE UNCHANGED vars
    BY <1>1, <1>9 DEF vars, governed
  <1> QED  BY <1>1, <1>2, <1>3, <1>4, <1>5, <1>6, <1>7, <1>8, <1>9, RequestAcquires DEF Next

-----------------------------------------------------------------------------
(* The stored governance state. *)

\* A field left out has the value of the row the version builds on.
Kept(row, old) ==
    /\ "params" \in row.omitted => row.params = old.params
    /\ "enabled" \in row.omitted => row.enabled = old.enabled
Bare == [enabled |-> FALSE, params |-> Default]
Base == IF active = 0 THEN Bare
        ELSE [enabled |-> versions[active].enabled, params |-> versions[active].params]
KeepsBase(v) ==
    \/ v > 1 /\ versions[v - 1].status = "approved" /\ Kept(versions[v], versions[v - 1])
    \/ v > 1 /\ versions[v - 1].status = "pending" /\ Kept(versions[v], Bare)
    \/ v = 1 /\ Kept(versions[v], Bare)

LEMMA OmittedByRow == OmittedFieldsKeepTheApproved <=> \A v \in 1 .. Revision : KeepsBase(v)
  BY DEF OmittedFieldsKeepTheApproved, KeepsBase, Kept, Bare

LEMMA NewVersionFits ==
    ASSUME StoredTypes, NEW q \in RequestRows, q.actor \in Principals
    PROVE  /\ NewVersion(q) \in VersionRows /\ Kept(NewVersion(q), Base)
           /\ NewVersion(q).requester = q.actor /\ NewVersion(q).approver = Nothing
           /\ NewVersion(q).status = "pending"
           /\ q.enabled # Nothing /\ q.params # Nothing => NewVersion(q).omitted = {}
  <1> DEFINE base == IF active = 0 THEN [enabled |-> FALSE, params |-> Default]
                     ELSE [enabled |-> versions[active].enabled,
                           params |-> versions[active].params]
             left == {f \in {"enabled", "params"} : IF f = "enabled" THEN q.enabled = Nothing
                                                    ELSE q.params = Nothing}
             on   == IF q.enabled = Nothing THEN base.enabled ELSE q.enabled
             with == IF q.params = Nothing THEN base.params ELSE q.params
  <1>1. NewVersion(q) = [requester |-> q.actor, approver |-> Nothing, status |-> "pending",
                         enabled |-> on, params |-> with, catalog |-> catalog, omitted |-> left]
    BY DEF NewVersion
  <1>2. base.enabled \in BOOLEAN /\ base.params \in Params /\ base = Base
    <2>1. CASE active = 0
      BY <2>1, GovernanceAssumption DEF Base, Bare
    <2>2. CASE active # 0
      <3>1. versions[active] \in VersionRows
        BY <2>2, ElementOfSeq, LenProperties DEF StoredTypes, Revision
      <3> QED  BY <2>2, <3>1 DEF VersionRows, Base
    <2> QED  BY <2>1, <2>2
  <1>3. on \in BOOLEAN /\ with \in Params
    BY <1>2 DEF RequestRows
  <1>4. left \subseteq {"enabled", "params"}
    OBVIOUS
  <1>5. /\ "params" \in left => with = base.params
        /\ "enabled" \in left => on = base.enabled
        /\ q.enabled # Nothing /\ q.params # Nothing => left = {}
    OBVIOUS
  <1> HIDE DEF base, left, on, with
  <1> QED  BY <1>1, <1>2, <1>3, <1>4, <1>5 DEF VersionRows, Kept, StoredTypes

\* A version is added in front of the others, pending or active at once.
LEMMA VersionAdded ==
    ASSUME StoredInv, NEW row \in VersionRows, versions' = Append(versions, row),
           Revision < MaxVersions, Kept(row, Base),
           \/ active' = 0 /\ row.status = "pending"
           \/ active' = Revision + 1 /\ row.status = "approved",
           row.approver = row.requester => Revision + 1 \in exceptions' /\ row.approver \in authorized,
           live' \in BOOLEAN,
           activated' \subseteq activated \cup {Revision + 1},
           exceptions \subseteq exceptions', exceptions' \subseteq exceptions \cup {Revision + 1},
           UNCHANGED <<authorized, catalog, job>>
    PROVE  StoredInv'
  <1>1. /\ versions' \in Seq(VersionRows) /\ Revision \in Nat /\ Revision' = Revision + 1
        /\ versions'[Revision + 1] = row
        /\ \A v \in 1 .. Revision : versions'[v] = versions[v]
    BY AppendProperties, LenProperties DEF StoredInv, StoredTypes, Revision
  <1>2. StoredTypes'
    <2>1. Revision' <= MaxVersions /\ active' \in 0 .. Revision'
      BY <1>1, GovernanceAssumption
    <2>2. activated' \subseteq 1 .. Revision' /\ exceptions' \subseteq 1 .. Revision'
      <3>1. \A v \in 1 .. Revision : v \in 1 .. Revision'
        BY <1>1
      <3>2. Revision + 1 \in 1 .. Revision'
        BY <1>1
      <3> QED  BY <3>1, <3>2 DEF StoredInv, StoredTypes
    <2> QED  BY <1>1, <2>1, <2>2 DEF StoredInv, StoredTypes
  <1>3. HeadIsApproved'
    <2>1. versions'[Revision'].status = row.status /\ Revision' > 0 /\ Revision + 1 # 0
      BY <1>1
    <2> QED  BY <1>1, <2>1 DEF HeadIsApproved
  <1>4. SeparationOfDuties'
    <2> SUFFICES ASSUME NEW v \in 1 .. Revision', versions'[v].approver = versions'[v].requester
                 PROVE  v \in exceptions' /\ versions'[v].approver \in authorized'
      BY DEF SeparationOfDuties
    <2>1. CASE v = Revision + 1
      BY <1>1, <2>1
    <2>2. CASE v \in 1 .. Revision
      BY <1>1, <2>2 DEF StoredInv, SeparationOfDuties
    <2>3. v = Revision + 1 \/ v \in 1 .. Revision
      BY <1>1
    <2> QED  BY <2>1, <2>2, <2>3
  <1>5. ASSUME NEW v \in 1 .. Revision'  PROVE KeepsBase(v)'
    <2>1. CASE v \in 1 .. Revision
      <3>1. KeepsBase(v)
        BY <2>1, OmittedByRow DEF StoredInv
      <3>2. v > 1 => v - 1 \in 1 .. Revision
        BY <1>1, <2>1
      <3> QED  BY <1>1, <2>1, <3>1, <3>2 DEF KeepsBase
    <2>2. CASE v = Revision + 1 /\ active # 0
      <3>1. /\ active = Revision /\ Revision \in 1 .. Revision
            /\ versions[Revision].status = "approved"
        BY <1>1, <2>2 DEF StoredInv, StoredTypes, HeadIsApproved
      <3>2. Kept(row, versions[Revision])
        BY <2>2, <3>1 DEF Base, Kept
      <3>3. v > 1 /\ v - 1 = Revision
        BY <1>1, <2>2, <3>1
      <3>4. versions'[v] = row /\ versions'[v - 1] = versions[Revision]
        BY <1>1, <2>2, <3>1, <3>3
      <3> QED  BY <3>1, <3>2, <3>3, <3>4 DEF KeepsBase
    <2>3. CASE v = Revision + 1 /\ active = 0
      <3>1. Kept(row, Bare)
        BY <2>3 DEF Base
      <3>2. Revision > 0 => Revision \in 1 .. Revision /\ versions[Revision].status = "pending"
        BY <1>1, <2>3 DEF StoredInv, HeadIsApproved
      <3>3. /\ versions'[v] = row
            /\ \/ v = 1
               \/ v > 1 /\ v - 1 = Revision /\ Revision > 0
        <4>1. PICK n \in Nat : n = Revision
          BY <1>1
        <4>2. v = n + 1 /\ versions'[v] = row
          BY <1>1, <2>3, <4>1
        <4>3. v = 1 \/ (v > 1 /\ v - 1 = n /\ n > 0)
          BY <4>2
        <4> QED  BY <4>1, <4>2, <4>3
      <3>4. v > 1 => versions'[v - 1].status = "pending"
        <4> SUFFICES ASSUME v > 1  PROVE versions'[v - 1].status = "pending"
          OBVIOUS
        <4>1. v - 1 = Revision /\ Revision > 0
          BY <3>3
        <4>2. versions'[Revision] = versions[Revision] /\ versions[Revision].status = "pending"
          BY <1>1, <3>2, <4>1
        <4> QED  BY <4>1, <4>2
      <3> QED  BY <3>1, <3>3, <3>4 DEF KeepsBase, Bare
    <2>4. v = Revision + 1 \/ v \in 1 .. Revision
      BY <1>1
    <2> QED  BY <2>1, <2>2, <2>3, <2>4
  <1>6. OmittedFieldsKeepTheApproved'
    BY <1>5 DEF OmittedFieldsKeepTheApproved, KeepsBase, Kept, Bare
  <1> QED  BY <1>2, <1>3, <1>4, <1>6 DEF StoredInv

\* The newest version is approved, and nothing else about it changes.
LEMMA VersionApproved ==
    ASSUME StoredInv, NEW v \in 1 .. Revision, NEW a \in Principals, v = Revision, active = 0,
           versions[v].requester # a,
           versions' = [versions EXCEPT ![v].status = "approved", ![v].approver = a],
           active' = v,
           UNCHANGED <<live, activated, authorized, exceptions, catalog, job>>
    PROVE  StoredInv' /\ Forward
  <1>1. PICK row : row = versions[v]
    OBVIOUS
  <1>2. PICK next : next = [row EXCEPT !.status = "approved", !.approver = a]
    OBVIOUS
  <1>3. row \in VersionRows /\ row.requester # a
    BY <1>1, ElementOfSeq DEF StoredInv, StoredTypes, Revision
  <1>4. /\ next \in VersionRows /\ next.status = "approved" /\ next.approver = a
        /\ next.requester = row.requester /\ next.omitted = row.omitted
        /\ next.params = row.params /\ next.enabled = row.enabled
    BY <1>2, <1>3 DEF VersionRows
  <1>5. versions' = [versions EXCEPT ![v] = next]
    BY <1>1, <1>2
  <1>6. /\ versions' \in Seq(VersionRows) /\ Revision \in Nat /\ Revision' = Revision
        /\ versions'[v] = next /\ \A w \in 1 .. Revision : w # v => versions'[w] = versions[w]
    <2>1. versions \in Seq(VersionRows) /\ v \in 1 .. Len(versions) /\ Len(versions) \in Nat
      BY LenProperties DEF StoredInv, StoredTypes, Revision
    <2>2. /\ versions' \in Seq(VersionRows) /\ Len(versions') = Len(versions)
          /\ \A w \in 1 .. Len(versions) : versions'[w] = IF w = v THEN next ELSE versions[w]
      <3>1. \A S, seq, i, e : seq \in Seq(S) /\ i \in 1 .. Len(seq) /\ e \in S =>
              /\ [seq EXCEPT ![i] = e] \in Seq(S) /\ Len([seq EXCEPT ![i] = e]) = Len(seq)
              /\ \A j \in 1 .. Len(seq) : [seq EXCEPT ![i] = e][j] = IF j = i THEN e ELSE seq[j]
        BY ExceptSeq
      <3>2. PICK seq : seq = versions
        OBVIOUS
      <3>3. seq \in Seq(VersionRows) /\ v \in 1 .. Len(seq) /\ next \in VersionRows
        BY <1>4, <2>1, <3>2
      <3>4. versions' = [seq EXCEPT ![v] = next]
        BY <1>5, <3>2
      <3>5. /\ [seq EXCEPT ![v] = next] \in Seq(VersionRows)
            /\ Len([seq EXCEPT ![v] = next]) = Len(seq)
            /\ \A j \in 1 .. Len(seq) : [seq EXCEPT ![v] = next][j] = IF j = v THEN next ELSE seq[j]
        BY <3>1, <3>3
      <3> QED  BY <3>2, <3>4, <3>5
    <2> QED  BY <2>1, <2>2 DEF Revision
  <1>7. StoredTypes'
    BY <1>6 DEF StoredInv, StoredTypes
  <1>8. HeadIsApproved'
    BY <1>4, <1>6 DEF HeadIsApproved
  <1>9. SeparationOfDuties'
    <2> SUFFICES ASSUME NEW w \in 1 .. Revision', versions'[w].approver = versions'[w].requester
                 PROVE  w \in exceptions' /\ versions'[w].approver \in authorized'
      BY DEF SeparationOfDuties
    <2>1. w # v
      BY <1>3, <1>4, <1>6
    <2> QED  BY <1>6, <2>1 DEF StoredInv, SeparationOfDuties
  <1>10. ASSUME NEW w \in 1 .. Revision'  PROVE KeepsBase(w)'
    <2>1. KeepsBase(w)
      BY <1>6, OmittedByRow DEF StoredInv
    <2>2. w > 1 => w - 1 \in 1 .. Revision /\ w - 1 # v
      BY <1>6
    <2>3. \A old : Kept(versions[w], old) => Kept(versions'[w], old)
      <3>1. CASE w = v
        BY <1>1, <1>4, <1>6, <3>1 DEF Kept
      <3>2. CASE w # v
        BY <1>6, <3>2
      <3> QED  BY <3>1, <3>2
    <2> QED  BY <1>6, <2>1, <2>2, <2>3 DEF KeepsBase
  <1>11. OmittedFieldsKeepTheApproved'
    BY <1>10 DEF OmittedFieldsKeepTheApproved, KeepsBase, Kept, Bare
  <1> QED  BY <1>6, <1>7, <1>8, <1>9, <1>11 DEF StoredInv, Forward, Revision

\* What no version and no approval is touched by.
LEMMA StoredStays ==
    ASSUME StoredInv, UNCHANGED <<versions, active, exceptions>>,
           live' \in BOOLEAN, activated' \subseteq activated, catalog' \in Catalogs,
           authorized \subseteq authorized', authorized' \subseteq Admins,
           job' \in [Backtests -> JobRows]
    PROVE  StoredInv' /\ Forward
  <1>1. StoredTypes' /\ HeadIsApproved' /\ SeparationOfDuties'
    BY DEF StoredInv, StoredTypes, HeadIsApproved, SeparationOfDuties, Revision
  <1>2. OmittedFieldsKeepTheApproved'
    BY DEF StoredInv, OmittedFieldsKeepTheApproved, Revision
  <1>3. Len(versions) \in Nat
    BY LenProperties DEF StoredInv, StoredTypes
  <1> QED  BY <1>1, <1>2, <1>3 DEF StoredInv, Forward

\* A submission or a script adds a version, an approval changes the newest one.
LEMMA SubmitStep ==
    ASSUME Inv, NEW r \in Requests, CommitSubmit(r)
    PROVE  StoredInv' /\ Forward
  <1>1. PICK q : q = req[r]
    OBVIOUS
  <1>2. /\ q \in RequestRows /\ q.actor \in Admins /\ q.expected < MaxVersions
        /\ q.actor \in Principals
    BY <1>1 DEF Inv, RequestsInv, CommitSubmit, Entitled, Principals
  <1>3. UNCHANGED <<live, activated, authorized, exceptions, catalog, job>>
    BY DEF CommitSubmit
  <1>4. CASE Submittable(q)
    <2>1. PICK row : row = NewVersion(q)
      OBVIOUS
    <2>2. /\ row \in VersionRows /\ Kept(row, Base) /\ row.status = "pending"
          /\ row.requester = q.actor /\ row.approver = Nothing
      BY <1>2, <2>1, NewVersionFits DEF Inv, StoredInv
    <2>3. row.approver # row.requester
      BY <1>2, <2>2, GovernanceAssumption
    <2>4. versions' = Append(versions, row) /\ active' = 0 /\ Revision < MaxVersions
      BY <1>1, <1>2, <1>4, <2>1 DEF CommitSubmit, Submittable
    <2>5. StoredInv'
      BY <1>3, <2>2, <2>3, <2>4, VersionAdded DEF Inv, StoredInv, StoredTypes
    <2>6. Len(versions') = Len(versions) + 1 /\ Len(versions) \in Nat
      BY <2>2, <2>4, AppendProperties, LenProperties DEF Inv, StoredInv, StoredTypes
    <2> QED  BY <1>3, <2>5, <2>6 DEF Forward
  <1>5. CASE ~ Submittable(q)
    <2>1. UNCHANGED <<versions, active>>
      BY <1>1, <1>5 DEF CommitSubmit
    <2> QED  BY <1>3, <2>1, StoredStays DEF Inv, StoredInv, StoredTypes
  <1> QED  BY <1>4, <1>5

LEMMA ApproveStep ==
    ASSUME Inv, NEW r \in Requests, CommitApprove(r)
    PROVE  StoredInv' /\ Forward
  <1>1. PICK q : q = req[r]
    OBVIOUS
  <1>2. q \in RequestRows /\ q.actor \in Principals /\ q.version \in 1 .. Revision
    BY <1>1 DEF Inv, RequestsInv, CommitApprove, Entitled, Principals, Revision
  <1>3. UNCHANGED <<live, activated, authorized, exceptions, catalog, job>>
    BY DEF CommitApprove
  <1>4. CASE Approvable(q)
    <2>1. PICK v, a : v = q.version /\ a = q.actor
      OBVIOUS
    <2>2. /\ v = Revision /\ active = 0 /\ versions[v].requester # a
          /\ versions' = [versions EXCEPT ![v].status = "approved", ![v].approver = a]
          /\ active' = v
      BY <1>1, <1>4, <2>1 DEF CommitApprove, Approvable
    <2>3. v \in 1 .. Revision /\ a \in Principals
      BY <1>2, <2>1
    <2> QED  BY <1>3, <2>2, <2>3, VersionApproved DEF Inv
  <1>5. CASE ~ Approvable(q)
    <2>1. UNCHANGED <<versions, active>>
      BY <1>1, <1>5 DEF CommitApprove
    <2> QED  BY <1>3, <2>1, StoredStays DEF Inv, StoredInv, StoredTypes
  <1> QED  BY <1>4, <1>5

LEMMA ActivateStep ==
    ASSUME Inv, NEW r \in Requests, CommitActivate(r)
    PROVE  StoredInv' /\ Forward
  <1>1. PICK q : q = req[r]
    OBVIOUS
  <1>2. /\ q \in RequestRows /\ q.actor \in authorized /\ q.actor \in Principals
        /\ q.version \in 1 .. Revision
    BY <1>1 DEF Inv, RequestsInv, CommitActivate, Entitled, Principals, Revision,
                StoredInv, StoredTypes
  <1>3. UNCHANGED <<authorized, catalog, job>>
    BY DEF CommitActivate
  <1>4. CASE Activatable(q)
    <2>1. PICK asked : asked = [q EXCEPT !.enabled = TRUE, !.params = versions[q.version].params]
      OBVIOUS
    <2>2. versions[q.version] \in VersionRows
      BY <1>2, ElementOfSeq DEF Inv, StoredInv, StoredTypes, Revision
    <2>3. /\ asked \in RequestRows /\ asked.actor = q.actor
          /\ asked.enabled # Nothing /\ asked.params # Nothing
      BY <1>2, <2>1, <2>2, GovernanceAssumption DEF RequestRows, VersionRows
    <2>4. PICK made : made = NewVersion(asked)
      OBVIOUS
    <2>5. made \in VersionRows /\ made.requester = q.actor /\ made.omitted = {}
      BY <1>2, <2>3, <2>4, NewVersionFits DEF Inv, StoredInv
    <2>6. PICK row : row = [made EXCEPT !.status = "approved", !.approver = q.actor]
      OBVIOUS
    <2>7. /\ row \in VersionRows /\ row.status = "approved" /\ row.approver = q.actor
          /\ row.omitted = {}
      BY <1>2, <2>5, <2>6 DEF VersionRows
    <2>8. /\ versions' = Append(versions, row) /\ active' = Revision + 1 /\ live' = TRUE
          /\ activated' = activated \cup {Revision + 1}
          /\ exceptions' = exceptions \cup {Revision + 1}
      BY <1>1, <1>4, <2>1, <2>4, <2>6 DEF CommitActivate
    <2>9. Revision < MaxVersions
      BY <1>4, GovernanceAssumption DEF Activatable
    <2>10. Kept(row, Base)
      BY <2>7 DEF Kept
    <2>11. StoredInv'
      BY <1>2, <1>3, <2>7, <2>8, <2>9, <2>10, VersionAdded DEF Inv
    <2>12. Len(versions') = Len(versions) + 1 /\ Len(versions) \in Nat
      BY <2>7, <2>8, AppendProperties, LenProperties DEF Inv, StoredInv, StoredTypes
    <2> QED  BY <1>3, <2>11, <2>12 DEF Forward
  <1>5. CASE ~ Activatable(q)
    <2>1. UNCHANGED <<versions, active, live, activated, exceptions>>
      BY <1>1, <1>5 DEF CommitActivate
    <2> QED  BY <1>3, <2>1, StoredStays DEF Inv, StoredInv, StoredTypes
  <1> QED  BY <1>4, <1>5

LEMMA StoredStep ==
    ASSUME Inv, [Next]_vars
    PROVE  StoredInv' /\ Forward
  <1>1. CASE UNCHANGED <<governed, catalog, job>>
    BY <1>1, StoredStays DEF governed, Inv, StoredInv, StoredTypes
  <1>2. ASSUME NEW r \in Requests,
               BeginSubmit(r) \/ BeginApprove(r) \/ BeginActivate(r) \/ Acquire(r) \/ AbortDeadlock(r)
        PROVE  UNCHANGED <<governed, catalog, job>>
    BY <1>2 DEF BeginSubmit, BeginApprove, BeginActivate, Begin, Acquire, AbortDeadlock
  <1>3. ASSUME NEW b \in Backtests, \/ EnqueueBacktest(b) \/ VerifyBacktest(b)
                                    \/ RefuseBacktest(b) \/ FinishBacktest(b)
        PROVE  StoredInv' /\ Forward
    <2>1. job[b] \in JobRows /\ active \in 0 .. MaxVersions
      BY GovernanceAssumption, LenProperties DEF Inv, StoredInv, StoredTypes, Revision
    <2>2. PICK to \in {"queued", "verified", "running", "ended"}, v \in 0 .. MaxVersions :
            job' = [job EXCEPT ![b] = [pc |-> to, version |-> v]]
      BY <1>3, <2>1, GovernanceAssumption
         DEF EnqueueBacktest, VerifyBacktest, RefuseBacktest, FinishBacktest, JobStep, JobRows
    <2>3. job' \in [Backtests -> JobRows]
      BY <2>2 DEF Inv, StoredInv, StoredTypes, JobRows
    <2>4. UNCHANGED <<governed, catalog>>
      BY <1>3 DEF EnqueueBacktest, VerifyBacktest, RefuseBacktest, FinishBacktest, JobStep
    <2> QED  BY <2>3, <2>4, StoredStays DEF governed, Inv, StoredInv, StoredTypes
  <1>4. CASE Authorize \/ Release \/ Lapse
    BY <1>4, StoredStays DEF Authorize, Release, Lapse, governed, Inv, StoredInv, StoredTypes
  <1>5. CASE UNCHANGED vars
    BY <1>1, <1>5 DEF vars
  <1> QED  BY <1>1, <1>2, <1>3, <1>4, <1>5, SubmitStep, ApproveStep, ActivateStep DEF Next

LEMMA InvInit == ASSUME Init  PROVE Inv
  <1>1. versions \in Seq(VersionRows) /\ Revision = 0
    BY EmptySeq DEF Init, Revision
  <1>2. catalog \in Catalogs
    BY GovernanceAssumption DEF Init
  <1>3. StoredInv
    <2>1. StoredTypes
      <3>1. job \in [Backtests -> JobRows]
        BY GovernanceAssumption DEF Init, JobRows
      <3>2. active \in 0 .. Revision /\ Revision <= MaxVersions
        BY <1>1, GovernanceAssumption DEF Init
      <3>3. live \in BOOLEAN /\ activated = {} /\ exceptions = {} /\ authorized = {}
        BY DEF Init
      <3> QED  BY <1>1, <1>2, <3>1, <3>2, <3>3 DEF StoredTypes
    <2>2. HeadIsApproved /\ SeparationOfDuties
      BY <1>1 DEF Init, HeadIsApproved, SeparationOfDuties
    <2>3. OmittedFieldsKeepTheApproved
      BY <1>1 DEF OmittedFieldsKeepTheApproved
    <2> QED  BY <2>1, <2>2, <2>3 DEF StoredInv
  <1>4. RequestsInv
    <2>1. req \in [Requests -> RequestRows] /\ lock \in [Rows -> Requests \cup {Nothing}]
      BY IdleRequest DEF Init
    <2>2. \A r \in Requests : Entitled(req[r]) /\ req[r].held <= Locks(req[r])
      BY IdleRequest, OrderLength DEF Init
    <2>3. LocksInOrder
      BY GovernanceAssumption DEF Init, LocksInOrder
    <2> QED  BY <2>1, <2>2, <2>3 DEF RequestsInv
  <1> QED  BY <1>3, <1>4 DEF Inv

LEMMA InvStep == ASSUME Inv, [Next]_vars  PROVE Inv'
  <1>1. StoredInv' /\ Forward
    BY StoredStep
  <1>2. Len(versions) \in Nat /\ Len(versions)' \in Nat
    BY <1>1, LenProperties DEF Inv, StoredInv, StoredTypes
  <1> QED  BY <1>1, <1>2, RequestsStep DEF Inv, StoredInv, StoredTypes

LEMMA InvImplies == ASSUME Inv  PROVE GovernanceIsSound
  <1>1. \A r \in Requests : req[r].held \in 0 .. Len(LockOrder(req[r]))
    BY OrderLength DEF Inv, RequestsInv, RequestRows
  <1> QED  BY <1>1 DEF Inv, RequestsInv, StoredInv, StoredTypes, GovernanceIsSound, TypeOK, JobRows

\* However submissions, approvals, scripts, releases and lapses interleave, the
\* stored governance state of a strategy is sound after every commit.
THEOREM GovernanceAlwaysSound == Spec => []GovernanceIsSound
  BY InvInit, InvStep, InvImplies, PTL DEF Spec

-----------------------------------------------------------------------------
(* What no step does. *)

GovernedStep ==
    /\ \A v \in 1 .. Revision :
           versions[v].status = "pending" /\ versions'[v].status = "approved"
               => v = Revision /\ active = 0
    /\ active # 0 /\ ~ Verified(active) => versions' = versions /\ active' = active
    /\ \A b \in Backtests :
           job[b].pc # "running" /\ job'[b].pc = "running"
               => active = job[b].version /\ Verified(active)

LEMMA UnchangedGoverned ==
    ASSUME UNCHANGED <<versions, active, job>>
    PROVE  GovernedStep
  BY DEF GovernedStep

\* A version that is added leaves the statuses of the others alone.
LEMMA AddedGoverned ==
    ASSUME Inv, NEW row, versions' = Append(versions, row), UNCHANGED job,
           active # 0 => Verified(active)
    PROVE  GovernedStep
  <1>1. \A v \in 1 .. Revision : versions'[v] = versions[v]
    BY DEF Revision, Inv, StoredInv, StoredTypes
  <1> QED  BY <1>1 DEF GovernedStep

LEMMA StepGoverned == ASSUME Inv, [Next]_vars  PROVE GovernedStep
  <1>1. ASSUME NEW r \in Requests,
               BeginSubmit(r) \/ BeginApprove(r) \/ BeginActivate(r) \/ Acquire(r) \/ AbortDeadlock(r)
        PROVE  GovernedStep
    BY <1>1, UnchangedGoverned
       DEF BeginSubmit, BeginApprove, BeginActivate, Begin, Acquire, AbortDeadlock, governed
  <1>2. ASSUME NEW r \in Requests, CommitSubmit(r)  PROVE GovernedStep
    <2>1. CASE Submittable(req[r])
      BY <1>2, <2>1, AddedGoverned DEF CommitSubmit, Submittable
    <2>2. CASE ~ Submittable(req[r])
      BY <1>2, <2>2, UnchangedGoverned DEF CommitSubmit
    <2> QED  BY <2>1, <2>2
  <1>3. ASSUME NEW r \in Requests, CommitApprove(r)  PROVE GovernedStep
    <2>1. CASE Approvable(req[r])
      <3>1. PICK n, a : n = req[r].version /\ a = req[r].actor
        OBVIOUS
      <3>2. /\ n = Revision /\ active = 0 /\ UNCHANGED job
            /\ versions' = [versions EXCEPT ![n].status = "approved", ![n].approver = a]
        BY <1>3, <2>1, <3>1 DEF CommitApprove, Approvable
      <3>3. \A v \in 1 .. Revision : v # n => versions'[v] = versions[v]
        BY <3>2 DEF Inv, StoredInv, StoredTypes, Revision
      <3> QED  BY <3>2, <3>3 DEF GovernedStep
    <2>2. CASE ~ Approvable(req[r])
      BY <1>3, <2>2, UnchangedGoverned DEF CommitApprove
    <2> QED  BY <2>1, <2>2
  <1>4. ASSUME NEW r \in Requests, CommitActivate(r)  PROVE GovernedStep
    <2>1. CASE Activatable(req[r])
      BY <1>4, <2>1, AddedGoverned DEF CommitActivate, Activatable
    <2>2. CASE ~ Activatable(req[r])
      BY <1>4, <2>2, UnchangedGoverned DEF CommitActivate
    <2> QED  BY <2>1, <2>2
  <1>5. ASSUME NEW b \in Backtests, \/ EnqueueBacktest(b) \/ VerifyBacktest(b)
                                    \/ RefuseBacktest(b) \/ FinishBacktest(b)
        PROVE  GovernedStep
    <2>1. UNCHANGED <<versions, active>>
      BY <1>5 DEF EnqueueBacktest, VerifyBacktest, RefuseBacktest, FinishBacktest, JobStep, governed
    <2>2. PICK to, v : job' = [job EXCEPT ![b] = [pc |-> to, version |-> v]]
      BY <1>5 DEF EnqueueBacktest, VerifyBacktest, RefuseBacktest, FinishBacktest, JobStep
    <2>3. /\ job'[b].pc = to /\ \A c \in Backtests \ {b} : job'[c] = job[c]
      BY <2>2 DEF Inv, StoredInv, StoredTypes
    <2>4. CASE SnapshotHolds(b)
      <3>1. active = job[b].version /\ ConfigStatus = "approved"
        BY <2>4 DEF SnapshotHolds
      <3>2. Verified(active)
        BY <3>1 DEF ConfigStatus
      <3> QED  BY <2>1, <2>3, <3>1, <3>2 DEF GovernedStep
    <2>5. CASE ~ SnapshotHolds(b)
      <3>1. job'[b].pc # "running"
        <4>1. \/ job' = [job EXCEPT ![b] = [pc |-> "queued", version |-> active]]
              \/ job' = [job EXCEPT ![b] = [pc |-> "ended", version |-> 0]]
          BY <1>5, <2>5
             DEF EnqueueBacktest, VerifyBacktest, RefuseBacktest, FinishBacktest, JobStep
        <4> QED  BY <4>1 DEF Inv, StoredInv, StoredTypes
      <3> QED  BY <2>1, <2>3, <3>1 DEF GovernedStep
    <2> QED  BY <2>4, <2>5
  <1>6. CASE Authorize \/ Release \/ Lapse
    BY <1>6, UnchangedGoverned DEF Authorize, Release, Lapse, governed
  <1>7. CASE UNCHANGED vars
    BY <1>7, UnchangedGoverned DEF vars, governed
  <1> QED  BY <1>1, <1>2, <1>3, <1>4, <1>5, <1>6, <1>7 DEF Next

\* No step approves a superseded version, replaces an active version that was
\* made under another catalogue, or starts a backtest on any but the active,
\* verified version.
THEOREM StepsAlwaysGoverned == Spec => StepsAreGoverned
  <1>1. Inv /\ [Next]_vars => GovernedStep
    BY StepGoverned
  <1> QED  BY <1>1, InvInit, InvStep, PTL DEF Spec, StepsAreGoverned, GovernedStep

-----------------------------------------------------------------------------
(* Deadlocks.  All but approvals take their rows in the order of one rank,  *)
(* so along a chain of waits among them the rank of the row waited for      *)
(* grows, and no chain comes back to where it began.                        *)

Rank(x) == CASE x = <<"type">> -> 2 [] x = <<"subject">> -> 3 [] x = <<"head">> -> 4
             [] x[1] = "principal" -> 1 [] OTHER -> 5

Ordered(q) == q.kind \in {"submit", "activate"}
Offset(q)  == IF q.kind = "submit" THEN 1 ELSE 0

LEMMA RankByPlace ==
    ASSUME NEW q \in RequestRows, Ordered(q), NEW i \in 1 .. Locks(q)
    PROVE  Rank(LockOrder(q)[i]) = i + Offset(q)
  <1>1. CASE q.kind = "submit"
    <2>1. LockOrder(q) = << <<"type">>, <<"subject">>, <<"head">> >> /\ i \in {1, 2, 3}
      BY <1>1 DEF LockOrder, Locks
    <2>2. Rank(<<"type">>) = 2 /\ Rank(<<"subject">>) = 3 /\ Rank(<<"head">>) = 4
      BY DEF Rank
    <2> QED  BY <1>1, <2>1, <2>2 DEF Offset
  <1>2. CASE q.kind = "activate"
    <2>1. /\ LockOrder(q) = << <<"principal", q.actor>>, <<"type">>, <<"subject">>,
                               <<"head">>, <<"version", q.version>> >>
          /\ i \in {1, 2, 3, 4, 5}
      BY <1>2 DEF LockOrder, Locks, RowOf
    <2>2. Rank(<<"type">>) = 2 /\ Rank(<<"subject">>) = 3 /\ Rank(<<"head">>) = 4
      BY DEF Rank
    <2>3. Rank(<<"principal", q.actor>>) = 1 /\ Rank(<<"version", q.version>>) = 5
      BY DEF Rank
    <2> QED  BY <1>2, <2>1, <2>2, <2>3 DEF Offset
  <1> QED  BY <1>1, <1>2 DEF Ordered

Waits(r) == Blocker(r) \in Requests

\* A request that waits stands before a row of its order that its blocker holds.
LEMMA WaitsForRow ==
    ASSUME Inv, NEW r \in Requests, Waits(r)
    PROVE  /\ req[r].kind # "none" /\ req[r].held + 1 \in 1 .. Locks(req[r])
           /\ NextRow(r) \in Rows /\ lock[NextRow(r)] = Blocker(r)
  <1>1. Nothing \notin Requests
    BY GovernanceAssumption
  <1>2. req[r].kind # "none" /\ ~ AllHeld(r) /\ Blocker(r) = lock[NextRow(r)]
    BY <1>1 DEF Waits, Blocker
  <1>3. PICK q : q = req[r]
    OBVIOUS
  <1>4. /\ q \in RequestRows /\ Entitled(q) /\ q.held <= Locks(q) /\ q.held # Locks(q)
        /\ q.held \in Nat /\ Locks(q) \in Nat
    BY <1>2, <1>3, OrderLength DEF Inv, RequestsInv, RequestRows, AllHeld
  <1>5. PICK i \in 1 .. Locks(q) : i = q.held + 1
    BY <1>4
  <1>6. LockOrder(q)[i] \in Rows
    <2>1. CASE q.kind = "submit"
      <3>1. LockOrder(q) = << <<"type">>, <<"subject">>, <<"head">> >> /\ i \in {1, 2, 3}
        BY <1>5, <2>1 DEF LockOrder, Locks
      <3> QED  BY <3>1 DEF Rows
    <2>2. q.kind \in {"approve", "activate"} => RowOf(q.version) \in Rows
      <3>1. Len(versions) \in Nat /\ Len(versions) <= MaxVersions
        BY LenProperties DEF Inv, StoredInv, StoredTypes, Revision
      <3>2. q.kind \in {"approve", "activate"} => q.version \in 1 .. MaxVersions
        BY <1>4, <3>1, GovernanceAssumption DEF Entitled
      <3> QED  BY <3>2 DEF Rows
    <2>3. CASE q.kind = "approve"
      <3>1. LockOrder(q) = <<RowOf(q.version), <<"head">>, <<"subject">> >> /\ i \in {1, 2, 3}
        BY <1>5, <2>3 DEF LockOrder, Locks
      <3> QED  BY <2>2, <2>3, <3>1 DEF Rows
    <2>4. CASE q.kind = "activate"
      <3>1. /\ LockOrder(q) = << <<"principal", q.actor>>, <<"type">>, <<"subject">>,
                                 <<"head">>, RowOf(q.version)>>
            /\ i \in {1, 2, 3, 4, 5}
        BY <1>5, <2>4 DEF LockOrder, Locks
      <3>2. <<"principal", q.actor>> \in Rows
        BY <1>4, <2>4 DEF Entitled, Rows, Principals, Inv, StoredInv, StoredTypes
      <3> QED  BY <2>2, <2>4, <3>1, <3>2 DEF Rows
    <2> QED  BY <1>2, <1>3, <1>4, <2>1, <2>3, <2>4 DEF RequestRows
  <1> QED  BY <1>2, <1>3, <1>5, <1>6 DEF NextRow

\* A wait of one ordered request for another goes up in rank.
LEMMA RankGrows ==
    ASSUME Inv, NEW r \in Requests, NEW s \in Requests, Blocker(r) = s, Waits(s),
           Ordered(req[r]), Ordered(req[s])
    PROVE  Rank(NextRow(r)) < Rank(NextRow(s))
  <1>1. PICK p, q : p = req[r] /\ q = req[s]
    OBVIOUS
  <1>2. p \in RequestRows /\ q \in RequestRows /\ p.held \in Nat /\ q.held \in Nat
    BY <1>1 DEF Inv, RequestsInv, RequestRows
  <1>3. /\ NextRow(r) \in Rows /\ lock[NextRow(r)] = s
        /\ p.held + 1 \in 1 .. Locks(p) /\ q.held + 1 \in 1 .. Locks(q)
    BY <1>1, WaitsForRow DEF Waits
  <1>4. PICK i \in 1 .. q.held : LockOrder(q)[i] = NextRow(r)
    BY <1>1, <1>3 DEF Inv, RequestsInv, LocksInOrder
  <1>5. i \in 1 .. Locks(q) /\ i < q.held + 1
    BY <1>2, <1>3, <1>4, OrderLength
  <1>6. Rank(NextRow(r)) = i + Offset(q)
    BY <1>1, <1>2, <1>4, <1>5, RankByPlace
  <1>7. Rank(NextRow(s)) = q.held + 1 + Offset(q)
    BY <1>1, <1>2, <1>3, RankByPlace DEF NextRow
  <1> QED  BY <1>2, <1>5, <1>6, <1>7 DEF Offset

\* Whoever is on a cycle of waits is deadlocked: the cycle may start anywhere.
LEMMA CycleTurns ==
    ASSUME NEW n \in 1 .. Cardinality(Requests), NEW chain \in [0 .. n -> Requests],
           Cardinality(Requests) \in Nat, chain[n] = chain[0],
           \A i \in 1 .. n : chain[i] = Blocker(chain[i - 1]),
           NEW k \in 0 .. n - 1
    PROVE  Deadlocked(chain[k])
  <1> DEFINE turned == [j \in 0 .. n |-> IF j <= n - k THEN chain[k + j] ELSE chain[k + j - n]]
  <1>1. turned \in [0 .. n -> Requests]
    <2>1. \A j \in 0 .. n : IF j <= n - k THEN k + j \in 0 .. n ELSE k + j - n \in 0 .. n
      OBVIOUS
    <2> QED  BY <2>1
  <1>2. turned[0] = chain[k] /\ turned[n] = chain[k]
    <2>1. turned[0] = chain[k]
      OBVIOUS
    <2>2. CASE k = 0
      BY <2>2
    <2>3. CASE k # 0
      <3>1. ~ (n <= n - k) /\ k + n - n = k /\ n \in 0 .. n
        BY <2>3
      <3> QED  BY <2>1, <3>1
    <2> QED  BY <2>1, <2>2, <2>3
  <1>3. ASSUME NEW j \in 1 .. n  PROVE turned[j] = Blocker(turned[j - 1])
    <2>1. CASE j <= n - k
      <3>1. /\ j - 1 <= n - k /\ j \in 0 .. n /\ j - 1 \in 0 .. n
            /\ k + j \in 1 .. n /\ k + (j - 1) = (k + j) - 1
        BY <2>1
      <3>2. turned[j] = chain[k + j] /\ turned[j - 1] = chain[(k + j) - 1]
        BY <2>1, <3>1
      <3> QED  BY <3>1, <3>2
    <2>2. CASE j = n - k + 1
      <3>1. /\ ~ (j <= n - k) /\ j - 1 <= n - k /\ j \in 0 .. n /\ j - 1 \in 0 .. n
            /\ k + j - n = 1 /\ k + (j - 1) = n /\ 1 \in 1 .. n /\ 1 - 1 = 0
        BY <2>2
      <3>2. turned[j] = chain[1] /\ turned[j - 1] = chain[n]
        BY <3>1
      <3> QED  BY <3>1, <3>2
    <2>3. CASE j > n - k + 1
      <3>1. /\ ~ (j <= n - k) /\ ~ (j - 1 <= n - k) /\ j \in 0 .. n /\ j - 1 \in 0 .. n
            /\ k + j - n \in 1 .. n /\ k + (j - 1) - n = (k + j - n) - 1
        BY <2>3
      <3>2. turned[j] = chain[k + j - n] /\ turned[j - 1] = chain[(k + j - n) - 1]
        BY <3>1
      <3> QED  BY <3>1, <3>2
    <2> QED  BY <2>1, <2>2, <2>3
  <1> HIDE DEF turned
  <1>4. Blocker(chain[k]) # Nothing
    <2>1. k + 1 \in 1 .. n /\ k + 1 \in 0 .. n /\ (k + 1) - 1 = k
      OBVIOUS
    <2>2. Blocker(chain[k]) = chain[k + 1] /\ chain[k + 1] \in Requests
      BY <2>1
    <2> QED  BY <2>2, GovernanceAssumption
  <1> QED  BY <1>1, <1>2, <1>3, <1>4 DEF Deadlocked

LEMMA LeastNat ==
    ASSUME NEW T \in SUBSET Nat, T # {}
    PROVE  \E x \in T : \A y \in T : x <= y
  <1>1. PICK x \in T : \A y \in T : <<y, x>> \notin OpToRel(<, Nat)
    BY WFMin, NatLessThanWellFounded, Zenon
  <1>2. \A y \in T : ~ (y < x)
    BY <1>1, Zenon DEF OpToRel
  <1> QED  BY <1>2

LEMMA RankBound == \A x : Rank(x) \in 1 .. 5
  BY DEF Rank

\* A cycle of ordered requests would have a highest rank, and go on above it.
LEMMA CycleNeedsApproval ==
    ASSUME Inv, NEW n \in Nat \ {0}, NEW chain \in [0 .. n -> Requests], chain[n] = chain[0],
           \A i \in 1 .. n : chain[i] = Blocker(chain[i - 1])
    PROVE  \E k \in 0 .. n - 1 : req[chain[k]].kind = "approve"
  <1> SUFFICES ASSUME \A k \in 0 .. n - 1 : req[chain[k]].kind # "approve"  PROVE FALSE
    OBVIOUS
  <1> DEFINE after(k) == IF k = n - 1 THEN 0 ELSE k + 1
             rank(k)  == Rank(NextRow(chain[k]))
  <1>1. \A k \in 0 .. n - 1 : /\ chain[k] \in Requests /\ after(k) \in 0 .. n - 1
                              /\ Blocker(chain[k]) = chain[after(k)]
    <2> SUFFICES ASSUME NEW k \in 0 .. n - 1
                 PROVE  /\ chain[k] \in Requests /\ after(k) \in 0 .. n - 1
                        /\ Blocker(chain[k]) = chain[after(k)]
      OBVIOUS
    <2>1. k \in 0 .. n /\ k + 1 \in 1 .. n /\ (k + 1) - 1 = k /\ after(k) \in 0 .. n - 1
      OBVIOUS
    <2>2. chain[k + 1] = Blocker(chain[k])
      BY <2>1
    <2>3. chain[k + 1] = chain[after(k)]
      BY <2>1
    <2> QED  BY <2>1, <2>2, <2>3
  <1>2. \A k \in 0 .. n - 1 : Waits(chain[k]) /\ Ordered(req[chain[k]])
    <2> SUFFICES ASSUME NEW k \in 0 .. n - 1  PROVE Waits(chain[k]) /\ Ordered(req[chain[k]])
      OBVIOUS
    <2>1. Waits(chain[k]) /\ chain[k] \in Requests
      BY <1>1 DEF Waits
    <2>2. req[chain[k]].kind # "none" /\ req[chain[k]] \in RequestRows
      BY <2>1, WaitsForRow DEF Inv, RequestsInv
    <2> QED  BY <2>1, <2>2 DEF Ordered, RequestRows
  <1>3. \A k \in 0 .. n - 1 : rank(k) < rank(after(k))
    BY <1>1, <1>2, RankGrows
  <1>4. \A k \in 0 .. n - 1 : rank(k) \in 1 .. 5
    BY RankBound
  <1> HIDE DEF rank, after
  <1>5. PICK T : T = {5 - rank(k) : k \in 0 .. n - 1}
    OBVIOUS
  <1>6. T \in SUBSET Nat /\ 5 - rank(0) \in T
    BY <1>4, <1>5
  <1>7. PICK x \in T : \A y \in T : x <= y
    BY <1>6, LeastNat
  <1>8. PICK k \in 0 .. n - 1 : x = 5 - rank(k)
    BY <1>5, <1>7
  <1>9. after(k) \in 0 .. n - 1 /\ rank(k) < rank(after(k))
    BY <1>1, <1>3, <1>8
  <1>10. 5 - rank(after(k)) \in T
    BY <1>5, <1>9
  <1>11. PICK a \in 1 .. 5, b \in 1 .. 5 : a = rank(k) /\ b = rank(after(k))
    BY <1>4, <1>9
  <1>12. a < b /\ 5 - a <= 5 - b
    BY <1>7, <1>8, <1>9, <1>10, <1>11
  <1> QED  BY <1>12

LEMMA DeadlockNeedsApproval == ASSUME Inv  PROVE OnlyApprovalsDeadlock
  <1> SUFFICES ASSUME NEW r \in Requests, Deadlocked(r)
               PROVE  \E s \in Requests : Deadlocked(s) /\ req[s].kind = "approve"
    BY DEF OnlyApprovalsDeadlock
  <1>1. PICK n \in 1 .. Cardinality(Requests) :
          \E chain \in [0 .. n -> Requests] :
              /\ chain[0] = r /\ chain[n] = r
              /\ \A i \in 1 .. n : chain[i] = Blocker(chain[i - 1])
    BY DEF Deadlocked
  <1>2. PICK chain \in [0 .. n -> Requests] :
          /\ chain[0] = r /\ chain[n] = r
          /\ \A i \in 1 .. n : chain[i] = Blocker(chain[i - 1])
    BY <1>1
  <1>3. Cardinality(Requests) \in Nat
    BY GovernanceAssumption, FS_CardinalityType
  <1>4. n \in Nat \ {0}
    BY <1>3
  <1>5. PICK k \in 0 .. n - 1 : req[chain[k]].kind = "approve"
    BY <1>2, <1>4, CycleNeedsApproval
  <1>6. Deadlocked(chain[k])
    BY <1>2, <1>3, CycleTurns
  <1>7. chain[k] \in Requests
    BY <1>4
  <1> QED  BY <1>5, <1>6, <1>7

\* Among any number of requests a cycle of lock waits goes through an approval.
THEOREM DeadlocksNeedApprovals == Spec => []OnlyApprovalsDeadlock
  BY InvInit, InvStep, DeadlockNeedsApproval, PTL DEF Spec

-----------------------------------------------------------------------------
(* The research evidence. *)

-----------------------------------------------------------------------------
(* EvidenceStore: batches and rows. *)

BatchRow == [type : Types, accepted : Nat, rejected : Nat, status : Statuses]
EvidenceRow == [batch : Batches, type : Types, doc : Documents, observed : BOOLEAN]

\* The sound documents of a batch are on record, with the details they need.
Written(b) ==
    \A i \in Sound(fetched[b]) :
        /\ OnRecord(i.doc)
        /\ batches[b].type # "announcement" => <<batches[b].type, i.doc>> \in details
Counted(b) == batches[b].accepted + batches[b].rejected = Cardinality(fetched[b])

CollectorInv(b) ==
    /\ collector[b] # "idle" =>
          batches[b] \in BatchRow /\ fetched[b] \in Fetches(batches[b].type)
    /\ collector[b] \in {"inserted", "written", "unanswered", "failed", "dead"} =>
          batches[b].status = "running"
    /\ collector[b] = "written" => Written(b)
    /\ collector[b] = "done" =>
          /\ batches[b].status # "running"
          /\ batches[b].status \in {"success", "partial"} => Written(b) /\ Counted(b)
    /\ collector[b] = "mistaken" => batches[b].status = "write_failed"

\* A row is of an item its batch fetched; its batch ended as its items ask, or
\* its collector believes that it wrote none.
RowInv(r) ==
    /\ collector[r.batch] \in {"written", "unanswered", "dead", "done", "mistaken"}
    /\ \E i \in fetched[r.batch] : r = Row(r.batch, batches[r.batch].type, i)
    /\ collector[r.batch] = "done" => batches[r.batch].status = Outcome(fetched[r.batch])

OneRowPerDocument ==
    \A r, s \in evidence : r.observed /\ s.observed /\ r.doc = s.doc => r = s

EvidenceInv ==
    /\ EvidenceTypeOK /\ DOMAIN fetched = Batches
    /\ \A b \in Batches : CollectorInv(b)
    /\ \A r \in evidence : RowInv(r)
    /\ OneRowPerDocument

\* What one listing yields is finite, each document once.
LEMMA FetchedFinite ==
    ASSUME NEW t \in Types, NEW items \in Fetches(t)
    PROVE  /\ IsFiniteSet(items)
           /\ \A i \in items : i \in [doc : Listed(t), sound : BOOLEAN] /\ i.doc \in Documents
           /\ \A i, j \in items : i.doc = j.doc => i = j
  <1>1. /\ items \in SUBSET [doc : Listed(t), sound : BOOLEAN]
        /\ \A i, j \in items : i.doc = j.doc => i = j
    BY DEF Fetches
  <1>2. PICK f : f = [i \in items |-> i.doc]
    OBVIOUS
  <1>3. f \in Injection(items, Listed(t))
    BY <1>1, <1>2 DEF Injection, IsInjective
  <1>4. IsFiniteSet(items)
    BY <1>3, FS_Injection, ListedAssumption
  <1> QED  BY <1>1, <1>4 DEF Documents

\* Another batch's own steps leave this one as it stands.
LEMMA OthersStay ==
    ASSUME NEW b \in Batches, CollectorInv(b), evidence \subseteq evidence',
           details \subseteq details',
           collector'[b] = collector[b], batches'[b] = batches[b], fetched'[b] = fetched[b]
    PROVE  CollectorInv(b)'
  <1>1. Written(b) => Written(b)'
    BY DEF Written, OnRecord
  <1>2. Counted(b) => Counted(b)'
    BY DEF Counted
  <1> QED  BY <1>1, <1>2 DEF CollectorInv

LEMMA RowStays ==
    ASSUME NEW r, RowInv(r), collector'[r.batch] = collector[r.batch],
           batches'[r.batch] = batches[r.batch], fetched'[r.batch] = fetched[r.batch]
    PROVE  RowInv(r)'
  BY DEF RowInv

\* One collector goes on; the rows keep to it.
LEMMA CollectorGoesOn ==
    ASSUME EvidenceInv, NEW b \in Batches, EvidenceTypeOK', OneRowPerDocument',
           evidence \subseteq evidence', details \subseteq details',
           \A c \in Batches \ {b} : /\ collector'[c] = collector[c]
                                    /\ batches'[c] = batches[c] /\ fetched'[c] = fetched[c],
           DOMAIN fetched' = Batches,
           CollectorInv(b)',
           \A r \in evidence' : r.batch = b \/ r \notin evidence => RowInv(r)'
    PROVE  EvidenceInv'
  <1>1. \A c \in Batches : CollectorInv(c)'
    <2> SUFFICES ASSUME NEW c \in Batches \ {b}  PROVE CollectorInv(c)'
      OBVIOUS
    <2> QED  BY OthersStay DEF EvidenceInv
  <1>2. \A r \in evidence' : RowInv(r)'
    <2> SUFFICES ASSUME NEW r \in evidence', r.batch # b, r \in evidence  PROVE RowInv(r)'
      OBVIOUS
    <2>1. r.batch \in Batches \ {b} /\ RowInv(r)
      BY DEF EvidenceInv, EvidenceTypeOK
    <2> QED  BY <2>1, RowStays
  <1> QED  BY <1>1, <1>2 DEF EvidenceInv

LEMMA CollectStep ==
    ASSUME EvidenceInv, NEW b \in Batches, NEW t \in Types, Collect(b, t)
    PROVE  EvidenceInv'
  <1>1. PICK status \in {"running", "fetch_failed", "validation_failed"}, items \in Fetches(t) :
          InsertBatch(b, t, status, items)
    <2>1. {} \in Fetches(t)
      BY DEF Fetches
    <2> QED  BY <2>1 DEF Collect
  <1>2. PICK row : row = [type |-> t, status |-> status, accepted |-> 0,
                          rejected |-> IF status = "validation_failed"
                                       THEN Cardinality(items) ELSE 0]
    OBVIOUS
  <1>3. PICK at : at = IF status = "running" THEN "inserted" ELSE "done"
    OBVIOUS
  <1>4. row \in BatchRow /\ row.type = t /\ row.status = status
    <2>1. Cardinality(items) \in Nat
      BY FetchedFinite, FS_CardinalityType
    <2> QED  BY <1>2, <2>1 DEF BatchRow, Statuses
  <1>5. /\ collector[b] = "idle" /\ UNCHANGED <<evidence, details>>
        /\ batches' = [batches EXCEPT ![b] = row] /\ fetched' = [fetched EXCEPT ![b] = items]
        /\ collector' = [collector EXCEPT ![b] = at]
    BY <1>1, <1>2, <1>3 DEF InsertBatch, Collect
  <1>6. batches'[b] = row /\ fetched'[b] = items /\ collector'[b] = at
    BY <1>5 DEF EvidenceInv, EvidenceTypeOK
  <1>7. EvidenceTypeOK'
    BY <1>3, <1>4, <1>5 DEF EvidenceInv, EvidenceTypeOK, BatchRow
  <1>8. CollectorInv(b)'
    BY <1>1, <1>3, <1>4, <1>6 DEF CollectorInv
  <1>9. \A r \in evidence : r.batch # b
    BY <1>5 DEF EvidenceInv, RowInv
  <1>10. OneRowPerDocument'
    BY <1>5 DEF EvidenceInv, OneRowPerDocument
  <1>11. \A c \in Batches \ {b} : /\ collector'[c] = collector[c]
                                  /\ batches'[c] = batches[c] /\ fetched'[c] = fetched[c]
    BY <1>5 DEF EvidenceInv, EvidenceTypeOK
  <1> QED  BY <1>5, <1>7, <1>8, <1>9, <1>10, <1>11, CollectorGoesOn DEF EvidenceInv

LEMMA InsertStep ==
    ASSUME EvidenceInv, NEW b \in Batches, InsertEvidence(b)
    PROVE  EvidenceInv'
  <1> DEFINE type == batches[b].type
  <1>1. /\ UNCHANGED <<batches, fetched>> /\ collector[b] = "inserted"
        /\ batches[b] \in BatchRow /\ batches[b].status = "running"
        /\ fetched[b] \in Fetches(type) /\ type \in Types
    BY DEF InsertEvidence, EvidenceInv, CollectorInv, BatchRow
  <1>2. /\ \A i \in fetched[b] : i \in [doc : Listed(type), sound : BOOLEAN] /\ i.doc \in Documents
        /\ \A i, j \in fetched[b] : i.doc = j.doc => i = j
    BY <1>1, FetchedFinite
  <1>3. \A r \in evidence : r.batch # b
    BY <1>1 DEF EvidenceInv, RowInv
  <1>4. \A c \in Batches \ {b} : /\ collector'[c] = collector[c]
                                 /\ batches'[c] = batches[c] /\ fetched'[c] = fetched[c]
    BY <1>1 DEF InsertEvidence, EvidenceInv, EvidenceTypeOK
  <1>5. CASE /\ collector' = [collector EXCEPT ![b] = "failed"]
             /\ UNCHANGED <<evidence, details>>
    <2>1. collector'[b] = "failed" /\ EvidenceTypeOK'
      BY <1>1, <1>5 DEF EvidenceInv, EvidenceTypeOK
    <2>2. CollectorInv(b)'
      BY <1>1, <2>1 DEF CollectorInv
    <2>3. OneRowPerDocument'
      BY <1>5 DEF EvidenceInv, OneRowPerDocument
    <2> QED  BY <1>1, <1>3, <1>4, <1>5, <2>1, <2>2, <2>3, CollectorGoesOn DEF EvidenceInv
  <1>6. ASSUME NEW at \in {"written", "unanswered"},
               evidence' = evidence \cup NewRows(b), details' = details \cup Details(b),
               collector' = [collector EXCEPT ![b] = at]
        PROVE  EvidenceInv'
    <2>1. collector'[b] = at
      BY <1>6 DEF EvidenceInv, EvidenceTypeOK
    <2>2. \A r \in NewRows(b) :
             /\ \E i \in fetched[b] : r = Row(b, type, i)
             /\ r.observed => ~ OnRecord(r.doc)
      BY DEF NewRows
    <2>3. \A r \in NewRows(b) : r \in EvidenceRow /\ r.batch = b
      <3> SUFFICES ASSUME NEW r \in NewRows(b)  PROVE r \in EvidenceRow /\ r.batch = b
        OBVIOUS
      <3>1. PICK i \in fetched[b] : r = Row(b, type, i)
        BY <2>2
      <3>2. i.doc \in Documents /\ i.sound \in BOOLEAN
        BY <1>2
      <3> QED  BY <1>1, <3>1, <3>2 DEF Row, EvidenceRow
    <2>4. Details(b) \subseteq Types \X Documents
      BY <1>1, <1>2 DEF Details, Sound
    <2>5. EvidenceTypeOK'
      BY <1>1, <1>6, <2>3, <2>4 DEF EvidenceInv, EvidenceTypeOK, EvidenceRow
    <2>6. \A r \in NewRows(b) : RowInv(r)'
      BY <1>1, <2>1, <2>2, <2>3 DEF RowInv
    <2>7. OneRowPerDocument'
      <3> SUFFICES ASSUME NEW r \in evidence', NEW s \in evidence',
                          r.observed, s.observed, r.doc = s.doc
                   PROVE  r = s
        BY DEF OneRowPerDocument
      <3>1. CASE r \in evidence /\ s \in evidence
        BY <3>1 DEF EvidenceInv, OneRowPerDocument
      <3>2. CASE r \in NewRows(b) /\ s \in NewRows(b)
        <4>1. PICK i \in fetched[b], j \in fetched[b] : r = Row(b, type, i) /\ s = Row(b, type, j)
          BY <2>2, <3>2
        <4>2. i.doc = j.doc
          BY <4>1 DEF Row
        <4> QED  BY <1>2, <4>1, <4>2
      <3>3. CASE r \in NewRows(b) /\ s \in evidence
        BY <2>2, <3>3 DEF OnRecord
      <3>4. CASE r \in evidence /\ s \in NewRows(b)
        BY <2>2, <3>4 DEF OnRecord
      <3> QED  BY <1>6, <3>1, <3>2, <3>3, <3>4
    <2>8. Written(b)'
      <3> SUFFICES ASSUME NEW i \in Sound(fetched[b])
                   PROVE  /\ OnRecord(i.doc)'
                          /\ type # "announcement" => <<type, i.doc>> \in details'
        BY <1>1 DEF Written
      <3>1. i \in fetched[b] /\ i.sound
        BY DEF Sound
      <3>2. Row(b, type, i).observed /\ Row(b, type, i).doc = i.doc
        BY <3>1 DEF Row
      <3>3. OnRecord(i.doc)'
        <4>1. CASE OnRecord(i.doc)
          BY <1>6, <4>1 DEF OnRecord
        <4>2. CASE ~ OnRecord(i.doc)
          <5>1. Row(b, type, i) \in NewRows(b)
            BY <3>1, <3>2, <4>2 DEF NewRows
          <5> QED  BY <1>6, <3>2, <5>1 DEF OnRecord
        <4> QED  BY <4>1, <4>2
      <3>4. type # "announcement" => <<type, i.doc>> \in details'
        BY <1>6 DEF Details
      <3> QED  BY <3>3, <3>4
    <2>9. CollectorInv(b)'
      BY <1>1, <2>1, <2>8 DEF CollectorInv
    <2>10. \A r \in evidence' : r.batch = b \/ r \notin evidence => RowInv(r)'
      BY <1>3, <1>6, <2>6
    <2> QED  BY <1>1, <1>4, <1>6, <2>5, <2>7, <2>9, <2>10, CollectorGoesOn DEF EvidenceInv
  <1> QED  BY <1>5, <1>6 DEF InsertEvidence

LEMMA FinalizeStep ==
    ASSUME EvidenceInv, NEW b \in Batches, FinalizeBatch(b)
    PROVE  EvidenceInv'
  <1>1. PICK old : old = batches[b]
    OBVIOUS
  <1>2. PICK items : items = fetched[b]
    OBVIOUS
  <1>3. /\ UNCHANGED <<fetched, evidence, details>> /\ collector[b] \in {"written", "unanswered", "failed"}
        /\ old \in BatchRow /\ old.type \in Types /\ items \in Fetches(old.type)
    BY <1>1, <1>2 DEF FinalizeBatch, EvidenceInv, CollectorInv, BatchRow
  <1>4. /\ IsFiniteSet(items) /\ Cardinality(items) \in Nat
        /\ Cardinality(Sound(items)) \in Nat /\ Cardinality(items \ Sound(items)) \in Nat
        /\ Cardinality(Sound(items)) + Cardinality(items \ Sound(items)) = Cardinality(items)
    <2>1. IsFiniteSet(items) /\ Sound(items) \subseteq items
      BY <1>3, FetchedFinite DEF Sound
    <2>2. IsFiniteSet(Sound(items)) /\ IsFiniteSet(items \ Sound(items))
      BY <2>1, FS_Subset
    <2>3. Cardinality(items \ Sound(items)) = Cardinality(items) - Cardinality(items \cap Sound(items))
      BY <2>1, FS_Difference
    <2>4. items \cap Sound(items) = Sound(items)
      BY <2>1
    <2>5. /\ Cardinality(items) \in Nat /\ Cardinality(Sound(items)) \in Nat
          /\ Cardinality(items \ Sound(items)) \in Nat
      BY <2>1, <2>2, FS_CardinalityType
    <2> QED  BY <2>1, <2>3, <2>4, <2>5
  <1>5. PICK next :
          next = IF collector[b] # "written"
                 THEN [old EXCEPT !.status = "write_failed", !.rejected = Cardinality(items)]
                 ELSE [old EXCEPT !.status = Outcome(items),
                                  !.accepted = Cardinality(Sound(items)),
                                  !.rejected = Cardinality(items \ Sound(items))]
    OBVIOUS
  <1>6. Outcome(items) \in {"validation_failed", "success", "partial"}
    BY DEF Outcome
  <1>7. /\ next \in BatchRow /\ next.type = old.type
        /\ collector[b] # "written" => next.status = "write_failed"
        /\ collector[b] = "written" =>
              /\ next.status = Outcome(items)
              /\ next.accepted + next.rejected = Cardinality(items)
    <2>1. CASE collector[b] # "written"
      BY <1>3, <1>4, <1>5, <2>1 DEF BatchRow, Statuses
    <2>2. CASE collector[b] = "written"
      BY <1>3, <1>4, <1>5, <1>6, <2>2 DEF BatchRow, Statuses
    <2> QED  BY <1>3, <2>1, <2>2
  <1>8. PICK at : at = IF collector[b] = "unanswered" THEN "mistaken" ELSE "done"
    OBVIOUS
  <1>9. /\ batches' = [batches EXCEPT ![b] = next] /\ collector' = [collector EXCEPT ![b] = at]
        /\ at \in {"done", "mistaken"}
        /\ at = "mistaken" <=> collector[b] = "unanswered"
    BY <1>1, <1>2, <1>5, <1>8 DEF FinalizeBatch
  <1>10. batches'[b] = next /\ collector'[b] = at /\ fetched'[b] = items
    BY <1>2, <1>3, <1>9 DEF EvidenceInv, EvidenceTypeOK
  <1>11. EvidenceTypeOK'
    BY <1>3, <1>7, <1>9 DEF EvidenceInv, EvidenceTypeOK, BatchRow
  <1>12. CollectorInv(b)'
    <2>1. collector[b] = "written" => Written(b)'
      BY <1>1, <1>3, <1>7, <1>10 DEF EvidenceInv, CollectorInv, Written, OnRecord
    <2>2. collector[b] = "written" => Counted(b)'
      BY <1>7, <1>10 DEF Counted
    <2> QED  BY <1>3, <1>6, <1>7, <1>9, <1>10, <2>1, <2>2 DEF CollectorInv
  <1>13. ASSUME NEW r \in evidence, r.batch = b  PROVE RowInv(r)'
    <2>1. /\ collector[b] \in {"written", "unanswered"}
          /\ \E i \in items : r = Row(b, old.type, i)
      BY <1>1, <1>2, <1>3, <1>13 DEF EvidenceInv, RowInv
    <2> QED  BY <1>7, <1>9, <1>10, <1>13, <2>1 DEF RowInv
  <1>14. OneRowPerDocument'
    BY <1>3 DEF EvidenceInv, OneRowPerDocument
  <1>15. \A c \in Batches \ {b} : /\ collector'[c] = collector[c]
                                  /\ batches'[c] = batches[c] /\ fetched'[c] = fetched[c]
    BY <1>3, <1>9 DEF EvidenceInv, EvidenceTypeOK
  <1> QED  BY <1>3, <1>11, <1>12, <1>13, <1>14, <1>15, CollectorGoesOn DEF EvidenceInv

LEMMA DiesStep ==
    ASSUME EvidenceInv, NEW b \in Batches, CollectorDies(b)
    PROVE  EvidenceInv'
  <1>1. /\ UNCHANGED <<batches, fetched, evidence, details>>
        /\ collector[b] \in {"inserted", "written", "unanswered", "failed"}
        /\ collector' = [collector EXCEPT ![b] = "dead"]
    BY DEF CollectorDies
  <1>2. collector'[b] = "dead" /\ EvidenceTypeOK'
    BY <1>1 DEF EvidenceInv, EvidenceTypeOK
  <1>3. CollectorInv(b)'
    BY <1>1, <1>2 DEF EvidenceInv, CollectorInv
  <1>4. \A r \in evidence : r.batch = b => RowInv(r)'
    BY <1>1, <1>2 DEF EvidenceInv, RowInv
  <1>5. OneRowPerDocument'
    BY <1>1 DEF EvidenceInv, OneRowPerDocument
  <1>6. \A c \in Batches \ {b} : /\ collector'[c] = collector[c]
                                 /\ batches'[c] = batches[c] /\ fetched'[c] = fetched[c]
    BY <1>1 DEF EvidenceInv, EvidenceTypeOK
  <1> QED  BY <1>1, <1>2, <1>3, <1>4, <1>5, <1>6, CollectorGoesOn DEF EvidenceInv

LEMMA EvidenceStays ==
    ASSUME EvidenceInv, UNCHANGED <<collector, batches, fetched, evidence, details>>
    PROVE  EvidenceInv'
  <1>1. \A b \in Batches : CollectorInv(b)'
    BY OthersStay DEF EvidenceInv
  <1>2. \A r \in evidence : RowInv(r)'
    BY RowStays DEF EvidenceInv
  <1> QED  BY <1>1, <1>2 DEF EvidenceInv, EvidenceTypeOK, OneRowPerDocument

LEMMA EvidenceTrue == ASSUME EvidenceInv  PROVE BatchesTellTheTruth
  <1>1. ASSUME NEW b \in Batches, Finished(b), batches[b].status \in {"success", "partial"},
               NEW i \in Sound(fetched[b])
        PROVE  /\ Cardinality({r \in evidence : r.observed /\ r.doc = i.doc}) = 1
               /\ batches[b].type # "announcement" => <<batches[b].type, i.doc>> \in details
    <2>1. Written(b)
      BY <1>1 DEF EvidenceInv, CollectorInv, Finished
    <2>2. PICK r \in evidence : r.observed /\ r.doc = i.doc
      BY <1>1, <2>1 DEF Written, OnRecord
    <2>3. {s \in evidence : s.observed /\ s.doc = i.doc} = {r}
      BY <2>2 DEF EvidenceInv, OneRowPerDocument
    <2> QED  BY <1>1, <2>1, <2>3, FS_Singleton DEF Written
  <1>2. \A b \in Batches : Finished(b) =>
           /\ batches[b].status # "running"
           /\ batches[b].status \in {"success", "partial"} =>
                 batches[b].accepted + batches[b].rejected = Cardinality(fetched[b])
    BY DEF Finished, EvidenceInv, CollectorInv, Counted
  <1>3. ASSUME NEW r \in evidence
        PROVE  /\ batches[r.batch].status # "fetch_failed"
               /\ batches[r.batch].status = "write_failed" => collector[r.batch] = "mistaken"
               /\ batches[r.batch].status = "validation_failed" => ~r.observed
               /\ batches[r.batch].status = "running" =>
                     collector[r.batch] \in {"written", "unanswered", "dead"}
               /\ r.type = batches[r.batch].type
    <2>1. r.batch \in Batches /\ RowInv(r) /\ CollectorInv(r.batch)
      BY DEF EvidenceInv, EvidenceTypeOK
    <2>2. PICK i \in fetched[r.batch] : r = Row(r.batch, batches[r.batch].type, i)
      BY <2>1 DEF RowInv
    <2>3. r.type = batches[r.batch].type /\ r.observed = i.sound
      BY <2>2 DEF Row
    <2>4. CASE collector[r.batch] = "done"
      <3>1. batches[r.batch].status = Outcome(fetched[r.batch])
        BY <2>1, <2>4 DEF RowInv
      <3>2. Outcome(fetched[r.batch]) = "validation_failed" => Sound(fetched[r.batch]) = {}
        BY DEF Outcome
      <3>3. Sound(fetched[r.batch]) = {} => ~ i.sound
        BY DEF Sound
      <3> QED  BY <2>3, <3>1, <3>2, <3>3 DEF Outcome
    <2>5. CASE collector[r.batch] # "done"
      BY <2>1, <2>3, <2>5 DEF CollectorInv, RowInv
    <2> QED  BY <2>4, <2>5
  <1>4. \A item \in DeepAnalysis :
           \E r \in evidence : item.row = r /\ item.batchStatus = batches[r.batch].status
    BY DEF DeepAnalysis
  <1> QED  BY <1>1, <1>2, <1>3, <1>4 DEF BatchesTellTheTruth, EvidenceInv, Finished

-----------------------------------------------------------------------------
(* Reviews: one row for one key. *)

OneRowPerKey(reviews) ==
    \A i, j \in DOMAIN reviews : reviews[i].key = reviews[j].key => i = j

LEMMA RetryAddsNothing ==
    ASSUME NEW S, NEW reviews \in Seq(S), NEW request \in S, OneRowPerKey(reviews)
    PROVE  /\ AppendReview(reviews, request) \in Seq(S)
           /\ OneRowPerKey(AppendReview(reviews, request))
  <1>1. CASE RecordedUnder(reviews, request.key) # {}
    BY <1>1 DEF AppendReview
  <1>2. CASE RecordedUnder(reviews, request.key) = {}
    <2>1. PICK longer : longer = Append(reviews, request)
      OBVIOUS
    <2>2. /\ longer \in Seq(S) /\ Len(reviews) \in Nat /\ Len(longer) = Len(reviews) + 1
          /\ DOMAIN longer = 1 .. Len(longer) /\ DOMAIN reviews = 1 .. Len(reviews)
          /\ longer[Len(reviews) + 1] = request
          /\ \A i \in 1 .. Len(reviews) : longer[i] = reviews[i]
      BY <2>1, AppendProperties, LenProperties
    <2>3. \A i \in 1 .. Len(reviews) : reviews[i].key # request.key
      BY <1>2, <2>2 DEF RecordedUnder
    <2>4. OneRowPerKey(longer)
      BY <2>2, <2>3 DEF OneRowPerKey
    <2> QED  BY <1>2, <2>1, <2>2, <2>4 DEF AppendReview
  <1> QED  BY <1>1, <1>2

ReviewsInv == newsReviews \in Seq(NewsRequests) /\ OneRowPerKey(newsReviews)

LEMMA DecisionsOnce == ASSUME ReviewsInv  PROVE DecisionsCountOnce
  <1>1. ASSUME NEW r \in evidence, r.observed
        PROVE  Verdict(r) = "rejected" <=> EvidenceItem(r).review = "title_link_irrelevant"
    <2>1. EvidenceItem(r).review = IF r.type = "news" THEN LatestConclusion(r.doc) ELSE "none"
      BY DEF EvidenceItem
    <2>2. RejectedFields(r) = {} <=>
             ~ (r.type = "news" /\ LatestConclusion(r.doc) = "title_link_irrelevant")
      BY <1>1 DEF RejectedFields
    <2> QED  BY <2>1, <2>2 DEF Verdict
  <1>2. \A item \in ReadinessAudit :
           \E r \in evidence : /\ item.row = r /\ item.verdict = Verdict(r)
                               /\ item.unresolved = UnresolvedFields(r)
    BY DEF ReadinessAudit
  <1>3. \A r : "provider_usage_permission" \in UnresolvedFields(r)
    BY DEF UnresolvedFields
  <1> QED  BY <1>1, <1>2, <1>3 DEF DecisionsCountOnce, ReviewsInv, OneRowPerKey

-----------------------------------------------------------------------------
(* SourceUsage: reviews are of terms rows there are. *)

TermsRow == [url : Urls, text : Texts \cup {Failed}]
UsageRow == [terms : Nat, scope : Scopes, decision : Decisions]

UsageInv ==
    /\ terms \in Seq(TermsRow) /\ usageReviews \in Seq(UsageRow)
    /\ \A k \in DOMAIN usageReviews : usageReviews[k].terms \in DOMAIN terms

LEMMA NewestIsLast ==
    ASSUME NEW n \in Nat, NEW S \in SUBSET (1 .. n), S # {}
    PROVE  /\ Newest(S) \in S /\ Newest(S) \in Nat
           /\ \A j \in S : j <= Newest(S)
  <1>1. PICK T : T = {n - i : i \in S}
    OBVIOUS
  <1>2. T \in SUBSET Nat /\ T # {}
    <2>1. \A i \in 1 .. n : n - i \in Nat
      OBVIOUS
    <2> QED  BY <1>1, <2>1
  <1>3. PICK x \in T : \A y \in T : <<y, x>> \notin OpToRel(<, Nat)
    BY <1>2, WFMin, NatLessThanWellFounded, Zenon
  <1>4. \A y \in T : ~ (y < x)
    BY <1>2, <1>3, Zenon DEF OpToRel
  <1>5. PICK i \in S : x = n - i
    BY <1>1, <1>3
  <1>6. \A j \in S : j <= i
    <2> SUFFICES ASSUME NEW j \in S  PROVE j <= i
      OBVIOUS
    <2>1. ~ (n - j < n - i)
      BY <1>1, <1>4, <1>5
    <2> QED  BY <2>1
  <1>7. Newest(S) \in S /\ \A j \in S : j <= Newest(S)
    BY <1>6 DEF Newest
  <1>8. 1 .. n \subseteq Nat
    OBVIOUS
  <1> QED  BY <1>7, <1>8

LEMMA ObserveTermsStep ==
    ASSUME UsageInv, NEW row \in TermsRow, UNCHANGED usageReviews,
           terms' = terms \/ terms' = Append(terms, row)
    PROVE  UsageInv'
  <1>1. CASE terms' = terms
    BY <1>1 DEF UsageInv
  <1>2. CASE terms' = Append(terms, row)
    <2>1. PICK longer : longer = Append(terms, row)
      OBVIOUS
    <2>2. longer \in Seq(TermsRow) /\ Len(longer) = Len(terms) + 1 /\ Len(terms) \in Nat
      BY <2>1, AppendProperties, LenProperties DEF UsageInv
    <2>3. DOMAIN longer = 1 .. Len(longer) /\ DOMAIN terms = 1 .. Len(terms)
      BY <2>2, LenProperties DEF UsageInv
    <2>4. DOMAIN terms \subseteq DOMAIN longer
      BY <2>2, <2>3
    <2> QED  BY <1>2, <2>1, <2>2, <2>4 DEF UsageInv
  <1> QED  BY <1>1, <1>2

LEMMA ReviewUsageStep ==
    ASSUME UsageInv, NEW i \in DOMAIN terms, NEW s \in Scopes, NEW d \in Decisions,
           ReviewUsage(i, s, d)
    PROVE  UsageInv'
  <1>1. PICK row : row = [terms |-> i, scope |-> s, decision |-> d]
    OBVIOUS
  <1>2. PICK longer : longer = Append(usageReviews, row)
    OBVIOUS
  <1>3. usageReviews' = longer /\ terms' = terms
    BY <1>1, <1>2 DEF ReviewUsage
  <1>4. DOMAIN terms = 1 .. Len(terms) /\ Len(terms) \in Nat
    BY LenProperties DEF UsageInv
  <1>5. row \in UsageRow /\ row.terms \in DOMAIN terms
    BY <1>1, <1>4 DEF UsageRow
  <1>6. /\ longer \in Seq(UsageRow) /\ Len(longer) = Len(usageReviews) + 1
        /\ Len(usageReviews) \in Nat /\ longer[Len(usageReviews) + 1] = row
        /\ DOMAIN usageReviews = 1 .. Len(usageReviews)
        /\ \A k \in 1 .. Len(usageReviews) : longer[k] = usageReviews[k]
    BY <1>2, <1>5, AppendProperties, LenProperties DEF UsageInv
  <1>7. DOMAIN longer = 1 .. (Len(usageReviews) + 1)
    BY <1>6, LenProperties
  <1>8. \A k \in DOMAIN longer : longer[k].terms \in DOMAIN terms
    BY <1>5, <1>6, <1>7 DEF UsageInv
  <1> QED  BY <1>3, <1>6, <1>8 DEF UsageInv

LEMMA UsageStep == ASSUME UsageInv, UsageNext  PROVE UsageInv'
  <1>1. ASSUME NEW url \in Urls, FailTerms(url)  PROVE UsageInv'
    <2>1. [url |-> url, text |-> Failed] \in TermsRow
      BY DEF TermsRow
    <2> QED  BY <1>1, <2>1, ObserveTermsStep DEF FailTerms
  <1>2. ASSUME NEW url \in Urls, NEW t \in Texts, ObserveTerms(url, t)  PROVE UsageInv'
    <2>1. [url |-> url, text |-> t] \in TermsRow
      BY DEF TermsRow
    <2> QED  BY <1>2, <2>1, ObserveTermsStep DEF ObserveTerms
  <1> QED  BY <1>1, <1>2, ReviewUsageStep DEF UsageNext

LEMMA UsageStays == ASSUME UsageInv, UNCHANGED usageVars  PROVE UsageInv'
  BY DEF UsageInv, usageVars

\* The last word on a document is the newest review of its newest row, unless a
\* row came after it, and then the newest row is shown.
LEMMA RejectionsShown == ASSUME UsageInv  PROVE RejectionsAreShown
  <1> SUFFICES ASSUME NEW url \in Urls, NEW scope \in Scopes, ReviewsOf(url, scope) # {},
                      usageReviews[Newest(ReviewsOf(url, scope))].decision = "rejected"
               PROVE  \/ Precheck = "rejected"
                      \/ \E i \in LatestTerms :
                            /\ terms[i].url = url
                            /\ i > usageReviews[Newest(ReviewsOf(url, scope))].terms
    BY DEF RejectionsAreShown
  <1> DEFINE on == ReviewsOf(url, scope)
             inScope(i) == ReviewsIn(i, scope)
  <1>1. /\ DOMAIN terms = 1 .. Len(terms) /\ Len(terms) \in Nat
        /\ DOMAIN usageReviews = 1 .. Len(usageReviews) /\ Len(usageReviews) \in Nat
    BY LenProperties DEF UsageInv
  <1>2. on \in SUBSET (1 .. Len(usageReviews))
    BY <1>1 DEF ReviewsOf
  <1>3. PICK k0 : k0 = Newest(on)
    OBVIOUS
  <1>4. k0 \in on /\ \A k \in on : k <= k0
    BY <1>1, <1>2, <1>3, NewestIsLast
  <1>5. PICK i0 : i0 = usageReviews[k0].terms
    OBVIOUS
  <1>6. /\ k0 \in DOMAIN usageReviews /\ usageReviews[k0].scope = scope
        /\ usageReviews[k0].decision = "rejected" /\ i0 \in RowsOf(url)
    BY <1>3, <1>4, <1>5 DEF UsageInv, RowsOf, ReviewsOf
  <1>7. PICK n : n = Newest(RowsOf(url))
    OBVIOUS
  <1>8. /\ n \in RowsOf(url) /\ n \in Nat /\ i0 \in Nat /\ i0 <= n
        /\ n \in LatestTerms /\ terms[n].url = url
    <2>1. RowsOf(url) \in SUBSET (1 .. Len(terms)) /\ RowsOf(url) # {}
      BY <1>1, <1>6 DEF RowsOf
    <2>2. n \in RowsOf(url) /\ n \in Nat /\ \A j \in RowsOf(url) : j <= n
      BY <1>1, <1>7, <2>1, NewestIsLast
    <2>3. n \in LatestTerms
      BY <1>7, <2>1 DEF LatestTerms
    <2> QED  BY <1>1, <1>6, <2>1, <2>2, <2>3 DEF RowsOf
  <1>9. CASE i0 < n
    BY <1>3, <1>5, <1>8, <1>9
  <1>10. CASE i0 = n
    <2>1. inScope(n) \in SUBSET on /\ k0 \in inScope(n)
      BY <1>5, <1>6, <1>8, <1>10 DEF ReviewsIn, ReviewsOf
    <2>2. Newest(inScope(n)) = k0
      <3>1. inScope(n) \in SUBSET (1 .. Len(usageReviews)) /\ inScope(n) # {}
        BY <1>2, <2>1
      <3>2. PICK k1 : k1 = Newest(inScope(n))
        OBVIOUS
      <3>3. k1 \in inScope(n) /\ k1 \in Nat /\ \A j \in inScope(n) : j <= k1
        BY <1>1, <3>1, <3>2, NewestIsLast
      <3>4. k1 <= k0 /\ k0 <= k1
        BY <1>4, <2>1, <3>3
      <3> QED  BY <1>1, <1>6, <3>2, <3>3, <3>4
    <2>3. k0 \in LatestReviews
      <3>1. PICK p : p = <<n, scope>>
        OBVIOUS
      <3>2. p \in LatestTerms \X Scopes /\ p[1] = n /\ p[2] = scope
        BY <1>8, <3>1
      <3>3. ReviewsIn(p[1], p[2]) # {} /\ Newest(ReviewsIn(p[1], p[2])) = k0
        BY <2>1, <2>2, <3>2
      <3> QED  BY <3>2, <3>3 DEF LatestReviews
    <2> QED  BY <1>6, <2>3 DEF Precheck
  <1> QED  BY <1>8, <1>9, <1>10

-----------------------------------------------------------------------------
(* ReportSnapshots: who may take the file of a snapshot away. *)

Past == {"write", "record", "cleanup"}
RunRow == [pc : {"idle", "fetch", "validate", "check", "done"} \cup Past,
           report : Reports \cup {NoReport}, review : Nat, existed : BOOLEAN]
SnapshotRow == [by : SnapshotRuns, review : Nat]

RunsInv ==
    /\ run \in [SnapshotRuns -> RunRow]
    /\ \A p \in SnapshotRuns : run[p].pc \notin {"idle", "done"} => run[p].report \in Reports
    /\ snapshots \in [Reports -> SnapshotRow \cup {NoRun}]
    /\ claimants \in [Reports -> SUBSET SnapshotRuns]
    /\ remover \in [Reports -> SnapshotRuns \cup {NoRun}]

\* The run that recorded a snapshot has ended, or cleans up unaware of its row.
Recorded(d) ==
    LET p == snapshots[d].by IN
    \/ run[p].pc = "done"
    \/ run[p].pc = "cleanup" /\ run[p].report = d /\ p \in unanswered

\* Whoever would remove a file that is there had found none before it appeared;
\* a file that went was removed by such a run, which is not the one that recorded
\* it, or is about to, unless that was not told so.
FileInv(d) ==
    /\ d \in files => Claims(d) \subseteq claimants[d]
    /\ snapshots[d] # NoRun /\ d \notin files =>
          /\ remover[d] \in claimants[d]
          /\ remover[d] = snapshots[d].by => snapshots[d].by \in unanswered
    /\ \A p \in SnapshotRuns :
          run[p].pc = "record" /\ run[p].report = d /\ d \notin files =>
              remover[d] \in claimants[d] \ {p}
    /\ snapshots[d] # NoRun => Recorded(d)

FilesInv == RunsInv /\ \A d \in Reports : FileInv(d)

\* A run goes on without touching the store: it claims no file that is there.
LEMMA RunGoesOn ==
    ASSUME FilesInv, NEW p \in SnapshotRuns, NEW row \in RunRow,
           run[p].pc # "done", row.pc # "record", row.pc = "done" \/ run[p].pc # "cleanup",
           row.pc \notin {"idle", "done"} => row.report \in Reports,
           row.pc \in Past /\ ~row.existed =>
               p \in Claims(row.report) \/ row.report \notin files,
           run' = [run EXCEPT ![p] = row],
           UNCHANGED <<files, snapshots, claimants, remover, unanswered>>
    PROVE  FilesInv'
  <1>1. run'[p] = row /\ \A q \in SnapshotRuns \ {p} : run'[q] = run[q]
    BY DEF FilesInv, RunsInv
  <1>2. RunsInv'
    BY <1>1 DEF FilesInv, RunsInv
  <1>3. ASSUME NEW d \in Reports  PROVE FileInv(d)'
    <2>1. FileInv(d) /\ snapshots[d] \in SnapshotRow \cup {NoRun}
      BY DEF FilesInv, RunsInv
    <2>2. d \in files => Claims(d)' \subseteq claimants[d]
      <3> SUFFICES ASSUME d \in files, NEW q \in Claims(d)'  PROVE q \in claimants[d]
        OBVIOUS
      <3>1. CASE q = p
        BY <1>1, <2>1, <3>1 DEF Claims, Past, FileInv
      <3>2. CASE q # p
        BY <1>1, <2>1, <3>2 DEF Claims, FileInv
      <3> QED  BY <3>1, <3>2
    <2>3. \A q \in SnapshotRuns : run'[q].pc = "record" => q # p /\ run'[q] = run[q]
      BY <1>1
    <2>4. snapshots[d] # NoRun => Recorded(d)'
      BY <1>1, <2>1 DEF FileInv, Recorded, SnapshotRow
    <2> QED  BY <2>1, <2>2, <2>3, <2>4 DEF FileInv
  <1> QED  BY <1>2, <1>3 DEF FilesInv

LEMMA UsableNewest ==
    ASSUME UsageInv, NEW scope, UsableReviews(scope) # {}
    PROVE  Newest(UsableReviews(scope)) \in Nat
  <1>1. UsableReviews(scope) \in SUBSET (1 .. Len(usageReviews)) /\ Len(usageReviews) \in Nat
    BY LenProperties DEF UsageInv, UsableReviews
  <1> QED  BY <1>1, NewestIsLast

LEMMA StartStep ==
    ASSUME UsageInv, FilesInv, NEW p \in SnapshotRuns, NEW d \in Reports, Start(p, d)
    PROVE  FilesInv'
  <1>1. PICK review : review = Newest(UsableReviews("local_storage"))
    OBVIOUS
  <1>2. review \in Nat
    BY <1>1, UsableNewest DEF Start, Candidate
  <1>3. PICK row : row = [pc |-> IF snapshots[d] = NoRun THEN "fetch" ELSE "validate",
                          report |-> d, review |-> review, existed |-> FALSE]
    OBVIOUS
  <1>4. row \in RunRow /\ row.pc \in {"fetch", "validate"} /\ row.report = d
    BY <1>2, <1>3 DEF RunRow
  <1>5. /\ run[p].pc = "idle" /\ run' = [run EXCEPT ![p] = row]
        /\ UNCHANGED <<files, snapshots, claimants, remover, unanswered>>
    BY <1>1, <1>3 DEF Start, At
  <1> QED  BY <1>4, <1>5, RunGoesOn DEF Past

LEMMA EndsQuietly ==
    ASSUME FilesInv, NEW p \in SnapshotRuns, Ends(p), run[p].pc # "done",
           UNCHANGED <<files, snapshots, claimants, remover, unanswered>>
    PROVE  FilesInv'
  <1>1. PICK row : row = [IdleRun EXCEPT !.pc = "done"]
    OBVIOUS
  <1>2. row \in RunRow /\ row.pc = "done"
    BY <1>1 DEF RunRow, IdleRun
  <1>3. run' = [run EXCEPT ![p] = row]
    BY <1>1 DEF Ends
  <1> QED  BY <1>2, <1>3, RunGoesOn DEF Past

LEMMA QuietSteps ==
    ASSUME FilesInv, NEW p \in SnapshotRuns,
           ValidateExisting(p) \/ Fetch(p) \/ CheckTarget(p) \/ Stop(p)
    PROVE  FilesInv'
  <1>1. CASE ValidateExisting(p)
    BY <1>1, EndsQuietly DEF ValidateExisting, FailureRow, At
  <1>2. CASE Fetch(p)
    <2>1. CASE Moves(p, "check")
      <3>1. PICK row : row = [run[p] EXCEPT !.pc = "check"]
        OBVIOUS
      <3>2. row \in RunRow /\ row.pc = "check" /\ row.report = run[p].report
        BY <3>1 DEF FilesInv, RunsInv, RunRow
      <3>3. /\ run[p].pc = "fetch" /\ run' = [run EXCEPT ![p] = row]
            /\ UNCHANGED <<files, snapshots, claimants, remover, unanswered>>
        BY <1>2, <2>1, <3>1 DEF Fetch, Moves, At
      <3> QED  BY <3>2, <3>3, RunGoesOn DEF FilesInv, RunsInv, Past
    <2>2. CASE \E status : FailureRow(p, status)
      BY <1>2, <2>2, EndsQuietly DEF Fetch, FailureRow, At
    <2> QED  BY <1>2, <2>1, <2>2 DEF Fetch
  <1>3. CASE CheckTarget(p)
    <2>0. PICK there \in BOOLEAN : there <=> run[p].report \in files
      OBVIOUS
    <2>1. PICK row : row = [run[p] EXCEPT !.pc = "write", !.existed = run[p].report \in files]
      OBVIOUS
    <2>2. /\ row \in RunRow /\ row.pc = "write" /\ row.report = run[p].report
          /\ ~row.existed => row.report \notin files
      <3>1. row = [run[p] EXCEPT !.pc = "write", !.existed = there]
        BY <2>0, <2>1
      <3>2. row.existed = there
        BY <3>1 DEF FilesInv, RunsInv, RunRow
      <3>3. row \in RunRow /\ row.pc = "write" /\ row.report = run[p].report
        BY <3>1 DEF FilesInv, RunsInv, RunRow, Past
      <3> QED  BY <2>0, <3>2, <3>3
    <2>3. /\ run[p].pc = "check" /\ run' = [run EXCEPT ![p] = row]
          /\ UNCHANGED <<files, snapshots, claimants, remover, unanswered>>
      BY <1>3, <2>1 DEF CheckTarget, At, FilesInv, RunsInv, RunRow
    <2> QED  BY <2>2, <2>3, RunGoesOn DEF FilesInv, RunsInv
  <1>4. CASE Stop(p)
    BY <1>4, EndsQuietly DEF Stop
  <1> QED  BY <1>1, <1>2, <1>3, <1>4

\* The file appears, and its claimants are those who will still take it back.
LEMMA WriteStep == ASSUME FilesInv, NEW p \in SnapshotRuns, WriteFile(p)  PROVE FilesInv'
  <1>1. CASE Ends(p) /\ UNCHANGED <<files, claimants>>
    BY <1>1, EndsQuietly DEF WriteFile, At
  <1>2. CASE /\ files' = files \cup {run[p].report}
             /\ claimants' = IF run[p].report \in files THEN claimants
                             ELSE [claimants EXCEPT ![run[p].report] = Claims(run[p].report)]
             /\ Moves(p, "record")
    <2>1. PICK doc : doc = run[p].report
      OBVIOUS
    <2>2. PICK row : row = [run[p] EXCEPT !.pc = "record"]
      OBVIOUS
    <2>3. /\ run[p].pc = "write" /\ UNCHANGED <<snapshots, remover, unanswered>> /\ doc \in Reports
          /\ run' = [run EXCEPT ![p] = row]
      BY <1>2, <2>1, <2>2 DEF WriteFile, Moves, At, FilesInv, RunsInv
    <2>4. row \in RunRow /\ row.pc = "record" /\ row.report = doc /\ row.existed = run[p].existed
      BY <2>1, <2>2 DEF FilesInv, RunsInv, RunRow, Past
    <2>5. run'[p] = row /\ \A q \in SnapshotRuns \ {p} : run'[q] = run[q]
      BY <2>3 DEF FilesInv, RunsInv
    <2>6. \A d \in Reports : Claims(d)' = Claims(d)
      <3> SUFFICES ASSUME NEW d \in Reports, NEW q \in SnapshotRuns
                   PROVE  q \in Claims(d)' <=> q \in Claims(d)
        BY DEF Claims
      <3> QED  BY <2>1, <2>3, <2>4, <2>5 DEF Claims
    <2>7. \A d \in Reports : Claims(d) \subseteq SnapshotRuns
      BY DEF Claims
    <2>8. /\ claimants' \in [Reports -> SUBSET SnapshotRuns]
          /\ \A d \in Reports : d # doc \/ doc \in files => claimants'[d] = claimants[d]
          /\ doc \notin files => claimants'[doc] = Claims(doc)
      BY <1>2, <2>1, <2>3, <2>7 DEF FilesInv, RunsInv
    <2>9. RunsInv'
      BY <2>3, <2>4, <2>5, <2>8 DEF FilesInv, RunsInv
    <2>10. ASSUME NEW d \in Reports  PROVE FileInv(d)'
      <3>1. FileInv(d) /\ snapshots[d] \in SnapshotRow \cup {NoRun}
        BY DEF FilesInv, RunsInv
      <3>2. d \in files' => Claims(d)' \subseteq claimants'[d]
        BY <1>2, <2>1, <2>6, <2>8, <3>1 DEF FileInv
      <3>3. snapshots[d] # NoRun => Recorded(d)'
        BY <2>3, <2>5, <3>1 DEF FileInv, Recorded, SnapshotRow
      <3>4. d \notin files' => d # doc /\ d \notin files /\ claimants'[d] = claimants[d]
        BY <1>2, <2>1, <2>8
      <3>5. \A q \in SnapshotRuns : run'[q].pc = "record" /\ run'[q].report = d /\ d # doc =>
               run[q].pc = "record" /\ run[q].report = d
        BY <2>4, <2>5
      <3> QED  BY <2>3, <3>1, <3>2, <3>3, <3>4, <3>5 DEF FileInv
    <2> QED  BY <2>9, <2>10 DEF FilesInv
  <1> QED  BY <1>1, <1>2 DEF WriteFile

\* A run moves on to the clean-up without a trace in the store.
LEMMA GivesUp ==
    ASSUME FilesInv, NEW p \in SnapshotRuns, At(p, "record"), Moves(p, "cleanup"),
           UNCHANGED <<files, snapshots, claimants, remover, unanswered>>
    PROVE  FilesInv'
  <1>1. PICK row : row = [run[p] EXCEPT !.pc = "cleanup"]
    OBVIOUS
  <1>2. /\ row \in RunRow /\ row.pc = "cleanup" /\ row.report = run[p].report
        /\ row.existed = run[p].existed
    BY <1>1 DEF FilesInv, RunsInv, RunRow, Past
  <1>3. run[p].pc = "record" /\ run' = [run EXCEPT ![p] = row]
    BY <1>1 DEF Moves, At
  <1>4. ~row.existed => p \in Claims(row.report)
    BY <1>2, <1>3 DEF Claims
  <1>5. row.report \in Reports
    BY <1>2, <1>3 DEF FilesInv, RunsInv
  <1> QED  BY <1>2, <1>3, <1>4, <1>5, RunGoesOn

\* A run records a file that another has removed meanwhile, or one that is there.
LEMMA Records ==
    ASSUME FilesInv, NEW p \in SnapshotRuns, NEW doc, doc = run[p].report,
           At(p, "record"), snapshots[doc] = NoRun,
           snapshots' = [snapshots EXCEPT ![doc] = [by |-> p, review |-> run[p].review]],
           \/ Ends(p) /\ UNCHANGED unanswered
           \/ Moves(p, "cleanup") /\ unanswered' = unanswered \cup {p},
           UNCHANGED <<files, claimants, remover>>
    PROVE  FilesInv'
  <1>1. PICK row : row = [by |-> p, review |-> run[p].review]
    OBVIOUS
  <1>2. /\ run[p].pc = "record" /\ doc \in Reports
        /\ row \in SnapshotRow /\ row.by = p
    BY <1>1 DEF At, FilesInv, RunsInv, RunRow, SnapshotRow
  <1>3. PICK next \in RunRow :
          /\ run' = [run EXCEPT ![p] = next]
          /\ \/ next.pc = "done"
             \/ next.pc = "cleanup" /\ next.report = doc /\ p \in unanswered'
                   /\ next.existed = run[p].existed
    <2>1. CASE Ends(p)
      <3>1. PICK ended : ended = [IdleRun EXCEPT !.pc = "done"]
        OBVIOUS
      <3>2. ended \in RunRow /\ ended.pc = "done"
        BY <3>1 DEF RunRow, IdleRun
      <3> QED  BY <2>1, <3>1, <3>2 DEF Ends
    <2>2. CASE Moves(p, "cleanup") /\ unanswered' = unanswered \cup {p}
      <3>1. PICK cleans : cleans = [run[p] EXCEPT !.pc = "cleanup"]
        OBVIOUS
      <3>2. /\ cleans \in RunRow /\ cleans.pc = "cleanup" /\ cleans.report = doc
            /\ cleans.existed = run[p].existed
        BY <3>1 DEF FilesInv, RunsInv, RunRow, Past
      <3> QED  BY <2>2, <3>1, <3>2 DEF Moves
    <2> QED  BY <2>1, <2>2
  <1>4. run'[p] = next /\ \A q \in SnapshotRuns \ {p} : run'[q] = run[q]
    BY <1>3 DEF FilesInv, RunsInv
  <1>5. /\ snapshots' \in [Reports -> SnapshotRow \cup {NoRun}] /\ snapshots'[doc] = row
        /\ \A d \in Reports \ {doc} : snapshots'[d] = snapshots[d]
    BY <1>1, <1>2 DEF FilesInv, RunsInv
  <1>6. RunsInv'
    BY <1>2, <1>3, <1>4, <1>5 DEF FilesInv, RunsInv
  <1>7. ASSUME NEW d \in Reports  PROVE FileInv(d)'
    <2>1. FileInv(d) /\ snapshots[d] \in SnapshotRow \cup {NoRun}
      BY DEF FilesInv, RunsInv
    <2>2. Claims(d)' \subseteq Claims(d)
      BY <1>2, <1>3, <1>4 DEF Claims
    <2>3. \A q \in SnapshotRuns : run'[q].pc = "record" => run'[q] = run[q]
      BY <1>3, <1>4
    <2>4. unanswered \subseteq unanswered'
      OBVIOUS
    <2>5. snapshots'[d] # NoRun => Recorded(d)'
      <3>1. CASE d = doc
        BY <1>2, <1>3, <1>4, <1>5, <3>1 DEF Recorded
      <3>2. CASE d # doc
        BY <1>2, <1>3, <1>4, <1>5, <2>1, <2>4, <3>2 DEF FileInv, Recorded, SnapshotRow
      <3> QED  BY <3>1, <3>2
    <2>6. snapshots'[d] # NoRun /\ d \notin files =>
             /\ remover[d] \in claimants[d]
             /\ remover[d] = snapshots'[d].by => snapshots'[d].by \in unanswered'
      <3>1. CASE d = doc
        BY <1>2, <1>5, <2>1, <3>1 DEF FileInv
      <3>2. CASE d # doc
        BY <1>5, <2>1, <2>4, <3>2 DEF FileInv
      <3> QED  BY <3>1, <3>2
    <2> QED  BY <2>1, <2>2, <2>3, <2>5, <2>6 DEF FileInv
  <1> QED  BY <1>6, <1>7 DEF FilesInv

LEMMA RecordStep == ASSUME FilesInv, NEW p \in SnapshotRuns, Record(p)  PROVE FilesInv'
  <1>1. CASE Moves(p, "cleanup") /\ UNCHANGED <<snapshots, unanswered>>
    BY <1>1, GivesUp DEF Record
  <1>2. CASE /\ snapshots' = IF snapshots[run[p].report] # NoRun THEN snapshots
                             ELSE [snapshots EXCEPT ![run[p].report] =
                                      [by |-> p, review |-> run[p].review]]
             /\ \/ Ends(p) /\ UNCHANGED unanswered
                \/ /\ Moves(p, "cleanup")
                   /\ unanswered' = IF snapshots[run[p].report] # NoRun THEN unanswered
                                    ELSE unanswered \cup {p}
    <2>1. PICK doc : doc = run[p].report
      OBVIOUS
    <2>2. At(p, "record") /\ run[p].pc # "done" /\ UNCHANGED <<files, claimants, remover>>
      BY DEF Record, At
    <2>3. CASE snapshots[doc] # NoRun
      BY <1>2, <2>1, <2>2, <2>3, EndsQuietly, GivesUp
    <2>4. CASE snapshots[doc] = NoRun
      BY <1>2, <2>1, <2>2, <2>4, Records
    <2> QED  BY <2>3, <2>4
  <1> QED  BY <1>1, <1>2 DEF Record

\* The file goes by the hand of one of its claimants, and none that knows of its
\* row.
LEMMA CleanUpStep == ASSUME FilesInv, NEW p \in SnapshotRuns, CleanUp(p)  PROVE FilesInv'
  <1>1. CASE UNCHANGED <<files, remover>>
    BY <1>1, EndsQuietly DEF CleanUp, At
  <1>2. CASE /\ ~run[p].existed /\ run[p].report \in files
             /\ files' = files \ {run[p].report}
             /\ remover' = [remover EXCEPT ![run[p].report] = p]
    <2>1. PICK doc : doc = run[p].report
      OBVIOUS
    <2>2. PICK ended : ended = [IdleRun EXCEPT !.pc = "done"]
      OBVIOUS
    <2>3. /\ run[p].pc = "cleanup" /\ doc \in Reports /\ UNCHANGED <<snapshots, claimants, unanswered>>
          /\ ended \in RunRow /\ ended.pc = "done" /\ run' = [run EXCEPT ![p] = ended]
      BY <2>1, <2>2 DEF CleanUp, At, Ends, FilesInv, RunsInv, RunRow, IdleRun
    <2>4. run'[p] = ended /\ \A q \in SnapshotRuns \ {p} : run'[q] = run[q]
      BY <2>3 DEF FilesInv, RunsInv
    <2>5. /\ remover' \in [Reports -> SnapshotRuns \cup {NoRun}] /\ remover'[doc] = p
          /\ \A d \in Reports \ {doc} : remover'[d] = remover[d]
      BY <1>2, <2>1, <2>3 DEF FilesInv, RunsInv
    <2>6. RunsInv'
      BY <2>3, <2>4, <2>5 DEF FilesInv, RunsInv
    <2>7. p \in Claims(doc) /\ doc \in files /\ doc \notin files'
      BY <1>2, <2>1, <2>3 DEF Claims
    <2>8. p \in claimants[doc]
      BY <2>3, <2>7 DEF FilesInv, FileInv
    <2>9. ASSUME NEW d \in Reports  PROVE FileInv(d)'
      <3>1. FileInv(d) /\ snapshots[d] \in SnapshotRow \cup {NoRun}
        BY DEF FilesInv, RunsInv
      <3>2. Claims(d)' \subseteq Claims(d)
        BY <2>3, <2>4 DEF Claims
      <3>3. \A q \in SnapshotRuns : run'[q].pc = "record" => q # p /\ run'[q] = run[q]
        BY <2>3, <2>4
      <3>4. snapshots[d] # NoRun => Recorded(d)'
        BY <2>3, <2>4, <3>1 DEF FileInv, Recorded, SnapshotRow
      <3>5. snapshots[d] # NoRun /\ snapshots[d].by = p => p \in unanswered
        BY <2>3, <3>1 DEF FileInv, Recorded
      <3>6. CASE d = doc
        BY <2>3, <2>5, <2>7, <2>8, <3>3, <3>4, <3>5, <3>6 DEF FileInv
      <3>7. CASE d # doc
        <4>1. remover'[d] = remover[d] /\ (d \in files' <=> d \in files)
          BY <1>2, <2>1, <2>5, <3>7
        <4> QED  BY <2>3, <3>1, <3>2, <3>3, <3>4, <4>1 DEF FileInv
      <3> QED  BY <3>6, <3>7
    <2> QED  BY <2>6, <2>9 DEF FilesInv
  <1> QED  BY <1>1, <1>2 DEF CleanUp

LEMMA FilesStay ==
    ASSUME FilesInv, UNCHANGED <<files, snapshots, run, claimants, remover, unanswered>>
    PROVE  FilesInv'
  BY DEF FilesInv, RunsInv, FileInv, Claims, Recorded

LEMMA FilesKept == ASSUME FilesInv  PROVE SnapshotsKeepTheirFiles
  <1> SUFFICES ASSUME NEW r \in evidence, EvidenceItem(r).snapshot # NoRun, r.doc \notin files
               PROVE  /\ remover[r.doc] \in claimants[r.doc]
                      /\ remover[r.doc] = EvidenceItem(r).snapshot.by =>
                            EvidenceItem(r).snapshot.by \in unanswered
    BY DEF SnapshotsKeepTheirFiles
  <1>1. r.doc \in Reports /\ EvidenceItem(r).snapshot = snapshots[r.doc]
    BY DEF EvidenceItem
  <1> QED  BY <1>1 DEF FilesInv, FileInv

-----------------------------------------------------------------------------
(* ReportSnapshots: parses and the reviews of what they found. *)

ParseRow == [by : ParseRuns, report : Reports, status : {"success", "partial"},
             found : [Fields -> {"unresolved", "located", "ambiguous"}]]

OneParsePerReport(accepted) ==
    \A i, j \in DOMAIN accepted : accepted[i].report = accepted[j].report => i = j

LocationsInv ==
    /\ parser \in [ParseRuns -> [pc : {"idle", "parsing", "done"},
                                 report : Reports \cup {NoReport}]]
    /\ \A p \in ParseRuns : parser[p].pc = "parsing" => parser[p].report \in Reports
    /\ parses \in Seq(ParseRow) /\ OneParsePerReport(parses)
    /\ locationReviews \in Seq(LocationRequests) /\ OneRowPerKey(locationReviews)

LEMMA AddParseKeepsOne ==
    ASSUME LocationsInv, NEW parse \in ParseRow, AddParse(parse)
    PROVE  parses' \in Seq(ParseRow) /\ OneParsePerReport(parses')
  <1>1. CASE AcceptedParses(parse.report) # {}
    BY <1>1 DEF AddParse, LocationsInv
  <1>2. CASE AcceptedParses(parse.report) = {}
    <2>1. PICK longer : longer = Append(parses, parse)
      OBVIOUS
    <2>2. /\ longer \in Seq(ParseRow) /\ Len(parses) \in Nat /\ Len(longer) = Len(parses) + 1
          /\ DOMAIN longer = 1 .. Len(longer) /\ DOMAIN parses = 1 .. Len(parses)
          /\ longer[Len(parses) + 1] = parse
          /\ \A i \in 1 .. Len(parses) : longer[i] = parses[i]
      BY <2>1, AppendProperties, LenProperties DEF LocationsInv
    <2>3. \A i \in 1 .. Len(parses) : parses[i].report # parse.report
      BY <1>2, <2>2 DEF AcceptedParses
    <2>4. OneParsePerReport(longer)
      BY <2>2, <2>3 DEF LocationsInv, OneParsePerReport
    <2> QED  BY <1>2, <2>1, <2>2, <2>4 DEF AddParse
  <1> QED  BY <1>1, <1>2

LEMMA StartParseStep ==
    ASSUME LocationsInv, NEW p \in ParseRuns, NEW d \in Reports, StartParse(p, d)
    PROVE  LocationsInv'
  <1>1. PICK row : row = [pc |-> "parsing", report |-> d]
    OBVIOUS
  <1>2. /\ parser' = [parser EXCEPT ![p] = row] /\ UNCHANGED <<parses, locationReviews>>
        /\ row \in [pc : {"idle", "parsing", "done"}, report : Reports \cup {NoReport}]
        /\ row.report \in Reports
    BY <1>1 DEF StartParse
  <1> QED  BY <1>2 DEF LocationsInv

LEMMA ParseStep == ASSUME LocationsInv, NEW p \in ParseRuns, Parse(p)  PROVE LocationsInv'
  <1>1. PICK row : row = [IdleParser EXCEPT !.pc = "done"]
    OBVIOUS
  <1>2. /\ parser' = [parser EXCEPT ![p] = row] /\ UNCHANGED locationReviews
        /\ row \in [pc : {"idle", "parsing", "done"}, report : Reports \cup {NoReport}]
        /\ row.pc = "done"
    BY <1>1 DEF Parse, IdleParser
  <1>3. parses' \in Seq(ParseRow) /\ OneParsePerReport(parses')
    <2>1. CASE UNCHANGED parses
      BY <2>1 DEF LocationsInv
    <2>2. ASSUME NEW status \in {"success", "partial"}, NEW matches \in [Fields -> 0 .. 2],
                 AddParse([by |-> p, report |-> parser[p].report, status |-> status,
                           found |-> [f \in Fields |-> Located(matches[f])]])
          PROVE  parses' \in Seq(ParseRow) /\ OneParsePerReport(parses')
      <3>1. PICK found : found = [f \in Fields |-> Located(matches[f])]
        OBVIOUS
      <3>2. \A f \in Fields : Located(matches[f]) \in {"unresolved", "located", "ambiguous"}
        BY DEF Located
      <3>3. found \in [Fields -> {"unresolved", "located", "ambiguous"}]
        BY <3>1, <3>2
      <3>4. PICK parse : parse = [by |-> p, report |-> parser[p].report, status |-> status,
                                  found |-> found]
        OBVIOUS
      <3>5. parser[p].report \in Reports
        BY DEF Parse, LocationsInv
      <3>6. parse \in ParseRow
        BY <3>3, <3>4, <3>5 DEF ParseRow
      <3>7. AddParse(parse)
        BY <2>2, <3>1, <3>4
      <3> QED  BY <3>6, <3>7, AddParseKeepsOne
    <2> QED  BY <2>1, <2>2 DEF Parse
  <1> QED  BY <1>2, <1>3 DEF LocationsInv

LEMMA ReviewLocationStep ==
    ASSUME LocationsInv, NEW request \in LocationRequests, ReviewLocation(request)
    PROVE  LocationsInv'
  <1>1. PICK reviews : reviews = AppendReview(locationReviews, request)
    OBVIOUS
  <1>2. reviews \in Seq(LocationRequests) /\ OneRowPerKey(reviews)
    BY <1>1, RetryAddsNothing DEF LocationsInv
  <1>3. locationReviews' = reviews /\ UNCHANGED <<parser, parses>>
    BY <1>1 DEF ReviewLocation
  <1> QED  BY <1>2, <1>3 DEF LocationsInv

LEMMA LocationsStay ==
    ASSUME LocationsInv, UNCHANGED <<parser, parses, locationReviews>>
    PROVE  LocationsInv'
  BY DEF LocationsInv

LEMMA ReviewsCurrent == ASSUME LocationsInv  PROVE ReviewedLocationsStayCurrent
  <1>1. ASSUME NEW d \in Reports, NEW i \in LocationHistory(d)
        PROVE  <<locationReviews[i].run, locationReviews[i].field>> \in LocationCandidates(d)
    <2>1. PICK a \in AcceptedParses(d) :
             i \in DOMAIN locationReviews /\ parses[a].by = locationReviews[i].run
      BY DEF LocationHistory
    <2>2. AcceptedParses(d) = {a} /\ a \in Nat
      <3>1. DOMAIN parses = 1 .. Len(parses) /\ Len(parses) \in Nat
        BY LenProperties DEF LocationsInv
      <3> QED  BY <3>1 DEF AcceptedParses, LocationsInv, OneParsePerReport
    <2>3. Newest({a}) = a
      BY <2>2 DEF Newest
    <2>4. CurrentParse(d).by = locationReviews[i].run
      BY <2>1, <2>2, <2>3 DEF CurrentParse
    <2>5. locationReviews[i] \in LocationRequests
      BY <2>1, ElementOfSeq, LenProperties DEF LocationsInv
    <2> QED  BY <2>2, <2>4, <2>5, RequestsAssumption DEF LocationCandidates
  <1> QED  BY <1>1 DEF ReviewedLocationsStayCurrent, LocationsInv, OneRowPerKey

-----------------------------------------------------------------------------
(* The whole. *)

ResearchInv == EvidenceInv /\ ReviewsInv /\ UsageInv /\ FilesInv /\ LocationsInv

LEMMA ResearchStarts == ResearchInit => ResearchInv
  <1> SUFFICES ASSUME ResearchInit  PROVE ResearchInv
    OBVIOUS
  <1>1. EvidenceInv
    BY DEF ResearchInit, EvidenceInit, EvidenceInv, EvidenceTypeOK, CollectorInv, OneRowPerDocument
  <1>2. newsReviews = <<>> /\ terms = <<>> /\ usageReviews = <<>> /\ parses = <<>>
        /\ locationReviews = <<>>
    BY DEF ResearchInit, EvidenceInit, UsageInit, SnapshotInit
  <1>3. \A S : <<>> \in Seq(S)
    BY EmptySeq
  <1>4. DOMAIN <<>> = {}
    OBVIOUS
  <1>5. ReviewsInv /\ UsageInv
    BY <1>2, <1>3, <1>4 DEF ReviewsInv, UsageInv, OneRowPerKey
  <1>6. /\ files = {} /\ snapshots = [d \in Reports |-> NoRun]
        /\ run = [p \in SnapshotRuns |-> IdleRun] /\ parser = [p \in ParseRuns |-> IdleParser]
        /\ claimants = [d \in Reports |-> {}] /\ remover = [d \in Reports |-> NoRun]
    BY DEF ResearchInit, SnapshotInit
  <1>7. IdleRun \in RunRow /\ IdleRun.pc = "idle"
    BY DEF IdleRun, RunRow
  <1>8. RunsInv
    BY <1>6, <1>7 DEF RunsInv
  <1>9. FilesInv
    BY <1>6, <1>7, <1>8 DEF FilesInv, FileInv
  <1>10. LocationsInv
    BY <1>2, <1>3, <1>4, <1>6 DEF LocationsInv, OneRowPerKey, OneParsePerReport, IdleParser
  <1> QED  BY <1>1, <1>5, <1>9, <1>10 DEF ResearchInv

LEMMA ResearchSteps == ResearchInv /\ [ResearchNext]_researchVars => ResearchInv'
  <1> SUFFICES ASSUME ResearchInv, [ResearchNext]_researchVars  PROVE ResearchInv'
    OBVIOUS
  <1> USE DEF ResearchInv
  <1>1. CASE EvidenceNext /\ UNCHANGED <<usageVars, snapshotVars>>
    <2>1. UsageInv' /\ FilesInv' /\ LocationsInv'
      BY <1>1, UsageStays, FilesStay, LocationsStay DEF snapshotVars
    <2>2. ASSUME NEW b \in Batches, NEW t \in Types, Collect(b, t)
          PROVE  EvidenceInv' /\ ReviewsInv'
      BY <2>2, CollectStep DEF Collect, InsertBatch, ReviewsInv
    <2>3. ASSUME NEW b \in Batches, InsertEvidence(b) \/ FinalizeBatch(b) \/ CollectorDies(b)
          PROVE  EvidenceInv' /\ ReviewsInv'
      <3>1. EvidenceInv'
        BY <2>3, InsertStep, FinalizeStep, DiesStep
      <3> QED  BY <2>3, <3>1 DEF InsertEvidence, FinalizeBatch, CollectorDies, ReviewsInv
    <2>4. ASSUME NEW request \in NewsRequests, ReviewNews(request)
          PROVE  EvidenceInv' /\ ReviewsInv'
      <3>1. EvidenceInv'
        BY <2>4, EvidenceStays DEF ReviewNews
      <3>2. PICK reviews : reviews = AppendReview(newsReviews, request)
        OBVIOUS
      <3>3. reviews \in Seq(NewsRequests) /\ OneRowPerKey(reviews)
        BY <3>2, RetryAddsNothing DEF ReviewsInv
      <3> QED  BY <2>4, <3>1, <3>2, <3>3 DEF ReviewNews, ReviewsInv
    <2> QED  BY <1>1, <2>1, <2>2, <2>3, <2>4 DEF EvidenceNext
  <1>2. CASE UsageNext /\ UNCHANGED <<evidenceVars, snapshotVars>>
    <2>1. EvidenceInv' /\ ReviewsInv'
      BY <1>2, EvidenceStays DEF evidenceVars, ReviewsInv
    <2>2. FilesInv' /\ LocationsInv'
      BY <1>2, FilesStay, LocationsStay DEF snapshotVars
    <2> QED  BY <1>2, <2>1, <2>2, UsageStep
  <1>3. CASE SnapshotNext /\ UNCHANGED <<evidenceVars, usageVars>>
    <2>1. EvidenceInv' /\ ReviewsInv' /\ UsageInv'
      BY <1>3, EvidenceStays, UsageStays DEF evidenceVars, ReviewsInv
    <2>2. ASSUME NEW p \in SnapshotRuns,
                 \/ \E d \in Reports : Start(p, d)
                 \/ ValidateExisting(p) \/ Fetch(p) \/ CheckTarget(p) \/ WriteFile(p)
                 \/ Record(p) \/ CleanUp(p) \/ Stop(p)
          PROVE  FilesInv' /\ LocationsInv'
      <3>1. FilesInv'
        BY <2>2, StartStep, QuietSteps, WriteStep, RecordStep, CleanUpStep
      <3>2. UNCHANGED <<parser, parses, locationReviews>>
        BY <2>2 DEF Start, ValidateExisting, Fetch, CheckTarget, WriteFile, Record, CleanUp,
                    Stop, NotParsing
      <3> QED  BY <3>1, <3>2, LocationsStay
    <2>3. ASSUME NEW p \in ParseRuns, Parse(p) \/ \E d \in Reports : StartParse(p, d)
          PROVE  FilesInv' /\ LocationsInv'
      <3>1. LocationsInv'
        BY <2>3, ParseStep, StartParseStep
      <3> QED  BY <2>3, <3>1, FilesStay DEF Parse, StartParse
    <2>4. ASSUME NEW request \in LocationRequests, ReviewLocation(request)
          PROVE  FilesInv' /\ LocationsInv'
      <3>1. LocationsInv'
        BY <2>4, ReviewLocationStep
      <3> QED  BY <2>4, <3>1, FilesStay DEF ReviewLocation
    <2> QED  BY <1>3, <2>1, <2>2, <2>3, <2>4 DEF SnapshotNext
  <1>4. CASE UNCHANGED researchVars
    BY <1>4, EvidenceStays, UsageStays, FilesStay, LocationsStay
       DEF researchVars, evidenceVars, snapshotVars, ReviewsInv
  <1> QED  BY <1>1, <1>2, <1>3, <1>4 DEF ResearchNext

LEMMA ResearchAlways == ResearchSpec => []ResearchInv
  BY ResearchStarts, ResearchSteps, PTL DEF ResearchSpec

\* What a batch says of itself is true of the rows, wherever its collector
\* stops between its three transactions and whatever other collectors insert
\* meanwhile, unless the collector took a lost answer to its commit for a failure
\* (_persist_batch, insert_evidence).
THEOREM BatchesAlwaysTrue == ResearchSpec => []BatchesTellTheTruth
  <1>1. ResearchInv => BatchesTellTheTruth
    BY EvidenceTrue DEF ResearchInv
  <1> QED  BY <1>1, ResearchAlways, PTL

\* A reviewer's decision on a news item counts once, and the audit's verdict
\* follows the newest one (append_news_evidence_manual_review, evaluate).
THEOREM DecisionsAlwaysOnce == ResearchSpec => []DecisionsCountOnce
  <1>1. ResearchInv => DecisionsCountOnce
    BY DecisionsOnce DEF ResearchInv
  <1> QED  BY <1>1, ResearchAlways, PTL

\* A rejected use of the source is shown as rejected, whatever reviews follow of
\* other documents, other scopes or older texts, until the document has a newer
\* row, which is then shown (_load_source_usage_context).
THEOREM RejectionsAlwaysShown == ResearchSpec => []RejectionsAreShown
  <1>1. ResearchInv => RejectionsAreShown
    BY RejectionsShown DEF ResearchInv
  <1> QED  BY <1>1, ResearchAlways, PTL

\* A shown snapshot loses its file to a run that had found none before the file
\* appeared, and to the run that recorded it only if that run never got the answer
\* to its commit, for any number of runs (persist_observed).
THEOREM SnapshotsLostToClaimants == ResearchSpec => []SnapshotsKeepTheirFiles
  <1>1. ResearchInv => SnapshotsKeepTheirFiles
    BY FilesKept DEF ResearchInv
  <1> QED  BY <1>1, ResearchAlways, PTL

\* A review of a location is about the one accepted parse of its report, and a
\* retry adds none (persist, append_financial_location_review).
THEOREM LocationReviewsCurrent == ResearchSpec => []ReviewedLocationsStayCurrent
  <1>1. ResearchInv => ReviewedLocationsStayCurrent
    BY ReviewsCurrent DEF ResearchInv
  <1> QED  BY <1>1, ResearchAlways, PTL
=============================================================================
