--------------------------- MODULE LifecycleLock ----------------------------
(* runtime/lock.ts: the lifecycle lock file of one project, taken by every    *)
(* process that may mutate it (init, start, repair, offline garbage           *)
(* collection).  The file is created by one exclusive open and filled         *)
(* afterwards, a later owner is never evicted automatically, and every        *)
(* rewrite or removal first re-reads the file.  Processes interleave at every *)
(* system call, may die between any two of them, and a dead process's PID may *)
(* be taken again: only the start identity tells the two apart.               *)
EXTENDS Naturals, TLAPS

CONSTANTS Procs,        \* process incarnations; each runs one command
          Pids,
          PidOf,        \* the PID the system gives to an incarnation
          NoProc

ProcAssumption == NoProc \notin Procs /\ PidOf \in [Procs -> Pids]

VARIABLES pc,           \* where an incarnation is
          mode,         \* 'init' or 'bound'
          seen,         \* the project identity it read before the open
          rec,          \* ownership.record: what it believes the file says
          lock,         \* the lock file
          identity,     \* project.json: who created it, NoProc if absent
          report        \* what readRuntimeLockStatus told it

vars == <<pc, mode, seen, rec, lock, identity, report>>

\* The file after the exclusive open and before its bytes: it names nobody, the
\* field owner only records which open created the inode.
Torn(p) == [owner |-> p, state |-> "torn", id |-> NoProc, endpoint |-> FALSE]
Record(p, st, id, ep) == [owner |-> p, state |-> st, id |-> id, endpoint |-> ep]
NoLock == [owner |-> NoProc, state |-> "absent", id |-> NoProc, endpoint |-> FALSE]

Locks == [owner : Procs \cup {NoProc}, state : {"absent", "torn", "bootstrap_unbound", "bound"},
          id : Procs \cup {NoProc}, endpoint : BOOLEAN]

\* Incarnations that exist in the system.
Live(p) == pc[p] \notin {"unborn", "dead"}
\* Incarnations with an active handle, or about to get one.
Holding == {"opened", "written", "owner", "binding", "publishing", "releasing"}
Holds(p) == pc[p] \in Holding

Init ==
  /\ pc = [p \in Procs |-> "unborn"]
  /\ mode \in [Procs -> {"init", "bound"}]
  /\ seen = [p \in Procs |-> NoProc]
  /\ rec = [p \in Procs |-> NoLock]
  /\ lock = NoLock
  /\ identity = NoProc
  /\ report = [p \in Procs |-> [kind |-> "none", of |-> NoProc]]

-----------------------------------------------------------------------------
\* acquireRuntimeLifecycleLock up to the open: the identity is read first.
Begin(p) ==
  /\ pc[p] = "unborn" /\ \A q \in Procs : Live(q) => PidOf[q] # PidOf[p]
  /\ pc' = [pc EXCEPT ![p] = IF mode[p] = "bound" /\ identity = NoProc THEN "dead" ELSE "read"]
  /\ seen' = [seen EXCEPT ![p] = identity]
  /\ UNCHANGED <<mode, rec, lock, identity, report>>

\* Seeded fault: the open truncates an existing lock instead of failing.
OpenWithoutExcl(p) ==
  /\ pc[p] = "read"
  /\ lock' = Torn(p) /\ pc' = [pc EXCEPT ![p] = "opened"]
  /\ UNCHANGED <<mode, seen, rec, identity, report>>

\* O_CREAT|O_EXCL: one attempt; an existing file is only reported on.
Open(p) ==
  /\ pc[p] = "read"
  /\ IF lock = NoLock
       THEN lock' = Torn(p) /\ pc' = [pc EXCEPT ![p] = "opened"]
       ELSE UNCHANGED lock /\ pc' = [pc EXCEPT ![p] = "blocked"]
  /\ UNCHANGED <<mode, seen, rec, identity, report>>

\* The bytes: bound when an identity was read, unbound otherwise.
Write(p) ==
  /\ pc[p] = "opened"
  /\ rec' = [rec EXCEPT ![p] =
       Record(p, IF seen[p] = NoProc THEN "bootstrap_unbound" ELSE "bound", seen[p], FALSE)]
  /\ lock' = rec'[p]
  /\ pc' = [pc EXCEPT ![p] = "written"]
  /\ UNCHANGED <<mode, seen, identity, report>>

\* File and directory synchronised: the handle is active.
Acquired(p) ==
  /\ pc[p] = "written"
  /\ pc' = [pc EXCEPT ![p] = "owner"]
  /\ UNCHANGED <<mode, seen, rec, lock, identity, report>>

\* A failing write or synchronisation: PublicationOutcomeUnknownError ends the
\* process and leaves the file behind.
PublicationFails(p) ==
  /\ pc[p] \in {"opened", "written", "binding", "publishing"}
  /\ pc' = [pc EXCEPT ![p] = "fatal"]
  /\ UNCHANGED <<mode, seen, rec, lock, identity, report>>

\* readRuntimeLockStatus: an unreadable file is malformed, a record whose
\* identity is not the project's too; a PID that is gone, or that belongs to a
\* process started at another time, is dead; a probe may also be refused.
StatusKinds ==
  IF lock.state = "absent" THEN {"missing"}
  ELSE IF lock.state = "torn" \/ (lock.state = "bound" /\ identity # lock.id) THEN {"malformed"}
  ELSE IF ~(\E q \in Procs : Live(q) /\ PidOf[q] = PidOf[lock.owner]) THEN {"dead"}
  ELSE {IF Live(lock.owner) THEN "live" ELSE "dead", "indeterminate"}
ReadStatus(p) ==
  /\ pc[p] = "blocked" /\ report[p].kind = "none"
  /\ \E k \in StatusKinds : report' = [report EXCEPT ![p] = [kind |-> k, of |-> lock.owner]]
  /\ UNCHANGED <<pc, mode, seen, rec, lock, identity>>

-----------------------------------------------------------------------------

\* createProjectIdentity under the lock: refused when one exists; then
\* bindRuntimeLifecycleLock reads it back and re-reads the lock file.
CreateIdentity(p) ==
  /\ pc[p] = "owner" /\ mode[p] = "init" /\ identity = NoProc
  /\ identity' = p
  /\ UNCHANGED <<pc, mode, seen, rec, lock, report>>

BindVerify(p) ==
  /\ pc[p] = "owner" /\ rec[p].state = "bootstrap_unbound" /\ identity = p /\ lock = rec[p]
  /\ pc' = [pc EXCEPT ![p] = "binding"]
  /\ UNCHANGED <<mode, seen, rec, lock, identity, report>>

BindReplace(p) ==
  /\ pc[p] = "binding"
  /\ rec' = [rec EXCEPT ![p] = Record(p, "bound", identity, FALSE)]
  /\ lock' = rec'[p]
  /\ pc' = [pc EXCEPT ![p] = "owner"]
  /\ UNCHANGED <<mode, seen, identity, report>>

\* publishRuntimeControlEndpoint: only a bound record, once.
EndpointVerify(p) ==
  /\ pc[p] = "owner" /\ rec[p].state = "bound" /\ ~rec[p].endpoint /\ lock = rec[p]
  /\ pc' = [pc EXCEPT ![p] = "publishing"]
  /\ UNCHANGED <<mode, seen, rec, lock, identity, report>>

EndpointReplace(p) ==
  /\ pc[p] = "publishing"
  /\ rec' = [rec EXCEPT ![p].endpoint = TRUE]
  /\ lock' = rec'[p]
  /\ pc' = [pc EXCEPT ![p] = "owner"]
  /\ UNCHANGED <<mode, seen, identity, report>>

\* releaseRuntimeLifecycleLock: assertRecordOwned, then the unlink, then the
\* directory synchronisation; a failing synchronisation is fatal with the file
\* already gone.
ReleaseVerify(p) ==
  /\ pc[p] = "owner" /\ lock = rec[p]
  /\ pc' = [pc EXCEPT ![p] = "releasing"]
  /\ UNCHANGED <<mode, seen, rec, lock, identity, report>>

Unlink(p) ==
  /\ pc[p] = "releasing"
  /\ lock' = NoLock
  /\ \E next \in {"released", "fatal"} : pc' = [pc EXCEPT ![p] = next]
  /\ UNCHANGED <<mode, seen, rec, identity, report>>

\* A process exits, is killed, or the fatal port ends it.
Die(p) ==
  /\ Live(p)
  /\ pc' = [pc EXCEPT ![p] = "dead"]
  /\ UNCHANGED <<mode, seen, rec, lock, identity, report>>

\* The operator follows repairInstruction: after verifying that no process owns
\* the project, rm.
OperatorRemoves ==
  /\ \E p \in Procs : pc[p] \in {"blocked", "dead"} /\ report[p].kind \in {"dead", "malformed", "indeterminate"}
  /\ \A p \in Procs : ~Holds(p)
  /\ lock # NoLock
  /\ lock' = NoLock
  /\ UNCHANGED <<pc, mode, seen, rec, identity, report>>

ProcStep(p) ==
  \/ Begin(p) \/ Open(p) \/ Write(p) \/ Acquired(p) \/ PublicationFails(p) \/ ReadStatus(p)
  \/ CreateIdentity(p) \/ BindVerify(p) \/ BindReplace(p) \/ EndpointVerify(p)
  \/ EndpointReplace(p) \/ ReleaseVerify(p) \/ Unlink(p) \/ Die(p)

Next == OperatorRemoves \/ \E p \in Procs : ProcStep(p)

Spec == Init /\ [][Next]_vars

-----------------------------------------------------------------------------
TypeOK ==
  /\ pc \in [Procs -> {"unborn", "read", "opened", "written", "owner", "binding", "publishing",
                       "releasing", "released", "blocked", "fatal", "dead"}]
  /\ mode \in [Procs -> {"init", "bound"}]
  /\ seen \in [Procs -> Procs \cup {NoProc}]
  /\ rec \in [Procs -> Locks]
  /\ lock \in Locks
  /\ identity \in Procs \cup {NoProc}

\* The file never stops naming the process that holds it: from the exclusive
\* open to the unlink nobody else rewrites or removes it, whoever died around
\* it, so assertRecordOwned never finds a foreign record.
FileNamesHolder == \A p \in Procs : Holds(p) => lock.owner = p

\* At most one process is between its open and its unlink.
MutualExclusion == \A p, q \in Procs : Holds(p) /\ Holds(q) => p = q

\* An owner's belief is the file, so its next bind, endpoint publication or
\* release is not refused.
RecordIsFile ==
  \A p \in Procs : pc[p] \in Holding \ {"opened"} => rec[p] = lock

\* A bound record always carries the project's identity: readRuntimeLockStatus
\* calls a record malformed only when its writer died inside the publication.
BoundMatchesIdentity == lock.state = "bound" => lock.id = identity /\ identity # NoProc

\* A report of a dead or a live owner is true when it is made, PID reuse
\* included: the operator is never told that a running owner is dead, nor
\* that a lock left by a dead one is held.
ReportsAreTrue ==
     \A p \in Procs : report'[p] # report[p] =>
       /\ report'[p].kind = "live" => Live(report'[p].of)
       /\ report'[p].kind = "dead" => ~Live(report'[p].of)

\* What the lock promises: one holder at a time.
holder == IF \E p \in Procs : Holds(p) THEN CHOOSE p \in Procs : Holds(p) ELSE NoProc
Exclusive == INSTANCE ExclusiveHolder WITH Clients <- Procs, Nobody <- NoProc, holder <- holder

-----------------------------------------------------------------------------
(* Mutual exclusion of the lifecycle lock for any number of processes and any *)
(* assignment of PIDs.  FileNamesHolder is inductive given the types: the     *)
(* exclusive open needs an absent file, which no holder leaves behind, and    *)
(* every other write of the file is made by the holder itself, whose record   *)
(* is the file (RecordIsFile).                                                *)

\* What the code writes to the file is a lock record.
LEMMA LockTypes ==
  /\ NoLock \in Locks
  /\ \A p \in Procs : Torn(p) \in Locks
  /\ \A p \in Procs, st \in {"bootstrap_unbound", "bound"}, id \in Procs \cup {NoProc},
        ep \in BOOLEAN : Record(p, st, id, ep) \in Locks
BY DEF Locks, NoLock, Torn, Record

\* The types hold before any process begins,
LEMMA TypesInit == Init => TypeOK
BY LockTypes DEF Init, TypeOK

\* and every system call keeps them.
LEMMA TypesNext == TypeOK /\ [Next]_vars => TypeOK'
<1> SUFFICES ASSUME TypeOK, [Next]_vars PROVE TypeOK'
  OBVIOUS
<1> USE LockTypes DEF TypeOK
<1>1. CASE UNCHANGED vars
  BY <1>1 DEF vars
<1>2. CASE OperatorRemoves
  BY <1>2 DEF OperatorRemoves
<1>3. ASSUME NEW p \in Procs, ProcStep(p) PROVE TypeOK'
  <2>1. CASE Begin(p)
    BY <2>1 DEF Begin
  <2>2. CASE Open(p)
    BY <2>2 DEF Open
  <2>3. CASE Write(p)
    BY <2>3 DEF Write
  <2>4. CASE Acquired(p) \/ PublicationFails(p) \/ ReadStatus(p) \/ BindVerify(p)
             \/ EndpointVerify(p) \/ ReleaseVerify(p) \/ Die(p)
    BY <2>4 DEF Acquired, PublicationFails, ReadStatus, BindVerify, EndpointVerify,
                ReleaseVerify, Die
  <2>5. CASE CreateIdentity(p)
    BY <2>5 DEF CreateIdentity
  <2>6. CASE BindReplace(p)
    BY <2>6 DEF BindReplace
  <2>7. CASE EndpointReplace(p)
    <3>1. lock' = [rec[p] EXCEPT !.endpoint = TRUE] /\ rec' = [rec EXCEPT ![p] = lock']
      BY <2>7 DEF EndpointReplace
    <3>2. lock' \in Locks
      BY <3>1, ZenonT(30) DEF Locks
    <3> QED BY <2>7, <3>1, <3>2 DEF EndpointReplace
  <2>8. CASE Unlink(p)
    BY <2>8 DEF Unlink
  <2> QED BY <1>3, <2>1, <2>2, <2>3, <2>4, <2>5, <2>6, <2>7, <2>8 DEF ProcStep
<1> QED BY <1>1, <1>2, <1>3 DEF Next

HolderInv == FileNamesHolder /\ RecordIsFile

\* A step of the file's protocol keeps the file in the name of its holder.
LEMMA HolderNext ==
  ASSUME ProcAssumption, TypeOK, HolderInv, [Next]_vars
  PROVE  HolderInv'
<1> USE DEF ProcAssumption, TypeOK, HolderInv, FileNamesHolder, RecordIsFile, Holds, Holding
<1>1. CASE UNCHANGED vars
  BY <1>1 DEF vars
<1>2. CASE OperatorRemoves
  BY <1>2 DEF OperatorRemoves
<1>3. ASSUME NEW p \in Procs, ProcStep(p) PROVE HolderInv'
  <2>1. CASE Begin(p) \/ Acquired(p) \/ PublicationFails(p) \/ Die(p)
    BY <2>1 DEF Begin, Acquired, PublicationFails, Die, Live
  <2>2. CASE Open(p)
    BY <2>2 DEF Open, Torn, NoLock
  <2>3. CASE Write(p)
    BY <2>3 DEF Write, Record
  <2>4. CASE BindVerify(p) \/ EndpointVerify(p) \/ ReleaseVerify(p)
    BY <2>4 DEF BindVerify, EndpointVerify, ReleaseVerify
  <2>5. CASE CreateIdentity(p) \/ ReadStatus(p)
    BY <2>5 DEF CreateIdentity, ReadStatus
  <2>6. CASE BindReplace(p)
    BY <2>6 DEF BindReplace, Record
  <2>7. CASE EndpointReplace(p)
    <3>1. lock' = [rec[p] EXCEPT !.endpoint = TRUE] /\ rec'[p] = lock'
      BY <2>7 DEF EndpointReplace
    <3>2. rec[p] \in Locks /\ rec[p].owner = p
      BY <2>7 DEF EndpointReplace
    <3>3. lock'.owner = p
      BY <3>1, <3>2 DEF Locks
    <3> QED BY <2>7, <3>1, <3>3 DEF EndpointReplace
  <2>8. CASE Unlink(p)
    BY <2>8 DEF Unlink, NoLock
  <2> QED BY <1>3, <2>1, <2>2, <2>3, <2>4, <2>5, <2>6, <2>7, <2>8 DEF ProcStep
<1> QED BY <1>1, <1>2, <1>3 DEF Next

-----------------------------------------------------------------------------
(* What a record says of the identity, and what is reported of a lock *)

\* The identity of a project is created once: who read it, wrote it or is about to
\* bind its record to it agrees with it.
IdentityInv ==
  /\ BoundMatchesIdentity
  /\ \A p \in Procs : seen[p] # NoProc => seen[p] = identity
  /\ \A p \in Procs : pc[p] = "binding" => identity = p
  /\ lock.state # "absent" => lock.owner \in Procs

\* Every system call keeps what the records say of the identity.
LEMMA IdentityNext ==
  ASSUME ProcAssumption, TypeOK, HolderInv, IdentityInv, [Next]_vars
  PROVE  IdentityInv'
<1> USE DEF ProcAssumption, TypeOK, IdentityInv, BoundMatchesIdentity
<1>1. CASE UNCHANGED vars
  BY <1>1 DEF vars
<1>2. CASE OperatorRemoves
  BY <1>2 DEF OperatorRemoves, NoLock
<1>3. ASSUME NEW p \in Procs, ProcStep(p) PROVE IdentityInv'
  <2>1. CASE Begin(p) \/ Acquired(p) \/ PublicationFails(p) \/ Die(p) \/ ReadStatus(p)
             \/ EndpointVerify(p) \/ ReleaseVerify(p)
    BY <2>1 DEF Begin, Acquired, PublicationFails, Die, ReadStatus, EndpointVerify, ReleaseVerify
  <2>2. CASE Open(p)
    BY <2>2 DEF Open, Torn
  <2>3. CASE Write(p)
    BY <2>3 DEF Write, Record
  <2>4. CASE CreateIdentity(p)
    BY <2>4 DEF CreateIdentity
  <2>5. CASE BindVerify(p)
    BY <2>5 DEF BindVerify
  <2>6. CASE BindReplace(p)
    BY <2>6 DEF BindReplace, Record
  <2>7. CASE EndpointReplace(p)
    <3>1. lock' = [lock EXCEPT !.endpoint = TRUE]
      BY <2>7 DEF EndpointReplace, HolderInv, RecordIsFile, Holding
    <3>2. lock'.state = lock.state /\ lock'.id = lock.id /\ lock'.owner = lock.owner
      BY <3>1 DEF Locks
    <3> QED BY <2>7, <3>2 DEF EndpointReplace
  <2>8. CASE Unlink(p)
    BY <2>8 DEF Unlink, NoLock
  <2> QED BY <1>3, <2>1, <2>2, <2>3, <2>4, <2>5, <2>6, <2>7, <2>8 DEF ProcStep
<1> QED BY <1>1, <1>2, <1>3 DEF Next

\* The four facts together are inductive.
LockInv == TypeOK /\ HolderInv /\ IdentityInv

\* The conjunction of the three invariants holds in every reachable state.
LEMMA LockInvariant == ASSUME ProcAssumption PROVE Spec => []LockInv
<1>1. Init => LockInv
  BY TypesInit DEF Init, LockInv, HolderInv, FileNamesHolder, RecordIsFile, Holds, Holding,
     IdentityInv, BoundMatchesIdentity, NoLock
<1>2. LockInv /\ [Next]_vars => LockInv'
  BY TypesNext, HolderNext, IdentityNext DEF LockInv
<1> QED BY <1>1, <1>2, PTL DEF Spec

\* From the open to the unlink the file names its holder and says what the holder
\* believes it says, so at most one process holds it; and a bound record carries the
\* identity of the project, whoever died while it was created or bound.
THEOREM LockIsExclusive ==
  ASSUME ProcAssumption
  PROVE  Spec => [](MutualExclusion /\ FileNamesHolder /\ RecordIsFile /\ BoundMatchesIdentity)
<1>1. LockInv => MutualExclusion /\ FileNamesHolder /\ RecordIsFile /\ BoundMatchesIdentity
  BY DEF LockInv, HolderInv, IdentityInv, FileNamesHolder, MutualExclusion
<1> QED BY <1>1, LockInvariant, PTL

\* A report of a live or a dead owner is true when it is made, for any reuse of PIDs.
THEOREM ReportsHold == ASSUME ProcAssumption PROVE Spec => [][ReportsAreTrue]_vars
<1>1. ASSUME LockInv, [Next]_vars PROVE [ReportsAreTrue]_vars
  <2> USE <1>1 DEF LockInv, TypeOK, ReportsAreTrue
  <2>1. CASE UNCHANGED vars
    BY <2>1
  <2>2. CASE OperatorRemoves
    BY <2>2 DEF OperatorRemoves
  <2>3. ASSUME NEW p \in Procs, ProcStep(p) PROVE ReportsAreTrue
    <3>1. CASE ReadStatus(p)
      <4>1. PICK k \in StatusKinds : report' = [report EXCEPT ![p] = [kind |-> k, of |-> lock.owner]]
        BY <3>1 DEF ReadStatus
      <4>2. k \in {"live", "dead"} => lock.owner \in Procs
        BY DEF IdentityInv, StatusKinds
      <4>3. k = "live" => Live(lock.owner)
        BY DEF StatusKinds
      <4>4. k = "dead" => ~Live(lock.owner)
        BY <4>2 DEF StatusKinds
      <4>5. ASSUME NEW q \in Procs, report'[q] # report[q]
            PROVE  report'[q] = [kind |-> k, of |-> lock.owner]
        BY <4>1, <4>5
      <4> QED BY <4>3, <4>4, <4>5
    <3>2. CASE ~ReadStatus(p)
      <4>1. report' = report
        BY <2>3, <3>2 DEF ProcStep, Begin, Open, Write, Acquired, PublicationFails, CreateIdentity,
           BindVerify, BindReplace, EndpointVerify, EndpointReplace, ReleaseVerify, Unlink, Die
      <4> QED BY <4>1
    <3> QED BY <3>1, <3>2
  <2> QED BY <2>1, <2>2, <2>3 DEF Next
<1> QED BY <1>1, LockInvariant, PTL DEF Spec

-----------------------------------------------------------------------------
(* The lock implements ExclusiveHolder *)

\* With one holder at most, holder is who holds the lock, and nobody if none does.
LEMMA HolderIs ==
  ASSUME ProcAssumption, MutualExclusion
  PROVE  /\ \A p \in Procs : Holds(p) <=> holder = p
         /\ (\A p \in Procs : ~Holds(p)) <=> holder = NoProc
BY DEF ProcAssumption, MutualExclusion, holder

\* Every step of a process leaves the holder, takes the lock for nobody's sake but its
\* own, or gives it up: the lock passes from one process to another only while nobody
\* has it.
LEMMA HolderStep ==
  ASSUME ProcAssumption, LockInv, LockInv', [Next]_vars
  PROVE  [Exclusive!Next]_holder
<1> USE DEF Exclusive!Next, Exclusive!Take, Exclusive!Leave
<1>a. MutualExclusion /\ MutualExclusion'
  BY DEF LockInv, HolderInv, FileNamesHolder, MutualExclusion
<1>b. /\ \A p \in Procs : Holds(p) <=> holder = p
      /\ (\A p \in Procs : ~Holds(p)) <=> holder = NoProc
  BY <1>a, HolderIs
<1>c. /\ \A p \in Procs : Holds(p)' <=> holder' = p
      /\ (\A p \in Procs : ~Holds(p)') <=> holder' = NoProc
  BY <1>a DEF ProcAssumption, MutualExclusion, holder
<1>d. holder \in Procs \cup {NoProc} /\ holder' \in Procs \cup {NoProc}
  BY <1>b, <1>c
<1>1. CASE pc' = pc
  BY <1>1, <1>b, <1>c, <1>d DEF Holds
<1>2. ASSUME NEW p \in Procs, ProcStep(p) PROVE [Exclusive!Next]_holder
  <2>1. \A q \in Procs \ {p} : Holds(q)' <=> Holds(q)
    BY <1>2, ZenonT(30) DEF LockInv, TypeOK, Holds, ProcStep, Begin, Open, Write, Acquired, PublicationFails,
       ReadStatus, CreateIdentity, BindVerify, BindReplace, EndpointVerify, EndpointReplace,
       ReleaseVerify, Unlink, Die
  <2>2. CASE Holds(p)' = Holds(p)
    BY <2>1, <2>2, <1>b, <1>c, <1>d
  <2>3. CASE Holds(p) /\ ~Holds(p)'
    BY <2>1, <2>3, <1>b, <1>c, <1>d DEF ProcAssumption
  <2>4. CASE ~Holds(p) /\ Holds(p)'
    <3>1. Open(p) /\ lock = NoLock
      BY <1>2, <2>4 DEF LockInv, TypeOK, Holds, Holding, Live, ProcStep, Begin, Open, Write, Acquired,
         PublicationFails, ReadStatus, CreateIdentity, BindVerify, BindReplace, EndpointVerify,
         EndpointReplace, ReleaseVerify, Unlink, Die
    <3>2. \A q \in Procs : ~Holds(q)
      BY <3>1 DEF LockInv, HolderInv, FileNamesHolder, NoLock, ProcAssumption
    <3> QED BY <2>4, <3>2, <1>b, <1>c
  <2> QED BY <2>2, <2>3, <2>4 DEF Holds
<1> QED BY <1>1, <1>2 DEF Next, OperatorRemoves, vars

\* The lock file, with its identity checks, deaths and operator, implements one
\* exclusive resource.
THEOREM LockImplementsHolder == ASSUME ProcAssumption PROVE Spec => Exclusive!Spec
<1>1. Init => Exclusive!Init
  BY DEF Init, Exclusive!Init, holder, Holds, Holding
<1>2. LockInv /\ LockInv' /\ [Next]_vars => [Exclusive!Next]_holder
  BY HolderStep
<1> QED BY <1>1, <1>2, LockInvariant, PTL DEF Spec, Exclusive!Spec
=============================================================================
