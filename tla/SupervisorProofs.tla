-------------------------- MODULE SupervisorProofs --------------------------
(* Proofs about Supervisor for every card tree, set of run identities and    *)
(* set of admitted inputs.                                                   *)
EXTENDS SupervisorProperties, TLAPS

\* What the type proof needs of the tree.
LEMMA TreeTypes ==
  /\ Root \in Cards
  /\ Anc \in [Cards -> SUBSET Cards]
  /\ \A c \in Cards \ {Root} : Parent[c] \in Cards
BY TreeAssumption

-----------------------------------------------------------------------------
(* The methods of the gate and the operators on card states keep the types. *)

\* Every method of the gate returns a gate.
LEMMA GateTypes ==
  ASSUME NEW g \in Gates
  PROVE  /\ CompletedRun(g) \in Gates /\ Closed(g) \in Gates /\ Opened(g) \in Gates
         /\ Parked(g) \in Gates /\ WaiterAborted(g) \in Gates
         /\ \A r \in RunIds \cup {NoRun} : PauseRequested(g, r) \in Gates
BY DEF Gates, CompletedRun, PauseRequested, Closed, Opened, Parked, WaiterAborted

\* The gate a process starts with is a gate.
LEMMA NewGateType == NewGate \in Gates
BY DEF NewGate, Gates

\* Publishing one status for a set of cards, and the flip of a path, yield
\* statuses again.
LEMMA CardTypes ==
  ASSUME NEW st \in [Cards -> Status]
  PROVE  /\ \A S : StopCards(st, S) \in [Cards -> Status]
         /\ \A S : CancelCards(st, S) \in [Cards -> Status]
         /\ \A c : FlipPath(st, c) \in [Cards -> Status]
         /\ \A c : FlipPrefixes(st, c) \subseteq [Cards -> Status]
<1>1. \A S : StopCards(st, S) \in [Cards -> Status]
  BY DEF StopCards, Status
<1>2. \A S : CancelCards(st, S) \in [Cards -> Status]
  BY DEF CancelCards, Status
<1>3. \A c : FlipPath(st, c) \in [Cards -> Status]
  BY DEF FlipPath, Status
<1>4. ASSUME NEW c PROVE FlipPrefixes(st, c) \subseteq [Cards -> Status]
  <2>1. FlipPath(st, c) \in [Cards -> Status]
    BY <1>3
  <2> QED
    BY <2>1 DEF FlipPrefixes
<1> QED
  BY <1>1, <1>2, <1>3, <1>4

\* A cancelled maintenance hold is a hold.
LEMMA GcTypes ==
  ASSUME gc \in GcHolds
  PROVE  /\ CancelledGc \in GcHolds
         /\ [gc EXCEPT !.restore = FALSE] \in GcHolds
         /\ [gc EXCEPT !.parked = TRUE] \in GcHolds
         /\ [gc EXCEPT !.phase = "collecting"] \in GcHolds
BY DEF CancelledGc, GcHolds

\* The absence of a hold is represented by one.
LEMMA NoGcType == NoGc \in GcHolds
BY DEF NoGc, GcHolds

\* beginHalt keeps the types of everything it assigns.
LEMMA HaltTypes ==
  ASSUME TypeOK, NEW t \in Triggers, NEW ph \in [Cards -> Phases],
         NEW ls \in [Cards -> Leases], BeginHalt(t, ph, ls)
  PROVE  /\ halt' \in Triggers \cup {"none"} /\ frozen' \subseteq Cards
         /\ rt' \in RuntimeStatus /\ prepared' \in BOOLEAN /\ gate' \in Gates
         /\ phase' \in [Cards -> Phases] /\ lease' \in [Cards -> Leases]
         /\ proc' \in [Cards -> Procs] /\ adm' \in BOOLEAN /\ gc' \in GcHolds
<1>1. gate' \in Gates
  BY GateTypes DEF TypeOK, BeginHalt, HaltedGate
<1>2. gc' \in GcHolds
  BY GcTypes DEF TypeOK, BeginHalt
<1>3. proc' \in [Cards -> Procs]
  BY DEF TypeOK, BeginHalt, Procs
<1>4. lease' \in [Cards -> Leases]
  BY DEF BeginHalt, InterruptedLeases, Leases
<1>5. adm' \in BOOLEAN
  BY DEF TypeOK, BeginHalt
<1> QED
  BY <1>1, <1>2, <1>3, <1>4, <1>5 DEF TypeOK, BeginHalt, RuntimeStatus

\* What a propagation from y leaves of the cards st: all its flips, or the lower
\* ones when it was cut short.
Flips(st, y) == {FlipPath(st, y), st} \cup FlipPrefixes(st, y)

\* A flip only turns cards of the path to changed, and no running one.
LEMMA FlipsAreMild ==
  ASSUME NEW st \in [Cards -> Status], NEW y \in Cards, NEW t \in Flips(st, y)
  PROVE  /\ t \in [Cards -> Status]
         /\ \A d \in Cards : t[d] = st[d] \/ (t[d] = "changed" /\ st[d] \in Flippable)
         /\ \A d \in Cards \ PathToRoot(y) : t[d] = st[d]
         /\ RunningSet(t) = RunningSet(st)
<1>1. t \in [Cards -> Status]
  BY CardTypes DEF Flips
<1>2. \A d \in Cards : FlipPath(st, y)[d] = st[d] \/ (FlipPath(st, y)[d] = "changed" /\ st[d] \in Flippable)
  BY DEF FlipPath
<1>3. \A d \in Cards \ PathToRoot(y) : FlipPath(st, y)[d] = st[d]
  BY DEF FlipPath, ReachedOnPath
<1>4. \A d \in Cards : t[d] = st[d] \/ t[d] = FlipPath(st, y)[d]
  BY DEF Flips, FlipPrefixes
<1>5. \A d \in Cards : t[d] = st[d] \/ (t[d] = "changed" /\ st[d] \in Flippable)
  BY <1>2, <1>4
<1>6. RunningSet(t) = RunningSet(st)
  BY <1>5 DEF RunningSet, Flippable
<1> QED
  BY <1>1, <1>3, <1>4, <1>5, <1>6

\* What a propagation does: flips, all of them unless a write failed, and then
\* notices to cards that no claim has closed.
LEMMA Propagates ==
  ASSUME NEW st, NEW y, NEW S, NEW told, NEW partly \in SUBSET SUBSET told,
         Propagate(st, y, S, told, partly)
  PROVE  /\ card' \in Flips(st, y)
         /\ pend' \subseteq (pend \ S) \cup {d \in told : d \in Owned => winner[d] = "open"}
         /\ card' # FlipPath(st, y) => "fault" \in Inputs /\ pend' \subseteq pend
BY DEF Propagate, Flips, FlipsCutShort, Heard

\* The cards a propagation tells are cards.
LEMMA ToldAreCards ==
  ASSUME NEW c \in Cards
  PROVE  /\ \A st : FirstRunningOnPath(st, c) \subseteq Cards
         /\ EditTells(c) \subseteq Cards
<1>1. PathToRoot(c) \subseteq Cards
  BY TreeTypes DEF PathToRoot
<1>2. ReachedOnPath(card, c) \subseteq Cards /\ \A st : FirstRunningOnPath(st, c) \subseteq Cards
  BY <1>1 DEF ReachedOnPath, FirstRunningOnPath
<1> QED
  BY <1>2 DEF EditTells

\* An Analyst's reopening or edit is a propagation from its card.
LEMMA AnalystPropagates ==
  ASSUME TypeOK, NEW c \in Cards, AnalystReopen(c) \/ AnalystRecordEdit(c)
  PROVE  /\ card' \in Flips(card, c) /\ card' \in [Cards -> Status] /\ pend' \subseteq Cards
         /\ RunningSet(card') = RunningSet(card)
         /\ card' # FlipPath(card, c) => "fault" \in Inputs /\ pend' \subseteq pend
         /\ UNCHANGED <<runVars, ownVars, gate, haltVars, adm, gc>> /\ InterventionReady
<1>1. CASE AnalystReopen(c)
  <2> DEFINE told == {c} \cup FirstRunningOnPath(card, c)
  <2>1. Propagate(card, c, {}, told, SUBSET told)
    BY <1>1 DEF AnalystReopen
  <2>2. told \subseteq Cards /\ (SUBSET told) \in SUBSET SUBSET told
    BY ToldAreCards
  <2> HIDE DEF told
  <2>3. /\ card' \in Flips(card, c) /\ pend' \subseteq pend \cup told
        /\ card' # FlipPath(card, c) => "fault" \in Inputs /\ pend' \subseteq pend
    BY <2>1, <2>2, Propagates
  <2> QED
    BY <1>1, <2>2, <2>3, FlipsAreMild DEF TypeOK, AnalystReopen
<1>2. CASE AnalystRecordEdit(c)
  <2>1. Propagate(card, c, {}, EditTells(c), CascadePrefixes(EditTells(c)))
    BY <1>2 DEF AnalystRecordEdit
  <2>2. EditTells(c) \subseteq Cards
    BY ToldAreCards
  <2>3. CascadePrefixes(EditTells(c)) \in SUBSET SUBSET EditTells(c)
    BY DEF CascadePrefixes
  <2>4. /\ card' \in Flips(card, c) /\ pend' \subseteq pend \cup EditTells(c)
        /\ card' # FlipPath(card, c) => "fault" \in Inputs /\ pend' \subseteq pend
    BY <2>1, <2>3, Propagates
  <2> QED
    BY <1>2, <2>2, <2>4, FlipsAreMild DEF TypeOK, AnalystRecordEdit
<1> QED
  BY <1>1, <1>2

\* The propagation that follows a cancellation starts at the parent.
LEMMA ParentPropagates ==
  ASSUME NEW st \in [Cards -> Status], NEW c \in Cards \ {Root}, NEW S, PropagateFromParent(st, c, S)
  PROVE  /\ Parent[c] \in Cards /\ card' \in Flips(st, Parent[c]) /\ card' \in [Cards -> Status]
         /\ pend' \subseteq (pend \ S) \cup {d \in Cards : d \in Owned => winner[d] = "open"}
         /\ card' # FlipPath(st, Parent[c]) => "fault" \in Inputs /\ pend' \subseteq pend
<1> DEFINE told == {Parent[c]} \cup FirstRunningOnPath(st, Parent[c])
<1>1. Parent[c] \in Cards
  BY TreeAssumption
<1>2. told \subseteq Cards
  BY <1>1, ToldAreCards
<1>3. CascadePrefixes(told) \in SUBSET SUBSET told
  BY DEF CascadePrefixes
<1>4. Propagate(st, Parent[c], S, told, CascadePrefixes(told))
  BY DEF PropagateFromParent
<1> HIDE DEF told
<1>5. /\ card' \in Flips(st, Parent[c])
      /\ pend' \subseteq (pend \ S) \cup {d \in told : d \in Owned => winner[d] = "open"}
      /\ card' # FlipPath(st, Parent[c]) => "fault" \in Inputs /\ pend' \subseteq pend
  BY <1>3, <1>4, Propagates
<1> QED
  BY <1>1, <1>2, <1>5, FlipsAreMild

\* The cancellation of a card without an owner: the whole cascade and a propagation
\* from the parent, or a part of the cascade.
LEMMA StoredCancels ==
  ASSUME TypeOK, NEW c \in Cards, CancelStored(c)
  PROVE  /\ c # Root /\ Parent[c] \in Cards /\ card[c] # "running" /\ c \notin Owned
         /\ \A d \in Subtree(c) : CanCancel(card[d])
         /\ card' \in [Cards -> Status]
         /\ pend' \subseteq pend \cup {d \in Cards : d \in Owned => winner[d] = "open"}
         /\ \/ /\ card' \in Flips(CancelCards(card, CascadeSet(card, c)), Parent[c])
               /\ card' # FlipPath(CancelCards(card, CascadeSet(card, c)), Parent[c])
                    => "fault" \in Inputs /\ pend' \subseteq pend
            \/ \E T \in CascadePrefixes(CascadeSet(card, c)) : card' = CancelCards(card, T)
         /\ UNCHANGED <<runVars, ownVars, gate, haltVars, adm, gc>>
<1>1. /\ c # Root /\ card[c] # "running" /\ c \notin Owned /\ \A d \in Subtree(c) : CanCancel(card[d])
      /\ UNCHANGED <<runVars, ownVars, gate, haltVars, adm, gc>>
  BY DEF CancelStored, MayCancel
<1>2. CancelCards(card, CascadeSet(card, c)) \in [Cards -> Status]
  BY CardTypes DEF TypeOK
<1>3. Parent[c] \in Cards
  BY <1>1, TreeAssumption
<1>4. CASE PropagateFromParent(CancelCards(card, CascadeSet(card, c)), c, CascadeSet(card, c))
  BY <1>1, <1>2, <1>4, ParentPropagates
<1>5. CASE CascadeCutShort(CascadeSet(card, c))
  <2>1. PICK T \in CascadePrefixes(CascadeSet(card, c)) : card' = CancelCards(card, T) /\ pend' = pend \ T
    BY <1>5 DEF CascadeCutShort, CancelCascade
  <2>2. card' \in [Cards -> Status]
    BY <2>1, CardTypes DEF TypeOK
  <2> QED
    BY <1>1, <1>3, <2>1, <2>2
<1> QED
  BY <1>4, <1>5 DEF CancelStored

\* The cancellation of a planner's child without an owner: its cascade or a part of it.
LEMMA PlannerCancels ==
  ASSUME TypeOK, NEW p \in Cards, NEW c \in Cards, PlannerCancel(p, c)
  PROVE  /\ c # Root /\ card[c] # "running" /\ pend' \subseteq pend /\ card' \in [Cards -> Status]
         /\ \E T \in CascadePrefixes(CascadeSet(card, c)) : card' = CancelCards(card, T)
         /\ UNCHANGED <<runVars, ownVars, gate, haltVars, adm, gc>>
<1>1. CascadeSet(card, c) \in CascadePrefixes(CascadeSet(card, c))
  BY DEF CascadePrefixes
<1>2. c # Root /\ card[c] # "running"
  BY TreeAssumption DEF PlannerCancel
<1>3. PICK T \in CascadePrefixes(CascadeSet(card, c)) : card' = CancelCards(card, T) /\ pend' = pend \ T
  BY <1>1 DEF PlannerCancel, CascadeCutShort, CancelCascade
<1> QED
  BY <1>2, <1>3, CardTypes DEF TypeOK, PlannerCancel

-----------------------------------------------------------------------------
(* Type correctness, one step per action *)

\* A new process starts with values of the right types.
LEMMA FreshTypes ==
  ASSUME ProcessRestarts
  PROVE  /\ rt' \in RuntimeStatus /\ run' \in RunIds \cup {NoRun}
         /\ cur' \in Cards \cup {NoCard} /\ prepared' \in BOOLEAN
         /\ phase' \in [Cards -> Phases] /\ winner' \in [Cards -> Winners]
         /\ child' \in [Cards -> Cards \cup {NoCard}] /\ proc' \in [Cards -> Procs]
         /\ out' \in [Cards -> Outcomes \cup {"none"}] /\ lease' \in [Cards -> Leases]
         /\ urgent' \in [Cards -> {"none", "node", "root"}]
         /\ gate' \in Gates /\ halt' \in Triggers \cup {"none"}
         /\ frozen' \subseteq Cards /\ haltFailed' \in BOOLEAN
         /\ adm' \in BOOLEAN /\ gc' \in GcHolds
BY NewGateType, NoGcType
   DEF ProcessRestarts, RuntimeStatus, Phases, Winners, Procs, Leases

\* Every action keeps the type invariant.
LEMMA TypeStep == TypeOK /\ [Next]_vars => TypeOK'
<1> SUFFICES ASSUME TypeOK, [Next]_vars PROVE TypeOK'
  OBVIOUS
<1> USE TreeTypes DEF vars, cardVars, runVars, ownVars, haltVars
<1>a. CASE RuntimeStep
  <2>1. CASE Startup
    BY <2>1, CardTypes, GateTypes DEF TypeOK, Startup, RuntimeStatus
  <2>2. CASE StartupFails
    <3>1. card' \in [Cards -> Status]
      BY <2>2, CardTypes DEF TypeOK, StartupFails
    <3>2. gate' \in Gates
      BY <2>2, GateTypes DEF TypeOK, StartupFails
    <3> QED
      BY <2>2, <3>1, <3>2 DEF TypeOK, StartupFails
  <2>3. CASE StartProject
    BY <2>3, CardTypes DEF TypeOK, StartProject, StartedCards, RuntimeStatus, Phases, Status
  <2>4. CASE StartProjectFails
    <3>1. card' \in [Cards -> Status]
      BY <2>4, CardTypes DEF TypeOK, StartProjectFails
    <3>2. [phase EXCEPT ![Root] = "prepared_root"] \in [Cards -> Phases]
      BY DEF TypeOK, Phases
    <3> QED
      BY <2>4, <3>1, <3>2, HaltTypes DEF TypeOK, StartProjectFails, Triggers
  <2>5. CASE Launch
    <3>1. gate' \in Gates
      BY <2>5, GateTypes DEF TypeOK, Launch
    <3>2. proc' \in [Cards -> Procs]
      BY <2>5 DEF TypeOK, Launch, StartProcs, Procs
    <3> QED
      BY <2>5, <3>1, <3>2 DEF TypeOK, Launch, RuntimeStatus
  <2>6. CASE StopProject
    BY <2>6, HaltTypes, GcTypes DEF TypeOK, StopProject, Triggers
  <2>7. CASE CloseApplication
    BY <2>7, HaltTypes, GcTypes DEF TypeOK, CloseApplication, Triggers
  <2>8. CASE HaltStops
    BY <2>8, GateTypes DEF TypeOK, HaltStops, RuntimeStatus, Upd, Phases, Winners, Procs, Leases
  <2>9. CASE HaltErrors
    BY <2>9 DEF TypeOK, HaltErrors, RuntimeStatus
  <2>10. CASE Crash
    BY <2>10, FreshTypes DEF TypeOK, Crash
  <2>11. CASE CrashMidPublication
    <3>1. card' \in [Cards -> Status]
      <4>1. [card EXCEPT ![Root] = "stopped"] \in [Cards -> Status]
        BY DEF TypeOK, Status
      <4>2. /\ \A S : StopCards(card, S) \in [Cards -> Status]
            /\ \A S : CancelCards(card, S) \in [Cards -> Status]
            /\ \A c : FlipPrefixes(card, c) \subseteq [Cards -> Status]
        BY CardTypes DEF TypeOK
      <4>3. PartialPublications \subseteq [Cards -> Status]
        <5>1. SettlementCuts \subseteq [Cards -> Status]
          BY <4>2 DEF SettlementCuts
        <5>2. ReplacementCuts \subseteq [Cards -> Status]
          BY <4>1 DEF ReplacementCuts
        <5>3. OwnedCascadeCuts \subseteq [Cards -> Status]
          BY <4>2 DEF OwnedCascadeCuts
        <5>4. StoredCascadeCuts \subseteq [Cards -> Status]
          BY <4>2 DEF StoredCascadeCuts
        <5>5. PropagationCuts \subseteq [Cards -> Status]
          BY <4>2 DEF PropagationCuts
        <5>6. StoredPropagationCuts \subseteq [Cards -> Status]
          <6>1. ASSUME NEW c \in Cards
                PROVE  FlipPrefixes(CancelCards(card, CascadeSet(card, c)), Parent[c]) \subseteq [Cards -> Status]
            BY <4>2, CardTypes
          <6> QED
            BY <6>1 DEF StoredPropagationCuts
        <5> QED
          BY <5>1, <5>2, <5>3, <5>4, <5>5, <5>6 DEF PartialPublications
      <4> QED
        BY <2>11, <4>3 DEF CrashMidPublication
    <3> QED
      BY <2>11, <3>1, FreshTypes DEF TypeOK, CrashMidPublication
  <2>12. CASE Pause
    <3>1. gate' \in Gates
      BY <2>12, GateTypes DEF TypeOK, Pause, RequestPause
    <3>2. gc' \in GcHolds
      BY <2>12, GcTypes DEF TypeOK, Pause
    <3> QED
      BY <2>12, <3>1, <3>2 DEF TypeOK, Pause, RequestPause, RuntimeStatus
  <2>13. CASE Resume
    BY <2>13, GateTypes DEF TypeOK, Resume, OpenGate, RuntimeStatus, Procs
  <2>14. CASE ReleaseSettledRoot
    BY <2>14, GateTypes, GcTypes DEF TypeOK, ReleaseSettledRoot, ReleaseOwner, RuntimeStatus, Phases, Winners, Leases, Procs
  <2>15. CASE ReplaceInterruptedRoot
    BY <2>15 DEF TypeOK, ReplaceInterruptedRoot, Phases, Winners, StartProcs, Procs
  <2>16. CASE ReactivateRootFails
    BY <2>16, HaltTypes DEF TypeOK, ReactivateRootFails, Phases, Triggers, Status, Winners
  <2>17. CASE GcBegin
    <3>1. gate' \in Gates /\ rt' \in RuntimeStatus
      <4>1. CASE rt = "running"
        <5>1. gate' = PauseRequested(gate, run) /\ rt' = "pausing"
          BY <2>17, <4>1 DEF GcBegin, RequestPause
        <5> QED
          BY <5>1, GateTypes DEF TypeOK, RuntimeStatus
      <4>2. CASE rt # "running"
        BY <2>17, <4>2 DEF TypeOK, GcBegin
      <4> QED
        BY <4>1, <4>2
    <3>2. gc' \in GcHolds
      BY <2>17 DEF TypeOK, GcBegin, GcAdmitted, GcHolds
    <3> QED
      BY <2>17, <3>1, <3>2 DEF TypeOK, GcBegin
  <2>18. CASE GcCollect
    BY <2>18, GcTypes DEF TypeOK, GcCollect
  <2>19. CASE GcFinish
    BY <2>19, GateTypes, NoGcType DEF TypeOK, GcFinish, OpenGate, RuntimeStatus, Procs
  <2> QED
    BY <1>a, <2>1, <2>2, <2>3, <2>4, <2>5, <2>6, <2>7, <2>8, <2>9, <2>10, <2>11, <2>12, <2>13, <2>14, <2>15, <2>16, <2>17, <2>18, <2>19 DEF RuntimeStep
<1>b. ASSUME NEW c \in Cards, CardStep(c) PROVE TypeOK'
  <2>1. CASE RuntimeFailure(c)
    BY <2>1, HaltTypes DEF TypeOK, RuntimeFailure, Triggers
  <2>2. CASE UrgentTakenOver(c)
    BY <2>2 DEF TypeOK, UrgentTakenOver
  <2>3. CASE PassGate(c)
    BY <2>3 DEF TypeOK, PassGate, Procs
  <2>4. CASE ParkAtGate(c)
    BY <2>4, GateTypes, GcTypes, ZenonT(30) DEF TypeOK, ParkAtGate, PauseCallback, RuntimeStatus, Procs
  <2>5. CASE NextTurn(c)
    BY <2>5 DEF TypeOK, NextTurn, Procs
  <2>6. CASE NodeHandoff(c)
    BY <2>6 DEF TypeOK, NodeHandoff, Procs
  <2>7. CASE NextNode(c)
    BY <2>7 DEF TypeOK, NextNode, StartProcs, Procs
  <2>8. CASE DeliverNotifications(c)
    BY <2>8 DEF TypeOK, DeliverNotifications
  <2>9. CASE SettleResultFails(c)
    BY <2>9, HaltTypes DEF TypeOK, SettleResultFails, Phases, Triggers, Winners
  <2>10. CASE ReleaseSettledChild(c)
    BY <2>10 DEF TypeOK, ReleaseSettledChild, ReleaseChild, ReleaseOwner, Phases, Winners, Leases, Procs
  <2>11. CASE JoinActivation(c)
    BY <2>11 DEF TypeOK, JoinActivation, Procs
  <2>12. CASE JoinFails(c)
    BY <2>12, HaltTypes DEF TypeOK, JoinFails, Triggers, Procs
  <2>13. CASE CancelStored(c)
    BY <2>13, StoredCancels DEF TypeOK
  <2>14. CASE CancelOwned(c)
    BY <2>14, GateTypes DEF TypeOK, CancelOwned, Upd, Phases, Winners, Leases, Procs
  <2>15. CASE SettleCancellation(c)
    <3>1. card' \in [Cards -> Status] /\ pend' \subseteq Cards
      <4> DEFINE gone == OwnerCascade(c) \cup {c}
      <4>1. CancelCards(card, gone) \in [Cards -> Status]
        BY CardTypes DEF TypeOK
      <4>2. CASE winner[Parent[c]] = "cancel"
        BY <2>15, <4>1, <4>2 DEF TypeOK, SettleCancellation, CancelCascade
      <4>3. CASE winner[Parent[c]] # "cancel"
        <5>1. c # Root /\ PropagateFromParent(CancelCards(card, gone), c, gone)
          BY <2>15, <4>3 DEF SettleCancellation, ReleaseChild
        <5> HIDE DEF gone
        <5> QED
          BY <4>1, <5>1, ParentPropagates DEF TypeOK
      <4> QED
        BY <4>2, <4>3
    <3> QED
      BY <2>15, <3>1 DEF TypeOK, SettleCancellation, ReleaseChild, ReleaseOwner, Phases,
         Winners, Leases, Procs
  <2>16. CASE SettleCancellationFails(c)
    BY <2>16, CardTypes, HaltTypes DEF TypeOK, SettleCancellationFails, CancelCascade, Triggers
  <2>17. CASE CascadeFails(c)
    <3>1. card' \in [Cards -> Status] /\ pend' \subseteq Cards
      <4>1. PICK S : card' = CancelCards(card, S) /\ pend' = pend \ S
        BY <2>17 DEF CascadeFails, CascadeCutShort, CancelCascade
      <4> QED
        BY <4>1, CardTypes DEF TypeOK
    <3> QED
      BY <2>17, <3>1 DEF TypeOK, CascadeFails, Procs
  <2>18. CASE Notify(c)
    BY <2>18 DEF TypeOK, Notify
  <2>19. CASE UrgentQueues(c)
    BY <2>19 DEF TypeOK, UrgentQueues, UrgentNotices
  <2>20. CASE UrgentInterrupts(c)
    <3>1. PICK b \in UrgentBoundary(c) :
            LET below == Suffix(b) \ {b}
                claimed == IF c = Root THEN Suffix(b) ELSE below
            IN /\ winner' = Upd(winner, claimed, "interrupt")
               /\ phase' = Upd(phase, claimed, "settling")
               /\ lease' = Upd(lease, below, "settling")
               /\ urgent' = [urgent EXCEPT ![b] = IF c = Root THEN "root" ELSE "node"]
               /\ proc' = [Upd(proc, below, "stopping") EXCEPT
                             ![b] = IF c = Root THEN "stopping" ELSE "retiring"]
      BY <2>20 DEF UrgentInterrupts
    <3>2. /\ winner' \in [Cards -> Winners] /\ phase' \in [Cards -> Phases]
          /\ lease' \in [Cards -> Leases] /\ proc' \in [Cards -> Procs]
          /\ urgent' \in [Cards -> {"none", "node", "root"}]
      BY <3>1 DEF TypeOK, Upd, Winners, Phases, Leases, Procs
    <3>3. pend' \subseteq Cards
      BY <2>20 DEF TypeOK, UrgentInterrupts, UrgentNotices
    <3> QED
      BY <2>20, <3>2, <3>3 DEF TypeOK, UrgentInterrupts
  <2>21. CASE StopInterruptedChild(c)
    BY <2>21 DEF TypeOK, StopInterruptedChild, ReleaseChild, ReleaseOwner, Phases, Winners, Leases, Procs, Status
  <2>22. CASE StopInterruptedFails(c)
    BY <2>22, HaltTypes DEF TypeOK, StopInterruptedFails, Triggers
  <2>23. CASE NodeInterruptionSettles(c)
    BY <2>23 DEF TypeOK, NodeInterruptionSettles, StartProcs, Procs
  <2>24. CASE AnalystReopen(c)
    BY <2>24, AnalystPropagates DEF TypeOK
  <2>25. CASE AnalystRecordEdit(c)
    BY <2>25, AnalystPropagates DEF TypeOK
  <2>26. ASSUME NEW o \in Outcomes, ClaimResult(c, o) PROVE TypeOK'
    BY <2>26 DEF TypeOK, ClaimResult, Winners, Procs
  <2>27. ASSUME NEW o \in Outcomes, SettleResult(c, o) PROVE TypeOK'
    BY <2>27 DEF TypeOK, SettleResult, Outcomes, Status, Winners, Phases, Leases, Procs
  <2> QED
    BY <1>b, <2>1, <2>2, <2>3, <2>4, <2>5, <2>6, <2>7, <2>8, <2>9, <2>10, <2>11, <2>12, <2>13, <2>14, <2>15, <2>16, <2>17, <2>18, <2>19, <2>20, <2>21, <2>22, <2>23, <2>24, <2>25, <2>26, <2>27 DEF CardStep
<1>c. ASSUME NEW p \in Cards, NEW c \in Cards, PlannerStep(p, c) PROVE TypeOK'
  <2>1. CASE ActivateChild(p, c)
    BY <2>1 DEF TypeOK, ActivateChild, Status, Phases, Leases, StartProcs, Procs
  <2>2. CASE ActivateChildFails(p, c)
    BY <2>2, HaltTypes DEF TypeOK, ActivateChildFails, Phases, Leases, Triggers
  <2>3. CASE PlannerReopen(p, c)
    BY <2>3 DEF TypeOK, PlannerReopen, Status
  <2>4. CASE PlannerReopenFails(p, c)
    BY <2>4, HaltTypes DEF TypeOK, PlannerReopenFails, Triggers
  <2>5. CASE PlannerCancel(p, c)
    BY <2>5, PlannerCancels DEF TypeOK
  <2>6. CASE RecordMutation(p, c)
    BY <2>6 DEF TypeOK, RecordMutation, Status
  <2> QED
    BY <1>c, <2>1, <2>2, <2>3, <2>4, <2>5, <2>6 DEF PlannerStep
<1>d. CASE UNCHANGED vars
  BY <1>d DEF TypeOK
<1> QED
  BY <1>a, <1>b, <1>c, <1>d DEF Next

\* The type invariant of the Supervisor holds in every reachable state.
THEOREM TypeCorrect == Spec => []TypeOK
<1>1. Init => TypeOK
  BY NewGateType, NoGcType, ZenonT(30)
     DEF Init, TypeOK, Status, RuntimeStatus, Phases, Winners, Procs, Leases
<1> QED
  BY <1>1, TypeStep, PTL DEF Spec

-----------------------------------------------------------------------------
(* Status, run and admission agree; what a halt freezes and a close ends *)

\* Every action keeps StatusInv, changes no card while a halt is under way, and
\* starts nothing once the application is closed.
LEMMA StatusStep ==
  ASSUME TypeOK, StatusInv, [Next]_vars
  PROVE  StatusInv' /\ [HaltFreezesStep]_vars /\ [CloseIsFinalStep]_vars
<1> DEFINE Goal == StatusInv' /\ HaltFreezesStep /\ CloseIsFinalStep
<1> USE RunAssumption DEF vars, cardVars, runVars, ownVars, haltVars, StatusInv, UpStatus,
        HaltFreezesStep, CloseIsFinalStep
<1>a. ASSUME RuntimeStep PROVE Goal
  <2>1. CASE Startup
    BY <2>1 DEF Startup
  <2>2. CASE StartupFails
    BY <2>2 DEF StartupFails
  <2>3. CASE StartProject
    BY <2>3 DEF StartProject, MayStart
  <2>4. CASE StartProjectFails
    BY <2>4 DEF StartProjectFails, MayStart, BeginHalt, Triggers
  <2>5. CASE Launch
    BY <2>5 DEF Launch
  <2>6. CASE StopProject
    <3>1. CASE run # NoRun
      BY <2>6, <3>1 DEF StopProject, BeginHalt
    <3>2. CASE run = NoRun
      BY <2>6, <3>2 DEF StopProject
    <3> QED
      BY <3>1, <3>2
  <2>7. CASE CloseApplication
    BY <2>7 DEF CloseApplication, BeginHalt
  <2>8. CASE HaltStops
    BY <2>8 DEF HaltStops, HaltSettled
  <2>9. CASE HaltErrors
    BY <2>9 DEF HaltErrors, HaltSettled
  <2>10. CASE Crash
    BY <2>10 DEF Crash, ProcessRestarts
  <2>11. CASE CrashMidPublication
    BY <2>11 DEF CrashMidPublication, ProcessRestarts
  <2>12. CASE Pause
    BY <2>12 DEF Pause, RequestPause
  <2>13. CASE Resume
    BY <2>13 DEF Resume, OpenGate
  <2>14. CASE ReleaseSettledRoot
    BY <2>14 DEF ReleaseSettledRoot, HasAuthority
  <2>15. CASE ReplaceInterruptedRoot
    BY <2>15 DEF ReplaceInterruptedRoot, InterruptionDue, HasAuthority
  <2>16. CASE ReactivateRootFails
    BY <2>16 DEF ReactivateRootFails, InterruptionDue, HasAuthority, BeginHalt
  <2>17. CASE GcBegin
    BY <2>17 DEF GcBegin, GcAdmitted, RequestPause
  <2>18. CASE GcCollect
    BY <2>18 DEF GcCollect
  <2>19. CASE GcFinish
    BY <2>19 DEF GcFinish, OpenGate
  <2> QED
    BY <1>a, <2>1, <2>2, <2>3, <2>4, <2>5, <2>6, <2>7, <2>8, <2>9, <2>10, <2>11, <2>12, <2>13, <2>14, <2>15, <2>16, <2>17, <2>18, <2>19 DEF RuntimeStep
<1>b. ASSUME NEW c \in Cards, CardStep(c) PROVE Goal
  <2>1. CASE RuntimeFailure(c)
    BY <2>1 DEF RuntimeFailure, HasAuthority, BeginHalt
  <2>2. CASE UrgentTakenOver(c)
    BY <2>2 DEF UrgentTakenOver
  <2>3. CASE PassGate(c)
    BY <2>3 DEF PassGate
  <2>4. CASE ParkAtGate(c)
    BY <2>4 DEF ParkAtGate, PauseCallback
  <2>5. CASE NextTurn(c)
    BY <2>5 DEF NextTurn
  <2>6. CASE NodeHandoff(c)
    BY <2>6 DEF NodeHandoff
  <2>7. CASE NextNode(c)
    BY <2>7 DEF NextNode
  <2>8. CASE DeliverNotifications(c)
    BY <2>8 DEF DeliverNotifications
  <2>9. CASE SettleResultFails(c)
    BY <2>9 DEF SettleResultFails, MaySettle, HasAuthority, BeginHalt
  <2>10. CASE ReleaseSettledChild(c)
    BY <2>10 DEF ReleaseSettledChild, HasAuthority
  <2>11. CASE JoinActivation(c)
    BY <2>11 DEF JoinActivation
  <2>12. CASE JoinFails(c)
    <3>1. CASE halt = "none"
      BY <2>12, <3>1 DEF JoinFails, BeginHalt
    <3>2. CASE halt # "none"
      BY <2>12, <3>2 DEF JoinFails
    <3> QED
      BY <3>1, <3>2
  <2>13. CASE CancelStored(c)
    BY <2>13 DEF CancelStored, MayCancel
  <2>14. CASE CancelOwned(c)
    BY <2>14 DEF CancelOwned, MayCancel
  <2>15. CASE SettleCancellation(c)
    BY <2>15 DEF SettleCancellation, CancellationDue, HasAuthority
  <2>16. CASE SettleCancellationFails(c)
    BY <2>16 DEF SettleCancellationFails, CancellationDue, HasAuthority, BeginHalt
  <2>17. CASE CascadeFails(c)
    BY <2>17 DEF CascadeFails, CancellationDue, HasAuthority
  <2>18. CASE Notify(c)
    BY <2>18 DEF Notify
  <2>19. CASE UrgentQueues(c)
    BY <2>19 DEF UrgentQueues
  <2>20. CASE UrgentInterrupts(c)
    BY <2>20 DEF UrgentInterrupts, UrgentClaimable
  <2>21. CASE StopInterruptedChild(c)
    BY <2>21 DEF StopInterruptedChild, InterruptionDue, HasAuthority
  <2>22. CASE StopInterruptedFails(c)
    BY <2>22 DEF StopInterruptedFails, InterruptionDue, HasAuthority, BeginHalt
  <2>23. CASE NodeInterruptionSettles(c)
    BY <2>23 DEF NodeInterruptionSettles
  <2>24. CASE AnalystReopen(c)
    BY <2>24 DEF AnalystReopen, InterventionReady
  <2>25. CASE AnalystRecordEdit(c)
    BY <2>25 DEF AnalystRecordEdit, InterventionReady
  <2>26. ASSUME NEW o \in Outcomes, ClaimResult(c, o) PROVE Goal
    BY <2>26 DEF ClaimResult, HasAuthority
  <2>27. ASSUME NEW o \in Outcomes, SettleResult(c, o) PROVE Goal
    BY <2>27 DEF SettleResult, MaySettle, HasAuthority
  <2> QED
    BY <1>b, <2>1, <2>2, <2>3, <2>4, <2>5, <2>6, <2>7, <2>8, <2>9, <2>10, <2>11, <2>12, <2>13, <2>14, <2>15, <2>16, <2>17, <2>18, <2>19, <2>20, <2>21, <2>22, <2>23, <2>24, <2>25, <2>26, <2>27 DEF CardStep
<1>c. ASSUME NEW p \in Cards, NEW c \in Cards, PlannerStep(p, c) PROVE Goal
  <2>1. CASE ActivateChild(p, c)
    BY <2>1 DEF ActivateChild, MayActivate, ParentActs
  <2>2. CASE ActivateChildFails(p, c)
    BY <2>2 DEF ActivateChildFails, MayActivate, ParentActs, BeginHalt
  <2>3. CASE PlannerReopen(p, c)
    BY <2>3 DEF PlannerReopen, ParentActs
  <2>4. CASE PlannerReopenFails(p, c)
    BY <2>4 DEF PlannerReopenFails, ParentActs, BeginHalt
  <2>5. CASE PlannerCancel(p, c)
    BY <2>5 DEF PlannerCancel, ParentActs
  <2>6. CASE RecordMutation(p, c)
    BY <2>6 DEF RecordMutation, HasAuthority
  <2> QED
    BY <1>c, <2>1, <2>2, <2>3, <2>4, <2>5, <2>6 DEF PlannerStep
<1>d. CASE UNCHANGED vars
  BY <1>d
<1> QED
  BY <1>a, <1>b, <1>c, <1>d DEF Next

\* Status, run identity and admission agree in every reachable state.
THEOREM StatusAgrees == Spec => []StatusInv
<1>1. Init => StatusInv
  BY DEF Init, StatusInv, UpStatus
<1>2. TypeOK /\ StatusInv /\ [Next]_vars => StatusInv'
  BY StatusStep
<1> QED
  BY <1>1, <1>2, TypeCorrect, PTL DEF Spec

\* While a halt is under way no card changes and the owners it froze stay as they
\* are, for every tree: settlements that resume after their await publish nothing.
THEOREM HaltFreezesAll == Spec => HaltFreezes
<1>1. TypeOK /\ StatusInv /\ [Next]_vars => [HaltFreezesStep]_vars
  BY StatusStep
<1> QED
  BY <1>1, TypeCorrect, StatusAgrees, PTL DEF Spec, HaltFreezes

\* A process whose application admission is closed starts no run any more.
THEOREM CloseIsFinalAll == Spec => CloseIsFinal
<1>1. TypeOK /\ StatusInv /\ [Next]_vars => [CloseIsFinalStep]_vars
  BY StatusStep
<1> QED
  BY <1>1, TypeCorrect, StatusAgrees, PTL DEF Spec, CloseIsFinal

-----------------------------------------------------------------------------
(* The owners *)

\* What a step has to keep besides StatusInv.
OwnInv == LinkInv /\ UnownedInv /\ FrontierInv /\ RetentionInv

\* What the steps need of the tree.
LEMMA RootFacts == Root \in Cards /\ NoCard \notin Cards /\ Anc[Root] = {}
BY TreeAssumption

\* An owner without a child has no owned descendant: the card below it on the path
\* to an owned descendant would be owned, and its parent's link would name it.
LEMMA LeafHasNoOwnedBelow ==
  ASSUME TypeOK, LinkInv, NEW c \in Owned, child[c] = NoCard
  PROVE  \A d \in Owned : c \notin Anc[d]
<1> SUFFICES ASSUME NEW d \in Owned, c \in Anc[d] PROVE FALSE
  OBVIOUS
<1>1. c \in Cards /\ d \in Cards
  BY DEF Owned
<1>2. PICK e \in {d} \cup Anc[d] : Parent[e] = c
  BY <1>1, TreeAssumption
<1>3. e \in Owned /\ e \in Cards
  BY <1>2 DEF LinkInv, Owned
<1>4. e # Root
  BY <1>1, <1>2, TreeAssumption
<1>5. child[c] = e
  BY <1>2, <1>3, <1>4 DEF LinkInv
<1> QED
  BY <1>3, <1>5, TreeAssumption

\* Without an owned child of the root, the root is the only owner.
LEMMA RootAlone ==
  ASSUME TypeOK, LinkInv, Root \in Owned, child[Root] = NoCard
  PROVE  Owned = {Root}
<1>1. \A d \in Owned : Root \notin Anc[d]
  BY LeafHasNoOwnedBelow
<1>2. \A d \in Cards \ {Root} : Root \in Anc[d]
  BY TreeAssumption
<1> QED
  BY <1>1, <1>2 DEF Owned

\* A halt that finds the owners as they are keeps their graph.
LEMMA HaltOwn ==
  ASSUME TypeOK, InductiveInv, NEW t \in Triggers, BeginHalt(t, phase, lease),
         UNCHANGED <<winner, child, run, cur>>
  PROVE  OwnInv'
<1> USE DEF InductiveInv, OwnInv, TypeOK, Owned, BeginHalt, Triggers
<1>1. LinkInv' /\ UnownedInv'
  BY DEF LinkInv, UnownedInv
<1>2. FrontierInv'
  BY DEF FrontierInv, UnownedInv
<1>3. RetentionInv'
  BY DEF RetentionInv
<1> QED
  BY <1>1, <1>2, <1>3

\* The release of a child that executes nothing keeps the graph.
LEMMA ReleaseOwn ==
  ASSUME TypeOK, InductiveInv, NEW c \in Cards, HasAuthority(c), child[c] = NoCard,
         ReleaseChild(c), UNCHANGED <<rt, run, prepared, haltVars>>
  PROVE  OwnInv'
<1> USE DEF InductiveInv, OwnInv, haltVars
<1>0. /\ c # Root /\ c \in Owned /\ Parent[c] \in Owned /\ Parent[c] \in Cards
      /\ child[Parent[c]] = c /\ halt = "none" /\ Parent[c] # c
      /\ NoCard \notin Cards
  BY TreeAssumption DEF HasAuthority, ReleaseChild, LinkInv, Owned
<1>1. \A d \in Owned : c \notin Anc[d]
  BY <1>0, LeafHasNoOwnedBelow
<1>2. Owned' = Owned \ {c}
  BY DEF Owned, ReleaseChild, ReleaseOwner, TypeOK
<1>3. /\ child' = [child EXCEPT ![c] = NoCard, ![Parent[c]] = NoCard]
      /\ winner' = [winner EXCEPT ![c] = "open"]
      /\ phase' = [phase EXCEPT ![c] = "none"]
      /\ proc' = [proc EXCEPT ![c] = "none",
                              ![Parent[c]] = IF @ = "waiting" THEN "ready" ELSE @]
      /\ cur' = Parent[c]
  BY DEF ReleaseChild, ReleaseOwner
<1>4. \A d \in Owned \ {Root} : Parent[d] # c
  BY <1>0 DEF LinkInv, Owned
<1>5. LinkInv'
  <2>1. \A d \in Owned' \ {Root} : Parent[d] \in Owned' /\ child'[Parent[d]] = d
    BY <1>0, <1>2, <1>3, <1>4 DEF LinkInv, TypeOK, Owned
  <2>2. \A d \in Owned' : child'[d] # NoCard =>
          child'[d] \in Owned' /\ Parent[child'[d]] = d
    BY <1>0, <1>2, <1>3 DEF LinkInv, TypeOK, Owned
  <2>3. \A d \in Owned' : Anc[d] \subseteq Owned'
    BY <1>1, <1>2 DEF LinkInv
  <2> QED
    BY <2>1, <2>2, <2>3 DEF LinkInv
<1>6. UnownedInv'
  BY <1>0, <1>2, <1>3 DEF UnownedInv, TypeOK
<1>7. FrontierInv'
  BY <1>0, <1>3, RootFacts DEF FrontierInv, TypeOK
<1>8. RetentionInv'
  BY <1>0, <1>2, <1>3 DEF RetentionInv, TypeOK, Owned
<1> QED
  BY <1>5, <1>6, <1>7, <1>8

\* Every action keeps the owner graph.
LEMMA OwnStep ==
  ASSUME TypeOK, InductiveInv, [Next]_vars
  PROVE  OwnInv'
<1> USE RootFacts DEF vars, cardVars, runVars, ownVars, haltVars, InductiveInv, OwnInv
<1>a. ASSUME RuntimeStep PROVE OwnInv'
  <2>1. CASE Startup
    BY <2>1 DEF Startup, Owned, TypeOK, LinkInv, UnownedInv, FrontierInv, RetentionInv
  <2>2. CASE StartupFails
    BY <2>2 DEF StartupFails, Owned, TypeOK, LinkInv, UnownedInv, FrontierInv, RetentionInv
  <2>3. CASE StartProject
    <3>1. Owned = {} /\ halt = "none"
      BY <2>3 DEF StartProject, MayStart, RetentionInv, StatusInv
    <3>2. Owned' = {Root}
      BY <2>3, <3>1 DEF StartProject, Owned, TypeOK
    <3>3. LinkInv' /\ UnownedInv'
      BY <2>3, <3>1, <3>2 DEF StartProject, LinkInv, UnownedInv, TypeOK
    <3>4. FrontierInv'
      BY <2>3, <3>1 DEF StartProject, FrontierInv, UnownedInv
    <3>5. RetentionInv'
      BY <2>3, <3>1, RootFacts DEF StartProject, RetentionInv, TypeOK
    <3> QED
      BY <3>3, <3>4, <3>5
  <2>4. CASE StartProjectFails
    <3>1. Owned = {} /\ halt = "none"
      BY <2>4 DEF StartProjectFails, MayStart, RetentionInv, StatusInv
    <3>2. Owned' = {Root} /\ frozen' = {Root}
      BY <2>4, <3>1 DEF StartProjectFails, BeginHalt, Owned, TypeOK
    <3>3. LinkInv' /\ UnownedInv'
      BY <2>4, <3>1, <3>2 DEF StartProjectFails, BeginHalt, LinkInv, UnownedInv, TypeOK
    <3>4. FrontierInv'
      BY <2>4, <3>1 DEF StartProjectFails, BeginHalt, FrontierInv, UnownedInv, TypeOK
    <3>5. RetentionInv'
      BY <2>4, <3>1, <3>2 DEF StartProjectFails, BeginHalt, RetentionInv, TypeOK
    <3> QED
      BY <3>3, <3>4, <3>5
  <2>5. CASE Launch
    <3>1. proc[Root] = "none" /\ Root \in Owned
      BY <2>5 DEF Launch, FrontierInv, Live, Owned
    <3> QED
      BY <2>5, <3>1 DEF Launch, StartProcs, Owned, TypeOK, LinkInv, UnownedInv,
         FrontierInv, RetentionInv
  <2>6. CASE StopProject
    <3>1. CASE run # NoRun
      BY <2>6, <3>1, HaltOwn DEF StopProject, Triggers
    <3>2. CASE run = NoRun
      BY <2>6, <3>2 DEF StopProject, Owned, LinkInv, UnownedInv, FrontierInv, RetentionInv
    <3> QED
      BY <3>1, <3>2
  <2>7. CASE CloseApplication
    <3>1. CASE run # NoRun /\ halt = "none"
      BY <2>7, <3>1, HaltOwn DEF CloseApplication, Triggers
    <3>2. CASE ~(run # NoRun /\ halt = "none")
      BY <2>7, <3>2 DEF CloseApplication, Owned, LinkInv, UnownedInv, FrontierInv,
         RetentionInv
    <3> QED
      BY <3>1, <3>2
  <2>8. CASE HaltStops
    BY <2>8 DEF HaltStops, HaltSettled, Upd, Owned, TypeOK, LinkInv, UnownedInv,
       FrontierInv, RetentionInv
  <2>9. CASE HaltErrors
    BY <2>9 DEF HaltErrors, HaltSettled, Owned, TypeOK, LinkInv, UnownedInv, FrontierInv,
       RetentionInv
  <2>10. CASE Crash
    BY <2>10 DEF Crash, ProcessRestarts, Owned, TypeOK, LinkInv, UnownedInv, FrontierInv,
       RetentionInv
  <2>11. CASE CrashMidPublication
    BY <2>11 DEF CrashMidPublication, ProcessRestarts, Owned, TypeOK, LinkInv,
       UnownedInv, FrontierInv, RetentionInv
  <2>12. CASE Pause
    BY <2>12 DEF Pause, RequestPause, Owned, TypeOK, LinkInv, UnownedInv, FrontierInv,
       RetentionInv
  <2>13. CASE Resume
    BY <2>13 DEF Resume, OpenGate, Owned, TypeOK, LinkInv, UnownedInv, FrontierInv,
       RetentionInv
  <2>14. CASE ReleaseSettledRoot
    <3>1. Root \in Owned /\ child[Root] = NoCard /\ halt = "none"
      BY <2>14 DEF ReleaseSettledRoot, HasAuthority, FrontierInv
    <3>2. Owned = {Root}
      BY <3>1, RootAlone
    <3>3. Owned' = {}
      BY <2>14, <3>2 DEF ReleaseSettledRoot, ReleaseOwner, Owned, TypeOK
    <3>4. LinkInv' /\ UnownedInv'
      BY <2>14, <3>1, <3>2, <3>3 DEF ReleaseSettledRoot, ReleaseOwner, LinkInv,
         UnownedInv, TypeOK
    <3>5. FrontierInv'
      BY <2>14, <3>1 DEF ReleaseSettledRoot, FrontierInv, TypeOK
    <3>6. RetentionInv'
      BY <2>14, <3>1, <3>3 DEF ReleaseSettledRoot, ReleaseOwner, RetentionInv, TypeOK
    <3> QED
      BY <3>4, <3>5, <3>6
  <2>15. CASE ReplaceInterruptedRoot
    BY <2>15 DEF ReplaceInterruptedRoot, InterruptionDue, HasAuthority, StartProcs,
       Owned, TypeOK, LinkInv, UnownedInv, FrontierInv, RetentionInv
  <2>16. CASE ReactivateRootFails
    <3>1. Root \in Owned /\ child[Root] = NoCard /\ halt = "none"
      BY <2>16 DEF ReactivateRootFails, InterruptionDue, HasAuthority
    <3>2. Owned' = Owned /\ frozen' = Owned
      BY <2>16, <3>1 DEF ReactivateRootFails, BeginHalt, Owned, TypeOK
    <3>3. LinkInv' /\ UnownedInv'
      BY <2>16, <3>1, <3>2 DEF ReactivateRootFails, BeginHalt, LinkInv, UnownedInv,
         TypeOK, Owned
    <3>4. FrontierInv'
      BY <2>16, <3>1 DEF ReactivateRootFails, BeginHalt, FrontierInv, UnownedInv, TypeOK,
         Owned
    <3>5. RetentionInv'
      BY <2>16, <3>1, <3>2 DEF ReactivateRootFails, BeginHalt, RetentionInv, TypeOK
    <3> QED
      BY <3>3, <3>4, <3>5
  <2>17. CASE GcBegin
    BY <2>17 DEF GcBegin, GcAdmitted, RequestPause, Owned, TypeOK, LinkInv, UnownedInv,
       FrontierInv, RetentionInv
  <2>18. CASE GcCollect
    BY <2>18 DEF GcCollect, Owned, TypeOK, LinkInv, UnownedInv, FrontierInv, RetentionInv
  <2>19. CASE GcFinish
    BY <2>19 DEF GcFinish, OpenGate, Owned, TypeOK, LinkInv, UnownedInv, FrontierInv,
       RetentionInv
  <2> QED
    BY <1>a, <2>1, <2>2, <2>3, <2>4, <2>5, <2>6, <2>7, <2>8, <2>9, <2>10, <2>11, <2>12,
       <2>13, <2>14, <2>15, <2>16, <2>17, <2>18, <2>19 DEF RuntimeStep
<1>b. ASSUME NEW c \in Cards, CardStep(c) PROVE OwnInv'
  <2>1. CASE RuntimeFailure(c)
    BY <2>1, HaltOwn DEF RuntimeFailure, HasAuthority, Triggers
  <2>2. CASE UrgentTakenOver(c)
    BY <2>2 DEF UrgentTakenOver, Owned, TypeOK, LinkInv, UnownedInv, FrontierInv,
       RetentionInv
  <2>3. CASE PassGate(c)
    BY <2>3 DEF PassGate, Owned, TypeOK, LinkInv, UnownedInv, FrontierInv, RetentionInv
  <2>4. CASE ParkAtGate(c)
    BY <2>4 DEF ParkAtGate, PauseCallback, Owned, TypeOK, LinkInv, UnownedInv,
       FrontierInv, RetentionInv
  <2>5. CASE NextTurn(c)
    BY <2>5 DEF NextTurn, Owned, TypeOK, LinkInv, UnownedInv, FrontierInv, RetentionInv
  <2>6. CASE NodeHandoff(c)
    BY <2>6 DEF NodeHandoff, Owned, TypeOK, LinkInv, UnownedInv, FrontierInv, RetentionInv
  <2>7. CASE NextNode(c)
    BY <2>7 DEF NextNode, StartProcs, Owned, TypeOK, LinkInv, UnownedInv, FrontierInv,
       RetentionInv
  <2>8. CASE DeliverNotifications(c)
    BY <2>8 DEF DeliverNotifications, Owned, TypeOK, LinkInv, UnownedInv, FrontierInv,
       RetentionInv
  <2>9. CASE SettleResultFails(c)
    <3>1. c \in Owned /\ child[c] = NoCard /\ halt = "none"
      BY <2>9 DEF SettleResultFails, MaySettle, HasAuthority
    <3>2. Owned' = Owned /\ frozen' = Owned
      BY <2>9, <3>1 DEF SettleResultFails, BeginHalt, Owned, TypeOK
    <3>3. LinkInv' /\ UnownedInv'
      BY <2>9, <3>1, <3>2 DEF SettleResultFails, BeginHalt, LinkInv, UnownedInv, TypeOK,
         Owned
    <3>4. FrontierInv'
      BY <2>9, <3>1 DEF SettleResultFails, BeginHalt, FrontierInv, UnownedInv, TypeOK, Owned
    <3>5. RetentionInv'
      BY <2>9, <3>1, <3>2 DEF SettleResultFails, BeginHalt, RetentionInv, TypeOK
    <3> QED
      BY <3>3, <3>4, <3>5
  <2>10. CASE ReleaseSettledChild(c)
    <3>1. HasAuthority(c) /\ child[c] = NoCard
      BY <2>10 DEF ReleaseSettledChild, FrontierInv
    <3> QED
      BY <2>10, <3>1, ReleaseOwn DEF ReleaseSettledChild
  <2>11. CASE JoinActivation(c)
    BY <2>11 DEF JoinActivation, MayJoin, Owned, TypeOK, LinkInv, UnownedInv,
       FrontierInv, RetentionInv
  <2>12. CASE JoinFails(c)
    <3>1. CASE halt = "none"
      BY <2>12, <3>1, HaltOwn DEF JoinFails, Triggers
    <3>2. CASE halt # "none"
      BY <2>12, <3>2 DEF JoinFails, MayJoin, Owned, TypeOK, LinkInv, UnownedInv,
         FrontierInv, RetentionInv
    <3> QED
      BY <3>1, <3>2
  <2>13. CASE CancelStored(c)
    BY <2>13 DEF CancelStored, Owned, TypeOK, LinkInv, UnownedInv, FrontierInv, RetentionInv
  <2>14. CASE CancelOwned(c)
    <3>1. Root \notin Suffix(c) /\ Suffix(c) \subseteq Owned /\ halt = "none"
      BY <2>14, RootFacts DEF CancelOwned, MayCancel, Suffix, Owned
    <3>2. /\ winner' = Upd(winner, Suffix(c), "cancel")
          /\ phase' = Upd(phase, Suffix(c), "settling")
          /\ proc' = Upd(proc, Suffix(c), "stopping")
          /\ UNCHANGED <<child, prepared, rt, run, cur, halt, frozen>>
      BY <2>14 DEF CancelOwned
    <3>3. Owned' = Owned
      BY <3>1, <3>2 DEF Owned, Upd, TypeOK
    <3>4. LinkInv' /\ UnownedInv' /\ FrontierInv'
      BY <3>1, <3>2, <3>3 DEF LinkInv, UnownedInv, FrontierInv, Upd, TypeOK
    <3>5. RetentionInv'
      BY <3>1, <3>2, <3>3 DEF RetentionInv, Upd, TypeOK
    <3> QED
      BY <3>4, <3>5
  <2>15. CASE SettleCancellation(c)
    BY <2>15, ReleaseOwn DEF SettleCancellation, CancellationDue
  <2>16. CASE SettleCancellationFails(c)
    BY <2>16, HaltOwn DEF SettleCancellationFails, Triggers
  <2>17. CASE CascadeFails(c)
    BY <2>17 DEF CascadeFails, CancellationDue, HasAuthority, Owned, TypeOK, LinkInv,
       UnownedInv, FrontierInv, RetentionInv
  <2>18. CASE Notify(c)
    BY <2>18 DEF Notify, Owned, TypeOK, LinkInv, UnownedInv, FrontierInv, RetentionInv
  <2>19. CASE UrgentQueues(c)
    BY <2>19 DEF UrgentQueues, Owned, TypeOK, LinkInv, UnownedInv, FrontierInv, RetentionInv
  <2>20. CASE UrgentInterrupts(c)
    <3>0. PICK b \in UrgentBoundary(c) :
            LET below == Suffix(b) \ {b}
                claimed == IF c = Root THEN Suffix(b) ELSE below
            IN /\ UrgentClaimable(b)
               /\ winner' = Upd(winner, claimed, "interrupt")
               /\ phase' = Upd(phase, claimed, "settling")
               /\ proc' = [Upd(proc, below, "stopping") EXCEPT
                             ![b] = IF c = Root THEN "stopping" ELSE "retiring"]
      BY <2>20 DEF UrgentInterrupts
    <3> DEFINE below == Suffix(b) \ {b}
               claimed == IF c = Root THEN Suffix(b) ELSE below
    <3>1. /\ b \in Owned /\ b \in Cards /\ below \subseteq Owned
          /\ claimed \subseteq Owned /\ Root \notin below
          /\ halt = "none" /\ proc[b] # "none"
      BY <3>0, RootFacts, TreeTypes DEF UrgentBoundary, UrgentClaimable, Live, Suffix, Owned
    <3>2. /\ winner' = Upd(winner, claimed, "interrupt")
          /\ phase' = Upd(phase, claimed, "settling")
          /\ proc' = [Upd(proc, below, "stopping") EXCEPT
                        ![b] = IF c = Root THEN "stopping" ELSE "retiring"]
          /\ UNCHANGED <<child, prepared, rt, run, cur, halt, frozen>>
      BY <2>20, <3>0 DEF UrgentInterrupts
    <3> HIDE DEF below, claimed
    <3>3. Owned' = Owned
      BY <3>1, <3>2 DEF Owned, Upd, TypeOK
    <3>4. LinkInv' /\ UnownedInv'
      BY <3>1, <3>2, <3>3 DEF LinkInv, UnownedInv, Upd, TypeOK
    <3>5. FrontierInv'
      BY <3>1, <3>2 DEF FrontierInv, Upd, TypeOK
    <3>6. RetentionInv'
      BY <3>1, <3>2, <3>3 DEF RetentionInv, Upd, TypeOK
    <3> QED
      BY <3>4, <3>5, <3>6
  <2>21. CASE StopInterruptedChild(c)
    BY <2>21, ReleaseOwn DEF StopInterruptedChild, InterruptionDue
  <2>22. CASE StopInterruptedFails(c)
    BY <2>22, HaltOwn DEF StopInterruptedFails, Triggers
  <2>23. CASE NodeInterruptionSettles(c)
    BY <2>23 DEF NodeInterruptionSettles, NodeInterruptionDue, HasAuthority, StartProcs,
       Owned, TypeOK, LinkInv, UnownedInv, FrontierInv, RetentionInv
  <2>24. CASE AnalystReopen(c)
    BY <2>24 DEF AnalystReopen, Owned, TypeOK, LinkInv, UnownedInv,
       FrontierInv, RetentionInv
  <2>25. CASE AnalystRecordEdit(c)
    BY <2>25 DEF AnalystRecordEdit, Owned, TypeOK, LinkInv, UnownedInv,
       FrontierInv, RetentionInv
  <2>26. ASSUME NEW o \in Outcomes, ClaimResult(c, o) PROVE OwnInv'
    BY <2>26 DEF ClaimResult, HasAuthority, Owned, TypeOK, LinkInv, UnownedInv,
       FrontierInv, RetentionInv
  <2>27. ASSUME NEW o \in Outcomes, SettleResult(c, o) PROVE OwnInv'
    <3>1. c \in Owned /\ child[c] = NoCard /\ halt = "none"
      BY <2>27 DEF SettleResult, MaySettle, HasAuthority
    <3>2. /\ winner' = [winner EXCEPT ![c] = "result"]
          /\ phase' = [phase EXCEPT ![c] = "settling"]
          /\ proc' = [proc EXCEPT ![c] = "settled"]
          /\ UNCHANGED <<child, prepared, rt, run, cur, halt, frozen>>
          /\ proc[c] # "none"
      BY <2>27 DEF SettleResult, OutcomeReady
    <3>3. Owned' = Owned
      BY <3>1, <3>2 DEF Owned, TypeOK
    <3>4. LinkInv' /\ UnownedInv'
      BY <3>1, <3>2, <3>3 DEF LinkInv, UnownedInv, TypeOK
    <3>5. FrontierInv'
      BY <3>1, <3>2 DEF FrontierInv, TypeOK
    <3>6. RetentionInv'
      BY <3>1, <3>2, <3>3 DEF RetentionInv, TypeOK
    <3> QED
      BY <3>4, <3>5, <3>6
  <2> QED
    BY <1>b, <2>1, <2>2, <2>3, <2>4, <2>5, <2>6, <2>7, <2>8, <2>9, <2>10, <2>11, <2>12,
       <2>13, <2>14, <2>15, <2>16, <2>17, <2>18, <2>19, <2>20, <2>21, <2>22, <2>23,
       <2>24, <2>25, <2>26, <2>27 DEF CardStep
<1>c. ASSUME NEW p \in Cards, NEW c \in Cards, PlannerStep(p, c) PROVE OwnInv'
  <2>1. CASE ActivateChild(p, c)
    <3>1. /\ Parent[c] = p /\ c \notin Owned /\ p \in Owned /\ c # Root /\ p # c
          /\ child[p] = NoCard /\ child[c] = NoCard /\ winner[c] = "open"
          /\ halt = "none" /\ proc[p] = "node" /\ NoCard \notin Cards
          /\ Anc[c] = {p} \cup Anc[p]
      BY <2>1, TreeAssumption DEF ActivateChild, MayActivate, ParentActs, Owned,
         FrontierInv, UnownedInv
    <3>2. PICK q \in StartProcs : proc' = [proc EXCEPT ![p] = "waiting", ![c] = q]
      BY <2>1 DEF ActivateChild
    <3>3. /\ phase' = [phase EXCEPT ![c] = "active"]
          /\ child' = [child EXCEPT ![p] = c]
          /\ cur' = c /\ UNCHANGED <<winner, prepared, rt, run, halt, frozen>>
      BY <2>1 DEF ActivateChild
    <3>4. Owned' = Owned \cup {c}
      BY <3>3 DEF Owned, TypeOK
    <3>5. LinkInv'
      BY <3>1, <3>3, <3>4 DEF LinkInv, TypeOK, Owned
    <3>6. UnownedInv'
      BY <3>1, <3>2, <3>3, <3>4 DEF UnownedInv, TypeOK
    <3>7. FrontierInv'
      BY <3>1, <3>2, <3>3 DEF FrontierInv, StartProcs, TypeOK
    <3>8. RetentionInv'
      BY <3>1, <3>3, <3>4 DEF RetentionInv, TypeOK
    <3> QED
      BY <3>5, <3>6, <3>7, <3>8
  <2>2. CASE ActivateChildFails(p, c)
    <3>1. /\ Parent[c] = p /\ c \notin Owned /\ p \in Owned /\ c # Root /\ p # c
          /\ child[p] = NoCard /\ child[c] = NoCard /\ winner[c] = "open"
          /\ halt = "none" /\ NoCard \notin Cards /\ Anc[c] = {p} \cup Anc[p]
      BY <2>2, TreeAssumption DEF ActivateChildFails, MayActivate, ParentActs, Owned,
         FrontierInv, UnownedInv
    <3>2. /\ phase' = [phase EXCEPT ![c] = "child_admission"]
          /\ child' = [child EXCEPT ![p] = c]
          /\ UNCHANGED <<winner, cur, run>>
          /\ halt' # "none" /\ rt' = "closing" /\ prepared' = FALSE
          /\ frozen' = {d \in Cards : phase'[d] # "none"}
          /\ proc' = [d \in Cards |-> IF phase'[d] = "none" \/ proc[d] = "joined"
                                      THEN proc[d] ELSE "stopping"]
      BY <2>2 DEF ActivateChildFails, BeginHalt
    <3>3. Owned' = Owned \cup {c} /\ frozen' = Owned'
      BY <3>2 DEF Owned, TypeOK
    <3>4. LinkInv'
      BY <3>1, <3>2, <3>3 DEF LinkInv, TypeOK, Owned
    <3>5. UnownedInv'
      BY <3>1, <3>2, <3>3 DEF UnownedInv, TypeOK, Owned
    <3>6. FrontierInv'
      BY <3>1, <3>2, <3>3 DEF FrontierInv, UnownedInv, TypeOK, Owned
    <3>7. RetentionInv'
      BY <3>1, <3>2, <3>3 DEF RetentionInv, TypeOK
    <3> QED
      BY <3>4, <3>5, <3>6, <3>7
  <2>3. CASE PlannerReopen(p, c)
    BY <2>3 DEF PlannerReopen, Owned, TypeOK, LinkInv, UnownedInv, FrontierInv, RetentionInv
  <2>4. CASE PlannerReopenFails(p, c)
    BY <2>4, HaltOwn DEF PlannerReopenFails, Triggers
  <2>5. CASE PlannerCancel(p, c)
    BY <2>5 DEF PlannerCancel, Owned, TypeOK, LinkInv, UnownedInv, FrontierInv, RetentionInv
  <2>6. CASE RecordMutation(p, c)
    BY <2>6 DEF RecordMutation, Owned, TypeOK, LinkInv, UnownedInv, FrontierInv,
       RetentionInv
  <2> QED
    BY <1>c, <2>1, <2>2, <2>3, <2>4, <2>5, <2>6 DEF PlannerStep
<1>d. CASE UNCHANGED vars
  BY <1>d DEF Owned, LinkInv, UnownedInv, FrontierInv, RetentionInv
<1> QED
  BY <1>a, <1>b, <1>c, <1>d DEF Next

\* The inductive invariant holds in every reachable state.
THEOREM OwnerGraph == Spec => []InductiveInv
<1>1. Init => InductiveInv
  BY DEF Init, InductiveInv, StatusInv, UpStatus, Owned, LinkInv, UnownedInv,
     FrontierInv, RetentionInv
<1>2. TypeOK /\ InductiveInv /\ [Next]_vars => InductiveInv'
  BY OwnStep, StatusStep DEF InductiveInv, OwnInv
<1> QED
  BY <1>1, <1>2, TypeCorrect, PTL DEF Spec

\* assertOwnershipInvariants never throws, for every tree and every interleaving
\* of runs, halts, cancellations, interruptions, faults and crashes.
THEOREM OwnershipHolds == Spec => []OwnershipInvariants
<1>1. InductiveInv => OwnershipInvariants
  BY DEF InductiveInv, OwnershipInvariants, StatusInv, LinkInv, UnownedInv, FrontierInv,
     RetentionInv
<1> QED
  BY <1>1, OwnerGraph, PTL

-----------------------------------------------------------------------------
(* The frontier: one activation executes, its card and its ancestors are what *)
(* runs, and the gate, the collector and the claims agree with it, faults and *)
(* process deaths included.                                                   *)

\* A runtime with an owner and without a halt is up.
LEMMA AuthorityIsUp ==
  ASSUME TypeOK, InductiveInv, HaltInv, NEW c \in Owned, halt = "none"
  PROVE  rt \in UpStatus
BY DEF TypeOK, InductiveInv, RetentionInv, HaltInv, RuntimeStatus, UpStatus

\* An owner without a child is the current card: every other owner is above it.
LEMMA LeafIsCurrent ==
  ASSUME TypeOK, LinkInv, PathInv, halt = "none", NEW c \in Owned, child[c] = NoCard
  PROVE  c = cur
<1>1. \A d \in Owned : c \notin Anc[d]
  BY LeafHasNoOwnedBelow
<1>2. cur \in Owned /\ (c = cur \/ c \in Anc[cur])
  BY DEF PathInv, PathToRoot
<1> QED
  BY <1>1, <1>2

\* So at most one activation executes.
LEMMA OneExecutes ==
  ASSUME TypeOK, InductiveInv, ActInv, NEW c \in Cards, NEW d \in Cards,
         proc[c] \in {"ready", "node", "parked", "handoff", "claimed", "settled"},
         proc[d] \in {"ready", "node", "parked", "handoff", "claimed", "settled"}
  PROVE  c = d /\ c = cur /\ c \in Owned /\ halt = "none" /\ child[c] = NoCard
<1>1. c \in Owned /\ d \in Owned /\ halt = "none" /\ child[c] = NoCard /\ child[d] = NoCard
  BY DEF InductiveInv, UnownedInv, FrontierInv, ActInv, HaltInv
<1> QED
  BY <1>1, LeafIsCurrent DEF InductiveInv, ActInv

\* A halt leaves nothing of a claim to keep.
LEMMA HaltAct ==
  ASSUME TypeOK, NEW t \in Triggers, NEW ph \in [Cards -> Phases], NEW ls,
         \A c \in Cards : ph[c] = "none" => proc[c] = "none",
         BeginHalt(t, ph, ls)
  PROVE  ActInv'
<1>1. halt' # "none" /\ rt' = "closing"
  BY DEF BeginHalt, Triggers
<1>2. \A c \in Cards : /\ phase'[c] # "none" => proc'[c] \in {"stopping", "joined"}
                       /\ phase'[c] = "none" => proc'[c] = "none"
  BY DEF BeginHalt
<1>3. HaltInv' /\ WaitInv'
  BY <1>1, <1>2 DEF HaltInv, WaitInv, Owned
<1>4. ClaimInv' /\ PathInv' /\ SuffixInv'
  BY <1>1 DEF ClaimInv, PathInv, SuffixInv
<1> QED
  BY <1>3, <1>4 DEF ActInv

\* The same for a halt that finds the owners as they are.
LEMMA HaltActPlain ==
  ASSUME TypeOK, InductiveInv, NEW t \in Triggers, BeginHalt(t, phase, lease)
  PROVE  ActInv'
<1>1. \A c \in Cards : phase[c] = "none" => proc[c] = "none"
  BY DEF InductiveInv, UnownedInv, Owned
<1> QED
  BY <1>1, HaltAct DEF TypeOK

\* The release of the leaf makes its parent the current card.
LEMMA ReleaseAct ==
  ASSUME TypeOK, InductiveInv, ActInv, NEW c \in Cards, HasAuthority(c), child[c] = NoCard,
         ReleaseChild(c), UNCHANGED <<rt, haltVars>>
  PROVE  ActInv'
<1>0. /\ c # Root /\ c \in Owned /\ Parent[c] \in Owned /\ Parent[c] \in Cards
      /\ child[Parent[c]] = c /\ halt = "none" /\ Parent[c] # c
      /\ Anc[c] = {Parent[c]} \cup Anc[Parent[c]] /\ c \notin Anc[c]
  BY TreeAssumption DEF HasAuthority, ReleaseChild, InductiveInv, LinkInv, Owned
<1>1. c = cur /\ Owned = PathToRoot(c)
  BY <1>0, LeafIsCurrent DEF InductiveInv, ActInv, PathInv
<1>2. /\ child' = [child EXCEPT ![c] = NoCard, ![Parent[c]] = NoCard]
      /\ winner' = [winner EXCEPT ![c] = "open"]
      /\ phase' = [phase EXCEPT ![c] = "none"]
      /\ lease' = [lease EXCEPT ![c] = "none"]
      /\ urgent' = [urgent EXCEPT ![c] = "none"]
      /\ proc' = [proc EXCEPT ![c] = "none",
                              ![Parent[c]] = IF @ = "waiting" THEN "ready" ELSE @]
      /\ cur' = Parent[c] /\ halt' = halt /\ rt' = rt
  BY DEF ReleaseChild, ReleaseOwner, haltVars
<1>3. Owned' = Owned \ {c}
  BY <1>2 DEF Owned, TypeOK
<1>4. HaltInv'
  BY <1>0, <1>2 DEF ActInv, HaltInv
<1>5. ClaimInv'
  BY <1>0, <1>2, <1>3 DEF ActInv, ClaimInv, TypeOK, Live, Owned
<1>6. PathInv'
  BY <1>0, <1>1, <1>2, <1>3 DEF PathInv, PathToRoot
<1>7. SuffixInv'
  BY <1>0, <1>2, <1>3 DEF ActInv, SuffixInv, TypeOK, Owned
<1>8. WaitInv'
  <2> SUFFICES ASSUME NEW d \in Cards, proc'[d] = "waiting"
               PROVE  child'[d] # NoCard /\ lease'[child'[d]] \in {"admitted", "settling"}
    BY DEF WaitInv
  <2>1. d # c /\ d # Parent[c] /\ proc[d] = "waiting"
    BY <1>0, <1>2 DEF TypeOK
  <2>2. d \in Owned /\ child[d] # NoCard /\ lease[child[d]] \in {"admitted", "settling"}
    BY <2>1 DEF ActInv, WaitInv, InductiveInv, UnownedInv
  <2>3. child[d] # c /\ child[d] \in Cards
    BY <2>1, <2>2 DEF InductiveInv, LinkInv, Owned
  <2> QED
    BY <1>2, <2>1, <2>2, <2>3 DEF TypeOK
<1> QED
  BY <1>4, <1>5, <1>6, <1>7, <1>8 DEF ActInv

\* The suffix of an owner is what lies at or below it, and closed downwards.
LEMMA SuffixClosed ==
  ASSUME NEW b \in Owned
  PROVE  /\ b \in Suffix(b) /\ Suffix(b) \subseteq Owned
         /\ \A d \in Suffix(b) : \A e \in Owned : d \in Anc[e] => e \in Suffix(b) /\ e # b
<1>1. b \in Cards /\ b \notin Anc[b]
  BY TreeAssumption DEF Owned
<1>2. ASSUME NEW d \in Suffix(b), NEW e \in Owned, d \in Anc[e]
      PROVE  b \in Anc[e]
  <2>1. e \in Cards /\ Anc[d] \subseteq Anc[e]
    BY <1>2, TreeAssumption DEF Owned
  <2> QED
    BY <1>2, <2>1 DEF Suffix
<1> QED
  BY <1>1, <1>2 DEF Suffix

\* The owner an urgent notification interrupts is live.
LEMMA BoundaryIsLive ==
  ASSUME TypeOK, NEW t \in Cards, NEW b \in UrgentBoundary(t)
  PROVE  b \in Owned /\ b \in Cards /\ Live(b) /\ (t = Root => b = Root)
BY TreeTypes, RootFacts DEF UrgentBoundary, Live, Owned

\* Every action keeps the claims, the path of the owners and the open leases.
LEMMA ActStep ==
  ASSUME TypeOK, InductiveInv, ActInv, [Next]_vars
  PROVE  ActInv'
<1> USE RootFacts DEF vars, cardVars, runVars, ownVars, haltVars
<1>a. ASSUME RuntimeStep PROVE ActInv'
  <2>1. CASE Startup
    BY <2>1 DEF Startup, Owned, Live, TypeOK, InductiveInv, UnownedInv, RetentionInv, StatusInv, UpStatus, ActInv, HaltInv, ClaimInv, PathInv, SuffixInv, WaitInv
  <2>2. CASE StartupFails
    BY <2>2 DEF StartupFails, Owned, Live, TypeOK, InductiveInv, UnownedInv, RetentionInv, StatusInv, UpStatus, ActInv, HaltInv, ClaimInv, PathInv, SuffixInv, WaitInv
  <2>3. CASE StartProject
    <3>1. Owned = {} /\ halt = "none" /\ \A c \in Cards : proc[c] = "none" /\ winner[c] = "open"
      BY <2>3 DEF StartProject, MayStart, InductiveInv, RetentionInv, StatusInv, UnownedInv
    <3>2. Owned' = {Root}
      BY <2>3, <3>1 DEF StartProject, Owned, TypeOK
    <3>3. PathToRoot(Root) = {Root}
      BY DEF PathToRoot
    <3>4. HaltInv' /\ WaitInv' /\ PathInv'
      BY <2>3, <3>1, <3>2, <3>3 DEF StartProject, HaltInv, WaitInv, PathInv
    <3>5. ClaimInv' /\ SuffixInv'
      BY <2>3, <3>1, <3>2 DEF StartProject, ClaimInv, SuffixInv, Live, TypeOK
    <3> QED
      BY <3>4, <3>5 DEF ActInv
  <2>4. CASE StartProjectFails
    <3>1. \A c \in Cards : proc[c] = "none"
      BY <2>4 DEF StartProjectFails, MayStart, InductiveInv, RetentionInv, UnownedInv
    <3>2. [phase EXCEPT ![Root] = "prepared_root"] \in [Cards -> Phases]
      BY DEF TypeOK, Phases
    <3> QED
      BY <2>4, <3>1, <3>2, HaltAct DEF StartProjectFails, Triggers
  <2>5. CASE Launch
    <3>1. proc[Root] = "none" /\ Live(Root) /\ halt = "none" /\ child[Root] = NoCard
      BY <2>5 DEF Launch, InductiveInv, FrontierInv
    <3>2. PICK q \in StartProcs : proc' = [proc EXCEPT ![Root] = q]
      BY <2>5 DEF Launch
    <3>3. UNCHANGED <<phase, winner, child, lease, urgent, halt, cur>> /\ rt' = "running"
      BY <2>5 DEF Launch
    <3> QED
      BY <3>1, <3>2, <3>3 DEF StartProcs, Owned, Live, TypeOK, ActInv, HaltInv, ClaimInv, PathInv, SuffixInv, WaitInv
  <2>6. CASE StopProject
    <3>1. CASE run # NoRun
      BY <2>6, <3>1, HaltActPlain DEF StopProject, Triggers
    <3>2. CASE run = NoRun
      BY <2>6, <3>2 DEF StopProject, Owned, Live, ActInv, HaltInv, ClaimInv, PathInv, SuffixInv, WaitInv
    <3> QED
      BY <3>1, <3>2
  <2>7. CASE CloseApplication
    <3>1. CASE run # NoRun /\ halt = "none"
      BY <2>7, <3>1, HaltActPlain DEF CloseApplication, Triggers
    <3>2. CASE ~(run # NoRun /\ halt = "none")
      BY <2>7, <3>2 DEF CloseApplication, Owned, Live, ActInv, HaltInv, ClaimInv, PathInv, SuffixInv, WaitInv
    <3> QED
      BY <3>1, <3>2
  <2>8. CASE HaltStops
    <3>1. \A c \in Cards : phase'[c] = "none" /\ proc'[c] = "none"
      BY <2>8 DEF HaltStops, Upd, Owned, TypeOK, InductiveInv, UnownedInv
    <3>2. halt' = "none" /\ rt' = "stopped"
      BY <2>8 DEF HaltStops
    <3> QED
      BY <3>1, <3>2 DEF Owned, ActInv, HaltInv, ClaimInv, PathInv, SuffixInv, WaitInv
  <2>9. CASE HaltErrors
    BY <2>9 DEF HaltErrors, HaltSettled, Owned, Live, ActInv, HaltInv, ClaimInv, PathInv, SuffixInv, WaitInv
  <2>10. CASE Crash
    BY <2>10 DEF Crash, ProcessRestarts, Owned, ActInv, HaltInv, ClaimInv, PathInv, SuffixInv, WaitInv
  <2>11. CASE CrashMidPublication
    BY <2>11 DEF CrashMidPublication, ProcessRestarts, Owned, ActInv, HaltInv, ClaimInv, PathInv, SuffixInv, WaitInv
  <2>12. CASE Pause
    BY <2>12 DEF Pause, RequestPause, Owned, Live, ActInv, HaltInv, ClaimInv, PathInv, SuffixInv, WaitInv
  <2>13. CASE Resume
    BY <2>13 DEF Resume, OpenGate, Owned, Live, TypeOK, InductiveInv, FrontierInv, ActInv, HaltInv, ClaimInv, PathInv, SuffixInv, WaitInv
  <2>14. CASE ReleaseSettledRoot
    <3>1. Owned = {Root}
      BY <2>14, RootAlone DEF ReleaseSettledRoot, HasAuthority, InductiveInv, FrontierInv
    <3>2. \A c \in Cards : phase'[c] = "none" /\ proc'[c] = "none"
      BY <2>14, <3>1 DEF ReleaseSettledRoot, ReleaseOwner, Owned, TypeOK, InductiveInv, UnownedInv
    <3>3. halt' = "none" /\ rt' = "stopped"
      BY <2>14 DEF ReleaseSettledRoot, HasAuthority
    <3> QED
      BY <3>2, <3>3 DEF Owned, ActInv, HaltInv, ClaimInv, PathInv, SuffixInv, WaitInv
  <2>15. CASE ReplaceInterruptedRoot
    <3>1. Owned = {Root} /\ halt = "none"
      BY <2>15, RootAlone DEF ReplaceInterruptedRoot, InterruptionDue, HasAuthority, InductiveInv
    <3>2. PICK q \in StartProcs : proc' = [proc EXCEPT ![Root] = q]
      BY <2>15 DEF ReplaceInterruptedRoot
    <3>3. /\ phase' = [phase EXCEPT ![Root] = "active"]
          /\ winner' = [winner EXCEPT ![Root] = "open"]
          /\ UNCHANGED <<child, lease, halt, cur, rt>>
      BY <2>15 DEF ReplaceInterruptedRoot
    <3>4. Owned' = {Root}
      BY <3>1, <3>3 DEF Owned, TypeOK
    <3> QED
      BY <3>1, <3>2, <3>3, <3>4 DEF StartProcs, Live, TypeOK, ActInv, HaltInv, ClaimInv, PathInv, SuffixInv, WaitInv
  <2>16. CASE ReactivateRootFails
    <3>1. \A c \in Cards : [phase EXCEPT ![Root] = "prepared_root"][c] = "none" => proc[c] = "none"
      BY DEF TypeOK, InductiveInv, UnownedInv, Owned
    <3>2. [phase EXCEPT ![Root] = "prepared_root"] \in [Cards -> Phases]
      BY DEF TypeOK, Phases
    <3> QED
      BY <2>16, <3>1, <3>2, HaltAct DEF ReactivateRootFails, Triggers
  <2>17. CASE GcBegin
    BY <2>17 DEF GcBegin, GcAdmitted, RequestPause, Owned, Live, ActInv, HaltInv, ClaimInv, PathInv, SuffixInv, WaitInv
  <2>18. CASE GcCollect
    BY <2>18 DEF GcCollect, Owned, Live, ActInv, HaltInv, ClaimInv, PathInv, SuffixInv, WaitInv
  <2>19. CASE GcFinish
    BY <2>19 DEF GcFinish, OpenGate, Owned, Live, TypeOK, InductiveInv, FrontierInv, ActInv, HaltInv, ClaimInv, PathInv, SuffixInv, WaitInv
  <2> QED
    BY <1>a, <2>1, <2>2, <2>3, <2>4, <2>5, <2>6, <2>7, <2>8, <2>9, <2>10, <2>11, <2>12, <2>13, <2>14, <2>15, <2>16, <2>17, <2>18, <2>19 DEF RuntimeStep
<1>b. ASSUME NEW c \in Cards, CardStep(c) PROVE ActInv'
  <2>1. CASE RuntimeFailure(c)
    BY <2>1, HaltActPlain DEF RuntimeFailure, Triggers
  <2>2. CASE UrgentTakenOver(c)
    BY <2>2 DEF UrgentTakenOver, Owned, Live, ActInv, HaltInv, ClaimInv, PathInv, SuffixInv, WaitInv
  <2>3. CASE PassGate(c)
    BY <2>3 DEF PassGate, Owned, Live, TypeOK, InductiveInv, UnownedInv, ActInv, HaltInv, ClaimInv, PathInv, SuffixInv, WaitInv
  <2>4. CASE ParkAtGate(c)
    BY <2>4 DEF ParkAtGate, PauseCallback, Owned, Live, TypeOK, InductiveInv, UnownedInv, ActInv, HaltInv, ClaimInv, PathInv, SuffixInv, WaitInv
  <2>5. CASE NextTurn(c)
    BY <2>5 DEF NextTurn, Owned, Live, TypeOK, InductiveInv, UnownedInv, ActInv, HaltInv, ClaimInv, PathInv, SuffixInv, WaitInv
  <2>6. CASE NodeHandoff(c)
    BY <2>6 DEF NodeHandoff, Owned, Live, TypeOK, InductiveInv, UnownedInv, ActInv, HaltInv, ClaimInv, PathInv, SuffixInv, WaitInv
  <2>7. CASE NextNode(c)
    BY <2>7 DEF NextNode, StartProcs, Owned, Live, TypeOK, InductiveInv, UnownedInv, ActInv, HaltInv, ClaimInv, PathInv, SuffixInv, WaitInv
  <2>8. CASE DeliverNotifications(c)
    BY <2>8 DEF DeliverNotifications, Owned, Live, ActInv, HaltInv, ClaimInv, PathInv, SuffixInv, WaitInv
  <2>9. CASE SettleResultFails(c)
    <3>1. \A d \in Cards : [phase EXCEPT ![c] = "settling"][d] = "none" => proc[d] = "none"
      BY DEF TypeOK, InductiveInv, UnownedInv, Owned
    <3>2. [phase EXCEPT ![c] = "settling"] \in [Cards -> Phases]
      BY DEF TypeOK, Phases
    <3> QED
      BY <2>9, <3>1, <3>2, HaltAct DEF SettleResultFails, Triggers
  <2>10. CASE ReleaseSettledChild(c)
    <3>1. HasAuthority(c) /\ child[c] = NoCard
      BY <2>10 DEF ReleaseSettledChild, InductiveInv, FrontierInv
    <3> QED
      BY <2>10, <3>1, ReleaseAct DEF ReleaseSettledChild
  <2>11. CASE JoinActivation(c)
    BY <2>11 DEF JoinActivation, MayJoin, Owned, Live, TypeOK, InductiveInv, UnownedInv, ActInv, HaltInv, ClaimInv, PathInv, SuffixInv, WaitInv
  <2>12. CASE JoinFails(c)
    <3>1. CASE halt = "none"
      BY <2>12, <3>1, HaltActPlain DEF JoinFails, Triggers
    <3>2. CASE halt # "none"
      BY <2>12, <3>2 DEF JoinFails, MayJoin, Owned, Live, TypeOK, ActInv, HaltInv, ClaimInv, PathInv, SuffixInv, WaitInv
    <3> QED
      BY <3>1, <3>2
  <2>13. CASE CancelStored(c)
    BY <2>13 DEF CancelStored, Owned, Live, ActInv, HaltInv, ClaimInv, PathInv, SuffixInv, WaitInv
  <2>14. CASE CancelOwned(c)
    <3>1. /\ Suffix(c) \subseteq Owned /\ halt = "none"
          /\ \A d \in Suffix(c) : Live(d)
          /\ \A d \in Suffix(c) : \A e \in Owned : d \in Anc[e] => e \in Suffix(c)
      BY <2>14, SuffixClosed DEF CancelOwned, MayCancel, SuffixClaimable
    <3>2. /\ winner' = Upd(winner, Suffix(c), "cancel")
          /\ phase' = Upd(phase, Suffix(c), "settling")
          /\ lease' = Upd(lease, Suffix(c), "settling")
          /\ proc' = Upd(proc, Suffix(c), "stopping")
          /\ UNCHANGED <<child, urgent, rt, cur, halt>>
      BY <2>14 DEF CancelOwned
    <3> HIDE DEF Suffix
    <3>3. Owned' = Owned
      BY <3>1, <3>2 DEF Owned, Upd, TypeOK
    <3>4. HaltInv' /\ PathInv'
      BY <3>1, <3>2, <3>3 DEF ActInv, HaltInv, PathInv
    <3>5. ClaimInv'
      BY <3>1, <3>2, <3>3 DEF ActInv, ClaimInv, Live, Upd, TypeOK, Owned
    <3>6. SuffixInv'
      BY <3>1, <3>2, <3>3 DEF ActInv, SuffixInv, Upd, TypeOK, Owned
    <3>7. WaitInv'
      BY <3>1, <3>2 DEF ActInv, WaitInv, Upd, TypeOK
    <3> QED
      BY <3>4, <3>5, <3>6, <3>7 DEF ActInv
  <2>15. CASE SettleCancellation(c)
    BY <2>15, ReleaseAct DEF SettleCancellation, CancellationDue
  <2>16. CASE SettleCancellationFails(c)
    BY <2>16, HaltActPlain DEF SettleCancellationFails, Triggers
  <2>17. CASE CascadeFails(c)
    BY <2>17 DEF CascadeFails, CancellationDue, HasAuthority, Owned, Live, TypeOK, InductiveInv, UnownedInv, ActInv, HaltInv, ClaimInv, PathInv, SuffixInv, WaitInv
  <2>18. CASE Notify(c)
    BY <2>18 DEF Notify, Owned, Live, ActInv, HaltInv, ClaimInv, PathInv, SuffixInv, WaitInv
  <2>19. CASE UrgentQueues(c)
    BY <2>19 DEF UrgentQueues, Owned, Live, ActInv, HaltInv, ClaimInv, PathInv, SuffixInv, WaitInv
  <2>20. CASE UrgentInterrupts(c)
    <3>0. PICK b \in UrgentBoundary(c) :
            LET below == Suffix(b) \ {b}
                claimed == IF c = Root THEN Suffix(b) ELSE below
            IN /\ UrgentClaimable(b)
               /\ winner' = Upd(winner, claimed, "interrupt")
               /\ phase' = Upd(phase, claimed, "settling")
               /\ lease' = Upd(lease, below, "settling")
               /\ urgent' = [urgent EXCEPT ![b] = IF c = Root THEN "root" ELSE "node"]
               /\ proc' = [Upd(proc, below, "stopping") EXCEPT
                             ![b] = IF c = Root THEN "stopping" ELSE "retiring"]
      BY <2>20 DEF UrgentInterrupts
    <3> DEFINE below == Suffix(b) \ {b}
               claimed == IF c = Root THEN Suffix(b) ELSE below
    <3>1. /\ b \in Owned /\ b \in Cards /\ b \notin below /\ below \subseteq Owned /\ Live(b)
          /\ claimed = IF c = Root THEN below \cup {b} ELSE below
          /\ halt = "none"
          /\ \A d \in below : Live(d)
          /\ \A e \in Owned : b \in Anc[e] => e \in below
          /\ \A d \in below : \A e \in Owned : d \in Anc[e] => e \in below
      BY <3>0, BoundaryIsLive, SuffixClosed DEF UrgentClaimable
    <3>2. /\ winner' = Upd(winner, claimed, "interrupt")
          /\ phase' = Upd(phase, claimed, "settling")
          /\ lease' = Upd(lease, below, "settling")
          /\ urgent' = [urgent EXCEPT ![b] = IF c = Root THEN "root" ELSE "node"]
          /\ proc' = [Upd(proc, below, "stopping") EXCEPT
                        ![b] = IF c = Root THEN "stopping" ELSE "retiring"]
          /\ UNCHANGED <<child, rt, cur, halt>>
      BY <2>20, <3>0 DEF UrgentInterrupts
    <3> HIDE DEF below, claimed
    <3>3. Owned' = Owned
      BY <3>1, <3>2 DEF Owned, Upd, TypeOK
    <3>4. HaltInv' /\ PathInv'
      BY <3>1, <3>2, <3>3 DEF ActInv, HaltInv, PathInv
    <3>5. ClaimInv'
      BY <3>1, <3>2, <3>3 DEF ActInv, ClaimInv, Live, Upd, TypeOK, Owned
    <3>6. SuffixInv'
      BY <3>1, <3>2, <3>3 DEF ActInv, SuffixInv, Upd, TypeOK, Owned
    <3>7. WaitInv'
      BY <3>1, <3>2 DEF ActInv, WaitInv, Upd, TypeOK
    <3> QED
      BY <3>4, <3>5, <3>6, <3>7 DEF ActInv
  <2>21. CASE StopInterruptedChild(c)
    BY <2>21, ReleaseAct DEF StopInterruptedChild, InterruptionDue
  <2>22. CASE StopInterruptedFails(c)
    BY <2>22, HaltActPlain DEF StopInterruptedFails, Triggers
  <2>23. CASE NodeInterruptionSettles(c)
    BY <2>23 DEF NodeInterruptionSettles, NodeInterruptionDue, HasAuthority, StartProcs, Owned, Live, TypeOK, InductiveInv, UnownedInv, ActInv, HaltInv, ClaimInv, PathInv, SuffixInv, WaitInv
  <2>24. CASE AnalystReopen(c)
    BY <2>24 DEF AnalystReopen, Owned, Live, ActInv, HaltInv, ClaimInv, PathInv, SuffixInv, WaitInv
  <2>25. CASE AnalystRecordEdit(c)
    BY <2>25 DEF AnalystRecordEdit, Owned, Live, ActInv, HaltInv, ClaimInv, PathInv, SuffixInv, WaitInv
  <2>26. ASSUME NEW o \in Outcomes, ClaimResult(c, o) PROVE ActInv'
    <3>1. /\ c \in Owned /\ child[c] = NoCard /\ halt = "none" /\ proc[c] = "node"
          /\ winner' = [winner EXCEPT ![c] = "result"]
          /\ proc' = [proc EXCEPT ![c] = "claimed"]
          /\ UNCHANGED <<phase, child, lease, urgent, halt, cur, rt>>
      BY <2>26 DEF ClaimResult, HasAuthority, InductiveInv, FrontierInv
    <3>2. \A d \in Owned : c \notin Anc[d]
      BY <3>1, LeafHasNoOwnedBelow DEF InductiveInv
    <3>3. SuffixInv'
      BY <3>1, <3>2 DEF ActInv, SuffixInv, Owned, TypeOK, ClaimInv, Live
    <3>4. HaltInv' /\ ClaimInv' /\ PathInv' /\ WaitInv'
      BY <3>1 DEF Owned, Live, TypeOK, ActInv, HaltInv, ClaimInv, PathInv, WaitInv
    <3> QED
      BY <3>3, <3>4 DEF ActInv
  <2>27. ASSUME NEW o \in Outcomes, SettleResult(c, o) PROVE ActInv'
    <3>1. /\ c \in Owned /\ child[c] = NoCard /\ halt = "none" /\ proc[c] \in {"ready", "node", "handoff", "claimed"}
          /\ winner' = [winner EXCEPT ![c] = "result"]
          /\ phase' = [phase EXCEPT ![c] = "settling"]
          /\ lease' = [lease EXCEPT ![c] = IF @ = "admitted" THEN "settling" ELSE @]
          /\ proc' = [proc EXCEPT ![c] = "settled"]
          /\ UNCHANGED <<child, urgent, halt, cur, rt>>
      BY <2>27 DEF SettleResult, MaySettle, OutcomeReady, HasAuthority
    <3>2. \A d \in Owned : c \notin Anc[d]
      BY <3>1, LeafHasNoOwnedBelow DEF InductiveInv
    <3>3. Owned' = Owned
      BY <3>1 DEF Owned, TypeOK
    <3>4. SuffixInv' /\ PathInv' /\ HaltInv'
      BY <3>1, <3>2, <3>3 DEF ActInv, SuffixInv, PathInv, HaltInv, ClaimInv, Live, TypeOK, Owned
    <3>5. ClaimInv'
      BY <3>1, <3>3 DEF ActInv, ClaimInv, Live, TypeOK, Owned
    <3>6. WaitInv'
      BY <3>1 DEF ActInv, WaitInv, TypeOK
    <3> QED
      BY <3>4, <3>5, <3>6 DEF ActInv
  <2> QED
    BY <1>b, <2>1, <2>2, <2>3, <2>4, <2>5, <2>6, <2>7, <2>8, <2>9, <2>10, <2>11, <2>12, <2>13, <2>14, <2>15, <2>16, <2>17, <2>18, <2>19, <2>20, <2>21, <2>22, <2>23, <2>24, <2>25, <2>26, <2>27 DEF CardStep
<1>c. ASSUME NEW p \in Cards, NEW c \in Cards, PlannerStep(p, c) PROVE ActInv'
  <2>1. CASE ActivateChild(p, c)
    <3>1. /\ c \notin Owned /\ p \in Owned /\ p # c /\ child[p] = NoCard /\ halt = "none"
          /\ proc[p] = "node" /\ winner[c] = "open" /\ Anc[c] = {p} \cup Anc[p] /\ c \notin Anc[c]
      BY <2>1, TreeAssumption DEF ActivateChild, MayActivate, ParentActs, Owned,
         InductiveInv, FrontierInv, UnownedInv
    <3>2. PICK q \in StartProcs : proc' = [proc EXCEPT ![p] = "waiting", ![c] = q]
      BY <2>1 DEF ActivateChild
    <3>3. /\ phase' = [phase EXCEPT ![c] = "active"]
          /\ child' = [child EXCEPT ![p] = c]
          /\ lease' = [lease EXCEPT ![c] = "admitted"]
          /\ cur' = c /\ UNCHANGED <<winner, urgent, rt, halt>>
      BY <2>1 DEF ActivateChild
    <3>4. Owned' = Owned \cup {c} /\ \A d \in Owned : c \notin Anc[d]
      BY <3>1, <3>3 DEF Owned, TypeOK, InductiveInv, LinkInv
    <3>5. p = cur /\ Owned = PathToRoot(p)
      BY <3>1, LeafIsCurrent DEF InductiveInv, ActInv, PathInv
    <3>6. HaltInv' /\ PathInv'
      BY <3>1, <3>3, <3>4, <3>5 DEF ActInv, HaltInv, PathInv, PathToRoot
    <3>7. ClaimInv'
      BY <3>1, <3>2, <3>3, <3>4 DEF ActInv, ClaimInv, Live, StartProcs, TypeOK, Owned
    <3>8. SuffixInv'
      BY <3>1, <3>2, <3>3, <3>4 DEF ActInv, SuffixInv, ClaimInv, Live, StartProcs, TypeOK, Owned
    <3>9. WaitInv'
      BY <3>1, <3>2, <3>3 DEF ActInv, WaitInv, StartProcs, TypeOK, Owned, InductiveInv,
         LinkInv, UnownedInv
    <3> QED
      BY <3>6, <3>7, <3>8, <3>9 DEF ActInv
  <2>2. CASE ActivateChildFails(p, c)
    <3>1. \A d \in Cards : [phase EXCEPT ![c] = "child_admission"][d] = "none" => proc[d] = "none"
      BY DEF TypeOK, InductiveInv, UnownedInv, Owned
    <3>2. [phase EXCEPT ![c] = "child_admission"] \in [Cards -> Phases]
      BY DEF TypeOK, Phases
    <3> QED
      BY <2>2, <3>1, <3>2, HaltAct DEF ActivateChildFails, Triggers
  <2>3. CASE PlannerReopen(p, c)
    BY <2>3 DEF PlannerReopen, Owned, Live, ActInv, HaltInv, ClaimInv, PathInv, SuffixInv, WaitInv
  <2>4. CASE PlannerReopenFails(p, c)
    BY <2>4, HaltActPlain DEF PlannerReopenFails, Triggers
  <2>5. CASE PlannerCancel(p, c)
    BY <2>5 DEF PlannerCancel, Owned, Live, ActInv, HaltInv, ClaimInv, PathInv, SuffixInv, WaitInv
  <2>6. CASE RecordMutation(p, c)
    BY <2>6 DEF RecordMutation, Owned, Live, ActInv, HaltInv, ClaimInv, PathInv, SuffixInv, WaitInv
  <2> QED
    BY <1>c, <2>1, <2>2, <2>3, <2>4, <2>5, <2>6 DEF PlannerStep
<1>d. CASE UNCHANGED vars
  BY <1>d DEF Owned, Live, ActInv, HaltInv, ClaimInv, PathInv, SuffixInv, WaitInv
<1> QED
  BY <1>a, <1>b, <1>c, <1>d DEF Next

-----------------------------------------------------------------------------
(* The durable running cards *)

\* The cards whose activation has not committed an outcome.
Uncommitted == {c \in Owned : proc[c] # "settled"}

\* A set of cards that is one chain hanging from the root.
ChainOf(R) ==
  /\ \A c \in R : Anc[c] \subseteq R
  /\ \A c, d \in R \ {Root} : Parent[c] = Parent[d] => c = d

\* Stopping removes the stopped cards from the running ones.
LEMMA StopRunning ==
  ASSUME NEW st \in [Cards -> Status], NEW S
  PROVE  RunningSet(StopCards(st, S)) = RunningSet(st) \ S
BY DEF RunningSet, StopCards

\* Cancelling removes the cancelled cards from the running ones.
LEMMA CancelRunning ==
  ASSUME NEW st \in [Cards -> Status], NEW S
  PROVE  RunningSet(CancelCards(st, S)) = RunningSet(st) \ S
BY DEF RunningSet, CancelCards

\* A propagation stops at a running card and changes none.
LEMMA FlipRunning ==
  ASSUME NEW st \in [Cards -> Status], NEW c \in Cards
  PROVE  RunningSet(FlipPath(st, c)) = RunningSet(st)
BY DEF RunningSet, FlipPath, Flippable

\* Nor does a propagation that was cut short.
LEMMA FlipPrefixRunning ==
  ASSUME NEW st \in [Cards -> Status], NEW c \in Cards, NEW t \in FlipPrefixes(st, c)
  PROVE  RunningSet(t) = RunningSet(st)
BY DEF RunningSet, FlipPath, FlipPrefixes, Flippable

\* A cascade that starts at a card at rest meets no running card.
LEMMA CascadeRests ==
  ASSUME NEW st, NEW c \in Cards, ChainOf(RunningSet(st)), st[c] # "running"
  PROVE  CascadeSet(st, c) \cap RunningSet(st) = {}
BY DEF CascadeSet, Subtree, Descendants, ChainOf, RunningSet

\* Settling from the leaf, or a part of it, leaves a chain.
LEMMA SettledChain ==
  ASSUME NEW st \in [Cards -> Status], ChainOf(RunningSet(st)), NEW S \in SettledSuffixes(st)
  PROVE  ChainOf(RunningSet(StopCards(st, S)))
BY StopRunning, TreeTypes DEF ChainOf, SettledSuffixes, RunningSet

\* The cascade of a cancelled owner meets no running card.
LEMMA OwnerCascadeRests ==
  ASSUME TypeOK, InductiveInv, HaltInv, RunningInv, NEW c \in Owned, halt = "none"
  PROVE  OwnerCascade(c) \cap RunningSet(card) = {}
<1>1. ChainOf(RunningSet(card)) /\ RunningSet(card) \subseteq Owned
  BY AuthorityIsUp DEF RunningInv, ChainOf
<1>2. ASSUME NEW d \in Children(c) \ Owned PROVE CascadeSet(card, d) \cap RunningSet(card) = {}
  <2>1. d \in Cards /\ card[d] # "running"
    BY <1>1, <1>2 DEF Children, RunningSet
  <2> QED
    BY <1>1, <2>1, CascadeRests
<1> QED
  BY <1>2 DEF OwnerCascade

\* Cancelling keeps statuses statuses.
LEMMA CancelTypes ==
  ASSUME NEW st \in [Cards -> Status], NEW S
  PROVE  CancelCards(st, S) \in [Cards -> Status]
BY DEF CancelCards, Status

\* A cascade, or a part of it, leaves the running cards.
LEMMA CascadeQuiet ==
  ASSUME NEW st \in [Cards -> Status], NEW c \in Cards, ChainOf(RunningSet(st)), st[c] # "running",
         NEW S \in SUBSET CascadeSet(st, c)
  PROVE  RunningSet(CancelCards(st, S)) = RunningSet(st)
<1>1. S \cap RunningSet(st) = {}
  BY CascadeRests
<1>2. RunningSet(CancelCards(st, S)) = RunningSet(st) \ S
  BY CancelRunning
<1> QED
  BY <1>1, <1>2

\* So does the cascade of a cancelled owner.
LEMMA OwnerCascadeQuiet ==
  ASSUME TypeOK, InductiveInv, HaltInv, RunningInv, NEW c \in Cards, HasAuthority(c),
         NEW S \in SUBSET OwnerCascade(c)
  PROVE  RunningSet(CancelCards(card, S)) = RunningSet(card)
<1>1. S \cap RunningSet(card) = {}
  BY OwnerCascadeRests DEF HasAuthority
<1>2. RunningSet(CancelCards(card, S)) = RunningSet(card) \ S
  BY CancelRunning DEF TypeOK
<1> QED
  BY <1>1, <1>2

\* A step that neither starts nor ends work.
LEMMA RunQuiet ==
  ASSUME RunningInv, RunningSet(card') = RunningSet(card),
         rt' \in UpStatus => rt \in UpStatus /\ Uncommitted' = Uncommitted
  PROVE  RunningInv'
BY DEF RunningInv, Uncommitted

\* A step that ends the work of the leaf.
LEMMA RunReleases ==
  ASSUME TypeOK, InductiveInv, RunningInv, NEW c \in Owned, child[c] = NoCard, rt \in UpStatus,
         RunningSet(card') = RunningSet(card) \ {c}, Uncommitted' = Uncommitted \ {c}
  PROVE  RunningInv'
<1>1. \A d \in RunningSet(card) : c \notin Anc[d]
  BY LeafHasNoOwnedBelow DEF InductiveInv, RunningInv
<1> QED
  BY <1>1 DEF RunningInv, Uncommitted

\* An interrupted root without a child is all that runs.
LEMMA RootSettles ==
  ASSUME TypeOK, InductiveInv, ActInv, RunningInv, InterruptionDue(Root)
  PROVE  RunningSet([card EXCEPT ![Root] = "stopped"]) = {}
<1>1. Owned = {Root} /\ rt \in UpStatus
  BY RootAlone, AuthorityIsUp DEF InterruptionDue, HasAuthority, InductiveInv, ActInv
<1> QED
  BY <1>1 DEF RunningInv, RunningSet, TypeOK

\* Wherever an operation that publishes several cards is cut short, the running
\* cards are a chain.
LEMMA CutsAreChains ==
  ASSUME TypeOK, InductiveInv, ActInv, RunningInv, NEW st \in PartialPublications
  PROVE  ChainOf(RunningSet(st))
<1>0. ChainOf(RunningSet(card)) /\ card \in [Cards -> Status]
  BY DEF RunningInv, ChainOf, TypeOK
<1>1. CASE st \in SettlementCuts
  BY <1>0, <1>1, SettledChain DEF SettlementCuts
<1>2. CASE st \in ReplacementCuts
  BY <1>2, RootSettles DEF ReplacementCuts, ChainOf
<1>3. CASE st \in OwnedCascadeCuts
  <2>1. PICK c \in Cards : CancellationDue(c) /\
          \E S \in CascadePrefixes(OwnerCascade(c)) \cup {OwnerCascade(c) \cup {c}} : st = CancelCards(card, S)
    BY <1>3 DEF OwnedCascadeCuts
  <2>2. c \in Owned /\ halt = "none" /\ child[c] = NoCard /\ RunningSet(card) \subseteq Owned
    BY <2>1, AuthorityIsUp DEF CancellationDue, HasAuthority, ActInv, RunningInv
  <2>3. RunningSet(st) = RunningSet(card) \/ RunningSet(st) = RunningSet(card) \ {c}
    BY <1>0, <2>1, <2>2, CancelRunning, OwnerCascadeRests DEF CascadePrefixes, ActInv
  <2>4. \A d \in RunningSet(card) : c \notin Anc[d]
    BY <2>2, LeafHasNoOwnedBelow DEF InductiveInv
  <2> QED
    BY <1>0, <2>3, <2>4 DEF ChainOf
<1>4. CASE st \in StoredCascadeCuts
  <2>1. PICK c \in Cards : card[c] # "running" /\
          \E S \in CascadePrefixes(CascadeSet(card, c)) : st = CancelCards(card, S)
    BY <1>4 DEF StoredCascadeCuts
  <2>2. RunningSet(st) = RunningSet(card)
    BY <1>0, <2>1, CascadeQuiet DEF CascadePrefixes
  <2> QED
    BY <1>0, <2>2
<1>5. CASE st \in StoredPropagationCuts
  <2>1. PICK c \in Cards : card[c] # "running" /\ c # Root /\
          st \in FlipPrefixes(CancelCards(card, CascadeSet(card, c)), Parent[c])
    BY <1>5 DEF StoredPropagationCuts, MayCancel
  <2>2. Parent[c] \in Cards /\ CancelCards(card, CascadeSet(card, c)) \in [Cards -> Status]
    BY <1>0, <2>1, CancelTypes, TreeAssumption
  <2>3. RunningSet(CancelCards(card, CascadeSet(card, c))) = RunningSet(card)
    BY <1>0, <2>1, CascadeQuiet
  <2>4. RunningSet(st) = RunningSet(CancelCards(card, CascadeSet(card, c)))
    BY <2>1, <2>2, FlipPrefixRunning
  <2> QED
    BY <1>0, <2>3, <2>4
<1>6. CASE st \in PropagationCuts
  BY <1>0, <1>6, FlipPrefixRunning DEF PropagationCuts
<1> QED
  BY <1>1, <1>2, <1>3, <1>4, <1>5, <1>6 DEF PartialPublications

\* Every action keeps the running cards one chain, owned while a run is up.
LEMMA RunningStep ==
  ASSUME TypeOK, InductiveInv, ActInv, RunningInv, [Next]_vars
  PROVE  RunningInv'
<1> USE RootFacts DEF vars, cardVars, runVars, ownVars, haltVars
<1>a. ASSUME RuntimeStep PROVE RunningInv'
  <2>1. CASE Startup
    <3>1. RunningSet(card') = {} /\ rt' = "stopped"
      BY <2>1, StopRunning DEF Startup, TypeOK
    <3> QED
      BY <3>1 DEF RunningInv, UpStatus
  <2>2. CASE StartupFails
    <3>1. PICK S \in SettledSuffixes(card) : card' = StopCards(card, S)
      BY <2>2 DEF StartupFails
    <3>2. ChainOf(RunningSet(card')) /\ rt' \notin UpStatus
      BY <2>2, <3>1, SettledChain DEF StartupFails, RunningInv, ChainOf, TypeOK, UpStatus
    <3> QED
      BY <3>2 DEF RunningInv, ChainOf
  <2>3. CASE StartProject
    <3>1. RunningSet(card') = {Root}
      BY <2>3, StopRunning DEF StartProject, StartedCards, StopCards, RunningSet, TypeOK
    <3>2. Owned = {} /\ proc[Root] = "none"
      BY <2>3 DEF StartProject, MayStart, InductiveInv, RetentionInv, UnownedInv
    <3>3. Uncommitted' = {Root}
      BY <2>3, <3>2 DEF StartProject, Uncommitted, Owned, TypeOK
    <3> QED
      BY <3>1, <3>3 DEF RunningInv, Uncommitted
  <2>4. CASE StartProjectFails
    <3>1. PICK S \in SettledSuffixes(card) : card' = StopCards(card, S)
      BY <2>4 DEF StartProjectFails
    <3>2. ChainOf(RunningSet(card')) /\ rt' \notin UpStatus
      BY <2>4, <3>1, SettledChain DEF StartProjectFails, BeginHalt, RunningInv, ChainOf, TypeOK, UpStatus
    <3> QED
      BY <3>2 DEF RunningInv, ChainOf
  <2>5. CASE Launch
    <3>1. rt \in UpStatus /\ proc[Root] = "none" /\ Root \in Cards
      BY <2>5 DEF Launch, UpStatus, InductiveInv, FrontierInv
    <3> QED
      BY <2>5, <3>1, RunQuiet DEF Launch, StartProcs, Uncommitted, Owned, TypeOK
  <2>6. CASE StopProject
    BY <2>6, RunQuiet DEF StopProject, BeginHalt, UpStatus
  <2>7. CASE CloseApplication
    BY <2>7, RunQuiet DEF CloseApplication, BeginHalt, UpStatus, Uncommitted, Owned
  <2>8. CASE HaltStops
    BY <2>8, RunQuiet DEF HaltStops, UpStatus
  <2>9. CASE HaltErrors
    BY <2>9, RunQuiet DEF HaltErrors, UpStatus
  <2>10. CASE Crash
    BY <2>10, RunQuiet DEF Crash, ProcessRestarts, UpStatus
  <2>11. CASE CrashMidPublication
    <3>1. rt' \notin UpStatus /\ card' \in PartialPublications
      BY <2>11 DEF CrashMidPublication, ProcessRestarts, UpStatus
    <3>2. ChainOf(RunningSet(card'))
      BY <3>1, CutsAreChains
    <3> QED
      BY <3>1, <3>2 DEF RunningInv, ChainOf
  <2>12. CASE Pause
    BY <2>12, RunQuiet DEF Pause, RequestPause, UpStatus, Uncommitted, Owned
  <2>13. CASE Resume
    BY <2>13, RunQuiet DEF Resume, OpenGate, UpStatus, Uncommitted, Owned, TypeOK
  <2>14. CASE ReleaseSettledRoot
    BY <2>14, RunQuiet DEF ReleaseSettledRoot, UpStatus
  <2>15. CASE ReplaceInterruptedRoot
    BY <2>15, RunQuiet DEF ReplaceInterruptedRoot, InterruptionDue, HasAuthority, StartProcs,
       Uncommitted, Owned, TypeOK
  <2>16. CASE ReactivateRootFails
    <3>1. RunningSet(card') = {} /\ rt' \notin UpStatus
      BY <2>16, RootSettles DEF ReactivateRootFails, BeginHalt, UpStatus
    <3> QED
      BY <3>1 DEF RunningInv
  <2>17. CASE GcBegin
    BY <2>17, RunQuiet DEF GcBegin, GcAdmitted, RequestPause, UpStatus, Uncommitted, Owned
  <2>18. CASE GcCollect
    BY <2>18, RunQuiet DEF GcCollect, Uncommitted, Owned, TypeOK
  <2>19. CASE GcFinish
    BY <2>19, RunQuiet DEF GcFinish, OpenGate, UpStatus, Uncommitted, Owned, TypeOK
  <2> QED
    BY <1>a, <2>1, <2>2, <2>3, <2>4, <2>5, <2>6, <2>7, <2>8, <2>9, <2>10, <2>11, <2>12,
       <2>13, <2>14, <2>15, <2>16, <2>17, <2>18, <2>19 DEF RuntimeStep
<1>b. ASSUME NEW c \in Cards, CardStep(c) PROVE RunningInv'
  <2>1. CASE RuntimeFailure(c)
    BY <2>1, RunQuiet DEF RuntimeFailure, BeginHalt, UpStatus
  <2>2. CASE UrgentTakenOver(c)
    BY <2>2, RunQuiet DEF UrgentTakenOver, Uncommitted, Owned, TypeOK
  <2>3. CASE PassGate(c)
    BY <2>3, RunQuiet DEF PassGate, Uncommitted, Owned, TypeOK
  <2>4. CASE ParkAtGate(c)
    BY <2>4, RunQuiet DEF ParkAtGate, PauseCallback, UpStatus, Uncommitted, Owned, TypeOK
  <2>5. CASE NextTurn(c)
    BY <2>5, RunQuiet DEF NextTurn, Uncommitted, Owned, TypeOK
  <2>6. CASE NodeHandoff(c)
    BY <2>6, RunQuiet DEF NodeHandoff, Uncommitted, Owned, TypeOK
  <2>7. CASE NextNode(c)
    BY <2>7, RunQuiet DEF NextNode, StartProcs, Uncommitted, Owned, TypeOK
  <2>8. CASE DeliverNotifications(c)
    BY <2>8, RunQuiet DEF DeliverNotifications, Uncommitted, Owned, TypeOK
  <2>9. CASE SettleResultFails(c)
    BY <2>9, RunQuiet DEF SettleResultFails, BeginHalt, UpStatus
  <2>10. CASE ReleaseSettledChild(c)
    <3>1. /\ c \in Owned /\ c # Root /\ Parent[c] \in Cards /\ Parent[c] # c /\ rt \in UpStatus
      BY <2>10, AuthorityIsUp, TreeAssumption DEF ReleaseSettledChild, HasAuthority, ReleaseChild, Owned, ActInv
    <3>2. Uncommitted' = Uncommitted \ {c}
      BY <2>10, <3>1 DEF ReleaseSettledChild, ReleaseChild, ReleaseOwner, Uncommitted, Owned, TypeOK
    <3> QED
      BY <2>10, <3>1, <3>2, RunQuiet DEF ReleaseSettledChild, Uncommitted
  <2>11. CASE JoinActivation(c)
    BY <2>11, RunQuiet DEF JoinActivation, MayJoin, Uncommitted, Owned, TypeOK
  <2>12. CASE JoinFails(c)
    BY <2>12, RunQuiet DEF JoinFails, MayJoin, BeginHalt, UpStatus, Uncommitted, Owned,
       TypeOK
  <2>13. CASE CancelStored(c)
    <3> DEFINE st == CancelCards(card, CascadeSet(card, c))
    <3>1. ChainOf(RunningSet(card)) /\ card[c] # "running" /\ Parent[c] \in Cards
      BY <2>13, StoredCancels DEF RunningInv, ChainOf
    <3>2. st \in [Cards -> Status] /\ RunningSet(st) = RunningSet(card)
      BY <3>1, CancelTypes, CascadeQuiet DEF TypeOK
    <3>3. ASSUME card' \in Flips(st, Parent[c]) PROVE RunningSet(card') = RunningSet(card)
      BY <3>1, <3>2, <3>3, FlipsAreMild
    <3>4. ASSUME NEW T \in CascadePrefixes(CascadeSet(card, c)), card' = CancelCards(card, T)
          PROVE  RunningSet(card') = RunningSet(card)
      BY <3>1, <3>4, CascadeQuiet DEF CascadePrefixes, TypeOK
    <3>5. RunningSet(card') = RunningSet(card)
      BY <2>13, <3>3, <3>4, StoredCancels
    <3>6. UNCHANGED <<rt, phase, proc>>
      BY <2>13 DEF CancelStored
    <3> QED
      BY <3>5, <3>6, RunQuiet DEF Uncommitted, Owned
  <2>14. CASE CancelOwned(c)
    <3>1. \A d \in Suffix(c) : d \in Owned /\ proc[d] # "settled"
      BY <2>14 DEF CancelOwned, MayCancel, SuffixClaimable, Suffix, Live, ActInv, ClaimInv
    <3> QED
      BY <2>14, <3>1, RunQuiet DEF CancelOwned, Upd, Uncommitted, Owned, TypeOK
  <2>15. CASE SettleCancellation(c)
    <3> DEFINE gone == OwnerCascade(c) \cup {c}
    <3>1. /\ c \in Owned /\ c # Root /\ Parent[c] \in Cards /\ Parent[c] # c /\ rt \in UpStatus /\ halt = "none"
      BY <2>15, AuthorityIsUp, TreeAssumption
         DEF SettleCancellation, CancellationDue, HasAuthority, ReleaseChild, Owned, ActInv
    <3>2. Uncommitted' = Uncommitted \ {c}
      BY <2>15, <3>1 DEF SettleCancellation, ReleaseChild, ReleaseOwner, Uncommitted, Owned, TypeOK
    <3>3. RunningSet(CancelCards(card, gone)) = RunningSet(card) \ {c}
      BY <3>1, CancelRunning, OwnerCascadeRests DEF TypeOK, ActInv
    <3>4. RunningSet(card') = RunningSet(card) \ {c}
      <4>1. CancelCards(card, gone) \in [Cards -> Status]
        BY CancelTypes DEF TypeOK
      <4>2. CASE winner[Parent[c]] = "cancel"
        BY <2>15, <3>3, <4>2 DEF SettleCancellation, CancelCascade
      <4>3. CASE PropagateFromParent(CancelCards(card, gone), c, gone)
        <5>1. card' \in Flips(CancelCards(card, gone), Parent[c])
          BY <3>1, <4>1, <4>3, ParentPropagates
        <5> QED
          BY <3>1, <3>3, <4>1, <5>1, FlipsAreMild
      <4> QED
        BY <2>15, <4>2, <4>3 DEF SettleCancellation
    <3>5. child[c] = NoCard
      BY <2>15 DEF SettleCancellation, CancellationDue
    <3> QED
      BY <2>15, <3>1, <3>2, <3>4, <3>5, RunReleases DEF SettleCancellation
  <2>16. CASE SettleCancellationFails(c)
    <3>1. RunningSet(card') = RunningSet(card)
      BY <2>16, OwnerCascadeQuiet DEF SettleCancellationFails, CancelCascade, CancellationDue, ActInv
    <3> QED
      BY <2>16, <3>1, RunQuiet DEF SettleCancellationFails, BeginHalt, UpStatus
  <2>17. CASE CascadeFails(c)
    <3>1. PICK S \in CascadePrefixes(OwnerCascade(c)) : card' = CancelCards(card, S)
      BY <2>17 DEF CascadeFails, CascadeCutShort, CancelCascade
    <3>2. RunningSet(card') = RunningSet(card)
      BY <2>17, <3>1, OwnerCascadeQuiet DEF CascadeFails, CascadePrefixes, CancellationDue, ActInv
    <3> QED
      BY <2>17, <3>2, RunQuiet DEF CascadeFails, CancellationDue, Uncommitted, Owned, TypeOK
  <2>18. CASE Notify(c)
    BY <2>18, RunQuiet DEF Notify, Uncommitted, Owned, TypeOK
  <2>19. CASE UrgentQueues(c)
    BY <2>19, RunQuiet DEF UrgentQueues, Uncommitted, Owned, TypeOK
  <2>20. CASE UrgentInterrupts(c)
    <3>0. PICK b \in UrgentBoundary(c) :
            LET below == Suffix(b) \ {b}
                claimed == IF c = Root THEN Suffix(b) ELSE below
            IN /\ UrgentClaimable(b)
               /\ phase' = Upd(phase, claimed, "settling")
               /\ proc' = [Upd(proc, below, "stopping") EXCEPT
                             ![b] = IF c = Root THEN "stopping" ELSE "retiring"]
      BY <2>20 DEF UrgentInterrupts
    <3>1. /\ b \in Owned /\ b \in Cards /\ proc[b] # "settled"
          /\ \A d \in Suffix(b) : d \in Owned /\ proc[d] # "settled"
      BY <3>0, BoundaryIsLive DEF UrgentClaimable, Suffix, Live, ActInv, ClaimInv
    <3>2. Uncommitted' = Uncommitted
      BY <3>0, <3>1 DEF Uncommitted, Upd, Owned, TypeOK
    <3> QED
      BY <2>20, <3>2, RunQuiet DEF UrgentInterrupts
  <2>21. CASE StopInterruptedChild(c)
    <3>1. /\ c \in Owned /\ c # Root /\ Parent[c] \in Cards /\ Parent[c] # c /\ rt \in UpStatus /\ halt = "none"
          /\ child[c] = NoCard
      BY <2>21, AuthorityIsUp, TreeAssumption
         DEF StopInterruptedChild, InterruptionDue, HasAuthority, ReleaseChild, Owned, ActInv
    <3>2. Uncommitted' = Uncommitted \ {c}
      BY <2>21, <3>1 DEF StopInterruptedChild, ReleaseChild, ReleaseOwner, Uncommitted, Owned, TypeOK
    <3>3. RunningSet(card') = RunningSet(card) \ {c}
      BY <2>21 DEF StopInterruptedChild, RunningSet, TypeOK
    <3> QED
      BY <2>21, <3>1, <3>2, <3>3, RunReleases DEF StopInterruptedChild
  <2>22. CASE StopInterruptedFails(c)
    BY <2>22, RunQuiet DEF StopInterruptedFails, BeginHalt, UpStatus
  <2>23. CASE NodeInterruptionSettles(c)
    BY <2>23, RunQuiet DEF NodeInterruptionSettles, StartProcs, Uncommitted, Owned, TypeOK
  <2>24. CASE AnalystReopen(c)
    BY <2>24, AnalystPropagates, RunQuiet DEF Uncommitted, Owned
  <2>25. CASE AnalystRecordEdit(c)
    BY <2>25, AnalystPropagates, RunQuiet DEF Uncommitted, Owned
  <2>26. ASSUME NEW o \in Outcomes, ClaimResult(c, o) PROVE RunningInv'
    BY <2>26, RunQuiet DEF ClaimResult, Uncommitted, Owned, TypeOK
  <2>27. ASSUME NEW o \in Outcomes, SettleResult(c, o) PROVE RunningInv'
    <3>1. c \in Owned /\ child[c] = NoCard /\ rt \in UpStatus /\ halt = "none"
      BY <2>27, AuthorityIsUp DEF SettleResult, MaySettle, HasAuthority, ActInv
    <3>2. RunningSet(card') = RunningSet(card) \ {c}
      BY <2>27 DEF SettleResult, Outcomes, RunningSet, TypeOK
    <3>3. Uncommitted' = Uncommitted \ {c}
      BY <2>27, <3>1 DEF SettleResult, Uncommitted, Owned, TypeOK
    <3> QED
      BY <2>27, <3>1, <3>2, <3>3, RunReleases DEF SettleResult
  <2> QED
    BY <1>b, <2>1, <2>2, <2>3, <2>4, <2>5, <2>6, <2>7, <2>8, <2>9, <2>10, <2>11, <2>12,
       <2>13, <2>14, <2>15, <2>16, <2>17, <2>18, <2>19, <2>20, <2>21, <2>22, <2>23,
       <2>24, <2>25, <2>26, <2>27 DEF CardStep
<1>c. ASSUME NEW p \in Cards, NEW c \in Cards, PlannerStep(p, c) PROVE RunningInv'
  <2>1. CASE ActivateChild(p, c)
    <3>1. /\ c \notin Owned /\ p \in Owned /\ p # c /\ child[p] = NoCard /\ halt = "none" /\ c # Root
          /\ proc[p] = "node" /\ Parent[c] = p /\ Anc[c] = {p} \cup Anc[p] /\ c \notin Anc[c]
      BY <2>1, TreeAssumption DEF ActivateChild, MayActivate, ParentActs, Owned, InductiveInv,
         FrontierInv, UnownedInv
    <3>2. rt \in UpStatus /\ rt' = rt /\ p \in RunningSet(card)
      BY <2>1, <3>1, AuthorityIsUp DEF ActivateChild, ActInv, RunningInv
    <3>3. RunningSet(card') = RunningSet(card) \cup {c}
      BY <2>1 DEF ActivateChild, RunningSet, TypeOK
    <3>4. Uncommitted' = Uncommitted \cup {c}
      BY <2>1, <3>1 DEF ActivateChild, StartProcs, Uncommitted, Owned, TypeOK
    <3>5. \A d \in RunningSet(card) \ {Root} : Parent[d] # p
      BY <3>1, <3>2 DEF RunningInv, InductiveInv, LinkInv, Owned, RunningSet, TypeOK
    <3>6. ChainOf(RunningSet(card'))
      BY <3>1, <3>2, <3>3, <3>5 DEF RunningInv, ChainOf
    <3> QED
      BY <3>2, <3>3, <3>4, <3>6 DEF RunningInv, ChainOf, Uncommitted
  <2>2. CASE ActivateChildFails(p, c)
    BY <2>2, RunQuiet DEF ActivateChildFails, BeginHalt, UpStatus
  <2>3. CASE PlannerReopen(p, c)
    <3>1. RunningSet(card') = RunningSet(card)
      BY <2>3 DEF PlannerReopen, RunningSet, TypeOK
    <3> QED
      BY <2>3, <3>1, RunQuiet DEF PlannerReopen, Uncommitted, Owned
  <2>4. CASE PlannerReopenFails(p, c)
    BY <2>4, RunQuiet DEF PlannerReopenFails, BeginHalt, UpStatus
  <2>5. CASE PlannerCancel(p, c)
    <3>1. RunningSet(card') = RunningSet(card)
      BY <2>5, PlannerCancels, CascadeQuiet DEF CascadePrefixes, RunningInv, ChainOf, TypeOK
    <3> QED
      BY <2>5, <3>1, RunQuiet DEF PlannerCancel, Uncommitted, Owned
  <2>6. CASE RecordMutation(p, c)
    <3>1. RunningSet(card') = RunningSet(card)
      BY <2>6 DEF RecordMutation, RunningSet, TypeOK
    <3> QED
      BY <2>6, <3>1, RunQuiet DEF RecordMutation, Uncommitted, Owned
  <2> QED
    BY <1>c, <2>1, <2>2, <2>3, <2>4, <2>5, <2>6 DEF PlannerStep
<1>d. CASE UNCHANGED vars
  BY <1>d, RunQuiet DEF Uncommitted, Owned
<1> QED
  BY <1>a, <1>b, <1>c, <1>d DEF Next

-----------------------------------------------------------------------------
(* The gate *)

\* A step that leaves the gate, the run and the parked turn.
LEMMA GateQuiet ==
  ASSUME GateInv, UNCHANGED <<gate, run, rt>>,
         \A d \in Cards : proc'[d] = "parked" <=> proc[d] = "parked"
  PROVE  GateInv'
BY DEF GateInv

\* A halt empties the gate: its waiter is aborted and no processor is parked.
LEMMA GateHalt ==
  ASSUME TypeOK, InductiveInv, GateInv, NEW t \in Triggers, NEW ph, NEW ls,
         BeginHalt(t, ph, ls), \A d \in Owned : ph[d] # "none", gate.onParked # NoRun => run' = run
  PROVE  GateInv'
<1>1. \A d \in Cards : proc'[d] # "parked"
  BY DEF BeginHalt, InductiveInv, UnownedInv
<1> QED
  BY <1>1 DEF BeginHalt, HaltedGate, WaiterAborted, Closed, GateInv, TypeOK, Gates

\* Every action keeps the gate and the runtime in agreement.
LEMMA GateStep ==
  ASSUME TypeOK, InductiveInv, ActInv, GateInv, [Next]_vars
  PROVE  GateInv'
<1> USE RootFacts DEF vars, cardVars, runVars, ownVars, haltVars
<1>a. ASSUME RuntimeStep PROVE GateInv'
  <2>1. CASE Startup
    BY <2>1 DEF Startup, GateInv, Closed, TypeOK, Gates
  <2>2. CASE StartupFails
    BY <2>2 DEF StartupFails, GateInv, Closed, TypeOK, Gates
  <2>3. CASE StartProject
    BY <2>3 DEF StartProject, MayStart, GateInv
  <2>4. CASE StartProjectFails
    <3>1. gate.onParked = NoRun
      BY <2>4 DEF StartProjectFails, MayStart, GateInv
    <3>2. PICK r \in RunIds : run' = r
      BY <2>4 DEF StartProjectFails
    <3>3. BeginHalt("publication_failure", [phase EXCEPT ![Root] = "prepared_root"], lease)
      BY <2>4 DEF StartProjectFails
    <3>4. \A d \in Owned : [phase EXCEPT ![Root] = "prepared_root"][d] # "none"
      BY DEF Owned, TypeOK
    <3> QED
      BY <3>1, <3>3, <3>4, GateHalt DEF Triggers
  <2>5. CASE Launch
    <3>1. Owned = {Root} /\ proc[Root] = "none"
      BY <2>5, RootAlone DEF Launch, InductiveInv, FrontierInv, Live, Owned
    <3>2. \A d \in Cards : proc'[d] # "parked"
      BY <2>5, <3>1 DEF Launch, StartProcs, InductiveInv, UnownedInv, TypeOK
    <3> QED
      BY <2>5, <3>2 DEF Launch, GateInv, Opened, IsOpen, TypeOK, Gates
  <2>6. CASE StopProject
    <3>1. CASE run # NoRun
      BY <2>6, <3>1, GateHalt DEF StopProject, Triggers, TypeOK, Owned
    <3>2. CASE run = NoRun
      BY <2>6, <3>2, GateQuiet DEF StopProject
    <3> QED
      BY <3>1, <3>2
  <2>7. CASE CloseApplication
    <3>1. CASE run # NoRun /\ halt = "none"
      BY <2>7, <3>1, GateHalt DEF CloseApplication, Triggers, TypeOK, Owned
    <3>2. CASE ~(run # NoRun /\ halt = "none")
      BY <2>7, <3>2, GateQuiet DEF CloseApplication
    <3> QED
      BY <3>1, <3>2
  <2>8. CASE HaltStops
    <3>1. \A d \in Cards : proc'[d] # "parked"
      BY <2>8 DEF HaltStops, HaltSettled, Upd, InductiveInv, UnownedInv, Owned
    <3> QED
      BY <2>8, <3>1 DEF HaltStops, CanCompleteRun, CompletedRun, GateInv, TypeOK, Gates
  <2>9. CASE HaltErrors
    BY <2>9 DEF HaltErrors, GateInv
  <2>10. CASE Crash
    BY <2>10 DEF Crash, ProcessRestarts, GateInv, NewGate
  <2>11. CASE CrashMidPublication
    BY <2>11 DEF CrashMidPublication, ProcessRestarts, GateInv, NewGate
  <2>12. CASE Pause
    BY <2>12 DEF Pause, RequestPause, PauseRequested, GateInv, TypeOK, Gates
  <2>13. CASE Resume
    BY <2>13 DEF Resume, OpenGate, Opened, IsOpen, GateInv, TypeOK, Gates
  <2>14. CASE ReleaseSettledRoot
    <3>1. \A d \in Cards : proc'[d] = "parked" <=> proc[d] = "parked"
      BY <2>14 DEF ReleaseSettledRoot, TypeOK
    <3> QED
      BY <2>14, <3>1 DEF ReleaseSettledRoot, CanCompleteRun, CompletedRun, GateInv, TypeOK, Gates
  <2>15. CASE ReplaceInterruptedRoot
    BY <2>15, GateQuiet DEF ReplaceInterruptedRoot, InterruptionDue, StartProcs, TypeOK
  <2>16. CASE ReactivateRootFails
    <3>1. \A d \in Owned : [phase EXCEPT ![Root] = "prepared_root"][d] # "none"
      BY DEF Owned, TypeOK
    <3> QED
      BY <2>16, <3>1, GateHalt DEF ReactivateRootFails, Triggers
  <2>17. CASE GcBegin
    <3>1. CASE rt = "running"
      <4>1. RequestPause /\ UNCHANGED <<run, proc>>
        BY <2>17, <3>1 DEF GcBegin
      <4> QED
        BY <4>1 DEF RequestPause, PauseRequested, GateInv, TypeOK, Gates
    <3>2. CASE rt # "running"
      BY <2>17, <3>2, GateQuiet DEF GcBegin
    <3> QED
      BY <3>1, <3>2
  <2>18. CASE GcCollect
    BY <2>18, GateQuiet DEF GcCollect, TypeOK
  <2>19. CASE GcFinish
    <3>1. CASE OpenGate
      BY <2>19, <3>1 DEF GcFinish, OpenGate, Opened, IsOpen, GateInv, TypeOK, Gates
    <3>2. CASE UNCHANGED <<rt, gate, proc>>
      BY <2>19, <3>2, GateQuiet DEF GcFinish
    <3> QED
      BY <2>19, <3>1, <3>2 DEF GcFinish
  <2> QED
    BY <1>a, <2>1, <2>2, <2>3, <2>4, <2>5, <2>6, <2>7, <2>8, <2>9, <2>10, <2>11, <2>12,
       <2>13, <2>14, <2>15, <2>16, <2>17, <2>18, <2>19 DEF RuntimeStep
<1>b. ASSUME NEW c \in Cards, CardStep(c) PROVE GateInv'
  <2>1. CASE RuntimeFailure(c)
    BY <2>1, GateHalt DEF RuntimeFailure, Triggers, TypeOK, Owned
  <2>2. CASE UrgentTakenOver(c)
    BY <2>2, GateQuiet DEF UrgentTakenOver, TypeOK
  <2>3. CASE PassGate(c)
    BY <2>3, GateQuiet DEF PassGate, TypeOK
  <2>4. CASE ParkAtGate(c)
    <3>1. \E d \in Cards : proc'[d] = "parked"
      BY <2>4 DEF ParkAtGate, TypeOK
    <3>2. rt' = rt \/ (rt = "pausing" /\ rt' = "paused")
      BY <2>4 DEF ParkAtGate, PauseCallback
    <3>3. rt # "running"
      BY <2>4 DEF ParkAtGate, GateInv
    <3> QED
      BY <2>4, <3>1, <3>2, <3>3 DEF ParkAtGate, Parked, GateInv, TypeOK, Gates
  <2>5. CASE NextTurn(c)
    BY <2>5, GateQuiet DEF NextTurn, TypeOK
  <2>6. CASE NodeHandoff(c)
    BY <2>6, GateQuiet DEF NodeHandoff, TypeOK
  <2>7. CASE NextNode(c)
    BY <2>7, GateQuiet DEF NextNode, StartProcs, TypeOK
  <2>8. CASE DeliverNotifications(c)
    BY <2>8, GateQuiet DEF DeliverNotifications, TypeOK
  <2>9. CASE SettleResultFails(c)
    <3>1. \A d \in Owned : [phase EXCEPT ![c] = "settling"][d] # "none"
      BY DEF Owned, TypeOK
    <3> QED
      BY <2>9, <3>1, GateHalt DEF SettleResultFails, Triggers
  <2>10. CASE ReleaseSettledChild(c)
    <3>1. \A d \in Cards : proc'[d] = "parked" <=> proc[d] = "parked"
      BY <2>10, TreeAssumption DEF ReleaseSettledChild, ReleaseChild, CancellationDue, InterruptionDue, TypeOK
    <3> QED
      BY <2>10, <3>1, GateQuiet DEF ReleaseSettledChild, ReleaseChild
  <2>11. CASE JoinActivation(c)
    BY <2>11, GateQuiet DEF JoinActivation, MayJoin, TypeOK
  <2>12. CASE JoinFails(c)
    <3>1. CASE halt = "none"
      BY <2>12, <3>1, GateHalt DEF JoinFails, Triggers, TypeOK, Owned
    <3>2. CASE halt # "none"
      <4>1. \A d \in Cards : proc'[d] = "parked" <=> proc[d] = "parked"
        BY <2>12, <3>2 DEF JoinFails, MayJoin, TypeOK
      <4> QED
        BY <2>12, <3>2, <4>1, GateQuiet DEF JoinFails
    <3> QED
      BY <3>1, <3>2
  <2>13. CASE CancelStored(c)
    BY <2>13, GateQuiet DEF CancelStored, TypeOK
  <2>14. CASE CancelOwned(c)
    <3>1. CASE \E d \in Suffix(c) : proc[d] = "parked"
      <4>1. \A d \in Cards : proc'[d] # "parked"
        BY <2>14, <3>1, OneExecutes DEF CancelOwned, Upd, Suffix, Owned
      <4> QED
        BY <2>14, <3>1, <4>1 DEF CancelOwned, WaiterAborted, GateInv, IsOpen, TypeOK, Gates
    <3>2. CASE ~ \E d \in Suffix(c) : proc[d] = "parked"
      <4>1. \A d \in Cards : proc'[d] = "parked" <=> proc[d] = "parked"
        BY <2>14, <3>2 DEF CancelOwned, Upd
      <4> QED
        BY <2>14, <3>2, <4>1, GateQuiet DEF CancelOwned
    <3> QED
      BY <3>1, <3>2
  <2>15. CASE SettleCancellation(c)
    <3>1. \A d \in Cards : proc'[d] = "parked" <=> proc[d] = "parked"
      BY <2>15, TreeAssumption DEF SettleCancellation, ReleaseChild, CancellationDue, InterruptionDue, TypeOK
    <3> QED
      BY <2>15, <3>1, GateQuiet DEF SettleCancellation, ReleaseChild
  <2>16. CASE SettleCancellationFails(c)
    BY <2>16, GateHalt DEF SettleCancellationFails, Triggers, TypeOK, Owned
  <2>17. CASE CascadeFails(c)
    BY <2>17, GateQuiet DEF CascadeFails, CancellationDue, TypeOK
  <2>18. CASE Notify(c)
    BY <2>18, GateQuiet DEF Notify, TypeOK
  <2>19. CASE UrgentQueues(c)
    BY <2>19, GateQuiet DEF UrgentQueues, TypeOK
  <2>20. CASE UrgentInterrupts(c)
    <3>1. \A d \in Cards : proc[d] # "parked"
      BY <2>20 DEF UrgentInterrupts, UrgentClaimable, GateInv
    <3>2. PICK b \in UrgentBoundary(c) :
            proc' = [Upd(proc, Suffix(b) \ {b}, "stopping") EXCEPT
                       ![b] = IF c = Root THEN "stopping" ELSE "retiring"]
      BY <2>20 DEF UrgentInterrupts
    <3>3. \A d \in Cards : proc'[d] # "parked"
      BY <3>1, <3>2 DEF Upd
    <3> QED
      BY <2>20, <3>1, <3>3, GateQuiet DEF UrgentInterrupts
  <2>21. CASE StopInterruptedChild(c)
    <3>1. \A d \in Cards : proc'[d] = "parked" <=> proc[d] = "parked"
      BY <2>21, TreeAssumption DEF StopInterruptedChild, ReleaseChild, CancellationDue, InterruptionDue, TypeOK
    <3> QED
      BY <2>21, <3>1, GateQuiet DEF StopInterruptedChild, ReleaseChild
  <2>22. CASE StopInterruptedFails(c)
    BY <2>22, GateHalt DEF StopInterruptedFails, Triggers, TypeOK, Owned
  <2>23. CASE NodeInterruptionSettles(c)
    BY <2>23, GateQuiet DEF NodeInterruptionSettles, StartProcs, TypeOK
  <2>24. CASE AnalystReopen(c)
    BY <2>24, GateQuiet DEF AnalystReopen, TypeOK
  <2>25. CASE AnalystRecordEdit(c)
    <3>1. UNCHANGED <<gate, rt, run, proc>>
      BY <2>25 DEF AnalystRecordEdit
    <3> QED
      BY <3>1, GateQuiet
  <2>26. ASSUME NEW o \in Outcomes, ClaimResult(c, o) PROVE GateInv'
    BY <2>26, GateQuiet DEF ClaimResult, TypeOK
  <2>27. ASSUME NEW o \in Outcomes, SettleResult(c, o) PROVE GateInv'
    BY <2>27, GateQuiet DEF SettleResult, OutcomeReady, TypeOK
  <2> QED
    BY <1>b, <2>1, <2>2, <2>3, <2>4, <2>5, <2>6, <2>7, <2>8, <2>9, <2>10, <2>11, <2>12,
       <2>13, <2>14, <2>15, <2>16, <2>17, <2>18, <2>19, <2>20, <2>21, <2>22, <2>23,
       <2>24, <2>25, <2>26, <2>27 DEF CardStep
<1>c. ASSUME NEW p \in Cards, NEW c \in Cards, PlannerStep(p, c) PROVE GateInv'
  <2>1. CASE ActivateChild(p, c)
    BY <2>1, GateQuiet DEF ActivateChild, MayActivate, ParentActs, StartProcs, InductiveInv,
       UnownedInv, TypeOK
  <2>2. CASE ActivateChildFails(p, c)
    <3>1. \A d \in Owned : [phase EXCEPT ![c] = "child_admission"][d] # "none"
      BY DEF Owned, TypeOK
    <3> QED
      BY <2>2, <3>1, GateHalt DEF ActivateChildFails, Triggers
  <2>3. CASE PlannerReopen(p, c)
    BY <2>3, GateQuiet DEF PlannerReopen, TypeOK
  <2>4. CASE PlannerReopenFails(p, c)
    BY <2>4, GateHalt DEF PlannerReopenFails, Triggers, TypeOK, Owned
  <2>5. CASE PlannerCancel(p, c)
    BY <2>5, GateQuiet DEF PlannerCancel, TypeOK
  <2>6. CASE RecordMutation(p, c)
    BY <2>6, GateQuiet DEF RecordMutation, TypeOK
  <2> QED
    BY <1>c, <2>1, <2>2, <2>3, <2>4, <2>5, <2>6 DEF PlannerStep
<1>d. CASE UNCHANGED vars
  BY <1>d DEF GateInv
<1> QED
  BY <1>a, <1>b, <1>c, <1>d DEF Next

-----------------------------------------------------------------------------
(* The pause *)

\* An owner that waits for a child with nothing claimed is what stands above an
\* activation at the gate: no claim and no interruption is under way above it.
LEMMA AboveWaits ==
  ASSUME TypeOK, InductiveInv, ActInv, NEW c \in Owned, proc[c] \in {"ready", "parked"},
         NEW d \in Owned, d # c
  PROVE  Live(d) /\ proc[d] = "waiting"
<1>1. halt = "none" /\ child[c] = NoCard /\ Live(c) /\ c \in Cards /\ d \in Cards
  BY DEF ActInv, HaltInv, ClaimInv, InductiveInv, FrontierInv, Owned
<1>2. c = cur
  BY <1>1, LeafIsCurrent DEF InductiveInv, ActInv
<1>3. d \in Anc[c] /\ child[d] # NoCard
  BY <1>1, <1>2, LeafIsCurrent DEF InductiveInv, ActInv, PathInv, PathToRoot
<1>4. winner[d] = "open" /\ proc[d] # "retiring"
  BY <1>1, <1>3 DEF ActInv, SuffixInv, Live
<1>5. proc[d] = "waiting"
  BY <1>1, <1>3, <1>4 DEF InductiveInv, FrontierInv, ActInv, ClaimInv, TypeOK, Procs
<1> QED
  BY <1>1, <1>5 DEF ActInv, ClaimInv

\* A step that leaves owners, processors, claims and status.
LEMMA PausedQuiet ==
  ASSUME PausedInv, UNCHANGED <<rt, proc, winner>>, Owned' = Owned
  PROVE  PausedInv'
BY DEF PausedInv

\* Nothing sets a turn or an interruption going on a paused project.
LEMMA PausedStep ==
  ASSUME TypeOK, InductiveInv, ActInv, GateInv, PausedInv, [Next]_vars
  PROVE  PausedInv'
<1> USE RootFacts DEF vars, cardVars, runVars, ownVars, haltVars
<1>a. ASSUME RuntimeStep PROVE PausedInv'
  <2>1. CASE Startup
    BY <2>1 DEF Startup, PausedInv
  <2>2. CASE StartupFails
    BY <2>2, PausedQuiet DEF StartupFails, Owned, TypeOK
  <2>3. CASE StartProject
    BY <2>3 DEF StartProject, PausedInv
  <2>4. CASE StartProjectFails
    BY <2>4 DEF StartProjectFails, BeginHalt, PausedInv
  <2>5. CASE Launch
    BY <2>5 DEF Launch, PausedInv
  <2>6. CASE StopProject
    BY <2>6 DEF StopProject, BeginHalt, PausedInv
  <2>7. CASE CloseApplication
    BY <2>7 DEF CloseApplication, BeginHalt, PausedInv, Owned
  <2>8. CASE HaltStops
    BY <2>8 DEF HaltStops, PausedInv
  <2>9. CASE HaltErrors
    BY <2>9 DEF HaltErrors, PausedInv
  <2>10. CASE Crash
    BY <2>10 DEF Crash, ProcessRestarts, PausedInv
  <2>11. CASE CrashMidPublication
    BY <2>11 DEF CrashMidPublication, ProcessRestarts, PausedInv
  <2>12. CASE Pause
    BY <2>12 DEF Pause, RequestPause, PausedInv, Owned
  <2>13. CASE Resume
    BY <2>13 DEF Resume, OpenGate, PausedInv
  <2>14. CASE ReleaseSettledRoot
    BY <2>14 DEF ReleaseSettledRoot, PausedInv
  <2>15. CASE ReplaceInterruptedRoot
    BY <2>15 DEF ReplaceInterruptedRoot, InterruptionDue, HasAuthority, PausedInv
  <2>16. CASE ReactivateRootFails
    BY <2>16 DEF ReactivateRootFails, BeginHalt, PausedInv
  <2>17. CASE GcBegin
    BY <2>17 DEF GcBegin, RequestPause, PausedInv, Owned
  <2>18. CASE GcCollect
    BY <2>18, PausedQuiet DEF GcCollect, Owned, TypeOK
  <2>19. CASE GcFinish
    BY <2>19 DEF GcFinish, OpenGate, PausedInv, Owned
  <2> QED
    BY <1>a, <2>1, <2>2, <2>3, <2>4, <2>5, <2>6, <2>7, <2>8, <2>9, <2>10, <2>11, <2>12,
       <2>13, <2>14, <2>15, <2>16, <2>17, <2>18, <2>19 DEF RuntimeStep
<1>b. ASSUME NEW c \in Cards, CardStep(c) PROVE PausedInv'
  <2>1. CASE RuntimeFailure(c)
    BY <2>1 DEF RuntimeFailure, BeginHalt, PausedInv
  <2>2. CASE UrgentTakenOver(c)
    BY <2>2, PausedQuiet DEF UrgentTakenOver, Owned, TypeOK
  <2>3. CASE PassGate(c)
    BY <2>3 DEF PassGate, IsOpen, GateInv, PausedInv
  <2>4. CASE ParkAtGate(c)
    <3>1. CASE rt' = rt
      BY <2>4, <3>1 DEF ParkAtGate, PausedInv, Owned, TypeOK
    <3>2. CASE rt' # rt
      <4>1. /\ c \in Owned /\ proc[c] \in {"ready", "parked"}
        BY <2>4 DEF ParkAtGate, InductiveInv, UnownedInv
      <4>2. \A d \in Owned \ {c} : Live(d) /\ proc[d] = "waiting"
        BY <4>1, AboveWaits
      <4>3. Live(c)
        BY <4>1 DEF ActInv, ClaimInv, HaltInv
      <4> QED
        BY <2>4, <4>2, <4>3 DEF ParkAtGate, PausedInv, Owned, Live, TypeOK
    <3> QED
      BY <3>1, <3>2
  <2>5. CASE NextTurn(c)
    <3>1. rt # "paused" \/ c \notin Owned
      BY <2>5 DEF NextTurn, PausedInv, Owned
    <3>2. c \in Owned
      BY <2>5 DEF NextTurn, InductiveInv, UnownedInv
    <3> QED
      BY <2>5, <3>1, <3>2 DEF NextTurn, PausedInv
  <2>6. CASE NodeHandoff(c)
    <3>1. rt # "paused" \/ c \notin Owned
      BY <2>6 DEF NodeHandoff, PausedInv, Owned
    <3>2. c \in Owned
      BY <2>6 DEF NodeHandoff, InductiveInv, UnownedInv
    <3> QED
      BY <2>6, <3>1, <3>2 DEF NodeHandoff, PausedInv
  <2>7. CASE NextNode(c)
    <3>1. rt # "paused" \/ c \notin Owned
      BY <2>7 DEF NextNode, PausedInv, Owned
    <3>2. c \in Owned
      BY <2>7 DEF NextNode, InductiveInv, UnownedInv
    <3> QED
      BY <2>7, <3>1, <3>2 DEF NextNode, PausedInv
  <2>8. CASE DeliverNotifications(c)
    BY <2>8, PausedQuiet DEF DeliverNotifications, Owned, TypeOK
  <2>9. CASE SettleResultFails(c)
    BY <2>9 DEF SettleResultFails, BeginHalt, PausedInv
  <2>10. CASE ReleaseSettledChild(c)
    <3>1. c \in Owned /\ c # Root /\ Parent[c] \in Cards /\ Parent[c] # c
      BY <2>10, TreeAssumption DEF ReleaseSettledChild, ReleaseChild, HasAuthority, CancellationDue, InterruptionDue, Owned
    <3>2. \A d \in Owned' : /\ d \in Owned /\ d # c /\ winner'[d] = winner[d]
                            /\ proc'[d] = proc[d] \/ proc'[d] = "ready"
      BY <2>10, <3>1 DEF ReleaseSettledChild, ReleaseChild, ReleaseOwner, Owned, TypeOK
    <3> QED
      BY <2>10, <3>2 DEF ReleaseSettledChild, PausedInv
  <2>11. CASE JoinActivation(c)
    BY <2>11 DEF JoinActivation, PausedInv, Owned, TypeOK
  <2>12. CASE JoinFails(c)
    BY <2>12 DEF JoinFails, BeginHalt, PausedInv, Owned, TypeOK
  <2>13. CASE CancelStored(c)
    BY <2>13, PausedQuiet DEF CancelStored, Owned, TypeOK
  <2>14. CASE CancelOwned(c)
    <3>1. \A d \in Owned' : d \in Owned
      BY <2>14 DEF CancelOwned, Upd, Owned, Suffix
    <3> QED
      BY <2>14, <3>1 DEF CancelOwned, Upd, PausedInv, Owned
  <2>15. CASE SettleCancellation(c)
    <3>1. c \in Owned /\ c # Root /\ Parent[c] \in Cards /\ Parent[c] # c
      BY <2>15, TreeAssumption DEF SettleCancellation, ReleaseChild, HasAuthority, CancellationDue, InterruptionDue, Owned
    <3>2. \A d \in Owned' : /\ d \in Owned /\ d # c /\ winner'[d] = winner[d]
                            /\ proc'[d] = proc[d] \/ proc'[d] = "ready"
      BY <2>15, <3>1 DEF SettleCancellation, ReleaseChild, ReleaseOwner, Owned, TypeOK
    <3> QED
      BY <2>15, <3>2 DEF SettleCancellation, PausedInv
  <2>16. CASE SettleCancellationFails(c)
    BY <2>16 DEF SettleCancellationFails, BeginHalt, PausedInv
  <2>17. CASE CascadeFails(c)
    BY <2>17 DEF CascadeFails, PausedInv, Owned, TypeOK
  <2>18. CASE Notify(c)
    BY <2>18, PausedQuiet DEF Notify, Owned, TypeOK
  <2>19. CASE UrgentQueues(c)
    BY <2>19, PausedQuiet DEF UrgentQueues, Owned, TypeOK
  <2>20. CASE UrgentInterrupts(c)
    BY <2>20 DEF UrgentInterrupts, UrgentClaimable, PausedInv
  <2>21. CASE StopInterruptedChild(c)
    <3>1. c \in Owned /\ c # Root /\ Parent[c] \in Cards /\ Parent[c] # c
      BY <2>21, TreeAssumption DEF StopInterruptedChild, ReleaseChild, HasAuthority, CancellationDue, InterruptionDue, Owned
    <3>2. \A d \in Owned' : /\ d \in Owned /\ d # c /\ winner'[d] = winner[d]
                            /\ proc'[d] = proc[d] \/ proc'[d] = "ready"
      BY <2>21, <3>1 DEF StopInterruptedChild, ReleaseChild, ReleaseOwner, Owned, TypeOK
    <3> QED
      BY <2>21, <3>2 DEF StopInterruptedChild, PausedInv
  <2>22. CASE StopInterruptedFails(c)
    BY <2>22 DEF StopInterruptedFails, BeginHalt, PausedInv
  <2>23. CASE NodeInterruptionSettles(c)
    <3>1. rt = "paused" => proc[c] # "retiring"
      BY <2>23 DEF NodeInterruptionSettles, NodeInterruptionDue, HasAuthority, PausedInv
    <3> QED
      BY <2>23, <3>1 DEF NodeInterruptionSettles, PausedInv, Owned, TypeOK
  <2>24. CASE AnalystReopen(c)
    BY <2>24, PausedQuiet DEF AnalystReopen, Owned, TypeOK
  <2>25. CASE AnalystRecordEdit(c)
    <3>1. UNCHANGED <<rt, phase, proc, winner>>
      BY <2>25 DEF AnalystRecordEdit
    <3> QED
      BY <3>1, PausedQuiet DEF Owned
  <2>26. ASSUME NEW o \in Outcomes, ClaimResult(c, o) PROVE PausedInv'
    <3>1. rt # "paused" \/ c \notin Owned
      BY <2>26 DEF ClaimResult, PausedInv, Owned
    <3>2. c \in Owned
      BY <2>26 DEF ClaimResult, InductiveInv, UnownedInv
    <3> QED
      BY <2>26, <3>1, <3>2 DEF ClaimResult, PausedInv
  <2>27. ASSUME NEW o \in Outcomes, SettleResult(c, o) PROVE PausedInv'
    BY <2>27 DEF SettleResult, MaySettle, HasAuthority, PausedInv, Owned, TypeOK
  <2> QED
    BY <1>b, <2>1, <2>2, <2>3, <2>4, <2>5, <2>6, <2>7, <2>8, <2>9, <2>10, <2>11, <2>12,
       <2>13, <2>14, <2>15, <2>16, <2>17, <2>18, <2>19, <2>20, <2>21, <2>22, <2>23,
       <2>24, <2>25, <2>26, <2>27 DEF CardStep
<1>c. ASSUME NEW p \in Cards, NEW c \in Cards, PlannerStep(p, c) PROVE PausedInv'
  <2>1. CASE ActivateChild(p, c)
    <3>1. p \in Owned /\ proc[p] = "node"
      BY <2>1 DEF ActivateChild, MayActivate, ParentActs, Owned
    <3> QED
      BY <2>1, <3>1 DEF ActivateChild, PausedInv
  <2>2. CASE ActivateChildFails(p, c)
    BY <2>2 DEF ActivateChildFails, BeginHalt, PausedInv
  <2>3. CASE PlannerReopen(p, c)
    BY <2>3, PausedQuiet DEF PlannerReopen, Owned, TypeOK
  <2>4. CASE PlannerReopenFails(p, c)
    BY <2>4 DEF PlannerReopenFails, BeginHalt, PausedInv
  <2>5. CASE PlannerCancel(p, c)
    BY <2>5, PausedQuiet DEF PlannerCancel, Owned, TypeOK
  <2>6. CASE RecordMutation(p, c)
    BY <2>6, PausedQuiet DEF RecordMutation, Owned, TypeOK
  <2> QED
    BY <1>c, <2>1, <2>2, <2>3, <2>4, <2>5, <2>6 DEF PlannerStep
<1>d. CASE UNCHANGED vars
  BY <1>d DEF PausedInv, Owned
<1> QED
  BY <1>a, <1>b, <1>c, <1>d DEF Next

-----------------------------------------------------------------------------
(* The collection *)

\* A parked turn is the leaf, and everything above it waits for its child.
LEMMA ParkedFrontier ==
  ASSUME TypeOK, InductiveInv, ActInv, GateInv, Owned = {} \/ gate.parked, NEW d \in Owned
  PROVE  Live(d) /\ proc[d] \in {"parked", "waiting"}
<1>1. PICK c \in Cards : proc[c] = "parked"
  BY DEF GateInv
<1>2. c \in Owned
  BY <1>1 DEF InductiveInv, UnownedInv
<1>3. CASE d = c
  BY <1>1, <1>2, <1>3 DEF ActInv, HaltInv, ClaimInv
<1>4. CASE d # c
  BY <1>1, <1>2, <1>4, AboveWaits
<1> QED
  BY <1>3, <1>4

\* A step that leaves everything a collection rests on.
LEMMA GcQuiet ==
  ASSUME GcIsolated, UNCHANGED <<rt, run, halt, gate, gc, phase, proc, winner>>
  PROVE  GcIsolated'
BY DEF GcIsolated, Owned, Live

\* A halt aborts a collection.
LEMMA GcHalt ==
  ASSUME TypeOK, GcIsolated, NEW t, NEW ph, NEW ls, BeginHalt(t, ph, ls)
  PROVE  GcIsolated'
BY DEF BeginHalt, CancelledGc, GcIsolated, TypeOK, GcHolds

\* No processor moves while a collection runs.
LEMMA GcBusy ==
  ASSUME InductiveInv, GcIsolated, NEW c \in Cards, proc[c] \notin {"none", "parked", "waiting"}
  PROVE  ~(gc.phase = "collecting" /\ ~gc.aborted)
BY DEF InductiveInv, UnownedInv, GcIsolated

\* Whatever would disturb a collection aborts it first.
LEMMA GcStep ==
  ASSUME TypeOK, InductiveInv, ActInv, GateInv, GcIsolated, [Next]_vars
  PROVE  GcIsolated'
<1> USE RootFacts DEF vars, cardVars, runVars, ownVars, haltVars
<1>a. ASSUME RuntimeStep PROVE GcIsolated'
  <2>1. CASE Startup
    BY <2>1 DEF Startup, GcIsolated
  <2>2. CASE StartupFails
    BY <2>2 DEF StartupFails, GcIsolated
  <2>3. CASE StartProject
    BY <2>3 DEF StartProject, MayStart, IngressAllowed, GcIsolated
  <2>4. CASE StartProjectFails
    BY <2>4, GcHalt DEF StartProjectFails
  <2>5. CASE Launch
    BY <2>5 DEF Launch, IngressAllowed, GcIsolated
  <2>6. CASE StopProject
    <3>1. gc' = CancelledGc
      BY <2>6 DEF StopProject, BeginHalt
    <3> QED
      BY <3>1 DEF CancelledGc, GcIsolated, TypeOK, GcHolds
  <2>7. CASE CloseApplication
    <3>1. gc' = CancelledGc
      BY <2>7 DEF CloseApplication, BeginHalt
    <3> QED
      BY <3>1 DEF CancelledGc, GcIsolated, TypeOK, GcHolds
  <2>8. CASE HaltStops
    BY <2>8 DEF HaltStops, HaltSettled, GcIsolated
  <2>9. CASE HaltErrors
    BY <2>9 DEF HaltErrors, HaltSettled, GcIsolated
  <2>10. CASE Crash
    BY <2>10 DEF Crash, ProcessRestarts, NoGc, GcIsolated
  <2>11. CASE CrashMidPublication
    BY <2>11 DEF CrashMidPublication, ProcessRestarts, NoGc, GcIsolated
  <2>12. CASE Pause
    <3>1. gc' = gc \/ gc' = [gc EXCEPT !.restore = FALSE]
      BY <2>12 DEF Pause
    <3>2. gc'.phase = gc.phase /\ gc'.aborted = gc.aborted /\ gc'.run = gc.run
      BY <3>1 DEF TypeOK, GcHolds
    <3>3. gc.phase = "collecting" /\ ~gc.aborted => UNCHANGED <<rt, gate>>
      BY <2>12 DEF Pause, RequestPause, GcIsolated
    <3> QED
      BY <2>12, <3>2, <3>3 DEF Pause, GcIsolated, Owned, Live
  <2>13. CASE Resume
    BY <2>13 DEF Resume, IngressAllowed, GcIsolated
  <2>14. CASE ReleaseSettledRoot
    <3>1. ~(gc.phase = "collecting" /\ ~gc.aborted)
      BY <2>14, GcBusy DEF ReleaseSettledRoot
    <3> QED
      BY <2>14, <3>1 DEF ReleaseSettledRoot, GcIsolated, CancelledGc, TypeOK, GcHolds
  <2>15. CASE ReplaceInterruptedRoot
    BY <2>15 DEF ReplaceInterruptedRoot, MayCancel, NotCollecting, GcIsolated
  <2>16. CASE ReactivateRootFails
    BY <2>16, GcHalt DEF ReactivateRootFails
  <2>17. CASE GcBegin
    BY <2>17 DEF GcBegin, GcIsolated
  <2>18. CASE GcCollect
    <3>1. gc'.run = gc.run /\ gc'.phase = "collecting"
      BY <2>18 DEF GcCollect, TypeOK, GcHolds
    <3>2. \A c \in Owned : Live(c) /\ proc[c] \in {"parked", "waiting"}
      BY <2>18, ParkedFrontier DEF GcCollect, GcFrontierSettled
    <3> QED
      BY <2>18, <3>1, <3>2 DEF GcCollect, GcFrontierSettled, GcIsolated, Owned, Live
  <2>19. CASE GcFinish
    BY <2>19 DEF GcFinish, NoGc, GcIsolated
  <2> QED
    BY <1>a, <2>1, <2>2, <2>3, <2>4, <2>5, <2>6, <2>7, <2>8, <2>9, <2>10, <2>11, <2>12,
       <2>13, <2>14, <2>15, <2>16, <2>17, <2>18, <2>19 DEF RuntimeStep
<1>b. ASSUME NEW c \in Cards, CardStep(c) PROVE GcIsolated'
  <2>1. CASE RuntimeFailure(c)
    BY <2>1, GcHalt DEF RuntimeFailure
  <2>2. CASE UrgentTakenOver(c)
    BY <2>2 DEF UrgentTakenOver, GcIsolated
  <2>3. CASE PassGate(c)
    BY <2>3, GcBusy DEF PassGate, GcIsolated
  <2>4. CASE ParkAtGate(c)
    <3>1. ~(gc.phase = "collecting" /\ ~gc.aborted)
      BY <2>4, GcBusy DEF ParkAtGate
    <3>2. gc'.phase = gc.phase /\ gc'.aborted = gc.aborted
      BY <2>4 DEF ParkAtGate, PauseCallback, TypeOK, GcHolds
    <3> QED
      BY <3>1, <3>2 DEF GcIsolated
  <2>5. CASE NextTurn(c)
    BY <2>5, GcBusy DEF NextTurn, GcIsolated
  <2>6. CASE NodeHandoff(c)
    BY <2>6, GcBusy DEF NodeHandoff, GcIsolated
  <2>7. CASE NextNode(c)
    BY <2>7, GcBusy DEF NextNode, GcIsolated
  <2>8. CASE DeliverNotifications(c)
    BY <2>8, GcQuiet DEF DeliverNotifications, Live, Owned
  <2>9. CASE SettleResultFails(c)
    BY <2>9, GcHalt DEF SettleResultFails
  <2>10. CASE ReleaseSettledChild(c)
    BY <2>10, GcBusy DEF ReleaseSettledChild, GcIsolated
  <2>11. CASE JoinActivation(c)
    BY <2>11, GcBusy DEF JoinActivation, MayJoin, GcIsolated
  <2>12. CASE JoinFails(c)
    <3>1. ~(gc.phase = "collecting" /\ ~gc.aborted)
      BY <2>12, GcBusy DEF JoinFails, MayJoin
    <3>2. gc' = gc \/ gc' = CancelledGc
      BY <2>12 DEF JoinFails, BeginHalt
    <3> QED
      BY <3>1, <3>2 DEF GcIsolated, CancelledGc, TypeOK, GcHolds
  <2>13. CASE CancelStored(c)
    BY <2>13, GcQuiet DEF CancelStored, Live, Owned
  <2>14. CASE CancelOwned(c)
    BY <2>14 DEF CancelOwned, MayCancel, NotCollecting, GcIsolated
  <2>15. CASE SettleCancellation(c)
    BY <2>15, GcBusy DEF SettleCancellation, CancellationDue, GcIsolated
  <2>16. CASE SettleCancellationFails(c)
    BY <2>16, GcHalt DEF SettleCancellationFails
  <2>17. CASE CascadeFails(c)
    BY <2>17, GcBusy DEF CascadeFails, CancellationDue, GcIsolated
  <2>18. CASE Notify(c)
    BY <2>18, GcQuiet DEF Notify, Live, Owned
  <2>19. CASE UrgentQueues(c)
    BY <2>19, GcQuiet DEF UrgentQueues, Live, Owned
  <2>20. CASE UrgentInterrupts(c)
    BY <2>20 DEF UrgentInterrupts, MayCancel, NotCollecting, GcIsolated
  <2>21. CASE StopInterruptedChild(c)
    BY <2>21, GcBusy DEF StopInterruptedChild, InterruptionDue, GcIsolated
  <2>22. CASE StopInterruptedFails(c)
    BY <2>22, GcHalt DEF StopInterruptedFails
  <2>23. CASE NodeInterruptionSettles(c)
    <3>1. gc.phase = "collecting" /\ ~gc.aborted => proc[c] # "retiring"
      BY <2>23, GcBusy DEF NodeInterruptionSettles
    <3>2. gc.phase = "collecting" /\ ~gc.aborted => proc' = proc
      BY <2>23, <3>1 DEF NodeInterruptionSettles, TypeOK
    <3> QED
      BY <2>23, <3>2 DEF NodeInterruptionSettles, GcIsolated, Owned, Live
  <2>24. CASE AnalystReopen(c)
    BY <2>24, GcQuiet DEF AnalystReopen, Live, Owned
  <2>25. CASE AnalystRecordEdit(c)
    <3>1. UNCHANGED <<rt, run, halt, gate, gc, phase, proc, winner>>
      BY <2>25 DEF AnalystRecordEdit
    <3> QED
      BY <3>1, GcQuiet DEF Owned, Live
  <2>26. ASSUME NEW o \in Outcomes, ClaimResult(c, o) PROVE GcIsolated'
    BY <2>26, GcBusy DEF ClaimResult, GcIsolated
  <2>27. ASSUME NEW o \in Outcomes, SettleResult(c, o) PROVE GcIsolated'
    BY <2>27, GcBusy DEF SettleResult, OutcomeReady, GcIsolated
  <2> QED
    BY <1>b, <2>1, <2>2, <2>3, <2>4, <2>5, <2>6, <2>7, <2>8, <2>9, <2>10, <2>11, <2>12,
       <2>13, <2>14, <2>15, <2>16, <2>17, <2>18, <2>19, <2>20, <2>21, <2>22, <2>23,
       <2>24, <2>25, <2>26, <2>27 DEF CardStep
<1>c. ASSUME NEW p \in Cards, NEW c \in Cards, PlannerStep(p, c) PROVE GcIsolated'
  <2>1. CASE ActivateChild(p, c)
    BY <2>1, GcBusy DEF ActivateChild, MayActivate, ParentActs, GcIsolated
  <2>2. CASE ActivateChildFails(p, c)
    BY <2>2, GcHalt DEF ActivateChildFails
  <2>3. CASE PlannerReopen(p, c)
    BY <2>3, GcQuiet DEF PlannerReopen, Live, Owned
  <2>4. CASE PlannerReopenFails(p, c)
    BY <2>4, GcHalt DEF PlannerReopenFails
  <2>5. CASE PlannerCancel(p, c)
    BY <2>5, GcQuiet DEF PlannerCancel, Live, Owned
  <2>6. CASE RecordMutation(p, c)
    BY <2>6, GcQuiet DEF RecordMutation, Live, Owned
  <2> QED
    BY <1>c, <2>1, <2>2, <2>3, <2>4, <2>5, <2>6 DEF PlannerStep
<1>d. CASE UNCHANGED vars
  BY <1>d, GcQuiet
<1> QED
  BY <1>a, <1>b, <1>c, <1>d DEF Next

-----------------------------------------------------------------------------
(* The claimed result *)

\* A claimed result has the claim of its owner.
LEMMA ClaimedOwner ==
  ASSUME InductiveInv, ActInv, NEW d \in Cards, proc[d] = "claimed"
  PROVE  d \in Owned /\ halt = "none" /\ winner[d] = "result" /\ child[d] = NoCard
BY DEF InductiveInv, UnownedInv, FrontierInv, ActInv, HaltInv, ClaimInv

\* A leaf that has not claimed is the only leaf: nobody has claimed.
LEMMA LeafClaims ==
  ASSUME TypeOK, InductiveInv, ActInv, NEW c \in Owned, child[c] = NoCard, proc[c] # "claimed",
         NEW d \in Cards
  PROVE  proc[d] # "claimed"
BY ClaimedOwner, LeafIsCurrent DEF InductiveInv, ActInv

\* Nothing is claimed where the project is at rest.
LEMMA RestedClaims ==
  ASSUME TypeOK, InductiveInv, PausedInv, rt \in {"uninitialized", "stopped", "paused"},
         NEW d \in Cards
  PROVE  proc[d] # "claimed"
BY DEF InductiveInv, UnownedInv, RetentionInv, PausedInv

\* A step that leaves cards and notifications and claims nothing.
LEMMA ResultQuiet ==
  ASSUME ResultInv, card' = card, pend' \subseteq pend,
         \A d \in Cards : proc'[d] = "claimed" => proc[d] = "claimed" /\ out'[d] = out[d]
  PROVE  ResultInv'
BY DEF ResultInv

\* A halt leaves no claimed processor.
LEMMA ResultHalt ==
  ASSUME TypeOK, InductiveInv, NEW t, NEW ph, NEW ls, BeginHalt(t, ph, ls),
         \A d \in Owned : ph[d] # "none"
  PROVE  ResultInv'
BY DEF BeginHalt, InductiveInv, UnownedInv, ResultInv

\* What a claimed DONE was granted for stays true until it settles.
LEMMA ResultStep ==
  ASSUME TypeOK, InductiveInv, ActInv, PausedInv, ResultInv, [Next]_vars
  PROVE  ResultInv'
<1> USE RootFacts DEF vars, cardVars, runVars, ownVars, haltVars
<1>a. ASSUME RuntimeStep PROVE ResultInv'
  <2>1. CASE Startup
    <3>1. \A d \in Cards : proc[d] # "claimed"
      BY <2>1, RestedClaims DEF Startup
    <3> QED
      BY <2>1, <3>1 DEF Startup, ResultInv, TypeOK
  <2>2. CASE StartupFails
    <3>1. \A d \in Cards : proc[d] # "claimed"
      BY <2>2, RestedClaims DEF StartupFails
    <3> QED
      BY <2>2, <3>1 DEF StartupFails, ResultInv, TypeOK
  <2>3. CASE StartProject
    <3>1. \A d \in Cards : proc[d] # "claimed"
      BY <2>3, RestedClaims DEF StartProject, MayStart
    <3> QED
      BY <2>3, <3>1 DEF StartProject, ResultInv, TypeOK
  <2>4. CASE StartProjectFails
    <3>1. \A d \in Owned : [phase EXCEPT ![Root] = "prepared_root"][d] # "none"
      BY DEF Owned, TypeOK
    <3> QED
      BY <2>4, <3>1, ResultHalt DEF StartProjectFails
  <2>5. CASE Launch
    BY <2>5, ResultQuiet DEF Launch, StartProcs, TypeOK
  <2>6. CASE StopProject
    <3>1. CASE run # NoRun
      BY <2>6, <3>1, ResultHalt DEF StopProject, Owned
    <3>2. CASE run = NoRun
      BY <2>6, <3>2, ResultQuiet DEF StopProject
    <3> QED
      BY <3>1, <3>2
  <2>7. CASE CloseApplication
    <3>1. CASE run # NoRun /\ halt = "none"
      BY <2>7, <3>1, ResultHalt DEF CloseApplication, Owned
    <3>2. CASE ~(run # NoRun /\ halt = "none")
      BY <2>7, <3>2, ResultQuiet DEF CloseApplication
    <3> QED
      BY <3>1, <3>2
  <2>8. CASE HaltStops
    <3>1. \A d \in Cards : proc[d] # "claimed"
      BY <2>8 DEF HaltStops, HaltSettled, ActInv, HaltInv, InductiveInv, UnownedInv
    <3> QED
      BY <2>8, <3>1 DEF HaltStops, Upd, ResultInv, TypeOK
  <2>9. CASE HaltErrors
    <3>1. \A d \in Cards : proc[d] # "claimed"
      BY <2>9 DEF HaltErrors, HaltSettled, ActInv, HaltInv, InductiveInv, UnownedInv
    <3> QED
      BY <2>9, <3>1 DEF HaltErrors, ResultInv, TypeOK
  <2>10. CASE Crash
    BY <2>10 DEF Crash, ProcessRestarts, ResultInv
  <2>11. CASE CrashMidPublication
    BY <2>11 DEF CrashMidPublication, ProcessRestarts, ResultInv
  <2>12. CASE Pause
    BY <2>12, ResultQuiet DEF Pause
  <2>13. CASE Resume
    BY <2>13, ResultQuiet DEF Resume, OpenGate
  <2>14. CASE ReleaseSettledRoot
    <3>1. \A d \in Cards : proc[d] # "claimed"
      BY <2>14, LeafClaims DEF ReleaseSettledRoot, HasAuthority, InductiveInv, FrontierInv
    <3> QED
      BY <2>14, <3>1 DEF ReleaseSettledRoot, ResultInv, TypeOK
  <2>15. CASE ReplaceInterruptedRoot
    <3>1. \A d \in Cards : proc[d] # "claimed"
      BY <2>15, LeafClaims DEF ReplaceInterruptedRoot, InterruptionDue, HasAuthority
    <3> QED
      BY <2>15, <3>1 DEF ReplaceInterruptedRoot, StartProcs, ResultInv, TypeOK
  <2>16. CASE ReactivateRootFails
    <3>1. \A d \in Owned : [phase EXCEPT ![Root] = "prepared_root"][d] # "none"
      BY DEF Owned, TypeOK
    <3> QED
      BY <2>16, <3>1, ResultHalt DEF ReactivateRootFails
  <2>17. CASE GcBegin
    BY <2>17, ResultQuiet DEF GcBegin
  <2>18. CASE GcCollect
    BY <2>18, ResultQuiet DEF GcCollect
  <2>19. CASE GcFinish
    BY <2>19, ResultQuiet DEF GcFinish, OpenGate
  <2> QED
    BY <1>a, <2>1, <2>2, <2>3, <2>4, <2>5, <2>6, <2>7, <2>8, <2>9, <2>10, <2>11, <2>12,
       <2>13, <2>14, <2>15, <2>16, <2>17, <2>18, <2>19 DEF RuntimeStep
<1>b. ASSUME NEW c \in Cards, CardStep(c) PROVE ResultInv'
  <2>1. CASE RuntimeFailure(c)
    BY <2>1, ResultHalt DEF RuntimeFailure, Owned
  <2>2. CASE UrgentTakenOver(c)
    BY <2>2, ResultQuiet DEF UrgentTakenOver
  <2>3. CASE PassGate(c)
    BY <2>3, ResultQuiet DEF PassGate, TypeOK
  <2>4. CASE ParkAtGate(c)
    BY <2>4, ResultQuiet DEF ParkAtGate, TypeOK
  <2>5. CASE NextTurn(c)
    BY <2>5, ResultQuiet DEF NextTurn, TypeOK
  <2>6. CASE NodeHandoff(c)
    BY <2>6, ResultQuiet DEF NodeHandoff, TypeOK
  <2>7. CASE NextNode(c)
    BY <2>7, ResultQuiet DEF NextNode, StartProcs, TypeOK
  <2>8. CASE DeliverNotifications(c)
    BY <2>8, ResultQuiet DEF DeliverNotifications
  <2>9. CASE SettleResultFails(c)
    <3>1. \A d \in Owned : [phase EXCEPT ![c] = "settling"][d] # "none"
      BY DEF Owned, TypeOK
    <3> QED
      BY <2>9, <3>1, ResultHalt DEF SettleResultFails
  <2>10. CASE ReleaseSettledChild(c)
    <3>1. \A d \in Cards : proc[d] # "claimed"
      BY <2>10, LeafClaims DEF ReleaseSettledChild, CancellationDue, InterruptionDue, HasAuthority, InductiveInv, FrontierInv
    <3>2. \A d \in Cards : proc'[d] # "claimed"
      BY <2>10, <3>1, TreeAssumption DEF ReleaseSettledChild, ReleaseChild, TypeOK
    <3> QED
      BY <3>2 DEF ResultInv
  <2>11. CASE JoinActivation(c)
    BY <2>11, ResultQuiet DEF JoinActivation, TypeOK
  <2>12. CASE JoinFails(c)
    <3>1. CASE halt = "none"
      BY <2>12, <3>1, ResultHalt DEF JoinFails, Owned
    <3>2. CASE halt # "none"
      BY <2>12, <3>2, ResultQuiet DEF JoinFails, TypeOK
    <3> QED
      BY <3>1, <3>2
  <2>13. CASE CancelStored(c)
    <3>1. SUFFICES ASSUME NEW d \in Cards, proc[d] = "claimed", out[d] = "done"
                   PROVE  SubtreeComplete(card', d) /\ d \notin pend'
      BY <2>13 DEF CancelStored, ResultInv
    <3>2. d \in Owned /\ winner[d] = "result" /\ SubtreeComplete(card, d) /\ d \notin pend
      BY <3>1, ClaimedOwner DEF ResultInv
    <3>3. d \notin pend'
      BY <2>13, <3>2, StoredCancels
    <3>4. c \notin Descendants(d) /\ c # Root /\ Parent[c] \in Cards
      BY <2>13, <3>2, StoredCancels DEF SubtreeComplete, Subtree, CanCancel
    <3>5. \A e \in Descendants(d) : e \in Cards \ PathToRoot(Parent[c])
      BY <3>4, TreeAssumption DEF Descendants, PathToRoot
    <3>6. CancelCards(card, CascadeSet(card, c)) \in [Cards -> Status]
      BY CancelTypes DEF TypeOK
    <3>7. PICK T : \A e \in Descendants(d) : card'[e] = CancelCards(card, T)[e]
      BY <2>13, <3>4, <3>5, <3>6, StoredCancels, FlipsAreMild
    <3>8. \A e \in Descendants(d) : card'[e] \in {"done", "cancelled"}
      BY <3>2, <3>7 DEF CancelCards, SubtreeComplete, Descendants
    <3> QED
      BY <3>3, <3>8 DEF SubtreeComplete
  <2>14. CASE CancelOwned(c)
    <3>1. \A d \in Cards : proc'[d] = "claimed" => proc[d] = "claimed"
      BY <2>14 DEF CancelOwned, Upd
    <3> QED
      BY <2>14, <3>1, ResultQuiet DEF CancelOwned
  <2>15. CASE SettleCancellation(c)
    <3>1. \A d \in Cards : proc[d] # "claimed"
      BY <2>15, LeafClaims DEF SettleCancellation, CancellationDue, InterruptionDue, HasAuthority, InductiveInv, FrontierInv
    <3>2. \A d \in Cards : proc'[d] # "claimed"
      BY <2>15, <3>1, TreeAssumption DEF SettleCancellation, ReleaseChild, TypeOK
    <3> QED
      BY <3>2 DEF ResultInv
  <2>16. CASE SettleCancellationFails(c)
    BY <2>16, ResultHalt DEF SettleCancellationFails, Owned
  <2>17. CASE CascadeFails(c)
    <3>1. \A d \in Cards : proc[d] # "claimed"
      BY <2>17, LeafClaims DEF CascadeFails, CancellationDue, HasAuthority
    <3> QED
      BY <2>17, <3>1 DEF CascadeFails, ResultInv, TypeOK
  <2>18. CASE Notify(c)
    <3>1. \A d \in Cards : proc[d] = "claimed" => winner[d] = "result" /\ d \in Owned
      BY ClaimedOwner
    <3>2. \A d \in Cards : proc[d] = "claimed" /\ d \notin pend => d \notin pend'
      BY <2>18, <3>1 DEF Notify, NotifyOk
    <3> QED
      BY <2>18, <3>2 DEF Notify, ResultInv
  <2>19. CASE UrgentQueues(c)
    <3>1. \A d \in Cards : proc[d] = "claimed" => winner[d] = "result" /\ d \in Owned
      BY ClaimedOwner
    <3>2. \A d \in Cards : proc[d] = "claimed" /\ d \notin pend => d \notin pend'
      BY <2>19, <3>1 DEF UrgentQueues, NotifyOk
    <3> QED
      BY <2>19, <3>2 DEF UrgentQueues, ResultInv
  <2>20. CASE UrgentInterrupts(c)
    <3>1. \A d \in Cards : proc[d] = "claimed" => winner[d] = "result" /\ d \in Owned
      BY ClaimedOwner
    <3>2. \A d \in Cards : proc[d] = "claimed" /\ d \notin pend => d \notin pend'
      BY <2>20, <3>1 DEF UrgentInterrupts, NotifyOk
    <3>3. \A d \in Cards : proc'[d] = "claimed" => proc[d] = "claimed"
      BY <2>20 DEF UrgentInterrupts, Upd
    <3> QED
      BY <2>20, <3>2, <3>3 DEF UrgentInterrupts, ResultInv
  <2>21. CASE StopInterruptedChild(c)
    <3>1. \A d \in Cards : proc[d] # "claimed"
      BY <2>21, LeafClaims DEF StopInterruptedChild, CancellationDue, InterruptionDue, HasAuthority, InductiveInv, FrontierInv
    <3>2. \A d \in Cards : proc'[d] # "claimed"
      BY <2>21, <3>1, TreeAssumption DEF StopInterruptedChild, ReleaseChild, TypeOK
    <3> QED
      BY <3>2 DEF ResultInv
  <2>22. CASE StopInterruptedFails(c)
    BY <2>22, ResultHalt DEF StopInterruptedFails, Owned
  <2>23. CASE NodeInterruptionSettles(c)
    BY <2>23, ResultQuiet DEF NodeInterruptionSettles, StartProcs, TypeOK
  <2>24. CASE AnalystReopen(c)
    <3>1. \A d \in Cards : proc[d] # "claimed"
      BY <2>24, RestedClaims DEF AnalystReopen, InterventionReady
    <3> QED
      BY <2>24, <3>1 DEF AnalystReopen, ResultInv, TypeOK
  <2>25. CASE AnalystRecordEdit(c)
    <3>1. \A d \in Cards : proc[d] # "claimed"
      BY <2>25, RestedClaims DEF AnalystRecordEdit, InterventionReady
    <3>2. proc' = proc
      BY <2>25 DEF AnalystRecordEdit
    <3> QED
      BY <3>1, <3>2 DEF ResultInv
  <2>26. ASSUME NEW o \in Outcomes, ClaimResult(c, o) PROVE ResultInv'
    <3>1. \A d \in Cards : proc[d] # "claimed"
      BY <2>26, LeafClaims DEF ClaimResult, HasAuthority, InductiveInv, FrontierInv
    <3> QED
      BY <2>26, <3>1 DEF ClaimResult, MayComplete, ResultInv, TypeOK
  <2>27. ASSUME NEW o \in Outcomes, SettleResult(c, o) PROVE ResultInv'
    <3>1. \A d \in Cards \ {c} : proc[d] # "claimed"
      BY <2>27, OneExecutes DEF SettleResult, OutcomeReady
    <3> QED
      BY <2>27, <3>1 DEF SettleResult, ResultInv, TypeOK
  <2> QED
    BY <1>b, <2>1, <2>2, <2>3, <2>4, <2>5, <2>6, <2>7, <2>8, <2>9, <2>10, <2>11, <2>12,
       <2>13, <2>14, <2>15, <2>16, <2>17, <2>18, <2>19, <2>20, <2>21, <2>22, <2>23,
       <2>24, <2>25, <2>26, <2>27 DEF CardStep
<1>c. ASSUME NEW p \in Cards, NEW c \in Cards, PlannerStep(p, c) PROVE ResultInv'
  <2>1. CASE ActivateChild(p, c)
    <3>1. \A d \in Cards : proc[d] # "claimed"
      BY <2>1, OneExecutes DEF ActivateChild, MayActivate, ParentActs, TypeOK
    <3> QED
      BY <2>1, <3>1 DEF ActivateChild, StartProcs, ResultInv, TypeOK
  <2>2. CASE ActivateChildFails(p, c)
    <3>1. \A d \in Owned : [phase EXCEPT ![c] = "child_admission"][d] # "none"
      BY DEF Owned, TypeOK
    <3> QED
      BY <2>2, <3>1, ResultHalt DEF ActivateChildFails
  <2>3. CASE PlannerReopen(p, c)
    <3>1. \A d \in Cards : proc[d] # "claimed"
      BY <2>3, OneExecutes DEF PlannerReopen, ParentActs, TypeOK
    <3> QED
      BY <2>3, <3>1 DEF PlannerReopen, StartProcs, ResultInv, TypeOK
  <2>4. CASE PlannerReopenFails(p, c)
    BY <2>4, ResultHalt DEF PlannerReopenFails, Owned
  <2>5. CASE PlannerCancel(p, c)
    <3>1. \A d \in Cards : proc[d] # "claimed"
      BY <2>5, OneExecutes DEF PlannerCancel, ParentActs, TypeOK
    <3> QED
      BY <2>5, <3>1 DEF PlannerCancel, StartProcs, ResultInv, TypeOK
  <2>6. CASE RecordMutation(p, c)
    <3>1. \A d \in Cards : proc[d] # "claimed"
      BY <2>6, OneExecutes DEF RecordMutation, TypeOK
    <3> QED
      BY <2>6, <3>1 DEF RecordMutation, StartProcs, ResultInv, TypeOK
  <2> QED
    BY <1>c, <2>1, <2>2, <2>3, <2>4, <2>5, <2>6 DEF PlannerStep
<1>d. CASE UNCHANGED vars
  BY <1>d, ResultQuiet
<1> QED
  BY <1>a, <1>b, <1>c, <1>d DEF Next

-----------------------------------------------------------------------------
(* The invariant and what follows from it *)

\* The inductive invariant of the runtime holds in every reachable state: who owns,
\* who executes, who has claimed, what is durably running and what the gate holds
\* agree, whatever fails and wherever the process dies.
THEOREM CoreHolds == Spec => []CoreInv
<1>1. Init => CoreInv
  <2> USE RootFacts, RunAssumption DEF Init
  <2>1. Init => InductiveInv
    BY DEF InductiveInv, StatusInv, UpStatus, Owned, LinkInv, UnownedInv, FrontierInv, RetentionInv
  <2>2. Init => Owned = {} /\ RunningSet(card) = {}
    BY DEF Owned, RunningSet
  <2>3. Init => ActInv
    BY <2>2 DEF ActInv, HaltInv, ClaimInv, PathInv, SuffixInv, WaitInv
  <2>4. Init => RunningInv /\ GateInv /\ PausedInv /\ ResultInv
    BY <2>2 DEF RunningInv, GateInv, NewGate, PausedInv, ResultInv, UpStatus
  <2> QED
    BY <2>1, <2>3, <2>4 DEF CoreInv
<1>2. TypeOK /\ CoreInv /\ InductiveInv' /\ [Next]_vars => CoreInv'
  BY ActStep, RunningStep, GateStep, PausedStep, ResultStep DEF CoreInv
<1>3. CoreInv => InductiveInv
  BY DEF CoreInv
<1> QED
  BY <1>1, <1>2, TypeCorrect, OwnerGraph, PTL DEF Spec

\* RunningIsOwned and SingleFrontier: while a run is up the durably running cards are
\* the owned ones without a committed outcome, one of them executes, and a waiting
\* parent has an owned child whose lease will answer it.
THEOREM FrontierIsOwned == Spec => []OwnedFrontier
<1>1. TypeOK /\ CoreInv => OwnedFrontier
  <2> SUFFICES ASSUME TypeOK, CoreInv PROVE OwnedFrontier
    OBVIOUS
  <2>1. InductiveInv /\ ActInv /\ RunningInv
    BY DEF CoreInv
  <2>2. RunningIsOwned
    BY <2>1 DEF RunningIsOwned, RunningInv, UpStatus
  <2>3. \A c, d \in Owned :
          /\ proc[c] \in {"ready", "node", "parked", "handoff", "claimed", "settled"}
          /\ proc[d] \in {"ready", "node", "parked", "handoff", "claimed", "settled"}
          => c = d /\ child[c] = NoCard
    BY <2>1, OneExecutes DEF Owned
  <2>4. \A c \in Cards : proc[c] = "waiting" =>
          child[c] \in Owned /\ lease[child[c]] \in {"admitted", "settling"}
    BY <2>1 DEF ActInv, WaitInv, InductiveInv, LinkInv, UnownedInv
  <2> QED
    BY <2>2, <2>3, <2>4 DEF OwnedFrontier, SingleFrontier
<1> QED
  BY <1>1, CoreHolds, TypeCorrect, PTL

\* selectLinkedRunningChain never throws, wherever the process died.
THEOREM RunningStaysChain == Spec => []RunningIsChain
<1>1. RunningInv => RunningIsChain
  BY TreeAssumption DEF RunningInv, RunningIsChain, IsRunningChain, RunningSet
<1> QED
  BY <1>1, CoreHolds, PTL DEF CoreInv

\* A cascade from a card at rest cancels cards that may be cancelled.
LEMMA CascadeCancels ==
  ASSUME RunningInv, NEW c \in Cards, card[c] # "running", NEW d \in CascadeSet(card, c)
  PROVE  d \in Cards /\ CanCancel(card[d]) /\ card[d] # "running"
<1>1. d \in Cards /\ CanCancel(card[d])
  BY DEF CascadeSet, Subtree, Descendants
<1>2. d \notin RunningSet(card)
  BY CascadeRests DEF RunningInv, ChainOf
<1> QED
  BY <1>1, <1>2 DEF RunningSet

\* So does the cascade of a cancelled owner, which never reaches the root.
LEMMA OwnerCascadeCancels ==
  ASSUME TypeOK, InductiveInv, ActInv, RunningInv, NEW c \in Owned, halt = "none"
  PROVE  /\ OwnerCascade(c) \subseteq Cards /\ Root \notin OwnerCascade(c)
         /\ \A d \in OwnerCascade(c) : CanCancel(card[d]) /\ card[d] # "running"
<1>1. ASSUME NEW e \in Children(c) \ Owned, NEW d \in CascadeSet(card, e)
      PROVE  d \in Cards /\ d # Root /\ CanCancel(card[d]) /\ card[d] # "running"
  <2>1. e \in Cards /\ e # Root /\ card[e] # "running"
    BY <1>1, AuthorityIsUp, TreeAssumption DEF Children, Owned, RunningInv, RunningSet, ActInv
  <2>2. d # Root
    BY <1>1, <2>1, TreeAssumption DEF CascadeSet, Subtree, Descendants
  <2> QED
    BY <1>1, <2>1, <2>2, CascadeCancels
<1> QED
  BY <1>1 DEF OwnerCascade

\* Where the code throws an internal error it never gets.
LEMMA NoFault ==
  ASSUME TypeOK, CoreInv
  PROVE  NoInternalFault
<1>0. InductiveInv /\ ActInv /\ RunningInv /\ GateInv
  BY DEF CoreInv
<1>1. ASSUME NEW c \in Cards, proc[c] \in {"ready", "node", "handoff", "claimed"} PROVE MaySettle(c)
  <2>1. c \in Owned /\ halt = "none" /\ child[c] = NoCard
    BY <1>0, <1>1, OneExecutes
  <2>2. winner[c] \in {"open", "result"}
    BY <1>0, <1>1, <2>1 DEF ActInv, ClaimInv, Live
  <2>3. RunningSet(card) = {d \in Owned : proc[d] # "settled"}
    BY <1>0, <2>1, AuthorityIsUp DEF RunningInv, ActInv
  <2>4. card[c] = "running"
    BY <1>1, <2>1, <2>3 DEF RunningSet
  <2>5. c = Root => RunningSet(card) = {Root}
    BY <1>0, <1>1, <2>1, <2>3, RootAlone DEF InductiveInv
  <2> QED
    BY <2>1, <2>2, <2>4, <2>5 DEF MaySettle, HasAuthority
<1>2. ASSUME NEW c \in Cards, proc[c] = "ready" PROVE ~gate.parked
  BY <1>0, <1>2, OneExecutes DEF GateInv
<1>3. proc[Root] = "settled" => ~gate.parked
  BY <1>0, RootFacts, OneExecutes DEF GateInv
<1>4. HaltSettled => ~gate.parked
  BY <1>0 DEF HaltSettled, GateInv, InductiveInv, UnownedInv, RetentionInv
<1>5. ASSUME NEW c \in Cards, CancellationDue(c), NEW d \in OwnerCascade(c) PROVE card[d] # "running"
  BY <1>0, <1>5, OwnerCascadeCancels DEF CancellationDue, HasAuthority
<1>6. ASSUME NEW c \in Cards, InterruptionDue(c) PROVE card[c] = "running"
  BY <1>0, <1>6, AuthorityIsUp DEF InterruptionDue, HasAuthority, ActInv, RunningInv, RunningSet
<1> QED
  BY <1>1, <1>2, <1>3, <1>4, <1>5, <1>6 DEF NoInternalFault, CanCompleteRun

\* GateAgrees, GcIsolated and NoInternalFault: the gate holds what the runtime thinks
\* it holds, a collection runs alone, and no internal assertion of the Supervisor or
\* of the gate can fail.
THEOREM GateStaysTrue == Spec => []GateIsTrue
<1>1. Init => GcIsolated
  BY DEF Init, NoGc, GcIsolated
<1>2. TypeOK /\ CoreInv /\ GcIsolated /\ [Next]_vars => GcIsolated'
  BY GcStep DEF CoreInv
<1>3. Spec => []GcIsolated
  BY <1>1, <1>2, TypeCorrect, CoreHolds, PTL DEF Spec
<1>4. TypeOK /\ CoreInv /\ GcIsolated => GateIsTrue
  BY NoFault DEF CoreInv, GateInv, GateAgrees, GateIsTrue
<1> QED
  BY <1>3, <1>4, TypeCorrect, CoreHolds, PTL

-----------------------------------------------------------------------------
(* What the Supervisor publishes: the first claim decides it, a done card is   *)
(* complete, and every step is an operation of the abstract card lifecycle.    *)

\* c runs and none of its children does.
ChainEnd(c) == card[c] = "running" /\ \A d \in Children(c) : card[d] # "running"

\* The operations of CardLifecycle, by what they require of the cards: a card that
\* starts at the end of the chain,
LEMMA Activates ==
  ASSUME NEW c \in Cards, CanBecomeRunning(card[c]),
         IF c = Root THEN RunningSet(card) = {} ELSE ChainEnd(Parent[c]),
         card' = [card EXCEPT ![c] = "running"]
  PROVE  Lifecycle!Whole
BY DEF Lifecycle!Whole, Lifecycle!Activate, Lifecycle!IsChainEnd, ChainEnd, Lifecycle!RunningSet,
   RunningSet, Lifecycle!CanBecomeRunning, CanBecomeRunning, Lifecycle!SetStatusSources,
   SetStatusSources, Lifecycle!Children, Children

\* the end of the chain that settles,
LEMMA Settles ==
  ASSUME NEW c \in Cards, ChainEnd(c), NEW o \in {"done", "failed", "blocked", "stopped"},
         o = "done" => SubtreeComplete(card, c), card' = [card EXCEPT ![c] = o]
  PROVE  Lifecycle!Whole
<1>1. Lifecycle!Settle(c, o)
  BY DEF Lifecycle!Settle, Lifecycle!IsChainEnd, ChainEnd, Lifecycle!Children, Children,
     Lifecycle!SubtreeComplete, SubtreeComplete, Lifecycle!Descendants, Descendants
<1>2. o \in Lifecycle!Status
  BY DEF Lifecycle!Status
<1> QED
  BY <1>1, <1>2 DEF Lifecycle!Whole

\* a chain, or the lower part of it, that is stopped,
LEMMA Recovers ==
  ASSUME NEW S \in SettledSuffixes(card), card' = StopCards(card, S)
  PROVE  Lifecycle!Whole
<1>1. S \in Lifecycle!SettledSuffixes(card) /\ card' = Lifecycle!StopCards(card, S)
  BY DEF Lifecycle!SettledSuffixes, SettledSuffixes, Lifecycle!RunningSet, RunningSet,
     Lifecycle!StopCards, StopCards
<1> QED
  BY <1>1 DEF Lifecycle!Whole, Lifecycle!Recover

\* a chain that is stopped before the root runs again,
LEMMA Restarts ==
  ASSUME RunningSet(card) # {}, card' = [StopCards(card, RunningSet(card)) EXCEPT ![Root] = "running"]
  PROVE  Lifecycle!Whole
<1>1. Lifecycle!RunningSet(card) = RunningSet(card)
  BY DEF Lifecycle!RunningSet, RunningSet
<1>2. RunningSet(card) \in Lifecycle!SettledSuffixes(card)
  BY <1>1 DEF Lifecycle!SettledSuffixes
<1>3. card' = [Lifecycle!StopCards(card, RunningSet(card)) EXCEPT ![Root] = "running"]
  BY DEF Lifecycle!StopCards, StopCards
<1> QED
  BY <1>1, <1>2, <1>3 DEF Lifecycle!Whole, Lifecycle!Recover

\* cards that are cancelled and cards that are reopened above them, with the done ones
\* further up or, cut short, without them,
LEMMA RevisesBoth ==
  ASSUME NEW G \in SUBSET Cards, NEW F \in SUBSET Cards, NEW y \in Cards, Root \notin G,
         \A c \in G : CanCancel(card[c]) /\ (card[c] = "running" => ChainEnd(c)),
         \A c \in G : \A d \in Children(c) : CanCancel(card[d]) => d \in G,
         F \subseteq PathToRoot(y) \ G,
         \A c \in F : card[c] \in Flippable,
         \A c \in F : \A d \in PathToRoot(y) \ G : c \in Anc[d] /\ card[d] \in Flippable => d \in F,
         card' = [c \in Cards |-> IF c \in G THEN "cancelled"
                                  ELSE IF c \in F THEN "changed" ELSE card[c]]
  PROVE  /\ Lifecycle!CutShort
         /\ (\A c \in F : \A a \in Anc[c] : card[a] = "done" => a \in F) => Lifecycle!Whole
<1>1. Lifecycle!Cancels(G)
  BY DEF Lifecycle!Cancels, Lifecycle!CanCancel, CanCancel, Lifecycle!IsChainEnd, ChainEnd,
     Lifecycle!Children, Children
<1>2. Lifecycle!Reopens(F, y, G)
  BY DEF Lifecycle!Reopens, Lifecycle!Flippable, Flippable, Lifecycle!PathToRoot, PathToRoot
<1>3. card' = Lifecycle!Revised(G, F)
  BY DEF Lifecycle!Revised
<1>4. Lifecycle!CutShort
  BY <1>1, <1>2, <1>3 DEF Lifecycle!CutShort
<1>5. ASSUME \A c \in F : \A a \in Anc[c] : card[a] = "done" => a \in F PROVE Lifecycle!Revise
  BY <1>1, <1>2, <1>3, <1>5 DEF Lifecycle!Revise
<1> QED
  BY <1>4, <1>5 DEF Lifecycle!Whole

\* cards that are only cancelled,
LEMMA Revises ==
  ASSUME card \in [Cards -> Status], NEW G \in SUBSET Cards, Root \notin G,
         \A c \in G : CanCancel(card[c]) /\ (card[c] = "running" => ChainEnd(c)),
         \A c \in G : \A d \in Children(c) : CanCancel(card[d]) => d \in G,
         card' = CancelCards(card, G)
  PROVE  Lifecycle!Whole
<1>1. Lifecycle!Cancels(G)
  BY DEF Lifecycle!Cancels, Lifecycle!CanCancel, CanCancel, Lifecycle!IsChainEnd, ChainEnd,
     Lifecycle!Children, Children
<1>2. Lifecycle!Reopens({}, Root, G)
  BY DEF Lifecycle!Reopens
<1>3. card' = Lifecycle!Revised(G, {})
  BY DEF Lifecycle!Revised, CancelCards
<1>4. {} \in SUBSET Cards /\ Root \in Cards /\ \A c \in {} : \A a \in Anc[c] : card[a] = "done" => a \in {}
  BY TreeAssumption
<1>5. Lifecycle!Revise
  BY <1>1, <1>2, <1>3, <1>4 DEF Lifecycle!Revise
<1> QED
  BY <1>5 DEF Lifecycle!Whole

\* and one card that is reopened.
LEMMA Reopens ==
  ASSUME card \in [Cards -> Status], NEW c \in Cards, card[c] \in Flippable,
         \A a \in Anc[c] : card[a] # "done", card' = [card EXCEPT ![c] = "changed"]
  PROVE  Lifecycle!Whole
<1>1. Lifecycle!Cancels({})
  BY DEF Lifecycle!Cancels
<1>2. Lifecycle!Reopens({c}, c, {})
  <2>1. \A d \in PathToRoot(c) : c \notin Anc[d]
    BY TreeAssumption DEF PathToRoot
  <2> QED
    BY <2>1 DEF Lifecycle!Reopens, Lifecycle!PathToRoot, PathToRoot, Lifecycle!Flippable, Flippable
<1>3. card' = Lifecycle!Revised({}, {c})
  BY DEF Lifecycle!Revised
<1>4. /\ {} \in SUBSET Cards /\ {c} \in SUBSET Cards
      /\ \A d \in {c} : \A a \in Anc[d] : card[a] = "done" => a \in {c}
  OBVIOUS
<1>5. Lifecycle!Revise
  BY <1>1, <1>2, <1>3, <1>4 DEF Lifecycle!Revise
<1> QED
  BY <1>5 DEF Lifecycle!Whole

\* A cascade and the part of one that was done when it failed leave nothing to cancel
\* below a cancelled card.
LEMMA CascadeIsClosed ==
  ASSUME NEW c \in Cards, NEW S, NEW x \in CascadeSet(card, c), NEW d \in Children(x), CanCancel(card[d])
  PROVE  d \in CascadeSet(card, c) /\ x \in Anc[d]
<1>1. x \in Cards /\ (x = c \/ c \in Anc[x])
  BY DEF CascadeSet, Subtree, Descendants
<1>2. d \in Cards \ {Root} /\ Parent[d] = x
  BY <1>1, TreeAssumption DEF Children
<1>3. Anc[d] = {x} \cup Anc[x]
  BY <1>2, TreeAssumption
<1>4. d \in Subtree(c)
  BY <1>1, <1>2, <1>3 DEF Subtree, Descendants
<1>5. \A z \in Subtree(c) : z = d \/ z \in Anc[d] => CanCancel(card[z])
  BY <1>3 DEF CascadeSet
<1> QED
  BY <1>3, <1>4, <1>5 DEF CascadeSet

\* The parts of a stored card's cascade.
LEMMA StoredPartsAreClosed ==
  ASSUME NEW c \in Cards, NEW T \in CascadePrefixes(CascadeSet(card, c)), NEW x \in T,
         NEW d \in Children(x), CanCancel(card[d])
  PROVE  d \in T
<1>1. x \in CascadeSet(card, c)
  BY DEF CascadePrefixes
<1>2. d \in CascadeSet(card, c) /\ x \in Anc[d]
  BY <1>1, CascadeIsClosed
<1> QED
  BY <1>2 DEF CascadePrefixes

\* The parts of a cancelled owner's cascade.
LEMMA OwnerPartsAreClosed ==
  ASSUME NEW c \in Cards, NEW T \in CascadePrefixes(OwnerCascade(c)), NEW x \in T,
         NEW d \in Children(x), CanCancel(card[d])
  PROVE  d \in T
<1>1. PICK e \in Children(c) \ Owned : x \in CascadeSet(card, e)
  BY DEF CascadePrefixes, OwnerCascade
<1>2. e \in Cards
  BY DEF Children
<1>3. d \in CascadeSet(card, e) /\ x \in Anc[d]
  BY <1>1, <1>2, CascadeIsClosed
<1>4. d \in OwnerCascade(c)
  BY <1>1, <1>3 DEF OwnerCascade
<1> QED
  BY <1>3, <1>4 DEF CascadePrefixes

\* An owner without a child that is cancelled with its cascade.
LEMMA OwnerIsClosed ==
  ASSUME InductiveInv, NEW c \in Owned, child[c] = NoCard, NEW x \in OwnerCascade(c) \cup {c},
         NEW d \in Children(x), CanCancel(card[d])
  PROVE  d \in OwnerCascade(c)
<1>1. c \in Cards /\ OwnerCascade(c) \in CascadePrefixes(OwnerCascade(c))
  BY DEF Owned, CascadePrefixes
<1>2. CASE x \in OwnerCascade(c)
  BY <1>1, <1>2, OwnerPartsAreClosed
<1>3. CASE x = c
  <2>1. d \in Cards /\ Parent[d] = c /\ d # Root
    BY <1>1, <1>3, TreeAssumption DEF Children
  <2>2. d \notin Owned
    BY <1>3, <2>1, TreeAssumption DEF InductiveInv, LinkInv
  <2>3. \A z \in Subtree(d) : z \notin Anc[d]
    BY <2>1, TreeAssumption DEF Subtree, Descendants
  <2>4. d \in CascadeSet(card, d)
    BY <2>1, <2>3 DEF CascadeSet, Subtree
  <2> QED
    BY <1>3, <2>2, <2>4 DEF OwnerCascade
<1> QED
  BY <1>2, <1>3

\* A propagation reopens resting cards upwards from its first; when nothing cuts it
\* short it reopens every done card above: it only stops at a running card, and no done
\* card is above a running one.
LEMMA FlipRevises ==
  ASSUME card \in [Cards -> Status], RunningInv, NEW G \in SUBSET Cards, Root \notin G,
         \A d \in G : CanCancel(card[d]) /\ (card[d] = "running" => ChainEnd(d)),
         \A c \in G : \A d \in Children(c) : CanCancel(card[d]) => d \in G,
         NEW y \in Cards, card' \in Flips(CancelCards(card, G), y)
  PROVE  /\ Lifecycle!CutShort
         /\ card' = FlipPath(CancelCards(card, G), y) => Lifecycle!Whole
<1> DEFINE st == CancelCards(card, G)
           All == {x \in ReachedOnPath(st, y) : st[x] \in Flippable}
           Below(b) == {x \in All : x = b \/ b \in Anc[x]}
           Card(F) == [c \in Cards |-> IF c \in G THEN "cancelled" ELSE IF c \in F THEN "changed" ELSE card[c]]
<1>1. \A x \in Cards : st[x] = IF x \in G THEN "cancelled" ELSE card[x]
  BY DEF CancelCards
<1>2. PathToRoot(y) \subseteq Cards /\ \A x \in PathToRoot(y) : Anc[x] \subseteq PathToRoot(y)
  BY TreeAssumption DEF PathToRoot
<1>3. All \subseteq PathToRoot(y)
  BY DEF ReachedOnPath
<1>4. \A x \in All : x \notin G /\ card[x] \in Flippable
  BY <1>1, <1>2, <1>3 DEF Flippable
<1>5. ASSUME NEW x \in All, NEW d \in PathToRoot(y) \ G, x \in Anc[d], card[d] \in Flippable
      PROVE  d \in All
  <2>1. st[d] \in Flippable
    BY <1>1, <1>2, <1>5
  <2>2. ASSUME NEW z \in PathToRoot(y), st[z] = "running", z = d \/ d \in Anc[z] PROVE FALSE
    <3>1. x \in Anc[z]
      BY <1>2, <1>5, <2>2, TreeAssumption
    <3> QED
      BY <1>5, <2>2, <3>1 DEF ReachedOnPath
  <2> QED
    BY <1>5, <2>1, <2>2 DEF ReachedOnPath
<1>6. ASSUME NEW x \in All, NEW a \in Anc[x], card[a] = "done" PROVE a \in All
  <2>1. a \in PathToRoot(y) /\ a \in Cards
    BY <1>2, <1>3, <1>6
  <2>2. a \notin G /\ st[a] = "done"
    BY <1>1, <1>6, <2>1 DEF CanCancel
  <2>3. ASSUME NEW z \in PathToRoot(y), st[z] = "running", z = a \/ a \in Anc[z] PROVE FALSE
    <3>1. card[z] = "running" /\ z \in Cards
      BY <1>1, <1>2, <2>3
    <3>2. card[a] = "running"
      BY <2>3, <3>1 DEF RunningInv, RunningSet
    <3> QED
      BY <1>6, <3>2
  <2> QED
    BY <2>1, <2>2, <2>3 DEF ReachedOnPath, Flippable
<1>7. FlipPath(st, y) = Card(All)
  BY <1>1, <1>4 DEF FlipPath
<1>8. st = Card({})
  BY DEF CancelCards
<1>9. ASSUME NEW b \in PathToRoot(y), card' = [x \in Cards |-> IF x = b \/ b \in Anc[x] THEN FlipPath(st, y)[x] ELSE st[x]]
      PROVE  card' = Card(Below(b))
  BY <1>1, <1>4, <1>7, <1>9
<1> HIDE DEF st, All
<1>10. CASE card' = FlipPath(st, y)
  <2>1. All \in SUBSET Cards /\ All \subseteq PathToRoot(y) \ G
    BY <1>2, <1>3, <1>4
  <2> QED
    BY <1>4, <1>5, <1>6, <1>7, <1>10, <2>1, RevisesBoth
<1>11. CASE card' = st /\ card' # FlipPath(st, y)
  <2>1. {} \in SUBSET Cards /\ {} \subseteq PathToRoot(y) \ G
    OBVIOUS
  <2>2. /\ \A c \in {} : card[c] \in Flippable
        /\ \A c \in {} : \A d \in PathToRoot(y) \ G : c \in Anc[d] /\ card[d] \in Flippable => d \in {}
    OBVIOUS
  <2>3. card' = Card({})
    BY <1>8, <1>11
  <2>4. Lifecycle!CutShort
    BY <2>1, <2>2, <2>3, RevisesBoth
  <2> QED
    BY <1>11, <2>4 DEF st
<1>12. CASE card' \in FlipPrefixes(st, y) /\ card' # FlipPath(st, y)
  <2>1. PICK b \in PathToRoot(y) : card' = Card(Below(b))
    BY <1>9, <1>12 DEF FlipPrefixes
  <2>2. Below(b) \in SUBSET Cards /\ Below(b) \subseteq PathToRoot(y) \ G /\ \A x \in Below(b) : card[x] \in Flippable
    BY <1>2, <1>3, <1>4
  <2>3. ASSUME NEW x \in Below(b), NEW d \in PathToRoot(y) \ G, x \in Anc[d], card[d] \in Flippable
        PROVE  d \in Below(b)
    <3>1. d \in All
      BY <1>5, <2>3
    <3>2. b \in Anc[d]
      BY <1>2, <2>3, TreeAssumption
    <3> QED
      BY <3>1, <3>2
  <2> HIDE DEF Below
  <2>4. Lifecycle!CutShort
    BY <2>1, <2>2, <2>3, RevisesBoth
  <2> QED
    BY <1>12, <2>4 DEF st
<1> QED
  BY <1>10, <1>11, <1>12 DEF Flips, st

\* A propagation that follows no cancellation.
LEMMA PathRevises ==
  ASSUME card \in [Cards -> Status], RunningInv, NEW y \in Cards, card' \in Flips(card, y)
  PROVE  Lifecycle!CutShort /\ (card' = FlipPath(card, y) => Lifecycle!Whole)
<1>1. CancelCards(card, {}) = card
  BY DEF CancelCards
<1> QED
  BY <1>1, FlipRevises

\* The chain of running cards ends at the owner without a child.
LEMMA LeafEndsChain ==
  ASSUME TypeOK, InductiveInv, ActInv, RunningInv, NEW c \in Owned, child[c] = NoCard,
         halt = "none", card[c] = "running"
  PROVE  ChainEnd(c)
<1>1. \A d \in RunningSet(card) : c \notin Anc[d]
  BY AuthorityIsUp, LeafHasNoOwnedBelow DEF InductiveInv, RunningInv, ActInv
<1>2. c \in Cards
  BY DEF Owned
<1> QED
  BY <1>1, <1>2, TreeAssumption DEF ChainEnd, Children, RunningSet

\* The cascade of a stored card, or the part of it that was done, is a cancellation.
LEMMA StoredGoes ==
  ASSUME RunningInv, NEW c \in Cards, c # Root, card[c] # "running",
         NEW S \in CascadePrefixes(CascadeSet(card, c))
  PROVE  /\ S \in SUBSET Cards /\ Root \notin S /\ \A d \in S : CanCancel(card[d]) /\ card[d] # "running"
         /\ \A x \in S : \A d \in Children(x) : CanCancel(card[d]) => d \in S
<1>1. S \subseteq CascadeSet(card, c)
  BY DEF CascadePrefixes
<1>2. Root \notin CascadeSet(card, c)
  BY TreeAssumption DEF CascadeSet, Subtree, Descendants
<1>3. \A d \in S : d \in Cards /\ CanCancel(card[d]) /\ card[d] # "running"
  BY <1>1, CascadeCancels
<1>4. \A x \in S : \A d \in Children(x) : CanCancel(card[d]) => d \in S
  BY StoredPartsAreClosed
<1> QED
  BY <1>1, <1>2, <1>3, <1>4

\* What a cancelled owner takes with it.
LEMMA OwnerTakes ==
  ASSUME TypeOK, InductiveInv, ActInv, RunningInv, NEW c \in Owned, c # Root, child[c] = NoCard, halt = "none",
         card[c] = "running", NEW G, G = OwnerCascade(c) \cup {c}
  PROVE  /\ G \in SUBSET Cards /\ Root \notin G
         /\ \A d \in G : CanCancel(card[d]) /\ (card[d] = "running" => ChainEnd(d))
         /\ \A x \in G : \A d \in Children(x) : CanCancel(card[d]) => d \in G
<1>1. ChainEnd(c) /\ c \in Cards
  BY LeafEndsChain DEF Owned
<1>2. G \in SUBSET Cards /\ Root \notin G
  BY <1>1, OwnerCascadeCancels
<1>3. \A d \in G : CanCancel(card[d]) /\ (card[d] = "running" => ChainEnd(d))
  BY <1>1, OwnerCascadeCancels DEF CanCancel
<1>4. \A x \in G : \A d \in Children(x) : CanCancel(card[d]) => d \in G
  BY OwnerIsClosed
<1> QED
  BY <1>2, <1>3, <1>4

\* What an operation of CardLifecycle does to one card, by the card's status and what
\* it does above the card.
LEMMA LifecycleMoves ==
  ASSUME card \in [Cards -> Status], RunningInv, Lifecycle!Next, NEW d \in Cards, card'[d] # card[d]
  PROVE  \/ card[d] = "running" /\ card'[d] = "done" /\ SubtreeComplete(card, d)
              /\ \A x \in Cards \ {d} : card'[x] = card[x]
         \/ card'[d] \notin {"done", "cancelled", "changed"} /\ \A x \in Anc[d] : card'[x] # "done"
         \/ card'[d] = "cancelled"
         \/ card'[d] = "changed" /\ card[d] \in Flippable
<1>1. ASSUME NEW c \in Cards, Lifecycle!Activate(c)
      PROVE  card'[d] \notin {"done", "cancelled", "changed"} /\ \A x \in Anc[d] : card'[x] # "done"
  <2>1. card' = [card EXCEPT ![c] = "running"] /\ (c # Root => Parent[c] \in RunningSet(card))
    BY <1>1, TreeAssumption DEF Lifecycle!Activate, Lifecycle!IsChainEnd, RunningSet
  <2>2. \A x \in Anc[c] : card[x] = "running"
    BY <2>1, TreeAssumption DEF RunningInv, RunningSet
  <2>3. d = c /\ card'[d] = "running"
    BY <2>1
  <2> QED
    BY <2>1, <2>2, <2>3, TreeAssumption
<1>2. ASSUME NEW c \in Cards, NEW o \in Status, Lifecycle!Settle(c, o)
      PROVE  \/ card[d] = "running" /\ card'[d] = "done" /\ SubtreeComplete(card, d)
                  /\ \A x \in Cards \ {d} : card'[x] = card[x]
             \/ card'[d] \notin {"done", "cancelled", "changed"} /\ \A x \in Anc[d] : card'[x] # "done"
  <2>1. /\ card' = [card EXCEPT ![c] = o] /\ c \in RunningSet(card)
        /\ o \in {"done", "failed", "blocked", "stopped"}
        /\ o = "done" => SubtreeComplete(card, c)
    BY <1>2 DEF Lifecycle!Settle, Lifecycle!IsChainEnd, RunningSet, Lifecycle!SubtreeComplete,
       SubtreeComplete, Lifecycle!Descendants, Descendants
  <2>2. \A x \in Anc[c] : card[x] = "running"
    BY <2>1 DEF RunningInv, RunningSet
  <2>3. d = c /\ card'[d] = o /\ card[d] = "running"
    BY <2>1 DEF RunningSet
  <2>4. \A x \in Anc[c] : x \in Cards /\ x # c
    BY TreeAssumption
  <2> QED
    BY <2>1, <2>2, <2>3, <2>4
<1>3. ASSUME Lifecycle!Recover
      PROVE  card'[d] \notin {"done", "cancelled", "changed"} /\ \A x \in Anc[d] : card'[x] # "done"
  <2>1. PICK S \in SUBSET RunningSet(card) :
          \A x \in Cards : card'[x] = (IF x \in S THEN "stopped" ELSE card[x])
                             \/ (x = Root /\ card'[x] = "running" /\ RunningSet(card) # {})
    BY <1>3 DEF Lifecycle!Recover, Lifecycle!SettledSuffixes, Lifecycle!RunningSet, RunningSet,
       Lifecycle!StopCards
  <2>2. d \in S \/ (d = Root /\ card'[d] = "running")
    BY <2>1
  <2>3. \A x \in Anc[d] : card[x] = "running" /\ x \in Cards
    BY <2>2, TreeAssumption DEF RunningInv, RunningSet
  <2>4. card'[d] \in {"stopped", "running"}
    BY <2>1, <2>2
  <2> QED
    BY <2>1, <2>3, <2>4
<1>4. ASSUME Lifecycle!Revise \/ Lifecycle!CutShort
      PROVE  card'[d] = "cancelled" \/ (card'[d] = "changed" /\ card[d] \in Flippable)
  BY <1>4 DEF Lifecycle!Revise, Lifecycle!CutShort, Lifecycle!Reopens, Lifecycle!Revised,
     Lifecycle!Flippable, Flippable
<1>5. Lifecycle!Status = Status
  BY DEF Lifecycle!Status, Status
<1> QED
  BY <1>1, <1>2, <1>3, <1>4, <1>5 DEF Lifecycle!Next, Lifecycle!Whole

\* No operation of CardLifecycle leaves other than finished or reopened work below a
\* done card, and a card becomes done above finished work only.
LEMMA LifecycleKeepsDone ==
  ASSUME card \in [Cards -> Status], RunningInv, DoneIsQuiet, Lifecycle!Next
  PROVE  /\ DoneIsQuiet'
         /\ \A c \in Cards : card[c] # "done" /\ card'[c] = "done" => SubtreeComplete(card', c)
<1>1. ASSUME NEW c \in Cards, card[c] # "done", card'[c] = "done" PROVE SubtreeComplete(card', c)
  <2>1. SubtreeComplete(card, c) /\ \A x \in Cards \ {c} : card'[x] = card[x]
    BY <1>1, LifecycleMoves
  <2>2. \A x \in Descendants(c) : x \in Cards \ {c}
    BY TreeAssumption DEF Descendants
  <2> QED
    BY <2>1, <2>2 DEF SubtreeComplete
<1>2. ASSUME NEW a \in Cards, NEW d \in Descendants(a), card'[a] = "done"
      PROVE  card'[d] \in {"done", "cancelled", "changed"}
  <2>1. d \in Cards /\ a \in Anc[d]
    BY <1>2 DEF Descendants
  <2>2. CASE card[a] # "done"
    BY <1>1, <1>2, <2>2 DEF SubtreeComplete
  <2>3. CASE card[a] = "done" /\ card'[d] = card[d]
    BY <1>2, <2>3 DEF DoneIsQuiet
  <2>4. CASE card'[d] # card[d]
    BY <1>2, <2>1, <2>4, LifecycleMoves
  <2> QED
    BY <2>2, <2>3, <2>4
<1> QED
  BY <1>1, <1>2 DEF DoneIsQuiet, Descendants

\* An operation that is not cut short reopens no work below a card that stays done.
LEMMA WholeReopens ==
  ASSUME card \in [Cards -> Status], RunningInv, Lifecycle!Whole, NEW c \in Cards
  PROVE  ~ReopensBelow(c)
<1> SUFFICES ASSUME card[c] = "done", card'[c] = "done", SubtreeComplete(card, c) PROVE SubtreeComplete(card', c)
  BY DEF ReopensBelow
<1> SUFFICES ASSUME NEW d \in Descendants(c), card'[d] # card[d] PROVE card'[d] = "cancelled"
  BY DEF SubtreeComplete
<1>1. d \in Cards /\ c \in Anc[d] /\ card[d] \in {"done", "cancelled"}
  BY DEF SubtreeComplete, Descendants
<1>2. CASE Lifecycle!Revise
  BY <1>1, <1>2 DEF Lifecycle!Revise, Lifecycle!Revised, Lifecycle!Cancels, Lifecycle!CanCancel
<1>3. CASE ~Lifecycle!Revise
  <2>1. card'[d] \notin {"cancelled", "changed"}
    <3>1. ASSUME NEW x \in Cards, Lifecycle!Activate(x) PROVE card'[d] \notin {"cancelled", "changed"}
      BY <1>1, <3>1 DEF Lifecycle!Activate
    <3>2. ASSUME NEW x \in Cards, NEW o \in Status, Lifecycle!Settle(x, o) PROVE card'[d] \notin {"cancelled", "changed"}
      BY <1>1, <3>2 DEF Lifecycle!Settle
    <3>3. ASSUME Lifecycle!Recover PROVE card'[d] \notin {"cancelled", "changed"}
      BY <1>1, <3>3 DEF Lifecycle!Recover, Lifecycle!StopCards
    <3>4. Lifecycle!Status = Status
      BY DEF Lifecycle!Status, Status
    <3> QED
      BY <1>3, <3>1, <3>2, <3>3, <3>4 DEF Lifecycle!Whole
  <2>2. Lifecycle!Next
    BY DEF Lifecycle!Next
  <2> QED
    BY <1>1, <2>1, <2>2, LifecycleMoves
<1> QED
  BY <1>2, <1>3

\* A write failed or the process died, and nobody was told.
Unannounced == pend' \subseteq pend /\ ("fault" \in Inputs \/ "crash" \in Inputs)

\* What a step publishes: a whole operation of the card lifecycle, nothing, or an
\* operation cut short of which nobody was told.
Publishes == Lifecycle!Whole \/ UNCHANGED card \/ (Lifecycle!CutShort /\ Unannounced)

\* Every operation that publishes several cards is, wherever the process dies inside it,
\* an operation of the card lifecycle.
LEMMA CutsAreOperations ==
  ASSUME TypeOK, InductiveInv, ActInv, RunningInv, card' \in PartialPublications
  PROVE  Lifecycle!Whole \/ Lifecycle!CutShort
<1>0. card \in [Cards -> Status] /\ Root \in Cards
  BY RootFacts DEF TypeOK
<1>1. CASE card' \in SettlementCuts
  BY <1>1, Recovers DEF SettlementCuts
<1>2. CASE card' \in ReplacementCuts
  <2>1. InterruptionDue(Root) /\ card' = [card EXCEPT ![Root] = "stopped"]
    BY <1>2 DEF ReplacementCuts
  <2>2. Root \in Owned /\ child[Root] = NoCard /\ card[Root] = "running" /\ halt = "none"
    BY <2>1, AuthorityIsUp DEF InterruptionDue, HasAuthority, ActInv, RunningInv, RunningSet
  <2>3. ChainEnd(Root)
    BY <2>2, LeafEndsChain
  <2> QED
    BY <1>0, <2>1, <2>3, Settles
<1>3. CASE card' \in OwnedCascadeCuts
  <2>1. PICK c \in Cards \ {Root} : CancellationDue(c) /\
          \E S \in CascadePrefixes(OwnerCascade(c)) \cup {OwnerCascade(c) \cup {c}} : card' = CancelCards(card, S)
    BY <1>3 DEF OwnedCascadeCuts
  <2>2. c \in Owned /\ halt = "none" /\ child[c] = NoCard
    BY <2>1 DEF CancellationDue, HasAuthority
  <2>3. ASSUME NEW S \in CascadePrefixes(OwnerCascade(c)), card' = CancelCards(card, S) PROVE Lifecycle!Whole
    <3>1. S \in SUBSET Cards /\ Root \notin S /\ \A d \in S : CanCancel(card[d]) /\ card[d] # "running"
      BY <2>2, <2>3, OwnerCascadeCancels DEF CascadePrefixes
    <3>2. \A x \in S : \A d \in Children(x) : CanCancel(card[d]) => d \in S
      BY <2>3, OwnerPartsAreClosed
    <3> QED
      BY <1>0, <2>3, <3>1, <3>2, Revises
  <2>4. ASSUME card' = CancelCards(card, OwnerCascade(c) \cup {c}) PROVE Lifecycle!Whole
    <3> DEFINE G == OwnerCascade(c) \cup {c}
    <3>1. c # Root /\ card[c] = "running"
      BY <2>1, <2>2, AuthorityIsUp DEF CancellationDue, HasAuthority, ActInv, RunningInv, RunningSet
    <3>2. card' = CancelCards(card, G)
      BY <2>4
    <3>3. /\ G \in SUBSET Cards /\ Root \notin G
          /\ \A d \in G : CanCancel(card[d]) /\ (card[d] = "running" => ChainEnd(d))
          /\ \A x \in G : \A d \in Children(x) : CanCancel(card[d]) => d \in G
      BY <2>2, <3>1, OwnerTakes
    <3> HIDE DEF G
    <3> QED
      BY <1>0, <3>2, <3>3, Revises
  <2> QED
    BY <2>1, <2>3, <2>4
<1>4. ASSUME NEW c \in Cards \ Owned, MayCancel(c), card[c] # "running",
             NEW S \in CascadePrefixes(CascadeSet(card, c))
      PROVE  /\ S \in SUBSET Cards /\ Root \notin S /\ \A d \in S : CanCancel(card[d]) /\ card[d] # "running"
             /\ \A x \in S : \A d \in Children(x) : CanCancel(card[d]) => d \in S
  BY <1>4, StoredGoes DEF MayCancel
<1>5. CASE card' \in StoredCascadeCuts
  <2>1. PICK c \in Cards \ Owned : MayCancel(c) /\ card[c] # "running" /\
          \E S \in CascadePrefixes(CascadeSet(card, c)) : card' = CancelCards(card, S)
    BY <1>5 DEF StoredCascadeCuts
  <2> QED
    BY <1>0, <1>4, <2>1, Revises
<1>6. CASE card' \in StoredPropagationCuts
  <2>1. PICK c \in Cards \ Owned : MayCancel(c) /\ card[c] # "running" /\
          card' \in FlipPrefixes(CancelCards(card, CascadeSet(card, c)), Parent[c])
    BY <1>6 DEF StoredPropagationCuts
  <2>2. CascadeSet(card, c) \in CascadePrefixes(CascadeSet(card, c))
    BY DEF CascadePrefixes
  <2>3. card' \in Flips(CancelCards(card, CascadeSet(card, c)), Parent[c]) /\ Parent[c] \in Cards
    BY <2>1, TreeAssumption DEF Flips, MayCancel
  <2> DEFINE G == CascadeSet(card, c)
  <2>4. /\ G \in SUBSET Cards /\ Root \notin G /\ \A d \in G : CanCancel(card[d]) /\ card[d] # "running"
        /\ \A x \in G : \A d \in Children(x) : CanCancel(card[d]) => d \in G
    BY <1>4, <2>1, <2>2
  <2>5. card' \in Flips(CancelCards(card, G), Parent[c])
    BY <2>3
  <2> HIDE DEF G
  <2> QED
    BY <1>0, <2>3, <2>4, <2>5, FlipRevises
<1>7. CASE card' \in PropagationCuts
  BY <1>0, <1>7, PathRevises DEF PropagationCuts, Flips
<1> QED
  BY <1>1, <1>2, <1>3, <1>5, <1>6, <1>7 DEF PartialPublications

\* Every action publishes one operation of the card lifecycle, whole or cut short, or
\* none.
LEMMA LifecycleStep ==
  ASSUME TypeOK, CoreInv, DoneIsQuiet, [Next]_vars
  PROVE  Publishes
<1> USE RootFacts DEF vars, cardVars, runVars, ownVars, haltVars, Publishes
<1>0. /\ InductiveInv /\ ActInv /\ RunningInv /\ ResultInv
      /\ card \in [Cards -> Status]
  BY DEF CoreInv, TypeOK
<1>a. ASSUME RuntimeStep PROVE Publishes
  <2>1. CASE Startup
    <3>1. RunningSet(card) \in SettledSuffixes(card)
      BY DEF SettledSuffixes
    <3> QED
      BY <1>0, <2>1, <3>1, Recovers DEF Startup
  <2>2. CASE StartupFails
    BY <1>0, <2>2, Recovers DEF StartupFails
  <2>3. CASE StartProject
    <3>1. CASE RunningSet(card) = {}
      <4>1. CanBecomeRunning(card[Root])
        BY <1>0, <2>3, <3>1 DEF StartProject, MayStart, HasEntry, CanBecomeRunning, SetStatusSources
      <4>2. card' = [card EXCEPT ![Root] = "running"]
        BY <1>0, <2>3, <3>1 DEF StartProject, StartedCards, StopCards, TypeOK
      <4> QED
        BY <1>0, <3>1, <4>1, <4>2, Activates
    <3>2. CASE RunningSet(card) # {}
      BY <1>0, <2>3, <3>2, Restarts DEF StartProject, StartedCards
    <3> QED
      BY <1>0, <3>1, <3>2
  <2>4. CASE StartProjectFails
    BY <1>0, <2>4, Recovers DEF StartProjectFails
  <2>5. CASE Launch
    BY <1>0, <2>5 DEF Launch
  <2>6. CASE StopProject
    BY <1>0, <2>6 DEF StopProject
  <2>7. CASE CloseApplication
    BY <1>0, <2>7 DEF CloseApplication
  <2>8. CASE HaltStops
    BY <1>0, <2>8 DEF HaltStops
  <2>9. CASE HaltErrors
    BY <1>0, <2>9 DEF HaltErrors
  <2>10. CASE Crash
    BY <1>0, <2>10 DEF Crash
  <2>11. CASE CrashMidPublication
    <3>1. Lifecycle!Whole \/ Lifecycle!CutShort
      BY <1>0, <2>11, CutsAreOperations DEF CrashMidPublication
    <3> QED
      BY <2>11, <3>1 DEF CrashMidPublication, Unannounced
  <2>12. CASE Pause
    BY <1>0, <2>12 DEF Pause
  <2>13. CASE Resume
    BY <1>0, <2>13 DEF Resume
  <2>14. CASE ReleaseSettledRoot
    BY <1>0, <2>14 DEF ReleaseSettledRoot
  <2>15. CASE ReplaceInterruptedRoot
    BY <1>0, <2>15 DEF ReplaceInterruptedRoot
  <2>16. CASE ReactivateRootFails
    <3>1. Root \in Owned /\ child[Root] = NoCard /\ card[Root] = "running" /\ halt = "none"
      BY <1>0, <2>16, AuthorityIsUp DEF ReactivateRootFails, InterruptionDue, HasAuthority, ActInv, RunningInv, RunningSet
    <3>2. ChainEnd(Root)
      BY <1>0, <3>1, LeafEndsChain
    <3> QED
      BY <1>0, <2>16, <3>1, <3>2, Settles DEF ReactivateRootFails
  <2>17. CASE GcBegin
    BY <1>0, <2>17 DEF GcBegin
  <2>18. CASE GcCollect
    BY <1>0, <2>18 DEF GcCollect
  <2>19. CASE GcFinish
    BY <1>0, <2>19 DEF GcFinish
  <2> QED
    BY <1>a, <2>1, <2>2, <2>3, <2>4, <2>5, <2>6, <2>7, <2>8, <2>9, <2>10, <2>11, <2>12,
       <2>13, <2>14, <2>15, <2>16, <2>17, <2>18, <2>19 DEF RuntimeStep
<1>b. ASSUME NEW c \in Cards, CardStep(c) PROVE Publishes
  <2>1. CASE RuntimeFailure(c)
    BY <1>0, <2>1 DEF RuntimeFailure
  <2>2. CASE UrgentTakenOver(c)
    BY <1>0, <2>2 DEF UrgentTakenOver
  <2>3. CASE PassGate(c)
    BY <1>0, <2>3 DEF PassGate
  <2>4. CASE ParkAtGate(c)
    BY <1>0, <2>4 DEF ParkAtGate
  <2>5. CASE NextTurn(c)
    BY <1>0, <2>5 DEF NextTurn
  <2>6. CASE NodeHandoff(c)
    BY <1>0, <2>6 DEF NodeHandoff
  <2>7. CASE NextNode(c)
    BY <1>0, <2>7 DEF NextNode
  <2>8. CASE DeliverNotifications(c)
    BY <1>0, <2>8 DEF DeliverNotifications
  <2>9. CASE SettleResultFails(c)
    BY <1>0, <2>9 DEF SettleResultFails
  <2>10. CASE ReleaseSettledChild(c)
    BY <1>0, <2>10 DEF ReleaseSettledChild
  <2>11. CASE JoinActivation(c)
    BY <1>0, <2>11 DEF JoinActivation
  <2>12. CASE JoinFails(c)
    BY <1>0, <2>12 DEF JoinFails
  <2>13. CASE CancelStored(c)
    <3>1. c # Root /\ card[c] # "running" /\ Parent[c] \in Cards
      BY <2>13, StoredCancels
    <3>2. ASSUME NEW T \in CascadePrefixes(CascadeSet(card, c)), card' = CancelCards(card, T)
          PROVE  Lifecycle!Whole
      BY <1>0, <3>1, <3>2, StoredGoes, Revises
    <3> DEFINE G == CascadeSet(card, c)
    <3>3. /\ G \in SUBSET Cards /\ Root \notin G /\ \A d \in G : CanCancel(card[d]) /\ card[d] # "running"
          /\ \A x \in G : \A d \in Children(x) : CanCancel(card[d]) => d \in G
      <4>1. G \in CascadePrefixes(G)
        BY DEF CascadePrefixes
      <4> QED
        BY <1>0, <3>1, <4>1, StoredGoes
    <3>4. \/ /\ card' \in Flips(CancelCards(card, G), Parent[c])
             /\ card' # FlipPath(CancelCards(card, G), Parent[c]) => Unannounced
          \/ \E T \in CascadePrefixes(CascadeSet(card, c)) : card' = CancelCards(card, T)
      BY <2>13, StoredCancels DEF Unannounced
    <3> HIDE DEF G
    <3> QED
      BY <1>0, <3>1, <3>2, <3>3, <3>4, FlipRevises
  <2>14. CASE CancelOwned(c)
    BY <1>0, <2>14 DEF CancelOwned
  <2>15. CASE SettleCancellation(c)
    <3> DEFINE G == OwnerCascade(c) \cup {c}
    <3>1. /\ c \in Owned /\ child[c] = NoCard /\ halt = "none" /\ c # Root /\ Parent[c] \in Cards
          /\ card[c] = "running"
      BY <1>0, <2>15, AuthorityIsUp, TreeAssumption DEF SettleCancellation, CancellationDue, HasAuthority,
         ReleaseChild, ActInv, RunningInv, RunningSet, Owned
    <3>2. /\ G \in SUBSET Cards /\ Root \notin G
          /\ \A d \in G : CanCancel(card[d]) /\ (card[d] = "running" => ChainEnd(d))
          /\ \A x \in G : \A d \in Children(x) : CanCancel(card[d]) => d \in G
      BY <1>0, <3>1, OwnerTakes
    <3>3. card' = CancelCards(card, G) \/ PropagateFromParent(CancelCards(card, G), c, G)
      BY <2>15 DEF SettleCancellation, CancelCascade
    <3> HIDE DEF G
    <3>4. CASE card' = CancelCards(card, G)
      BY <1>0, <3>2, <3>4, Revises
    <3>5. CASE PropagateFromParent(CancelCards(card, G), c, G)
      <4>1. CancelCards(card, G) \in [Cards -> Status]
        BY <1>0, CardTypes
      <4>2. /\ card' \in Flips(CancelCards(card, G), Parent[c])
            /\ card' # FlipPath(CancelCards(card, G), Parent[c]) => Unannounced
        BY <3>1, <3>5, <4>1, ParentPropagates DEF Unannounced
      <4> QED
        BY <1>0, <3>1, <3>2, <4>2, FlipRevises
    <3> QED
      BY <3>3, <3>4, <3>5
  <2>16. CASE SettleCancellationFails(c)
    <3>1. c \in Owned /\ halt = "none"
      BY <1>0, <2>16 DEF SettleCancellationFails, CancellationDue, HasAuthority
    <3>2. OwnerCascade(c) \in CascadePrefixes(OwnerCascade(c)) /\ card' = CancelCards(card, OwnerCascade(c))
      BY <2>16 DEF SettleCancellationFails, CancelCascade, CascadePrefixes
    <3> QED
      BY <1>0, <3>1, <3>2, OwnerCascadeCancels, OwnerPartsAreClosed, Revises
  <2>17. CASE CascadeFails(c)
    <3>1. PICK S \in CascadePrefixes(OwnerCascade(c)) : card' = CancelCards(card, S)
      BY <2>17 DEF CascadeFails, CascadeCutShort, CancelCascade
    <3>2. c \in Owned /\ halt = "none"
      BY <1>0, <2>17 DEF CascadeFails, CancellationDue, HasAuthority
    <3>3. S \in SUBSET Cards /\ Root \notin S /\ \A d \in S : CanCancel(card[d]) /\ card[d] # "running"
      BY <1>0, <3>2, OwnerCascadeCancels DEF CascadePrefixes
    <3>4. \A x \in S : \A d \in Children(x) : CanCancel(card[d]) => d \in S
      BY OwnerPartsAreClosed
    <3> QED
      BY <1>0, <3>1, <3>3, <3>4, Revises
  <2>18. CASE Notify(c)
    BY <1>0, <2>18 DEF Notify
  <2>19. CASE UrgentQueues(c)
    BY <1>0, <2>19 DEF UrgentQueues
  <2>20. CASE UrgentInterrupts(c)
    BY <1>0, <2>20 DEF UrgentInterrupts
  <2>21. CASE StopInterruptedChild(c)
    <3>1. c \in Owned /\ child[c] = NoCard /\ halt = "none"
      BY <1>0, <2>21 DEF StopInterruptedChild, InterruptionDue, HasAuthority
    <3>2. ChainEnd(c)
      BY <1>0, <2>21, <3>1, LeafEndsChain DEF StopInterruptedChild
    <3> QED
      BY <1>0, <2>21, <3>2, Settles DEF StopInterruptedChild
  <2>22. CASE StopInterruptedFails(c)
    BY <1>0, <2>22 DEF StopInterruptedFails
  <2>23. CASE NodeInterruptionSettles(c)
    BY <1>0, <2>23 DEF NodeInterruptionSettles
  <2>24. CASE AnalystReopen(c)
    BY <1>0, <2>24, AnalystPropagates, PathRevises DEF Unannounced
  <2>25. CASE AnalystRecordEdit(c)
    BY <1>0, <2>25, AnalystPropagates, PathRevises DEF Unannounced
  <2>26. ASSUME NEW o \in Outcomes, ClaimResult(c, o) PROVE Publishes
    BY <1>0, <2>26 DEF ClaimResult
  <2>27. ASSUME NEW o \in Outcomes, SettleResult(c, o) PROVE Publishes
    <3>1. c \in Owned /\ child[c] = NoCard /\ halt = "none" /\ card[c] = "running"
      BY <1>0, <2>27 DEF SettleResult, MaySettle, HasAuthority
    <3>2. ChainEnd(c)
      BY <1>0, <3>1, LeafEndsChain
    <3>3. o = "done" => SubtreeComplete(card, c)
      BY <1>0, <2>27 DEF SettleResult, OutcomeReady, ResultInv
    <3> QED
      BY <1>0, <2>27, <3>2, <3>3, Settles DEF SettleResult, Outcomes
  <2> QED
    BY <1>b, <2>1, <2>2, <2>3, <2>4, <2>5, <2>6, <2>7, <2>8, <2>9, <2>10, <2>11, <2>12,
       <2>13, <2>14, <2>15, <2>16, <2>17, <2>18, <2>19, <2>20, <2>21, <2>22, <2>23,
       <2>24, <2>25, <2>26, <2>27 DEF CardStep
<1>c. ASSUME NEW p \in Cards, NEW c \in Cards, PlannerStep(p, c) PROVE Publishes
  <2>1. CASE ActivateChild(p, c)
    <3>1. p \in Owned /\ child[p] = NoCard /\ halt = "none" /\ card[p] = "running" /\ Parent[c] = p /\ c # Root
      BY <1>0, <2>1, TreeAssumption DEF ActivateChild, MayActivate, ParentActs, Owned, InductiveInv, FrontierInv
    <3>2. ChainEnd(p)
      BY <1>0, <3>1, LeafEndsChain
    <3>3. CanBecomeRunning(card[c])
      BY <1>0, <2>1 DEF ActivateChild, MayActivate, HasEntry, CanBecomeRunning, SetStatusSources
    <3> QED
      BY <1>0, <2>1, <3>1, <3>2, <3>3, Activates DEF ActivateChild
  <2>2. CASE ActivateChildFails(p, c)
    BY <1>0, <2>2 DEF ActivateChildFails
  <2>3. CASE PlannerReopen(p, c)
    <3>1. p \in Owned /\ halt = "none" /\ proc[p] = "node" /\ c # Root /\ Parent[c] = p
      BY <1>0, <2>3, TreeAssumption DEF PlannerReopen, ParentActs, Owned
    <3>2. \A a \in Anc[c] : card[a] = "running"
      BY <1>0, <3>1, AuthorityIsUp, TreeAssumption DEF ActInv, RunningInv, RunningSet
    <3> QED
      BY <1>0, <2>3, <3>2, Reopens DEF PlannerReopen, Flippable
  <2>4. CASE PlannerReopenFails(p, c)
    BY <1>0, <2>4 DEF PlannerReopenFails
  <2>5. CASE PlannerCancel(p, c)
    <3>1. PICK T \in CascadePrefixes(CascadeSet(card, c)) : card' = CancelCards(card, T)
      BY <1>0, <2>5, PlannerCancels
    <3> QED
      BY <1>0, <2>5, <3>1, PlannerCancels, StoredGoes, Revises
  <2>6. CASE RecordMutation(p, c)
    <3>1. \A a \in Anc[c] : card[a] # "done"
      BY <1>0, <2>6, TreeAssumption DEF RecordMutation, DoneIsQuiet, Descendants
    <3> QED
      BY <1>0, <2>6, <3>1, Reopens DEF RecordMutation, Flippable
  <2> QED
    BY <1>c, <2>1, <2>2, <2>3, <2>4, <2>5, <2>6 DEF PlannerStep
<1>d. CASE UNCHANGED vars
  BY <1>d
<1> QED
  BY <1>a, <1>b, <1>c, <1>d DEF Next

-----------------------------------------------------------------------------
(* What a claim stands for *)

\* What FirstWinnerDecides and DoneLosesNothing say of one step.
WinnerStep ==
  rt' # "uninitialized" =>
    \A c \in Owned :
      /\ winner[c] # "open" /\ phase'[c] # "none" /\ winner'[c] # winner[c] =>
           c = Root /\ winner[c] = "interrupt" /\ phase'[c] # "settling"
      /\ winner[c] # "open" /\ card[c] = "running" /\ card'[c] # "running" =>
           card'[c] \in CASE winner[c] = "result"    -> Outcomes
                          [] winner[c] = "cancel"    -> {"cancelled"}
                          [] winner[c] = "interrupt" -> {"stopped"}

NoticeStep == \A c \in Cards : card[c] # "done" /\ card'[c] = "done" => c \notin pend

\* A step that publishes and claims nothing.
LEMMA PublishQuiet ==
  ASSUME UNCHANGED <<card, winner>>
  PROVE  WinnerStep /\ NoticeStep
BY DEF WinnerStep, NoticeStep

\* No publication that was cut short had published an outcome.
LEMMA CutsPublishNoDone ==
  ASSUME TypeOK, NEW st \in PartialPublications, NEW d \in Cards, st[d] = "done"
  PROVE  card[d] = "done"
<1>1. CASE st \in SettlementCuts
  BY <1>1 DEF SettlementCuts, StopCards
<1>2. CASE st \in ReplacementCuts
  BY <1>2 DEF ReplacementCuts, TypeOK
<1>3. CASE st \in OwnedCascadeCuts
  BY <1>3 DEF OwnedCascadeCuts, CancelCards
<1>4. CASE st \in StoredCascadeCuts
  BY <1>4 DEF StoredCascadeCuts, CancelCards
<1>5. CASE st \in StoredPropagationCuts
  <2>1. PICK c \in Cards : st \in FlipPrefixes(CancelCards(card, CascadeSet(card, c)), Parent[c])
    BY <1>5 DEF StoredPropagationCuts
  <2>2. CancelCards(card, CascadeSet(card, c))[d] = "done"
    BY <2>1 DEF FlipPrefixes, FlipPath
  <2> QED
    BY <2>2 DEF CancelCards
<1>6. CASE st \in PropagationCuts
  BY <1>6 DEF PropagationCuts, FlipPrefixes, FlipPath
<1> QED
  BY <1>1, <1>2, <1>3, <1>4, <1>5, <1>6 DEF PartialPublications

\* What is cancelled of a stored card's cascade did not run.
LEMMA PartRests ==
  ASSUME card \in [Cards -> Status], RunningInv, NEW c \in Cards, card[c] # "running",
         NEW T \in SUBSET CascadeSet(card, c), NEW st, st = CancelCards(card, T)
  PROVE  RunningSet(st) = RunningSet(card)
<1>1. \A d \in CascadeSet(card, c) : card[d] # "running"
  BY CascadeCancels
<1> QED
  BY <1>1 DEF CancelCards, RunningSet

\* The cancellation of a stored card settles no running card and no card as done,
LEMMA StoredMild ==
  ASSUME TypeOK, RunningInv, NEW c \in Cards, CancelStored(c)
  PROVE  RunningSet(card') = RunningSet(card) /\ \A d \in Cards : card'[d] = "done" => card[d] = "done"
<1> DEFINE st(T) == CancelCards(card, T)
<1>0. card \in [Cards -> Status] /\ card[c] # "running" /\ Parent[c] \in Cards
  BY StoredCancels DEF TypeOK
<1>1. ASSUME NEW T \in SUBSET CascadeSet(card, c)
      PROVE  RunningSet(st(T)) = RunningSet(card) /\ \A d \in Cards : st(T)[d] = "done" => card[d] = "done"
  BY <1>0, <1>1, PartRests DEF CancelCards
<1>2. CASE card' \in Flips(st(CascadeSet(card, c)), Parent[c])
  <2>1. st(CascadeSet(card, c)) \in [Cards -> Status]
    BY <1>0, CardTypes
  <2>2. /\ RunningSet(card') = RunningSet(st(CascadeSet(card, c)))
        /\ \A d \in Cards : card'[d] = "done" => st(CascadeSet(card, c))[d] = "done"
    BY <1>0, <1>2, <2>1, FlipsAreMild
  <2> QED
    BY <1>1, <2>2
<1>3. CASE \E T \in CascadePrefixes(CascadeSet(card, c)) : card' = CancelCards(card, T)
  BY <1>1, <1>3 DEF CascadePrefixes
<1> QED
  BY <1>2, <1>3, StoredCancels

\* and neither does what the analyst reopens.
LEMMA AnalystMild ==
  ASSUME TypeOK, NEW c \in Cards, AnalystReopen(c) \/ AnalystRecordEdit(c)
  PROVE  RunningSet(card') = RunningSet(card) /\ \A d \in Cards : card'[d] = "done" => card[d] = "done"
<1>1. card' \in Flips(card, c)
  BY AnalystPropagates
<1> QED
  BY <1>1, FlipsAreMild DEF TypeOK

\* Every action publishes what the claim of its owner stands for, and done over no
\* pending notification.
LEMMA PublishStep ==
  ASSUME TypeOK, InductiveInv, ActInv, RunningInv, ResultInv, [Next]_vars
  PROVE  WinnerStep /\ NoticeStep
<1> USE RootFacts DEF vars, cardVars, runVars, ownVars, haltVars
<1>a. ASSUME RuntimeStep PROVE WinnerStep /\ NoticeStep
  <2>1. CASE Startup
    <3>1. Owned = {}
      BY <2>1 DEF Startup, InductiveInv, RetentionInv
    <3>2. \A d \in Cards : card'[d] = "done" => card[d] = "done"
      BY <2>1 DEF Startup, StopCards
    <3> QED
      BY <3>1, <3>2 DEF WinnerStep, NoticeStep
  <2>2. CASE StartupFails
    <3>1. Owned = {}
      BY <2>2 DEF StartupFails, InductiveInv, RetentionInv
    <3>2. \A d \in Cards : card'[d] = "done" => card[d] = "done"
      BY <2>2 DEF StartupFails, StopCards
    <3> QED
      BY <3>1, <3>2 DEF WinnerStep, NoticeStep
  <2>3. CASE StartProject
    <3>1. Owned = {}
      BY <2>3 DEF StartProject, MayStart, InductiveInv, RetentionInv
    <3>2. \A d \in Cards : card'[d] = "done" => card[d] = "done"
      BY <2>3 DEF StartProject, StartedCards, StopCards
    <3> QED
      BY <3>1, <3>2 DEF WinnerStep, NoticeStep
  <2>4. CASE StartProjectFails
    <3>1. Owned = {}
      BY <2>4 DEF StartProjectFails, MayStart, InductiveInv, RetentionInv
    <3>2. \A d \in Cards : card'[d] = "done" => card[d] = "done"
      BY <2>4 DEF StartProjectFails, StopCards
    <3> QED
      BY <3>1, <3>2 DEF WinnerStep, NoticeStep
  <2>5. CASE Launch
    BY <2>5, PublishQuiet DEF Launch
  <2>6. CASE StopProject
    BY <2>6, PublishQuiet DEF StopProject
  <2>7. CASE CloseApplication
    BY <2>7, PublishQuiet DEF CloseApplication
  <2>8. CASE HaltStops
    <3>1. \A d \in Owned : phase'[d] = "none"
      BY <2>8 DEF HaltStops, Upd, Owned
    <3> QED
      BY <2>8, <3>1 DEF HaltStops, WinnerStep, NoticeStep
  <2>9. CASE HaltErrors
    BY <2>9, PublishQuiet DEF HaltErrors
  <2>10. CASE Crash
    BY <2>10 DEF Crash, ProcessRestarts, WinnerStep, NoticeStep
  <2>11. CASE CrashMidPublication
    BY <2>11, CutsPublishNoDone DEF CrashMidPublication, ProcessRestarts, WinnerStep,
       NoticeStep
  <2>12. CASE Pause
    BY <2>12, PublishQuiet DEF Pause
  <2>13. CASE Resume
    BY <2>13, PublishQuiet DEF Resume
  <2>14. CASE ReleaseSettledRoot
    BY <2>14 DEF ReleaseSettledRoot, ReleaseOwner, WinnerStep, NoticeStep, TypeOK
  <2>15. CASE ReplaceInterruptedRoot
    BY <2>15 DEF ReplaceInterruptedRoot, InterruptionDue, WinnerStep, NoticeStep, TypeOK
  <2>16. CASE ReactivateRootFails
    BY <2>16 DEF ReactivateRootFails, InterruptionDue, BeginHalt, WinnerStep, NoticeStep,
       TypeOK
  <2>17. CASE GcBegin
    BY <2>17, PublishQuiet DEF GcBegin
  <2>18. CASE GcCollect
    BY <2>18, PublishQuiet DEF GcCollect
  <2>19. CASE GcFinish
    BY <2>19, PublishQuiet DEF GcFinish
  <2> QED
    BY <1>a, <2>1, <2>2, <2>3, <2>4, <2>5, <2>6, <2>7, <2>8, <2>9, <2>10, <2>11, <2>12,
       <2>13, <2>14, <2>15, <2>16, <2>17, <2>18, <2>19 DEF RuntimeStep
<1>b. ASSUME NEW c \in Cards, CardStep(c) PROVE WinnerStep /\ NoticeStep
  <2>1. CASE RuntimeFailure(c)
    BY <2>1, PublishQuiet DEF RuntimeFailure
  <2>2. CASE UrgentTakenOver(c)
    BY <2>2, PublishQuiet DEF UrgentTakenOver
  <2>3. CASE PassGate(c)
    BY <2>3, PublishQuiet DEF PassGate
  <2>4. CASE ParkAtGate(c)
    BY <2>4, PublishQuiet DEF ParkAtGate
  <2>5. CASE NextTurn(c)
    BY <2>5, PublishQuiet DEF NextTurn
  <2>6. CASE NodeHandoff(c)
    BY <2>6, PublishQuiet DEF NodeHandoff
  <2>7. CASE NextNode(c)
    BY <2>7, PublishQuiet DEF NextNode
  <2>8. CASE DeliverNotifications(c)
    BY <2>8, PublishQuiet DEF DeliverNotifications
  <2>9. CASE SettleResultFails(c)
    BY <2>9 DEF SettleResultFails, MaySettle, WinnerStep, NoticeStep, TypeOK
  <2>10. CASE ReleaseSettledChild(c)
    BY <2>10 DEF ReleaseSettledChild, ReleaseChild, ReleaseOwner, WinnerStep, NoticeStep,
       TypeOK
  <2>11. CASE JoinActivation(c)
    BY <2>11, PublishQuiet DEF JoinActivation
  <2>12. CASE JoinFails(c)
    BY <2>12, PublishQuiet DEF JoinFails
  <2>13. CASE CancelStored(c)
    <3>1. RunningSet(card') = RunningSet(card) /\ \A d \in Cards : card'[d] = "done" => card[d] = "done"
      BY <2>13, StoredMild
    <3>2. winner' = winner
      BY <2>13 DEF CancelStored
    <3> QED
      BY <3>1, <3>2 DEF WinnerStep, NoticeStep, RunningSet, Owned
  <2>14. CASE CancelOwned(c)
    <3>1. \A d \in Cards : winner[d] # "open" => winner'[d] = winner[d]
      BY <2>14 DEF CancelOwned, SuffixClaimable, Upd, Live
    <3> QED
      BY <2>14, <3>1 DEF CancelOwned, WinnerStep, NoticeStep, Owned
  <2>15. CASE SettleCancellation(c)
    <3> DEFINE st == CancelCards(card, OwnerCascade(c) \cup {c})
    <3>1. c \in Owned /\ halt = "none" /\ winner[c] = "cancel" /\ c # Root /\ Parent[c] \in Cards
      BY <2>15, TreeAssumption DEF SettleCancellation, CancellationDue, HasAuthority, ReleaseChild, Owned
    <3>2. st \in [Cards -> Status] /\ RunningSet(st) = RunningSet(card) \ {c} /\ st[c] = "cancelled"
      <4>1. RunningSet(st) = RunningSet(card) \ (OwnerCascade(c) \cup {c})
        BY CancelRunning DEF TypeOK
      <4>2. OwnerCascade(c) \cap RunningSet(card) = {}
        BY <3>1, OwnerCascadeRests DEF ActInv
      <4> QED
        BY <4>1, <4>2, CancelTypes DEF TypeOK, CancelCards
    <3>3. card' \in Flips(st, Parent[c])
      <4>1. card' = st \/ PropagateFromParent(st, c, OwnerCascade(c) \cup {c})
        BY <2>15 DEF SettleCancellation, CancelCascade
      <4>2. st \in Flips(st, Parent[c])
        BY DEF Flips
      <4> QED
        BY <3>1, <3>2, <4>1, <4>2, ParentPropagates
    <3>4. RunningSet(card') = RunningSet(card) \ {c}
      BY <3>1, <3>2, <3>3, FlipsAreMild
    <3>5. card'[c] = "cancelled" /\ \A d \in Cards : card'[d] = "done" => card[d] = "done"
      <4>1. \A d \in Cards : card'[d] = st[d] \/ (card'[d] = "changed" /\ st[d] \in Flippable)
        BY <3>1, <3>2, <3>3, FlipsAreMild
      <4>2. \A d \in Cards : st[d] = "done" => card[d] = "done"
        BY DEF CancelCards
      <4>3. c \in Cards
        BY <3>1 DEF Owned
      <4> QED
        BY <3>2, <4>1, <4>2, <4>3 DEF Flippable
    <3>6. phase'[c] = "none" /\ \A d \in Cards \ {c} : winner'[d] = winner[d]
      BY <2>15 DEF SettleCancellation, ReleaseChild, ReleaseOwner, TypeOK
    <3> QED
      BY <3>1, <3>4, <3>5, <3>6 DEF WinnerStep, NoticeStep, RunningSet, Owned
  <2>16. CASE SettleCancellationFails(c)
    <3>1. PICK S \in SUBSET OwnerCascade(c) : card' = CancelCards(card, S)
      BY <2>16 DEF SettleCancellationFails, CancelCascade
    <3>2. RunningSet(card') = RunningSet(card)
      BY <2>16, <3>1, OwnerCascadeQuiet DEF SettleCancellationFails, CancellationDue, ActInv
    <3>3. \A d \in Cards : card'[d] = "done" => card[d] = "done"
      BY <3>1 DEF CancelCards
    <3> QED
      BY <2>16, <3>2, <3>3 DEF SettleCancellationFails, WinnerStep, NoticeStep, RunningSet, Owned
  <2>17. CASE CascadeFails(c)
    <3>1. PICK S \in SUBSET OwnerCascade(c) : card' = CancelCards(card, S)
      BY <2>17 DEF CascadeFails, CascadeCutShort, CancelCascade, CascadePrefixes
    <3>2. RunningSet(card') = RunningSet(card)
      BY <2>17, <3>1, OwnerCascadeQuiet DEF CascadeFails, CancellationDue, ActInv
    <3>3. \A d \in Cards : card'[d] = "done" => card[d] = "done"
      BY <3>1 DEF CancelCards
    <3> QED
      BY <2>17, <3>2, <3>3 DEF CascadeFails, WinnerStep, NoticeStep, RunningSet, Owned
  <2>18. CASE Notify(c)
    BY <2>18, PublishQuiet DEF Notify
  <2>19. CASE UrgentQueues(c)
    BY <2>19, PublishQuiet DEF UrgentQueues
  <2>20. CASE UrgentInterrupts(c)
    <3>1. PICK b \in UrgentBoundary(c) :
            /\ UrgentClaimable(b)
            /\ winner' = Upd(winner, IF c = Root THEN Suffix(b) ELSE Suffix(b) \ {b}, "interrupt")
      BY <2>20 DEF UrgentInterrupts
    <3>2. \A d \in Suffix(b) : winner[d] = "open"
      BY <3>1 DEF UrgentClaimable, Live
    <3>3. \A d \in Cards : winner[d] # "open" => winner'[d] = winner[d]
      BY <3>1, <3>2 DEF Upd
    <3> QED
      BY <2>20, <3>3 DEF UrgentInterrupts, WinnerStep, NoticeStep, Owned
  <2>21. CASE StopInterruptedChild(c)
    BY <2>21 DEF StopInterruptedChild, InterruptionDue, ReleaseChild, ReleaseOwner,
       WinnerStep, NoticeStep, TypeOK
  <2>22. CASE StopInterruptedFails(c)
    BY <2>22, PublishQuiet DEF StopInterruptedFails
  <2>23. CASE NodeInterruptionSettles(c)
    BY <2>23, PublishQuiet DEF NodeInterruptionSettles
  <2>24. CASE AnalystReopen(c)
    BY <2>24, AnalystMild DEF AnalystReopen, WinnerStep, NoticeStep, RunningSet, Owned
  <2>25. CASE AnalystRecordEdit(c)
    BY <2>25, AnalystMild DEF AnalystRecordEdit, WinnerStep, NoticeStep, RunningSet, Owned
  <2>26. ASSUME NEW o \in Outcomes, ClaimResult(c, o) PROVE WinnerStep /\ NoticeStep
    BY <2>26 DEF ClaimResult, WinnerStep, NoticeStep, TypeOK
  <2>27. ASSUME NEW o \in Outcomes, SettleResult(c, o) PROVE WinnerStep /\ NoticeStep
    BY <2>27 DEF SettleResult, OutcomeReady, MaySettle, Outcomes, ResultInv, WinnerStep,
       NoticeStep, TypeOK
  <2> QED
    BY <1>b, <2>1, <2>2, <2>3, <2>4, <2>5, <2>6, <2>7, <2>8, <2>9, <2>10, <2>11, <2>12,
       <2>13, <2>14, <2>15, <2>16, <2>17, <2>18, <2>19, <2>20, <2>21, <2>22, <2>23,
       <2>24, <2>25, <2>26, <2>27 DEF CardStep
<1>c. ASSUME NEW p \in Cards, NEW c \in Cards, PlannerStep(p, c) PROVE WinnerStep /\ NoticeStep
  <2>1. CASE ActivateChild(p, c)
    BY <2>1 DEF ActivateChild, WinnerStep, NoticeStep, TypeOK
  <2>2. CASE ActivateChildFails(p, c)
    BY <2>2, PublishQuiet DEF ActivateChildFails
  <2>3. CASE PlannerReopen(p, c)
    <3>1. RunningSet(card') = RunningSet(card)
      BY <2>3 DEF PlannerReopen, RunningSet, TypeOK
    <3>2. \A d \in Cards : card'[d] = "done" => card[d] = "done"
      BY <2>3 DEF PlannerReopen, FlipPath, CancelCards, PropagateFromParent
    <3>3. winner' = winner
      BY <2>3 DEF PlannerReopen
    <3> QED
      BY <3>1, <3>2, <3>3 DEF WinnerStep, NoticeStep, RunningSet, Owned
  <2>4. CASE PlannerReopenFails(p, c)
    BY <2>4, PublishQuiet DEF PlannerReopenFails
  <2>5. CASE PlannerCancel(p, c)
    <3>1. PICK T \in CascadePrefixes(CascadeSet(card, c)) : card' = CancelCards(card, T)
      BY <2>5, PlannerCancels
    <3>2. card[c] # "running" /\ T \subseteq CascadeSet(card, c) /\ winner' = winner
      BY <2>5 DEF PlannerCancel, CascadePrefixes
    <3>3. RunningSet(card') = RunningSet(card)
      BY <3>1, <3>2, PartRests DEF TypeOK
    <3>4. \A d \in Cards : card'[d] = "done" => card[d] = "done"
      BY <3>1 DEF CancelCards
    <3> QED
      BY <3>2, <3>3, <3>4 DEF WinnerStep, NoticeStep, RunningSet, Owned
  <2>6. CASE RecordMutation(p, c)
    <3>1. RunningSet(card') = RunningSet(card)
      BY <2>6 DEF RecordMutation, RunningSet, TypeOK
    <3>2. \A d \in Cards : card'[d] = "done" => card[d] = "done"
      BY <2>6 DEF RecordMutation, FlipPath, CancelCards, PropagateFromParent
    <3>3. winner' = winner
      BY <2>6 DEF RecordMutation
    <3> QED
      BY <3>1, <3>2, <3>3 DEF WinnerStep, NoticeStep, RunningSet, Owned
  <2> QED
    BY <1>c, <2>1, <2>2, <2>3, <2>4, <2>5, <2>6 DEF PlannerStep
<1>d. CASE UNCHANGED vars
  BY <1>d, PublishQuiet
<1> QED
  BY <1>a, <1>b, <1>c, <1>d DEF Next

\* The first claim decides what is published, in every interleaving of results,
\* cancellations, interruptions, halts and faults.
THEOREM WinnerDecides == Spec => FirstWinnerDecides
<1>1. TypeOK /\ CoreInv /\ [Next]_vars => [WinnerStep]_vars
  BY PublishStep DEF CoreInv
<1>2. [][WinnerStep]_vars => FirstWinnerDecides
  BY PTL DEF FirstWinnerDecides, WinnerStep
<1> QED
  BY <1>1, <1>2, TypeCorrect, CoreHolds, PTL DEF Spec

\* Work below a done card is reopened together with it unless a write failed or the
\* process died on the way, and then nobody was told.
LEMMA ReopenStep ==
  ASSUME TypeOK, CoreInv, DoneIsQuiet, [Next]_vars
  PROVE  /\ DoneIsQuiet'
         /\ \A c \in Cards : card[c] # "done" /\ card'[c] = "done" => SubtreeComplete(card', c)
         /\ DoneIsReopened
<1>0. card \in [Cards -> Status] /\ RunningInv
  BY DEF TypeOK, CoreInv
<1>1. CASE UNCHANGED card
  BY <1>1 DEF DoneIsQuiet, DoneIsReopened, ReopensBelow, SubtreeComplete
<1>2. CASE Lifecycle!Whole
  <2>1. Lifecycle!Next
    BY <1>2 DEF Lifecycle!Next
  <2> QED
    BY <1>0, <1>2, <2>1, LifecycleKeepsDone, WholeReopens DEF DoneIsReopened
<1>3. CASE Lifecycle!CutShort /\ Unannounced
  <2>1. Lifecycle!Next
    BY <1>3 DEF Lifecycle!Next
  <2> QED
    BY <1>0, <1>3, <2>1, LifecycleKeepsDone DEF DoneIsReopened, Unannounced
<1> QED
  BY <1>1, <1>2, <1>3, LifecycleStep DEF Publishes

\* A card is committed as done over finished work and no queued notification, only
\* finished or reopened work is ever below it, and the work below it is reopened
\* together with it, unless a write failed or the process died between two of the
\* cards, and then nobody was told. For every set of inputs, faults and crashes included.
THEOREM DoneStaysFinal == Spec => DoneIsFinal
<1>1. Init => DoneIsQuiet
  BY DEF Init, DoneIsQuiet
<1>2. TypeOK /\ CoreInv /\ DoneIsQuiet /\ [Next]_vars => DoneIsQuiet'
  BY ReopenStep
<1>3. TypeOK /\ CoreInv /\ DoneIsQuiet /\ [Next]_vars => [DoneIsFinalStep]_vars
  <2>1. TypeOK /\ CoreInv /\ [Next]_vars => NoticeStep
    BY PublishStep DEF CoreInv
  <2> QED
    BY <2>1, ReopenStep DEF DoneIsFinalStep, DoneLosesNothing, NoticeStep
<1> QED
  BY <1>1, <1>2, <1>3, TypeCorrect, CoreHolds, PTL DEF Spec, DoneIsFinal

\* The Supervisor implements the abstract card lifecycle: every step publishes one of
\* its operations, whole or cut short by a failed write or a crash, or nothing.
THEOREM ImplementsLifecycle == Spec => ImplementsCardLifecycle
<1>1. Init => Lifecycle!Init
  BY DEF Init, Lifecycle!Init
<1>2. TypeOK /\ CoreInv /\ DoneIsQuiet /\ [Next]_vars => [Lifecycle!Next]_card
  BY LifecycleStep DEF Publishes, Lifecycle!Next
<1>3. Spec => []DoneIsQuiet
  BY DoneStaysFinal, PTL DEF DoneIsFinal
<1> QED
  BY <1>1, <1>2, <1>3, TypeCorrect, CoreHolds, PTL DEF Spec, ImplementsCardLifecycle, Lifecycle!Spec
=============================================================================
