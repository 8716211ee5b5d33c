----------------------------- MODULE Supervisor -----------------------------
(* The runtime Supervisor of src/runtime/actors/supervisor-runtime-api.ts:   *)
(* one in-memory map of activation owners (card -> owner), the runtime       *)
(* status, the run identity, the runtime gate, the halt, and the durable     *)
(* card lifecycles it publishes. The card processor of an owner              *)
(* (card-process-actor.ts) appears by the part of its state the Supervisor   *)
(* depends on.                                                               *)
(*                                                                           *)
(* Steps. Node runs callbacks to completion, so a step is the code between   *)
(* two real suspension points (an I/O, a join, a provider turn). Chains of   *)
(* microtasks that only await already settled promises are one step.         *)
(*                                                                           *)
(* Faults. An operator whose comment begins with "Seeded fault" is a wrong   *)
(* variant of the definition after it; no action uses it. It documents which *)
(* mistake a property of SupervisorProperties would reveal.                  *)
(*                                                                           *)
(* Configuration. A project without a git policy (workflows.gitPolicy is     *)
(* null): the source hand-off windows of the git policy are not modelled.    *)
EXTENDS CardTree, RuntimeGate, FiniteSets

CONSTANT
  Inputs     \* the external inputs this instance admits, from InputKinds

InputKinds == {"start", "pause", "stop", "close", "cancel", "urgent", "notify",
               "analyst", "planner", "gc", "fault", "crash"}

ASSUME InputAssumption == Inputs \subseteq InputKinds

VARIABLES
  card,        \* durable lifecycle status of every card
  pend,        \* cards with pending_notifications
  rt,          \* status
  run,         \* runIdentity
  cur,         \* currentCardId
  prepared,    \* preparedLaunch # null
  phase,       \* owner.phase; "none" when the map has no owner for the card
  winner,      \* owner.terminalWinner
  child,       \* owner.childCardId
  proc,        \* where the owner's processor is
  out,         \* the outcome a claimed result will settle with
  lease,       \* phase of the owner's parentRelationship.invocation
  urgent,      \* owner.urgentSettlement: what the pending settlement is for
  gate,        \* the RuntimeGate
  halt,        \* halt.trigger, "none" without a halt
  frozen,      \* halt.owners
  haltFailed,  \* the halt has retained a failure
  adm,         \* applicationAdmissionOpen
  gc           \* workGcHold

cardVars == <<card, pend>>
runVars  == <<rt, run, cur, prepared>>
ownVars  == <<phase, winner, child, proc, out, lease, urgent>>
haltVars == <<halt, frozen, haltFailed>>
vars == <<cardVars, runVars, ownVars, gate, haltVars, adm, gc>>

-----------------------------------------------------------------------------
(* Values *)

RuntimeStatus == {"uninitialized", "stopped", "starting", "running",
                  "pausing", "paused", "closing", "error"}

Phases == {"none", "prepared_root", "child_admission", "active", "settling"}

Winners == {"open", "result", "cancel", "interrupt"}

\* none      no activation            ready    the next LLM turn is at the gate
\* node      a turn or an action runs parked   waiting in the gate
\* waiting   activate_card awaits     handoff  node result claimed, next node
\* claimed   terminal result claimed, the node scope is closing
\* settled   outcome committed, hook and join outstanding
\* retiring  current node interrupted, its resources still to be joined
\* stopping  activation interrupted, join outstanding
\* joined    joinActivation resolved  stranded cancellation settlement rejected
Procs == {"none", "ready", "node", "parked", "waiting", "handoff", "claimed",
          "settled", "retiring", "stopping", "joined", "stranded"}

Outcomes == {"done", "failed", "blocked"}

Leases == {"none", "admitted", "settling", "interrupted"}

Triggers == {"stop", "application_close", "publication_failure", "runtime_failure"}

NoGc == [phase |-> "none", run |-> NoRun, entry |-> "stopped",
         restore |-> FALSE, parked |-> FALSE, aborted |-> FALSE]

GcHolds == [phase : {"none", "settling", "collecting"},
            run : RunIds \cup {NoRun}, entry : {"running", "paused", "stopped"},
            restore : BOOLEAN, parked : BOOLEAN, aborted : BOOLEAN]

TypeOK ==
  /\ card \in [Cards -> Status]
  /\ pend \subseteq Cards
  /\ rt \in RuntimeStatus
  /\ run \in RunIds \cup {NoRun}
  /\ cur \in Cards \cup {NoCard}
  /\ prepared \in BOOLEAN
  /\ phase \in [Cards -> Phases]
  /\ winner \in [Cards -> Winners]
  /\ child \in [Cards -> Cards \cup {NoCard}]
  /\ proc \in [Cards -> Procs]
  /\ out \in [Cards -> Outcomes \cup {"none"}]
  /\ lease \in [Cards -> Leases]
  /\ urgent \in [Cards -> {"none", "node", "root"}]
  /\ gate \in Gates
  /\ halt \in Triggers \cup {"none"}
  /\ frozen \subseteq Cards
  /\ haltFailed \in BOOLEAN
  /\ adm \in BOOLEAN
  /\ gc \in GcHolds

-----------------------------------------------------------------------------
(* Helpers *)

Owned == {c \in Cards : phase[c] # "none"}

Live(c) == phase[c] = "active" /\ winner[c] = "open"

\* Seeded fault: the halt is not consulted.
HasAuthorityDuringHalt(c) == c \in Owned

\* requireOwnerAuthority(owner of c) returns.
HasAuthority(c) == halt = "none" /\ c \in Owned

\* The owners reached from c over childCardId, c included.
Suffix(c) == {d \in Owned : d = c \/ c \in Anc[d]}

\* assertWorkGcNotCollecting / assertWorkGcIngressAllowed
NotCollecting == gc.phase # "collecting"
IngressAllowed == gc.phase = "none"

\* cancelWorkGc
CancelledGc ==
  IF gc.phase = "none" THEN gc ELSE [gc EXCEPT !.restore = FALSE, !.aborted = TRUE]

\* A processor that starts: an agent node goes to the gate, an action node runs.
StartProcs == {"ready", "node"}

\* Functions updated on a set of cards
Upd(f, S, v) == [c \in Cards |-> IF c \in S THEN v ELSE f[c]]

\* notifyCard(c) would queue.
NotifyOk(c) ==
  /\ AcceptsNotifications(card[c])
  /\ c \in Owned => winner[c] = "open"

\* Of the cards told, with st the statuses by then, those whose notice is queued.
Heard(st, told) ==
  {d \in told : AcceptsNotifications(st[d]) /\ (d \in Owned => winner[d] = "open")}

\* flipRestingCardsAlongPath from c, with st the cards before it and cleared the
\* ones a cancellation took, then notifyOnce. A write may fail: the flips end
\* where they are and nobody is told, or the notices end (partly: who may have
\* been told by then). The service reports it as partial.
Propagate(st, c, cleared, told, partly) ==
  \/ /\ card' = FlipPath(st, c)
     /\ \E S \in {T \in partly : T = told \/ "fault" \in Inputs} :
          pend' = (pend \ cleared) \cup Heard(FlipPath(st, c), S)
  \/ /\ "fault" \in Inputs
     /\ card' \in FlipsCutShort(st, c)
     /\ pend' = pend \ cleared

\* cancelNonrunningSubtree: the cards S are cancelled children first.
CancelCascade(S) == card' = CancelCards(card, S) /\ pend' = pend \ S

\* The setStatus of one of them fails, outside publish(): nothing halts and the
\* call rejects.
CascadeCutShort(S) ==
  /\ "fault" \in Inputs
  /\ \E T \in CascadePrefixes(S) \ {S} : CancelCascade(T)

InterventionReady == rt \in {"stopped", "paused"} /\ NotCollecting
-----------------------------------------------------------------------------
Init ==
  /\ card = [c \in Cards |-> "backlog"]
  /\ pend = {}
  /\ rt = "uninitialized" /\ run = NoRun /\ cur = NoCard /\ prepared = FALSE
  /\ phase = [c \in Cards |-> "none"]
  /\ winner = [c \in Cards |-> "open"]
  /\ child = [c \in Cards |-> NoCard]
  /\ proc = [c \in Cards |-> "none"]
  /\ out = [c \in Cards |-> "none"]
  /\ lease = [c \in Cards |-> "none"]
  /\ urgent = [c \in Cards |-> "none"]
  /\ gate = NewGate
  /\ halt = "none" /\ frozen = {} /\ haltFailed = FALSE
  /\ adm = TRUE
  /\ gc = NoGc

-----------------------------------------------------------------------------
(* Halt: beginHalt with the owner graph (ph, ls) it freezes. The owners keep *)
(* their place in the map; every open lease is interrupted before any join,  *)
(* every processor starts stopping, and the parked turn is aborted.          *)

\* Seeded fault: the joins of a halt wait for leases nobody answers any more.
LeasesLeftOpen(ls) == ls

InterruptedLeases(ls) ==
  [c \in Cards |-> IF ls[c] \in {"admitted", "settling"} THEN "interrupted" ELSE ls[c]]

\* Seeded fault: the turn in the gate is not aborted.
HaltedGateStillParked == Closed(gate)

HaltedGate == WaiterAborted(Closed(gate))

BeginHalt(trigger, ph, ls) ==
  /\ halt' = trigger
  /\ frozen' = {c \in Cards : ph[c] # "none"}
  /\ rt' = "closing"
  /\ prepared' = FALSE
  /\ gate' = HaltedGate
  /\ phase' = ph
  /\ lease' = InterruptedLeases(ls)
  /\ proc' = [c \in Cards |->
                IF ph[c] = "none" \/ proc[c] = "joined" THEN proc[c] ELSE "stopping"]
  /\ adm' = (adm /\ trigger # "application_close")
  /\ gc' = CancelledGc

-----------------------------------------------------------------------------
(* Startup, Run, Stop, close *)

\* initializeStoppedRuntime: settle the interrupted chain leaf to root.
Startup ==
  /\ rt = "uninitialized"
  /\ IsRunningChain(card)
  /\ card' = StopCards(card, RunningSet(card))
  /\ gate' = Closed(gate)
  /\ rt' = "stopped"
  /\ UNCHANGED <<pend, run, cur, prepared, ownVars, haltVars, adm, gc>>

\* A publication of the settlement loop throws: the status stays uninitialized
\* and the cards already visited stay stopped.
StartupFails ==
  /\ "fault" \in Inputs
  /\ rt = "uninitialized"
  /\ IsRunningChain(card)
  /\ \E S \in SettledSuffixes(card) \ {RunningSet(card)} : card' = StopCards(card, S)
  /\ gate' = Closed(gate)
  /\ UNCHANGED <<pend, runVars, ownVars, haltVars, adm, gc>>

\* Seeded fault: application admission is not consulted.
MayStartWhileClosing ==
  /\ "start" \in Inputs
  /\ IngressAllowed
  /\ rt = "stopped" /\ run = NoRun /\ ~prepared
  /\ IsRunningChain(card)
  /\ RunningSet(card) # {} \/ HasEntry(card[Root])

\* What beginStartProject requires before it installs the root owner.
MayStart ==
  /\ "start" \in Inputs
  /\ IngressAllowed /\ adm
  /\ rt = "stopped" /\ run = NoRun /\ ~prepared
  /\ IsRunningChain(card)
  /\ RunningSet(card) # {} \/ HasEntry(card[Root])

\* Seeded fault: what the last Stop left running is not settled first.
StartedCardsUnsettled == [card EXCEPT ![Root] = "running"]

\* The chain settled, then the root running.
StartedCards == [StopCards(card, RunningSet(card)) EXCEPT ![Root] = "running"]

\* beginStartProject: install the prepared root, settle what an earlier Stop
\* left running, publish the root as running.
StartProject ==
  /\ MayStart
  /\ \E r \in RunIds \ {gate.onParked, gc.run} : run' = r
  /\ card' = StartedCards
  /\ rt' = "starting" /\ cur' = Root /\ prepared' = TRUE
  /\ phase' = [phase EXCEPT ![Root] = "active"]
  /\ UNCHANGED <<pend, winner, child, proc, out, lease, urgent, gate, haltVars,
                 adm, gc>>

\* One of those publications throws after a prefix of the chain was settled.
StartProjectFails ==
  /\ "fault" \in Inputs
  /\ MayStart
  /\ \E r \in RunIds \ {gate.onParked, gc.run} : run' = r
  /\ \E S \in SettledSuffixes(card) : card' = StopCards(card, S)
  /\ cur' = Root
  /\ BeginHalt("publication_failure", [phase EXCEPT ![Root] = "prepared_root"], lease)
  /\ UNCHANGED <<pend, winner, child, out, urgent, haltFailed>>

\* launchStartedProject, with the admission it checks again.
Launch ==
  /\ prepared /\ IngressAllowed /\ halt = "none"
  /\ Live(Root) /\ rt = "starting" /\ adm
  /\ prepared' = FALSE
  /\ rt' = "running"
  /\ gate' = Opened(gate)
  /\ \E p \in StartProcs : proc' = [proc EXCEPT ![Root] = p]
  /\ UNCHANGED <<cardVars, run, cur, phase, winner, child, out, lease, urgent,
                 haltVars, adm, gc>>

\* stopProject; without a run it only cancels a maintenance hold.
StopProject ==
  /\ "stop" \in Inputs
  /\ halt = "none"
  /\ IF run # NoRun
     THEN /\ BeginHalt("stop", phase, lease)
          /\ UNCHANGED <<cardVars, run, cur, winner, child, out, urgent, haltFailed>>
     ELSE /\ rt = "stopped"
          /\ gc' = CancelledGc
          /\ UNCHANGED <<cardVars, runVars, ownVars, gate, haltVars, adm>>

\* closeApplicationAdmission; with a halt under way only the admission closes.
CloseApplication ==
  /\ "close" \in Inputs
  /\ adm
  /\ IF run # NoRun /\ halt = "none"
     THEN /\ BeginHalt("application_close", phase, lease)
          /\ UNCHANGED <<cardVars, run, cur, winner, child, out, urgent, haltFailed>>
     ELSE /\ adm' = FALSE
          /\ gc' = CancelledGc
          /\ UNCHANGED <<cardVars, runVars, ownVars, gate, haltVars>>

\* onProcessorActorMainFailure of a current owner
RuntimeFailure(c) ==
  /\ "fault" \in Inputs
  /\ HasAuthority(c) /\ winner[c] # "interrupt" /\ proc[c] # "none"
  /\ BeginHalt("runtime_failure", phase, lease)
  /\ UNCHANGED <<cardVars, run, cur, winner, child, out, urgent, haltFailed>>

\* The urgent settlement of b, captured by the halt, observes the takeover once
\* the activation it was joining has joined. An interrupted suffix or root makes
\* it reject unless the halt is an ordinary stop or close.
UrgentTakenOver(b) ==
  /\ halt # "none" /\ rt = "closing"
  /\ urgent[b] # "none"
  /\ \A d \in Suffix(b) : proc[d] = "joined"
  /\ urgent' = [urgent EXCEPT ![b] = "none"]
  /\ haltFailed' =
       (haltFailed
          \/ (halt \notin {"stop", "application_close"}
                /\ \E d \in Suffix(b) : winner[d] = "interrupt"))
  /\ UNCHANGED <<cardVars, runVars, phase, winner, child, proc, out, lease, gate,
                 halt, frozen, adm, gc>>

\* The settlement of beginHalt: every join and captured settlement is in.
HaltSettled ==
  /\ halt # "none" /\ rt = "closing"
  /\ \A c \in frozen : proc[c] = "joined" /\ urgent[c] = "none"

HaltStops ==
  /\ HaltSettled /\ ~haltFailed
  /\ CanCompleteRun(gate)
  /\ gate' = CompletedRun(gate)
  /\ rt' = "stopped" /\ run' = NoRun /\ cur' = NoCard /\ prepared' = FALSE
  /\ phase' = Upd(phase, Owned, "none")
  /\ winner' = Upd(winner, Owned, "open")
  /\ child' = Upd(child, Owned, NoCard)
  /\ proc' = Upd(proc, Owned, "none")
  /\ out' = Upd(out, Owned, "none")
  /\ lease' = Upd(lease, Owned, "none")
  /\ halt' = "none" /\ frozen' = {}
  /\ UNCHANGED <<cardVars, urgent, haltFailed, adm, gc>>

\* A retained failure, or a process scope that did not terminate.
HaltErrors ==
  /\ HaltSettled /\ (haltFailed \/ "fault" \in Inputs)
  /\ rt' = "error"
  /\ haltFailed' = TRUE
  /\ UNCHANGED <<cardVars, run, cur, prepared, ownVars, gate, halt, frozen, adm, gc>>

\* A new process starts: everything in memory is lost.
ProcessRestarts ==
  /\ rt' = "uninitialized" /\ run' = NoRun /\ cur' = NoCard /\ prepared' = FALSE
  /\ phase' = [c \in Cards |-> "none"]
  /\ winner' = [c \in Cards |-> "open"]
  /\ child' = [c \in Cards |-> NoCard]
  /\ proc' = [c \in Cards |-> "none"]
  /\ out' = [c \in Cards |-> "none"]
  /\ lease' = [c \in Cards |-> "none"]
  /\ urgent' = [c \in Cards |-> "none"]
  /\ gate' = NewGate
  /\ halt' = "none" /\ frozen' = {} /\ haltFailed' = FALSE
  /\ adm' = TRUE
  /\ gc' = NoGc

\* The process dies, or the fatal port ends it, between two publications.
Crash ==
  /\ "crash" \in Inputs
  /\ rt # "uninitialized"
  /\ ProcessRestarts
  /\ UNCHANGED cardVars

-----------------------------------------------------------------------------
(* Pause, resume, and the turn at the gate *)

\* requestPause
RequestPause ==
  /\ halt = "none" /\ rt = "running" /\ run # NoRun
  /\ rt' = "pausing"
  /\ gate' = PauseRequested(gate, run)

\* pause(): under a maintenance hold it also forbids the restoring resume, and
\* that is all it does while the hold's own pause is under way.
Pause ==
  /\ "pause" \in Inputs
  /\ \/ /\ RequestPause
        /\ gc' = IF gc.phase = "none" THEN gc ELSE [gc EXCEPT !.restore = FALSE]
     \/ /\ gc.phase # "none" /\ rt \in {"pausing", "paused"}
        /\ gc' = [gc EXCEPT !.restore = FALSE]
        /\ UNCHANGED <<rt, gate>>
  /\ UNCHANGED <<cardVars, run, cur, prepared, ownVars, haltVars, adm>>

\* The gate opens: the parked turn, if any, goes on.
OpenGate ==
  /\ gate' = Opened(gate)
  /\ proc' = [c \in Cards |-> IF proc[c] = "parked" THEN "node" ELSE proc[c]]
  /\ rt' = "running"

Resume ==
  /\ "pause" \in Inputs
  /\ IngressAllowed /\ halt = "none" /\ rt = "paused" /\ run # NoRun
  /\ OpenGate
  /\ UNCHANGED <<cardVars, run, cur, prepared, phase, winner, child, out, lease,
                 urgent, haltVars, adm, gc>>

\* The callback of requestPause, called by the waiter that parks.
PauseCallback ==
  IF /\ gate.onParked # NoRun /\ halt = "none"
     /\ run = gate.onParked /\ rt = "pausing" /\ Root \in Owned
  THEN /\ rt' = "paused"
       /\ gc' = IF gc.phase = "none" THEN gc ELSE [gc EXCEPT !.parked = TRUE]
  ELSE UNCHANGED <<rt, gc>>

\* waitUntilOpen, on an open gate and on a closed one
PassGate(c) ==
  /\ proc[c] = "ready" /\ IsOpen(gate)
  /\ proc' = [proc EXCEPT ![c] = "node"]
  /\ UNCHANGED <<cardVars, runVars, phase, winner, child, out, lease, urgent, gate,
                 haltVars, adm, gc>>

ParkAtGate(c) ==
  /\ proc[c] = "ready" /\ ~IsOpen(gate) /\ ~gate.parked
  /\ proc' = [proc EXCEPT ![c] = "parked"]
  /\ gate' = Parked(gate)
  /\ PauseCallback
  /\ UNCHANGED <<cardVars, run, cur, prepared, phase, winner, child, out, lease,
                 urgent, haltVars, adm>>

-----------------------------------------------------------------------------
(* A node runs *)

\* A tool call was answered and the conversation goes on with another turn.
NextTurn(c) ==
  /\ proc[c] = "node"
  /\ proc' = [proc EXCEPT ![c] = "ready"]
  /\ UNCHANGED <<cardVars, runVars, phase, winner, child, out, lease, urgent, gate,
                 haltVars, adm, gc>>

\* A nonterminal node result is claimed (claimResultHandoff); the node scope
\* closes, then the next node starts.
NodeHandoff(c) ==
  /\ proc[c] = "node"
  /\ proc' = [proc EXCEPT ![c] = "handoff"]
  /\ UNCHANGED <<cardVars, runVars, phase, winner, child, out, lease, urgent, gate,
                 haltVars, adm, gc>>

NextNode(c) ==
  /\ proc[c] = "handoff"
  /\ \E p \in StartProcs : proc' = [proc EXCEPT ![c] = p]
  /\ UNCHANGED <<cardVars, runVars, phase, winner, child, out, lease, urgent, gate,
                 haltVars, adm, gc>>

\* The recipient node takes the pending notifications into its conversation.
DeliverNotifications(c) ==
  /\ proc[c] = "node" /\ HasAuthority(c) /\ c \in pend
  /\ pend' = pend \ {c}
  /\ UNCHANGED <<card, runVars, ownVars, gate, haltVars, adm, gc>>

\* The completion gate, then the pending-notification decision.
MayComplete(c) == SubtreeComplete(card, c) /\ c \notin pend

\* acceptCandidate for a terminal target, then claimResult.
ClaimResult(c, o) ==
  /\ proc[c] = "node" /\ HasAuthority(c) /\ winner[c] = "open"
  /\ o = "done" => MayComplete(c)
  /\ winner' = [winner EXCEPT ![c] = "result"]
  /\ out' = [out EXCEPT ![c] = o]
  /\ proc' = [proc EXCEPT ![c] = "claimed"]
  /\ UNCHANGED <<cardVars, runVars, phase, child, lease, urgent, gate, haltVars,
                 adm, gc>>

\* The outcomes a processor may resolve with now: the claimed one when the scope
\* has closed, or a failure (or a runtime-owned block) of the node itself.
OutcomeReady(c, o) ==
  \/ proc[c] = "claimed" /\ (o = out[c] \/ (o = "failed" /\ "fault" \in Inputs))
  \/ proc[c] \in {"ready", "node", "handoff"} /\ o = "failed" /\ "fault" \in Inputs
  \/ proc[c] = "node" /\ o = "blocked" /\ "fault" \in Inputs

\* What settleResult checks before it touches the owner.
MaySettle(c) ==
  /\ HasAuthority(c) /\ winner[c] \in {"open", "result"}
  /\ child[c] = NoCard
  /\ c = Root => RunningSet(card) = {Root}
  /\ card[c] = "running"

\* settleResult up to the commit of the outcome.
SettleResult(c, o) ==
  /\ OutcomeReady(c, o) /\ MaySettle(c)
  /\ winner' = [winner EXCEPT ![c] = "result"]
  /\ phase' = [phase EXCEPT ![c] = "settling"]
  /\ lease' = [lease EXCEPT ![c] = IF @ = "admitted" THEN "settling" ELSE @]
  /\ card' = [card EXCEPT ![c] = o]
  /\ pend' = pend \ {c}
  /\ proc' = [proc EXCEPT ![c] = "settled"]
  /\ out' = [out EXCEPT ![c] = "none"]
  /\ UNCHANGED <<runVars, child, urgent, gate, haltVars, adm, gc>>

\* The commit throws.
SettleResultFails(c) ==
  /\ "fault" \in Inputs
  /\ \E o \in Outcomes : OutcomeReady(c, o)
  /\ MaySettle(c)
  /\ winner' = [winner EXCEPT ![c] = "result"]
  /\ BeginHalt("publication_failure", [phase EXCEPT ![c] = "settling"], lease)
  /\ UNCHANGED <<cardVars, run, cur, child, out, urgent, haltFailed>>

\* Forget the owner of c (activationOwners.delete) with all its fields, and give
\* the answer of its lease to the parent: a waiting parent takes another turn.
ReleaseOwner(c) ==
  /\ phase' = [phase EXCEPT ![c] = "none"]
  /\ winner' = [winner EXCEPT ![c] = "open"]
  /\ out' = [out EXCEPT ![c] = "none"]
  /\ lease' = [lease EXCEPT ![c] = "none"]
  /\ urgent' = [urgent EXCEPT ![c] = "none"]

ReleaseChild(c) ==
  /\ c # Root
  /\ ReleaseOwner(c)
  /\ child' = [child EXCEPT ![c] = NoCard, ![Parent[c]] = NoCard]
  /\ proc' = [proc EXCEPT ![c] = "none",
                          ![Parent[c]] = IF @ = "waiting" THEN "ready" ELSE @]
  /\ cur' = Parent[c]

\* The hook has run and the activation has joined: releaseChildNaturally.
ReleaseSettledChild(c) ==
  /\ proc[c] = "settled" /\ HasAuthority(c)
  /\ ReleaseChild(c)
  /\ UNCHANGED <<cardVars, rt, run, prepared, gate, haltVars, adm, gc>>

\* releaseRootNaturally: the run ends.
ReleaseSettledRoot ==
  /\ proc[Root] = "settled" /\ HasAuthority(Root)
  /\ rt \in {"running", "pausing", "paused"}
  /\ CanCompleteRun(gate)
  /\ ReleaseOwner(Root)
  /\ child' = child
  /\ proc' = [proc EXCEPT ![Root] = "none"]
  /\ gate' = CompletedRun(gate)
  /\ rt' = "stopped" /\ run' = NoRun /\ cur' = NoCard /\ prepared' = FALSE
  /\ gc' = CancelledGc
  /\ UNCHANGED <<cardVars, haltVars, adm>>

-----------------------------------------------------------------------------
(* The planner of a running card acts on its immediate children *)

\* boundParentControl.requireParent
ParentActs(p) == proc[p] = "node" /\ phase[p] = "active" /\ halt = "none"

MayActivate(p, c) ==
  /\ Parent[c] = p /\ ParentActs(p) /\ NotCollecting
  /\ c \notin Owned
  /\ card[p] = "running"
  /\ \A d \in DependsOn[c] : card[d] = "done"
  /\ HasEntry(card[c])

\* activateChild: install the child owner, publish it running, start it.
ActivateChild(p, c) ==
  /\ MayActivate(p, c)
  /\ card' = [card EXCEPT ![c] = "running"]
  /\ phase' = [phase EXCEPT ![c] = "active"]
  /\ child' = [child EXCEPT ![p] = c]
  /\ lease' = [lease EXCEPT ![c] = "admitted"]
  /\ cur' = c
  /\ \E q \in StartProcs : proc' = [proc EXCEPT ![p] = "waiting", ![c] = q]
  /\ UNCHANGED <<pend, rt, run, prepared, winner, out, urgent, gate, haltVars, adm, gc>>

\* The publication throws: the owner is frozen in child_admission.
ActivateChildFails(p, c) ==
  /\ "fault" \in Inputs
  /\ MayActivate(p, c)
  /\ child' = [child EXCEPT ![p] = c]
  /\ BeginHalt("publication_failure", [phase EXCEPT ![c] = "child_admission"],
               [lease EXCEPT ![c] = "admitted"])
  /\ UNCHANGED <<cardVars, run, cur, winner, out, urgent, haltFailed>>

\* reopenChild
PlannerReopen(p, c) ==
  /\ "planner" \in Inputs
  /\ Parent[c] = p /\ ParentActs(p) /\ winner[p] = "open" /\ adm
  /\ c \notin Owned
  /\ card[c] \in {"done", "failed"}
  /\ card' = [card EXCEPT ![c] = "changed"]
  /\ UNCHANGED <<pend, runVars, ownVars, gate, haltVars, adm, gc>>

\* Its publication throws.
PlannerReopenFails(p, c) ==
  /\ "fault" \in Inputs /\ "planner" \in Inputs
  /\ Parent[c] = p /\ ParentActs(p) /\ winner[p] = "open" /\ adm
  /\ c \notin Owned
  /\ card[c] \in {"done", "failed"}
  /\ BeginHalt("publication_failure", phase, lease)
  /\ UNCHANGED <<cardVars, run, cur, winner, child, out, urgent, haltFailed>>

\* cancelChild of a child without an owner: cancelNonrunningSubtree
PlannerCancel(p, c) ==
  /\ "planner" \in Inputs
  /\ Parent[c] = p /\ ParentActs(p)
  /\ c \notin Owned
  /\ CanCancel(card[c]) /\ card[c] # "running"
  /\ CancelCascade(CascadeSet(card, c)) \/ CascadeCutShort(CascadeSet(card, c))
  /\ UNCHANGED <<runVars, ownVars, gate, haltVars, adm, gc>>

\* recordMutations.mutate on another card's record: a blocked card changes.
RecordMutation(p, c) ==
  /\ "planner" \in Inputs
  /\ proc[p] = "node" /\ HasAuthority(p) /\ Live(p)
  /\ rt = "running" /\ adm /\ NotCollecting
  /\ c \notin Owned /\ card[c] = "blocked"
  /\ card' = [card EXCEPT ![c] = "changed"]
  /\ UNCHANGED <<pend, runVars, ownVars, gate, haltVars, adm, gc>>

-----------------------------------------------------------------------------
(* Joining an interrupted activation *)

\* joinActivation can end: no LLM of c still waits for the lease of a child, and
\* outside a halt the settlement of c's own interrupted node has continued first
\* (it awaits a promise this join also awaits, with fewer steps after it).
MayJoin(c) ==
  /\ proc[c] = "stopping"
  /\ child[c] # NoCard => lease[child[c]] \notin {"admitted", "settling"}
  /\ halt = "none" => urgent[c] # "node"

JoinActivation(c) ==
  /\ MayJoin(c)
  /\ proc' = [proc EXCEPT ![c] = "joined"]
  /\ UNCHANGED <<cardVars, runVars, phase, winner, child, out, lease, urgent, gate,
                 haltVars, adm, gc>>

\* The join rejects. Whoever awaits it halts the runtime; the halt joins the same
\* promise and retains the failure.
JoinFails(c) ==
  /\ "fault" \in Inputs
  /\ MayJoin(c) \/ (proc[c] = "settled" /\ halt = "none")
  /\ haltFailed' = TRUE
  /\ IF halt = "none"
     THEN BeginHalt("runtime_failure", phase, lease)
     ELSE /\ proc' = [proc EXCEPT ![c] = "joined"]
          /\ UNCHANGED <<phase, lease, halt, frozen, rt, prepared, gate, adm, gc>>
  /\ UNCHANGED <<cardVars, run, cur, winner, child, out, urgent>>

-----------------------------------------------------------------------------
(* Cancellation *)

\* The analyst's preflight over the stored subtree.
MayCancel(c) ==
  /\ "cancel" \in Inputs
  /\ NotCollecting /\ halt = "none"
  /\ c # Root
  /\ \A d \in Subtree(c) : CanCancel(card[d])

\* The change propagation that follows the cancellation of c, with st the cards
\* after it: flip the resting path above c, notify the parent and the first
\* running card.
PropagateFromParent(st, c, cleared) ==
  LET told == {Parent[c]} \cup FirstRunningOnPath(st, Parent[c])
  IN Propagate(st, Parent[c], cleared, told, CascadePrefixes(told))

\* cancelOwnedOrStored without an owner; the cascade that fails is not propagated.
CancelStored(c) ==
  /\ MayCancel(c)
  /\ c \notin Owned /\ card[c] # "running"
  /\ LET gone == CascadeSet(card, c)
     IN PropagateFromParent(CancelCards(card, gone), c, gone) \/ CascadeCutShort(gone)
  /\ UNCHANGED <<runVars, ownVars, gate, haltVars, adm, gc>>

\* Seeded fault: an activation whose result is claimed can still be cancelled.
SuffixClaimableLate(c) ==
  \A d \in Suffix(c) : phase[d] = "active" /\ lease[d] = "admitted"

SuffixClaimable(c) ==
  \A d \in Suffix(c) : Live(d) /\ lease[d] = "admitted"

\* cancelOwnedOrStored claims the exact owner suffix, then disposes and aborts it.
CancelOwned(c) ==
  /\ MayCancel(c)
  /\ c \in Owned
  /\ SuffixClaimable(c)
  /\ winner' = Upd(winner, Suffix(c), "cancel")
  /\ phase' = Upd(phase, Suffix(c), "settling")
  /\ lease' = Upd(lease, Suffix(c), "settling")
  /\ proc' = Upd(proc, Suffix(c), "stopping")
  /\ gate' = IF \E d \in Suffix(c) : proc[d] = "parked"
             THEN WaiterAborted(gate) ELSE gate
  /\ UNCHANGED <<cardVars, runVars, child, out, urgent, haltVars, adm, gc>>

\* The descendants of an owner settleCancellation cancels: those reached from a
\* child that has no owner.
OwnerCascade(c) ==
  UNION {CascadeSet(card, d) : d \in Children(c) \ Owned}

CancellationDue(c) ==
  winner[c] = "cancel" /\ proc[c] = "joined" /\ child[c] = NoCard /\ HasAuthority(c)

\* settleCancellation after the join; the requested card also propagates.
SettleCancellation(c) ==
  /\ CancellationDue(c)
  /\ LET gone == OwnerCascade(c) \cup {c}
         st == CancelCards(card, gone)
     IN IF winner[Parent[c]] = "cancel"
        THEN CancelCascade(gone)
        ELSE PropagateFromParent(st, c, gone)
  /\ ReleaseChild(c)
  /\ UNCHANGED <<rt, run, prepared, gate, haltVars, adm, gc>>

\* The publication of the owner's own cancelled status throws: a halt.
SettleCancellationFails(c) ==
  /\ "fault" \in Inputs
  /\ CancellationDue(c)
  /\ CancelCascade(OwnerCascade(c))
  /\ BeginHalt("publication_failure", phase, lease)
  /\ UNCHANGED <<run, cur, winner, child, out, urgent, haltFailed>>

\* A descendant's setStatus throws. It is not published through publish(), so
\* the cancellation settlement rejects and nothing halts.
CascadeFails(c) ==
  /\ "fault" \in Inputs
  /\ CancellationDue(c)
  /\ CascadeCutShort(OwnerCascade(c))
  /\ proc' = [proc EXCEPT ![c] = "stranded"]
  /\ UNCHANGED <<runVars, phase, winner, child, out, lease, urgent, gate, haltVars,
                 adm, gc>>

-----------------------------------------------------------------------------
(* Notifications *)

\* notifyCard
Notify(c) ==
  /\ "notify" \in Inputs
  /\ NotCollecting /\ NotifyOk(c)
  /\ pend' = pend \cup {c}
  /\ UNCHANGED <<card, runVars, ownVars, gate, haltVars, adm, gc>>

\* The owner an urgent notification for t interrupts, as a set of at most one:
\* the root itself, or the nearest running strict ancestor with a live owner.
UrgentBoundary(t) ==
  LET able == {p \in Anc[t] : card[p] = "running" /\ Live(p)}
  IN IF t = Root
     THEN {p \in {Root} : Live(p)}
     ELSE {p \in able : ~ \E q \in able : p \in Anc[q]}

\* The ancestors that get a notice on the way up to the boundary.
UrgentNotices(t) ==
  {p \in Anc[t] :
     /\ AcceptsNotifications(card[p]) /\ card[p] # "blocked"
     /\ p \in Owned => Live(p)
     /\ ~ \E b \in UrgentBoundary(t) : p \in Anc[b]}

\* urgentNodeIsCurrent, with canInterruptNode of the boundary's processor.
UrgentClaimable(b) ==
  /\ rt = "running" /\ adm /\ halt = "none"
  /\ Live(b) /\ proc[b] \in {"ready", "node", "parked", "waiting"}
  /\ \A d \in Suffix(b) \ {b} : Live(d) /\ lease[d] = "admitted"

\* submitNotification(urgent) when nothing is interrupted: enqueue and notices.
UrgentQueues(t) ==
  /\ "urgent" \in Inputs
  /\ NotCollecting /\ NotifyOk(t)
  /\ \A b \in UrgentBoundary(t) : ~UrgentClaimable(b)
  /\ pend' = pend \cup {t} \cup {p \in UrgentNotices(t) : NotifyOk(p)}
  /\ UNCHANGED <<card, runVars, ownVars, gate, haltVars, adm, gc>>

\* ... and when it claims the boundary's node, or the whole root activation,
\* together with the owners below it.
UrgentInterrupts(t) ==
  /\ "urgent" \in Inputs
  /\ NotCollecting /\ NotifyOk(t)
  /\ \E b \in UrgentBoundary(t) :
       LET below == Suffix(b) \ {b}
           claimed == IF t = Root THEN Suffix(b) ELSE below
       IN /\ UrgentClaimable(b)
          /\ winner' = Upd(winner, claimed, "interrupt")
          /\ phase' = Upd(phase, claimed, "settling")
          /\ lease' = Upd(lease, below, "settling")
          /\ urgent' = [urgent EXCEPT ![b] = IF t = Root THEN "root" ELSE "node"]
          /\ proc' = [Upd(proc, below, "stopping") EXCEPT
                        ![b] = IF t = Root THEN "stopping" ELSE "retiring"]
  /\ pend' = pend \cup {t} \cup {p \in UrgentNotices(t) : NotifyOk(p)}
  /\ UNCHANGED <<card, runVars, child, out, gate, haltVars, adm, gc>>

InterruptionDue(c) ==
  winner[c] = "interrupt" /\ proc[c] = "joined" /\ child[c] = NoCard /\ HasAuthority(c)

\* settleInterruptedOwner of a child
StopInterruptedChild(c) ==
  /\ InterruptionDue(c)
  /\ card[c] = "running"
  /\ card' = [card EXCEPT ![c] = "stopped"]
  /\ ReleaseChild(c)
  /\ UNCHANGED <<pend, rt, run, prepared, gate, haltVars, adm, gc>>

\* settleInterruptedOwner of the root, then replaceInterruptedRoot: the card goes
\* through stopped to running and a fresh owner starts in the same run.
ReplaceInterruptedRoot ==
  /\ InterruptionDue(Root) /\ NotCollecting
  /\ card[Root] = "running"
  /\ phase' = [phase EXCEPT ![Root] = "active"]
  /\ winner' = [winner EXCEPT ![Root] = "open"]
  /\ urgent' = [urgent EXCEPT ![Root] = "none"]
  /\ \E p \in StartProcs : proc' = [proc EXCEPT ![Root] = p]
  /\ UNCHANGED <<cardVars, runVars, child, out, lease, gate, haltVars, adm, gc>>

\* The stop publication throws, or, for the root, the reactivation does.
StopInterruptedFails(c) ==
  /\ "fault" \in Inputs
  /\ InterruptionDue(c)
  /\ BeginHalt("publication_failure", phase, lease)
  /\ UNCHANGED <<cardVars, run, cur, winner, child, out, urgent, haltFailed>>

ReactivateRootFails ==
  /\ "fault" \in Inputs
  /\ InterruptionDue(Root)
  /\ card' = [card EXCEPT ![Root] = "stopped"]
  /\ winner' = [winner EXCEPT ![Root] = "open"]
  /\ BeginHalt("publication_failure", [phase EXCEPT ![Root] = "prepared_root"], lease)
  /\ UNCHANGED <<pend, run, cur, child, out, urgent, haltFailed>>

\* Seeded fault: the successor does not wait for the interrupted owners below.
NodeInterruptionDueEarly(b) == urgent[b] = "node" /\ HasAuthority(b)

NodeInterruptionDue(b) == urgent[b] = "node" /\ HasAuthority(b) /\ child[b] = NoCard

\* joinInterruptedNode ends and the settlement resolves: the guarded successor
\* node starts, unless the whole activation was claimed in the meantime.
NodeInterruptionSettles(b) ==
  /\ NodeInterruptionDue(b)
  /\ urgent' = [urgent EXCEPT ![b] = "none"]
  /\ \E p \in StartProcs :
       proc' = [proc EXCEPT ![b] = IF @ = "retiring" THEN p ELSE @]
  /\ UNCHANGED <<cardVars, runVars, phase, winner, child, out, lease, gate, haltVars,
                 adm, gc>>

-----------------------------------------------------------------------------
(* Analyst interventions (analyst-mutation-services.ts) *)

\* reopen: propagateChange from the card itself; its notices are best effort.
AnalystReopen(c) ==
  /\ "analyst" \in Inputs
  /\ InterventionReady
  /\ card[c] \in Flippable
  /\ LET told == {c} \cup FirstRunningOnPath(card, c)
     IN Propagate(card, c, {}, told, SUBSET told)
  /\ UNCHANGED <<runVars, ownVars, gate, haltVars, adm, gc>>

\* The cards propagateAnalystRecordEdit tells: the edited card and its ancestors up
\* to the first running one (every ancestor has children, so is child-capable); a
\* backlog card is not told itself, a running card is the only one told.
EditTells(c) ==
  LET passed == ReachedOnPath(card, c) \cup FirstRunningOnPath(card, c)
  IN CASE card[c] = "running" -> {c}
       [] card[c] = "backlog" -> passed \ {c}
       [] OTHER -> passed

\* propagateAnalystRecordEdit after an edit or a discard of a record
AnalystRecordEdit(c) ==
  /\ "analyst" \in Inputs
  /\ InterventionReady
  /\ card[c] # "cancelled"
  /\ Propagate(card, c, {}, EditTells(c), CascadePrefixes(EditTells(c)))
  /\ UNCHANGED <<runVars, ownVars, gate, haltVars, adm, gc>>

-----------------------------------------------------------------------------
(* Work garbage collection: withWorkGcMaintenance *)

GcAdmitted ==
  /\ IngressAllowed /\ adm /\ halt = "none" /\ ~prepared
  /\ rt \in {"running", "paused", "stopped"}

GcBegin ==
  /\ "gc" \in Inputs
  /\ GcAdmitted
  /\ gc' = [phase |-> "settling", run |-> run, entry |-> rt,
            restore |-> rt = "running", parked |-> rt # "running", aborted |-> FALSE]
  /\ IF rt = "running" THEN RequestPause ELSE UNCHANGED <<rt, gate>>
  /\ UNCHANGED <<cardVars, run, cur, prepared, ownVars, haltVars, adm>>

\* The settled parked frontier collection requires.
GcFrontierSettled ==
  /\ run = gc.run
  /\ IF gc.entry = "stopped" THEN rt = "stopped" /\ Owned = {}
                             ELSE rt = "paused" /\ gate.parked
  /\ adm /\ ~prepared /\ halt = "none"
  /\ \A c \in Owned : Live(c) /\ urgent[c] = "none"

GcCollect ==
  /\ gc.phase = "settling" /\ gc.parked /\ ~gc.aborted
  /\ GcFrontierSettled
  /\ gc' = [gc EXCEPT !.phase = "collecting"]
  /\ UNCHANGED <<cardVars, runVars, ownVars, gate, haltVars, adm>>

\* finish(), after a collection, a refusal, or a cancellation by its requester.
GcFinish ==
  /\ gc.phase # "none"
  /\ LET restore == /\ gc.restore /\ gc.entry = "running" /\ gc.run # NoRun
                    /\ run = gc.run /\ adm /\ halt = "none"
                    /\ rt \in {"pausing", "paused"}
     IN IF restore THEN OpenGate ELSE UNCHANGED <<rt, gate, proc>>
  /\ gc' = NoGc
  /\ UNCHANGED <<cardVars, run, cur, prepared, phase, winner, child, out, lease,
                 urgent, haltVars, adm>>

-----------------------------------------------------------------------------
(* Death inside an operation that publishes several cards *)

\* The card states such an operation leaves when it is cut short: the settlement
\* of the chain, the replacement of the root, the cascade of a cancelled owner or
\* of a stored card, the propagation of a change.
SettlementCuts ==
  {StopCards(card, S) : S \in IF rt = "uninitialized" \/ MayStart
                              THEN SettledSuffixes(card) ELSE {}}

ReplacementCuts ==
  {[card EXCEPT ![Root] = "stopped"] : c \in {d \in {Root} : InterruptionDue(d)}}

OwnedCascadeCuts ==
  UNION {{CancelCards(card, S) : S \in CascadePrefixes(OwnerCascade(c)) \cup {OwnerCascade(c) \cup {c}}} :
           c \in {d \in Cards \ {Root} : CancellationDue(d)}}

StoredCascadeCuts ==
  UNION {{CancelCards(card, S) : S \in CascadePrefixes(CascadeSet(card, c))} :
           c \in {d \in Cards \ Owned : MayCancel(d) /\ card[d] # "running"}}

StoredPropagationCuts ==
  UNION {FlipPrefixes(CancelCards(card, CascadeSet(card, c)), Parent[c]) :
           c \in {d \in Cards \ Owned : MayCancel(d) /\ card[d] # "running"}}

PropagationCuts ==
  UNION {FlipPrefixes(card, c) :
           c \in {d \in Cards : "analyst" \in Inputs /\ InterventionReady
                                 /\ card[d] \in Flippable}}

PartialPublications ==
  SettlementCuts \cup ReplacementCuts \cup OwnedCascadeCuts \cup StoredCascadeCuts
    \cup StoredPropagationCuts \cup PropagationCuts

CrashMidPublication ==
  /\ "crash" \in Inputs
  /\ card' \in PartialPublications \ {card}
  /\ pend' = {c \in pend : card'[c] # "cancelled"}
  /\ ProcessRestarts

-----------------------------------------------------------------------------
(* Specification *)

CardStep(c) ==
  \/ RuntimeFailure(c) \/ UrgentTakenOver(c)
  \/ PassGate(c) \/ ParkAtGate(c)
  \/ NextTurn(c) \/ NodeHandoff(c) \/ NextNode(c) \/ DeliverNotifications(c)
  \/ \E o \in Outcomes : ClaimResult(c, o) \/ SettleResult(c, o)
  \/ SettleResultFails(c) \/ ReleaseSettledChild(c)
  \/ JoinActivation(c) \/ JoinFails(c)
  \/ CancelStored(c) \/ CancelOwned(c)
  \/ SettleCancellation(c) \/ SettleCancellationFails(c) \/ CascadeFails(c)
  \/ Notify(c) \/ UrgentQueues(c) \/ UrgentInterrupts(c)
  \/ StopInterruptedChild(c) \/ StopInterruptedFails(c) \/ NodeInterruptionSettles(c)
  \/ AnalystReopen(c) \/ AnalystRecordEdit(c)

PlannerStep(p, c) ==
  \/ ActivateChild(p, c) \/ ActivateChildFails(p, c)
  \/ PlannerReopen(p, c) \/ PlannerReopenFails(p, c)
  \/ PlannerCancel(p, c) \/ RecordMutation(p, c)

RuntimeStep ==
  \/ Startup \/ StartupFails \/ StartProject \/ StartProjectFails \/ Launch
  \/ StopProject \/ CloseApplication \/ HaltStops \/ HaltErrors
  \/ Crash \/ CrashMidPublication
  \/ Pause \/ Resume \/ ReleaseSettledRoot
  \/ ReplaceInterruptedRoot \/ ReactivateRootFails
  \/ GcBegin \/ GcCollect \/ GcFinish

Next ==
  \/ RuntimeStep
  \/ \E c \in Cards : CardStep(c)
  \/ \E p, c \in Cards : PlannerStep(p, c)

Spec == Init /\ [][Next]_vars

(* Settlement continuations run as soon as what they await is settled, and a  *)
(* join ends because the operations it awaits were aborted; turns of a model  *)
(* and external inputs are not fair.                                          *)
Fairness ==
  /\ WF_vars(HaltStops \/ HaltErrors)
  /\ WF_vars(ReplaceInterruptedRoot)
  /\ \A c \in Cards :
       /\ WF_vars(JoinActivation(c))
       /\ WF_vars(UrgentTakenOver(c))
       /\ WF_vars(SettleCancellation(c))
       /\ WF_vars(StopInterruptedChild(c))
       /\ WF_vars(NodeInterruptionSettles(c))

FairSpec == Spec /\ Fairness
=============================================================================
