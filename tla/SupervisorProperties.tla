----------------------- MODULE SupervisorProperties -------------------------
(* What the Supervisor promises: invariants, action properties and, under    *)
(* Supervisor's Fairness, liveness.                                          *)
EXTENDS Supervisor

\* The durable running cards always form one project-rooted chain, whatever
\* publication failed and wherever the process died: selectLinkedRunningChain
\* never throws, so startup and Run can always recover.
RunningIsChain == IsRunningChain(card)

\* What assertOwnershipInvariants checks after every ownership transition: the
\* parent and child links of the owners agree, an unresolved admission has no
\* winner, a stopped runtime retains nothing, a halt freezes installed owners.
OwnershipInvariants ==
  /\ \A c \in Owned \ {Root} : Parent[c] \in Owned /\ child[Parent[c]] = c
  /\ \A c \in Owned : child[c] # NoCard => child[c] \in Owned /\ Parent[child[c]] = c
  /\ \A c \in Cards : phase[c] = "child_admission" => winner[c] = "open"
  /\ rt \in {"uninitialized", "stopped"} =>
       run = NoRun /\ cur = NoCard /\ Owned = {} /\ ~prepared /\ halt = "none"
  /\ run # NoRun => cur # NoCard
  /\ halt # "none" => rt \in {"closing", "error"} /\ frozen = Owned

\* The statuses of a run that no halt has ended.
UpStatus == {"starting", "running", "pausing", "paused"}

StatusInv ==
  /\ halt # "none" => rt \in {"closing", "error"}
  /\ rt \in UpStatus => run # NoRun /\ adm /\ halt = "none"

\* Parts of the inductive invariant: the links of the owners agree and every
\* ancestor of an owned card is owned,
LinkInv ==
  /\ \A c \in Owned \ {Root} : Parent[c] \in Owned /\ child[Parent[c]] = c
  /\ \A c \in Owned : child[c] # NoCard => child[c] \in Owned /\ Parent[child[c]] = c
  /\ \A c \in Owned : Anc[c] \subseteq Owned

\* a card without an owner carries nothing of an earlier activation,
UnownedInv ==
  \A c \in Cards \ Owned : winner[c] = "open" /\ child[c] = NoCard /\ proc[c] = "none"

\* an activation that executes has no child, and neither has a prepared root,
FrontierInv ==
  /\ \A c \in Cards : proc[c] \in {"none", "ready", "node", "parked", "handoff", "claimed",
                                   "settled"} => child[c] = NoCard
  /\ prepared => proc[Root] = "none"

\* an admission is only left unresolved by a halt, a halt freezes the owners, and
\* a stopped runtime retains nothing.
RetentionInv ==
  /\ \A c \in Cards : phase[c] = "child_admission" => winner[c] = "open" /\ halt # "none"
  /\ halt # "none" => frozen = Owned
  /\ rt \in {"uninitialized", "stopped"} =>
       run = NoRun /\ cur = NoCard /\ Owned = {} /\ ~prepared
  /\ run # NoRun => cur # NoCard

\* The inductive invariant behind OwnershipInvariants, HaltFreezes and
\* CloseIsFinal: what assertOwnershipInvariants relies on but cannot see from the
\* map alone, because it also constrains cards without an owner and processors.
InductiveInv == StatusInv /\ LinkInv /\ UnownedInv /\ FrontierInv /\ RetentionInv

\* While a run is up, a card is durably running exactly while an owner executes
\* or settles it: no running card is without an owner, no owner outlives its
\* card's activation except between the commit of its outcome and its release.
RunningIsOwned ==
  rt \in {"running", "pausing", "paused"} =>
    RunningSet(card) = {c \in Owned : proc[c] # "settled"}

\* Parts of the stronger invariant behind the frontier: a halt is what a closing
\* status stands for, and it has stopped every processor it froze,
HaltInv ==
  /\ rt \in {"closing", "error"} => halt # "none"
  /\ halt # "none" => \A c \in Owned : proc[c] \in {"stopping", "joined"}

\* the winner of an owner says where its processor is,
ClaimInv ==
  halt = "none" => \A c \in Owned :
    /\ proc[c] \in {"claimed", "settled"} => winner[c] = "result"
    /\ proc[c] \in {"stopping", "joined", "stranded"} => winner[c] \in {"cancel", "interrupt"}
    /\ proc[c] \in {"none", "ready", "node", "parked", "waiting", "handoff", "retiring"} => Live(c)
    /\ proc[c] = "retiring" => urgent[c] = "node"

\* the owners are the path from the current card to the root,
PathInv ==
  halt = "none" /\ Owned # {} => cur \in Cards /\ Owned = PathToRoot(cur)

\* whoever claims an owner, or interrupts its node, claims the owners below it,
SuffixInv ==
  halt = "none" => \A a, d \in Owned :
    a \in Anc[d] /\ (winner[a] # "open" \/ proc[a] = "retiring") =>
      winner[d] \in {"cancel", "interrupt"}

\* a waiting activation has a child whose lease is open,
WaitInv ==
  \A c \in Cards : proc[c] = "waiting" =>
    child[c] # NoCard /\ lease[child[c]] \in {"admitted", "settling"}

\* the running cards are one chain from the root, and while a run is up they are
\* the owned cards whose outcome is not yet committed,
RunningInv ==
  /\ \A c \in RunningSet(card) : Anc[c] \subseteq RunningSet(card)
  /\ \A c, d \in RunningSet(card) \ {Root} : Parent[c] = Parent[d] => c = d
  /\ rt \in UpStatus => RunningSet(card) = {c \in Owned : proc[c] # "settled"}

\* the gate is open and empty exactly as the status and the processors say, and its
\* callback is of the current run,
GateInv ==
  /\ rt = "running" => IsOpen(gate) /\ ~gate.parked
  /\ rt \in {"pausing", "paused"} => ~gate.open
  /\ gate.parked <=> \E c \in Cards : proc[c] = "parked"
  /\ gate.onParked # NoRun => gate.onParked = run

\* on a paused project no turn and no interruption is under way,
PausedInv ==
  rt = "paused" => \A c \in Owned :
    /\ proc[c] \in {"ready", "parked", "waiting", "settled", "stopping", "joined", "stranded"}
    /\ winner[c] # "interrupt"

\* and what a claimed DONE was granted for still holds.
ResultInv ==
  \A c \in Cards : proc[c] = "claimed" /\ out[c] = "done" =>
    SubtreeComplete(card, c) /\ c \notin pend

\* The inductive invariant behind OwnedFrontier, GateIsTrue, RunningIsChain,
\* FirstWinnerDecides and the refinement: who owns, who executes, who claimed, what
\* is durably running and what the gate holds determine each other.
ActInv == HaltInv /\ ClaimInv /\ PathInv /\ SuffixInv /\ WaitInv

CoreInv == InductiveInv /\ ActInv /\ RunningInv /\ GateInv /\ PausedInv /\ ResultInv

\* At most one activation executes, it is the leaf of the owner chain, and every
\* activation waiting in activate_card has an owned child whose lease will
\* answer it: nobody waits for an answer that was already given or lost.
SingleFrontier ==
  LET executing == {c \in Owned : proc[c] \in
                      {"ready", "node", "parked", "handoff", "claimed", "settled"}}
  IN /\ \A c, d \in executing : c = d
     /\ \A c \in executing : child[c] = NoCard
     /\ \A c \in Cards : proc[c] = "waiting" =>
          /\ child[c] \in Owned
          /\ lease[child[c]] \in {"admitted", "settling"}

\* The execution frontier is durable and owned: the two above.
OwnedFrontier == RunningIsOwned /\ SingleFrontier

\* The gate and the runtime agree: a running runtime never blocks a turn, the
\* gate's only slot holds exactly the parked turn, and the pause callback the
\* gate retains belongs to the current run.
GateAgrees ==
  /\ rt = "running" => IsOpen(gate)
  /\ gate.parked <=> \E c \in Cards : proc[c] = "parked"
  /\ gate.onParked # NoRun => gate.onParked = run

\* Collection only runs while nothing else moves: on a stopped project without
\* owners, or on a paused one whose frontier is parked and whose owners have no
\* settlement under way; Stop and close cancel it before they disturb that.
GcIsolated ==
  gc.phase = "collecting" /\ ~gc.aborted =>
    /\ run = gc.run /\ halt = "none"
    /\ \/ rt = "stopped" /\ Owned = {}
       \/ rt = "paused" /\ gate.parked
    /\ \A c \in Owned : Live(c) /\ proc[c] \in {"parked", "waiting"}

\* Work below a done card has ended or waits, reopened, to be told: no run, no
\* failure and no fresh work ever appears under a card that stays done, also after
\* a propagation (flipRestingCardsAlongPath) that failed half way.
DoneIsQuiet ==
  \A c \in Cards : card[c] = "done" =>
    \A d \in Descendants(c) : card[d] \in {"done", "cancelled", "changed"}

\* Where the code throws an internal error, it does not get there: an outcome
\* settles a running card without an owned child (the root only when it is the
\* whole chain), a turn never finds the gate's slot taken, the gate is free when
\* a run completes, and a cascading cancellation meets no running card.
NoInternalFault ==
  /\ \A c \in Cards : proc[c] \in {"ready", "node", "handoff", "claimed"} =>
       MaySettle(c)
  /\ \A c \in Cards : proc[c] = "ready" /\ ~IsOpen(gate) => ~gate.parked
  /\ proc[Root] = "settled" \/ HaltSettled => CanCompleteRun(gate)
  /\ \A c \in Cards : CancellationDue(c) => \A d \in OwnerCascade(c) : card[d] # "running"
  /\ \A c \in Cards : InterruptionDue(c) => card[c] = "running"

\* The gate tells the truth to everyone who reads it: the runtime, the collector
\* and the transitions that would throw (GateAgrees, GcIsolated, NoInternalFault).
GateIsTrue == GateAgrees /\ GcIsolated /\ NoInternalFault

\* The first claim of an activation decides: what is published for its card
\* afterwards is what the claim stands for, and only the replacement of an
\* interrupted root clears a claim.
FirstWinnerDecides ==
  [][rt' # "uninitialized" =>
      \A c \in Owned :
        /\ winner[c] # "open" /\ phase'[c] # "none" /\ winner'[c] # winner[c] =>
             c = Root /\ winner[c] = "interrupt" /\ phase'[c] # "settling"
        /\ winner[c] # "open" /\ card[c] = "running" /\ card'[c] # "running" =>
             card'[c] \in CASE winner[c] = "result"    -> Outcomes
                            [] winner[c] = "cancel"    -> {"cancelled"}
                            [] winner[c] = "interrupt" -> {"stopped"}]_vars

\* From the moment a halt begins until it has settled no card status changes and
\* no owner enters, leaves or is claimed, although settlements that were under
\* way resume while it joins.
HaltFreezesStep ==
  halt # "none" /\ rt' # "uninitialized" =>
    /\ card' = card
    /\ halt' # "none" => UNCHANGED <<phase, winner, child, frozen>>

HaltFreezes == [][HaltFreezesStep]_vars

\* A card becomes done above finished work only, although the completion gate is
\* evaluated when the result is claimed and the outcome is published after the
\* node's processes were terminated; and the commit discards no notification: one
\* that arrives between the claim and the commit is refused, not lost.
DoneLosesNothing ==
  \A c \in Cards : card[c] # "done" /\ card'[c] = "done" => SubtreeComplete(card', c) /\ c \notin pend

\* The work below c was finished, and this step reopens some of it and leaves c done.
ReopensBelow(c) ==
  /\ card[c] = "done" /\ card'[c] = "done"
  /\ SubtreeComplete(card, c) /\ ~SubtreeComplete(card', c)

\* Work below a done card is only reopened without that card when a write failed or
\* the process died before propagateChange reached it, and then nobody has been told:
\* every card notified of a change has no done card left above the change.
DoneIsReopened ==
  (\E c \in Cards : ReopensBelow(c)) =>
    pend' \subseteq pend /\ ("fault" \in Inputs \/ "crash" \in Inputs)

DoneIsFinalStep == DoneLosesNothing /\ DoneIsReopened

\* A done card is finished for good reason and stays so until it is reopened
\* (DoneIsQuiet, DoneLosesNothing, DoneIsReopened).
DoneIsFinal == []DoneIsQuiet /\ [][DoneIsFinalStep]_vars

\* Once application admission is closed this process starts no run again, also
\* when the close found a start between its preparation and its launch.
CloseIsFinalStep ==
  ~adm /\ rt' # "uninitialized" =>
    /\ ~adm'
    /\ run = NoRun => run' = NoRun
    /\ rt' = "running" => rt = "running"

CloseIsFinal == [][CloseIsFinalStep]_vars

\* Every halt ends: stopped, or error when something could not be contained.
HaltSettles == halt # "none" ~> (halt = "none" \/ rt = "error")

\* Every claimed cancellation ends with the owner released, or a halt takes the
\* owner over.
CancellationSettles ==
  \A c \in Cards : winner[c] = "cancel" ~> (winner[c] # "cancel" \/ halt # "none")

\* Every urgent interruption ends, so the interrupted node gets its successor
\* and the submitting call its answer.
InterruptionSettles ==
  \A c \in Cards : urgent[c] # "none" ~> (urgent[c] = "none" \/ halt # "none")

\* Whatever a client asked to end comes to an end: halts, cancellations and
\* urgent interruptions.
RequestsSettle == HaltSettles /\ CancellationSettles /\ InterruptionSettles

\* "Only stopped and settled paused admit Analyst intervention": when the paused
\* status admits one, the frontier is parked in the gate and no cancellation is
\* settling. Cancelling the parked activation aborts its wait and leaves the
\* status, so the code admits interventions before the next turn parks.
PausedIsSettled == rt = "paused" => gate.parked

\* The Supervisor implements the card lifecycle of module CardLifecycle: every
\* step publishes at most one of its operations, whatever the interleaving of
\* runs, halts, cancellations, interruptions and analyst edits, and wherever a
\* write of changed-propagation.ts or cancelNonrunningSubtree fails.
Lifecycle == INSTANCE CardLifecycle WITH card <- card

ImplementsCardLifecycle == Lifecycle!Spec
=============================================================================
