---------------------------- MODULE CardProcess -----------------------------
(* One activation of one card: CardProcessActor over the actor loop of        *)
(* micro-actor.ts, its operation trackers (invocation-lifecycle.ts,           *)
(* contained-operations.ts) and the execution of its nodes, with the          *)
(* Supervisor that interrupts, cancels, halts, commits and joins it.  Events  *)
(* are sent from callbacks of the loop and dispatched before the loop waits   *)
(* again, so an action is one turn of the loop.  The work of a node runs in   *)
(* a tracker; when the tracker is revoked it is abandoned and goes on as a    *)
(* stray until it notices.                                                    *)
EXTENDS Naturals, FiniteSets, TLAPS

CONSTANTS MaxNodes,       \* bound: executions of nodes
          MaxInterrupts   \* bound: urgent interruptions of this card's node

CardProcessAssumption == MaxNodes \in Nat \ {0} /\ MaxInterrupts \in Nat

Trackers == 1..(MaxInterrupts + 1)
Terminals == {"DONE", "BLOCKED", "FAILED"}

VARIABLES actor,     \* state, loop, awaited tracker, node control, ordinal
          act,       \* the activation: result, winner, interruption, join
          ops,       \* the operation in each tracker
          tracker,   \* admission, cancellation and deliveries of each tracker
          cur,       \* the tracker of the activation
          claim,     \* the interrupted node and its settlement
          strays,    \* abandoned executions
          sup,       \* what the Supervisor does with the owner
          draft      \* whether a record draft of the node is open

vars == <<actor, act, ops, tracker, cur, claim, strays, sup, draft>>

-----------------------------------------------------------------------------
(* ContainedOperations and ActivationOperationTracker *)

NoOp == [phase |-> "none", ord |-> 0, guarded |-> FALSE, action |-> FALSE, out |-> "none"]
NewTracker == [open |-> TRUE, settle |-> FALSE, aborted |-> FALSE, runs |-> 0, acked |-> 0, failed |-> FALSE]
NoClaim == [ord |-> 0, tr |-> 0, completion |-> "none", join |-> "none"]

Running == {"admit", "guard", "work", "claimed", "hook"}
InFlight(tr) == ops[tr].phase \in Running

\* The wrapper of an operation settles, and waits for its delivery.
Settle(o, out) == [o EXCEPT !.phase = "settled", !.out = out]

\* Abort of the signal of an operation: the wrapper rejects at once and the
\* work is abandoned, unless the tracker settles after cancellation.
Cut(tr, t) == InFlight(tr) /\ t.aborted /\ ~t.settle
CutOps(t) == [tr \in Trackers |-> IF Cut(tr, t[tr]) THEN Settle(ops[tr], "aborted") ELSE ops[tr]]
CutStrays(t) == strays \cup {ops[tr] : tr \in {x \in Trackers : Cut(x, t[x])}}

Revoked(t) == [t EXCEPT !.open = FALSE, !.aborted = TRUE]
Cancelled(t) == [t EXCEPT !.settle = TRUE, !.open = FALSE, !.aborted = TRUE]

\* Seeded fault: join does not wait for deliveries.
JoinedEarly(tr, snap) == ~tracker[tr].open
\* join: every operation begun before it was settled and its delivery consumed.
JoinedAt(tr, snap) == ~tracker[tr].open /\ tracker[tr].acked >= snap

-----------------------------------------------------------------------------
(* The actor *)

\* assertCurrentActivation and canInterruptNode.
CurrentActivation == act.result = "pending" /\ ~act.intr
CanInterruptNode == act.result = "pending" /\ actor.st = "node" /\ actor.ctl = "open" /\ claim.tr = 0

\* resolveActivation and rejectActivation, a lost settlement being allowed.
Settled(result) == IF act.result = "pending" THEN result ELSE act.result

\* onStateEntered of a node: its execution runs in the tracker.
EnterNode(a, tr, guarded, action) ==
  LET o == [phase |-> "admit", ord |-> a.ord, guarded |-> guarded, action |-> action, out |-> "none"]
      cut == tracker[tr].aborted /\ ~tracker[tr].settle
  IN /\ actor' = [a EXCEPT !.st = "node", !.loop = "wait", !.task = tr, !.nonagent = IF action THEN "node" ELSE "none",
                           !.ctl = IF guarded THEN "interrupt" ELSE "open"]
     /\ ops' = [ops EXCEPT ![actor.task] = NoOp, ![tr] = IF cut THEN Settle(o, "aborted") ELSE o]
     /\ strays' = IF cut THEN strays \cup {o} ELSE strays

\* settleTerminal.
EnterTerminal(t, result) ==
  /\ actor' = [actor EXCEPT !.st = t, !.loop = "ended", !.task = 0, !.nonagent = "none"]
  /\ act' = [act EXCEPT !.result = Settled(result)]
  /\ ops' = [ops EXCEPT ![actor.task] = NoOp]

Init ==
  /\ actor = [st |-> "ready", loop |-> "parked", task |-> 0, ord |-> 0, ctl |-> "none", nonagent |-> "none"]
  /\ act = [result |-> "none", won |-> FALSE, intr |-> FALSE, pre |-> FALSE, join |-> "none", jtr |-> 0, snap |-> 0, jclaim |-> FALSE]
  /\ ops = [t \in Trackers |-> NoOp] /\ tracker = [t \in Trackers |-> NewTracker]
  /\ cur = 1 /\ claim = NoClaim /\ strays = {} /\ sup = "none" /\ draft = FALSE

\* activate: the parked actor goes through its entry to the first node.
Activate ==
  /\ sup = "none" /\ actor.st = "ready"
  /\ sup' = "active" /\ act' = [act EXCEPT !.result = "pending"]
  /\ \E action \in BOOLEAN :
       /\ actor' = [actor EXCEPT !.st = "node", !.loop = "wait", !.task = 1, !.ctl = "open",
                                 !.nonagent = IF action THEN "node" ELSE "none"]
       /\ ops' = [ops EXCEPT ![1] = [NoOp EXCEPT !.phase = "admit", !.action = action]]
  /\ tracker' = [tracker EXCEPT ![1].runs = 1]
  /\ UNCHANGED <<cur, claim, strays, draft>>

Acked(tr) == [tracker EXCEPT ![tr].acked = @ + 1]

\* The loop takes the result of its task: acceptNodeResult.
DeliverNext ==
  LET tr == actor.task IN
    /\ ops[tr].out = "next" /\ ~act.intr
    /\ tracker' = [Acked(tr) EXCEPT ![tr].runs = @ + 1]
    /\ \E action \in BOOLEAN : EnterNode([actor EXCEPT !.ord = @ + 1], tr, FALSE, action)
    /\ UNCHANGED <<act, cur, claim, sup, draft>>
DeliverTerminal ==
  /\ ops[actor.task].out \in Terminals /\ ~act.intr
  /\ EnterTerminal(ops[actor.task].out, "resolved")
  /\ tracker' = Acked(actor.task)
  /\ UNCHANGED <<cur, claim, strays, sup, draft>>

\* A node that ended by its interruption: a fresh tracker and a guarded successor.
DeliverInterrupted ==
  LET tr == actor.task IN
    /\ ops[tr].out = "interrupted" /\ ~act.intr
    /\ cur' = cur + 1
    /\ tracker' = [Acked(tr) EXCEPT ![cur + 1].runs = 1]
    /\ EnterNode([actor EXCEPT !.ord = @ + 1], cur + 1, TRUE, FALSE)
    /\ UNCHANGED <<act, claim, sup, draft>>

\* acceptNodeFailure: a failure under a claimed interruption fails the loop, and
\* with it the runtime; a failure after an interruption of the activation is
\* retained for the join; any other one ends in FAILED.
DeliverFailure ==
  LET tr == actor.task IN
    /\ ops[tr].out \in {"error", "aborted"}
    /\ IF claim.tr # 0 /\ actor.ctl = "interrupt" /\ ~act.intr
         THEN /\ tracker' = [Acked(tr) EXCEPT ![tr].failed = TRUE]
              /\ actor' = [actor EXCEPT !.loop = "failed", !.task = 0, !.nonagent = "none"]
              /\ ops' = [ops EXCEPT ![tr] = NoOp]
              /\ act' = [act EXCEPT !.result = Settled("rejected")]
              /\ sup' = IF sup = "halted" THEN sup ELSE "halt"
         ELSE /\ tracker' = Acked(tr) /\ UNCHANGED sup
              /\ IF act.intr
                   THEN /\ actor' = [actor EXCEPT !.loop = "ended", !.task = 0, !.nonagent = "none"]
                        /\ act' = [act EXCEPT !.pre = @ \/ ops[tr].out = "error"]
                        /\ ops' = [ops EXCEPT ![tr] = NoOp]
                   ELSE EnterTerminal("FAILED", "resolved")
    /\ UNCHANGED <<cur, claim, strays, draft>>

\* After an interruption of the activation a result has no consumer any more.
DeliverIgnored ==
  LET tr == actor.task IN
    /\ act.intr /\ ops[tr].out \notin {"error", "aborted"}
    /\ tracker' = Acked(tr) /\ ops' = [ops EXCEPT ![tr] = NoOp]
    /\ actor' = [actor EXCEPT !.loop = "ended", !.task = 0, !.nonagent = "none"]
    /\ UNCHANGED <<act, cur, claim, strays, sup, draft>>

Deliver ==
  /\ actor.loop = "wait" /\ ops[actor.task].phase = "settled"
  /\ DeliverNext \/ DeliverTerminal \/ DeliverInterrupted \/ DeliverFailure \/ DeliverIgnored

-----------------------------------------------------------------------------
(* NodeExecution in the tracker *)

Body(tr, phases) == ops[tr].phase \in phases
Becomes(tr, phase) == ops' = [ops EXCEPT ![tr].phase = phase]
Ends(tr, out) == ops' = [ops EXCEPT ![tr] = Settle(@, out)]

\* run: the work starts in a turn of its own, if admission is still open.
Start(tr) ==
  /\ Body(tr, {"admit"})
  /\ IF tracker[tr].open THEN Becomes(tr, IF ops[tr].guarded THEN "guard" ELSE "work") ELSE Ends(tr, "aborted")
  /\ UNCHANGED <<actor, act, tracker, cur, claim, strays, sup, draft>>

\* The successor's guard: the settlement of the interrupted node is complete.
PassGuard(tr) ==
  /\ Body(tr, {"guard"}) /\ claim.completion \in {"resolved", "rejected"}
  /\ IF claim.completion = "resolved" /\ ~tracker[tr].aborted /\ CurrentActivation
       THEN /\ claim' = NoClaim /\ actor' = [actor EXCEPT !.ctl = "open"] /\ Becomes(tr, "work")
       ELSE /\ Ends(tr, IF claim.completion = "rejected" THEN "error" ELSE "aborted") /\ UNCHANGED <<claim, actor>>
  /\ UNCHANGED <<act, tracker, cur, strays, sup, draft>>

WriteDraft(tr) ==
  /\ Body(tr, {"work"}) /\ ~ops[tr].action /\ ~tracker[tr].aborted /\ ~draft
  /\ draft' = TRUE /\ UNCHANGED <<actor, act, ops, tracker, cur, claim, strays, sup>>

\* acceptCandidate: a terminal result claims the activation, every result the
\* node control; then the drafts are closed.
ClaimResult(tr, terminal) ==
  /\ Body(tr, {"work"}) /\ actor.ord = ops[tr].ord /\ actor.ctl = "open" /\ CurrentActivation
  /\ IF terminal THEN sup = "active" ELSE actor.ord < MaxNodes
  /\ actor' = [actor EXCEPT !.ctl = "result"] /\ act' = [act EXCEPT !.won = terminal]
  /\ ops' = [ops EXCEPT ![tr].phase = "claimed", ![tr].out = IF terminal THEN "DONE" ELSE "next"]
  /\ draft' = FALSE /\ UNCHANGED <<tracker, cur, claim, strays, sup>>

\* The runtime's own blocked result claims the node control only.
ClaimBlocked(tr) ==
  /\ Body(tr, {"work"}) /\ ~ops[tr].action /\ actor.ord = ops[tr].ord /\ actor.ctl = "open" /\ CurrentActivation
  /\ actor' = [actor EXCEPT !.ctl = "result"]
  /\ ops' = [ops EXCEPT ![tr].phase = "claimed", ![tr].out = "BLOCKED"]
  /\ draft' = FALSE /\ UNCHANGED <<act, tracker, cur, claim, strays, sup>>

\* The end of an execution: drafts are discarded, processes ended, and the
\* result is returned; an abort is answered by the interruption or its reason.
Return(tr) ==
  /\ \/ Body(tr, {"claimed"}) /\ Ends(tr, ops[tr].out)
     \/ Body(tr, {"claimed", "work"}) /\ Ends(tr, "error")
     \/ Body(tr, {"work"}) /\ tracker[tr].aborted
          /\ Ends(tr, IF claim.tr = tr /\ claim.ord = ops[tr].ord THEN "interrupted" ELSE "aborted")
  /\ draft' = FALSE
  /\ UNCHANGED <<actor, act, tracker, cur, claim, strays, sup>>

\* An abandoned execution comes to its end in the background.
StrayEnds(o) ==
  /\ o \in strays /\ strays' = strays \ {o}
  /\ draft' = IF o.phase = "work" /\ ~o.action THEN FALSE ELSE draft
  /\ UNCHANGED <<actor, act, ops, tracker, cur, claim, sup>>

-----------------------------------------------------------------------------
(* The Supervisor *)

\* joinActivation is memoised and freezes what it waits for.
Joining(a, t) ==
  IF a.join # "none" THEN a
  ELSE [a EXCEPT !.join = "wait", !.jtr = cur, !.snap = t[cur].runs, !.jclaim = claim.tr # 0]

\* An urgent notification replaces the node, not the activation.
ClaimInterruption ==
  /\ sup = "active" /\ ~act.won /\ CanInterruptNode /\ cur <= MaxInterrupts
  /\ actor' = [actor EXCEPT !.ctl = "interrupt"]
  /\ claim' = [ord |-> actor.ord, tr |-> cur, completion |-> "pending", join |-> "wait"]
  /\ tracker' = [tracker EXCEPT ![cur] = Cancelled(@)]
  /\ UNCHANGED <<act, ops, cur, strays, sup, draft>>

\* Seeded fault: the settlement joins the surviving activation, whose successor
\* node waits for the settlement.
JoinSurvivor ==
  /\ claim.join = "wait" /\ JoinedAt(claim.tr, tracker[claim.tr].runs) /\ tracker[cur].acked = tracker[cur].runs
  /\ claim' = [claim EXCEPT !.join = IF tracker[claim.tr].failed THEN "failed" ELSE "joined"]
  /\ UNCHANGED <<actor, act, ops, tracker, cur, strays, sup, draft>>
\* joinInterruptedNode: the captured tracker only.
JoinInterrupted ==
  /\ claim.join = "wait" /\ JoinedAt(claim.tr, tracker[claim.tr].runs)
  /\ claim' = [claim EXCEPT !.join = IF tracker[claim.tr].failed THEN "failed" ELSE "joined"]
  /\ UNCHANGED <<actor, act, ops, tracker, cur, strays, sup, draft>>

\* The settlement completes, or fails and halts the runtime.
Complete ==
  /\ claim.completion = "pending" /\ claim.join \in {"joined", "failed"}
  /\ \/ claim.join = "joined" /\ claim' = [claim EXCEPT !.completion = "resolved"] /\ UNCHANGED sup
     \/ claim' = [claim EXCEPT !.completion = "rejected"] /\ sup' = IF sup = "halted" THEN sup ELSE "halt"
  /\ UNCHANGED <<actor, act, ops, tracker, cur, strays, draft>>

\* An urgent notification to an ancestor interrupts the whole activation.
InterruptActivation ==
  /\ sup = "active" /\ ~act.won
  /\ IF CurrentActivation
       THEN /\ tracker' = [tracker EXCEPT ![cur] = Cancelled(@)]
            /\ act' = Joining([act EXCEPT !.intr = TRUE, !.result = "rejected"], tracker')
            /\ sup' = "interrupt"
       ELSE sup' = "halt" /\ UNCHANGED <<tracker, act>>
  /\ UNCHANGED <<actor, ops, cur, claim, strays, draft>>

\* prepareForRuntimeHalt: disposal, unless an action, a hook or an interruption
\* in progress has to settle first.
PrepareHalt(a, t) ==
  IF actor.nonagent = "none" /\ claim.tr = 0 /\ ~a.intr
    THEN [a |-> [a EXCEPT !.result = Settled("rejected")], t |-> [t EXCEPT ![cur] = Revoked(@)]]
    ELSE [a |-> [a EXCEPT !.result = Settled("rejected"), !.intr = TRUE], t |-> [t EXCEPT ![cur] = Cancelled(@)]]

\* The halt, and the cancellation of the card: the activation signal is aborted
\* and the processor joined.
AbortAndJoin ==
  LET prepared == PrepareHalt(act, tracker)
      aborted == [tr \in Trackers |-> IF tr <= cur THEN [prepared.t[tr] EXCEPT !.aborted = TRUE] ELSE prepared.t[tr]]
  IN /\ tracker' = aborted /\ ops' = CutOps(aborted) /\ strays' = CutStrays(aborted)
     /\ act' = Joining(prepared.a, aborted)
     /\ UNCHANGED <<actor, cur, claim, draft>>
Cancel == sup = "active" /\ ~act.won /\ act.result # "none" /\ AbortAndJoin /\ sup' = "cancel"
Halt == sup \notin {"none", "halted", "released"} /\ AbortAndJoin /\ sup' = "halted"

\* Natural settlement: commit, hook, join.
Commit == sup = "active" /\ act.result = "resolved" /\ sup' = "committed"
          /\ UNCHANGED <<actor, act, ops, tracker, cur, claim, strays, draft>>
StartHook ==
  /\ sup = "committed"
  /\ sup' = "hook" /\ actor' = [actor EXCEPT !.nonagent = "hook"]
  /\ ops' = [ops EXCEPT ![cur] = [NoOp EXCEPT !.phase = "hook", !.action = TRUE]]
  /\ tracker' = [tracker EXCEPT ![cur].runs = @ + 1]
  /\ UNCHANGED <<act, cur, claim, strays, draft>>
EndHook ==
  /\ actor.nonagent = "hook" /\ ops[cur].phase \in {"hook", "settled"}
  /\ actor' = [actor EXCEPT !.nonagent = "none"]
  /\ ops' = [ops EXCEPT ![cur] = NoOp] /\ tracker' = Acked(cur)
  /\ sup' = IF sup = "hook" THEN "hooked" ELSE sup
  /\ UNCHANGED <<act, cur, claim, strays, draft>>
JoinNaturally ==
  /\ sup \in {"committed", "hooked"}
  /\ tracker' = [tracker EXCEPT ![cur].open = FALSE]
  /\ act' = Joining(act, tracker') /\ sup' = "joining"
  /\ UNCHANGED <<actor, ops, cur, claim, strays, draft>>

\* performActivationJoin; a failed join halts the runtime.
JoinActivation ==
  /\ act.join = "wait" /\ JoinedAt(act.jtr, act.snap) /\ (act.jclaim => claim.join # "wait")
  /\ LET failed == act.pre \/ tracker[act.jtr].failed \/ actor.loop = "failed" \/ (act.jclaim /\ claim.join = "failed") IN
       /\ act' = [act EXCEPT !.join = IF failed THEN "failed" ELSE IF strays # {} THEN "abandoned" ELSE "joined"]
       /\ sup' = IF sup = "halted" THEN sup ELSE IF failed THEN "halt" ELSE "released"
  /\ UNCHANGED <<actor, ops, tracker, cur, claim, strays, draft>>

\* A halt follows its cause in the same turn.
Live == sup # "halt"
Execution == \E tr \in Trackers : \/ Start(tr) \/ PassGuard(tr) \/ WriteDraft(tr) \/ ClaimBlocked(tr) \/ Return(tr)
                                  \/ \E terminal \in BOOLEAN : ClaimResult(tr, terminal)
Strays == \E o \in strays : StrayEnds(o)
Next ==
  \/ Halt
  \/ /\ Live
     /\ \/ Activate \/ Deliver \/ Execution \/ Strays \/ ClaimInterruption \/ JoinInterrupted \/ Complete
        \/ InterruptActivation \/ Cancel \/ Commit \/ StartHook \/ EndHook \/ JoinNaturally \/ JoinActivation

\* The event loop runs what is ready; executions answer an abort in finite time.
AnswerAbort == \E tr \in Trackers : tracker[tr].aborted /\ Return(tr)
Fairness ==
  /\ WF_vars(Live /\ Deliver) /\ WF_vars(Live /\ \E tr \in Trackers : Start(tr) \/ PassGuard(tr))
  /\ WF_vars(Live /\ AnswerAbort) /\ WF_vars(Live /\ JoinInterrupted) /\ WF_vars(Live /\ Complete)
  /\ WF_vars(Live /\ EndHook) /\ WF_vars(Live /\ JoinActivation) /\ WF_vars(~Live /\ Halt)

Spec == Init /\ [][Next]_vars /\ Fairness

-----------------------------------------------------------------------------
\* The node after an interruption starts its work only when the interrupted
\* node has ended, its result has been consumed and its settlement is complete;
\* so no two nodes of a card ever work at the same time.
OneNodeAtWork ==
  /\ \A t1, t2 \in Trackers : Body(t1, {"work", "claimed"}) /\ Body(t2, {"work", "claimed"}) => t1 = t2
  /\ \A tr \in Trackers : Body(tr, {"work", "claimed"}) =>
       /\ claim.tr \in {0, tr}
       /\ \A old \in Trackers : old < tr => tracker[old].acked = tracker[old].runs

\* A joined processor is quiet: nothing it started is at work or will start,
\* unless the join reported abandoned work; not even then is there work that is
\* not abandoned.
JoinMeansQuiet ==
  act.join \in {"joined", "abandoned"} =>
    /\ \A tr \in Trackers : ~Body(tr, {"guard", "work", "claimed", "hook"})
    /\ act.join = "joined" => \A o \in strays : o.phase = "admit"

\* The interruption of a node and its result exclude each other: a node whose
\* interruption was claimed hands over no result.
InterruptionExcludesResult ==
  claim.tr # 0 => ops[claim.tr].out \notin {"next"} \cup Terminals

\* A Stop lets an action, a hook and an interrupted node settle: nothing but an
\* agent's node is ever abandoned.
OnlyAgentsAbandoned == \A o \in strays : o.phase \in {"work", "claimed", "guard"} => ~o.action /\ o.phase # "guard"

\* The outcome of an activation is settled once.
SettledOnce == act.result \in {"resolved", "rejected"} => act'.result = act.result

\* Interrupted, cancelled or halted at any moment, with an interruption of the
\* node half settled, the join of the processor is not pending for ever.
JoinPending == act.join = "wait"

\* An interrupted node is followed by its successor, or the activation ends: this
\* does not last.
NodeInterrupted == claim.tr # 0 /\ act.result # "rejected"

-----------------------------------------------------------------------------
(* The safety properties hold for every number of nodes and of interruptions.  *)

Actors == [st : {"ready", "node"} \cup Terminals, loop : {"parked", "wait", "ended", "failed"}, task : Nat, ord : Nat,
           ctl : {"none", "open", "result", "interrupt"}, nonagent : {"none", "node", "hook"}]
Activations == [result : {"none", "pending", "resolved", "rejected"}, won : BOOLEAN, intr : BOOLEAN, pre : BOOLEAN,
                join : {"none", "wait", "failed", "abandoned", "joined"}, jtr : Nat, snap : Nat, jclaim : BOOLEAN]
Operations == [phase : {"none", "settled"} \cup Running, ord : Nat, guarded : BOOLEAN, action : BOOLEAN,
               out : {"none", "next", "interrupted", "error", "aborted"} \cup Terminals]
TrackerStates == [open : BOOLEAN, settle : BOOLEAN, aborted : BOOLEAN, runs : Nat, acked : Nat, failed : BOOLEAN]
Claims == [ord : Nat, tr : Nat, completion : {"none", "pending", "resolved", "rejected"}, join : {"none", "wait", "joined", "failed"}]
Sups == {"none", "active", "cancel", "interrupt", "halt", "halted", "committed", "hook", "hooked", "joining", "released"}

Typed ==
  /\ actor \in Actors /\ act \in Activations /\ ops \in [Trackers -> Operations] /\ tracker \in [Trackers -> TrackerStates]
  /\ cur \in Trackers /\ claim \in Claims /\ strays \subseteq Operations /\ sup \in Sups

\* The operation of the current tracker
Op == ops[cur]

\* Only the current tracker has an operation; the loop waits for it, or it is the
\* hook, or there is none.
OpInv ==
  /\ \A tr \in Trackers : tr # cur => ops[tr] = NoOp
  /\ actor.loop = "wait" => /\ actor.task = cur /\ Op.phase \notin {"none", "hook"}
                            /\ actor.nonagent = IF Op.action THEN "node" ELSE "none"
  /\ actor.loop # "wait" => Op.phase \in {"none", "hook"} /\ Op.out = "none" /\ actor.nonagent # "node"
  /\ Op.phase = "hook" <=> actor.nonagent = "hook"

\* An operation that was begun is delivered once, and a tracker that was replaced
\* has delivered all of its operations.
CountInv ==
  /\ tracker[cur].runs = tracker[cur].acked + (IF Op.phase = "none" THEN 0 ELSE 1)
  /\ \A tr \in Trackers : (tr < cur => tracker[tr].runs = tracker[tr].acked) /\ (tr > cur => tracker[tr] = NewTracker)

\* A claimed interruption holds the node control until the guard of the successor
\* passes; a result holds it as well.
ClaimInv ==
  /\ claim.tr # 0 => actor.ctl = "interrupt" /\ claim.tr <= cur /\ (claim.tr = cur => cur <= MaxInterrupts)
  /\ Op.out \in {"next"} \cup Terminals => actor.ctl = "result"
  /\ Op.phase = "claimed" => Op.out \in {"next"} \cup Terminals
  /\ Op.phase \in {"admit", "guard", "work"} => Op.out = "none"
  /\ Op.out = "interrupted" => claim.tr = cur
  /\ Op.phase = "guard" => Op.guarded
  /\ (Op.guarded /\ Op.phase \in {"admit", "guard"}) => claim.tr \notin {0, cur}
  /\ Op.phase \in {"work", "claimed"} => claim.tr \in {0, cur}
  /\ (~Op.guarded /\ Op.phase = "admit") => claim.tr \in {0, cur}
  /\ tracker[cur].settle => claim.tr = cur \/ act.intr

\* What the Supervisor has seen of the activation
SupInv ==
  /\ sup = "none" => (actor.loop = "parked" /\ cur = 1 /\ claim.tr = 0 /\ act.result = "none" /\ Op = NoOp
                       /\ tracker[1] = NewTracker /\ ~act.intr)
  /\ act.result = "resolved" => actor.loop = "ended"
  /\ sup \in {"committed", "hook", "hooked"} => act.result = "resolved"
  /\ sup \in {"active", "committed", "hooked"} => actor.nonagent # "hook"

\* Nothing that a join does not wait for can come to work: it waits for all that
\* runs, or nothing runs, or what would run is cut.
Frozen == act.intr /\ (act.snap = tracker[cur].runs \/ Op.phase \in {"none", "settled"})
Ended == actor.loop # "wait" /\ Op.phase = "none"
CutOff == Op.phase = "settled" /\ tracker[cur].aborted /\ ~tracker[cur].settle /\ claim.tr = 0
JoinInv ==
  /\ act.join # "none" => /\ act.jtr = cur /\ sup \in {"cancel", "halted", "interrupt", "joining", "halt", "released"}
                          /\ Frozen \/ Ended \/ CutOff
  /\ act.join \in {"joined", "abandoned"} => Op.phase \in {"none", "settled"}
  /\ act.join = "joined" => \A o \in strays : o.phase = "admit"

ProcessInv == Typed /\ OpInv /\ CountInv /\ ClaimInv /\ SupInv /\ JoinInv /\ OnlyAgentsAbandoned

\* The running phases and the results are what they are called.
LEMMA Phases == NoOp.phase = "none" /\ NoOp.out = "none" /\ ~NoOp.guarded /\ ~NoOp.action /\ NoOp \in Operations
  BY DEF NoOp, Operations

\* Only the current tracker has an operation.
LEMMA WhoseOp ==
  ASSUME Typed, OpInv, NEW tr \in Trackers, ops[tr].phase # "none"
  PROVE  tr = cur
  BY Phases DEF OpInv

\* An operation that changes is the current one; the others stay as they are.
LEMMA OpChanges ==
  ASSUME Typed, OpInv, NEW o \in Operations, ops' = [ops EXCEPT ![cur] = o], UNCHANGED cur
  PROVE  ops' \in [Trackers -> Operations] /\ Op' = o /\ \A tr \in Trackers : tr # cur => ops'[tr] = NoOp
  BY DEF Typed, OpInv, Op

\* A phase and an outcome that an operation may take
LEMMA PhaseOf ==
  ASSUME Typed, NEW p \in {"none", "settled"} \cup Running
  PROVE  LET o == [Op EXCEPT !.phase = p] IN
         /\ o \in Operations /\ o.phase = p /\ o.out = Op.out /\ o.guarded = Op.guarded /\ o.action = Op.action /\ o.ord = Op.ord
  BY DEF Typed, Op, Operations

\* The settlement of an operation
LEMMA SettleOf ==
  ASSUME Typed, NEW out \in {"none", "next", "interrupted", "error", "aborted"} \cup Terminals
  PROVE  LET o == Settle(Op, out) IN
         /\ o \in Operations /\ o.phase = "settled" /\ o.out = out /\ o.guarded = Op.guarded /\ o.action = Op.action /\ o.ord = Op.ord
  BY DEF Typed, Op, Operations, Settle

\* A step of the execution of the current node: it goes on with the claims as they are.
LEMMA ExecutionKeeps ==
  ASSUME CardProcessAssumption, ProcessInv, NEW o \in Operations, ops' = [ops EXCEPT ![cur] = o],
         Op.phase \in {"admit", "guard", "work", "claimed"}, o.phase \in {"guard", "work", "claimed", "settled"},
         o.action = Op.action, actor' \in Actors, act' \in Activations, claim' \in Claims,
         actor'.loop = actor.loop, actor'.task = actor.task, actor'.nonagent = actor.nonagent,
         act'.intr = act.intr, act'.join = act.join, act'.jtr = act.jtr, act'.snap = act.snap, act'.result = act.result,
         UNCHANGED <<tracker, cur, strays, sup>>, ClaimInv'
  PROVE  ProcessInv'
<1> USE DEF ProcessInv
<1>1. ops' \in [Trackers -> Operations] /\ Op' = o /\ \A tr \in Trackers : tr # cur => ops'[tr] = NoOp
  BY OpChanges
<1>2. actor.loop = "wait"
  BY DEF OpInv
<1>3. Typed'
  BY <1>1 DEF Typed
<1>4. OpInv'
  BY <1>1, <1>2 DEF OpInv
<1>5. CountInv'
  BY <1>1 DEF CountInv
<1>6. SupInv'
  BY <1>1, <1>2 DEF SupInv
<1>7. JoinInv'
  BY <1>1, <1>2 DEF JoinInv, Frozen, Ended, CutOff
<1>8. OnlyAgentsAbandoned'
  BY DEF OnlyAgentsAbandoned
<1> QED BY <1>3, <1>4, <1>5, <1>6, <1>7, <1>8

\* A node starts, if its tracker still admits it.
LEMMA StartStep ==
  ASSUME CardProcessAssumption, ProcessInv, NEW tr \in Trackers, Start(tr)
  PROVE  ProcessInv'
<1> USE DEF ProcessInv
<1>1. tr = cur /\ Op.phase = "admit"
  BY WhoseOp DEF Start, Body, Op
<1>2. UNCHANGED <<actor, act, tracker, cur, claim, strays, sup>>
  BY DEF Start
<1>3. CASE tracker[tr].open
  <2> DEFINE p == IF Op.guarded THEN "guard" ELSE "work"
  <2> DEFINE o == [Op EXCEPT !.phase = p]
  <2>1. ops' = [ops EXCEPT ![cur] = o]
    BY <1>1, <1>3 DEF Start, Becomes, Op
  <2>2. o \in Operations /\ o.phase = p /\ o.out = Op.out /\ o.guarded = Op.guarded /\ o.action = Op.action
    BY PhaseOf DEF Running
  <2> HIDE DEF o
  <2>3. Op' = o
    BY <1>2, <2>1, <2>2, OpChanges
  <2>4. ClaimInv'
    BY <1>1, <1>2, <2>2, <2>3 DEF ClaimInv
  <2> QED BY <1>1, <1>2, <2>1, <2>2, <2>4, ExecutionKeeps DEF Typed
<1>4. CASE ~tracker[tr].open
  <2> DEFINE o == Settle(Op, "aborted")
  <2>1. ops' = [ops EXCEPT ![cur] = o]
    BY <1>1, <1>4 DEF Start, Ends, Op
  <2>2. o \in Operations /\ o.phase = "settled" /\ o.out = "aborted" /\ o.guarded = Op.guarded /\ o.action = Op.action
    BY SettleOf
  <2> HIDE DEF o
  <2>3. Op' = o
    BY <1>2, <2>1, <2>2, OpChanges
  <2>4. ClaimInv'
    BY <1>1, <1>2, <2>2, <2>3 DEF ClaimInv, Terminals
  <2> QED BY <1>1, <1>2, <2>1, <2>2, <2>4, ExecutionKeeps DEF Typed
<1> QED BY <1>3, <1>4

\* The guard of a successor passes when the interrupted node is settled.
LEMMA PassGuardStep ==
  ASSUME CardProcessAssumption, ProcessInv, NEW tr \in Trackers, PassGuard(tr)
  PROVE  ProcessInv'
<1> USE DEF ProcessInv
<1>1. tr = cur /\ Op.phase = "guard" /\ UNCHANGED <<act, tracker, cur, strays, sup>>
  BY WhoseOp DEF PassGuard, Body, Op
<1>2. CASE claim.completion = "resolved" /\ ~tracker[tr].aborted /\ CurrentActivation
  <2> DEFINE o == [Op EXCEPT !.phase = "work"]
  <2>1. ops' = [ops EXCEPT ![cur] = o] /\ claim' = NoClaim /\ actor' = [actor EXCEPT !.ctl = "open"]
    BY <1>1, <1>2 DEF PassGuard, Becomes, Op
  <2>2. o \in Operations /\ o.phase = "work" /\ o.out = Op.out /\ o.guarded = Op.guarded /\ o.action = Op.action
    BY PhaseOf DEF Running
  <2> HIDE DEF o
  <2>3. Op' = o
    BY <1>1, <2>1, <2>2, OpChanges
  <2>4. claim' \in Claims /\ claim'.tr = 0
    BY <2>1 DEF NoClaim, Claims
  <2>5. actor' \in Actors /\ actor'.loop = actor.loop /\ actor'.task = actor.task /\ actor'.nonagent = actor.nonagent /\ actor'.ctl = "open"
    BY <2>1 DEF Typed, Actors
  <2>6. ~tracker[cur].settle
    BY <1>1, <1>2 DEF ClaimInv, CurrentActivation
  <2>7. ClaimInv'
    BY <1>1, <2>2, <2>3, <2>4, <2>6 DEF ClaimInv, Terminals
  <2> QED BY <1>1, <2>1, <2>2, <2>4, <2>5, <2>7, ExecutionKeeps DEF Typed
<1>3. CASE ~(claim.completion = "resolved" /\ ~tracker[tr].aborted /\ CurrentActivation)
  <2> DEFINE out == IF claim.completion = "rejected" THEN "error" ELSE "aborted"
  <2> DEFINE o == Settle(Op, out)
  <2>1. ops' = [ops EXCEPT ![cur] = o] /\ UNCHANGED <<claim, actor>>
    BY <1>1, <1>3 DEF PassGuard, Ends, Op
  <2>2. o \in Operations /\ o.phase = "settled" /\ o.out \in {"error", "aborted"} /\ o.guarded = Op.guarded /\ o.action = Op.action
    BY SettleOf
  <2> HIDE DEF o
  <2>3. Op' = o
    BY <1>1, <2>1, <2>2, OpChanges
  <2>4. ClaimInv'
    BY <1>1, <2>1, <2>2, <2>3 DEF ClaimInv, Terminals
  <2> QED BY <1>1, <2>1, <2>2, <2>4, ExecutionKeeps DEF Typed
<1> QED BY <1>2, <1>3

\* A result takes the node control, which no interruption has claimed.
LEMMA ClaimResultStep ==
  ASSUME CardProcessAssumption, ProcessInv, NEW tr \in Trackers,
         (\E terminal \in BOOLEAN : ClaimResult(tr, terminal)) \/ ClaimBlocked(tr)
  PROVE  ProcessInv'
<1> USE DEF ProcessInv
<1>1. tr = cur /\ Op.phase = "work" /\ UNCHANGED <<tracker, cur, claim, strays, sup>> /\ actor.ctl = "open"
  BY WhoseOp DEF ClaimResult, ClaimBlocked, Body, Op
<1>2. PICK out \in {"next", "DONE", "BLOCKED"} : ops' = [ops EXCEPT ![tr].phase = "claimed", ![tr].out = out]
  BY DEF ClaimResult, ClaimBlocked
<1> DEFINE o == [Op EXCEPT !.phase = "claimed", !.out = out]
<1>3. ops' = [ops EXCEPT ![cur] = o]
  BY <1>1, <1>2 DEF Op, Typed
<1>4. o \in Operations /\ o.phase = "claimed" /\ o.out = out /\ o.guarded = Op.guarded /\ o.action = Op.action
  BY DEF Typed, Op, Operations, Running, Terminals
<1> HIDE DEF o
<1>5. Op' = o
  BY <1>1, <1>3, <1>4, OpChanges
<1>6. /\ actor' \in Actors /\ actor'.loop = actor.loop /\ actor'.task = actor.task /\ actor'.nonagent = actor.nonagent
      /\ actor'.ctl = "result"
  BY DEF ClaimResult, ClaimBlocked, Typed, Actors
<1>7. /\ act' \in Activations /\ act'.intr = act.intr /\ act'.join = act.join /\ act'.jtr = act.jtr /\ act'.snap = act.snap
      /\ act'.result = act.result
  BY DEF ClaimResult, ClaimBlocked, Typed, Activations
<1>8. ClaimInv'
  BY <1>1, <1>4, <1>5, <1>6, <1>7 DEF ClaimInv, Terminals
<1> QED BY <1>1, <1>3, <1>4, <1>6, <1>7, <1>8, ExecutionKeeps DEF Typed

\* The end of an execution; only the node whose interruption was claimed ends by it.
LEMMA ReturnStep ==
  ASSUME CardProcessAssumption, ProcessInv, NEW tr \in Trackers, Return(tr)
  PROVE  ProcessInv'
<1> USE DEF ProcessInv
<1>1. tr = cur /\ Op.phase \in {"work", "claimed"} /\ UNCHANGED <<actor, act, tracker, cur, claim, strays, sup>>
  BY WhoseOp DEF Return, Body, Op
<1>2. PICK out \in {"none", "next", "interrupted", "error", "aborted"} \cup Terminals :
        /\ ops' = [ops EXCEPT ![cur] = Settle(Op, out)]
        /\ out \in {"error", "aborted"} \/ (out = "interrupted" /\ claim.tr = cur) \/ (Op.phase = "claimed" /\ out = Op.out)
  <2>1. Op.out \in {"none", "next", "interrupted", "error", "aborted"} \cup Terminals
    BY DEF Typed, Op, Operations
  <2> QED BY <1>1, <2>1 DEF Return, Body, Ends, Op
<1> DEFINE o == Settle(Op, out)
<1>3. o \in Operations /\ o.phase = "settled" /\ o.out = out /\ o.guarded = Op.guarded /\ o.action = Op.action
  BY SettleOf
<1>4. ops' = [ops EXCEPT ![cur] = o]
  BY <1>2
<1> HIDE DEF o
<1>5. Op' = o
  BY <1>1, <1>3, <1>4, OpChanges
<1>6. ClaimInv'
  BY <1>1, <1>2, <1>3, <1>5 DEF ClaimInv, Terminals
<1> QED BY <1>1, <1>3, <1>4, <1>6, ExecutionKeeps DEF Typed

\* A draft is no part of the control.
LEMMA DraftStep ==
  ASSUME ProcessInv, UNCHANGED <<actor, act, ops, tracker, cur, claim, sup>>, strays' \subseteq strays
  PROVE  ProcessInv'
<1> USE DEF ProcessInv
<1>1. Typed' /\ OpInv' /\ CountInv'
  BY DEF Typed, OpInv, CountInv, Op
<1>2. ClaimInv' /\ SupInv'
  BY DEF ClaimInv, SupInv, Op
<1>3. JoinInv' /\ OnlyAgentsAbandoned'
  BY DEF JoinInv, Frozen, Ended, CutOff, OnlyAgentsAbandoned, Op
<1> QED BY <1>1, <1>2, <1>3

\* Trackers are numbered in the order they replace one another.
LEMMA TrackerNumbers ==
  ASSUME CardProcessAssumption
  PROVE  /\ MaxInterrupts \in Nat /\ 1 \in Trackers
         /\ \A tr \in Trackers : tr \in Nat /\ tr # 0 /\ (tr <= MaxInterrupts => tr + 1 \in Trackers)
  BY DEF CardProcessAssumption, Trackers

\* An earlier or a later tracker is another one.
LEMMA OtherTracker ==
  ASSUME CardProcessAssumption, NEW c \in Trackers
  PROVE  \A tr \in Trackers : (tr < c => tr # c) /\ (tr > c => tr # c)
  BY TrackerNumbers

\* The first node of an activation
LEMMA ActivateStep ==
  ASSUME CardProcessAssumption, ProcessInv, Activate
  PROVE  ProcessInv'
<1> USE DEF ProcessInv
<1>1. PICK action \in BOOLEAN :
       /\ actor' = [actor EXCEPT !.st = "node", !.loop = "wait", !.task = 1, !.ctl = "open",
                                 !.nonagent = IF action THEN "node" ELSE "none"]
       /\ ops' = [ops EXCEPT ![1] = [NoOp EXCEPT !.phase = "admit", !.action = action]]
  BY DEF Activate
<1>2. /\ sup = "none" /\ sup' = "active" /\ act' = [act EXCEPT !.result = "pending"]
      /\ tracker' = [tracker EXCEPT ![1].runs = 1] /\ UNCHANGED <<cur, claim, strays>>
  BY DEF Activate
<1>3. cur = 1 /\ claim.tr = 0 /\ tracker[1] = NewTracker /\ ~act.intr /\ act.join = "none"
  BY <1>2 DEF SupInv, JoinInv
<1> DEFINE o == [NoOp EXCEPT !.phase = "admit", !.action = action]
<1>4. o \in Operations /\ o.phase = "admit" /\ o.out = "none" /\ o.guarded = FALSE /\ o.action = action
  BY DEF NoOp, Operations, Running
<1>5. ops' = [ops EXCEPT ![cur] = o]
  BY <1>1, <1>3
<1> HIDE DEF o
<1>6. ops' \in [Trackers -> Operations] /\ Op' = o /\ \A tr \in Trackers : tr # cur => ops'[tr] = NoOp
  BY <1>2, <1>4, <1>5, OpChanges
<1>7. /\ tracker' \in [Trackers -> TrackerStates] /\ tracker'[cur].runs = 1 /\ tracker'[cur].acked = 0 /\ ~tracker'[cur].settle
      /\ \A tr \in Trackers : tr # cur => tracker'[tr] = tracker[tr]
  <2>1. [NewTracker EXCEPT !.runs = 1] \in TrackerStates /\ [NewTracker EXCEPT !.runs = 1].runs = 1
        /\ [NewTracker EXCEPT !.runs = 1].acked = 0 /\ ~[NewTracker EXCEPT !.runs = 1].settle
    BY DEF NewTracker, TrackerStates
  <2>2. tracker' = [tracker EXCEPT ![cur] = [NewTracker EXCEPT !.runs = 1]]
    BY <1>2, <1>3 DEF Typed
  <2> QED BY <2>1, <2>2 DEF Typed
<1>8. /\ actor' \in Actors /\ actor'.loop = "wait" /\ actor'.task = cur /\ actor'.ctl = "open"
      /\ actor'.nonagent = IF action THEN "node" ELSE "none"
  BY <1>1, <1>3 DEF Typed, Actors
<1>9. act' \in Activations /\ act'.result = "pending" /\ ~act'.intr /\ act'.join = "none"
  BY <1>2, <1>3 DEF Typed, Activations
<1>10. Typed'
  BY <1>2, <1>6, <1>7, <1>8, <1>9 DEF Typed, Sups
<1>11. OpInv'
  BY <1>2, <1>4, <1>6, <1>8 DEF OpInv
<1>12. CountInv'
  <2>1. \A tr \in Trackers : (tr < cur => tr # cur) /\ (tr > cur => tr # cur)
    BY OtherTracker DEF Typed
  <2>2. tracker'[cur].runs = tracker'[cur].acked + 1 /\ Op'.phase # "none" /\ cur' = cur
    BY <1>2, <1>4, <1>6, <1>7
  <2>3. \A tr \in Trackers : (tr < cur => tracker[tr].runs = tracker[tr].acked) /\ (tr > cur => tracker[tr] = NewTracker)
    BY DEF CountInv
  <2> QED BY <1>7, <2>1, <2>2, <2>3 DEF CountInv
<1>13. ClaimInv'
  BY <1>2, <1>3, <1>4, <1>6, <1>7 DEF ClaimInv, Terminals
<1>14. SupInv'
  BY <1>2, <1>8, <1>9 DEF SupInv
<1>15. JoinInv' /\ OnlyAgentsAbandoned'
  BY <1>2, <1>9 DEF JoinInv, OnlyAgentsAbandoned
<1> QED BY <1>10, <1>11, <1>12, <1>13, <1>14, <1>15

\* The delivery of an operation is counted.
LEMMA AckedTracker ==
  ASSUME CardProcessAssumption, Typed, NEW t, t = Acked(cur)
  PROVE  /\ t \in [Trackers -> TrackerStates] /\ t[cur].acked = tracker[cur].acked + 1 /\ t[cur].runs = tracker[cur].runs
         /\ t[cur].settle = tracker[cur].settle /\ t[cur].aborted = tracker[cur].aborted
         /\ \A tr \in Trackers : tr # cur => t[tr] = tracker[tr]
<1> DEFINE n == [tracker[cur] EXCEPT !.acked = @ + 1]
<1>1. tracker[cur] \in TrackerStates
  BY DEF Typed
<1>2. n \in TrackerStates /\ n.acked = tracker[cur].acked + 1 /\ n.runs = tracker[cur].runs
      /\ n.settle = tracker[cur].settle /\ n.aborted = tracker[cur].aborted
  BY <1>1 DEF TrackerStates
<1>3. t = [tracker EXCEPT ![cur] = n]
  BY DEF Acked
<1> HIDE DEF n
<1> QED BY <1>2, <1>3 DEF Typed

\* What is known when the loop takes the result of its task
LEMMA Delivering ==
  ASSUME CardProcessAssumption, ProcessInv, Deliver
  PROVE  /\ actor.loop = "wait" /\ actor.task = cur /\ Op.phase = "settled" /\ ops[actor.task] = Op
         /\ tracker[cur].runs = tracker[cur].acked + 1
         /\ act.result # "resolved" /\ sup \notin {"none", "committed", "hook", "hooked"}
         /\ act.join # "none" => (act.intr \/ CutOff)
<1> USE DEF ProcessInv
<1>1. actor.loop = "wait" /\ actor.task = cur /\ Op.phase = "settled" /\ ops[actor.task] = Op
  BY DEF Deliver, OpInv, Op
<1>2. act.result # "resolved" /\ sup \notin {"none", "committed", "hook", "hooked"}
  BY <1>1 DEF SupInv
<1>3. act.join # "none" => (act.intr \/ CutOff)
  BY <1>1 DEF JoinInv, Frozen, Ended
<1>4. tracker[cur].runs = tracker[cur].acked + 1
  BY <1>1 DEF CountInv
<1> QED BY <1>1, <1>2, <1>3, <1>4

\* The loop ends with the delivery: nothing is left in the tracker.
LEMMA LoopEnds ==
  ASSUME CardProcessAssumption, ProcessInv, Deliver,
         actor' \in Actors, actor'.loop \in {"ended", "failed"}, actor'.nonagent = "none", actor'.ctl = actor.ctl,
         act' \in Activations, act'.result = "resolved" => actor'.loop = "ended",
         act'.intr = act.intr, act'.join = act.join, act'.jtr = act.jtr, act'.snap = act.snap,
         ops' = [ops EXCEPT ![cur] = NoOp],
         tracker' \in [Trackers -> TrackerStates], tracker'[cur].acked = tracker[cur].acked + 1,
         tracker'[cur].runs = tracker[cur].runs, tracker'[cur].settle = tracker[cur].settle,
         \A tr \in Trackers : tr # cur => tracker'[tr] = tracker[tr],
         sup' = sup \/ sup' \in {"halt", "halted"},
         UNCHANGED <<cur, claim, strays>>
  PROVE  ProcessInv'
<1> USE DEF ProcessInv
<1>1. ops' \in [Trackers -> Operations] /\ Op' = NoOp /\ \A tr \in Trackers : tr # cur => ops'[tr] = NoOp
  BY OpChanges, Phases
<1>2. Typed'
  BY <1>1 DEF Typed, Sups
<1>3. OpInv'
  BY <1>1, Phases DEF OpInv
<1>4. CountInv'
  <2>1. \A tr \in Trackers : (tr < cur => tr # cur) /\ (tr > cur => tr # cur)
    BY OtherTracker DEF Typed
  <2>2. tracker[cur].acked \in Nat
    BY DEF Typed, TrackerStates
  <2> QED BY <1>1, <2>1, <2>2, Phases, Delivering DEF CountInv
<1>5. ClaimInv'
  BY <1>1, Phases DEF ClaimInv, Terminals
<1>6. SupInv'
  BY Delivering DEF SupInv
<1>7. JoinInv'
  BY <1>1, Phases, Delivering DEF JoinInv, Ended
<1>8. OnlyAgentsAbandoned'
  BY DEF OnlyAgentsAbandoned
<1> QED BY <1>2, <1>3, <1>4, <1>5, <1>6, <1>7, <1>8

\* A terminal result ends the loop.
LEMMA DeliverTerminalStep ==
  ASSUME CardProcessAssumption, ProcessInv, Deliver, DeliverTerminal
  PROVE  ProcessInv'
<1> USE DEF ProcessInv
<1>1. /\ actor' \in Actors /\ actor'.loop = "ended" /\ actor'.nonagent = "none" /\ actor'.ctl = actor.ctl
  BY Delivering DEF DeliverTerminal, EnterTerminal, Typed, Actors
<1>2. /\ act' \in Activations /\ act'.intr = act.intr /\ act'.join = act.join /\ act'.jtr = act.jtr /\ act'.snap = act.snap
  BY DEF DeliverTerminal, EnterTerminal, Settled, Typed, Activations
<1>3. ops' = [ops EXCEPT ![cur] = NoOp] /\ tracker' = Acked(cur) /\ UNCHANGED <<cur, claim, strays, sup>>
  BY Delivering DEF DeliverTerminal, EnterTerminal
<1> QED BY <1>1, <1>2, <1>3, AckedTracker, LoopEnds

\* A result without a consumer ends the loop.
LEMMA DeliverIgnoredStep ==
  ASSUME CardProcessAssumption, ProcessInv, Deliver, DeliverIgnored
  PROVE  ProcessInv'
<1> USE DEF ProcessInv
<1>1. /\ actor' \in Actors /\ actor'.loop = "ended" /\ actor'.nonagent = "none" /\ actor'.ctl = actor.ctl
  BY DEF DeliverIgnored, Typed, Actors
<1>2. ops' = [ops EXCEPT ![cur] = NoOp] /\ tracker' = Acked(cur) /\ UNCHANGED <<act, cur, claim, strays, sup>>
  BY Delivering DEF DeliverIgnored
<1> QED BY <1>1, <1>2, AckedTracker, LoopEnds DEF Typed

\* A failure ends the loop, in FAILED, in the failure of the runtime, or silently
\* after an interruption of the activation.
LEMMA DeliverFailureStep ==
  ASSUME CardProcessAssumption, ProcessInv, Deliver, DeliverFailure
  PROVE  ProcessInv'
<1> USE DEF ProcessInv
<1>1. actor.task = cur /\ ops[actor.task] = Op /\ act.result # "resolved"
  BY Delivering
<1>2. /\ actor' \in Actors /\ actor'.loop \in {"ended", "failed"} /\ actor'.nonagent = "none" /\ actor'.ctl = actor.ctl
      /\ ops' = [ops EXCEPT ![cur] = NoOp] /\ UNCHANGED <<cur, claim, strays>>
  <2>1. PICK s \in {"FAILED", actor.st}, l \in {"ended", "failed"} :
          actor' = [actor EXCEPT !.st = s, !.loop = l, !.task = 0, !.nonagent = "none"]
    <3>1. actor = [actor EXCEPT !.st = actor.st]
      BY DEF Typed, Actors
    <3>2. CASE ~(claim.tr # 0 /\ actor.ctl = "interrupt" /\ ~act.intr) /\ ~act.intr
      BY <3>2 DEF DeliverFailure, EnterTerminal
    <3>3. CASE claim.tr # 0 /\ actor.ctl = "interrupt" /\ ~act.intr
      BY <3>1, <3>3 DEF DeliverFailure
    <3>4. CASE ~(claim.tr # 0 /\ actor.ctl = "interrupt" /\ ~act.intr) /\ act.intr
      BY <3>1, <3>4 DEF DeliverFailure
    <3> QED BY <3>2, <3>3, <3>4
  <2>2. s \in {"ready", "node"} \cup Terminals
    BY DEF Typed, Actors, Terminals
  <2>3. actor' \in Actors /\ actor'.loop \in {"ended", "failed"} /\ actor'.nonagent = "none" /\ actor'.ctl = actor.ctl
    BY <2>1, <2>2 DEF Typed, Actors
  <2>4. ops' = [ops EXCEPT ![cur] = NoOp] /\ UNCHANGED <<cur, claim, strays>>
    BY <1>1 DEF DeliverFailure, EnterTerminal
  <2> QED BY <2>3, <2>4
<1>3. /\ act' \in Activations /\ act'.intr = act.intr /\ act'.join = act.join /\ act'.jtr = act.jtr /\ act'.snap = act.snap
      /\ act'.result = "resolved" => actor'.loop = "ended"
  <2>1. CASE claim.tr # 0 /\ actor.ctl = "interrupt" /\ ~act.intr
    <3>1. act' = [act EXCEPT !.result = Settled("rejected")] /\ Settled("rejected") \in {"none", "pending", "rejected"}
      BY <1>1, <2>1 DEF DeliverFailure, Settled, Typed, Activations
    <3> QED BY <3>1 DEF Typed, Activations
  <2>2. CASE ~(claim.tr # 0 /\ actor.ctl = "interrupt" /\ ~act.intr) /\ act.intr
    <3>1. act' = [act EXCEPT !.pre = @ \/ ops[cur].out = "error"]
      BY <1>1, <2>2 DEF DeliverFailure
    <3>2. (act.pre \/ ops[cur].out = "error") \in BOOLEAN
      BY DEF Typed, Activations
    <3> QED BY <1>1, <3>1, <3>2 DEF Typed, Activations
  <2>3. CASE ~(claim.tr # 0 /\ actor.ctl = "interrupt" /\ ~act.intr) /\ ~act.intr
    <3>1. act' = [act EXCEPT !.result = Settled("resolved")] /\ actor'.loop = "ended"
      BY <2>3 DEF DeliverFailure, EnterTerminal, Typed, Actors
    <3>2. Settled("resolved") \in {"none", "pending", "resolved", "rejected"}
      BY DEF Settled, Typed, Activations
    <3> QED BY <3>1, <3>2 DEF Typed, Activations
  <2> QED BY <2>1, <2>2, <2>3
<1>4. /\ tracker' \in [Trackers -> TrackerStates] /\ tracker'[cur].acked = tracker[cur].acked + 1
      /\ tracker'[cur].runs = tracker[cur].runs /\ tracker'[cur].settle = tracker[cur].settle
      /\ \A tr \in Trackers : tr # cur => tracker'[tr] = tracker[tr]
  <2>1. CASE tracker' = Acked(cur)
    BY <2>1, AckedTracker
  <2>2. CASE tracker' = [Acked(cur) EXCEPT ![cur].failed = TRUE]
    <3> DEFINE t == Acked(cur)
    <3>1. /\ t \in [Trackers -> TrackerStates] /\ t[cur].acked = tracker[cur].acked + 1 /\ t[cur].runs = tracker[cur].runs
          /\ t[cur].settle = tracker[cur].settle /\ \A tr \in Trackers : tr # cur => t[tr] = tracker[tr]
      BY AckedTracker
    <3>2. tracker' = [t EXCEPT ![cur] = [t[cur] EXCEPT !.failed = TRUE]]
      BY <2>2, <3>1
    <3> HIDE DEF t
    <3>3. t[cur] \in TrackerStates /\ cur \in Trackers
      BY <3>1 DEF Typed
    <3>4. [t[cur] EXCEPT !.failed = TRUE] \in TrackerStates /\ [t[cur] EXCEPT !.failed = TRUE].acked = t[cur].acked
          /\ [t[cur] EXCEPT !.failed = TRUE].runs = t[cur].runs /\ [t[cur] EXCEPT !.failed = TRUE].settle = t[cur].settle
      BY <3>3 DEF TrackerStates
    <3> QED BY <3>1, <3>2, <3>3, <3>4
  <2> QED BY <1>1, <2>1, <2>2 DEF DeliverFailure
<1>5. sup' = sup \/ sup' \in {"halt", "halted"}
  BY DEF DeliverFailure
<1> QED BY <1>2, <1>3, <1>4, <1>5, LoopEnds

\* The operation of a node that is entered
LEMMA EnteredOp ==
  ASSUME Typed, NEW n \in Nat, NEW guarded \in BOOLEAN, NEW action \in BOOLEAN
  PROVE  LET o == [phase |-> "admit", ord |-> n, guarded |-> guarded, action |-> action, out |-> "none"] IN
         /\ o \in Operations /\ o.phase = "admit" /\ o.out = "none" /\ o.guarded = guarded /\ o.action = action
         /\ Settle(o, "aborted") \in Operations /\ Settle(o, "aborted").phase = "settled" /\ Settle(o, "aborted").out = "aborted"
         /\ Settle(o, "aborted").guarded = guarded /\ Settle(o, "aborted").action = action
  BY DEF Operations, Running, Settle

\* The second of two updates at one place counts.
LEMMA Overwritten ==
  ASSUME NEW S, NEW T, NEW f \in [S -> T], NEW c, NEW a, NEW b
  PROVE  [f EXCEPT ![c] = a, ![c] = b] = [f EXCEPT ![c] = b]
  OBVIOUS

\* The next node runs in the same tracker; when that is revoked it is cut at once.
LEMMA DeliverNextStep ==
  ASSUME CardProcessAssumption, ProcessInv, Deliver, DeliverNext
  PROVE  ProcessInv'
<1> USE DEF ProcessInv
<1>1. /\ actor.loop = "wait" /\ actor.task = cur /\ Op.phase = "settled" /\ Op.out = "next" /\ ~act.intr
      /\ tracker' = [Acked(cur) EXCEPT ![cur].runs = @ + 1] /\ UNCHANGED <<act, cur, claim, sup>>
  BY Delivering DEF DeliverNext
<1>2. claim.tr = 0 /\ ~tracker[cur].settle
  BY <1>1, TrackerNumbers DEF ClaimInv, Typed
<1> DEFINE b == [actor EXCEPT !.ord = @ + 1]
<1>3. b \in Actors /\ b.ord \in Nat
  BY DEF Typed, Actors
<1>4. PICK action \in BOOLEAN : EnterNode(b, cur, FALSE, action)
  BY <1>1 DEF DeliverNext
<1> DEFINE o == [phase |-> "admit", ord |-> b.ord, guarded |-> FALSE, action |-> action, out |-> "none"]
<1> DEFINE q == IF tracker[cur].aborted THEN Settle(o, "aborted") ELSE o
<1>5. /\ actor' = [b EXCEPT !.st = "node", !.loop = "wait", !.task = cur, !.nonagent = IF action THEN "node" ELSE "none", !.ctl = "open"]
      /\ ops' = [ops EXCEPT ![cur] = NoOp, ![cur] = q]
      /\ strays' = IF tracker[cur].aborted THEN strays \cup {o} ELSE strays
  BY <1>1, <1>2, <1>4 DEF EnterNode
<1>6. ops' = [ops EXCEPT ![cur] = q]
  <2> HIDE DEF q
  <2>1. ops \in [Trackers -> Operations]
    BY DEF Typed
  <2> QED BY <1>5, <2>1, Overwritten
<1>7. o \in Operations /\ o.phase = "admit"
  BY <1>3, EnteredOp
<1>8. /\ q \in Operations /\ ~q.guarded /\ q.action = action /\ q.out \in {"none", "aborted"} /\ q.phase \in {"admit", "settled"}
      /\ tracker[cur].aborted => q.phase = "settled"
      /\ q.phase = "admit" => q.out = "none"
  <2>1. /\ o \in Operations /\ o.phase = "admit" /\ o.out = "none" /\ o.guarded = FALSE /\ o.action = action
        /\ Settle(o, "aborted") \in Operations /\ Settle(o, "aborted").phase = "settled" /\ Settle(o, "aborted").out = "aborted"
        /\ Settle(o, "aborted").guarded = FALSE /\ Settle(o, "aborted").action = action
    BY <1>3, EnteredOp
  <2> HIDE DEF o
  <2>2. CASE tracker[cur].aborted
    BY <2>1, <2>2
  <2>3. CASE ~tracker[cur].aborted
    BY <2>1, <2>3
  <2> QED BY <2>2, <2>3
<1>9. /\ actor' \in Actors /\ actor'.loop = "wait" /\ actor'.task = cur /\ actor'.ctl = "open"
      /\ actor'.nonagent = IF action THEN "node" ELSE "none"
  <2>1. cur \in Nat
    BY TrackerNumbers DEF Typed
  <2> QED BY <1>3, <1>5, <2>1 DEF Actors
<1> HIDE DEF b, o, q
<1>10. ops' \in [Trackers -> Operations] /\ Op' = q /\ \A tr \in Trackers : tr # cur => ops'[tr] = NoOp
  BY <1>1, <1>6, <1>8, OpChanges
<1>11. /\ tracker' \in [Trackers -> TrackerStates] /\ tracker'[cur].acked = tracker[cur].acked + 1
       /\ tracker'[cur].runs = tracker[cur].runs + 1 /\ tracker'[cur].settle = tracker[cur].settle
       /\ tracker'[cur].aborted = tracker[cur].aborted /\ \A tr \in Trackers : tr # cur => tracker'[tr] = tracker[tr]
  <2> DEFINE t == Acked(cur)
  <2>1. /\ t \in [Trackers -> TrackerStates] /\ t[cur].acked = tracker[cur].acked + 1 /\ t[cur].runs = tracker[cur].runs
        /\ t[cur].settle = tracker[cur].settle /\ t[cur].aborted = tracker[cur].aborted
        /\ \A tr \in Trackers : tr # cur => t[tr] = tracker[tr]
    BY AckedTracker
  <2>2. tracker' = [t EXCEPT ![cur] = [t[cur] EXCEPT !.runs = @ + 1]]
    BY <1>1, <2>1
  <2> HIDE DEF t
  <2> DEFINE n == [t[cur] EXCEPT !.runs = @ + 1]
  <2>3. t[cur] \in TrackerStates /\ cur \in Trackers
    BY <2>1 DEF Typed
  <2>4. n \in TrackerStates /\ n.acked = t[cur].acked /\ n.runs = t[cur].runs + 1 /\ n.settle = t[cur].settle /\ n.aborted = t[cur].aborted
    BY <2>3 DEF TrackerStates
  <2> QED BY <2>1, <2>2, <2>3, <2>4
<1>12. strays' \subseteq strays \cup {o}
  BY <1>5
<1>13. Typed'
  BY <1>1, <1>7, <1>9, <1>10, <1>11, <1>12 DEF Typed
<1>14. OpInv'
  BY <1>1, <1>8, <1>9, <1>10 DEF OpInv
<1>15. CountInv'
  <2>1. \A tr \in Trackers : (tr < cur => tr # cur) /\ (tr > cur => tr # cur)
    BY OtherTracker DEF Typed
  <2>2. tracker[cur].acked \in Nat /\ tracker[cur].runs = tracker[cur].acked + 1
    BY Delivering DEF Typed, TrackerStates
  <2>3. tracker'[cur].runs = tracker'[cur].acked + 1 /\ Op'.phase # "none"
    BY <1>8, <1>10, <1>11, <2>2
  <2> QED BY <1>1, <1>11, <2>1, <2>3 DEF CountInv
<1>16. ClaimInv'
  BY <1>1, <1>2, <1>8, <1>10, <1>11 DEF ClaimInv, Terminals
<1>17. SupInv'
  BY <1>1, <1>9, Delivering DEF SupInv
<1>18. JoinInv'
  <2>1. act.join # "none" => CutOff
    BY <1>1, Delivering
  <2>2. act.join # "none" => (tracker[cur].aborted /\ Op'.phase = "settled")
    BY <2>1, <1>8, <1>10 DEF CutOff
  <2>3. act.join = "joined" => \A p \in strays' : p.phase = "admit"
    BY <1>7, <1>12 DEF JoinInv
  <2> QED BY <1>1, <1>2, <1>11, <2>2, <2>3 DEF JoinInv, CutOff
<1>19. OnlyAgentsAbandoned'
  BY <1>7, <1>12 DEF OnlyAgentsAbandoned
<1> QED BY <1>13, <1>14, <1>15, <1>16, <1>17, <1>18, <1>19

\* The successor of an interrupted node gets a tracker of its own and is guarded.
LEMMA DeliverInterruptedStep ==
  ASSUME CardProcessAssumption, ProcessInv, Deliver, DeliverInterrupted
  PROVE  ProcessInv'
<1> USE DEF ProcessInv
<1> DEFINE nx == cur + 1
<1>1. /\ actor.loop = "wait" /\ actor.task = cur /\ Op.phase = "settled" /\ Op.out = "interrupted" /\ ~act.intr
      /\ tracker' = [Acked(cur) EXCEPT ![nx].runs = 1] /\ cur' = nx /\ UNCHANGED <<act, claim, sup>>
  BY Delivering DEF DeliverInterrupted
<1>2. claim.tr = cur /\ cur <= MaxInterrupts
  BY <1>1, TrackerNumbers DEF ClaimInv, Typed
<1>3. cur \in Nat /\ cur # 0 /\ nx \in Trackers /\ nx # cur /\ nx > cur /\ nx \in Nat
  BY <1>2, TrackerNumbers DEF Typed
<1>4. tracker[nx] = NewTracker
  BY <1>3 DEF CountInv
<1> DEFINE b == [actor EXCEPT !.ord = @ + 1]
<1>5. b \in Actors /\ b.ord \in Nat
  BY DEF Typed, Actors
<1>6. EnterNode(b, nx, TRUE, FALSE)
  BY <1>1 DEF DeliverInterrupted
<1> DEFINE o == [phase |-> "admit", ord |-> b.ord, guarded |-> TRUE, action |-> FALSE, out |-> "none"]
<1>7. ~tracker[nx].aborted
  BY <1>4 DEF NewTracker
<1>8. /\ actor' = [b EXCEPT !.st = "node", !.loop = "wait", !.task = nx, !.nonagent = "none", !.ctl = "interrupt"]
      /\ ops' = [ops EXCEPT ![cur] = NoOp, ![nx] = o] /\ UNCHANGED strays
  BY <1>1, <1>6, <1>7 DEF EnterNode
<1>9. o \in Operations /\ o.phase = "admit" /\ o.out = "none" /\ o.guarded /\ ~o.action
  BY <1>5, EnteredOp
<1>10. actor' \in Actors /\ actor'.loop = "wait" /\ actor'.task = nx /\ actor'.ctl = "interrupt" /\ actor'.nonagent = "none"
  BY <1>3, <1>5, <1>8 DEF Actors
<1> HIDE DEF b, o, nx
<1>11. ops' \in [Trackers -> Operations] /\ ops'[nx] = o /\ \A tr \in Trackers : tr # nx => ops'[tr] = NoOp
  BY <1>3, <1>8, <1>9, Phases DEF Typed, OpInv
<1>12. /\ tracker' \in [Trackers -> TrackerStates] /\ tracker'[cur].acked = tracker[cur].acked + 1
       /\ tracker'[cur].runs = tracker[cur].runs
       /\ tracker'[nx].runs = 1 /\ tracker'[nx].acked = 0 /\ ~tracker'[nx].settle
       /\ \A tr \in Trackers : (tr # cur /\ tr # nx) => tracker'[tr] = tracker[tr]
  <2> DEFINE t == Acked(cur)
  <2>1. /\ t \in [Trackers -> TrackerStates] /\ t[cur].acked = tracker[cur].acked + 1 /\ t[cur].runs = tracker[cur].runs
        /\ \A tr \in Trackers : tr # cur => t[tr] = tracker[tr]
    BY AckedTracker
  <2>2. tracker' = [t EXCEPT ![nx] = [t[nx] EXCEPT !.runs = 1]]
    BY <1>1, <1>3, <2>1
  <2>3. t[nx] = NewTracker
    BY <1>3, <1>4, <2>1
  <2> HIDE DEF t
  <2>4. [NewTracker EXCEPT !.runs = 1] \in TrackerStates /\ [NewTracker EXCEPT !.runs = 1].runs = 1
        /\ [NewTracker EXCEPT !.runs = 1].acked = 0 /\ ~[NewTracker EXCEPT !.runs = 1].settle
    BY DEF NewTracker, TrackerStates
  <2>5. cur \in Trackers
    BY DEF Typed
  <2> QED BY <1>3, <2>1, <2>2, <2>3, <2>4, <2>5
<1>13. Op' = o
  BY <1>1, <1>11 DEF Op
<1>14. Typed'
  BY <1>1, <1>3, <1>8, <1>10, <1>11, <1>12 DEF Typed
<1>15. OpInv'
  BY <1>1, <1>9, <1>10, <1>11, <1>13 DEF OpInv
<1>16. CountInv'
  <2>1. \A tr \in Trackers : (tr < nx => (tr # nx /\ (tr = cur \/ tr < cur))) /\ (tr > nx => (tr > cur /\ tr # nx /\ tr # cur))
    BY <1>3, TrackerNumbers DEF nx
  <2>2. tracker[cur].acked \in Nat /\ tracker[cur].runs = tracker[cur].acked + 1
    BY Delivering DEF Typed, TrackerStates
  <2>3. \A tr \in Trackers : tr < cur => tr # cur
    BY OtherTracker DEF Typed
  <2>4. \A tr \in Trackers : tr < nx => tracker'[tr].runs = tracker'[tr].acked
    BY <1>12, <2>1, <2>2, <2>3 DEF CountInv
  <2>5. \A tr \in Trackers : tr > nx => tracker'[tr] = NewTracker
    BY <1>12, <2>1 DEF CountInv
  <2>6. tracker'[nx].runs = tracker'[nx].acked + 1 /\ Op'.phase # "none"
    BY <1>9, <1>12, <1>13
  <2> QED BY <1>1, <2>4, <2>5, <2>6 DEF CountInv
<1>17. ClaimInv'
  BY <1>1, <1>2, <1>3, <1>9, <1>10, <1>12, <1>13 DEF ClaimInv, Terminals
<1>18. SupInv'
  BY <1>1, <1>10, Delivering DEF SupInv
<1>19. act.join = "none"
  BY <1>1, <1>2, <1>3, Delivering DEF CutOff
<1>20. JoinInv' /\ OnlyAgentsAbandoned'
  BY <1>1, <1>8, <1>19 DEF JoinInv, OnlyAgentsAbandoned
<1> QED BY <1>14, <1>15, <1>16, <1>17, <1>18, <1>20

\* A step of the Supervisor that leaves the processor alone
LEMMA SupervisorKeeps ==
  ASSUME CardProcessAssumption, ProcessInv, UNCHANGED <<actor, act, ops, tracker, cur, strays>>, claim' \in Claims,
         claim'.tr = claim.tr, sup' \in Sups, sup' # "none",
         act.join # "none" => (sup' = sup \/ sup' \in {"halt", "halted", "released"}),
         sup' \in {"committed", "hook", "hooked"} => act.result = "resolved",
         sup' \in {"active", "committed", "hooked"} => actor.nonagent # "hook"
  PROVE  ProcessInv'
<1> USE DEF ProcessInv
<1>1. Typed'
  BY DEF Typed
<1>2. OpInv' /\ CountInv'
  BY DEF OpInv, CountInv, Op
<1>3. ClaimInv' /\ SupInv'
  BY DEF ClaimInv, SupInv, Op
<1>4. JoinInv' /\ OnlyAgentsAbandoned'
  BY DEF JoinInv, Frozen, Ended, CutOff, OnlyAgentsAbandoned, Op
<1> QED BY <1>1, <1>2, <1>3, <1>4

\* The interrupted node is joined, and its settlement completed or failed.
LEMMA SettlementStep ==
  ASSUME CardProcessAssumption, ProcessInv, JoinInterrupted \/ Complete
  PROVE  ProcessInv'
<1> USE DEF ProcessInv
<1>1. UNCHANGED <<actor, act, ops, tracker, cur, strays>> /\ (sup' = sup \/ sup' \in {"halt", "halted"})
  BY DEF JoinInterrupted, Complete
<1>2. claim' \in Claims /\ claim'.tr = claim.tr
  <2>1. CASE JoinInterrupted
    BY <2>1 DEF JoinInterrupted, Typed, Claims
  <2>2. CASE Complete
    BY <2>2 DEF Complete, Typed, Claims
  <2> QED BY <2>1, <2>2
<1>3. CASE sup' # "none"
  <2>1. sup' \in Sups
    BY <1>1 DEF Typed, Sups
  <2>2. /\ sup' \in {"committed", "hook", "hooked"} => act.result = "resolved"
        /\ sup' \in {"active", "committed", "hooked"} => actor.nonagent # "hook"
    BY <1>1 DEF SupInv
  <2> QED BY <1>1, <1>2, <1>3, <2>1, <2>2, SupervisorKeeps
<1>4. CASE sup' = "none"
  <2>1. sup = "none"
    BY <1>1, <1>4
  <2>2. Typed' /\ OpInv' /\ CountInv'
    BY <1>1, <1>2, <1>4, <2>1 DEF Typed, OpInv, CountInv, Op
  <2>3. ClaimInv' /\ SupInv'
    BY <1>1, <1>2, <1>4, <2>1 DEF ClaimInv, SupInv, Op
  <2>4. JoinInv' /\ OnlyAgentsAbandoned'
    BY <1>1, <2>1 DEF JoinInv, OnlyAgentsAbandoned
  <2> QED BY <2>2, <2>3, <2>4
<1> QED BY <1>3, <1>4

\* The commit of a natural result
LEMMA CommitStep ==
  ASSUME CardProcessAssumption, ProcessInv, Commit
  PROVE  ProcessInv'
<1>1. /\ sup = "active" /\ act.result = "resolved" /\ sup' = "committed"
      /\ UNCHANGED <<actor, act, ops, tracker, cur, claim, strays>>
  BY DEF Commit
<1>2. claim \in Claims /\ act.join = "none" /\ actor.nonagent # "hook"
  BY <1>1 DEF ProcessInv, Typed, JoinInv, SupInv
<1> QED BY <1>1, <1>2, SupervisorKeeps DEF Sups

\* The join completes: all it waits for has been delivered, so nothing runs.
LEMMA JoinActivationStep ==
  ASSUME CardProcessAssumption, ProcessInv, JoinActivation
  PROVE  ProcessInv'
<1> USE DEF ProcessInv
<1>1. /\ act.join = "wait" /\ tracker[act.jtr].acked >= act.snap /\ act.jtr = cur
      /\ UNCHANGED <<actor, ops, tracker, cur, claim, strays>>
  BY DEF JoinActivation, JoinedAt, JoinInv
<1>2. PICK j \in {"failed", "abandoned", "joined"} :
        act' = [act EXCEPT !.join = j] /\ (j = "joined" => strays = {})
  BY DEF JoinActivation
<1>3. /\ act' \in Activations /\ act'.join = j /\ act'.intr = act.intr /\ act'.jtr = act.jtr /\ act'.snap = act.snap
      /\ act'.result = act.result
  BY <1>2 DEF Typed, Activations
<1>4. sup' \in {"halted", "halt", "released"}
  BY DEF JoinActivation
<1>5. Typed' /\ OpInv' /\ CountInv'
  BY <1>1, <1>3, <1>4 DEF Typed, OpInv, CountInv, Op, Sups
<1>6. ClaimInv' /\ SupInv'
  BY <1>1, <1>3, <1>4 DEF ClaimInv, SupInv, Op
<1>7. Op.phase \in {"none", "settled"}
  <2>1. tracker[cur].acked \in Nat /\ tracker[cur].runs \in Nat
    BY DEF Typed, TrackerStates
  <2>2. CASE Frozen /\ act.snap = tracker[cur].runs
    BY <1>1, <2>1, <2>2 DEF CountInv
  <2>3. CASE ~(Frozen /\ act.snap = tracker[cur].runs)
    BY <1>1, <2>3 DEF JoinInv, Frozen, Ended, CutOff
  <2> QED BY <2>2, <2>3
<1>8. JoinInv'
  BY <1>1, <1>2, <1>3, <1>4, <1>7 DEF JoinInv, Frozen, Ended, CutOff, Op
<1>9. OnlyAgentsAbandoned'
  BY <1>1 DEF OnlyAgentsAbandoned
<1> QED BY <1>5, <1>6, <1>8, <1>9

\* The hook runs in the tracker of the activation, after its last node.
LEMMA StartHookStep ==
  ASSUME CardProcessAssumption, ProcessInv, StartHook
  PROVE  ProcessInv'
<1> USE DEF ProcessInv
<1>1. /\ sup = "committed" /\ sup' = "hook" /\ actor' = [actor EXCEPT !.nonagent = "hook"]
      /\ ops' = [ops EXCEPT ![cur] = [NoOp EXCEPT !.phase = "hook", !.action = TRUE]]
      /\ tracker' = [tracker EXCEPT ![cur].runs = @ + 1] /\ UNCHANGED <<act, cur, claim, strays>>
  BY DEF StartHook
<1>2. act.result = "resolved" /\ actor.loop = "ended" /\ Op.phase = "none" /\ act.join = "none"
  BY <1>1 DEF SupInv, OpInv, JoinInv
<1> DEFINE o == [NoOp EXCEPT !.phase = "hook", !.action = TRUE]
<1>3. o \in Operations /\ o.phase = "hook" /\ o.out = "none" /\ ~o.guarded
  BY DEF NoOp, Operations, Running
<1> HIDE DEF o
<1>4. ops' \in [Trackers -> Operations] /\ Op' = o /\ \A tr \in Trackers : tr # cur => ops'[tr] = NoOp
  BY <1>1, <1>3, OpChanges DEF o
<1>5. actor' \in Actors /\ actor'.loop = actor.loop /\ actor'.ctl = actor.ctl /\ actor'.nonagent = "hook"
  BY <1>1 DEF Typed, Actors
<1>6. /\ tracker' \in [Trackers -> TrackerStates] /\ tracker'[cur].acked = tracker[cur].acked
      /\ tracker'[cur].runs = tracker[cur].runs + 1 /\ tracker'[cur].settle = tracker[cur].settle
      /\ \A tr \in Trackers : tr # cur => tracker'[tr] = tracker[tr]
  <2> DEFINE n == [tracker[cur] EXCEPT !.runs = @ + 1]
  <2>1. tracker[cur] \in TrackerStates
    BY DEF Typed
  <2>2. n \in TrackerStates /\ n.runs = tracker[cur].runs + 1 /\ n.acked = tracker[cur].acked /\ n.settle = tracker[cur].settle
    BY <2>1 DEF TrackerStates
  <2>3. tracker' = [tracker EXCEPT ![cur] = n]
    BY <1>1
  <2> HIDE DEF n
  <2> QED BY <2>2, <2>3 DEF Typed
<1>7. Typed'
  BY <1>1, <1>4, <1>5, <1>6 DEF Typed, Sups
<1>8. OpInv'
  BY <1>1, <1>2, <1>3, <1>4, <1>5 DEF OpInv
<1>9. CountInv'
  <2>1. \A tr \in Trackers : (tr < cur => tr # cur) /\ (tr > cur => tr # cur)
    BY OtherTracker DEF Typed
  <2>2. tracker[cur].acked \in Nat /\ tracker[cur].runs = tracker[cur].acked
    BY <1>2 DEF Typed, TrackerStates, CountInv
  <2>3. tracker'[cur].runs = tracker'[cur].acked + 1 /\ Op'.phase # "none"
    BY <1>3, <1>4, <1>6, <2>2
  <2> QED BY <1>1, <1>6, <2>1, <2>3 DEF CountInv
<1>10. ClaimInv'
  BY <1>1, <1>3, <1>4, <1>5, <1>6 DEF ClaimInv, Terminals
<1>11. SupInv'
  BY <1>1, <1>2, <1>5 DEF SupInv
<1>12. JoinInv' /\ OnlyAgentsAbandoned'
  BY <1>1, <1>2 DEF JoinInv, OnlyAgentsAbandoned
<1> QED BY <1>7, <1>8, <1>9, <1>10, <1>11, <1>12

\* The hook ends and is delivered.
LEMMA EndHookStep ==
  ASSUME CardProcessAssumption, ProcessInv, EndHook
  PROVE  ProcessInv'
<1> USE DEF ProcessInv
<1>1. /\ actor.nonagent = "hook" /\ actor' = [actor EXCEPT !.nonagent = "none"] /\ ops' = [ops EXCEPT ![cur] = NoOp]
      /\ tracker' = Acked(cur) /\ sup' = (IF sup = "hook" THEN "hooked" ELSE sup) /\ UNCHANGED <<act, cur, claim, strays>>
  BY DEF EndHook
<1>2. Op.phase = "hook" /\ actor.loop # "wait"
  BY <1>1 DEF OpInv
<1>3. ops' \in [Trackers -> Operations] /\ Op' = NoOp /\ \A tr \in Trackers : tr # cur => ops'[tr] = NoOp
  BY <1>1, OpChanges, Phases
<1>4. actor' \in Actors /\ actor'.loop = actor.loop /\ actor'.ctl = actor.ctl /\ actor'.nonagent = "none"
  BY <1>1 DEF Typed, Actors
<1>5. /\ tracker' \in [Trackers -> TrackerStates] /\ tracker'[cur].acked = tracker[cur].acked + 1
      /\ tracker'[cur].runs = tracker[cur].runs /\ tracker'[cur].settle = tracker[cur].settle
      /\ \A tr \in Trackers : tr # cur => tracker'[tr] = tracker[tr]
  BY <1>1, AckedTracker
<1>6. Typed'
  BY <1>1, <1>3, <1>4, <1>5 DEF Typed, Sups
<1>7. OpInv'
  BY <1>1, <1>2, <1>3, <1>4, Phases DEF OpInv
<1>8. CountInv'
  <2>1. \A tr \in Trackers : (tr < cur => tr # cur) /\ (tr > cur => tr # cur)
    BY OtherTracker DEF Typed
  <2>2. tracker[cur].acked \in Nat /\ tracker[cur].runs = tracker[cur].acked + 1
    BY <1>2 DEF Typed, TrackerStates, CountInv
  <2> QED BY <1>1, <1>3, <1>5, <2>1, <2>2, Phases DEF CountInv
<1>9. ClaimInv'
  BY <1>1, <1>3, <1>4, <1>5, Phases DEF ClaimInv, Terminals
<1>10. sup # "none"
  BY <1>2, Phases DEF SupInv
<1>11. SupInv'
  BY <1>1, <1>4, <1>10 DEF SupInv
<1>12. JoinInv'
  BY <1>1, <1>2, <1>3, <1>4, Phases DEF JoinInv, Ended
<1>13. OnlyAgentsAbandoned'
  BY <1>1 DEF OnlyAgentsAbandoned
<1> QED BY <1>6, <1>7, <1>8, <1>9, <1>11, <1>12, <1>13

\* A tracker that is closed, cancelled or revoked keeps its counts.
LEMMA TrackerChanges ==
  ASSUME CardProcessAssumption, Typed, NEW n \in TrackerStates, NEW t, t = [tracker EXCEPT ![cur] = n],
         n.runs = tracker[cur].runs, n.acked = tracker[cur].acked
  PROVE  /\ t \in [Trackers -> TrackerStates] /\ t[cur] = n
         /\ \A tr \in Trackers : tr # cur => t[tr] = tracker[tr]
         /\ \A tr \in Trackers : t[tr].runs = tracker[tr].runs /\ t[tr].acked = tracker[tr].acked
  BY DEF Typed

\* Cancelling and revoking a tracker
LEMMA CancelledTracker ==
  ASSUME Typed
  PROVE  /\ LET n == Cancelled(tracker[cur]) IN
              n \in TrackerStates /\ n.runs = tracker[cur].runs /\ n.acked = tracker[cur].acked /\ n.settle /\ n.aborted
         /\ LET n == Revoked(tracker[cur]) IN
              /\ n \in TrackerStates /\ n.runs = tracker[cur].runs /\ n.acked = tracker[cur].acked
              /\ n.settle = tracker[cur].settle /\ n.aborted
         /\ LET n == [tracker[cur] EXCEPT !.open = FALSE] IN
              /\ n \in TrackerStates /\ n.runs = tracker[cur].runs /\ n.acked = tracker[cur].acked
              /\ n.settle = tracker[cur].settle
<1>1. tracker[cur] \in TrackerStates
  BY DEF Typed
<1> QED BY <1>1 DEF Cancelled, Revoked, TrackerStates

\* The counts of the trackers do not change with their admission.
LEMMA CountKeeps ==
  ASSUME CardProcessAssumption, Typed, CountInv, UNCHANGED cur, (Op.phase = "none") <=> (Op'.phase = "none"),
         \A tr \in Trackers : tr # cur => (tr > cur => tracker'[tr] = tracker[tr]),
         \A tr \in Trackers : tracker'[tr].runs = tracker[tr].runs /\ tracker'[tr].acked = tracker[tr].acked
  PROVE  CountInv'
<1>1. \A tr \in Trackers : tr > cur => tr # cur
  BY OtherTracker DEF Typed
<1>2. cur \in Trackers
  BY DEF Typed
<1> QED BY <1>1, <1>2 DEF CountInv

\* The interruption of the node takes the node control and its tracker.
LEMMA ClaimInterruptionStep ==
  ASSUME CardProcessAssumption, ProcessInv, ClaimInterruption
  PROVE  ProcessInv'
<1> USE DEF ProcessInv
<1>1. /\ sup = "active" /\ actor.ctl = "open" /\ claim.tr = 0 /\ cur <= MaxInterrupts
      /\ actor' = [actor EXCEPT !.ctl = "interrupt"]
      /\ claim' = [ord |-> actor.ord, tr |-> cur, completion |-> "pending", join |-> "wait"]
      /\ tracker' = [tracker EXCEPT ![cur] = Cancelled(tracker[cur])] /\ UNCHANGED <<act, ops, cur, strays, sup>>
  BY DEF ClaimInterruption, CanInterruptNode
<1>2. /\ tracker' \in [Trackers -> TrackerStates]
      /\ \A tr \in Trackers : tr # cur => tracker'[tr] = tracker[tr]
      /\ \A tr \in Trackers : tracker'[tr].runs = tracker[tr].runs /\ tracker'[tr].acked = tracker[tr].acked
  <2> DEFINE n == Cancelled(tracker[cur])
  <2>1. n \in TrackerStates /\ n.runs = tracker[cur].runs /\ n.acked = tracker[cur].acked
    BY CancelledTracker
  <2>2. tracker' = [tracker EXCEPT ![cur] = n]
    BY <1>1
  <2> HIDE DEF n
  <2> QED BY <2>1, <2>2, TrackerChanges, ZenonT(30)
<1>3. cur \in Nat /\ cur # 0
  BY TrackerNumbers DEF Typed
<1>4. claim' \in Claims /\ claim'.tr = cur
  BY <1>1, <1>3 DEF Claims, Typed, Actors
<1>5. /\ actor' \in Actors /\ actor'.loop = actor.loop /\ actor'.task = actor.task /\ actor'.nonagent = actor.nonagent
      /\ actor'.ctl = "interrupt"
  BY <1>1 DEF Typed, Actors
<1>6. Op' = Op /\ act.join = "none"
  BY <1>1 DEF Op, JoinInv
<1>7. Typed'
  BY <1>1, <1>2, <1>4, <1>5 DEF Typed
<1>8. OpInv'
  BY <1>1, <1>5, <1>6 DEF OpInv
<1>9. CountInv'
  BY <1>1, <1>2, <1>6, CountKeeps
<1>10. ClaimInv'
  BY <1>1, <1>3, <1>4, <1>5, <1>6 DEF ClaimInv
<1>11. SupInv'
  BY <1>1, <1>5 DEF SupInv
<1>12. JoinInv' /\ OnlyAgentsAbandoned'
  BY <1>1, <1>6 DEF JoinInv, OnlyAgentsAbandoned
<1> QED BY <1>7, <1>8, <1>9, <1>10, <1>11, <1>12

\* The interruption of the activation: its join waits for all that runs.
LEMMA InterruptActivationStep ==
  ASSUME CardProcessAssumption, ProcessInv, InterruptActivation
  PROVE  ProcessInv'
<1> USE DEF ProcessInv
<1>1. sup = "active" /\ act.join = "none" /\ UNCHANGED <<actor, ops, cur, claim, strays>>
  BY DEF InterruptActivation, JoinInv
<1>2. CASE ~CurrentActivation
  <2>1. sup' = "halt" /\ UNCHANGED <<tracker, act>>
    BY <1>2 DEF InterruptActivation
  <2> QED BY <1>1, <2>1, SupervisorKeeps DEF Sups, Typed
<1>3. CASE CurrentActivation
  <2> DEFINE a == [act EXCEPT !.intr = TRUE, !.result = "rejected"]
  <2>1. tracker' = [tracker EXCEPT ![cur] = Cancelled(tracker[cur])] /\ act' = Joining(a, tracker') /\ sup' = "interrupt"
    BY <1>3 DEF InterruptActivation
  <2>2. /\ tracker' \in [Trackers -> TrackerStates] /\ cur \in Trackers
        /\ \A tr \in Trackers : tr # cur => tracker'[tr] = tracker[tr]
        /\ \A tr \in Trackers : tracker'[tr].runs = tracker[tr].runs /\ tracker'[tr].acked = tracker[tr].acked
    BY <2>1, TrackerChanges, CancelledTracker DEF Typed
  <2>3. a \in Activations /\ a.join = "none" /\ a.intr /\ a.result = "rejected"
    BY <1>1 DEF Typed, Activations
  <2> HIDE DEF a
  <2>4. act' = [a EXCEPT !.join = "wait", !.jtr = cur, !.snap = tracker'[cur].runs, !.jclaim = claim.tr # 0]
    BY <2>1, <2>3 DEF Joining
  <2>5. tracker'[cur].runs \in Nat /\ cur \in Nat
    BY <2>2, TrackerNumbers DEF TrackerStates
  <2>6. /\ act' \in Activations /\ act'.join = "wait" /\ act'.jtr = cur /\ act'.snap = tracker'[cur].runs
        /\ act'.intr /\ act'.result = "rejected"
    BY <2>3, <2>4, <2>5 DEF Activations
  <2>7. Op' = Op
    BY <1>1 DEF Op
  <2>8. Typed'
    BY <1>1, <2>1, <2>2, <2>6 DEF Typed, Sups
  <2>9. OpInv' /\ CountInv'
    BY <1>1, <2>2, <2>7, CountKeeps DEF OpInv
  <2>10. ClaimInv' /\ SupInv'
    BY <1>1, <2>1, <2>6, <2>7 DEF ClaimInv, SupInv
  <2>11. JoinInv' /\ OnlyAgentsAbandoned'
    BY <1>1, <2>1, <2>6 DEF JoinInv, Frozen, OnlyAgentsAbandoned
  <2> QED BY <2>8, <2>9, <2>10, <2>11
<1> QED BY <1>2, <1>3

\* The join after a natural end: the loop has ended.
LEMMA JoinNaturallyStep ==
  ASSUME CardProcessAssumption, ProcessInv, JoinNaturally
  PROVE  ProcessInv'
<1> USE DEF ProcessInv
<1>1. /\ sup \in {"committed", "hooked"} /\ tracker' = [tracker EXCEPT ![cur] = [tracker[cur] EXCEPT !.open = FALSE]]
      /\ act' = Joining(act, tracker') /\ sup' = "joining" /\ UNCHANGED <<actor, ops, cur, claim, strays>>
  BY DEF JoinNaturally
<1>2. act.join = "none" /\ act.result = "resolved" /\ actor.loop = "ended" /\ actor.nonagent # "hook" /\ Op.phase = "none" /\ Op' = Op
  BY <1>1 DEF JoinInv, SupInv, OpInv, Op
<1>3. /\ tracker' \in [Trackers -> TrackerStates] /\ cur \in Trackers /\ tracker'[cur].settle = tracker[cur].settle
      /\ \A tr \in Trackers : tr # cur => tracker'[tr] = tracker[tr]
      /\ \A tr \in Trackers : tracker'[tr].runs = tracker[tr].runs /\ tracker'[tr].acked = tracker[tr].acked
  BY <1>1, TrackerChanges, CancelledTracker DEF Typed
<1>4. act' = [act EXCEPT !.join = "wait", !.jtr = cur, !.snap = tracker'[cur].runs, !.jclaim = claim.tr # 0]
  BY <1>1, <1>2 DEF Joining
<1>5. tracker'[cur].runs \in Nat /\ cur \in Nat
  BY <1>3, TrackerNumbers DEF TrackerStates
<1>6. act' \in Activations /\ act'.join = "wait" /\ act'.jtr = cur /\ act'.intr = act.intr /\ act'.result = "resolved"
  BY <1>2, <1>4, <1>5 DEF Typed, Activations
<1>7. Typed'
  BY <1>1, <1>3, <1>6 DEF Typed, Sups
<1>8. OpInv' /\ CountInv'
  BY <1>1, <1>2, <1>3, CountKeeps DEF OpInv
<1>9. ClaimInv' /\ SupInv'
  BY <1>1, <1>2, <1>3, <1>6 DEF ClaimInv, SupInv
<1>10. JoinInv' /\ OnlyAgentsAbandoned'
  BY <1>1, <1>2, <1>6 DEF JoinInv, Ended, OnlyAgentsAbandoned
<1> QED BY <1>7, <1>8, <1>9, <1>10

\* A later tracker is not among those up to the current one.
LEMMA LaterTracker ==
  ASSUME CardProcessAssumption, NEW c \in Trackers
  PROVE  c <= c /\ \A tr \in Trackers : tr > c => (~(tr <= c) /\ tr # c)
  BY DEF CardProcessAssumption, Trackers

\* The Supervisor aborts the activation and joins it: either the execution is let
\* end, or it is an agent's and is cut.
LEMMA AbortStep ==
  ASSUME CardProcessAssumption, ProcessInv, AbortAndJoin, sup' \in {"cancel", "halted"}, sup # "none"
  PROVE  ProcessInv'
<1> USE DEF ProcessInv
<1> DEFINE soft == ~(actor.nonagent = "none" /\ claim.tr = 0 /\ ~act.intr)
<1> DEFINE n == IF soft THEN Cancelled(tracker[cur]) ELSE Revoked(tracker[cur])
<1> DEFINE t == [tracker EXCEPT ![cur] = n]
<1> DEFINE u == [tr \in Trackers |-> IF tr <= cur THEN [t[tr] EXCEPT !.aborted = TRUE] ELSE t[tr]]
<1> DEFINE a == IF soft THEN [act EXCEPT !.result = Settled("rejected"), !.intr = TRUE] ELSE [act EXCEPT !.result = Settled("rejected")]
<1>1. PrepareHalt(act, tracker) = [a |-> a, t |-> t]
  BY DEF PrepareHalt
<1>2. /\ tracker' = u /\ ops' = CutOps(u) /\ strays' = CutStrays(u) /\ act' = Joining(a, u)
      /\ UNCHANGED <<actor, cur, claim>>
  <2>1. PrepareHalt(act, tracker).a = a /\ PrepareHalt(act, tracker).t = t
    BY <1>1
  <2> HIDE DEF a, t
  <2> QED BY <2>1 DEF AbortAndJoin
<1>3. n \in TrackerStates /\ n.runs = tracker[cur].runs /\ n.acked = tracker[cur].acked
      /\ (soft => n.settle) /\ (~soft => n.settle = tracker[cur].settle)
  BY CancelledTracker
<1>4. /\ u \in [Trackers -> TrackerStates] /\ u[cur].aborted /\ u[cur].settle = n.settle
      /\ \A tr \in Trackers : tr > cur => u[tr] = tracker[tr]
      /\ \A tr \in Trackers : u[tr].runs = tracker[tr].runs /\ u[tr].acked = tracker[tr].acked
  <2>1. n \in TrackerStates /\ n.runs = tracker[cur].runs /\ n.acked = tracker[cur].acked /\ t = [tracker EXCEPT ![cur] = n]
    BY <1>3
  <2>2. cur \in Trackers /\ cur <= cur /\ \A tr \in Trackers : tr > cur => (~(tr <= cur) /\ tr # cur)
    BY LaterTracker DEF Typed
  <2> HIDE DEF n, t
  <2>3. /\ t \in [Trackers -> TrackerStates] /\ t[cur] = n
        /\ \A tr \in Trackers : tr # cur => t[tr] = tracker[tr]
        /\ \A tr \in Trackers : t[tr].runs = tracker[tr].runs /\ t[tr].acked = tracker[tr].acked
    BY <2>1, TrackerChanges, ZenonT(30)
  <2>4. \A tr \in Trackers :
          /\ [t[tr] EXCEPT !.aborted = TRUE] \in TrackerStates
          /\ [t[tr] EXCEPT !.aborted = TRUE].runs = t[tr].runs /\ [t[tr] EXCEPT !.aborted = TRUE].acked = t[tr].acked
          /\ [t[tr] EXCEPT !.aborted = TRUE].settle = t[tr].settle /\ [t[tr] EXCEPT !.aborted = TRUE].aborted
    <3>1. \A tr \in Trackers : t[tr] \in TrackerStates
      BY <2>3
    <3> QED BY <3>1 DEF TrackerStates
  <2> QED BY <2>2, <2>3, <2>4
<1>5. /\ a \in Activations /\ a.intr = (act.intr \/ soft) /\ a.join = act.join /\ a.jtr = act.jtr /\ a.snap = act.snap
      /\ (a.result = "resolved" <=> act.result = "resolved")
  <2>1. Settled("rejected") \in {"none", "pending", "resolved", "rejected"}
        /\ (Settled("rejected") = "resolved" <=> act.result = "resolved")
    BY DEF Settled, Typed, Activations
  <2>2. CASE soft
    BY <2>1, <2>2 DEF Typed, Activations
  <2>3. CASE ~soft
    BY <2>1, <2>3 DEF Typed, Activations
  <2> QED BY <2>2, <2>3
<1>6. ~soft => (~tracker[cur].settle /\ Op.phase \notin {"guard", "hook"} /\ (actor.loop = "wait" => ~Op.action))
  BY TrackerNumbers DEF ClaimInv, OpInv, Typed
<1>7. soft \in BOOLEAN /\ (~soft => claim.tr = 0)
  OBVIOUS
<1> HIDE DEF u, a, n, soft
<1>8. cur \in Trackers /\ \A tr \in Trackers : Cut(tr, u[tr]) => (tr = cur /\ ~soft /\ Op.phase \in Running)
  <2>1. cur \in Trackers
    BY DEF Typed
  <2>2. \A tr \in Trackers : Cut(tr, u[tr]) => (ops[tr].phase \in Running /\ ~u[tr].settle)
    BY DEF Cut, InFlight
  <2>3. \A tr \in Trackers : Cut(tr, u[tr]) => tr = cur
    BY <2>2, WhoseOp DEF Running
  <2> QED BY <1>3, <1>4, <2>1, <2>2, <2>3 DEF Op
<1>9. /\ ops' \in [Trackers -> Operations] /\ \A tr \in Trackers : tr # cur => ops'[tr] = NoOp
      /\ Op' = IF Cut(cur, u[cur]) THEN Settle(Op, "aborted") ELSE Op
  <2>1. /\ \A tr \in Trackers : ops'[tr] = IF Cut(tr, u[tr]) THEN Settle(ops[tr], "aborted") ELSE ops[tr]
        /\ ops' = [tr \in Trackers |-> IF Cut(tr, u[tr]) THEN Settle(ops[tr], "aborted") ELSE ops[tr]]
    BY <1>2 DEF CutOps
  <2>2. Settle(Op, "aborted") \in Operations
    BY SettleOf
  <2>3. \A tr \in Trackers : (IF Cut(tr, u[tr]) THEN Settle(ops[tr], "aborted") ELSE ops[tr]) \in Operations
    BY <1>8, <2>2 DEF Op, Typed
  <2>4. ops' \in [Trackers -> Operations]
    BY <2>1, <2>3
  <2>5. \A tr \in Trackers : tr # cur => ops'[tr] = NoOp
    BY <1>8, <2>1 DEF OpInv
  <2> QED BY <1>2, <1>8, <2>1, <2>4, <2>5 DEF Op
<1>10. strays' \subseteq strays \cup {o \in {Op} : Cut(cur, u[cur])}
  BY <1>2, <1>8 DEF CutStrays, Op
<1>11. /\ Cut(cur, u[cur]) => (Op'.phase = "settled" /\ Op'.out = "aborted" /\ Op'.guarded = Op.guarded /\ Op'.action = Op.action)
       /\ ~Cut(cur, u[cur]) => Op' = Op
  BY <1>9, SettleOf
<1>12. ~soft => Op'.phase \in {"none", "settled"}
  <2>1. Op.phase \in {"none", "settled"} \cup Running
    BY DEF Typed, Op, Operations
  <2>2. (~soft /\ Op.phase \in Running) => Cut(cur, u[cur])
    BY <1>3, <1>4, <1>6 DEF Cut, InFlight, Op
  <2> QED BY <1>11, <2>1, <2>2
<1>13. /\ act' \in Activations /\ act'.intr = a.intr /\ act'.result = a.result /\ act'.jtr = (IF a.join = "none" THEN cur ELSE a.jtr)
       /\ act'.snap = (IF a.join = "none" THEN u[cur].runs ELSE a.snap) /\ act'.join = (IF a.join = "none" THEN "wait" ELSE a.join)
  <2>1. u[cur].runs \in Nat /\ cur \in Nat
    BY <1>4, <1>8, TrackerNumbers DEF TrackerStates
  <2>2. CASE a.join # "none"
    BY <1>2, <1>5, <2>2 DEF Joining
  <2>3. CASE a.join = "none"
    <3>1. act' = [a EXCEPT !.join = "wait", !.jtr = cur, !.snap = u[cur].runs, !.jclaim = claim.tr # 0]
      BY <1>2, <2>3 DEF Joining
    <3> QED BY <1>5, <2>1, <2>3, <3>1 DEF Activations
  <2> QED BY <2>2, <2>3
<1>14. Op \in Operations /\ (Cut(cur, u[cur]) => (actor.loop = "wait" /\ Op.phase \in {"admit", "work", "claimed"} /\ ~Op.action))
  <2>1. Op \in Operations
    BY DEF Typed, Op
  <2>2. Cut(cur, u[cur]) => Op.phase \in {"admit", "work", "claimed"}
    BY <1>6, <1>8 DEF Running
  <2>3. Op.phase \in {"admit", "work", "claimed"} => actor.loop = "wait"
    BY DEF OpInv
  <2> QED BY <1>6, <1>8, <2>1, <2>2, <2>3
<1>15. Typed'
  BY <1>2, <1>4, <1>9, <1>10, <1>13, <1>14 DEF Typed, Sups
<1>16. OpInv'
  BY <1>2, <1>9, <1>11, <1>14 DEF OpInv
<1>17. CountInv'
  <2>1. (Op.phase = "none") <=> (Op'.phase = "none")
    BY <1>11, <1>14
  <2>2. tracker' = u
    BY <1>2
  <2> QED BY <1>2, <1>4, <2>1, <2>2, CountKeeps
<1>18. ClaimInv'
  <2>1. u[cur].settle => (claim.tr = cur \/ act'.intr)
    BY <1>3, <1>4, <1>5, <1>6, <1>7, <1>13
  <2>2. CASE Cut(cur, u[cur])
    BY <1>2, <1>11, <2>1, <2>2 DEF ClaimInv, Terminals
  <2>3. CASE ~Cut(cur, u[cur])
    BY <1>2, <1>11, <2>1, <2>3 DEF ClaimInv
  <2> QED BY <2>2, <2>3
<1>19. SupInv'
  BY <1>2, <1>5, <1>13 DEF SupInv
<1>20. JoinInv'
  <2>1. act'.jtr = cur /\ act'.join # "none"
    BY <1>5, <1>13 DEF JoinInv
  <2>2. Frozen' \/ Ended' \/ CutOff'
    <3>1. CASE soft
      <4>1. act'.intr
        BY <1>5, <1>13, <3>1
      <4>2. CASE act.join = "none"
        BY <1>2, <1>5, <1>13, <4>1, <4>2 DEF Frozen
      <4>3. CASE act.join # "none"
        <5>1. act'.snap = act.snap /\ tracker'[cur].runs = tracker[cur].runs
          BY <1>2, <1>4, <1>5, <1>8, <1>13, <4>3
        <5>2. Op' = Op
          BY <1>8, <1>11, <3>1
        <5>3. act.snap = tracker[cur].runs \/ Op.phase \in {"none", "settled"}
          BY <4>3 DEF JoinInv, Frozen, Ended, CutOff
        <5> QED BY <1>2, <4>1, <5>1, <5>2, <5>3 DEF Frozen
      <4> QED BY <4>2, <4>3
    <3>2. CASE ~soft
      <4>1. ~u[cur].settle /\ u[cur].aborted
        BY <1>3, <1>4, <1>6, <3>2
      <4>2. CASE Op'.phase = "settled"
        BY <1>2, <1>7, <3>2, <4>1, <4>2 DEF CutOff
      <4>3. CASE Op'.phase = "none"
        <5>1. actor.loop # "wait"
          BY <1>16, <1>2, <4>3 DEF OpInv
        <5> QED BY <1>2, <4>3, <5>1 DEF Ended
      <4> QED BY <1>12, <3>2, <4>2, <4>3
    <3> QED BY <3>1, <3>2
  <2>3. act'.join \in {"joined", "abandoned"} => (act.join = act'.join /\ Op.phase \in {"none", "settled"} /\ Op' = Op /\ ~Cut(cur, u[cur]))
    <3>1. act'.join \in {"joined", "abandoned"} => (act.join = act'.join /\ Op.phase \in {"none", "settled"})
      BY <1>5, <1>13 DEF JoinInv
    <3>2. Op.phase \in {"none", "settled"} => ~Cut(cur, u[cur])
      BY <1>14
    <3> QED BY <1>11, <3>1, <3>2
  <2>4. act'.join = "joined" => \A o \in strays' : o.phase = "admit"
    BY <1>10, <2>3 DEF JoinInv
  <2> QED BY <1>2, <2>1, <2>2, <2>3, <2>4 DEF JoinInv
<1>21. OnlyAgentsAbandoned'
  BY <1>10, <1>14 DEF OnlyAgentsAbandoned
<1> QED BY <1>15, <1>16, <1>17, <1>18, <1>19, <1>20, <1>21


\* The initial states
LEMMA InitProcess ==
  ASSUME CardProcessAssumption, Init
  PROVE  ProcessInv
<1>1. NoOp \in Operations /\ NewTracker \in TrackerStates /\ NoClaim \in Claims
  BY DEF NoOp, Operations, NewTracker, TrackerStates, NoClaim, Claims
<1>2. actor \in Actors /\ act \in Activations
  BY DEF Init, Actors, Activations
<1>3. Typed
  BY <1>1, <1>2, TrackerNumbers DEF Init, Typed, Sups
<1>4. Op = NoOp /\ tracker[cur] = NewTracker
  BY TrackerNumbers DEF Init, Op
<1>5. OpInv
  BY <1>4 DEF Init, OpInv, NoOp
<1>6. CountInv
  <2>1. cur \in Trackers /\ \A tr \in Trackers : tracker[tr] = NewTracker
    BY TrackerNumbers DEF Init
  <2> QED BY <1>4, <2>1 DEF CountInv, NewTracker, NoOp
<1>7. ClaimInv
  BY <1>4 DEF Init, ClaimInv, NoOp, NoClaim, NewTracker, Terminals
<1>8. SupInv /\ JoinInv /\ OnlyAgentsAbandoned
  BY <1>4 DEF Init, SupInv, NoClaim, JoinInv, OnlyAgentsAbandoned
<1> QED BY <1>3, <1>5, <1>6, <1>7, <1>8 DEF ProcessInv

\* Every step of the activation and of the Supervisor keeps the invariant.
LEMMA ProcessStep ==
  ASSUME CardProcessAssumption, ProcessInv, [Next]_vars
  PROVE  ProcessInv'
<1>1. CASE Halt \/ Cancel
  <2>1. AbortAndJoin /\ sup' \in {"cancel", "halted"} /\ sup # "none"
    BY <1>1 DEF Halt, Cancel
  <2> QED BY <2>1, AbortStep
<1>2. CASE Activate
  BY <1>2, ActivateStep
<1>3. CASE Deliver
  <2>1. DeliverNext \/ DeliverTerminal \/ DeliverInterrupted \/ DeliverFailure \/ DeliverIgnored
    BY <1>3 DEF Deliver
  <2> QED BY <1>3, <2>1, DeliverNextStep, DeliverTerminalStep, DeliverInterruptedStep, DeliverFailureStep, DeliverIgnoredStep
<1>4. CASE Execution
  <2>1. PICK tr \in Trackers : \/ Start(tr) \/ PassGuard(tr) \/ WriteDraft(tr) \/ ClaimBlocked(tr) \/ Return(tr)
                               \/ \E terminal \in BOOLEAN : ClaimResult(tr, terminal)
    BY <1>4 DEF Execution
  <2>2. CASE WriteDraft(tr)
    BY <2>2, DraftStep DEF WriteDraft
  <2> QED BY <2>1, <2>2, StartStep, PassGuardStep, ClaimResultStep, ReturnStep
<1>5. CASE Strays
  <2>1. UNCHANGED <<actor, act, ops, tracker, cur, claim, sup>> /\ strays' \subseteq strays
    BY <1>5 DEF Strays, StrayEnds
  <2> QED BY <2>1, DraftStep
<1>6. CASE ClaimInterruption \/ InterruptActivation \/ JoinNaturally
  BY <1>6, ClaimInterruptionStep, InterruptActivationStep, JoinNaturallyStep
<1>7. CASE JoinInterrupted \/ Complete \/ Commit
  BY <1>7, SettlementStep, CommitStep
<1>8. CASE StartHook \/ EndHook \/ JoinActivation
  BY <1>8, StartHookStep, EndHookStep, JoinActivationStep
<1>9. CASE UNCHANGED vars
  BY <1>9, DraftStep DEF vars
<1> QED BY <1>1, <1>2, <1>3, <1>4, <1>5, <1>6, <1>7, <1>8, <1>9 DEF Next

\* The inductive invariant holds of every behaviour.
LEMMA ProcessHolds ==
  ASSUME CardProcessAssumption
  PROVE  Spec => []ProcessInv
<1>1. Init => ProcessInv
  BY InitProcess
<1>2. ProcessInv /\ [Next]_vars => ProcessInv'
  BY ProcessStep
<1> QED BY <1>1, <1>2, PTL DEF Spec

\* No two nodes of a card work at the same time, and the node after an
\* interruption works only when the settlement of the interrupted one is complete
\* and every result of an earlier tracker has been consumed, for every number of
\* nodes and interruptions.
THEOREM NodesWorkInTurn ==
  ASSUME CardProcessAssumption
  PROVE  Spec => []OneNodeAtWork
<1>1. ProcessInv => OneNodeAtWork
  <2> SUFFICES ASSUME ProcessInv PROVE OneNodeAtWork
    OBVIOUS
  <2> USE DEF ProcessInv
  <2>1. \A tr \in Trackers : Body(tr, {"work", "claimed"}) => (tr = cur /\ Op.phase \in {"work", "claimed"})
    BY WhoseOp DEF Body, Op
  <2>2. Op.phase \in {"work", "claimed"} => claim.tr \in {0, cur}
    BY DEF ClaimInv
  <2>3. \A old \in Trackers : old < cur => tracker[old].acked = tracker[old].runs
    BY DEF CountInv
  <2> QED BY <2>1, <2>2, <2>3 DEF OneNodeAtWork
<1> QED BY <1>1, ProcessHolds, PTL

\* A node whose interruption was claimed hands over no result: whichever of the
\* two takes the node control first excludes the other.
THEOREM InterruptionOrResult ==
  ASSUME CardProcessAssumption
  PROVE  Spec => []InterruptionExcludesResult
<1>1. ProcessInv => InterruptionExcludesResult
  <2> SUFFICES ASSUME ProcessInv, claim.tr # 0 PROVE ops[claim.tr].out \notin {"next"} \cup Terminals
    BY DEF InterruptionExcludesResult
  <2> USE DEF ProcessInv
  <2>1. Op.out \notin {"next"} \cup Terminals
    BY DEF ClaimInv
  <2>2. claim.tr \in Trackers
    <3>1. claim.tr \in Nat /\ claim.tr <= cur /\ cur \in Trackers
      BY DEF ClaimInv, Typed, Claims
    <3> QED BY <3>1 DEF Trackers, CardProcessAssumption
  <2>3. CASE claim.tr = cur
    BY <2>1, <2>3 DEF Op
  <2>4. CASE claim.tr # cur
    BY <2>2, <2>4 DEF OpInv, NoOp, Terminals
  <2> QED BY <2>3, <2>4
<1> QED BY <1>1, ProcessHolds, PTL

\* Only the node of an agent is ever abandoned: a Stop lets an action, a hook and
\* an interrupted node settle.
THEOREM AgentsOnlyAbandoned ==
  ASSUME CardProcessAssumption
  PROVE  Spec => []OnlyAgentsAbandoned
<1>1. ProcessInv => OnlyAgentsAbandoned
  BY DEF ProcessInv
<1> QED BY <1>1, ProcessHolds, PTL

\* When the join of an activation completes without failure, nothing the
\* activation started is at work or will start, but for what it reported as
\* abandoned.
THEOREM JoinedIsQuiet ==
  ASSUME CardProcessAssumption
  PROVE  Spec => []JoinMeansQuiet
<1>1. ProcessInv => JoinMeansQuiet
  <2> SUFFICES ASSUME ProcessInv, act.join \in {"joined", "abandoned"}
               PROVE  /\ \A tr \in Trackers : ~Body(tr, {"guard", "work", "claimed", "hook"})
                      /\ act.join = "joined" => \A o \in strays : o.phase = "admit"
    BY DEF JoinMeansQuiet
  <2> USE DEF ProcessInv
  <2>1. Op.phase \in {"none", "settled"}
    BY DEF JoinInv
  <2>2. \A tr \in Trackers : Body(tr, {"guard", "work", "claimed", "hook"}) => tr = cur
    BY WhoseOp DEF Body
  <2>3. ~Body(cur, {"guard", "work", "claimed", "hook"})
    BY <2>1 DEF Body, Op
  <2>4. act.join = "joined" => \A o \in strays : o.phase = "admit"
    BY DEF JoinInv
  <2> QED BY <2>2, <2>3, <2>4
<1> QED BY <1>1, ProcessHolds, PTL

\* The result of an activation changes only from pending, or when it begins.
LEMMA ResultKept ==
  ASSUME CardProcessAssumption, ProcessInv, [Next]_vars
  PROVE  SettledOnce
<1> SUFFICES ASSUME act.result \in {"resolved", "rejected"} PROVE act'.result = act.result
  BY DEF SettledOnce
<1> USE DEF ProcessInv
<1>1. act \in Activations /\ sup # "none"
  BY DEF Typed, SupInv
<1>2. \A r : Settled(r) = act.result
  BY DEF Settled
<1>3. CASE Halt \/ Cancel
  <2>1. PICK a : /\ act' = Joining(a, tracker')
                 /\ a \in {[act EXCEPT !.result = Settled("rejected")], [act EXCEPT !.result = Settled("rejected"), !.intr = TRUE]}
    <3>1. PrepareHalt(act, tracker).a \in {[act EXCEPT !.result = Settled("rejected")], [act EXCEPT !.result = Settled("rejected"), !.intr = TRUE]}
      BY DEF PrepareHalt
    <3>2. act' = Joining(PrepareHalt(act, tracker).a, tracker')
      BY <1>3 DEF Halt, Cancel, AbortAndJoin
    <3> QED BY <3>1, <3>2
  <2>2. a.result = act.result /\ a \in Activations
    BY <1>1, <1>2, <2>1 DEF Activations
  <2> QED BY <2>1, <2>2 DEF Joining, Activations
<1>4. CASE Activate
  BY <1>1, <1>4 DEF Activate
<1>5. CASE Deliver
  <2>1. CASE DeliverNext \/ DeliverInterrupted \/ DeliverIgnored
    BY <2>1 DEF DeliverNext, DeliverInterrupted, DeliverIgnored
  <2>2. CASE DeliverTerminal
    BY <1>1, <1>2, <2>2 DEF DeliverTerminal, EnterTerminal, Activations
  <2>3. CASE DeliverFailure
    <3>1. \/ act' = [act EXCEPT !.result = Settled("rejected")] \/ act' = [act EXCEPT !.result = Settled("resolved")]
          \/ act' = [act EXCEPT !.pre = act.pre \/ ops[actor.task].out = "error"]
      BY <2>3 DEF DeliverFailure, EnterTerminal
    <3> QED BY <1>1, <1>2, <3>1 DEF Activations
  <2> QED BY <1>5, <2>1, <2>2, <2>3 DEF Deliver
<1>6. CASE Execution
  <2>1. PICK tr \in Trackers : \/ Start(tr) \/ PassGuard(tr) \/ WriteDraft(tr) \/ ClaimBlocked(tr) \/ Return(tr)
                               \/ \E terminal \in BOOLEAN : ClaimResult(tr, terminal)
    BY <1>6 DEF Execution
  <2>2. ~CurrentActivation
    BY DEF CurrentActivation
  <2> QED BY <2>1, <2>2 DEF Start, PassGuard, WriteDraft, ClaimBlocked, Return, ClaimResult
<1>7. CASE Strays \/ ClaimInterruption \/ JoinInterrupted \/ Complete \/ Commit \/ StartHook \/ EndHook
  BY <1>7 DEF Strays, StrayEnds, ClaimInterruption, JoinInterrupted, Complete, Commit, StartHook, EndHook
<1>8. CASE InterruptActivation
  BY <1>8 DEF InterruptActivation, CurrentActivation
<1>9. CASE JoinNaturally
  BY <1>1, <1>9 DEF JoinNaturally, Joining, Activations
<1>10. CASE JoinActivation
  <2>1. PICK j : act' = [act EXCEPT !.join = j]
    BY <1>10 DEF JoinActivation
  <2> QED BY <1>1, <2>1 DEF Activations
<1>11. CASE UNCHANGED vars
  BY <1>11 DEF vars
<1> QED BY <1>3, <1>4, <1>5, <1>6, <1>7, <1>8, <1>9, <1>10, <1>11 DEF Next

\* The outcome of an activation is settled once: a cancellation, a halt or a
\* failure that comes later leaves it alone.
THEOREM OutcomeSettledOnce ==
  ASSUME CardProcessAssumption
  PROVE  Spec => [][SettledOnce]_vars
<1>1. ProcessInv /\ [Next]_vars => [SettledOnce]_vars
  BY ResultKept
<1> QED BY <1>1, ProcessHolds, PTL DEF Spec
=============================================================================
