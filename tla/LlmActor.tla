------------------------------ MODULE LlmActor ------------------------------
(* ConversationLLMActor with its InvocationLifecycle: one provider turn at a  *)
(* time, the tool call it may park on with a child lease, and the four ways   *)
(* its owner ends it: disposal, graceful cancellation, closing of             *)
(* continuation and abort of the activation.  The conversation is abstracted  *)
(* to whether its last turn and its last tool call are open.  A step of the   *)
(* invocation ends at an await; what an abandoned invocation was doing goes   *)
(* on as a stray.                                                             *)
EXTENDS Naturals, FiniteSets

CONSTANT MaxTurns   \* bound: provider turns of the actor

LlmActorAssumption == MaxTurns \in Nat \ {0}

VARIABLES ph,      \* #phase
          disp,    \* disposition
          inv,     \* the invocation: step, error, flags, result kind
          rows,    \* open turn and call of the conversation
          child,   \* the child lease of the parked call
          res,     \* the promise the caller of the turn holds
          strays,  \* steps of abandoned invocations
          abort,   \* the activation signal
          gate,    \* the runtime gate is open
          revoked, \* disposal returned revoked_before_owned_completion
          join,    \* join of the owner
          fault,   \* an invocation failed without settling its conversation
          turns

vars == <<ph, disp, inv, rows, child, res, strays, abort, gate, revoked, join, fault, turns>>

NoInvocation == [step |-> "none", err |-> "none", kind |-> "none", settle |-> FALSE, cancelled |-> FALSE,
                 started |-> FALSE, boundary |-> FALSE, persisted |-> FALSE]
External == {"prepare", "gate", "call", "pinned", "context"}

\* Rows of the conversation: a turn start, its outcome, a call, its result.
StartTurn(r) == [r EXCEPT !.turn = TRUE]
EndTurn(r) == [r EXCEPT !.turn = FALSE, !.bad = @ \/ ~r.turn]
OpenCall(r) == [EndTurn(r) EXCEPT !.call = TRUE, !.bad = @ \/ r.call]
EndCall(r) == [r EXCEPT !.call = FALSE, !.bad = @ \/ ~r.call]

\* The signal of the invocation, and assertCurrent.
Aborted == abort \/ inv.cancelled
Graceful == disp = "graceful"

Init ==
  /\ ph = "idle" /\ disp = "open" /\ inv = NoInvocation /\ rows = [turn |-> FALSE, call |-> FALSE, bad |-> FALSE]
  /\ child = "none" /\ res = "none" /\ strays = {} /\ abort = FALSE /\ gate = TRUE /\ revoked = FALSE
  /\ join = "none" /\ fault = FALSE /\ turns = 0

\* arm and beginInvocation; on an aborted signal the operation is cut at once.
Arm ==
  /\ turns < MaxTurns /\ turns' = turns + 1 /\ ph' = "invoking" /\ res' = "pending"
  /\ inv' = IF abort THEN [NoInvocation EXCEPT !.step = "reject", !.err = "cancel"] ELSE [NoInvocation EXCEPT !.step = "prepare"]

\* turn: the entry of a node first settles a call that was left open.
Turn ==
  /\ ph \in {"idle", "retained"} /\ disp = "open" /\ res # "pending" /\ ~fault
  /\ rows' = IF rows.call THEN EndCall(rows) ELSE rows
  /\ Arm /\ UNCHANGED <<disp, child, strays, abort, gate, revoked, join, fault>>

-----------------------------------------------------------------------------
(* runProvider *)

At(step) == ph = "invoking" /\ inv.step = step
Quiet == UNCHANGED <<ph, disp, child, res, strays, abort, gate, revoked, join, fault, turns>>

\* Record context, preventive compaction and admission, then the turn start.
Prepare ==
  /\ At("prepare") /\ ~Aborted /\ rows' = StartTurn(rows)
  /\ inv' = [inv EXCEPT !.step = "gate", !.started = TRUE] /\ Quiet
PassGate == /\ At("gate") /\ gate /\ ~Aborted
            /\ inv' = [inv EXCEPT !.step = "call", !.boundary = TRUE] /\ UNCHANGED rows /\ Quiet

\* Preparation fails: no capacity after compaction, a refused summary, or else.
PrepareFails ==
  /\ At("prepare") /\ \E e \in {"capacity", "summary", "other"} : inv' = [inv EXCEPT !.step = "reject", !.err = e]
  /\ UNCHANGED rows /\ Quiet

\* An external step notices the abort; only a step that settles after
\* cancellation is still tracked here.
NoticeAbort ==
  /\ \E step \in External : At(step)
  /\ Aborted /\ inv' = [inv EXCEPT !.step = "reject", !.err = "cancel"] /\ UNCHANGED rows /\ Quiet

\* The provider answers: text, a call, or an unusable answer.  Under graceful
\* cancellation the answer is kept although the signal is aborted.
Answer ==
  /\ At("call") \/ At("pinned") \/ At("context")
  /\ IF Aborted /\ ~Graceful THEN inv' = [inv EXCEPT !.step = "reject", !.err = "cancel"] /\ UNCHANGED rows
     ELSE \/ \E k \in {"result", "error", "tool"} :
               /\ inv' = [inv EXCEPT !.step = "consume", !.kind = k, !.persisted = TRUE]
               /\ rows' = IF k = "tool" THEN OpenCall(rows) ELSE EndTurn(rows)
          \/ inv' = [inv EXCEPT !.step = "reject", !.err = "other", !.persisted = TRUE] /\ UNCHANGED rows
  /\ Quiet

\* The provider fails; an exhausted context is compacted and resumed once, a
\* refusal retried once on its candidate.
ProviderFails ==
  /\ \/ At("call") /\ inv' \in {[inv EXCEPT !.step = "reject", !.err = "turn"], [inv EXCEPT !.step = "context"], [inv EXCEPT !.step = "pinned"]}
     \/ At("context") /\ \E e \in {"turn", "summary", "other"} : inv' = [inv EXCEPT !.step = "reject", !.err = e]
     \/ At("pinned") /\ inv' = [inv EXCEPT !.step = "reject", !.err = "turn"]
  /\ (inv'.step \in {"context", "pinned"}) => ~Aborted
  /\ UNCHANGED rows /\ Quiet
\* A second refusal is marked in the conversation and blocks the turn.
SecondRefusal ==
  /\ At("pinned")
  /\ inv' = [inv EXCEPT !.step = "consume", !.kind = "blocked", !.persisted = TRUE] /\ rows' = EndTurn(rows) /\ Quiet

-----------------------------------------------------------------------------
(* The consumer of the invocation *)

Leave(phase, result) == ph' = phase /\ res' = result /\ inv' = NoInvocation
\* failInvocation: the phase is left only while it is still the invocation's.
FailTo(phase) == Leave(phase, "rejected") /\ fault' = TRUE

\* completeInvocation
Parked == CASE inv.kind = "tool" -> "waiting" [] inv.kind = "result" -> "retained" [] OTHER -> "idle"
Consume ==
  /\ At("consume")
  /\ \/ inv.kind # "tool" /\ ~Graceful /\ FailTo("idle")       \* the terminal handoff refuses
     \/ IF Aborted /\ ~Graceful THEN FailTo(Parked) ELSE Leave(Parked, "resolved") /\ UNCHANGED fault
  /\ UNCHANGED <<disp, rows, child, strays, abort, gate, revoked, join, turns>>

\* A cancelled invocation whose turn has started gets an error row.
Cancelled == IF inv.started THEN EndTurn(rows) ELSE rows

\* rejectInvocation
Reject ==
  /\ At("reject")
  /\ \/ /\ inv.persisted \/ (Aborted /\ ~Graceful) \/ inv.err = "other" \/ (~Graceful /\ inv.err = "cancel")
        /\ FailTo("idle") /\ UNCHANGED rows
     \/ /\ ~inv.persisted /\ (~Aborted \/ Graceful)
        /\ \/ /\ inv.err = "summary" /\ Leave("idle", "resolved") /\ fault' = (fault \/ inv.started) /\ UNCHANGED rows
           \/ /\ Graceful /\ inv.err = "cancel"
              /\ Leave("idle", IF inv.started THEN "resolved" ELSE "rejected") /\ rows' = Cancelled /\ UNCHANGED fault
           \/ /\ inv.err = "capacity"
              /\ IF disp = "open" THEN Leave("idle", "rejected") /\ UNCHANGED fault ELSE FailTo("idle")
              /\ UNCHANGED rows
           \/ /\ inv.err = "turn" /\ rows' = EndTurn(rows)
              /\ (Leave("idle", "resolved") /\ UNCHANGED fault) \/ (~Graceful /\ FailTo("idle"))
  /\ UNCHANGED <<disp, child, strays, abort, gate, revoked, join, turns>>

\* Seeded fault: an abandoned provider call persists its answer.
StrayPersists(s) ==
  /\ strays' = strays \ {s} /\ rows' = IF s = "call" THEN EndTurn(rows) ELSE rows
  /\ UNCHANGED <<ph, disp, inv, child, res, abort, gate, revoked, join, fault, turns>>
\* An abandoned invocation is no longer current and ends at its next check.
StrayEnds(s) ==
  /\ strays' = strays \ {s} /\ UNCHANGED rows
  /\ UNCHANGED <<ph, disp, inv, child, res, abort, gate, revoked, join, fault, turns>>

-----------------------------------------------------------------------------
(* The tool call *)

Consumable == child \in {"none", "settled", "rejected"}

\* appendToolResult: the result is appended and the next turn armed; the hook
\* may dispose of the actor on the way.
ToolResult ==
  /\ ph = "waiting" /\ disp = "open" /\ Consumable
  /\ rows' = EndCall(rows) /\ child' = "none"
  /\ \/ Arm /\ UNCHANGED <<disp, revoked>>
     \/ ph' = "idle" /\ disp' = "disposed" /\ res' = "rejected" /\ UNCHANGED <<inv, turns, revoked>>
  /\ UNCHANGED <<strays, abort, gate, join, fault>>

\* settleToolResultWithoutContinuation
SettleCall ==
  /\ ph = "waiting" /\ disp # "disposed" /\ Consumable
  /\ rows' = EndCall(rows) /\ child' = "none" /\ ph' = "idle"
  /\ UNCHANGED <<disp, inv, res, strays, abort, gate, revoked, join, fault, turns>>

\* continueAfterPlainText
Repair == /\ ph = "retained" /\ disp = "open" /\ ~fault /\ Arm
          /\ UNCHANGED <<disp, rows, child, strays, abort, gate, revoked, join, fault>>

Child(from, to) == /\ ph = "waiting" /\ child \in from /\ child' = to
                   /\ UNCHANGED <<ph, disp, inv, rows, res, strays, abort, gate, revoked, join, fault, turns>>
ReserveChild == Child({"none"}, "reserved")
StartChild == Child({"reserved"}, "running")
RejectChild == Child({"reserved"}, "rejected")
EndChild == Child({"running"}, "settled")

-----------------------------------------------------------------------------
(* The owner *)

\* dispose
Dispose ==
  /\ disp # "disposed"
  /\ LET gracefulInvocation == ph = "invoking" /\ Graceful
         lost == child = "reserved"
     IN \/ /\ ph \in {"idle", "retained"}
           /\ ph' = "idle" /\ disp' = "disposed" /\ revoked' = TRUE /\ UNCHANGED <<inv, res, strays, child>>
        \/ /\ ph = "waiting" /\ disp' = "disposed" /\ child' = (IF lost THEN "rejected" ELSE child)
           /\ IF child' \in {"none", "rejected"} THEN ph' = "idle" /\ revoked' = TRUE ELSE UNCHANGED <<ph, revoked>>
           /\ UNCHANGED <<inv, res, strays>>
        \/ /\ ph = "invoking" /\ ~gracefulInvocation /\ ~inv.persisted
           /\ disp' = "disposed" /\ Leave("idle", "rejected") /\ revoked' = TRUE
           /\ strays' = strays \cup ({inv.step} \cap External) /\ UNCHANGED child
        \/ /\ ph = "invoking" /\ ~gracefulInvocation /\ inv.persisted
           /\ disp' = "disposed" /\ UNCHANGED <<ph, inv, res, strays, revoked, child>>
  /\ UNCHANGED <<rows, abort, gate, join, fault, turns>>

\* suppressContinuation, and the close of continuation by an accepted result.
Suppress ==
  /\ disp = "open" /\ disp' = "closed"
  /\ UNCHANGED <<ph, inv, rows, child, res, strays, abort, gate, revoked, join, fault, turns>>

\* requestGracefulCancellation
Cancel ==
  /\ disp \in {"open", "closed"} /\ disp' = "graceful"
  /\ inv' = IF ph = "invoking" THEN [inv EXCEPT !.settle = TRUE, !.cancelled = TRUE] ELSE inv
  /\ UNCHANGED <<ph, rows, child, res, strays, abort, gate, revoked, join, fault, turns>>

\* The activation signal: an invocation that does not settle is abandoned.
AbortActivation ==
  /\ ~abort /\ abort' = TRUE
  /\ IF ph = "invoking" /\ inv.step \in External /\ ~inv.settle
       THEN strays' = strays \cup {inv.step} /\ inv' = [inv EXCEPT !.step = "reject", !.err = "cancel"]
       ELSE UNCHANGED <<strays, inv>>
  /\ UNCHANGED <<ph, disp, rows, child, res, gate, revoked, join, fault, turns>>

Join == /\ join = "none" /\ disp # "open" /\ join' = "wait"
        /\ UNCHANGED <<ph, disp, inv, rows, child, res, strays, abort, gate, revoked, fault, turns>>
Joined == /\ join = "wait" /\ inv.step = "none" /\ child \notin {"reserved", "running"} /\ join' = "done"
          /\ UNCHANGED <<ph, disp, inv, rows, child, res, strays, abort, gate, revoked, fault, turns>>

MoveGate == /\ gate' = ~gate
            /\ UNCHANGED <<ph, disp, inv, rows, child, res, strays, abort, revoked, join, fault, turns>>

Invocation == Prepare \/ PassGate \/ PrepareFails \/ NoticeAbort \/ Answer \/ ProviderFails \/ SecondRefusal
Next ==
  \/ Turn \/ Invocation \/ Consume \/ Reject \/ \E s \in strays : StrayEnds(s)
  \/ ToolResult \/ SettleCall \/ Repair \/ ReserveChild \/ StartChild \/ RejectChild \/ EndChild
  \/ Dispose \/ Suppress \/ Cancel \/ AbortActivation \/ Join \/ Joined \/ MoveGate

\* Consumers run; an aborted step notices; children and reserved leases end.
Fairness == /\ WF_vars(NoticeAbort) /\ WF_vars(Consume) /\ WF_vars(Reject) /\ WF_vars(Joined)
            /\ WF_vars(StartChild \/ RejectChild) /\ WF_vars(EndChild)
Spec == Init /\ [][Next]_vars /\ Fairness

-----------------------------------------------------------------------------
\* The rows of the conversation pair up: a turn gets one outcome and a call one
\* result, whichever of completion, cancellation, disposal and late tool
\* results comes first.
RowsPaired == ~rows.bad

\* After a disposal that revoked the work nothing is appended any more, neither
\* by a provider call that is still in flight nor by a tool that returns late.
NothingAfterRevocation == revoked => rows' = rows

\* A graceful cancellation that has settled leaves no turn open.
GracefulClosesTurn == Graceful /\ ph # "invoking" /\ ~fault => ~rows.turn

\* The caller of a turn that is cancelled or disposed of does not wait for ever,
\* also when the invocation waits at the closed gate.
CallerWaits == disp \in {"graceful", "disposed"} /\ res = "pending"

\* No join waits for ever once the actor has been disposed of or cancelled.
JoinWaits == join = "wait" /\ disp \in {"graceful", "disposed"}
=============================================================================
