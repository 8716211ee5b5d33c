--------------------------- MODULE AnalystSession ---------------------------
(* AnalystRuntime with its one AnalystSession: turns of the operator's chat,  *)
(* the two-message restart (the restart_server tool asks, the literal message *)
(* confirms), and disposal by the stop of the application at any point of a   *)
(* turn.  The conversational LLM actor is what LlmActor promises: a turn ends *)
(* in a call, in a handed-off completion, or in a failure.                    *)
EXTENDS Naturals

CONSTANT MaxTurns   \* bound: messages submitted

AnalystAssumption == MaxTurns \in Nat \ {0}

VARIABLES sess,      \* #phase: kind, pending confirmation, operation still settling after disposal
          op,        \* the operation: step, error, flags
          llm,       \* the LLM actor: open, graceful, disposed
          call,      \* a call row of the conversation has no result row
          told,      \* restart acknowledgement in the last response
          caller,    \* the promise of the last submit
          port,      \* the restart port: scheduled after which acknowledgement
          admission, \* #admissionOpen
          cleanup,   \* cleanupForApplicationStop
          turns

vars == <<sess, op, llm, call, told, caller, port, admission, cleanup, turns>>

NoOperation == [step |-> "none", err |-> "none", conf |-> FALSE, newly |-> FALSE, aborted |-> FALSE, request |-> FALSE, bad |-> FALSE]

Init ==
  /\ sess = [kind |-> "idle", conf |-> FALSE, settling |-> FALSE] /\ op = NoOperation /\ llm = "open" /\ call = FALSE
  /\ told = "none" /\ caller = "none" /\ port = "none" /\ admission = TRUE /\ cleanup = "none" /\ turns = 0

\* submit: which first step the message gets.
Confirms(literal) == literal /\ sess.conf

\* AnalystRuntime.submit and submit; busy, failed and disposed sessions reject.
Submit(literal) ==
  /\ admission /\ sess.kind = "idle" /\ turns < MaxTurns /\ turns' = turns + 1
  /\ sess' = [sess EXCEPT !.kind = "conversing"]
  /\ op' = [NoOperation EXCEPT !.step = IF Confirms(literal) THEN "restart_preparing" ELSE "preparing", !.conf = sess.conf]
  /\ caller' = "pending"
  /\ UNCHANGED <<llm, call, told, port, admission, cleanup>>

-----------------------------------------------------------------------------
(* runAnalystTurn *)

Owned == sess.kind = "disposed" /\ sess.settling
Current == sess.kind = "conversing" /\ ~op.aborted
Go(step) == op' = [op EXCEPT !.step = step]
\* The producer ends: its last step stays for the consumer to look at.
Throw(err) == op' = [op EXCEPT !.err = err]
Quiet == UNCHANGED <<sess, told, caller, port, admission, cleanup, turns>>
Running == op.err = "none" /\ ~op.aborted

\* settleFinalUnmatchedCall
SettleUnmatched == FALSE

\* prepareInvocationInput: an input over budget can be sent again, any other
\* failure is for good.
PreparationErrors == {"recoverable", "other"}
Prepare ==
  /\ op.step = "preparing" /\ Running /\ Current /\ Quiet /\ UNCHANGED llm
  /\ \/ (\E e \in PreparationErrors : Throw(e)) /\ UNCHANGED call
     \/ Go("starting") /\ call' = SettleUnmatched
\* The ingress rows are published, then the turn of the LLM actor begins.
Ingress ==
  /\ op.step = "starting" /\ Running /\ Quiet /\ UNCHANGED <<call, llm>>
  /\ \/ op' = [op EXCEPT !.step = "nested", !.bad = call]
     \/ Throw("other")

\* Turn outcomes.  A graceful cancellation still lets a call or a completion
\* out; without either the turn rejects with the reason of the disposal.
TurnCalls == /\ op.step = "nested" /\ op.err = "none" /\ Go(IF Owned THEN "returned" ELSE "waiting_tool")
             /\ call' = TRUE /\ Quiet /\ UNCHANGED llm
\* terminalHandoff, synchronous with the publication of the completion.
TurnCompletes == op.step = "nested" /\ op.err = "none" /\ Go("settling_llm") /\ Quiet /\ UNCHANGED <<call, llm>>
TurnFails == /\ op.step = "nested" /\ op.err = "none" /\ \E e \in {"capacity", "other"} : Throw(e)
             /\ Quiet /\ UNCHANGED <<call, llm>>
TurnCancelled == op.step = "nested" /\ op.err = "none" /\ Owned /\ Throw("reason") /\ Quiet /\ UNCHANGED <<call, llm>>

\* A call returned to a disposed session is settled without being entered.
SettleReturned ==
  /\ op.step = "returned" /\ op.err = "none" /\ call' = FALSE
  /\ op' = [op EXCEPT !.step = "settled_cancelled", !.err = "reason"]
  /\ Quiet /\ UNCHANGED llm

\* The tool of the parked call ends.  Entered tools may throw; a result that
\* meets a disposed session is settled and the turn ends there.
ToolThrows ==
  /\ op.step = "waiting_tool" /\ op.err = "none" /\ Quiet /\ UNCHANGED <<call, llm>>
  /\ \/ Owned /\ Throw("reason")
     \/ Throw("abandoned")
     \/ op' = [op EXCEPT !.step = "fatal_tool_invocation", !.err = "other"]
ToolDisposed ==
  /\ op.step = "waiting_tool" /\ op.err = "none" /\ Owned /\ call' = FALSE
  /\ op' = [op EXCEPT !.step = "settled_cancelled", !.err = "reason"] /\ Quiet /\ UNCHANGED llm
ToolContinues ==
  /\ op.step = "waiting_tool" /\ op.err = "none" /\ ~Owned /\ call' = FALSE /\ Go("nested") /\ Quiet /\ UNCHANGED llm
\* restart_server succeeded: its result is settled without another turn; the
\* disposal is looked at again after that wait.
RestartAsked ==
  /\ op.step = "waiting_tool" /\ op.err = "none" /\ ~Owned /\ call' = FALSE /\ Go("restart_settled") /\ Quiet /\ UNCHANGED llm
RestartAnswered ==
  /\ op.step = "restart_settled" /\ op.err = "none" /\ Quiet /\ UNCHANGED <<call, llm>>
  /\ op' = IF Owned THEN [op EXCEPT !.step = "settled_cancelled", !.err = "reason"]
                    ELSE [op EXCEPT !.newly = TRUE, !.err = "response"]
\* settleTerminalCompletion: an error is noted in the conversation first.
Complete ==
  /\ op.step = "settling_llm" /\ op.err = "none" /\ Quiet /\ UNCHANGED <<call, llm>> /\ (Throw("response") \/ Throw("other"))

\* Seeded fault: the request recorded while publishing is not looked at.
PublishedAnyway == op' = [op EXCEPT !.step = "restart_scheduling"] /\ UNCHANGED <<call, llm>> /\ Quiet
\* runConfirmedRestart: the message is published, then a disposal that came
\* meanwhile is honoured.
Published ==
  /\ op' = IF op.request THEN [op EXCEPT !.err = "reason", !.step = "restart_published"] ELSE [op EXCEPT !.step = "restart_scheduling"]
  /\ UNCHANGED <<call, llm>> /\ Quiet
ConfirmedRestart ==
  /\ op.step = "restart_preparing" /\ Running /\ Current /\ Quiet /\ UNCHANGED <<call, llm>>
  /\ (Throw("recoverable") \/ Go("restart_publishing"))
RestartPublished == op.step = "restart_publishing" /\ op.err = "none" /\ Published
RestartPublishFails == op.step = "restart_publishing" /\ op.err = "none" /\ Throw("other") /\ Quiet /\ UNCHANGED <<call, llm>>

\* schedule, and the confirmation is used up, in the same step.
Schedule == port' = told /\ op' = [op EXCEPT !.err = "response", !.conf = FALSE]
RestartScheduled ==
  /\ op.step = "restart_scheduling" /\ op.err = "none" /\ Schedule
  /\ UNCHANGED <<sess, llm, call, told, caller, admission, cleanup, turns>>

-----------------------------------------------------------------------------
(* consumeTurn *)

Acknowledgement == IF op.step = "restart_scheduling" THEN "scheduled" ELSE IF op.conf \/ op.newly THEN "confirm" ELSE "none"
Completed == Owned /\ op.err = "reason" /\ op.step \in {"nested", "waiting_tool", "settled_cancelled"}
Recoverable == op.err \in {"recoverable", "abandoned", "capacity"} /\ sess.kind # "disposed"

\* The phase after the turn; only a failed preparation keeps the confirmation.
AfterTurn ==
  IF sess.kind = "disposed" THEN [sess EXCEPT !.settling = FALSE]
  ELSE IF op.err = "response" THEN [kind |-> "idle", conf |-> op.conf \/ op.newly, settling |-> FALSE]
  ELSE IF Recoverable THEN [kind |-> "idle", conf |-> op.err = "recoverable" /\ op.conf, settling |-> FALSE]
  ELSE [kind |-> "failed", conf |-> FALSE, settling |-> FALSE]

\* A parked call is abandoned, a completed disposal disposes and joins the LLM
\* actor, the caller gets its answer.
Consume ==
  /\ op.err # "none" /\ caller = "pending"
  /\ sess' = AfterTurn /\ llm' = IF Completed THEN "disposed" ELSE llm
  /\ told' = IF op.err = "response" THEN Acknowledgement ELSE told
  /\ caller' = IF op.err = "response" THEN "resolved" ELSE "rejected"
  /\ op' = [NoOperation EXCEPT !.bad = op.bad]
  /\ UNCHANGED <<call, port, admission, cleanup, turns>>

-----------------------------------------------------------------------------
(* Disposal *)

\* disposeSession, by the step of the operation.
Dispose ==
  IF sess.kind # "conversing" THEN llm' = "disposed" /\ UNCHANGED op
  ELSE IF op.step = "restart_publishing" THEN llm' = "disposed" /\ op' = [op EXCEPT !.request = TRUE]
  ELSE IF op.step \in {"restart_scheduling", "settling_llm"} THEN llm' = "disposed" /\ UNCHANGED op
  ELSE IF op.step \in {"nested", "waiting_tool", "returned", "restart_settled"} THEN llm' = "graceful" /\ UNCHANGED op
  ELSE llm' = "disposed" /\ op' = [op EXCEPT !.aborted = TRUE, !.err = IF @ = "none" THEN "reason" ELSE @]

\* closeAdmission
CloseAdmission ==
  /\ admission /\ admission' = FALSE
  /\ sess' = [sess EXCEPT !.kind = "disposed", !.settling = sess.kind = "conversing"]
  /\ Dispose
  /\ UNCHANGED <<call, told, caller, port, cleanup, turns>>

\* cleanupForApplicationStop: containment in parallel with joinSession, which
\* ends with the operation and its consumer.
Cleanup == ~admission /\ cleanup = "none" /\ cleanup' = "joining" /\ UNCHANGED <<sess, op, llm, call, told, caller, port, admission, turns>>
Joined == cleanup = "joining" /\ ~sess.settling /\ cleanup' = "joined" /\ UNCHANGED <<sess, op, llm, call, told, caller, port, admission, turns>>

-----------------------------------------------------------------------------
Turn ==
  \/ Prepare \/ Ingress \/ TurnCalls \/ TurnCompletes \/ TurnFails \/ TurnCancelled \/ SettleReturned
  \/ ToolThrows \/ ToolDisposed \/ ToolContinues \/ RestartAsked \/ RestartAnswered \/ Complete
  \/ ConfirmedRestart \/ RestartPublished \/ RestartPublishFails \/ RestartScheduled \/ Consume
Next == (\E literal \in BOOLEAN : Submit(literal)) \/ Turn \/ CloseAdmission \/ Cleanup \/ Joined

\* Steps of a turn are continuations of promises that settle: the provider's
\* turn by its deadline, a tool by its own.  A model that calls tools for ever
\* keeps a turn alive, so only a turn that may end is fair about ending.
Spec ==
  /\ Init /\ [][Next]_vars /\ WF_vars(Prepare \/ Ingress \/ SettleReturned \/ RestartAnswered \/ Complete) /\ WF_vars(Consume) /\ WF_vars(Joined)
  /\ WF_vars(ConfirmedRestart \/ RestartPublished \/ RestartScheduled)
  /\ SF_vars(TurnCompletes \/ TurnFails \/ TurnCancelled) /\ WF_vars(TurnCalls \/ TurnCompletes \/ TurnFails)
  /\ WF_vars(ToolThrows \/ ToolDisposed \/ ToolContinues)

-----------------------------------------------------------------------------
(* Properties *)

\* A restart is scheduled only by a message that follows a response which asked
\* for that confirmation: one that was used already or never requested does not
\* restart the server, whatever failed in between.
RestartWasAsked == port \in {"none", "confirm"}

\* A turn that was disposed before it reached the port schedules nothing, even
\* if its message was being published when the disposal came.
DisposedSchedulesNothing == port' # port => ~op.request

\* The pending confirmation is what the operator was last told, as long as the
\* session waits for a message: nothing is pending that no response announced.
PendingWasTold == sess.kind = "idle" /\ sess.conf => told = "confirm"

\* Rows of a new message are never published behind a call without a result,
\* although abandoned tools leave one.
IngressAfterResults == ~op.bad

\* Disposal is final: the answer of a turn that was running does not reopen the
\* session, and its LLM actor accepts nothing once the disposal is on its way.
DisposalFinal == sess.kind = "disposed" => sess'.kind = "disposed" /\ llm' # "open"

\* Every submitted message is answered once the model stops calling tools, and
\* the stop of the application gets its join.
SenderWaits == caller = "pending"
CleanupWaits == cleanup = "joining"
=============================================================================
