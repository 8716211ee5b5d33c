------------------------------ MODULE Oversight ------------------------------
(* ProjectOversight and its OversightSession: a timer that starts a check of  *)
(* the project while the runtime runs, cancellation of the check when the     *)
(* runtime leaves running or the application closes, and the only effect a    *)
(* check may have, a notification.  Time is counted by what is left of the    *)
(* deadline and of the armed timeout.                                         *)
EXTENDS Naturals

CONSTANTS Interval,    \* oversight.interval_seconds
          MaxTimeout   \* the longest delay setTimeout can wait

OversightAssumption == Interval \in Nat \ {0} /\ MaxTimeout \in Nat \ {0}

VARIABLES status,   \* #runtimeStatus
          closing,  \* #closing
          timer,    \* what is left of the armed timeout, or none
          left,     \* what is left until #deadline, or none
          check,    \* the check: step, abort, how it ends
          call,     \* the conversation of the session ends with an open call
          quiet,    \* time since the runtime came up or the last check settled
          effect,   \* the last notification was submitted by a cancelled check
          stopped,  \* cleanupForApplicationStop: none, waiting, done
          owner     \* an owner failure was reported

vars == <<status, closing, timer, left, check, call, quiet, effect, stopped, owner>>

None == 1000
NoCheck == [step |-> "none", abort |-> FALSE, ends |-> "none"]
Smaller(a, b) == IF a < b THEN a ELSE b

Init ==
  /\ status = "stopped" /\ closing = FALSE /\ timer = None /\ left = None /\ check = NoCheck /\ call = FALSE
  /\ quiet = 0 /\ effect = FALSE /\ stopped = "none" /\ owner = FALSE

Eligible == ~closing /\ status = "running"
Disarm == timer' = None /\ left' = None
\* #arm: deadline and first timeout.
Arm == left' = Interval /\ timer' = Smaller(Interval, MaxTimeout)
\* OversightSession.cancel: the LLM turn is cancelled gracefully, the signal aborted.
Cancelled(c) == IF c.step = "none" THEN c ELSE [c EXCEPT !.abort = TRUE]

\* Time passes; nothing waits longer than its timer.
Tick ==
  /\ timer # 0
  /\ timer' = (IF timer = None THEN None ELSE timer - 1) /\ left' = (IF left \in {0, None} THEN left ELSE left - 1)
  /\ quiet' = Smaller(quiet + 1, Interval)
  /\ UNCHANGED <<status, closing, check, call, effect, stopped, owner>>

\* runtimeStatusChanged with running.
ArmIdle == IF check.step = "none" /\ timer = None THEN Arm ELSE UNCHANGED <<timer, left>>
StatusChanges(s) ==
  /\ status # s /\ status' = s /\ ~owner
  /\ IF s = "running" /\ ~closing THEN ArmIdle /\ UNCHANGED check ELSE Disarm /\ check' = Cancelled(check)
  /\ quiet' = IF s = "running" THEN 0 ELSE quiet
  /\ UNCHANGED <<closing, call, effect, stopped, owner>>

CloseAdmission ==
  /\ ~closing /\ closing' = TRUE /\ Disarm /\ check' = Cancelled(check)
  /\ UNCHANGED <<status, call, quiet, effect, stopped, owner>>
Cleanup == /\ closing /\ stopped = "none" /\ stopped' = "waiting"
           /\ UNCHANGED <<status, closing, timer, left, check, call, quiet, effect, owner>>
CleanupDone == /\ stopped = "waiting" /\ check.step = "none" /\ stopped' = "done"
               /\ UNCHANGED <<status, closing, timer, left, check, call, quiet, effect, owner>>

\* The deadline has come: a timeout may be one chunk of a longer wait, or early.
Due == left = 0

\* The callback of armRemaining; startCheck creates the session and runs it.
Fire ==
  /\ timer \in {0, 1}
  /\ IF ~Due
     THEN timer' = Smaller(left, MaxTimeout) /\ UNCHANGED <<left, check, owner, closing>>
     ELSE \/ Disarm /\ check' = [NoCheck EXCEPT !.step = "prepare"] /\ UNCHANGED <<owner, closing>>
          \/ Disarm /\ owner' = TRUE /\ closing' = TRUE /\ UNCHANGED check
  /\ UNCHANGED <<status, call, quiet, effect, stopped>>

-----------------------------------------------------------------------------
(* OversightSession.#run *)

Go(step) == check' = [check EXCEPT !.step = step]
Ends(outcome) == check' = [check EXCEPT !.step = "settle", !.ends = outcome]
Rest == UNCHANGED <<status, closing, timer, left, quiet, stopped, owner>>

\* Prompt and ingress rows; a cancelled check stops before the provider.
Prepare ==
  /\ check.step = "prepare" /\ UNCHANGED <<call, effect>> /\ Rest
  /\ IF check.abort THEN Ends("cancelled") ELSE \E n \in {"turn", "fault"} : IF n = "turn" THEN Go("turn") ELSE Ends("fault")
\* A provider turn: text, a call, an expected failure, an unexpected one, or
\* the reason of the cancellation.
TurnEnds ==
  /\ check.step = "turn" /\ UNCHANGED effect /\ Rest
  /\ \/ Go("called") /\ call' = TRUE
     \/ \E o \in {"succeeded", "failed", "fault"} : Ends(IF check.abort /\ o # "fault" THEN "cancelled" ELSE o) /\ UNCHANGED call

\* A turn without a call.
TurnSettles == TurnEnds /\ check'.step = "settle"

\* settleReturnedToolCallWithoutEntry
SettleReturned == Ends("cancelled") /\ call' = FALSE
Returned ==
  /\ check.step = "called" /\ UNCHANGED effect /\ Rest
  /\ IF check.abort THEN SettleReturned
     ELSE \/ Go("tool") /\ UNCHANGED call
          \/ Go("turn") /\ call' = FALSE

\* assertEffectAdmission: eligible, and the signal of the active check not aborted.
EffectAdmitted == Eligible /\ ~check.abort
\* queue_notification, or any other tool.
Effect == /\ check.step = "tool" /\ EffectAdmitted /\ effect' = check.abort /\ Go("tooled") /\ UNCHANGED call /\ Rest
ToolEnds == check.step = "tool" /\ Go("tooled") /\ UNCHANGED <<call, effect>> /\ Rest
ToolFaults == check.step = "tool" /\ Ends("fault") /\ UNCHANGED <<call, effect>> /\ Rest
\* The result is settled; only a check that is not cancelled goes on.
Tooled ==
  /\ check.step = "tooled" /\ call' = FALSE /\ UNCHANGED effect /\ Rest
  /\ IF check.abort THEN Ends("cancelled") ELSE Go("turn")

\* A check settled while the runtime runs, again or still, arms the next one.
Rearm == IF Eligible THEN Arm ELSE UNCHANGED <<timer, left>>
\* The task of the check: #settleOrdinary, then the bookkeeping of its owner.
Settle ==
  /\ check.step = "settle" /\ check' = NoCheck /\ quiet' = 0
  /\ IF check.ends = "fault" THEN owner' = TRUE /\ closing' = TRUE /\ Disarm ELSE Rearm /\ UNCHANGED <<owner, closing>>
  /\ UNCHANGED <<status, call, effect, stopped>>

-----------------------------------------------------------------------------
Run == Prepare \/ TurnEnds \/ Returned \/ Effect \/ ToolEnds \/ ToolFaults \/ Tooled \/ Settle
Next == Tick \/ (\E s \in {"running", "paused", "stopped"} : StatusChanges(s)) \/ CloseAdmission \/ Cleanup \/ CleanupDone \/ Fire \/ Run

\* Time passes and timers fire; the steps of a check follow settled promises.
\* The model does not call tools for ever.
Spec ==
  /\ Init /\ [][Next]_vars /\ WF_vars(Tick) /\ WF_vars(Fire) /\ WF_vars(Run) /\ WF_vars(CleanupDone)
  /\ SF_vars(TurnSettles)

-----------------------------------------------------------------------------
(* Properties *)

\* No check starts earlier than the interval after the runtime came up or the
\* last check settled, also when the interval is longer than one timeout.
NotBeforeInterval == check.step = "none" /\ check'.step = "prepare" => quiet >= Interval

\* startCheck never meets a check in flight: its throw is unreachable.
NoOverlap == timer # None => check.step = "none"

\* A check that was cancelled submits no notification, even when the runtime
\* runs again before the check has settled.
NoEffectAfterCancel == ~effect

\* A check that ended in order leaves no open call to the next one, which
\* appends its rows to the same conversation without looking.
NextFindsSettled == check.step = "prepare" => ~call

\* While the runtime stays running and nobody closes, checks keep starting: this
\* does not last.
Unwatched == Eligible /\ check.step = "none"

\* The stop of the application gets its answer.
CleanupWaits == stopped = "waiting"
=============================================================================
