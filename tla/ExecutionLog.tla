---------------------------- MODULE ExecutionLog ----------------------------
(* The execution evidence of one card: the log every reader validates as a    *)
(* whole, and its two writers.  A finite operation (shell.run or a quality    *)
(* analysis) runs one captured command, with a timeout and a cancellation     *)
(* racing its settlement, closes its process scope and then writes its        *)
(* finish; a native git step runs a chain of commands and writes its finish   *)
(* only for what was certainly observed.  Rows of several invocations         *)
(* interleave in the log.  A row is abstracted to the facts the reader checks *)
(* against earlier rows.                                                      *)
EXTENDS Naturals, Sequences, FiniteSets, SequencesExt

CONSTANTS Operations,   \* invocations of finite operations
          Natives,      \* invocations of native git steps
          Quality,      \* the operations that are quality analyses
          MaxCommands   \* bound: commands of one native step

ExecutionLogAssumption ==
  /\ Operations \cap Natives = {} /\ Quality \subseteq Operations /\ MaxCommands \in Nat \ {0}

Invs == Operations \cup Natives

VARIABLES log,    \* the rows of the card's log
          inv,    \* the invocations
          fault   \* a row was refused by the validation of the log

vars == <<log, inv, fault>>

Idle == [pc |-> "idle", leader |-> "none", group |-> "none", stdout |-> "open", winner |-> "none",
         timeout |-> FALSE, abort |-> FALSE, failure |-> "none", result |-> "none",
         lost |-> FALSE, runs |-> 0, caller |-> "none"]

Init == log = <<>> /\ inv = [i \in Invs |-> Idle] /\ fault = FALSE

-----------------------------------------------------------------------------
(* validateRows *)

RowsOf(i) == SelectSeq(log, LAMBDA r : r.inv = i)
Has(i, kind) == \E n \in DOMAIN log : log[n].inv = i /\ log[n].kind = kind
Row(i, kind) == [inv |-> i, kind |-> kind, disp |-> "none", outcome |-> "none", proc |-> FALSE,
                 natural |-> FALSE, timeout |-> FALSE, interrupted |-> FALSE, error |-> FALSE, output |-> FALSE]

Commands(i, kind) == Cardinality({n \in DOMAIN log : log[n].inv = i /\ log[n].kind = kind})
NativeOpen(i) == Commands(i, "native_process_started") > Commands(i, "native_process_finished")
NativeFailed(i) == \E n \in DOMAIN log : log[n].inv = i /\ log[n].kind = "native_process_finished" /\ log[n].disp # "returned"

\* A finish of an operation against its start and its process.
FinishValid(r) ==
  /\ r.proc => Has(r.inv, "process_started") \/ r.error
  /\ r.disp = "spawn_failed" => r.error /\ r.outcome = "none"
  /\ r.disp = "cancelled" => r.interrupted /\ r.outcome = "none"
  /\ r.disp = "timed_out" => r.timeout
  /\ r.disp \notin {"returned", "timed_out"} => r.outcome = "none"
  /\ r.output => r.outcome # "none" /\ (r.inv \notin Quality => r.proc /\ r.natural)
\* validateNativeOutcome, for a step whose outcome agrees with its kind.
NativeFinishValid(r) ==
  /\ ~NativeOpen(r.inv)
  /\ r.outcome = "completed" => ~NativeFailed(r.inv) /\ Has(r.inv, "native_process_started") /\ r.disp = "returned"
RowValid(r) ==
  CASE r.kind \in {"invocation_started", "native_started"} -> RowsOf(r.inv) = <<>>
    [] r.kind = "process_started" -> Has(r.inv, "invocation_started") /\ ~Has(r.inv, "invocation_finished") /\ ~Has(r.inv, "process_started")
    [] r.kind = "invocation_finished" -> Has(r.inv, "invocation_started") /\ ~Has(r.inv, "invocation_finished") /\ FinishValid(r)
    [] r.kind = "native_process_started" -> /\ Has(r.inv, "native_started") /\ ~Has(r.inv, "native_finished")
                                            /\ ~NativeOpen(r.inv) /\ ~NativeFailed(r.inv)
    [] r.kind = "native_process_finished" -> NativeOpen(r.inv) /\ (r.disp = "returned" => r.natural)
    [] OTHER -> Has(r.inv, "native_started") /\ ~Has(r.inv, "native_finished") /\ NativeFinishValid(r)

\* appendCardExecutions: the log is read and validated with the row before it
\* is written; a refusal is thrown into the writer.
AppendRow(r, then, refused) ==
  IF RowValid(r) THEN log' = Append(log, r) /\ then /\ UNCHANGED fault
  ELSE fault' = TRUE /\ refused /\ UNCHANGED log

To(i, rec) == inv' = [inv EXCEPT ![i] = rec]
Ended(i, caller) == [inv[i] EXCEPT !.pc = "ended", !.caller = caller]

-----------------------------------------------------------------------------
(* executeFiniteOperation *)

\* The start is evidence before anything runs.
OperationStarts(i) ==
  /\ i \in Operations /\ inv[i].pc = "idle"
  /\ IF inv[i].abort THEN To(i, Ended(i, "threw")) /\ UNCHANGED <<log, fault>>
     ELSE AppendRow(Row(i, "invocation_started"), To(i, [inv[i] EXCEPT !.pc = "body"]), To(i, Ended(i, "threw")))

Failed(i, why) == [inv[i] EXCEPT !.pc = "close", !.failure = why]

\* The command is spawned, and its row written from the spawn; a spawn that
\* fails is settled at once with its error, and a log that refuses the row
\* ends the body with the process left to the scope.
Spawn(i) ==
  /\ i \in Operations /\ inv[i].pc = "body"
  /\ \/ inv[i].abort /\ To(i, Failed(i, "abort")) /\ UNCHANGED <<log, fault>>
     \/ /\ ~inv[i].abort
        /\ AppendRow(Row(i, "process_started"),
                     To(i, [inv[i] EXCEPT !.pc = "wait", !.leader = "running", !.group = "tracked"]),
                     To(i, [Failed(i, "error") EXCEPT !.lost = TRUE, !.group = "tracked"]))
     \/ ~inv[i].abort /\ To(i, [inv[i] EXCEPT !.pc = "wait", !.leader = "error", !.group = "absent", !.stdout = "eof"]) /\ UNCHANGED <<log, fault>>
     \/ ~inv[i].abort /\ To(i, [Failed(i, "error") EXCEPT !.lost = TRUE, !.group = "tracked"]) /\ UNCHANGED <<log, fault>>

\* A quality analysis refuses its configuration or its source scope, or cannot
\* publish its request, before it spawns anything.
QualityRefuses(i) ==
  /\ i \in Quality /\ inv[i].pc = "body" /\ To(i, Failed(i, "error"))
  /\ UNCHANGED <<log, fault>>

Settled(i) == inv[i].leader \notin {"none", "running"}
\* The race between settlement, timeout and cancellation.
Race(i) ==
  /\ inv[i].pc = "wait"
  /\ \/ Settled(i) /\ To(i, [inv[i] EXCEPT !.pc = "settled", !.winner = "settled"])
     \/ To(i, [inv[i] EXCEPT !.pc = "kill", !.winner = "timeout", !.timeout = TRUE])
     \/ inv[i].abort /\ To(i, [inv[i] EXCEPT !.pc = "kill", !.winner = "aborted"])
  /\ UNCHANGED <<log, fault>>
\* kill, and the settlement that was being awaited all along.
Killed(i) ==
  /\ inv[i].pc = "kill" /\ Settled(i) /\ To(i, [inv[i] EXCEPT !.pc = "settled"])
  /\ UNCHANGED <<log, fault>>

\* The result of the command: the cancellation first, then a spawn error, a
\* timeout, a signal and at last the exit code.
CommandResult(i) ==
  CASE inv[i].timeout -> "timed_out" [] inv[i].leader = "signal" -> "signalled"
    [] inv[i].leader = "exit0" -> "passed" [] OTHER -> "failed"
\* A quality analysis reads the complete output of its helper; findings or a
\* clean result need a helper that passed and complete coverage.
QualityOutcome(r, complete, found) ==
  IF r \in {"timed_out", "signalled"} THEN r
  ELSE IF r # "passed" \/ ~complete THEN "analysis_failed" ELSE IF found THEN "findings" ELSE "clean"
\* What the body makes of the settled command.  An analysis also fails where
\* its output is incomplete or one of its artifacts cannot be published.
Body(i) ==
  /\ i \in Operations /\ inv[i].pc = "settled"
  /\ \/ inv[i].abort /\ To(i, Failed(i, "abort"))
     \/ ~inv[i].abort /\ inv[i].leader = "error" /\ To(i, Failed(i, "error"))
     \/ /\ ~inv[i].abort /\ inv[i].leader # "error"
        /\ IF i \in Quality
             THEN \/ To(i, Failed(i, "error"))
                  \/ /\ inv[i].group = "absent" /\ inv[i].stdout = "eof"
                     /\ \E complete, found \in BOOLEAN :
                          To(i, [inv[i] EXCEPT !.pc = "close", !.result = QualityOutcome(CommandResult(i), complete, found)])
             ELSE To(i, [inv[i] EXCEPT !.pc = "close", !.result = CommandResult(i)])
  /\ UNCHANGED <<log, fault>>

\* validateOperationReturn: a result whose outcome or values the operation does
\* not declare fails it.
ContractRefuses(i) ==
  /\ i \in Operations /\ inv[i].pc = "settled" /\ ~inv[i].abort /\ To(i, Failed(i, "error"))
  /\ UNCHANGED <<log, fault>>

\* closeAndTerminateDirectScope: what is left in the scope ends, or its end
\* cannot be confirmed and the operation fails.
Close(i) ==
  /\ i \in Operations /\ inv[i].pc = "close"
  /\ \/ inv[i].group # "unverifiable" /\ To(i, [inv[i] EXCEPT !.pc = "finish", !.group = IF @ = "tracked" THEN "absent" ELSE @])
     \/ inv[i].group # "absent" /\ To(i, [inv[i] EXCEPT !.pc = "finish", !.failure = "error",
                                          !.group = IF @ = "tracked" THEN "unverifiable" ELSE @])
  /\ UNCHANGED <<log, fault>>

\* Seeded fault: a cancellation is whatever happens after the signal.
CancelledAlways(i) == inv[i].abort
\* Only the failure that is the cancellation itself is reported as one.
Cancelled(i) == inv[i].abort /\ inv[i].failure = "abort"
\* The output is collected where the body succeeded and nobody cancelled.
Collects(i) == inv[i].failure = "none" /\ ~inv[i].abort
OutputComplete(i) == i \in Quality \/ (inv[i].group = "absent" /\ inv[i].stdout = "eof")
Accepted(i, bad) == inv[i].failure = "none" /\ ~bad
\* The facts of the finish: whether the caller wanted the output, and whether
\* its collection went bad.
FinishRow(i, want, bad) ==
  [Row(i, "invocation_finished") EXCEPT
     !.disp = CASE Cancelled(i) -> "cancelled" [] inv[i].leader = "error" -> "spawn_failed"
                [] ~Accepted(i, bad) -> "unavailable" [] inv[i].timeout -> "timed_out" [] OTHER -> "returned",
     !.outcome = IF Accepted(i, bad) THEN inv[i].result ELSE "none",
     !.proc = inv[i].leader # "none", !.error = inv[i].leader = "error",
     !.natural = inv[i].group = "absent" /\ inv[i].stdout = "eof",
     !.timeout = inv[i].timeout, !.interrupted = Cancelled(i), !.output = want /\ Collects(i) /\ ~bad]
\* A log that could not be written, or an artifact that cannot be observed,
\* ends the invocation without a finish.
Finish(i) ==
  /\ i \in Operations /\ inv[i].pc = "finish"
  /\ \/ To(i, Ended(i, "threw")) /\ UNCHANGED <<log, fault>>
     \/ /\ ~inv[i].lost
        /\ \E want, bad \in BOOLEAN :
             /\ bad => want /\ Collects(i)
             /\ want /\ Collects(i) /\ ~bad => OutputComplete(i)
             /\ AppendRow(FinishRow(i, want, bad),
                          To(i, Ended(i, IF Accepted(i, bad) /\ ~inv[i].abort THEN "returned" ELSE "threw")),
                          To(i, Ended(i, "threw")))

-----------------------------------------------------------------------------
(* runGitWorkflow *)

NativeStarts(i) ==
  /\ i \in Natives /\ inv[i].pc = "idle"
  /\ IF inv[i].abort THEN To(i, Ended(i, "threw")) /\ UNCHANGED <<log, fault>>
     ELSE AppendRow(Row(i, "native_started"), To(i, [inv[i] EXCEPT !.pc = "step"]), To(i, Ended(i, "threw")))
\* The next command of the step.
NativeCommand(i) ==
  /\ i \in Natives /\ inv[i].pc = "step" /\ ~inv[i].abort /\ inv[i].runs < MaxCommands
  /\ AppendRow(Row(i, "native_process_started"),
               To(i, [inv[i] EXCEPT !.pc = "wait", !.leader = "running", !.group = "tracked", !.stdout = "open",
                                    !.runs = @ + 1, !.winner = "none"]),
               To(i, Ended(i, "threw")))
Natural(i) == /\ inv[i].winner = "settled" /\ inv[i].leader \in {"exit0", "exit1"}
              /\ inv[i].group = "absent" /\ inv[i].stdout = "eof"
\* The command is over: its row says whether it settled naturally with an
\* allowed code.  What did not leaves the step uncertain; a refused inspection
\* ends it.
NativeSettled(i) ==
  /\ i \in Natives /\ inv[i].pc = "settled"
  /\ IF inv[i].abort THEN To(i, [inv[i] EXCEPT !.pc = "throw"]) /\ UNCHANGED <<log, fault>>
     ELSE LET ok == Natural(i) /\ inv[i].leader = "exit0" IN
            \E mutation \in BOOLEAN :
              AppendRow([Row(i, "native_process_finished") EXCEPT
                           !.disp = IF ok THEN "returned" ELSE IF inv[i].timeout THEN "timed_out" ELSE "failed",
                           !.natural = inv[i].leader \in {"exit0", "exit1"} /\ inv[i].group = "absent" /\ inv[i].stdout = "eof" /\ ~inv[i].timeout],
                        To(i, [inv[i] EXCEPT !.leader = "none",
                                 !.pc = IF ok THEN "step" ELSE IF Natural(i) /\ ~mutation THEN "refused" ELSE "uncertain"]),
                        To(i, [inv[i] EXCEPT !.pc = "throw"]))
NativeOutcome(i) == IF inv[i].pc = "refused" THEN "refused" ELSE "completed"
\* The finish of a step that completed or was refused; an uncertain one keeps
\* its incomplete prefix.
NativeFinish(i) ==
  /\ i \in Natives
  /\ \/ inv[i].pc = "step" /\ inv[i].runs > 0
     \/ inv[i].pc = "refused"
  /\ IF inv[i].abort THEN To(i, [inv[i] EXCEPT !.pc = "throw"]) /\ UNCHANGED <<log, fault>>
     ELSE AppendRow([Row(i, "native_finished") EXCEPT !.disp = "returned", !.outcome = NativeOutcome(i)],
                    To(i, [inv[i] EXCEPT !.pc = "closing", !.result = NativeOutcome(i)]),
                    To(i, [inv[i] EXCEPT !.pc = "throw"]))
\* The scope is closed on every way out; an invalidated owner gets nothing, and
\* neither does one whose group cannot be confirmed.
NativeEnds(i) ==
  /\ i \in Natives /\ inv[i].pc \in {"closing", "uncertain", "throw"}
  /\ \E confirmed \in {c \in BOOLEAN : inv[i].group = "absent" => c} :
       To(i, [Ended(i, IF inv[i].pc = "throw" \/ inv[i].abort \/ ~confirmed THEN "threw"
                       ELSE IF inv[i].pc = "uncertain" THEN "uncertain" ELSE "returned") EXCEPT
                !.group = IF confirmed THEN "absent" ELSE "unverifiable"])
  /\ UNCHANGED <<log, fault>>
NativeAborted(i) ==
  /\ i \in Natives /\ inv[i].pc = "step" /\ inv[i].abort /\ To(i, [inv[i] EXCEPT !.pc = "throw"])
  /\ UNCHANGED <<log, fault>>

-----------------------------------------------------------------------------
(* Processes and cancellations *)

\* The process settles: its leader ends, its group empties or the runner gives
\* up on confirming it, and its output ends.
Settles(i) ==
  /\ inv[i].leader = "running" /\ inv[i].pc \in {"wait", "kill"}
  /\ \E how \in {"exit0", "exit1", "signal"}, g \in {"absent", "unverifiable"}, o \in {"eof", "error"} :
       To(i, [inv[i] EXCEPT !.leader = how, !.group = g, !.stdout = o])
  /\ UNCHANGED <<log, fault>>
\* The activation is cancelled or loses its currency.
AbortInvocation(i) ==
  /\ inv[i].pc # "ended" /\ ~inv[i].abort /\ To(i, [inv[i] EXCEPT !.abort = TRUE])
  /\ UNCHANGED <<log, fault>>

Runs(i) ==
  \/ OperationStarts(i) \/ Spawn(i) \/ QualityRefuses(i) \/ Race(i) \/ Killed(i) \/ Body(i) \/ ContractRefuses(i)
  \/ Close(i) \/ Finish(i)
  \/ NativeStarts(i) \/ NativeCommand(i) \/ NativeSettled(i) \/ NativeFinish(i) \/ NativeEnds(i) \/ NativeAborted(i)
  \/ Settles(i)

Next == \E i \in Invs : Runs(i) \/ AbortInvocation(i)

\* The continuations of an invocation run on the event loop, and a process that
\* is killed settles, as the process runner guarantees.
Spec == Init /\ [][Next]_vars /\ \A i \in Invs : WF_vars(Runs(i))

-----------------------------------------------------------------------------
\* The log never refuses what its writers have to say: cancellations, timeouts
\* and failures in any order, of interleaved invocations, leave rows that the
\* reader's checks accept.
NeverRefused == ~fault

\* An accepted outcome is written only when no process of the invocation is
\* left that could still act.
ClaimsAreSettled ==
  \A n \in DOMAIN log : log[n].outcome \notin {"none", "refused"} => inv[log[n].inv].group \in {"absent", "none"}

\* What the caller goes on with is what the log says: a result was written
\* before it is returned, an uncertain step has no finish, and what the log calls
\* cancelled was cut short by an abort and by nothing else.
ResultsAreEvidence ==
  \A i \in Invs :
    /\ inv[i].caller = "returned" => \E n \in DOMAIN log : log[n].inv = i /\ log[n].outcome = inv[i].result
    /\ inv[i].caller = "uncertain" => ~Has(i, "native_finished")
    /\ \A n \in DOMAIN log : log[n].inv = i /\ log[n].disp = "cancelled" => inv[i].failure = "abort"

\* A step whose owner is no longer current writes nothing more.
NativeSilence ==
     \A i \in Natives : inv[i].abort => \A n \in DOMAIN log' \ DOMAIN log : log'[n].inv # i

\* Nothing but a helper that passed is reported as a clean analysis.
CleanIsEarned == \A i \in Quality : inv[i].result = "clean" => inv[i].leader = "exit0" /\ ~inv[i].timeout

\* No invocation waits for its process for ever.
Awaits(i) == inv[i].pc = "wait"
=============================================================================
