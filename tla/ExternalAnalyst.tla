--------------------------- MODULE ExternalAnalyst ---------------------------
(* The external Analyst: requests of the MCP listener, the operations that    *)
(* own their work beyond the socket, the process tools they run concurrently  *)
(* over one process scope, the work garbage collector that waits for them and *)
(* the stop of the application.  A process group is live, gone or past        *)
(* verification (ProcessGroups has the signals); its output drains afterwards *)
(* and only then is its record terminal.  A publication of unknown outcome    *)
(* ends the process at once and is not modelled.                              *)
EXTENDS Naturals, FiniteSets

CONSTANTS Calls,  \* bound: the requests of the run
          Procs   \* bound: the processes it may launch

BoundsAssumption == IsFiniteSet(Calls) /\ IsFiniteSet(Procs)

VARIABLES open,   \* admission of the listener, of the operations and of launches
          hold,   \* work garbage collection: none, joining, collecting
          joins,  \* the tasks awaitAcceptedOperations joins
          proc,   \* the runner's presentations
          call,   \* the requests
          clean,  \* cleanupForApplicationStop
          owner,  \* onOwnerFailure was called
          fault   \* history: something outside the code's control failed

vars == <<open, hold, joins, proc, call, clean, owner, fault>>

Tools == {"run", "start", "wait", "inspect", "kill"}   \* start: wait = false; inspect: timeout_ms = 0
Terminal == {"exited", "killed", "spoiled"}             \* spoiled: failed, its settlement rejected
Outcomes == {"none", "result", "running", "failed", "interrupted", "thrown", "refused"}
Unspawned == [st |-> "free", grp |-> "none", term |-> FALSE, listed |-> FALSE, told |-> FALSE]
Idle(p) == [at |-> "idle", tool |-> "inspect", p |-> p, out |-> "none"]
NoCleanup == [ph |-> "none", mine |-> {}, sel |-> {}, join |-> {}, calls |-> {}, bad |-> FALSE]

Init ==
  /\ open = TRUE /\ hold = "none" /\ joins = {} /\ owner = FALSE /\ fault = FALSE
  /\ proc = [p \in Procs |-> Unspawned]
  /\ call \in [Calls -> {Idle(p) : p \in Procs}]
  /\ clean = NoCleanup

Active == {c \in Calls : call[c].at \in {"waiting", "killing", "joining"}}
On(p, ats) == {c \in Active : call[c].p = p /\ call[c].at \in ats}

-----------------------------------------------------------------------------
(* Ends of calls *)

\* retireSettled
Retire(pr) == IF pr.st \in Terminal THEN [pr EXCEPT !.listed = FALSE] ELSE pr
\* An outcome was formed from the terminal record, then the record is retired.
Consume(pr) == IF pr.st \in Terminal THEN [Retire(pr) EXCEPT !.told = TRUE] ELSE Retire(pr)

Failure(c) == IF call[c].tool = "run" /\ call[c].at # "waiting" THEN "thrown" ELSE "failed"
\* What the tools return for a record that is no longer running.  A log that
\* cannot be read fails the call; a failure of an interrupted run_command is
\* not the reason of its signal, so invokeTool rethrows it.
Returns(c, pr) == IF pr.st \in {"exited", "killed"} THEN {"result", Failure(c)} ELSE {Failure(c)}

\* The continuation of invoke: a receipt for every settlement; without a
\* receipt, or without a settlement, the owner fails.
Settle(S, may(_), broken) ==
  \E f \in [S -> {"result", "running", "failed", "interrupted", "thrown"}] :
    /\ \A c \in S : f[c] \in may(c) \cup {"thrown"}
    /\ call' = [c \in Calls |-> IF c \in S THEN [call[c] EXCEPT !.at = "done", !.out = f[c]] ELSE call[c]]
    /\ owner' = (owner \/ \E c \in S : f[c] = "thrown")
    /\ fault' = (fault \/ broken \/ \E c \in S : f[c] \notin may(c) \/ (f[c] # "result" /\ "result" \in may(c)))

-----------------------------------------------------------------------------
(* Requests *)

\* The handler has validated the request and connects its transport.
Arrive(c) ==
  /\ call[c].at = "idle" /\ open
  /\ \E t \in Tools : call' = [call EXCEPT ![c].at = "parsed", ![c].tool = t]
  /\ UNCHANGED <<open, hold, joins, proc, clean, owner, fault>>

\* assertIngressAllowed, then #open
Admits == hold = "none" /\ open

Refuse(c) ==
  /\ call[c].at = "parsed" /\ ~Admits
  /\ call' = [call EXCEPT ![c].at = "done", ![c].out = "refused"]
  /\ UNCHANGED <<open, hold, joins, proc, clean, owner, fault>>

\* run_command: the launch, then the answer or the wait.
RunCommand(c) ==
  LET p == call[c].p
  IN /\ call[c].at = "parsed" /\ Admits /\ call[c].tool \in {"run", "start"}
     /\ UNCHANGED <<open, hold, joins, clean>>
     /\ \/ /\ proc[p].st = "free" /\ open
           /\ proc' = [proc EXCEPT ![p] = [Unspawned EXCEPT !.st = "running", !.grp = "live", !.listed = TRUE]]
           /\ IF call[c].tool = "run"
              THEN call' = [call EXCEPT ![c].at = "waiting"] /\ UNCHANGED <<owner, fault>>
              ELSE Settle({c}, LAMBDA d : {"running"}, FALSE)
        \/ UNCHANGED proc /\ Settle({c}, LAMBDA d : {"failed"}, FALSE)   \* cwd or launch refused

\* wait_process up to its first suspension.
WaitProcess(c) ==
  LET p == call[c].p pr == proc[p]
  IN /\ call[c].at = "parsed" /\ Admits /\ call[c].tool \in {"wait", "inspect"}
     /\ UNCHANGED <<open, hold, joins, clean>>
     /\ \/ ~pr.listed /\ UNCHANGED proc /\ Settle({c}, LAMBDA d : {"failed"}, FALSE)   \* assertOwned
        \/ pr.listed /\ pr.st = "running" /\ UNCHANGED proc
           /\ IF call[c].tool = "inspect" THEN Settle({c}, LAMBDA d : {"running"}, FALSE)
              ELSE call' = [call EXCEPT ![c].at = "waiting"] /\ UNCHANGED <<owner, fault>>
        \/ pr.listed /\ pr.st # "running" /\ proc' = [proc EXCEPT ![p] = Consume(pr)]
           /\ Settle({c}, LAMBDA d : Returns(d, pr), FALSE)

\* kill_process: the registry is asked whatever the record's status; a group it
\* no longer knows gives an empty report, so the settlement decides.
KillProcess(c) ==
  LET p == call[c].p pr == proc[p]
  IN /\ call[c].at = "parsed" /\ Admits /\ call[c].tool = "kill"
     /\ UNCHANGED <<open, hold, joins, clean>>
     /\ \/ ~pr.listed /\ UNCHANGED proc /\ Settle({c}, LAMBDA d : {"failed"}, FALSE)
        \/ pr.listed /\ pr.st = "running"
           /\ proc' = [proc EXCEPT ![p].term = @ \/ pr.grp = "live"]
           /\ call' = [call EXCEPT ![c].at = "killing"] /\ UNCHANGED <<owner, fault>>
        \/ pr.listed /\ pr.st # "running" /\ proc' = [proc EXCEPT ![p] = Consume(pr)]
           /\ Settle({c}, LAMBDA d : Returns(d, pr), FALSE)

\* The deadline of a wait: the process stays outstanding.
TimesOut(c) ==
  /\ call[c].at = "waiting" /\ Settle({c}, LAMBDA d : {"running"}, FALSE)
  /\ UNCHANGED <<open, hold, joins, proc, clean>>

\* Seeded fault: a stopped group is taken for a finished process.
KillReportsEarly(c) ==
  LET p == call[c].p pr == proc[p]
  IN /\ call[c].at = "killing" /\ UNCHANGED <<open, hold, joins, clean>>
     /\ pr.grp # "live" /\ proc' = [proc EXCEPT ![p] = Consume(pr)]
     /\ Settle({c}, LAMBDA d : {"result"}, FALSE)
\* The report of terminateGroup: stopped, then its settlement is joined; past
\* verification; or still live after SIGKILL, which leaves the record running.
KillReports(c) ==
  LET p == call[c].p pr == proc[p]
  IN /\ call[c].at = "killing" /\ UNCHANGED <<open, hold, joins, clean>>
     /\ \/ pr.grp = "gone" /\ pr.st = "running" /\ call' = [call EXCEPT ![c].at = "joining"] /\ UNCHANGED <<proc, owner, fault>>
        \/ pr.grp = "gone" /\ pr.st # "running" /\ proc' = [proc EXCEPT ![p] = Consume(pr)]
           /\ Settle({c}, LAMBDA d : Returns(d, pr), FALSE)
        \/ pr.grp = "unsure" /\ UNCHANGED proc /\ Settle({c}, LAMBDA d : Returns(d, pr), FALSE)
Outlives(c) ==
  /\ call[c].at = "killing" /\ proc[call[c].p].grp = "live"
  /\ Settle({c}, LAMBDA d : {Failure(d)}, TRUE) /\ UNCHANGED <<open, hold, joins, proc, clean>>

-----------------------------------------------------------------------------
(* Processes *)

Ends(p) ==
  /\ proc[p].grp = "live" /\ proc' = [proc EXCEPT ![p].grp = "gone"]
  /\ UNCHANGED <<open, hold, joins, call, clean, owner, fault>>
Exits(p) == ~proc[p].term /\ Ends(p)
Dies(p) == proc[p].term /\ Ends(p)

\* finalize
Finalize(p, spoiled) ==
  [proc[p] EXCEPT !.st = IF spoiled THEN "spoiled" ELSE IF proc[p].term THEN "killed" ELSE "exited"]

\* Seeded fault: a kill that waits for the settlement is not told of it.
SettlesOnly(p) == On(p, {"waiting"})
\* The calls that await terminalSettlement
Settles(p) == On(p, {"waiting", "joining"})

\* Both streams ended: the record is terminal and every waiter continues.
Drain(p) ==
  /\ proc[p].grp = "gone" /\ proc[p].st = "running" /\ UNCHANGED <<open, hold, joins, clean>>
  /\ \E spoiled \in BOOLEAN :
       LET pr == Finalize(p, spoiled)
       IN /\ proc' = [proc EXCEPT ![p] = IF Settles(p) = {} THEN pr ELSE Consume(pr)]
          /\ Settle(Settles(p), LAMBDA d : Returns(d, pr), spoiled)

\* onUnverifiable: the record is unavailable and its settlement rejects.
Lost(p) ==
  /\ proc[p].grp = "live" /\ UNCHANGED <<open, hold, joins, clean>>
  /\ proc' = [proc EXCEPT ![p].grp = "unsure", ![p].st = "unavailable"]
  /\ Settle(On(p, {"waiting"}), LAMBDA d : {Failure(d)}, TRUE)

-----------------------------------------------------------------------------
(* Work garbage collection *)

Hold ==
  /\ hold = "none" /\ open /\ hold' = "joining" /\ joins' = Active
  /\ UNCHANGED <<open, proc, call, clean, owner, fault>>
\* settleAcceptedWork ends
Joined ==
  /\ hold = "joining" /\ \A c \in joins : call[c].at = "done" /\ call[c].out # "thrown"
  /\ hold' = "collecting" /\ UNCHANGED <<open, joins, proc, call, clean, owner, fault>>
\* The collection ended, was cancelled, or a joined task rejected.
Release ==
  /\ hold # "none" /\ hold' = "none" /\ joins' = {}
  /\ UNCHANGED <<open, proc, call, clean, owner, fault>>

-----------------------------------------------------------------------------
(* The stop of the application *)

Interrupted == {c \in Calls : call[c].at = "waiting"}
Runs == {c \in Interrupted : call[c].tool = "run"}
Waits == Interrupted \ Runs

\* What an abort does to the processes: run_command kills its own, wait_process
\* only retires a terminal record.
AbortProcs ==
  [p \in Procs |-> LET pr == IF On(p, {"waiting"}) \cap Waits # {} THEN Retire(proc[p]) ELSE proc[p]
                   IN [pr EXCEPT !.term = @ \/ (pr.grp = "live" /\ On(p, {"waiting"}) \cap Runs # {})]]

\* closeAdmission of both owners: every signal is aborted.
CloseAdmission ==
  /\ open /\ open' = FALSE /\ proc' = AbortProcs
  /\ \E lost \in SUBSET Waits :   \* their receipts could not be written
       /\ call' = [c \in Calls |->
                     IF c \in Runs THEN [call[c] EXCEPT !.at = "killing"]
                     ELSE IF c \in Waits THEN [call[c] EXCEPT !.at = "done", !.out = IF c \in lost THEN "thrown" ELSE "interrupted"]
                     ELSE call[c]]
       /\ owner' = (owner \/ lost # {}) /\ fault' = (fault \/ lost # {})
  /\ UNCHANGED <<hold, joins, clean>>

\* cleanupForApplicationStop: the scope closes and its groups are terminated;
\* the active tasks are joined.
StartCleanup ==
  /\ ~open /\ clean.ph = "none"
  /\ LET sel == {p \in Procs : proc[p].grp \in {"live", "unsure"}}
     IN /\ proc' = [p \in Procs |-> [proc[p] EXCEPT !.term = @ \/ proc[p].grp = "live"]]
        /\ clean' = [ph |-> "stopping", mine |-> {p \in Procs : proc[p].listed}, sel |-> sel, join |-> {},
                     calls |-> Active, bad |-> FALSE]
  /\ UNCHANGED <<open, hold, joins, call, owner, fault>>

\* The report of the registry; a group still live after SIGKILL failed.
ClosureReports ==
  /\ clean.ph = "stopping"
  /\ LET alive == {p \in clean.sel : proc[p].grp = "live"}
         failed == alive \cup {p \in clean.sel : proc[p].grp = "unsure"}
     IN /\ clean' = [clean EXCEPT !.ph = "settling", !.bad = failed # {},
                       !.join = {p \in clean.mine : p \in clean.sel \ failed \/ proc[p].st \in Terminal}]
        /\ fault' = (fault \/ alive # {})
  /\ UNCHANGED <<open, hold, joins, proc, call, owner>>

\* allSettled of the joinable settlements
Settled == \A p \in clean.join : proc[p].st # "running"

\* closeAndTerminateDirectScope is the last consumer of terminal presentations.
ClosureEnds ==
  /\ clean.ph = "settling" /\ Settled
  /\ proc' = [p \in Procs |-> IF p \in clean.mine THEN Retire(proc[p]) ELSE proc[p]]
  /\ clean' = [clean EXCEPT !.ph = "contained", !.bad = @ \/ \E p \in clean.join : proc[p].st = "spoiled"]
  /\ UNCHANGED <<open, hold, joins, call, owner, fault>>

CleanupEnds ==
  /\ clean.ph = "contained" /\ \A c \in clean.calls : call[c].at = "done"
  /\ clean' = [clean EXCEPT !.ph = IF clean.bad \/ \E c \in clean.calls : call[c].out = "thrown" THEN "failed" ELSE "ok"]
  /\ UNCHANGED <<open, hold, joins, proc, call, owner, fault>>

CallStep(c) ==
  \/ Arrive(c) \/ Refuse(c) \/ RunCommand(c) \/ WaitProcess(c) \/ KillProcess(c)
  \/ TimesOut(c) \/ KillReports(c) \/ Outlives(c)
Next ==
  \/ \E c \in Calls : CallStep(c)
  \/ \E p \in Procs : Exits(p) \/ Dies(p) \/ Drain(p) \/ Lost(p)
  \/ Hold \/ Joined \/ Release
  \/ CloseAdmission \/ StartCleanup \/ ClosureReports \/ ClosureEnds \/ CleanupEnds

\* What the event loop, the timers and SIGKILL end by themselves.  A command
\* may run for ever, but a pipe drains once its group is gone: a descendant
\* that left the group and holds it is the case of AppLifecycle.
Fairness ==
  /\ \A c \in Calls : WF_vars(TimesOut(c)) /\ WF_vars(KillReports(c)) /\ WF_vars(Refuse(c))
  /\ \A p \in Procs : WF_vars(Dies(p)) /\ WF_vars(Drain(p))
  /\ WF_vars(StartCleanup) /\ WF_vars(ClosureReports) /\ WF_vars(ClosureEnds) /\ WF_vars(CleanupEnds)

Spec == Init /\ [][Next]_vars /\ Fairness

-----------------------------------------------------------------------------
(* Properties *)

TypeOK ==
  /\ open \in BOOLEAN /\ hold \in {"none", "joining", "collecting"} /\ joins \subseteq Calls
  /\ proc \in [Procs -> [st : Terminal \cup {"free", "running", "unavailable"}, grp : {"none", "live", "gone", "unsure"},
                         term : BOOLEAN, listed : BOOLEAN, told : BOOLEAN]]
  /\ call \in [Calls -> [at : {"idle", "parsed", "waiting", "killing", "joining", "done"}, tool : Tools, p : Procs, out : Outcomes]]
  /\ clean.ph \in {"none", "stopping", "settling", "contained", "ok", "failed"} /\ owner \in BOOLEAN /\ fault \in BOOLEAN

\* A process that runs stays in the list, so that a wait, a kill and the
\* garbage collector's protection of its logs find it, whatever call gave up.
RunningIsListed == \A p \in Procs : proc[p].st = "running" => proc[p].listed

\* A process id disappears only after some call formed the outcome of its
\* terminal record, or when its scope closed.
OutcomeNotLost == \A p \in Procs : proc[p].st \in Terminal /\ ~proc[p].listed => proc[p].told \/ clean.ph # "none"

\* A terminal result is given only for a group that is gone and whose output
\* ended: of concurrent waiters, killers and an interrupted run_command alike.
ResultIsFinal ==
  \A c \in Calls : call[c].out = "result" => proc[call[c].p].grp = "gone" /\ proc[call[c].p].st \in {"exited", "killed"}

\* A wait_process that times out or is interrupted leaves the process alone;
\* only a run_command interrupted with it may kill what it started.
WaitLeavesProcess ==
     \A c \in Calls : call[c].tool = "wait" /\ call[c].at = "waiting" /\ call'[c].out \in {"running", "interrupted"}
        => \/ proc'[call[c].p] = proc[call[c].p]
           \/ proc'[call[c].p].listed /\ \E r \in On(call[c].p, {"waiting"}) : call[r].tool = "run"

\* The owner of the operations fails only when something failed: no overlap of
\* calls, consumption by another call or ordinary stop does it.
OwnerFailureHasCause == owner => fault

\* Work is collected only while no external call executes.
CollectsAlone == hold = "collecting" => Active = {}

\* A cleanup that succeeded left no process running and no call executing, and
\* none starts afterwards.
CleanupContains == clean.ph = "ok" => Active = {} /\ \A p \in Procs : proc[p].grp \notin {"live", "unsure"}

\* No admitted call lasts for ever.
CallLasts(c) == call[c].at \in {"waiting", "killing", "joining"}

\* After admission closed the cleanup comes to its end.
Cleaning == ~open /\ clean.ph \notin {"ok", "failed"}

=============================================================================
