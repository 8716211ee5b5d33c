----------------------------- MODULE McpManager -----------------------------
(* McpManager for one server name: its definitions (the operator's, which may *)
(* be edited at any time, or one registered by an agent), the runtime the     *)
(* name owns, and lifecycle calls of two callers that interleave at their     *)
(* awaits.  A runtime is what McpRuntime shows of it: it starts, closes at    *)
(* once when stopped, and is contained or fails to be.                        *)
EXTENDS Naturals, FiniteSets

CONSTANTS Callers,      \* HTTP requests and agents' tools
          MaxRuntimes,  \* bound: runtimes created
          MaxRevisions  \* bound: revisions of the definition

McpManagerAssumption == MaxRuntimes \in Nat \ {0} /\ MaxRevisions \in Nat \ {0}

VARIABLES def,       \* the definition: source and revision, 0 without one
          rev,       \* revisions used
          rt,        \* runtimes
          own,       \* #runtimes.get(name), 0 without one
          made,      \* runtimes created
          call,      \* lifecycle calls: operation, step, runtime they hold
          admission  \* admissionOpen

vars == <<def, rev, rt, own, made, call, admission>>

Runtimes == 1..MaxRuntimes
\* open: admission; handle: a process or connection; op: an admitted start;
\* cont: containment; joined: a stop waits for it, which alone sets contained.
Fresh(r) == [rev |-> r, open |-> TRUE, handle |-> FALSE, op |-> FALSE, ready |-> FALSE, cont |-> "none", joined |-> FALSE, contained |-> FALSE]
NoCall == [op |-> "none", step |-> "none", r |-> 0, restart |-> FALSE]

Init ==
  /\ def \in {[src |-> "operator", rev |-> 1], [src |-> "agent", rev |-> 1]} /\ rev = 1
  /\ rt = [i \in Runtimes |-> Fresh(0)] /\ own = 0 /\ made = 0 /\ call = [c \in Callers |-> NoCall] /\ admission = TRUE

\* A call whose awaited stop has settled continues in the same turn of the event
\* loop, before any new call: the one that began the stop first.
Resumes(c) == call[c].step = "stopping" /\ (rt[call[c].r].contained \/ rt[call[c].r].cont = "failed") /\ ~rt[call[c].r].op
Turn == admission /\ \A c \in Callers : ~Resumes(c)
Free(c) == call[c].op = "none"
\* A call ends, answered or rejected; its caller may call again.
Ended(c) == call' = [call EXCEPT ![c] = NoCall]
Wait(c, op, step, r, restart) == call' = [call EXCEPT ![c] = [op |-> op, step |-> step, r |-> r, restart |-> restart]]

\* closeAdmission of a runtime; stop enters it before its first await.
CloseAdmission(f, i) == IF f[i].cont = "none" THEN [f EXCEPT ![i].open = FALSE, ![i].ready = FALSE, ![i].cont = "pending"] ELSE f
Close(f, i) == [CloseAdmission(f, i) EXCEPT ![i].joined = TRUE]
Own == IF own = 0 THEN Fresh(0) ELSE rt[own]

-----------------------------------------------------------------------------
(* Definitions *)

\* The operator edits the configuration; no call is involved.
EditConfig == /\ def.src = "operator" /\ rev < MaxRevisions /\ rev' = rev + 1 /\ def' = [def EXCEPT !.rev = rev + 1]
              /\ UNCHANGED <<rt, own, made, call, admission>>
Register ==
  /\ Turn /\ def.src = "none" /\ rev < MaxRevisions /\ (own = 0 \/ Own.contained)
  /\ rev' = rev + 1 /\ def' = [src |-> "agent", rev |-> rev + 1] /\ UNCHANGED <<rt, own, made, call, admission>>
\* canReplaceDefinition
CanReplace(r) == r.contained \/ (r.open /\ ~r.handle /\ ~r.op)
Replace ==
  /\ Turn /\ def.src = "agent" /\ rev < MaxRevisions /\ (own = 0 \/ CanReplace(Own))
  /\ rev' = rev + 1 /\ def' = [def EXCEPT !.rev = rev + 1] /\ own' = 0
  /\ UNCHANGED <<rt, made, call, admission>>

\* The runtime is fenced in the step that withdraws the definition.
Fence(c) == IF own = 0 \/ Own.contained THEN Ended(c) /\ UNCHANGED rt
            ELSE rt' = Close(rt, own) /\ Wait(c, "unregister", "stopping", own, FALSE)
Unregister(c) ==
  /\ Turn /\ Free(c) /\ def.src = "agent" /\ def' = [src |-> "none", rev |-> 0] /\ Fence(c)
  /\ UNCHANGED <<rev, own, made, admission>>

-----------------------------------------------------------------------------
(* Lifecycle calls *)

\* createRuntime, set, start up to its first await; at the bound the call ends.
Create(c) ==
  IF made = MaxRuntimes THEN Ended(c) /\ UNCHANGED <<rt, own, made>>
  ELSE /\ made' = made + 1 /\ own' = made + 1
       /\ rt' = [rt EXCEPT ![made + 1] = [Fresh(def.rev) EXCEPT !.op = TRUE, !.handle = TRUE]]
       /\ Wait(c, "start", "starting", made + 1, FALSE)
Same == UNCHANGED <<def, rev, admission>>

\* Seeded fault: whatever runtime is not ready is replaced by a new one.
StartAnew(c) == IF own # 0 /\ Own.ready THEN Ended(c) /\ UNCHANGED <<rt, own, made>> ELSE Create(c)
\* startServer from its first line: conflicts and busy owners are refused, an
\* operator's changed configuration stops the idle runtime first.
StartCall(c) ==
  IF def.src = "none" THEN Ended(c) /\ UNCHANGED <<rt, own, made>>
  ELSE IF own = 0 \/ Own.contained THEN Create(c)
  ELSE IF Own.rev # def.rev /\ (def.src = "agent" \/ Own.handle \/ ~Own.open) THEN Ended(c) /\ UNCHANGED <<rt, own, made>>
  ELSE IF Own.rev # def.rev THEN rt' = Close(rt, own) /\ Wait(c, "start", "stopping", own, FALSE) /\ UNCHANGED <<own, made>>
  ELSE IF Own.ready \/ Own.handle \/ ~Own.open THEN Ended(c) /\ UNCHANGED <<rt, own, made>>
  ELSE rt' = [rt EXCEPT ![own].op = TRUE, ![own].handle = TRUE] /\ Wait(c, "start", "starting", own, FALSE) /\ UNCHANGED <<own, made>>
StartServer(c) == Turn /\ Free(c) /\ StartCall(c) /\ Same
\* The idle runtime with the old configuration is contained: a new one is made
\* for the configuration read before the wait.
StartAfterStop(c) ==
  /\ call[c].op = "start" /\ call[c].step = "stopping" /\ rt[call[c].r].contained /\ Same
  /\ IF admission THEN Create(c) ELSE Ended(c) /\ UNCHANGED <<rt, own, made>>

\* stopServer and restartServer, which waits for the stop, looks at the owner
\* again and then starts.
StopServer(c, restart) ==
  /\ Turn /\ Free(c) /\ own # 0 /\ Same /\ UNCHANGED <<own, made>>
  /\ IF Own.contained /\ ~restart THEN Ended(c) /\ UNCHANGED rt
     ELSE rt' = (IF Own.contained THEN rt ELSE Close(rt, own)) /\ Wait(c, "stop", "stopping", own, restart)
StopEnds(c) ==
  /\ call[c].op # "start" /\ Resumes(c) /\ Same
  /\ \A d \in Callers : ~(call[d].op = "start" /\ Resumes(d))
  /\ IF call[c].restart /\ rt[call[c].r].contained /\ admission /\ own = call[c].r THEN StartCall(c)
     ELSE Ended(c) /\ UNCHANGED <<rt, own, made>>
StartStopFails(c) ==
  /\ call[c].op = "start" /\ call[c].step = "stopping" /\ rt[call[c].r].cont = "failed" /\ ~rt[call[c].r].op
  /\ Ended(c) /\ Same /\ UNCHANGED <<rt, own, made>>

\* The start of runtime i ends: ready, or closed by its own failure, its abort
\* or the stop of another call.
StartFails(c) ==
  /\ call[c].step = "starting" /\ rt[call[c].r].open /\ rt' = Close(rt, call[c].r) /\ Same /\ UNCHANGED <<own, made, call>>
StartEnds(c) ==
  /\ call[c].step = "starting" /\ Same /\ UNCHANGED <<own, made>> /\ Ended(c)
  /\ LET i == call[c].r IN
     \/ rt[i].open /\ rt' = [rt EXCEPT ![i].op = FALSE, ![i].ready = TRUE]
     \/ rt[i].cont \notin {"none", "pending"} /\ rt' = [rt EXCEPT ![i].op = FALSE]
\* Containment of a closed runtime reports.
Contain(i) ==
  /\ rt[i].cont = "pending" /\ UNCHANGED <<own, made, call>> /\ Same
  /\ rt' \in {[rt EXCEPT ![i].cont = "ok"], [rt EXCEPT ![i].cont = "failed"]}
Contained(i) == /\ rt[i].cont = "ok" /\ rt[i].joined /\ ~rt[i].op /\ ~rt[i].contained
                /\ rt' = [rt EXCEPT ![i].contained = TRUE, ![i].handle = FALSE] /\ UNCHANGED <<own, made, call>> /\ Same
\* The server process ends by itself: its runtime closes, drops the handle and
\* requires a stop before the name starts again.
ServerDies(i) == /\ rt[i].open /\ rt[i].handle /\ ~rt[i].op /\ rt' = [CloseAdmission(rt, i) EXCEPT ![i].handle = FALSE]
                 /\ UNCHANGED <<own, made, call>> /\ Same

\* reconcilePersistedConfig runs once, at boot, before any caller: a runtime
\* for the definition, started when it starts by itself.
Reconcile ==
  /\ admission /\ own = 0 /\ made = 0 /\ def.src = "operator" /\ \A c \in Callers : Free(c)
  /\ own' = 1 /\ made' = 1 /\ \E auto \in BOOLEAN : rt' = [rt EXCEPT ![1] = [Fresh(def.rev) EXCEPT !.ready = auto, !.handle = auto]]
  /\ UNCHANGED <<def, rev, call, admission>>

\* cleanupForApplicationStop closes and stops what the name owns; the scope
\* tree terminates every process below it.
CloseManager == /\ admission /\ admission' = FALSE /\ rt' = (IF own = 0 THEN rt ELSE Close(rt, own))
                /\ UNCHANGED <<def, rev, own, made, call>>

-----------------------------------------------------------------------------
Next ==
  \/ EditConfig \/ Register \/ Replace \/ Reconcile \/ CloseManager
  \/ \E c \in Callers : \/ Unregister(c) \/ StartServer(c) \/ StartAfterStop(c) \/ StopEnds(c) \/ StartStopFails(c) \/ StartEnds(c) \/ StartFails(c)
                        \/ \E restart \in BOOLEAN : StopServer(c, restart)
  \/ \E i \in Runtimes : Contain(i) \/ Contained(i) \/ ServerDies(i)
Spec ==
  /\ Init /\ [][Next]_vars /\ \A c \in Callers : WF_vars(StartAfterStop(c) \/ StopEnds(c) \/ StartStopFails(c) \/ StartEnds(c))
  /\ \A i \in Runtimes : WF_vars(Contain(i)) /\ WF_vars(Contained(i))

-----------------------------------------------------------------------------
(* Properties *)

\* A server process or connection belongs to the runtime its name owns: no call
\* replaces a runtime that is not contained, so none can be lost to stopServer.
NoOrphan == \A i \in Runtimes : rt[i].handle => own = i

\* An open runtime of an agent's definition runs the definition as published:
\* it is neither withdrawn nor replaced under a running server.
RunsItsDefinition == own # 0 /\ Own.open /\ Own.handle => def.src # "none" /\ (def.src = "agent" => Own.rev = def.rev)

\* A closed manager starts nothing: calls that wait for a stop find it closed.
NothingStartsClosed == ~admission => \A i \in Runtimes : rt'[i].open /\ rt'[i].handle => rt[i].open /\ rt[i].handle

\* Every lifecycle call is answered, whatever the other caller stops meanwhile.
CallWaits(c) == call[c].op # "none"
=============================================================================
