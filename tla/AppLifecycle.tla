---------------------------- MODULE AppLifecycle ----------------------------
(* startApp with its terminal coordinator, and the direct mutations (init,    *)
(* reset) that compete with it for the lifecycle lock of one project.  The    *)
(* application comes up in phases, may be stopped in each of them by a        *)
(* signal, an owner failure or an acknowledged restart, and goes down through *)
(* cleanup leaves in reverse order of registration, each bounded in time.     *)
EXTENDS Naturals, FiniteSets, Sequences, SequencesExt

CONSTANTS Held    \* a process that left its group may keep an output pipe of a stopped one open

HeldAssumption == Held \in BOOLEAN

VARIABLES app,    \* the application: phase, flags, leaves, exit
          dir,    \* the direct mutation: phase, aborted, exit
          lock,   \* the holder of the lifecycle lock
          live,   \* owners that have live process groups
          root    \* the root card: absent, or who published it

vars == <<app, dir, lock, live, root>>

Idle == [ph |-> "none", abort |-> FALSE, closing |-> FALSE, leaves |-> <<>>, tried |-> <<>>, codes |-> <<>>, exit |-> "none", late |-> FALSE]
Init ==
  /\ app = Idle /\ dir = [ph |-> "none", abort |-> FALSE, exit |-> "none"] /\ lock = "free" /\ live = {} /\ root = "absent"

\* The lock is taken first, its release registered first.
Acquire ==
  /\ app.ph = "none" /\ lock = "free" /\ lock' = "app"
  /\ app' = [app EXCEPT !.ph = "environment", !.leaves = <<"lifecycle-lock", "process-admission", "signal-handlers">>]
  /\ UNCHANGED <<dir, live, root>>

Launch(who) == live' = live \cup {who}
Up(ph) == app.exit = "none" /\ app.ph = ph
Step(ph) == app' = [app EXCEPT !.ph = ph] /\ UNCHANGED <<dir, lock>>

\* assertInitializerCurrent
InitializerCurrent == ~app.abort /\ ~app.closing /\ lock = "app"

\* loadEnvironment; a root card that is absent is published, after the managed
\* Git step when a policy is configured.
LoadEnvironment == Up("environment") /\ InitializerCurrent /\ Step(IF root = "absent" THEN "commission" ELSE "compose") /\ UNCHANGED <<live, root>>
Commission == Up("commission") /\ InitializerCurrent /\ Launch("app") /\ Step("publish") /\ UNCHANGED root
CommissionEnds == Up("publish") /\ "app" \in live /\ live' = live \ {"app"} /\ UNCHANGED <<app, dir, lock, root>>
Publish == Up("publish") /\ InitializerCurrent /\ root' = "app" /\ Step("compose") /\ UNCHANGED live

\* createServerServices registers the leaves of the server; the runtime, the
\* MCP servers and the listener start behind awaits.
ServerLeaves == <<"fastify", "runtime", "analyst", "oversight", "mcp">>
Compose ==
  /\ Up("compose") /\ InitializerCurrent
  /\ app' = [app EXCEPT !.ph = "serve", !.leaves = @ \o ServerLeaves]
  /\ UNCHANGED <<dir, lock, live, root>>
\* publishRuntimeControlEndpoint is the last step of the start.
Serve == Up("serve") /\ InitializerCurrent /\ Step("running") /\ UNCHANGED <<live, root>>
Spawn == app.exit = "none" /\ app.ph \in {"serve", "running"} /\ ~app.closing /\ Launch("app") /\ UNCHANGED <<app, dir, lock, root>>

\* A phase of the start fails, or finds itself aborted: containment first.
StartFails ==
  /\ app.exit = "none" /\ app.ph \in {"environment", "commission", "publish", "compose", "serve"}
  /\ Step("contain") /\ UNCHANGED <<live, root>>

-----------------------------------------------------------------------------
(* Termination *)

\* stop: the closers run at once; who asks first decides the exit code.
Stop(code) == [app EXCEPT !.closing = TRUE, !.codes = Append(@, code)]

Signal ==
  /\ app.exit = "none" /\ lock = "app" /\ app.codes = <<>> /\ ~app.abort
  /\ app' = IF app.ph = "running" THEN Stop("0") ELSE [app EXCEPT !.abort = TRUE]
  /\ UNCHANGED <<dir, lock, live, root>>
OwnerFails == /\ app.exit = "none" /\ app.ph \in {"serve", "running"} /\ Len(app.codes) < 2 /\ app' = Stop("1")
              /\ UNCHANGED <<dir, lock, live, root>>
Restart == /\ Up("running") /\ Len(app.codes) < 2 /\ app' = Stop("75") /\ UNCHANGED <<dir, lock, live, root>>

\* containProcesses as the failed start awaits it, without a timeout; a failure exits
\* with the lock, and a held pipe keeps it waiting for good.
ContainStart ==
  /\ Up("contain") /\ UNCHANGED <<dir, lock, root>>
  /\ \/ live' = live \ {"app"} /\ app' = [Stop("1") EXCEPT !.ph = "down"]
     \/ "app" \in live /\ app' = [app EXCEPT !.exit = "1"] /\ UNCHANGED live
     \/ Held /\ "app" \in live /\ app' = [app EXCEPT !.ph = "hung"] /\ UNCHANGED live

\* Leaves run in reverse order of registration.
NextLeaf == Last(app.leaves)
Tried(leaf) == [app EXCEPT !.leaves = SelectSeq(@, LAMBDA l : l # leaf), !.tried = Append(@, leaf)]

\* settleCleanupLeafWithTimeout: fulfilled, rejected or timed out, the next leaf
\* follows.
LeafEnds(leaf) == app' = Tried(leaf)

\* The cleanup of a leaf.  Containment that fails exits with the lock; one that
\* hangs on a held pipe is left behind by its timeout, whatever became of the
\* groups.
Leaf ==
  /\ app.exit = "none" /\ app.closing /\ app.leaves # <<>> /\ UNCHANGED <<dir, root>>
  /\ LET leaf == NextLeaf
     IN CASE leaf = "lifecycle-lock" -> /\ lock = "app" /\ UNCHANGED live
                                        /\ \/ lock' \in {"free", "app"} /\ app' = Tried(leaf) \* an ordinary failure leaves it
                                           \/ UNCHANGED lock /\ app' = [app EXCEPT !.exit = "fatal"]
          [] leaf = "process-admission" ->
               /\ UNCHANGED lock
               /\ \/ live' = live \ {"app"} /\ app' = Tried(leaf)
                  \/ "app" \in live /\ app' = [app EXCEPT !.exit = "1"] /\ UNCHANGED live
                  \/ Held /\ "app" \in live /\ app' = [Tried(leaf) EXCEPT !.late = TRUE] /\ UNCHANGED live
          [] OTHER -> LeafEnds(leaf) /\ UNCHANGED <<lock, live>>

\* The first to have asked for the stop exits with its code.
Exit ==
  /\ app.exit = "none" /\ app.closing /\ app.leaves = <<>>
  /\ app' = [app EXCEPT !.exit = Head(app.codes)] /\ UNCHANGED <<dir, lock, live, root>>

\* A publication whose outcome is unknown exits at once and keeps the lock.
\* A death of the process keeps it, too.
Crash == app.exit = "none" /\ lock = "app" /\ app' = [app EXCEPT !.exit = "crash"] /\ UNCHANGED <<dir, lock, live, root>>
Fatal == /\ app.exit = "none" /\ app.ph \in {"publish", "serve", "running"} /\ lock = "app"
         /\ app' = [app EXCEPT !.exit = "fatal"] /\ UNCHANGED <<dir, lock, live, root>>

-----------------------------------------------------------------------------
(* withDirectMutationComposition *)

DirAt(ph) == dir.exit = "none" /\ dir.ph = ph
DirAcquire == /\ dir.ph = "none" /\ lock = "free" /\ lock' = "direct" /\ dir' = [dir EXCEPT !.ph = "operate"]
              /\ UNCHANGED <<app, live, root>>
\* The operation commissions the root again and publishes it.
DirOperate == /\ DirAt("operate") /\ ~dir.abort /\ Launch("direct") /\ dir' = [dir EXCEPT !.ph = "publish"] /\ root' = "absent"
              /\ UNCHANGED <<app, lock>>
DirPublish == /\ DirAt("publish") /\ ~dir.abort /\ root' = "direct" /\ dir' = [dir EXCEPT !.ph = "settle"]
              /\ UNCHANGED <<app, lock, live>>
DirFails == /\ dir.exit = "none" /\ dir.ph \in {"operate", "publish"} /\ dir' = [dir EXCEPT !.ph = "settle"]
            /\ UNCHANGED <<app, lock, live, root>>
DirFatal == /\ DirAt("publish") /\ dir' = [dir EXCEPT !.exit = "fatal"] /\ UNCHANGED <<app, lock, live, root>>
DirSignal == /\ dir.exit = "none" /\ dir.ph \in {"operate", "publish"} /\ ~dir.abort /\ dir' = [dir EXCEPT !.abort = TRUE]
             /\ UNCHANGED <<app, lock, live, root>>

\* settle: containment, then the release; failed containment keeps the lock.
DirSettle ==
  /\ DirAt("settle") /\ UNCHANGED <<app, root>>
  /\ \/ live' = live \ {"direct"} /\ lock' = "free" /\ dir' = [dir EXCEPT !.exit = "done"]
     \/ "direct" \in live /\ dir' = [dir EXCEPT !.exit = "failed"] /\ UNCHANGED <<live, lock>>

Start == Acquire \/ LoadEnvironment \/ Commission \/ CommissionEnds \/ Publish \/ Compose \/ Serve \/ Spawn \/ StartFails
Terminate == Signal \/ OwnerFails \/ Restart \/ ContainStart \/ Leaf \/ Exit \/ Fatal \/ Crash
Direct == DirAcquire \/ DirOperate \/ DirPublish \/ DirFails \/ DirFatal \/ DirSignal \/ DirSettle
Next == Start \/ Terminate \/ Direct

\* Phases and leaves end: every one is bounded by a timeout of its own, and an
\* aborted phase of the start fails.
Fairness == WF_vars(LoadEnvironment \/ Commission \/ Publish \/ Compose \/ Serve \/ StartFails) /\ WF_vars(ContainStart) /\ WF_vars(Leaf) /\ WF_vars(Exit)
Spec == Init /\ [][Next]_vars /\ Fairness

-----------------------------------------------------------------------------
\* The processes of the application and those of a direct mutation never live
\* side by side on one project: whoever releases the lock has contained its own.
OwnersExclude == Cardinality(live) <= 1

\* The lock is released after every other leaf has been tried, and a stop that
\* ends with a code has tried them all, however many of them fail.
LockReleasedLast ==
  /\ app.ph # "none" /\ lock # "app" => app.leaves = <<>>
  /\ app.exit \in {"0", "75"} => app.tried # <<>> /\ Last(app.tried) = "lifecycle-lock" /\ Len(app.tried) = 3 + Len(ServerLeaves)

\* A signal during the start is never forgotten: the root card is not published
\* any more and the application does not come up.
SignalStopsStart == app.abort => (root' # "app" \/ root = "app") /\ app'.ph # "running"

\* Whoever asks for the end gets it: a signal, an owner failure or a restart, where
\* no pipe is held.
Stopping == (app.abort \/ app.closing) /\ app.exit = "none"

=============================================================================
