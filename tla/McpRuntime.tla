----------------------------- MODULE McpRuntime -----------------------------
(* McpServerRuntime with its connection: start, catalog refresh and tool      *)
(* calls as admitted operations that share one stdio exchange queue (or run   *)
(* side by side over streamable HTTP), their deadlines and aborts, the        *)
(* observer of the server process, closure, containment and stop.             *)
EXTENDS Naturals, Sequences, FiniteSets, SequencesExt

CONSTANTS Calls,       \* tool calls
          MaxCatalogs  \* bound: published catalogs

McpRuntimeAssumption == MaxCatalogs \in Nat \ {0}

VARIABLES stdio,    \* transport of the configuration
          srv,      \* admission, ready, contained, containment, handle, cause
          catalog,  \* published catalog, 0 without one
          made,     \* catalogs published so far
          proc,     \* the server process
          observer, \* the observer of the process is an operation too
          op,       \* operations: state, abort, catalog the caller discovered
          queue,    \* stdioExchangeQueue
          stopper,  \* a caller of stop
          stale,    \* a call was dispatched against another catalog
          left,     \* an exchange was abandoned on the wire
          reused    \* an exchange began on a connection with an abandoned one

vars == <<stdio, srv, catalog, made, proc, observer, op, queue, stopper, stale, left, reused>>

Ops == Calls \cup {"start", "refresh"}
NoOp == [st |-> "idle", abort |-> FALSE, catalog |-> 0]
\* Operations of the runtime's set; a completion that joins stop is not one.
Active(o) == op[o].st \in {"queued", "wire", "closing"}

Init ==
  /\ stdio \in BOOLEAN /\ srv = [open |-> TRUE, ready |-> FALSE, contained |-> FALSE, cont |-> "none", handle |-> FALSE, cause |-> "none"]
  /\ catalog = 0 /\ made = 0 /\ proc = "none" /\ observer = FALSE /\ op = [o \in Ops |-> NoOp] /\ queue = <<>>
  /\ stopper = "none" /\ stale = FALSE /\ left = FALSE /\ reused = FALSE

\* closeAdmission: once.  All controllers abort; the containment of the scope
\* begins; an exchange on the wire is abandoned.
CloseAdmission(s, ops, cause) ==
  IF s.cont # "none" THEN srv' = s /\ op' = ops /\ UNCHANGED <<catalog, left>>
  ELSE /\ srv' = [s EXCEPT !.open = FALSE, !.ready = FALSE, !.cont = "pending", !.cause = cause]
       /\ op' = [o \in Ops |-> IF ops[o].st \in {"queued", "wire"} THEN [ops[o] EXCEPT !.abort = TRUE] ELSE ops[o]]
       /\ catalog' = 0 /\ left' = (left \/ (stdio /\ \E o \in Ops : ops[o].st = "wire"))
Idle == UNCHANGED <<stdio, made, stopper, stale, reused>>

\* Exchange o begins on the connection.
Begins == reused' = (reused \/ (stdio /\ left))

\* startStdio launches the process and observes it, or cannot launch it.
StartStdio ==
  \/ /\ op' = [op EXCEPT !["start"].st = "wire"] /\ srv' = [srv EXCEPT !.handle = TRUE]
     /\ proc' = "running" /\ observer' = TRUE /\ UNCHANGED <<catalog, left>>
  \/ CloseAdmission(srv, [op EXCEPT !["start"].st = "closing"], "intentional") /\ UNCHANGED <<proc, observer>>
\* A session over HTTP has no process; initialize is its first exchange.
StartHttp == op' = [op EXCEPT !["start"].st = "wire"] /\ srv' = [srv EXCEPT !.handle = TRUE] /\ UNCHANGED <<catalog, left, proc, observer>>
Start ==
  /\ srv.open /\ op["start"].st = "idle" /\ ~srv.handle /\ (IF stdio THEN StartStdio ELSE StartHttp)
  /\ UNCHANGED <<stdio, made, queue, stopper, stale, reused>>

\* refreshCatalog and invokeTool, with a catalog the caller discovered earlier, are
\* admitted: stdio exchanges queue, HTTP requests are on the wire at once.
AdmitQueued(o) == /\ \E known \in (IF o = "refresh" THEN {catalog} ELSE 1..catalog) : op' = [op EXCEPT ![o] = [NoOp EXCEPT !.st = "queued", !.catalog = known]]
                  /\ queue' = Append(queue, o)
AdmitHttp(o) == op' = [op EXCEPT ![o] = [NoOp EXCEPT !.st = "wire", !.catalog = catalog]] /\ UNCHANGED queue
Admit(o) ==
  /\ o # "start" /\ srv.open /\ srv.ready /\ op[o].st = "idle" /\ (IF stdio THEN AdmitQueued(o) ELSE AdmitHttp(o))
  /\ UNCHANGED <<stdio, srv, catalog, made, proc, observer, stopper, stale, left, reused>>

\* admitDispatch, or the first lines of list, when the queue reaches o.
Dispatchable(o) == srv.open /\ ~op[o].abort /\ srv.ready /\ (o = "refresh" \/ (op[o].catalog = catalog /\ proc = "running"))
\* The queue goes on when the previous exchange, with its containment, is over.
WireFree == \A o \in Ops : op[o].st # "wire" /\ ~(o \in Calls /\ op[o].st = "closing")
Dispatch ==
  /\ queue # <<>> /\ WireFree
  /\ LET o == Head(queue) IN
     /\ queue' = Tail(queue)
     /\ IF Dispatchable(o)
        THEN op' = [op EXCEPT ![o].st = "wire"] /\ Begins /\ stale' = (stale \/ (o # "refresh" /\ op[o].catalog # catalog))
        ELSE op' = [op EXCEPT ![o].st = IF o = "refresh" /\ ~srv.open THEN "closing" ELSE "ended"] /\ UNCHANGED <<reused, stale>>
  /\ UNCHANGED <<stdio, srv, catalog, made, proc, observer, stopper, left>>

\* assertAdmissionOpen, publishCatalog.
Publish(o) ==
  IF srv.open /\ ~op[o].abort
  THEN /\ srv' = [srv EXCEPT !.ready = TRUE] /\ catalog' = made + 1 /\ made' = made + 1
       /\ op' = [op EXCEPT ![o].st = "ended"] /\ UNCHANGED left
  ELSE op' = [op EXCEPT ![o].st = "closing"] /\ UNCHANGED <<srv, catalog, made, left>>
\* The server answers; a call answered on stdio is complete before anything
\* else can fence it, an aborted stdio exchange is off the wire.
Answer(o) ==
  /\ op[o].st = "wire" /\ (stdio => srv.open /\ ~op[o].abort) /\ made < MaxCatalogs
  /\ IF o \in Calls THEN op' = [op EXCEPT ![o].st = "ended"] /\ UNCHANGED <<srv, catalog, made, left>> ELSE Publish(o)
  /\ UNCHANGED <<stdio, proc, observer, queue, stopper, stale, reused>>
\* The server rejects: a start closes, a refresh keeps the last catalog.
Reject(o) ==
  /\ op[o].st = "wire" /\ (stdio => srv.open /\ ~op[o].abort)
  /\ IF o = "start" THEN CloseAdmission(srv, [op EXCEPT ![o].st = "closing"], "intentional")
     ELSE op' = [op EXCEPT ![o].st = "ended"] /\ UNCHANGED <<srv, catalog, left>>
  /\ Idle /\ UNCHANGED <<proc, observer, queue>>

\* The abort listener of the exchange: whatever is on a stdio wire closes.
Invalidates(o) == o = "start" \/ stdio
\* The caller aborts, or the deadline of the operation passes.
Abort(o) ==
  /\ Active(o) /\ ~op[o].abort /\ op[o].st # "closing"
  /\ LET ops == [op EXCEPT ![o].abort = TRUE]
     IN IF op[o].st = "wire" /\ Invalidates(o) THEN CloseAdmission(srv, ops, "intentional")
        ELSE op' = ops /\ left' = (left \/ (stdio /\ op[o].st = "wire")) /\ UNCHANGED <<srv, catalog>>
  /\ Idle /\ UNCHANGED <<proc, observer, queue>>
\* An aborted exchange leaves the wire; when the runtime is closed it waits
\* for the containment.
Aborted(o) ==
  /\ op[o].st = "wire" /\ op[o].abort
  /\ op' = [op EXCEPT ![o].st = IF srv.open \/ (~stdio /\ o \in Calls) THEN "ended" ELSE "closing"]
  /\ Idle /\ UNCHANGED <<srv, catalog, proc, observer, queue, left>>

\* onFailure of the stdio connection.
TransportFails ==
  /\ stdio /\ srv.handle /\ srv.open /\ CloseAdmission(srv, op, "transport") /\ Idle /\ UNCHANGED <<proc, observer, queue>>
\* The process ends by itself; the observer closes an open runtime and takes
\* the handle away, or finds the closure of somebody else.
ProcessExits == proc = "running" /\ proc' = "exited" /\ Idle /\ UNCHANGED <<srv, catalog, observer, op, queue, left>>
Observe ==
  /\ observer /\ proc # "running" /\ observer' = FALSE
  /\ IF srv.open THEN CloseAdmission([srv EXCEPT !.handle = FALSE], op, "transport") ELSE UNCHANGED <<srv, catalog, op, left>>
  /\ Idle /\ UNCHANGED <<proc, queue>>
\* An intentional closure, or failed containment, aborts the observer.
ObserverLeaves ==
  /\ observer /\ (srv.cause = "intentional" \/ srv.cont = "failed") /\ observer' = FALSE /\ Idle /\ UNCHANGED <<srv, catalog, proc, op, queue, left>>

\* closeAndTerminateDirectScope reports.
Contain ==
  /\ srv.cont = "pending"
  /\ \/ srv' = [srv EXCEPT !.cont = "ok"] /\ proc' = IF proc = "running" THEN "gone" ELSE proc
     \/ srv' = [srv EXCEPT !.cont = "failed"] /\ proc = "running" /\ UNCHANGED proc
  /\ Idle /\ UNCHANGED <<catalog, observer, op, queue, left>>
\* An operation that closed the runtime has waited for the containment; its
\* completion joins stop outside the operation.
Closed(o) ==
  /\ op[o].st = "closing" /\ srv.cont \notin {"none", "pending"}
  /\ op' = [op EXCEPT ![o].st = IF srv.cont = "ok" THEN "joining" ELSE "ended"]
  /\ Idle /\ UNCHANGED <<srv, catalog, proc, observer, queue, left>>

Stop == /\ stopper = "none" /\ stopper' = "waiting"
        /\ IF srv.contained THEN UNCHANGED <<srv, op, catalog, left>> ELSE CloseAdmission(srv, op, "intentional")
        /\ UNCHANGED <<stdio, made, proc, observer, queue, stale, reused>>

\* What stop awaits: containment, and every operation.
Settled == srv.cont \notin {"none", "pending"} /\ ~observer /\ \A o \in Ops : ~Active(o)
Stopped(who) ==
  /\ (srv.contained \/ Settled)
  /\ srv' = IF srv.cont = "ok" THEN [srv EXCEPT !.contained = TRUE, !.handle = FALSE, !.ready = FALSE] ELSE srv
  /\ IF who = "caller" THEN stopper = "waiting" /\ stopper' = "answered" /\ UNCHANGED op
     ELSE op[who].st = "joining" /\ op' = [op EXCEPT ![who].st = "ended"] /\ UNCHANGED stopper
  /\ UNCHANGED <<stdio, catalog, made, proc, observer, queue, stale, left, reused>>
\* A finished operation may be called again.
Again(o) == /\ o # "start" /\ op[o].st = "ended" /\ made < MaxCatalogs /\ op' = [op EXCEPT ![o] = NoOp]
            /\ Idle /\ UNCHANGED <<srv, catalog, proc, observer, queue, left>>

-----------------------------------------------------------------------------
Progress(o) == Aborted(o) \/ Closed(o) \/ Stopped(o)
Next ==
  \/ Start \/ Dispatch \/ TransportFails \/ ProcessExits \/ Observe \/ ObserverLeaves \/ Contain \/ Stop \/ Stopped("caller")
  \/ \E o \in Ops : Admit(o) \/ Answer(o) \/ Reject(o) \/ Abort(o) \/ Progress(o) \/ Again(o)
\* Promises continue and containment reports; the server itself owes nothing,
\* the deadline of an operation is what ends it.
Spec ==
  /\ Init /\ [][Next]_vars /\ WF_vars(Dispatch) /\ WF_vars(Observe \/ ObserverLeaves) /\ WF_vars(Contain) /\ WF_vars(Stopped("caller"))
  /\ \A o \in Ops : WF_vars(Progress(o))

-----------------------------------------------------------------------------
(* Properties *)

\* A contained runtime is quiet: no operation of it is left, on the wire or in
\* the queue, and its process does not run.
ContainedIsQuiet == srv.contained => proc # "running" /\ \A o \in Ops : ~Active(o)

\* No call reaches the server against another catalog than the one the caller
\* discovered, although a refresh may run while the call waits in the queue.
CallsMatchCatalog == ~stale

\* An abandoned stdio exchange is the last one of its connection.
NoReuseAfterAbandon == ~reused

\* A runtime that is ready is open: a start that completes late does not make
\* a closed runtime ready.
ReadyIsOpen == srv.ready => srv.open /\ catalog # 0

\* stop answers, whichever operations it has to join, failed containment too.
StopWaits == stopper = "waiting"
=============================================================================
