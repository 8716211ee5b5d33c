------------------------------ MODULE LiveSync ------------------------------
(* The observation of the runtime by a browser: SyncHub debounces what        *)
(* changed, LiveSyncSocket sends it to the sockets that hold a lease, the     *)
(* client acknowledges, coalesces and refetches by REST, and reconnects.  The *)
(* leased resource is the inventory of agents, one scope per card or global   *)
(* session; runtime is the resource without a lease.                          *)
EXTENDS Integers, Sequences, FiniteSets, SequencesExt

CONSTANTS Scopes,    \* scopes of agent membership
          Consumers, \* registrations of the lease
          Resources, \* registered resources without a lease
          Changing,  \* what changes at the server
          MaxChanges, MaxDrops, MaxOpens, MaxFails, MaxRefreshes

LiveSyncAssumption == "runtime" \notin Scopes /\ Resources \subseteq {"runtime"} /\ Changing \subseteq Scopes \cup {"runtime"} /\ \A b \in {MaxChanges, MaxDrops, MaxOpens, MaxFails, MaxRefreshes} : b \in Nat

VARIABLES ver,       \* the server's state
          pending,   \* SyncHub: what changed, in the order of its marking
          link, up, down, \* the socket and its two directions
          subs,      \* LiveSyncSocket: lease of the socket, 0 without
          entry,     \* LeaseEntry
          ackGen,    \* per consumer: generation acknowledged, -1 not registered
          view,      \* per consumer: what the store shows
          excused,   \* per consumer: a refetch has failed since the last listing (history)
          reqs,      \* REST requests
          flight,    \* single flight of the runtime resource, and the store it reads into
          left       \* what remains of each bound

vars == <<ver, pending, link, up, down, subs, entry, ackGen, view, excused, reqs, flight, left>>

Targets == Scopes \cup {"runtime"}
Unread == -1
Lost == [s \in Scopes |-> Unread]
NoEntry == [gen |-> 0, acked |-> FALSE, busy |-> FALSE, trailing |-> "none"]
Registered == {c \in Consumers : ackGen[c] >= 0}
Spend(b) == left[b] > 0 /\ left' = [left EXCEPT ![b] = @ - 1]

Init ==
  /\ ver = [t \in Targets |-> 0] /\ pending = <<>> /\ link = "down" /\ up = <<>> /\ down = <<>> /\ subs = 0
  /\ entry = NoEntry /\ ackGen = [c \in Consumers |-> -1] /\ view = [c \in Consumers |-> Lost] /\ excused = [c \in Consumers |-> FALSE]
  /\ reqs = {} /\ flight = [busy |-> FALSE, trailing |-> FALSE, seen |-> Unread, view |-> Unread, error |-> FALSE]
  /\ left = [changes |-> MaxChanges, drops |-> MaxDrops, opens |-> MaxOpens, fails |-> MaxFails, refreshes |-> MaxRefreshes]

-----------------------------------------------------------------------------
(* Server *)

\* markDirty: one entry per target until the timer flushes.
Change(t) ==
  /\ Spend("changes") /\ ver' = [ver EXCEPT ![t] = @ + 1]
  /\ pending' = IF t \in ToSet(pending) THEN pending ELSE Append(pending, t)
  /\ UNCHANGED <<link, up, down, subs, entry, ackGen, view, excused, reqs, flight>>
\* Membership goes to the sockets with the lease, runtime to all of them.
Addressed(t) == t = "runtime" \/ subs # 0
Flush ==
  /\ pending # <<>> /\ pending' = <<>>
  /\ down' = IF link = "up" THEN down \o [i \in 1..Len(SelectSeq(pending, Addressed)) |-> [t |-> "invalidate", of |-> SelectSeq(pending, Addressed)[i]]] ELSE down
  /\ UNCHANGED <<ver, link, up, subs, entry, ackGen, view, excused, reqs, flight, left>>
\* handleClientFrame
ServerFrame ==
  /\ link = "up" /\ up # <<>> /\ up' = Tail(up)
  /\ IF Head(up).t = "subscribe" THEN subs' = Head(up).lease /\ down' = Append(down, [t |-> "subscribed", of |-> Head(up).lease])
     ELSE subs' = (IF subs = Head(up).lease THEN 0 ELSE subs) /\ UNCHANGED down
  /\ UNCHANGED <<ver, pending, link, entry, ackGen, view, excused, reqs, flight, left>>
\* A REST read is served.
Serve(r) ==
  /\ r \in reqs /\ r.seen = Lost
  /\ reqs' = (reqs \ {r}) \cup {[r EXCEPT !.seen = [s \in Scopes |-> IF r.of \in {"all", s} THEN ver[s] ELSE Unread]]}
  /\ UNCHANGED <<ver, pending, link, up, down, subs, entry, ackGen, view, excused, flight, left>>

-----------------------------------------------------------------------------
(* The agents store: reconcileMembership, fetchSessions *)

Kill(rs, c, ofs) == {IF r.c = c /\ r.of \in ofs THEN [r EXCEPT !.live = FALSE] ELSE r : r \in rs}
\* A listing replaces every request, a scope's read the one of that scope.
Request(rs, c, of, gen) == Kill(rs, c, IF of = "all" THEN Scopes \cup {"all"} ELSE {of})
                           \cup {[c |-> c, of |-> of, gen |-> gen, live |-> TRUE, seen |-> Lost, id |-> Cardinality({r \in rs : r.c = c})]}
RECURSIVE RequestAll(_, _, _, _)
RequestAll(rs, cs, of, gen) ==
  IF cs = {} THEN rs ELSE LET c == CHOOSE c \in cs : TRUE IN RequestAll(Request(rs, c, of, gen), cs \ {c}, of, gen)

-----------------------------------------------------------------------------
(* Leases of the client *)

Behind(e, acks) == {c \in Consumers : acks[c] >= 0 /\ acks[c] # e.gen}
\* drainLease: first the baseline of every consumer that has none in this
\* generation, then what was coalesced.
Drain(e, acks, rs) ==
  IF ~e.acked \/ e.busy \/ (Behind(e, acks) = {} /\ e.trailing = "none") THEN entry' = e /\ ackGen' = acks /\ reqs' = rs
  ELSE IF Behind(e, acks) # {}
       THEN /\ entry' = [e EXCEPT !.busy = TRUE] /\ ackGen' = [c \in Consumers |-> IF c \in Behind(e, acks) THEN e.gen ELSE acks[c]]
            /\ reqs' = RequestAll(rs, Behind(e, acks), "all", e.gen)
       ELSE /\ entry' = [e EXCEPT !.busy = TRUE, !.trailing = "none"] /\ ackGen' = acks
            /\ reqs' = RequestAll(rs, {c \in Consumers : acks[c] = e.gen}, e.trailing, e.gen)
\* subscribeLease: a new lease and generation, nothing pending.
Subscribed(e) == [gen |-> e.gen + 1, acked |-> FALSE, busy |-> FALSE, trailing |-> "none"]
\* Seeded fault: the latest scope stands for all that are pending.
MergeLatest(pend, s) == s
\* What two pending frames are together; another scope widens to a listing.
Merge(pend, s) == IF pend \in {"none", s} THEN s ELSE "all"

\* openLease
Open(c) ==
  /\ c \notin Registered /\ Spend("opens")
  /\ LET acks == [ackGen EXCEPT ![c] = 0] IN
     IF Registered = {} /\ link = "up"
     THEN entry' = Subscribed(entry) /\ ackGen' = acks /\ UNCHANGED reqs /\ up' = Append(up, [t |-> "subscribe", lease |-> entry.gen + 1])
     ELSE UNCHANGED up /\ IF entry.acked THEN Drain(entry, acks, reqs) ELSE entry' = entry /\ ackGen' = acks /\ UNCHANGED reqs
  /\ UNCHANGED <<ver, pending, link, down, subs, view, excused, flight>>
\* The release of a registration, and of the store's inventory with it.
Close(c) ==
  /\ c \in Registered /\ ackGen' = [ackGen EXCEPT ![c] = -1] /\ view' = [view EXCEPT ![c] = Lost] /\ excused' = [excused EXCEPT ![c] = FALSE]
  /\ reqs' = Kill(reqs, c, Scopes \cup {"all"})
  /\ IF Registered = {c} THEN /\ entry' = [NoEntry EXCEPT !.gen = entry.gen]
                              /\ up' = IF link = "up" /\ entry.gen > 0 THEN Append(up, [t |-> "unsubscribe", lease |-> entry.gen]) ELSE up
     ELSE UNCHANGED <<entry, up>>
  /\ UNCHANGED <<ver, pending, link, down, subs, flight, left>>
\* handleSyncFrame: subscribed
Acknowledged ==
  /\ link = "up" /\ down # <<>> /\ Head(down).t = "subscribed" /\ down' = Tail(down)
  /\ IF Registered # {} /\ Head(down).of = entry.gen /\ ~entry.acked THEN Drain([entry EXCEPT !.acked = TRUE], ackGen, reqs)
     ELSE UNCHANGED <<entry, ackGen, reqs>>
  /\ UNCHANGED <<ver, pending, link, up, subs, view, excused, flight, left>>
\* queueLeaseFrame
Invalidated ==
  /\ link = "up" /\ down # <<>> /\ Head(down).t = "invalidate" /\ Head(down).of # "runtime" /\ down' = Tail(down)
  /\ IF Registered # {} THEN Drain([entry EXCEPT !.trailing = Merge(@, Head(down).of)], ackGen, reqs) ELSE UNCHANGED <<entry, ackGen, reqs>>
  /\ UNCHANGED <<ver, pending, link, up, subs, view, excused, flight, left>>

Replace(c, seen) == [s \in Scopes |-> IF seen[s] = Unread THEN view[c][s] ELSE seen[s]]
\* The answer of a request that still owns its scope; a listing discards the
\* reads of single scopes.
Respond(r) ==
  /\ r \in reqs /\ r.live /\ r.seen # Lost
  /\ view' = [view EXCEPT ![r.c] = Replace(r.c, r.seen)]
  /\ reqs' = IF r.of = "all" THEN Kill(reqs \ {r}, r.c, Scopes) ELSE reqs \ {r}
  /\ excused' = [excused EXCEPT ![r.c] = r.of # "all" /\ @]
  /\ UNCHANGED <<ver, pending, link, up, down, subs, entry, ackGen, flight, left>>
\* A request that was aborted or replaced ends without effect.
Dropped(r) == r \in reqs /\ ~r.live /\ reqs' = reqs \ {r} /\ UNCHANGED <<ver, pending, link, up, down, subs, entry, ackGen, view, excused, flight, left>>
Fail(r) ==
  /\ r \in reqs /\ r.live /\ Spend("fails") /\ reqs' = reqs \ {r} /\ excused' = [excused EXCEPT ![r.c] = TRUE]
  /\ UNCHANGED <<ver, pending, link, up, down, subs, entry, ackGen, view, flight>>
\* Seeded fault: the batch ends without looking at what came meanwhile.
SettleOnly ==
  /\ entry.busy /\ \A r \in reqs : r.gen # entry.gen
  /\ entry' = [entry EXCEPT !.busy = FALSE] /\ UNCHANGED <<ackGen, reqs, ver, pending, link, up, down, subs, view, excused, flight, left>>
\* settleLeaseBatch: every callback of the generation has ended.
Settle ==
  /\ entry.busy /\ \A r \in reqs : r.gen # entry.gen
  /\ Drain([entry EXCEPT !.busy = FALSE], ackGen, reqs) /\ UNCHANGED <<ver, pending, link, up, down, subs, view, excused, flight, left>>
\* The operator refreshes the inventory.
Refresh(c) ==
  /\ c \in Registered /\ Spend("refreshes") /\ reqs' = Request(reqs, c, "all", 0)
  /\ UNCHANGED <<ver, pending, link, up, down, subs, entry, ackGen, view, excused, flight>>

-----------------------------------------------------------------------------
(* runSingleFlight *)

Refetch(f) == IF "runtime" \notin Resources THEN f ELSE IF f.busy THEN [f EXCEPT !.trailing = TRUE] ELSE [f EXCEPT !.busy = TRUE, !.seen = Unread, !.error = FALSE]
RuntimeInvalidated ==
  /\ link = "up" /\ down # <<>> /\ Head(down) = [t |-> "invalidate", of |-> "runtime"] /\ down' = Tail(down)
  /\ flight' = Refetch(flight) /\ UNCHANGED <<ver, pending, link, up, subs, entry, ackGen, view, excused, reqs, left>>
RuntimeServe == /\ flight.busy /\ flight.seen = Unread /\ flight' = [flight EXCEPT !.seen = ver["runtime"]]
                /\ UNCHANGED <<ver, pending, link, up, down, subs, entry, ackGen, view, excused, reqs, left>>
\* The flight ends; the one that was asked for meanwhile begins, which clears the error.
Landed(shown, failed) == flight' = [busy |-> flight.trailing, trailing |-> FALSE, seen |-> Unread, view |-> shown, error |-> failed /\ ~flight.trailing]
RuntimeRespond ==
  /\ flight.busy /\ flight.seen # Unread
  /\ Landed(flight.seen, FALSE)
  /\ UNCHANGED <<ver, pending, link, up, down, subs, entry, ackGen, view, excused, reqs, left>>

\* The client logs a refetch that failed and makes no other; the store keeps what it
\* shows, and its error beside it.
RuntimeFail ==
  /\ flight.busy /\ Spend("fails") /\ Landed(flight.view, TRUE)
  /\ UNCHANGED <<ver, pending, link, up, down, subs, entry, ackGen, view, excused, reqs>>

-----------------------------------------------------------------------------
(* The connection *)

Connection == UNCHANGED <<ver, pending, ackGen, view, excused, reqs>>
\* connect, openWithFreshTicket: a one-use ticket, then the socket.
Connect == link = "down" /\ link' = "ticket" /\ Connection /\ UNCHANGED <<up, down, subs, entry, flight, left>>
Ticket == link = "ticket" /\ link' = "opening" /\ Connection /\ UNCHANGED <<up, down, subs, entry, flight, left>>
\* onopen: the resources are read again, the leases taken again.
Opened ==
  /\ link = "opening" /\ link' = "up" /\ flight' = Refetch(flight)
  /\ IF Registered = {} THEN UNCHANGED <<entry, up>>
     ELSE entry' = Subscribed(entry) /\ up' = Append(up, [t |-> "subscribe", lease |-> entry.gen + 1])
  /\ Connection /\ UNCHANGED <<down, subs, left>>
\* The ticket is refused, the socket closes: again after a delay, or never
\* after 401 and 1008.
Drop ==
  /\ link \in {"ticket", "opening", "up"} /\ Spend("drops") /\ link' \in {"down", "unauthorized"}
  /\ up' = <<>> /\ down' = <<>> /\ subs' = 0 /\ Connection /\ UNCHANGED <<entry, flight>>

-----------------------------------------------------------------------------
Progress ==
  \/ Flush \/ ServerFrame \/ Acknowledged \/ Invalidated \/ Settle \/ Connect \/ Ticket \/ Opened
  \/ RuntimeInvalidated \/ RuntimeServe \/ RuntimeRespond
  \/ \E r \in reqs : Serve(r) \/ Respond(r) \/ Dropped(r)
Disturb ==
  \/ \E t \in Changing : Change(t)
  \/ \E c \in Consumers : Open(c) \/ Close(c) \/ Refresh(c)
  \/ \E r \in reqs : Fail(r)
  \/ RuntimeFail \/ Drop
Next == Progress \/ Disturb
\* Timers fire, frames and requests in flight arrive, the client reconnects.
Spec == Init /\ [][Next]_vars /\ WF_vars(Progress)

-----------------------------------------------------------------------------
(* Properties *)

Quiet == pending = <<>> /\ up = <<>> /\ down = <<>> /\ link = "up"
\* When nothing is on its way a lease shows the server's state: no change is
\* lost between the lease and its acknowledgement, in the coalescing of
\* frames, or over a reconnection.
QuiescentIsFresh ==
  Quiet /\ reqs = {} /\ entry.acked /\ ~entry.busy =>
    \A c \in Registered : excused[c] \/ \A s \in Scopes : view[c][s] = ver[s]

\* An acknowledged lease on an open socket is one the server holds.
AcknowledgedIsHeld == link = "up" /\ Registered # {} /\ entry.acked => subs = entry.gen

\* Once nothing is on its way the runtime shown is the server's, or the store shows
\* the error of its last refetch: a failed one is not made again by itself.
RuntimeIsFresh == "runtime" \in Resources /\ Quiet /\ ~flight.busy => flight.error \/ flight.view = ver["runtime"]

\* Changes and failures of the link cease: every observer ends with the
\* server's state, or visibly without authorisation or with an error.
Converged ==
  \/ link = "unauthorized"
  \/ /\ \A c \in Registered : excused[c] \/ \A s \in Scopes : view[c][s] = ver[s]
     /\ "runtime" \in Resources => flight.error \/ flight.view = ver["runtime"]
=============================================================================
