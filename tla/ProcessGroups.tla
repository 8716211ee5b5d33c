---------------------------- MODULE ProcessGroups ----------------------------
(* ManagedProcessGroupRegistry and ProcessRunner: groups of operating-system  *)
(* processes launched in a direct scope, observed until they are gone, and    *)
(* terminated by SIGTERM and SIGKILL from three places at once: the kill of   *)
(* one process, the closing of its scope and the containment of the whole     *)
(* application.  The settlement of a process also waits for its output pipes, *)
(* which a descendant that left the group may hold open.                      *)
EXTENDS Naturals, FiniteSets

CONSTANTS Groups,    \* process groups the run may launch
          Captured,  \* those launched by spawnCaptured
          Terms      \* bound: the terminations asked for, one of each kind

GroupsAssumption == IsFiniteSet(Groups) /\ Captured \subseteq Groups /\ Terms \subseteq {"kill", "scope", "tree"}

VARIABLES os,     \* the operating system's view: none, live, headless (leader gone), dead
          rec,    \* the registry's record: none, active, terminating, unverifiable, absent
          eye,    \* groups a natural observer loop polls
          run,    \* the runner's presentation of a group
          term,   \* the terminations under way
          scope,  \* the direct scope: open, closed, retired
          admit   \* launchAdmissionOpen

vars == <<os, rec, eye, run, term, scope, admit>>

Tracked == {g \in Groups : rec[g] \in {"active", "terminating", "unverifiable"}}
NoReport == [ph |-> "none", sel |-> {}, cand |-> [g \in {} |-> "wait"], stopped |-> {}, failed |-> {}]
Unlaunched == [status |-> "none", settled |-> "none", absent |-> FALSE, pipe |-> "closed", bound |-> FALSE,
               grpFail |-> FALSE, capFail |-> FALSE]

Init ==
  /\ os = [g \in Groups |-> "none"] /\ rec = [g \in Groups |-> "none"] /\ eye = {}
  /\ run = [g \in Groups |-> Unlaunched] /\ term = [t \in Terms |-> NoReport]
  /\ scope = "open" /\ admit = TRUE

\* Seeded fault: a launch does not ask for the launch admission.
LaunchAnyway(g) ==
  /\ rec[g] = "none" /\ scope = "open"
  /\ os' = [os EXCEPT ![g] = "live"] /\ rec' = [rec EXCEPT ![g] = "active"]
  /\ run' = [run EXCEPT ![g] = [Unlaunched EXCEPT !.status = "running", !.settled = "pending", !.pipe = "open"]]
  /\ UNCHANGED <<eye, term, scope, admit>>
\* launch (a spawn without a pid leaves nothing behind)
Launch(g) ==
  /\ rec[g] = "none" /\ scope = "open" /\ admit
  /\ os' = [os EXCEPT ![g] = "live"] /\ rec' = [rec EXCEPT ![g] = "active"]
  /\ run' = [run EXCEPT ![g] = [Unlaunched EXCEPT !.status = "running", !.settled = "pending", !.pipe = "open"]]
  /\ UNCHANGED <<eye, term, scope, admit>>

\* The leader exits: a natural observer starts while the record is active.
LeaderExits(g) ==
  /\ os[g] = "live" /\ os' = [os EXCEPT ![g] = "headless"]
  /\ eye' = IF rec[g] = "active" THEN eye \cup {g} ELSE eye
  /\ UNCHANGED <<rec, run, term, scope, admit>>
Empties(g) ==
  /\ os[g] = "headless" /\ os' = [os EXCEPT ![g] = "dead"] /\ UNCHANGED <<rec, eye, run, term, scope, admit>>

-----------------------------------------------------------------------------
(* What a probe or a signal finds *)

Gone == {g \in Groups : os[g] = "dead"}

\* confirmAbsent retires a closed scope with its last group.
ScopeAfter(gone, current) == IF current = "closed" /\ Tracked \subseteq gone THEN "retired" ELSE current

\* onAbsent and onUnverifiable; the end of a captured process is bounded.
View(g, absent, unsure) ==
  CASE g \in absent -> [run[g] EXCEPT !.absent = TRUE, !.bound = @ \/ g \in Captured]
    [] g \in unsure -> [run[g] EXCEPT !.status = "unavailable", !.grpFail = TRUE, !.absent = g \in Captured, !.bound = g \in Captured,
                          !.settled = IF g \in Captured \/ @ # "pending" THEN @ ELSE "rejected"]
    [] OTHER -> run[g]

\* Groups found absent and groups whose probe or signal failed; moves is the
\* state the other ones of a termination take.
Record(absent, unsure, moves, state, current) ==
  /\ rec' = [g \in Groups |-> CASE g \in absent -> "absent" [] g \in unsure -> "unverifiable" [] g \in moves -> state [] OTHER -> rec[g]]
  /\ run' = [g \in Groups |-> View(g, absent, unsure)]
  /\ scope' = ScopeAfter(absent, current)

\* observeNaturalAbsence
Observe(g) ==
  /\ g \in eye /\ UNCHANGED <<os, term, admit>>
  /\ \/ rec[g] # "active" /\ eye' = eye \ {g} /\ UNCHANGED <<rec, run, scope>>
     \/ rec[g] = "active" /\ g \in Gone /\ eye' = eye \ {g} /\ Record({g}, {}, {}, "active", scope)
     \/ rec[g] = "active" /\ g \notin Gone /\ eye' = eye \ {g} /\ Record({}, {g}, {}, "active", scope)

-----------------------------------------------------------------------------
(* terminateRecords *)

\* An unverifiable group is reported, never signalled.
Unverifiable(sel) == {g \in sel : rec[g] = "unverifiable"}

Terminate(t, sel, current) ==
  /\ t \in Terms /\ term[t].ph = "none"
  /\ LET checked == {g \in sel : rec[g] # "unverifiable"}
         stopped == checked \cap Gone
     IN \E unsure \in SUBSET (checked \ stopped) :
          LET cands == checked \ (stopped \cup unsure)
          IN /\ term' = [term EXCEPT ![t] = [ph |-> "term", sel |-> sel, cand |-> [g \in cands |-> "wait"],
                                            stopped |-> stopped, failed |-> Unverifiable(sel) \cup unsure]]
             /\ Record(stopped, unsure, cands, "terminating", current)
  /\ UNCHANGED <<os, eye, admit>>

Kill(g) == scope # "retired" /\ g \in Tracked /\ Terminate("kill", {g}, scope)
\* closeAndTerminateDirectScope
CloseScope == scope = "open" /\ Terminate("scope", Tracked, "closed")
\* The application closes the launch admission before it contains the tree.
Contain == ~admit /\ Terminate("tree", Tracked, scope)
CloseAdmission == admit /\ admit' = FALSE /\ UNCHANGED <<os, rec, eye, run, term, scope>>

\* waitForAbsence of one candidate: what a probe finds, or the deadline.
WaitEnds(t, g) ==
  /\ term[t].ph \in {"term", "kill"} /\ g \in DOMAIN term[t].cand /\ term[t].cand[g] = "wait"
  /\ UNCHANGED <<os, eye, admit>>
  /\ LET found(what) == term' = [term EXCEPT ![t].cand[g] = what]
     IN \/ rec[g] = "absent" /\ found("absent") /\ UNCHANGED <<rec, run, scope>>
        \/ rec[g] = "unverifiable" /\ found("unsure") /\ UNCHANGED <<rec, run, scope>>
        \/ rec[g] \in {"active", "terminating"} /\ g \in Gone /\ found("absent") /\ Record({g}, {}, {}, "active", scope)
        \/ rec[g] \in {"active", "terminating"} /\ g \notin Gone /\ found("unsure") /\ Record({}, {g}, {}, "active", scope)
        \/ rec[g] \in {"active", "terminating"} /\ g \notin Gone /\ found("live") /\ UNCHANGED <<rec, run, scope>>

Found(t, what) == {g \in DOMAIN term[t].cand : term[t].cand[g] = what}

\* SIGKILL to the groups that outlived the grace.
Escalate(t) ==
  /\ term[t].ph = "term" /\ Found(t, "wait") = {}
  /\ \E unsure \in SUBSET {g \in Found(t, "live") : rec[g] \in {"active", "terminating"}} :
       /\ term' = [term EXCEPT ![t].ph = "kill", ![t].cand = [g \in Found(t, "live") \ unsure |-> "wait"],
                   ![t].stopped = @ \cup Found(t, "absent"), ![t].failed = @ \cup Found(t, "unsure") \cup unsure]
       /\ Record({}, unsure, {}, "active", scope)
  /\ UNCHANGED <<os, eye, admit>>

\* What outlived SIGKILL is active again and, without its leader, observed.
ObservedAgain(live) == eye \cup {g \in live : os[g] \in {"headless", "dead"}}

\* boundFailedSettlement
BoundFailed(failed) ==
  [g \in Groups |-> IF g \in failed \cap Captured
                      THEN [run[g] EXCEPT !.grpFail = TRUE, !.status = IF run[g].settled = "pending" THEN "unavailable" ELSE @,
                                         !.absent = TRUE, !.bound = TRUE] ELSE run[g]]

Report(t) ==
  /\ term[t].ph = "kill" /\ Found(t, "wait") = {}
  /\ LET failed == term[t].failed \cup Found(t, "unsure") \cup Found(t, "live")
     IN /\ term' = [term EXCEPT ![t].ph = "settle", ![t].cand = [g \in {} |-> "wait"], ![t].failed = failed,
                    ![t].stopped = @ \cup (DOMAIN term[t].cand \ failed)]
        /\ run' = BoundFailed(failed)
  /\ rec' = [g \in Groups |-> IF g \in Found(t, "live") /\ rec[g] # "absent" THEN "active" ELSE rec[g]]
  /\ eye' = ObservedAgain({g \in Found(t, "live") : rec[g] # "absent"})
  /\ UNCHANGED <<os, scope, admit>>

\* The termination joins the settlements of what it stopped or gave up.
Join(t) ==
  /\ term[t].ph = "settle" /\ \A g \in term[t].stopped \cup (term[t].failed \cap Captured) : run[g].settled # "pending"
  /\ term' = [term EXCEPT ![t].ph = "done"] /\ UNCHANGED <<os, rec, eye, run, scope, admit>>

-----------------------------------------------------------------------------
(* The output pipes and the settlement of a process *)

\* The pipes end with their last writer, which need not be the group, or an
\* append to the capture fails.
PipeEnds(g) ==
  /\ run[g].pipe = "open" /\ UNCHANGED <<os, rec, eye, term, scope, admit>>
  /\ \E failed \in BOOLEAN : run' = [run EXCEPT ![g].pipe = "closed", ![g].capFail = failed]
\* The five seconds a captured process has after the end of its group.
Deadline(g) ==
  /\ run[g].bound /\ run[g].pipe = "open" /\ run' = [run EXCEPT ![g].pipe = "closed", ![g].capFail = TRUE]
  /\ UNCHANGED <<os, rec, eye, term, scope, admit>>

\* finalize
Verdict(g) == CASE run[g].status # "running" -> run[g].status [] run[g].capFail -> "failed" [] OTHER -> "ended"
Finalize(g) ==
  /\ run[g].absent /\ run[g].pipe = "closed" /\ run[g].settled = "pending"
  /\ run' = [run EXCEPT ![g].status = Verdict(g), ![g].settled = IF run[g].grpFail \/ run[g].capFail THEN "rejected" ELSE "resolved"]
  /\ UNCHANGED <<os, rec, eye, term, scope, admit>>

Group(g) == Launch(g) \/ LeaderExits(g) \/ Empties(g) \/ Observe(g) \/ Kill(g) \/ PipeEnds(g) \/ Deadline(g) \/ Finalize(g)
Stage(t) == Escalate(t) \/ Report(t) \/ Join(t) \/ \E g \in Groups : WaitEnds(t, g)
Next == (\E g \in Groups : Group(g)) \/ (\E t \in Terms : Stage(t)) \/ CloseScope \/ Contain \/ CloseAdmission

\* Timers fire and callbacks run; nothing is assumed of the processes, nor of
\* the pipes of an ordinary process.
Fairness ==
  /\ \A g \in Groups : WF_vars(Observe(g)) /\ WF_vars(Deadline(g)) /\ WF_vars(Finalize(g))
  /\ \A t \in Terms : WF_vars(Stage(t))
Spec == Init /\ [][Next]_vars /\ Fairness

-----------------------------------------------------------------------------
\* A termination accounts for every group it selected, as stopped or as failed,
\* and what it reports stopped is gone, also when another termination, the
\* natural observer and failing probes change the records while it waits.
ReportIsTrue ==
  \A t \in Terms : term[t].ph \in {"settle", "done"} =>
    /\ term[t].sel = term[t].stopped \cup term[t].failed
    /\ term[t].stopped \subseteq Gone

\* Containment without failures leaves no live group: nothing was launched
\* behind the back of the termination that holds the lifecycle lock's release.
ContainmentHolds == "tree" \in Terms /\ term["tree"].ph = "done" /\ term["tree"].failed = {} => \A g \in Groups : os[g] \in {"none", "dead"}

\* A closed scope is retired with its last group and not before.
ScopeFollowsGroups == (scope = "closed" => Tracked # {}) /\ (scope = "retired" => Tracked = {})

\* Only a process whose group is gone settles as resolved.
ResolvedIsGone == \A g \in Groups : run[g].settled = "resolved" => g \in Gone

\* A group whose leader and members have ended does not stay in the registry
\* as if it were there, also when it outlived a SIGKILL.
Unnoticed(g) == os[g] = "dead" /\ rec[g] \notin {"absent", "unverifiable"}

\* A captured process settles within its bound, whoever keeps its pipes open.
Unsettled(g) == g \in Captured /\ rec[g] \in {"absent", "unverifiable"} /\ run[g].settled = "pending"
=============================================================================
