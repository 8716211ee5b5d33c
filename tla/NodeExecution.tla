--------------------------- MODULE NodeExecution ----------------------------
(* The execution of an agent node by AgentExecutor and NodeExecution: entry,  *)
(* the loop over the outcomes of LLM turns with its one corrective budget,    *)
(* delivery of queued notifications, the acceptance of a result with its      *)
(* native source preparation, and the finalisation of records.  A required    *)
(* record "req" and a freely written record "free" stand for the records of   *)
(* the card; texts are abstracted to whether the node wrote them since its    *)
(* last preparation.  Actions are the stretches between two awaits.           *)
EXTENDS Naturals, FiniteSets

CONSTANTS Notes,        \* notifications for the card
          Contracts,    \* contracts of the nodes that may execute
          MaxRearms,    \* MAX_NODE_CORRECTIVE_REARMS
          MaxChanges,   \* bound: changes of the reviewed subtree
          MaxRuns       \* bound: executions, restarts after a crash included

\* A clean record starts without content: whatever its gate, only a write meets it.
Nodes == {n \in [recipient : BOOLEAN, reviewer : BOOLEAN, native : BOOLEAN, clean : BOOLEAN, updated : BOOLEAN, goal : {"DONE", "next"}] : n.clean => n.updated}

NodeExecutionAssumption ==
  /\ Contracts \subseteq Nodes
  /\ IsFiniteSet(Notes) /\ MaxRearms \in Nat /\ MaxChanges \in Nat /\ MaxRuns \in Nat \ {0}

Records == {"req", "free"}

VARIABLES node,      \* the compiled contract of the node in execution
          pc,        \* the await the execution is in
          out,       \* the outcome of the last turn
          rearms,    \* correctiveRearmCount
          pending,   \* the queue of notifications
          told,      \* notifications appended to the conversation
          removing,  \* appended and to be removed from the queue
          rec,       \* current projection of each record
          written,   \* writtenRecords
          tree,      \* the version of the reviewed subtree
          seen,      \* the version of the reviewer pair
          moved,     \* a record head changed during source preparation
          fin,       \* finalizationBegun
          broken,    \* a finalisation failed half way
          target,    \* the target of the accepted outcome
          runs

vars == <<node, pc, out, rearms, pending, told, removing, rec, written, tree, seen, moved, fin, broken, target, runs>>

NewRecord == [draft |-> "none", accepted |-> "none", changed |-> FALSE]
Eligible(r) == r.draft = "text" \/ (r.draft = "none" /\ r.accepted # "none")

Opened(r) == [r EXCEPT !.draft = "empty", !.changed = TRUE]
Discarded(r) == IF r.draft = "none" THEN r ELSE [r EXCEPT !.draft = "none", !.changed = TRUE]
Closed(r) == [r EXCEPT !.draft = "none", !.accepted = "node", !.changed = TRUE]

\* prepareRecordRequirements: a clean requirement is discarded and opened.
Prepared(rs) == IF node.clean THEN [rs EXCEPT !["req"] = Opened(@)] ELSE rs
\* captureBaseline
Baseline(rs) == [r \in Records |-> [rs[r] EXCEPT !.changed = FALSE, !.accepted = IF @ = "none" THEN @ ELSE "older"]]
\* discardWrittenRecords
DiscardWritten(rs) == [r \in Records |-> IF r \in written THEN Discarded(rs[r]) ELSE rs[r]]

\* selectRecipientNotifications
Selected == IF node.recipient THEN pending ELSE {}

Start(n) ==
  /\ node' = n /\ pc' = "entry" /\ out' = "none" /\ rearms' = 0 /\ written' = {} /\ removing' = {}
  /\ moved' = FALSE /\ fin' = FALSE /\ broken' = FALSE /\ target' = "none"

Init ==
  /\ node \in Contracts /\ pc = "entry" /\ out = "none" /\ rearms = 0 /\ written = {} /\ removing = {}
  /\ moved = FALSE /\ fin = FALSE /\ broken = FALSE /\ target = "none"
  /\ pending = {} /\ told = {} /\ rec = [r \in Records |-> NewRecord]
  /\ tree = 0 /\ seen = 0 /\ runs = 1

\* Context is appended, and the notifications in it are removed afterwards.
Append(sel) == /\ pc' = "append" /\ removing' = sel
               /\ told' = told \cup sel /\ UNCHANGED pending

\* afterAppend, after which the next turn runs.
AfterAppend ==
  /\ pc = "append" /\ pc' = "turn"
  /\ pending' = pending \ removing /\ told' = told \cup removing /\ removing' = {}
  /\ UNCHANGED <<node, out, rearms, rec, written, tree, seen, moved, fin, broken, target, runs>>

\* execute up to the first turn: reviewer pair, records, entry context, baseline.
Enter ==
  /\ pc = "entry"
  /\ seen' = tree /\ rec' = Baseline(Prepared(rec)) /\ Append(Selected)
  /\ UNCHANGED <<node, out, rearms, written, tree, moved, fin, broken, target, runs>>

\* The provider answers: plain text, an error, a blocked result, emit_result with
\* valid or invalid arguments, or another tool.
Turn ==
  /\ pc = "turn" /\ pc' = "outcome"
  /\ out' \in {"text", "error", "blocked", "emit", "malformed", "tool"}
  /\ UNCHANGED <<node, rearms, pending, told, removing, rec, written, tree, seen, moved, fin, broken, target, runs>>

\* finalizeRecords of an execution that was not accepted; a failure is reported.
Finalize(t) ==
  /\ pc' = "ended" /\ fin' = TRUE
  /\ IF fin THEN target' = t /\ UNCHANGED <<rec, written, broken>>
     ELSE /\ written' = {}
          /\ \/ rec' = DiscardWritten(rec) /\ target' = t /\ UNCHANGED broken
             \/ /\ broken' = TRUE /\ target' = "failed"
                /\ \E r \in written : rec' = [rec EXCEPT ![r] = Discarded(@)]
Fail == Finalize("failed")

\* consumeCorrectiveRearm, and the continuation with the context of a correction.
Correct ==
  IF rearms < MaxRearms
    THEN /\ rearms' = rearms + 1 /\ Append(Selected)
         /\ UNCHANGED <<rec, written, fin, broken, target>>
    ELSE Fail /\ UNCHANGED <<rearms, pending, told, removing>>

Outcome(o) == pc = "outcome" /\ out = o

PlainText ==
  /\ Outcome("text") /\ Correct
  /\ UNCHANGED <<node, out, tree, seen, moved, runs>>
MalformedResult ==
  /\ Outcome("malformed") /\ Correct
  /\ UNCHANGED <<node, out, tree, seen, moved, runs>>
Error ==
  /\ Outcome("error") /\ Fail
  /\ UNCHANGED <<node, out, rearms, pending, told, removing, tree, seen, moved, runs>>
\* The runtime's blocked result hands over without acceptance; drafts are discarded.
Blocked ==
  /\ Outcome("blocked") /\ Finalize("blocked")
  /\ UNCHANGED <<node, out, rearms, pending, told, removing, tree, seen, moved, runs>>
\* An ordinary tool, here one that may write a record, and its continuation.
OrdinaryTool ==
  /\ Outcome("tool")
  /\ \/ UNCHANGED <<rec, written>>
     \/ \E r \in Records : /\ rec' = [rec EXCEPT ![r].draft = "text", ![r].changed = TRUE]
                           /\ written' = written \cup {r}
  /\ Append(Selected)
  /\ UNCHANGED <<node, out, rearms, tree, seen, moved, fin, broken, target, runs>>

\* emit_result while notifications for this agent are queued.
PendingContext ==
  /\ Outcome("emit") /\ Selected # {} /\ Correct
  /\ UNCHANGED <<node, out, tree, seen, moved, runs>>

-----------------------------------------------------------------------------
(* acceptCandidate *)

\* validateRecords: the required record is eligible, and updated if its gate says so.
RecordsValid == Eligible(rec["req"]) /\ (node.updated => rec["req"].changed)

\* Seeded fault: the reviewed subtree is not read again.
NeverStale == FALSE
\* reviewerStaleReason
Stale == node.reviewer /\ seen # tree

\* reprepareRecords
Reprepared(rs) == Prepared(DiscardWritten(rs))

\* The stale answer: records are prepared anew, the pair is captured, and
\* notifications go along with it.
StaleReview ==
  IF rearms < MaxRearms
    THEN /\ rearms' = rearms + 1 /\ seen' = tree
         /\ rec' = Reprepared(rec) /\ written' = {} /\ Append(Selected)
         /\ UNCHANGED <<fin, broken, target>>
    ELSE Fail /\ UNCHANGED <<rearms, pending, told, removing, seen>>

\* A DONE of an agent that does not receive notifications takes the alternative
\* route to the one that does.
SelectedTarget == IF node.goal = "DONE" /\ ~node.recipient /\ pending # {} THEN "next" ELSE node.goal

\* closeAcceptedRecords: requirements first, then the other written records.
\* A failure stops at the prefix that is closed.
Close ==
  LET closing == {r \in Records : rec[r].draft = "text" /\ (r = "req" \/ r \in written)} IN
    /\ fin' = TRUE
    /\ \/ /\ rec' = [r \in Records |-> IF r \in closing THEN Closed(rec[r]) ELSE rec[r]]
          /\ pc' = "accepted" /\ target' = SelectedTarget /\ UNCHANGED broken
       \/ /\ closing # {} /\ broken' = TRUE /\ pc' = "ended" /\ target' = "failed"
          /\ rec' \in {rec, [rec EXCEPT !["req"] = IF "req" \in closing THEN Closed(@) ELSE @]}

\* From the validation of records to the claim nothing is awaited.
Decide ==
  /\ \/ Correct /\ UNCHANGED seen          \* completion gate, promotion or source violation
     \/ ~RecordsValid /\ Correct /\ UNCHANGED seen
     \/ RecordsValid /\ Stale /\ StaleReview
     \/ /\ RecordsValid /\ ~Stale
        /\ Close /\ UNCHANGED <<rearms, pending, told, removing, written, seen>>
  /\ UNCHANGED <<node, out, tree, moved, runs>>

\* A result with nothing queued: source work first, where the outcome needs it.
Emit ==
  /\ Outcome("emit") /\ Selected = {}
  /\ IF node.native
       THEN /\ pc' = "source" /\ moved' = FALSE
            /\ UNCHANGED <<node, out, rearms, pending, told, removing, rec, written, tree, seen, fin, broken, target, runs>>
       ELSE Decide

\* The source work returns: heads are compared and the queue is read again.
SourceReady ==
  /\ pc = "source"
  /\ \/ moved /\ Correct /\ UNCHANGED <<node, out, tree, seen, moved, runs>>
     \/ /\ ~moved /\ Selected # {} /\ pc' = "outcome"
        /\ UNCHANGED <<node, out, rearms, pending, told, removing, rec, written, tree, seen, moved, fin, broken, target, runs>>
     \/ ~moved /\ Selected = {} /\ Decide

\* The terminal tool call is settled and the surface cleaned up.
Accepted ==
  /\ pc = "accepted" /\ pc' = "ended"
  /\ target' \in {target, "failed"}
  /\ UNCHANGED <<node, out, rearms, pending, told, removing, rec, written, tree, seen, moved, fin, broken, runs>>

\* An abort, answered at the next return from an await.
Abort ==
  /\ pc \in {"entry", "turn", "outcome", "source"} /\ Fail
  /\ UNCHANGED <<node, out, rearms, pending, told, removing, tree, seen, moved, runs>>

-----------------------------------------------------------------------------
\* Notifications, the Analyst and descendants act between the awaits.
Notify ==
  /\ pc \in {"turn", "source"} \/ (pc = "ended" /\ target # "DONE")
  /\ \E n \in Notes \ (told \cup pending) : pending' = pending \cup {n}
  /\ UNCHANGED <<node, pc, out, rearms, told, removing, rec, written, tree, seen, moved, fin, broken, target, runs>>
SubtreeChanges ==
  /\ pc \in {"turn", "source"} /\ tree < MaxChanges /\ tree' = tree + 1
  /\ UNCHANGED <<node, pc, out, rearms, pending, told, removing, rec, written, seen, moved, fin, broken, target, runs>>
\* The Analyst accepts a document directly where no draft is open.
AnalystAccepts ==
  /\ pc \in {"turn", "source"}
  /\ \E r \in Records : /\ rec[r].draft = "none" /\ rec[r].accepted # "older"
                        /\ rec' = [rec EXCEPT ![r].accepted = "older", ![r].changed = TRUE]
  /\ moved' = TRUE
  /\ UNCHANGED <<node, pc, out, rearms, pending, told, removing, written, tree, seen, fin, broken, target, runs>>

\* The next node of the card, or a restart after the process died at any point.
NextNode ==
  /\ pc = "ended" /\ target # "DONE" /\ runs < MaxRuns /\ runs' = runs + 1
  /\ \E n \in Contracts : Start(n)
  /\ UNCHANGED <<pending, told, rec, tree, seen>>
Crash ==
  /\ pc # "ended" /\ runs < MaxRuns /\ runs' = runs + 1
  /\ \E n \in Contracts : Start(n)
  /\ UNCHANGED <<pending, told, rec, tree, seen>>

Next ==
  \/ Enter \/ AfterAppend \/ Turn \/ PlainText \/ MalformedResult \/ Error \/ Blocked \/ OrdinaryTool
  \/ PendingContext \/ Emit \/ SourceReady \/ Accepted \/ Abort
  \/ Notify \/ SubtreeChanges \/ AnalystAccepts \/ NextNode \/ Crash

Spec == Init /\ [][Next]_vars

-----------------------------------------------------------------------------
\* A notification that has left the queue is in the conversation, whenever the
\* process dies: delivery is at least once.
NothingLost == pending \ pending' \subseteq told'

\* The card is not claimed DONE over a notification that is still queued, also
\* when it arrived while the source was prepared.
NoDoneOverNotice == (pc' = "accepted" /\ pc # "accepted" /\ target' = "DONE") => pending = {}

\* A review is accepted only for the subtree the reviewer was shown last.
ReviewIsCurrent == (pc' = "accepted" /\ pc # "accepted" /\ node.reviewer) => seen = tree

\* What a node with a clean requirement hands over was written by this node, and
\* by a reviewer after it was shown the subtree it accepts.
AcceptedIsFresh ==
     (pc' = "accepted" /\ pc # "accepted" /\ node.clean) => "req" \in written /\ rec'["req"].accepted = "node"

\* An execution that has ended leaves no authored draft open, unless its
\* finalisation failed half way or an earlier process died.
DraftsSettled == pc = "ended" /\ ~broken /\ runs = 1 => \A r \in Records : rec[r].draft # "text"
=============================================================================
