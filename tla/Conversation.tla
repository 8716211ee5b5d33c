---------------------------- MODULE Conversation ----------------------------
(* The durable conversation of one card agent: rows appended batch by batch   *)
(* by its activations, segments replaced by compaction, crashes in any step   *)
(* and between any two, and the recovery that stabilises the session at boot. *)
EXTENDS Naturals, Sequences, FiniteSets, SequencesExt

CONSTANTS MaxRows,        \* bound: rows appended in the whole history
          MaxCompactions, \* bound: compactions
          MaxCrashes      \* bound: crashes

ConversationAssumption == MaxRows \in Nat \ {0} /\ MaxCompactions \in Nat /\ MaxCrashes \in Nat

VARIABLES seg,     \* current segment: version, inherited activation, facts, rows, torn suffix
          log,     \* every row ever durable (history)
          covered, \* rows of log behind the current segment
          phase,   \* what the process does with the session
          running, \* the card is running, durably
          next,    \* next activation
          crashes  \* crashes so far

vars == <<seg, log, covered, phase, running, next, crashes>>

\* A row: its kind and activation.  ok and res are the results of a terminal
\* tool that succeeded and of anything else.
Row(k, a) == [k |-> k, a |-> a]
Results == {"ok", "res"}

Init ==
  /\ seg = [ver |-> 1, inherited |-> 0, recovery |-> 0, refusal |-> 0, rows |-> <<>>, torn |-> FALSE]
  /\ log = <<>> /\ covered = 0 /\ phase = "idle" /\ running = FALSE /\ next = 1 /\ crashes = 0

-----------------------------------------------------------------------------
(* Validation of the rows of a segment *)

\* validateToolOrdering, finishCanonicalConversationValidation: a result follows
\* its call, and only the last row may be a call without one.
Paired(rows) ==
  \A i \in 1..Len(rows) :
    /\ rows[i].k \in Results => i > 1 /\ rows[i - 1].k = "call"
    /\ rows[i].k = "call" => i = Len(rows) \/ rows[i + 1].k \in Results
    /\ rows[i].k = "private" => i < Len(rows) /\ rows[i + 1].k \in {"text", "call"}
Unmatched(rows) == rows # <<>> /\ Last(rows).k = "call"

\* The latest round: from its marker, or the whole segment when it was opened
\* in a predecessor; 0 without one.
Markers(rows) == {i \in 1..Len(rows) : rows[i].k = "open"}
RoundStart(s) == IF Markers(s.rows) = {} THEN 1 ELSE CHOOSE i \in Markers(s.rows) : \A j \in Markers(s.rows) : j <= i
LatestActivation(s) == IF Markers(s.rows) # {} THEN s.rows[RoundStart(s)].a ELSE s.inherited
RoundRows(s) == SubSeq(s.rows, RoundStart(s), Len(s.rows))

\* isSafeFallbackBoundary: no cut inside a call with its result, or between a
\* private row and its visible mate.
SafeBoundary(rows, i) ==
  /\ rows[i].k \notin {"call", "private"}
  /\ i < Len(rows) => rows[i + 1].k \notin Results
SafeEnds(rows) == {i \in 1..Len(rows) : SafeBoundary(rows, i)}

-----------------------------------------------------------------------------
(* Appends *)

Room(n) == Len(log) + n <= MaxRows
Acknowledged(batch) == seg' = [seg EXCEPT !.rows = @ \o batch] /\ log' = log \o batch
\* appendConversationBatch: one envelope, one fsync.  The process may die with
\* the envelope torn, or whole and unacknowledged.
Torn(batch) == seg' = [seg EXCEPT !.torn = TRUE] /\ UNCHANGED log
Append1(batch, then) ==
  /\ Room(Len(batch)) /\ ~seg.torn /\ UNCHANGED <<covered, running, next>>
  /\ \/ Acknowledged(batch) /\ phase' = then /\ UNCHANGED crashes
     \/ (Acknowledged(batch) \/ Torn(batch)) /\ phase' = "down" /\ crashes < MaxCrashes /\ crashes' = crashes + 1

-----------------------------------------------------------------------------
(* An activation *)

CardStarts == phase = "idle" /\ ~running /\ running' = TRUE /\ UNCHANGED <<seg, log, covered, phase, next, crashes>>
CardEnds == phase = "idle" /\ running /\ running' = FALSE /\ UNCHANGED <<seg, log, covered, phase, next, crashes>>

\* settleFinalUnmatchedCall, the first step of prepareNodeEntry.
Enter ==
  /\ phase = "idle" /\ running
  /\ IF Unmatched(seg.rows) THEN Append1(<<Row("res", Last(seg.rows).a)>>, "entering")
     ELSE phase' = "entering" /\ UNCHANGED <<seg, log, covered, running, next, crashes>>
\* appendActivationMarker, then context rows.
Mark ==
  /\ phase = "entering" /\ Room(1) /\ UNCHANGED <<covered, running>> /\ next' = next + 1
  /\ \/ Acknowledged(<<Row("open", next)>>) /\ phase' = "turn" /\ UNCHANGED crashes
     \/ (Acknowledged(<<Row("open", next)>>) \/ Torn(<<Row("open", next)>>)) /\ phase' = "down" /\ crashes < MaxCrashes /\ crashes' = crashes + 1
Context == phase = "turn" /\ Append1(<<Row("user", next - 1)>>, "turn")
\* appendLlmTurnStarted
TurnStarts == phase = "turn" /\ Append1(<<Row("started", next - 1)>>, "provider")
\* #persistProviderCompletion: text or one tool call, with or without the
\* provider's private row in the same envelope.
Visible(k) == {<<Row(k, next - 1)>>, <<Row("private", next - 1), Row(k, next - 1)>>}
TextArrives == phase = "provider" /\ \E batch \in Visible("text") : Append1(batch, "text")
CallArrives == phase = "provider" /\ \E batch \in Visible("call") : Append1(batch, "tool")
\* appendLlmTurnError, and the content policy's refusal: the activation ends.
TurnFails == phase = "provider" /\ \E k \in {"issue", "refusal"} : Append1(<<Row(k, next - 1)>>, "idle")
\* continueAfterPlainText, or the text is the end of the activation.
Repair == phase = "text" /\ Append1(<<Row("repair", next - 1)>>, "turn")
TextEnds == phase = "text" /\ phase' = "idle" /\ UNCHANGED <<seg, log, covered, running, next, crashes>>
\* appendToolResult: the turn goes on, or the terminal tool has succeeded.
ResultArrives == phase = "tool" /\ (Append1(<<Row("res", next - 1)>>, "turn") \/ Append1(<<Row("ok", next - 1)>>, "idle"))
\* abandonParkedTurn and cancellation leave the call without a result.
Abandon == phase \in {"tool", "turn", "provider"} /\ phase' = "idle" /\ UNCHANGED <<seg, log, covered, running, next, crashes>>

-----------------------------------------------------------------------------
(* Compaction *)

\* successorContinuation: the open round goes on in the successor, covered to
\* its last row or not; a cut between rounds inherits nothing.
Continuation(s, cut) == IF RoundStart(s) > cut THEN (IF s.rows[cut + 1].k = "open" THEN 0 ELSE s.rows[cut].a) ELSE LatestActivation(s)
\* deriveRequiredModelFacts: the newest covered occurrence, or the inherited one.
NewestFact(rows, k, old) ==
  LET S == {i \in 1..Len(rows) : rows[i].k = k} IN IF S = {} THEN old ELSE rows[CHOOSE i \in S : \A j \in S : j <= i].a
\* publishCompactedConversationSegment: the fresh segment, then the index, which
\* alone makes it current.  Preventive, before the turn starts, or when the provider
\* found the context exhausted.
Compact ==
  /\ phase \in {"turn", "provider"} /\ seg.ver <= MaxCompactions
  /\ \E cut \in SafeEnds(seg.rows) :
     /\ seg' = [ver |-> seg.ver + 1, inherited |-> Continuation(seg, cut), torn |-> FALSE,
                recovery |-> NewestFact(SubSeq(seg.rows, 1, cut), "recovered", seg.recovery),
                refusal |-> NewestFact(SubSeq(seg.rows, 1, cut), "refusal", seg.refusal),
                rows |-> SubSeq(seg.rows, cut + 1, Len(seg.rows))]
     /\ covered' = covered + cut
  /\ UNCHANGED <<log, phase, running, next, crashes>>

-----------------------------------------------------------------------------
(* Crash and recovery *)

Crash == /\ phase # "down" /\ crashes < MaxCrashes /\ crashes' = crashes + 1 /\ phase' = "down"
         /\ UNCHANGED <<seg, log, covered, running, next>>
\* consumeGrowingFile: the first read cuts a torn suffix off.
Boot == /\ phase = "down" /\ phase' = (IF running THEN "stabilizing" ELSE "idle") /\ seg' = [seg EXCEPT !.torn = FALSE]
        /\ UNCHANGED <<log, covered, running, next, crashes>>

Has(rows, k) == \E i \in 1..Len(rows) : rows[i].k = k
\* What stabilizeAgentSession refuses in the latest round.
Refused(rows) ==
  \/ \E k \in {"recovered", "refusal"} : Has(rows, k) /\ (Last(rows).k # k \/ Cardinality({i \in 1..Len(rows) : rows[i].k = k}) # 1)
\* Seeded fault: a notice that is already there does not make the round clean.
CleanBySettlement(rows, a) == rows # <<>> /\ Last(rows).k \in {"ok", "refusal"}
\* Clean already: refused or recovered, here or behind the segment, or settled
\* by its terminal tool.
Clean(rows, a) ==
  \/ rows # <<>> /\ Last(rows).k \in {"ok", "recovered", "refusal"}
  \/ a # 0 /\ a \in {seg.recovery, seg.refusal}
Stabilizing == phase = "stabilizing"
Settled == phase' = "idle" /\ running' = FALSE /\ UNCHANGED <<seg, log, covered, next, crashes>>
\* stabilizeAgentSession: the open call, then the notice, then the card stops.
StabilizeCall == Stabilizing /\ Unmatched(seg.rows) /\ ~Refused(RoundRows(seg)) /\ Append1(<<Row("res", LatestActivation(seg))>>, "stabilizing")
StabilizeNotice ==
  /\ Stabilizing /\ ~Unmatched(seg.rows) /\ ~Refused(RoundRows(seg)) /\ LatestActivation(seg) # 0 /\ ~Clean(RoundRows(seg), LatestActivation(seg))
  /\ Append1(<<Row("recovered", LatestActivation(seg))>>, "stabilizing")
StabilizeEnds ==
  /\ Stabilizing /\ ~Unmatched(seg.rows) /\ ~Refused(RoundRows(seg)) /\ (LatestActivation(seg) = 0 \/ Clean(RoundRows(seg), LatestActivation(seg)))
  /\ Settled

-----------------------------------------------------------------------------
Activation == Enter \/ Mark \/ Context \/ TurnStarts \/ TextArrives \/ CallArrives \/ TurnFails \/ Repair \/ TextEnds \/ ResultArrives \/ Abandon
Stabilize == StabilizeCall \/ StabilizeNotice \/ StabilizeEnds
Next == CardStarts \/ CardEnds \/ Activation \/ Compact \/ Crash \/ Boot \/ Stabilize
\* The process is started again after a crash, and boot runs on.
Spec == Init /\ [][Next]_vars /\ WF_vars(Boot) /\ WF_vars(Stabilize)

-----------------------------------------------------------------------------
(* Properties *)

\* Whatever crashed, was abandoned or compacted, the current segment is one
\* that the next read accepts: no call is left open but the last row, and no
\* result or visible row is parted from what it belongs to.
Readable == Paired(seg.rows)

\* Recovery never meets a conversation it refuses: at most one notice in a
\* round and nothing after it, although the process may die between the
\* result of the open call and the notice.
RecoverySucceeds == phase = "stabilizing" => Paired(seg.rows) /\ ~Refused(RoundRows(seg))

\* Segments only ever hide rows: what was durable is covered or still there,
\* and a torn envelope takes nothing with it.
NothingLost == seg.rows = SubSeq(log, covered + 1, Len(log))

\* The segment knows the newest recovery and refusal behind it.
FactsKept ==
  /\ seg.recovery = NewestFact(SubSeq(log, 1, covered), "recovered", 0)
  /\ seg.refusal = NewestFact(SubSeq(log, 1, covered), "refusal", 0)

\* The segment knows which activation its rows belong to, also when the marker
\* is behind it.
RoundKept == LatestActivation(seg) = NewestFact(log, "open", 0)

\* A card that was running when the process died is stopped again, with its
\* session settled, unless the process dies once more.
Unsettled == running /\ phase \in {"down", "stabilizing"} /\ Len(log) < MaxRows - 2
=============================================================================
