----------------------------- MODULE Compaction -----------------------------
(* compact: the source rows up to a cutoff are folded into a summary, request *)
(* by request, each packed to the capacity of the summariser; a bad summary   *)
(* is corrected once, a failure falls back on what was completed or on the    *)
(* declared omission, and one candidate, smaller than what was rejected, is   *)
(* published.  Rows are components of some size; a text may be divided, an    *)
(* image may not.                                                             *)
EXTENDS Integers, Sequences, FiniteSets, SequencesExt

CONSTANTS Sizes,     \* sizes of the source components
          Images,    \* components that are not divided
          Capacity,  \* what one summary request holds
          Ceiling, Trigger, \* of a preventive compaction
          MaxFolds,  \* MAX_REFINE_INVOCATIONS
          SummarySizes \* sizes a summary may have

CompactionAssumption == Capacity \in Nat /\ Trigger <= Ceiling /\ MaxFolds \in Nat \ {0}

VARIABLES strategy, ends, rejected,
          ei,        \* endpoint being materialised
          cursor,    \* units folded so far
          sum,       \* summary: its size and the units it stands for
          latest,    \* recipe of the latest fold
          folds, corrected,
          completed, \* candidates
          failure,   \* expected failure
          aborted, phase, result,
          pack       \* the last packing: its range, its room, its cutoff (history)

vars == <<strategy, ends, rejected, ei, cursor, sum, latest, folds, corrected, completed, failure, aborted, phase, result, pack>>

N == Len(Sizes)
\* Units before component i + 1.
RECURSIVE Offset(_)
Offset(i) == IF i = 0 THEN 0 ELSE Offset(i - 1) + Sizes[i]
Total == Offset(N)
NoRecipe == [from |-> 0, to |-> 0, sum |-> [size |-> 0, upto |-> 0]]
NoCandidate == [cut |-> 0, size |-> 0, upto |-> 0, omitted |-> FALSE]

\* The two endpoints of selectedCoverageEndpoints, in increasing order.
Endpoints == {<<>>} \cup {<<a>> : a \in 1..N} \cup {<<a, b>> : a \in 1..N, b \in 1..N}
Init ==
  /\ strategy \in {"preventive", "authoritative", "local"} /\ ends \in {e \in Endpoints : \A i \in 2..Len(e) : e[i] > e[i - 1]}
  /\ sum \in {[size |-> s, upto |-> 0] : s \in {0} \cup SummarySizes} /\ rejected = Total + sum.size
  /\ ei = 1 /\ cursor = 0 /\ latest = NoRecipe /\ folds = 0 /\ corrected = FALSE /\ completed = <<>>
  /\ failure \in {"none", "refusal"} /\ aborted = FALSE /\ phase = (IF failure = "refusal" THEN "select" ELSE "fold")
  /\ result = NoCandidate /\ pack = [from |-> 0, to |-> 0, room |-> 0, limit |-> 0]

-----------------------------------------------------------------------------
(* Packing one request *)

Lesser(a, b) == IF a <= b THEN a ELSE b
\* The widest admitted end between an admitted and a rejected one.
RECURSIVE Bisect(_, _, _, _)
Bisect(lo, hi, from, room) ==
  IF hi - lo <= 1 THEN lo
  ELSE LET m == lo + (hi - lo) \div 2 IN
       IF Offset(m) - from <= room THEN Bisect(m, hi, from, room) ELSE Bisect(lo, m, from, room)
\* The component the cursor is in.
At(u) == CHOOSE i \in 0..N : Offset(i) <= u /\ (i < N => Offset(i + 1) > u)
\* Doubling from one component on; the last component of the increment bounds it.
RECURSIVE Double(_, _, _, _, _)
Double(lo, hi, last, from, room) ==
  IF Offset(hi) - from > room THEN Bisect(lo, hi, from, room)
  ELSE IF hi = last THEN last ELSE Double(hi, Lesser(At(from) + 2 * (hi - At(from)), last), last, from, room)
\* Where the packing ends: whole components, then as much of a text as fits,
\* never all of its remainder.
PackEnd(from, last, room) ==
  LET whole == Double(At(from), At(from) + 1, last, from, room)
      start == IF Offset(whole) > from THEN Offset(whole) ELSE from
  IN IF whole = last \/ whole + 1 \in Images THEN start
     ELSE Lesser(from + room, Offset(whole + 1) - 1)

-----------------------------------------------------------------------------
(* Materialising an endpoint *)

Cut == ends[ei]
Rest == UNCHANGED <<strategy, ends, rejected, aborted, result>>
Candidate(cut, s, omitted) == [cut |-> cut, size |-> s.size + Total - Offset(cut), upto |-> s.upto, omitted |-> omitted]
Reduces(c) == c.size < rejected
\* selectQualifying for one candidate.
Qualifies(c) == Reduces(c) /\ (strategy = "preventive" => c.size <= Ceiling)
\* What ends the endpoints early.
Enough(c) == \/ strategy = "authoritative" /\ Reduces(c)
             \/ strategy = "preventive" /\ Qualifies(c) /\ c.size <= Trigger

\* The request of the next fold has no room for anything.
Room == IF Capacity > sum.size THEN Capacity - sum.size ELSE 0
Full == PackEnd(cursor, Cut, Room) = cursor
Folding == phase = "fold" /\ ei <= Len(ends) /\ cursor < Offset(Cut) /\ ~aborted
\* isExpectedRecoveryFailure: an expected failure falls back on what there is, any
\* other is thrown at once.
Fails(f) == failure' = f /\ phase' = (IF f = "thrown" THEN "done" ELSE "select") /\ UNCHANGED <<sum, latest, cursor, ei, completed>>

\* Seeded fault: the correction folds the ranges into the summary that failed.
CorrectedOver(r, size) == [size |-> size, upto |-> sum.upto + r.to - r.from]
\* correctFold: the recipe again, from the summary before it.
Corrected(r, size) == [size |-> size, upto |-> r.sum.upto + r.to - r.from]
\* correctFold(r) as one request; after is what follows its success.
Correct(r, after(_)) ==
  /\ corrected' = TRUE
  /\ IF folds >= MaxFolds \/ r.sum.size + r.to - r.from > Capacity THEN Fails("limit") /\ UNCHANGED folds
     ELSE /\ folds' = folds + 1
          /\ \/ \E s \in SummarySizes : after(Corrected(r, s))
             \/ \E f \in {"refusal", "provider", "invalid", "thrown"} : Fails(f)

\* packNextActualRanges throws: the latest fold is corrected once, to be shorter.
FoldFull ==
  /\ Folding /\ Full /\ UNCHANGED pack /\ Rest
  /\ IF latest = NoRecipe \/ corrected THEN Fails("limit") /\ UNCHANGED <<folds, corrected>>
     ELSE Correct(latest, LAMBDA s : sum' = s /\ UNCHANGED <<latest, cursor, ei, completed, failure, phase>>)
Advance(recipe, s) == sum' = s /\ latest' = recipe /\ cursor' = recipe.to /\ UNCHANGED <<ei, completed, failure, phase>>
\* invokeFold: one request; an output that is empty, cut off or a tool call is
\* corrected once.
Fold ==
  /\ Folding /\ ~Full /\ Rest
  /\ LET recipe == [from |-> cursor, to |-> PackEnd(cursor, Cut, Room), sum |-> sum] IN
     /\ pack' = [from |-> cursor, to |-> recipe.to, room |-> Room, limit |-> Offset(Cut)]
     /\ IF folds >= MaxFolds THEN Fails("limit") /\ UNCHANGED <<folds, corrected>>
        ELSE \/ /\ folds' = folds + 1 /\ UNCHANGED corrected
                /\ \/ \E s \in SummarySizes : Advance(recipe, [size |-> s, upto |-> recipe.to])
                   \/ \E f \in {"refusal", "provider", "thrown"} : Fails(f)
                   \/ corrected /\ Fails("invalid")
             \/ ~corrected /\ corrected' = TRUE /\ folds' = folds + 2 /\ folds + 1 < MaxFolds
                /\ \E s \in SummarySizes : Advance(recipe, Corrected(recipe, s))
             \/ ~corrected /\ corrected' = TRUE /\ folds' \in {folds + 1, folds + 2} /\ Fails("limit")
\* materializeThrough returns; the candidate is evaluated.
Materialized ==
  /\ phase = "fold" /\ ei <= Len(ends) /\ cursor >= Offset(Cut) /\ ~aborted /\ Rest
  /\ LET c == Candidate(Cut, sum, FALSE) IN
     /\ completed' = Append(completed, c) /\ (IF Enough(c) THEN phase' = "publish" /\ UNCHANGED ei ELSE ei' = ei + 1 /\ UNCHANGED phase)
  /\ UNCHANGED <<cursor, sum, latest, folds, corrected, failure, pack>>
EndpointsDone == /\ phase = "fold" /\ ei > Len(ends) /\ phase' = "select" /\ Rest
                 /\ UNCHANGED <<ei, cursor, sum, latest, folds, corrected, completed, failure, pack>>

-----------------------------------------------------------------------------
(* Choosing and publishing *)

\* selectQualifying over the completed candidates: the first for the recovery
\* of a rejected context, else the smallest, the furthest among equals.
Qualifying == SelectSeq(completed, Qualifies)
Best == IF strategy = "authoritative" THEN Head(Qualifying)
        ELSE CHOOSE c \in ToSet(Qualifying) : \A d \in ToSet(Qualifying) : c.size < d.size \/ (c.size = d.size /\ c.cut >= d.cut)
Selecting == phase = "select" /\ ~aborted
Publish(c) == result' = c /\ phase' = "done"
PublishEnough == /\ phase = "publish" /\ ~aborted /\ Publish(Last(completed))
                 /\ UNCHANGED <<strategy, ends, rejected, ei, cursor, sum, latest, folds, corrected, completed, failure, aborted, pack>>
PublishBest == /\ Selecting /\ Qualifying # <<>> /\ Publish(Best)
               /\ UNCHANGED <<strategy, ends, rejected, ei, cursor, sum, latest, folds, corrected, completed, failure, aborted, pack>>
\* Nothing qualifies and nothing failed: the latest fold is made again, shorter.
CorrectFinal ==
  /\ Selecting /\ Qualifying = <<>> /\ failure = "none" /\ completed # <<>> /\ latest # NoRecipe /\ ~corrected /\ Rest /\ UNCHANGED pack
  /\ Correct(latest, LAMBDA s : /\ sum' = s /\ completed' = Append(completed, Candidate(Last(completed).cut, s, FALSE))
                                /\ UNCHANGED <<latest, cursor, ei, phase, failure>>)
\* The declared omission comes after every ordinary candidate and correction.
MayOmit == Selecting /\ Qualifying = <<>> /\ (failure # "none" \/ completed = <<>> \/ latest = NoRecipe \/ corrected)
Omissions == {i \in 1..Len(ends) : Qualifies(Candidate(ends[i], [size |-> 1, upto |-> Offset(ends[i])], TRUE))}
Omit ==
  /\ MayOmit /\ UNCHANGED <<strategy, ends, rejected, ei, cursor, sum, latest, folds, corrected, completed, failure, aborted, pack>>
  /\ IF Omissions = {} THEN phase' = "done" /\ UNCHANGED result
     ELSE LET i == CHOOSE i \in Omissions : \A j \in Omissions : i <= j
          IN Publish(Candidate(ends[i], [size |-> 1, upto |-> Offset(ends[i])], TRUE))

\* The signal aborts; the step that finds it ends with its reason.
Abort == phase # "done" /\ ~aborted /\ aborted' = TRUE
         /\ UNCHANGED <<strategy, ends, rejected, ei, cursor, sum, latest, folds, corrected, completed, failure, phase, result, pack>>
Aborted == aborted /\ phase # "done" /\ phase' = "done"
           /\ UNCHANGED <<strategy, ends, rejected, ei, cursor, sum, latest, folds, corrected, completed, failure, aborted, result, pack>>

-----------------------------------------------------------------------------
Work == FoldFull \/ Fold \/ Materialized \/ EndpointsDone \/ PublishEnough \/ PublishBest \/ CorrectFinal \/ Omit \/ Aborted
Next == Work \/ Abort
\* Requests of the summariser are answered, failed or timed out.
Spec == Init /\ [][Next]_vars /\ WF_vars(Work)

-----------------------------------------------------------------------------
(* Properties *)

\* A published summary stands for exactly the rows it covers: no range is left
\* out or told twice by packing, by corrections or by the second endpoint.
SummaryCovers == result.cut # 0 => result.upto = Offset(result.cut)

\* A published projection is smaller than the rejected one, and within the
\* ceiling of a preventive compaction: the caller makes progress.
Shrinks == result.cut # 0 => result.size < rejected /\ (strategy = "preventive" => result.size <= Ceiling)

\* Memory is dropped without a summary only when no summary qualifies.
OmissionLast == result.omitted => \A i \in 1..Len(completed) : ~Qualifies(completed[i])

\* A request holds as much as fits: no wider range that ends at a component, or
\* inside a text, would have been admitted.
PackingMaximal ==
  pack.to > pack.from =>
    \A u \in pack.to + 1..Lesser(pack.from + pack.room, pack.limit) :
      \E i \in Images : Offset(i - 1) < u /\ u < Offset(i)

\* Nothing is published once the signal has aborted.
AbortPublishesNothing == aborted => UNCHANGED result

\* Compaction ends: corrections and folds are bounded.
Compacting == phase # "done"
=============================================================================
