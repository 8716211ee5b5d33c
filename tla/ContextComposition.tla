------------------------- MODULE ContextComposition -------------------------
(* What the model is shown of a conversation: the rows appended by its        *)
(* activations, the compactions that fold a prefix of them into a summary,    *)
(* and the request composed from the summary, the facts and instructions the  *)
(* compaction carried over, and the rows it left.  Where no summary fits, a   *)
(* compaction declares that it omits the prefix and what was summarised of it *)
(* before.  Prepared dynamic blocks are not part of the conversation and are  *)
(* left out.                                                                  *)
EXTENDS Naturals, Sequences, FiniteSets, SequencesExt

CONSTANTS Shapes,         \* what an activation may append: names of rows below
          MaxRows,        \* bound: rows of the whole conversation
          MaxCompactions  \* bound: compactions

CompositionAssumption ==
  /\ MaxRows \in Nat \ {0} /\ MaxCompactions \in Nat
  /\ Shapes \subseteq {"text", "evidence", "private", "prompt", "keyed", "retry", "recovered", "refusal",
                       "call", "callevidence", "callimage", "callprivate", "observe1", "observe2", "issue"}

VARIABLES log,      \* every row of the conversation, by position
          covered,  \* rows behind the current segment
          hist,     \* the history its genesis inherits
          cuts      \* compactions so far

vars == <<log, covered, hist, cuts>>

-----------------------------------------------------------------------------
(* Rows *)

\* A row: its kind, the audience it or its bundle has once settled, whether its
\* result carries images, the key that protects it, the record it observes.
Row(k) == [k |-> k, aud |-> "both", img |-> FALSE, key |-> "", obs |-> ""]
Evidence(r) == [r EXCEPT !.aud = "evidence"]

\* What an activation appends in one batch.  prompt and keyed are configured
\* instructions no compaction may summarise, keyed ones up to their successor.
Batch(s) ==
  CASE s = "private" -> <<Row("private"), Row("text")>>
    [] s = "callprivate" -> <<Row("private"), Row("call")>>
    [] s = "evidence" -> <<Evidence(Row("text"))>>
    [] s = "callevidence" -> <<Evidence(Row("call"))>>
    [] s = "callimage" -> <<[Row("call") EXCEPT !.img = TRUE]>>
    [] s = "keyed" -> <<[Row("prompt") EXCEPT !.key = "step"]>>
    [] s \in {"observe1", "observe2"} -> <<[Row("observation") EXCEPT !.obs = s]>>
    [] OTHER -> <<Row(s)>>

Open(l) == Last(l).k = "call"
Ended(l) == Last(l).k \in {"recovered", "refusal"}

Facts0 == [recovered |-> 0, refusal |-> 0, obs |-> <<>>]
\* The history of an ordinary genesis, and of a compacted one: what its summary
\* was made from, the instructions it retains and the facts it carries.
NoHistory == [any |-> FALSE, sum |-> <<>>, prompts |-> <<>>, facts |-> Facts0]

Init == log = <<Row("open")>> /\ covered = 0 /\ hist = NoHistory /\ cuts = 0

-----------------------------------------------------------------------------
(* Appends.  Positions in the log stand for the rows. *)

Appended(batch) == /\ Len(log) + Len(batch) <= MaxRows /\ log' = log \o batch /\ UNCHANGED <<covered, hist, cuts>>

\* A recovery notice and a refusal end the round; only a result follows a call.
Says == ~Open(log) /\ ~Ended(log) /\ \E s \in Shapes : Appended(Batch(s))
Reopens == Ended(log) /\ Appended(<<Row("open")>>)
\* The result settles under the call's own policy template.
Settles == Open(log) /\ Appended(<<[Last(log) EXCEPT !.k = "result"]>>)

Rows(from, to) == [i \in 1..(to - from) |-> from + i]
Uncovered == Rows(covered, Len(log))

-----------------------------------------------------------------------------
(* Row policy *)

Visible == {"text", "prompt", "retry", "call", "result"}
Notices == {"recovered", "refusal"}
Content == {"text", "prompt", "retry"}

\* classifyConversationRowPolicy, as the primary projection uses it: content
\* and exchanges, the private mate of a visible row, nothing structural.
PrimaryRow(i) ==
  IF log[i].k \in Visible \cup {"private"} THEN <<[o |-> (IF log[i].k = "retry" THEN "retry" ELSE "direct"), i |-> i]>> ELSE <<>>

\* The call a result settles.
CallOf(i) == i - 1
\* The summarizer's side: an exchange once it is settled, as a bundle or as the
\* evidence its template allows, and content rows likewise.
SummarizerRow(i) ==
  CASE log[i].k = "result" -> <<[o |-> (IF log[i].aud = "evidence" THEN "evidence" ELSE "bundle"), i |-> i]>>
    [] log[i].k \in Content -> <<[o |-> (IF log[i].aud = "evidence" THEN "evidence" ELSE "message"), i |-> i]>>
    [] OTHER -> <<>>

-----------------------------------------------------------------------------
(* Composition *)

Newest(rows, k) == LET S == {i \in Range(rows) : log[i].k = k} IN IF S = {} THEN 0 ELSE CHOOSE i \in S : \A j \in S : j <= i

\* Seeded fault: an inherited notice is dropped whenever there are rows.
SelectRowsOnly(rows, facts, k) == IF rows # <<>> \/ facts[k] = 0 THEN [from |-> "row", i |-> Newest(rows, k)] ELSE [from |-> "slot", i |-> facts[k]]
\* selectRepeatedEventOccurrences: the newest row of the kind, or the inherited
\* slot; 0 without either.
Select(rows, facts, k) == IF Newest(rows, k) # 0 \/ facts[k] = 0 THEN [from |-> "row", i |-> Newest(rows, k)] ELSE [from |-> "slot", i |-> facts[k]]

Notice(rows, facts, k, from) ==
  LET s == Select(rows, facts, k) IN IF s.i # 0 /\ s.from = from THEN <<[o |-> k, i |-> s.i]>> ELSE <<>>
NoticesOf(rows, facts) ==
  Notice(rows, facts, "recovered", "slot") \o Notice(rows, facts, "refusal", "slot")
    \o Notice(rows, facts, "recovered", "row") \o Notice(rows, facts, "refusal", "row")

\* groupSettledToolBundles: a result settles an earlier call among the rows.
Bundled(rows) == \A n \in 1..Len(rows) : log[rows[n]].k = "result" => \E m \in 1..(n - 1) : rows[m] = CallOf(rows[n])
\* validateResponsesPairs: a private row comes with its visible mate, and the
\* mate with its private row.
Paired(rows) ==
  \A i \in Range(rows) :
    /\ log[i].k = "private" => i + 1 \in Range(rows)
    /\ i > 1 /\ log[i].k \in {"text", "call"} => (log[i - 1].k = "private" => i - 1 \in Range(rows))
\* What composition throws on otherwise.
Composes(rows) == Bundled(rows) /\ Paired(rows)

Map(rows, Op(_)) == FlattenSeq([n \in 1..Len(rows) |-> Op(rows[n])])

\* composeContextProjection, its primary side: the summary, the notices, the
\* retained instructions, then the rows.
Body(h, rows) ==
  (IF h.any THEN <<[o |-> "summary", i |-> 0]>> ELSE <<>>)
    \o NoticesOf(rows, h.facts) \o [n \in 1..Len(h.prompts) |-> [o |-> "retained", i |-> h.prompts[n]]]
    \o Map(rows, PrimaryRow)
\* providerConversationFromComposedContext: the boundary goes before all of it.
Provider(body) == IF body = <<>> THEN <<>> ELSE <<[o |-> "boundary", i |-> 0]>> \o body
Request == Provider(Body(hist, Uncovered))

\* Its summarizer side for covered rows: no history, no dynamic block.
Summarized(rows) == NoticesOf(rows, Facts0) \o Map(rows, SummarizerRow)

\* currentCoveredRequiredFactRows: the notices the operator's transcript puts
\* before the rows of the segment.
OperatorNotices == Notice(Uncovered, hist.facts, "recovered", "slot") \o Notice(Uncovered, hist.facts, "refusal", "slot")

-----------------------------------------------------------------------------
(* Protection *)

Protected(i) == log[i].k = "prompt"
\* selectConversationProtection: every instruction without a key and the newest
\* of each key, over the inherited ones and all the rows of the segment.
Selected(occ) ==
  {n \in 1..Len(occ) : Protected(occ[n]) /\ (log[occ[n]].key = "" \/ \A m \in n + 1..Len(occ) : log[occ[m]].key # log[occ[n]].key)}
Occurrences == hist.prompts \o Uncovered
Active == {Occurrences[n] : n \in Selected(Occurrences)}
Retained(cut) == SelectSeq(Occurrences, LAMBDA i : i \in Active /\ i <= cut)
Released == SelectSeq(hist.prompts, LAMBDA i : i \notin Active)

-----------------------------------------------------------------------------
(* Compaction *)

\* isSafeFallbackBoundary: never inside an exchange or between a private row
\* and its mate.
SafeEnds == {e \in covered + 1..Len(log) : log[e].k \notin {"call", "private"} /\ ~(e < Len(log) /\ log[e + 1].k = "result")}

\* convertSummarizerItem: the components a fold is packed from.  A bundle with
\* images stays whole, any other is its arguments and its result.
Component(item) ==
  IF item.o = "bundle" /\ ~log[item.i].img
  THEN <<[o |-> "arguments", i |-> CallOf(item.i)], [o |-> "result", i |-> item.i]>>
  ELSE <<item>>
Components(items) == FlattenSeq([n \in 1..Len(items) |-> Component(items[n])])

\* supersededSlotComponents: the inherited slot is folded with the first
\* increment that holds a newer row of its kind.
Superseded(from, to, k) ==
  IF hist.facts[k] # 0 /\ Newest(Rows(from, to), k) # 0 /\ Newest(Rows(covered, from), k) = 0
  THEN <<[o |-> "superseded", i |-> hist.facts[k]]>> ELSE <<>>

\* materializeThrough: one increment, the released instructions in the first.
Increment(from, to) ==
  (IF from = covered THEN [n \in 1..Len(Released) |-> [o |-> "released", i |-> Released[n]]] ELSE <<>>)
    \o Superseded(from, to, "recovered") \o Superseded(from, to, "refusal")
    \o Components(Summarized(SelectSeq(Rows(from, to), LAMBDA i : i \notin Active)))

\* deriveLatestRecordObservations: one entry per record, in the order of its
\* newest observation.
Observe(old, rows) ==
  LET seen == SelectSeq(rows, LAMBDA i : log[i].obs # "")
      all == old \o seen
  IN SelectSeq(all, LAMBDA i : \A j \in Range(all) : log[j].obs = log[i].obs => j <= i)
\* deriveRequiredModelFacts
Facts(old, rows) ==
  [k \in {"recovered", "refusal"} |-> IF Newest(rows, k) = 0 THEN old[k] ELSE Newest(rows, k)]
FactsOf(old, rows) == [recovered |-> Facts(old, rows)["recovered"], refusal |-> Facts(old, rows)["refusal"], obs |-> Observe(old.obs, rows)]

\* buildSuccessorHistory
Successor(sum, cut) == [any |-> TRUE, sum |-> sum, prompts |-> Retained(cut), facts |-> FactsOf(hist.facts, Rows(covered, cut))]

\* validateSelfContainedCompactedHistory, materializeValidatedConversation: what
\* every read of the segment demands of its genesis.
SelfContained(h, rows) ==
  /\ \A n \in 1..Len(h.prompts) : Protected(h.prompts[n])
  /\ \A n \in 1..Len(h.prompts) - 1 : h.prompts[n] < h.prompts[n + 1]
  /\ Range(h.prompts) \cap Range(rows) = {}

\* validateCompactedHistorySuccessor: the genesis published is the one that
\* derives from exactly the covered rows.
Publish(sum, cut) == covered' = cut /\ hist' = Successor(sum, cut)

\* compact: the summary is refined through one endpoint or two, and the segment
\* published covers the rows through one of them.
Compact ==
  /\ cuts < MaxCompactions /\ cuts' = cuts + 1 /\ UNCHANGED log
  /\ \E e1 \in SafeEnds, e2 \in SafeEnds :
     /\ e1 <= e2
     /\ Publish(hist.sum \o Increment(covered, e1) \o (IF e1 < e2 THEN Increment(e1, e2) ELSE <<>>), e2)

\* The declared omission, when no summary qualifies: the notice takes the place
\* of the covered rows and of the inherited summary alike.
Omission(cut) == [o |-> "omission", i |-> cut]
Omit ==
  /\ cuts < MaxCompactions /\ cuts' = cuts + 1 /\ UNCHANGED log
  /\ \E e \in SafeEnds : Publish(<<Omission(e)>>, e)

Next == Says \/ Reopens \/ Settles \/ Compact \/ Omit
Spec == Init /\ [][Next]_vars

-----------------------------------------------------------------------------
(* Properties *)

Places(seq, S, i) == Cardinality({n \in 1..Len(seq) : seq[n].i = i /\ seq[n].o \in S})

\* The model is told of the newest recovery and of the newest refusal of the
\* whole conversation, each exactly once, wherever the compactions cut; and the
\* operator's transcript carries the same notices.
NewestNoticeOnce ==
  \A k \in Notices :
    LET all == Newest(Rows(0, Len(log)), k)
        shown == SelectSeq(Request, LAMBDA e : e.o = k)
    IN /\ shown = (IF all = 0 THEN <<>> ELSE <<[o |-> k, i |-> all]>>)
       /\ all # 0 => Places(OperatorNotices, {k}, all) + (IF all > covered THEN 1 ELSE 0) = 1

\* Rows through which the summary declares that earlier narrative was omitted.
Declared(h) == IF h.sum # <<>> /\ h.sum[1].o = "omission" THEN h.sum[1].i ELSE 0

\* No message and no settled exchange is lost silently or repeated: each is in
\* exactly one place, shown as it is, retained as an instruction, or part of what
\* the summary was made from; or in none, and then the summary the model is shown
\* declares an omission that covers it.
NothingLostOrRepeated ==
  \A i \in 1..Len(log) :
    log[i].k \in Content \cup {"result"} =>
      LET places == Places(Request, {"direct", "retry", "retained"}, i)
                      + Places(hist.sum, {"message", "evidence", "bundle", "result", "released"}, i)
      IN places = 1 \/ (places = 0 /\ i <= Declared(hist))

\* Composition never throws: no exchange and no private pair is split, in what
\* the model is shown and in each increment handed to the summarizer, from which
\* the protected rows have been taken out.
AlwaysComposes ==
  /\ Composes(Uncovered)
  /\ \A e1, e2 \in SafeEnds \cup {covered} : Composes(SelectSeq(Rows(e1, e2), LAMBDA i : i \notin Active))

\* An instruction in force is shown verbatim: each one without a key, and the
\* newest of each key of the whole conversation.
InstructionsInForce ==
  \A i \in 1..Len(log) :
    (Protected(i) /\ (log[i].key = "" \/ \A j \in i + 1..Len(log) : log[j].key # log[i].key))
      => Places(Request, {"direct", "retained"}, i) = 1

\* Every published genesis is one each later read of the session accepts: its
\* instructions are protected ones, in strict source order, and none of them is
\* among the rows that were left.
GenesisIsReadable == SelfContained(hist, Uncovered)

\* The facts carried over do not depend on where the compactions cut: with the
\* rows they leave, they are the facts of the whole conversation, in its order.
FactsOfTheWhole == FactsOf(hist.facts, Uncovered) = FactsOf(Facts0, Rows(0, Len(log)))

\* A notice that is no longer the newest is told to the summarizer when its slot
\* goes to another, unless the step declared that it omits everything it covers.
SupersededIsSummarised ==
     \A k \in Notices : hist.facts[k] \notin {0, hist'.facts[k]}
        => Places(hist'.sum, {"superseded"}, hist.facts[k]) = 1 \/ Declared(hist') = covered'
=============================================================================
