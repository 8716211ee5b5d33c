---------------------------- MODULE RecordStore -----------------------------
(* The authored records of one card: their heads and immutable accepted       *)
(* versions, and everyone who writes them.  The agent of the card's own node  *)
(* opens and edits a draft that the node closes or discards; the Analyst and  *)
(* agents of other cards accept a text directly; an action node accepts its   *)
(* output.  Every operation is synchronous, but the Analyst may fetch from    *)
(* the network between its preflight and its write, nodes wait for their      *)
(* agents, and the process may die between two publications of an operation.  *)
(* Stop abandons a node that does not answer; its execution unwinds later and *)
(* discards what it wrote, whoever has opened a draft since.                  *)
(* A head identity is abstracted to its revision: a process never publishes   *)
(* two heads with one revision.                                               *)
EXTENDS Integers, Sequences, FiniteSets

CONSTANTS Records,    \* names of the card's records
          Required,   \* the record the agent nodes require
          Output,     \* the record the action nodes accept their output to
          Bootstrap,  \* records created with the card
          Templated,  \* records with an initializer
          Modes,      \* modes of the requirement: "clean", "continue"
          Texts,      \* authored contents
          MaxEntries, \* bound: accepted documents
          MaxRev      \* bound: revisions of one record

Template == "template"
NoText == "no text"

RecordStoreAssumption ==
  /\ Required \in Records /\ Output \in Records \ Bootstrap /\ Required \notin Bootstrap
  /\ Bootstrap \subseteq Records /\ Templated \subseteq Records \ Bootstrap
  /\ Modes \subseteq {"clean", "continue"} /\ MaxEntries \in Nat /\ MaxRev \in Nat
  /\ IsFiniteSet(Records) /\ NoText \notin Texts

VARIABLES head,     \* the published head of each record, rev = 0 when absent
          prev,     \* its previous slot
          docs,     \* records/accepted/<entry>.json, the entry its index
          status,   \* the card's status
          node,     \* the node in execution
          fetch,    \* records the Analyst writes to when its fetch returns
          up,       \* the process runs
          authored, \* texts handed to a mutation, per record (for the properties)
          fault,    \* a store operation threw after its admission: "none", "store", or
                    \* "robbed" at a node that had lost a draft to an abandoned execution
          passed,   \* the last node accepted: required version before and after
          late      \* what each abandoned execution has written and not yet discarded

vars == <<head, prev, docs, status, node, fetch, up, authored, fault, passed, late>>

Contents == Texts \cup {Template}
NoDraft == [open |-> FALSE, text |-> NoText, ver |-> 0, target |-> 0]
Absent == [rev |-> 0, baseline |-> NoText, draft |-> NoDraft, acc |-> 0]
NoNode == [kind |-> "none", mode |-> "clean", gate |-> "exists", base |-> 0, ver |-> 0, written |-> {},
           robbed |-> FALSE]

Version(h) == IF h.acc = 0 THEN 0 ELSE docs[h.acc].ver

\* effectiveRecordContent, NoText where there is none.
Effective(h) == IF h.draft.open THEN h.draft.text ELSE IF h.baseline # NoText THEN h.baseline
                ELSE IF h.acc # 0 THEN docs[h.acc].text ELSE NoText

\* isEligibleRecordContent
IsEligible(h) == IF h.draft.open THEN h.draft.ver > 0 /\ h.draft.text # NoText ELSE h.acc # 0

-----------------------------------------------------------------------------
(* The store: each operation computes the next head from the current one. *)

Next1(h) == [h EXCEPT !.rev = @ + 1]
\* openAuthoredRecord
Opened(h) == IF h.draft.open THEN h
             ELSE LET target == Version(h) + 1 IN
                    [Next1(h) EXCEPT !.baseline = NoText,
                       !.draft = [open |-> TRUE, text |-> h.baseline, target |-> target,
                                  ver |-> IF h.baseline # NoText THEN 0 ELSE target]]
\* editOpenAuthoredRecord
Edited(h, c) == [Next1(h) EXCEPT !.draft.text = c, !.draft.ver = h.draft.target]
\* discardOpenAuthoredRecord
Discarded(h) == [Next1(h) EXCEPT !.draft = NoDraft]
\* initializeRecordBaseline: exact absence alone renders the template.
Initialized(h) == IF h.rev > 0 THEN h ELSE [Absent EXCEPT !.rev = 1, !.baseline = Template]
\* publishAcceptance: the immutable document, and the head that selects it.
Document(r, h, c, who) == [rec |-> r, ver |-> Version(h) + 1, pred |-> h.acc, text |-> c, author |-> who]
Selecting(h, entry) == [rev |-> h.rev + 1, baseline |-> NoText, draft |-> NoDraft, acc |-> entry]

\* recordHeadSchema
HeadParses(h) ==
  /\ h.baseline # NoText => ~h.draft.open /\ h.acc = 0
  /\ h.draft.open => /\ h.draft.ver = h.draft.target \/ (h.draft.ver = 0 /\ h.draft.target = 1)
                     /\ h.draft.target = Version(h) + 1
                     /\ h.draft.ver = 0 => h.acc = 0 /\ h.draft.text # NoText
  /\ h.acc # 0 => Version(h) <= h.rev

\* iterateAuthoredRecordVersions: the entries reached by predecessors, newest
\* first, 0 where the walk ends.
Walk(r) == LET entry[k \in 0..Len(docs)] ==
                 IF k = 0 THEN head[r].acc ELSE IF entry[k-1] = 0 THEN 0 ELSE docs[entry[k-1]].pred
           IN entry

\* publishHead: the head before becomes the previous slot.
Publish(heads) ==
  /\ head' = heads
  /\ prev' = [r \in Records |-> IF heads[r] = head[r] THEN prev[r] ELSE head[r]]

\* acceptAuthoredRecord: its own checks come after the admission of the request.
Accept(r, c, who) ==
  LET h == head[r] IN
    IF h.draft.open \/ (who # "output" /\ Effective(h) = c)
      THEN fault' = "store" /\ UNCHANGED <<head, prev, docs>>
      ELSE /\ docs' = Append(docs, Document(r, h, c, who))
           /\ Publish([head EXCEPT ![r] = Selecting(h, Len(docs) + 1)])
           /\ UNCHANGED fault

-----------------------------------------------------------------------------
(* admitRecordMutation and mutateRecord *)

NonselfStatuses == {"backlog", "changed", "blocked", "stopped"}
\* analystRecordEditEffect
EditEffect(s) == IF s \in {"backlog", "changed", "running", "stopped"} THEN "preserve"
                 ELSE IF s \in {"blocked", "done", "failed"} THEN "reopen" ELSE "refused"

\* admitRecordMutation, after the parse of the URL and the grants of the writer.
Admitted(who, r) ==
  CASE who = "peer" -> status \in NonselfStatuses /\ ~head[r].draft.open
    [] who = "analyst" -> EditEffect(status) # "refused" /\ ~head[r].draft.open
    [] OTHER -> TRUE

\* The content-dependent refusals: an edit needs text to edit, and the result
\* is neither empty nor unchanged.
Applies(op, r, c) == /\ op = "edit" => Effective(head[r]) # NoText
                     /\ Effective(head[r]) # c

Author(r, c) == authored' = [authored EXCEPT ![r] = @ \cup {c}]
Room == Len(docs) < MaxEntries
Low(r) == head[r].rev + 2 <= MaxRev

\* propagateAnalystRecordEdit, and the peer's setStatus of a blocked target.
Propagated(who) == IF who = "analyst" THEN (IF EditEffect(status) = "reopen" THEN "changed" ELSE status)
                   ELSE IF status = "blocked" THEN "changed" ELSE status

\* Direct acceptance by the Analyst, or by the agent of another card while this
\* card has no owner (admitBoundRecordMutation).
DirectWrite(who, op, r, c) ==
  /\ up /\ Room /\ Low(r) /\ Admitted(who, r) /\ Applies(op, r, c)
  /\ who = "peer" => node.kind = "none"
  /\ Accept(r, c, who) /\ Author(r, c) /\ status' = Propagated(who)
  /\ UNCHANGED <<node, fetch, up, passed, late>>

\* preflightAnalystRecordWrite, before the network is asked.
Preflight(r) ==
  /\ up /\ fetch = {} /\ Admitted("analyst", r) /\ fetch' = {r}
  /\ UNCHANGED <<head, prev, docs, status, node, up, authored, fault, passed, late>>
\* Seeded fault: the fetched text is written on the admission of the preflight.
WritePreflighted(r, c) == /\ Accept(r, c, "analyst") /\ Author(r, c) /\ UNCHANGED status
\* The fetched text is admitted anew, and refused or accepted.
WriteFetched(r, c) ==
  IF Admitted("analyst", r) /\ Applies("write", r, c)
    THEN Accept(r, c, "analyst") /\ Author(r, c) /\ status' = Propagated("analyst")
    ELSE UNCHANGED <<head, prev, docs, fault, authored, status>>
FetchReturns(c) ==
  /\ up /\ Room
  /\ \E r \in fetch : Low(r) /\ WriteFetched(r, c)
  /\ fetch' = {} /\ UNCHANGED <<node, up, passed, late>>

\* The node's own agent: the draft is opened where it is not, then edited.
AgentWrite(op, r, c) ==
  /\ up /\ node.kind = "agent" /\ Low(r) /\ Admitted("agent", r) /\ Applies(op, r, c)
  /\ LET o == Opened(head[r]) IN
       IF o.draft.text = c
         THEN fault' = "store" /\ UNCHANGED <<head, prev>>
         ELSE Publish([head EXCEPT ![r] = Edited(o, c)]) /\ UNCHANGED fault
  /\ Author(r, c) /\ node' = [node EXCEPT !.written = @ \cup {r}]
  /\ UNCHANGED <<docs, status, fetch, up, passed, late>>

-----------------------------------------------------------------------------
(* Nodes *)

\* prepareRecordRequirements: initializers, then clean requirements afresh.
Prepared(hs, mode) == [r \in Records |->
    LET h == IF r \in Templated THEN Initialized(hs[r]) ELSE hs[r] IN
      IF r = Required /\ mode = "clean" THEN Opened(IF h.draft.open THEN Discarded(h) ELSE h) ELSE h]

\* discardWrittenRecords: whatever draft of the records is open, its own or not.
DiscardWritten(hs, written) == [r \in Records |->
    IF r \in written /\ hs[r].draft.open THEN Discarded(hs[r]) ELSE hs[r]]

\* prepareRecords, and captureBaseline after it.
StartNode(mode, gate) ==
  /\ up /\ status = "running" /\ node.kind = "none" /\ Low(Required)
  /\ LET hs == Prepared(head, mode) IN
       /\ Publish(hs)
       /\ node' = [kind |-> "agent", mode |-> mode, gate |-> gate, base |-> hs[Required].rev,
                   ver |-> Version(hs[Required]), written |-> {}, robbed |-> FALSE]
  /\ UNCHANGED <<docs, status, fetch, up, authored, fault, passed, late>>

\* validateRecords
GatePasses == /\ IsEligible(head[Required])
              /\ node.gate = "updated" => head[Required].rev > node.base

\* closeOpenAuthoredRecord of the requirement, then of the other records the
\* agent wrote; a record that is no longer an eligible draft is an internal error.
Closing == {r \in Records : head[r].draft.open /\ (r = Required \/ r \in node.written)}
AcceptNode ==
  /\ up /\ node.kind = "agent" /\ GatePasses
  /\ Len(docs) + Cardinality(Closing) <= MaxEntries
  /\ IF \E r \in node.written \ {Required} : ~head[r].draft.open \/ ~IsEligible(head[r])
       THEN fault' = (IF node.robbed THEN "robbed" ELSE "store") /\ UNCHANGED <<head, prev, docs, passed>>
       ELSE /\ \E order \in {s \in [1..Cardinality(Closing) -> Closing] : {s[i] : i \in DOMAIN s} = Closing} :
                 /\ Required \in Closing => order[1] = Required
                 /\ docs' = docs \o [i \in DOMAIN order |-> Document(order[i], head[order[i]], head[order[i]].draft.text, "agent")]
                 /\ Publish([r \in Records |-> IF r \in Closing
                       THEN Selecting(head[r], Len(docs) + (CHOOSE i \in DOMAIN order : order[i] = r)) ELSE head[r]])
            /\ passed' = [mode |-> node.mode, robbed |-> node.robbed, before |-> node.ver,
                          after |-> Version(head[Required]) + (IF Required \in Closing THEN 1 ELSE 0)]
            /\ UNCHANGED fault
  /\ node' = NoNode /\ UNCHANGED <<status, fetch, up, authored, late>>

\* reprepareRecords after a stale review: the entry baseline stays.
Reprepare ==
  /\ up /\ node.kind = "agent" /\ GatePasses /\ Low(Required)
  /\ Publish(Prepared(DiscardWritten(head, node.written), node.mode))
  /\ node' = [node EXCEPT !.written = {}]
  /\ UNCHANGED <<docs, status, fetch, up, authored, fault, passed, late>>

\* finalizeRecords of a node that ends without acceptance.
EndNode ==
  /\ up /\ node.kind = "agent" /\ Publish(DiscardWritten(head, node.written)) /\ node' = NoNode
  /\ UNCHANGED <<docs, status, fetch, up, authored, fault, passed, late>>

\* Stop revokes the contained operations of a node that is still in execution:
\* the card stops without it, and its execution unwinds when what it waits for
\* returns.
Abandon ==
  /\ up /\ node.kind # "none" /\ node' = NoNode /\ status' = "stopped"
  /\ late' = late \cup ({node.written} \ {{}})
  /\ UNCHANGED <<head, prev, docs, fetch, up, authored, fault, passed>>
\* finalizeRecords of the abandoned execution, checked against no activation.
LateDiscard ==
  /\ up
  /\ \E written \in late :
       /\ Publish(DiscardWritten(head, written)) /\ late' = late \ {written}
       /\ node' = [node EXCEPT !.robbed = @ \/ (node.kind = "agent" /\ \E r \in written : head[r].draft.open)]
  /\ UNCHANGED <<docs, status, fetch, up, authored, fault, passed>>

\* executeAction: an open draft of the output record fails the node; otherwise
\* the operation runs, and its output is accepted over whatever is current.
StartAction ==
  /\ up /\ status = "running" /\ node.kind = "none"
  /\ IF head[Output].draft.open THEN status' = "failed" /\ UNCHANGED node
     ELSE node' = [NoNode EXCEPT !.kind = "action", !.base = head[Output].rev] /\ UNCHANGED status
  /\ UNCHANGED <<head, prev, docs, fetch, up, authored, fault, passed, late>>
ActionDone(c) ==
  /\ up /\ node.kind = "action" /\ Room /\ Low(Output)
  /\ Accept(Output, c, "output") /\ Author(Output, c) /\ node' = NoNode
  /\ UNCHANGED <<status, fetch, up, passed, late>>

\* The card around its nodes.
Activate ==
  /\ up /\ status \in {"backlog", "changed", "stopped"} /\ status' = "running"
  /\ UNCHANGED <<head, prev, docs, node, fetch, up, authored, fault, passed, late>>
Settle ==
  /\ up /\ status = "running" /\ node.kind = "none" /\ status' \in {"done", "blocked", "failed", "stopped"}
  /\ UNCHANGED <<head, prev, docs, node, fetch, up, authored, fault, passed, late>>
Cancel ==
  /\ up /\ node.kind = "none" /\ status # "cancelled" /\ status' = "cancelled"
  /\ UNCHANGED <<head, prev, docs, node, fetch, up, authored, fault, passed, late>>

-----------------------------------------------------------------------------
(* Death, restart and repair *)

\* The process dies: between operations, after the document of an acceptance
\* and before its head, or between the opening and the edit of a draft.
Die ==
  /\ up /\ up' = FALSE /\ node' = NoNode /\ fetch' = {} /\ late' = {}
  /\ \/ UNCHANGED <<head, prev, docs>>
     \/ /\ Room /\ UNCHANGED <<head, prev>>
        /\ \E r \in Records, c \in Contents : docs' = Append(docs, Document(r, head[r], c, "agent"))
     \/ /\ node.kind = "agent" /\ UNCHANGED docs
        /\ \E r \in Records : Low(r) /\ Publish([head EXCEPT ![r] = Opened(@)])
  /\ UNCHANGED <<status, authored, fault, passed>>
Restart ==
  /\ ~up /\ up' = TRUE /\ status' = IF status = "running" THEN "stopped" ELSE status
  /\ UNCHANGED <<head, prev, docs, node, fetch, authored, fault, passed, late>>
\* restoreAuthoredRecordSelection: repair of an unreadable head, offline.  The
\* previous slot is left without a readable head.
Restore(r) ==
  /\ ~up /\ prev[r].rev > 0 /\ head' = [head EXCEPT ![r] = prev[r]] /\ prev' = [prev EXCEPT ![r] = Absent]
  /\ UNCHANGED <<docs, status, node, fetch, up, authored, fault, passed, late>>

Init ==
  /\ status \in {"backlog", "done"} /\ node = NoNode /\ fetch = {} /\ up = TRUE /\ fault = "none" /\ late = {}
  /\ \E order \in {s \in [1..Cardinality(Bootstrap) -> Bootstrap] : {s[i] : i \in DOMAIN s} = Bootstrap} :
       /\ docs = [i \in DOMAIN order |-> [rec |-> order[i], ver |-> 1, pred |-> 0, text |-> Template, author |-> "runtime"]]
       /\ head = [r \in Records |-> IF r \in Bootstrap
              THEN [Absent EXCEPT !.rev = 1, !.acc = CHOOSE i \in DOMAIN order : order[i] = r] ELSE Absent]
  /\ prev = [r \in Records |-> Absent] /\ authored = [r \in Records |-> IF r \in Bootstrap THEN {Template} ELSE {}]
  /\ passed = [mode |-> "continue", robbed |-> FALSE, before |-> 0, after |-> 0]

Next ==
  \/ \E who \in {"analyst", "peer"}, op \in {"write", "edit"}, r \in Records, c \in Contents : DirectWrite(who, op, r, c)
  \/ \E r \in Records : Preflight(r) \/ Restore(r)
  \/ \E c \in Contents : FetchReturns(c) \/ ActionDone(c)
  \/ \E op \in {"write", "edit"}, r \in Records, c \in Contents : AgentWrite(op, r, c)
  \/ \E mode \in Modes, gate \in {"exists", "updated"} : StartNode(mode, gate)
  \/ AcceptNode \/ Reprepare \/ EndNode \/ Abandon \/ LateDiscard \/ StartAction \/ Activate \/ Settle \/ Cancel \/ Die \/ Restart

Spec == Init /\ [][Next]_vars

-----------------------------------------------------------------------------
TypeOK ==
  /\ head \in [Records -> [rev : Nat, baseline : {NoText, Template}, acc : 0..Len(docs),
               draft : [open : BOOLEAN, text : Contents \cup {NoText}, ver : 0..MaxEntries + 1, target : 0..MaxEntries + 1]]]
  /\ status \in {"backlog", "changed", "running", "stopped", "blocked", "done", "failed", "cancelled"}
  /\ node.kind \in {"none", "agent", "action"} /\ fetch \subseteq Records

\* Every published head satisfies the schema that the next read parses it with,
\* whatever sequence of openings, edits, discards, acceptances and repairs led
\* to it: no operation publishes a head that makes the record unreadable.
HeadsParse == \A r \in Records : head[r].rev > 0 => HeadParses(head[r])

\* The predecessors of the selected version are exactly the versions n..1 of
\* the same record, also after deaths left documents nobody selects and after
\* repair went back to the previous selection.
HistoryIsChain ==
  \A r \in Records : head[r].acc # 0 =>
    LET n == Version(head[r])
        entry == Walk(r)
    IN /\ \A k \in 0..(n-1) : entry[k] # 0 /\ docs[entry[k]].rec = r /\ docs[entry[k]].ver = n - k
       /\ entry[n] = 0

\* What a record has accepted was handed in by a writer: a rendered template or
\* an empty draft is never accepted as it is.
AcceptedIsAuthored == \A r \in Records : head[r].acc # 0 => docs[head[r].acc].text \in authored[r]

\* Once a mutation is admitted no check of the store fails any more: stale
\* admissions, drafts taken over by others and written records that are no
\* longer open do not occur.  The acceptance of a node alone may fail, when the
\* late discard of an abandoned execution took a draft its agent had written.
NoFault == fault # "store"

\* An open draft belongs to the workflow: acceptances of the Analyst and of
\* other cards' agents never replace or drop it.
DraftsAreKept ==
     \A r \in Records : head[r].draft.open /\ Len(docs') > Len(docs) /\ docs'[Len(docs')].author \in {"analyst", "peer"}
        => head'[r] = head[r]

\* Outside repair the accepted version of a record never goes back.
AcceptedNeverGoesBack ==
     up => \A r \in Records : Version(head[r]) <= (IF head'[r].acc = 0 THEN 0 ELSE docs'[head'[r].acc].ver)

\* A node that passes a clean requirement, under either gate, leaves a version
\* of the record newer than the one it started from, unless the late discard of
\* an abandoned execution closed a draft under it.
CleanIsNew == passed.mode = "clean" /\ ~passed.robbed => passed.after > passed.before

=============================================================================
