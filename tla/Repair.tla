------------------------------- MODULE Repair -------------------------------
(* The offline repair command on one damaged target: a card, a record or a    *)
(* conversation.  It takes the lifecycle lock, inspects, reports, asks for    *)
(* consent, checks that nothing it inspected has changed, applies its steps   *)
(* one by one and validates the result.  The process may die between any two  *)
(* of them, and the operator may start it again.                              *)
EXTENDS Naturals, Sequences, FiniteSets, SequencesExt

CONSTANTS Kinds,      \* targets: "card", "record", "optional" (a record), "conversation"
          MaxDocs,    \* bound: documents or segments of the target
          MaxCrashes, \* bound: deaths of the command
          MaxEdits    \* bound: files changed by somebody else while it asks

RepairAssumption ==
  /\ Kinds \subseteq {"card", "record", "optional", "conversation"}
  /\ MaxDocs \in Nat \ {0} /\ MaxCrashes \in Nat /\ MaxEdits \in Nat

Docs == 1..MaxDocs
Roots == {"mailbox", "records", "sessions"}

VARIABLES kind,     \* the target's kind
          f,        \* its files: both selectors, its documents, its other roots
          start,    \* the files the operator started from
          attic,    \* what was moved to the attic: the file and its state
          phase,    \* idle, asking, applying, done, invalid
          discard,  \* the attempt is a --discard-card
          steps,    \* the steps still to apply
          seen,     \* the files as inspected
          crashes, edits,
          window,   \* a death fell between the clearing of the slot and the new selector
          discarded \* a discard was applied, in part or whole

vars == <<kind, f, start, attic, phase, discard, steps, seen, crashes, edits, window, discarded>>

-----------------------------------------------------------------------------
(* Files *)

\* A selector: missing, unreadable, or one that selects a document.  For a
\* conversation sel is the number of segments of the index.
None == [s |-> "none", sel |-> 0]
Bad == [s |-> "bad", sel |-> 0]
Selector(n) == [s |-> "head", sel |-> n]
IsIndex == kind = "conversation"

\* inspectCardSelection, inspectAuthoredRecordSelection: the selector parses and
\* so does what it selects.  A current segment may have a torn suffix.
Readable(ff, n) == n = 0 \/ ff.docs[n] = "ok" \/ (IsIndex /\ ff.docs[n] = "torn")
Usable(ff, h) == h.s = "head" /\ Readable(ff, h.sel)

Least == IF kind \in {"card", "record"} THEN 1 ELSE 0
Selectors == {None, Bad} \cup {Selector(n) : n \in Least..MaxDocs}
DocStates == IF IsIndex THEN {"ok", "torn", "bad", "none"} ELSE {"ok", "bad", "none"}

Init ==
  /\ kind \in Kinds
  /\ f \in [cur : Selectors, prev : Selectors, docs : [Docs -> DocStates], roots : {Roots}]
  /\ start = f /\ attic = {} /\ phase = "idle" /\ discard = FALSE /\ steps = <<>> /\ seen = f
  /\ crashes = 0 /\ edits = 0 /\ window = FALSE /\ discarded = FALSE

-----------------------------------------------------------------------------
(* The decision *)

Step(op, arg) == [op |-> op, arg |-> arg]
\* publishHeadFile: the previous slot is cleared, the current selector linked
\* into it unless there is none, and the new one renamed into place.
PublishSteps(sel, mode) ==
  <<Step("unlink", 0)>> \o (IF mode = "replacement" THEN <<Step("link", 0)>> ELSE <<>>) \o <<Step("write", sel)>>
Refuse == [ok |-> FALSE, steps |-> <<>>]
Decide(s) == [ok |-> TRUE, steps |-> s]
When(c, s) == IF c THEN s ELSE <<>>

\* Seeded fault: the damaged selector is moved after the restored one is
\* published, so that it is the restored one that goes.
SelectionDecisionMoves(ff) ==
  IF Usable(ff, ff.cur) THEN Decide(<<>>)
  ELSE IF kind = "optional" /\ ff.cur.s = "none" /\ ff.prev.s = "none" THEN Decide(<<>>)
  ELSE IF ~Usable(ff, ff.prev) THEN Refuse
  ELSE Decide(PublishSteps(ff.prev.sel, IF ff.cur.s = "head" THEN "replacement" ELSE "initial")
              \o When(ff.cur.s # "none", <<Step("movecur", 0)>>))
\* inspectRepairTarget of a card or a record: a healthy current selection is
\* left alone, otherwise the previous one is restored.  A selector that does not
\* parse is moved first, a document that does not is moved afterwards.
SelectionDecision(ff) ==
  IF Usable(ff, ff.cur) THEN Decide(<<>>)
  ELSE IF kind = "optional" /\ ff.cur.s = "none" /\ ff.prev.s = "none" THEN Decide(<<>>)
  ELSE IF ~Usable(ff, ff.prev) THEN Refuse
  ELSE Decide(When(ff.cur.s = "bad", <<Step("movecur", 0)>>)
              \o PublishSteps(ff.prev.sel, IF ff.cur.s = "head" THEN "replacement" ELSE "initial")
              \o When(ff.cur.s = "head" /\ ff.docs[ff.cur.sel] # "none", <<Step("movedoc", ff.cur.sel)>>))

\* tail: only an unterminated suffix of the segment that is, or becomes, current.
Tail1(ff, n) == When(n > 0 /\ ff.docs[n] = "torn", <<Step("truncate", n)>>)
\* The newest segment is unreadable: exactly one is rolled back, to a
\* predecessor that is whole.
Rollback(ff) ==
  LET n == ff.cur.sel IN
  IF n < 2 \/ ff.docs[n - 1] # "ok" THEN Refuse
  ELSE Decide(PublishSteps(n - 1, "replacement") \o When(ff.docs[n] # "none", <<Step("movedoc", n)>>))
\* inspectRepairTarget of a conversation.
IndexDecision(ff) ==
  IF ff.cur.s # "head"
  THEN IF ~Usable(ff, ff.prev) THEN Refuse
       ELSE Decide(When(ff.cur.s = "bad", <<Step("movecur", 0)>>) \o PublishSteps(ff.prev.sel, "initial") \o Tail1(ff, ff.prev.sel))
  ELSE IF Readable(ff, ff.cur.sel) THEN Decide(Tail1(ff, ff.cur.sel)) ELSE Rollback(ff)

\* publishDiscardedCard: fresh directories, empty sessions, placeholder records,
\* and the selector last.
Create == <<Step("mkdir", 0), Step("sessions", 0), Step("records", 0), Step("newdoc", 1), Step("unlink", 0), Step("write", 1)>>
Discardable(ff) == ~Usable(ff, ff.cur) /\ ~Usable(ff, ff.prev)
\* --discard-card: the own roots that are there are moved, both selectors, the
\* history and the rest.
DiscardDecision(ff) ==
  IF ~Discardable(ff) THEN Refuse
  ELSE Decide(When(ff.cur.s # "none", <<Step("movecur", 0)>>) \o When(ff.prev.s # "none", <<Step("moveprev", 0)>>)
              \o <<Step("moveroots", 0)>> \o Create)

Decision(ff, d) == IF d THEN DiscardDecision(ff) ELSE IF IsIndex THEN IndexDecision(ff) ELSE SelectionDecision(ff)

-----------------------------------------------------------------------------
(* The command *)

\* handleRepair up to the question: the lock, the inspection and the report.
Inspect ==
  /\ phase = "idle"
  /\ \E d \in (IF kind = "card" THEN BOOLEAN ELSE {FALSE}) :
     /\ Decision(f, d).ok /\ Decision(f, d).steps # <<>>
     /\ discard' = d /\ steps' = Decision(f, d).steps /\ seen' = f
  /\ phase' = "asking" /\ UNCHANGED <<kind, f, start, attic, crashes, edits, window, discarded>>

\* Somebody changes a file while the command waits for the operator (external).
Edit ==
  /\ phase = "asking" /\ edits < MaxEdits /\ edits' = edits + 1
  /\ \/ \E h \in Selectors : f' = [f EXCEPT !.cur = h] \/ f' = [f EXCEPT !.prev = h]
     \/ \E d \in Docs, s \in DocStates : f' = [f EXCEPT !.docs[d] = s]
  /\ UNCHANGED <<kind, start, attic, phase, discard, steps, seen, crashes, window, discarded>>

\* The documents an inspection has read: the one each selector it looked at
\* selects, and the predecessor of a segment that does not read.
Observed(ff, d) ==
  LET doc(h) == IF h.s = "head" /\ h.sel > 0 THEN {h.sel} ELSE {}
      looksAtPrev == d \/ (IF IsIndex THEN ff.cur.s # "head" ELSE ~Usable(ff, ff.cur))
  IN [prev |-> looksAtPrev,
      docs |-> doc(ff.cur) \cup (IF looksAtPrev THEN doc(ff.prev) ELSE {})
                 \cup (IF IsIndex /\ ff.cur.s = "head" /\ ff.cur.sel > 1 /\ ~Readable(ff, ff.cur.sel) THEN {ff.cur.sel - 1} ELSE {})]
\* recheck: every file that was read is as it was, the missing ones missing.
Unchanged ==
  /\ f.cur = seen.cur
  /\ Observed(seen, discard).prev => f.prev = seen.prev
  /\ \A d \in Observed(seen, discard).docs : f.docs[d] = seen.docs[d]

\* Consent is given and nothing has changed, or the attempt ends with no effect.
Consent == /\ phase = "asking" /\ Unchanged /\ phase' = "applying" /\ discarded' = (discarded \/ discard)
           /\ UNCHANGED <<kind, f, start, attic, discard, steps, seen, crashes, edits, window>>
Declined == phase = "asking" /\ phase' = "idle" /\ UNCHANGED <<kind, f, start, attic, discard, steps, seen, crashes, edits, window, discarded>>

AllNone == [d \in Docs |-> "none"]
\* The effect of one step on the files.
Effect(s) ==
  CASE s.op = "movecur" -> [f EXCEPT !.cur = None]
    [] s.op = "moveprev" -> [f EXCEPT !.prev = None]
    [] s.op = "movedoc" -> [f EXCEPT !.docs[s.arg] = "none"]
    [] s.op = "moveroots" -> [f EXCEPT !.docs = AllNone, !.roots = {}]
    [] s.op = "unlink" -> [f EXCEPT !.prev = None]
    [] s.op = "link" -> [f EXCEPT !.prev = f.cur]
    [] s.op = "write" -> [f EXCEPT !.cur = Selector(s.arg)]
    [] s.op = "truncate" -> [f EXCEPT !.docs[s.arg] = "ok"]
    [] s.op = "mkdir" -> [f EXCEPT !.roots = @ \cup {"mailbox"}]
    [] s.op = "sessions" -> [f EXCEPT !.roots = @ \cup {"sessions"}]
    [] s.op = "records" -> [f EXCEPT !.roots = @ \cup {"records"}]
    [] s.op = "newdoc" -> [f EXCEPT !.docs[1] = "ok"]
\* What a step puts into the attic.
Moved(s) ==
  CASE s.op = "movecur" -> {<<"selector", f.cur.s>>}
    [] s.op = "movedoc" -> {<<"doc", f.docs[s.arg]>>}
    [] OTHER -> {}

\* mkdirSync refuses a directory that exists.
Possible(s) == s.op = "mkdir" => f.roots = {}
Apply ==
  /\ phase = "applying" /\ steps # <<>> /\ Possible(Head(steps))
  /\ f' = Effect(Head(steps)) /\ attic' = attic \cup Moved(Head(steps)) /\ steps' = Tail(steps)
  /\ UNCHANGED <<kind, start, phase, discard, seen, crashes, edits, window, discarded>>

\* validate: the current selection reads, and a discarded card's records and
\* sessions with it.
Validate ==
  /\ phase = "applying" /\ steps = <<>>
  /\ phase' = IF Usable(f, f.cur) /\ (discard => f.roots = Roots) THEN "done" ELSE "invalid"
  /\ UNCHANGED <<kind, f, start, attic, discard, steps, seen, crashes, edits, window, discarded>>

\* A step or its report fails, or the process dies: the attempt ends there, and
\* another one may follow once the operator has dealt with the lock.
InWindow == steps # <<>> /\ Head(steps).op \in {"link", "write"} /\ ~discard
Stop ==
  /\ phase = "applying" /\ crashes < MaxCrashes /\ crashes' = crashes + 1
  /\ phase' = "idle" /\ window' = (window \/ InWindow)
  /\ UNCHANGED <<kind, f, start, attic, discard, steps, seen, edits, discarded>>

Next == Inspect \/ Edit \/ Consent \/ Declined \/ Apply \/ Validate \/ Stop
Spec == Init /\ [][Next]_vars

-----------------------------------------------------------------------------
(* Properties *)

\* An attempt whose steps all succeed has repaired its target: what inspection
\* found restorable is still so after the moves and the publication.
RepairValidates == phase # "invalid" /\ ~(phase = "applying" /\ steps # <<>> /\ ~Possible(Head(steps)))

\* No selection that can be read is lost: only damaged files are moved to the
\* attic, and a card is discarded only when neither of its selections reads.
OnlyDamageIsMoved ==
  /\ (~discarded => attic \cap {<<"selector", "head">>, <<"doc", "ok">>, <<"doc", "torn">>} = {})
  /\ (phase = "asking" /\ discard => ~Usable(seen, seen.cur) /\ ~Usable(seen, seen.prev))

\* However often the command is stopped and started again, it restores one of
\* the selections that were there, or rolls back exactly one segment, once.
RestoresOnce ==
  (edits = 0 /\ ~discarded /\ Usable(f, f.cur)) =>
    f.cur.sel \in ((IF start.cur.s = "head" THEN {start.cur.sel} ELSE {}) \cup (IF start.prev.s = "head" THEN {start.prev.sel} ELSE {})
                    \cup (IF IsIndex /\ start.cur.s = "head" THEN {start.cur.sel - 1} ELSE {}))

\* An attempt that stopped can be followed by another: a target that could be
\* repaired, and was not stopped between the clearing of the previous slot and
\* the new selector, is usable or can still be repaired.
CanBeStartedAgain ==
  (edits = 0 /\ ~discarded /\ ~window /\ phase = "idle" /\ Decision(start, FALSE).ok) =>
    (Usable(f, f.cur) \/ Decision(f, FALSE).ok)

\* A discarded card is never usable without its placeholder records and its
\* sessions, so a discard that was stopped can be repeated.
DiscardedIsWhole == (discarded /\ edits = 0 /\ Usable(f, f.cur)) => f.roots = Roots

\* The steps applied are those an inspection of the files at that moment would
\* propose, whoever changed them since.
AppliesWhatItInspected == phase = "asking" /\ phase' = "applying" => steps = Decision(f, discard).steps
=============================================================================
