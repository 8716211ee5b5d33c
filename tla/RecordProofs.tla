---------------------------- MODULE RecordProofs ----------------------------
(* The authored records of a card for every set of records, templates, modes   *)
(* and texts, and any number of entries and revisions: what is published can   *)
(* be read again, what is accepted was authored, and no check of the store     *)
(* fails after an admission, process deaths and offline repair included.       *)
EXTENDS RecordStore, FiniteSetTheorems, SequenceTheorems, WellFoundedInduction, TLAPS

-----------------------------------------------------------------------------
(* The invariant *)

Written == Contents \cup {NoText}
Authors == {"analyst", "peer", "output", "agent", "runtime"}
Drafts == [open : BOOLEAN, text : Written, ver : Nat, target : Nat]
Baselines == {NoText, Template}
Heads == [rev : Nat, baseline : Baselines, draft : Drafts, acc : Nat]
Documents == [rec : Records, ver : Nat, pred : Nat, text : Written, author : Authors]

\* Types of what the steps change
NodeFields == {"kind", "mode", "gate", "base", "ver", "written", "robbed"}
Typed ==
  /\ head \in [Records -> Heads] /\ prev \in [Records -> Heads] /\ docs \in Seq(Documents)
  /\ NodeFields \subseteq DOMAIN node /\ node.written \in SUBSET Records
  /\ fetch \in SUBSET Records /\ authored \in [Records -> SUBSET Contents] /\ late \in SUBSET SUBSET Records

\* A document continues the one it names as its predecessor.
Continues(d, i) ==
  /\ d.ver > 0 /\ d.pred < i
  /\ IF d.pred = 0 THEN d.ver = 1 ELSE docs[d.pred].rec = d.rec /\ d.ver = docs[d.pred].ver + 1
DocInv == \A i \in 1..Len(docs) : Continues(docs[i], i)

\* A head parses, selects a document of its record that somebody authored, and its
\* draft is empty, the rendered template or a text somebody authored.
Selects(r, h) ==
  /\ h.acc \in 0..Len(docs)
  /\ h.acc # 0 => docs[h.acc].rec = r /\ docs[h.acc].text \in authored[r]
Drafted(r, h) == h.draft.open /\ h.draft.ver > 0 => h.draft.text \in authored[r] \cup {NoText}
Sound(r, h) == Selects(r, h) /\ Drafted(r, h) /\ HeadParses(h)
HeadInv == \A r \in Records : Sound(r, head[r]) /\ Sound(r, prev[r])

\* What the agent wrote is an eligible draft, a clean requirement is still open on the
\* version it was opened on, unless an abandoned execution discarded a draft under the
\* node, and nobody opens the output of a running action.
Eligible(h) == h.draft.open /\ h.draft.ver > 0 /\ h.draft.text # NoText
NodeInv ==
  /\ \A r \in node.written : head[r].draft.open \/ ~node.robbed => Eligible(head[r])
  /\ (node.kind = "agent" /\ node.mode = "clean" /\ ~node.robbed) => head[Required].draft.open /\ node.ver = Version(head[Required])
  /\ node.kind = "action" => ~head[Output].draft.open
  /\ node.written # {} => node.kind = "agent"
  /\ ~up => node = NoNode
PassInv == passed.mode = "clean" /\ ~passed.robbed => passed.after > passed.before

RecordInv == Typed /\ DocInv /\ HeadInv /\ NodeInv /\ PassInv /\ NoFault

\* A step selects no other version of any record, or none before the one selected.
Unmoved == UNCHANGED docs /\ \A q \in Records : head'[q].acc = head[q].acc
Forward == \A q \in Records : Version(head[q]) <= Version(head[q])'

-----------------------------------------------------------------------------
(* Heads *)

\* A text is not empty.
LEMMA TextsAreThere == ASSUME RecordStoreAssumption PROVE NoText \notin Contents /\ Template \in Contents /\ Template # NoText
BY DEF RecordStoreAssumption, Contents, Template, NoText

\* A template is a text a draft may have, and so is nothing.
LEMMA BaselinesAreWritten == ASSUME RecordStoreAssumption PROVE NoText \in Baselines /\ Template \in Baselines /\ Baselines \subseteq Written
BY TextsAreThere DEF Baselines, Written

\* Fields of a head and of its draft
LEMMA HeadFields ==
  ASSUME NEW h \in Heads
  PROVE  /\ h.rev \in Nat /\ h.baseline \in Baselines /\ h.draft \in Drafts /\ h.acc \in Nat
         /\ h.draft.open \in BOOLEAN /\ h.draft.text \in Written /\ h.draft.ver \in Nat /\ h.draft.target \in Nat
<1>1. h.rev \in Nat /\ h.baseline \in Baselines /\ h.draft \in Drafts /\ h.acc \in Nat
  BY DEF Heads
<1>2. h.draft.open \in BOOLEAN /\ h.draft.text \in Written /\ h.draft.ver \in Nat /\ h.draft.target \in Nat
  BY <1>1 DEF Drafts
<1> QED BY <1>1, <1>2

\* A head from its fields
LEMMA HeadMade ==
  ASSUME NEW n \in Nat, NEW b \in Baselines, NEW d \in Drafts, NEW a \in Nat
  PROVE  LET x == [rev |-> n, baseline |-> b, draft |-> d, acc |-> a] IN
           x \in Heads /\ x.rev = n /\ x.baseline = b /\ x.draft = d /\ x.acc = a
BY DEF Heads

\* A draft from its fields
LEMMA DraftMade ==
  ASSUME NEW o \in BOOLEAN, NEW t \in Written, NEW v \in Nat, NEW w \in Nat
  PROVE  LET d == [open |-> o, text |-> t, ver |-> v, target |-> w] IN
           d \in Drafts /\ d.open = o /\ d.text = t /\ d.ver = v /\ d.target = w
BY DEF Drafts

\* A head with another revision
LEMMA RevisionSet ==
  ASSUME NEW h \in Heads, NEW n \in Nat
  PROVE  LET x == [h EXCEPT !.rev = n] IN
           x \in Heads /\ x.rev = n /\ x.baseline = h.baseline /\ x.draft = h.draft /\ x.acc = h.acc
BY DEF Heads

\* No draft, and no head
LEMMA Nothing == ASSUME RecordStoreAssumption PROVE NoDraft \in Drafts /\ ~NoDraft.open /\ Absent \in Heads /\ Absent.draft = NoDraft
                                                  /\ Absent.rev = 0 /\ Absent.baseline = NoText /\ Absent.acc = 0
<1>1. NoText \in Written /\ NoText \in Baselines
  BY BaselinesAreWritten
<1>2. NoDraft \in Drafts /\ ~NoDraft.open
  BY <1>1, DraftMade DEF NoDraft
<1> HIDE DEF NoDraft
<1>3. PICK e : e = NoText
  OBVIOUS
<1>4. Absent \in Heads /\ Absent.draft = NoDraft /\ Absent.rev = 0 /\ Absent.baseline = e /\ Absent.acc = 0
  BY <1>1, <1>2, <1>3, HeadMade DEF Absent
<1> QED BY <1>2, <1>3, <1>4

\* The next revision
LEMMA NextForm ==
  ASSUME NEW h \in Heads
  PROVE  LET x == Next1(h) IN x \in Heads /\ x.rev = h.rev + 1 /\ x.baseline = h.baseline /\ x.draft = h.draft /\ x.acc = h.acc
<1>1. h.rev + 1 \in Nat
  BY HeadFields
<1>2. Next1(h) = [h EXCEPT !.rev = h.rev + 1]
  BY DEF Next1
<1> QED BY <1>1, <1>2, RevisionSet

\* openAuthoredRecord, field by field
LEMMA OpenedForm ==
  ASSUME RecordStoreAssumption, NEW h \in Heads, ~h.draft.open, NEW n \in Nat, n = Version(h), NEW x, x = Opened(h)
  PROVE  /\ x \in Heads /\ x.rev = h.rev + 1 /\ x.baseline = NoText /\ x.acc = h.acc
         /\ x.draft.open /\ x.draft.text = h.baseline /\ x.draft.target = n + 1
         /\ x.draft.ver = IF h.baseline # NoText THEN 0 ELSE n + 1
<1>1. PICK g : g = Next1(h)
  OBVIOUS
<1>2. g \in Heads /\ g.rev = h.rev + 1 /\ g.acc = h.acc
  BY <1>1, NextForm
<1>3. PICK v : v = IF h.baseline # NoText THEN 0 ELSE n + 1
  OBVIOUS
<1>4. v \in Nat /\ n + 1 \in Nat
  BY <1>3
<1>5. h.baseline \in Written /\ NoText \in Baselines
  BY HeadFields, BaselinesAreWritten
<1>6. PICK d : d = [open |-> TRUE, text |-> h.baseline, ver |-> v, target |-> n + 1]
  OBVIOUS
<1>7. d \in Drafts /\ d.open = TRUE /\ d.text = h.baseline /\ d.ver = v /\ d.target = n + 1
  BY <1>4, <1>5, <1>6, DraftMade
<1>8. x = [g EXCEPT !.baseline = NoText, !.draft = d]
  BY <1>1, <1>3, <1>6 DEF Opened
<1>9. x \in Heads /\ x.rev = g.rev /\ x.baseline = NoText /\ x.draft = d /\ x.acc = g.acc
  BY <1>2, <1>5, <1>7, <1>8 DEF Heads
<1> QED BY <1>2, <1>3, <1>7, <1>9

\* discardOpenAuthoredRecord, field by field
LEMMA DiscardedForm ==
  ASSUME RecordStoreAssumption, NEW h \in Heads, NEW x, x = Discarded(h)
  PROVE  x \in Heads /\ x.rev = h.rev + 1 /\ x.baseline = h.baseline /\ x.acc = h.acc /\ x.draft = NoDraft
<1>1. PICK g : g = Next1(h)
  OBVIOUS
<1>2. g \in Heads /\ g.rev = h.rev + 1 /\ g.baseline = h.baseline /\ g.acc = h.acc
  BY <1>1, NextForm
<1>3. NoDraft \in Drafts
  BY Nothing
<1>4. x = [g EXCEPT !.draft = NoDraft]
  BY <1>1 DEF Discarded
<1>5. x \in Heads /\ x.rev = g.rev /\ x.baseline = g.baseline /\ x.draft = NoDraft /\ x.acc = g.acc
  BY <1>2, <1>3, <1>4 DEF Heads
<1> QED BY <1>2, <1>5

\* editOpenAuthoredRecord, field by field
LEMMA EditedForm ==
  ASSUME RecordStoreAssumption, NEW h \in Heads, NEW c \in Written, NEW x, x = Edited(h, c)
  PROVE  /\ x \in Heads /\ x.rev = h.rev + 1 /\ x.baseline = h.baseline /\ x.acc = h.acc
         /\ x.draft.open = h.draft.open /\ x.draft.text = c /\ x.draft.ver = h.draft.target /\ x.draft.target = h.draft.target
<1>1. PICK g : g = Next1(h)
  OBVIOUS
<1>2. g \in Heads /\ g.rev = h.rev + 1 /\ g.baseline = h.baseline /\ g.acc = h.acc /\ g.draft = h.draft
  BY <1>1, NextForm
<1>3. PICK w : w = h.draft.target
  OBVIOUS
<1>4. w \in Nat
  BY <1>3, HeadFields
<1>5. x = [g EXCEPT !.draft.text = c, !.draft.ver = w]
  BY <1>1, <1>3 DEF Edited
<1>6. PICK d : d = [g.draft EXCEPT !.text = c, !.ver = w]
  OBVIOUS
<1>7. d \in Drafts /\ d.open = g.draft.open /\ d.text = c /\ d.ver = w /\ d.target = g.draft.target
  <2>1. PICK e \in Drafts : e = g.draft
    BY <1>2, HeadFields
  <2>2. d = [e EXCEPT !.text = c, !.ver = w]
    BY <1>6, <2>1
  <2> QED BY <1>4, <2>1, <2>2 DEF Drafts
<1>8. x = [g EXCEPT !.draft = d]
  <2>1. g.draft \in Drafts /\ "draft" \in DOMAIN g
    BY <1>2, HeadFields DEF Heads
  <2> QED BY <1>5, <1>6, <2>1 DEF Drafts
<1>9. x \in Heads /\ x.rev = g.rev /\ x.baseline = g.baseline /\ x.acc = g.acc /\ x.draft = d
  BY <1>2, <1>7, <1>8 DEF Heads
<1> QED BY <1>2, <1>3, <1>7, <1>9

\* initializeRecordBaseline of a record that is absent, field by field
LEMMA InitializedForm ==
  ASSUME RecordStoreAssumption, NEW h \in Heads, ~(h.rev > 0), NEW x, x = Initialized(h)
  PROVE  x \in Heads /\ x.rev = 1 /\ x.baseline = Template /\ x.acc = 0 /\ x.draft = NoDraft
<1>1. Absent \in Heads /\ Absent.draft = NoDraft /\ NoDraft \in Drafts /\ Absent.acc = 0 /\ Template \in Baselines
  BY Nothing, BaselinesAreWritten
<1>2. PICK g : g = Absent
  OBVIOUS
<1>3. x = [g EXCEPT !.rev = 1, !.baseline = Template]
  BY <1>2 DEF Initialized
<1>4. g \in Heads /\ Template \in Baselines
  BY <1>1, <1>2
<1>5. PICK n \in Nat : n = 1
  OBVIOUS
<1>6. x = [[g EXCEPT !.rev = n] EXCEPT !.baseline = Template]
  BY <1>3, <1>5
<1>7. PICK f : f = [g EXCEPT !.rev = n]
  OBVIOUS
<1>8. f \in Heads /\ f.rev = n /\ f.acc = g.acc /\ f.draft = g.draft
  BY <1>4, <1>7 DEF Heads
<1>9. x \in Heads /\ x.rev = f.rev /\ x.baseline = Template /\ x.acc = f.acc /\ x.draft = f.draft
  BY <1>4, <1>6, <1>7, <1>8 DEF Heads
<1> QED BY <1>1, <1>2, <1>5, <1>8, <1>9

\* The version a head selects
LEMMA VersionOf ==
  ASSUME Typed, DocInv, NEW r \in Records, NEW h \in Heads, Selects(r, h)
  PROVE  /\ Version(h) \in Nat /\ (h.acc = 0 <=> Version(h) = 0)
         /\ h.acc # 0 => h.acc \in 1..Len(docs) /\ docs[h.acc] \in Documents /\ Version(h) = docs[h.acc].ver
<1>1. CASE h.acc = 0
  BY <1>1 DEF Version
<1>2. CASE h.acc # 0
  <2>1. h.acc \in 1..Len(docs) /\ Len(docs) \in Nat
    BY <1>2 DEF Selects, Typed
  <2>2. docs[h.acc] \in Documents /\ docs[h.acc].ver > 0
    BY <2>1 DEF Typed, DocInv, Continues
  <2> QED BY <1>2, <2>1, <2>2 DEF Version, Documents
<1> QED BY <1>1, <1>2

\* openAuthoredRecord publishes a head that parses, on the version selected before.
LEMMA OpenedSound ==
  ASSUME RecordStoreAssumption, Typed, DocInv, NEW r \in Records, NEW h \in Heads, Sound(r, h), NEW x, x = Opened(h)
  PROVE  x \in Heads /\ Sound(r, x) /\ x.acc = h.acc /\ x.draft.open
<1>1. CASE h.draft.open
  BY <1>1 DEF Opened
<1>2. CASE ~h.draft.open
  <2>1. PICK n : n = Version(h)
    OBVIOUS
  <2>2. n \in Nat /\ (h.acc = 0 <=> n = 0)
    BY <2>1, VersionOf DEF Sound
  <2>3. /\ x \in Heads /\ x.rev = h.rev + 1 /\ x.baseline = NoText /\ x.acc = h.acc
        /\ x.draft.open /\ x.draft.text = h.baseline /\ x.draft.target = n + 1
        /\ x.draft.ver = IF h.baseline # NoText THEN 0 ELSE n + 1
    BY <1>2, <2>1, <2>2, OpenedForm
  <2>4. Version(x) = n /\ h.rev \in Nat
    BY <2>1, <2>3, HeadFields DEF Version
  <2>5. (h.baseline # NoText => h.acc = 0) /\ (h.acc # 0 => n <= h.rev)
    BY <1>2, <2>1 DEF Sound, HeadParses
  <2>6. HeadParses(x)
    BY <2>2, <2>3, <2>4, <2>5 DEF HeadParses
  <2>7. Selects(r, x) /\ Drafted(r, x)
    BY <2>3 DEF Sound, Selects, Drafted
  <2> QED BY <2>3, <2>6, <2>7 DEF Sound
<1> QED BY <1>1, <1>2

\* discardOpenAuthoredRecord drops the draft alone.
LEMMA DiscardedSound ==
  ASSUME RecordStoreAssumption, Typed, DocInv, NEW r \in Records, NEW h \in Heads, Sound(r, h), h.draft.open, NEW x, x = Discarded(h)
  PROVE  x \in Heads /\ Sound(r, x) /\ x.acc = h.acc /\ ~x.draft.open
<1>1. x \in Heads /\ x.rev = h.rev + 1 /\ x.baseline = h.baseline /\ x.acc = h.acc /\ x.draft = NoDraft /\ ~NoDraft.open
  BY DiscardedForm, Nothing
<1>2. PICK n : n = Version(h)
  OBVIOUS
<1>3. n \in Nat /\ h.rev \in Nat /\ Version(x) = n
  BY <1>1, <1>2, VersionOf, HeadFields DEF Sound, Version
<1>4. (h.baseline # NoText => h.acc = 0) /\ (h.acc # 0 => n <= h.rev)
  BY <1>2 DEF Sound, HeadParses
<1>5. HeadParses(x)
  BY <1>1, <1>3, <1>4 DEF HeadParses
<1> QED BY <1>1, <1>5 DEF Sound, Selects, Drafted

\* initializeRecordBaseline renders the template where nothing is.
LEMMA InitializedSound ==
  ASSUME RecordStoreAssumption, Typed, DocInv, NEW r \in Records, NEW h \in Heads, Sound(r, h), NEW x, x = Initialized(h)
  PROVE  x \in Heads /\ Sound(r, x) /\ x.acc = h.acc
<1>1. CASE h.rev > 0
  BY <1>1 DEF Initialized
<1>2. CASE ~(h.rev > 0)
  <2>1. x \in Heads /\ x.acc = 0 /\ x.draft = NoDraft /\ ~NoDraft.open
    BY <1>2, InitializedForm, Nothing
  <2>2. h.acc = 0
    <3>1. PICK n : n = Version(h)
      OBVIOUS
    <3>2. h.rev \in Nat /\ n \in Nat /\ (h.acc = 0 <=> n = 0)
      BY <3>1, VersionOf, HeadFields DEF Sound
    <3>3. h.acc # 0 => n <= h.rev
      BY <3>1 DEF Sound, HeadParses
    <3> QED BY <1>2, <3>2, <3>3
  <2>3. HeadParses(x)
    BY <2>1 DEF HeadParses
  <2>4. 0 \in 0..Len(docs)
    BY DEF Typed
  <2> QED BY <2>1, <2>2, <2>3, <2>4 DEF Sound, Selects, Drafted
<1> QED BY <1>1, <1>2

-----------------------------------------------------------------------------
(* Publications *)

\* Documents are only added, and so are authored texts.
Grown ==
  /\ docs' \in Seq(Documents) /\ Len(docs) <= Len(docs') /\ \A i \in 1..Len(docs) : docs'[i] = docs[i]
  /\ authored' \in [Records -> SUBSET Contents] /\ \A r \in Records : authored[r] \subseteq authored'[r]

\* Nothing added
LEMMA NothingGrown == ASSUME Typed, UNCHANGED <<docs, authored>> PROVE Grown
<1>1. Len(docs) \in Nat
  BY DEF Typed
<1> QED BY <1>1 DEF Typed, Grown

\* A sound head stays sound, on its version.
LEMMA SoundGrows ==
  ASSUME Typed, DocInv, Grown, NEW r \in Records, NEW h \in Heads, Sound(r, h)
  PROVE  Sound(r, h)' /\ Version(h)' = Version(h)
<1>1. Len(docs) \in Nat /\ Len(docs') \in Nat /\ Len(docs) <= Len(docs') /\ h.acc \in Nat
  BY HeadFields DEF Typed, Grown
<1>2. h.acc \in 0..Len(docs) /\ (h.acc # 0 => docs[h.acc].rec = r /\ docs[h.acc].text \in authored[r])
  BY DEF Sound, Selects
<1>3. h.acc \in 0..Len(docs') /\ (h.acc # 0 => docs'[h.acc] = docs[h.acc])
  BY <1>1, <1>2 DEF Grown
<1>4. authored[r] \subseteq authored'[r]
  BY DEF Grown
<1>5. Version(h)' = Version(h)
  BY <1>3 DEF Version
<1>6. Selects(r, h)' /\ Drafted(r, h)'
  BY <1>2, <1>3, <1>4 DEF Sound, Selects, Drafted
<1>7. HeadParses(h)'
  BY <1>5 DEF Sound, HeadParses
<1> QED BY <1>5, <1>6, <1>7 DEF Sound

\* The documents before stay a chain with those added.
LEMMA DocsGrow ==
  ASSUME Typed, DocInv, Grown, \A i \in 1..Len(docs') : i > Len(docs) => Continues(docs[i], i)'
  PROVE  DocInv'
<1>1. Len(docs) \in Nat /\ Len(docs') \in Nat /\ Len(docs) <= Len(docs')
  BY DEF Typed, Grown
<1>2. ASSUME NEW i \in 1..Len(docs'), ~(i > Len(docs)) PROVE Continues(docs[i], i)'
  <2>1. i \in 1..Len(docs) /\ docs'[i] = docs[i] /\ docs[i] \in Documents
    BY <1>1, <1>2 DEF Grown, Typed
  <2>2. PICK d \in Documents : d = docs[i]
    BY <2>1
  <2>3. Continues(d, i) /\ d.pred \in Nat
    BY <2>1, <2>2 DEF DocInv, Documents
  <2>4. d.pred # 0 => (d.pred \in 1..Len(docs) /\ docs'[d.pred] = docs[d.pred])
    BY <1>1, <2>1, <2>3 DEF Continues, Grown
  <2>5. Continues(d, i)'
    BY <2>3, <2>4 DEF Continues
  <2> QED BY <2>1, <2>2, <2>5
<1> QED BY <1>2 DEF DocInv

\* publishHead
LEMMA PublishSound ==
  ASSUME Typed, DocInv, HeadInv, Grown, NEW hs \in [Records -> Heads], Publish(hs), \A r \in Records : Sound(r, hs[r])'
  PROVE  head' = hs /\ head' \in [Records -> Heads] /\ prev' \in [Records -> Heads] /\ HeadInv'
<1>1. head' = hs /\ prev' = [r \in Records |-> IF hs[r] = head[r] THEN prev[r] ELSE head[r]]
  BY DEF Publish
<1>2. \A r \in Records : head[r] \in Heads /\ prev[r] \in Heads
  BY DEF Typed
<1>3. prev' \in [Records -> Heads]
  BY <1>1, <1>2
<1>4. ASSUME NEW r \in Records PROVE Sound(r, head[r])' /\ Sound(r, prev[r])'
  <2>1. PICK h \in Heads : h = head[r]
    BY <1>2
  <2>2. PICK p \in Heads : p = prev[r]
    BY <1>2
  <2>3. Sound(r, h)' /\ Sound(r, p)'
    BY <2>1, <2>2, SoundGrows DEF HeadInv
  <2>4. head'[r] = hs[r] /\ prev'[r] \in {h, p}
    BY <1>1, <2>1, <2>2
  <2> QED BY <2>3, <2>4
<1> QED BY <1>1, <1>3, <1>4 DEF HeadInv

\* The document of an acceptance continues the selected one,
LEMMA DocumentContinues ==
  ASSUME Typed, DocInv, Grown, NEW r \in Records, NEW h \in Heads, Sound(r, h), NEW c \in Contents, NEW who \in Authors,
         NEW d, d = Document(r, h, c, who), NEW i \in Nat, i > Len(docs)
  PROVE  d \in Documents /\ Continues(d, i)' /\ d.ver = Version(h) + 1 /\ d.rec = r /\ d.text = c /\ d.author = who
<1>1. PICK n : n = Version(h)
  OBVIOUS
<1>2. n \in Nat /\ (h.acc = 0 <=> n = 0) /\ (h.acc # 0 => h.acc \in 1..Len(docs) /\ n = docs[h.acc].ver)
  BY <1>1, VersionOf DEF Sound
<1>3. h.acc \in Nat /\ Len(docs) \in Nat
  BY HeadFields DEF Typed
<1>4. d = [rec |-> r, ver |-> n + 1, pred |-> h.acc, text |-> c, author |-> who]
  BY <1>1 DEF Document
<1>5. n + 1 \in Nat /\ c \in Written
  BY <1>2 DEF Written
<1>6. d \in Documents
  BY <1>3, <1>4, <1>5 DEF Documents
<1>7. d.ver = n + 1 /\ d.rec = r /\ d.text = c /\ d.author = who /\ d.pred = h.acc
  BY <1>4
<1>8. h.acc # 0 => (docs'[h.acc] = docs[h.acc] /\ docs[h.acc].rec = r)
  BY <1>2 DEF Grown, Sound, Selects
<1>9. Continues(d, i)'
  BY <1>2, <1>3, <1>7, <1>8 DEF Continues
<1> QED BY <1>1, <1>6, <1>7, <1>9

\* and the head that selects it is sound.
LEMMA SelectingSound ==
  ASSUME RecordStoreAssumption, Typed, DocInv, Grown, NEW r \in Records, NEW h \in Heads, Sound(r, h), NEW c \in Contents,
         NEW who \in Authors, NEW i \in 1..Len(docs'), i > Len(docs), docs'[i] = Document(r, h, c, who), c \in authored'[r],
         NEW x, x = Selecting(h, i)
  PROVE  x \in Heads /\ Sound(r, x)' /\ ~x.draft.open /\ Version(x)' = Version(h) + 1 /\ x.acc = i
<1>1. Len(docs') \in Nat /\ i \in Nat /\ i # 0 /\ h.rev \in Nat /\ h.acc \in Nat
  BY HeadFields DEF Grown
<1>2. PICK d : d = Document(r, h, c, who)
  OBVIOUS
<1>3. PICK n : n = Version(h)
  OBVIOUS
<1>4. d.ver = n + 1 /\ d.rec = r /\ d.text = c
  BY <1>1, <1>2, <1>3, DocumentContinues
<1>5. n \in Nat /\ (h.acc = 0 <=> n = 0) /\ (h.acc # 0 => n <= h.rev)
  BY <1>3, VersionOf DEF Sound, HeadParses
<1>6. NoDraft \in Drafts /\ ~NoDraft.open /\ NoText \in Baselines /\ h.rev + 1 \in Nat
  BY <1>1, Nothing, BaselinesAreWritten
<1>7. x \in Heads /\ x.rev = h.rev + 1 /\ x.baseline = NoText /\ x.draft = NoDraft /\ x.acc = i
  BY <1>1, <1>6, HeadMade DEF Selecting
<1>8. Version(x)' = n + 1
  BY <1>1, <1>2, <1>4, <1>7 DEF Version
<1>9. n + 1 <= h.rev + 1
  BY <1>1, <1>5
<1>10. HeadParses(x)'
  BY <1>6, <1>7, <1>8, <1>9 DEF HeadParses
<1>11. Selects(r, x)' /\ Drafted(r, x)'
  BY <1>1, <1>2, <1>4, <1>6, <1>7 DEF Selects, Drafted
<1> QED BY <1>3, <1>6, <1>7, <1>8, <1>10, <1>11 DEF Sound

-----------------------------------------------------------------------------
(* The writers *)

\* An acceptance that was admitted: one document, the head that selects it, no fault.
LEMMA AcceptKeeps ==
  ASSUME RecordStoreAssumption, RecordInv, NEW r \in Records, NEW c \in Contents, NEW who \in Authors,
         ~head[r].draft.open, who = "output" \/ Effective(head[r]) # c, Accept(r, c, who), Author(r, c)
  PROVE  /\ Grown /\ DocInv' /\ HeadInv' /\ head' \in [Records -> Heads] /\ prev' \in [Records -> Heads] /\ NoFault'
         /\ \A q \in Records : q # r => head'[q] = head[q]
         /\ ~head'[r].draft.open /\ Version(head[r])' = Version(head[r]) + 1
         /\ Len(docs') = Len(docs) + 1 /\ docs'[Len(docs')].author = who
<1>1. Typed /\ DocInv /\ HeadInv /\ NoFault /\ head \in [Records -> Heads]
  BY DEF RecordInv, Typed
<1>2. PICK h \in Heads : h = head[r]
  BY <1>1
<1>3. Sound(r, h)
  BY <1>1, <1>2 DEF HeadInv
<1>4. PICK d : d = Document(r, h, c, who)
  OBVIOUS
<1>5. PICK n \in Nat : n = Len(docs)
  BY <1>1 DEF Typed
<1>6. PICK x : x = Selecting(h, n + 1)
  OBVIOUS
<1>7. docs' = Append(docs, d) /\ Publish([head EXCEPT ![r] = x]) /\ fault' = fault
  BY <1>2, <1>4, <1>5, <1>6 DEF Accept
<1>8. authored' = [authored EXCEPT ![r] = @ \cup {c}]
  BY DEF Author
<1>9. /\ authored' \in [Records -> SUBSET Contents] /\ \A q \in Records : authored[q] \subseteq authored'[q]
      /\ c \in authored'[r]
  BY <1>1, <1>8 DEF Typed
<1>10. d \in Documents
  <2>1. PICK m : m = Version(h)
    OBVIOUS
  <2>2. m + 1 \in Nat /\ h.acc \in Nat /\ c \in Written
    BY <1>1, <1>3, <2>1, VersionOf, HeadFields DEF Sound, Written
  <2>3. d = [rec |-> r, ver |-> m + 1, pred |-> h.acc, text |-> c, author |-> who]
    BY <1>4, <2>1 DEF Document
  <2> QED BY <2>2, <2>3 DEF Documents
<1>11. docs' \in Seq(Documents) /\ Len(docs') = n + 1 /\ docs'[n + 1] = d /\ \A i \in 1..n : docs'[i] = docs[i]
  BY <1>1, <1>5, <1>7, <1>10 DEF Typed
<1>12. Grown
  BY <1>5, <1>9, <1>11 DEF Grown
<1>13. n + 1 \in Nat /\ n + 1 > Len(docs) /\ n + 1 \in 1..Len(docs')
  BY <1>5, <1>11
<1>14. Continues(d, n + 1)' /\ d.author = who
  BY <1>1, <1>3, <1>4, <1>12, <1>13, DocumentContinues
<1>15. DocInv'
  <2>1. \A i \in 1..Len(docs') : i > Len(docs) => i = n + 1
    BY <1>5, <1>11
  <2>2. PICK k : k = n + 1
    OBVIOUS
  <2>3. Continues(d, k)' /\ docs'[k] = d
    BY <1>11, <1>14, <2>2
  <2>4. Continues(docs[k], k)'
    BY <2>3
  <2> QED BY <1>1, <1>12, <2>1, <2>2, <2>4, DocsGrow
<1>16. x \in Heads /\ Sound(r, x)' /\ ~x.draft.open /\ Version(x)' = Version(h) + 1
  BY <1>1, <1>3, <1>4, <1>6, <1>9, <1>11, <1>12, <1>13, SelectingSound
<1>17. PICK hs : hs = [head EXCEPT ![r] = x]
  OBVIOUS
<1>18. hs \in [Records -> Heads] /\ hs[r] = x /\ \A q \in Records : q # r => hs[q] = head[q]
  BY <1>1, <1>16, <1>17
<1>19. ASSUME NEW q \in Records PROVE Sound(q, hs[q])'
  <2>1. PICK g \in Heads : g = hs[q]
    BY <1>18
  <2>2. CASE q = r
    BY <1>16, <1>18, <2>2
  <2>3. CASE q # r
    <3>1. g = head[q] /\ Sound(q, g)
      BY <1>1, <1>18, <2>1, <2>3 DEF HeadInv
    <3>2. Sound(q, g)'
      BY <1>1, <1>12, <3>1, SoundGrows
    <3> QED BY <2>1, <3>2
  <2> QED BY <2>2, <2>3
<1>20. head' = hs /\ head' \in [Records -> Heads] /\ prev' \in [Records -> Heads] /\ HeadInv'
  BY <1>1, <1>7, <1>12, <1>17, <1>18, <1>19, PublishSound
<1>21. Version(head[r])' = Version(head[r]) + 1
  <2>1. head'[r] = x
    BY <1>18, <1>20
  <2>2. Version(head[r])' = Version(x)'
    BY <2>1 DEF Version
  <2> QED BY <1>2, <1>16, <2>2
<1>22. Len(docs') = Len(docs) + 1 /\ docs'[Len(docs')].author = who
  BY <1>5, <1>11, <1>14
<1>23. NoFault'
  BY <1>1, <1>7 DEF NoFault
<1> QED BY <1>12, <1>15, <1>16, <1>18, <1>20, <1>21, <1>22, <1>23

\* No node in execution
LEMMA NodeGone ==
  ASSUME node' = NoNode
  PROVE  NodeInv' /\ node'.written = {} /\ NodeFields \subseteq DOMAIN node' /\ node'.written \in SUBSET Records
<1>1. NoNode.kind = "none" /\ NoNode.written = {} /\ NodeFields \subseteq DOMAIN NoNode
  BY DEF NoNode, NodeFields
<1> HIDE DEF NoNode
<1> QED BY <1>1 DEF NodeInv

\* Who leaves the open drafts alone and opens no draft leaves the node what it has.
LEMMA NodeStands ==
  ASSUME RecordStoreAssumption, RecordInv, Grown, UNCHANGED <<node, up>>,
         \A q \in Records : head[q].draft.open => head'[q] = head[q],
         \A q \in Records : ~head[q].draft.open => ~head'[q].draft.open
  PROVE  NodeInv'
<1>1. Typed /\ DocInv /\ HeadInv /\ NodeInv
  BY DEF RecordInv
<1>2. \A q \in node.written : head'[q].draft.open \/ ~node.robbed => Eligible(head[q])'
  BY <1>1 DEF Typed, NodeInv, Eligible
<1>3. Required \in Records /\ Output \in Records
  BY DEF RecordStoreAssumption
<1>4. ASSUME node.kind = "agent", node.mode = "clean", ~node.robbed
      PROVE  head'[Required].draft.open /\ node.ver = Version(head[Required])'
  <2>1. head[Required].draft.open /\ node.ver = Version(head[Required])
    BY <1>1, <1>4 DEF NodeInv
  <2>2. PICK h \in Heads : h = head[Required]
    BY <1>1, <1>3 DEF Typed
  <2>3. Sound(Required, h)
    BY <1>1, <1>3, <2>2 DEF HeadInv
  <2>4. Version(h)' = Version(h)
    BY <1>1, <1>3, <2>3, SoundGrows
  <2>5. head'[Required] = h
    BY <1>3, <2>1, <2>2
  <2>6. Version(head[Required])' = Version(h)'
    BY <2>5 DEF Version
  <2> QED BY <2>1, <2>2, <2>4, <2>5, <2>6
<1> QED BY <1>1, <1>2, <1>3, <1>4 DEF NodeInv

\* Direct acceptance
LEMMA DirectKeeps ==
  ASSUME RecordStoreAssumption, RecordInv, NEW who \in {"analyst", "peer"}, NEW r \in Records, NEW c \in Contents,
         ~head[r].draft.open, Effective(head[r]) # c, Accept(r, c, who), Author(r, c), UNCHANGED <<node, up, passed, late>>,
         fetch' \in SUBSET Records
  PROVE  RecordInv'
<1>1. who \in Authors
  BY DEF Authors
<1>2. /\ Grown /\ DocInv' /\ HeadInv' /\ head' \in [Records -> Heads] /\ prev' \in [Records -> Heads] /\ NoFault'
      /\ \A q \in Records : q # r => head'[q] = head[q]
      /\ ~head'[r].draft.open
  BY <1>1, AcceptKeeps
<1>3. NodeInv'
  BY <1>2, NodeStands
<1>4. Typed'
  BY <1>2 DEF RecordInv, Typed, Grown
<1>5. PassInv'
  BY DEF RecordInv, PassInv
<1> QED BY <1>2, <1>3, <1>4, <1>5 DEF RecordInv

\* Steps that leave the records alone
LEMMA RecordsStand ==
  ASSUME RecordInv, UNCHANGED <<head, prev, docs, authored, fault, passed>>, fetch' \in SUBSET Records,
         late' \in SUBSET SUBSET Records
  PROVE  /\ DocInv' /\ HeadInv' /\ PassInv' /\ NoFault'
         /\ (UNCHANGED node \/ node' = NoNode) => Typed'
         /\ (UNCHANGED <<node, up>> \/ node' = NoNode) => NodeInv'
<1>1. DocInv' /\ HeadInv' /\ PassInv' /\ NoFault'
  BY DEF RecordInv, DocInv, HeadInv, PassInv, NoFault, Continues, Sound, Selects, Drafted, HeadParses, Version
<1>2. UNCHANGED node => Typed'
  BY DEF RecordInv, Typed
<1>3. node' = NoNode => Typed'
  BY NodeGone DEF RecordInv, Typed
<1>4. UNCHANGED <<node, up>> => NodeInv'
  BY DEF RecordInv, NodeInv, Eligible, Version
<1> QED BY <1>1, <1>2, <1>3, <1>4, NodeGone

\* The text a fetch returned with
LEMMA FetchKeeps ==
  ASSUME RecordStoreAssumption, RecordInv, NEW c \in Contents, FetchReturns(c)
  PROVE  RecordInv'
<1>1. PICK r \in fetch : WriteFetched(r, c)
  BY DEF FetchReturns
<1>2. /\ r \in Records /\ fetch' \in SUBSET Records /\ UNCHANGED <<node, up, passed, late>>
      /\ late' \in SUBSET SUBSET Records
  BY DEF FetchReturns, RecordInv, Typed
<1>3. CASE Admitted("analyst", r) /\ Applies("write", r, c)
  <2>1. ~head[r].draft.open /\ Effective(head[r]) # c /\ Accept(r, c, "analyst") /\ Author(r, c)
    BY <1>1, <1>3 DEF WriteFetched, Admitted, Applies
  <2> QED BY <1>2, <2>1, DirectKeeps
<1>4. CASE ~(Admitted("analyst", r) /\ Applies("write", r, c))
  <2>1. UNCHANGED <<head, prev, docs, fault, authored>>
    BY <1>1, <1>4 DEF WriteFetched
  <2> QED BY <1>2, <2>1, RecordsStand DEF RecordInv
<1> QED BY <1>3, <1>4

\* The output of an action
LEMMA ActionKeeps ==
  ASSUME RecordStoreAssumption, RecordInv, NEW c \in Contents, ActionDone(c)
  PROVE  RecordInv'
<1>1. /\ node.kind = "action" /\ Accept(Output, c, "output") /\ Author(Output, c) /\ node' = NoNode
      /\ UNCHANGED <<fetch, up, passed, late>>
  BY DEF ActionDone
<1>2. Output \in Records /\ "output" \in Authors /\ ~head[Output].draft.open
  BY <1>1 DEF RecordStoreAssumption, Authors, RecordInv, NodeInv
<1>3. Grown /\ DocInv' /\ HeadInv' /\ head' \in [Records -> Heads] /\ prev' \in [Records -> Heads] /\ NoFault'
  BY <1>1, <1>2, AcceptKeeps
<1>4. Typed'
  BY <1>1, <1>3, NodeGone DEF RecordInv, Typed, Grown
<1>5. PassInv'
  BY <1>1 DEF RecordInv, PassInv
<1> QED BY <1>1, <1>3, <1>4, <1>5, NodeGone DEF RecordInv

\* The draft of the node's own agent
LEMMA AgentKeeps ==
  ASSUME RecordStoreAssumption, RecordInv, NEW op, NEW r \in Records, NEW c \in Contents, AgentWrite(op, r, c)
  PROVE  RecordInv' /\ Unmoved
<1>1. /\ node.kind = "agent" /\ Effective(head[r]) # c /\ Author(r, c) /\ node' = [node EXCEPT !.written = @ \cup {r}]
      /\ UNCHANGED <<docs, fetch, up, passed, late>>
  BY DEF AgentWrite, Applies
<1>2. Typed /\ DocInv /\ HeadInv /\ NodeInv /\ NoFault /\ head \in [Records -> Heads]
  BY DEF RecordInv, Typed
<1>3. PICK h \in Heads : h = head[r]
  BY <1>2
<1>4. PICK o : o = Opened(h)
  OBVIOUS
<1>5. Sound(r, h)
  BY <1>2, <1>3 DEF HeadInv
<1>6. o \in Heads /\ Sound(r, o) /\ o.acc = h.acc /\ o.draft.open
  BY <1>2, <1>4, <1>5, OpenedSound
<1>7. o.draft.text # c
  <2>1. CASE h.draft.open
    BY <1>1, <1>3, <1>4, <2>1 DEF Opened, Effective
  <2>2. CASE ~h.draft.open
    <3>1. PICK n \in Nat : n = Version(h)
      BY <1>2, <1>5, VersionOf DEF Sound
    <3>2. o.draft.text = h.baseline
      BY <1>4, <2>2, <3>1, OpenedForm
    <3>3. NoText \notin Contents
      BY TextsAreThere
    <3>4. h.baseline # NoText => Effective(h) = h.baseline
      BY <2>2 DEF Effective
    <3> QED BY <1>1, <1>3, <3>2, <3>3, <3>4
  <2> QED BY <2>1, <2>2
<1>8. PICK x : x = Edited(o, c)
  OBVIOUS
<1>9. Publish([head EXCEPT ![r] = x]) /\ UNCHANGED fault
  BY <1>3, <1>4, <1>7, <1>8 DEF AgentWrite
<1>10. c \in Written
  BY DEF Written
<1>11. /\ x \in Heads /\ x.rev = o.rev + 1 /\ x.baseline = o.baseline /\ x.acc = o.acc
       /\ x.draft.open /\ x.draft.text = c /\ x.draft.ver = o.draft.target /\ x.draft.target = o.draft.target
  BY <1>6, <1>8, <1>10, EditedForm
<1>12. authored' \in [Records -> SUBSET Contents] /\ c \in authored'[r] /\ \A q \in Records : authored[q] \subseteq authored'[q]
  BY <1>1, <1>2 DEF Author, Typed
<1>13. Grown
  <2>1. Len(docs) \in Nat
    BY <1>2 DEF Typed
  <2> QED BY <1>1, <1>2, <1>12, <2>1 DEF Grown, Typed
<1>14. Sound(r, o)' /\ Version(o)' = Version(o)
  BY <1>2, <1>6, <1>13, SoundGrows
<1>15. PICK m \in Nat : m = Version(o)
  BY <1>2, <1>6, VersionOf DEF Sound
<1>16. Version(x)' = m /\ Version(o) = m /\ Version(o)' = m
  <2>1. Version(x)' = Version(o)'
    BY <1>11 DEF Version
  <2> QED BY <1>14, <1>15, <2>1
<1>17. /\ o.draft.target = m + 1 /\ (o.baseline # NoText => ~o.draft.open) /\ (o.acc # 0 => m <= o.rev) /\ o.rev \in Nat
  BY <1>6, <1>16, HeadFields DEF Sound, HeadParses
<1>18. c # NoText
  BY TextsAreThere
<1>19. HeadParses(x)'
  BY <1>6, <1>11, <1>16, <1>17, <1>18 DEF HeadParses
<1>20. Sound(r, x)'
  <2>1. Selects(r, x)'
    BY <1>11, <1>14 DEF Sound, Selects
  <2>2. Drafted(r, x)'
    BY <1>11, <1>12 DEF Drafted
  <2> QED BY <1>19, <2>1, <2>2 DEF Sound
<1>21. PICK hs : hs = [head EXCEPT ![r] = x]
  OBVIOUS
<1>22. hs \in [Records -> Heads] /\ hs[r] = x /\ \A q \in Records : q # r => hs[q] = head[q]
  BY <1>2, <1>11, <1>21
<1>23. ASSUME NEW q \in Records PROVE Sound(q, hs[q])'
  <2>1. CASE q = r
    BY <1>20, <1>22, <2>1
  <2>2. CASE q # r
    <3>1. PICK g \in Heads : g = head[q]
      BY <1>2
    <3>2. Sound(q, g)
      BY <1>2, <3>1 DEF HeadInv
    <3>3. Sound(q, g)'
      BY <1>2, <1>13, <3>2, SoundGrows
    <3> QED BY <1>22, <2>2, <3>1, <3>3
  <2> QED BY <2>1, <2>2
<1>24. head' = hs /\ head' \in [Records -> Heads] /\ prev' \in [Records -> Heads] /\ HeadInv'
  BY <1>2, <1>9, <1>13, <1>21, <1>22, <1>23, PublishSound
<1>25. /\ node'.kind = node.kind /\ node'.mode = node.mode /\ node'.ver = node.ver /\ node'.written = node.written \cup {r}
       /\ node'.robbed = node.robbed /\ NodeFields \subseteq DOMAIN node'
  BY <1>1, <1>2 DEF Typed, NodeFields
<1>26. Eligible(x)
  BY <1>11, <1>15, <1>17, <1>18 DEF Eligible
<1>27. \A q \in node'.written : head'[q].draft.open \/ ~node'.robbed => Eligible(head'[q])
  BY <1>2, <1>22, <1>24, <1>25, <1>26 DEF NodeInv, Typed
<1>28. ASSUME node.mode = "clean", ~node.robbed PROVE head'[Required].draft.open /\ node.ver = Version(head[Required])'
  <2>1. head[Required].draft.open /\ node.ver = Version(head[Required]) /\ Required \in Records
    BY <1>1, <1>2, <1>28 DEF NodeInv, RecordStoreAssumption
  <2>2. Version(head[Required])' = Version(head[Required])
    <3>1. head'[Required].acc = head[Required].acc
      BY <1>3, <1>6, <1>11, <1>22, <1>24, <2>1
    <3> QED BY <1>1, <3>1 DEF Version
  <2> QED BY <1>11, <1>22, <1>24, <2>1, <2>2
<1>29. up
  BY DEF AgentWrite
<1>30. NodeInv'
  BY <1>1, <1>25, <1>27, <1>28, <1>29 DEF NodeInv, Eligible
<1>31. Typed'
  BY <1>1, <1>2, <1>12, <1>24, <1>25 DEF Typed
<1>32. DocInv' /\ PassInv' /\ NoFault'
  BY <1>1, <1>2, <1>9 DEF RecordInv, DocInv, Continues, PassInv, NoFault
<1>33. Unmoved
  BY <1>1, <1>3, <1>6, <1>11, <1>22, <1>24 DEF Unmoved
<1> QED BY <1>24, <1>30, <1>31, <1>32, <1>33 DEF RecordInv

-----------------------------------------------------------------------------
(* The nodes *)

\* prepareRecordRequirements
LEMMA PreparedSound ==
  ASSUME RecordStoreAssumption, Typed, DocInv, NEW hs \in [Records -> Heads], \A r \in Records : Sound(r, hs[r]),
         NEW mode, NEW ps, ps = Prepared(hs, mode)
  PROVE  /\ ps \in [Records -> Heads] /\ \A r \in Records : Sound(r, ps[r]) /\ ps[r].acc = hs[r].acc
         /\ mode = "clean" => ps[Required].draft.open
<1>1. ASSUME NEW r \in Records
      PROVE  \E x \in Heads : /\ ps[r] = x /\ Sound(r, x) /\ x.acc = hs[r].acc
                              /\ (r = Required /\ mode = "clean") => x.draft.open
  <2>1. PICK h : h = IF r \in Templated THEN Initialized(hs[r]) ELSE hs[r]
    OBVIOUS
  <2>2. PICK k \in Heads : k = hs[r] /\ Sound(r, k)
    OBVIOUS
  <2>3. h \in Heads /\ Sound(r, h) /\ h.acc = k.acc
    BY <2>1, <2>2, InitializedSound
  <2>4. PICK g : g = IF h.draft.open THEN Discarded(h) ELSE h
    OBVIOUS
  <2>5. g \in Heads /\ Sound(r, g) /\ g.acc = h.acc
    BY <2>3, <2>4, DiscardedSound
  <2>6. PICK o : o = Opened(g)
    OBVIOUS
  <2>7. o \in Heads /\ Sound(r, o) /\ o.acc = g.acc /\ o.draft.open
    BY <2>5, <2>6, OpenedSound
  <2>8. ps[r] = IF r = Required /\ mode = "clean" THEN o ELSE h
    BY <2>1, <2>4, <2>6 DEF Prepared
  <2> QED BY <2>2, <2>3, <2>5, <2>7, <2>8
<1>2. ps = [r \in Records |-> ps[r]]
  BY DEF Prepared
<1>3. ps \in [Records -> Heads]
  BY <1>1, <1>2
<1>4. Required \in Records
  BY DEF RecordStoreAssumption
<1> QED BY <1>1, <1>3, <1>4

\* discardWrittenRecords
LEMMA DiscardWrittenSound ==
  ASSUME RecordStoreAssumption, Typed, DocInv, NEW hs \in [Records -> Heads], \A r \in Records : Sound(r, hs[r]),
         NEW written, NEW ds, ds = DiscardWritten(hs, written)
  PROVE  ds \in [Records -> Heads] /\ \A r \in Records : Sound(r, ds[r]) /\ ds[r].acc = hs[r].acc
<1>1. ASSUME NEW r \in Records
      PROVE  \E x \in Heads : ds[r] = x /\ Sound(r, x) /\ x.acc = hs[r].acc
  <2>1. PICK h \in Heads : h = hs[r] /\ Sound(r, h)
    OBVIOUS
  <2>2. PICK d : d = Discarded(h)
    OBVIOUS
  <2>3. h.draft.open => (d \in Heads /\ Sound(r, d) /\ d.acc = h.acc)
    BY <2>1, <2>2, DiscardedSound
  <2>4. ds[r] = IF r \in written /\ h.draft.open THEN d ELSE h
    BY <2>1, <2>2 DEF DiscardWritten
  <2> QED BY <2>1, <2>3, <2>4
<1>2. ds = [r \in Records |-> ds[r]]
  BY DEF DiscardWritten
<1> QED BY <1>1, <1>2

\* Heads published on the documents they were on
LEMMA Republished ==
  ASSUME RecordStoreAssumption, RecordInv, NEW hs \in [Records -> Heads], \A r \in Records : Sound(r, hs[r]) /\ hs[r].acc = head[r].acc,
         Publish(hs), UNCHANGED <<docs, authored, fault, passed>>, fetch' \in SUBSET Records, late' \in SUBSET SUBSET Records,
         NodeFields \subseteq DOMAIN node', node'.written \in SUBSET Records
  PROVE  /\ head' = hs /\ Typed' /\ DocInv' /\ HeadInv' /\ PassInv' /\ NoFault'
         /\ \A r \in Records : Version(head[r])' = Version(head[r]) /\ Version(hs[r]) = Version(head[r])
<1>1. Typed /\ DocInv /\ HeadInv /\ NoFault
  BY DEF RecordInv
<1>2. Grown
  BY <1>1, NothingGrown
<1>3. ASSUME NEW r \in Records PROVE Sound(r, hs[r])'
  <2>1. PICK h \in Heads : h = hs[r] /\ Sound(r, h)
    OBVIOUS
  <2>2. Sound(r, h)'
    BY <1>1, <1>2, <2>1, SoundGrows
  <2> QED BY <2>1, <2>2
<1>4. head' = hs /\ head' \in [Records -> Heads] /\ prev' \in [Records -> Heads] /\ HeadInv'
  BY <1>1, <1>2, <1>3, PublishSound
<1>5. Typed'
  BY <1>1, <1>4 DEF Typed
<1>6. DocInv' /\ PassInv' /\ NoFault'
  BY <1>1 DEF RecordInv, DocInv, Continues, PassInv, NoFault
<1>7. \A r \in Records : Version(head[r])' = Version(head[r]) /\ Version(hs[r]) = Version(head[r])
  BY <1>4 DEF Version
<1> QED BY <1>4, <1>5, <1>6, <1>7

\* The start of a node
LEMMA StartKeeps ==
  ASSUME RecordStoreAssumption, RecordInv, NEW mode, NEW gate, StartNode(mode, gate)
  PROVE  RecordInv' /\ Unmoved
<1>1. PICK hs : hs = Prepared(head, mode)
  OBVIOUS
<1>2. /\ up /\ Publish(hs) /\ UNCHANGED <<docs, fetch, up, authored, fault, passed, late>>
      /\ node' = [kind |-> "agent", mode |-> mode, gate |-> gate, base |-> hs[Required].rev,
                  ver |-> Version(hs[Required]), written |-> {}, robbed |-> FALSE]
  BY <1>1 DEF StartNode
<1>3. Typed /\ DocInv /\ HeadInv /\ head \in [Records -> Heads] /\ (\A r \in Records : Sound(r, head[r])) /\ Required \in Records
  BY DEF RecordInv, Typed, HeadInv, RecordStoreAssumption
<1>4. /\ hs \in [Records -> Heads] /\ \A r \in Records : Sound(r, hs[r]) /\ hs[r].acc = head[r].acc
      /\ mode = "clean" => hs[Required].draft.open
  BY <1>1, <1>3, PreparedSound
<1>5. PICK n : n = Version(hs[Required])
  OBVIOUS
<1>6. /\ node'.kind = "agent" /\ node'.mode = mode /\ node'.ver = n /\ node'.written = {}
      /\ NodeFields \subseteq DOMAIN node'
  BY <1>2, <1>5 DEF NodeFields
<1>7. /\ head' = hs /\ Typed' /\ DocInv' /\ HeadInv' /\ PassInv' /\ NoFault'
      /\ \A r \in Records : Version(head[r])' = Version(head[r]) /\ Version(hs[r]) = Version(head[r])
  BY <1>2, <1>3, <1>4, <1>6, Republished DEF Typed
<1>8. NodeInv'
  BY <1>2, <1>3, <1>4, <1>5, <1>6, <1>7 DEF NodeInv
<1>9. Unmoved
  BY <1>2, <1>4, <1>7 DEF Unmoved
<1> QED BY <1>7, <1>8, <1>9 DEF RecordInv

\* The repetition of a node after a stale review
LEMMA ReprepareKeeps ==
  ASSUME RecordStoreAssumption, RecordInv, Reprepare
  PROVE  RecordInv' /\ Unmoved
<1>1. PICK ds : ds = DiscardWritten(head, node.written)
  OBVIOUS
<1>2. PICK mode : mode = node.mode
  OBVIOUS
<1>3. PICK hs : hs = Prepared(ds, mode)
  OBVIOUS
<1>4. /\ up /\ node.kind = "agent" /\ Publish(hs) /\ UNCHANGED <<docs, fetch, up, authored, fault, passed, late>>
      /\ node' = [node EXCEPT !.written = {}]
  BY <1>1, <1>2, <1>3 DEF Reprepare
<1>5. Typed /\ DocInv /\ HeadInv /\ NodeInv /\ head \in [Records -> Heads] /\ (\A r \in Records : Sound(r, head[r])) /\ Required \in Records
  BY DEF RecordInv, Typed, HeadInv, RecordStoreAssumption
<1>6. ds \in [Records -> Heads] /\ \A r \in Records : Sound(r, ds[r]) /\ ds[r].acc = head[r].acc
  BY <1>1, <1>5, DiscardWrittenSound
<1>7. /\ hs \in [Records -> Heads] /\ \A r \in Records : Sound(r, hs[r]) /\ hs[r].acc = ds[r].acc
      /\ mode = "clean" => hs[Required].draft.open
  BY <1>3, <1>5, <1>6, PreparedSound
<1>8. /\ node'.kind = node.kind /\ node'.mode = mode /\ node'.ver = node.ver /\ node'.written = {}
      /\ node'.robbed = node.robbed /\ NodeFields \subseteq DOMAIN node'
  BY <1>2, <1>4, <1>5 DEF Typed, NodeFields
<1>9. /\ head' = hs /\ Typed' /\ DocInv' /\ HeadInv' /\ PassInv' /\ NoFault'
      /\ \A r \in Records : Version(head[r])' = Version(head[r]) /\ Version(hs[r]) = Version(head[r])
  BY <1>4, <1>5, <1>6, <1>7, <1>8, Republished DEF Typed
<1>10. NodeInv'
  BY <1>2, <1>4, <1>5, <1>7, <1>8, <1>9 DEF NodeInv
<1>11. Unmoved
  BY <1>4, <1>6, <1>7, <1>9 DEF Unmoved
<1> QED BY <1>9, <1>10, <1>11 DEF RecordInv

\* The end of a node without acceptance
LEMMA EndKeeps ==
  ASSUME RecordStoreAssumption, RecordInv, EndNode
  PROVE  RecordInv' /\ Unmoved
<1>1. PICK ds : ds = DiscardWritten(head, node.written)
  OBVIOUS
<1>2. Publish(ds) /\ node' = NoNode /\ UNCHANGED <<docs, fetch, up, authored, fault, passed, late>>
  BY <1>1 DEF EndNode
<1>3. /\ Typed /\ DocInv /\ head \in [Records -> Heads] /\ (\A r \in Records : Sound(r, head[r]))
      /\ fetch' \in SUBSET Records /\ late' \in SUBSET SUBSET Records
  BY <1>2 DEF RecordInv, Typed, HeadInv
<1>4. ds \in [Records -> Heads] /\ \A r \in Records : Sound(r, ds[r]) /\ ds[r].acc = head[r].acc
  BY <1>1, <1>3, DiscardWrittenSound
<1>5. head' = ds /\ Typed' /\ DocInv' /\ HeadInv' /\ PassInv' /\ NoFault'
  BY <1>2, <1>3, <1>4, NodeGone, Republished
<1>6. Unmoved
  BY <1>2, <1>4, <1>5 DEF Unmoved
<1> QED BY <1>2, <1>5, <1>6, NodeGone DEF RecordInv

\* A node that Stop leaves behind
LEMMA AbandonKeeps ==
  ASSUME RecordStoreAssumption, RecordInv, Abandon
  PROVE  RecordInv' /\ Unmoved
<1>1. UNCHANGED <<head, prev, docs, fetch, up, authored, fault, passed>> /\ node' = NoNode
      /\ late' = late \cup ({node.written} \ {{}})
  BY DEF Abandon
<1>2. fetch' \in SUBSET Records /\ late' \in SUBSET SUBSET Records
  BY <1>1 DEF RecordInv, Typed
<1>3. Unmoved
  BY <1>1 DEF Unmoved
<1> QED BY <1>1, <1>2, <1>3, RecordsStand DEF RecordInv

\* Its discard, whatever node is in execution by then
LEMMA LateKeeps ==
  ASSUME RecordStoreAssumption, RecordInv, LateDiscard
  PROVE  RecordInv' /\ Unmoved
<1>1. PICK w \in late :
        /\ Publish(DiscardWritten(head, w)) /\ late' = late \ {w}
        /\ node' = [node EXCEPT !.robbed = @ \/ (node.kind = "agent" /\ \E r \in w : head[r].draft.open)]
  BY DEF LateDiscard
<1>2. PICK ds : ds = DiscardWritten(head, w)
  OBVIOUS
<1>3. up /\ UNCHANGED <<docs, fetch, up, authored, fault, passed>>
  BY DEF LateDiscard
<1>4. /\ Typed /\ DocInv /\ HeadInv /\ NodeInv /\ head \in [Records -> Heads] /\ (\A r \in Records : Sound(r, head[r]))
      /\ fetch' \in SUBSET Records /\ late' \in SUBSET SUBSET Records /\ w \in SUBSET Records
      /\ Required \in Records /\ Output \in Records
  BY <1>1, <1>3 DEF RecordInv, Typed, HeadInv, RecordStoreAssumption
<1>5. ds \in [Records -> Heads] /\ \A r \in Records : Sound(r, ds[r]) /\ ds[r].acc = head[r].acc
  BY <1>2, <1>4, DiscardWrittenSound
<1>6. /\ node'.kind = node.kind /\ node'.mode = node.mode /\ node'.ver = node.ver /\ node'.written = node.written
      /\ NodeFields \subseteq DOMAIN node'
      /\ node'.robbed = (node.robbed \/ (node.kind = "agent" /\ \E r \in w : head[r].draft.open))
  BY <1>1, <1>4 DEF Typed, NodeFields
<1>7. /\ head' = ds /\ Typed' /\ DocInv' /\ HeadInv' /\ PassInv' /\ NoFault'
      /\ \A r \in Records : Version(head[r])' = Version(head[r])
  BY <1>1, <1>2, <1>3, <1>4, <1>5, <1>6, Republished DEF Typed
<1>8. ASSUME NEW r \in Records
      PROVE  /\ head'[r].draft.open => (head[r].draft.open /\ head'[r] = head[r])
             /\ (~node'.robbed /\ node.kind = "agent") => head'[r] = head[r]
  <2>1. PICK h \in Heads : h = head[r] /\ Sound(r, h)
    BY <1>4
  <2>2. PICK d : d = Discarded(h)
    OBVIOUS
  <2>3. head'[r] = IF r \in w /\ h.draft.open THEN d ELSE h
    BY <1>2, <1>7, <2>1, <2>2 DEF DiscardWritten
  <2>4. h.draft.open => ~d.draft.open
    BY <1>4, <2>1, <2>2, DiscardedForm, Nothing
  <2> QED BY <1>6, <2>1, <2>3, <2>4
<1>9. NodeInv'
  <2>1. node.written # {} => node.kind = "agent"
    BY <1>4 DEF NodeInv
  <2>2. \A r \in node'.written : head'[r].draft.open \/ ~node'.robbed => Eligible(head[r])'
    BY <1>4, <1>6, <1>8, <2>1 DEF NodeInv, Typed, Eligible
  <2>3. (node'.kind = "agent" /\ node'.mode = "clean" /\ ~node'.robbed)
        => head'[Required].draft.open /\ node'.ver = Version(head[Required])'
    BY <1>4, <1>6, <1>7, <1>8 DEF NodeInv
  <2>4. node'.kind = "action" => ~head'[Output].draft.open
    BY <1>4, <1>6, <1>8 DEF NodeInv
  <2> QED BY <1>3, <1>6, <2>1, <2>2, <2>3, <2>4 DEF NodeInv
<1>10. Unmoved
  BY <1>3, <1>5, <1>7 DEF Unmoved
<1> QED BY <1>7, <1>9, <1>10 DEF RecordInv

\* The start of an action
LEMMA StartActionKeeps ==
  ASSUME RecordStoreAssumption, RecordInv, StartAction
  PROVE  RecordInv'
<1>1. up /\ UNCHANGED <<head, prev, docs, fetch, up, authored, fault, passed, late>>
  BY DEF StartAction
<1>2. fetch' \in SUBSET Records /\ late' \in SUBSET SUBSET Records
  BY <1>1 DEF RecordInv, Typed
<1>3. CASE head[Output].draft.open
  BY <1>1, <1>2, <1>3, RecordsStand DEF StartAction, RecordInv
<1>4. CASE ~head[Output].draft.open
  <2>1. node' = [NoNode EXCEPT !.kind = "action", !.base = head[Output].rev]
    BY <1>4 DEF StartAction
  <2>2. node'.kind = "action" /\ node'.written = {} /\ NodeFields \subseteq DOMAIN node'
    BY <2>1 DEF NoNode, NodeFields
  <2>3. NodeInv'
    BY <1>1, <1>4, <2>2 DEF NodeInv
  <2>4. Typed'
    BY <1>1, <2>2 DEF RecordInv, Typed
  <2> QED BY <1>1, <1>2, <2>3, <2>4, RecordsStand DEF RecordInv
<1> QED BY <1>3, <1>4

\* A document of a sound head
LEMMA DocumentTyped ==
  ASSUME Typed, DocInv, NEW r \in Records, NEW h \in Heads, Sound(r, h), NEW c \in Contents, NEW who \in Authors,
         NEW d, d = Document(r, h, c, who)
  PROVE  d \in Documents
<1>1. PICK m : m = Version(h)
  OBVIOUS
<1>2. m + 1 \in Nat /\ h.acc \in Nat /\ c \in Written
  BY <1>1, VersionOf, HeadFields DEF Sound, Written
<1>3. d = [rec |-> r, ver |-> m + 1, pred |-> h.acc, text |-> c, author |-> who]
  BY <1>1 DEF Document
<1> QED BY <1>2, <1>3 DEF Documents

\* Documents after documents
Joined(b, L, a, n, s) ==
  /\ b \in Seq(Documents) /\ L \in Nat /\ Len(b) = L + n /\ \A i \in 1..L : b[i] = a[i]
  /\ \A i \in 1..n : L + i \in 1..Len(b) /\ b[L + i] = s[i]
  /\ \A j \in 1..Len(b) : j > L => \E i \in 1..n : j = L + i

\* A sequence of documents and another one after it
LEMMA DocsThen ==
  ASSUME NEW a \in Seq(Documents), NEW n \in Nat, NEW s \in [1..n -> Documents], NEW b, b = a \o s
  PROVE  Joined(b, Len(a), a, n, s)
<1>1. s \in Seq(Documents) /\ Len(s) = n
  OBVIOUS
<1>2. b \in Seq(Documents) /\ Len(a) \in Nat /\ Len(b) = Len(a) + n /\ \A i \in 1..Len(a) : b[i] = a[i]
  <2>1. b \in Seq(Documents) /\ Len(a) \in Nat
    BY <1>1
  <2>2. Len(b) = Len(a) + n
    <3>1. Len(a \o s) = Len(a) + Len(s)
      BY <1>1, ConcatProperties
    <3> QED BY <1>1, <3>1
  <2>3. \A i \in 1..Len(a) : b[i] = a[i]
    BY <1>1
  <2> QED BY <2>1, <2>2, <2>3
<1>3. ASSUME NEW i \in 1..n PROVE Len(a) + i \in 1..Len(b) /\ b[Len(a) + i] = s[i]
  BY <1>1, <1>2
<1>4. ASSUME NEW j \in 1..Len(b), j > Len(a) PROVE \E i \in 1..n : j = Len(a) + i
  <2>1. j - Len(a) \in 1..n /\ j = Len(a) + (j - Len(a))
    BY <1>2, <1>4
  <2> QED BY <2>1
<1> QED BY <1>2, <1>3, <1>4 DEF Joined

\* Steps that select no other version
LEMMA UnmovedForward == ASSUME RecordStoreAssumption, RecordInv, Unmoved PROVE Forward /\ DraftsAreKept
<1>1. ASSUME NEW q \in Records PROVE Version(head[q]) <= Version(head[q])'
  <2>1. PICK h \in Heads : h = head[q] /\ Sound(q, h)
    BY DEF RecordInv, Typed, HeadInv
  <2>2. PICK m \in Nat : m = Version(h)
    BY <2>1, VersionOf DEF RecordInv, Sound
  <2>3. Version(head[q])' = Version(head[q])
    BY DEF Unmoved, Version
  <2> QED BY <2>1, <2>2, <2>3
<1>2. ~(Len(docs') > Len(docs))
  BY DEF Unmoved, RecordInv, Typed
<1> QED BY <1>1, <1>2 DEF Forward, DraftsAreKept

\* What an accepted node closes is what its agent wrote, or the requirement it passed.
LEMMA ClosingIsEligible ==
  ASSUME RecordStoreAssumption, RecordInv, GatePasses, NEW r \in Closing
  PROVE  r \in Records /\ head[r].draft.open /\ head[r].draft.text \in Contents /\ head[r].draft.text \in authored[r]
<1>1. r \in Records /\ head[r].draft.open /\ (r = Required \/ r \in node.written)
  BY DEF Closing
<1>2. PICK h \in Heads : h = head[r] /\ Sound(r, h)
  BY <1>1 DEF RecordInv, Typed, HeadInv
<1>3. h.draft.ver > 0 /\ h.draft.text # NoText
  BY <1>1, <1>2 DEF GatePasses, IsEligible, RecordInv, NodeInv, Eligible
<1>4. h.draft.text \in authored[r]
  BY <1>1, <1>2, <1>3 DEF Sound, Drafted
<1>5. h.draft.text \in Contents
  BY <1>2, <1>3, HeadFields DEF Written
<1> QED BY <1>1, <1>2, <1>4, <1>5

\* The acceptance of a node
LEMMA AcceptNodeKeeps ==
  ASSUME RecordStoreAssumption, RecordInv, AcceptNode
  PROVE  /\ RecordInv' /\ Grown /\ \A r \in Records : Version(head[r]) <= Version(head[r])'
         /\ Len(docs') > Len(docs) => docs'[Len(docs')].author = "agent"
<1>1. Typed /\ DocInv /\ HeadInv /\ NodeInv /\ NoFault /\ head \in [Records -> Heads] /\ GatePasses /\ up
  BY DEF RecordInv, Typed, AcceptNode
<1>2. CASE \E r \in node.written \ {Required} : ~head[r].draft.open \/ ~IsEligible(head[r])
  <2>1. node.robbed
    BY <1>1, <1>2 DEF NodeInv, Eligible, IsEligible
  <2>2. fault' = "robbed" /\ node' = NoNode /\ UNCHANGED <<head, prev, docs, passed, fetch, up, authored, late>>
    BY <1>2, <2>1 DEF AcceptNode
  <2>3. Grown /\ HeadInv' /\ DocInv' /\ PassInv' /\ NoFault'
    BY <1>1, <2>2, NothingGrown
       DEF RecordInv, DocInv, HeadInv, PassInv, NoFault, Continues, Sound, Selects, Drafted, HeadParses, Version
  <2>4. Typed' /\ NodeInv'
    BY <1>1, <2>2, NodeGone DEF Typed
  <2>5. Unmoved
    BY <2>2 DEF Unmoved
  <2>6. Forward /\ ~(Len(docs') > Len(docs))
    BY <1>1, <2>2, <2>5, UnmovedForward DEF Typed
  <2> QED BY <2>3, <2>4, <2>6 DEF RecordInv, Forward
<1> SUFFICES ASSUME ~(\E r \in node.written \ {Required} : ~head[r].draft.open \/ ~IsEligible(head[r]))
    PROVE  /\ RecordInv' /\ Grown /\ \A r \in Records : Version(head[r]) <= Version(head[r])'
           /\ Len(docs') > Len(docs) => docs'[Len(docs')].author = "agent"
  BY <1>2
<1>3. PICK n : n = Cardinality(Closing)
  OBVIOUS
<1>4. n \in Nat
  <2>1. Closing \subseteq Records /\ IsFiniteSet(Records)
    BY DEF Closing, RecordStoreAssumption
  <2> QED BY <1>3, <2>1, FS_Subset, FS_CardinalityType
<1>5. PICK order \in [1..n -> Closing] :
        /\ {order[i] : i \in DOMAIN order} = Closing
        /\ docs' = docs \o [i \in DOMAIN order |-> Document(order[i], head[order[i]], head[order[i]].draft.text, "agent")]
        /\ Publish([r \in Records |-> IF r \in Closing
              THEN Selecting(head[r], Len(docs) + (CHOOSE i \in DOMAIN order : order[i] = r)) ELSE head[r]])
  BY <1>3 DEF AcceptNode
<1>6. /\ passed' = [mode |-> node.mode, robbed |-> node.robbed, before |-> node.ver,
                    after |-> Version(head[Required]) + (IF Required \in Closing THEN 1 ELSE 0)]
      /\ UNCHANGED <<fault, fetch, up, authored, late>> /\ node' = NoNode
  BY DEF AcceptNode
<1>7. \A r \in Closing : /\ r \in Records /\ head[r].draft.open /\ head[r].draft.text \in Contents
                         /\ head[r].draft.text \in authored[r] /\ head[r] \in Heads /\ Sound(r, head[r])
  BY <1>1, ClosingIsEligible DEF HeadInv
<1>8. PICK s : s = [i \in 1..n |-> Document(order[i], head[order[i]], head[order[i]].draft.text, "agent")]
  OBVIOUS
<1>9. docs' = docs \o s
  BY <1>5, <1>8
<1>10. "agent" \in Authors
  BY DEF Authors
<1>11. s \in [1..n -> Documents]
  <2>1. ASSUME NEW i \in 1..n PROVE s[i] \in Documents
    <3>1. PICK r \in Closing : r = order[i]
      BY <1>5
    <3>2. s[i] = Document(r, head[r], head[r].draft.text, "agent")
      BY <1>8, <3>1
    <3> QED BY <1>1, <1>7, <1>10, <3>2, DocumentTyped
  <2> QED BY <1>8, <2>1
<1>12. PICK L : L = Len(docs)
  OBVIOUS
<1>13. /\ docs' \in Seq(Documents) /\ L \in Nat /\ Len(docs') = L + n /\ \A i \in 1..L : docs'[i] = docs[i]
       /\ \A i \in 1..n : L + i \in 1..Len(docs') /\ docs'[L + i] = s[i]
       /\ \A j \in 1..Len(docs') : j > L => \E i \in 1..n : j = L + i
  <2>1. PICK a \in Seq(Documents) : a = docs
    BY <1>1 DEF Typed
  <2>2. PICK b : b = a \o s
    OBVIOUS
  <2>3. Joined(b, Len(a), a, n, s)
    BY <1>4, <1>11, <2>2, DocsThen
  <2>4. docs' = b /\ L = Len(a)
    BY <1>9, <1>12, <2>1, <2>2
  <2>5. Joined(docs', L, docs, n, s)
    BY <2>1, <2>3, <2>4
  <2> QED BY <2>5 DEF Joined
<1>14. Grown
  <2>1. Len(docs) <= Len(docs')
    BY <1>4, <1>12, <1>13
  <2> QED BY <1>1, <1>6, <1>12, <1>13, <2>1 DEF Grown, Typed
<1>15. ASSUME NEW i \in 1..n
       PROVE  /\ Continues(docs[L + i], L + i)' /\ docs'[L + i].author = "agent"
              /\ L + i \in Nat /\ L + i > Len(docs)
  <2>1. PICK k : k = L + i
    OBVIOUS
  <2>2. k \in Nat /\ k > Len(docs)
    BY <1>4, <1>12, <1>13, <2>1
  <2>3. PICK r \in Closing : r = order[i]
    BY <1>5
  <2>4. PICK h \in Heads : h = head[r] /\ Sound(r, h)
    BY <1>7, <2>3
  <2>5. PICK c \in Contents : c = h.draft.text
    BY <1>7, <2>3, <2>4
  <2>6. PICK d : d = Document(r, h, c, "agent")
    OBVIOUS
  <2>7. docs'[k] = d
    BY <1>8, <1>13, <2>1, <2>3, <2>4, <2>5, <2>6
  <2>8. Continues(d, k)' /\ d.author = "agent"
    BY <1>1, <1>7, <1>10, <1>14, <2>2, <2>3, <2>4, <2>5, <2>6, DocumentContinues
  <2>9. Continues(docs[k], k)'
    BY <2>7, <2>8
  <2> QED BY <2>1, <2>2, <2>7, <2>8, <2>9
<1>16. DocInv'
  <2>1. ASSUME NEW j \in 1..Len(docs'), j > Len(docs) PROVE Continues(docs[j], j)'
    <3>1. PICK i \in 1..n : j = L + i
      BY <1>12, <1>13, <2>1
    <3> QED BY <1>15, <3>1
  <2> QED BY <1>1, <1>14, <2>1, DocsGrow
<1>17. ASSUME NEW r \in Closing
       PROVE  \E x \in Heads : /\ x = Selecting(head[r], Len(docs) + (CHOOSE i \in DOMAIN order : order[i] = r))
                               /\ Sound(r, x)' /\ ~x.draft.open /\ Version(x)' = Version(head[r]) + 1
  <2>1. PICK i : i = CHOOSE j \in DOMAIN order : order[j] = r
    OBVIOUS
  <2>2. i \in 1..n /\ order[i] = r
    <3>1. \E j \in DOMAIN order : order[j] = r
      BY <1>5
    <3> QED BY <1>5, <2>1, <3>1
  <2>3. PICK k : k = L + i
    OBVIOUS
  <2>4. k \in 1..Len(docs') /\ k > Len(docs) /\ docs'[k] = s[i]
    BY <1>13, <1>15, <2>2, <2>3
  <2>5. PICK h \in Heads : h = head[r] /\ Sound(r, h)
    BY <1>7
  <2>6. PICK c \in Contents : c = h.draft.text /\ c \in authored[r]
    BY <1>7, <2>5
  <2>7. docs'[k] = Document(r, h, c, "agent")
    BY <1>8, <2>2, <2>4, <2>5, <2>6
  <2>8. PICK x : x = Selecting(h, k)
    OBVIOUS
  <2>9. c \in authored'[r] /\ r \in Records
    BY <1>6, <1>7, <2>6
  <2>10. x \in Heads /\ Sound(r, x)' /\ ~x.draft.open /\ Version(x)' = Version(h) + 1
    BY <1>1, <1>10, <1>14, <2>4, <2>5, <2>6, <2>7, <2>8, <2>9, SelectingSound
  <2> QED BY <1>12, <2>1, <2>3, <2>5, <2>8, <2>10
<1>18. PICK hs : hs = [r \in Records |-> IF r \in Closing
              THEN Selecting(head[r], Len(docs) + (CHOOSE i \in DOMAIN order : order[i] = r)) ELSE head[r]]
  OBVIOUS
<1>19. ASSUME NEW r \in Records
       PROVE  hs[r] \in Heads /\ Sound(r, hs[r])' /\ Version(head[r]) <= Version(hs[r])'
  <2>1. PICK h \in Heads : h = head[r] /\ Sound(r, h)
    BY <1>1 DEF HeadInv
  <2>2. PICK m \in Nat : m = Version(h)
    BY <1>1, <2>1, VersionOf DEF Sound
  <2>3. CASE r \in Closing
    <3>1. PICK x \in Heads : hs[r] = x /\ Sound(r, x)' /\ Version(x)' = Version(head[r]) + 1
      BY <1>17, <1>18, <2>3
    <3>2. Version(x)' = m + 1
      BY <2>1, <2>2, <3>1
    <3>3. m <= m + 1
      BY <2>2
    <3> QED BY <2>1, <2>2, <3>1, <3>2, <3>3
  <2>4. CASE r \notin Closing
    <3>1. hs[r] = h
      BY <1>18, <2>1, <2>4
    <3>2. Sound(r, h)' /\ Version(h)' = m
      BY <1>1, <1>14, <2>1, <2>2, SoundGrows
    <3>3. m <= m
      BY <2>2
    <3> QED BY <2>1, <2>2, <3>1, <3>2, <3>3
  <2> QED BY <2>3, <2>4
<1>20. hs \in [Records -> Heads]
  BY <1>18, <1>19
<1>21. head' = hs /\ head' \in [Records -> Heads] /\ prev' \in [Records -> Heads] /\ HeadInv'
  BY <1>1, <1>5, <1>14, <1>18, <1>19, <1>20, PublishSound
<1>22. ASSUME NEW r \in Records PROVE Version(head[r]) <= Version(head[r])'
  <2>1. PICK x : x = hs[r]
    OBVIOUS
  <2>2. Version(head[r])' = Version(x)'
    BY <1>21, <2>1 DEF Version
  <2> QED BY <1>19, <2>1, <2>2
<1>23. PassInv'
  <2> SUFFICES ASSUME passed'.mode = "clean", ~passed'.robbed PROVE passed'.after > passed'.before
    BY DEF PassInv
  <2>1. PICK a : a = Version(head[Required]) + (IF Required \in Closing THEN 1 ELSE 0)
    OBVIOUS
  <2>2. passed'.mode = node.mode /\ passed'.robbed = node.robbed /\ passed'.before = node.ver /\ passed'.after = a
    BY <1>6, <2>1
  <2>3. head[Required].draft.open /\ node.ver = Version(head[Required]) /\ Required \in Records
    BY <1>1, <2>2 DEF NodeInv, AcceptNode, RecordStoreAssumption
  <2>4. Required \in Closing
    BY <2>3 DEF Closing
  <2>5. PICK m \in Nat : m = Version(head[Required])
    BY <1>1, <2>3, VersionOf DEF HeadInv, Sound
  <2>6. a = m + 1
    BY <2>1, <2>4, <2>5
  <2> QED BY <2>2, <2>3, <2>5, <2>6
<1>24. Typed' /\ NodeInv'
  BY <1>1, <1>6, <1>13, <1>21, NodeGone DEF Typed
<1>25. Len(docs') > Len(docs) => docs'[Len(docs')].author = "agent"
  <2> SUFFICES ASSUME Len(docs') > Len(docs) PROVE docs'[Len(docs')].author = "agent"
    OBVIOUS
  <2>1. n \in 1..n /\ Len(docs') = L + n
    BY <1>4, <1>12, <1>13
  <2> QED BY <1>15, <2>1
<1>26. NoFault'
  BY <1>1, <1>6 DEF NoFault
<1> QED BY <1>1, <1>6, <1>14, <1>16, <1>21, <1>22, <1>23, <1>24, <1>25, <1>26 DEF RecordInv

-----------------------------------------------------------------------------
(* Death, restart, repair and the first state *)

\* A process that dies, between two publications of an operation or elsewhere
LEMMA DieKeeps ==
  ASSUME RecordStoreAssumption, RecordInv, Die
  PROVE  /\ RecordInv' /\ \A r \in Records : Version(head[r])' = Version(head[r])
         /\ Len(docs') > Len(docs) => docs'[Len(docs')].author = "agent"
<1>1. node' = NoNode /\ fetch' = {} /\ late' = {} /\ UNCHANGED <<authored, fault, passed>>
  BY DEF Die
<1>2. Typed /\ DocInv /\ HeadInv /\ NoFault /\ head \in [Records -> Heads] /\ (\A r \in Records : Sound(r, head[r]))
  BY DEF RecordInv, Typed, HeadInv
<1>3. CASE UNCHANGED <<head, prev, docs>>
  <2>1. RecordInv'
    BY <1>1, <1>3, RecordsStand DEF RecordInv
  <2>2. \A r \in Records : Version(head[r])' = Version(head[r])
    BY <1>3 DEF Version
  <2>3. ~(Len(docs') > Len(docs))
    BY <1>2, <1>3 DEF Typed
  <2> QED BY <2>1, <2>2, <2>3
<1>4. ASSUME UNCHANGED <<head, prev>>, NEW r \in Records, NEW c \in Contents, docs' = Append(docs, Document(r, head[r], c, "agent"))
      PROVE  /\ RecordInv' /\ \A q \in Records : Version(head[q])' = Version(head[q])
             /\ docs'[Len(docs')].author = "agent"
  <2>1. PICK h \in Heads : h = head[r] /\ Sound(r, h)
    BY <1>2
  <2>2. PICK d : d = Document(r, h, c, "agent")
    OBVIOUS
  <2>3. "agent" \in Authors
    BY DEF Authors
  <2>4. d \in Documents
    BY <1>2, <2>1, <2>2, <2>3, DocumentTyped
  <2>5. PICK n \in Nat : n = Len(docs)
    BY <1>2 DEF Typed
  <2>6. docs' \in Seq(Documents) /\ Len(docs') = n + 1 /\ docs'[n + 1] = d /\ \A i \in 1..n : docs'[i] = docs[i]
    BY <1>2, <1>4, <2>1, <2>2, <2>4, <2>5 DEF Typed
  <2>7. Grown
    BY <1>1, <1>2, <2>5, <2>6 DEF Grown, Typed
  <2>8. PICK k : k = n + 1
    OBVIOUS
  <2>9. k \in Nat /\ k > Len(docs) /\ docs'[k] = d
    BY <2>5, <2>6, <2>8
  <2>10. Continues(d, k)' /\ d.author = "agent"
    BY <1>2, <2>1, <2>2, <2>3, <2>7, <2>9, DocumentContinues
  <2>11. Continues(docs[k], k)'
    BY <2>9, <2>10
  <2>12. DocInv'
    <3>1. \A i \in 1..Len(docs') : i > Len(docs) => i = k
      BY <2>5, <2>6, <2>8
    <3> QED BY <1>2, <2>7, <2>11, <3>1, DocsGrow
  <2>13. ASSUME NEW q \in Records
         PROVE  Sound(q, head[q])' /\ Sound(q, prev[q])' /\ Version(head[q])' = Version(head[q])
    <3>1. PICK g \in Heads : g = head[q] /\ Sound(q, g)
      BY <1>2
    <3>2. PICK p \in Heads : p = prev[q] /\ Sound(q, p)
      BY <1>2 DEF Typed, HeadInv
    <3>3. Sound(q, g)' /\ Version(g)' = Version(g) /\ Sound(q, p)'
      BY <1>2, <2>7, <3>1, <3>2, SoundGrows
    <3>4. Version(head[q])' = Version(g)'
      BY <1>4, <3>1 DEF Version
    <3> QED BY <1>4, <3>1, <3>2, <3>3, <3>4
  <2>14. HeadInv'
    BY <2>13 DEF HeadInv
  <2>15. Typed' /\ NodeInv'
    BY <1>1, <1>2, <1>4, <2>6, NodeGone DEF Typed
  <2>16. PassInv' /\ NoFault'
    BY <1>1, <1>2 DEF RecordInv, PassInv, NoFault
  <2>17. docs'[Len(docs')].author = "agent"
    BY <2>6, <2>8, <2>9, <2>10
  <2> QED BY <2>12, <2>13, <2>14, <2>15, <2>16, <2>17 DEF RecordInv
<1>5. ASSUME UNCHANGED docs, NEW r \in Records, Publish([head EXCEPT ![r] = Opened(@)])
      PROVE  RecordInv' /\ (\A q \in Records : Version(head[q])' = Version(head[q])) /\ ~(Len(docs') > Len(docs))
  <2>1. PICK h \in Heads : h = head[r] /\ Sound(r, h)
    BY <1>2
  <2>2. PICK x : x = Opened(h)
    OBVIOUS
  <2>3. x \in Heads /\ Sound(r, x) /\ x.acc = h.acc
    BY <1>2, <2>1, <2>2, OpenedSound
  <2>4. PICK hs : hs = [head EXCEPT ![r] = x]
    OBVIOUS
  <2>5. Publish(hs)
    BY <1>5, <2>1, <2>2, <2>4
  <2>6. hs \in [Records -> Heads] /\ \A q \in Records : Sound(q, hs[q]) /\ hs[q].acc = head[q].acc
    BY <1>2, <2>1, <2>3, <2>4
  <2>7. /\ Typed' /\ DocInv' /\ HeadInv' /\ PassInv' /\ NoFault'
        /\ \A q \in Records : Version(head[q])' = Version(head[q])
    BY <1>1, <1>5, <2>5, <2>6, NodeGone, Republished
  <2>8. ~(Len(docs') > Len(docs))
    BY <1>2, <1>5 DEF Typed
  <2> QED BY <1>1, <2>7, <2>8, NodeGone DEF RecordInv
<1> QED BY <1>3, <1>4, <1>5 DEF Die

\* The repair of a head, offline
LEMMA RestoreKeeps ==
  ASSUME RecordStoreAssumption, RecordInv, NEW r \in Records, Restore(r)
  PROVE  RecordInv'
<1>1. /\ ~up /\ head' = [head EXCEPT ![r] = prev[r]] /\ prev' = [prev EXCEPT ![r] = Absent]
      /\ UNCHANGED <<docs, node, fetch, up, authored, fault, passed, late>>
  BY DEF Restore
<1>2. Typed /\ DocInv /\ HeadInv /\ NodeInv /\ NoFault
  BY DEF RecordInv
<1>3. Absent \in Heads
  BY Nothing
<1>4. /\ head' \in [Records -> Heads] /\ prev' \in [Records -> Heads]
      /\ \A q \in Records : head'[q] \in {head[q], prev[q]} /\ prev'[q] \in {prev[q], Absent}
  BY <1>1, <1>2, <1>3 DEF Typed
<1>5. ASSUME NEW q \in Records, NEW x, Sound(q, x) PROVE Sound(q, x)'
  BY <1>1, <1>5 DEF Sound, Selects, Drafted, HeadParses, Version
<1>6. \A q \in Records : Sound(q, Absent)'
  BY <1>1, <1>2, Nothing DEF Sound, Selects, Drafted, HeadParses, Typed
<1>7. HeadInv'
  BY <1>1, <1>2, <1>4, <1>5, <1>6 DEF HeadInv
<1>8. node' = NoNode
  BY <1>1, <1>2 DEF NodeInv
<1>9. Typed' /\ NodeInv'
  BY <1>1, <1>2, <1>4, <1>8, NodeGone DEF Typed
<1>10. DocInv' /\ PassInv' /\ NoFault'
  BY <1>1, <1>2 DEF RecordInv, DocInv, Continues, PassInv, NoFault
<1> QED BY <1>7, <1>9, <1>10 DEF RecordInv

\* The first state: the bootstrap records with their templates
LEMMA RecordInit == ASSUME RecordStoreAssumption, Init PROVE RecordInv
<1>1. PICK n : n = Cardinality(Bootstrap)
  OBVIOUS
<1>2. n \in Nat
  <2>1. Bootstrap \subseteq Records /\ IsFiniteSet(Records)
    BY DEF RecordStoreAssumption
  <2> QED BY <1>1, <2>1, FS_Subset, FS_CardinalityType
<1>3. PICK order \in [1..n -> Bootstrap] :
        /\ {order[i] : i \in DOMAIN order} = Bootstrap
        /\ docs = [i \in DOMAIN order |-> [rec |-> order[i], ver |-> 1, pred |-> 0, text |-> Template, author |-> "runtime"]]
        /\ head = [r \in Records |-> IF r \in Bootstrap
              THEN [Absent EXCEPT !.rev = 1, !.acc = CHOOSE i \in DOMAIN order : order[i] = r] ELSE Absent]
  BY <1>1 DEF Init
<1>4. /\ node = NoNode /\ fetch = {} /\ up = TRUE /\ fault = "none" /\ late = {} /\ prev = [r \in Records |-> Absent]
      /\ authored = [r \in Records |-> IF r \in Bootstrap THEN {Template} ELSE {}]
      /\ passed = [mode |-> "continue", robbed |-> FALSE, before |-> 0, after |-> 0]
  BY DEF Init
<1>5. Bootstrap \subseteq Records /\ Template \in Contents /\ Template \in Written /\ "runtime" \in Authors
  BY TextsAreThere DEF RecordStoreAssumption, Written, Authors
<1>6. /\ Absent \in Heads /\ Absent.draft = NoDraft /\ ~NoDraft.open /\ Absent.rev = 0 /\ Absent.baseline = NoText /\ Absent.acc = 0
      /\ NoDraft \in Drafts
  BY Nothing
<1>7. ASSUME NEW i \in 1..n
      PROVE  /\ docs[i] \in Documents /\ docs[i].ver = 1 /\ docs[i].pred = 0 /\ docs[i].rec = order[i] /\ docs[i].text = Template
  <2>1. PICK r \in Records : r = order[i]
    BY <1>3, <1>5
  <2>2. docs[i] = [rec |-> r, ver |-> 1, pred |-> 0, text |-> Template, author |-> "runtime"]
    BY <1>3, <2>1
  <2> QED BY <1>5, <2>1, <2>2 DEF Documents
<1>8. docs \in Seq(Documents) /\ Len(docs) = n
  <2>1. docs \in [1..n -> Documents]
    BY <1>3, <1>7
  <2> QED BY <1>2, <2>1
<1>9. DocInv
  <2>1. ASSUME NEW i \in 1..Len(docs) PROVE Continues(docs[i], i)
    <3>1. i \in 1..n /\ i > 0
      BY <1>2, <1>8
    <3> QED BY <1>7, <3>1 DEF Continues
  <2> QED BY <2>1 DEF DocInv
<1>10. \A r \in Records : Sound(r, Absent)
  <2>1. 0 \in 0..Len(docs)
    BY <1>2, <1>8
  <2> QED BY <1>6, <2>1 DEF Sound, Selects, Drafted, HeadParses
<1>11. ASSUME NEW r \in Records PROVE head[r] \in Heads /\ Sound(r, head[r])
  <2>1. CASE r \notin Bootstrap
    BY <1>3, <1>6, <1>10, <2>1
  <2>2. CASE r \in Bootstrap
    <3>1. PICK i : i = CHOOSE j \in DOMAIN order : order[j] = r
      OBVIOUS
    <3>2. i \in 1..n /\ order[i] = r
      <4>1. \E j \in DOMAIN order : order[j] = r
        BY <1>3, <2>2
      <4> QED BY <1>3, <3>1, <4>1
    <3>3. PICK a : a = Absent
      OBVIOUS
    <3>4. head[r] = [a EXCEPT !.rev = 1, !.acc = i]
      BY <1>3, <2>2, <3>1, <3>3
    <3>5. a \in Heads /\ i \in Nat /\ i # 0
      BY <1>2, <1>6, <3>2, <3>3
    <3>6. PICK x : x = [a EXCEPT !.rev = 1, !.acc = i]
      OBVIOUS
    <3>7. x \in Heads /\ x.rev = 1 /\ x.acc = i /\ x.draft = a.draft /\ x.baseline = a.baseline
      BY <3>5, <3>6 DEF Heads
    <3>8. Version(x) = 1
      BY <1>7, <3>2, <3>5, <3>7 DEF Version
    <3>9. HeadParses(x)
      BY <1>6, <3>3, <3>7, <3>8 DEF HeadParses
    <3>10. i \in 0..Len(docs) /\ docs[i].rec = r /\ docs[i].text = Template /\ Template \in authored[r]
      BY <1>2, <1>4, <1>7, <1>8, <2>2, <3>2
    <3>11. Selects(r, x) /\ Drafted(r, x)
      BY <1>6, <3>3, <3>7, <3>10 DEF Selects, Drafted
    <3> QED BY <3>4, <3>6, <3>7, <3>9, <3>11 DEF Sound
  <2> QED BY <2>1, <2>2
<1>12. HeadInv
  BY <1>4, <1>10, <1>11 DEF HeadInv
<1>13. Typed
  <2>1. head = [r \in Records |-> head[r]]
    BY <1>3
  <2>2. head \in [Records -> Heads] /\ prev \in [Records -> Heads]
    BY <1>4, <1>6, <1>11, <2>1
  <2>3. authored \in [Records -> SUBSET Contents]
    BY <1>4, <1>5
  <2>4. NodeFields \subseteq DOMAIN node /\ node.written \in SUBSET Records
    BY <1>4 DEF NoNode, NodeFields
  <2> QED BY <1>4, <1>8, <2>2, <2>3, <2>4 DEF Typed
<1>14. NodeInv
  <2>1. NoNode.kind = "none" /\ NoNode.written = {}
    BY DEF NoNode
  <2> QED BY <1>4, <2>1 DEF NodeInv
<1>15. PassInv
  <2>1. passed.mode # "clean"
    BY <1>4
  <2> QED BY <2>1 DEF PassInv
<1> QED BY <1>4, <1>9, <1>12, <1>13, <1>14, <1>15 DEF RecordInv, NoFault

-----------------------------------------------------------------------------
(* The steps together *)

\* Direct acceptance goes one version forward and leaves the open drafts alone.
LEMMA AcceptForward ==
  ASSUME RecordStoreAssumption, RecordInv, NEW r \in Records, NEW c \in Contents, NEW who \in Authors,
         ~head[r].draft.open, who = "output" \/ Effective(head[r]) # c, Accept(r, c, who), Author(r, c)
  PROVE  Forward /\ DraftsAreKept
<1>1. /\ Grown /\ (\A q \in Records : q # r => head'[q] = head[q]) /\ Version(head[r])' = Version(head[r]) + 1
  BY AcceptKeeps
<1>2. DraftsAreKept
  BY <1>1 DEF DraftsAreKept
<1>3. ASSUME NEW q \in Records PROVE Version(head[q]) <= Version(head[q])'
  <2>1. PICK h \in Heads : h = head[q] /\ Sound(q, h)
    BY DEF RecordInv, Typed, HeadInv
  <2>2. PICK m \in Nat : m = Version(h)
    BY <2>1, VersionOf DEF RecordInv, Sound
  <2>3. Version(h)' = m
    BY <1>1, <2>1, <2>2, SoundGrows DEF RecordInv
  <2>4. q # r => Version(head[q])' = Version(h)'
    BY <1>1, <2>1 DEF Version
  <2>5. m <= m /\ m <= m + 1
    BY <2>2
  <2> QED BY <1>1, <2>1, <2>2, <2>3, <2>4, <2>5
<1> QED BY <1>2, <1>3 DEF Forward

\* The direct acceptances
LEMMA DirectStep ==
  ASSUME RecordStoreAssumption, RecordInv, NEW who \in {"analyst", "peer"}, NEW op, NEW r \in Records, NEW c \in Contents,
         DirectWrite(who, op, r, c)
  PROVE  RecordInv' /\ Forward /\ DraftsAreKept
<1>1. /\ ~head[r].draft.open /\ Effective(head[r]) # c /\ Accept(r, c, who) /\ Author(r, c) /\ UNCHANGED <<node, up, passed, late>>
      /\ fetch' \in SUBSET Records /\ who \in Authors
  BY DEF DirectWrite, Admitted, Applies, RecordInv, Typed, Authors
<1>2. RecordInv'
  BY <1>1, DirectKeeps
<1>3. Forward /\ DraftsAreKept
  BY <1>1, AcceptForward
<1> QED BY <1>2, <1>3

\* A fetched text, accepted or refused
LEMMA FetchStep ==
  ASSUME RecordStoreAssumption, RecordInv, NEW c \in Contents, FetchReturns(c)
  PROVE  RecordInv' /\ Forward /\ DraftsAreKept
<1>1. PICK r \in fetch : WriteFetched(r, c)
  BY DEF FetchReturns
<1>2. r \in Records /\ "analyst" \in Authors
  BY DEF RecordInv, Typed, Authors
<1>3. CASE Admitted("analyst", r) /\ Applies("write", r, c)
  <2>1. ~head[r].draft.open /\ Effective(head[r]) # c /\ Accept(r, c, "analyst") /\ Author(r, c)
    BY <1>1, <1>3 DEF WriteFetched, Admitted, Applies
  <2> QED BY <1>2, <2>1, FetchKeeps, AcceptForward
<1>4. CASE ~(Admitted("analyst", r) /\ Applies("write", r, c))
  <2>1. Unmoved
    BY <1>1, <1>4 DEF WriteFetched, Unmoved
  <2> QED BY <2>1, FetchKeeps, UnmovedForward
<1> QED BY <1>3, <1>4

\* An action's output
LEMMA ActionStep ==
  ASSUME RecordStoreAssumption, RecordInv, NEW c \in Contents, ActionDone(c)
  PROVE  RecordInv' /\ Forward /\ DraftsAreKept
<1>1. /\ Accept(Output, c, "output") /\ Author(Output, c) /\ Output \in Records /\ "output" \in Authors
      /\ ~head[Output].draft.open
  BY DEF ActionDone, RecordStoreAssumption, Authors, RecordInv, NodeInv
<1> QED BY <1>1, ActionKeeps, AcceptForward

\* Steps of the card around its nodes
LEMMA CardStep ==
  ASSUME RecordStoreAssumption, RecordInv, (\E r \in Records : Preflight(r)) \/ StartAction \/ Activate \/ Settle \/ Cancel \/ Restart
  PROVE  RecordInv' /\ Unmoved
<1>1. /\ UNCHANGED <<head, prev, docs, authored, fault, passed, late>> /\ fetch' \in SUBSET Records
      /\ late' \in SUBSET SUBSET Records
  BY DEF Preflight, StartAction, Activate, Settle, Cancel, Restart, RecordInv, Typed
<1>2. Unmoved
  BY <1>1 DEF Unmoved
<1>3. CASE StartAction
  BY <1>2, <1>3, StartActionKeeps
<1>4. CASE ~StartAction
  <2>1. UNCHANGED <<node, up>> \/ (UNCHANGED node /\ ~up)
    BY <1>4 DEF Preflight, Activate, Settle, Cancel, Restart
  <2>2. UNCHANGED node /\ (UNCHANGED <<node, up>> \/ node' = NoNode)
    BY <2>1 DEF RecordInv, NodeInv
  <2> QED BY <1>1, <1>2, <2>2, RecordsStand DEF RecordInv
<1> QED BY <1>3, <1>4

\* Every step keeps the invariant; outside repair it selects no earlier version, and no
\* step of a writer without the draft replaces one that is open.
LEMMA RecordStep ==
  ASSUME RecordStoreAssumption, RecordInv, [Next]_vars
  PROVE  RecordInv' /\ (up => Forward) /\ DraftsAreKept
<1>1. ASSUME NEW who \in {"analyst", "peer"}, NEW op \in {"write", "edit"}, NEW r \in Records, NEW c \in Contents,
             DirectWrite(who, op, r, c)
      PROVE  RecordInv' /\ (up => Forward) /\ DraftsAreKept
  BY <1>1, DirectStep
<1>2. ASSUME NEW r \in Records, Restore(r) PROVE RecordInv' /\ (up => Forward) /\ DraftsAreKept
  <2>1. ~up /\ UNCHANGED docs
    BY <1>2 DEF Restore
  <2>2. ~(Len(docs') > Len(docs))
    BY <2>1 DEF RecordInv, Typed
  <2> QED BY <1>2, <2>1, <2>2, RestoreKeeps DEF DraftsAreKept
<1>3. ASSUME NEW c \in Contents, FetchReturns(c) \/ ActionDone(c) PROVE RecordInv' /\ (up => Forward) /\ DraftsAreKept
  BY <1>3, FetchStep, ActionStep
<1>4. ASSUME NEW op \in {"write", "edit"}, NEW r \in Records, NEW c \in Contents, AgentWrite(op, r, c)
      PROVE  RecordInv' /\ (up => Forward) /\ DraftsAreKept
  BY <1>4, AgentKeeps, UnmovedForward
<1>5. ASSUME NEW mode \in Modes, NEW gate \in {"exists", "updated"}, StartNode(mode, gate)
      PROVE  RecordInv' /\ (up => Forward) /\ DraftsAreKept
  BY <1>5, StartKeeps, UnmovedForward
<1>6. CASE AcceptNode
  <2>1. /\ RecordInv' /\ \A r \in Records : Version(head[r]) <= Version(head[r])'
        /\ Len(docs') > Len(docs) => docs'[Len(docs')].author = "agent"
    BY <1>6, AcceptNodeKeeps
  <2> QED BY <2>1 DEF Forward, DraftsAreKept
<1>7. CASE Reprepare \/ EndNode \/ Abandon \/ LateDiscard
  BY <1>7, ReprepareKeeps, EndKeeps, AbandonKeeps, LateKeeps, UnmovedForward
<1>8. CASE (\E r \in Records : Preflight(r)) \/ StartAction \/ Activate \/ Settle \/ Cancel \/ Restart
  BY <1>8, CardStep, UnmovedForward
<1>9. CASE Die
  <2>1. /\ RecordInv' /\ \A r \in Records : Version(head[r])' = Version(head[r])
        /\ Len(docs') > Len(docs) => docs'[Len(docs')].author = "agent"
    BY <1>9, DieKeeps
  <2>2. ASSUME NEW q \in Records PROVE Version(head[q]) <= Version(head[q])'
    <3>1. PICK h \in Heads : h = head[q] /\ Sound(q, h)
      BY DEF RecordInv, Typed, HeadInv
    <3>2. PICK m \in Nat : m = Version(h)
      BY <3>1, VersionOf DEF RecordInv, Sound
    <3> QED BY <2>1, <3>1, <3>2
  <2> QED BY <2>1, <2>2 DEF Forward, DraftsAreKept
<1>10. CASE UNCHANGED vars
  <2>1. UNCHANGED <<head, prev, docs, node, fetch, up, authored, fault, passed, late>>
    BY <1>10 DEF vars
  <2>2. fetch' \in SUBSET Records /\ late' \in SUBSET SUBSET Records /\ Unmoved
    BY <2>1 DEF RecordInv, Typed, Unmoved
  <2> QED BY <2>1, <2>2, RecordsStand, UnmovedForward DEF RecordInv
<1> QED BY <1>1, <1>2, <1>3, <1>4, <1>5, <1>6, <1>7, <1>8, <1>9, <1>10 DEF Next

-----------------------------------------------------------------------------
(* The versions of a record, walked from the selected one *)

\* A set of numbers that is not empty has a least element.
LEMMA LeastElement == ASSUME NEW T \in SUBSET Nat, T # {} PROVE \E m \in T : \A k \in T : m <= k
<1>1. PICK R : R = OpToRel(<, Nat)
  OBVIOUS
<1>2. IsWellFoundedOn(R, Nat)
  BY <1>1, NatLessThanWellFounded
<1>3. PICK m \in T : \A k \in T : ~(<<k, m>> \in R)
  BY <1>2, WFMin
<1>4. \A k \in Nat : k < m => <<k, m>> \in R
  BY <1>1 DEF OpToRel
<1>5. ASSUME NEW k \in T PROVE m <= k
  <2>1. k \in Nat /\ m \in Nat
    OBVIOUS
  <2>2. ~(k < m)
    BY <1>3, <1>4, <2>1
  <2> QED BY <2>1, <2>2
<1> QED BY <1>5

\* Iterating a function of a set from one of its elements defines a sequence of its elements.
Iterates(f, n, a, g) == f = [k \in 0..n |-> IF k = 0 THEN a ELSE g[f[k - 1]]]

\* There is such a sequence, of any length.
LEMMA IterationExists ==
  ASSUME NEW D, NEW a \in D, NEW g \in [D -> D], NEW n \in Nat
  PROVE  \E f \in [0..n -> D] : Iterates(f, n, a, g)
<1> DEFINE T == {m \in Nat : ~\E f \in [0..m -> D] : Iterates(f, m, a, g)}
<1> SUFFICES ASSUME T # {} PROVE FALSE
  OBVIOUS
<1>1. PICK m \in T : \A k \in T : m <= k
  <2>1. T \in SUBSET Nat
    OBVIOUS
  <2> HIDE DEF T
  <2> QED BY <2>1, LeastElement
<1>2. m \in Nat /\ ~\E f \in [0..m -> D] : Iterates(f, m, a, g)
  BY <1>1
<1>3. CASE m = 0
  <2>1. PICK h : h = [k \in 0..m |-> a]
    OBVIOUS
  <2>2. h = [k \in 0..m |-> IF k = 0 THEN a ELSE g[h[k - 1]]] /\ h \in [0..m -> D]
    BY <1>3, <2>1
  <2> QED BY <1>2, <2>2 DEF Iterates
<1>4. CASE m # 0
  <2>1. PICK l : l = m - 1
    OBVIOUS
  <2>2. l \in Nat /\ ~(m <= l)
    BY <1>2, <1>4, <2>1
  <2>3. l \notin T
    BY <1>1, <2>2
  <2>4. PICK f \in [0..l -> D] : Iterates(f, l, a, g)
    BY <2>2, <2>3
  <2>5. \A k \in 0..l : f[k] = IF k = 0 THEN a ELSE g[f[k - 1]]
    <3>1. f = [k \in 0..l |-> IF k = 0 THEN a ELSE g[f[k - 1]]]
      BY <2>4 DEF Iterates
    <3> QED BY <3>1
  <2>6. PICK h : h = [k \in 0..m |-> IF k = m THEN g[f[l]] ELSE f[k]]
    OBVIOUS
  <2>7. ASSUME NEW k \in 0..m PROVE h[k] = (IF k = 0 THEN a ELSE g[h[k - 1]]) /\ h[k] \in D
    <3>1. k = 0 => h[k] = a
      BY <1>2, <1>4, <2>2, <2>5, <2>6
    <3>2. ASSUME k # 0 PROVE k - 1 \in 0..l /\ h[k - 1] = f[k - 1] /\ g[f[k - 1]] \in D
      <4>1. k - 1 \in 0..l /\ k - 1 \in 0..m /\ k - 1 # m
        BY <1>2, <2>1, <3>2
      <4> QED BY <2>4, <2>6, <4>1
    <3>3. ASSUME k # 0, k # m PROVE h[k] = g[f[k - 1]]
      <4>1. k \in 0..l /\ h[k] = f[k]
        BY <1>2, <2>1, <2>6, <3>3
      <4> QED BY <2>5, <3>3, <4>1
    <3>4. k = m => h[k] = g[f[k - 1]]
      BY <2>1, <2>6
    <3> QED BY <3>1, <3>2, <3>3, <3>4
  <2>8. h = [k \in 0..m |-> IF k = 0 THEN a ELSE g[h[k - 1]]] /\ h \in [0..m -> D]
    BY <2>6, <2>7
  <2> QED BY <1>2, <2>8 DEF Iterates
<1> QED BY <1>3, <1>4

\* A version is not above the entry that holds it: entries are numbered as they are written.
LEMMA VersionBound == ASSUME Typed, DocInv PROVE \A i \in 1..Len(docs) : docs[i].ver <= i
<1> DEFINE T == {i \in Nat : i \in 1..Len(docs) /\ ~(docs[i].ver <= i)}
<1> SUFFICES ASSUME T # {} PROVE FALSE
  BY DEF Typed
<1>1. PICK i \in T : \A k \in T : i <= k
  <2>1. T \in SUBSET Nat
    OBVIOUS
  <2> HIDE DEF T
  <2> QED BY <2>1, LeastElement
<1>2. PICK d \in Documents : d = docs[i]
  BY <1>1 DEF Typed
<1>3. i \in 1..Len(docs) /\ Continues(d, i) /\ d.ver \in Nat /\ d.pred \in Nat /\ ~(d.ver <= i) /\ Len(docs) \in Nat
  BY <1>1, <1>2 DEF DocInv, Documents, Typed
<1>4. d.pred # 0
  BY <1>3 DEF Continues
<1>5. d.pred \in 1..Len(docs) /\ d.pred < i /\ d.ver = docs[d.pred].ver + 1
  BY <1>3, <1>4 DEF Continues
<1>6. d.pred \notin T
  BY <1>1, <1>3, <1>5
<1>7. docs[d.pred].ver <= d.pred /\ docs[d.pred].ver \in Nat
  <2>1. docs[d.pred].ver <= d.pred
    BY <1>3, <1>5, <1>6
  <2>2. docs[d.pred] \in Documents
    BY <1>5 DEF Typed
  <2> QED BY <2>1, <2>2 DEF Documents
<1> QED BY <1>3, <1>5, <1>7

\* The walk takes the predecessor of the entry it is at.
LEMMA WalkForm ==
  ASSUME Typed, DocInv, HeadInv, NEW r \in Records, NEW w, w = Walk(r)
  PROVE  /\ w[0] = head[r].acc
         /\ \A k \in 1..Len(docs) : w[k] = IF w[k - 1] = 0 THEN 0 ELSE docs[w[k - 1]].pred
<1>1. PICK n \in Nat : n = Len(docs)
  BY DEF Typed
<1>2. PICK a \in 0..n : a = head[r].acc
  BY <1>1 DEF HeadInv, Sound, Selects
<1>3. PICK g : g = [e \in 0..n |-> IF e = 0 THEN 0 ELSE docs[e].pred]
  OBVIOUS
<1>4. g \in [0..n -> 0..n]
  <2>1. ASSUME NEW e \in 0..n, e # 0 PROVE docs[e].pred \in 0..n
    <3>1. e \in 1..Len(docs)
      BY <1>1, <2>1
    <3>2. docs[e].pred \in Nat /\ docs[e].pred < e
      <4>1. docs[e] \in Documents
        BY <3>1 DEF Typed
      <4> QED BY <3>1, <4>1 DEF Documents, DocInv, Continues
    <3> QED BY <1>1, <2>1, <3>2
  <2> QED BY <1>1, <1>3, <2>1
<1> DEFINE Step(f) == [k \in 0..n |-> IF k = 0 THEN a ELSE IF f[k - 1] = 0 THEN 0 ELSE docs[f[k - 1]].pred]
<1>5. w = CHOOSE f : f = Step(f)
  BY <1>1, <1>2 DEF Walk
<1>6. PICK f \in [0..n -> 0..n] : Iterates(f, n, a, g)
  BY <1>1, <1>2, <1>4, IterationExists
<1>7. f = Step(f)
  <2>1. f = [k \in 0..n |-> IF k = 0 THEN a ELSE g[f[k - 1]]]
    BY <1>6 DEF Iterates
  <2>2. ASSUME NEW k \in 0..n, k # 0 PROVE g[f[k - 1]] = IF f[k - 1] = 0 THEN 0 ELSE docs[f[k - 1]].pred
    <3>1. k - 1 \in 0..n
      BY <1>1, <2>2
    <3>2. f[k - 1] \in 0..n
      BY <1>6, <3>1
    <3> QED BY <1>3, <3>2
  <2>3. ASSUME NEW k \in 0..n PROVE f[k] = Step(f)[k]
    BY <2>1, <2>2
  <2>4. f \in [0..n -> 0..n] /\ Step(f) = [k \in 0..n |-> Step(f)[k]]
    BY <1>6
  <2> QED BY <2>3, <2>4
<1>8. w = Step(w)
  <2> HIDE DEF Step
  <2> QED BY <1>5, <1>7
<1>9. \A k \in 0..n : w[k] = IF k = 0 THEN a ELSE IF w[k - 1] = 0 THEN 0 ELSE docs[w[k - 1]].pred
  BY <1>8
<1> QED BY <1>1, <1>2, <1>9

\* The selected version and its predecessors are the versions n..1 of the record.
LEMMA ChainOfVersions == ASSUME Typed, DocInv, HeadInv PROVE HistoryIsChain
<1> SUFFICES ASSUME NEW r \in Records, head[r].acc # 0, NEW n, n = Version(head[r]), NEW w, w = Walk(r)
             PROVE  /\ \A k \in 0..(n - 1) : w[k] # 0 /\ docs[w[k]].rec = r /\ docs[w[k]].ver = n - k
                    /\ w[n] = 0
  BY DEF HistoryIsChain
<1>1. head[r] \in Heads /\ Selects(r, head[r]) /\ Len(docs) \in Nat
  BY DEF Typed, HeadInv, Sound
<1>2. PICK a : a = head[r].acc
  OBVIOUS
<1>3. n \in Nat /\ n > 0 /\ a \in 1..Len(docs) /\ docs[a].ver = n /\ docs[a].rec = r
  <2>1. n \in Nat /\ n # 0 /\ a \in 1..Len(docs) /\ docs[a].ver = n
    BY <1>1, <1>2, VersionOf
  <2> QED BY <1>1, <1>2, <2>1 DEF Selects
<1>4. n <= Len(docs)
  <2>1. docs[a].ver <= a
    BY <1>3, VersionBound
  <2> QED BY <1>1, <1>3, <2>1
<1>5. w[0] = a /\ \A k \in 1..Len(docs) : w[k] = IF w[k - 1] = 0 THEN 0 ELSE docs[w[k - 1]].pred
  BY <1>2, WalkForm
<1> DEFINE Good(k) == w[k] \in 1..Len(docs) /\ docs[w[k]].rec = r /\ docs[w[k]].ver = n - k
           T == {k \in Nat : k <= n - 1 /\ ~Good(k)}
\* Two entries one after the other
<1>6. ASSUME NEW k \in Nat, k <= n - 1, Good(k)
      PROVE  /\ w[k + 1] = docs[w[k]].pred
             /\ k + 1 <= n - 1 => Good(k + 1)
             /\ k + 1 = n => w[n] = 0
  <2>1. PICK e \in 1..Len(docs) : e = w[k]
    BY <1>6
  <2>2. PICK d \in Documents : d = docs[e]
    BY <2>1 DEF Typed
  <2>3. Continues(d, e) /\ d.ver = n - k /\ d.rec = r /\ d.pred \in Nat
    BY <1>6, <2>1, <2>2 DEF DocInv, Documents
  <2>4. PICK j : j = k + 1
    OBVIOUS
  <2>5. j \in 1..Len(docs) /\ j - 1 = k
    BY <1>1, <1>3, <1>4, <1>6, <2>4
  <2>6. w[j] = d.pred
    <3>1. e # 0
      BY <2>1
    <3> QED BY <1>5, <2>1, <2>2, <2>5, <3>1
  <2>7. ASSUME j <= n - 1 PROVE Good(j)
    <3>1. d.ver # 1 /\ n - j = d.ver - 1
      BY <1>3, <1>6, <2>3, <2>4, <2>7
    <3>2. d.pred # 0 /\ docs[d.pred].rec = d.rec /\ d.ver = docs[d.pred].ver + 1 /\ d.pred < e
      BY <2>3, <3>1 DEF Continues
    <3>3. d.pred \in 1..Len(docs)
      BY <1>1, <2>1, <2>3, <3>2
    <3>4. docs[d.pred].ver \in Nat
      <4>1. docs[d.pred] \in Documents
        BY <3>3 DEF Typed
      <4> QED BY <4>1 DEF Documents
    <3> QED BY <2>3, <2>6, <3>1, <3>2, <3>3, <3>4
  <2>8. ASSUME j = n PROVE w[n] = 0
    <3>1. d.ver = 1
      BY <1>3, <1>6, <2>3, <2>4, <2>8
    <3>2. CASE d.pred # 0
      <4>1. d.ver = docs[d.pred].ver + 1 /\ d.pred < e
        BY <2>3, <3>2 DEF Continues
      <4>2. d.pred \in 1..Len(docs)
        BY <1>1, <2>1, <2>3, <3>2, <4>1
      <4>3. docs[d.pred] \in Documents /\ docs[d.pred].ver > 0
        BY <4>2 DEF Typed, DocInv, Continues
      <4>4. docs[d.pred].ver \in Nat
        BY <4>3 DEF Documents
      <4> QED BY <3>1, <4>1, <4>3, <4>4
    <3> QED BY <2>6, <2>8, <3>2
  <2> HIDE DEF Good
  <2> QED BY <2>1, <2>2, <2>4, <2>6, <2>7, <2>8
<1>7. Good(0)
  BY <1>3, <1>5
<1>8. T = {}
  <2> SUFFICES ASSUME T # {} PROVE FALSE
    OBVIOUS
  <2>1. T \in SUBSET Nat
    OBVIOUS
  <2>2. PICK m \in T : \A k \in T : m <= k
    <3> HIDE DEF T
    <3> QED BY <2>1, LeastElement
  <2> HIDE DEF Good
  <2>3. m \in Nat /\ m <= n - 1 /\ ~Good(m)
    BY <2>2
  <2>4. m # 0
    BY <1>7, <2>3
  <2>5. PICK k \in Nat : m = k + 1
    BY <2>3, <2>4
  <2>6. k <= n - 1 /\ k \notin T
    BY <1>3, <2>2, <2>3, <2>5
  <2>7. Good(k)
    BY <2>5, <2>6
  <2> QED BY <1>6, <2>3, <2>5, <2>6, <2>7
<1>9. \A k \in 0..(n - 1) : Good(k)
  <2> HIDE DEF Good
  <2> QED BY <1>3, <1>8
<1>10. w[n] = 0
  <2>1. PICK k \in Nat : n = k + 1
    BY <1>3
  <2>2. k <= n - 1 /\ k \in 0..(n - 1)
    BY <1>3, <2>1
  <2> HIDE DEF Good
  <2> QED BY <1>6, <1>9, <2>1, <2>2
<1> QED BY <1>9, <1>10

-----------------------------------------------------------------------------
(* The theorems *)

\* The invariant holds in every reachable state.
LEMMA RecordHolds == ASSUME RecordStoreAssumption PROVE Spec => []RecordInv
<1>1. Init => RecordInv
  BY RecordInit
<1>2. RecordInv /\ [Next]_vars => RecordInv'
  BY RecordStep
<1> QED BY <1>1, <1>2, PTL DEF Spec

\* No operation publishes a head that the next read refuses: openings, edits, discards,
\* acceptances, template initializations, deaths in the middle of them and repair included.
THEOREM RecordsStayReadable == ASSUME RecordStoreAssumption PROVE Spec => []HeadsParse
<1>1. RecordInv => HeadsParse
  BY DEF RecordInv, HeadInv, Sound, HeadsParse
<1> QED BY <1>1, RecordHolds, PTL

\* The predecessors of the version a record selects are its versions n..1, whatever entries
\* a dead process left behind and after repair selected the previous head.
THEOREM RecordHistoryIsWhole == ASSUME RecordStoreAssumption PROVE Spec => []HistoryIsChain
<1>1. RecordInv => HistoryIsChain
  BY ChainOfVersions DEF RecordInv
<1> QED BY <1>1, RecordHolds, PTL

\* What a record has accepted was handed to a mutation of that record: no rendered template
\* and no empty draft of a node is ever closed as its content.
THEOREM AcceptanceIsAuthored == ASSUME RecordStoreAssumption PROVE Spec => []AcceptedIsAuthored
<1>1. RecordInv => AcceptedIsAuthored
  BY DEF RecordInv, HeadInv, Sound, Selects, AcceptedIsAuthored
<1> QED BY <1>1, RecordHolds, PTL

\* A mutation that was admitted passes every later check of the store: no writer finds its
\* record opened, closed or unchanged by another one between its admission and its write,
\* but for a node whose draft the late discard of an abandoned execution took.
THEOREM AdmissionSuffices == ASSUME RecordStoreAssumption PROVE Spec => []NoFault
<1>1. RecordInv => NoFault
  BY DEF RecordInv, NoFault
<1> QED BY <1>1, RecordHolds, PTL

\* A node that passes a clean requirement, under either gate, leaves a newer version of the
\* record than the one it started from, unless an abandoned execution discarded a draft
\* under it.
THEOREM CleanNodeIsNew == ASSUME RecordStoreAssumption PROVE Spec => []CleanIsNew
<1>1. RecordInv => CleanIsNew
  BY DEF RecordInv, PassInv, CleanIsNew
<1> QED BY <1>1, RecordHolds, PTL

\* Acceptances of the Analyst and of other cards' agents never replace or drop the draft a
\* workflow has open, the text a fetch returned with late included.
THEOREM OpenDraftsAreKept == ASSUME RecordStoreAssumption PROVE Spec => [][DraftsAreKept]_vars
<1>1. RecordInv /\ [Next]_vars => [DraftsAreKept]_vars
  BY RecordStep
<1> QED BY <1>1, RecordHolds, PTL DEF Spec

\* While the process runs, and when it dies, no record goes back to an earlier version.
THEOREM VersionsGoForward == ASSUME RecordStoreAssumption PROVE Spec => [][AcceptedNeverGoesBack]_vars
<1>1. Forward => \A r \in Records : Version(head[r]) <= (IF head'[r].acc = 0 THEN 0 ELSE docs'[head'[r].acc].ver)
  BY DEF Forward, Version
<1>2. RecordInv /\ [Next]_vars => [AcceptedNeverGoesBack]_vars
  BY <1>1, RecordStep DEF AcceptedNeverGoesBack
<1> QED BY <1>2, RecordHolds, PTL DEF Spec
=============================================================================
