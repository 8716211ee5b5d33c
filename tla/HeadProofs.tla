----------------------------- MODULE HeadProofs -----------------------------
(* The publication of a head survives every failing call, process death and    *)
(* power loss, for any number of publications and of damages to the medium.    *)
(* Without damage the current slot is readable, never older than what was      *)
(* acknowledged, and one durable register; with damage, repair loses at most   *)
(* the newest version.                                                         *)
EXTENDS HeadPublication, TLAPS

\* Where a publication is: in its document, then in its head.
Phases == {"doc", "docrename", "docsync", "unlink", "link", "slotsync", "head", "rename", "headsync"}
DocPhases == {"doc", "docrename", "docsync"}

SlotPairs == [cur : Nat, prev : Nat]
HeadFiles == [ver : Nat, ord : Nat, queue : SUBSET Nat]

\* Types, and how the sets of synchronised and named files nest.
HeadType ==
  /\ files \in Seq(HeadFiles)
  /\ pred \in Seq(Nat) /\ Len(pred) = Len(files)
  /\ log \in Seq(SlotPairs) /\ log # <<>>
  /\ docsStable \subseteq docs /\ docs \subseteq docsSynced
  /\ docsSynced \subseteq 1..Len(files) /\ synced \subseteq 1..Len(files)
  /\ pc \in Phases \cup {"new", "idle", "down", "gone"} /\ mode \in {"initial", "replacement"}
  /\ acked \in Nat /\ damage \in Nat /\ damage <= Damages

\* What the two slots may be after a power loss.
Entries == {log[i] : i \in 1..Len(log)}

\* Damage and power loss reach only files that exist.
BadInv ==
  \A f \in Nat : <<"head", f>> \in bad \/ <<"doc", f>> \in bad => f \in 1..Len(files)

\* A head a slot names, in any state a power loss may leave, was synchronised after
\* the directory of every document it selects.
Kept(f) == f \in 1..Len(files) /\ f \in synced /\ Selects(f) \subseteq docsStable
SlotInv ==
  \A s \in Entries : /\ s.cur # None => Kept(s.cur)
                     /\ s.prev # None => Kept(s.prev)

\* The predecessor of a document with a name was synchronised before it.
HistoryInv == \A k \in docs : pred[k] # None => pred[k] \in docsStable

\* What a publication in progress has behind it.
PhaseInv ==
  /\ pc = "new" => files = <<>> /\ Entries = {Slots(None, None)} /\ acked = 0 /\ bad = {}
  /\ pc \in {"idle", "down"} => cur # None
  /\ pc \in Phases => new > 0 /\ <<"head", new>> \notin bad /\ \A d \in Selects(new) : <<"doc", d>> \notin bad
  /\ pc \in Phases /\ mode = "replacement" => cur # None
  /\ pc \in DocPhases => /\ Selects(new) \subseteq docsStable \cup {new} /\ new \in Selects(new)
                         /\ pred[new] # None => pred[new] \in docsStable
  /\ pc = "docrename" => new \in docsSynced
  /\ pc = "docsync" => new \in docs
  /\ pc \in Phases \ DocPhases => Selects(new) \subseteq docsStable
  /\ pc \in {"rename", "headsync"} => new \in synced
  /\ pc = "headsync" => cur = new

\* Until the medium damages something, what was synchronised is whole, and no slot
\* names less than what was acknowledged.
WholeInv ==
  damage = Damages =>
    /\ \A f \in synced : <<"head", f>> \notin bad
    /\ \A d \in docsSynced : <<"doc", d>> \notin bad
    /\ \A s \in Entries :
         /\ acked > 0 => s.cur # None /\ files[s.cur].ver >= acked
         /\ s.prev # None => s.cur # None /\ files[s.prev].ver <= files[s.cur].ver
    /\ pc \in Phases /\ cur # None => files[cur].ver <= files[new].ver

\* A slot that is still whole is at most one version behind what was acknowledged.
Intact(f) == <<"head", f>> \notin bad /\ \A d \in Selects(f) : <<"doc", d>> \notin bad
Recent(f, v) == f # None /\ Intact(f) => files[f].ver + 1 >= v
LossInv ==
  /\ \A s \in Entries : Recent(s.cur, acked) /\ Recent(s.prev, acked)
  /\ pc \in Phases => files[new].ver + 1 >= acked
  /\ pc \in DocPhases \cup {"unlink", "link"} => Recent(cur, files[new].ver)
  /\ pc \in {"slotsync", "head", "rename", "headsync"} => Recent(prev, files[new].ver)

\* The inductive invariant.
HeadInv == HeadType /\ BadInv /\ SlotInv /\ HistoryInv /\ PhaseInv /\ WholeInv /\ LossInv

-----------------------------------------------------------------------------
(* The log of name changes and the files, as the invariant sees them *)

\* The slots as a reader sees them are the last entry of the log.
LEMMA LogView ==
  ASSUME log \in Seq(SlotPairs), log # <<>>
  PROVE  /\ Entries \subseteq SlotPairs /\ cur \in Nat /\ prev \in Nat
         /\ log[Len(log)] \in Entries /\ log[Len(log)] = Slots(cur, prev)
         /\ \A i \in 1..Len(log) : log[i] \in Entries
<1>1. Len(log) \in Nat /\ Len(log) \in 1..Len(log) /\ \A i \in 1..Len(log) : log[i] \in SlotPairs
  OBVIOUS
<1>2. Entries \subseteq SlotPairs /\ \A i \in 1..Len(log) : log[i] \in Entries
  BY <1>1 DEF Entries
<1>3. PICK e \in SlotPairs : e = log[Len(log)]
  BY <1>1
<1>4. cur = e.cur /\ prev = e.prev /\ e = Slots(e.cur, e.prev) /\ e.cur \in Nat /\ e.prev \in Nat
  BY <1>3 DEF SlotPairs, cur, prev, Slots
<1> QED BY <1>1, <1>2, <1>3, <1>4

\* A name change adds an entry, which is what readers see from then on.
LEMMA LogAppend ==
  ASSUME log \in Seq(SlotPairs), log # <<>>, NEW c \in Nat, NEW p \in Nat,
         log' = Append(log, Slots(c, p))
  PROVE  /\ log' \in Seq(SlotPairs) /\ log' # <<>>
         /\ Entries' = Entries \cup {Slots(c, p)} /\ cur' = c /\ prev' = p
<1> DEFINE e == Slots(c, p)
<1>1. e \in SlotPairs /\ e.cur = c /\ e.prev = p
  BY DEF Slots, SlotPairs
<1> HIDE DEF e
<1>2. /\ Len(log') = Len(log) + 1 /\ Len(log) \in Nat /\ log' \in Seq(SlotPairs) /\ log' # <<>>
      /\ \A i \in 1..Len(log) : log'[i] = log[i]
      /\ log'[Len(log) + 1] = e
  BY <1>1 DEF e
<1>3. Entries' = Entries \cup {e}
  BY <1>2 DEF Entries
<1>4. cur' = c /\ prev' = p
  BY <1>1, <1>2 DEF cur, prev
<1> QED BY <1>2, <1>3, <1>4 DEF e

\* A synchronisation, and a power loss, leave one entry.
LEMMA LogSingle ==
  ASSUME NEW e \in SlotPairs, log' = <<e>>
  PROVE  /\ log' \in Seq(SlotPairs) /\ log' # <<>> /\ Len(log') = 1
         /\ Entries' = {e} /\ cur' = e.cur /\ prev' = e.prev
<1>1. log' \in Seq(SlotPairs) /\ log' # <<>> /\ Len(log') = 1 /\ log'[1] = e
  OBVIOUS
<1> QED BY <1>1 DEF Entries, cur, prev

\* Nothing else changes what the slots are.
LEMMA LogSame ==
  ASSUME UNCHANGED log
  PROVE  Entries' = Entries /\ cur' = cur /\ prev' = prev
<1>1. cur' = cur /\ prev' = prev
  BY DEF cur, prev
<1>2. Entries' = Entries
  BY Zenon DEF Entries
<1> QED BY <1>1, <1>2

\* A new head leaves the earlier ones, and the documents they select, as they were.
LEMMA FilesAppend ==
  ASSUME files \in Seq(HeadFiles), pred \in Seq(Nat), Len(pred) = Len(files),
         NEW h \in HeadFiles, NEW q \in Nat,
         files' = Append(files, h), pred' = Append(pred, q)
  PROVE  /\ files' \in Seq(HeadFiles) /\ pred' \in Seq(Nat) /\ Len(pred') = Len(files')
         /\ Len(files') = Len(files) + 1 /\ new' = Len(files) + 1 /\ Len(files) \in Nat
         /\ files'[new'] = h /\ Selects(new)' = {h.ord} \cup h.queue /\ pred'[new'] = q
         /\ \A f \in 1..Len(files) : /\ files'[f] = files[f] /\ pred'[f] = pred[f]
                                     /\ Selects(f)' = Selects(f)
BY DEF Selects, new

\* No other step changes which head is the newest or what a head selects.
LEMMA FilesSame ==
  ASSUME UNCHANGED files
  PROVE  new' = new /\ \A f : Selects(f)' = Selects(f)
BY DEF Selects, new

-----------------------------------------------------------------------------
(* Every step keeps the invariant *)

\* What the invariant says of the slots a reader sees.
LEMMA Seen ==
  ASSUME HeadType, SlotInv
  PROVE  /\ Entries \subseteq SlotPairs /\ cur \in Nat /\ prev \in Nat
         /\ new \in Nat /\ new = Len(files)
         /\ Slots(cur, prev) \in Entries
         /\ Slots(cur, prev).cur = cur /\ Slots(cur, prev).prev = prev
         /\ cur # None => Kept(cur)
         /\ prev # None => Kept(prev)
         /\ \A f \in 1..new : /\ files[f].ver \in Nat /\ files[f].ord \in Nat
                             /\ Selects(f) \subseteq Nat /\ pred[f] \in Nat
<1>1. /\ Entries \subseteq SlotPairs /\ cur \in Nat /\ prev \in Nat /\ Slots(cur, prev) \in Entries
  BY LogView DEF HeadType
<1>2. Slots(cur, prev).cur = cur /\ Slots(cur, prev).prev = prev
  BY DEF Slots
<1>3. \A f \in 1..new : files[f] \in HeadFiles /\ pred[f] \in Nat
  BY DEF HeadType, new
<1>4. new \in Nat /\ new = Len(files)
  BY DEF HeadType, new
<1>5. \A f \in 1..new : files[f].ver \in Nat /\ files[f].ord \in Nat /\ Selects(f) \subseteq Nat
  BY <1>3 DEF HeadFiles, Selects
<1>6. (cur # None => Kept(cur)) /\ (prev # None => Kept(prev))
  BY <1>1, <1>2 DEF SlotInv
<1> QED BY <1>1, <1>2, <1>3, <1>4, <1>5, <1>6

\* The document of the new head is synchronised before it has a name,
LEMMA WriteDocKeeps ==
  ASSUME HeadInv, WriteDoc
  PROVE  HeadInv'
<1> USE DEF HeadInv, None
<1> USE Seen
<1>1. Entries' = Entries /\ cur' = cur /\ prev' = prev
  BY LogSame DEF WriteDoc
<1>2. new' = new /\ \A f : Selects(f)' = Selects(f)
  BY FilesSame DEF WriteDoc
<1>3. new \in 1..Len(files)
  BY DEF WriteDoc, PhaseInv, Phases, DocPhases
<1>HeadType. HeadType'
  BY <1>1, <1>2, <1>3 DEF WriteDoc, HeadType, PhaseInv, Phases, DocPhases
<1>BadInv. BadInv'
  BY <1>1, <1>2, <1>3 DEF WriteDoc, HeadType, BadInv
<1>SlotInv. SlotInv'
  BY <1>1, <1>2, <1>3 DEF WriteDoc, HeadType, SlotInv, Kept
<1>HistoryInv. HistoryInv'
  BY <1>1, <1>2, <1>3 DEF WriteDoc, HeadType, HistoryInv, PhaseInv, Phases, DocPhases
<1>PhaseInv. PhaseInv'
  BY <1>1, <1>2, <1>3 DEF WriteDoc, HeadType, BadInv, PhaseInv, Kept, Phases, DocPhases
<1>WholeInv. WholeInv'
  BY <1>1, <1>2, <1>3 DEF WriteDoc, HeadType, BadInv, SlotInv, PhaseInv, WholeInv, Kept, Phases,
     DocPhases
<1>LossInv. LossInv'
  BY <1>1, <1>2, <1>3 DEF WriteDoc, HeadType, SlotInv, PhaseInv, LossInv, Recent, Intact, Kept,
     Phases, DocPhases
<1> QED BY <1>HeadType, <1>BadInv, <1>SlotInv, <1>HistoryInv, <1>PhaseInv, <1>WholeInv, <1>LossInv

\* its predecessor was stable before it,
LEMMA RenameDocKeeps ==
  ASSUME HeadInv, RenameDoc
  PROVE  HeadInv'
<1> USE DEF HeadInv, None
<1> USE Seen
<1>1. Entries' = Entries /\ cur' = cur /\ prev' = prev
  BY LogSame DEF RenameDoc
<1>2. new' = new /\ \A f : Selects(f)' = Selects(f)
  BY FilesSame DEF RenameDoc
<1>HeadType. HeadType'
  BY <1>1, <1>2 DEF RenameDoc, HeadType, PhaseInv, Phases, DocPhases
<1>BadInv. BadInv'
  BY <1>1, <1>2 DEF RenameDoc, HeadType, BadInv
<1>SlotInv. SlotInv'
  BY <1>1, <1>2 DEF RenameDoc, HeadType, SlotInv, Kept
<1>HistoryInv. HistoryInv'
  BY <1>1, <1>2 DEF RenameDoc, HeadType, HistoryInv, PhaseInv, Phases, DocPhases
<1>PhaseInv. PhaseInv'
  BY <1>1, <1>2 DEF RenameDoc, HeadType, BadInv, PhaseInv, Kept, Phases, DocPhases
<1>WholeInv. WholeInv'
  BY <1>1, <1>2 DEF RenameDoc, HeadType, BadInv, SlotInv, PhaseInv, WholeInv, Kept, Phases,
     DocPhases
<1>LossInv. LossInv'
  BY <1>1, <1>2 DEF RenameDoc, HeadType, SlotInv, PhaseInv, LossInv, Recent, Intact, Kept, Phases,
     DocPhases
<1> QED BY <1>HeadType, <1>BadInv, <1>SlotInv, <1>HistoryInv, <1>PhaseInv, <1>WholeInv, <1>LossInv

\* and from here on every document the new head selects is stable.
LEMMA SyncDocKeeps ==
  ASSUME HeadInv, SyncDoc
  PROVE  HeadInv'
<1> USE DEF HeadInv, None
<1> USE Seen
<1>1. Entries' = Entries /\ cur' = cur /\ prev' = prev
  BY LogSame DEF SyncDoc
<1>2. new' = new /\ \A f : Selects(f)' = Selects(f)
  BY FilesSame DEF SyncDoc
<1>HeadType. HeadType'
  BY <1>1, <1>2 DEF SyncDoc, HeadType, PhaseInv, Phases, DocPhases
<1>BadInv. BadInv'
  BY <1>1, <1>2 DEF SyncDoc, HeadType, BadInv
<1>SlotInv. SlotInv'
  BY <1>1, <1>2 DEF SyncDoc, HeadType, SlotInv, Kept
<1>HistoryInv. HistoryInv'
  BY <1>1, <1>2 DEF SyncDoc, HeadType, HistoryInv, PhaseInv, Phases, DocPhases
<1>PhaseInv. PhaseInv'
  BY <1>1, <1>2 DEF SyncDoc, HeadType, BadInv, PhaseInv, Kept, Phases, DocPhases
<1>WholeInv. WholeInv'
  BY <1>1, <1>2 DEF SyncDoc, HeadType, BadInv, SlotInv, PhaseInv, WholeInv, Kept, Phases, DocPhases
<1>LossInv. LossInv'
  BY <1>1, <1>2 DEF SyncDoc, HeadType, SlotInv, PhaseInv, LossInv, Recent, Intact, Kept, Phases,
     DocPhases
<1> QED BY <1>HeadType, <1>BadInv, <1>SlotInv, <1>HistoryInv, <1>PhaseInv, <1>WholeInv, <1>LossInv

\* The new head is synchronised before the rename.
LEMMA WriteHeadKeeps ==
  ASSUME HeadInv, WriteHead
  PROVE  HeadInv'
<1> USE DEF HeadInv, None
<1> USE Seen
<1>1. Entries' = Entries /\ cur' = cur /\ prev' = prev
  BY LogSame DEF WriteHead
<1>2. new' = new /\ \A f : Selects(f)' = Selects(f)
  BY FilesSame DEF WriteHead
<1>3. new \in 1..Len(files)
  BY DEF WriteHead, PhaseInv, Phases, DocPhases
<1>HeadType. HeadType'
  BY <1>1, <1>2, <1>3 DEF WriteHead, HeadType, PhaseInv, Phases, DocPhases
<1>BadInv. BadInv'
  BY <1>1, <1>2, <1>3 DEF WriteHead, HeadType, BadInv
<1>SlotInv. SlotInv'
  BY <1>1, <1>2, <1>3 DEF WriteHead, HeadType, SlotInv, Kept
<1>HistoryInv. HistoryInv'
  BY <1>1, <1>2, <1>3 DEF WriteHead, HeadType, HistoryInv, PhaseInv, Phases, DocPhases
<1>PhaseInv. PhaseInv'
  BY <1>1, <1>2, <1>3 DEF WriteHead, HeadType, BadInv, PhaseInv, Kept, Phases, DocPhases
<1>WholeInv. WholeInv'
  BY <1>1, <1>2, <1>3 DEF WriteHead, HeadType, BadInv, SlotInv, PhaseInv, WholeInv, Kept, Phases,
     DocPhases
<1>LossInv. LossInv'
  BY <1>1, <1>2, <1>3 DEF WriteHead, HeadType, SlotInv, PhaseInv, LossInv, Recent, Intact, Kept,
     Phases, DocPhases
<1> QED BY <1>HeadType, <1>BadInv, <1>SlotInv, <1>HistoryInv, <1>PhaseInv, <1>WholeInv, <1>LossInv

\* A call that fails leaves the slots as they were; a first publication is abandoned.
LEMMA CallFailsKeeps ==
  ASSUME HeadInv, CallFails
  PROVE  HeadInv'
<1> USE DEF HeadInv, None
<1> USE Seen
<1>1. Entries' = Entries /\ cur' = cur /\ prev' = prev
  BY LogSame DEF CallFails
<1>2. new' = new /\ \A f : Selects(f)' = Selects(f)
  BY FilesSame DEF CallFails
<1>HeadType. HeadType'
  BY <1>1, <1>2 DEF CallFails, HeadType, PhaseInv, Phases, DocPhases
<1>BadInv. BadInv'
  BY <1>1, <1>2 DEF CallFails, HeadType, BadInv
<1>SlotInv. SlotInv'
  BY <1>1, <1>2 DEF CallFails, HeadType, SlotInv, Kept
<1>HistoryInv. HistoryInv'
  BY <1>1, <1>2 DEF CallFails, HeadType, HistoryInv, PhaseInv, Phases, DocPhases
<1>PhaseInv. PhaseInv'
  BY <1>1, <1>2 DEF CallFails, HeadType, BadInv, PhaseInv, Kept, Phases, DocPhases
<1>WholeInv. WholeInv'
  BY <1>1, <1>2 DEF CallFails, HeadType, BadInv, SlotInv, PhaseInv, WholeInv, Kept, Phases,
     DocPhases
<1>LossInv. LossInv'
  BY <1>1, <1>2 DEF CallFails, HeadType, SlotInv, PhaseInv, LossInv, Recent, Intact, Kept, Phases,
     DocPhases
<1> QED BY <1>HeadType, <1>BadInv, <1>SlotInv, <1>HistoryInv, <1>PhaseInv, <1>WholeInv, <1>LossInv

\* A process death changes no name and no byte.
LEMMA CrashKeeps ==
  ASSUME HeadInv, Crash
  PROVE  HeadInv'
<1> USE DEF HeadInv, None
<1> USE Seen
<1>1. Entries' = Entries /\ cur' = cur /\ prev' = prev
  BY LogSame DEF Crash
<1>2. new' = new /\ \A f : Selects(f)' = Selects(f)
  BY FilesSame DEF Crash
<1>HeadType. HeadType'
  BY <1>1, <1>2 DEF Crash, HeadType, PhaseInv, Phases, DocPhases
<1>BadInv. BadInv'
  BY <1>1, <1>2 DEF Crash, HeadType, BadInv
<1>SlotInv. SlotInv'
  BY <1>1, <1>2 DEF Crash, HeadType, SlotInv, Kept
<1>HistoryInv. HistoryInv'
  BY <1>1, <1>2 DEF Crash, HeadType, HistoryInv, PhaseInv, Phases, DocPhases
<1>PhaseInv. PhaseInv'
  BY <1>1, <1>2 DEF Crash, HeadType, BadInv, PhaseInv, Kept, Phases, DocPhases
<1>WholeInv. WholeInv'
  BY <1>1, <1>2 DEF Crash, HeadType, BadInv, SlotInv, PhaseInv, WholeInv, Kept, Phases, DocPhases
<1>LossInv. LossInv'
  BY <1>1, <1>2 DEF Crash, HeadType, SlotInv, PhaseInv, LossInv, Recent, Intact, Kept, Phases,
     DocPhases
<1> QED BY <1>HeadType, <1>BadInv, <1>SlotInv, <1>HistoryInv, <1>PhaseInv, <1>WholeInv, <1>LossInv

\* A restart finds a current head, since a store without one is abandoned.
LEMMA RestartKeeps ==
  ASSUME HeadInv, Restart
  PROVE  HeadInv'
<1> USE DEF HeadInv, None
<1> USE Seen
<1>1. Entries' = Entries /\ cur' = cur /\ prev' = prev
  BY LogSame DEF Restart
<1>2. new' = new /\ \A f : Selects(f)' = Selects(f)
  BY FilesSame DEF Restart
<1>HeadType. HeadType'
  BY <1>1, <1>2 DEF Restart, HeadType, PhaseInv, Phases, DocPhases
<1>BadInv. BadInv'
  BY <1>1, <1>2 DEF Restart, HeadType, BadInv
<1>SlotInv. SlotInv'
  BY <1>1, <1>2 DEF Restart, HeadType, SlotInv, Kept
<1>HistoryInv. HistoryInv'
  BY <1>1, <1>2 DEF Restart, HeadType, HistoryInv, PhaseInv, Phases, DocPhases
<1>PhaseInv. PhaseInv'
  BY <1>1, <1>2 DEF Restart, HeadType, BadInv, PhaseInv, Kept, Phases, DocPhases
<1>WholeInv. WholeInv'
  BY <1>1, <1>2 DEF Restart, HeadType, BadInv, SlotInv, PhaseInv, WholeInv, Kept, Phases, DocPhases
<1>LossInv. LossInv'
  BY <1>1, <1>2 DEF Restart, HeadType, SlotInv, PhaseInv, LossInv, Recent, Intact, Kept, Phases,
     DocPhases
<1> QED BY <1>HeadType, <1>BadInv, <1>SlotInv, <1>HistoryInv, <1>PhaseInv, <1>WholeInv, <1>LossInv

\* The entry the unlink adds names the current head only.
LEMMA UnlinkPreviousKeeps ==
  ASSUME HeadInv, UnlinkPrevious
  PROVE  HeadInv'
<1> USE DEF HeadInv, None
<1> USE Seen
<1>2. new' = new /\ \A f : Selects(f)' = Selects(f)
  BY FilesSame DEF UnlinkPrevious

<1>1. /\ log' \in Seq(SlotPairs) /\ log' # <<>> /\ cur' = cur /\ prev' = None
      /\ Entries' \subseteq Entries \cup {Slots(cur, None)} /\ Slots(cur, None) \in Entries'
      /\ Slots(cur, None).cur = cur /\ Slots(cur, None).prev = None
  <2>1. CASE prev = None
    BY <2>1, LogSame DEF UnlinkPrevious, HeadType, Slots
  <2>2. CASE prev # None
    BY <2>2, LogAppend DEF UnlinkPrevious, HeadType, Slots
  <2> QED BY <2>1, <2>2
<1>HeadType. HeadType'
  BY <1>1, <1>2 DEF UnlinkPrevious, HeadType, PhaseInv, Phases, DocPhases
<1>BadInv. BadInv'
  BY <1>1, <1>2 DEF UnlinkPrevious, HeadType, BadInv
<1>SlotInv. SlotInv'
  BY <1>1, <1>2 DEF UnlinkPrevious, HeadType, SlotInv, Kept
<1>HistoryInv. HistoryInv'
  BY <1>1, <1>2 DEF UnlinkPrevious, HeadType, HistoryInv, PhaseInv, Phases, DocPhases
<1>PhaseInv. PhaseInv'
  BY <1>1, <1>2 DEF UnlinkPrevious, HeadType, BadInv, PhaseInv, Kept, Phases, DocPhases
<1>WholeInv. WholeInv'
  BY <1>1, <1>2 DEF UnlinkPrevious, HeadType, BadInv, SlotInv, PhaseInv, WholeInv, Kept, Phases,
     DocPhases
<1>LossInv. LossInv'
  BY <1>1, <1>2 DEF UnlinkPrevious, HeadType, SlotInv, PhaseInv, LossInv, Recent, Intact, Kept,
     Phases, DocPhases
<1> QED BY <1>HeadType, <1>BadInv, <1>SlotInv, <1>HistoryInv, <1>PhaseInv, <1>WholeInv, <1>LossInv

\* The entry the link adds names the current head twice.
LEMMA LinkPreviousKeeps ==
  ASSUME HeadInv, LinkPrevious
  PROVE  HeadInv'
<1> USE DEF HeadInv, None
<1> USE Seen
<1>2. new' = new /\ \A f : Selects(f)' = Selects(f)
  BY FilesSame DEF LinkPrevious

<1>1. /\ log' \in Seq(SlotPairs) /\ log' # <<>> /\ cur' = cur /\ prev' = cur
      /\ Entries' = Entries \cup {Slots(cur, cur)}
      /\ Slots(cur, cur).cur = cur /\ Slots(cur, cur).prev = cur
  BY LogAppend DEF LinkPrevious, HeadType, Slots
<1>HeadType. HeadType'
  BY <1>1, <1>2 DEF LinkPrevious, HeadType, PhaseInv, Phases, DocPhases
<1>BadInv. BadInv'
  BY <1>1, <1>2 DEF LinkPrevious, HeadType, BadInv
<1>SlotInv. SlotInv'
  BY <1>1, <1>2 DEF LinkPrevious, HeadType, SlotInv, Kept
<1>HistoryInv. HistoryInv'
  BY <1>1, <1>2 DEF LinkPrevious, HeadType, HistoryInv, PhaseInv, Phases, DocPhases
<1>PhaseInv. PhaseInv'
  BY <1>1, <1>2 DEF LinkPrevious, HeadType, BadInv, PhaseInv, Kept, Phases, DocPhases
<1>WholeInv. WholeInv'
  <2>1. damage = Damages /\ acked > 0 => cur # None /\ files[cur].ver >= acked
    BY DEF WholeInv
  <2>2. cur # None => files[cur].ver \in Nat
    BY DEF Kept
  <2>3. UNCHANGED <<files, synced, docsSynced, bad, acked, damage>> /\ pc = "link"
    BY DEF LinkPrevious
  <2> QED BY <1>1, <1>2, <2>1, <2>2, <2>3 DEF WholeInv, Phases
<1>LossInv. LossInv'
  BY <1>1, <1>2 DEF LinkPrevious, HeadType, SlotInv, PhaseInv, LossInv, Recent, Intact, Kept,
     Phases, DocPhases
<1> QED BY <1>HeadType, <1>BadInv, <1>SlotInv, <1>HistoryInv, <1>PhaseInv, <1>WholeInv, <1>LossInv

\* The synchronised entry is the one readers see.
LEMMA SyncSlotsKeeps ==
  ASSUME HeadInv, SyncSlots
  PROVE  HeadInv'
<1> USE DEF HeadInv, None
<1> USE Seen
<1>2. new' = new /\ \A f : Selects(f)' = Selects(f)
  BY FilesSame DEF SyncSlots

<1>1. /\ log' \in Seq(SlotPairs) /\ log' # <<>> /\ cur' = cur /\ prev' = prev
      /\ Entries' = {Slots(cur, prev)}
  BY LogView, LogSingle DEF SyncSlots, HeadType
<1>HeadType. HeadType'
  BY <1>1, <1>2 DEF SyncSlots, HeadType, PhaseInv, Phases, DocPhases
<1>BadInv. BadInv'
  BY <1>1, <1>2 DEF SyncSlots, HeadType, BadInv
<1>SlotInv. SlotInv'
  BY <1>1, <1>2 DEF SyncSlots, HeadType, SlotInv, Kept
<1>HistoryInv. HistoryInv'
  BY <1>1, <1>2 DEF SyncSlots, HeadType, HistoryInv, PhaseInv, Phases, DocPhases
<1>PhaseInv. PhaseInv'
  BY <1>1, <1>2 DEF SyncSlots, HeadType, BadInv, PhaseInv, Kept, Phases, DocPhases
<1>WholeInv. WholeInv'
  BY <1>1, <1>2 DEF SyncSlots, HeadType, BadInv, SlotInv, PhaseInv, WholeInv, Kept, Phases,
     DocPhases
<1>LossInv. LossInv'
  BY <1>1, <1>2 DEF SyncSlots, HeadType, SlotInv, PhaseInv, LossInv, Recent, Intact, Kept, Phases,
     DocPhases
<1> QED BY <1>HeadType, <1>BadInv, <1>SlotInv, <1>HistoryInv, <1>PhaseInv, <1>WholeInv, <1>LossInv

\* What is acknowledged is the entry just synchronised, and the head before it was the
\* current one when the publication began.
LEMMA SyncHeadKeeps ==
  ASSUME HeadInv, SyncHead
  PROVE  HeadInv'
<1> USE DEF HeadInv, None
<1> USE Seen
<1>2. new' = new /\ \A f : Selects(f)' = Selects(f)
  BY FilesSame DEF SyncHead

<1>1. /\ log' \in Seq(SlotPairs) /\ log' # <<>> /\ cur' = cur /\ prev' = prev
      /\ Entries' = {Slots(cur, prev)}
  BY LogView, LogSingle DEF SyncHead, HeadType
<1>HeadType. HeadType'
  BY <1>1, <1>2 DEF SyncHead, HeadType, PhaseInv, Phases, DocPhases
<1>BadInv. BadInv'
  BY <1>1, <1>2 DEF SyncHead, HeadType, BadInv
<1>SlotInv. SlotInv'
  BY <1>1, <1>2 DEF SyncHead, HeadType, SlotInv, Kept
<1>HistoryInv. HistoryInv'
  BY <1>1, <1>2 DEF SyncHead, HeadType, HistoryInv, PhaseInv, Phases, DocPhases
<1>PhaseInv. PhaseInv'
  BY <1>1, <1>2 DEF SyncHead, HeadType, BadInv, PhaseInv, Kept, Phases, DocPhases
<1>WholeInv. WholeInv'
  BY <1>1, <1>2 DEF SyncHead, HeadType, BadInv, SlotInv, PhaseInv, WholeInv, Kept, Phases, DocPhases
<1>LossInv. LossInv'
  <2>1. Recent(cur, acked') /\ Recent(prev, acked')
    BY DEF SyncHead, PhaseInv, LossInv, Recent, Phases
  <2>2. \A f, v : Recent(f, v)' <=> Recent(f, v)
    BY <1>2 DEF SyncHead, Recent, Intact
  <2> QED BY <1>1, <2>1, <2>2 DEF SyncHead, LossInv, Phases, DocPhases
<1> QED BY <1>HeadType, <1>BadInv, <1>SlotInv, <1>HistoryInv, <1>PhaseInv, <1>WholeInv, <1>LossInv

\* The head the rename makes current is synchronised, selects stable documents and is
\* not older than what was acknowledged.
LEMMA RenameHeadKeeps ==
  ASSUME HeadInv, RenameHead
  PROVE  HeadInv'
<1> USE DEF HeadInv, None
<1> USE Seen
<1>2. new' = new /\ \A f : Selects(f)' = Selects(f)
  BY FilesSame DEF RenameHead

<1>1. /\ log' \in Seq(SlotPairs) /\ log' # <<>> /\ cur' = new /\ prev' = prev
      /\ Entries' = Entries \cup {Slots(new, prev)}
      /\ Slots(new, prev).cur = new /\ Slots(new, prev).prev = prev
  BY LogAppend DEF RenameHead, HeadType, Slots
<1>3. Kept(new) /\ new # None
  BY DEF RenameHead, PhaseInv, Phases, DocPhases, Kept
<1>4. damage = Damages =>
        /\ acked > 0 => files[new].ver >= acked
        /\ prev # None => files[prev].ver <= files[new].ver
  <2>1. /\ damage = Damages /\ acked > 0 => cur # None /\ files[cur].ver >= acked
        /\ damage = Damages /\ prev # None => cur # None /\ files[prev].ver <= files[cur].ver
        /\ damage = Damages /\ cur # None => files[cur].ver <= files[new].ver
    BY DEF RenameHead, WholeInv, Phases
  <2>2. files[new].ver \in Nat /\ acked \in Nat /\ (cur # None => files[cur].ver \in Nat)
        /\ (prev # None => files[prev].ver \in Nat)
    BY <1>3 DEF Kept, HeadType
  <2> QED BY <2>1, <2>2
<1>HeadType. HeadType'
  BY <1>1, <1>2, <1>3, <1>4 DEF RenameHead, HeadType, PhaseInv, Phases, DocPhases
<1>BadInv. BadInv'
  BY <1>1, <1>2, <1>3, <1>4 DEF RenameHead, HeadType, BadInv
<1>SlotInv. SlotInv'
  BY <1>1, <1>2, <1>3, <1>4 DEF RenameHead, HeadType, SlotInv, Kept
<1>HistoryInv. HistoryInv'
  BY <1>1, <1>2, <1>3, <1>4 DEF RenameHead, HeadType, HistoryInv, PhaseInv, Phases, DocPhases
<1>PhaseInv. PhaseInv'
  BY <1>1, <1>2, <1>3, <1>4 DEF RenameHead, HeadType, BadInv, PhaseInv, Kept, Phases, DocPhases
<1>WholeInv. WholeInv'
  <2>1. UNCHANGED <<files, synced, docsSynced, bad, acked, damage>>
    BY DEF RenameHead
  <2>2. files[new].ver \in Nat
    BY <1>3 DEF Kept
  <2> QED BY <1>1, <1>2, <1>3, <1>4, <2>1, <2>2 DEF WholeInv
<1>LossInv. LossInv'
  BY <1>1, <1>2, <1>3, <1>4 DEF RenameHead, HeadType, SlotInv, PhaseInv, LossInv, Recent, Intact,
     Kept, Phases, DocPhases
<1> QED BY <1>HeadType, <1>BadInv, <1>SlotInv, <1>HistoryInv, <1>PhaseInv, <1>WholeInv, <1>LossInv

\* A power loss tears only what was not synchronised, and every entry it may leave
\* names synchronised heads with stable documents.
LEMMA PowerLossKeeps ==
  ASSUME HeadInv, PowerLoss
  PROVE  HeadInv'
<1> USE DEF HeadInv, None
<1> USE Seen
<1>2. new' = new /\ \A f : Selects(f)' = Selects(f)
  BY FilesSame DEF PowerLoss

<1>1. PICK e \in Entries : log' = <<e>> /\ pc' = IF e.cur = None THEN "gone" ELSE "down"
  BY LogView DEF PowerLoss, HeadType
<1>3. /\ log' \in Seq(SlotPairs) /\ log' # <<>> /\ cur' = e.cur /\ prev' = e.prev /\ Entries' = {e}
  BY <1>1, LogSingle
<1>4. docsStable \subseteq docs' /\ docs' \subseteq docs /\ docsStable' = docs'
  BY DEF PowerLoss, HeadType
<1>5. /\ \A f \in Nat : /\ <<"head", f>> \in bad' <=> <<"head", f>> \in bad \/ f \in (1..new) \ synced
                        /\ <<"doc", f>> \in bad' <=> <<"doc", f>> \in bad \/ f \in (1..new) \ docsSynced
      /\ bad \subseteq bad'
  BY DEF PowerLoss
<1>7. \A f \in Nat : /\ f \in synced => (<<"head", f>> \in bad' <=> <<"head", f>> \in bad)
                     /\ f \in docsSynced => (<<"doc", f>> \in bad' <=> <<"doc", f>> \in bad)
  BY <1>5
<1>8. synced \subseteq Nat /\ docsSynced \subseteq Nat
  BY DEF HeadType
<1>6. UNCHANGED <<files, pred, synced, docsSynced, mode, acked, damage>> /\ pc # "new"
  BY DEF PowerLoss
<1>HeadType. HeadType'
  BY <1>1, <1>2, <1>3, <1>4, <1>5, <1>6 DEF HeadType, PhaseInv, Phases, DocPhases
<1>BadInv. BadInv'
  BY <1>1, <1>2, <1>3, <1>4, <1>5, <1>6 DEF HeadType, BadInv
<1>SlotInv. SlotInv'
  BY <1>1, <1>2, <1>3, <1>4, <1>5, <1>6 DEF HeadType, SlotInv, Kept
<1>HistoryInv. HistoryInv'
  BY <1>1, <1>2, <1>3, <1>4, <1>5, <1>6 DEF HeadType, HistoryInv, PhaseInv, Phases, DocPhases
<1>PhaseInv. PhaseInv'
  BY <1>1, <1>2, <1>3, <1>4, <1>5, <1>6 DEF HeadType, BadInv, PhaseInv, Kept, Phases, DocPhases
<1>WholeInv. WholeInv'
  BY <1>1, <1>3, <1>6, <1>7, <1>8 DEF WholeInv, Phases
<1>LossInv. LossInv'
  BY <1>1, <1>2, <1>3, <1>4, <1>5, <1>6 DEF HeadType, SlotInv, PhaseInv, LossInv, Recent, Intact,
     Kept, Phases, DocPhases
<1> QED BY <1>HeadType, <1>BadInv, <1>SlotInv, <1>HistoryInv, <1>PhaseInv, <1>WholeInv, <1>LossInv

\* The first publication begins on an empty store.
LEMMA BeginInitialKeeps ==
  ASSUME HeadInv, BeginInitial
  PROVE  HeadInv'
<1> USE DEF HeadInv, None
<1> USE Seen
<1>1. Entries' = Entries /\ cur' = cur /\ prev' = prev
  BY LogSame DEF BeginInitial

<1>2. files = <<>> /\ docs = {} /\ docsStable = {} /\ synced = {} /\ docsSynced = {} /\ bad = {} /\ acked = 0
      /\ Entries = {Slots(None, None)} /\ cur = None /\ prev = None
  BY DEF BeginInitial, PhaseInv, HeadType, Slots
<1>3. /\ files' \in Seq(HeadFiles) /\ pred' \in Seq(Nat) /\ Len(pred') = Len(files') /\ Len(files') = 1 /\ new' = 1
      /\ Selects(new)' = {1} /\ files'[1].ver = 1 /\ pred'[1] = None
  BY DEF BeginInitial, HeadFiles, Selects, new
<1>4. Slots(None, None).cur = None /\ Slots(None, None).prev = None
  BY DEF Slots
<1>HeadType. HeadType'
  BY <1>1, <1>2, <1>3, <1>4 DEF BeginInitial, HeadType, PhaseInv, Phases, DocPhases
<1>BadInv. BadInv'
  BY <1>1, <1>2, <1>3, <1>4 DEF BeginInitial, HeadType, BadInv
<1>SlotInv. SlotInv'
  BY <1>1, <1>2, <1>3, <1>4 DEF BeginInitial, HeadType, SlotInv, Kept
<1>HistoryInv. HistoryInv'
  BY <1>1, <1>2, <1>3, <1>4 DEF BeginInitial, HeadType, HistoryInv, PhaseInv, Phases, DocPhases
<1>PhaseInv. PhaseInv'
  BY <1>1, <1>2, <1>3, <1>4 DEF BeginInitial, HeadType, BadInv, PhaseInv, Kept, Phases, DocPhases
<1>WholeInv. WholeInv'
  BY <1>1, <1>2, <1>3, <1>4 DEF BeginInitial, HeadType, BadInv, SlotInv, PhaseInv, WholeInv, Kept,
     Phases, DocPhases
<1>LossInv. LossInv'
  BY <1>1, <1>2, <1>3, <1>4 DEF BeginInitial, HeadType, SlotInv, PhaseInv, LossInv, Recent,
     Intact, Kept, Phases, DocPhases
<1> QED BY <1>HeadType, <1>BadInv, <1>SlotInv, <1>HistoryInv, <1>PhaseInv, <1>WholeInv, <1>LossInv

\* A version begun on a readable head selects what that head selects and at most one
\* new document, whose predecessor is stable.
LEMMA BeginVersionKeeps ==
  ASSUME NEW kind \in {"ordinary", "enqueue", "remove"}, HeadInv, BeginVersion(kind)
  PROVE  HeadInv'
<1> USE DEF HeadInv, None
<1> USE Seen
<1>1. Entries' = Entries /\ cur' = cur /\ prev' = prev
  BY LogSame DEF BeginVersion

<1> DEFINE g == files[cur]
           h == [ver |-> g.ver + 1,
                 ord |-> IF kind = "ordinary" THEN new + 1 ELSE g.ord,
                 queue |-> CASE kind = "enqueue" -> g.queue \cup {new + 1}
                             [] kind = "remove" -> {}
                             [] OTHER -> g.queue]
           q == IF kind = "ordinary" THEN g.ord ELSE None
<1>g. /\ Kept(cur) /\ cur # None /\ g \in HeadFiles /\ Selects(cur) = {g.ord} \cup g.queue
      /\ \A d \in Selects(cur) : <<"doc", d>> \notin bad
  <2>1. cur # None /\ \A d \in Selects(cur) : <<"doc", d>> \notin bad
    BY DEF BeginVersion, Usable
  <2>2. cur \in 1..Len(files)
    BY <2>1 DEF Kept
  <2> QED BY <2>1, <2>2 DEF HeadType, Selects
<1>h. h \in HeadFiles /\ q \in Nat
  BY <1>g DEF HeadFiles
<1>k. /\ h.ver = g.ver + 1 /\ h.ord \in {new + 1, g.ord} /\ h.queue \subseteq g.queue \cup {new + 1}
      /\ kind = "remove" => h.ord = g.ord /\ h.queue = {}
      /\ kind # "remove" => new + 1 \in {h.ord} \cup h.queue
      /\ q # None => q = g.ord
  OBVIOUS
<1> HIDE DEF g
<1>f. files' = Append(files, h) /\ pred' = Append(pred, q)
  BY DEF BeginVersion, g, h, q, new
<1> HIDE DEF h, q
<1>3. /\ files' \in Seq(HeadFiles) /\ pred' \in Seq(Nat) /\ Len(pred') = Len(files')
      /\ Len(files') = new + 1 /\ new' = new + 1
      /\ files'[new'] = h /\ Selects(new)' = {h.ord} \cup h.queue /\ pred'[new'] = q
      /\ \A f \in 1..new : /\ files'[f] = files[f] /\ pred'[f] = pred[f]
                          /\ Selects(f)' = Selects(f)
  BY <1>f, <1>h, FilesAppend DEF HeadType, new
<1>4. \A f : f \in 1..new => f \in 1..new' /\ f # new'
  BY <1>3
<1>5. <<"head", new'>> \notin bad /\ <<"doc", new'>> \notin bad
  BY <1>3 DEF BadInv
<1>6. \A s \in Entries : /\ s.cur \in Nat /\ s.prev \in Nat
                         /\ s.cur # None => s.cur \in 1..new
                         /\ s.prev # None => s.prev \in 1..new
  BY DEF SlotInv, Kept, SlotPairs
<1>8. \A f \in 1..new : /\ Kept(f) => Kept(f)'
                        /\ Intact(f)' <=> Intact(f)
                        /\ \A v : Recent(f, v)' <=> Recent(f, v)
  BY <1>3, <1>4 DEF BeginVersion, Kept, Intact, Recent
<1>9. Selects(new)' \subseteq docsStable \cup {new'} /\ \A d \in Selects(new)' : <<"doc", d>> \notin bad
  BY <1>3, <1>5, <1>g, <1>k DEF Kept, Intact

<1>7. g.ver = files[cur].ver /\ g.ver \in Nat /\ cur \in 1..new /\ Intact(cur)
  BY <1>g DEF g, HeadFiles, Kept, Intact, BeginVersion, Usable
<1>HeadType. HeadType'
  BY <1>1, <1>3, <1>4, <1>5, <1>6, <1>7, <1>8, <1>9, <1>g, <1>k DEF BeginVersion, HeadType,
     PhaseInv, Phases, DocPhases
<1>BadInv. BadInv'
  BY <1>1, <1>3, <1>4, <1>5, <1>6, <1>7, <1>8, <1>9, <1>g, <1>k DEF BeginVersion, HeadType, BadInv
<1>SlotInv. SlotInv'
  BY <1>1, <1>6, <1>8 DEF SlotInv
<1>HistoryInv. HistoryInv'
  BY <1>1, <1>3, <1>4, <1>5, <1>6, <1>7, <1>8, <1>9, <1>g, <1>k DEF BeginVersion, HeadType,
     HistoryInv, PhaseInv, Phases, DocPhases
<1>PhaseInv. PhaseInv'
  <2>1. /\ new' > 0 /\ cur' # None /\ <<"head", new'>> \notin bad'
        /\ \A d \in Selects(new)' : <<"doc", d>> \notin bad'
    BY <1>1, <1>3, <1>5, <1>9, <1>g DEF BeginVersion
  <2>2. CASE kind = "remove"
    <3>1. pc' = "unlink" /\ docsStable' = docsStable
      BY <2>2 DEF BeginVersion
    <3>2. Selects(new)' \subseteq docsStable
      BY <2>2, <1>3, <1>g, <1>k DEF Kept
    <3> QED BY <2>1, <3>1, <3>2 DEF PhaseInv, Phases, DocPhases
  <2>3. CASE kind # "remove"
    <3>1. pc' = "doc" /\ docsStable' = docsStable
      BY <2>3 DEF BeginVersion
    <3>2. new' \in Selects(new)' /\ (pred'[new'] # None => pred'[new'] \in docsStable)
      BY <2>3, <1>3, <1>g, <1>k DEF Kept
    <3> QED BY <2>1, <3>1, <3>2, <1>9 DEF PhaseInv, Phases, DocPhases
  <2> QED BY <2>2, <2>3
<1>WholeInv. WholeInv'
  BY <1>1, <1>3, <1>6, <1>7, <1>k DEF BeginVersion, WholeInv, Phases
<1>LossInv. LossInv'
  <2>1. acked \in Nat /\ g.ver + 1 >= acked /\ new' \in Nat /\ files'[new'].ver = g.ver + 1
    <3>1. Recent(cur, acked)
      BY DEF LossInv
    <3> QED BY <3>1, <1>3, <1>7, <1>g, <1>k DEF Recent, HeadType
  <2>2. Recent(cur, files[new].ver)'
    BY <2>1, <1>1, <1>3, <1>7 DEF Recent
  <2>3. \A s \in Entries : Recent(s.cur, acked)' /\ Recent(s.prev, acked)'
    BY <1>6, <1>8 DEF LossInv, Recent, BeginVersion
  <2>4. acked' = acked /\ pc' \in {"doc", "unlink"}
    BY DEF BeginVersion
  <2> QED BY <2>1, <2>2, <2>3, <2>4, <1>1, <1>7 DEF LossInv, Phases, DocPhases
<1> QED BY <1>HeadType, <1>BadInv, <1>SlotInv, <1>HistoryInv, <1>PhaseInv, <1>WholeInv, <1>LossInv

\* Repair happens only after damage, and publishes a copy of a previous head that is
\* still whole.
LEMMA RepairKeeps ==
  ASSUME HeadInv, Repair
  PROVE  HeadInv'
<1> USE DEF HeadInv, None
<1> USE Seen

<1> DEFINE h == files[prev]
           q == None
<1>g. /\ Kept(prev) /\ prev # None /\ cur # None /\ Kept(cur) /\ Selects(prev) = {h.ord} \cup h.queue
      /\ Intact(prev) /\ ~Intact(cur)
  <2>1. /\ prev # None /\ Intact(prev) /\ cur # None
    BY DEF Repair, Usable, PhaseInv, Intact
  <2>2. Selects(cur) \subseteq docs
    BY <2>1 DEF Kept, HeadType
  <2>3. ~Intact(cur)
    BY <2>1, <2>2 DEF Repair, Usable, Intact
  <2> QED BY <2>1, <2>3 DEF Selects
<1>h. h \in HeadFiles /\ q \in Nat
  BY <1>g DEF Kept, HeadType
<1>k. q = None
  OBVIOUS
<1>d. damage # Damages
  BY <1>g DEF WholeInv, Intact, Kept, HeadType
<1>f. files' = Append(files, h) /\ pred' = Append(pred, q)
  BY DEF Repair, q, new
<1> HIDE DEF h, q
<1>3. /\ files' \in Seq(HeadFiles) /\ pred' \in Seq(Nat) /\ Len(pred') = Len(files')
      /\ Len(files') = new + 1 /\ new' = new + 1
      /\ files'[new'] = h /\ Selects(new)' = {h.ord} \cup h.queue /\ pred'[new'] = q
      /\ \A f \in 1..new : /\ files'[f] = files[f] /\ pred'[f] = pred[f]
                          /\ Selects(f)' = Selects(f)
  BY <1>f, <1>h, FilesAppend DEF HeadType, new
<1>4. \A f : f \in 1..new => f \in 1..new' /\ f # new'
  BY <1>3
<1>5. <<"head", new'>> \notin bad /\ <<"doc", new'>> \notin bad
  BY <1>3 DEF BadInv
<1>6. \A s \in Entries : /\ s.cur \in Nat /\ s.prev \in Nat
                         /\ s.cur # None => s.cur \in 1..new
                         /\ s.prev # None => s.prev \in 1..new
  BY DEF SlotInv, Kept, SlotPairs
<1>8. \A f \in 1..new : /\ Kept(f) => Kept(f)'
                        /\ Intact(f)' <=> Intact(f)
                        /\ \A v : Recent(f, v)' <=> Recent(f, v)
  BY <1>3, <1>4 DEF Repair, Kept, Intact, Recent
<1>9. Selects(new)' \subseteq docsStable \cup {new'} /\ \A d \in Selects(new)' : <<"doc", d>> \notin bad
  BY <1>3, <1>5, <1>g, <1>k DEF Kept, Intact

<1>7. /\ log' \in Seq(SlotPairs) /\ log' # <<>> /\ prev' = prev /\ cur' \in {cur, None}
      /\ cur' = None => mode' = "initial"
      /\ \A s \in Entries' : s \in Entries \/ (s.cur = None /\ s.prev = prev)
  <2>1. CASE <<"head", cur>> \in bad
    BY <2>1, LogSingle DEF Repair, Slots, SlotPairs
  <2>2. CASE <<"head", cur>> \notin bad
    <3>1. UNCHANGED log /\ mode' = "replacement"
      BY <2>2 DEF Repair
    <3> QED BY <3>1, <1>g, LogSame DEF HeadType
  <2> QED BY <2>1, <2>2
<1>HeadType. HeadType'
  BY <1>3, <1>4, <1>5, <1>6, <1>7, <1>8, <1>9, <1>d, <1>g DEF Repair, HeadType, PhaseInv, Phases,
     DocPhases
<1>BadInv. BadInv'
  BY <1>3, <1>4, <1>5, <1>6, <1>7, <1>8, <1>9, <1>d, <1>g DEF Repair, HeadType, BadInv
<1>SlotInv. SlotInv'
  BY <1>6, <1>7, <1>8, <1>g DEF SlotInv, Kept, Repair
<1>HistoryInv. HistoryInv'
  BY <1>3, <1>4, <1>5, <1>6, <1>7, <1>8, <1>9, <1>d, <1>g DEF Repair, HeadType, HistoryInv,
     PhaseInv, Phases, DocPhases
<1>PhaseInv. PhaseInv'
  <2>1. new' > 0 /\ <<"head", new'>> \notin bad /\ Selects(new)' \subseteq docsStable
    BY <1>3, <1>5, <1>g DEF Kept
  <2>2. mode' = "replacement" => cur' # None
    BY <1>7, <1>g
  <2>3. pc' = "unlink" /\ UNCHANGED <<docsStable, bad>>
    BY DEF Repair
  <2> QED BY <1>9, <2>1, <2>2, <2>3 DEF PhaseInv, Phases, DocPhases
<1>WholeInv. WholeInv'
  BY <1>3, <1>4, <1>5, <1>6, <1>7, <1>8, <1>9, <1>d, <1>g DEF Repair, HeadType, BadInv, SlotInv,
     PhaseInv, WholeInv, Kept, Phases, DocPhases
<1>LossInv. LossInv'
  <2>1. acked \in Nat /\ h.ver + 1 >= acked /\ new' \in Nat /\ files'[new'].ver = h.ver
    <3>1. Recent(prev, acked)
      BY DEF LossInv
    <3>2. h.ver \in Nat
      BY <1>h DEF HeadFiles
    <3> QED BY <3>1, <3>2, <1>3, <1>g DEF Recent, HeadType, h
  <2>2. prev \in 1..new /\ cur \in 1..new
    BY <1>g DEF Kept
  <2>3. Recent(cur, files[new].ver)'
    BY <1>7, <1>8, <1>g, <2>2 DEF Recent
  <2>4. \A s \in Entries' : Recent(s.cur, acked)' /\ Recent(s.prev, acked)'
    BY <1>6, <1>7, <1>8, <1>g DEF LossInv, Recent, Repair
  <2> QED BY <2>1, <2>3, <2>4 DEF Repair, LossInv, Phases, DocPhases
<1> QED BY <1>HeadType, <1>BadInv, <1>SlotInv, <1>HistoryInv, <1>PhaseInv, <1>WholeInv, <1>LossInv

\* Damage reaches the current head or what it selects.
LEMMA DamageKeeps ==
  ASSUME Damages \in Nat, HeadInv, Damage
  PROVE  HeadInv'
<1> USE DEF HeadInv, None
<1> USE Seen
<1>1. Entries' = Entries /\ cur' = cur /\ prev' = prev
  BY LogSame DEF Damage
<1>2. new' = new /\ \A f : Selects(f)' = Selects(f)
  BY FilesSame DEF Damage

<1>3. cur # None /\ Kept(cur)
  BY DEF Damage, PhaseInv
<1>4. damage' = damage - 1 /\ damage' \in Nat /\ damage' < Damages /\ bad \subseteq bad'
  BY DEF Damage, HeadType
<1>5. \A f \in Nat : <<"head", f>> \in bad' \/ <<"doc", f>> \in bad' =>
                     <<"head", f>> \in bad \/ <<"doc", f>> \in bad \/ f = cur \/ f \in Selects(cur)
  BY DEF Damage
<1>HeadType. HeadType'
  BY <1>1, <1>2, <1>4 DEF Damage, HeadType, Phases, DocPhases
<1>BadInv. BadInv'
  BY <1>2, <1>3, <1>5 DEF Damage, HeadType, BadInv, Kept
<1>SlotInv. SlotInv'
  BY <1>1, <1>2, <1>3, <1>4, <1>5 DEF Damage, HeadType, SlotInv, Kept
<1>HistoryInv. HistoryInv'
  BY <1>1, <1>2, <1>3, <1>4, <1>5 DEF Damage, HeadType, HistoryInv, PhaseInv, Phases, DocPhases
<1>PhaseInv. PhaseInv'
  BY <1>1, <1>2, <1>3, <1>4, <1>5 DEF Damage, HeadType, BadInv, PhaseInv, Kept, Phases, DocPhases
<1>WholeInv. WholeInv'
  BY <1>1, <1>2, <1>3, <1>4, <1>5 DEF Damage, HeadType, BadInv, SlotInv, PhaseInv, WholeInv, Kept,
     Phases, DocPhases
<1>LossInv. LossInv'
  BY <1>1, <1>2, <1>3, <1>4, <1>5 DEF Damage, HeadType, SlotInv, PhaseInv, LossInv, Recent,
     Intact, Kept, Phases, DocPhases
<1> QED BY <1>HeadType, <1>BadInv, <1>SlotInv, <1>HistoryInv, <1>PhaseInv, <1>WholeInv, <1>LossInv

-----------------------------------------------------------------------------
(* The theorems *)

\* A store without a head satisfies the invariant.
LEMMA HeadInit == ASSUME Damages \in Nat PROVE Init => HeadInv
<1> SUFFICES ASSUME Init PROVE HeadInv
  OBVIOUS
<1>1. log = <<Slots(None, None)>> /\ Slots(None, None) \in SlotPairs
  BY DEF Init, Slots, SlotPairs, None
<1>2. Entries = {Slots(None, None)} /\ cur = None /\ prev = None
  BY <1>1 DEF Entries, cur, prev, Slots
<1>3. HeadType
  BY <1>1 DEF Init, HeadType
<1>4. BadInv /\ SlotInv /\ HistoryInv
  BY <1>2 DEF Init, BadInv, SlotInv, HistoryInv, Slots
<1>5. PhaseInv /\ WholeInv /\ LossInv
  BY <1>2 DEF Init, PhaseInv, WholeInv, LossInv, Recent, Phases, DocPhases, Slots
<1> QED BY <1>3, <1>4, <1>5 DEF HeadInv

\* Every system call, failure, death, power loss, damage and repair keeps it.
LEMMA HeadNext ==
  ASSUME Damages \in Nat, HeadInv, [Next]_vars
  PROVE  HeadInv'
<1>1. CASE UNCHANGED vars
  <2>1. Entries' = Entries /\ cur' = cur /\ prev' = prev /\ new' = new /\ \A f : Selects(f)' = Selects(f)
    BY <1>1, LogSame, FilesSame DEF vars
  <2>2. HeadType' /\ BadInv' /\ HistoryInv'
    BY <1>1, <2>1 DEF vars, HeadInv, HeadType, BadInv, HistoryInv
  <2>3. SlotInv' /\ PhaseInv'
    BY <1>1, <2>1 DEF vars, HeadInv, SlotInv, PhaseInv, Kept
  <2>4. WholeInv' /\ LossInv'
    BY <1>1, <2>1 DEF vars, HeadInv, WholeInv, LossInv, Recent, Intact
  <2> QED BY <2>2, <2>3, <2>4 DEF HeadInv
<1>2. CASE Publish
  BY <1>2, BeginInitialKeeps, BeginVersionKeeps, WriteDocKeeps, RenameDocKeeps, SyncDocKeeps,
     UnlinkPreviousKeeps, LinkPreviousKeeps, SyncSlotsKeeps, WriteHeadKeeps, RenameHeadKeeps,
     SyncHeadKeeps DEF Publish
<1>3. CASE CallFails \/ Crash \/ PowerLoss \/ Restart \/ Damage \/ Repair
  BY <1>3, CallFailsKeeps, CrashKeeps, PowerLossKeeps, RestartKeeps, DamageKeeps, RepairKeeps
<1> QED BY <1>1, <1>2, <1>3 DEF Next

\* HeadInv holds in every reachable state.
LEMMA HeadInvariant == ASSUME Damages \in Nat PROVE Spec => []HeadInv
<1>1. Init => HeadInv
  BY HeadInit
<1>2. HeadInv /\ [Next]_vars => HeadInv'
  BY HeadNext
<1> QED BY <1>1, <1>2, PTL DEF Spec

\* A head that nothing damaged is usable, and so is the whole history behind it: the
\* named documents are a set closed under the predecessor.
LEMMA KeptIsReadable ==
  ASSUME HeadInv, damage = Damages, NEW f, Kept(f)
  PROVE  Usable(f) /\ \A d \in History(files[f].ord) : d \in docs /\ <<"doc", d>> \notin bad
<1> USE DEF HeadInv
<1>1. \A d \in docs : <<"doc", d>> \notin bad
  BY DEF WholeInv, HeadType
<1>2. f # None /\ <<"head", f>> \notin bad /\ Selects(f) \subseteq docs /\ files[f].ord \in docs
  <2>1. f \in 1..Len(files) /\ f \in synced /\ Selects(f) \subseteq docsStable
    BY DEF Kept
  <2>2. files[f].ord \in Selects(f)
    BY DEF Selects
  <2>3. f # None /\ <<"head", f>> \notin bad
    BY <2>1 DEF WholeInv, HeadType, None
  <2> QED BY <2>1, <2>2, <2>3 DEF HeadType
<1>3. docs \in SUBSET DOMAIN pred /\ \A j \in docs : pred[j] # None => pred[j] \in docs
  BY DEF HeadType, HistoryInv
<1>4. History(files[f].ord) \subseteq docs
  BY <1>2, <1>3 DEF History
<1> QED BY <1>1, <1>2, <1>4 DEF Usable

\* For any number of publications, failing calls, process deaths and power losses,
\* and until the medium damages something: publishHeadFile keeps a current head that
\* can be read with the whole history behind it, no older than the last publication
\* that returned, and a previous slot that is a whole earlier selection.
THEOREM HeadsStayReadable ==
  ASSUME Damages \in Nat
  PROVE  Spec => [](CurrentIsReadable /\ AckedIsKept /\ PreviousIsUsable)
<1>1. HeadInv => CurrentIsReadable /\ AckedIsKept /\ PreviousIsUsable
  <2> SUFFICES ASSUME HeadInv PROVE CurrentIsReadable /\ AckedIsKept /\ PreviousIsUsable
    OBVIOUS
  <2> USE Seen DEF HeadInv
  <2>1. CurrentIsReadable
    BY KeptIsReadable DEF CurrentIsReadable
  <2>2. AckedIsKept
    BY DEF WholeInv, AckedIsKept
  <2>3. PreviousIsUsable
    BY KeptIsReadable DEF WholeInv, PreviousIsUsable
  <2> QED BY <2>1, <2>2, <2>3
<1> QED BY <1>1, HeadInvariant, PTL

\* However often the medium damages a stopped store and restoreCardSelection brings
\* back the previous slot, a current head that can be read is at most one version
\* behind the last publication that returned.
THEOREM RepairLosesAtMostOne ==
  ASSUME Damages \in Nat
  PROVE  Spec => []RepairLosesOne
<1>1. HeadInv => RepairLosesOne
  <2> SUFFICES ASSUME HeadInv, Usable(cur) PROVE files[cur].ver + 1 >= acked
    BY DEF RepairLosesOne
  <2>1. Recent(cur, acked)
    BY Seen DEF HeadInv, LossInv
  <2>2. cur # None /\ Intact(cur)
    BY DEF Usable, Intact
  <2> QED BY <2>1, <2>2 DEF Recent
<1> QED BY <1>1, HeadInvariant, PTL

\* A publication that returns, of a version or of a repair, left a head that can be
\* read, whatever was damaged before it began.
THEOREM ReturnedIsReadable ==
  ASSUME Damages \in Nat
  PROVE  Spec => [][ReturnsReadable]_vars
<1>1. HeadInv /\ [Next]_vars => [ReturnsReadable]_vars
  <2> SUFFICES ASSUME HeadInv, Next, pc = "headsync", pc' = "idle" PROVE Usable(cur)'
    BY DEF ReturnsReadable
  <2> USE DEF HeadInv
  <2>1. SyncHead
    BY DEF Next, Publish, BeginInitial, BeginVersion, WriteDoc, RenameDoc, SyncDoc, UnlinkPrevious,
       LinkPrevious, SyncSlots, WriteHead, RenameHead, CallFails, Crash, PowerLoss, Restart,
       Damage, Repair
  <2>2. cur' = cur
    BY <2>1, Seen, LogView, LogSingle DEF SyncHead, HeadType
  <2>3. cur = new /\ new > 0 /\ <<"head", new>> \notin bad /\ Selects(new) \subseteq docsStable
        /\ \A d \in Selects(new) : <<"doc", d>> \notin bad
    BY DEF PhaseInv, Phases, DocPhases
  <2>4. \A f : Selects(f)' = Selects(f)
    BY <2>1, FilesSame DEF SyncHead
  <2> QED BY <2>1, <2>2, <2>3, <2>4, Seen DEF SyncHead, Usable, HeadType, None
<1> QED BY <1>1, HeadInvariant, PTL DEF Spec

\* Each step of a publication, seen through the current slot: the unlink and the
\* link leave it, the rename writes it, a directory synchronisation makes it the only
\* value, and a power loss picks one of the values since the last one.
LEMMA RegisterStep ==
  ASSUME HeadInv, damage = Damages, [Next]_vars
  PROVE  [Register!Next]_(Register!vars)
<1> USE Seen DEF HeadInv
<1> DEFINE stable == {log[i].cur : i \in 1..Len(log)}
           curs == {s.cur : s \in Entries}
<1>1. stable = curs /\ stable' = curs'
  BY DEF Entries
<1> SUFFICES (cur' = cur /\ stable' = stable) \/ Register!Next
  BY DEF Register!vars
<1>w. ASSUME cur' # None, curs' = curs \cup {cur'} PROVE Register!Next
  BY <1>1, <1>w DEF Register!Next, Register!Write
<1>s. ASSUME cur' = cur, curs' = {cur} PROVE Register!Next
  BY <1>1, <1>s DEF Register!Next, Register!Sync
<1>p. ASSUME cur' \in curs, curs' = {cur'} PROVE Register!Next
  BY <1>1, <1>p DEF Register!Next, Register!PowerLoss
<1> HIDE DEF stable
<1>2. CASE UNCHANGED log
  BY <1>1, <1>2, LogSame
<1>3. CASE UnlinkPrevious \/ LinkPrevious
  <2>1. PICK c \in Nat : log' = Append(log, Slots(cur, c)) \/ log' = log
    BY <1>3 DEF UnlinkPrevious, LinkPrevious, None
  <2>2. CASE log' = Append(log, Slots(cur, c))
    <3>1. Entries' = Entries \cup {Slots(cur, c)} /\ cur' = cur /\ Slots(cur, c).cur = cur
      BY <2>2, LogAppend DEF HeadType, Slots
    <3> QED BY <1>1, <3>1
  <2> QED BY <2>1, <2>2, <1>2
<1>4. CASE RenameHead
  <2>1. /\ Entries' = Entries \cup {Slots(new, prev)} /\ cur' = new /\ Slots(new, prev).cur = new
    BY <1>4, LogAppend DEF RenameHead, HeadType, Slots
  <2>2. new # None
    BY <1>4 DEF RenameHead, PhaseInv, Phases, None
  <2> QED BY <1>w, <2>1, <2>2
<1>5. CASE SyncSlots \/ SyncHead
  <2>1. Entries' = {Slots(cur, prev)} /\ cur' = cur
    BY <1>5, LogView, LogSingle DEF SyncSlots, SyncHead, HeadType
  <2> QED BY <1>s, <2>1
<1>6. CASE PowerLoss
  <2>1. PICK e \in Entries : log' = <<e>>
    BY <1>6, LogView DEF PowerLoss, HeadType
  <2>2. Entries' = {e} /\ cur' = e.cur
    BY <2>1, LogSingle
  <2> QED BY <1>p, <2>2
<1>7. CASE Repair
  <2>1. cur # None /\ ~Usable(cur)
    BY <1>7 DEF Repair, PhaseInv
  <2> QED BY <2>1, KeptIsReadable
<1> QED
  BY <1>2, <1>3, <1>4, <1>5, <1>6, <1>7 DEF Next, Publish, vars, BeginInitial, BeginVersion,
     WriteDoc,
     RenameDoc, SyncDoc, WriteHead, CallFails, Crash, Restart, Damage

\* Without damage from outside, the two slots, the link and the two synchronisations
\* of publishHeadFile implement a durable register: readers see the last value
\* written, and a power loss leaves a value written since the last synchronisation.
THEOREM HeadIsRegister ==
  ASSUME Damages = 0
  PROVE  Spec => Register!Spec
<1>1. Init => Register!Init
  <2> SUFFICES ASSUME Init PROVE cur = None /\ {log[i].cur : i \in 1..Len(log)} = {None}
    BY DEF Register!Init
  <2>1. log = <<Slots(None, None)>> /\ Slots(None, None).cur = None
    BY DEF Init, Slots
  <2> QED BY <2>1 DEF cur
<1>2. HeadInv /\ [Next]_vars => [Register!Next]_(Register!vars)
  <2>1. HeadInv => damage = Damages
    BY DEF HeadInv, HeadType
  <2> QED BY <2>1, RegisterStep
<1>3. Spec => []HeadInv
  BY HeadInvariant
<1> QED BY <1>1, <1>2, <1>3, PTL DEF Spec, Register!Spec
=============================================================================
