-------------------------- MODULE HeadPublication ---------------------------
(* persistence/publish-head.ts and replace-file.ts, as card-files.ts uses     *)
(* them: a publication first publishes the history or mailbox document the    *)
(* new head refers to, then clears the previous slot, links the current head  *)
(* into it, synchronises the directory, and replaces the current head by a    *)
(* synchronised temporary file and a rename.  Every system call may fail, the *)
(* process may die between any two, and a power loss keeps any prefix of the  *)
(* name changes since the last directory synchronisation and tears every file *)
(* that was not synchronised.  Offline repair restores the previous slot.     *)
EXTENDS Naturals, Sequences, FiniteSets

CONSTANTS MaxFiles,     \* bound: publications begun
          Damages       \* how often the medium damages a stopped store

None == 0

VARIABLES files,        \* heads written so far, by file: version, selected history, queue
          pred,         \* the predecessor each history document names
          docs,         \* history and mailbox documents with a name
          docsStable,   \* those whose directory entry is synchronised
          log,          \* name changes of the two slots since the last synchronisation
          synced,       \* head files whose bytes are synchronised
          docsSynced,   \* documents whose bytes are synchronised
          bad,          \* damaged or torn files and documents
          pc, mode,     \* the publication in progress
          acked,        \* the version of the last publication that returned
          damage        \* external damage still to come

vars == <<files, pred, docs, docsStable, log, synced, docsSynced, bad, pc, mode, acked, damage>>

cur == log[Len(log)].cur
prev == log[Len(log)].prev
new == Len(files)                       \* the file being published
Slots(c, p) == [cur |-> c, prev |-> p]

\* decodeCurrent and inspectCardSelection: the head parses and every document it
\* selects is there and parses.
Selects(f) == {files[f].ord} \cup files[f].queue
Usable(f) ==
  /\ f # None /\ <<"head", f>> \notin bad
  /\ \A d \in Selects(f) : d \in docs /\ <<"doc", d>> \notin bad

\* The documents readHistory walks from a selection: what every set closed under
\* the predecessor has that contains it.
History(d) ==
  {k \in DOMAIN pred : \A S \in SUBSET DOMAIN pred :
     d \in S /\ (\A j \in S : pred[j] # None => pred[j] \in S) => k \in S}

Init ==
  /\ files = <<>> /\ pred = <<>> /\ docs = {} /\ docsStable = {}
  /\ log = <<Slots(None, None)>>
  /\ synced = {} /\ docsSynced = {} /\ bad = {}
  /\ pc = "new" /\ mode = "initial" /\ acked = 0 /\ damage = Damages

-----------------------------------------------------------------------------
\* publishInitialCardState: version 1, no predecessor, an empty queue.
BeginInitial ==
  /\ pc = "new"
  /\ files' = <<[ver |-> 1, ord |-> 1, queue |-> {}]>> /\ pred' = <<None>>
  /\ mode' = "initial" /\ pc' = "doc"
  /\ UNCHANGED <<docs, docsStable, log, synced, docsSynced, bad, acked, damage>>

\* publishCardVersion after readExactCard: an ordinary version selects a new
\* history document whose predecessor is the selected one, an enqueued
\* notification a new mailbox document, a removal nothing new.
BeginVersion(kind) ==
  /\ pc = "idle" /\ Usable(cur) /\ Len(files) < MaxFiles
  /\ LET k == Len(files) + 1
         h == files[cur]
     IN /\ files' = Append(files,
              [ver |-> h.ver + 1,
               ord |-> IF kind = "ordinary" THEN k ELSE h.ord,
               queue |-> CASE kind = "enqueue" -> h.queue \cup {k}
                           [] kind = "remove" -> {}
                           [] OTHER -> h.queue])
        /\ pred' = Append(pred, IF kind = "ordinary" THEN h.ord ELSE None)
  /\ kind = "remove" => files[cur].queue # {}
  /\ mode' = "replacement"
  /\ pc' = IF kind = "remove" THEN "unlink" ELSE "doc"
  /\ UNCHANGED <<docs, docsStable, log, synced, docsSynced, bad, acked, damage>>

\* replaceFile of the document: temporary written and synchronised,
WriteDoc ==
  /\ pc = "doc" /\ pc' = "docrename"
  /\ docsSynced' = docsSynced \cup {new}
  /\ UNCHANGED <<files, pred, docs, docsStable, log, synced, bad, mode, acked, damage>>

\* renamed,
RenameDoc ==
  /\ pc = "docrename" /\ pc' = "docsync"
  /\ docs' = docs \cup {new}
  /\ UNCHANGED <<files, pred, docsStable, log, synced, docsSynced, bad, mode, acked, damage>>

\* Seeded fault: the document's directory is not synchronised.
SkipDocSync ==
  /\ pc = "docsync" /\ pc' = "unlink"
  /\ UNCHANGED <<files, pred, docs, docsStable, log, synced, docsSynced, bad, mode, acked, damage>>

\* and its directory synchronised.
SyncDoc ==
  /\ pc = "docsync" /\ pc' = "unlink"
  /\ docsStable' = docs
  /\ UNCHANGED <<files, pred, docs, log, synced, docsSynced, bad, mode, acked, damage>>

-----------------------------------------------------------------------------

\* publishHeadFile: the previous slot is cleared,
UnlinkPrevious ==
  /\ pc = "unlink"
  /\ log' = IF prev = None THEN log ELSE Append(log, Slots(cur, None))
  /\ pc' = IF mode = "replacement" THEN "link" ELSE "slotsync"
  /\ UNCHANGED <<files, pred, docs, docsStable, synced, docsSynced, bad, mode, acked, damage>>

\* the current head is linked into it,
LinkPrevious ==
  /\ pc = "link" /\ pc' = "slotsync"
  /\ log' = Append(log, Slots(cur, cur))
  /\ UNCHANGED <<files, pred, docs, docsStable, synced, docsSynced, bad, mode, acked, damage>>

\* the directory is synchronised,
SyncSlots ==
  /\ pc = "slotsync" /\ pc' = "head"
  /\ log' = <<log[Len(log)]>>
  /\ UNCHANGED <<files, pred, docs, docsStable, synced, docsSynced, bad, mode, acked, damage>>

\* the new head is written to a temporary file and synchronised,
WriteHead ==
  /\ pc = "head" /\ pc' = "rename"
  /\ synced' = synced \cup {new}
  /\ UNCHANGED <<files, pred, docs, docsStable, log, docsSynced, bad, mode, acked, damage>>

\* renamed over the current head,
RenameHead ==
  /\ pc = "rename" /\ pc' = "headsync"
  /\ log' = Append(log, Slots(new, prev))
  /\ UNCHANGED <<files, pred, docs, docsStable, synced, docsSynced, bad, mode, acked, damage>>

\* and the directory synchronised again: the publication returns.
SyncHead ==
  /\ pc = "headsync" /\ pc' = "idle"
  /\ log' = <<log[Len(log)]>>
  /\ acked' = files[new].ver
  /\ UNCHANGED <<files, pred, docs, docsStable, synced, docsSynced, bad, mode, damage>>

\* A failing call: before a rename, an unlink or a link it is an ordinary error
\* and the owner goes on, except in a first publication, whose namespace is
\* abandoned; a rename or a directory synchronisation that fails is an unknown
\* outcome, which ends the process.
CallFails ==
  /\ \/ pc \in {"doc", "unlink", "link", "head"} /\ pc' = IF mode = "initial" THEN "gone" ELSE "idle"
     \/ pc \in {"docrename", "docsync", "slotsync", "rename", "headsync"} /\ pc' = IF cur = None THEN "gone" ELSE "down"
  /\ UNCHANGED <<files, pred, docs, docsStable, log, synced, docsSynced, bad, mode, acked, damage>>

-----------------------------------------------------------------------------
\* The process dies: names and bytes stay as the system sees them.
Crash ==
  /\ pc \notin {"new", "down", "gone"}
  /\ pc' = IF cur = None THEN "gone" ELSE "down"
  /\ UNCHANGED <<files, pred, docs, docsStable, log, synced, docsSynced, bad, mode, acked, damage>>

\* The machine stops: a prefix of the name changes remains, unsynchronised bytes
\* are lost.
PowerLoss ==
  /\ pc \notin {"new", "gone"}
  /\ \E i \in 1..Len(log) :
       /\ log' = <<log[i]>>
       /\ pc' = IF log[i].cur = None THEN "gone" ELSE "down"
  /\ \E kept \in SUBSET (docs \ docsStable) : docs' = docsStable \cup kept
  /\ docsStable' = docs'
  /\ bad' = bad \cup {<<"head", f>> : f \in (1..new) \ synced} \cup {<<"doc", d>> : d \in (1..new) \ docsSynced}
  /\ UNCHANGED <<files, pred, synced, docsSynced, mode, acked, damage>>

\* A restart reads the current slot only.
Restart ==
  /\ pc = "down" /\ Usable(cur) /\ pc' = "idle"
  /\ UNCHANGED <<files, pred, docs, docsStable, log, synced, docsSynced, bad, mode, acked, damage>>

\* The medium damages the current head or a document while the project is
\* stopped (external).
Damage ==
  /\ pc = "down" /\ damage > 0 /\ damage' = damage - 1
  /\ \E x \in {<<"head", cur>>} \cup {<<"doc", d>> : d \in Selects(cur)} : bad' = bad \cup {x}
  /\ UNCHANGED <<files, pred, docs, docsStable, log, synced, docsSynced, pc, mode, acked>>

\* inspectRepairTarget and restoreCardSelection: only an unusable current and an
\* usable previous; a head that does not parse is first moved to the attic and
\* the previous payload published as an initial head, otherwise it replaces.
Repair ==
  /\ pc = "down" /\ ~Usable(cur) /\ Usable(prev) /\ Len(files) < MaxFiles
  /\ files' = Append(files, files[prev]) /\ pred' = Append(pred, None)
  /\ IF <<"head", cur>> \in bad
       THEN log' = <<Slots(None, prev)>> /\ mode' = "initial"
       ELSE UNCHANGED log /\ mode' = "replacement"
  /\ pc' = "unlink"
  /\ UNCHANGED <<docs, docsStable, synced, docsSynced, bad, acked, damage>>

Publish ==
  \/ BeginInitial \/ \E kind \in {"ordinary", "enqueue", "remove"} : BeginVersion(kind)
  \/ WriteDoc \/ RenameDoc \/ SyncDoc
  \/ UnlinkPrevious \/ LinkPrevious \/ SyncSlots \/ WriteHead \/ RenameHead \/ SyncHead
Next == Publish \/ CallFails \/ Crash \/ PowerLoss \/ Restart \/ Damage \/ Repair

Spec == Init /\ [][Next]_vars

-----------------------------------------------------------------------------
\* Until something outside damages it, a published head is readable in every
\* state, in the middle of a publication and after any crash or power loss: its
\* bytes are whole and the whole history behind it is there.
CurrentIsReadable ==
  cur # None /\ damage = Damages =>
    Usable(cur) /\ \A d \in History(files[cur].ord) : d \in docs /\ <<"doc", d>> \notin bad

\* No publication that returned is undone while nothing outside damages the
\* store: no later failure, crash or power loss selects an older version.
AckedIsKept == damage = Damages /\ acked > 0 => cur # None /\ files[cur].ver >= acked

\* The slot kept for repair, when there is one, is a whole earlier selection.
PreviousIsUsable ==
  damage = Damages /\ prev # None => Usable(prev) /\ files[prev].ver <= files[cur].ver

\* Repair after one damage costs at most the newest version: whatever was
\* published, interrupted or lost before, the current head that can be read is
\* never older than the one before the last acknowledged one.
RepairLosesOne == Usable(cur) => files[cur].ver + 1 >= acked

\* A head that repair published, or any publication that returned, selects only
\* documents that can be read.
ReturnsReadable ==
     pc' = "idle" /\ pc = "headsync" => Usable(cur)'

\* Without external damage the two slots are one register to a reader: the
\* unlink, the link and the rename are one write, and a power loss leaves the
\* new head or the one before it.
Register == INSTANCE DurableRegister WITH
              Initial <- None, val <- cur, stable <- {log[i].cur : i \in 1..Len(log)}
=============================================================================
