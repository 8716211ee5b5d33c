------------------------------- MODULE WorkGc -------------------------------
(* The collection of work files: the inventory is taken while agents still    *)
(* run and yields at every entry; then the runtime is parked, references are  *)
(* marked from the canonical state and the operational configuration, and the *)
(* candidates are selected, oldest first, and unlinked one by one.  Programs  *)
(* outside the runtime may change the work directory at any yield, and the    *)
(* operation may be cancelled at any.  Files lie in directories; what a text  *)
(* refers to is abstracted to a reference name and the files it stands for.   *)
EXTENDS Integers, FiniteSetTheorems, TLAPS

CONSTANTS Files,      \* paths below .saivage/work
          Dir,        \* the directory of each
          Owner,      \* the card of its namespace, or "none"
          Owners,     \* the cards that canonical state reaches
          Foreign,    \* files outside the collector's namespaces
          RefNames,   \* references that texts hold
          Names,      \* the paths a reference names, lexically
          Resolves,   \* and those its real path leads to
          Wild,       \* references whose scope cannot be told
          Limits,     \* the option target_bytes, 99 for none
          MaxChanges  \* bound: changes of files by others

WorkGcAssumption ==
  /\ Foreign \subseteq Files /\ DOMAIN Dir = Files /\ DOMAIN Owner = Files
  /\ DOMAIN Names = RefNames /\ DOMAIN Resolves = RefNames /\ Wild \subseteq RefNames
  /\ IsFiniteSet(Files) /\ Limits \subseteq Nat

VARIABLES file,      \* [there, ver, age, linked]: ver stands for inode, size and times
          refs,      \* references held by canonical state and configuration
          live,      \* directories processes capture their output in
          pc, req, todo, seen, marks, retainAll, queue, picked, gone, resp, abort, changes

vars == <<file, refs, live, pc, req, todo, seen, marks, retainAll, queue, picked, gone, resp, abort, changes>>

None == "none"
Old == 1
Recent == 2
NoCandidate == [ver |-> 0, age |-> 0]
NoResponse == [kind |-> None, deleted |-> {}, reason |-> None]

\* What a reference protects, whether it is written as a path, through an alias
\* or with a scope that cannot be told.
Meant(r) == IF r \in Wild THEN Files
            ELSE {f \in Files : {f, Dir[f]} \cap (Names[r] \cup Resolves[r]) # {}}

Init ==
  /\ file \in [Files -> [there : {TRUE}, ver : {1}, age : {Old, Recent}, linked : {FALSE}]]
  /\ refs = {} /\ live = {} /\ pc = "idle" /\ req = [mode |-> "delete", before |-> FALSE, target |-> 99]
  /\ todo = {} /\ seen = [f \in Files |-> NoCandidate] /\ marks = {} /\ retainAll = FALSE
  /\ queue = {} /\ picked = {} /\ gone = {} /\ resp = NoResponse /\ abort = FALSE /\ changes = 0

-----------------------------------------------------------------------------
(* inventoryWorkGarbage, with agents running *)

Begin ==
  /\ pc = "idle" /\ pc' = "inventory" /\ todo' = Files
  /\ \E mode \in {"dry_run", "delete"}, before \in BOOLEAN, target \in Limits :
       req' = [mode |-> mode, before |-> before, target |-> target]
  /\ UNCHANGED <<file, refs, live, seen, marks, retainAll, queue, picked, gone, resp, abort, changes>>

\* A file is a candidate when it is an ordinary file in a namespace of the
\* collector, reached through ordinary directories.
Candidate(f) == file[f].there /\ ~file[f].linked /\ f \notin Foreign
Visit ==
  /\ pc = "inventory" /\ ~abort /\ todo # {}
  /\ LET f == CHOOSE g \in todo : TRUE IN
       /\ todo' = todo \ {f}
       /\ seen' = IF Candidate(f) THEN [seen EXCEPT ![f] = [ver |-> file[f].ver, age |-> file[f].age]] ELSE seen
  /\ UNCHANGED <<file, refs, live, pc, req, marks, retainAll, queue, picked, gone, resp, abort, changes>>

\* The Supervisor parks the runtime; from here on agents are still.
Hold ==
  /\ pc = "inventory" /\ todo = {} /\ ~abort /\ pc' = "held"
  /\ UNCHANGED <<file, refs, live, req, todo, seen, marks, retainAll, queue, picked, gone, resp, abort, changes>>

\* The selected configuration is read again, and must be the running one;
\* captures of processes are protected by their directory.
Collect ==
  /\ pc = "held" /\ ~abort /\ pc' = "marking"
  /\ marks' = live /\ retainAll' \in {FALSE, live # {}} /\ todo' = refs
  /\ UNCHANGED <<file, refs, live, req, seen, queue, picked, gone, resp, abort, changes>>

\* Seeded fault: a reference marks the path as it is written.
MarkLexically(r) == marks' = marks \cup Names[r] /\ UNCHANGED retainAll
\* text and value: the paths found in a text and in the fields of a value.
Found(r) == Names[r] \cup Resolves[r]
\* path and token: the path as written and the path it resolves to.
MarkReference(r) ==
  IF r \in Wild THEN retainAll' = TRUE /\ UNCHANGED marks
  ELSE marks' = marks \cup Found(r) /\ UNCHANGED retainAll
\* markCanonical: every reference of reached cards, records, conversations and
\* unfinished executions, yielding between them.
Mark ==
  /\ pc = "marking" /\ ~abort /\ todo # {}
  /\ LET r == CHOOSE x \in todo : TRUE IN MarkReference(r) /\ todo' = todo \ {r}
  /\ UNCHANGED <<file, refs, live, pc, req, seen, queue, picked, gone, resp, abort, changes>>
Marked ==
  /\ pc = "marking" /\ ~abort /\ todo = {} /\ pc' = "selecting"
  /\ queue' = {f \in Files : seen[f] # NoCandidate}
  /\ UNCHANGED <<file, refs, live, req, todo, seen, marks, retainAll, picked, gone, resp, abort, changes>>

-----------------------------------------------------------------------------
(* The selection *)

\* protects: a marked path or an ancestor of it.
Protects(f) == retainAll \/ {f, Dir[f]} \cap marks # {}
\* unchanged: the identity, size and times of the candidate, no link on the way.
Unchanged(f) == file[f].there /\ ~file[f].linked /\ file[f].ver = seen[f].ver
Observed == Cardinality({f \in Files : seen[f] # NoCandidate})
\* The accounted bytes that remain are within the target; a file is one byte.
TargetMet(taken) == req.target # 99 /\ Observed - Cardinality(taken) <= req.target

Selectable(f) ==
  /\ Owner[f] # None => Owner[f] \in Owners
  /\ ~Protects(f) /\ ~(req.before /\ seen[f].age = Recent)
  /\ Unchanged(f) /\ ~TargetMet(picked)

\* The oldest candidate left, by path among equals.
Oldest(f) == \A g \in queue : seen[f].age <= seen[g].age

Deleted(f) == [file EXCEPT ![f].there = FALSE]
\* Each candidate is judged after a yield; a failure from the unlink on is fatal.
Select ==
  /\ pc = "selecting" /\ ~abort
  /\ \E f \in queue :
       /\ Oldest(f) /\ queue' = queue \ {f}
       /\ \/ /\ ~Selectable(f) /\ UNCHANGED <<file, picked, gone, pc>>
          \/ /\ Selectable(f) /\ picked' = picked \cup {f} /\ UNCHANGED pc
             /\ IF req.mode = "delete" THEN file' = Deleted(f) /\ gone' = gone \cup {f}
                ELSE UNCHANGED <<file, gone>>
          \/ /\ Selectable(f) /\ req.mode = "delete" /\ pc' = "down" /\ UNCHANGED picked
             /\ \/ file' = Deleted(f) /\ gone' = gone \cup {f}
                \/ UNCHANGED <<file, gone>>
  /\ UNCHANGED <<refs, live, req, todo, seen, marks, retainAll, resp, abort, changes>>

Report == IF req.mode = "delete" THEN picked ELSE {}
Complete ==
  /\ pc = "selecting" /\ queue = {} /\ ~abort /\ pc' = "done"
  /\ resp' = [kind |-> "completed", deleted |-> Report, reason |-> "completed"]
  /\ UNCHANGED <<file, refs, live, req, todo, seen, marks, retainAll, queue, picked, gone, abort, changes>>

\* workGcFailureResponse: an interrupted selection keeps its attribution.
FailureResponse(reason) ==
  IF pc = "selecting" THEN [kind |-> "interrupted", deleted |-> Report, reason |-> reason]
  ELSE [kind |-> "refused", deleted |-> {}, reason |-> reason]
\* An aborted signal is met at the next check; a damaged canonical state, a
\* changed configuration or an unreadable directory ends the operation as well.
Fail ==
  /\ pc \in {"inventory", "held", "marking", "selecting"} /\ pc' = "done"
  /\ \/ abort /\ resp' = FailureResponse("cancelled")
     \/ ~abort /\ pc = "inventory" /\ resp' = FailureResponse("inventory_failed")
     \/ ~abort /\ pc = "held" /\ resp' \in {FailureResponse("maintenance_refused"), FailureResponse("operational_inputs_invalid")}
     \/ ~abort /\ pc \in {"marking", "selecting"} /\ resp' = FailureResponse("collection_failed")
  /\ UNCHANGED <<file, refs, live, req, todo, seen, marks, retainAll, queue, picked, gone, abort, changes>>

Abort ==
  /\ pc \in {"inventory", "held", "marking", "selecting"} /\ ~abort /\ abort' = TRUE
  /\ UNCHANGED <<file, refs, live, pc, req, todo, seen, marks, retainAll, queue, picked, gone, resp, changes>>

-----------------------------------------------------------------------------
(* Everyone else *)

Count == changes < MaxChanges /\ changes' = changes + 1
\* Agents, until they are parked: they refer to files, forget them and start
\* processes that capture output.
AgentActs ==
  /\ pc \in {"idle", "inventory"} /\ Count
  /\ \/ \E r \in RefNames : refs' = (refs \ {r}) \cup ({r} \ refs) /\ UNCHANGED live
     \/ \E f \in Files : live' = live \cup {Dir[f]} /\ UNCHANGED refs
  /\ UNCHANGED <<file, pc, req, todo, seen, marks, retainAll, queue, picked, gone, resp, abort>>
\* Programs outside write a file anew, remove one, or put a link in the way.
FileChanges(f) ==
  /\ pc \notin {"done", "down"} /\ Count
  /\ \/ \E age \in {Old, Recent} : file' = [file EXCEPT ![f] = [there |-> TRUE, ver |-> @.ver + 1, age |-> age, linked |-> @.linked]]
     \/ file[f].there /\ file' = [file EXCEPT ![f].there = FALSE]
     \/ file' = [g \in Files |-> IF Dir[g] = Dir[f] THEN [file[g] EXCEPT !.linked = TRUE] ELSE file[g]]
  /\ UNCHANGED <<refs, live, pc, req, todo, seen, marks, retainAll, queue, picked, gone, resp, abort>>

Collector == Visit \/ Hold \/ Collect \/ Mark \/ Marked \/ Select \/ Complete \/ (abort /\ Fail)

Next == Begin \/ Collector \/ Fail \/ Abort \/ AgentActs \/ \E f \in Files : FileChanges(f)

\* The collector runs on the event loop and yields only to it.
Spec == Init /\ [][Next]_vars /\ WF_vars(Collector)

-----------------------------------------------------------------------------
TypeOK ==
  /\ pc \in {"idle", "inventory", "held", "marking", "selecting", "done", "down"}
  /\ todo \subseteq Files \cup RefNames /\ queue \subseteq Files /\ picked \subseteq Files

Unlinks(f) == gone' # gone /\ f \in gone' \ gone

\* What the collector unlinks is not what anything refers to at that moment, by
\* name, by directory or through an alias, nor in a directory captured into,
\* although references came and went while the inventory was taken.
ReferencedIsKept ==
     \A f \in Files : Unlinks(f) => Dir[f] \notin live /\ \A r \in refs : f \notin Meant(r)

\* It is the very file of the inventory, reached without a link, of a card that
\* exists and old enough for the request.
OnlyWhatWasSeen ==
     \A f \in Files : Unlinks(f) => /\ file[f].ver = seen[f].ver /\ ~file[f].linked /\ f \notin Foreign
                                    /\ req.before => file[f].age = Old

\* No more is unlinked than the target asks for.
NoMoreThanAsked ==
     gone' # gone /\ req.target # 99 => Observed - Cardinality(gone) > req.target

\* A response accounts for every file the operation has unlinked, also when it
\* was interrupted between two of them; a dry run unlinks nothing.
ReportIsTrue == /\ pc = "done" => resp.deleted = gone
                /\ req.mode = "dry_run" => gone = {}

\* Every operation is answered, or the application is down over an unlink
\* whose outcome is unknown.
Collecting == pc \notin {"idle", "done", "down"}

-----------------------------------------------------------------------------
(* The collection is safe for every work directory, every set of references    *)
(* and every number of changes by others.                                      *)

FileStates == [there : BOOLEAN, ver : Nat, age : {Old, Recent}, linked : BOOLEAN]
Seen == {NoCandidate} \cup [ver : Nat, age : {Old, Recent}]

Typed ==
  /\ file \in [Files -> FileStates] /\ seen \in [Files -> Seen]
  /\ req \in [mode : {"dry_run", "delete"}, before : BOOLEAN, target : Nat]
  /\ queue \subseteq Files /\ picked \subseteq Files
  /\ pc = "inventory" => todo \subseteq Files

\* A version of a file has one age, and a candidate is of a version there was.
SeenInv ==
  /\ \A f \in Files : seen[f] # NoCandidate =>
       /\ f \notin Foreign /\ seen[f].ver <= file[f].ver
       /\ seen[f].ver = file[f].ver => seen[f].age = file[f].age
  /\ \A f \in queue : seen[f] # NoCandidate

\* Once agents are parked everything that is referred to is still to be marked,
\* or marked.
Covered(r) == IF r \in Wild THEN retainAll ELSE Names[r] \cup Resolves[r] \subseteq marks
MarkInv ==
  /\ pc = "marking" => (live \subseteq marks /\ \A r \in refs : r \in todo \/ Covered(r))
  /\ pc = "selecting" => (live \subseteq marks /\ \A r \in refs : Covered(r))

\* The files unlinked are the selected ones, but for one whose unlink failed.
GoneInv ==
  /\ pc \in {"idle", "inventory", "held", "marking"} => picked = {}
  /\ pc # "down" => gone = Report
  /\ req.mode = "dry_run" => gone = {}
  /\ pc = "done" => resp.deleted = gone

GcInv == Typed /\ SeenInv /\ MarkInv /\ GoneInv

\* The initial state: nothing is seen, marked or unlinked.
LEMMA InitGc ==
  ASSUME WorkGcAssumption, Init
  PROVE  GcInv
<1>1. Typed
  <2>1. [there : {TRUE}, ver : {1}, age : {Old, Recent}, linked : {FALSE}] \subseteq FileStates
    <3> SUFFICES ASSUME NEW s \in [there : {TRUE}, ver : {1}, age : {Old, Recent}, linked : {FALSE}]
                 PROVE  s \in FileStates
      OBVIOUS
    <3>1. s = [there |-> s.there, ver |-> s.ver, age |-> s.age, linked |-> s.linked]
      OBVIOUS
    <3>2. s.there \in {TRUE} /\ s.linked \in {FALSE}
      OBVIOUS
    <3>3. s.there \in BOOLEAN /\ s.linked \in BOOLEAN
      BY <3>2, Zenon
    <3>4. s.ver \in Nat /\ s.age \in {Old, Recent}
      OBVIOUS
    <3> QED BY <3>1, <3>3, <3>4 DEF FileStates
  <2>2. file \in [Files -> FileStates]
    BY <2>1 DEF Init
  <2>3. seen \in [Files -> Seen]
    BY DEF Init, Seen
  <2> QED BY <2>2, <2>3 DEF Init, Typed
<1>2. SeenInv /\ MarkInv /\ GoneInv
  BY DEF Init, SeenInv, MarkInv, GoneInv, Report, NoCandidate
<1> QED BY <1>1, <1>2 DEF GcInv

\* Steps that leave the files, what was seen and what is queued alone
LEMMA SeenFrame ==
  ASSUME SeenInv, UNCHANGED <<file, seen>>, queue' \subseteq queue
  PROVE  SeenInv'
  BY DEF SeenInv

\* Steps that leave the selection and its report alone
LEMMA GoneFrame ==
  ASSUME GoneInv, UNCHANGED <<req, picked, gone>>, pc \in {"idle", "inventory", "held", "marking", "selecting"},
         \/ pc' = pc
         \/ pc' \in {"inventory", "held", "marking"} /\ pc \in {"idle", "inventory", "held"}
         \/ pc' = "selecting"
  PROVE  GoneInv'
  BY DEF GoneInv, Report

\* A request begins with nothing selected.
LEMMA BeginGc ==
  ASSUME WorkGcAssumption, GcInv, Begin
  PROVE  GcInv'
<1> USE DEF GcInv
<1>1. Typed'
  <2>1. PICK mode \in {"dry_run", "delete"}, before \in BOOLEAN, target \in Limits :
          req' = [mode |-> mode, before |-> before, target |-> target]
    BY DEF Begin
  <2>2. req' \in [mode : {"dry_run", "delete"}, before : BOOLEAN, target : Nat]
    BY <2>1 DEF WorkGcAssumption
  <2> QED BY <2>2 DEF Typed, Begin
<1>2. SeenInv'
  BY SeenFrame DEF Begin
<1>3. MarkInv'
  BY DEF Begin, MarkInv
<1>4. GoneInv'
  BY DEF Begin, GoneInv, Report
<1> QED BY <1>1, <1>2, <1>3, <1>4

\* A file is seen with its version and age of that moment.
LEMMA VisitGc ==
  ASSUME WorkGcAssumption, GcInv, Visit
  PROVE  GcInv'
<1> USE DEF GcInv
<1>1. PICK f \in todo : /\ todo' = todo \ {f}
                        /\ seen' = IF Candidate(f) THEN [seen EXCEPT ![f] = [ver |-> file[f].ver, age |-> file[f].age]] ELSE seen
  BY DEF Visit
<1>2. f \in Files /\ file[f] \in FileStates /\ UNCHANGED <<file, pc, req, queue, picked, gone, refs, live, marks, retainAll, resp>> /\ pc = "inventory"
  BY DEF Typed, Visit
<1>3. CASE ~Candidate(f)
  <2>1. UNCHANGED seen
    BY <1>1, <1>3
  <2> QED BY <1>1, <1>2, <2>1, SeenFrame, GoneFrame DEF Typed, MarkInv
<1>4. CASE Candidate(f)
  <2>1. file[f].ver \in Nat /\ file[f].age \in {Old, Recent}
    BY <1>2 DEF FileStates
  <2>2. /\ seen' = [seen EXCEPT ![f] = [ver |-> file[f].ver, age |-> file[f].age]]
        /\ [ver |-> file[f].ver, age |-> file[f].age] \in Seen
    BY <1>1, <1>4, <2>1 DEF Seen
  <2>3. /\ seen' \in [Files -> Seen] /\ seen'[f].ver = file[f].ver /\ seen'[f].age = file[f].age
        /\ \A g \in Files : g # f => seen'[g] = seen[g]
    BY <1>2, <2>2 DEF Typed
  <2>4. Typed'
    BY <1>1, <1>2, <2>3 DEF Typed
  <2>5. seen'[f] # NoCandidate /\ f \notin Foreign
    BY <1>4, <2>1, <2>3 DEF NoCandidate, Candidate, Old, Recent
  <2>6. SeenInv'
    <3>1. \A g \in Files : g = f => (g \notin Foreign /\ seen'[g].ver <= file[g].ver /\ seen'[g].age = file[g].age)
      BY <2>1, <2>3, <2>5
    <3>2. \A g \in queue : seen'[g] # NoCandidate
      BY <2>3, <2>5 DEF SeenInv, Typed
    <3> QED BY <1>2, <2>3, <3>1, <3>2 DEF SeenInv
  <2> QED BY <1>1, <1>2, <2>4, <2>6, GoneFrame DEF MarkInv
<1> QED BY <1>3, <1>4

\* The runtime is parked.
LEMMA HoldGc ==
  ASSUME WorkGcAssumption, GcInv, Hold
  PROVE  GcInv'
<1>1. Typed' /\ MarkInv'
  BY DEF GcInv, Typed, MarkInv, Hold
<1> QED BY <1>1, SeenFrame, GoneFrame DEF GcInv, Hold

\* Captures are marked and every reference is to be.
LEMMA CollectGc ==
  ASSUME WorkGcAssumption, GcInv, Collect
  PROVE  GcInv'
<1>1. Typed' /\ MarkInv'
  BY DEF GcInv, Typed, MarkInv, Collect
<1> QED BY <1>1, SeenFrame, GoneFrame DEF GcInv, Collect

\* Marking a reference covers it and uncovers none.
LEMMA MarkGc ==
  ASSUME WorkGcAssumption, GcInv, Mark
  PROVE  GcInv'
<1>1. PICK r \in todo : MarkReference(r) /\ todo' = todo \ {r}
  BY DEF Mark
<1>2. marks \subseteq marks' /\ (retainAll => retainAll') /\ Covered(r)'
  BY <1>1 DEF MarkReference, Covered, Found
<1>3. \A q \in refs : Covered(q) => Covered(q)'
  BY <1>2 DEF Covered
<1>4. MarkInv'
  BY <1>1, <1>2, <1>3 DEF GcInv, MarkInv, Mark
<1>5. Typed'
  BY DEF GcInv, Typed, Mark
<1> QED BY <1>4, <1>5, SeenFrame, GoneFrame DEF GcInv, Mark

\* The candidates are queued once every reference is covered.
LEMMA MarkedGc ==
  ASSUME WorkGcAssumption, GcInv, Marked
  PROVE  GcInv'
<1>1. Typed'
  BY DEF GcInv, Typed, Marked
<1>2. MarkInv'
  BY DEF GcInv, MarkInv, Marked, Covered
<1>3. SeenInv'
  BY DEF GcInv, SeenInv, Marked
<1> QED BY <1>1, <1>2, <1>3, GoneFrame DEF GcInv, Marked

\* Unlinking a file keeps its version and its age.
LEMMA DeletedFile ==
  ASSUME Typed, NEW f \in Files
  PROVE  /\ Deleted(f) \in [Files -> FileStates]
         /\ \A g \in Files : Deleted(f)[g].ver = file[g].ver /\ Deleted(f)[g].age = file[g].age
<1>1. file \in [Files -> FileStates] /\ file[f] \in FileStates
  BY DEF Typed
<1>2. [file[f] EXCEPT !.there = FALSE] \in FileStates
      /\ [file[f] EXCEPT !.there = FALSE].ver = file[f].ver /\ [file[f] EXCEPT !.there = FALSE].age = file[f].age
  BY <1>1 DEF FileStates
<1> QED BY <1>1, <1>2 DEF Deleted

\* A step of the selection: what it unlinks was selectable, and is selected
\* unless the unlink failed.
LEMMA SelectGc ==
  ASSUME WorkGcAssumption, GcInv, Select
  PROVE  GcInv'
<1> USE DEF GcInv
<1>1. PICK f \in queue :
        /\ queue' = queue \ {f}
        /\ \/ UNCHANGED <<file, picked, gone, pc>>
           \/ /\ picked' = picked \cup {f} /\ UNCHANGED pc
              /\ IF req.mode = "delete" THEN file' = Deleted(f) /\ gone' = gone \cup {f}
                 ELSE UNCHANGED <<file, gone>>
           \/ /\ req.mode = "delete" /\ pc' = "down" /\ UNCHANGED picked
              /\ \/ file' = Deleted(f) /\ gone' = gone \cup {f}
                 \/ UNCHANGED <<file, gone>>
  BY DEF Select
<1>2. UNCHANGED <<refs, live, req, todo, seen, marks, retainAll, resp>> /\ pc = "selecting" /\ f \in Files
  BY DEF Select, Typed
<1>3. /\ file' \in [Files -> FileStates]
      /\ \A g \in Files : file'[g].ver = file[g].ver /\ file'[g].age = file[g].age
  BY <1>1, <1>2, DeletedFile DEF Typed
<1>4. Typed'
  BY <1>1, <1>2, <1>3 DEF Typed
<1>5. SeenInv'
  BY <1>1, <1>2, <1>3 DEF SeenInv, Typed
<1>6. MarkInv'
  BY <1>1, <1>2 DEF MarkInv, Covered
<1>7. GoneInv'
  BY <1>1, <1>2 DEF GoneInv, Report, Typed
<1> QED BY <1>4, <1>5, <1>6, <1>7

\* The answer reports what was unlinked.
LEMMA EndGc ==
  ASSUME WorkGcAssumption, GcInv, Complete \/ Fail
  PROVE  GcInv'
<1> USE DEF GcInv
<1>1. UNCHANGED <<file, refs, live, req, todo, seen, marks, retainAll, queue, picked, gone>> /\ pc' = "done"
  BY DEF Complete, Fail
<1>2. Typed' /\ MarkInv'
  BY <1>1 DEF Typed, MarkInv
<1>3. resp'.deleted = gone
  BY DEF Complete, Fail, FailureResponse, GoneInv, Report
<1>4. GoneInv'
  BY <1>1, <1>3 DEF GoneInv, Report, Complete, Fail
<1> QED BY <1>1, <1>2, <1>4, SeenFrame

\* A cancellation is only noted.
LEMMA AbortGc ==
  ASSUME WorkGcAssumption, GcInv, Abort
  PROVE  GcInv'
<1>1. Typed' /\ MarkInv'
  BY DEF GcInv, Typed, MarkInv, Covered, Abort
<1> QED BY <1>1, SeenFrame, GoneFrame DEF GcInv, Abort

\* Agents refer and capture only before they are parked.
LEMMA AgentGc ==
  ASSUME WorkGcAssumption, GcInv, AgentActs
  PROVE  GcInv'
<1>1. Typed' /\ MarkInv'
  BY DEF GcInv, Typed, MarkInv, AgentActs
<1> QED BY <1>1, SeenFrame, GoneFrame DEF GcInv, AgentActs

\* Another program's write makes a new version; its other changes keep version and age.
LEMMA FileGc ==
  ASSUME WorkGcAssumption, GcInv, NEW f \in Files, FileChanges(f)
  PROVE  GcInv'
<1> USE DEF GcInv
<1>1. UNCHANGED <<refs, live, pc, req, todo, seen, marks, retainAll, queue, picked, gone, resp>>
  BY DEF FileChanges
<1>2. MarkInv' /\ GoneInv'
  BY <1>1 DEF MarkInv, Covered, GoneInv, Report
<1>3. file \in [Files -> FileStates] /\ \A g \in Files : file[g] \in FileStates
  BY DEF Typed
<1>4. /\ file' \in [Files -> FileStates]
      /\ \A g \in Files : \/ file'[g].ver = file[g].ver + 1
                          \/ file'[g].ver = file[g].ver /\ file'[g].age = file[g].age
  <2>1. CASE \E age \in {Old, Recent} : file' = [file EXCEPT ![f] = [there |-> TRUE, ver |-> @.ver + 1, age |-> age, linked |-> @.linked]]
    <3>1. PICK age \in {Old, Recent} :
            file' = [file EXCEPT ![f] = [there |-> TRUE, ver |-> file[f].ver + 1, age |-> age, linked |-> file[f].linked]]
      BY <2>1
    <3>2. [there |-> TRUE, ver |-> file[f].ver + 1, age |-> age, linked |-> file[f].linked] \in FileStates
      BY <1>3 DEF FileStates
    <3> QED BY <1>3, <3>1, <3>2
  <2>2. CASE file' = [file EXCEPT ![f].there = FALSE]
    BY <2>2, DeletedFile DEF Deleted
  <2>3. CASE file' = [g \in Files |-> IF Dir[g] = Dir[f] THEN [file[g] EXCEPT !.linked = TRUE] ELSE file[g]]
    <3>1. \A g \in Files : /\ [file[g] EXCEPT !.linked = TRUE] \in FileStates
                           /\ [file[g] EXCEPT !.linked = TRUE].ver = file[g].ver
                           /\ [file[g] EXCEPT !.linked = TRUE].age = file[g].age
      BY <1>3 DEF FileStates
    <3> QED BY <1>3, <2>3, <3>1
  <2> QED BY <2>1, <2>2, <2>3 DEF FileChanges
<1>5. Typed'
  BY <1>1, <1>4 DEF Typed
<1>6. SeenInv'
  <2>1. \A g \in Files : file[g].ver \in Nat
    BY <1>3 DEF FileStates
  <2>2. \A g \in Files : seen[g] # NoCandidate => seen[g].ver \in Nat
    BY DEF Typed, Seen
  <2> QED BY <1>1, <1>4, <2>1, <2>2 DEF SeenInv
<1> QED BY <1>2, <1>5, <1>6

\* Every step keeps the inductive invariant.
LEMMA StepGc ==
  ASSUME WorkGcAssumption, GcInv, [Next]_vars
  PROVE  GcInv'
<1>1. CASE UNCHANGED vars
  BY <1>1 DEF GcInv, Typed, SeenInv, MarkInv, Covered, GoneInv, Report, vars
<1>2. CASE Next
  BY <1>2, BeginGc, VisitGc, HoldGc, CollectGc, MarkGc, MarkedGc, SelectGc, EndGc, AbortGc, AgentGc, FileGc DEF Next, Collector
<1> QED BY <1>1, <1>2

\* The inductive invariant holds in every state.
LEMMA GcHolds == ASSUME WorkGcAssumption PROVE Spec => []GcInv
<1>1. Init => GcInv
  BY InitGc
<1>2. GcInv /\ [Next]_vars => GcInv'
  BY StepGc
<1> QED BY <1>1, <1>2, PTL DEF Spec

\* Only the selection unlinks, and only what it may select.
LEMMA UnlinkIsSelected ==
  ASSUME WorkGcAssumption, GcInv, [Next]_vars, gone' # gone
  PROVE  /\ pc = "selecting" /\ req.mode = "delete"
         /\ \E f \in queue : Selectable(f) /\ gone' \subseteq gone \cup {f}
<1>1. Select
  BY DEF Next, Collector, Begin, Visit, Hold, Collect, Mark, Marked, Complete, Fail, Abort, AgentActs, FileChanges, vars
<1> QED BY <1>1 DEF Select

\* Nothing that canonical state, the configuration or a running capture refers to
\* is unlinked, by name, by directory, through an alias or by a scope that cannot
\* be told, whatever came and went during the inventory (work-gc marking).
THEOREM CollectionKeepsReferenced == ASSUME WorkGcAssumption PROVE Spec => [][ReferencedIsKept]_vars
<1>1. ASSUME GcInv, [Next]_vars PROVE ReferencedIsKept
  <2> SUFFICES ASSUME NEW f \in Files, gone' # gone, f \in gone' \ gone
               PROVE  Dir[f] \notin live /\ \A r \in refs : f \notin Meant(r)
    BY DEF ReferencedIsKept, Unlinks
  <2>1. pc = "selecting" /\ Selectable(f)
    BY <1>1, UnlinkIsSelected
  <2>2. ~retainAll /\ f \notin marks /\ Dir[f] \notin marks
    BY <2>1 DEF Selectable, Protects
  <2>3. live \subseteq marks /\ \A r \in refs : Covered(r)
    BY <1>1, <2>1 DEF GcInv, MarkInv
  <2> QED BY <2>2, <2>3 DEF Covered, Meant
<1> QED BY <1>1, GcHolds, PTL DEF Spec

\* What is unlinked is the very file of the inventory: the version that was seen,
\* reached without a link, in a namespace of the collector and old enough.
THEOREM CollectionUnlinksSeen == ASSUME WorkGcAssumption PROVE Spec => [][OnlyWhatWasSeen]_vars
<1>1. ASSUME GcInv, [Next]_vars PROVE OnlyWhatWasSeen
  <2> SUFFICES ASSUME NEW f \in Files, gone' # gone, f \in gone' \ gone
               PROVE  /\ file[f].ver = seen[f].ver /\ ~file[f].linked /\ f \notin Foreign
                      /\ req.before => file[f].age = Old
    BY DEF OnlyWhatWasSeen, Unlinks
  <2>1. f \in queue /\ Selectable(f)
    BY <1>1, UnlinkIsSelected
  <2>2. file[f].ver = seen[f].ver /\ ~file[f].linked /\ (req.before => seen[f].age # Recent)
    BY <2>1 DEF Selectable, Unchanged
  <2>3. f \notin Foreign /\ seen[f].age = file[f].age
    BY <1>1, <2>1, <2>2 DEF GcInv, SeenInv
  <2>4. file[f].age \in {Old, Recent}
    BY <1>1 DEF GcInv, Typed, FileStates
  <2> QED BY <2>2, <2>3, <2>4
<1> QED BY <1>1, GcHolds, PTL DEF Spec

\* An unlink is made only while more than the target remains accounted for.
THEOREM CollectionStopsAtTarget == ASSUME WorkGcAssumption PROVE Spec => [][NoMoreThanAsked]_vars
<1>1. ASSUME GcInv, [Next]_vars PROVE NoMoreThanAsked
  <2> SUFFICES ASSUME gone' # gone, req.target # 99
               PROVE  Observed - Cardinality(gone) > req.target
    BY DEF NoMoreThanAsked
  <2>1. pc = "selecting" /\ gone = picked /\ ~TargetMet(picked)
    BY <1>1, UnlinkIsSelected DEF GcInv, GoneInv, Report, Selectable
  <2>2. Cardinality(picked) \in Nat /\ Observed \in Nat /\ req.target \in Nat
    <3>1. IsFiniteSet(picked) /\ IsFiniteSet({f \in Files : seen[f] # NoCandidate})
      BY <1>1, FS_Subset DEF GcInv, Typed, WorkGcAssumption
    <3> QED BY <1>1, <3>1, FS_CardinalityType DEF Observed, GcInv, Typed
  <2> QED BY <2>1, <2>2 DEF TargetMet
<1> QED BY <1>1, GcHolds, PTL DEF Spec

\* The response names exactly the files that were unlinked, complete or
\* interrupted, and a dry run unlinks none.
THEOREM CollectionReportIsTrue == ASSUME WorkGcAssumption PROVE Spec => []ReportIsTrue
<1>1. GcInv => ReportIsTrue
  BY DEF GcInv, GoneInv, ReportIsTrue
<1> QED BY <1>1, GcHolds, PTL
=============================================================================
