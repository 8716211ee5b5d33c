--------------------------- MODULE WorkspaceTools ---------------------------
(* The file tools of the agents: the depth-first search behind glob and grep, *)
(* which lists one directory at a time while other processes create and       *)
(* remove files, and the write, edit and patch tools with the gate that       *)
(* decides which paths they may touch.  A path is a sequence of names; names  *)
(* are numbers, ordered as the code orders strings.                           *)
EXTENDS Integers, Sequences, FiniteSets, SequencesExt, FiniteSetsExt

CONSTANTS Paths,      \* the paths there can be
          Project,    \* the project root
          Work,       \* the work root inside Saivage's own directory
          OwnTmp,     \* the temporary directory of the writing agent's card
          OtherTmp,   \* that of another card
          Saivage,    \* the name of Saivage's directory
          Skipped,    \* names of dependency, build and cache directories
          Records,    \* records: <<card, name>>, and <<card, name, version>> for the accepted versions
          Secret,     \* paths that look like credentials
          LinkTo,     \* where each symbolic link leads
          InitialKinds, \* the trees to start from
          Policies,   \* contents of the search policy: [bad, dirs]
          Volatile,   \* paths other processes create and remove
          Roots,      \* where searches start: spellings
          Targets,    \* what the mutating tools are pointed at: spellings
          Patches,    \* the sets of paths patches are about
          MaxChanges, \* bound: changes of other processes
          MaxCalls    \* bound: calls of the mutating tools

WorkspaceAssumption ==
  /\ DOMAIN LinkTo \subseteq Paths
  /\ {Project, Work, OwnTmp, OtherTmp} \subseteq Paths
  /\ IsPrefix(Project \o <<Saivage>>, Work) /\ IsPrefix(Work, OwnTmp) /\ IsPrefix(Work, OtherTmp)

VARIABLES kind,     \* what is at each path
          author,   \* who wrote each file last
          policy,   \* the search policy on disk
          quiet,    \* the runtime is wholly stopped: the sources are free
          walk,     \* the search
          steady,   \* files that have been there since the search began
          answer,   \* the outcome of a mutating tool, in the step that gives it
          patch,    \* the patch that was checked and is about to be applied
          changes, calls

vars == <<kind, author, policy, quiet, walk, steady, answer, patch, changes, calls>>

None == [who |-> "none", is |-> "none"]
NoPatch == [who |-> "none", base |-> <<>>]
Idle == [phase |-> "idle", at |-> <<>>, start |-> <<>>, root |-> <<>>, ignore |-> {}, stack |-> <<>>, seen |-> <<>>, opened |-> {}]

-----------------------------------------------------------------------------
(* The file system *)

KindAt(p) == IF p \in Paths THEN kind[p] ELSE "none"
Parent(p) == Front(p)
Within(root, p) == IsPrefix(root, p)
\* The path with its link, if it has one, followed.
Real(p) ==
  IF \E q \in Prefixes(p) : KindAt(q) = "link"
  THEN LET q == CHOOSE q \in Prefixes(p) : KindAt(q) = "link"
       IN LinkTo[q] \o SubSeq(p, Len(q) + 1, Len(p))
  ELSE p
\* The error of a system call on p that does not follow a last link.
Lstat(p) ==
  LET r == IF KindAt(p) = "link" THEN p ELSE Real(p)
  IN IF \E q \in Prefixes(r) \ {r} : KindAt(q) = "file" THEN "ENOTDIR"
     ELSE IF KindAt(r) = "none" THEN "ENOENT" ELSE "ok"
Realpath(p) == Lstat(Real(p))
\* The errors the tools turn into a failed result; any other is a fault.
IsExpectedWorkspaceFailure(code) == code \in {"refused", "ENOENT", "ENOTDIR", "EISDIR", "EACCES", "EPERM"}
Settled(code) == IF code = "ok" THEN "applied" ELSE IF IsExpectedWorkspaceFailure(code) THEN "failed" ELSE "fault"

-----------------------------------------------------------------------------
(* Which paths may be read *)

Names(p) == ToSet(p)
IsAgentReadBlocked(p, root) ==
  \/ p \in Secret
  \/ Saivage \in Names(IF root # <<>> /\ Within(root, p) THEN SubSeq(p, Len(root) + 1, Len(p)) ELSE p)
\* "blocked", the error of resolving it, or "ok".
InspectAgentReadPath(p, root) ==
  IF IsAgentReadBlocked(p, root) THEN "blocked"
  ELSE IF Realpath(p) # "ok" THEN Realpath(p)
  ELSE IF IsAgentReadBlocked(Real(p), root) THEN "blocked" ELSE "ok"

IsSaivageInternalDestination(p) == Within(Project \o <<Saivage>>, p)

\* A path given by a project, tmp or work URL stays inside the project.
ResolveContained(p) == Within(Project, p) /\ (Realpath(p) = "ok" => Within(Project, Real(p)))
\* A record URL names a card to search, a current record to write, or any version to read.
ResolveRecord(p, mode) ==
  CASE mode = "search" -> Len(p) = 1
    [] mode = "write" -> Len(p) = 2 /\ p \in Records
    [] mode = "read" -> p \in Records \/ Len(p) = 1
ScopedPathResolvers(s, mode) ==
  CASE s.scheme = "project" -> ResolveContained(s.path)
    [] s.scheme = "work" -> mode # "write" /\ Within(Work, s.path) /\ ResolveContained(s.path)
    [] s.scheme = "tmp" -> /\ Within(OwnTmp, s.path) \/ (Within(OtherTmp, s.path) /\ mode # "write")
                           /\ ResolveContained(s.path)
    [] OTHER -> TRUE
ResolveScopedPath(s, mode) ==
  IF IF s.scheme = "record" THEN ResolveRecord(s.path, mode) ELSE ScopedPathResolvers(s, mode) THEN "ok" ELSE "refused"
ResourceRootForRead(s) ==
  CASE s.scheme = "work" -> Work
    [] s.scheme = "tmp" -> IF Within(OwnTmp, s.path) THEN OwnTmp ELSE OtherTmp
    [] OTHER -> <<>>
ResolveAgentReadPath(s) ==
  IF ResolveScopedPath(s, "search") # "ok" THEN "refused"
  ELSE IF s.scheme = "record" THEN IF \E r \in Records : Within(s.path, r) THEN "ok" ELSE "refused"
  ELSE LET i == InspectAgentReadPath(s.path, ResourceRootForRead(s)) IN IF i = "blocked" THEN "refused" ELSE i

Entries(d) == {p \in Paths : Len(p) = Len(d) + 1 /\ Within(d, p) /\ kind[p] # "none"}
\* The entries a directory shows: an entry that cannot be resolved fails the whole listing.
EntryCode(s, p) == IF Last(p) \in Skipped THEN "blocked" ELSE InspectAgentReadPath(p, ResourceRootForRead(s))
Shown(s) == {s.path \o <<Last(p)>> : p \in Entries(Real(s.path))}
ListScopedPath(s) ==
  IF ResolveAgentReadPath(s) = "ok" /\ \A p \in Shown(s) : EntryCode(s, p) \in {"ok", "blocked"}
  THEN {p \in Shown(s) : EntryCode(s, p) = "ok"} ELSE {}

\* Pictures are held to the project, by the spelling and by where it leads.
ImageSource(p, scheme) == /\ Within(Project, p)
                          /\ \A k \in DOMAIN p : p[k] \notin Skipped
                          /\ p \notin Secret
                          /\ IsSaivageInternalDestination(p) => scheme # "project" /\ Within(Work, p) /\ p # Work
ReadWorkspaceImageSource(s) ==
  LET scheme == IF s.scheme = "native" THEN "project" ELSE s.scheme
  IN /\ s.scheme # "system"
     /\ s.scheme = "tmp" => Within(OwnTmp, s.path)
     /\ ResolveScopedPath([s EXCEPT !.scheme = scheme], "read") = "ok"
     /\ ImageSource(s.path, scheme) /\ ImageSource(Real(s.path), scheme)
     /\ KindAt(Real(s.path)) = "file"

IsProjectDirectoryExcluded(ignore, p) == \E d \in ignore : Within(Project \o d, p)
\* Only a search inside the project, by a native path or a project URL, is under the policy.
PolicyApplies(s) == s.scheme \in {"native", "project"} /\ Within(Project, Real(s.path))
LoadProjectSearchIgnore(s) == IF PolicyApplies(s) THEN policy ELSE [bad |-> FALSE, dirs |-> {}]

-----------------------------------------------------------------------------
(* The search *)

\* What a listing of d, as it was reached, returns: in the order of the names, each with its kind.
Ranked(es, rank(_)) == [k \in 1 .. Cardinality(es) |-> CHOOSE p \in es : Cardinality({q \in es : rank(q) < rank(p)}) = k - 1]
Listed(d, es) == [k \in DOMAIN es |-> [path |-> d \o <<Last(es[k])>>, kind |-> kind[es[k]]]]
Readdir(d) == Listed(d, Ranked(Entries(Real(d)), LAMBDA p : Last(p)))

Fail == [walk EXCEPT !.phase = "failed", !.stack = <<>>]
FailSearch(code) == walk' = IF IsExpectedWorkspaceFailure(code) THEN Fail ELSE [Fail EXCEPT !.phase = "fault"]
\* git runs while the process waits for it: no search and no other call goes on.
Free == patch = NoPatch
SearchOnly == Free /\ answer' = None /\ UNCHANGED <<kind, author, policy, quiet, patch, changes, calls>>

\* The current records of a card are read in one go, in the order of their names.
RecordsOf(card) == Ranked({r \in Records : Within(card, r) /\ Len(r) = 2}, LAMBDA r : Last(r))

\* glob and grep: the root is resolved and examined, the policy read once.
Search(s) ==
  /\ walk.phase = "idle"
  /\ SearchOnly
  /\ steady' = {p \in Paths : kind[p] = "file"}
  /\ LET code == ResolveAgentReadPath(s)
         ignore == LoadProjectSearchIgnore(s)
         w == [walk EXCEPT !.start = s.path, !.root = ResourceRootForRead(s), !.ignore = ignore.dirs]
     IN IF code # "ok" THEN FailSearch(code)
        ELSE IF s.scheme = "record" THEN walk' = [w EXCEPT !.phase = "done", !.seen = RecordsOf(s.path)]
        ELSE IF KindAt(Real(s.path)) = "file" THEN walk' = [w EXCEPT !.phase = "done", !.seen = <<s.path>>]
        ELSE IF ignore.bad THEN FailSearch("refused")
        ELSE walk' = [w EXCEPT !.phase = "enter", !.at = s.path]

\* A directory is held against the policy before it is listed for the first time.
Enter ==
  /\ walk.phase = "enter"
  /\ SearchOnly /\ UNCHANGED steady
  /\ IF walk.ignore # {} /\ Realpath(walk.at) # "ok" THEN FailSearch(Realpath(walk.at))
     ELSE IF IsProjectDirectoryExcluded(walk.ignore, Real(walk.at))
     THEN walk' = [walk EXCEPT !.phase = "each"]
     ELSE walk' = [walk EXCEPT !.phase = "readdir"]
ListDirectory ==
  /\ walk.phase = "readdir"
  /\ SearchOnly /\ UNCHANGED steady
  /\ LET code == Realpath(walk.at)
     IN IF code # "ok" THEN FailSearch(code)
        ELSE IF KindAt(Real(walk.at)) # "dir" THEN FailSearch("ENOTDIR")
        ELSE walk' = [walk EXCEPT !.phase = "each", !.stack = <<Readdir(walk.at)>> \o @, !.opened = @ \cup {walk.at}]

Rest(w) == <<Tail(Head(w.stack))>> \o Tail(w.stack)
Visit ==
  /\ walk.phase = "each" /\ walk.stack # <<>> /\ Head(walk.stack) # <<>>
  /\ SearchOnly /\ UNCHANGED steady
  /\ LET e == Head(Head(walk.stack))
         passed == [walk EXCEPT !.stack = Rest(walk)]
         code == InspectAgentReadPath(e.path, walk.root)
     IN IF e.kind = "link" \/ (e.kind = "dir" /\ Last(e.path) \in Skipped) \/ code = "blocked" THEN walk' = passed
        ELSE IF code # "ok" THEN FailSearch(code)
        ELSE IF e.kind = "dir" THEN walk' = [passed EXCEPT !.phase = "enter", !.at = e.path]
        ELSE walk' = [passed EXCEPT !.phase = "scan", !.at = e.path]
\* The visitor: grep opens the file, which may have gone since.
ScanFile ==
  /\ walk.phase = "scan"
  /\ SearchOnly /\ UNCHANGED steady
  /\ IF Realpath(walk.at) # "ok" THEN FailSearch(Realpath(walk.at))
     ELSE IF KindAt(Real(walk.at)) = "dir" THEN FailSearch("EISDIR")
     ELSE walk' = [walk EXCEPT !.phase = "each", !.seen = Append(@, walk.at)]
Leave ==
  /\ walk.phase = "each"
  /\ IF walk.stack = <<>> THEN TRUE ELSE Head(walk.stack) = <<>>
  /\ SearchOnly /\ UNCHANGED steady
  /\ walk' = IF Len(walk.stack) <= 1 THEN [walk EXCEPT !.phase = "done", !.stack = <<>>] ELSE [walk EXCEPT !.stack = Tail(@)]

-----------------------------------------------------------------------------
(* Which paths may be written *)

HasLink(p) == \E q \in Prefixes(p) : Within(Project, q) /\ q # Project /\ KindAt(q) = "link"
\* The first component that is no directory ends the check with its own error, if it is not absence.
AssertNoSymlinkComponents(p) ==
  IF HasLink(p) THEN "refused" ELSE IF Lstat(p) = "ENOTDIR" THEN "ENOTDIR" ELSE "ok"
First(codes) == IF \E k \in DOMAIN codes : codes[k] # "ok" THEN codes[Min({k \in DOMAIN codes : codes[k] # "ok"})] ELSE "ok"
Refuse(cond) == IF cond THEN "refused" ELSE "ok"
\* The last component: a link is refused, absence is fine, any other error ends the call.
LastComponent(p) == IF KindAt(p) = "link" THEN "refused" ELSE IF Lstat(p) \in {"ok", "ENOENT"} THEN "ok" ELSE Lstat(p)
AssertWritable(p) ==
  First(<<AssertNoSymlinkComponents(p), Refuse(~ResolveContained(p) \/ p = Project),
          Refuse(IsSaivageInternalDestination(p)), Refuse(p \in Secret), LastComponent(p)>>)
AssertScopedWritable(s) ==
  First(<<IF s.scheme = "project" THEN AssertNoSymlinkComponents(s.path) ELSE "ok",
          Refuse(s.path \in {<<>>, Project}),
          Refuse(s.scheme # "tmp" /\ IsSaivageInternalDestination(s.path)),
          Refuse(s.path \in Secret), LastComponent(s.path)>>)
ResolveWritePath(s) ==
  IF s.scheme = "native" THEN AssertWritable(s.path)
  ELSE First(<<ResolveScopedPath(s, "write"), AssertScopedWritable(s)>>)

\* The part of the path that exists decides whose source it is.
Existing(p) == CHOOSE q \in Prefixes(p) : /\ Realpath(q) = "ok"
                                          /\ \A r \in Prefixes(p) : Realpath(r) = "ok" => Len(r) <= Len(q)
Landing(p) == Real(Existing(p)) \o SubSeq(p, Len(Existing(p)) + 1, Len(p))
IsSource(p) == Within(Project, p) /\ ~IsSaivageInternalDestination(p)
AdmitSourceWrite(who, p) == Refuse(who = "analyst" /\ IsSource(Landing(p)) /\ ~quiet)

-----------------------------------------------------------------------------
(* The mutating tools *)

\* Missing directories are made on the way; a file in the place of one stops it.
Mkdir(p) ==
  IF KindAt(Real(Parent(p))) = "file" THEN "EEXIST"
  ELSE IF Lstat(Real(Parent(p))) = "ENOTDIR" THEN "ENOTDIR" ELSE "ok"
Made(p) == {q \in Prefixes(Parent(p)) : q \in Paths /\ kind[q] = "none"}
WriteFile(p) == IF KindAt(Real(p)) = "dir" THEN "EISDIR" ELSE "ok"
Replies(who, code) == answer' = [who |-> who, is |-> Settled(code)]
Called(who, code) ==
  /\ Free /\ calls < MaxCalls
  /\ calls' = calls + 1
  /\ Replies(who, code)
  /\ UNCHANGED <<policy, quiet, walk, patch, changes>>
Lands(ps, who) ==
  /\ kind' = [p \in Paths |-> IF p \in ps THEN "file" ELSE IF \E q \in ps : p \in Made(q) THEN "dir" ELSE kind[p]]
  /\ author' = [p \in Paths |-> IF p \in ps THEN who ELSE author[p]]
  /\ steady' = steady
Leaves == UNCHANGED <<kind, author, steady>>

\* A record URL is handed to the record service, which answers for it.
MutateRecord(who, s) ==
  /\ s.scheme = "record"
  /\ Called(who, ResolveScopedPath(s, "write"))
  /\ Leaves
WriteProject(who, s) ==
  LET code == First(<<ResolveWritePath(s), AdmitSourceWrite(who, s.path), Mkdir(s.path), WriteFile(s.path)>>)
  IN /\ s.scheme # "record"
     /\ Called(who, code)
     /\ IF code = "ok" THEN Lands({Landing(s.path)}, who) ELSE Leaves
\* The old text has to be there once, or often with replace_all.
EditProject(who, s, occurrences, replaceAll) ==
  LET read == IF Realpath(s.path) # "ok" THEN Realpath(s.path) ELSE WriteFile(s.path)
      code == First(<<ResolveWritePath(s), AdmitSourceWrite(who, s.path), read,
                      Refuse(occurrences = 0 \/ (occurrences > 1 /\ ~replaceAll))>>)
  IN /\ s.scheme # "record"
     /\ Called(who, code)
     /\ IF code = "ok" THEN Lands({Real(s.path)}, who) ELSE Leaves
\* Every path of a patch is admitted, then git checks the whole of it.
ApplyProjectPatch(who, ps, clean) ==
  LET codes == SetToSeq({First(<<AssertWritable(p), AdmitSourceWrite(who, p)>>) : p \in ps})
      code == First(codes \o <<Refuse(~clean)>>)
  IN /\ Free /\ calls < MaxCalls /\ calls' = calls + 1
     /\ IF code = "ok" THEN patch' = [who |-> who, base |-> [p \in ps |-> kind[p]]] /\ answer' = None
        ELSE patch' = patch /\ Replies(who, code)
     /\ Leaves /\ UNCHANGED <<policy, quiet, walk, changes>>
\* Then git applies it, once more against the tree as it is by now: it lands as a whole,
\* is refused as a whole, or git fails while it writes and leaves part of it behind.
Patched == DOMAIN patch.base
Torn(landed) == landed \subseteq Patched /\ Lands(landed, patch.who) /\ answer' = [who |-> patch.who, is |-> "torn"]
Applied == /\ \A p \in Patched : kind[p] = patch.base[p]
           /\ \/ Lands(Patched, patch.who) /\ Replies(patch.who, "ok")
              \/ \E landed \in SUBSET Patched : Torn(landed)
Rejected == Leaves /\ Replies(patch.who, "refused")
GitApply == /\ ~Free /\ patch' = NoPatch
            /\ Applied \/ Rejected
            /\ UNCHANGED <<policy, quiet, walk, changes, calls>>

-----------------------------------------------------------------------------
(* The rest of the world *)

Changed(k) == /\ changes < MaxChanges
              /\ changes' = changes + 1
              /\ kind' = k
              /\ steady' = {p \in steady : k[p] = "file"}
              /\ answer' = None
              /\ UNCHANGED <<author, policy, quiet, walk, patch, calls>>
Create(p, k) == kind[p] = "none" /\ KindAt(Parent(p)) = "dir" /\ Changed([kind EXCEPT ![p] = k])
Vanish(p) == kind[p] # "none" /\ Changed([q \in Paths |-> IF Within(p, q) THEN "none" ELSE kind[q]])
EditPolicy(c) ==
  /\ policy # c /\ changes < MaxChanges
  /\ policy' = c /\ changes' = changes + 1 /\ answer' = None
  /\ UNCHANGED <<kind, author, quiet, walk, steady, patch, calls>>
Runtime ==
  /\ Free /\ calls > 0 /\ calls < MaxCalls
  /\ quiet' = ~quiet /\ answer' = None
  /\ UNCHANGED <<kind, author, policy, walk, steady, patch, changes, calls>>

Init ==
  /\ kind \in InitialKinds
  /\ author = [p \in Paths |-> "none"]
  /\ policy \in Policies
  /\ quiet = FALSE
  /\ walk = Idle /\ steady = {} /\ answer = None /\ patch = NoPatch /\ changes = 0 /\ calls = 0
SearchStep == Enter \/ ListDirectory \/ Visit \/ ScanFile \/ Leave
ToolCall(who) ==
  \/ \E s \in Targets : MutateRecord(who, s) \/ WriteProject(who, s)
  \/ \E s \in Targets, n \in 0 .. 2 : EditProject(who, s, n, FALSE) \/ (n = 2 /\ EditProject(who, s, n, TRUE))
  \/ \E ps \in Patches, clean \in BOOLEAN : ApplyProjectPatch(who, ps, clean)
World ==
  \/ \E p \in Volatile, k \in {"file", "dir"} : Create(p, k)
  \/ \E p \in Volatile : Vanish(p)
  \/ \E c \in Policies : EditPolicy(c)
  \/ Runtime
Next == (\E s \in Roots : Search(s)) \/ SearchStep \/ (\E who \in {"agent", "analyst"} : ToolCall(who)) \/ GitApply \/ World
Spec == Init /\ [][Next]_vars /\ WF_vars(SearchStep) /\ WF_vars(GitApply)

-----------------------------------------------------------------------------
(* Properties *)

\* The lexical names under which the search can meet a file, and whether it may.
Met == {walk.start \o SubSeq(f, Len(Real(walk.start)) + 1, Len(f)) : f \in {g \in steady : Within(Real(walk.start), g)}}
Below(p) == {q \in Prefixes(p) : Len(q) > Len(walk.start)}
Eligible(p) ==
  /\ \A q \in Below(p) \ {p} : Last(q) \notin Skipped
  /\ \A q \in Below(p) : KindAt(q) # "link" /\ ~IsAgentReadBlocked(q, walk.root)
  /\ \A q \in (Prefixes(p) \ {p}) : Len(q) >= Len(walk.start) => \A d \in walk.ignore : Real(q) # Project \o d
  /\ \A d \in walk.ignore : ~Within(Project \o d, Real(walk.start))

\* A search that succeeds has scanned every file that was there all along and
\* that the project's policy and the fixed exclusions leave in, whatever other
\* processes did to the rest of the tree meanwhile (visitFiles, vfs.ts).
SearchIsComplete ==
  walk.phase = "done" /\ KindAt(Real(walk.start)) = "dir" => \A p \in Met : Eligible(p) => p \in ToSet(walk.seen)

Before(p, q) == \E k \in 1 .. Len(p) : /\ k <= Len(q) /\ p[k] < q[k]
                                       /\ \A j \in 1 .. k - 1 : p[j] = q[j]
\* Files come in depth-first order of the names and none comes twice, which is
\* what makes an index into the matches a position (visitFiles, vfs.ts).
SearchIsOrdered == \A i, j \in DOMAIN walk.seen : i < j => Before(walk.seen[i], walk.seen[j])

\* No directory that the policy read at the start excludes is ever listed, not
\* even as the root, and nothing is scanned that lies behind a link or under a
\* skipped name, or that agents may not read (project-search-ignore.ts, vfs.ts).
SearchIsConfined ==
  /\ \A d \in walk.opened : \A i \in walk.ignore : ~Within(Project \o i, Real(d))
  /\ \A p \in ToSet(walk.seen) : KindAt(Real(walk.start)) = "dir" /\ p # walk.start =>
       /\ \A q \in Below(p) : ~IsAgentReadBlocked(q, walk.root) /\ KindAt(q) # "link"
       /\ \A q \in Below(p) \ {p} : Last(q) \notin Skipped

\* Whatever disappears, a call fails in a way the agent is told of; no tool
\* ends in an error that would stop the agent (isExpectedWorkspaceFailure).
NeverFaults == answer.is # "fault"

Touched(p) == kind'[p] # kind[p] \/ author'[p] # author[p]
\* The spellings that are followed through a link: tmp and system URLs.
LinkedInto(p) == \E s \in Targets : /\ s.scheme \in {"tmp", "system"} /\ ResolveWritePath(s) = "ok"
                                    /\ (\E q \in Prefixes(s.path) : KindAt(q) = "link") /\ Landing(s.path) = p
\* Saivage's own directory is written to by no tool, except for the temporary directory
\* of the agent's own card under its own URL, and for what a link there or outside the
\* project leads to: native paths, project URLs and patches never follow one
\* (assertScopedWritable, assertWritable).
InternalUntouched == \A p \in Paths : IsSaivageInternalDestination(p) /\ Touched(p) => Within(OwnTmp, p) \/ LinkedInto(p)

\* A call that is refused or fails leaves the tree as it was: no directory is
\* made on the way, and a patch that git refuses, at its check or later, lands
\* not at all; only git failing while it writes leaves part of a patch, and then
\* nothing outside of it (writeProject, applyProjectPatch).
RefusedChangesNothing ==
  /\ answer'.is \in {"failed", "fault"} => kind' = kind /\ author' = author
  /\ answer'.is = "torn" => \A p \in Paths : Touched(p) => \E q \in Patched : IsPrefix(p, q)

\* While the runtime is not wholly stopped the analyst changes no source file,
\* whatever links the path it gives leads through (admitSourceWrite).
SourceIsGuarded ==
     ~quiet => \A p \in Paths : IsSource(p) /\ author'[p] # author[p] => author'[p] # "analyst"

Spellings == {[scheme |-> c, path |-> p] : c \in {"native", "project", "work"}, p \in Paths}
Children(s) == {[s EXCEPT !.path = p] : p \in ListScopedPath(s)}
\* What a listing shows, the read tool accepts under the same scheme: no entry
\* is shown that is refused when it is asked for (listVisibleDirectoryEntries).
ListingIsReadable ==
  \A s \in Roots : KindAt(Real(s.path)) = "dir" => \A c \in Children(s) : ResolveAgentReadPath(c) # "refused"

\* A picture an agent may look at lies inside the project, not only by its
\* name, and in Saivage's directory only under the work root
\* (readWorkspaceImageSource).
ImagesStayInside ==
  \A s \in Spellings : ReadWorkspaceImageSource(s) =>
    /\ Within(Project, Real(s.path))
    /\ IsSaivageInternalDestination(Real(s.path)) => Within(Work, Real(s.path)) /\ s.scheme # "native"

\* Every search ends (visitFiles).
Searching == walk.phase \notin {"idle", "done", "failed", "fault"}
=============================================================================
