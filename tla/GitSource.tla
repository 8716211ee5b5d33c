------------------------------ MODULE GitSource ------------------------------
(* The native git source of a project: runtime/git-workflow.ts and the source *)
(* owner of supervisor-runtime-api.ts.  Branch 0 is the delivery branch, card *)
(* c works on its private branch c and its parent is branch c - 1.  A native  *)
(* operation is a list of git commands and publications of source facts; a    *)
(* cancellation, an urgent notification, Stop, a failure or the death of the  *)
(* process may come between any two of them, and a command in flight may still *)
(* complete afterwards.  Edits stand for the work of agents; a replayed range *)
(* is one commit, and one before it for what the range wrote and took back.   *)
EXTENDS Naturals, Sequences, FiniteSets, TLC

CONSTANTS N,            \* depth of the chain of cards: the root is card 1
          Edits,        \* the pieces of work an agent can write (bound)
          MaxEntries,   \* bound: entries of a card into its source
          MaxSignals,   \* bound: urgent notifications and cancellations
          MaxReplays,   \* bound: rebases a correction agent begins
          MaxAccidents, \* bound: Stops and deaths of the process
          Hooks         \* whether a git hook may write source during a switch

ASSUME GitSourceAssumption == N \in Nat \ {0} /\ Hooks \in BOOLEAN

Cards == 1..N
EditSymmetry == Permutations(Edits)
None == 0

VARIABLES git,          \* the repository and its checkout
          facts,        \* published source facts of each card
          tasks,        \* native operations in progress
          mode,         \* "idle", "run", "halting", "down"
          depth,        \* cards 1..depth have an activation owner
          review,       \* the candidate a card's reviewer was given
          accepted,     \* the candidate a card's result was accepted with
          seen,         \* the worktree that acceptance saw
          settling,     \* owners being interrupted or cancelled
          boundary,     \* the owner whose node an urgent notification replaces
          made,         \* work written so far
          spent         \* entries, signals, replays and accidents used up

vars == <<git, facts, tasks, mode, depth, review, accepted, seen, settling, boundary, made, spent>>

-----------------------------------------------------------------------------
(* Git, as far as the native steps use it (external) *)

Tree(g, o) == g.commits[o].tree
Ancestors(g, o) ==
  LET anc[k \in 0..Len(g.commits)] == IF k = None THEN {} ELSE {k} \cup anc[g.commits[k].par] IN anc[o]
IsAncestor(g, a, b) == a \in Ancestors(g, b)
Reachable(g) == UNION {Ancestors(g, o) : o \in g.kept \cup {g.tip[b] : b \in 0..N}}
Held(g) == g.tree \cup UNION {Tree(g, o) : o \in Reachable(g)}
NoRebase == [start |-> None, onto |-> None]
HasRebase(g) == g.rebase # NoRebase
Dirty(g) == g.tree # Tree(g, g.tip[g.branch])

\* A new commit and its number.
WithCommit(g, par, tree) == [g EXCEPT !.commits = Append(@, [par |-> par, tree |-> tree])]
Newest(g) == Len(g.commits)

\* add --all and commit of the worktree on the checked out branch; no empty commit.
CommitAll(g) ==
  IF ~Dirty(g) THEN g
  ELSE LET h == WithCommit(g, g.tip[g.branch], g.tree) IN [h EXCEPT !.tip[g.branch] = Newest(h)]

\* switch: the worktree becomes the branch's tree; uncommitted work moves along,
\* and a hook may write more.
SwitchTo(g, b) ==
  LET h == [g EXCEPT !.branch = b, !.tree = Tree(g, g.tip[b]) \cup (@ \ Tree(g, g.tip[g.branch]))] IN
    {h} \cup IF Hooks THEN {[h EXCEPT !.tree = @ \cup Edits]} ELSE {}

\* The work of the commits base..tip of a branch, taken back later in the range or not.
RangeWork(g, c, base) ==
  {e \in Edits : \E o \in Ancestors(g, g.tip[c]) \ Ancestors(g, base) : e \in Tree(g, o) \ Tree(g, base)}

\* rebase --onto of base..tip: the replayed range, or a stop at a conflict when
\* both sides changed.  One commit stands for the range, and one before it for what
\* its commits wrote and took back.
Replayed(g, c, base, onto) ==
  LET tree == Tree(g, onto) \cup (Tree(g, g.tip[c]) \ Tree(g, base))
      all == tree \cup RangeWork(g, c, base)
      first == IF all = tree THEN g ELSE WithCommit(g, onto, all)
      h == WithCommit(first, IF all = tree THEN onto ELSE Newest(first), tree)
  IN IF base = onto THEN g
     ELSE IF all = Tree(g, onto) THEN [g EXCEPT !.tip[c] = onto, !.tree = tree]
     ELSE [h EXCEPT !.tip[c] = Newest(h), !.tree = tree]
MayConflict(g, c, base, onto) == Tree(g, g.tip[c]) # Tree(g, base) /\ ~(Tree(g, onto) \subseteq Tree(g, base))
Conflicted(g, c, onto) == [g EXCEPT !.rebase = [start |-> g.tip[c], onto |-> onto], !.tree = Tree(g, onto)]
Rebase(g, c, base, onto) ==
  {Replayed(g, c, base, onto)} \cup
  IF MayConflict(g, c, base, onto) THEN {Conflicted(g, c, onto)} ELSE {}
Abort(g) == [g EXCEPT !.rebase = NoRebase, !.tree = Tree(g, g.rebase.start)]

\* update-ref of a ref under refs/saivage, create only.
Keep(g, o) == [g EXCEPT !.kept = @ \cup {o}]

\* captureRebase: the source as it stands becomes a commit on the detached head,
\* kept by a ref of its own; the rebase and its index stay as they are.
Capture(g) == LET h == WithCommit(g, g.rebase.onto, g.tree) IN Keep(h, Newest(h))

\* restore of a snapshot into index and worktree.
Restore(g, o) == [g EXCEPT !.tree = Tree(g, o)]

\* The squash of a candidate into its parent: the accepted tree is committed on
\* the parent's branch, unless it is the parent's tree already.
Squash(g, p, o) ==
  IF Tree(g, g.tip[p]) = Tree(g, o) THEN g
  ELSE LET h == WithCommit(g, g.tip[p], Tree(g, o)) IN [h EXCEPT !.tip[p] = Newest(h), !.tree = Tree(g, o)]

-----------------------------------------------------------------------------
(* Facts and selections *)

NoTask == [base |-> None, orig |-> None, onto |-> None, snap |-> None]
NoFacts == [tip |-> None, ptip |-> None, base |-> None, cand |-> None, done |-> None, corr |-> NoTask]
Corrects(c) == facts[c].corr # NoTask

\* The parent selection enterSource expects.
ParentTip(c) == IF c = 1 THEN facts[1].ptip ELSE facts[c - 1].tip
ReplayBase(c) == IF facts[c].done # None THEN facts[c].done ELSE facts[c].base

\* inspect: the checkout is on the branch, no native operation is open, and the
\* tip is the published one or, for the owner, a descendant.
Inspected(b, expected, owned) ==
  /\ git.branch = b /\ ~HasRebase(git)
  /\ IF owned THEN IsAncestor(git, expected, git.tip[b]) ELSE git.tip[b] = expected
InspectedClean(b, expected) == Inspected(b, expected, FALSE) /\ ~Dirty(git)

\* identifyRebase: the open rebase is the one of the correction task.
IdentifiedRebase(c) ==
  /\ git.rebase = [start |-> git.tip[c], onto |-> facts[c].corr.onto]
  /\ IsAncestor(git, facts[c].tip, git.tip[c])
  /\ git.tip[c - 1] = facts[c].corr.onto /\ facts[c].corr.orig \in git.kept

\* The observations before an abort: the worktree still is the snapshot.
SourceMatchesSnapshot(c) == IdentifiedRebase(c) /\ git.tree = Tree(git, facts[c].corr.snap) /\ facts[c].corr.snap \in git.kept

\* The check of verifyCorrection.
CorrectionHolds(c) ==
  LET t == facts[c].corr IN
    /\ git.branch = c /\ ~HasRebase(git) /\ ~Dirty(git)
    /\ git.tip[c - 1] = t.onto /\ t.orig \in git.kept
    /\ IsAncestor(git, t.base, t.orig) /\ IsAncestor(git, t.onto, git.tip[c])

\* sourceCandidateMatches.
CandidateMatches(c, o) ==
  ~Corrects(c) /\ facts[c].tip = o /\ facts[c].cand = o

-----------------------------------------------------------------------------
(* Operations: the steps still to do *)

Task(c, kind, todo) == [card |-> c, kind |-> kind, todo |-> todo, doomed |-> FALSE]

EnterTodo(c) ==
  CASE facts[c] = NoFacts -> <<"create", "switch", "publish">>
    [] Corrects(c) -> <<"switch", "publish">>
    [] OTHER -> <<"switch", "retain", "rebase", "publish">>

\* Seeded fault: an unfinished resolution is aborted and the source returned.
ReturnWithoutCapture(c) ==
  IF Corrects(c) /\ HasRebase(git) THEN <<"abort", "commit", "leave", "publish">>
  ELSE <<"commit", "leave", "publish">>

\* returnSource: an unfinished resolution is captured and published before the
\* rebase is aborted, then restored and committed on the private branch.
ReturnTodo(c) ==
  IF Corrects(c) /\ HasRebase(git)
    THEN <<"capture", "publishSnapshot", "verify", "abort", "restore", "commit", "leave", "publish">>
    ELSE <<"commit", "leave", "publish">>

DeliverTodo == <<"leave", "squash", "publishParent", "publish">>

\* The outcomes of the git command at the head of a task.
Command(t) ==
  LET c == t.card
      step == Head(t.todo)
  IN CASE step = "create" -> {[git EXCEPT !.tip[c] = ParentTip(c)]}
       [] step = "switch" -> SwitchTo(git, c)
       [] step = "leave" -> SwitchTo(git, c - 1)
       [] step = "retain" -> {Keep(git, git.tip[c])}
       [] step = "rebase" -> Rebase(git, c, ReplayBase(c), ParentTip(c))
       [] step = "abort" -> {Abort(git)}
       [] step = "capture" -> {Capture(git)}
       [] step = "restore" -> {Restore(git, facts[c].corr.snap)}
       [] step = "commit" -> {CommitAll(git)}
       [] step = "squash" -> {Squash(git, c - 1, accepted[c])}
       [] OTHER -> {}

Commands == {"create", "switch", "leave", "retain", "rebase", "abort", "capture", "restore", "commit", "squash"}

\* What the command's result makes of the task: a conflict is aborted and
\* published as a correction task unless a hook may have written; source left dirty by a switch or a rebase of
\* an entry is a refusal, elsewhere a failure.
After(t, g) ==
  LET step == Head(t.todo)
      refusal == t.kind = "enter" /\ ~Corrects(t.card)
  IN CASE step = "rebase" /\ HasRebase(g) -> IF Hooks THEN <<"failed">> ELSE <<"abort", "publishTask">>
       [] step \in {"switch", "leave"} /\ Dirty(g) -> IF refusal THEN <<"refused">> ELSE <<"failed">>
       [] OTHER -> Tail(t.todo)

-----------------------------------------------------------------------------
(* Ownership *)

Init ==
  /\ git = [commits |-> <<[par |-> None, tree |-> {}]>>, tip |-> [b \in 0..N |-> IF b <= 1 THEN 1 ELSE None],
            kept |-> {}, branch |-> 0, tree |-> {}, rebase |-> NoRebase]
  /\ facts = [c \in Cards |-> IF c = 1 THEN [NoFacts EXCEPT !.tip = 1, !.ptip = 1, !.base = 1] ELSE NoFacts]
  /\ tasks = {} /\ mode = "idle" /\ depth = 0
  /\ review = [c \in Cards |-> None] /\ accepted = [c \in Cards |-> None] /\ seen = [c \in Cards |-> {}]
  /\ settling = {} /\ boundary = None
  /\ made = {} /\ spent = [entries |-> 0, signals |-> 0, replays |-> 0, accidents |-> 0]

\* beginHalt: everything in progress loses its authority.
Halt(all) == mode' = "halting" /\ tasks' = {[t EXCEPT !.doomed = TRUE] : t \in all}

\* sourceOperation: one at a time for an owner; a second one throws, and the
\* owner's handler halts the runtime.
Begin(t) ==
  IF \E u \in tasks : u.card = t.card THEN Halt(tasks)
  ELSE tasks' = tasks \cup {t} /\ UNCHANGED mode

\* enterSource after the parent is inspected: a parent that is not the clean
\* exact selection is a failure, private source that moved a refusal.
EnterTask(c) ==
  Task(c, "enter",
    IF ~InspectedClean(c - 1, ParentTip(c)) THEN <<"failed">>
    ELSE IF facts[c] = NoFacts THEN (IF git.tip[c] = None THEN EnterTodo(c) ELSE <<"failed">>)
    ELSE IF git.tip[c] # facts[c].tip THEN (IF Corrects(c) THEN <<"failed">> ELSE <<"refused">>)
    ELSE IF ~Corrects(c) /\ ~IsAncestor(git, ReplayBase(c), git.tip[c]) THEN <<"refused">>
    ELSE EnterTodo(c))

\* Run: the root takes the delivery checkout.
Start ==
  /\ mode \in {"idle", "down"} /\ spent.entries < MaxEntries
  /\ mode' = "run" /\ depth' = 1
  /\ tasks' = {EnterTask(1)}
  /\ spent' = [spent EXCEPT !.entries = @ + 1]
  /\ UNCHANGED <<git, facts, review, accepted, seen, settling, boundary, made>>

\* requireSourceOwner, after every await: the operation still has its owner,
\* its winner and its node.
Current(t) == t \in tasks /\ ~t.doomed /\ mode = "run"

RunCommand(t) ==
  /\ Current(t) /\ Head(t.todo) \in Commands
  /\ \E g \in Command(t) :
       /\ git' = g
       /\ tasks' = (tasks \ {t}) \cup {[t EXCEPT !.todo = After(t, g)]}
  /\ UNCHANGED <<facts, mode, depth, review, accepted, seen, settling, boundary, made, spent>>

\* restoreRebaseAndReturn, before it changes anything.
VerifySnapshot(t) ==
  /\ Current(t) /\ Head(t.todo) = "verify"
  /\ tasks' = (tasks \ {t}) \cup {[t EXCEPT !.todo = IF SourceMatchesSnapshot(t.card) THEN Tail(@) ELSE <<"failed">>]}
  /\ UNCHANGED <<git, facts, mode, depth, review, accepted, seen, settling, boundary, made, spent>>

\* A step that cannot be certified: the runtime halts and holds the source.
StepFails(t) ==
  /\ Current(t)
  /\ \/ Head(t.todo) = "failed"
     \/ Head(t.todo) \in Commands /\ spent.accidents < MaxAccidents
  /\ Halt(tasks \ {t})
  /\ spent' = [spent EXCEPT !.accidents = IF Head(t.todo) = "failed" THEN @ ELSE @ + 1]
  /\ UNCHANGED <<git, facts, depth, review, accepted, seen, settling, boundary, made>>

\* A refused entry settles the card as blocked and gives the lease back; the
\* checkout is taken to be the parent's.
EntryRefused(t) ==
  /\ Current(t) /\ Head(t.todo) = "refused"
  /\ tasks' = tasks \ {t} /\ depth' = t.card - 1
  /\ mode' = IF t.card = 1 THEN "idle" ELSE mode
  /\ UNCHANGED <<git, facts, review, accepted, seen, settling, boundary, made, spent>>


\* The facts each publication writes.
Published(t) ==
  LET c == t.card
      f == facts[c]
      step == Head(t.todo)
      saved == [f EXCEPT !.tip = git.tip[c], !.cand = None, !.done = None]
      entered == [NoFacts EXCEPT !.tip = git.tip[c], !.ptip = ParentTip(c), !.base = ParentTip(c)]
  IN CASE step = "publishTask" ->
            [entered EXCEPT !.base = ReplayBase(c),
                            !.corr = [base |-> ReplayBase(c), orig |-> git.tip[c], onto |-> ParentTip(c), snap |-> None]]
       [] step = "publishSnapshot" -> [f EXCEPT !.cand = None, !.done = None, !.corr.snap = Newest(git)]
       [] step = "publishVerified" -> [saved EXCEPT !.base = f.corr.onto]
       [] t.kind = "enter" /\ step = "publish" -> IF Corrects(c) THEN [f EXCEPT !.ptip = ParentTip(c), !.corr.onto = ParentTip(c)]
                                                  ELSE entered
       [] t.kind = "prepare" -> [f EXCEPT !.tip = git.tip[c], !.cand = git.tip[c]]
       [] t.kind = "checkpoint" -> [f EXCEPT !.tip = git.tip[c], !.cand = None]
       [] t.kind = "deliver" -> [f EXCEPT !.ptip = git.tip[c - 1], !.cand = None, !.done = accepted[c]]
       [] OTHER -> saved

\* publishSource of the owner; the last publication of a task ends it and, when
\* the card's work is settled, releases the owner.
Publish(t) ==
  LET c == t.card
      last == Len(t.todo) = 1
      released == last /\ t.kind \in {"return", "deliver"}
  IN /\ Current(t) /\ Head(t.todo) \in {"publish", "publishTask", "publishSnapshot", "publishVerified"}
     /\ facts' = [facts EXCEPT ![c] = Published(t)]
     /\ tasks' = (tasks \ {t}) \cup IF last THEN {} ELSE {[t EXCEPT !.todo = Tail(@)]}
     /\ review' = IF t.kind = "prepare" THEN [review EXCEPT ![c] = git.tip[c]] ELSE review
     /\ depth' = IF released THEN c - 1 ELSE depth
     /\ settling' = IF released THEN settling \ {c} ELSE settling
     /\ accepted' = IF released THEN [accepted EXCEPT ![c] = None] ELSE accepted
     /\ boundary' = IF last /\ boundary = c /\ t.kind # "return" THEN None ELSE boundary
     /\ mode' = IF released /\ c = 1 THEN "idle" ELSE mode
     /\ UNCHANGED <<git, seen, made, spent>>

\* deliverSource: the parent owner's facts first.
PublishParent(t) ==
  /\ Current(t) /\ Head(t.todo) = "publishParent"
  /\ facts' = IF t.card = 1 THEN facts
              ELSE [facts EXCEPT ![t.card - 1] = [@ EXCEPT !.tip = git.tip[t.card - 1], !.cand = None, !.done = None]]
  /\ tasks' = (tasks \ {t}) \cup {[t EXCEPT !.todo = Tail(@)]}
  /\ UNCHANGED <<git, mode, depth, review, accepted, seen, settling, boundary, made, spent>>

\* The child owner is admitted, or the source of the same card entered again.
Admit(t) ==
  /\ Current(t) /\ Head(t.todo) \in {"admit", "reenter"}
  /\ LET c == IF Head(t.todo) = "admit" THEN t.card + 1 ELSE t.card IN
       /\ tasks' = (tasks \ {t}) \cup {EnterTask(c)}
       /\ depth' = c
       /\ review' = [review EXCEPT ![c] = None] /\ accepted' = [accepted EXCEPT ![c] = None]
       /\ settling' = settling \ {c}
       /\ boundary' = IF boundary > N THEN None ELSE boundary
  /\ UNCHANGED <<git, facts, mode, seen, made, spent>>

-----------------------------------------------------------------------------
(* What a working card asks for *)

Working(c) == mode = "run" /\ depth = c /\ tasks = {} /\ c \notin settling /\ boundary # c

\* checkpoint_source, the hand-off before a child and the checkpoint after an
\* interrupted node: the owner's branch with its own commits, or a failure.
CheckpointTask(c, kind, rest) ==
  Task(c, kind, IF Inspected(c, facts[c].tip, TRUE) THEN <<"commit", "publish">> \o rest ELSE <<"failed">>)

CheckpointSource(c) ==
  /\ Working(c) /\ accepted[c] = None /\ ~Corrects(c)
  /\ Begin(CheckpointTask(c, "checkpoint", <<>>))
  /\ UNCHANGED <<git, facts, depth, review, accepted, seen, settling, boundary, made, spent>>

ActivateChild(c) ==
  /\ Working(c) /\ accepted[c] = None /\ ~Corrects(c) /\ c < N /\ spent.entries < MaxEntries
  /\ Begin(CheckpointTask(c, "handoff", <<"admit">>))
  /\ spent' = [spent EXCEPT !.entries = @ + 1]
  /\ UNCHANGED <<git, facts, depth, review, accepted, seen, settling, boundary, made>>

\* prepareCandidate; a refusal is feedback to the node and changes nothing.
PrepareCandidate(c) ==
  /\ Working(c) /\ accepted[c] = None /\ ~Corrects(c)
  /\ Inspected(c, facts[c].tip, TRUE)
  /\ git.tip[c - 1] = facts[c].ptip /\ facts[c].base = facts[c].ptip
  /\ IsAncestor(git, facts[c].base, git.tip[c])
  /\ Begin(Task(c, "prepare", <<"commit", "publish">>))
  /\ UNCHANGED <<git, facts, depth, review, accepted, seen, settling, boundary, made, spent>>

\* verifyCandidate: the reviewed candidate is published, checked out and clean.
Verified(c) ==
  /\ CandidateMatches(c, review[c])
  /\ InspectedClean(c, review[c]) /\ git.tip[c - 1] = facts[c].ptip

\* An accepted result: approved review, reviewed completion, or DONE right after
\* its own preparation, which the same comparison describes.
AcceptResult(c) ==
  /\ Working(c) /\ accepted[c] = None /\ review[c] # None
  /\ Verified(c)
  /\ accepted' = [accepted EXCEPT ![c] = review[c]]
  /\ seen' = [seen EXCEPT ![c] = git.tree]
  /\ UNCHANGED <<git, facts, tasks, mode, depth, review, settling, boundary, made, spent>>

\* verifyCorrection and completeCorrection of a source_ready result.
CompleteCorrection(c) ==
  /\ Working(c) /\ Corrects(c) /\ CorrectionHolds(c)
  /\ facts' = [facts EXCEPT ![c] = [@ EXCEPT !.tip = git.tip[c], !.base = facts[c].corr.onto, !.cand = None, !.done = None,
                                             !.corr = NoTask]]
  /\ UNCHANGED <<git, tasks, mode, depth, review, accepted, seen, settling, boundary, made, spent>>

\* deliverSource: the accepted candidate, clean, on top of the exact parent.
DeliverTask(c) ==
  Task(c, "deliver",
    IF /\ CandidateMatches(c, accepted[c]) /\ InspectedClean(c, accepted[c])
       /\ git.tip[c - 1] = facts[c].ptip /\ IsAncestor(git, facts[c].ptip, accepted[c])
    THEN DeliverTodo ELSE <<"failed">>)

\* returnSource: completed corrections are published first; an open rebase must
\* be the task's own.
ReturnTask(c, rest) ==
  Task(c, "return",
    IF Corrects(c) /\ HasRebase(git)
      THEN IF IdentifiedRebase(c) THEN ReturnTodo(c) \o rest ELSE <<"failed">>
    ELSE IF Corrects(c) /\ CorrectionHolds(c)
      THEN <<"publishVerified">> \o ReturnTodo(c) \o rest
    ELSE IF Inspected(c, facts[c].tip, TRUE) /\ git.tip[c - 1] = facts[c].ptip
      THEN ReturnTodo(c) \o rest
    ELSE <<"failed">>)

\* settleResult: DONE delivers, any other outcome returns.
SettleResult(c) ==
  /\ Working(c)
  /\ Begin(IF accepted[c] # None THEN DeliverTask(c) ELSE ReturnTask(c, <<>>))
  /\ UNCHANGED <<git, facts, depth, review, accepted, seen, settling, boundary, made, spent>>

-----------------------------------------------------------------------------
(* Cancellation and urgent notifications *)

\* No owner from k down is entering or settling.
Interruptible(k) ==
  /\ mode = "run" /\ settling = {} /\ boundary = None /\ spent.signals < MaxSignals
  /\ ~\E t \in tasks : t.kind \in {"enter", "return", "deliver"}

DoomFrom(k) == {IF t.card >= k THEN [t EXCEPT !.doomed = TRUE] ELSE t : t \in tasks}

\* Owners k..depth are cancelled, or stopped by an urgent notification above.
Interrupt(k, b) ==
  /\ Interruptible(k) /\ k \in 1..depth
  /\ b \in {None} \cup (IF k = 1 THEN {N + 1} ELSE {k - 1})
  /\ settling' = k..depth /\ boundary' = b
  /\ tasks' = DoomFrom(k)
  /\ spent' = [spent EXCEPT !.signals = @ + 1]
  /\ UNCHANGED <<git, facts, mode, depth, review, accepted, seen, made>>

\* An urgent notification replaces the node of the deepest owner.
InterruptNode(b) ==
  /\ Interruptible(b) /\ depth = b /\ b \in Cards /\ accepted[b] = None
  /\ boundary' = b /\ review' = [review EXCEPT ![b] = None]
  /\ tasks' = DoomFrom(b)
  /\ spent' = [spent EXCEPT !.signals = @ + 1]
  /\ UNCHANGED <<git, facts, mode, depth, accepted, seen, settling, made>>

\* settleCancellation and settleInterruptedOwner, deepest first; the join may
\* have left a doomed native operation behind.
SettleInterrupted(c) ==
  /\ mode = "run" /\ depth = c /\ c \in settling
  /\ ~\E t \in tasks : t.kind = "return"
  /\ Begin(ReturnTask(c, IF c = 1 /\ boundary > N THEN <<"reenter">> ELSE <<>>))
  /\ UNCHANGED <<git, facts, depth, review, accepted, seen, settling, boundary, made, spent>>

\* The boundary of an urgent notification, once nothing is below it.
SettleBoundary(b) ==
  /\ mode = "run" /\ depth = b /\ boundary = b /\ settling = {}
  /\ ~\E t \in tasks : t.kind \in {"urgent", "return", "enter"}
  /\ Begin(IF Corrects(b) THEN ReturnTask(b, <<"reenter">>) ELSE CheckpointTask(b, "urgent", <<>>))
  /\ UNCHANGED <<git, facts, depth, review, accepted, seen, settling, boundary, made, spent>>

\* A doomed operation ends: its command in flight completed or not.  A doomed
\* checkpoint or hand-off, or one of the surviving boundary, halts the runtime.
EndDoomed(t) ==
  /\ t \in tasks /\ t.doomed
  /\ git' \in {git} \cup Command(t)
  /\ IF mode = "run" /\ (t.kind \in {"checkpoint", "handoff"} \/ boundary = t.card)
       THEN Halt(tasks \ {t})
       ELSE tasks' = tasks \ {t} /\ UNCHANGED mode
  /\ UNCHANGED <<facts, depth, review, accepted, seen, settling, boundary, made, spent>>

-----------------------------------------------------------------------------
(* Stop, death and the operator *)

Cleared ==
  /\ depth' = 0 /\ settling' = {} /\ boundary' = None
  /\ review' = [c \in Cards |-> None] /\ accepted' = [c \in Cards |-> None]

Stop ==
  /\ mode = "run" /\ spent.accidents < MaxAccidents
  /\ Halt(tasks)
  /\ spent' = [spent EXCEPT !.accidents = @ + 1]
  /\ UNCHANGED <<git, facts, depth, review, accepted, seen, settling, boundary, made>>

\* The halt joins every native operation before it clears the owners.
Halted ==
  /\ mode = "halting" /\ tasks = {} /\ mode' = "down"
  /\ Cleared
  /\ UNCHANGED <<git, facts, tasks, seen, made, spent>>

Die ==
  /\ mode \in {"run", "halting"} /\ spent.accidents < MaxAccidents
  /\ mode' = "down" /\ tasks' = {} /\ Cleared
  /\ git' \in {git} \cup UNION {Command(t) : t \in tasks}
  /\ spent' = [spent EXCEPT !.accidents = @ + 1]
  /\ UNCHANGED <<facts, seen, made>>

\* assertCleanGitDelivery.
CleanDelivery == InspectedClean(0, facts[1].ptip)

\* A global file tool may write source while the runtime is stopped.
GlobalWrite(e) ==
  /\ mode \in {"idle", "down"} /\ e \notin made /\ CleanDelivery
  /\ git' = [git EXCEPT !.tree = @ \cup {e}] /\ made' = made \cup {e}
  /\ UNCHANGED <<facts, tasks, mode, depth, review, accepted, seen, settling, boundary, spent>>

\* The operator checks the delivery branch out again after a halt (external).
OperatorRestore ==
  /\ mode = "down" /\ git.branch # 0 /\ ~HasRebase(git) /\ ~Dirty(git)
  /\ git' = [git EXCEPT !.branch = 0, !.tree = Tree(git, git.tip[0])]
  /\ UNCHANGED <<facts, tasks, mode, depth, review, accepted, seen, settling, boundary, made, spent>>

-----------------------------------------------------------------------------
(* Agents write through tools and commands, into whatever is checked out *)

AgentEdit(c, e) ==
  /\ Working(c) /\ e \notin git.tree
  /\ e \in made => HasRebase(git)
  /\ git' = [git EXCEPT !.tree = @ \cup {e}] /\ made' = made \cup {e}
  /\ UNCHANGED <<facts, tasks, mode, depth, review, accepted, seen, settling, boundary, spent>>

AgentCommit(c) ==
  /\ Working(c) /\ ~HasRebase(git) /\ Dirty(git)
  /\ git' = CommitAll(git)
  /\ UNCHANGED <<facts, tasks, mode, depth, review, accepted, seen, settling, boundary, made, spent>>

\* The correction agent replays the range, and finishes with what it resolved:
\* what it leaves out of the resolution it has discarded.
AgentRebase(c) ==
  /\ Working(c) /\ Corrects(c) /\ git.branch = c /\ ~HasRebase(git) /\ ~Dirty(git)
  /\ spent.replays < MaxReplays
  /\ git' \in Rebase(git, c, facts[c].corr.base, facts[c].corr.onto)
  /\ spent' = [spent EXCEPT !.replays = @ + 1]
  /\ UNCHANGED <<facts, tasks, mode, depth, review, accepted, seen, settling, boundary, made>>
AgentContinue(c) ==
  /\ Working(c) /\ HasRebase(git)
  /\ LET h == WithCommit(git, git.rebase.onto, git.tree) IN
       git' = [h EXCEPT !.tip[c] = Newest(h), !.rebase = NoRebase]
  /\ made' = made \cap Held(git')
  /\ UNCHANGED <<facts, tasks, mode, depth, review, accepted, seen, settling, boundary, spent>>

Native ==
  \E t \in tasks : \/ RunCommand(t) \/ VerifySnapshot(t) \/ Publish(t) \/ PublishParent(t) \/ Admit(t)
                   \/ StepFails(t) \/ EntryRefused(t) \/ EndDoomed(t)
Card ==
  \E c \in Cards :
    \/ CheckpointSource(c) \/ ActivateChild(c) \/ PrepareCandidate(c) \/ AcceptResult(c)
    \/ CompleteCorrection(c) \/ SettleResult(c)
    \/ SettleInterrupted(c) \/ SettleBoundary(c) \/ InterruptNode(c)
    \/ \E b \in 0..(N + 1) : Interrupt(c, b)
Agent == \E c \in Cards : AgentCommit(c) \/ AgentRebase(c) \/ AgentContinue(c) \/ \E e \in Edits : AgentEdit(c, e)
Operator == OperatorRestore \/ \E e \in Edits : GlobalWrite(e)

Next == Start \/ Native \/ Card \/ Agent \/ Operator \/ Stop \/ Halted \/ Die
Spec == Init /\ [][Next]_vars

-----------------------------------------------------------------------------
\* No work is ever lost: whatever was interrupted, stopped or died in the
\* middle of a hand-over, a replay or a delivery, everything written is in the
\* checkout or in a commit a ref keeps.
NoWorkLost == made \subseteq Held(git)

\* A delivery moves the parent's branch.
Delivers(c) == (\E t \in tasks : t.card = c /\ t.kind = "deliver") /\ git'.tip[c - 1] # git.tip[c - 1]

\* What reaches a parent's branch is exactly the source the acceptance saw, as one
\* commit on top of the parent's own history,
DeliversSeen ==
  \A c \in Cards : Delivers(c) => git'.commits[git'.tip[c - 1]] = [par |-> git.tip[c - 1], tree |-> seen[c]]

\* and it has all of the parent's own work.
DeliveredAsAccepted ==
  [][DeliversSeen /\ \A c \in Cards : Delivers(c) => Tree(git, git.tip[c - 1]) \subseteq seen[c]]_vars

\* Between native operations the checkout belongs to the deepest owner, the
\* branches of the owners above it stand where their facts say, each the parent
\* its child was given. With no run the delivery branch is checked out and no
\* rebase is open; a published tip an agent's own commit has passed stays behind,
\* and the next run is then refused.
SourceFollowsOwners ==
  /\ mode = "run" /\ tasks = {} /\ settling = {} /\ boundary = None =>
       /\ git.branch = depth
       /\ \A c \in 1..(depth - 1) : git.tip[c] = facts[c].tip /\ facts[c + 1].ptip = facts[c].tip
  /\ mode = "idle" => git.branch = 0 /\ ~HasRebase(git)

\* An owner that settles is released with the parent checked out and clean, its
\* own published tip and its parent's published tip being the tips of their
\* branches: the parent can go on and the card can be entered again.
ReleaseIsExact ==
  [][\A c \in Cards : depth = c /\ depth' = c - 1 /\ mode' \in {"run", "idle"} /\ (\A t \in tasks : t.kind # "enter") =>
       /\ git'.branch = c - 1 /\ git'.tree = git'.commits[git'.tip[c - 1]].tree
       /\ facts'[c].tip = git'.tip[c] /\ facts'[c].ptip = git'.tip[c - 1]
       /\ c > 1 => facts'[c - 1].tip = git'.tip[c - 1]]_vars

\* Native operations of the project never overlap, the doomed ones included.
OneNativeOperation == Cardinality(tasks) <= 1

\* The source of a project is safe with its runtime: the five above, of one
\* history of commands.
SourceIsSafe ==
  /\ [](NoWorkLost /\ SourceFollowsOwners /\ OneNativeOperation)
  /\ DeliveredAsAccepted /\ ReleaseIsExact
=============================================================================
