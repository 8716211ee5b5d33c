----------------------------- MODULE GitProofs ------------------------------
(* The native source for every depth of the chain of cards and every set of    *)
(* edits: native operations never overlap, a delivery moves the parent's       *)
(* branch to exactly the source its acceptance saw, and, when no git hook      *)
(* writes source, the checkout follows the owners, a release is exact and no   *)
(* work is ever lost.                                                          *)
EXTENDS GitSource, FiniteSetTheorems, WellFoundedInduction, TLAPS

-----------------------------------------------------------------------------
(* One native operation at a time: the doomed operation a join left behind is  *)
(* one of the deepest owner, so the next one finds it and halts the runtime.   *)

IsTask(t) == "card" \in DOMAIN t
TaskInv ==
  /\ \A t \in tasks : IsTask(t) /\ (mode = "run" => t.card = depth)
  /\ \A t, u \in tasks : t = u

\* A task is what Task builds,
LEMMA TaskForm == ASSUME NEW c, NEW k, NEW d PROVE IsTask(Task(c, k, d)) /\ Task(c, k, d).card = c
BY DEF IsTask, Task

\* and stays one of its card when its steps or its doom change.
LEMMA TaskGoesOn ==
  ASSUME NEW t, IsTask(t), NEW d
  PROVE  /\ IsTask([t EXCEPT !.todo = d]) /\ [t EXCEPT !.todo = d].card = t.card
         /\ IsTask([t EXCEPT !.doomed = TRUE]) /\ [t EXCEPT !.doomed = TRUE].card = t.card
BY DEF IsTask

\* beginHalt keeps the operations and ends the run.
LEMMA HaltKeeps ==
  ASSUME TaskInv, NEW all \in SUBSET tasks, Halt(all)
  PROVE  TaskInv'
<1>1. mode' = "halting" /\ \A u \in tasks' : \E t \in tasks : u = [t EXCEPT !.doomed = TRUE]
  BY DEF Halt
<1>2. \A u \in tasks' : IsTask(u)
  BY <1>1, TaskGoesOn DEF TaskInv
<1> QED BY <1>1, <1>2 DEF TaskInv

\* sourceOperation of the deepest owner begins only when none is left.
LEMMA BeginKeeps ==
  ASSUME TaskInv, mode = "run", NEW t, IsTask(t), t.card = depth, depth' = depth, Begin(t)
  PROVE  TaskInv'
<1>1. CASE tasks = {}
  BY <1>1 DEF TaskInv, Begin
<1>2. CASE tasks # {}
  <2>1. Halt(tasks)
    BY <1>2 DEF TaskInv, Begin
  <2> QED BY <2>1, HaltKeeps
<1> QED BY <1>1, <1>2

\* The operations sourceOperation is asked for are tasks of the card that asks.
LEMMA AskedForm ==
  /\ \A c : IsTask(EnterTask(c)) /\ EnterTask(c).card = c
  /\ \A c, k, r : IsTask(CheckpointTask(c, k, r)) /\ CheckpointTask(c, k, r).card = c
  /\ \A c : IsTask(DeliverTask(c)) /\ DeliverTask(c).card = c
  /\ \A c, r : IsTask(ReturnTask(c, r)) /\ ReturnTask(c, r).card = c
<1>1. \A c : IsTask(EnterTask(c)) /\ EnterTask(c).card = c
  BY TaskForm DEF EnterTask
<1>2. \A c, k, r : IsTask(CheckpointTask(c, k, r)) /\ CheckpointTask(c, k, r).card = c
  BY TaskForm DEF CheckpointTask
<1>3. \A c : IsTask(DeliverTask(c)) /\ DeliverTask(c).card = c
  BY TaskForm DEF DeliverTask
<1>4. \A c, r : IsTask(ReturnTask(c, r)) /\ ReturnTask(c, r).card = c
  BY TaskForm DEF ReturnTask
<1> QED BY <1>1, <1>2, <1>3, <1>4

\* Every step of a native operation, of a card, of an agent and of the operator
\* keeps at most one operation, of the deepest owner.
LEMMA TaskStep ==
  ASSUME TaskInv, [Next]_vars
  PROVE  TaskInv'
<1>1. CASE UNCHANGED <<tasks, mode, depth>>
  BY <1>1 DEF TaskInv
<1>2. CASE Start
  BY <1>2, AskedForm DEF TaskInv, Start
<1>3. CASE Native
  <2>1. PICK t \in tasks : \/ RunCommand(t) \/ VerifySnapshot(t) \/ Publish(t) \/ PublishParent(t)
                           \/ Admit(t) \/ StepFails(t) \/ EntryRefused(t) \/ EndDoomed(t)
    BY <1>3 DEF Native
  <2>2. tasks = {t} /\ IsTask(t)
    BY DEF TaskInv
  <2>3. ASSUME NEW d, tasks' = (tasks \ {t}) \cup {[t EXCEPT !.todo = d]}, UNCHANGED <<mode, depth>>
        PROVE  TaskInv'
    <3> DEFINE u == [t EXCEPT !.todo = d]
    <3>1. IsTask(u) /\ u.card = t.card
      BY <2>2, TaskGoesOn
    <3> HIDE DEF u
    <3>2. tasks' = {u}
      BY <2>2, <2>3 DEF u
    <3> QED BY <2>2, <2>3, <3>1, <3>2 DEF TaskInv
  <2>4. CASE RunCommand(t)
    BY <2>3, <2>4 DEF RunCommand
  <2>5. CASE VerifySnapshot(t) \/ PublishParent(t)
    BY <2>3, <2>5 DEF VerifySnapshot, PublishParent
  <2>6. CASE Publish(t)
    <3>1. CASE Len(t.todo) = 1
      BY <2>2, <2>6, <3>1 DEF TaskInv, Publish
    <3>2. CASE Len(t.todo) # 1
      BY <2>3, <2>6, <3>2 DEF Publish
    <3> QED BY <3>1, <3>2
  <2>7. CASE Admit(t)
    BY <2>2, <2>7, AskedForm DEF TaskInv, Admit
  <2>8. CASE StepFails(t)
    BY <2>8, HaltKeeps DEF StepFails
  <2>9. CASE EntryRefused(t)
    BY <2>2, <2>9 DEF TaskInv, EntryRefused
  <2>10. CASE EndDoomed(t)
    BY <2>2, <2>10, HaltKeeps DEF TaskInv, EndDoomed
  <2> QED BY <2>1, <2>4, <2>5, <2>6, <2>7, <2>8, <2>9, <2>10
<1>4. CASE Card
  <2>1. PICK c \in Cards :
          \/ CheckpointSource(c) \/ ActivateChild(c) \/ PrepareCandidate(c) \/ AcceptResult(c)
          \/ CompleteCorrection(c) \/ SettleResult(c)
          \/ SettleInterrupted(c) \/ SettleBoundary(c) \/ InterruptNode(c)
          \/ \E b \in 0..(N + 1) : Interrupt(c, b)
    BY <1>4 DEF Card
  <2>2. CASE CheckpointSource(c) \/ ActivateChild(c)
    BY <2>2, AskedForm, BeginKeeps DEF CheckpointSource, ActivateChild, Working
  <2>3. CASE PrepareCandidate(c)
    BY <2>3, TaskForm, BeginKeeps DEF PrepareCandidate, Working
  <2>4. CASE AcceptResult(c) \/ CompleteCorrection(c)
    BY <2>4 DEF TaskInv, AcceptResult, CompleteCorrection
  <2>5. CASE SettleResult(c)
    BY <2>5, AskedForm, BeginKeeps DEF SettleResult, Working
  <2>6. CASE SettleInterrupted(c)
    BY <2>6, AskedForm, BeginKeeps DEF SettleInterrupted
  <2>7. CASE SettleBoundary(c)
    BY <2>7, AskedForm, BeginKeeps DEF SettleBoundary
  <2>8. ASSUME NEW k, tasks' = DoomFrom(k), UNCHANGED <<mode, depth>> PROVE TaskInv'
    <3>1. CASE tasks = {}
      BY <2>8, <3>1 DEF DoomFrom, TaskInv
    <3>2. ASSUME NEW t \in tasks PROVE TaskInv'
      <4> DEFINE u == IF t.card >= k THEN [t EXCEPT !.doomed = TRUE] ELSE t
      <4>1. IsTask(t) /\ tasks = {t}
        BY <3>2 DEF TaskInv
      <4>2. IsTask(u) /\ u.card = t.card
        BY <4>1, TaskGoesOn
      <4>3. tasks' = {u}
        BY <2>8, <4>1 DEF DoomFrom
      <4> HIDE DEF u
      <4> QED BY <2>8, <4>1, <4>2, <4>3 DEF TaskInv
    <3> QED BY <3>1, <3>2
  <2>9. CASE InterruptNode(c) \/ \E b \in 0..(N + 1) : Interrupt(c, b)
    BY <2>8, <2>9 DEF InterruptNode, Interrupt
  <2> QED BY <2>1, <2>2, <2>3, <2>4, <2>5, <2>6, <2>7, <2>9
<1>5. CASE Agent
  BY <1>5 DEF Agent, AgentCommit, AgentRebase, AgentContinue, AgentEdit, TaskInv
<1>6. CASE Operator
  BY <1>6 DEF Operator, OperatorRestore, GlobalWrite, TaskInv
<1>7. CASE Stop
  BY <1>7, HaltKeeps DEF Stop
<1>8. CASE Halted \/ Die
  BY <1>8 DEF Halted, Die, TaskInv
<1> QED BY <1>1, <1>2, <1>3, <1>4, <1>5, <1>6, <1>7, <1>8 DEF Next, vars

\* A project never has two native git operations in progress, however an interrupt,
\* a cancellation, a Stop or a failure left one behind: the second one that
\* sourceOperation is asked for halts the runtime instead.
THEOREM OneAtATime == Spec => []OneNativeOperation
<1>1. Init => TaskInv
  BY DEF Init, TaskInv
<1>2. TaskInv => OneNativeOperation
  <2> SUFFICES ASSUME TaskInv PROVE Cardinality(tasks) <= 1
    BY DEF OneNativeOperation
  <2>1. CASE tasks = {}
    BY <2>1, FS_EmptySet
  <2>2. CASE tasks # {}
    <3>1. PICK t : tasks = {t}
      BY <2>2 DEF TaskInv
    <3>2. Cardinality({t}) = 1
      BY FS_Singleton, Zenon
    <3> QED BY <3>1, <3>2
  <2> QED BY <2>1, <2>2
<1> QED BY <1>1, <1>2, TaskStep, PTL DEF Spec

-----------------------------------------------------------------------------
(* What the commands and publications refer to *)

IsSeq(s) == \E S : s \in Seq(S)
Commit(p, w) == [par |-> p, tree |-> w]
Fields == {"commits", "tip", "kept", "branch", "tree", "rebase"}

\* A repository: every branch is at one of its commits, or not created yet.
Repository(g) ==
  /\ Fields \subseteq DOMAIN g /\ IsSeq(g.commits) /\ Len(g.commits) \in Nat
  /\ g.tip \in [0..N -> 0..Len(g.commits)] /\ g.branch \in 0..N

\* Commands add commits and change none.
Grows(g, h) ==
  /\ Len(g.commits) <= Len(h.commits)
  /\ \A i \in 1..Len(g.commits) : h.commits[i] = g.commits[i]

\* Facts refer to commits that exist.
Corrections == [base : Nat, orig : Nat, onto : Nat, snap : Nat]
FactRecords == [tip : Nat, ptip : Nat, base : Nat, cand : Nat, done : Nat, corr : Corrections]
FactInv ==
  /\ facts \in [Cards -> FactRecords]
  /\ \A c \in Cards : /\ facts[c].tip <= Len(git.commits) /\ facts[c].ptip <= Len(git.commits)
                      /\ facts[c].corr.onto <= Len(git.commits)

\* An accepted candidate is the commit of what its acceptance saw, for good.
AcceptInv ==
  /\ review \in [Cards -> Nat] /\ accepted \in [Cards -> Nat] /\ DOMAIN seen = Cards
  /\ \A c \in Cards : accepted[c] # None =>
       accepted[c] \in 1..Len(git.commits) /\ Tree(git, accepted[c]) = seen[c]

\* The steps still to do of an operation end with a publication or a hand-over, which
\* no card at the end of the chain makes to a child; a delivery only leaves, squashes
\* and publishes.
Finals == {"publish", "publishTask", "failed", "refused", "admit", "reenter"}
Steps(c) ==
  Commands \cup {"verify", "publishSnapshot", "publishVerified", "publishParent"}
           \cup (Finals \ IF c < N THEN {} ELSE {"admit"})
Plan(c, s) == s \in Seq(Steps(c)) /\ s # <<>> /\ s[Len(s)] \in Finals
DeliverPlans ==
  {DeliverTodo, <<"squash", "publishParent", "publish">>, <<"publishParent", "publish">>,
   <<"publish">>, <<"failed">>}
Planned(t) ==
  /\ {"kind", "todo"} \subseteq DOMAIN t /\ t.card \in Cards /\ Plan(t.card, t.todo)
  /\ t.kind = "deliver" => t.todo \in DeliverPlans
PlanInv == \A t \in tasks : Planned(t) /\ (t.kind = "deliver" => accepted[t.card] # None)

SourceInv == TaskInv /\ Repository(git) /\ FactInv /\ AcceptInv /\ PlanInv /\ depth \in 0..N

-----------------------------------------------------------------------------
(* Commands keep a repository and every commit in it *)

\* What Append does to a sequence, whatever its elements are.
LEMMA Appended ==
  ASSUME NEW s, IsSeq(s), NEW e
  PROVE  /\ IsSeq(Append(s, e)) /\ Len(s) \in Nat /\ Len(Append(s, e)) = Len(s) + 1
         /\ Append(s, e)[Len(s) + 1] = e /\ \A i \in 1..Len(s) : Append(s, e)[i] = s[i]
<1>1. PICK S : s \in Seq(S)
  BY DEF IsSeq
<1>2. s \in Seq(S \cup {e}) /\ e \in S \cup {e}
  BY <1>1
<1>3. Append(s, e) \in Seq(S \cup {e})
  BY <1>2
<1> QED BY <1>2, <1>3 DEF IsSeq

\* A command that moves at most one branch, to a commit that exists.
LEMMA Rearranged ==
  ASSUME NEW g, NEW h, Repository(g), DOMAIN h = DOMAIN g, h.commits = g.commits, h.branch \in 0..N,
         \/ h.tip = g.tip
         \/ \E b \in 0..N, n \in 0..Len(g.commits) : h.tip = [g.tip EXCEPT ![b] = n]
  PROVE  Repository(h) /\ Grows(g, h)
<1>1. h.tip \in [0..N -> 0..Len(g.commits)]
  <2>1. CASE h.tip = g.tip
    BY <2>1 DEF Repository
  <2>2. ASSUME NEW b \in 0..N, NEW n \in 0..Len(g.commits), h.tip = [g.tip EXCEPT ![b] = n]
        PROVE  h.tip \in [0..N -> 0..Len(g.commits)]
    BY <2>2 DEF Repository
  <2> QED BY <2>1, <2>2
<1>2. Repository(h)
  BY <1>1 DEF Repository
<1>3. Grows(g, h)
  BY DEF Repository, Grows
<1> QED BY <1>2, <1>3

\* Growth is transitive.
LEMMA GrowsTwice ==
  ASSUME NEW f, NEW g, NEW h, Repository(f), Repository(g), Repository(h), Grows(f, g), Grows(g, h)
  PROVE  Grows(f, h)
BY SMTT(60) DEF Grows, Repository

\* A new commit.
LEMMA Committed ==
  ASSUME NEW g, Repository(g), NEW p, NEW w, NEW h, h = WithCommit(g, p, w)
  PROVE  /\ Repository(h) /\ Grows(g, h) /\ DOMAIN h = DOMAIN g
         /\ h.tip = g.tip /\ h.branch = g.branch /\ h.commits = Append(g.commits, Commit(p, w))
         /\ Newest(h) \in 1..Len(h.commits) /\ h.commits[Newest(h)] = Commit(p, w)
<1> DEFINE e == Commit(p, w)
<1>1. h = [g EXCEPT !.commits = Append(g.commits, e)]
  BY DEF WithCommit, Commit
<1>2. DOMAIN h = DOMAIN g /\ h.tip = g.tip /\ h.branch = g.branch /\ h.commits = Append(g.commits, e)
  BY <1>1 DEF Repository, Fields
<1> HIDE DEF e
<1>3. /\ IsSeq(h.commits) /\ Len(g.commits) \in Nat /\ Len(h.commits) = Len(g.commits) + 1
      /\ h.commits[Len(g.commits) + 1] = e /\ \A i \in 1..Len(g.commits) : h.commits[i] = g.commits[i]
  BY <1>2, Appended DEF Repository
<1>4. Repository(h) /\ Grows(g, h) /\ Newest(h) \in 1..Len(h.commits) /\ h.commits[Newest(h)] = e
  BY <1>2, <1>3 DEF Repository, Grows, Newest
<1> QED BY <1>2, <1>4 DEF e

\* A new commit that becomes the tip of a branch.
TipIsNewest(f, h, b) ==
  /\ DOMAIN f = DOMAIN h /\ f.commits = h.commits /\ f.branch = h.branch
  /\ f.tip = [h.tip EXCEPT ![b] = Newest(h)]
TipCommit(f, b, p, w) == f.commits[f.tip[b]] = Commit(p, w)

\* It keeps every other branch and every earlier commit.
LEMMA CommittedOn ==
  ASSUME NEW g, Repository(g), NEW p, NEW w, NEW b \in 0..N, NEW h, h = WithCommit(g, p, w),
         NEW f, TipIsNewest(f, h, b)
  PROVE  /\ Repository(f) /\ Grows(g, f) /\ f.tip[b] \in 1..Len(f.commits)
         /\ TipCommit(f, b, p, w) /\ f.tip = [g.tip EXCEPT ![b] = f.tip[b]]
<1>1. /\ Repository(h) /\ Grows(g, h) /\ h.tip = g.tip /\ h.branch = g.branch
      /\ Newest(h) \in 1..Len(h.commits) /\ h.commits[Newest(h)] = Commit(p, w)
  BY Committed
<1>2. /\ DOMAIN f = DOMAIN h /\ f.commits = h.commits /\ f.branch = h.branch
      /\ f.tip = [h.tip EXCEPT ![b] = Newest(h)]
  BY DEF TipIsNewest
<1>3. Repository(f) /\ Grows(h, f)
  <2>1. \E n \in 0..Len(h.commits) : f.tip = [h.tip EXCEPT ![b] = n]
    BY <1>1, <1>2
  <2>2. f.branch \in 0..N
    BY <1>1, <1>2 DEF Repository
  <2> QED BY <1>1, <1>2, <2>1, <2>2, Rearranged
<1>4. Grows(g, f)
  BY <1>1, <1>3, GrowsTwice
<1>5. f.tip[b] = Newest(h) /\ f.tip = [g.tip EXCEPT ![b] = f.tip[b]]
  BY <1>1, <1>2 DEF Repository
<1>6. TipCommit(f, b, p, w)
  BY <1>1, <1>2, <1>5 DEF TipCommit
<1> QED BY <1>1, <1>2, <1>3, <1>4, <1>5, <1>6

\* add --all and commit,
LEMMA CommitAllKeeps == ASSUME NEW g, Repository(g) PROVE Repository(CommitAll(g)) /\ Grows(g, CommitAll(g))
<1>1. CASE ~Dirty(g)
  BY <1>1, Rearranged DEF CommitAll, Repository
<1>2. CASE Dirty(g)
  <2> DEFINE h == WithCommit(g, g.tip[g.branch], g.tree)
             f == [h EXCEPT !.tip[g.branch] = Newest(h)]
  <2>1. CommitAll(g) = f
    BY <1>2 DEF CommitAll
  <2>2. Repository(h) /\ g.branch \in 0..N
    BY Committed DEF Repository
  <2>3. TipIsNewest(f, h, g.branch)
    BY <2>2 DEF Repository, Fields, TipIsNewest
  <2> HIDE DEF f
  <2>4. Repository(f) /\ Grows(g, f)
    BY <2>2, <2>3, CommittedOn
  <2> QED BY <2>1, <2>4
<1> QED BY <1>1, <1>2

\* a switch, whatever a hook writes,
LEMMA SwitchKeeps ==
  ASSUME NEW g, Repository(g), NEW b \in 0..N, NEW h \in SwitchTo(g, b)
  PROVE  Repository(h) /\ Grows(g, h) /\ h.tip = g.tip
<1>1. DOMAIN h = DOMAIN g /\ h.commits = g.commits /\ h.tip = g.tip /\ h.branch = b
  BY DEF SwitchTo, Repository, Fields
<1> QED BY <1>1, Rearranged

\* a replay, finished or stopped at a conflict,
LEMMA RebaseKeeps ==
  ASSUME NEW g, Repository(g), NEW c \in Cards, NEW b, NEW onto \in 0..Len(g.commits), NEW h \in Rebase(g, c, b, onto)
  PROVE  Repository(h) /\ Grows(g, h)
<1> USE DEF Cards
<1>1. CASE h = Conflicted(g, c, onto)
  <2>1. DOMAIN h = DOMAIN g /\ h.commits = g.commits /\ h.tip = g.tip /\ h.branch = g.branch
    BY <1>1 DEF Conflicted, Repository, Fields
  <2> QED BY <2>1, Rearranged DEF Repository
<1>2. CASE h = Replayed(g, c, b, onto)
  <2> DEFINE w == Tree(g, onto) \cup (Tree(g, g.tip[c]) \ Tree(g, b))
             all == w \cup RangeWork(g, c, b)
             first == IF all = w THEN g ELSE WithCommit(g, onto, all)
             p == IF all = w THEN onto ELSE Newest(first)
             k == WithCommit(first, p, w)
  <2>1. h = g \/ h = [g EXCEPT !.tip[c] = onto, !.tree = w] \/ h = [k EXCEPT !.tip[c] = Newest(k), !.tree = w]
    BY <1>2 DEF Replayed
  <2>2. Repository(first) /\ Grows(g, first)
    <3>1. CASE all = w
      BY <3>1, Rearranged DEF Repository
    <3>2. CASE all # w
      <4> HIDE DEF all, w
      <4> QED BY <3>2, Committed
    <3> QED BY <3>1, <3>2
  <2> HIDE DEF all, first, p
  <2>3. CASE h = g
    BY <2>3, Rearranged DEF Repository
  <2>4. CASE h = [g EXCEPT !.tip[c] = onto, !.tree = w]
    <3>1. DOMAIN h = DOMAIN g /\ h.commits = g.commits /\ h.tip = [g.tip EXCEPT ![c] = onto] /\ h.branch = g.branch
      BY <2>4 DEF Repository, Fields
    <3> QED BY <3>1, Rearranged DEF Repository
  <2>5. CASE h = [k EXCEPT !.tip[c] = Newest(k), !.tree = w]
    <3>1. Repository(k)
      BY <2>2, Committed
    <3>2. TipIsNewest(h, k, c)
      BY <2>5, <3>1 DEF Repository, Fields, TipIsNewest
    <3>3. c \in 0..N
      BY GitSourceAssumption
    <3>4. Repository(h) /\ Grows(first, h)
      BY <2>2, <3>2, <3>3, CommittedOn
    <3> QED BY <2>2, <3>4, GrowsTwice
  <2> QED BY <2>1, <2>3, <2>4, <2>5
<1> QED BY <1>1, <1>2 DEF Rebase

\* an abort, a ref that keeps a commit and the restore of a snapshot,
LEMMA PlainKeeps ==
  ASSUME NEW g, Repository(g), NEW o
  PROVE  /\ Repository(Abort(g)) /\ Grows(g, Abort(g))
         /\ Repository(Keep(g, o)) /\ Grows(g, Keep(g, o))
         /\ Repository(Restore(g, o)) /\ Grows(g, Restore(g, o))
<1>1. \A h \in {Abort(g), Keep(g, o), Restore(g, o)} :
         DOMAIN h = DOMAIN g /\ h.commits = g.commits /\ h.tip = g.tip /\ h.branch = g.branch
  BY DEF Abort, Keep, Restore, Repository, Fields
<1> QED BY <1>1, Rearranged DEF Repository

\* and the capture of an open rebase keep the repository and its commits.
LEMMA CaptureKeeps == ASSUME NEW g, Repository(g) PROVE Repository(Capture(g)) /\ Grows(g, Capture(g))
<1> DEFINE h == WithCommit(g, g.rebase.onto, g.tree)
<1>1. Repository(h) /\ Grows(g, h)
  BY Committed
<1> HIDE DEF h
<1>2. Repository(Keep(h, Newest(h))) /\ Grows(h, Keep(h, Newest(h)))
  BY <1>1, PlainKeeps
<1> QED BY <1>1, <1>2, GrowsTwice DEF Capture, h

\* The squash moves the parent's branch to a commit of the accepted tree on top of it.
LEMMA SquashKeeps ==
  ASSUME NEW g, Repository(g), NEW p \in 0..N, NEW o
  PROVE  LET f == Squash(g, p, o) IN
         /\ Repository(f) /\ Grows(g, f)
         /\ f.tip[p] # g.tip[p] => f.commits[f.tip[p]] = Commit(g.tip[p], Tree(g, o))
<1>1. CASE Tree(g, g.tip[p]) = Tree(g, o)
  BY <1>1, Rearranged DEF Squash, Repository
<1>2. CASE Tree(g, g.tip[p]) # Tree(g, o)
  <2> DEFINE q == g.tip[p]
             w == Tree(g, o)
             h == WithCommit(g, q, w)
             f == [h EXCEPT !.tip[p] = Newest(h), !.tree = Tree(g, o)]
  <2>1. Squash(g, p, o) = f
    BY <1>2 DEF Squash
  <2>2. Repository(h)
    BY Committed
  <2>3. TipIsNewest(f, h, p)
    BY <2>2 DEF Repository, Fields, TipIsNewest
  <2>5. h = WithCommit(g, q, w)
    OBVIOUS
  <2> HIDE DEF f, q, w, h
  <2>4. Repository(f) /\ Grows(g, f) /\ TipCommit(f, p, q, w)
    BY <2>3, <2>5, CommittedOn
  <2> QED BY <2>1, <2>4 DEF q, w, TipCommit
<1> QED BY <1>1, <1>2

-----------------------------------------------------------------------------
(* Every step keeps the invariant *)

\* The parent selection, and whatever else facts name, is a commit that exists.
LEMMA ParentExists ==
  ASSUME FactInv, Repository(git), NEW c \in Cards
  PROVE  /\ ParentTip(c) \in 0..Len(git.commits) /\ ReplayBase(c) \in Nat
         /\ c - 1 \in 0..N /\ c \in 0..N
<1>1. c \in Nat /\ c # 1 => c - 1 \in Cards
  BY GitSourceAssumption DEF Cards
<1>2. c - 1 \in 0..N /\ c \in 0..N
  BY GitSourceAssumption DEF Cards
<1>3. 1 \in Cards
  BY GitSourceAssumption DEF Cards
<1>4. ParentTip(c) \in 0..Len(git.commits)
  BY <1>1, <1>3 DEF ParentTip, FactInv, FactRecords, Repository, Cards
<1>5. ReplayBase(c) \in Nat
  BY DEF ReplayBase, FactInv, FactRecords
<1> QED BY <1>2, <1>4, <1>5

\* What the next command of an operation may leave is a repository with every commit
\* it had, and a delivery moves the parent's branch only to what was accepted.
LEMMA CommandKeeps ==
  ASSUME Repository(git), FactInv, NEW t, t.card \in Cards, NEW g \in Command(t)
  PROVE  Repository(g) /\ Grows(git, g)
<1> DEFINE c == t.card
           step == Head(t.todo)
<1>1. c \in Cards /\ c \in 0..N /\ c - 1 \in 0..N /\ ParentTip(c) \in 0..Len(git.commits)
  BY ParentExists
<1> HIDE DEF c
<1>2. CASE g = [git EXCEPT !.tip[c] = ParentTip(c)]
  <2>1. DOMAIN g = DOMAIN git /\ g.commits = git.commits /\ g.branch = git.branch /\ g.tip = [git.tip EXCEPT ![c] = ParentTip(c)]
    BY <1>1, <1>2 DEF Repository, Fields
  <2> QED BY <1>1, <2>1, Rearranged DEF Repository
<1>3. CASE g \in SwitchTo(git, c) \cup SwitchTo(git, c - 1)
  BY <1>1, <1>3, SwitchKeeps
<1>4. CASE g \in Rebase(git, c, ReplayBase(c), ParentTip(c))
  BY <1>1, <1>4, RebaseKeeps
<1>5. CASE g \in {Keep(git, git.tip[c]), Abort(git), Restore(git, facts[c].corr.snap)}
  BY <1>5, PlainKeeps
<1>6. CASE g \in {Capture(git), CommitAll(git)}
  BY <1>6, CaptureKeeps, CommitAllKeeps
<1>7. CASE g = Squash(git, c - 1, accepted[c])
  BY <1>1, <1>7, SquashKeeps
<1> QED BY <1>2, <1>3, <1>4, <1>5, <1>6, <1>7 DEF Command, c

\* What a delivery's next command makes of the parent's branch.
LEMMA DeliveryCommand ==
  ASSUME SourceInv, NEW t \in tasks, t.kind = "deliver", NEW g \in Command(t),
         g.tip[t.card - 1] # git.tip[t.card - 1]
  PROVE  g.commits[g.tip[t.card - 1]] = Commit(git.tip[t.card - 1], seen[t.card])
<1> DEFINE c == t.card
<1>1. c \in Cards /\ c - 1 \in 0..N /\ t.todo \in DeliverPlans /\ accepted[c] # None /\ Repository(git)
  BY ParentExists DEF SourceInv, PlanInv, Planned
<1>2. Head(t.todo) \in {"leave", "squash", "publishParent", "publish", "failed"}
  BY <1>1 DEF DeliverPlans, DeliverTodo
<1>3. g \in SwitchTo(git, c - 1) \/ g = Squash(git, c - 1, accepted[c])
  BY <1>2 DEF Command
<1>4. CASE g \in SwitchTo(git, c - 1)
  BY <1>1, <1>4, SwitchKeeps
<1>5. CASE g = Squash(git, c - 1, accepted[c])
  <2>1. g.commits[g.tip[c - 1]] = Commit(git.tip[c - 1], Tree(git, accepted[c]))
    BY <1>1, <1>5, SquashKeeps
  <2>2. Tree(git, accepted[c]) = seen[c]
    BY <1>1 DEF SourceInv, AcceptInv
  <2> QED BY <2>1, <2>2
<1> QED BY <1>3, <1>4, <1>5

\* While commits are only added, facts and acceptances keep what they refer to.
LEMMA GrowthKeeps ==
  ASSUME Repository(git), FactInv, AcceptInv, Repository(git'), Grows(git, git')
  PROVE  /\ UNCHANGED facts => FactInv'
         /\ UNCHANGED <<review, accepted, seen>> => AcceptInv'
<1>1. Len(git.commits) \in Nat /\ Len(git'.commits) \in Nat /\ Len(git.commits) <= Len(git'.commits)
      /\ \A i \in 1..Len(git.commits) : git'.commits[i] = git.commits[i]
  BY DEF Repository, Grows
<1>2. ASSUME UNCHANGED facts PROVE FactInv'
  BY <1>1, <1>2 DEF FactInv, FactRecords, Corrections
<1>3. ASSUME UNCHANGED <<review, accepted, seen>> PROVE AcceptInv'
  BY <1>1, <1>3 DEF AcceptInv, Tree
<1> QED BY <1>2, <1>3

\* The rest of a plan, when there is one, is a plan.
LEMMA PlanTail ==
  ASSUME NEW c, NEW s, Plan(c, s), Head(s) \notin Finals \/ Len(s) # 1
  PROVE  Plan(c, Tail(s))
<1>1. s \in Seq(Steps(c)) /\ s # <<>> /\ Head(s) = s[1] /\ s[Len(s)] \in Finals /\ Len(s) \in Nat /\ Len(s) # 0
  BY DEF Plan
<1>2. PICK n \in Nat : n = Len(s)
  BY <1>1
<1>3. n # 0 /\ n # 1
  BY <1>1, <1>2
<1>4. n > 1
  BY <1>3
<1>5. Tail(s) \in Seq(Steps(c)) /\ Len(Tail(s)) = n - 1 /\ Tail(s)[n - 1] = s[n]
  BY <1>1, <1>2, <1>4
<1> QED BY <1>1, <1>2, <1>4, <1>5 DEF Plan

\* A plan after which the same card goes on.
LEMMA PlanThen ==
  ASSUME NEW c, NEW s, NEW r, Plan(c, s), r = <<>> \/ Plan(c, r)
  PROVE  Plan(c, s \o r)
<1>1. CASE r = <<>>
  <2>1. s \o r = s
    BY <1>1 DEF Plan
  <2> QED BY <2>1
<1>2. CASE Plan(c, r)
  BY <1>2 DEF Plan
<1> QED BY <1>1, <1>2

\* A plan with a step before it.
LEMMA PlanBefore ==
  ASSUME NEW c, NEW a \in Steps(c), NEW s, Plan(c, s)
  PROVE  Plan(c, <<a>> \o s)
<1>1. s \in Seq(Steps(c)) /\ s # <<>> /\ s[Len(s)] \in Finals /\ <<a>> \in Seq(Steps(c)) /\ Len(<<a>>) = 1
  BY DEF Plan
<1>2. <<a>> \o s \in Seq(Steps(c)) /\ Len(<<a>> \o s) = Len(s) + 1 /\ (<<a>> \o s)[Len(s) + 1] = s[Len(s)]
  BY <1>1
<1> QED BY <1>1, <1>2 DEF Plan

\* The plans the code writes down: lists of steps that end as a plan must.
LEMMA Plan1 ==
  ASSUME NEW c, NEW z \in Steps(c), z \in Finals
  PROVE  Plan(c, <<z>>)
BY DEF Plan

\* A step and an ending,
LEMMA Plan2 ==
  ASSUME NEW c, NEW a \in Steps(c), NEW z \in Steps(c), z \in Finals
  PROVE  Plan(c, <<a, z>>)
BY DEF Plan

\* two steps and an ending,
LEMMA Plan3 ==
  ASSUME NEW c, NEW a \in Steps(c), NEW b \in Steps(c), NEW z \in Steps(c), z \in Finals
  PROVE  Plan(c, <<a, b, z>>)
BY DEF Plan

\* three steps and an ending,
LEMMA Plan4 ==
  ASSUME NEW c, NEW a \in Steps(c), NEW b \in Steps(c), NEW d \in Steps(c), NEW z \in Steps(c), z \in Finals
  PROVE  Plan(c, <<a, b, d, z>>)
BY DEF Plan

\* seven steps and an ending: captureRebase and restoreRebaseAndReturn.
LEMMA Plan8 ==
  ASSUME NEW c, NEW a \in Steps(c), NEW b \in Steps(c), NEW d \in Steps(c), NEW e \in Steps(c), NEW f \in Steps(c), NEW g \in Steps(c), NEW h \in Steps(c), NEW z \in Steps(c), z \in Finals
  PROVE  Plan(c, <<a, b, d, e, f, g, h, z>>)
BY DEF Plan

\* The operations a card asks for are plans of its own.
LEMMA AskedPlans ==
  ASSUME NEW c \in Cards
  PROVE  /\ Plan(c, EnterTask(c).todo) /\ EnterTask(c).kind = "enter"
         /\ \A k : Plan(c, CheckpointTask(c, k, <<>>).todo) /\ CheckpointTask(c, k, <<>>).kind = k
         /\ c < N => Plan(c, CheckpointTask(c, "handoff", <<"admit">>).todo)
         /\ DeliverTask(c).todo \in DeliverPlans /\ Plan(c, DeliverTask(c).todo)
         /\ \A r \in {<<>>, <<"reenter">>} : Plan(c, ReturnTask(c, r).todo) /\ ReturnTask(c, r).kind = "return"
         /\ \A s \in DeliverPlans : Plan(c, s)
<1> DEFINE S == Steps(c)
<1>s. /\ \A x \in Commands : x \in S
      /\ "publish" \in S /\ "publishTask" \in S /\ "failed" \in S /\ "refused" \in S /\ "reenter" \in S
      /\ "verify" \in S /\ "publishSnapshot" \in S /\ "publishVerified" \in S /\ "publishParent" \in S
      /\ c < N => "admit" \in S
  BY DEF Steps, Finals
<1>c. /\ "create" \in S /\ "switch" \in S /\ "leave" \in S /\ "retain" \in S /\ "rebase" \in S
      /\ "abort" \in S /\ "capture" \in S /\ "restore" \in S /\ "commit" \in S /\ "squash" \in S
  BY <1>s DEF Commands
<1>f. /\ "publish" \in Finals /\ "publishTask" \in Finals /\ "failed" \in Finals
      /\ "refused" \in Finals /\ "reenter" \in Finals /\ "admit" \in Finals
  BY DEF Finals
<1>1. /\ Plan(c, <<"failed">>) /\ Plan(c, <<"refused">>) /\ Plan(c, <<"reenter">>)
      /\ Plan(c, <<"commit", "publish">>) /\ Plan(c, <<"publish">>)
      /\ c < N => Plan(c, <<"admit">>)
  BY <1>s, <1>c, <1>f, Plan1, Plan2, Plan3, Plan4, Plan8, Zenon
<1>2. \A s \in DeliverPlans : Plan(c, s)
  <2>1. Plan(c, <<"leave", "squash", "publishParent", "publish">>)
    BY <1>s, <1>c, <1>f, Plan1, Plan2, Plan3, Plan4, Plan8, Zenon
  <2>2. Plan(c, <<"squash", "publishParent", "publish">>)
    BY <1>s, <1>c, <1>f, Plan1, Plan2, Plan3, Plan4, Plan8, Zenon
  <2>3. Plan(c, <<"publishParent", "publish">>)
    BY <1>s, <1>f, Plan2, Zenon
  <2> QED BY <1>1, <2>1, <2>2, <2>3 DEF DeliverPlans, DeliverTodo
<1>3. Plan(c, EnterTodo(c))
  <2>1. Plan(c, <<"create", "switch", "publish">>) /\ Plan(c, <<"switch", "publish">>)
    BY <1>s, <1>c, <1>f, Plan1, Plan2, Plan3, Plan4, Plan8, Zenon
  <2>2. Plan(c, <<"switch", "retain", "rebase", "publish">>)
    BY <1>s, <1>c, <1>f, Plan1, Plan2, Plan3, Plan4, Plan8, Zenon
  <2> QED BY <2>1, <2>2 DEF EnterTodo
<1>4. Plan(c, ReturnTodo(c))
  <2>1. Plan(c, <<"commit", "leave", "publish">>)
    BY <1>s, <1>c, <1>f, Plan1, Plan2, Plan3, Plan4, Plan8, Zenon
  <2>2. Plan(c, <<"capture", "publishSnapshot", "verify", "abort", "restore", "commit", "leave", "publish">>)
    BY <1>s, <1>c, <1>f, Plan1, Plan2, Plan3, Plan4, Plan8, Zenon
  <2> QED BY <2>1, <2>2 DEF ReturnTodo
<1>5. Plan(c, EnterTask(c).todo) /\ EnterTask(c).kind = "enter"
  BY <1>1, <1>3 DEF EnterTask, Task
<1>6. /\ \A k : Plan(c, CheckpointTask(c, k, <<>>).todo) /\ CheckpointTask(c, k, <<>>).kind = k
      /\ c < N => Plan(c, CheckpointTask(c, "handoff", <<"admit">>).todo)
  BY <1>1, PlanThen DEF CheckpointTask, Task
<1>7. DeliverTask(c).todo \in DeliverPlans
  BY DEF DeliverTask, Task, DeliverPlans
<1>8. ASSUME NEW r \in {<<>>, <<"reenter">>}
      PROVE  Plan(c, ReturnTask(c, r).todo) /\ ReturnTask(c, r).kind = "return"
  <2>1. Plan(c, ReturnTodo(c) \o r)
    BY <1>1, <1>4, PlanThen
  <2>2. Plan(c, <<"publishVerified">> \o ReturnTodo(c) \o r)
    <3>1. "publishVerified" \in Steps(c)
      BY <1>s DEF S
    <3>2. Plan(c, <<"publishVerified">> \o ReturnTodo(c))
      BY <3>1, <1>4, PlanBefore
    <3> QED BY <1>1, <3>2, PlanThen
  <2> QED BY <1>1, <2>1, <2>2 DEF ReturnTask, Task
<1> QED BY <1>2, <1>5, <1>6, <1>7, <1>8

\* Every step leaves a repository with the commits it had.
LEMMA GitStep ==
  ASSUME SourceInv, [Next]_vars
  PROVE  Repository(git') /\ Grows(git, git')
<1>1. Repository(git) /\ FactInv /\ \A t \in tasks : t.card \in Cards
  BY DEF SourceInv, PlanInv, Planned
<1>2. CASE UNCHANGED git
  BY <1>1, <1>2, Rearranged DEF Repository
<1>3. ASSUME NEW t \in tasks, git' \in {git} \cup Command(t) PROVE Repository(git') /\ Grows(git, git')
  BY <1>1, <1>2, <1>3, CommandKeeps
<1>4. CASE Native
  BY <1>2, <1>3, <1>4 DEF Native, RunCommand, VerifySnapshot, Publish, PublishParent, Admit, StepFails, EntryRefused, EndDoomed
<1>5. CASE Die
  BY <1>2, <1>3, <1>5 DEF Die
<1>6. ASSUME NEW e, git' = [git EXCEPT !.tree = @ \cup {e}] PROVE Repository(git') /\ Grows(git, git')
  <2>1. DOMAIN git' = DOMAIN git /\ git'.commits = git.commits /\ git'.tip = git.tip /\ git'.branch = git.branch
    BY <1>1, <1>6 DEF Repository, Fields
  <2> QED BY <1>1, <2>1, Rearranged DEF Repository
<1>7. CASE Operator
  <2>1. CASE OperatorRestore
    <3>1. DOMAIN git' = DOMAIN git /\ git'.commits = git.commits /\ git'.tip = git.tip /\ git'.branch = 0
      BY <1>1, <2>1 DEF OperatorRestore, Repository, Fields
    <3>2. 0 \in 0..N
      BY GitSourceAssumption
    <3> QED BY <1>1, <3>1, <3>2, Rearranged
  <2> QED BY <1>6, <1>7, <2>1 DEF Operator, GlobalWrite
<1>8. CASE Agent
  <2>1. PICK c \in Cards : AgentCommit(c) \/ AgentRebase(c) \/ AgentContinue(c) \/ \E e \in Edits : AgentEdit(c, e)
    BY <1>8 DEF Agent
  <2>2. CASE AgentCommit(c)
    BY <1>1, <2>2, CommitAllKeeps DEF AgentCommit
  <2>3. CASE AgentRebase(c)
    <3>1. facts[c].corr.onto \in 0..Len(git.commits)
      BY <1>1 DEF FactInv, FactRecords, Corrections, Repository
    <3> QED BY <1>1, <2>3, <3>1, RebaseKeeps DEF AgentRebase
  <2>4. CASE AgentContinue(c)
    <3> DEFINE h == WithCommit(git, git.rebase.onto, git.tree)
    <3>1. Repository(h) /\ c \in 0..N
      BY <1>1, Committed, GitSourceAssumption DEF Cards
    <3>2. git' = [h EXCEPT !.tip[c] = Newest(h), !.rebase = NoRebase]
      BY <2>4 DEF AgentContinue
    <3>4. h = WithCommit(git, git.rebase.onto, git.tree)
      OBVIOUS
    <3> HIDE DEF h
    <3>3. TipIsNewest(git', h, c)
      BY <3>1, <3>2 DEF Repository, Fields, TipIsNewest
    <3> QED BY <1>1, <3>1, <3>3, <3>4, CommittedOn
  <2> QED BY <1>6, <2>1, <2>2, <2>3, <2>4 DEF AgentEdit
<1>9. CASE Card
  BY <1>2, <1>9 DEF Card, CheckpointSource, ActivateChild, PrepareCandidate, AcceptResult, CompleteCorrection,
                    SettleResult, SettleInterrupted, SettleBoundary, InterruptNode, Interrupt
<1>10. CASE Start \/ Stop \/ Halted
  BY <1>2, <1>10 DEF Start, Stop, Halted
<1> QED BY <1>2, <1>4, <1>5, <1>7, <1>8, <1>9, <1>10 DEF Next, vars

\* A task stays planned when its steps are replaced by a plan.
LEMMA PlannedOn ==
  ASSUME NEW t, IsTask(t), Planned(t), NEW d, Plan(t.card, d), t.kind = "deliver" => d \in DeliverPlans
  PROVE  /\ Planned([t EXCEPT !.todo = d]) /\ [t EXCEPT !.todo = d].kind = t.kind
         /\ [t EXCEPT !.todo = d].card = t.card
BY DEF Planned, IsTask

\* A doomed task has its plan.
LEMMA PlannedDoomed ==
  ASSUME NEW t, IsTask(t), Planned(t)
  PROVE  /\ Planned([t EXCEPT !.doomed = TRUE]) /\ [t EXCEPT !.doomed = TRUE].kind = t.kind
         /\ [t EXCEPT !.doomed = TRUE].card = t.card
BY DEF Planned, IsTask

\* beginHalt and the doom of an interrupt keep every task planned.
LEMMA DoomKeepsPlans ==
  ASSUME TaskInv, PlanInv, NEW all \in SUBSET tasks,
         \A u \in tasks' : \E t \in all : u = t \/ u = [t EXCEPT !.doomed = TRUE], UNCHANGED accepted
  PROVE  PlanInv'
<1> SUFFICES ASSUME NEW u \in tasks' PROVE Planned(u) /\ (u.kind = "deliver" => accepted[u.card] # None)
  BY DEF PlanInv
<1>1. PICK t \in all : u = t \/ u = [t EXCEPT !.doomed = TRUE]
  OBVIOUS
<1>2. IsTask(t) /\ Planned(t) /\ (t.kind = "deliver" => accepted[t.card] # None)
  BY DEF TaskInv, PlanInv
<1>3. CASE u = [t EXCEPT !.doomed = TRUE]
  <2>1. Planned(u) /\ u.kind = t.kind /\ u.card = t.card
    BY <1>2, <1>3, PlannedDoomed
  <2> QED BY <1>2, <2>1
<1> QED BY <1>1, <1>2, <1>3

\* What sourceOperation begins is planned.
LEMMA BeginPlans ==
  ASSUME TaskInv, PlanInv, NEW x, Planned(x), x.kind = "deliver" => accepted[x.card] # None, Begin(x), UNCHANGED accepted
  PROVE  PlanInv'
<1>1. CASE Halt(tasks)
  BY <1>1, DoomKeepsPlans DEF Halt
<1>2. CASE tasks' = tasks \cup {x}
  BY <1>2 DEF PlanInv
<1> QED BY <1>1, <1>2 DEF Begin

\* The rest of a delivery's plan is one.
LEMMA DeliverTail ==
  ASSUME NEW s \in DeliverPlans, Head(s) \in Commands \cup {"publishParent"}
  PROVE  Tail(s) \in DeliverPlans /\ Head(s) \in {"leave", "squash", "publishParent"}
<1>1. CASE s = DeliverTodo
  BY <1>1 DEF DeliverPlans, DeliverTodo
<1>2. CASE s = <<"squash", "publishParent", "publish">>
  BY <1>2 DEF DeliverPlans
<1>3. CASE s = <<"publishParent", "publish">>
  BY <1>3 DEF DeliverPlans
<1>4. CASE s \in {<<"publish">>, <<"failed">>}
  BY <1>4 DEF Commands
<1> QED BY <1>1, <1>2, <1>3, <1>4 DEF DeliverPlans

\* A conflict, dirty source or success of a command leaves a plan, and a delivery a plan of a delivery.
LEMMA AfterPlans ==
  ASSUME NEW t, Planned(t), Head(t.todo) \in Commands, NEW g
  PROVE  Plan(t.card, After(t, g)) /\ (t.kind = "deliver" => After(t, g) \in DeliverPlans)
<1> DEFINE c == t.card
<1>1. c \in Cards /\ Plan(c, t.todo)
  BY DEF Planned
<1>2. Plan(c, Tail(t.todo))
  <2>1. Head(t.todo) \notin Finals
    BY DEF Commands, Finals
  <2> QED BY <1>1, <2>1, PlanTail
<1>3. Plan(c, <<"failed">>) /\ Plan(c, <<"refused">>) /\ Plan(c, <<"abort", "publishTask">>)
  <2>1. "failed" \in Steps(c) /\ "refused" \in Steps(c) /\ "abort" \in Steps(c) /\ "publishTask" \in Steps(c)
    BY DEF Steps, Finals, Commands
  <2>2. "failed" \in Finals /\ "refused" \in Finals /\ "publishTask" \in Finals
    BY DEF Finals
  <2> QED BY <2>1, <2>2, Plan1, Plan2, Zenon
<1>4. After(t, g) \in {<<"failed">>, <<"refused">>, <<"abort", "publishTask">>, Tail(t.todo)}
  BY DEF After
<1>5. ASSUME t.kind = "deliver" PROVE After(t, g) \in DeliverPlans
  <2>1. Tail(t.todo) \in DeliverPlans /\ Head(t.todo) \in {"leave", "squash", "publishParent"}
    BY <1>5, DeliverTail DEF Planned
  <2>2. After(t, g) \in {<<"failed">>, Tail(t.todo)}
    BY <1>5, <2>1 DEF After
  <2> QED BY <2>1, <2>2 DEF DeliverPlans
<1> QED BY <1>2, <1>3, <1>4, <1>5

\* The card a hand-over admits is in the chain.
LEMMA AdmitsACard ==
  ASSUME SourceInv, NEW t \in tasks, Admit(t)
  PROVE  (IF Head(t.todo) = "admit" THEN t.card + 1 ELSE t.card) \in Cards
<1>1. t.card \in Cards /\ Head(t.todo) \in Steps(t.card)
  BY DEF SourceInv, PlanInv, Planned, Plan
<1>2. Head(t.todo) = "admit" => t.card < N
  BY <1>1 DEF Steps, Commands
<1> QED BY <1>1, <1>2, GitSourceAssumption DEF Cards

\* Every step keeps the operations in progress planned.
LEMMA PlanStep ==
  ASSUME SourceInv, [Next]_vars
  PROVE  PlanInv'
<1> USE DEF SourceInv
<1>1. CASE UNCHANGED <<tasks, accepted>>
  BY <1>1 DEF PlanInv
<1>2. CASE tasks' = {}
  BY <1>2 DEF PlanInv
<1>3. CASE Start
  <2>1. 1 \in Cards
    BY GitSourceAssumption DEF Cards
  <2>2. Planned(EnterTask(1)) /\ EnterTask(1).kind = "enter"
    <3>1. {"kind", "todo"} \subseteq DOMAIN EnterTask(1)
      BY DEF EnterTask, Task
    <3> QED BY <2>1, <3>1, AskedPlans, AskedForm DEF Planned
  <2> QED BY <1>3, <2>2 DEF Start, PlanInv
<1>4. CASE Native
  <2>1. PICK t \in tasks : \/ RunCommand(t) \/ VerifySnapshot(t) \/ Publish(t) \/ PublishParent(t)
                           \/ Admit(t) \/ StepFails(t) \/ EntryRefused(t) \/ EndDoomed(t)
    BY <1>4 DEF Native
  <2>2. /\ tasks = {t} /\ IsTask(t) /\ Planned(t) /\ (t.kind = "deliver" => accepted[t.card] # None)
        /\ t.card \in Cards /\ Plan(t.card, t.todo) /\ (t.kind = "deliver" => t.todo \in DeliverPlans)
    BY DEF TaskInv, PlanInv, Planned
  <2>3. ASSUME NEW d, tasks' = (tasks \ {t}) \cup {[t EXCEPT !.todo = d]}, UNCHANGED accepted,
               Plan(t.card, d), t.kind = "deliver" => d \in DeliverPlans
        PROVE  PlanInv'
    <3> DEFINE u == [t EXCEPT !.todo = d]
    <3>1. Planned(u) /\ u.kind = t.kind /\ u.card = t.card
      BY <2>2, <2>3, PlannedOn
    <3> HIDE DEF u
    <3>2. tasks' = {u}
      BY <2>2, <2>3 DEF u
    <3> QED BY <2>2, <2>3, <3>1, <3>2 DEF PlanInv
  <2>4. CASE RunCommand(t)
    BY <2>2, <2>3, <2>4, AfterPlans DEF RunCommand
  <2>5. ASSUME Head(t.todo) \in {"verify", "publishParent"}
        PROVE  Plan(t.card, Tail(t.todo)) /\ (t.kind = "deliver" => Tail(t.todo) \in DeliverPlans)
    <3>1. Head(t.todo) \notin Finals
      BY <2>5 DEF Finals
    <3>2. Plan(t.card, Tail(t.todo))
      BY <2>2, <3>1, PlanTail
    <3>3. ASSUME t.kind = "deliver" PROVE Tail(t.todo) \in DeliverPlans
      <4>1. Head(t.todo) # "verify"
        BY <2>2, <3>3 DEF DeliverPlans, DeliverTodo
      <4> QED BY <2>2, <2>5, <3>3, <4>1, DeliverTail
    <3> QED BY <3>2, <3>3
  <2>6. CASE VerifySnapshot(t)
    <3>1. Plan(t.card, <<"failed">>) /\ <<"failed">> \in DeliverPlans
      BY <2>2, AskedPlans DEF DeliverPlans
    <3> QED BY <2>3, <2>5, <2>6, <3>1 DEF VerifySnapshot
  <2>7. CASE PublishParent(t)
    BY <2>3, <2>5, <2>7 DEF PublishParent
  <2>8. CASE Publish(t)
    <3>1. CASE Len(t.todo) = 1
      <4>1. tasks' = {}
        BY <2>2, <2>8, <3>1 DEF Publish
      <4> QED BY <1>2, <4>1
    <3>2. CASE Len(t.todo) # 1
      <4>1. Plan(t.card, Tail(t.todo))
        BY <2>2, <3>2, PlanTail
      <4>2. t.kind # "deliver"
        <5>1. ASSUME t.todo \in DeliverPlans, Head(t.todo) \in {"publish", "publishTask", "publishSnapshot", "publishVerified"} PROVE FALSE
          BY <3>2, <5>1 DEF DeliverPlans, DeliverTodo
        <5> QED BY <2>2, <2>8, <5>1 DEF Publish
      <4> QED BY <2>3, <2>8, <3>2, <4>1, <4>2 DEF Publish
    <3> QED BY <3>1, <3>2
  <2>9. CASE Admit(t)
    <3> DEFINE c == IF Head(t.todo) = "admit" THEN t.card + 1 ELSE t.card
    <3>1. c \in Cards
      BY <2>9, AdmitsACard
    <3>2. tasks' = {EnterTask(c)}
      BY <2>2, <2>9 DEF Admit
    <3> HIDE DEF c
    <3>3. Planned(EnterTask(c)) /\ EnterTask(c).kind = "enter"
      <4>1. {"kind", "todo"} \subseteq DOMAIN EnterTask(c)
        BY DEF EnterTask, Task
      <4> QED BY <3>1, <4>1, AskedPlans, AskedForm DEF Planned
    <3> QED BY <3>2, <3>3 DEF PlanInv
  <2>10. CASE StepFails(t) \/ EntryRefused(t) \/ EndDoomed(t)
    BY <1>2, <2>2, <2>10 DEF StepFails, EntryRefused, EndDoomed, Halt
  <2> QED BY <2>1, <2>4, <2>6, <2>7, <2>8, <2>9, <2>10
<1>5. CASE Card
  <2>1. PICK c \in Cards :
          \/ CheckpointSource(c) \/ ActivateChild(c) \/ PrepareCandidate(c) \/ AcceptResult(c)
          \/ CompleteCorrection(c) \/ SettleResult(c)
          \/ SettleInterrupted(c) \/ SettleBoundary(c) \/ InterruptNode(c)
          \/ \E b \in 0..(N + 1) : Interrupt(c, b)
    BY <1>5 DEF Card
  <2>2. \A k, d : {"kind", "todo"} \subseteq DOMAIN Task(c, k, d)
    BY DEF Task
  <2>3. \A k : Planned(CheckpointTask(c, k, <<>>)) \/ k = "deliver"
    <3>1. \A k : {"kind", "todo"} \subseteq DOMAIN CheckpointTask(c, k, <<>>)
      BY <2>2 DEF CheckpointTask
    <3> QED BY <3>1, AskedPlans, AskedForm DEF Planned
  <2>4. c < N => Planned(CheckpointTask(c, "handoff", <<"admit">>))
    BY <2>2, AskedPlans, AskedForm DEF Planned, CheckpointTask, Task
  <2>5. \A r \in {<<>>, <<"reenter">>} : Planned(ReturnTask(c, r)) /\ ReturnTask(c, r).kind = "return"
    <3>1. \A r : {"kind", "todo"} \subseteq DOMAIN ReturnTask(c, r)
      BY <2>2 DEF ReturnTask
    <3> QED BY <3>1, AskedPlans, AskedForm DEF Planned
  <2>6. Planned(DeliverTask(c)) /\ DeliverTask(c).card = c
    BY <2>2, AskedPlans, AskedForm DEF Planned, DeliverTask
  <2>7. CASE CheckpointSource(c)
    BY <2>3, <2>7, AskedPlans, BeginPlans DEF CheckpointSource
  <2>8. CASE ActivateChild(c)
    <3>1. CheckpointTask(c, "handoff", <<"admit">>).kind = "handoff"
      BY DEF CheckpointTask, Task
    <3> QED BY <2>4, <2>8, <3>1, BeginPlans DEF ActivateChild
  <2>9. CASE PrepareCandidate(c)
    <3> DEFINE x == Task(c, "prepare", <<"commit", "publish">>)
    <3>1. "commit" \in Steps(c) /\ "publish" \in Steps(c) /\ "publish" \in Finals
      BY DEF Steps, Commands, Finals
    <3>2. Plan(c, <<"commit", "publish">>)
      BY <3>1, Plan2, Zenon
    <3>3. Planned(x) /\ x.kind = "prepare"
      BY <2>2, <3>2 DEF Planned, Task
    <3> HIDE DEF x
    <3> QED BY <2>9, <3>3, BeginPlans DEF PrepareCandidate, x
  <2>10. CASE AcceptResult(c)
    BY <1>2, <2>10 DEF AcceptResult, Working
  <2>11. CASE CompleteCorrection(c)
    BY <1>1, <2>11 DEF CompleteCorrection
  <2>12. CASE SettleResult(c)
    BY <2>5, <2>6, <2>12, BeginPlans DEF SettleResult
  <2>13. CASE SettleInterrupted(c)
    BY <2>5, <2>13, BeginPlans DEF SettleInterrupted
  <2>14. CASE SettleBoundary(c)
    BY <2>3, <2>5, <2>14, AskedPlans, BeginPlans DEF SettleBoundary
  <2>15. ASSUME NEW k, tasks' = DoomFrom(k), UNCHANGED accepted PROVE PlanInv'
    BY <2>15, DoomKeepsPlans DEF DoomFrom
  <2>16. CASE InterruptNode(c) \/ \E b \in 0..(N + 1) : Interrupt(c, b)
    BY <2>15, <2>16 DEF InterruptNode, Interrupt
  <2> QED BY <2>1, <2>7, <2>8, <2>9, <2>10, <2>11, <2>12, <2>13, <2>14, <2>16
<1>6. CASE Agent
  BY <1>1, <1>6 DEF Agent, AgentCommit, AgentRebase, AgentContinue, AgentEdit
<1>7. CASE Operator
  BY <1>1, <1>7 DEF Operator, OperatorRestore, GlobalWrite
<1>8. CASE Stop
  BY <1>8, DoomKeepsPlans DEF Stop, Halt
<1>9. CASE Halted \/ Die
  BY <1>2, <1>9 DEF Halted, Die
<1> QED BY <1>1, <1>3, <1>4, <1>5, <1>6, <1>7, <1>8, <1>9 DEF Next, vars

\* What a publication writes refers to commits that exist.
FactAt(f, n) == f \in FactRecords /\ f.tip <= n /\ f.ptip <= n /\ f.corr.onto <= n
Fact(f) == FactAt(f, Len(git.commits))
Entered(x, p) == [NoFacts EXCEPT !.tip = x, !.ptip = p, !.base = p]
Saved(f, x) == [f EXCEPT !.tip = x, !.cand = None, !.done = None]

\* Each record publishSource writes, from facts and tips that refer to commits.
LEMMA FactForms ==
  ASSUME NEW n \in Nat, NEW x \in 0..n, NEW p \in 0..n, NEW b \in Nat, NEW f, FactAt(f, n)
  PROVE  /\ FactAt(Entered(x, p), n) /\ FactAt(Saved(f, x), n)
         /\ FactAt([Entered(x, p) EXCEPT !.base = b, !.corr = [base |-> b, orig |-> x, onto |-> p, snap |-> None]], n)
         /\ FactAt([f EXCEPT !.cand = None, !.done = None, !.corr.snap = n], n)
         /\ FactAt([Saved(f, x) EXCEPT !.base = f.corr.onto], n)
         /\ FactAt([Saved(f, x) EXCEPT !.base = f.corr.onto, !.corr = NoTask], n)
         /\ FactAt([f EXCEPT !.ptip = p, !.corr.onto = p], n)
         /\ FactAt([f EXCEPT !.tip = x, !.cand = x], n) /\ FactAt([f EXCEPT !.tip = x, !.cand = None], n)
         /\ FactAt([f EXCEPT !.ptip = p, !.cand = None, !.done = b], n)
<1> USE DEF FactAt, FactRecords, Corrections, None
<1>1. f \in FactRecords /\ f.corr \in Corrections /\ f.tip <= n /\ f.ptip <= n /\ f.corr.onto <= n
  OBVIOUS
<1>12. x \in Nat /\ p \in Nat /\ x <= n /\ p <= n /\ 0 \in Nat /\ 0 <= n
  OBVIOUS
<1>2. FactAt(Entered(x, p), n)
  BY <1>12 DEF Entered, NoFacts, NoTask
<1>3. FactAt(Saved(f, x), n)
  BY <1>1, <1>12 DEF Saved
<1>4. FactAt([Entered(x, p) EXCEPT !.base = b, !.corr = [base |-> b, orig |-> x, onto |-> p, snap |-> None]], n)
  BY <1>12 DEF Entered, NoFacts, NoTask
<1>5. FactAt([f EXCEPT !.cand = None, !.done = None, !.corr.snap = n], n)
  BY <1>1, <1>12
<1>6. FactAt([Saved(f, x) EXCEPT !.base = f.corr.onto], n)
  BY <1>1, <1>12 DEF Saved
<1>7. FactAt([Saved(f, x) EXCEPT !.base = f.corr.onto, !.corr = NoTask], n)
  BY <1>1, <1>12 DEF Saved, NoTask
<1>8. FactAt([f EXCEPT !.ptip = p, !.corr.onto = p], n)
  BY <1>1, <1>12
<1>9. FactAt([f EXCEPT !.tip = x, !.cand = x], n)
  BY <1>1, <1>12
<1>10. FactAt([f EXCEPT !.tip = x, !.cand = None], n)
  BY <1>1, <1>12
<1>11. FactAt([f EXCEPT !.ptip = p, !.cand = None, !.done = b], n)
  BY <1>1, <1>12
<1> QED BY <1>2, <1>3, <1>4, <1>5, <1>6, <1>7, <1>8, <1>9, <1>10, <1>11

\* The tips of a card's branch and of its parent's.
LEMMA TipsExist ==
  ASSUME Repository(git), NEW c \in Cards
  PROVE  Len(git.commits) \in Nat /\ git.tip[c] \in 0..Len(git.commits) /\ git.tip[c - 1] \in 0..Len(git.commits)
<1>1. c \in 0..N /\ c - 1 \in 0..N
  BY GitSourceAssumption DEF Cards
<1> QED BY <1>1 DEF Repository

\* So whatever a task publishes refers to commits.
LEMMA PublishedFact ==
  ASSUME SourceInv, NEW t, t.card \in Cards
  PROVE  Fact(Published(t))
<1> DEFINE c == t.card
           f == facts[c]
           n == Len(git.commits)
           p == ParentTip(c)
           b == ReplayBase(c)
           x == git.tip[c]
           y == git.tip[c - 1]
           a == accepted[c]
<1>1. /\ n \in Nat /\ p \in 0..n /\ b \in Nat /\ x \in 0..n /\ y \in 0..n /\ a \in Nat
  BY ParentExists, TipsExist DEF SourceInv, AcceptInv
<1>2. FactAt(f, n)
  BY DEF SourceInv, FactInv, FactAt
<1> DEFINE Forms == {[Entered(x, p) EXCEPT !.base = b, !.corr = [base |-> b, orig |-> x, onto |-> p, snap |-> None]],
                     [f EXCEPT !.cand = None, !.done = None, !.corr.snap = n], [Saved(f, x) EXCEPT !.base = f.corr.onto],
                     [f EXCEPT !.ptip = p, !.corr.onto = p], Entered(x, p), [f EXCEPT !.tip = x, !.cand = x],
                     [f EXCEPT !.tip = x, !.cand = None], [f EXCEPT !.ptip = y, !.cand = None, !.done = a], Saved(f, x)}
<1>3. Published(t) \in Forms
  BY Zenon DEF Published, Newest, Entered, Saved
<1> HIDE DEF c, f, n, p, b, x, y, a
<1>4. /\ FactAt(Entered(x, p), n) /\ FactAt(Saved(f, x), n)
      /\ FactAt([Entered(x, p) EXCEPT !.base = b, !.corr = [base |-> b, orig |-> x, onto |-> p, snap |-> None]], n)
      /\ FactAt([f EXCEPT !.cand = None, !.done = None, !.corr.snap = n], n)
      /\ FactAt([Saved(f, x) EXCEPT !.base = f.corr.onto], n)
      /\ FactAt([f EXCEPT !.ptip = p, !.corr.onto = p], n)
      /\ FactAt([f EXCEPT !.tip = x, !.cand = x], n) /\ FactAt([f EXCEPT !.tip = x, !.cand = None], n)
      /\ FactAt([f EXCEPT !.ptip = y, !.cand = None, !.done = a], n)
  BY <1>1, <1>2, FactForms, Zenon
<1>5. \A z \in Forms : FactAt(z, n)
  BY <1>4, Zenon
<1> QED BY <1>3, <1>5 DEF Fact, n

\* A publication changes the facts of one card to facts.
LEMMA FactsPublished ==
  ASSUME FactInv, UNCHANGED git, NEW d \in Cards, NEW f, Fact(f), facts' = [facts EXCEPT ![d] = f]
  PROVE  FactInv'
BY DEF FactInv, Fact, FactAt

\* Every step keeps the facts and the acceptances.
LEMMA FactStep ==
  ASSUME SourceInv, [Next]_vars
  PROVE  FactInv' /\ AcceptInv'
<1>1. /\ Repository(git) /\ Repository(git') /\ Grows(git, git') /\ FactInv /\ AcceptInv
      /\ \A t \in tasks : t.card \in Cards
  BY GitStep DEF SourceInv, PlanInv, Planned
<1>2. /\ UNCHANGED facts => FactInv'
      /\ UNCHANGED <<review, accepted, seen>> => AcceptInv'
  BY <1>1, GrowthKeeps
<1>3. ASSUME UNCHANGED <<git, seen>>, NEW c \in Cards, review' = review \/ \E o \in Nat : review' = [review EXCEPT ![c] = o],
             accepted' = accepted \/ accepted' = [accepted EXCEPT ![c] = None]
      PROVE  AcceptInv'
  BY <1>1, <1>3, SMTT(60) DEF AcceptInv, Tree, None
<1>4. ASSUME Cleared, UNCHANGED seen PROVE AcceptInv'
  BY <1>1, <1>4 DEF AcceptInv, Cleared, None
<1>5. CASE Native
  <2>1. PICK t \in tasks : \/ RunCommand(t) \/ VerifySnapshot(t) \/ Publish(t) \/ PublishParent(t)
                           \/ Admit(t) \/ StepFails(t) \/ EntryRefused(t) \/ EndDoomed(t)
    BY <1>5 DEF Native
  <2>2. CASE Publish(t)
    <3>1. Fact(Published(t))
      BY <1>1, PublishedFact
    <3>2. UNCHANGED <<git, seen>> /\ facts' = [facts EXCEPT ![t.card] = Published(t)]
      BY <2>2 DEF Publish
    <3>3. FactInv'
      BY <1>1, <3>1, <3>2, FactsPublished
    <3>4. t.card \in 0..N /\ git.tip[t.card] \in Nat
      BY <1>1, ParentExists, TipsExist
    <3>5. /\ review' = review \/ \E o \in Nat : review' = [review EXCEPT ![t.card] = o]
          /\ accepted' = accepted \/ accepted' = [accepted EXCEPT ![t.card] = None]
      BY <2>2, <3>4 DEF Publish
    <3> QED BY <1>1, <1>3, <3>2, <3>3, <3>5
  <2>3. CASE PublishParent(t)
    <3>1. CASE t.card = 1
      BY <1>2, <2>3, <3>1 DEF PublishParent
    <3>2. CASE t.card # 1
      <4> DEFINE d == t.card - 1
                 f == Saved(facts[d], git.tip[d])
      <4>1. d \in Cards
        BY <1>1, <3>2, GitSourceAssumption DEF Cards
      <4>2. Fact(f)
        <5>1. FactAt(facts[d], Len(git.commits))
          BY <1>1, <4>1 DEF FactInv, FactAt
        <5> QED BY <1>1, <4>1, <5>1, TipsExist, FactForms DEF Fact
      <4>3. facts' = [facts EXCEPT ![d] = f] /\ UNCHANGED <<git, review, accepted, seen>>
        BY <2>3, <3>2 DEF PublishParent, Saved
      <4> HIDE DEF d, f
      <4> QED BY <1>1, <1>2, <4>1, <4>2, <4>3, FactsPublished
    <3> QED BY <3>1, <3>2
  <2>4. CASE Admit(t)
    <3> DEFINE c == IF Head(t.todo) = "admit" THEN t.card + 1 ELSE t.card
    <3>1. c \in Cards
      BY <2>1, <2>4, AdmitsACard
    <3>2. /\ UNCHANGED <<git, facts, seen>> /\ review' = [review EXCEPT ![c] = None]
          /\ accepted' = [accepted EXCEPT ![c] = None]
      BY <2>4 DEF Admit
    <3> HIDE DEF c
    <3> QED BY <1>2, <1>3, <3>1, <3>2 DEF None
  <2> QED BY <1>2, <2>1, <2>2, <2>3, <2>4 DEF RunCommand, VerifySnapshot, StepFails, EntryRefused, EndDoomed
<1>6. CASE Card
  <2>1. PICK c \in Cards :
          \/ CheckpointSource(c) \/ ActivateChild(c) \/ PrepareCandidate(c) \/ AcceptResult(c)
          \/ CompleteCorrection(c) \/ SettleResult(c)
          \/ SettleInterrupted(c) \/ SettleBoundary(c) \/ InterruptNode(c)
          \/ \E b \in 0..(N + 1) : Interrupt(c, b)
    BY <1>6 DEF Card
  <2>2. CASE AcceptResult(c)
    <3>1. /\ review[c] # None /\ git.branch = c /\ git.tip[c] = review[c] /\ git.tree = Tree(git, git.tip[c])
          /\ accepted' = [accepted EXCEPT ![c] = review[c]] /\ seen' = [seen EXCEPT ![c] = git.tree]
          /\ UNCHANGED <<git, facts, review>>
      BY <2>2 DEF AcceptResult, Verified, InspectedClean, Inspected, Dirty
    <3>2. review[c] \in 1..Len(git.commits)
      BY <1>1, <3>1, TipsExist DEF None
    <3>3. AcceptInv'
      BY <1>1, <3>1, <3>2 DEF AcceptInv, Tree
    <3> QED BY <1>2, <3>1, <3>3
  <2>3. CASE CompleteCorrection(c)
    <3> DEFINE f == [Saved(facts[c], git.tip[c]) EXCEPT !.base = facts[c].corr.onto, !.corr = NoTask]
    <3>1. FactAt(facts[c], Len(git.commits))
      BY <1>1 DEF FactInv, FactAt
    <3>2. Fact(f)
      BY <1>1, <3>1, TipsExist, FactForms DEF Fact
    <3>3. facts' = [facts EXCEPT ![c] = f] /\ UNCHANGED <<git, review, accepted, seen>>
      BY <1>1, <2>3 DEF CompleteCorrection, Saved, FactInv, FactRecords
    <3> HIDE DEF f
    <3> QED BY <1>1, <1>2, <3>2, <3>3, FactsPublished
  <2>4. CASE InterruptNode(c)
    <3>1. UNCHANGED <<git, facts, accepted, seen>> /\ review' = [review EXCEPT ![c] = None]
      BY <2>4 DEF InterruptNode
    <3>2. None \in Nat
      BY DEF None
    <3>3. AcceptInv'
      BY <1>3, <3>1, <3>2
    <3> QED BY <1>2, <3>1, <3>3
  <2> QED BY <1>2, <2>1, <2>2, <2>3, <2>4 DEF CheckpointSource, ActivateChild, PrepareCandidate, SettleResult,
                                             SettleInterrupted, SettleBoundary, Interrupt
<1>7. CASE Agent
  BY <1>2, <1>7 DEF Agent, AgentCommit, AgentRebase, AgentContinue, AgentEdit
<1>8. CASE Operator
  BY <1>2, <1>8 DEF Operator, OperatorRestore, GlobalWrite
<1>9. CASE Start \/ Stop
  BY <1>2, <1>9 DEF Start, Stop
<1>10. CASE Halted \/ Die
  BY <1>2, <1>4, <1>10 DEF Halted, Die
<1> QED BY <1>2, <1>5, <1>6, <1>7, <1>8, <1>9, <1>10 DEF Next, vars

\* The owners of the project are cards 1..depth.
LEMMA DepthStep ==
  ASSUME SourceInv, [Next]_vars
  PROVE  depth' \in 0..N
<1>1. 0 \in 0..N /\ 1 \in 0..N /\ depth \in 0..N
  BY GitSourceAssumption DEF SourceInv
<1>2. CASE UNCHANGED depth
  BY <1>1, <1>2
<1>3. CASE Native
  <2>1. PICK t \in tasks : \/ RunCommand(t) \/ VerifySnapshot(t) \/ Publish(t) \/ PublishParent(t)
                           \/ Admit(t) \/ StepFails(t) \/ EntryRefused(t) \/ EndDoomed(t)
    BY <1>3 DEF Native
  <2>2. t.card \in Cards /\ t.card - 1 \in 0..N
    BY ParentExists DEF SourceInv, PlanInv, Planned
  <2>3. CASE Admit(t)
    <3>1. depth' \in Cards
      BY <2>3, AdmitsACard DEF Admit
    <3> QED BY <3>1, GitSourceAssumption DEF Cards
  <2> QED BY <1>2, <2>1, <2>2, <2>3 DEF RunCommand, VerifySnapshot, Publish, PublishParent, StepFails, EntryRefused, EndDoomed
<1>4. CASE Card
  BY <1>2, <1>4 DEF Card, CheckpointSource, ActivateChild, PrepareCandidate, AcceptResult, CompleteCorrection,
                    SettleResult, SettleInterrupted, SettleBoundary, InterruptNode, Interrupt
<1>5. CASE Agent \/ Operator
  BY <1>2, <1>5 DEF Agent, AgentCommit, AgentRebase, AgentContinue, AgentEdit, Operator, OperatorRestore, GlobalWrite
<1>6. CASE Start \/ Stop \/ Halted \/ Die
  BY <1>1, <1>2, <1>6 DEF Start, Stop, Halted, Die, Cleared
<1> QED BY <1>2, <1>3, <1>4, <1>5, <1>6 DEF Next, vars

-----------------------------------------------------------------------------
(* The theorem *)

\* Every step keeps the invariant,
LEMMA SourceStep == SourceInv /\ [Next]_vars => SourceInv'
BY TaskStep, GitStep, FactStep, PlanStep, DepthStep DEF SourceInv

\* which holds when the project is created.
LEMMA SourceInit == Init => SourceInv
<1> SUFFICES ASSUME Init PROVE SourceInv
  OBVIOUS
<1>1. tasks = {} /\ TaskInv /\ PlanInv
  BY DEF Init, TaskInv, PlanInv
<1> DEFINE root == <<Commit(None, {})>>
<1>2. IsSeq(root) /\ Len(root) = 1
  <2>1. root \in Seq({Commit(None, {})})
    OBVIOUS
  <2> QED BY <2>1 DEF IsSeq
<1>3. /\ git = [commits |-> root, tip |-> [b \in 0..N |-> IF b <= 1 THEN 1 ELSE None],
                kept |-> {}, branch |-> 0, tree |-> {}, rebase |-> NoRebase]
  BY DEF Init, Commit
<1> HIDE DEF root
<1>4. Repository(git) /\ git.commits = root
  BY <1>2, <1>3, GitSourceAssumption DEF Repository, Fields, None
<1>5. FactInv
  <2>1. \A c \in Cards : FactAt(facts[c], 1)
    <3>1. \A c \in Cards : facts[c] \in {NoFacts, [NoFacts EXCEPT !.tip = 1, !.ptip = 1, !.base = 1]}
      BY DEF Init
    <3>2. 0 \in Nat /\ 1 \in Nat /\ 0 <= 1 /\ 1 <= 1
      OBVIOUS
    <3>3. FactAt(NoFacts, 1)
      BY <3>2 DEF FactAt, FactRecords, Corrections, NoFacts, NoTask, None
    <3>4. FactAt([NoFacts EXCEPT !.tip = 1, !.ptip = 1, !.base = 1], 1)
      BY <3>2 DEF FactAt, FactRecords, Corrections, NoFacts, NoTask, None
    <3> QED BY <3>1, <3>3, <3>4
  <2>2. facts = [c \in Cards |-> facts[c]]
    BY DEF Init
  <2> QED BY <1>2, <1>4, <2>1, <2>2 DEF FactInv, FactAt
<1>6. AcceptInv
  BY DEF Init, AcceptInv, None
<1>7. depth \in 0..N
  BY GitSourceAssumption DEF Init
<1> QED BY <1>1, <1>4, <1>5, <1>6, <1>7 DEF SourceInv

\* What deliverSource puts on the parent's branch is one commit on top of the parent's
\* own tip with exactly the source the acceptance saw, whichever command of which
\* operation is interrupted, fails or is the one in flight when the process dies.
THEOREM DeliveredIsSeen == Spec => [][DeliversSeen]_vars
<1>1. ASSUME SourceInv, [Next]_vars PROVE [DeliversSeen]_vars
  <2> SUFFICES ASSUME NEW c \in Cards, Next, Delivers(c)
               PROVE  git'.commits[git'.tip[c - 1]] = Commit(git.tip[c - 1], seen[c])
    BY <1>1 DEF DeliversSeen, Commit, vars
  <2>1. PICK t \in tasks : t.card = c /\ t.kind = "deliver"
    BY DEF Delivers
  <2>2. tasks = {t} /\ git'.tip[c - 1] # git.tip[c - 1] /\ Repository(git)
    BY <1>1, <2>1 DEF Delivers, SourceInv, TaskInv
  <2>3. git' \in Command(t)
    <3>1. git' # git
      BY <2>2
    <3>2. CASE Native
      BY <2>2, <3>1, <3>2 DEF Native, RunCommand, VerifySnapshot, Publish, PublishParent, Admit, StepFails, EntryRefused, EndDoomed
    <3>3. CASE Die
      BY <2>2, <3>1, <3>3 DEF Die
    <3>4. CASE Operator
      <4>1. git'.tip = git.tip
        BY <2>2, <3>4 DEF Operator, OperatorRestore, GlobalWrite, Repository, Fields
      <4> QED BY <2>2, <4>1
    <3>5. ~Agent
      BY <2>2 DEF Agent, AgentCommit, AgentRebase, AgentContinue, AgentEdit, Working
    <3>6. CASE Card
      BY <3>1, <3>6 DEF Card, CheckpointSource, ActivateChild, PrepareCandidate, AcceptResult, CompleteCorrection,
                        SettleResult, SettleInterrupted, SettleBoundary, InterruptNode, Interrupt
    <3>7. CASE Start \/ Stop \/ Halted
      BY <3>1, <3>7 DEF Start, Stop, Halted
    <3> QED BY <3>2, <3>3, <3>4, <3>5, <3>6, <3>7 DEF Next
  <2> QED BY <1>1, <2>1, <2>2, <2>3, DeliveryCommand
<1> QED BY <1>1, SourceInit, SourceStep, PTL DEF Spec

-----------------------------------------------------------------------------
(* The checkout follows the owners                                             *)

\* Owner k of the first d was entered on the tip of its parent's branch, which is
\* the tip its parent published, and both still stand.
Chain(d) == \A k \in 1..d : git.tip[k - 1] = facts[k].ptip /\ (k > 1 => facts[k - 1].tip = facts[k].ptip)
Resting == ~HasRebase(git) /\ ~Dirty(git)

\* A checkpoint stays on the owner's branch.
Checkpoints == {"checkpoint", "handoff", "prepare", "urgent"}
CheckpointPlans ==
  {<<"commit", "publish">>, <<"publish">>, <<"commit", "publish", "admit">>, <<"publish", "admit">>, <<"admit">>, <<"failed">>}
CheckpointStage(c, s) == s \in CheckpointPlans /\ git.branch = c /\ Chain(c)

\* An entry leaves the parent's branch for the owner's with its switch.
EnterOutside == {<<"refused">>, <<"create", "switch", "publish">>, <<"switch", "publish">>,
                 <<"switch", "retain", "rebase", "publish">>}
EnterInside == {<<"publish">>, <<"retain", "rebase", "publish">>, <<"rebase", "publish">>, <<"abort", "publishTask">>,
                <<"publishTask">>}
EnterStage(c, s) ==
  \/ s = <<"failed">>
  \/ /\ Chain(c - 1) /\ git.tip[c - 1] = ParentTip(c)
     /\ \/ s \in EnterOutside /\ git.branch = c - 1 /\ Resting
        \/ s \in EnterInside /\ git.branch = c

\* A return closes its rebase, then its work, then leaves for the parent's branch.
Leaving(r) == <<"leave">> \o r
Saving(r) == <<"commit">> \o Leaving(r)
Restoring(r) == <<"restore">> \o Saving(r)
Verifying(r) == <<"publishVerified">> \o Saving(r)
Aborting(r) == <<"abort">> \o Restoring(r)
Checking(r) == <<"verify">> \o Aborting(r)
Noting(r) == <<"publishSnapshot">> \o Checking(r)
Capturing(r) == <<"capture">> \o Noting(r)
Returned == {<<"publish">>, <<"publish", "reenter">>}
ReturnStage(c, s) ==
  \/ s = <<"failed">>
  \/ /\ Chain(c)
     /\ \/ s = <<"reenter">>
        \/ s \in Returned /\ git.branch = c - 1 /\ Resting
        \/ \E r \in Returned :
             /\ git.branch = c
             /\ \/ s = Leaving(r) /\ Resting
                \/ s \in {Saving(r), Restoring(r), Verifying(r)} /\ ~HasRebase(git)
                \/ s \in {Aborting(r), Checking(r), Noting(r), Capturing(r)}

\* A delivery leaves for the parent's branch and takes it along.
DeliverStage(c, s) ==
  \/ s = <<"failed">>
  \/ /\ Chain(c - 1) /\ Resting /\ facts[c].tip = git.tip[c]
     /\ \/ s = DeliverTodo /\ git.branch = c
        \/ s \in {<<"squash", "publishParent", "publish">>, <<"publishParent", "publish">>} /\ git.branch = c - 1
        \/ s = <<"publish">> /\ git.branch = c - 1 /\ (c > 1 => facts[c - 1].tip = git.tip[c - 1])

StageOf(kind, doomed, c, s) ==
  \/ kind \in Checkpoints /\ CheckpointStage(c, s)
  \/ kind = "enter" /\ ~doomed /\ EnterStage(c, s)
  \/ kind = "return" /\ ~doomed /\ ReturnStage(c, s)
  \/ kind = "deliver" /\ ~doomed /\ DeliverStage(c, s)
Stage(t) == "doomed" \in DOMAIN t /\ StageOf(t.kind, t.doomed, t.card, t.todo)

\* While a run is up, and when it has ended by itself
OwnerInv ==
  /\ mode = "run" => /\ depth \in Cards /\ (tasks = {} => git.branch = depth /\ Chain(depth))
                     /\ \A t \in tasks : Stage(t)
  /\ mode = "idle" => tasks = {} /\ git.branch = 0 /\ ~HasRebase(git)

\* The first step of a plan and the others
LEMMA ListParts ==
  ASSUME NEW x, NEW y, NEW z, NEW w
  PROVE  /\ Head(<<x>>) = x /\ Len(<<x>>) = 1
         /\ Head(<<x, y>>) = x /\ Tail(<<x, y>>) = <<y>> /\ Len(<<x, y>>) = 2
         /\ Head(<<x, y, z>>) = x /\ Tail(<<x, y, z>>) = <<y, z>> /\ Len(<<x, y, z>>) = 3
         /\ Head(<<x, y, z, w>>) = x /\ Tail(<<x, y, z, w>>) = <<y, z, w>> /\ Len(<<x, y, z, w>>) = 4
<1>1. Head(<<x>>) = x /\ Len(<<x>>) = 1
  OBVIOUS
<1>2. Head(<<x, y>>) = x /\ Tail(<<x, y>>) = <<y>> /\ Len(<<x, y>>) = 2
  OBVIOUS
<1>3. Head(<<x, y, z>>) = x /\ Tail(<<x, y, z>>) = <<y, z>> /\ Len(<<x, y, z>>) = 3
  OBVIOUS
<1>4. Head(<<x, y, z, w>>) = x /\ Tail(<<x, y, z, w>>) = <<y, z, w>> /\ Len(<<x, y, z, w>>) = 4
  OBVIOUS
<1> QED BY <1>1, <1>2, <1>3, <1>4

Listed == Steps(0)

\* A step before a plan
LEMMA ConsParts ==
  ASSUME NEW S, NEW x \in S, NEW s \in Seq(S), s # <<>>
  PROVE  /\ <<x>> \o s \in Seq(S) /\ <<x>> \o s # <<>> /\ Head(<<x>> \o s) = x /\ Tail(<<x>> \o s) = s
         /\ Len(<<x>> \o s) # 1
<1>1. Len(s) \in Nat /\ Len(s) # 0 /\ <<x>> \in Seq(S) /\ Len(<<x>>) = 1
  OBVIOUS
<1>2. <<x>> \o s \in Seq(S) /\ Len(<<x>> \o s) = Len(s) + 1 /\ (<<x>> \o s)[1] = x
      /\ \A i \in 1..Len(s) : (<<x>> \o s)[i + 1] = s[i]
  BY <1>1
<1>3. Tail(<<x>> \o s) \in Seq(S) /\ Len(Tail(<<x>> \o s)) = Len(s)
      /\ \A i \in 1..Len(s) : Tail(<<x>> \o s)[i] = (<<x>> \o s)[i + 1]
  BY <1>1, <1>2
<1>4. Tail(<<x>> \o s) = s
  BY <1>2, <1>3
<1> QED BY <1>1, <1>2, <1>4

\* The plans of a return
LEMMA ReturnParts ==
  ASSUME NEW r \in Returned
  PROVE  /\ Head(Leaving(r)) = "leave" /\ Tail(Leaving(r)) = r
         /\ Head(Saving(r)) = "commit" /\ Tail(Saving(r)) = Leaving(r)
         /\ Head(Restoring(r)) = "restore" /\ Tail(Restoring(r)) = Saving(r)
         /\ Head(Verifying(r)) = "publishVerified" /\ Tail(Verifying(r)) = Saving(r) /\ Len(Verifying(r)) # 1
         /\ Head(Aborting(r)) = "abort" /\ Tail(Aborting(r)) = Restoring(r)
         /\ Head(Checking(r)) = "verify" /\ Tail(Checking(r)) = Aborting(r)
         /\ Head(Noting(r)) = "publishSnapshot" /\ Tail(Noting(r)) = Checking(r) /\ Len(Noting(r)) # 1
         /\ Head(Capturing(r)) = "capture" /\ Tail(Capturing(r)) = Noting(r)
<1>0. /\ {"publish", "reenter", "leave", "commit", "restore", "abort", "capture"} \subseteq Listed
      /\ {"publishVerified", "verify", "publishSnapshot"} \subseteq Listed
  BY GitSourceAssumption DEF Listed, Steps, Commands, Finals
<1> HIDE DEF Listed
<1>1. r \in Seq(Listed) /\ r # <<>>
  <2>1. <<"publish">> \in Seq(Listed) /\ <<"publish">> # <<>>
    BY <1>0
  <2>2. <<"publish", "reenter">> \in Seq(Listed) /\ <<"publish", "reenter">> # <<>>
    BY <1>0
  <2> QED BY <2>1, <2>2 DEF Returned
<1>2. Leaving(r) \in Seq(Listed) /\ Leaving(r) # <<>> /\ Head(Leaving(r)) = "leave" /\ Tail(Leaving(r)) = r
  BY <1>0, <1>1, ConsParts DEF Leaving
<1>3. Saving(r) \in Seq(Listed) /\ Saving(r) # <<>> /\ Head(Saving(r)) = "commit" /\ Tail(Saving(r)) = Leaving(r)
  BY <1>0, <1>2, ConsParts DEF Saving
<1>4. Restoring(r) \in Seq(Listed) /\ Restoring(r) # <<>> /\ Head(Restoring(r)) = "restore" /\ Tail(Restoring(r)) = Saving(r)
  BY <1>0, <1>3, ConsParts DEF Restoring
<1>5. Head(Verifying(r)) = "publishVerified" /\ Tail(Verifying(r)) = Saving(r) /\ Len(Verifying(r)) # 1
  BY <1>0, <1>3, ConsParts DEF Verifying
<1>6. Aborting(r) \in Seq(Listed) /\ Aborting(r) # <<>> /\ Head(Aborting(r)) = "abort" /\ Tail(Aborting(r)) = Restoring(r)
  BY <1>0, <1>4, ConsParts DEF Aborting
<1>7. Checking(r) \in Seq(Listed) /\ Checking(r) # <<>> /\ Head(Checking(r)) = "verify" /\ Tail(Checking(r)) = Aborting(r)
  BY <1>0, <1>6, ConsParts DEF Checking
<1>8. /\ Noting(r) \in Seq(Listed) /\ Noting(r) # <<>> /\ Head(Noting(r)) = "publishSnapshot" /\ Tail(Noting(r)) = Checking(r)
      /\ Len(Noting(r)) # 1
  BY <1>0, <1>7, ConsParts DEF Noting
<1>9. Head(Capturing(r)) = "capture" /\ Tail(Capturing(r)) = Noting(r)
  BY <1>0, <1>8, ConsParts DEF Capturing
<1> QED BY <1>2, <1>3, <1>4, <1>5, <1>6, <1>7, <1>8, <1>9

\* The plans of ReturnTask are these.
LEMMA ReturnForms ==
  ASSUME NEW rest \in {<<>>, <<"reenter">>}
  PROVE  \E r \in Returned :
           /\ <<"commit", "leave", "publish">> \o rest = Saving(r)
           /\ <<"publishVerified">> \o <<"commit", "leave", "publish">> \o rest = Verifying(r)
           /\ <<"capture", "publishSnapshot", "verify", "abort", "restore", "commit", "leave", "publish">> \o rest = Capturing(r)
<1>1. CASE rest = <<>>
  <2>1. <<"commit", "leave", "publish">> \o rest = Saving(<<"publish">>)
    BY <1>1 DEF Saving, Leaving
  <2>2. <<"publishVerified">> \o <<"commit", "leave", "publish">> \o rest = Verifying(<<"publish">>)
    BY <1>1 DEF Verifying, Saving, Leaving
  <2>3. <<"capture", "publishSnapshot", "verify", "abort", "restore", "commit", "leave", "publish">> \o rest = Capturing(<<"publish">>)
    BY <1>1 DEF Capturing, Noting, Checking, Aborting, Restoring, Saving, Leaving
  <2> QED BY <2>1, <2>2, <2>3 DEF Returned
<1>2. CASE rest = <<"reenter">>
  <2>1. <<"commit", "leave", "publish">> \o rest = Saving(<<"publish", "reenter">>)
    BY <1>2 DEF Saving, Leaving
  <2>2. <<"publishVerified">> \o <<"commit", "leave", "publish">> \o rest = Verifying(<<"publish", "reenter">>)
    BY <1>2 DEF Verifying, Saving, Leaving
  <2>3. <<"capture", "publishSnapshot", "verify", "abort", "restore", "commit", "leave", "publish">> \o rest = Capturing(<<"publish", "reenter">>)
    BY <1>2 DEF Capturing, Noting, Checking, Aborting, Restoring, Saving, Leaving
  <2> QED BY <2>1, <2>2, <2>3 DEF Returned
<1> QED BY <1>1, <1>2

\* Which lists begin a branch of a stage does not matter to what it says of the
\* repository: the chain stands while tips below it and facts of it stand.
LEMMA ChainKeeps ==
  ASSUME NEW d \in 0..N, Chain(d),
         \A b \in 0..N : b < d => git'.tip[b] = git.tip[b],
         \A k \in Cards : k <= d => facts'[k].ptip = facts[k].ptip,
         \A k \in Cards : k < d => facts'[k].tip = facts[k].tip
  PROVE  Chain(d)'
<1> SUFFICES ASSUME NEW k \in 1..d
             PROVE  git'.tip[k - 1] = facts'[k].ptip /\ (k > 1 => facts'[k - 1].tip = facts'[k].ptip)
  BY DEF Chain
<1>1. k \in Cards /\ k <= d /\ k - 1 \in 0..N /\ k - 1 < d /\ (k > 1 => k - 1 \in Cards)
  BY GitSourceAssumption DEF Cards
<1>2. git.tip[k - 1] = facts[k].ptip /\ (k > 1 => facts[k - 1].tip = facts[k].ptip)
  BY DEF Chain
<1> QED BY <1>1, <1>2

\* A shorter chain
LEMMA ChainBelow ==
  ASSUME NEW c \in Cards, Chain(c)
  PROVE  Chain(c - 1) /\ git.tip[c - 1] = facts[c].ptip /\ (c > 1 => facts[c - 1].tip = facts[c].ptip)
<1>1. c \in 1..c /\ \A k \in 1..(c - 1) : k \in 1..c
  BY DEF Cards
<1> QED BY <1>1 DEF Chain

\* Nothing is above the first card.
LEMMA ChainOfNone == Chain(0)
<1>1. 1..0 = {}
  OBVIOUS
<1> QED BY <1>1 DEF Chain

\* The cards and their branches
LEMMA CardNumbers ==
  ASSUME NEW c \in Cards
  PROVE  /\ c \in 0..c /\ c - 1 \in 0..c /\ c - 1 \in 0..(c - 1)
         /\ c \in 0..N /\ c - 1 \in 0..N /\ c # c - 1 /\ c \in Nat /\ c - 1 < c /\ (c # 1 => c - 1 \in Cards) /\ 1 \in Cards
         /\ c > 0 /\ (c > 1 <=> c # 1) /\ \A b \in 0..N : (b < c => b # c) /\ (b < c - 1 => (b # c - 1 /\ b # c /\ b < c))
         /\ \A k \in Cards : (k < c => k # c) /\ (k <= c - 1 => k # c) /\ (k < c - 1 => (k # c - 1 /\ k # c))
BY GitSourceAssumption DEF Cards

-----------------------------------------------------------------------------
(* What the commands do to branch, tips, rebase and worktree *)

\* A change of some fields of a repository
LEMMA Reads ==
  ASSUME NEW g, Repository(g), NEW x, NEW y
  PROVE  /\ LET h == [g EXCEPT !.tree = x] IN
              h.branch = g.branch /\ h.tip = g.tip /\ h.rebase = g.rebase /\ h.commits = g.commits /\ h.tree = x
         /\ LET h == [g EXCEPT !.kept = x] IN
              h.branch = g.branch /\ h.tip = g.tip /\ h.rebase = g.rebase /\ h.commits = g.commits /\ h.tree = g.tree
         /\ LET h == [g EXCEPT !.rebase = x, !.tree = y] IN
              h.branch = g.branch /\ h.tip = g.tip /\ h.rebase = x /\ h.commits = g.commits /\ h.tree = y
         /\ LET h == [g EXCEPT !.branch = x, !.tree = y] IN
              h.branch = x /\ h.tip = g.tip /\ h.rebase = g.rebase /\ h.commits = g.commits /\ h.tree = y
         /\ LET h == [g EXCEPT !.commits = x] IN
              h.branch = g.branch /\ h.tip = g.tip /\ h.rebase = g.rebase /\ h.commits = x /\ h.tree = g.tree
BY DEF Repository, Fields

\* switch from a clean branch, no hook writing
LEMMA SwitchEffect ==
  ASSUME Repository(git), Hooks = FALSE, ~Dirty(git), NEW b \in 0..N, NEW g \in SwitchTo(git, b)
  PROVE  g.branch = b /\ g.tip = git.tip /\ g.rebase = git.rebase /\ ~Dirty(g)
<1> DEFINE y == Tree(git, git.tip[b]) \cup (git.tree \ Tree(git, git.tip[git.branch]))
<1>1. g = [git EXCEPT !.branch = b, !.tree = y]
  BY DEF SwitchTo
<1>2. y = Tree(git, git.tip[b])
  BY DEF Dirty
<1> HIDE DEF y
<1>3. g.branch = b /\ g.tip = git.tip /\ g.rebase = git.rebase /\ g.commits = git.commits /\ g.tree = y
  BY <1>1, Reads
<1> QED BY <1>2, <1>3 DEF Dirty, Tree

\* commit
LEMMA CommitEffect ==
  ASSUME Repository(git), NEW g, g = CommitAll(git)
  PROVE  /\ g.branch = git.branch /\ g.rebase = git.rebase /\ ~Dirty(g)
         /\ \A b \in 0..N : b # git.branch => g.tip[b] = git.tip[b]
<1>1. CASE ~Dirty(git)
  BY <1>1 DEF CommitAll
<1>2. CASE Dirty(git)
  <2> DEFINE h == WithCommit(git, git.tip[git.branch], git.tree)
  <2>1. /\ h.branch = git.branch /\ h.tip = git.tip /\ h.rebase = git.rebase /\ h.tree = git.tree
        /\ h.commits = Append(git.commits, [par |-> git.tip[git.branch], tree |-> git.tree]) /\ DOMAIN h = DOMAIN git
    BY Reads DEF WithCommit
  <2>2. g = [h EXCEPT !.tip[git.branch] = Newest(h)]
    BY <1>2 DEF CommitAll
  <2> HIDE DEF h
  <2>3. Fields \subseteq DOMAIN h /\ git.tip \in [0..N -> 0..Len(git.commits)] /\ git.branch \in 0..N
    BY <2>1 DEF Repository
  <2>4. /\ g.branch = h.branch /\ g.rebase = h.rebase /\ g.tree = h.tree /\ g.commits = h.commits
        /\ g.tip = [h.tip EXCEPT ![git.branch] = Newest(h)]
    BY <2>2, <2>3 DEF Fields
  <2>5. g.tip[git.branch] = Newest(h) /\ \A b \in 0..N : b # git.branch => g.tip[b] = git.tip[b]
    BY <2>1, <2>3, <2>4
  <2>6. h.commits[Newest(h)].tree = git.tree
    <3>1. PICK S : git.commits \in Seq(S)
      BY DEF Repository, IsSeq
    <3> DEFINE e == [par |-> git.tip[git.branch], tree |-> git.tree]
    <3>2. h.commits[Len(h.commits)] = e
      <4>1. git.commits \in Seq(S \cup {e}) /\ e \in S \cup {e}
        BY <3>1
      <4> HIDE DEF e
      <4> QED BY <2>1, <4>1 DEF e
    <3> QED BY <3>2 DEF Newest
  <2> QED BY <2>1, <2>4, <2>5, <2>6 DEF Dirty, Tree
<1> QED BY <1>1, <1>2

\* A new commit leaves everything else of the repository.
LEMMA WithCommitEffect ==
  ASSUME Repository(git), NEW p, NEW w, NEW h, h = WithCommit(git, p, w)
  PROVE  /\ h.branch = git.branch /\ h.tip = git.tip /\ h.rebase = git.rebase /\ h.tree = git.tree /\ DOMAIN h = DOMAIN git
         /\ h.commits[Newest(h)].tree = w /\ git.tip \in [0..N -> 0..Len(git.commits)] /\ Fields \subseteq DOMAIN h
<1>1. h.branch = git.branch /\ h.tip = git.tip /\ h.rebase = git.rebase /\ h.tree = git.tree /\ DOMAIN h = DOMAIN git
  BY Reads DEF WithCommit
<1>2. h.commits[Newest(h)] = Commit(p, w)
  BY Committed
<1> QED BY <1>1, <1>2 DEF Repository, Commit

\* rebase moves the branch it replays and no other, and checks none out.
LEMMA RebaseEffect ==
  ASSUME Repository(git), NEW c \in 0..N, NEW base, NEW onto, NEW g \in Rebase(git, c, base, onto)
  PROVE  g.branch = git.branch /\ \A b \in 0..N : b # c => g.tip[b] = git.tip[b]
<1> DEFINE w == Tree(git, onto) \cup (Tree(git, git.tip[c]) \ Tree(git, base))
           all == w \cup RangeWork(git, c, base)
           first == IF all = w THEN git ELSE WithCommit(git, onto, all)
           p == IF all = w THEN onto ELSE Newest(first)
           h == WithCommit(first, p, w)
<1>1. \/ g = git \/ g = [git EXCEPT !.tip[c] = onto, !.tree = w] \/ g = [h EXCEPT !.tip[c] = Newest(h), !.tree = w]
      \/ g = [git EXCEPT !.rebase = [start |-> git.tip[c], onto |-> onto], !.tree = Tree(git, onto)]
  BY DEF Rebase, Replayed, Conflicted
<1>2. /\ h.branch = git.branch /\ h.tip = git.tip /\ Fields \subseteq DOMAIN h
      /\ git.tip \in [0..N -> 0..Len(git.commits)] /\ Fields \subseteq DOMAIN git
  <2>1. Repository(first) /\ first.branch = git.branch /\ first.tip = git.tip
    <3>1. CASE all = w
      BY <3>1
    <3>2. CASE all # w
      <4> HIDE DEF all, w
      <4> QED BY <3>2, Committed
    <3> QED BY <3>1, <3>2
  <2> HIDE DEF all, first, p, w
  <2>2. Repository(h) /\ h.branch = first.branch /\ h.tip = first.tip
    BY <2>1, Committed
  <2> QED BY <2>1, <2>2 DEF Repository
<1> HIDE DEF w, h
<1>3. CASE g = [git EXCEPT !.tip[c] = onto, !.tree = w]
  <2>1. g.branch = git.branch /\ g.tip = [git.tip EXCEPT ![c] = onto]
    BY <1>2, <1>3 DEF Fields
  <2> QED BY <1>2, <2>1
<1>4. CASE g = [h EXCEPT !.tip[c] = Newest(h), !.tree = w]
  <2>1. g.branch = h.branch /\ g.tip = [h.tip EXCEPT ![c] = Newest(h)]
    BY <1>2, <1>4 DEF Fields
  <2> QED BY <1>2, <2>1
<1>5. CASE g = [git EXCEPT !.rebase = [start |-> git.tip[c], onto |-> onto], !.tree = Tree(git, onto)]
  BY <1>5, Reads
<1> QED BY <1>1, <1>3, <1>4, <1>5

\* The commands that move no branch
LEMMA PlainEffect ==
  ASSUME Repository(git), NEW o
  PROVE  /\ Keep(git, o).branch = git.branch /\ Keep(git, o).tip = git.tip
         /\ Abort(git).branch = git.branch /\ Abort(git).tip = git.tip /\ Abort(git).rebase = NoRebase
         /\ Restore(git, o).branch = git.branch /\ Restore(git, o).tip = git.tip /\ Restore(git, o).rebase = git.rebase
         /\ Capture(git).branch = git.branch /\ Capture(git).tip = git.tip
<1>1. Keep(git, o).branch = git.branch /\ Keep(git, o).tip = git.tip
  BY Reads DEF Keep
<1>2. Abort(git).branch = git.branch /\ Abort(git).tip = git.tip /\ Abort(git).rebase = NoRebase
  BY Reads DEF Abort
<1>3. Restore(git, o).branch = git.branch /\ Restore(git, o).tip = git.tip /\ Restore(git, o).rebase = git.rebase
  BY Reads DEF Restore
<1>4. Capture(git).branch = git.branch /\ Capture(git).tip = git.tip
  <2> DEFINE h == WithCommit(git, git.rebase.onto, git.tree)
  <2>1. Repository(h) /\ h.branch = git.branch /\ h.tip = git.tip
    BY Committed
  <2>2. Capture(git) = [h EXCEPT !.kept = h.kept \cup {Newest(h)}]
    BY DEF Capture, Keep
  <2> HIDE DEF h
  <2> QED BY <2>1, <2>2, Reads
<1> QED BY <1>1, <1>2, <1>3, <1>4

\* A new branch, another one being checked out
LEMMA CreateEffect ==
  ASSUME Repository(git), NEW c \in 0..N, git.branch # c, NEW o, NEW g, g = [git EXCEPT !.tip[c] = o]
  PROVE  /\ g.branch = git.branch /\ g.rebase = git.rebase /\ (~Dirty(git) => ~Dirty(g))
         /\ \A b \in 0..N : b # c => g.tip[b] = git.tip[b]
<1>1. git.tip \in [0..N -> 0..Len(git.commits)] /\ Fields \subseteq DOMAIN git /\ git.branch \in 0..N
  BY DEF Repository
<1>2. /\ g.branch = git.branch /\ g.rebase = git.rebase /\ g.tree = git.tree /\ g.commits = git.commits
      /\ g.tip = [git.tip EXCEPT ![c] = o]
  BY <1>1 DEF Fields
<1> QED BY <1>1, <1>2 DEF Dirty, Tree

\* The squash into the branch that is checked out
LEMMA SquashEffect ==
  ASSUME Repository(git), NEW p \in 0..N, git.branch = p, ~Dirty(git), NEW o, NEW g, g = Squash(git, p, o)
  PROVE  /\ g.branch = git.branch /\ g.rebase = git.rebase /\ ~Dirty(g)
         /\ \A b \in 0..N : b # p => g.tip[b] = git.tip[b]
<1> DEFINE w == Tree(git, o)
           h == WithCommit(git, git.tip[p], w)
<1>1. /\ h.branch = git.branch /\ h.tip = git.tip /\ h.rebase = git.rebase /\ Fields \subseteq DOMAIN h
      /\ git.tip \in [0..N -> 0..Len(git.commits)] /\ h.commits[Newest(h)].tree = w
  BY WithCommitEffect
<1>2. g = git \/ g = [h EXCEPT !.tip[p] = Newest(h), !.tree = w]
  BY DEF Squash
<1> HIDE DEF w, h
<1>3. CASE g = [h EXCEPT !.tip[p] = Newest(h), !.tree = w]
  <2>1. /\ g.branch = h.branch /\ g.rebase = h.rebase /\ g.commits = h.commits /\ g.tree = w
        /\ g.tip = [h.tip EXCEPT ![p] = Newest(h)]
    BY <1>1, <1>3 DEF Fields
  <2>2. g.tip[p] = Newest(h) /\ \A b \in 0..N : b # p => g.tip[b] = git.tip[b]
    BY <1>1, <2>1
  <2>3. g.tree = g.commits[g.tip[g.branch]].tree
    BY <1>1, <2>1, <2>2
  <2> QED BY <1>1, <2>1, <2>2, <2>3 DEF Dirty, Tree
<1> QED BY <1>2, <1>3

-----------------------------------------------------------------------------
(* From stage to stage *)

\* The command and the next steps of a task
LEMMA CommandOf ==
  ASSUME NEW t
  PROVE  LET c == t.card IN
         /\ Head(t.todo) = "create" => Command(t) = {[git EXCEPT !.tip[c] = ParentTip(c)]}
         /\ Head(t.todo) = "switch" => Command(t) = SwitchTo(git, c)
         /\ Head(t.todo) = "leave" => Command(t) = SwitchTo(git, c - 1)
         /\ Head(t.todo) = "retain" => Command(t) = {Keep(git, git.tip[c])}
         /\ Head(t.todo) = "rebase" => Command(t) = Rebase(git, c, ReplayBase(c), ParentTip(c))
         /\ Head(t.todo) = "abort" => Command(t) = {Abort(git)}
         /\ Head(t.todo) = "capture" => Command(t) = {Capture(git)}
         /\ Head(t.todo) = "restore" => Command(t) = {Restore(git, facts[c].corr.snap)}
         /\ Head(t.todo) = "commit" => Command(t) = {CommitAll(git)}
         /\ Head(t.todo) = "squash" => Command(t) = {Squash(git, c - 1, accepted[c])}
         /\ Head(t.todo) \notin Commands => Command(t) = {}
BY DEF Command, Commands

\* A conflict of a rebase takes other steps; so would source left dirty.
LEMMA AfterOf ==
  ASSUME NEW t, NEW g, Hooks = FALSE
  PROVE  /\ Head(t.todo) \notin {"rebase", "switch", "leave"} => After(t, g) = Tail(t.todo)
         /\ (Head(t.todo) \in {"switch", "leave"} /\ ~Dirty(g)) => After(t, g) = Tail(t.todo)
         /\ Head(t.todo) = "rebase" => After(t, g) \in {Tail(t.todo), <<"abort", "publishTask">>}
BY DEF After

\* A command that moves one branch, at or above the end of a chain, leaves the chain.
LEMMA ChainStands ==
  ASSUME NEW b0 \in 0..N, NEW d \in 0..b0, Chain(d), UNCHANGED facts,
         \A b \in 0..N : b # b0 => git'.tip[b] = git.tip[b]
  PROVE  Chain(d)'
<1>1. d \in 0..N /\ \A b \in 0..N : b < d => b # b0
  BY GitSourceAssumption
<1> QED BY <1>1, ChainKeeps

\* A checkpoint commits on its own branch.
LEMMA CheckpointCommand ==
  ASSUME SourceInv, Hooks = FALSE, NEW t \in tasks, CheckpointStage(t.card, t.todo),
         NEW g \in Command(t), git' = g, NEW d, d = After(t, g), UNCHANGED facts
  PROVE  CheckpointStage(t.card, d)'
<1> DEFINE c == t.card
           s == t.todo
<1>1. Repository(git) /\ c \in Cards
  BY DEF SourceInv, PlanInv, Planned
<1>2. s \in {<<"commit", "publish">>, <<"commit", "publish", "admit">>} /\ git.branch = c /\ Chain(c)
  <2>1. \A x \in {<<"publish">>, <<"publish", "admit">>, <<"admit">>, <<"failed">>} : Head(x) \notin Commands
    BY ListParts DEF Commands
  <2> QED BY <2>1, CommandOf DEF CheckpointStage, CheckpointPlans
<1>3. Head(s) = "commit" /\ Tail(s) \in {<<"publish">>, <<"publish", "admit">>}
  <2>1. CASE s = <<"commit", "publish">>
    BY <2>1, ListParts
  <2>2. CASE s = <<"commit", "publish", "admit">>
    BY <2>2, ListParts
  <2> QED BY <1>2, <2>1, <2>2
<1>4. g = CommitAll(git) /\ d = Tail(s)
  <2>1. Command(t) = {CommitAll(git)}
    BY <1>3, CommandOf
  <2>2. After(t, g) = Tail(s)
    BY <1>3, AfterOf
  <2> QED BY <2>1, <2>2
<1>5. g.branch = c /\ \A b \in 0..N : b # c => g.tip[b] = git.tip[b]
  BY <1>1, <1>2, <1>4, CommitEffect
<1>6. Chain(c)'
  <2>1. c \in 0..N /\ c \in 0..c
    BY <1>1, CardNumbers
  <2> HIDE DEF c
  <2> QED BY <1>2, <1>5, <2>1, ChainStands
<1> QED BY <1>3, <1>4, <1>5, <1>6 DEF CheckpointStage, CheckpointPlans

\* An entry: the parent's tip and its own chain stand.
LEMMA EnterCommand ==
  ASSUME SourceInv, Hooks = FALSE, NEW t \in tasks, EnterStage(t.card, t.todo),
         NEW g \in Command(t), git' = g, NEW d, d = After(t, g), UNCHANGED facts
  PROVE  EnterStage(t.card, d)'
<1> DEFINE c == t.card
           s == t.todo
<1>1. Repository(git) /\ c \in Cards /\ c \in 0..N /\ c - 1 \in 0..N /\ c # c - 1 /\ c - 1 \in 0..c
  BY CardNumbers DEF SourceInv, PlanInv, Planned
<1>2. Head(s) \in Commands
  BY CommandOf
<1>3. s # <<"failed">>
  BY <1>2, ListParts DEF Commands
<1>4. Chain(c - 1) /\ git.tip[c - 1] = ParentTip(c)
  BY <1>3 DEF EnterStage
<1>5. ParentTip(c)' = ParentTip(c)
  BY DEF ParentTip
<1>6. ASSUME \A b \in 0..N : b # c => g.tip[b] = git.tip[b]
      PROVE  (Chain(c - 1) /\ git.tip[c - 1] = ParentTip(c))'
  <2> HIDE DEF c
  <2>1. Chain(c - 1)'
    BY <1>1, <1>4, <1>6, ChainStands
  <2> QED BY <1>1, <1>4, <1>5, <1>6, <2>1
<1>7. CASE s \in EnterOutside
  <2>1. git.branch = c - 1 /\ Resting
    <3>1. s \notin EnterInside
      <4>1. \A x \in EnterOutside : Head(x) \in {"refused", "create", "switch"}
        BY ListParts DEF EnterOutside
      <4>2. \A x \in EnterInside : Head(x) \in {"publish", "retain", "rebase", "abort", "publishTask"}
        BY ListParts DEF EnterInside
      <4> QED BY <1>7, <4>1, <4>2
    <3> QED BY <1>3, <3>1 DEF EnterStage
  <2>2. CASE s = <<"create", "switch", "publish">>
    <3>1. Head(s) = "create" /\ Tail(s) = <<"switch", "publish">>
      BY <2>2, ListParts
    <3>2. Command(t) = {[git EXCEPT !.tip[c] = ParentTip(c)]} /\ d = <<"switch", "publish">>
      BY <3>1, CommandOf, AfterOf
    <3>3. g.branch = git.branch /\ g.rebase = git.rebase /\ ~Dirty(g) /\ \A b \in 0..N : b # c => g.tip[b] = git.tip[b]
      <4>1. g = [git EXCEPT !.tip[c] = ParentTip(c)] /\ git.branch # c /\ ~Dirty(git)
        BY <1>1, <2>1, <3>2 DEF Resting
      <4> HIDE DEF c
      <4> QED BY <1>1, <4>1, CreateEffect
    <3> QED BY <1>6, <2>1, <3>2, <3>3 DEF EnterStage, EnterOutside, Resting, HasRebase
  <2>3. CASE s \in {<<"switch", "publish">>, <<"switch", "retain", "rebase", "publish">>}
    <3>1. Head(s) = "switch" /\ Tail(s) \in {<<"publish">>, <<"retain", "rebase", "publish">>}
      <4>1. CASE s = <<"switch", "publish">>
        BY <4>1, ListParts
      <4>2. CASE s = <<"switch", "retain", "rebase", "publish">>
        BY <4>2, ListParts
      <4> QED BY <2>3, <4>1, <4>2
    <3>2. Command(t) = SwitchTo(git, c)
      BY <3>1, CommandOf
    <3>3. g.branch = c /\ g.tip = git.tip /\ ~Dirty(g)
      BY <1>1, <2>1, <3>2, SwitchEffect DEF Resting
    <3>4. d = Tail(s)
      BY <3>1, <3>3, AfterOf
    <3> QED BY <1>6, <3>1, <3>3, <3>4 DEF EnterStage, EnterInside
  <2>4. s # <<"refused">>
    BY <1>2, ListParts DEF Commands
  <2> QED BY <1>7, <2>2, <2>3, <2>4 DEF EnterOutside
<1>8. CASE s \in EnterInside /\ s \notin EnterOutside
  <2>1. git.branch = c
    BY <1>3, <1>8 DEF EnterStage
  <2>2. s \notin {<<"publish">>, <<"publishTask">>}
    BY <1>2, ListParts DEF Commands
  <2>3. CASE s = <<"retain", "rebase", "publish">>
    <3>1. Head(s) = "retain" /\ Tail(s) = <<"rebase", "publish">>
      BY <2>3, ListParts
    <3>2. Command(t) = {Keep(git, git.tip[c])} /\ d = <<"rebase", "publish">>
      BY <3>1, CommandOf, AfterOf
    <3>3. g.branch = c /\ g.tip = git.tip
      BY <1>1, <2>1, <3>2, PlainEffect
    <3> QED BY <1>6, <3>2, <3>3 DEF EnterStage, EnterInside
  <2>4. CASE s = <<"rebase", "publish">>
    <3>1. Head(s) = "rebase" /\ Tail(s) = <<"publish">>
      BY <2>4, ListParts
    <3>2. Command(t) = Rebase(git, c, ReplayBase(c), ParentTip(c))
      BY <3>1, CommandOf
    <3>3. d \in {<<"publish">>, <<"abort", "publishTask">>}
      BY <3>1, AfterOf
    <3>4. g.branch = c /\ \A b \in 0..N : b # c => g.tip[b] = git.tip[b]
      BY <1>1, <2>1, <3>2, RebaseEffect
    <3> QED BY <1>6, <3>3, <3>4 DEF EnterStage, EnterInside
  <2>5. CASE s = <<"abort", "publishTask">>
    <3>1. Head(s) = "abort" /\ Tail(s) = <<"publishTask">>
      BY <2>5, ListParts
    <3>2. Command(t) = {Abort(git)} /\ d = <<"publishTask">>
      BY <3>1, CommandOf, AfterOf
    <3>3. g.branch = c /\ g.tip = git.tip
      BY <1>1, <2>1, <3>2, PlainEffect
    <3> QED BY <1>6, <3>2, <3>3 DEF EnterStage, EnterInside
  <2> QED BY <1>8, <2>2, <2>3, <2>4, <2>5 DEF EnterInside
<1> QED BY <1>3, <1>7, <1>8 DEF EnterStage

\* A return: the chain stands to the end.
LEMMA ReturnCommand ==
  ASSUME SourceInv, Hooks = FALSE, NEW t \in tasks, ReturnStage(t.card, t.todo),
         NEW g \in Command(t), git' = g, NEW d, d = After(t, g), UNCHANGED facts
  PROVE  ReturnStage(t.card, d)'
<1> DEFINE c == t.card
           s == t.todo
<1>1. Repository(git) /\ c \in Cards /\ c \in 0..N /\ c - 1 \in 0..N /\ c \in 0..c
  BY CardNumbers DEF SourceInv, PlanInv, Planned
<1>2. Head(s) \in Commands
  BY CommandOf
<1>3. s # <<"failed">> /\ s # <<"reenter">> /\ s \notin Returned
  BY <1>2, ListParts DEF Commands, Returned
<1>4. Chain(c)
  BY <1>3 DEF ReturnStage
<1>5. ASSUME \A b \in 0..N : b # c => g.tip[b] = git.tip[b]
      PROVE  Chain(c)'
  <2> HIDE DEF c
  <2> QED BY <1>1, <1>4, <1>5, ChainStands
<1>6. PICK r \in Returned :
        /\ git.branch = c
        /\ \/ s = Leaving(r) /\ Resting
           \/ s \in {Saving(r), Restoring(r), Verifying(r)} /\ ~HasRebase(git)
           \/ s \in {Aborting(r), Checking(r), Noting(r), Capturing(r)}
  BY <1>3 DEF ReturnStage
<1>7. CASE s = Leaving(r) /\ Resting
  <2>1. Head(s) = "leave" /\ Tail(s) = r
    BY <1>7, ReturnParts
  <2>2. Command(t) = SwitchTo(git, c - 1)
    BY <2>1, CommandOf
  <2>3. g.branch = c - 1 /\ g.tip = git.tip /\ g.rebase = git.rebase /\ ~Dirty(g)
    BY <1>1, <1>7, <2>2, SwitchEffect DEF Resting
  <2>4. d = r
    BY <2>1, <2>3, AfterOf
  <2> QED BY <1>5, <1>7, <2>3, <2>4 DEF ReturnStage, Resting, HasRebase
<1>8. CASE s = Saving(r) /\ ~HasRebase(git)
  <2>1. Head(s) = "commit" /\ Tail(s) = Leaving(r)
    BY <1>8, ReturnParts
  <2>2. Command(t) = {CommitAll(git)} /\ d = Leaving(r)
    BY <2>1, CommandOf, AfterOf
  <2>3. g.branch = c /\ g.rebase = git.rebase /\ ~Dirty(g) /\ \A b \in 0..N : b # c => g.tip[b] = git.tip[b]
    BY <1>1, <1>6, <2>2, CommitEffect
  <2> QED BY <1>5, <1>8, <2>2, <2>3 DEF ReturnStage, Resting, HasRebase
<1>9. CASE s = Restoring(r) /\ ~HasRebase(git)
  <2>1. Head(s) = "restore" /\ Tail(s) = Saving(r)
    BY <1>9, ReturnParts
  <2>2. Command(t) = {Restore(git, facts[c].corr.snap)} /\ d = Saving(r)
    BY <2>1, CommandOf, AfterOf
  <2>3. g.branch = c /\ g.rebase = git.rebase /\ g.tip = git.tip
    BY <1>1, <1>6, <2>2, PlainEffect
  <2> QED BY <1>5, <1>9, <2>2, <2>3 DEF ReturnStage, HasRebase
<1>10. CASE s = Aborting(r)
  <2>1. Head(s) = "abort" /\ Tail(s) = Restoring(r)
    BY <1>10, ReturnParts
  <2>2. Command(t) = {Abort(git)} /\ d = Restoring(r)
    BY <2>1, CommandOf, AfterOf
  <2>3. g.branch = c /\ g.rebase = NoRebase /\ g.tip = git.tip
    BY <1>1, <1>6, <2>2, PlainEffect
  <2> QED BY <1>5, <2>2, <2>3 DEF ReturnStage, HasRebase
<1>11. CASE s = Capturing(r)
  <2>1. Head(s) = "capture" /\ Tail(s) = Noting(r)
    BY <1>11, ReturnParts
  <2>2. Command(t) = {Capture(git)} /\ d = Noting(r)
    BY <2>1, CommandOf, AfterOf
  <2>3. g.branch = c /\ g.tip = git.tip
    BY <1>1, <1>6, <2>2, PlainEffect
  <2> QED BY <1>5, <2>2, <2>3 DEF ReturnStage
<1>12. s \notin {Verifying(r), Checking(r), Noting(r)}
  BY <1>2, ReturnParts DEF Commands
<1> QED BY <1>6, <1>7, <1>8, <1>9, <1>10, <1>11, <1>12

\* A delivery moves the parent's branch, at the end of the parent's chain.
LEMMA DeliverCommand ==
  ASSUME SourceInv, Hooks = FALSE, NEW t \in tasks, DeliverStage(t.card, t.todo),
         NEW g \in Command(t), git' = g, NEW d, d = After(t, g), UNCHANGED facts
  PROVE  DeliverStage(t.card, d)'
<1> DEFINE c == t.card
           s == t.todo
<1>1. Repository(git) /\ c \in Cards /\ c \in 0..N /\ c - 1 \in 0..N /\ c # c - 1 /\ c - 1 \in 0..(c - 1)
  BY CardNumbers DEF SourceInv, PlanInv, Planned
<1>2. Head(s) \in Commands
  BY CommandOf
<1>3. s \notin {<<"failed">>, <<"publish">>, <<"publishParent", "publish">>}
  BY <1>2, ListParts DEF Commands
<1>4. Chain(c - 1) /\ Resting /\ facts[c].tip = git.tip[c]
  BY <1>3 DEF DeliverStage
<1>5. ASSUME \A b \in 0..N : b # c - 1 => g.tip[b] = git.tip[b]
      PROVE  (Chain(c - 1) /\ facts[c].tip = git.tip[c])'
  <2> HIDE DEF c
  <2>1. Chain(c - 1)'
    BY <1>1, <1>4, <1>5, ChainStands
  <2> QED BY <1>1, <1>4, <1>5, <2>1
<1>6. CASE s = DeliverTodo /\ git.branch = c
  <2>1. Head(s) = "leave" /\ Tail(s) = <<"squash", "publishParent", "publish">>
    BY <1>6, ListParts DEF DeliverTodo
  <2>2. Command(t) = SwitchTo(git, c - 1)
    BY <2>1, CommandOf
  <2>3. g.branch = c - 1 /\ g.tip = git.tip /\ g.rebase = git.rebase /\ ~Dirty(g)
    BY <1>1, <1>4, <2>2, SwitchEffect DEF Resting
  <2>4. d = <<"squash", "publishParent", "publish">>
    BY <2>1, <2>3, AfterOf
  <2> QED BY <1>4, <1>5, <2>3, <2>4 DEF DeliverStage, Resting, HasRebase
<1>7. CASE s = <<"squash", "publishParent", "publish">> /\ git.branch = c - 1
  <2>1. Head(s) = "squash" /\ Tail(s) = <<"publishParent", "publish">>
    BY <1>7, ListParts
  <2>2. Command(t) = {Squash(git, c - 1, accepted[c])} /\ d = <<"publishParent", "publish">>
    BY <2>1, CommandOf, AfterOf
  <2>3. /\ g.branch = git.branch /\ g.rebase = git.rebase /\ ~Dirty(g)
        /\ \A b \in 0..N : b # c - 1 => g.tip[b] = git.tip[b]
    <3> DEFINE p == c - 1
    <3>1. p \in 0..N /\ git.branch = p /\ ~Dirty(git) /\ g = Squash(git, p, accepted[c])
      BY <1>1, <1>4, <1>7, <2>2 DEF Resting
    <3> HIDE DEF p
    <3>2. /\ g.branch = git.branch /\ g.rebase = git.rebase /\ ~Dirty(g)
          /\ \A b \in 0..N : b # p => g.tip[b] = git.tip[b]
      BY <1>1, <3>1, SquashEffect
    <3> QED BY <3>2 DEF p
  <2> QED BY <1>4, <1>5, <1>7, <2>2, <2>3 DEF DeliverStage, Resting, HasRebase
<1> QED BY <1>3, <1>6, <1>7 DEF DeliverStage

\* A task keeps card, kind and doom while its steps change.
LEMMA TaskFields ==
  ASSUME NEW t, {"card", "kind", "todo", "doomed"} \subseteq DOMAIN t, NEW d
  PROVE  /\ LET u == [t EXCEPT !.todo = d] IN
              "doomed" \in DOMAIN u /\ u.card = t.card /\ u.kind = t.kind /\ u.doomed = t.doomed /\ u.todo = d
         /\ LET u == [t EXCEPT !.doomed = TRUE] IN
              "doomed" \in DOMAIN u /\ u.card = t.card /\ u.kind = t.kind /\ u.todo = t.todo
OBVIOUS

\* What is known of the one operation of a run
LEMMA Running ==
  ASSUME SourceInv, OwnerInv, mode = "run", NEW t \in tasks
  PROVE  /\ tasks = {t} /\ {"card", "kind", "todo", "doomed"} \subseteq DOMAIN t /\ t.card = depth /\ t.card \in Cards
         /\ StageOf(t.kind, t.doomed, t.card, t.todo)
<1>1. tasks = {t} /\ t.card = depth /\ "card" \in DOMAIN t
  BY DEF SourceInv, TaskInv, IsTask
<1>2. {"kind", "todo"} \subseteq DOMAIN t /\ t.card \in Cards
  BY DEF SourceInv, PlanInv, Planned
<1>3. Stage(t)
  BY DEF OwnerInv
<1> QED BY <1>1, <1>2, <1>3 DEF Stage

\* The operation goes on to its next stage.
LEMMA GoesOn ==
  ASSUME SourceInv, OwnerInv, mode = "run", NEW t \in tasks, NEW d, UNCHANGED <<mode, depth>>,
         tasks' = (tasks \ {t}) \cup {[t EXCEPT !.todo = d]}, StageOf(t.kind, t.doomed, t.card, d)'
  PROVE  OwnerInv'
<1> DEFINE u == [t EXCEPT !.todo = d]
<1>1. tasks = {t} /\ {"card", "kind", "todo", "doomed"} \subseteq DOMAIN t
  BY Running
<1>2. "doomed" \in DOMAIN u /\ u.card = t.card /\ u.kind = t.kind /\ u.doomed = t.doomed /\ u.todo = d
  BY <1>1, TaskFields
<1>3. tasks' = {u}
  BY <1>1
<1> HIDE DEF u
<1>4. Stage(u)'
  BY <1>2 DEF Stage
<1> QED BY <1>3, <1>4 DEF OwnerInv

\* A stage says nothing but of repository and facts.
LEMMA StageStands ==
  ASSUME UNCHANGED <<git, facts>>, NEW k, NEW b, NEW c, NEW s, StageOf(k, b, c, s)
  PROVE  StageOf(k, b, c, s)'
<1>1. \A x : Chain(x)' = Chain(x)
  BY DEF Chain
<1>2. Resting' = Resting /\ HasRebase(git)' = HasRebase(git) /\ ParentTip(c)' = ParentTip(c)
  BY DEF Resting, HasRebase, Dirty, Tree, ParentTip
<1> QED BY <1>1, <1>2 DEF StageOf, CheckpointStage, EnterStage, ReturnStage, DeliverStage

\* A command
LEMMA CommandStage ==
  ASSUME SourceInv, OwnerInv, Hooks = FALSE, NEW t \in tasks, RunCommand(t)
  PROVE  OwnerInv'
<1>1. /\ mode = "run" /\ UNCHANGED <<facts, mode, depth>>
      /\ \E g \in Command(t) : git' = g /\ tasks' = (tasks \ {t}) \cup {[t EXCEPT !.todo = After(t, g)]}
  BY DEF RunCommand, Current
<1>2. PICK g \in Command(t) : git' = g /\ tasks' = (tasks \ {t}) \cup {[t EXCEPT !.todo = After(t, g)]}
  BY <1>1
<1>3. PICK d : d = After(t, g)
  OBVIOUS
<1>4. StageOf(t.kind, t.doomed, t.card, t.todo)
  BY <1>1, Running
<1>5. StageOf(t.kind, t.doomed, t.card, d)'
  <2>1. CASE t.kind \in Checkpoints /\ CheckpointStage(t.card, t.todo)
    BY <1>1, <1>2, <1>3, <2>1, CheckpointCommand DEF StageOf
  <2>2. CASE t.kind = "enter" /\ ~t.doomed /\ EnterStage(t.card, t.todo)
    BY <1>1, <1>2, <1>3, <2>2, EnterCommand DEF StageOf
  <2>3. CASE t.kind = "return" /\ ~t.doomed /\ ReturnStage(t.card, t.todo)
    BY <1>1, <1>2, <1>3, <2>3, ReturnCommand DEF StageOf
  <2>4. CASE t.kind = "deliver" /\ ~t.doomed /\ DeliverStage(t.card, t.todo)
    BY <1>1, <1>2, <1>3, <2>4, DeliverCommand DEF StageOf
  <2> QED BY <1>4, <2>1, <2>2, <2>3, <2>4 DEF StageOf
<1> QED BY <1>1, <1>2, <1>3, <1>5, GoesOn

\* The first step of an operation and its kind
LEMMA StageHeads ==
  ASSUME NEW k, NEW b, NEW c, NEW s, StageOf(k, b, c, s)
  PROVE  /\ Head(s) = "verify" => (k = "return" /\ ~b /\ ReturnStage(c, s))
         /\ Head(s) = "publishParent" => (k = "deliver" /\ ~b /\ DeliverStage(c, s))
         /\ Head(s) = "refused" => (k = "enter" /\ ~b /\ EnterStage(c, s))
         /\ Head(s) = "admit" => (k \in Checkpoints /\ CheckpointStage(c, s))
         /\ Head(s) = "reenter" => (k = "return" /\ ~b /\ ReturnStage(c, s))
<1>1. CheckpointStage(c, s) => Head(s) \in {"commit", "publish", "admit", "failed"}
  <2>1. \A x \in CheckpointPlans : Head(x) \in {"commit", "publish", "admit", "failed"}
    BY ListParts DEF CheckpointPlans
  <2> QED BY <2>1 DEF CheckpointStage
<1>2. EnterStage(c, s) => Head(s) \in {"failed", "refused", "create", "switch", "publish", "retain", "rebase", "abort", "publishTask"}
  <2>1. \A x \in EnterOutside : Head(x) \in {"refused", "create", "switch"}
    BY ListParts DEF EnterOutside
  <2>2. \A x \in EnterInside : Head(x) \in {"publish", "retain", "rebase", "abort", "publishTask"}
    BY ListParts DEF EnterInside
  <2>3. Head(<<"failed">>) = "failed"
    BY ListParts
  <2> QED BY <2>1, <2>2, <2>3 DEF EnterStage
<1>3. ReturnStage(c, s) => Head(s) \notin {"publishParent", "refused", "admit"}
  <2>1. \A r \in Returned : Head(r) = "publish"
    BY ListParts DEF Returned
  <2>2. Head(<<"failed">>) = "failed" /\ Head(<<"reenter">>) = "reenter"
    BY ListParts
  <2> QED BY <2>1, <2>2, ReturnParts DEF ReturnStage
<1>4. DeliverStage(c, s) => Head(s) \in {"failed", "leave", "squash", "publishParent", "publish"}
  BY ListParts DEF DeliverStage, DeliverTodo
<1> QED BY <1>1, <1>2, <1>3, <1>4 DEF StageOf

\* The observations before an abort leave repository and facts alone.
LEMMA VerifyStage ==
  ASSUME SourceInv, OwnerInv, NEW t \in tasks, VerifySnapshot(t)
  PROVE  OwnerInv'
<1>1. /\ mode = "run" /\ Head(t.todo) = "verify" /\ UNCHANGED <<git, facts, mode, depth>>
      /\ \E d \in {Tail(t.todo), <<"failed">>} : tasks' = (tasks \ {t}) \cup {[t EXCEPT !.todo = d]}
  BY DEF VerifySnapshot, Current
<1>2. PICK d \in {Tail(t.todo), <<"failed">>} : tasks' = (tasks \ {t}) \cup {[t EXCEPT !.todo = d]}
  BY <1>1
<1>3. t.kind = "return" /\ ~t.doomed /\ ReturnStage(t.card, t.todo)
  BY <1>1, Running, StageHeads
<1>4. PICK r \in Returned : t.todo = Checking(r) /\ git.branch = t.card /\ Chain(t.card)
  <2>1. \A r \in Returned : Head(r) = "publish"
    BY ListParts DEF Returned
  <2>2. Head(<<"failed">>) = "failed" /\ Head(<<"reenter">>) = "reenter"
    BY ListParts
  <2> QED BY <1>1, <1>3, <2>1, <2>2, ReturnParts DEF ReturnStage
<1>5. ReturnStage(t.card, d)
  <2>1. Tail(t.todo) = Aborting(r)
    BY <1>4, ReturnParts
  <2> QED BY <1>2, <1>4, <2>1 DEF ReturnStage
<1>6. StageOf(t.kind, t.doomed, t.card, d)
  BY <1>3, <1>5 DEF StageOf
<1>7. StageOf(t.kind, t.doomed, t.card, d)'
  BY <1>1, <1>6, StageStands
<1> QED BY <1>1, <1>2, <1>7, GoesOn

\* The parent's facts take the tip the delivery gave its branch.
LEMMA ParentStage ==
  ASSUME SourceInv, OwnerInv, NEW t \in tasks, PublishParent(t)
  PROVE  OwnerInv'
<1> DEFINE c == t.card
<1>1. /\ mode = "run" /\ Head(t.todo) = "publishParent" /\ UNCHANGED <<git, mode, depth>>
      /\ tasks' = (tasks \ {t}) \cup {[t EXCEPT !.todo = Tail(t.todo)]}
      /\ facts' = IF c = 1 THEN facts ELSE [facts EXCEPT ![c - 1] = [@ EXCEPT !.tip = git.tip[c - 1], !.cand = None, !.done = None]]
  BY DEF PublishParent, Current
<1>2. c \in Cards /\ c - 1 \in 0..N /\ t.kind = "deliver" /\ ~t.doomed /\ DeliverStage(c, t.todo)
  BY <1>1, Running, StageHeads, CardNumbers
<1>3. /\ t.todo = <<"publishParent", "publish">> /\ git.branch = c - 1
      /\ Chain(c - 1) /\ Resting /\ facts[c].tip = git.tip[c]
  <2>1. t.todo \notin {<<"failed">>, DeliverTodo, <<"squash", "publishParent", "publish">>, <<"publish">>}
    BY <1>1, ListParts DEF DeliverTodo
  <2> QED BY <1>2, <2>1 DEF DeliverStage
<1>4. /\ facts'[c] = facts[c] /\ \A k \in Cards : facts'[k].ptip = facts[k].ptip
      /\ \A k \in Cards : k # c - 1 => facts'[k] = facts[k]
      /\ c # 1 => facts'[c - 1].tip = git.tip[c - 1]
  <2>1. CASE c = 1
    BY <1>1, <2>1
  <2>2. CASE c # 1
    <3> DEFINE f == facts[c - 1]
               n == [f EXCEPT !.tip = git.tip[c - 1], !.cand = None, !.done = None]
    <3>1. c - 1 \in Cards /\ c # c - 1 /\ facts \in [Cards -> FactRecords]
      BY <1>2, <2>2, CardNumbers DEF SourceInv, FactInv
    <3>2. n.tip = git.tip[c - 1] /\ n.ptip = f.ptip
      BY <3>1 DEF FactRecords
    <3>3. facts' = [facts EXCEPT ![c - 1] = n]
      BY <1>1, <2>2
    <3> HIDE DEF n
    <3> QED BY <1>2, <3>1, <3>2, <3>3
  <2> QED BY <2>1, <2>2
<1>5. Chain(c - 1)'
  <2>1. \A k \in Cards : k < c - 1 => k # c - 1
    BY <1>2, CardNumbers
  <2> HIDE DEF c
  <2> QED BY <1>1, <1>2, <1>3, <1>4, <2>1, ChainKeeps
<1>6. PICK d : d = Tail(t.todo)
  OBVIOUS
<1>7. d = <<"publish">>
  BY <1>3, <1>6, ListParts
<1>8. Resting'
  BY <1>1, <1>3 DEF Resting, HasRebase, Dirty, Tree
<1>9. DeliverStage(c, d)'
  <2>1. c > 1 => c # 1
    BY <1>2, CardNumbers
  <2> QED BY <1>1, <1>3, <1>4, <1>5, <1>7, <1>8, <2>1 DEF DeliverStage
<1>10. StageOf(t.kind, t.doomed, t.card, d)'
  BY <1>2, <1>9 DEF StageOf
<1> QED BY <1>1, <1>6, <1>10, GoesOn

\* An entry begins from the parent's branch, or fails.
LEMMA EnterBegins ==
  ASSUME NEW c \in Cards, Chain(c - 1), NEW x, x = EnterTask(c)
  PROVE  Stage(x)
<1>1. "doomed" \in DOMAIN x /\ x.kind = "enter" /\ x.card = c /\ ~x.doomed
  BY DEF EnterTask, Task
<1>2. \/ x.todo = <<"failed">>
      \/ InspectedClean(c - 1, ParentTip(c)) /\ x.todo \in {<<"failed">>, <<"refused">>, EnterTodo(c)}
  BY DEF EnterTask, Task
<1>3. EnterTodo(c) \in EnterOutside
  BY DEF EnterTodo, EnterOutside
<1>4. EnterStage(c, x.todo)
  BY <1>2, <1>3 DEF EnterStage, InspectedClean, Inspected, Resting, EnterOutside
<1> QED BY <1>1, <1>4 DEF Stage, StageOf

\* The next owner, or the same one again, enters.
LEMMA AdmitStage ==
  ASSUME SourceInv, OwnerInv, NEW t \in tasks, Admit(t)
  PROVE  OwnerInv'
<1>1. PICK c : c = IF Head(t.todo) = "admit" THEN t.card + 1 ELSE t.card
  OBVIOUS
<1>2. /\ mode = "run" /\ Head(t.todo) \in {"admit", "reenter"} /\ UNCHANGED <<git, facts, mode>>
      /\ tasks' = (tasks \ {t}) \cup {EnterTask(c)} /\ depth' = c
  BY <1>1 DEF Admit, Current
<1>3. c \in Cards /\ t.card \in Cards /\ tasks = {t}
  BY <1>1, <1>2, AdmitsACard, Running
<1>4. Chain(c - 1)
  <2>1. CASE Head(t.todo) = "admit"
    <3>1. Chain(t.card)
      BY <1>2, <2>1, Running, StageHeads DEF CheckpointStage
    <3>2. c - 1 = t.card
      <4>1. t.card \in Nat /\ c = t.card + 1
        BY <1>1, <1>3, <2>1, CardNumbers
      <4> QED BY <4>1
    <3> QED BY <3>1, <3>2
  <2>2. CASE Head(t.todo) = "reenter"
    <3>1. ReturnStage(t.card, t.todo) /\ t.todo # <<"failed">>
      BY <1>2, <2>2, Running, StageHeads, ListParts
    <3>2. Chain(t.card) /\ c = t.card
      BY <1>1, <2>2, <3>1 DEF ReturnStage
    <3> QED BY <1>3, <3>2, ChainBelow
  <2> QED BY <1>2, <2>1, <2>2
<1>5. PICK x : x = EnterTask(c)
  OBVIOUS
<1>6. Stage(x)
  BY <1>3, <1>4, <1>5, EnterBegins
<1>7. Stage(x)'
  BY <1>2, <1>6, StageStands DEF Stage
<1>8. tasks' = {x}
  BY <1>2, <1>3, <1>5
<1> QED BY <1>2, <1>3, <1>7, <1>8 DEF OwnerInv

\* The first owner enters when the run begins.
LEMMA StartStage ==
  ASSUME Start
  PROVE  OwnerInv'
<1>1. mode' = "run" /\ depth' = 1 /\ tasks' = {EnterTask(1)} /\ UNCHANGED <<git, facts>>
  BY DEF Start
<1>2. 1 \in Cards
  BY GitSourceAssumption DEF Cards
<1>3. PICK x : x = EnterTask(1)
  OBVIOUS
<1>4. Stage(x)
  <2>1. Chain(1 - 1)
    BY ChainOfNone
  <2> QED BY <1>2, <1>3, <2>1, EnterBegins
<1>5. Stage(x)'
  BY <1>1, <1>4, StageStands DEF Stage
<1> QED BY <1>1, <1>2, <1>3, <1>5 DEF OwnerInv

\* A refused entry has not left the parent's branch.
LEMMA RefusedStage ==
  ASSUME SourceInv, OwnerInv, NEW t \in tasks, EntryRefused(t)
  PROVE  OwnerInv'
<1> DEFINE c == t.card
<1>1. /\ mode = "run" /\ Head(t.todo) = "refused" /\ UNCHANGED <<git, facts>>
      /\ tasks' = tasks \ {t} /\ depth' = c - 1 /\ mode' = IF c = 1 THEN "idle" ELSE mode
  BY DEF EntryRefused, Current
<1>2. tasks = {t} /\ c \in Cards /\ EnterStage(c, t.todo)
  BY <1>1, Running, StageHeads
<1>3. Chain(c - 1) /\ git.branch = c - 1 /\ Resting
  <2>1. \A x \in EnterInside \cup {<<"failed">>} : Head(x) # "refused"
    BY ListParts DEF EnterInside
  <2> QED BY <1>1, <1>2, <2>1 DEF EnterStage
<1>4. Chain(c - 1)' /\ HasRebase(git)' = HasRebase(git)
  BY <1>1, <1>3 DEF Chain, HasRebase
<1>5. c # 1 => c - 1 \in Cards
  BY <1>2, CardNumbers
<1> QED BY <1>1, <1>2, <1>3, <1>4, <1>5 DEF OwnerInv, Resting

\* What a publication says of the owner's tip and of its parent's
LEMMA PublishedTips ==
  ASSUME SourceInv, NEW t \in tasks, t.card \in Cards
  PROVE  LET c == t.card
             p == Published(t)
         IN /\ (t.kind \in Checkpoints /\ Head(t.todo) = "publish") => p.ptip = facts[c].ptip
            /\ (t.kind = "return" /\ Head(t.todo) \in {"publishSnapshot", "publishVerified"}) => p.ptip = facts[c].ptip
            /\ (t.kind = "return" /\ Head(t.todo) = "publish") => (p.ptip = facts[c].ptip /\ p.tip = git.tip[c])
            /\ (t.kind = "enter" /\ Head(t.todo) \in {"publish", "publishTask"}) => p.ptip = ParentTip(c)
            /\ (t.kind = "deliver" /\ Head(t.todo) = "publish") => (p.ptip = git.tip[c - 1] /\ p.tip = facts[c].tip)
<1> DEFINE c == t.card
           f == facts[c]
           p == Published(t)
           saved == [f EXCEPT !.tip = git.tip[c], !.cand = None, !.done = None]
           entered == [NoFacts EXCEPT !.tip = git.tip[c], !.ptip = ParentTip(c), !.base = ParentTip(c)]
<1>1. f \in FactRecords
  BY DEF SourceInv, FactInv
<1>2. saved \in [{"tip", "ptip", "base", "cand", "done", "corr"} -> {saved[i] : i \in {"tip", "ptip", "base", "cand", "done", "corr"}}]
      /\ saved.ptip = f.ptip /\ saved.tip = git.tip[c]
  BY <1>1 DEF FactRecords
<1>3. entered.ptip = ParentTip(c) /\ DOMAIN entered = {"tip", "ptip", "base", "cand", "done", "corr"}
  BY DEF NoFacts
<1>4. ASSUME t.kind \in Checkpoints, Head(t.todo) = "publish" PROVE p.ptip = f.ptip
  <2>1. p \in {saved, [f EXCEPT !.tip = git.tip[c], !.cand = git.tip[c]], [f EXCEPT !.tip = git.tip[c], !.cand = None]}
    BY <1>4 DEF Published, Checkpoints
  <2> QED BY <1>1, <2>1 DEF FactRecords
<1>5. ASSUME t.kind = "return", Head(t.todo) = "publishSnapshot" PROVE p.ptip = f.ptip
  <2>1. p = [f EXCEPT !.cand = None, !.done = None, !.corr.snap = Newest(git)]
    BY <1>5 DEF Published
  <2> QED BY <1>1, <2>1 DEF FactRecords
<1>6. ASSUME t.kind = "return", Head(t.todo) = "publishVerified" PROVE p.ptip = f.ptip
  <2>1. p = [saved EXCEPT !.base = f.corr.onto]
    BY <1>6 DEF Published
  <2> QED BY <1>1, <2>1 DEF FactRecords
<1>7. ASSUME t.kind = "return", Head(t.todo) = "publish" PROVE p.ptip = f.ptip /\ p.tip = git.tip[c]
  <2>1. p = saved
    BY <1>7 DEF Published
  <2> QED BY <1>2, <2>1
<1>8. ASSUME t.kind = "enter", Head(t.todo) \in {"publish", "publishTask"} PROVE p.ptip = ParentTip(c)
  <2>1. PICK x, y : p \in {[entered EXCEPT !.base = x, !.corr = y], entered, [f EXCEPT !.ptip = ParentTip(c), !.corr.onto = ParentTip(c)]}
    BY <1>8 DEF Published
  <2>2. CASE p = [entered EXCEPT !.base = x, !.corr = y]
    <3> HIDE DEF entered
    <3> QED BY <1>3, <2>2
  <2>3. CASE p = [f EXCEPT !.ptip = ParentTip(c), !.corr.onto = ParentTip(c)]
    BY <1>1, <2>3 DEF FactRecords
  <2> QED BY <1>3, <2>1, <2>2, <2>3
<1>9. ASSUME t.kind = "deliver", Head(t.todo) = "publish" PROVE p.ptip = git.tip[c - 1] /\ p.tip = f.tip
  <2>1. p = [f EXCEPT !.ptip = git.tip[c - 1], !.cand = None, !.done = accepted[c]]
    BY <1>9 DEF Published
  <2> QED BY <1>1, <2>1 DEF FactRecords
<1> QED BY <1>4, <1>5, <1>6, <1>7, <1>8, <1>9

\* A publication of the owner, and its release with the last one
LEMMA PublishStage ==
  ASSUME SourceInv, OwnerInv, NEW t \in tasks, Publish(t)
  PROVE  OwnerInv'
<1> DEFINE c == t.card
           s == t.todo
           last == Len(s) = 1
           released == last /\ t.kind \in {"return", "deliver"}
<1>1. /\ mode = "run" /\ Head(s) \in {"publish", "publishTask", "publishSnapshot", "publishVerified"} /\ UNCHANGED git
      /\ facts' = [facts EXCEPT ![c] = Published(t)] /\ depth' = (IF released THEN c - 1 ELSE depth)
      /\ mode' = (IF released /\ c = 1 THEN "idle" ELSE mode)
  BY DEF Publish, Current
<1>2. (last => tasks' = tasks \ {t}) /\ (~last => tasks' = (tasks \ {t}) \cup {[t EXCEPT !.todo = Tail(s)]})
  BY DEF Publish
<1>3. /\ tasks = {t} /\ c = depth /\ c \in Cards /\ StageOf(t.kind, t.doomed, c, s)
      /\ c \in 0..N /\ c - 1 \in 0..N /\ (c # 1 => c - 1 \in Cards)
  BY <1>1, Running, CardNumbers
<1>4. facts'[c] = Published(t) /\ \A k \in Cards : k # c => facts'[k] = facts[k]
  BY <1>1, <1>3 DEF SourceInv, FactInv
<1>5. Chain(c - 1) => Chain(c - 1)'
  <2>1. \A k \in Cards : (k <= c - 1 => k # c) /\ (k < c - 1 => k # c)
    BY <1>3, CardNumbers
  <2> HIDE DEF c
  <2> QED BY <1>1, <1>3, <1>4, <2>1, ChainKeeps
<1>6. ASSUME Chain(c), facts'[c].ptip = facts[c].ptip PROVE Chain(c)'
  <2>1. \A k \in Cards : k < c => k # c
    BY <1>3, CardNumbers
  <2> HIDE DEF c
  <2> QED BY <1>1, <1>3, <1>4, <1>6, <2>1, ChainKeeps
<1>7. Resting' = Resting /\ HasRebase(git)' = HasRebase(git)
  BY <1>1 DEF Resting, HasRebase, Dirty, Tree
<1>8. CASE t.kind \in Checkpoints /\ CheckpointStage(c, s)
  <2>1. s \in {<<"publish">>, <<"publish", "admit">>} /\ Head(s) = "publish" /\ git.branch = c /\ Chain(c)
    <3>1. \A x \in CheckpointPlans \ {<<"publish">>, <<"publish", "admit">>} : Head(x) \in {"commit", "admit", "failed"}
      BY ListParts DEF CheckpointPlans
    <3>2. s \in CheckpointPlans /\ git.branch = c /\ Chain(c)
      BY <1>8 DEF CheckpointStage
    <3>3. s \in {<<"publish">>, <<"publish", "admit">>}
      BY <1>1, <3>1, <3>2
    <3> QED BY <3>2, <3>3, ListParts
  <2>2. facts'[c].ptip = facts[c].ptip
    BY <1>3, <1>4, <1>8, <2>1, PublishedTips
  <2>3. Chain(c)'
    BY <1>6, <2>1, <2>2
  <2>4. t.kind \notin {"return", "deliver"}
    BY <1>8 DEF Checkpoints
  <2>5. CASE last
    BY <1>1, <1>2, <1>3, <2>1, <2>3, <2>4, <2>5 DEF OwnerInv
  <2>6. CASE ~last
    <3>1. PICK d : d = Tail(s)
      OBVIOUS
    <3>2. d = <<"admit">>
      <4>1. s # <<"publish">>
        BY <2>6, ListParts
      <4>2. s = <<"publish", "admit">>
        BY <2>1, <4>1
      <4> QED BY <3>1, <4>2, ListParts
    <3>3. StageOf(t.kind, t.doomed, c, d)'
      BY <1>1, <1>8, <2>1, <2>3, <3>2 DEF StageOf, CheckpointStage, CheckpointPlans
    <3> QED BY <1>1, <1>2, <2>6, <3>1, <3>3, GoesOn
  <2> QED BY <2>5, <2>6
<1>9. CASE t.kind = "enter" /\ EnterStage(c, s)
  <2>1. /\ s \in {<<"publish">>, <<"publishTask">>} /\ Head(s) \in {"publish", "publishTask"} /\ last
        /\ git.branch = c /\ Chain(c - 1) /\ git.tip[c - 1] = ParentTip(c)
    <3>1. \A x \in EnterOutside : Head(x) \in {"refused", "create", "switch"}
      BY ListParts DEF EnterOutside
    <3>2. \A x \in EnterInside \ {<<"publish">>, <<"publishTask">>} : Head(x) \in {"retain", "rebase", "abort"}
      BY ListParts DEF EnterInside
    <3>3. s # <<"failed">>
      BY <1>1, ListParts
    <3>4. s \in EnterInside /\ git.branch = c /\ Chain(c - 1) /\ git.tip[c - 1] = ParentTip(c)
      BY <1>1, <1>9, <3>1, <3>3 DEF EnterStage
    <3>5. s \in {<<"publish">>, <<"publishTask">>}
      BY <1>1, <3>2, <3>4
    <3> QED BY <3>4, <3>5, ListParts
  <2>2. facts'[c].ptip = ParentTip(c)
    BY <1>3, <1>4, <1>9, <2>1, PublishedTips
  <2>3. Chain(c)'
    <3>1. Chain(c - 1)'
      BY <1>5, <2>1
    <3>2. git'.tip[c - 1] = facts'[c].ptip
      BY <1>1, <2>1, <2>2
    <3>3. c > 1 => facts'[c - 1].tip = facts'[c].ptip
      <4>1. c > 1 => (c # 1 /\ c - 1 \in Cards /\ c - 1 # c)
        BY <1>3, CardNumbers
      <4> QED BY <1>4, <2>2, <4>1 DEF ParentTip
    <3>4. \A k \in 1..c : k = c \/ k \in 1..(c - 1)
      BY <1>3 DEF Cards
    <3> HIDE DEF c
    <3> QED BY <3>1, <3>2, <3>3, <3>4 DEF Chain
  <2> QED BY <1>1, <1>2, <1>3, <1>9, <2>1, <2>3 DEF OwnerInv
<1>10. CASE t.kind = "return" /\ ~t.doomed /\ ReturnStage(c, s)
  <2>1. s # <<"failed">> /\ s # <<"reenter">>
    BY <1>1, ListParts
  <2>2. Chain(c)
    BY <1>10, <2>1 DEF ReturnStage
  <2>3. facts'[c].ptip = facts[c].ptip
    <3>1. \A r \in Returned : Head(r) = "publish"
      BY ListParts DEF Returned
    <3>2. Head(s) # "publishTask"
      BY <1>10, <2>1, <3>1, ReturnParts DEF ReturnStage
    <3> QED BY <1>1, <1>3, <1>4, <1>10, <3>2, PublishedTips
  <2>4. Chain(c)'
    BY <1>6, <2>2, <2>3
  <2>5. CASE s = <<"publish">> /\ git.branch = c - 1 /\ Resting
    <3>1. last
      BY <2>5, ListParts
    <3>2. Chain(c - 1)'
      BY <1>3, <1>5, <2>2, ChainBelow
    <3>3. (~HasRebase(git))'
      BY <1>7, <2>5 DEF Resting
    <3> QED BY <1>1, <1>2, <1>3, <1>10, <2>5, <3>1, <3>2, <3>3 DEF OwnerInv
  <2>6. CASE s = <<"publish", "reenter">> /\ git.branch = c - 1 /\ Resting
    <3>1. ~last /\ Tail(s) = <<"reenter">>
      BY <2>6, ListParts
    <3>2. PICK d : d = Tail(s)
      OBVIOUS
    <3>3. StageOf(t.kind, t.doomed, c, d)'
      BY <1>10, <2>4, <3>1, <3>2 DEF StageOf, ReturnStage
    <3> QED BY <1>1, <1>2, <3>1, <3>2, <3>3, GoesOn
  <2>7. ASSUME NEW r \in Returned, git.branch = c, s = Noting(r) \/ (s = Verifying(r) /\ ~HasRebase(git))
        PROVE  OwnerInv'
    <3>1. ~last /\ (s = Noting(r) => Tail(s) = Checking(r)) /\ (s = Verifying(r) => Tail(s) = Saving(r))
      BY <2>7, ReturnParts
    <3>2. PICK d : d = Tail(s)
      OBVIOUS
    <3>3. ReturnStage(c, d)'
      BY <1>1, <1>7, <2>4, <2>7, <3>1, <3>2 DEF ReturnStage
    <3>4. StageOf(t.kind, t.doomed, c, d)'
      BY <1>10, <3>3 DEF StageOf
    <3> QED BY <1>1, <1>2, <3>1, <3>2, <3>4, GoesOn
  <2>8. \A r \in Returned : s \notin {Leaving(r), Saving(r), Restoring(r), Aborting(r), Checking(r), Capturing(r)}
    BY <1>1, ReturnParts
  <2> QED BY <1>10, <2>1, <2>5, <2>6, <2>7, <2>8 DEF ReturnStage, Returned
<1>11. CASE t.kind = "deliver" /\ DeliverStage(c, s)
  <2>1. /\ s = <<"publish">> /\ last /\ git.branch = c - 1 /\ Chain(c - 1) /\ Resting
    <3>1. s \notin {<<"failed">>, DeliverTodo, <<"squash", "publishParent", "publish">>, <<"publishParent", "publish">>}
      BY <1>1, ListParts DEF DeliverTodo
    <3> QED BY <1>11, <3>1, ListParts DEF DeliverStage
  <2>2. Chain(c - 1)'
    BY <1>5, <2>1
  <2>3. (~HasRebase(git))'
    BY <1>7, <2>1 DEF Resting
  <2> QED BY <1>1, <1>2, <1>3, <1>11, <2>1, <2>2, <2>3 DEF OwnerInv
<1> QED BY <1>3, <1>8, <1>9, <1>10, <1>11 DEF StageOf

\* A list of two steps and one more
LEMMA TwoThenOne == ASSUME NEW S, NEW x \in S, NEW y \in S, NEW z \in S PROVE <<x, y>> \o <<z>> = <<x, y, z>>
<1> DEFINE a == <<x, y>> \o <<z>>
           b == <<x, y, z>>
<1>1. a \in Seq(S) /\ b \in Seq(S) /\ Len(a) = 3 /\ Len(b) = 3
  OBVIOUS
<1>2. a[1] = x /\ a[2] = y /\ a[3] = z
  OBVIOUS
<1>3. \A i \in 1..3 : a[i] = b[i]
  BY <1>2
<1> HIDE DEF a, b
<1>4. a = b
  BY <1>1, <1>3
<1> QED BY <1>4 DEF a, b

\* An operation an owner asks for begins in its first stage, or halts the run.
LEMMA BeginStage ==
  ASSUME SourceInv, OwnerInv, mode = "run", NEW x, x.card = depth, tasks = {} => Stage(x), Begin(x),
         UNCHANGED <<git, facts, depth>>
  PROVE  OwnerInv'
<1>1. CASE tasks = {}
  <2>1. tasks' = {x} /\ mode' = "run"
    BY <1>1 DEF Begin
  <2>2. Stage(x)'
    BY <1>1, StageStands DEF Stage
  <2>3. depth' \in Cards
    BY DEF OwnerInv
  <2> QED BY <2>1, <2>2, <2>3 DEF OwnerInv
<1>2. CASE tasks # {}
  <2>1. \E u \in tasks : u.card = x.card
    BY <1>2 DEF SourceInv, TaskInv
  <2>2. mode' = "halting"
    BY <2>1 DEF Begin, Halt
  <2> QED BY <2>2 DEF OwnerInv
<1> QED BY <1>1, <1>2

\* The checkpoints of an owner
LEMMA CheckpointBegins ==
  ASSUME NEW c, git.branch = c, Chain(c), NEW k \in Checkpoints, NEW r \in {<<>>, <<"admit">>},
         NEW x, x = CheckpointTask(c, k, r) \/ x = Task(c, k, <<"commit", "publish">>)
  PROVE  Stage(x) /\ x.card = c
<1>1. <<"commit", "publish">> \o r \in {<<"commit", "publish">>, <<"commit", "publish", "admit">>}
  <2>1. CASE r = <<>>
    BY <2>1
  <2>2. CASE r = <<"admit">>
    <3> DEFINE S == {"commit", "publish", "admit"}
    <3>1. "commit" \in S /\ "publish" \in S /\ "admit" \in S
      OBVIOUS
    <3>2. <<"commit", "publish">> \o <<"admit">> = <<"commit", "publish", "admit">>
      BY <3>1, TwoThenOne
    <3> QED BY <2>2, <3>2
  <2> QED BY <2>1, <2>2
<1>2. PICK s : s \in CheckpointPlans /\ x = Task(c, k, s)
  BY <1>1 DEF CheckpointTask, CheckpointPlans
<1>3. "doomed" \in DOMAIN x /\ x.card = c /\ x.kind = k /\ x.todo = s
  BY <1>2 DEF Task
<1> QED BY <1>2, <1>3 DEF Stage, StageOf, CheckpointStage

\* The return of an owner
LEMMA ReturnBegins ==
  ASSUME NEW c, git.branch = c, Chain(c), NEW rest \in {<<>>, <<"reenter">>}, NEW x, x = ReturnTask(c, rest)
  PROVE  Stage(x) /\ x.card = c
<1>1. PICK r \in Returned :
           /\ <<"commit", "leave", "publish">> \o rest = Saving(r)
           /\ <<"publishVerified">> \o <<"commit", "leave", "publish">> \o rest = Verifying(r)
           /\ <<"capture", "publishSnapshot", "verify", "abort", "restore", "commit", "leave", "publish">> \o rest = Capturing(r)
  BY ReturnForms
<1>2. PICK s : /\ x = Task(c, "return", s)
               /\ s = <<"failed">> \/ s = Capturing(r) \/ (s \in {Saving(r), Verifying(r)} /\ ~HasRebase(git))
  <2>1. CASE Corrects(c) /\ HasRebase(git)
    BY <1>1, <2>1 DEF ReturnTask, ReturnTodo
  <2>2. CASE ~(Corrects(c) /\ HasRebase(git))
    <3>1. ReturnTodo(c) = <<"commit", "leave", "publish">>
      BY <2>2 DEF ReturnTodo
    <3>2. CASE Corrects(c) /\ CorrectionHolds(c)
      <4>1. ~HasRebase(git)
        BY <3>2 DEF CorrectionHolds
      <4> QED BY <1>1, <2>2, <3>1, <3>2, <4>1 DEF ReturnTask
    <3>3. CASE ~(Corrects(c) /\ CorrectionHolds(c)) /\ Inspected(c, facts[c].tip, TRUE) /\ git.tip[c - 1] = facts[c].ptip
      <4>1. ~HasRebase(git)
        BY <3>3 DEF Inspected
      <4> QED BY <1>1, <2>2, <3>1, <3>3, <4>1 DEF ReturnTask
    <3>4. CASE ~(Corrects(c) /\ CorrectionHolds(c)) /\ ~(Inspected(c, facts[c].tip, TRUE) /\ git.tip[c - 1] = facts[c].ptip)
      BY <2>2, <3>4 DEF ReturnTask
    <3> QED BY <3>2, <3>3, <3>4
  <2> QED BY <2>1, <2>2
<1>3. "doomed" \in DOMAIN x /\ x.card = c /\ x.kind = "return" /\ x.todo = s /\ ~x.doomed
  BY <1>2 DEF Task
<1>4. ReturnStage(c, s)
  BY <1>1, <1>2 DEF ReturnStage
<1> QED BY <1>3, <1>4 DEF Stage, StageOf

\* The delivery of an owner
LEMMA DeliverBegins ==
  ASSUME NEW c \in Cards, Chain(c), NEW x, x = DeliverTask(c)
  PROVE  Stage(x) /\ x.card = c
<1>1. PICK s : /\ x = Task(c, "deliver", s)
               /\ \/ s = <<"failed">>
                  \/ s = DeliverTodo /\ CandidateMatches(c, accepted[c]) /\ InspectedClean(c, accepted[c])
  BY DEF DeliverTask
<1>2. "doomed" \in DOMAIN x /\ x.card = c /\ x.kind = "deliver" /\ x.todo = s /\ ~x.doomed
  BY <1>1 DEF Task
<1>3. Chain(c - 1)
  BY ChainBelow
<1>4. DeliverStage(c, s)
  BY <1>1, <1>3 DEF DeliverStage, CandidateMatches, InspectedClean, Inspected, Resting
<1> QED BY <1>2, <1>4 DEF Stage, StageOf

\* What is known of an owner at work
LEMMA AtWork ==
  ASSUME OwnerInv, NEW c, Working(c)
  PROVE  mode = "run" /\ tasks = {} /\ depth = c /\ c \in Cards /\ git.branch = c /\ Chain(c)
BY DEF OwnerInv, Working

\* An interruption dooms the checkpoint in progress and moves nothing.
LEMMA DoomStage ==
  ASSUME SourceInv, OwnerInv, NEW k, Interruptible(k), tasks' = DoomFrom(k), UNCHANGED <<git, facts, mode, depth>>
  PROVE  OwnerInv'
<1>1. mode = "run" /\ \A t \in tasks : t.kind \notin {"enter", "return", "deliver"}
  BY DEF Interruptible
<1>2. CASE tasks = {}
  <2>1. tasks' = {}
    BY <1>2 DEF DoomFrom
  <2>2. git'.branch = depth' /\ Chain(depth)' /\ depth' \in Cards
    BY <1>1, <1>2 DEF OwnerInv, Chain
  <2> QED BY <1>1, <2>1, <2>2 DEF OwnerInv
<1>3. ASSUME NEW t \in tasks PROVE OwnerInv'
  <2>1. /\ tasks = {t} /\ {"card", "kind", "todo", "doomed"} \subseteq DOMAIN t
        /\ StageOf(t.kind, t.doomed, t.card, t.todo)
    BY <1>1, <1>3, Running
  <2>2. PICK u : u = (IF t.card >= k THEN [t EXCEPT !.doomed = TRUE] ELSE t)
    OBVIOUS
  <2>3. tasks' = {u}
    BY <2>1, <2>2 DEF DoomFrom
  <2>4. "doomed" \in DOMAIN u /\ u.card = t.card /\ u.kind = t.kind /\ u.todo = t.todo
    BY <2>1, <2>2, TaskFields
  <2>5. t.kind \in Checkpoints /\ CheckpointStage(t.card, t.todo)
    BY <1>1, <1>3, <2>1 DEF StageOf
  <2>6. StageOf(u.kind, u.doomed, u.card, u.todo)
    BY <2>4, <2>5 DEF StageOf
  <2>7. Stage(u)'
    BY <2>4, <2>6, StageStands DEF Stage
  <2>8. depth' \in Cards
    BY <1>1 DEF OwnerInv
  <2> QED BY <1>1, <2>3, <2>7, <2>8 DEF OwnerInv
<1> QED BY <1>2, <1>3

\* A doomed operation of a run is a checkpoint: its command in flight commits the
\* owner's work on the owner's branch, or does nothing.
LEMMA DoomedStage ==
  ASSUME SourceInv, OwnerInv, NEW t \in tasks, EndDoomed(t)
  PROVE  OwnerInv'
<1>1. /\ t.doomed /\ git' \in {git} \cup Command(t) /\ UNCHANGED <<facts, depth>>
      /\ mode' = "halting" \/ (tasks' = tasks \ {t} /\ mode' = mode)
  BY DEF EndDoomed, Halt
<1>2. CASE mode = "run" /\ tasks' = tasks \ {t} /\ mode' = mode
  <2>1. tasks = {t} /\ t.card = depth /\ t.card \in Cards /\ StageOf(t.kind, t.doomed, t.card, t.todo)
    BY <1>2, Running
  <2>2. CheckpointStage(t.card, t.todo)
    BY <1>1, <2>1 DEF StageOf
  <2>3. t.todo \in CheckpointPlans /\ git.branch = t.card /\ Chain(t.card)
    BY <2>2 DEF CheckpointStage
  <2>4. Head(t.todo) \in {"commit", "publish", "admit", "failed"}
    BY <2>3, ListParts DEF CheckpointPlans
  <2>5. git' = git \/ git' = CommitAll(git)
    BY <1>1, <2>4, CommandOf DEF Commands
  <2>6. git'.branch = git.branch /\ \A b \in 0..N : b # t.card => git'.tip[b] = git.tip[b]
    BY <2>3, <2>5, CommitEffect DEF SourceInv
  <2>7. PICK c : c = t.card
    OBVIOUS
  <2>8. c \in 0..N /\ c \in 0..c
    BY <2>1, <2>7, CardNumbers
  <2>9. Chain(c)'
    BY <1>1, <2>3, <2>6, <2>7, <2>8, ChainStands
  <2> QED BY <1>1, <1>2, <2>1, <2>3, <2>6, <2>7, <2>9 DEF OwnerInv
<1>3. CASE mode # "run" /\ mode' = mode
  BY <1>3 DEF OwnerInv
<1> QED BY <1>1, <1>2, <1>3 DEF OwnerInv

\* An agent works on the owner's branch.
LEMMA AgentStage ==
  ASSUME SourceInv, OwnerInv, Agent
  PROVE  OwnerInv'
<1>1. PICK c \in Cards : AgentCommit(c) \/ AgentRebase(c) \/ AgentContinue(c) \/ \E e \in Edits : AgentEdit(c, e)
  BY DEF Agent
<1>2. Working(c) /\ UNCHANGED <<facts, tasks, mode, depth>>
  BY <1>1 DEF AgentCommit, AgentRebase, AgentContinue, AgentEdit
<1>3. mode = "run" /\ tasks = {} /\ depth = c /\ git.branch = c /\ Chain(c)
  BY <1>2, AtWork
<1>4. c \in 0..N /\ c \in 0..c
  BY CardNumbers
<1>5. git'.branch = git.branch /\ \A b \in 0..N : b # c => git'.tip[b] = git.tip[b]
  <2>1. CASE AgentCommit(c)
    BY <1>3, <2>1, CommitEffect DEF AgentCommit, SourceInv
  <2>2. CASE AgentRebase(c)
    BY <1>4, <2>2, RebaseEffect DEF AgentRebase, SourceInv
  <2>3. CASE AgentContinue(c)
    <3>1. PICK h : h = WithCommit(git, git.rebase.onto, git.tree) /\ git' = [h EXCEPT !.tip[c] = Newest(h), !.rebase = NoRebase]
      BY <2>3 DEF AgentContinue
    <3>2. /\ h.branch = git.branch /\ h.tip = git.tip /\ git.tip \in [0..N -> 0..Len(git.commits)] /\ Fields \subseteq DOMAIN h
      BY <3>1, WithCommitEffect DEF SourceInv
    <3> QED BY <3>1, <3>2 DEF Fields
  <2>4. CASE \E e \in Edits : AgentEdit(c, e)
    BY <2>4, Reads DEF AgentEdit, SourceInv
  <2> QED BY <1>1, <2>1, <2>2, <2>3, <2>4
<1>6. Chain(c)'
  BY <1>2, <1>3, <1>4, <1>5, ChainStands
<1> QED BY <1>2, <1>3, <1>5, <1>6 DEF OwnerInv

\* The operator finds no native operation, and stays on the delivery branch.
LEMMA OperatorStage ==
  ASSUME SourceInv, OwnerInv, Operator
  PROVE  OwnerInv'
<1>1. CASE OperatorRestore
  BY <1>1 DEF OperatorRestore, OwnerInv
<1>2. ASSUME NEW e \in Edits, GlobalWrite(e) PROVE OwnerInv'
  <2>1. git'.branch = git.branch /\ git'.rebase = git.rebase /\ UNCHANGED <<tasks, mode>> /\ mode \in {"idle", "down"}
    BY <1>2, Reads DEF GlobalWrite, SourceInv
  <2> QED BY <2>1 DEF OwnerInv, HasRebase
<1> QED BY <1>1, <1>2 DEF Operator

\* What a card asks for
LEMMA CardStage ==
  ASSUME SourceInv, OwnerInv, Card
  PROVE  OwnerInv'
<1>1. PICK c \in Cards :
          \/ CheckpointSource(c) \/ ActivateChild(c) \/ PrepareCandidate(c) \/ AcceptResult(c)
          \/ CompleteCorrection(c) \/ SettleResult(c)
          \/ SettleInterrupted(c) \/ SettleBoundary(c) \/ InterruptNode(c)
          \/ \E b \in 0..(N + 1) : Interrupt(c, b)
  BY DEF Card
<1>2. CASE CheckpointSource(c) \/ ActivateChild(c) \/ PrepareCandidate(c)
  <2>1. PICK x : /\ Working(c) /\ Begin(x) /\ UNCHANGED <<git, facts, depth>>
                 /\ \/ x = CheckpointTask(c, "checkpoint", <<>>) \/ x = CheckpointTask(c, "handoff", <<"admit">>)
                    \/ x = Task(c, "prepare", <<"commit", "publish">>)
    BY <1>2 DEF CheckpointSource, ActivateChild, PrepareCandidate
  <2>2. mode = "run" /\ depth = c /\ git.branch = c /\ Chain(c)
    BY <2>1, AtWork
  <2>3. {"checkpoint", "handoff", "prepare"} \subseteq Checkpoints
    BY DEF Checkpoints
  <2>4. Stage(x) /\ x.card = c
    BY <2>1, <2>2, <2>3, CheckpointBegins
  <2> QED BY <2>1, <2>2, <2>4, BeginStage
<1>3. CASE AcceptResult(c)
  <2>1. Working(c) /\ UNCHANGED <<git, facts, tasks, mode, depth>>
    BY <1>3 DEF AcceptResult
  <2>2. mode = "run" /\ tasks = {} /\ depth = c /\ git.branch = c /\ Chain(c)
    BY <2>1, AtWork
  <2>3. Chain(c)'
    BY <2>1, <2>2 DEF Chain
  <2> QED BY <2>1, <2>2, <2>3 DEF OwnerInv
<1>4. CASE CompleteCorrection(c)
  <2>1. /\ Working(c) /\ UNCHANGED <<git, tasks, mode, depth>>
        /\ \E f : facts' = [facts EXCEPT ![c] = f] /\ f.ptip = facts[c].ptip
    <3>1. facts[c] \in FactRecords
      BY DEF SourceInv, FactInv
    <3>2. [facts[c] EXCEPT !.tip = git.tip[c], !.base = facts[c].corr.onto, !.cand = None, !.done = None, !.corr = NoTask].ptip
            = facts[c].ptip
      BY <3>1 DEF FactRecords
    <3> QED BY <1>4, <3>2 DEF CompleteCorrection
  <2>2. mode = "run" /\ tasks = {} /\ depth = c /\ git.branch = c /\ Chain(c)
    BY <2>1, AtWork
  <2>3. \A k \in Cards : facts'[k].ptip = facts[k].ptip /\ (k # c => facts'[k].tip = facts[k].tip)
    BY <2>1 DEF SourceInv, FactInv
  <2>4. c \in 0..N /\ \A k \in Cards : k < c => k # c
    BY CardNumbers
  <2>5. Chain(c)'
    BY <2>1, <2>2, <2>3, <2>4, ChainKeeps
  <2> QED BY <2>1, <2>2, <2>5 DEF OwnerInv
<1>5. CASE SettleResult(c)
  <2>1. PICK x : /\ Working(c) /\ Begin(x) /\ UNCHANGED <<git, facts, depth>>
                 /\ x = DeliverTask(c) \/ x = ReturnTask(c, <<>>)
    BY <1>5 DEF SettleResult
  <2>2. mode = "run" /\ depth = c /\ git.branch = c /\ Chain(c)
    BY <2>1, AtWork
  <2>3. Stage(x) /\ x.card = c
    BY <2>1, <2>2, DeliverBegins, ReturnBegins
  <2> QED BY <2>1, <2>2, <2>3, BeginStage
<1>6. CASE SettleInterrupted(c) \/ SettleBoundary(c)
  <2>1. PICK x : /\ mode = "run" /\ depth = c /\ Begin(x) /\ UNCHANGED <<git, facts, depth>>
                 /\ \/ x = ReturnTask(c, <<>>) \/ x = ReturnTask(c, <<"reenter">>)
                    \/ x = CheckpointTask(c, "urgent", <<>>)
    BY <1>6 DEF SettleInterrupted, SettleBoundary
  <2>2. x.card = c
    BY <2>1, AskedForm
  <2>3. ASSUME tasks = {} PROVE Stage(x)
    <3>1. git.branch = c /\ Chain(c)
      BY <2>1, <2>3 DEF OwnerInv
    <3>2. "urgent" \in Checkpoints
      BY DEF Checkpoints
    <3> QED BY <2>1, <3>1, <3>2, ReturnBegins, CheckpointBegins
  <2> QED BY <2>1, <2>2, <2>3, BeginStage
<1>7. CASE InterruptNode(c) \/ \E b \in 0..(N + 1) : Interrupt(c, b)
  BY <1>7, DoomStage DEF InterruptNode, Interrupt
<1> QED BY <1>1, <1>2, <1>3, <1>4, <1>5, <1>6, <1>7

\* Every step keeps the checkout with the owners.
LEMMA OwnerStep ==
  ASSUME Hooks = FALSE, SourceInv, OwnerInv, [Next]_vars
  PROVE  OwnerInv'
<1>1. CASE UNCHANGED vars
  <2>1. \A t \in tasks : Stage(t) => Stage(t)'
    BY <1>1, StageStands DEF Stage, vars
  <2>2. Chain(depth)' = Chain(depth) /\ HasRebase(git)' = HasRebase(git)
    BY <1>1 DEF Chain, HasRebase, vars
  <2> QED BY <1>1, <2>1, <2>2 DEF OwnerInv, vars
<1>2. CASE Native
  <2>1. PICK t \in tasks : \/ RunCommand(t) \/ VerifySnapshot(t) \/ Publish(t) \/ PublishParent(t) \/ Admit(t)
                           \/ StepFails(t) \/ EntryRefused(t) \/ EndDoomed(t)
    BY <1>2 DEF Native
  <2>2. CASE StepFails(t)
    BY <2>2 DEF StepFails, Halt, OwnerInv
  <2> QED BY <2>1, <2>2, CommandStage, VerifyStage, PublishStage, ParentStage, AdmitStage, RefusedStage, DoomedStage
<1>3. CASE Stop \/ Halted \/ Die
  BY <1>3 DEF Stop, Halted, Die, Halt, OwnerInv
<1> QED BY <1>1, <1>2, <1>3, StartStage, CardStage, AgentStage, OperatorStage DEF Next

\* The first state
LEMMA OwnerInit == Init => OwnerInv
BY DEF Init, OwnerInv, HasRebase

\* Between native operations the checkout is on the branch of the deepest owner, the
\* branches of the owners above stand where their facts say, and a project at rest
\* has its delivery branch checked out with no rebase open: for every depth of the
\* chain of cards, when no git hook writes source.
THEOREM SourceStaysWithOwners ==
  ASSUME Hooks = FALSE
  PROVE  Spec => []SourceFollowsOwners
<1>1. SourceInv /\ OwnerInv => SourceFollowsOwners
  <2> SUFFICES ASSUME SourceInv, OwnerInv PROVE SourceFollowsOwners
    OBVIOUS
  <2>1. ASSUME mode = "run", tasks = {}
        PROVE  git.branch = depth /\ \A c \in 1..(depth - 1) : git.tip[c] = facts[c].tip /\ facts[c + 1].ptip = facts[c].tip
    <3>1. git.branch = depth /\ Chain(depth) /\ depth \in Nat
      BY <2>1, GitSourceAssumption DEF OwnerInv, Cards
    <3>2. ASSUME NEW c \in 1..(depth - 1) PROVE git.tip[c] = facts[c].tip /\ facts[c + 1].ptip = facts[c].tip
      <4>1. c + 1 \in 1..depth /\ c + 1 > 1 /\ (c + 1) - 1 = c
        BY <3>1
      <4> QED BY <3>1, <4>1 DEF Chain
    <3> QED BY <3>1, <3>2
  <2> QED BY <2>1 DEF SourceFollowsOwners, OwnerInv
<1>2. SourceInv /\ OwnerInv /\ [Next]_vars => SourceInv' /\ OwnerInv'
  BY SourceStep, OwnerStep
<1> QED BY <1>1, <1>2, SourceInit, OwnerInit, PTL DEF Spec

\* A project at rest or down has no owner.
NoOwner == mode \in {"idle", "down"} => depth = 0

\* An owner is given up with the run, not before.
LEMMA NoOwnerStep ==
  ASSUME SourceInv, OwnerInv, NoOwner, [Next]_vars
  PROVE  NoOwner'
<1>1. CASE UNCHANGED vars
  BY <1>1 DEF NoOwner, vars
<1>2. CASE Native
  <2>1. PICK t \in tasks : \/ RunCommand(t) \/ VerifySnapshot(t) \/ Publish(t) \/ PublishParent(t) \/ Admit(t)
                           \/ StepFails(t) \/ EntryRefused(t) \/ EndDoomed(t)
    BY <1>2 DEF Native
  <2>2. CASE Publish(t)
    <3>1. mode = "run" /\ (mode' = "run" \/ (t.card = 1 /\ depth' = t.card - 1))
      BY <2>2 DEF Publish, Current
    <3> QED BY <3>1 DEF NoOwner
  <2>3. CASE EntryRefused(t)
    <3>1. mode = "run" /\ (mode' = "run" \/ (t.card = 1 /\ depth' = t.card - 1))
      BY <2>3 DEF EntryRefused, Current
    <3> QED BY <3>1 DEF NoOwner
  <2>4. CASE EndDoomed(t)
    BY <2>4 DEF EndDoomed, Halt, NoOwner
  <2>5. CASE RunCommand(t) \/ VerifySnapshot(t) \/ PublishParent(t) \/ Admit(t) \/ StepFails(t)
    <3>1. mode' \in {"run", "halting"}
      BY <2>5 DEF RunCommand, VerifySnapshot, PublishParent, Admit, StepFails, Halt, Current
    <3> QED BY <3>1 DEF NoOwner
  <2> QED BY <2>1, <2>2, <2>3, <2>4, <2>5
<1>3. CASE Card
  <2>1. PICK c \in Cards :
          \/ CheckpointSource(c) \/ ActivateChild(c) \/ PrepareCandidate(c) \/ AcceptResult(c)
          \/ CompleteCorrection(c) \/ SettleResult(c)
          \/ SettleInterrupted(c) \/ SettleBoundary(c) \/ InterruptNode(c)
          \/ \E b \in 0..(N + 1) : Interrupt(c, b)
    BY <1>3 DEF Card
  <2>2. mode' \in {"run", "halting"}
    BY <2>1 DEF CheckpointSource, ActivateChild, PrepareCandidate, AcceptResult, CompleteCorrection, SettleResult,
                SettleInterrupted, SettleBoundary, InterruptNode, Interrupt, Interruptible, Working, Begin, Halt
  <2> QED BY <2>2 DEF NoOwner
<1>4. CASE Agent
  BY <1>4 DEF Agent, AgentCommit, AgentRebase, AgentContinue, AgentEdit, NoOwner
<1>5. CASE Operator
  BY <1>5 DEF Operator, OperatorRestore, GlobalWrite, NoOwner
<1>6. CASE Start \/ Stop \/ Halted \/ Die
  BY <1>6 DEF Start, Stop, Halted, Die, Halt, Cleared, NoOwner
<1> QED BY <1>1, <1>2, <1>3, <1>4, <1>5, <1>6 DEF Next

\* What is there when the last publication of an owner releases it
Released(c) ==
  /\ git.branch = c - 1 /\ git.tree = git.commits[git.tip[c - 1]].tree
  /\ facts[c].tip = git.tip[c] /\ facts[c].ptip = git.tip[c - 1]
  /\ c > 1 => facts[c - 1].tip = git.tip[c - 1]

\* A publication that gives an owner up
LEMMA PublishReleases ==
  ASSUME SourceInv, OwnerInv, NEW t \in tasks, Publish(t), NEW c \in Cards, depth = c, depth' = c - 1
  PROVE  Released(c)'
<1> DEFINE s == t.todo
<1>1. mode = "run" /\ UNCHANGED git /\ Head(s) \in {"publish", "publishTask", "publishSnapshot", "publishVerified"}
  BY DEF Publish, Current
<1>2. tasks = {t} /\ t.card = c /\ StageOf(t.kind, t.doomed, c, s)
  BY <1>1, Running
<1>3. Len(s) = 1 /\ t.kind \in {"return", "deliver"} /\ facts' = [facts EXCEPT ![c] = Published(t)]
  BY <1>2, CardNumbers DEF Publish
<1>4. facts'[c] = Published(t) /\ (c > 1 => facts'[c - 1] = facts[c - 1])
  BY <1>3, CardNumbers DEF SourceInv, FactInv
<1>5. CASE t.kind = "return"
  <2>1. ReturnStage(c, s)
    BY <1>2, <1>5 DEF StageOf, Checkpoints
  <2>2. s \notin {<<"failed">>, <<"reenter">>, <<"publish", "reenter">>}
    BY <1>1, <1>3, ListParts
  <2>3. \A r \in Returned : s \notin {Leaving(r), Saving(r), Restoring(r), Verifying(r), Aborting(r), Checking(r), Noting(r), Capturing(r)}
    BY <1>1, <1>3, ReturnParts
  <2>4. s = <<"publish">> /\ git.branch = c - 1 /\ Resting /\ Chain(c)
    BY <2>1, <2>2, <2>3 DEF ReturnStage, Returned
  <2>5. Head(s) = "publish"
    BY <2>4, ListParts
  <2>6. facts'[c].ptip = facts[c].ptip /\ facts'[c].tip = git.tip[c]
    BY <1>2, <1>4, <1>5, <2>5, PublishedTips
  <2>7. git.tip[c - 1] = facts[c].ptip /\ (c > 1 => facts[c - 1].tip = facts[c].ptip)
    BY <2>4, ChainBelow
  <2> QED BY <1>1, <1>4, <2>4, <2>6, <2>7 DEF Released, Resting, Dirty, Tree
<1>6. CASE t.kind = "deliver"
  <2>1. DeliverStage(c, s)
    BY <1>2, <1>6 DEF StageOf, Checkpoints
  <2>2. s \notin {<<"failed">>, DeliverTodo, <<"squash", "publishParent", "publish">>, <<"publishParent", "publish">>}
    BY <1>1, ListParts DEF DeliverTodo
  <2>3. /\ s = <<"publish">> /\ git.branch = c - 1 /\ Resting /\ facts[c].tip = git.tip[c]
        /\ c > 1 => facts[c - 1].tip = git.tip[c - 1]
    BY <2>1, <2>2 DEF DeliverStage
  <2>4. Head(s) = "publish"
    BY <2>3, ListParts
  <2>5. facts'[c].ptip = git.tip[c - 1] /\ facts'[c].tip = facts[c].tip
    BY <1>2, <1>4, <1>6, <2>4, PublishedTips
  <2> QED BY <1>1, <1>4, <2>3, <2>5 DEF Released, Resting, Dirty, Tree
<1> QED BY <1>3, <1>5, <1>6

\* Only a publication or a refused entry gives up one owner of a run.
LEMMA ReleaseStep ==
  ASSUME SourceInv, OwnerInv, NoOwner, [Next]_vars, NEW c \in Cards, depth = c, depth' = c - 1,
         mode' \in {"run", "idle"}, \A t \in tasks : t.kind # "enter"
  PROVE  Released(c)'
<1>1. depth' # depth
  BY CardNumbers
<1>2. CASE Native
  <2>1. PICK t \in tasks : \/ RunCommand(t) \/ VerifySnapshot(t) \/ Publish(t) \/ PublishParent(t) \/ Admit(t)
                           \/ StepFails(t) \/ EntryRefused(t) \/ EndDoomed(t)
    BY <1>2 DEF Native
  <2>2. Publish(t) \/ Admit(t) \/ EntryRefused(t)
    BY <1>1, <2>1 DEF RunCommand, VerifySnapshot, PublishParent, StepFails, EndDoomed
  <2>3. ~Admit(t)
    <3> SUFFICES ASSUME Admit(t) PROVE FALSE
      OBVIOUS
    <3>1. t.card = c
      BY Running DEF Admit, Current
    <3>2. depth' \in {c, c + 1}
      BY <3>1 DEF Admit
    <3> QED BY <3>2 DEF Cards
  <2>4. ~EntryRefused(t)
    <3> SUFFICES ASSUME EntryRefused(t) PROVE FALSE
      OBVIOUS
    <3>1. mode = "run" /\ Head(t.todo) = "refused"
      BY DEF EntryRefused, Current
    <3>2. t.kind = "enter"
      BY <3>1, Running, StageHeads
    <3> QED BY <3>2
  <2> QED BY <2>2, <2>3, <2>4, PublishReleases
<1>3. ~Card
  BY <1>1 DEF Card, CheckpointSource, ActivateChild, PrepareCandidate, AcceptResult, CompleteCorrection, SettleResult,
              SettleInterrupted, SettleBoundary, InterruptNode, Interrupt
<1>4. ~Agent /\ ~Operator /\ ~Stop /\ ~UNCHANGED vars
  BY <1>1 DEF Agent, AgentCommit, AgentRebase, AgentContinue, AgentEdit, Operator, OperatorRestore, GlobalWrite, Stop, vars
<1>5. ~Halted /\ ~Die
  BY DEF Halted, Die
<1>6. ~Start
  <2> SUFFICES ASSUME Start PROVE FALSE
    OBVIOUS
  <2>1. depth = 0
    BY DEF Start, NoOwner
  <2> QED BY <2>1 DEF Cards
<1> QED BY <1>2, <1>3, <1>4, <1>5, <1>6 DEF Next

\* An owner that settles is released with its parent's branch checked out and clean,
\* its published tip and its parent's being the tips of their branches, so that the
\* parent can go on and the card can be entered again: for every depth of the chain.
THEOREM ReleaseStaysExact ==
  ASSUME Hooks = FALSE
  PROVE  Spec => ReleaseIsExact
<1> DEFINE A == \A c \in Cards : depth = c /\ depth' = c - 1 /\ mode' \in {"run", "idle"} /\ (\A t \in tasks : t.kind # "enter") =>
       /\ git'.branch = c - 1 /\ git'.tree = git'.commits[git'.tip[c - 1]].tree
       /\ facts'[c].tip = git'.tip[c] /\ facts'[c].ptip = git'.tip[c - 1]
       /\ c > 1 => facts'[c - 1].tip = git'.tip[c - 1]
<1>1. SourceInv /\ OwnerInv /\ NoOwner /\ [Next]_vars => A
  BY ReleaseStep DEF Released
<1>2. SourceInv /\ OwnerInv /\ NoOwner /\ [Next]_vars => SourceInv' /\ OwnerInv' /\ NoOwner'
  BY SourceStep, OwnerStep, NoOwnerStep
<1>3. Init => NoOwner
  BY DEF Init, NoOwner
<1> QED BY <1>1, <1>2, <1>3, SourceInit, OwnerInit, PTL DEF Spec, ReleaseIsExact

-----------------------------------------------------------------------------
(* No work is lost.  A command replaces source in the checkout only when a     *)
(* commit that a ref keeps has it: that is what its plan relies on at every    *)
(* step, and what the commands before it have seen to.                         *)

\* Every commit comes after its parent, and what refers to a commit refers to one there is.
Ordered(s) == \A k \in 1..Len(s) : s[k].par \in 0..(k - 1)
History(g) ==
  /\ Repository(g) /\ g.kept \subseteq 1..Len(g.commits) /\ g.rebase.onto \in 0..Len(g.commits)
  /\ Ordered(g.commits)

\* A branch that was created stays, the checked out one is created, and no branch is
\* created before its parent's.
Created(g) == g.tip[g.branch] # None /\ \A c \in Cards : g.tip[c] # None => g.tip[c - 1] # None

\* A correction task keeps the commit it replays, and the base it replays it from.
TaskKept ==
  \A c \in Cards : Corrects(c) =>
    /\ git.tip[c] # None /\ facts[c].corr.onto # None
    /\ facts[c].corr.orig \in git.kept /\ IsAncestor(git, facts[c].corr.base, facts[c].corr.orig)

\* What a command that would replace source relies on: the work in the checkout is in a
\* commit that a ref keeps, and the branch that is replayed is retained first.
Replays == {<<"rebase", "publish">>, <<"abort", "publishTask">>, <<"publishTask">>}
Replaying == {<<"switch", "retain", "rebase", "publish">>, <<"retain", "rebase", "publish">>} \cup Replays
Ready(c, s) ==
  /\ Head(s) = "create" => git.tip[c] = None /\ git.tip[c - 1] # None /\ git.tip[c - 1] = ParentTip(c)
  /\ Head(s) = "switch" => git.tip[c] # None
  /\ Head(s) \in {"leave", "retain", "rebase"} => git.branch = c
  /\ Head(s) = "squash" => git.branch = c - 1
  /\ Head(s) = "rebase" => git.tip[c - 1] = ParentTip(c) /\ git.tip[c] \in git.kept
  /\ Head(s) \in {"retain", "rebase"} => Resting
  /\ Head(s) \in {"restore", "squash"} => ~Dirty(git)
  /\ Head(s) \in {"capture", "publishSnapshot"} => Corrects(c)
  /\ Head(s) = "abort" => git.rebase.start = git.tip[git.branch] /\ \E o \in Reachable(git) : git.tree = Tree(git, o)
  /\ s \in Replaying => IsAncestor(git, ReplayBase(c), git.tip[c])
  /\ s \in Replays => git.tip[c] \in git.kept

HoldInv ==
  /\ History(git) /\ Created(git) /\ TaskKept /\ made \subseteq Edits /\ NoWorkLost
  /\ \A t \in tasks : Ready(t.card, t.todo)
  /\ mode = "down" => tasks = {}
  /\ git.tip[0] # None

-----------------------------------------------------------------------------
(* Ancestors *)

\* A set of numbers that is not empty has a least element.
LEMMA LeastNumber == ASSUME NEW T \in SUBSET Nat, T # {} PROVE \E m \in T : \A k \in T : m <= k
<1>1. PICK R : R = OpToRel(<, Nat)
  OBVIOUS
<1>2. IsWellFoundedOn(R, Nat)
  BY <1>1, NatLessThanWellFounded
<1>3. PICK m \in T : \A k \in T : ~(<<k, m>> \in R)
  BY <1>2, WFMin
<1>4. \A k \in Nat : k < m => <<k, m>> \in R
  BY <1>1 DEF OpToRel
<1>5. ASSUME NEW k \in T PROVE m <= k
  <2>1. k \in Nat /\ m \in Nat
    OBVIOUS
  <2>2. ~(k < m)
    BY <1>3, <1>4, <2>1
  <2> QED BY <2>1, <2>2
<1> QED BY <1>5

\* The commits that every set with k in it has, when the set has the parents of its commits.
ClosedUnder(S, p) == \A j \in S : p[j] # None => p[j] \in S
Line(n, p, k) == {j \in 1..n : \A S \in SUBSET (1..n) : ClosedUnder(S, p) /\ (k # None => k \in S) => j \in S}

\* They are the commit and those of its parent.
LEMMA LineStep ==
  ASSUME NEW n \in Nat, NEW p, \A j \in 1..n : p[j] \in 0..n, NEW k \in 1..n
  PROVE  Line(n, p, k) = {k} \cup Line(n, p, p[k])
<1>1. ASSUME NEW j \in Line(n, p, p[k]) PROVE j \in Line(n, p, k)
  <2>1. ASSUME NEW S \in SUBSET (1..n), ClosedUnder(S, p), k \in S PROVE j \in S
    <3>1. p[k] # None => p[k] \in S
      BY <2>1 DEF ClosedUnder
    <3> QED BY <1>1, <2>1, <3>1 DEF Line
  <2>2. k # None /\ j \in 1..n
    BY <1>1 DEF None, Line
  <2> QED BY <2>1, <2>2 DEF Line
<1>2. k \in Line(n, p, k)
  BY DEF Line, None
<1>3. ASSUME NEW j \in Line(n, p, k), j # k PROVE j \in Line(n, p, p[k])
  <2>1. ASSUME NEW S \in SUBSET (1..n), ClosedUnder(S, p), p[k] # None => p[k] \in S PROVE j \in S
    <3>1. PICK U : U = S \cup {k}
      OBVIOUS
    <3>2. U \in SUBSET (1..n) /\ k \in U /\ ClosedUnder(U, p)
      BY <2>1, <3>1 DEF ClosedUnder
    <3>3. j \in U
      BY <1>3, <3>2 DEF Line
    <3> QED BY <1>3, <3>1, <3>3
  <2>2. j \in 1..n
    BY <1>3 DEF Line
  <2> QED BY <2>1, <2>2 DEF Line
<1> QED BY <1>1, <1>2, <1>3

\* Nothing is above the first commit's parent.
LEMMA LineOfNone == ASSUME NEW n \in Nat, NEW p PROVE Line(n, p, None) = {}
<1>1. {} \in SUBSET (1..n) /\ ClosedUnder({}, p)
  BY DEF ClosedUnder
<1> QED BY <1>1 DEF Line

\* The ancestors of a commit are itself and those of its parent.
LEMMA AncestorsForm ==
  ASSUME NEW g, History(g)
  PROVE  /\ Ancestors(g, None) = {}
         /\ \A o \in 1..Len(g.commits) : Ancestors(g, o) = {o} \cup Ancestors(g, g.commits[o].par)
<1>1. PICK n \in Nat : n = Len(g.commits)
  BY DEF History, Repository
<1>2. PICK p : p = [k \in 1..n |-> g.commits[k].par]
  OBVIOUS
<1>3. \A j \in 1..n : p[j] \in 0..n /\ p[j] = g.commits[j].par
  <2>1. ASSUME NEW j \in 1..n PROVE p[j] \in 0..n /\ p[j] = g.commits[j].par
    <3>1. p[j] = g.commits[j].par /\ p[j] \in 0..(j - 1)
      BY <1>1, <1>2 DEF History, Ordered
    <3> QED BY <1>1, <3>1
  <2> QED BY <2>1
<1> DEFINE Step(f) == [k \in 0..n |-> IF k = None THEN {} ELSE {k} \cup f[g.commits[k].par]]
           a == CHOOSE f : f = Step(f)
<1>4. \A o : Ancestors(g, o) = a[o]
  BY <1>1 DEF Ancestors
<1>5. PICK l : l = [k \in 0..n |-> Line(n, p, k)]
  OBVIOUS
<1>6. l = Step(l)
  <2>1. ASSUME NEW k \in 0..n PROVE l[k] = Step(l)[k]
    <3>1. CASE k = None
      BY <1>1, <1>5, <3>1, LineOfNone
    <3>2. CASE k # None
      <4>1. k \in 1..n
        BY <1>1, <3>2 DEF None
      <4>2. Line(n, p, k) = {k} \cup Line(n, p, p[k])
        <5>1. \A j \in 1..n : p[j] \in 0..n
          BY <1>3
        <5> QED BY <4>1, <5>1, LineStep
      <4>3. l[g.commits[k].par] = Line(n, p, p[k])
        BY <1>3, <1>5, <4>1
      <4> QED BY <1>5, <3>2, <4>2, <4>3
    <3> QED BY <3>1, <3>2
  <2>2. l = [k \in 0..n |-> l[k]] /\ Step(l) = [k \in 0..n |-> Step(l)[k]]
    BY <1>5
  <2> HIDE DEF Step
  <2> QED BY <2>1, <2>2
<1>7. a = Step(a)
  <2> HIDE DEF Step
  <2> QED BY <1>6
<1>8. None \in 0..n /\ \A o \in 1..n : o \in 0..n /\ o # None
  BY <1>1 DEF None
<1> HIDE DEF a
<1>9. a[None] = {} /\ \A o \in 1..n : a[o] = {o} \cup a[g.commits[o].par]
  BY <1>7, <1>8
<1> QED BY <1>1, <1>4, <1>9

\* They are commits there are, no later than it.
LEMMA AncestorsThere ==
  ASSUME NEW g, History(g), NEW o \in 0..Len(g.commits)
  PROVE  Ancestors(g, o) \subseteq 1..o
<1>1. PICK n \in Nat : n = Len(g.commits)
  BY DEF History, Repository
<1> DEFINE T == {k \in 0..n : ~(Ancestors(g, k) \subseteq 1..k)}
<1> SUFFICES ASSUME T # {} PROVE FALSE
  BY <1>1
<1>2. PICK m \in T : \A k \in T : m <= k
  <2>1. T \in SUBSET Nat
    BY <1>1
  <2> HIDE DEF T
  <2> QED BY <2>1, LeastNumber
<1>3. m \in 0..n /\ ~(Ancestors(g, m) \subseteq 1..m)
  BY <1>2
<1>4. m # None /\ m \in 1..n
  <2>1. m # None
    BY <1>3, AncestorsForm
  <2> QED BY <1>1, <1>3, <2>1 DEF None
<1>5. PICK q : q = g.commits[m].par
  OBVIOUS
<1>6. q \in 0..n /\ q < m
  <2>1. q \in 0..(m - 1)
    BY <1>1, <1>4, <1>5 DEF History, Ordered
  <2> QED BY <1>1, <1>4, <2>1
<1>7. Ancestors(g, q) \subseteq 1..q
  <2>1. q \notin T
    <3>1. ~(m <= q)
      BY <1>1, <1>4, <1>6
    <3> HIDE DEF T
    <3> QED BY <1>2, <3>1
  <2> QED BY <1>6, <2>1
<1>8. Ancestors(g, m) = {m} \cup Ancestors(g, q)
  BY <1>1, <1>4, <1>5, AncestorsForm
<1>9. {m} \cup 1..q \subseteq 1..m
  BY <1>1, <1>4, <1>6
<1> QED BY <1>3, <1>7, <1>8, <1>9

\* A repository that grows keeps the ancestors of its commits.
LEMMA AncestorsStay ==
  ASSUME NEW g, NEW h, History(g), History(h), Grows(g, h), NEW o \in 0..Len(g.commits)
  PROVE  Ancestors(h, o) = Ancestors(g, o)
<1>1. PICK n \in Nat : n = Len(g.commits)
  BY DEF History, Repository
<1> DEFINE T == {k \in 0..n : Ancestors(h, k) # Ancestors(g, k)}
<1> SUFFICES ASSUME T # {} PROVE FALSE
  BY <1>1
<1>2. PICK m \in T : \A k \in T : m <= k
  <2>1. T \in SUBSET Nat
    BY <1>1
  <2> HIDE DEF T
  <2> QED BY <2>1, LeastNumber
<1>3. m \in 0..n /\ Ancestors(h, m) # Ancestors(g, m)
  BY <1>2
<1>4. m # None /\ m \in 1..n
  <2>1. m # None
    BY <1>3, AncestorsForm
  <2> QED BY <1>1, <1>3, <2>1 DEF None
<1>5. PICK q : q = g.commits[m].par
  OBVIOUS
<1>6. q \in 0..n /\ q < m
  <2>1. q \in 0..(m - 1)
    BY <1>1, <1>4, <1>5 DEF History, Ordered
  <2> QED BY <1>1, <1>4, <2>1
<1>7. Ancestors(h, q) = Ancestors(g, q)
  <2>1. q \notin T
    <3>1. ~(m <= q)
      BY <1>1, <1>4, <1>6
    <3> HIDE DEF T
    <3> QED BY <1>2, <3>1
  <2> QED BY <1>6, <2>1
<1>8. m \in 1..Len(h.commits) /\ h.commits[m].par = q
  <2>1. Len(h.commits) \in Nat /\ n <= Len(h.commits) /\ h.commits[m] = g.commits[m]
    BY <1>1, <1>4 DEF Grows, History, Repository
  <2> QED BY <1>1, <1>4, <1>5, <2>1
<1>9. Ancestors(g, m) = {m} \cup Ancestors(g, q) /\ Ancestors(h, m) = {m} \cup Ancestors(h, q)
  BY <1>1, <1>4, <1>5, <1>8, AncestorsForm
<1> QED BY <1>3, <1>7, <1>9

\* An ancestor's ancestors are ancestors.
LEMMA AncestorsTwice ==
  ASSUME NEW g, History(g), NEW o \in 0..Len(g.commits), NEW a \in Ancestors(g, o)
  PROVE  Ancestors(g, a) \subseteq Ancestors(g, o)
<1>1. PICK n \in Nat : n = Len(g.commits)
  BY DEF History, Repository
<1> DEFINE T == {k \in 0..n : a \in Ancestors(g, k) /\ ~(Ancestors(g, a) \subseteq Ancestors(g, k))}
<1> SUFFICES ASSUME T # {} PROVE FALSE
  BY <1>1
<1>2. PICK m \in T : \A k \in T : m <= k
  <2>1. T \in SUBSET Nat
    BY <1>1
  <2> HIDE DEF T
  <2> QED BY <2>1, LeastNumber
<1>3. m \in 0..n /\ a \in Ancestors(g, m) /\ ~(Ancestors(g, a) \subseteq Ancestors(g, m))
  BY <1>2
<1>4. m # None /\ m \in 1..n
  <2>1. m # None
    BY <1>3, AncestorsForm
  <2> QED BY <1>1, <1>3, <2>1 DEF None
<1>5. PICK q : q = g.commits[m].par
  OBVIOUS
<1>6. q \in 0..n /\ q < m
  <2>1. q \in 0..(m - 1)
    BY <1>1, <1>4, <1>5 DEF History, Ordered
  <2> QED BY <1>1, <1>4, <2>1
<1>7. Ancestors(g, m) = {m} \cup Ancestors(g, q)
  BY <1>1, <1>4, <1>5, AncestorsForm
<1>8. a # m
  BY <1>3
<1>9. a \in Ancestors(g, q)
  BY <1>3, <1>7, <1>8
<1>10. Ancestors(g, a) \subseteq Ancestors(g, q)
  <2>1. q \notin T
    <3>1. ~(m <= q)
      BY <1>1, <1>4, <1>6
    <3> HIDE DEF T
    <3> QED BY <1>2, <3>1
  <2> QED BY <1>6, <1>9, <2>1
<1> QED BY <1>3, <1>7, <1>10

-----------------------------------------------------------------------------
(* What the refs of a repository keep *)

Roots(g) == g.kept \cup {g.tip[b] : b \in 0..N}

\* Roots refer to commits there are, or to none.
LEMMA RootsThere == ASSUME NEW g, History(g) PROVE Roots(g) \subseteq 0..Len(g.commits)
<1>1. g.tip \in [0..N -> 0..Len(g.commits)] /\ g.kept \subseteq 1..Len(g.commits) /\ Len(g.commits) \in Nat
  BY DEF History, Repository
<1>2. g.kept \subseteq 0..Len(g.commits)
  BY <1>1
<1>3. \A b \in 0..N : g.tip[b] \in 0..Len(g.commits)
  BY <1>1
<1> QED BY <1>2, <1>3 DEF Roots

\* What is reachable is an ancestor of a root.
LEMMA ReachableForm ==
  ASSUME NEW g
  PROVE  \A o : o \in Reachable(g) <=> \E r \in Roots(g) : o \in Ancestors(g, r)
BY DEF Reachable, Roots

\* A root is reachable, and the ancestors of what is reachable are.
LEMMA ReachableRoots ==
  ASSUME NEW g, History(g)
  PROVE  /\ \A r \in Roots(g) : r # None => r \in Reachable(g)
         /\ \A o \in Reachable(g) : o \in 1..Len(g.commits) /\ Ancestors(g, o) \subseteq Reachable(g)
<1>1. Len(g.commits) \in Nat
  BY DEF History, Repository
<1>2. ASSUME NEW r \in Roots(g), r # None PROVE r \in Reachable(g)
  <2>1. r \in 1..Len(g.commits)
    BY <1>1, <1>2, RootsThere DEF None
  <2>2. r \in Ancestors(g, r)
    BY <2>1, AncestorsForm
  <2> QED BY <2>2, ReachableForm
<1>3. ASSUME NEW o \in Reachable(g) PROVE o \in 1..Len(g.commits) /\ Ancestors(g, o) \subseteq Reachable(g)
  <2>1. PICK r \in Roots(g) : o \in Ancestors(g, r)
    BY ReachableForm
  <2>2. r \in 0..Len(g.commits)
    BY RootsThere
  <2>3. o \in 1..Len(g.commits)
    <3>1. Ancestors(g, r) \subseteq 1..r
      BY <2>2, AncestorsThere
    <3> QED BY <1>1, <2>1, <2>2, <3>1
  <2>4. Ancestors(g, o) \subseteq Ancestors(g, r)
    BY <2>1, <2>2, AncestorsTwice
  <2> QED BY <2>3, <2>4, ReachableForm
<1> QED BY <1>2, <1>3

\* What is held is in the checkout or in a commit that is reachable.
LEMMA HeldForm ==
  ASSUME NEW g
  PROVE  \A e : e \in Held(g) <=> (e \in g.tree \/ \E o \in Reachable(g) : e \in Tree(g, o))
BY DEF Held

\* A command that keeps the roots reachable keeps all that was.
LEMMA ReachableGrows ==
  ASSUME NEW g, NEW h, History(g), History(h), Grows(g, h), \A r \in Roots(g) : r # None => r \in Reachable(h)
  PROVE  \A o \in Reachable(g) : o \in Reachable(h) /\ Tree(h, o) = Tree(g, o)
<1> SUFFICES ASSUME NEW o \in Reachable(g) PROVE o \in Reachable(h) /\ Tree(h, o) = Tree(g, o)
  OBVIOUS
<1>1. PICK r \in Roots(g) : o \in Ancestors(g, r)
  BY ReachableForm
<1>2. r \in 0..Len(g.commits) /\ r # None
  BY <1>1, RootsThere, AncestorsForm
<1>3. o \in Ancestors(h, r)
  BY <1>1, <1>2, AncestorsStay
<1>4. o \in Reachable(h)
  BY <1>2, <1>3, ReachableRoots
<1>5. o \in 1..Len(g.commits)
  BY ReachableRoots
<1> QED BY <1>4, <1>5 DEF Grows, Tree

\* Then no work is lost that was not only in the checkout.
LEMMA HeldGrows ==
  ASSUME NEW g, NEW h, History(g), History(h), Grows(g, h), \A r \in Roots(g) : r # None => r \in Reachable(h),
         g.tree \subseteq Held(h)
  PROVE  Held(g) \subseteq Held(h)
<1>1. \A o \in Reachable(g) : o \in Reachable(h) /\ Tree(h, o) = Tree(g, o)
  BY ReachableGrows
<1> QED BY <1>1, HeldForm

\* The usual case: refs are added, or the branch moves on to a commit after its tip.
LEMMA HeldOnward ==
  ASSUME NEW g, NEW h, History(g), History(h), Grows(g, h), g.kept \subseteq h.kept, NEW b \in 0..N,
         g.tip[b] = None \/ g.tip[b] \in Ancestors(h, h.tip[b]) \/ g.tip[b] \in g.kept,
         \A x \in 0..N : x # b => h.tip[x] = g.tip[x],
         \/ g.tree \subseteq h.tree
         \/ \E o \in Reachable(g) : g.tree = Tree(g, o)
         \/ h.tip[b] # None /\ g.tree \subseteq Tree(h, h.tip[b])
  PROVE  Held(g) \subseteq Held(h)
<1>1. \A r \in Roots(h) : r # None => r \in Reachable(h)
  BY ReachableRoots
<1>2. ASSUME NEW r \in Roots(g), r # None PROVE r \in Reachable(h)
  <2>1. CASE r \in g.kept
    BY <1>1, <1>2, <2>1 DEF Roots
  <2>2. CASE r = g.tip[b]
    <3>1. CASE r \in Ancestors(h, h.tip[b])
      <4>1. h.tip[b] \in Roots(h)
        BY DEF Roots
      <4> QED BY <3>1, <4>1, ReachableForm
    <3> QED BY <1>2, <2>1, <2>2, <3>1
  <2>3. ASSUME NEW x \in 0..N, x # b, r = g.tip[x] PROVE r \in Reachable(h)
    <3>1. r \in Roots(h)
      BY <2>3 DEF Roots
    <3> QED BY <1>1, <1>2, <3>1
  <2> QED BY <2>1, <2>2, <2>3 DEF Roots
<1>3. g.tree \subseteq Held(h)
  <2>1. CASE g.tree \subseteq h.tree
    BY <2>1, HeldForm
  <2>2. ASSUME NEW o \in Reachable(g), g.tree = Tree(g, o) PROVE g.tree \subseteq Held(h)
    <3>1. o \in Reachable(h) /\ Tree(h, o) = Tree(g, o)
      BY <1>2, ReachableGrows
    <3> QED BY <2>2, <3>1, HeldForm
  <2>3. CASE h.tip[b] # None /\ g.tree \subseteq Tree(h, h.tip[b])
    <3>1. h.tip[b] \in Reachable(h)
      BY <1>1, <2>3 DEF Roots
    <3> QED BY <2>3, <3>1, HeldForm
  <2> QED BY <2>1, <2>2, <2>3
<1> QED BY <1>2, <1>3, HeldGrows

-----------------------------------------------------------------------------
(* What each command keeps *)

\* A command moves one branch that was created, to a commit there is, and drops no ref.
Sound(g, h) ==
  /\ History(h) /\ Created(h) /\ Grows(g, h) /\ g.kept \subseteq h.kept
  /\ \A b \in 0..N : g.tip[b] # None => h.tip[b] # None

\* The commits after a new one
LEMMA OrderedOn ==
  ASSUME NEW g, History(g), NEW p \in 0..Len(g.commits), NEW w, NEW h, h = WithCommit(g, p, w)
  PROVE  /\ History(h) /\ Grows(g, h) /\ Len(h.commits) = Len(g.commits) + 1 /\ Newest(h) = Len(g.commits) + 1
         /\ h.commits[Newest(h)] = Commit(p, w)
         /\ DOMAIN h = DOMAIN g /\ h.tip = g.tip /\ h.branch = g.branch /\ h.kept = g.kept /\ h.rebase = g.rebase /\ h.tree = g.tree
<1>1. Repository(g) /\ Len(g.commits) \in Nat /\ IsSeq(g.commits) /\ 0 \in 0..N
  BY GitSourceAssumption DEF History, Repository
<1>2. /\ Repository(h) /\ Grows(g, h) /\ h.commits = Append(g.commits, Commit(p, w)) /\ h.commits[Newest(h)] = Commit(p, w)
  BY SMTT(60), <1>1, Committed
<1>3. Len(h.commits) = Len(g.commits) + 1 /\ Newest(h) = Len(g.commits) + 1
  BY <1>1, <1>2, Appended DEF Newest
<1>4. DOMAIN h = DOMAIN g /\ h.tip = g.tip /\ h.branch = g.branch /\ h.kept = g.kept /\ h.rebase = g.rebase /\ h.tree = g.tree
  BY <1>1 DEF WithCommit, Repository, Fields
<1>5. Ordered(h.commits)
  <2> SUFFICES ASSUME NEW k \in 1..Len(h.commits) PROVE h.commits[k].par \in 0..(k - 1)
    BY DEF Ordered
  <2>1. CASE k \in 1..Len(g.commits)
    <3>1. h.commits[k] = g.commits[k] /\ g.commits[k].par \in 0..(k - 1)
      BY <1>2, <2>1 DEF Grows, History, Ordered
    <3> QED BY <3>1
  <2>2. CASE k = Newest(h)
    <3>1. h.commits[k].par = p /\ k - 1 = Len(g.commits)
      BY <1>1, <1>2, <1>3, <2>2 DEF Commit
    <3> QED BY <3>1
  <2> QED BY <1>1, <1>3, <2>1, <2>2
<1>6. h.kept \subseteq 1..Len(h.commits) /\ h.rebase.onto \in 0..Len(h.commits)
  BY <1>1, <1>3, <1>4 DEF History
<1> QED BY <1>2, <1>3, <1>4, <1>5, <1>6 DEF History

\* A command that makes no commit
Retouched(g, h) ==
  /\ DOMAIN h = DOMAIN g /\ h.commits = g.commits /\ h.branch \in 0..N
  /\ g.kept \subseteq h.kept /\ h.kept \subseteq 1..Len(g.commits) /\ h.rebase.onto \in 0..Len(g.commits)

\* A command that makes no commit and moves at most one branch, to a commit that exists, leaves a history.
LEMMA SoundPlain ==
  ASSUME NEW g, History(g), Created(g), NEW h, Retouched(g, h),
         NEW b \in 0..N, NEW n \in 1..Len(g.commits), h.tip = g.tip \/ h.tip = [g.tip EXCEPT ![b] = n],
         g.tip[b] # None \/ (b \in Cards /\ g.tip[b - 1] # None),
         g.tip[h.branch] # None \/ (h.branch = b /\ h.tip[b] # None)
  PROVE  Sound(g, h)
<1> USE DEF Retouched
<1>1. Repository(g) /\ Len(g.commits) \in Nat /\ n \in 0..Len(g.commits) /\ n # None
  BY DEF History, Repository, None
<1>2. Repository(h) /\ Grows(g, h)
  <2>1. h.tip = g.tip \/ \E y \in 0..N, m \in 0..Len(g.commits) : h.tip = [g.tip EXCEPT ![y] = m]
    BY <1>1
  <2> QED BY <1>1, <2>1, Rearranged
<1>3. History(h)
  BY <1>2 DEF History
<1>4. g.tip \in [0..N -> 0..Len(g.commits)]
  BY <1>1 DEF Repository
<1>5. \A x \in 0..N : (g.tip[x] # None => h.tip[x] # None) /\ (x # b => h.tip[x] = g.tip[x])
  BY <1>1, <1>4
<1>6. h.tip[h.branch] # None
  BY <1>5
<1>7. ASSUME NEW c \in Cards, h.tip[c] # None PROVE h.tip[c - 1] # None
  <2>1. c \in 0..N /\ c - 1 \in 0..N
    BY CardNumbers
  <2>2. g.tip[c - 1] # None
    BY <1>5, <1>7, <2>1 DEF Created
  <2> QED BY <1>5, <2>1, <2>2
<1> QED BY <1>2, <1>3, <1>5, <1>6, <1>7 DEF Sound, Created

\* Two commands
LEMMA SoundTwice ==
  ASSUME NEW f, NEW g, NEW h, Repository(f), Repository(g), Grows(f, g), f.kept \subseteq g.kept,
         \A b \in 0..N : f.tip[b] # None => g.tip[b] # None, Sound(g, h)
  PROVE  Sound(f, h)
<1>1. Repository(h)
  BY DEF Sound, History
<1>2. Grows(f, h)
  BY <1>1, GrowsTwice DEF Sound
<1> QED BY <1>2 DEF Sound

\* A new commit that no branch is at yet
LEMMA SoundCommit ==
  ASSUME NEW g, History(g), Created(g), NEW p \in 0..Len(g.commits), NEW w, NEW h, h = WithCommit(g, p, w)
  PROVE  Sound(g, h)
<1>1. History(h) /\ Grows(g, h) /\ h.tip = g.tip /\ h.branch = g.branch /\ h.kept = g.kept
  BY OrderedOn
<1> QED BY <1>1 DEF Sound, Created

\* A new commit that becomes the tip of a branch
Tipped(f, h, b) ==
  /\ DOMAIN f = DOMAIN h /\ f.commits = h.commits /\ f.branch = h.branch /\ f.kept = h.kept
  /\ f.rebase.onto \in 0..Len(h.commits) /\ f.tip = [h.tip EXCEPT ![b] = Newest(h)]
Tips(g, f, b, p, w) ==
  /\ Sound(g, f) /\ f.tip[b] # None /\ Tree(f, f.tip[b]) = w /\ Ancestors(f, f.tip[b]) = {f.tip[b]} \cup Ancestors(f, p)
  /\ \A x \in 0..N : x # b => f.tip[x] = g.tip[x]

\* A command that moves a branch to one new commit leaves a history, and the branch has that commit on top.
LEMMA SoundTip ==
  ASSUME NEW g, History(g), Created(g), NEW p \in 0..Len(g.commits), NEW w, NEW b \in 0..N, NEW h, h = WithCommit(g, p, w),
         NEW f, Tipped(f, h, b), g.tip[b] # None
  PROVE  Tips(g, f, b, p, w)
<1> USE DEF Tipped
<1>1. /\ History(h) /\ Grows(g, h) /\ Len(h.commits) = Len(g.commits) + 1 /\ Newest(h) = Len(g.commits) + 1
      /\ h.commits[Newest(h)] = Commit(p, w)
      /\ DOMAIN h = DOMAIN g /\ h.tip = g.tip /\ h.branch = g.branch /\ h.kept = g.kept /\ h.rebase = g.rebase /\ h.tree = g.tree
  BY OrderedOn
<1>2. /\ Repository(g) /\ Repository(h) /\ Len(g.commits) \in Nat /\ g.branch \in 0..N
      /\ g.tip \in [0..N -> 0..Len(g.commits)] /\ Created(h)
  BY <1>1 DEF History, Repository, Created
<1>3. Newest(h) \in 1..Len(h.commits) /\ Newest(h) # None
  BY <1>1, <1>2 DEF None
<1>4. f.tip[b] = Newest(h) /\ \A x \in 0..N : x # b => f.tip[x] = g.tip[x]
  BY <1>1, <1>2
<1>5. Sound(h, f)
  <2>1. h.kept \subseteq 1..Len(h.commits) /\ h.tip[h.branch] # None /\ h.tip[b] # None /\ f.branch \in 0..N
    BY <1>1, <1>2 DEF History, Created
  <2>2. Retouched(h, f)
    BY <2>1 DEF Retouched
  <2> HIDE DEF Tipped
  <2>3. f.tip = [h.tip EXCEPT ![b] = Newest(h)] /\ h.tip[f.branch] # None
    BY <2>1 DEF Tipped
  <2> QED BY SMTT(60), <1>1, <1>2, <1>3, <2>1, <2>2, <2>3, SoundPlain
<1>6. Sound(g, f)
  BY <1>1, <1>2, <1>5, SoundTwice
<1>7. f.commits[f.tip[b]] = Commit(p, w) /\ f.tip[b] \in 1..Len(f.commits)
  BY <1>1, <1>3, <1>4
<1>8. Tree(f, f.tip[b]) = w /\ f.commits[f.tip[b]].par = p
  BY <1>7 DEF Tree, Commit
<1>9. Ancestors(f, f.tip[b]) = {f.tip[b]} \cup Ancestors(f, p)
  BY <1>6, <1>7, <1>8, AncestorsForm DEF Sound
<1> QED BY <1>3, <1>4, <1>6, <1>8, <1>9 DEF Tips

\* What a repository has
LEMMA HistoryHas ==
  ASSUME NEW g, History(g), Created(g)
  PROVE  /\ Repository(g) /\ Len(g.commits) \in Nat /\ g.branch \in 0..N /\ g.tip[g.branch] # None
         /\ g.kept \subseteq 1..Len(g.commits) /\ g.rebase.onto \in 0..Len(g.commits) /\ NoRebase.onto \in 0..Len(g.commits)
         /\ \A b \in 0..N : g.tip[b] \in 0..Len(g.commits)
                            /\ (g.tip[b] # None => (g.tip[b] \in 1..Len(g.commits) /\ g.tip[b] \in Reachable(g)))
         /\ g.tip[g.branch] \in Reachable(g)
<1>1. /\ Repository(g) /\ Len(g.commits) \in Nat /\ g.branch \in 0..N /\ g.tip[g.branch] # None
      /\ g.kept \subseteq 1..Len(g.commits) /\ g.rebase.onto \in 0..Len(g.commits)
  BY DEF History, Repository, Created
<1>2. NoRebase.onto \in 0..Len(g.commits)
  BY <1>1 DEF NoRebase, None
<1>3. ASSUME NEW b \in 0..N
      PROVE  g.tip[b] \in 0..Len(g.commits) /\ (g.tip[b] # None => (g.tip[b] \in 1..Len(g.commits) /\ g.tip[b] \in Reachable(g)))
  <2>1. g.tip[b] \in 0..Len(g.commits)
    BY <1>1 DEF Repository
  <2>2. g.tip[b] \in Roots(g)
    BY DEF Roots
  <2> QED BY <1>1, <2>1, <2>2, ReachableRoots DEF None
<1> QED BY <1>1, <1>2, <1>3

\* add --all and commit,
LEMMA CommitHolds ==
  ASSUME NEW g, History(g), Created(g), NEW h, h = CommitAll(g)
  PROVE  Sound(g, h) /\ Held(g) \subseteq Held(h)
<1>1. /\ Repository(g) /\ Len(g.commits) \in Nat /\ g.branch \in 0..N /\ g.tip[g.branch] # None
      /\ g.tip[g.branch] \in 1..Len(g.commits) /\ g.tip[g.branch] \in 0..Len(g.commits)
  BY HistoryHas
<1>2. CASE ~Dirty(g)
  <2>1. h = g
    BY <1>2 DEF CommitAll
  <2> QED BY <2>1, <1>1 DEF Sound, Grows
<1>3. CASE Dirty(g)
  <2>1. PICK b \in 0..N : b = g.branch
    BY <1>1
  <2>2. PICK k : k = WithCommit(g, g.tip[b], g.tree)
    OBVIOUS
  <2>3. h = [k EXCEPT !.tip[b] = Newest(k)]
    BY <1>3, <2>1, <2>2 DEF CommitAll
  <2>4. History(k) /\ k.tip = g.tip /\ k.branch = g.branch /\ k.kept = g.kept /\ k.tree = g.tree
    BY <1>1, <2>1, <2>2, OrderedOn
  <2>5. /\ DOMAIN h = DOMAIN k /\ h.branch = k.branch /\ h.tip = [k.tip EXCEPT ![b] = Newest(k)] /\ h.rebase = k.rebase
        /\ h.commits = k.commits /\ h.tree = k.tree /\ h.kept = k.kept
    BY <2>3, <2>4 DEF History, Repository, Fields
  <2>6. h.rebase.onto \in 0..Len(k.commits)
    BY <2>4, <2>5 DEF History
  <2>7. /\ Sound(g, h) /\ Ancestors(h, h.tip[b]) = {h.tip[b]} \cup Ancestors(h, g.tip[b])
        /\ \A x \in 0..N : x # b => h.tip[x] = g.tip[x]
    <3>1. PICK p \in 0..Len(g.commits) : p = g.tip[b] /\ p # None
      BY <1>1, <2>1
    <3>2. k = WithCommit(g, p, g.tree)
      BY <2>2, <3>1
    <3>3. Tipped(h, k, b)
      BY <2>5, <2>6 DEF Tipped
    <3>4. Tips(g, h, b, p, g.tree)
      BY <3>1, <3>2, <3>3, SoundTip
    <3> QED BY <3>1, <3>4 DEF Tips
  <2>8. g.tip[b] \in Ancestors(h, h.tip[b])
    <3>1. Len(g.commits) <= Len(h.commits) /\ History(h) /\ Len(h.commits) \in Nat
      BY <2>7 DEF Sound, Grows, History, Repository
    <3>2. g.tip[b] \in 1..Len(h.commits)
      BY <1>1, <2>1, <3>1
    <3> QED BY <2>7, <3>1, <3>2, AncestorsForm
  <2>9. History(h) /\ Grows(g, h) /\ g.kept \subseteq h.kept /\ g.tree \subseteq h.tree
    BY <2>4, <2>5, <2>7 DEF Sound
  <2>10. Held(g) \subseteq Held(h)
    BY <2>7, <2>8, <2>9, HeldOnward
  <2> QED BY <2>7, <2>10
<1> QED BY <1>2, <1>3

\* a command that makes no commit and moves no branch, when it keeps the work of the
\* checkout or a ref has it,
LEMMA PlainHolds ==
  ASSUME NEW g, History(g), Created(g), NEW h, Retouched(g, h), h.tip = g.tip, g.tip[h.branch] # None,
         g.tree \subseteq h.tree \/ (\E o \in Reachable(g) : g.tree = Tree(g, o))
  PROVE  Sound(g, h) /\ Held(g) \subseteq Held(h)
<1>1. /\ g.branch \in 0..N /\ g.tip[g.branch] # None /\ g.tip[g.branch] \in 1..Len(g.commits)
  BY HistoryHas
<1>2. PICK b \in 0..N : b = g.branch
  BY <1>1
<1>3. PICK n \in 1..Len(g.commits) : n = g.tip[b]
  BY <1>1, <1>2
<1>4. Sound(g, h)
  <2>1. g.tip[b] # None
    BY <1>1, <1>2
  <2>2. h.tip = g.tip /\ g.tip[h.branch] # None
    OBVIOUS
  <2> QED BY <2>1, <2>2, SoundPlain
<1>5. History(h) /\ Grows(g, h)
  BY <1>4 DEF Sound
<1>6. g.tip[b] \in Ancestors(h, h.tip[b])
  <2>1. g.tip[b] \in 1..Len(h.commits)
    BY <1>1, <1>2 DEF Retouched
  <2> QED BY <1>5, <2>1, AncestorsForm
<1>7. g.kept \subseteq h.kept
  BY DEF Retouched
<1> QED BY <1>4, <1>5, <1>6, <1>7, HeldOnward

\* switch,
LEMMA SwitchHolds ==
  ASSUME NEW g, History(g), Created(g), Hooks = FALSE, NEW b \in 0..N, g.tip[b] # None, NEW h \in SwitchTo(g, b)
  PROVE  Sound(g, h) /\ Held(g) \subseteq Held(h)
<1> DEFINE old == Tree(g, g.tip[g.branch])
           y == Tree(g, g.tip[b]) \cup (g.tree \ old)
<1>1. h = [g EXCEPT !.branch = b, !.tree = y]
  BY DEF SwitchTo
<1>2. /\ Repository(g) /\ g.branch \in 0..N /\ g.tip[g.branch] # None /\ g.kept \subseteq 1..Len(g.commits)
      /\ g.rebase.onto \in 0..Len(g.commits) /\ g.tip[b] \in 1..Len(g.commits)
      /\ g.tip[g.branch] \in Reachable(g) /\ g.tip[g.branch] \in 1..Len(g.commits)
  BY HistoryHas
<1> HIDE DEF y
<1>3. /\ DOMAIN h = DOMAIN g /\ h.branch = b /\ h.tip = g.tip /\ h.rebase = g.rebase /\ h.commits = g.commits
      /\ h.tree = y /\ h.kept = g.kept
  BY <1>1, <1>2 DEF Repository, Fields
<1>4. Sound(g, h)
  <2>1. PICK n \in 1..Len(g.commits) : n = g.tip[b]
    BY <1>2
  <2>2. Retouched(g, h)
    BY <1>2, <1>3 DEF Retouched
  <2> QED BY <1>3, <2>1, <2>2, SoundPlain
<1>5. History(h) /\ Grows(g, h)
  BY <1>4 DEF Sound
<1>6. \A o \in Reachable(g) : o \in Reachable(h) /\ Tree(h, o) = Tree(g, o)
  <2>1. \A r \in Roots(g) : r \in Roots(h)
    BY <1>3 DEF Roots
  <2> QED BY <1>5, <2>1, ReachableRoots, ReachableGrows
<1>7. g.tree \subseteq Held(h)
  <2> SUFFICES ASSUME NEW e \in g.tree PROVE e \in Held(h)
    OBVIOUS
  <2>1. CASE e \in old
    BY <1>2, <1>6, <2>1, HeldForm
  <2>2. CASE e \notin old
    BY <1>3, <2>2, HeldForm DEF y
  <2> QED BY <2>1, <2>2
<1>8. Held(g) \subseteq Held(h)
  BY <1>6, <1>7, HeldForm
<1> QED BY <1>4, <1>8

\* a ref that keeps a commit, an abort, the restore of a snapshot,
LEMMA RefHolds ==
  ASSUME NEW g, History(g), Created(g), NEW o \in 1..Len(g.commits), NEW h, h = Keep(g, o)
  PROVE  Sound(g, h) /\ Held(g) \subseteq Held(h)
<1>1. /\ Repository(g) /\ g.branch \in 0..N /\ g.tip[g.branch] # None /\ g.kept \subseteq 1..Len(g.commits)
      /\ g.rebase.onto \in 0..Len(g.commits)
  BY HistoryHas
<1>2. PICK x : x = g.kept \cup {o}
  OBVIOUS
<1>3. h = [g EXCEPT !.kept = x]
  BY <1>2 DEF Keep
<1>4. /\ DOMAIN h = DOMAIN g /\ h.branch = g.branch /\ h.tip = g.tip /\ h.rebase = g.rebase /\ h.commits = g.commits
      /\ h.tree = g.tree /\ h.kept = x
  BY <1>1, <1>3 DEF Repository, Fields
<1>5. g.kept \subseteq h.kept /\ h.kept \subseteq 1..Len(g.commits)
  BY <1>1, <1>2, <1>4
<1>6. Retouched(g, h)
  BY <1>1, <1>4, <1>5 DEF Retouched
<1> QED BY <1>1, <1>4, <1>6, PlainHolds

\* the end of a rebase, when the checkout is the tree of a commit that a ref keeps,
LEMMA AbortHolds ==
  ASSUME NEW g, History(g), Created(g), \E o \in Reachable(g) : g.tree = Tree(g, o), NEW h, h = Abort(g)
  PROVE  Sound(g, h) /\ Held(g) \subseteq Held(h)
<1>1. /\ Repository(g) /\ g.branch \in 0..N /\ g.tip[g.branch] # None /\ g.kept \subseteq 1..Len(g.commits)
      /\ NoRebase.onto \in 0..Len(g.commits)
  BY HistoryHas
<1>2. PICK y : y = Tree(g, g.rebase.start)
  OBVIOUS
<1>3. h = [g EXCEPT !.rebase = NoRebase, !.tree = y]
  BY <1>2 DEF Abort
<1>4. /\ DOMAIN h = DOMAIN g /\ h.branch = g.branch /\ h.tip = g.tip /\ h.rebase = NoRebase /\ h.commits = g.commits
      /\ h.kept = g.kept
  BY <1>1, <1>3 DEF Repository, Fields
<1>5. Retouched(g, h)
  BY <1>1, <1>4 DEF Retouched
<1> QED BY <1>1, <1>4, <1>5, PlainHolds

\* the checkout of a commit, under the same condition,
LEMMA RestoreHolds ==
  ASSUME NEW g, History(g), Created(g), \E o \in Reachable(g) : g.tree = Tree(g, o), NEW s, NEW h, h = Restore(g, s)
  PROVE  Sound(g, h) /\ Held(g) \subseteq Held(h)
<1>1. /\ Repository(g) /\ g.branch \in 0..N /\ g.tip[g.branch] # None /\ g.kept \subseteq 1..Len(g.commits)
      /\ g.rebase.onto \in 0..Len(g.commits)
  BY HistoryHas
<1>2. PICK y : y = Tree(g, s)
  OBVIOUS
<1>3. h = [g EXCEPT !.tree = y]
  BY <1>2 DEF Restore
<1>4. /\ DOMAIN h = DOMAIN g /\ h.branch = g.branch /\ h.tip = g.tip /\ h.rebase = g.rebase /\ h.commits = g.commits
      /\ h.kept = g.kept
  BY <1>1, <1>3 DEF Repository, Fields
<1>5. Retouched(g, h)
  BY <1>1, <1>4 DEF Retouched
<1> QED BY <1>1, <1>4, <1>5, PlainHolds

\* more work in the checkout,
WithEdit(g, e) == [g EXCEPT !.tree = @ \cup {e}]
\* holds that work and all that was held before,
LEMMA EditHolds ==
  ASSUME NEW g, History(g), Created(g), NEW e, NEW h, h = WithEdit(g, e)
  PROVE  Sound(g, h) /\ Held(g) \subseteq Held(h) /\ e \in Held(h)
<1>1. /\ Repository(g) /\ g.branch \in 0..N /\ g.tip[g.branch] # None /\ g.kept \subseteq 1..Len(g.commits)
      /\ g.rebase.onto \in 0..Len(g.commits)
  BY HistoryHas
<1>2. PICK y : y = g.tree \cup {e}
  OBVIOUS
<1>3. h = [g EXCEPT !.tree = y]
  BY <1>2 DEF WithEdit
<1>4. /\ DOMAIN h = DOMAIN g /\ h.branch = g.branch /\ h.tip = g.tip /\ h.rebase = g.rebase /\ h.commits = g.commits
      /\ h.tree = y /\ h.kept = g.kept
  BY <1>1, <1>3 DEF Repository, Fields
<1>5. Sound(g, h) /\ Held(g) \subseteq Held(h)
  <2>1. g.tree \subseteq h.tree
    BY <1>2, <1>4
  <2>2. Retouched(g, h)
    BY <1>1, <1>4 DEF Retouched
  <2> QED BY <1>1, <1>4, <2>1, <2>2, PlainHolds
<1>6. e \in Held(h)
  BY <1>2, <1>4, HeldForm
<1> QED BY <1>5, <1>6

\* the capture of an unfinished resolution,
LEMMA CaptureHolds ==
  ASSUME NEW g, History(g), Created(g), NEW h, h = Capture(g)
  PROVE  Sound(g, h) /\ Held(g) \subseteq Held(h)
<1>1. Repository(g) /\ g.rebase.onto \in 0..Len(g.commits) /\ g.branch \in 0..N
  BY HistoryHas
<1>2. PICK k : k = WithCommit(g, g.rebase.onto, g.tree)
  OBVIOUS
<1>3. /\ History(k) /\ Newest(k) = Len(g.commits) + 1 /\ Len(k.commits) = Len(g.commits) + 1 /\ Len(g.commits) \in Nat
      /\ k.tip = g.tip /\ k.branch = g.branch /\ k.kept = g.kept /\ k.rebase = g.rebase /\ k.tree = g.tree
  BY <1>1, <1>2, OrderedOn DEF Repository
<1>4. Sound(g, k) /\ Created(k)
  BY <1>1, <1>2, SoundCommit DEF Sound
<1>5. h = Keep(k, Newest(k)) /\ Newest(k) \in 1..Len(k.commits)
  BY <1>2, <1>3 DEF Capture
<1>6. Sound(k, h) /\ Held(k) \subseteq Held(h)
  BY <1>3, <1>4, <1>5, RefHolds
<1>7. Sound(g, h)
  BY <1>1, <1>3, <1>4, <1>6, SoundTwice DEF Sound, History
<1>8. Held(g) \subseteq Held(k)
  <2>1. PICK b \in 0..N : b = g.branch
    BY <1>1
  <2>2. g.tip[b] \in Ancestors(k, k.tip[b])
    <3>1. g.tip[b] \in 1..Len(g.commits)
      BY <2>1, HistoryHas
    <3>2. g.tip[b] \in 1..Len(k.commits)
      BY <1>3, <3>1
    <3> QED BY <1>3, <3>2, AncestorsForm
  <2>3. Grows(g, k) /\ g.kept \subseteq k.kept /\ g.tree \subseteq k.tree /\ \A x \in 0..N : x # b => k.tip[x] = g.tip[x]
    BY <1>3, <1>4 DEF Sound
  <2> QED BY <1>3, <2>2, <2>3, HeldOnward
<1> QED BY <1>6, <1>7, <1>8

\* the creation of a branch,
WithBranch(g, c, o) == [g EXCEPT !.tip[c] = o]
\* from the tip of its parent, loses nothing,
LEMMA CreateHolds ==
  ASSUME NEW g, History(g), Created(g), NEW c \in Cards, g.tip[c] = None, g.tip[c - 1] # None, NEW h,
         h = WithBranch(g, c, g.tip[c - 1])
  PROVE  Sound(g, h) /\ Held(g) \subseteq Held(h) /\ h.tip[c] # None
<1>1. c \in 0..N /\ c - 1 \in 0..N
  BY CardNumbers
<1>2. /\ Repository(g) /\ g.branch \in 0..N /\ g.tip[g.branch] # None /\ g.kept \subseteq 1..Len(g.commits)
      /\ g.rebase.onto \in 0..Len(g.commits) /\ g.tip[c - 1] \in 1..Len(g.commits)
  BY <1>1, HistoryHas
<1>3. PICK n \in 1..Len(g.commits) : n = g.tip[c - 1]
  BY <1>2
<1>4. h = [g EXCEPT !.tip[c] = n]
  BY <1>3 DEF WithBranch
<1>5. /\ DOMAIN h = DOMAIN g /\ h.branch = g.branch /\ h.tip = [g.tip EXCEPT ![c] = n] /\ h.rebase = g.rebase
      /\ h.commits = g.commits /\ h.tree = g.tree /\ h.kept = g.kept
  BY <1>1, <1>2, <1>4 DEF Repository, Fields
<1>6. Sound(g, h)
  <2>1. Retouched(g, h)
    BY <1>2, <1>5 DEF Retouched
  <2>2. c \in Cards /\ g.tip[c - 1] # None /\ g.tip[h.branch] # None
    BY <1>2, <1>5
  <2> QED BY <1>1, <1>5, <2>1, <2>2, SoundPlain
<1>7. h.tip[c] = n /\ \A x \in 0..N : x # c => h.tip[x] = g.tip[x]
  BY <1>1, <1>2, <1>5 DEF Repository
<1>8. History(h) /\ Grows(g, h) /\ n # None
  BY <1>3, <1>6 DEF Sound
<1>9. Held(g) \subseteq Held(h)
  <2>1. g.kept \subseteq h.kept /\ g.tree \subseteq h.tree
    BY <1>5
  <2> QED BY <1>1, <1>7, <1>8, <2>1, HeldOnward
<1> QED BY <1>6, <1>7, <1>8, <1>9

\* the squash of a candidate into a parent that is checked out and clean.
LEMMA SquashHolds ==
  ASSUME NEW g, History(g), Created(g), NEW p \in 0..N, g.branch = p, ~Dirty(g), NEW o, NEW h, h = Squash(g, p, o)
  PROVE  Sound(g, h) /\ Held(g) \subseteq Held(h)
<1>1. /\ Repository(g) /\ Len(g.commits) \in Nat /\ g.tip[p] # None /\ g.tip[p] \in Reachable(g)
      /\ g.tip[p] \in 1..Len(g.commits) /\ g.tip[p] \in 0..Len(g.commits)
  BY HistoryHas
<1>2. CASE h = g
  BY <1>1, <1>2 DEF Sound, Grows
<1>3. CASE h # g
  <2>1. PICK w : w = Tree(g, o)
    OBVIOUS
  <2>2. PICK q \in 0..Len(g.commits) : q = g.tip[p]
    BY <1>1
  <2>3. PICK k : k = WithCommit(g, q, w)
    OBVIOUS
  <2>4. h = [k EXCEPT !.tip[p] = Newest(k), !.tree = w]
    BY <1>3, <2>1, <2>2, <2>3 DEF Squash
  <2>5. History(k) /\ k.tip = g.tip /\ k.branch = g.branch /\ k.kept = g.kept /\ k.tree = g.tree
    BY <2>3, OrderedOn
  <2>6. /\ DOMAIN h = DOMAIN k /\ h.branch = k.branch /\ h.tip = [k.tip EXCEPT ![p] = Newest(k)] /\ h.rebase = k.rebase
        /\ h.commits = k.commits /\ h.kept = k.kept
    BY <2>4, <2>5 DEF History, Repository, Fields
  <2>7. h.rebase.onto \in 0..Len(k.commits)
    BY <2>5, <2>6 DEF History
  <2>8. /\ Sound(g, h) /\ Ancestors(h, h.tip[p]) = {h.tip[p]} \cup Ancestors(h, q) /\ \A x \in 0..N : x # p => h.tip[x] = g.tip[x]
    <3>1. Tipped(h, k, p)
      BY <2>6, <2>7 DEF Tipped
    <3>2. Tips(g, h, p, q, w)
      BY <1>1, <2>3, <3>1, SoundTip
    <3> QED BY <3>2 DEF Tips
  <2>9. g.tip[p] \in Ancestors(h, h.tip[p])
    <3>1. Len(g.commits) <= Len(h.commits) /\ History(h) /\ Len(h.commits) \in Nat
      BY <2>8 DEF Sound, Grows, History, Repository
    <3>2. q \in 1..Len(h.commits)
      BY <1>1, <2>2, <3>1
    <3> QED BY <2>2, <2>8, <3>1, <3>2, AncestorsForm
  <2>10. History(h) /\ Grows(g, h) /\ g.kept \subseteq h.kept
    BY <2>8 DEF Sound
  <2>11. \E x \in Reachable(g) : g.tree = Tree(g, x)
    BY <1>1 DEF Dirty
  <2>12. Held(g) \subseteq Held(h)
    BY <2>8, <2>9, <2>10, <2>11, HeldOnward
  <2> QED BY <2>8, <2>12
<1> QED BY <1>2, <1>3

\* rebase: the branch is where it was, or on the new base with all the work of the
\* range that the old base did not have.
RangeHeld(g, h, c, base) == \A e \in (Tree(g, g.tip[c]) \ Tree(g, base)) \cup RangeWork(g, c, base) : e \in Held(h)
Rebases(g, h, c, base, onto) ==
  /\ Sound(g, h) /\ h.kept = g.kept /\ \A x \in 0..N : x # c => h.tip[x] = g.tip[x]
  /\ h = g \/ (h = Conflicted(g, c, onto) /\ h.tip = g.tip) \/ (RangeHeld(g, h, c, base) /\ h.rebase = g.rebase)

\* A rebase does nothing, stops at a conflict, or makes commits that hold the work of the range it replays.
LEMMA RebaseSound ==
  ASSUME NEW g, History(g), Created(g), NEW c \in Cards, g.branch = c, NEW base, NEW onto \in 1..Len(g.commits),
         NEW h \in Rebase(g, c, base, onto)
  PROVE  Rebases(g, h, c, base, onto)
<1> USE DEF Rebases
<1>1. /\ c \in 0..N /\ Repository(g) /\ Len(g.commits) \in Nat /\ g.tip[c] # None /\ g.tip[g.branch] # None
      /\ g.kept \subseteq 1..Len(g.commits)
      /\ g.rebase.onto \in 0..Len(g.commits) /\ onto \in 0..Len(g.commits) /\ onto # None
  BY HistoryHas, CardNumbers DEF None
<1>2. CASE h = g
  BY <1>1, <1>2 DEF Sound, Grows
<1>3. CASE h = Conflicted(g, c, onto)
  <2>1. PICK x : x = [start |-> g.tip[c], onto |-> onto]
    OBVIOUS
  <2>2. PICK y : y = Tree(g, onto)
    OBVIOUS
  <2>3. h = [g EXCEPT !.rebase = x, !.tree = y]
    BY <1>3, <2>1, <2>2 DEF Conflicted
  <2>4. x.onto = onto
    BY <2>1
  <2>5. /\ DOMAIN h = DOMAIN g /\ h.branch = g.branch /\ h.tip = g.tip /\ h.rebase = x /\ h.commits = g.commits /\ h.kept = g.kept
    BY <1>1, <2>3 DEF Repository, Fields
  <2>6. Retouched(g, h)
    BY <1>1, <2>4, <2>5 DEF Retouched
  <2>7. Sound(g, h)
    BY <1>1, <2>5, <2>6, SoundPlain
  <2> QED BY <1>3, <2>5, <2>7
<1>4. CASE h = Replayed(g, c, base, onto) /\ h # g
  <2> DEFINE w == Tree(g, onto) \cup (Tree(g, g.tip[c]) \ Tree(g, base))
             all == w \cup RangeWork(g, c, base)
             first == IF all = w THEN g ELSE WithCommit(g, onto, all)
             p == IF all = w THEN onto ELSE Newest(first)
             k == WithCommit(first, p, w)
  <2>1. \/ all = Tree(g, onto) /\ h = [g EXCEPT !.tip[c] = onto, !.tree = w]
        \/ h = [k EXCEPT !.tip[c] = Newest(k), !.tree = w]
    BY <1>4 DEF Replayed
  <2>2. (Tree(g, g.tip[c]) \ Tree(g, base)) \cup RangeWork(g, c, base) \subseteq all
    OBVIOUS
  <2>3. CASE all = Tree(g, onto) /\ h = [g EXCEPT !.tip[c] = onto, !.tree = w]
    <3> HIDE DEF all, w
    <3>1. /\ DOMAIN h = DOMAIN g /\ h.branch = g.branch /\ h.tip = [g.tip EXCEPT ![c] = onto] /\ h.rebase = g.rebase
          /\ h.commits = g.commits /\ h.kept = g.kept
      BY <1>1, <2>3 DEF Repository, Fields
    <3>2. Retouched(g, h)
      BY <1>1, <3>1 DEF Retouched
    <3>3. g.tip[h.branch] # None
      BY <1>1, <3>1
    <3>4. Sound(g, h)
      BY <1>1, <3>1, <3>2, <3>3, SoundPlain
    <3>5. h.tip[c] = onto /\ \A x \in 0..N : x # c => h.tip[x] = g.tip[x]
      BY <1>1, <3>1 DEF Repository
    <3>6. onto \in Reachable(h) /\ Tree(h, onto) = all
      <4>1. onto \in Roots(h)
        BY <1>1, <3>5 DEF Roots
      <4> QED BY <1>1, <2>3, <3>1, <3>4, <4>1, ReachableRoots DEF Sound, Tree
    <3>7. RangeHeld(g, h, c, base)
      BY <2>2, <3>6, HeldForm DEF RangeHeld
    <3> QED BY <3>1, <3>4, <3>5, <3>7
  <2>4. CASE h = [k EXCEPT !.tip[c] = Newest(k), !.tree = w]
    <3>1. /\ History(first) /\ Created(first) /\ Sound(g, first) /\ first.tip = g.tip /\ first.kept = g.kept /\ first.branch = g.branch
          /\ first.rebase = g.rebase
          /\ p \in 0..Len(first.commits) /\ (all # w => (p \in 1..Len(first.commits) /\ first.commits[p] = Commit(onto, all)))
      <4>1. CASE all = w
        BY <1>1, <4>1 DEF Sound, Grows
      <4>2. CASE all # w
        <5>1. first = WithCommit(g, onto, all) /\ p = Newest(first)
          BY <4>2
        <5> HIDE DEF all, w, first, p
        <5>2. Sound(g, first)
          BY <1>1, <5>1, SoundCommit
        <5>3. /\ Newest(first) = Len(g.commits) + 1 /\ Len(first.commits) = Len(g.commits) + 1
              /\ first.commits[Newest(first)] = Commit(onto, all)
              /\ first.tip = g.tip /\ first.kept = g.kept /\ first.branch = g.branch /\ first.rebase = g.rebase
          BY <1>1, <5>1, OrderedOn
        <5>4. p \in 0..Len(first.commits) /\ p \in 1..Len(first.commits)
          BY <1>1, <5>1, <5>3
        <5> QED BY <5>1, <5>2, <5>3, <5>4 DEF Sound
      <4> QED BY <4>1, <4>2
    <3>2. all = w \/ all # w
      OBVIOUS
    <3>3. w \subseteq all
      OBVIOUS
    <3> HIDE DEF all, w, first, p
    <3>4. History(k) /\ k.tip = first.tip /\ k.branch = first.branch /\ k.kept = first.kept /\ k.rebase = first.rebase /\ k.rebase.onto \in 0..Len(k.commits)
      BY <3>1, OrderedOn DEF History
    <3>5. k = WithCommit(first, p, w)
      OBVIOUS
    <3> HIDE DEF k
    <3>6. /\ DOMAIN h = DOMAIN k /\ h.branch = k.branch /\ h.tip = [k.tip EXCEPT ![c] = Newest(k)] /\ h.rebase = k.rebase
          /\ h.commits = k.commits /\ h.kept = k.kept
      BY <2>4, <3>4, <1>1 DEF History, Repository, Fields
    <3>7. Tipped(h, k, c)
      BY <3>4, <3>6 DEF Tipped
    <3>8. Tips(first, h, c, p, w)
      BY <1>1, <3>1, <3>5, <3>7, SoundTip
    <3>9. Sound(first, h) /\ h.tip[c] # None /\ Tree(h, h.tip[c]) = w /\ Ancestors(h, h.tip[c]) = {h.tip[c]} \cup Ancestors(h, p)
          /\ \A x \in 0..N : x # c => h.tip[x] = g.tip[x]
      BY <3>1, <3>8 DEF Tips
    <3>10. Sound(g, h)
      BY <1>1, <3>1, <3>9, SoundTwice DEF Sound, History
    <3>11. h.tip[c] \in Reachable(h) /\ Ancestors(h, h.tip[c]) \subseteq Reachable(h)
      <4>1. h.tip[c] \in Roots(h)
        BY <1>1 DEF Roots
      <4> QED BY <3>9, <3>10, <4>1, ReachableRoots DEF Sound
    <3>12. ASSUME NEW e \in all PROVE e \in Held(h)
      <4>1. CASE all = w
        BY <3>9, <3>11, <3>12, <4>1, HeldForm
      <4>2. CASE all # w
        <5>1. Len(first.commits) \in Nat /\ Len(h.commits) \in Nat /\ History(h)
          BY <3>1, <3>10 DEF Sound, History, Repository
        <5>2. p \in 1..Len(h.commits) /\ h.commits[p] = Commit(onto, all)
          BY <3>1, <3>9, <4>2, <5>1 DEF Sound, Grows
        <5>3. p \in Reachable(h)
          BY <3>9, <3>11, <5>1, <5>2, AncestorsForm
        <5>4. Tree(h, p) = all
          BY <5>2 DEF Tree, Commit
        <5> QED BY <3>12, <5>3, <5>4, HeldForm
      <4> QED BY <4>1, <4>2
    <3>13. RangeHeld(g, h, c, base)
      BY <2>2, <3>12 DEF RangeHeld
    <3>14. h.kept = g.kept /\ h.rebase = g.rebase
      BY <3>1, <3>4, <3>6
    <3> QED BY <3>9, <3>10, <3>13, <3>14
  <2> QED BY <2>1, <2>3, <2>4
<1> QED BY <1>2, <1>3, <1>4 DEF Rebase

\* A replay of a retained branch,
LEMMA RebaseHolds ==
  ASSUME NEW g, History(g), Created(g), NEW c \in Cards, g.branch = c, ~Dirty(g), NEW base, NEW onto \in 1..Len(g.commits),
         g.tip[c] \in g.kept, NEW h \in Rebase(g, c, base, onto)
  PROVE  Sound(g, h) /\ Held(g) \subseteq Held(h)
<1>0. Rebases(g, h, c, base, onto)
  BY RebaseSound
<1>1. Sound(g, h) /\ h.kept = g.kept /\ \A x \in 0..N : x # c => h.tip[x] = g.tip[x]
  BY <1>0 DEF Rebases
<1>2. c \in 0..N /\ g.tip[g.branch] \in Reachable(g)
  BY CardNumbers, HistoryHas
<1>3. \E o \in Reachable(g) : g.tree = Tree(g, o)
  BY <1>2 DEF Dirty
<1>4. History(h) /\ Grows(g, h) /\ g.kept \subseteq h.kept
  BY <1>1 DEF Sound
<1>5. Held(g) \subseteq Held(h)
  BY <1>1, <1>2, <1>3, <1>4, HeldOnward
<1> QED BY <1>1, <1>5

\* and of a correction task, whose original is kept with its base.
LEMMA ReplayHolds ==
  ASSUME NEW g, History(g), Created(g), NEW c \in Cards, g.branch = c, ~Dirty(g), NEW base, NEW onto \in 1..Len(g.commits),
         NEW orig \in g.kept, IsAncestor(g, base, orig), NEW h \in Rebase(g, c, base, onto)
  PROVE  Sound(g, h) /\ \A e \in Edits : e \in Held(g) => e \in Held(h)
<1>0. Rebases(g, h, c, base, onto)
  BY RebaseSound
<1>1. /\ Sound(g, h) /\ h.kept = g.kept /\ \A x \in 0..N : x # c => h.tip[x] = g.tip[x]
      /\ h = g \/ (h = Conflicted(g, c, onto) /\ h.tip = g.tip) \/ RangeHeld(g, h, c, base)
  BY <1>0 DEF Rebases
<1>2. /\ c \in 0..N /\ g.tip[c] # None /\ g.tip[c] \in Reachable(g) /\ g.tree = Tree(g, g.tip[c])
  BY CardNumbers, HistoryHas DEF Dirty
<1>3. History(h) /\ Grows(g, h) /\ g.kept \subseteq h.kept
  BY <1>1 DEF Sound
<1>4. CASE h = g
  BY <1>1, <1>4
<1>5. CASE h = Conflicted(g, c, onto) /\ h.tip = g.tip
  <2>1. \A r \in Roots(g) : r \in Roots(h)
    BY <1>1, <1>5 DEF Roots
  <2>2. \A o \in Reachable(g) : o \in Reachable(h) /\ Tree(h, o) = Tree(g, o)
    BY <1>3, <2>1, ReachableRoots, ReachableGrows
  <2> QED BY <1>1, <1>2, <2>2, HeldForm
<1>6. CASE RangeHeld(g, h, c, base)
  <2>1. orig \in Roots(g) /\ orig \in Roots(h) /\ orig # None /\ orig \in 0..Len(g.commits)
    <3>1. orig \in 1..Len(g.commits) /\ Len(g.commits) \in Nat
      BY DEF History, Repository
    <3> QED BY <1>3, <3>1 DEF Roots, None
  <2>2. \A o \in Ancestors(g, orig) : o \in Reachable(h) /\ Tree(h, o) = Tree(g, o)
    <3> SUFFICES ASSUME NEW o \in Ancestors(g, orig) PROVE o \in Reachable(h) /\ Tree(h, o) = Tree(g, o)
      OBVIOUS
    <3>1. o \in Ancestors(h, orig)
      BY <1>3, <2>1, AncestorsStay
    <3>2. o \in Reachable(h)
      BY <2>1, <3>1, ReachableForm
    <3>3. o \in Reachable(g)
      BY <2>1, ReachableForm
    <3>4. o \in 1..Len(g.commits)
      BY <3>3, ReachableRoots
    <3> QED BY <1>3, <3>2, <3>4 DEF Grows, Tree
  <2>3. base \in Ancestors(g, orig) /\ Ancestors(g, base) \subseteq Ancestors(g, orig)
    BY <2>1, AncestorsTwice DEF IsAncestor
  <2>4. ASSUME NEW e \in Edits, NEW o \in Ancestors(g, g.tip[c]), e \in Tree(g, o) PROVE e \in Held(h)
    <3>1. CASE o \in Ancestors(g, base)
      BY <2>2, <2>3, <2>4, <3>1, HeldForm
    <3>2. CASE e \in Tree(g, base)
      BY <2>2, <2>3, <3>2, HeldForm
    <3>3. CASE o \notin Ancestors(g, base) /\ e \notin Tree(g, base)
      <4>1. e \in RangeWork(g, c, base)
        BY <2>4, <3>3 DEF RangeWork
      <4> QED BY <1>6, <4>1 DEF RangeHeld
    <3> QED BY <3>1, <3>2, <3>3
  <2>5. ASSUME NEW e \in Edits, NEW o \in Reachable(g), e \in Tree(g, o) PROVE e \in Held(h)
    <3>1. PICK r \in Roots(g) : o \in Ancestors(g, r)
      BY <2>5, ReachableForm
    <3>2. CASE r = g.tip[c]
      BY <2>4, <2>5, <3>1, <3>2
    <3>3. CASE r # g.tip[c]
      <4>1. r \in Roots(h)
        BY <1>1, <3>3 DEF Roots
      <4>2. r \in 0..Len(g.commits)
        BY RootsThere
      <4>3. o \in Ancestors(h, r)
        BY <1>3, <3>1, <4>2, AncestorsStay
      <4>4. o \in Reachable(h)
        BY <4>1, <4>3, ReachableForm
      <4>5. Tree(h, o) = Tree(g, o)
        BY <1>3, <2>5, ReachableRoots DEF Grows, Tree
      <4> QED BY <2>5, <4>4, <4>5, HeldForm
    <3> QED BY <3>2, <3>3
  <2>6. \A e \in Edits : e \in Held(g) => e \in Held(h)
    BY <1>2, <2>5, HeldForm
  <2> QED BY <1>1, <2>6
<1> QED BY <1>1, <1>4, <1>5, <1>6

-----------------------------------------------------------------------------
(* The commands of a native operation *)

\* A command finds what it replaces in a commit that a ref keeps.
LEMMA CommandHolds ==
  ASSUME HoldInv, Hooks = FALSE, NEW t \in tasks, t.card \in Cards, NEW g \in Command(t)
  PROVE  Sound(git, g) /\ Held(git) \subseteq Held(g)
<1>1. PICK c \in Cards : c = t.card
  OBVIOUS
<1>2. PICK step : step = Head(t.todo)
  OBVIOUS
<1>3. /\ History(git) /\ Created(git) /\ c \in 0..N /\ c - 1 \in 0..N /\ git.tip[git.branch] # None /\ git.branch \in 0..N
      /\ (git.tip[c] # None => (git.tip[c] \in 1..Len(git.commits) /\ git.tip[c - 1] # None))
      /\ (git.tip[c - 1] # None => git.tip[c - 1] \in 1..Len(git.commits))
      /\ git.tip[git.branch] \in Reachable(git)
  <2>1. History(git) /\ Created(git)
    BY DEF HoldInv
  <2> QED BY <2>1, HistoryHas, CardNumbers DEF Created
<1>4. Ready(c, t.todo)
  BY <1>1 DEF HoldInv
<1>5. ~Dirty(git) => \E o \in Reachable(git) : git.tree = Tree(git, o)
  BY <1>3 DEF Dirty
<1>6. step \in Commands
  BY <1>2, CommandOf
<1>7. CASE step = "create"
  <2>1. git.tip[c] = None /\ git.tip[c - 1] # None /\ git.tip[c - 1] = ParentTip(c)
    BY <1>2, <1>4, <1>7 DEF Ready
  <2>2. g = WithBranch(git, c, git.tip[c - 1])
    <3>1. g = [git EXCEPT !.tip[c] = ParentTip(c)]
      BY <1>1, <1>2, <1>7, CommandOf
    <3> QED BY <2>1, <3>1 DEF WithBranch
  <2> QED BY <1>3, <2>1, <2>2, CreateHolds
<1>8. CASE step = "switch"
  <2>1. git.tip[c] # None /\ g \in SwitchTo(git, c)
    BY <1>1, <1>2, <1>4, <1>8, CommandOf DEF Ready
  <2> QED BY <1>3, <2>1, SwitchHolds
<1>9. CASE step = "leave"
  <2>1. git.branch = c /\ g \in SwitchTo(git, c - 1)
    BY <1>1, <1>2, <1>4, <1>9, CommandOf DEF Ready
  <2>2. git.tip[c - 1] # None
    BY <1>3, <2>1
  <2>3. PICK p \in 0..N : p = c - 1
    BY <1>3
  <2> QED BY <1>3, <2>1, <2>2, <2>3, SwitchHolds
<1>10. CASE step = "retain"
  <2>1. g = Keep(git, git.tip[c])
    BY <1>1, <1>2, <1>10, CommandOf
  <2>2. git.tip[c] \in 1..Len(git.commits)
    BY <1>2, <1>3, <1>4, <1>10 DEF Ready
  <2> QED BY <1>3, <2>1, <2>2, RefHolds
<1>11. CASE step = "rebase"
  <2>1. g \in Rebase(git, c, ReplayBase(c), ParentTip(c))
    BY <1>1, <1>2, <1>11, CommandOf
  <2>2. git.branch = c /\ git.tip[c - 1] = ParentTip(c) /\ ~Dirty(git)
    BY <1>2, <1>4, <1>11 DEF Ready, Resting
  <2>3. PICK onto \in 1..Len(git.commits) : onto = ParentTip(c)
    BY <1>3, <2>2
  <2>4. git.tip[c] \in git.kept
    BY <1>2, <1>4, <1>11 DEF Ready
  <2> QED BY <1>3, <2>1, <2>2, <2>3, <2>4, RebaseHolds
<1>12. CASE step = "abort"
  <2>1. g = Abort(git) /\ \E o \in Reachable(git) : git.tree = Tree(git, o)
    BY <1>1, <1>2, <1>4, <1>12, CommandOf DEF Ready
  <2> QED BY <1>3, <2>1, AbortHolds
<1>13. CASE step = "capture"
  <2>1. g = Capture(git)
    BY <1>1, <1>2, <1>13, CommandOf
  <2> QED BY <1>3, <2>1, CaptureHolds
<1>14. CASE step = "restore"
  <2>1. g = Restore(git, facts[c].corr.snap) /\ ~Dirty(git)
    BY <1>1, <1>2, <1>4, <1>14, CommandOf DEF Ready
  <2> QED BY <1>3, <1>5, <2>1, RestoreHolds
<1>15. CASE step = "commit"
  <2>1. g = CommitAll(git)
    BY <1>1, <1>2, <1>15, CommandOf
  <2> QED BY <1>3, <2>1, CommitHolds
<1>16. CASE step = "squash"
  <2>1. g = Squash(git, c - 1, accepted[c]) /\ git.branch = c - 1 /\ ~Dirty(git)
    BY <1>1, <1>2, <1>4, <1>16, CommandOf DEF Ready
  <2>2. PICK p \in 0..N : p = c - 1
    BY <1>3
  <2> QED BY <1>3, <2>1, <2>2, SquashHolds
<1> QED BY <1>6, <1>7, <1>8, <1>9, <1>10, <1>11, <1>12, <1>13, <1>14, <1>15, <1>16 DEF Commands

\* Steps that rely on nothing
Relying == {"create", "switch", "leave", "retain", "rebase", "squash", "restore", "capture", "publishSnapshot", "abort"}
\* are ready whatever the repository holds.
LEMMA QuietIsReady == ASSUME NEW c, NEW s, Head(s) \notin Relying, s \notin Replaying PROVE Ready(c, s)
BY DEF Ready, Relying, Replaying

\* The heads of plans that are replayed
LEMMA ReplayingHeads ==
  /\ \A s \in Replaying : Head(s) \in {"switch", "retain", "rebase", "abort", "publishTask"}
  /\ \A s \in Replaying : Head(s) = "publishTask" => s = <<"publishTask">>
BY ListParts DEF Replaying, Replays

\* So steps of these kinds rely on nothing.
LEMMA QuietHeads ==
  ASSUME NEW c, NEW s, Head(s) \in {"publish", "publishVerified", "publishParent", "verify", "commit", "admit", "reenter", "failed", "refused"}
  PROVE  Ready(c, s)
<1>1. s \notin Replaying
  BY ReplayingHeads
<1>2. Head(s) \notin Relying
  BY DEF Relying
<1> QED BY <1>1, <1>2, QuietIsReady

\* Nor do they after a step.
LEMMA QuietNext ==
  ASSUME NEW CONSTANT c, NEW CONSTANT s,
         Head(s) \in {"publish", "publishVerified", "publishParent", "verify", "commit", "admit", "reenter", "failed", "refused"}
  PROVE  Ready(c, s)'
<1>1. s \notin Replaying
  BY ReplayingHeads
<1>2. Head(s) \notin Relying
  BY DEF Relying
<1> QED BY <1>1, <1>2 DEF Ready, Relying, Replaying

\* What relies on repository and facts relies on nothing else.
LEMMA ReadyStands == ASSUME UNCHANGED <<git, facts>>, NEW c, NEW s, Ready(c, s) PROVE Ready(c, s)'
<1>1. /\ ParentTip(c)' = ParentTip(c) /\ ReplayBase(c)' = ReplayBase(c) /\ Corrects(c)' = Corrects(c)
      /\ Resting' = Resting /\ Dirty(git)' = Dirty(git)
  BY DEF ParentTip, ReplayBase, Corrects, Resting, HasRebase, Dirty, Tree
<1>2. Reachable(git)' = Reachable(git) /\ \A o : Tree(git, o)' = Tree(git, o) /\ IsAncestor(git, ReplayBase(c), o)' = IsAncestor(git, ReplayBase(c), o)
  BY DEF Reachable, Tree, IsAncestor, Ancestors, ReplayBase
<1> QED BY <1>1, <1>2 DEF Ready

\* A correction task is kept by commands.
LEMMA TaskKeptOn ==
  ASSUME HoldInv, Sound(git, git'), UNCHANGED facts
  PROVE  TaskKept'
<1> SUFFICES ASSUME NEW c \in Cards, Corrects(c)'
             PROVE  /\ git'.tip[c] # None /\ facts'[c].corr.onto # None
                    /\ facts'[c].corr.orig \in git'.kept /\ IsAncestor(git', facts'[c].corr.base, facts'[c].corr.orig)
  BY DEF TaskKept
<1>1. Corrects(c)
  BY DEF Corrects
<1>2. /\ git.tip[c] # None /\ facts[c].corr.onto # None
      /\ facts[c].corr.orig \in git.kept /\ IsAncestor(git, facts[c].corr.base, facts[c].corr.orig)
  BY <1>1 DEF HoldInv, TaskKept
<1>3. History(git) /\ History(git') /\ Grows(git, git') /\ git.kept \subseteq git'.kept /\ c \in 0..N
  BY CardNumbers DEF HoldInv, Sound
<1>4. facts[c].corr.orig \in 0..Len(git.commits)
  <2>1. git.kept \subseteq 1..Len(git.commits) /\ Len(git.commits) \in Nat
    BY <1>3 DEF History, Repository
  <2> QED BY <1>2, <2>1
<1>5. Ancestors(git', facts[c].corr.orig) = Ancestors(git, facts[c].corr.orig)
  BY <1>3, <1>4, AncestorsStay
<1> QED BY <1>2, <1>3, <1>5 DEF IsAncestor, Sound

\* An entry begins ready.
LEMMA EnterReady ==
  ASSUME HoldInv, NEW c \in Cards, NEW x, x = EnterTask(c)
  PROVE  x.card = c /\ Ready(c, x.todo)
<1>1. x.card = c /\ x.todo \in {<<"failed">>, <<"refused">>, EnterTodo(c)}
  BY DEF EnterTask, Task
<1>2. CASE x.todo \in {<<"failed">>, <<"refused">>}
  <2>1. Head(x.todo) \in {"failed", "refused"}
    BY <1>2, ListParts
  <2> QED BY <1>1, <2>1, QuietHeads
<1>3. CASE x.todo = EnterTodo(c) /\ x.todo \notin {<<"failed">>, <<"refused">>}
  <2>1. /\ git.branch = c - 1 /\ git.tip[c - 1] = ParentTip(c)
        /\ facts[c] = NoFacts => git.tip[c] = None
        /\ (facts[c] # NoFacts /\ ~Corrects(c)) => IsAncestor(git, ReplayBase(c), git.tip[c])
    BY <1>3 DEF EnterTask, Task, InspectedClean, Inspected
  <2>2. History(git) /\ Created(git) /\ git.tip[c - 1] # None
    BY <2>1 DEF HoldInv, Created
  <2>3. CASE facts[c] = NoFacts
    <3>0. ~Corrects(c)
      BY <2>3 DEF Corrects, NoFacts
    <3>1. x.todo = <<"create", "switch", "publish">>
      BY <1>3, <2>3, <3>0 DEF EnterTodo
    <3>2. Head(x.todo) = "create"
      BY <3>1, ListParts
    <3>3. x.todo \notin Replaying
      BY <3>2, ReplayingHeads
    <3>4. x.todo \notin Replays
      BY <3>3 DEF Replaying
    <3> QED BY <1>1, <2>1, <2>2, <2>3, <3>2, <3>3, <3>4 DEF Ready
  <2>4. CASE facts[c] # NoFacts /\ Corrects(c)
    <3>1. x.todo = <<"switch", "publish">>
      BY <1>3, <2>4 DEF EnterTodo
    <3>2. Head(x.todo) = "switch" /\ git.tip[c] # None
      BY <3>1, <2>4, ListParts DEF HoldInv, TaskKept
    <3>3. x.todo \notin Replaying
      <4>1. \A s \in Replaying : Head(s) = "switch" => Len(s) = 4
        BY ListParts DEF Replaying, Replays
      <4>2. Len(x.todo) = 2
        BY <3>1, ListParts
      <4> QED BY <3>2, <4>1, <4>2
    <3>4. x.todo \notin Replays
      BY <3>3 DEF Replaying
    <3> QED BY <1>1, <3>2, <3>3, <3>4 DEF Ready
  <2>5. CASE facts[c] # NoFacts /\ ~Corrects(c)
    <3>1. x.todo = <<"switch", "retain", "rebase", "publish">>
      BY <1>3, <2>5 DEF EnterTodo
    <3>2. Head(x.todo) = "switch"
      BY <3>1, ListParts
    <3>3. IsAncestor(git, ReplayBase(c), git.tip[c])
      BY <2>1, <2>5
    <3>4. git.tip[c] # None
      BY <2>2, <3>3, AncestorsForm DEF IsAncestor
    <3>5. x.todo \notin Replays
      <4>1. \A s \in Replays : Head(s) # "switch"
        BY ListParts DEF Replays
      <4> QED BY <3>2, <4>1
    <3> QED BY <1>1, <3>2, <3>3, <3>4, <3>5 DEF Ready
  <2> QED BY <2>3, <2>4, <2>5
<1> QED BY <1>1, <1>2, <1>3

\* A switch of a clean checkout, no hook writing, leaves it clean; a capture, a ref
\* and an abort leave the branches.
LEMMA RefsStay ==
  ASSUME Repository(git), NEW o
  PROVE  /\ Keep(git, o).kept = git.kept \cup {o} /\ Keep(git, o).tree = git.tree /\ Keep(git, o).rebase = git.rebase
         /\ Keep(git, o).commits = git.commits
         /\ Abort(git).kept = git.kept /\ Abort(git).tree = Tree(git, git.rebase.start) /\ Abort(git).commits = git.commits
         /\ \A b, x : [git EXCEPT !.branch = b, !.tree = x].kept = git.kept
<1>1. Fields \subseteq DOMAIN git
  BY DEF Repository
<1> QED BY <1>1 DEF Keep, Abort, Fields

\* An entry
LEMMA EnterGoesOn ==
  ASSUME SourceInv, HoldInv, Hooks = FALSE, NEW t \in tasks, t.card \in Cards, EnterStage(t.card, t.todo),
         NEW g \in Command(t), git' = g, NEW d, d = After(t, g), UNCHANGED facts
  PROVE  Ready(t.card, d)'
<1>1. PICK c \in Cards : c = t.card
  OBVIOUS
<1>2. PICK s : s = t.todo
  OBVIOUS
<1>3. Repository(git) /\ History(git) /\ Created(git) /\ c \in 0..N /\ c - 1 \in 0..N /\ c # c - 1 /\ Ready(c, s)
  BY <1>1, <1>2, CardNumbers DEF SourceInv, HoldInv
<1>4. Head(s) \in Commands /\ s # <<"failed">>
  BY <1>2, CommandOf, ListParts DEF Commands
<1>5. git.tip[c - 1] = ParentTip(c) /\ ((s \in EnterOutside /\ git.branch = c - 1 /\ Resting) \/ (s \in EnterInside /\ git.branch = c))
  BY <1>1, <1>2, <1>4 DEF EnterStage
<1>6. Sound(git, git')
  BY CommandHolds
<1>7. ParentTip(c)' = ParentTip(c) /\ ReplayBase(c)' = ReplayBase(c)
  BY DEF ParentTip, ReplayBase
<1>8. ASSUME IsAncestor(git, ReplayBase(c), git.tip[c]), git'.tip[c] = git.tip[c]
      PROVE  IsAncestor(git, ReplayBase(c), git.tip[c])'
  <2>1. History(git') /\ Grows(git, git') /\ git.tip[c] \in 0..Len(git.commits)
    BY <1>3, <1>6, HistoryHas DEF Sound
  <2>2. Ancestors(git', git.tip[c]) = Ancestors(git, git.tip[c])
    BY <1>3, <2>1, AncestorsStay
  <2> QED BY <1>7, <1>8, <2>2 DEF IsAncestor
<1>9. CASE s = <<"create", "switch", "publish">>
  <2>1. Head(s) = "create" /\ Tail(s) = <<"switch", "publish">>
    BY <1>9, ListParts
  <2>2. d = <<"switch", "publish">> /\ g = [git EXCEPT !.tip[c] = ParentTip(c)]
    BY <1>1, <1>2, <2>1, CommandOf, AfterOf
  <2>3. git.tip[c] = None /\ git.tip[c - 1] # None
    BY <1>3, <2>1 DEF Ready
  <2>4. g = WithBranch(git, c, git.tip[c - 1])
    BY <1>5, <2>2 DEF WithBranch
  <2>5. git'.tip[c] # None
    BY <1>3, <2>3, <2>4, CreateHolds
  <2>6. Head(d) = "switch" /\ d \notin Replaying
    <3>1. \A x \in Replaying : Head(x) = "switch" => Len(x) = 4
      BY ListParts DEF Replaying, Replays
    <3>2. Len(d) = 2 /\ Head(d) = "switch"
      BY <2>2, ListParts
    <3> QED BY <3>1, <3>2
  <2>7. d \notin Replays
    BY <2>6 DEF Replaying
  <2> QED BY <1>1, <2>5, <2>6, <2>7 DEF Ready
<1>10. CASE s = <<"switch", "publish">>
  <2>1. Head(s) = "switch" /\ Tail(s) = <<"publish">>
    BY <1>10, ListParts
  <2>2. g \in SwitchTo(git, c) /\ ~Dirty(git)
    <3>1. s \notin EnterInside
      <4>1. \A x \in EnterInside : Head(x) # "switch"
        BY ListParts DEF EnterInside
      <4> QED BY <2>1, <4>1
    <3> QED BY <1>1, <1>2, <1>5, <2>1, <3>1, CommandOf DEF Resting
  <2>3. ~Dirty(g)
    BY <1>3, <2>2, SwitchEffect
  <2>4. d = <<"publish">>
    BY <1>2, <2>1, <2>3, AfterOf
  <2>5. Head(d) = "publish"
    BY <2>4, ListParts
  <2> QED BY <1>1, <2>5, QuietNext
<1>11. CASE s = <<"switch", "retain", "rebase", "publish">>
  <2>1. Head(s) = "switch" /\ Tail(s) = <<"retain", "rebase", "publish">>
    BY <1>11, ListParts
  <2>2. g \in SwitchTo(git, c) /\ Resting
    <3>1. s \notin EnterInside
      <4>1. \A x \in EnterInside : Head(x) # "switch"
        BY ListParts DEF EnterInside
      <4> QED BY <2>1, <4>1
    <3> QED BY <1>1, <1>2, <1>5, <2>1, <3>1, CommandOf
  <2>3. ~Dirty(g) /\ g.branch = c /\ g.tip = git.tip /\ g.rebase = git.rebase
    BY <1>3, <2>2, SwitchEffect DEF Resting
  <2>4. d = <<"retain", "rebase", "publish">>
    BY <1>2, <2>1, <2>3, AfterOf
  <2>5. Head(d) = "retain" /\ d \notin Replays
    <3>1. \A x \in Replays : Head(x) # "retain"
      BY ListParts DEF Replays
    <3>2. Head(d) = "retain"
      BY <2>4, ListParts
    <3> QED BY <3>1, <3>2
  <2>6. IsAncestor(git, ReplayBase(c), git.tip[c])'
    <3>1. IsAncestor(git, ReplayBase(c), git.tip[c])
      BY <1>3, <1>11 DEF Ready, Replaying
    <3> QED BY <1>8, <2>3, <3>1
  <2>7. Resting' /\ git'.branch = c
    BY <2>2, <2>3 DEF Resting, HasRebase
  <2> QED BY <1>1, <2>5, <2>6, <2>7 DEF Ready
<1>12. CASE s = <<"retain", "rebase", "publish">>
  <2>1. Head(s) = "retain" /\ Tail(s) = <<"rebase", "publish">>
    BY <1>12, ListParts
  <2>2. g = Keep(git, git.tip[c]) /\ d = <<"rebase", "publish">>
    BY <1>1, <1>2, <2>1, CommandOf, AfterOf
  <2>3. /\ g.branch = git.branch /\ g.tip = git.tip /\ g.kept = git.kept \cup {git.tip[c]} /\ g.tree = git.tree
        /\ g.rebase = git.rebase /\ g.commits = git.commits
    BY <1>3, <2>2, PlainEffect, RefsStay
  <2>4. Resting /\ git.branch = c /\ IsAncestor(git, ReplayBase(c), git.tip[c])
    BY <1>3, <1>12, <2>1 DEF Ready, Replaying
  <2>5. Resting' /\ git'.branch = c /\ git'.tip[c] \in git'.kept /\ git'.tip[c - 1] = ParentTip(c)'
    BY <1>5, <1>7, <2>3, <2>4 DEF Resting, HasRebase, Dirty, Tree
  <2>6. IsAncestor(git, ReplayBase(c), git.tip[c])'
    BY <1>8, <2>3, <2>4
  <2>7. Head(d) = "rebase"
    BY <2>2, ListParts
  <2> QED BY <1>1, <2>5, <2>6, <2>7 DEF Ready
<1>13. CASE s = <<"rebase", "publish">>
  <2>1. Head(s) = "rebase" /\ Tail(s) = <<"publish">>
    BY <1>13, ListParts
  <2>2. /\ g \in Rebase(git, c, ReplayBase(c), ParentTip(c)) /\ git.branch = c /\ Resting /\ git.tip[c - 1] = ParentTip(c)
        /\ git.tip[c] \in git.kept /\ IsAncestor(git, ReplayBase(c), git.tip[c])
    BY <1>1, <1>2, <1>3, <1>13, <2>1, CommandOf DEF Ready, Replaying, Replays
  <2>3. PICK onto \in 1..Len(git.commits) : onto = ParentTip(c)
    <3>1. git.tip[c - 1] # None
      BY <1>3, <2>2 DEF Created
    <3> QED BY <1>3, <2>2, <3>1, HistoryHas
  <2>4. Rebases(git, g, c, ReplayBase(c), onto)
    <3>1. g \in Rebase(git, c, ReplayBase(c), onto)
      BY <2>2, <2>3
    <3> QED BY <1>3, <2>2, <3>1, RebaseSound
  <2>5. CASE HasRebase(g)
    <3>1. g = Conflicted(git, c, onto) /\ g.tip = git.tip /\ g.kept = git.kept
      BY <2>2, <2>4, <2>5 DEF Rebases, Resting, HasRebase
    <3>2. /\ g.branch = git.branch /\ g.rebase = [start |-> git.tip[c], onto |-> onto] /\ g.tree = Tree(git, onto)
          /\ g.commits = git.commits
      BY <1>3, <3>1, Reads DEF Conflicted
    <3>3. d = <<"abort", "publishTask">>
      BY <1>2, <2>1, <2>5 DEF After
    <3>4. git'.rebase.start = git'.tip[git'.branch]
      BY <2>2, <3>1, <3>2
    <3>5. \E o \in Reachable(git') : git'.tree = Tree(git', o)
      <4>1. onto \in Roots(git') /\ onto # None
        BY <1>3, <2>2, <2>3, <3>1 DEF Roots, None
      <4>2. onto \in Reachable(git')
        BY <1>6, <4>1, ReachableRoots DEF Sound
      <4>3. git'.tree = Tree(git', onto)
        BY <3>2 DEF Tree
      <4> QED BY <4>2, <4>3
    <3>6. IsAncestor(git, ReplayBase(c), git.tip[c])' /\ git'.tip[c] \in git'.kept
      BY <1>8, <2>2, <3>1
    <3>7. Head(d) = "abort"
      BY <3>3, ListParts
    <3> QED BY <1>1, <3>4, <3>5, <3>6, <3>7 DEF Ready
  <2>6. CASE ~HasRebase(g)
    <3>1. d = <<"publish">>
      BY <1>2, <2>1, <2>6 DEF After
    <3>2. Head(d) = "publish"
      BY <3>1, ListParts
    <3> QED BY <1>1, <3>2, QuietNext
  <2> QED BY <2>5, <2>6
<1>14. CASE s = <<"abort", "publishTask">>
  <2>1. Head(s) = "abort" /\ Tail(s) = <<"publishTask">>
    BY <1>14, ListParts
  <2>2. g = Abort(git) /\ d = <<"publishTask">>
    <3>1. g = Abort(git)
      BY <1>2, <2>1, CommandOf
    <3>2. After(t, g) = Tail(t.todo)
      BY <1>2, <2>1 DEF After
    <3> QED BY <1>2, <2>1, <3>1, <3>2
  <2>3. g.tip = git.tip /\ g.kept = git.kept
    BY <1>3, <2>2, PlainEffect, RefsStay
  <2>4. git.tip[c] \in git.kept /\ IsAncestor(git, ReplayBase(c), git.tip[c])
    BY <1>3, <1>14 DEF Ready, Replaying, Replays
  <2>5. IsAncestor(git, ReplayBase(c), git.tip[c])' /\ git'.tip[c] \in git'.kept
    BY <1>8, <2>3, <2>4
  <2>6. Head(d) = "publishTask"
    BY <2>2, ListParts
  <2> QED BY <1>1, <2>5, <2>6 DEF Ready
<1>15. s \notin {<<"refused">>, <<"publish">>, <<"publishTask">>}
  BY <1>4, ListParts DEF Commands
<1> QED BY <1>5, <1>9, <1>10, <1>11, <1>12, <1>13, <1>14, <1>15 DEF EnterOutside, EnterInside

\* A return
LEMMA ReturnGoesOn ==
  ASSUME SourceInv, HoldInv, Hooks = FALSE, NEW t \in tasks, t.card \in Cards, ReturnStage(t.card, t.todo),
         NEW g \in Command(t), git' = g, NEW CONSTANT d, d = After(t, g), UNCHANGED facts
  PROVE  Ready(t.card, d)'
<1>1. PICK c \in Cards : c = t.card
  OBVIOUS
<1>2. PICK s : s = t.todo
  OBVIOUS
<1>3. Repository(git) /\ c \in 0..N /\ c - 1 \in 0..N /\ Ready(c, s)
  BY <1>1, <1>2, CardNumbers DEF SourceInv, HoldInv
<1>4. Head(s) \in Commands
  BY <1>2, CommandOf
<1>5. s # <<"failed">> /\ s # <<"reenter">> /\ s \notin Returned
  BY <1>4, ListParts DEF Commands, Returned
<1>6. PICK r \in Returned :
        /\ git.branch = c
        /\ \/ s = Leaving(r) /\ Resting
           \/ s \in {Saving(r), Restoring(r), Verifying(r)} /\ ~HasRebase(git)
           \/ s \in {Aborting(r), Checking(r), Noting(r), Capturing(r)}
  BY <1>1, <1>2, <1>5 DEF ReturnStage
<1>7. CASE s = Leaving(r) /\ Resting
  <2>1. Head(s) = "leave" /\ Tail(s) = r
    BY <1>7, ReturnParts
  <2>2. Command(t) = SwitchTo(git, c - 1)
    BY <1>1, <1>2, <2>1, CommandOf
  <2>3. ~Dirty(g)
    BY <1>3, <1>7, <2>2, SwitchEffect DEF Resting
  <2>4. d = r
    BY <1>2, <2>1, <2>3, AfterOf
  <2>5. Head(d) = "publish"
    BY <2>4, ListParts DEF Returned
  <2> QED BY <1>1, <2>5, QuietNext
<1>8. CASE s = Saving(r) /\ ~HasRebase(git)
  <2>1. Head(s) = "commit" /\ Tail(s) = Leaving(r)
    BY <1>8, ReturnParts
  <2>2. Command(t) = {CommitAll(git)} /\ d = Leaving(r)
    BY <1>2, <2>1, CommandOf, AfterOf
  <2>3. g.branch = c
    BY <1>3, <1>6, <2>2, CommitEffect
  <2>4. Head(d) = "leave" /\ d \notin Replaying /\ d \notin Replays
    BY <2>2, ReturnParts, ReplayingHeads DEF Replaying
  <2> QED BY <1>1, <2>3, <2>4 DEF Ready
<1>9. CASE s = Restoring(r) /\ ~HasRebase(git)
  <2>1. Head(s) = "restore" /\ Tail(s) = Saving(r)
    BY <1>9, ReturnParts
  <2>2. d = Saving(r)
    BY <1>2, <2>1, AfterOf
  <2>3. Head(d) = "commit"
    BY <2>2, ReturnParts
  <2> QED BY <1>1, <2>3, QuietNext
<1>10. CASE s = Aborting(r)
  <2>1. Head(s) = "abort" /\ Tail(s) = Restoring(r)
    BY <1>10, ReturnParts
  <2>2. Command(t) = {Abort(git)} /\ d = Restoring(r)
    BY <1>2, <2>1, CommandOf, AfterOf
  <2>3. git.rebase.start = git.tip[git.branch]
    BY <1>3, <2>1 DEF Ready
  <2>4. g.branch = git.branch /\ g.tip = git.tip /\ g.commits = git.commits /\ g.tree = Tree(git, git.rebase.start)
    BY <1>3, <2>2, PlainEffect, RefsStay
  <2>5. ~Dirty(git')
    BY <2>3, <2>4 DEF Dirty, Tree
  <2>6. Head(d) = "restore" /\ d \notin Replaying /\ d \notin Replays
    BY <2>2, ReturnParts, ReplayingHeads DEF Replaying
  <2> QED BY <1>1, <2>5, <2>6 DEF Ready
<1>11. CASE s = Capturing(r)
  <2>1. Head(s) = "capture" /\ Tail(s) = Noting(r)
    BY <1>11, ReturnParts
  <2>2. d = Noting(r)
    BY <1>2, <2>1, AfterOf
  <2>3. Corrects(c)'
    BY <1>3, <2>1 DEF Ready, Corrects
  <2>4. Head(d) = "publishSnapshot" /\ d \notin Replaying /\ d \notin Replays
    BY <2>2, ReturnParts, ReplayingHeads DEF Replaying
  <2> QED BY <1>1, <2>3, <2>4 DEF Ready
<1>12. s \notin {Verifying(r), Checking(r), Noting(r)}
  BY <1>4, ReturnParts DEF Commands
<1> QED BY <1>6, <1>7, <1>8, <1>9, <1>10, <1>11, <1>12

\* A delivery, and a checkpoint
LEMMA DeliverGoesOn ==
  ASSUME SourceInv, HoldInv, Hooks = FALSE, NEW t \in tasks, t.card \in Cards, DeliverStage(t.card, t.todo),
         NEW g \in Command(t), git' = g, NEW CONSTANT d, d = After(t, g), UNCHANGED facts
  PROVE  Ready(t.card, d)'
<1>1. PICK c \in Cards : c = t.card
  OBVIOUS
<1>2. PICK s : s = t.todo
  OBVIOUS
<1>3. Repository(git) /\ c \in 0..N /\ c - 1 \in 0..N /\ Ready(c, s)
  BY <1>1, <1>2, CardNumbers DEF SourceInv, HoldInv
<1>4. s \notin {<<"failed">>, <<"publish">>, <<"publishParent", "publish">>}
  BY <1>2, CommandOf, ListParts DEF Commands
<1>5. Resting /\ ((s = DeliverTodo /\ git.branch = c) \/ s = <<"squash", "publishParent", "publish">>)
  BY <1>1, <1>2, <1>4 DEF DeliverStage
<1>6. CASE s = DeliverTodo
  <2>1. Head(s) = "leave" /\ Tail(s) = <<"squash", "publishParent", "publish">>
    BY <1>6, ListParts DEF DeliverTodo
  <2>2. Command(t) = SwitchTo(git, c - 1)
    BY <1>1, <1>2, <2>1, CommandOf
  <2>3. g.branch = c - 1 /\ ~Dirty(g)
    BY <1>3, <1>5, <2>2, SwitchEffect DEF Resting
  <2>4. d = <<"squash", "publishParent", "publish">>
    BY <1>2, <2>1, <2>3, AfterOf
  <2>5. Head(d) = "squash" /\ d \notin Replaying /\ d \notin Replays
    <3>1. Head(d) = "squash"
      BY <2>4, ListParts
    <3> QED BY <3>1, ReplayingHeads DEF Replaying
  <2>6. git'.branch = c - 1 /\ ~Dirty(git')
    BY <2>3
  <2> QED BY <1>1, <2>5, <2>6 DEF Ready
<1>7. CASE s = <<"squash", "publishParent", "publish">>
  <2>1. Head(s) = "squash" /\ Tail(s) = <<"publishParent", "publish">>
    BY <1>7, ListParts
  <2>2. d = <<"publishParent", "publish">>
    BY <1>2, <2>1, AfterOf
  <2>3. Head(d) = "publishParent"
    BY <2>2, ListParts
  <2> QED BY <1>1, <2>3, QuietNext
<1> QED BY <1>5, <1>6, <1>7

\* which commits and publishes
LEMMA CheckpointGoesOn ==
  ASSUME Hooks = FALSE, NEW t \in tasks, CheckpointStage(t.card, t.todo),
         NEW g \in Command(t), NEW CONSTANT d, d = After(t, g)
  PROVE  Ready(t.card, d)'
<1>1. t.todo \in {<<"commit", "publish">>, <<"commit", "publish", "admit">>}
  <2>1. \A x \in {<<"publish">>, <<"publish", "admit">>, <<"admit">>, <<"failed">>} : Head(x) \notin Commands
    BY ListParts DEF Commands
  <2> QED BY <2>1, CommandOf DEF CheckpointStage, CheckpointPlans
<1>2. Head(t.todo) = "commit" /\ Head(Tail(t.todo)) = "publish"
  <2>1. CASE t.todo = <<"commit", "publish">>
    BY <2>1, ListParts
  <2>2. CASE t.todo = <<"commit", "publish", "admit">>
    BY <2>2, ListParts
  <2> QED BY <1>1, <2>1, <2>2
<1>3. d = Tail(t.todo)
  BY <1>2, AfterOf
<1>4. Head(d) = "publish"
  BY <1>2, <1>3
<1>5. PICK c : c = t.card
  OBVIOUS
<1> QED BY <1>4, <1>5, QuietNext

-----------------------------------------------------------------------------
(* Every step holds the work *)

\* Nothing happens to a repository that stays as it is.
LEMMA SoundSame == ASSUME NEW g, History(g), Created(g) PROVE Sound(g, g) /\ Held(g) \subseteq Held(g)
BY DEF Sound, Grows

\* A command that is sound, with operations that are ready
LEMMA HoldsNext ==
  ASSUME HoldInv, Sound(git, git'), TaskKept', made' \subseteq Edits, made' \subseteq Held(git'),
         \A u \in tasks' : Ready(u.card, u.todo)', mode' = "down" => tasks' = {}
  PROVE  HoldInv'
<1>1. History(git') /\ Created(git') /\ \A b \in 0..N : git.tip[b] # None => git'.tip[b] # None
  BY DEF Sound
<1>2. 0 \in 0..N
  BY GitSourceAssumption
<1>3. git'.tip[0] # None
  BY <1>1, <1>2 DEF HoldInv
<1>4. NoWorkLost'
  BY DEF NoWorkLost
<1> QED BY <1>1, <1>3, <1>4 DEF HoldInv

\* What was held and written still is.
LEMMA MadeStays ==
  ASSUME HoldInv, Held(git) \subseteq Held(git'), UNCHANGED made
  PROVE  made' \subseteq Edits /\ made' \subseteq Held(git')
BY DEF HoldInv, NoWorkLost

\* A step that leaves repository and facts
LEMMA StillHolds ==
  ASSUME HoldInv, UNCHANGED <<git, facts, made>>, \A u \in tasks' : Ready(u.card, u.todo), mode' = "down" => tasks' = {}
  PROVE  HoldInv'
<1>1. Sound(git, git') /\ Held(git) \subseteq Held(git')
  BY SoundSame DEF HoldInv
<1>2. TaskKept' /\ made' \subseteq Edits /\ made' \subseteq Held(git')
  BY <1>1, TaskKeptOn, MadeStays
<1>3. ASSUME NEW u \in tasks' PROVE Ready(u.card, u.todo)'
  BY ReadyStands
<1> QED BY <1>1, <1>2, <1>3, HoldsNext

\* A step that leaves no operation
LEMMA QuietHolds ==
  ASSUME HoldInv, Sound(git, git'), Held(git) \subseteq Held(git'), UNCHANGED <<facts, made>>, tasks' = {}
  PROVE  HoldInv'
<1>1. TaskKept' /\ made' \subseteq Edits /\ made' \subseteq Held(git')
  BY TaskKeptOn, MadeStays
<1> QED BY <1>1, HoldsNext

\* Doom changes neither card nor steps.
LEMMA DoomedSame ==
  ASSUME SourceInv, HoldInv, NEW t \in tasks, NEW u, u = [t EXCEPT !.doomed = TRUE]
  PROVE  Ready(u.card, u.todo)
<1>1. "card" \in DOMAIN t /\ "todo" \in DOMAIN t
  BY DEF SourceInv, TaskInv, IsTask, PlanInv, Planned
<1>2. u.card = t.card /\ u.todo = t.todo
  BY <1>1
<1> QED BY <1>2 DEF HoldInv

\* beginHalt
LEMMA HaltHolds ==
  ASSUME SourceInv, HoldInv, NEW all \in SUBSET tasks, Halt(all), UNCHANGED <<git, facts, made>>
  PROVE  HoldInv'
<1>1. mode' # "down" /\ \A u \in tasks' : \E t \in tasks : u = [t EXCEPT !.doomed = TRUE]
  BY DEF Halt
<1>2. \A u \in tasks' : Ready(u.card, u.todo)
  BY <1>1, DoomedSame
<1> QED BY <1>1, <1>2, StillHolds

\* sourceOperation
LEMMA BeginHolds ==
  ASSUME SourceInv, HoldInv, mode = "run", NEW x, tasks = {} => Ready(x.card, x.todo), x.card = depth, Begin(x),
         UNCHANGED <<git, facts, made>>
  PROVE  HoldInv'
<1>1. CASE tasks = {}
  <2>1. tasks' = {x} /\ mode' = "run"
    BY <1>1 DEF Begin
  <2> QED BY <1>1, <2>1, StillHolds
<1>2. CASE tasks # {}
  <2>1. \E u \in tasks : u.card = x.card
    BY <1>2 DEF SourceInv, TaskInv
  <2>2. Halt(tasks)
    BY <2>1 DEF Begin
  <2> QED BY <2>2, HaltHolds
<1> QED BY <1>1, <1>2

\* A command of the operation in progress
LEMMA RunHolds ==
  ASSUME SourceInv, OwnerInv, HoldInv, Hooks = FALSE, NEW t \in tasks, RunCommand(t)
  PROVE  HoldInv'
<1>1. /\ mode = "run" /\ UNCHANGED <<facts, mode, made>>
      /\ \E g \in Command(t) : git' = g /\ tasks' = (tasks \ {t}) \cup {[t EXCEPT !.todo = After(t, g)]}
  BY DEF RunCommand, Current
<1>2. PICK g \in Command(t) : git' = g /\ tasks' = (tasks \ {t}) \cup {[t EXCEPT !.todo = After(t, g)]}
  BY <1>1
<1>3. PICK d : d = After(t, g)
  OBVIOUS
<1>4. /\ tasks = {t} /\ {"card", "kind", "todo", "doomed"} \subseteq DOMAIN t /\ t.card \in Cards
      /\ StageOf(t.kind, t.doomed, t.card, t.todo)
  BY <1>1, Running
<1>5. Sound(git, git') /\ Held(git) \subseteq Held(git')
  BY <1>2, <1>4, CommandHolds
<1>6. TaskKept' /\ made' \subseteq Edits /\ made' \subseteq Held(git')
  BY <1>1, <1>5, TaskKeptOn, MadeStays
<1>7. Ready(t.card, d)'
  <2>1. CASE CheckpointStage(t.card, t.todo)
    BY <1>2, <1>3, <2>1, CheckpointGoesOn
  <2>2. CASE EnterStage(t.card, t.todo)
    BY <1>1, <1>2, <1>3, <1>4, <2>2, EnterGoesOn
  <2>3. CASE ReturnStage(t.card, t.todo)
    BY <1>1, <1>2, <1>3, <1>4, <2>3, ReturnGoesOn
  <2>4. CASE DeliverStage(t.card, t.todo)
    BY <1>1, <1>2, <1>3, <1>4, <2>4, DeliverGoesOn
  <2> QED BY <1>4, <2>1, <2>2, <2>3, <2>4 DEF StageOf
<1>8. PICK u : u = [t EXCEPT !.todo = d]
  OBVIOUS
<1>9. tasks' = {u} /\ u.card = t.card /\ u.todo = d
  BY <1>2, <1>3, <1>4, <1>8, TaskFields
<1>10. Ready(u.card, u.todo)'
  BY <1>7, <1>9
<1> QED BY <1>1, <1>5, <1>6, <1>9, <1>10, HoldsNext

\* The abort of a return does not replay.
LEMMA AbortingPlain == ASSUME NEW r \in Returned PROVE Aborting(r) \notin Replaying
<1>1. Head(Aborting(r)) = "abort" /\ Head(Tail(Aborting(r))) = "restore"
  BY ReturnParts
<1>2. \A s \in Replaying : Head(s) = "abort" => Head(Tail(s)) = "publishTask"
  BY ListParts DEF Replaying, Replays
<1> QED BY <1>1, <1>2

\* The observations before an abort find the source in the snapshot a ref keeps.
LEMMA VerifyHolds ==
  ASSUME SourceInv, OwnerInv, HoldInv, NEW t \in tasks, VerifySnapshot(t)
  PROVE  HoldInv'
<1>1. PICK c : c = t.card
  OBVIOUS
<1>2. PICK d : d = IF SourceMatchesSnapshot(c) THEN Tail(t.todo) ELSE <<"failed">>
  OBVIOUS
<1>3. /\ mode = "run" /\ Head(t.todo) = "verify" /\ UNCHANGED <<git, facts, mode, made>>
      /\ tasks' = (tasks \ {t}) \cup {[t EXCEPT !.todo = d]}
  BY <1>1, <1>2 DEF VerifySnapshot, Current
<1>4. /\ tasks = {t} /\ {"card", "kind", "todo", "doomed"} \subseteq DOMAIN t /\ ReturnStage(c, t.todo)
  BY <1>1, <1>3, Running, StageHeads
<1>5. PICK r \in Returned : t.todo = Checking(r) /\ git.branch = c
  <2>1. \A r \in Returned : Head(r) = "publish"
    BY ListParts DEF Returned
  <2>2. Head(<<"failed">>) = "failed" /\ Head(<<"reenter">>) = "reenter"
    BY ListParts
  <2> QED BY <1>3, <1>4, <2>1, <2>2, ReturnParts DEF ReturnStage
<1>6. Ready(c, d)
  <2>1. CASE SourceMatchesSnapshot(c)
    <3>1. d = Aborting(r)
      BY <1>2, <1>5, <2>1, ReturnParts
    <3>2. Head(d) = "abort" /\ d \notin Replaying /\ d \notin Replays
      BY <3>1, ReturnParts, AbortingPlain DEF Replaying
    <3>3. /\ git.rebase = [start |-> git.tip[c], onto |-> facts[c].corr.onto]
          /\ git.tree = Tree(git, facts[c].corr.snap) /\ facts[c].corr.snap \in git.kept
      BY <2>1 DEF SourceMatchesSnapshot, IdentifiedRebase
    <3>4. git.rebase.start = git.tip[git.branch]
      BY <1>5, <3>3
    <3>5. facts[c].corr.snap \in Roots(git) /\ facts[c].corr.snap # None
      BY <3>3 DEF Roots, HoldInv, History, None
    <3>6. facts[c].corr.snap \in Reachable(git)
      BY <3>5, ReachableRoots DEF HoldInv
    <3> QED BY <3>2, <3>3, <3>4, <3>6 DEF Ready
  <2>2. CASE ~SourceMatchesSnapshot(c)
    <3>1. Head(d) = "failed"
      BY <1>2, <2>2, ListParts
    <3> QED BY <3>1, QuietHeads
  <2> QED BY <2>1, <2>2
<1>7. PICK u : u = [t EXCEPT !.todo = d]
  OBVIOUS
<1>8. tasks' = {u} /\ u.card = c /\ u.todo = d
  BY <1>1, <1>3, <1>4, <1>7, TaskFields
<1>9. mode' # "down"
  BY <1>3
<1> QED BY <1>3, <1>6, <1>8, <1>9, StillHolds

\* What a publication makes of the correction task
SameTask(p, q) == p.base = q.base /\ p.orig = q.orig
Corrected(t, p) ==
  \/ p = NoTask
  \/ p = facts[t.card].corr
  \/ Head(t.todo) = "publishSnapshot" /\ SameTask(p, facts[t.card].corr) /\ p.onto = facts[t.card].corr.onto
  \/ /\ t.kind = "enter" /\ Head(t.todo) = "publish" /\ Corrects(t.card)
     /\ SameTask(p, facts[t.card].corr) /\ p.onto = ParentTip(t.card)
  \/ Head(t.todo) = "publishTask" /\ p.base = ReplayBase(t.card) /\ p.orig = git.tip[t.card] /\ p.onto = ParentTip(t.card)

\* The correction that a publication writes is one of these.
LEMMA PublishedCorr ==
  ASSUME SourceInv, NEW t \in tasks, t.card \in Cards,
         Head(t.todo) \in {"publish", "publishTask", "publishSnapshot", "publishVerified"},
         Head(t.todo) = "publishTask" => t.kind = "enter", Head(t.todo) \in {"publishSnapshot", "publishVerified"} => t.kind = "return"
  PROVE  Corrected(t, Published(t).corr)
<1> DEFINE c == t.card
           f == facts[c]
           saved == [f EXCEPT !.tip = git.tip[c], !.cand = None, !.done = None]
           entered == [NoFacts EXCEPT !.tip = git.tip[c], !.ptip = ParentTip(c), !.base = ParentTip(c)]
<1>1. f \in FactRecords /\ f.corr \in Corrections
  BY DEF SourceInv, FactInv, FactRecords
<1>2. saved.corr = f.corr /\ DOMAIN saved = {"tip", "ptip", "base", "cand", "done", "corr"}
  BY <1>1 DEF FactRecords
<1>3. entered.corr = NoTask /\ DOMAIN entered = {"tip", "ptip", "base", "cand", "done", "corr"}
  BY DEF NoFacts
<1>4. CASE Head(t.todo) = "publishTask"
  <2>1. Published(t) = [entered EXCEPT !.base = ReplayBase(c),
                          !.corr = [base |-> ReplayBase(c), orig |-> git.tip[c], onto |-> ParentTip(c), snap |-> None]]
    BY <1>4 DEF Published
  <2>2. PICK q : q = [base |-> ReplayBase(c), orig |-> git.tip[c], onto |-> ParentTip(c), snap |-> None]
    OBVIOUS
  <2>3. PICK z : Published(t) = [entered EXCEPT !.base = z, !.corr = q]
    BY <2>1, <2>2
  <2>4. Published(t).corr = q
    <3> HIDE DEF entered
    <3> QED BY <1>3, <2>3
  <2> QED BY <1>4, <2>2, <2>4 DEF Corrected
<1>5. CASE Head(t.todo) = "publishSnapshot"
  <2>1. Published(t) = [f EXCEPT !.cand = None, !.done = None, !.corr.snap = Newest(git)]
    BY <1>5 DEF Published
  <2>2. PICK n : Published(t) = [f EXCEPT !.cand = None, !.done = None, !.corr = [f.corr EXCEPT !.snap = n]]
    BY <2>1
  <2>3. PICK q : q = [f.corr EXCEPT !.snap = n]
    OBVIOUS
  <2>4. Published(t).corr = q
    BY <1>1, <2>2, <2>3 DEF FactRecords
  <2>5. SameTask(q, f.corr) /\ q.onto = f.corr.onto
    BY <1>1, <2>3 DEF Corrections, SameTask
  <2> QED BY <1>5, <2>4, <2>5 DEF Corrected
<1>6. CASE Head(t.todo) = "publishVerified"
  <2>1. Published(t) = [saved EXCEPT !.base = f.corr.onto]
    BY <1>6 DEF Published
  <2>2. Published(t).corr = f.corr
    BY <1>1, <2>1 DEF FactRecords
  <2> QED BY <2>2 DEF Corrected
<1>7. CASE Head(t.todo) = "publish" /\ t.kind = "enter" /\ Corrects(c)
  <2>1. Published(t) = [f EXCEPT !.ptip = ParentTip(c), !.corr.onto = ParentTip(c)]
    BY <1>7 DEF Published
  <2>2. PICK n : n = ParentTip(c)
    OBVIOUS
  <2>3. PICK q : q = [f.corr EXCEPT !.onto = n]
    OBVIOUS
  <2>4. Published(t).corr = q
    BY <1>1, <2>1, <2>2, <2>3 DEF FactRecords
  <2>5. SameTask(q, f.corr) /\ q.onto = n
    BY <1>1, <2>3 DEF Corrections, SameTask
  <2> QED BY <1>7, <2>2, <2>4, <2>5 DEF Corrected
<1>8. CASE Head(t.todo) = "publish" /\ t.kind = "enter" /\ ~Corrects(c)
  <2>1. Published(t) = entered
    BY <1>8 DEF Published
  <2> QED BY <1>3, <2>1 DEF Corrected
<1>9. CASE Head(t.todo) = "publish" /\ t.kind # "enter"
  <2>1. Published(t) \in {saved, [f EXCEPT !.tip = git.tip[c], !.cand = git.tip[c]], [f EXCEPT !.tip = git.tip[c], !.cand = None],
                          [f EXCEPT !.ptip = git.tip[c - 1], !.cand = None, !.done = accepted[c]]}
    BY <1>9 DEF Published
  <2>2. Published(t).corr = f.corr
    BY <1>1, <1>2, <2>1 DEF FactRecords
  <2> QED BY <2>2 DEF Corrected
<1> QED BY <1>4, <1>5, <1>6, <1>7, <1>8, <1>9

\* The steps after a publication rely on nothing, and a correction task is published
\* by an entry.
LEMMA PublishParts ==
  ASSUME NEW k, NEW b, NEW c, NEW s, StageOf(k, b, c, s), Head(s) \in {"publish", "publishTask", "publishSnapshot", "publishVerified"}
  PROVE  /\ Len(s) = 1 \/ Head(Tail(s)) \in {"admit", "reenter", "verify", "commit"}
         /\ Head(s) = "publishTask" => (s = <<"publishTask">> /\ git.tip[c - 1] = ParentTip(c))
         /\ k = "enter" => git.tip[c - 1] = ParentTip(c)
         /\ (Head(s) = "publishTask" => k = "enter") /\ (Head(s) \in {"publishSnapshot", "publishVerified"} => k = "return")
<1>1. CASE k \in Checkpoints /\ CheckpointStage(c, s)
  <2>1. \A x \in CheckpointPlans \ {<<"publish">>, <<"publish", "admit">>} : Head(x) \in {"commit", "admit", "failed"}
    BY ListParts DEF CheckpointPlans
  <2>2. s \in {<<"publish">>, <<"publish", "admit">>} /\ k # "enter"
    BY <1>1, <2>1 DEF CheckpointStage, Checkpoints
  <2> QED BY <2>2, ListParts
<1>2. CASE k = "enter" /\ EnterStage(c, s)
  <2>1. \A x \in EnterOutside : Head(x) \in {"refused", "create", "switch"}
    BY ListParts DEF EnterOutside
  <2>2. \A x \in EnterInside \ {<<"publish">>, <<"publishTask">>} : Head(x) \in {"retain", "rebase", "abort"}
    BY ListParts DEF EnterInside
  <2>3. s # <<"failed">>
    BY ListParts
  <2>4. s \in EnterInside /\ git.tip[c - 1] = ParentTip(c)
    BY <1>2, <2>1, <2>3 DEF EnterStage
  <2>5. s \in {<<"publish">>, <<"publishTask">>}
    BY <2>2, <2>4
  <2>6. Len(s) = 1 /\ Head(s) \in {"publish", "publishTask"} /\ (Head(s) = "publishTask" => s = <<"publishTask">>)
    BY <2>5, ListParts
  <2> QED BY <1>2, <2>4, <2>6
<1>3. CASE k = "return" /\ ReturnStage(c, s)
  <2>1. s # <<"failed">> /\ s # <<"reenter">>
    BY ListParts
  <2>2. \A r \in Returned : s \notin {Leaving(r), Saving(r), Restoring(r), Aborting(r), Checking(r), Capturing(r)}
    BY ReturnParts
  <2>3. s \in Returned \/ \E r \in Returned : s = Noting(r) \/ s = Verifying(r)
    BY <1>3, <2>1, <2>2 DEF ReturnStage
  <2>4. CASE s \in Returned
    BY <1>3, <2>4, ListParts DEF Returned
  <2>5. ASSUME NEW r \in Returned, s = Noting(r) \/ s = Verifying(r)
        PROVE  Head(Tail(s)) \in {"verify", "commit"} /\ Head(s) # "publishTask"
    <3>1. /\ Head(Noting(r)) = "publishSnapshot" /\ Tail(Noting(r)) = Checking(r) /\ Head(Checking(r)) = "verify"
          /\ Head(Verifying(r)) = "publishVerified" /\ Tail(Verifying(r)) = Saving(r) /\ Head(Saving(r)) = "commit"
      BY ReturnParts
    <3>2. CASE s = Noting(r)
      BY <3>1, <3>2
    <3>3. CASE s = Verifying(r)
      BY <3>1, <3>3
    <3> QED BY <2>5, <3>2, <3>3
  <2> QED BY <1>3, <2>3, <2>4, <2>5
<1>4. CASE k = "deliver" /\ DeliverStage(c, s)
  <2>1. s \notin {<<"failed">>, DeliverTodo, <<"squash", "publishParent", "publish">>, <<"publishParent", "publish">>}
    BY ListParts DEF DeliverTodo
  <2>2. s = <<"publish">>
    BY <1>4, <2>1 DEF DeliverStage
  <2> QED BY <1>4, <2>2, ListParts
<1> QED BY <1>1, <1>2, <1>3, <1>4 DEF StageOf

\* A publication keeps the original of the correction task that it publishes.
LEMMA PublishHolds ==
  ASSUME SourceInv, OwnerInv, HoldInv, NEW t \in tasks, Publish(t)
  PROVE  HoldInv'
<1>1. PICK c, s : c = t.card /\ s = t.todo
  OBVIOUS
<1>2. /\ mode = "run" /\ mode' \in {"run", "idle"} /\ UNCHANGED <<git, made>> /\ facts' = [facts EXCEPT ![c] = Published(t)]
      /\ Head(s) \in {"publish", "publishTask", "publishSnapshot", "publishVerified"}
      /\ tasks' = (tasks \ {t}) \cup IF Len(s) = 1 THEN {} ELSE {[t EXCEPT !.todo = Tail(s)]}
  BY <1>1 DEF Publish, Current
<1>3. /\ tasks = {t} /\ {"card", "kind", "todo", "doomed"} \subseteq DOMAIN t /\ c \in Cards
      /\ StageOf(t.kind, t.doomed, c, s) /\ c \in 0..N /\ Ready(c, s)
  BY <1>1, <1>2, Running, CardNumbers DEF HoldInv
<1>4. facts'[c] = Published(t) /\ \A k \in Cards : k # c => facts'[k] = facts[k]
  BY <1>2, <1>3 DEF SourceInv, FactInv
<1>5. PICK p : p = Published(t).corr
  OBVIOUS
<1>6. /\ Len(s) = 1 \/ Head(Tail(s)) \in {"admit", "reenter", "verify", "commit"}
      /\ Head(s) = "publishTask" => (s = <<"publishTask">> /\ git.tip[c - 1] = ParentTip(c))
      /\ t.kind = "enter" => git.tip[c - 1] = ParentTip(c)
      /\ (Head(s) = "publishTask" => t.kind = "enter") /\ (Head(s) \in {"publishSnapshot", "publishVerified"} => t.kind = "return")
  BY <1>2, <1>3, PublishParts
<1>7. Corrected(t, p)
  BY <1>1, <1>2, <1>3, <1>5, <1>6, PublishedCorr
<1>8. History(git) /\ Created(git) /\ git.kept \subseteq 1..Len(git.commits)
  BY DEF HoldInv, History
<1>9. Corrects(c) => /\ git.tip[c] # None /\ facts[c].corr.onto # None /\ facts[c].corr.orig \in git.kept
                     /\ IsAncestor(git, facts[c].corr.base, facts[c].corr.orig)
  BY <1>3 DEF HoldInv, TaskKept
<1>10. ASSUME p # NoTask
       PROVE  git.tip[c] # None /\ p.onto # None /\ p.orig \in git.kept /\ IsAncestor(git, p.base, p.orig)
  <2>1. CASE p = facts[c].corr
    BY <1>9, <1>10, <2>1 DEF Corrects
  <2>2. CASE Head(s) = "publishSnapshot" /\ SameTask(p, facts[c].corr) /\ p.onto = facts[c].corr.onto
    <3>1. Corrects(c)
      BY <1>3, <2>2 DEF Ready
    <3> QED BY <1>9, <2>2, <3>1 DEF SameTask
  <2>3. CASE t.kind = "enter" /\ Corrects(c) /\ SameTask(p, facts[c].corr) /\ p.onto = ParentTip(c)
    <3>1. git.tip[c - 1] # None
      BY <1>3, <1>8, <1>9, <2>3 DEF Created
    <3> QED BY <1>6, <1>9, <2>3, <3>1 DEF SameTask
  <2>4. CASE Head(s) = "publishTask" /\ p.base = ReplayBase(c) /\ p.orig = git.tip[c] /\ p.onto = ParentTip(c)
    <3>1. git.tip[c] \in git.kept /\ IsAncestor(git, ReplayBase(c), git.tip[c])
      BY <1>3, <1>6, <2>4 DEF Ready, Replaying, Replays
    <3>2. git.tip[c] # None
      BY <1>8, <3>1 DEF None
    <3>3. git.tip[c - 1] # None
      BY <1>3, <1>8, <3>2 DEF Created
    <3> QED BY <1>6, <2>4, <3>1, <3>2, <3>3
  <2> QED BY <1>1, <1>7, <1>10, <2>1, <2>2, <2>3, <2>4 DEF Corrected
<1>11. TaskKept'
  <2> SUFFICES ASSUME NEW k \in Cards, Corrects(k)'
               PROVE  /\ git'.tip[k] # None /\ facts'[k].corr.onto # None
                      /\ facts'[k].corr.orig \in git'.kept /\ IsAncestor(git', facts'[k].corr.base, facts'[k].corr.orig)
    BY DEF TaskKept
  <2>1. CASE k = c
    BY <1>2, <1>4, <1>5, <1>10, <2>1 DEF Corrects
  <2>2. CASE k # c
    BY <1>2, <1>4, <2>2 DEF Corrects, HoldInv, TaskKept
  <2> QED BY <2>1, <2>2
<1>12. Sound(git, git') /\ Held(git) \subseteq Held(git')
  BY <1>2, <1>8, SoundSame
<1>13. made' \subseteq Edits /\ made' \subseteq Held(git')
  BY <1>2, <1>12, MadeStays
<1>14. ASSUME NEW u \in tasks' PROVE Ready(u.card, u.todo)'
  <2>1. PICK d : d = Tail(s)
    OBVIOUS
  <2>2. Len(s) # 1 /\ u = [t EXCEPT !.todo = d]
    BY <1>2, <1>3, <1>14, <2>1
  <2>3. u.todo = d
    BY <1>3, <2>2, TaskFields
  <2>4. Head(u.todo) \in {"admit", "reenter", "verify", "commit"}
    BY <1>6, <2>1, <2>2, <2>3
  <2> QED BY <2>4, QuietNext
<1> QED BY <1>2, <1>11, <1>12, <1>13, <1>14, HoldsNext

\* The parent's facts keep their correction task.
LEMMA ParentHolds ==
  ASSUME SourceInv, OwnerInv, HoldInv, NEW t \in tasks, PublishParent(t)
  PROVE  HoldInv'
<1>1. PICK c, s : c = t.card /\ s = t.todo
  OBVIOUS
<1>2. /\ mode = "run" /\ UNCHANGED <<git, made, mode>> /\ Head(s) = "publishParent"
      /\ tasks' = (tasks \ {t}) \cup {[t EXCEPT !.todo = Tail(s)]}
  BY <1>1 DEF PublishParent, Current
<1>3. /\ tasks = {t} /\ {"card", "kind", "todo", "doomed"} \subseteq DOMAIN t /\ c \in Cards /\ DeliverStage(c, s)
      /\ (c # 1 => c - 1 \in Cards)
  BY <1>1, <1>2, Running, StageHeads, CardNumbers
<1>4. \A k \in Cards : facts'[k].corr = facts[k].corr
  <2>1. CASE c = 1
    BY <1>1, <2>1 DEF PublishParent
  <2>2. CASE c # 1
    <3>1. PICK p \in Cards : p = c - 1
      BY <1>3, <2>2
    <3>2. PICK x, f : x = git.tip[p] /\ f = [facts[p] EXCEPT !.tip = x, !.cand = None, !.done = None]
      OBVIOUS
    <3>3. facts' = [facts EXCEPT ![p] = f]
      BY <1>1, <2>2, <3>1, <3>2 DEF PublishParent
    <3>4. facts[p] \in FactRecords /\ DOMAIN facts = Cards
      BY DEF SourceInv, FactInv
    <3>5. f.corr = facts[p].corr
      BY <3>2, <3>4 DEF FactRecords
    <3> QED BY <3>3, <3>4, <3>5
  <2> QED BY <2>1, <2>2
<1>5. TaskKept'
  BY <1>2, <1>4 DEF Corrects, HoldInv, TaskKept
<1>6. Sound(git, git') /\ Held(git) \subseteq Held(git')
  BY <1>2, SoundSame DEF HoldInv
<1>7. made' \subseteq Edits /\ made' \subseteq Held(git')
  BY <1>2, <1>6, MadeStays
<1>8. PICK d : d = Tail(s)
  OBVIOUS
<1>9. d = <<"publish">>
  <2>1. s \notin {<<"failed">>, DeliverTodo, <<"squash", "publishParent", "publish">>, <<"publish">>}
    BY <1>2, ListParts DEF DeliverTodo
  <2>2. s = <<"publishParent", "publish">>
    BY <1>3, <2>1 DEF DeliverStage
  <2> QED BY <1>8, <2>2, ListParts
<1>10. ASSUME NEW u \in tasks' PROVE Ready(u.card, u.todo)'
  <2>1. u = [t EXCEPT !.todo = d]
    BY <1>2, <1>3, <1>8, <1>10
  <2>2. Head(u.todo) = "publish"
    BY <1>3, <1>9, <2>1, TaskFields, ListParts
  <2> QED BY <2>2, QuietNext
<1> QED BY <1>2, <1>5, <1>6, <1>7, <1>10, HoldsNext

\* The rest of a native operation: its refusal, its failure and its doom leave none.
LEMMA NativeHolds ==
  ASSUME SourceInv, OwnerInv, HoldInv, Hooks = FALSE, Native
  PROVE  HoldInv'
<1>1. PICK t \in tasks : \/ RunCommand(t) \/ VerifySnapshot(t) \/ Publish(t) \/ PublishParent(t) \/ Admit(t)
                         \/ StepFails(t) \/ EntryRefused(t) \/ EndDoomed(t)
  BY DEF Native
<1>2. tasks = {t} /\ t.card \in Cards
  BY DEF SourceInv, TaskInv, PlanInv, Planned
<1>3. History(git) /\ Created(git)
  BY DEF HoldInv
<1>4. CASE Admit(t)
  <2>1. PICK c : c = IF Head(t.todo) = "admit" THEN t.card + 1 ELSE t.card
    OBVIOUS
  <2>2. /\ mode = "run" /\ UNCHANGED <<git, facts, mode, made>> /\ tasks' = (tasks \ {t}) \cup {EnterTask(c)} /\ c \in Cards
    BY <1>4, <2>1, AdmitsACard DEF Admit, Current
  <2>3. PICK x : x = EnterTask(c)
    OBVIOUS
  <2>4. x.card = c /\ Ready(c, x.todo) /\ tasks' = {x} /\ mode' # "down"
    BY <1>2, <2>2, <2>3, EnterReady
  <2> QED BY <2>2, <2>4, StillHolds
<1>5. CASE StepFails(t)
  <2>1. Halt(tasks \ {t}) /\ UNCHANGED <<git, facts, made>>
    BY <1>5 DEF StepFails
  <2> QED BY <2>1, HaltHolds
<1>6. CASE EntryRefused(t)
  <2>1. tasks' = {} /\ UNCHANGED <<git, facts, made>>
    BY <1>2, <1>6 DEF EntryRefused
  <2> QED BY <2>1, StillHolds
<1>7. CASE EndDoomed(t)
  <2>1. UNCHANGED <<facts, made>> /\ tasks' = {} /\ (git' = git \/ git' \in Command(t))
    BY <1>2, <1>7 DEF EndDoomed, Halt
  <2>2. Sound(git, git') /\ Held(git) \subseteq Held(git')
    BY <1>2, <1>3, <2>1, SoundSame, CommandHolds
  <2> QED BY <2>1, <2>2, QuietHolds
<1> QED BY <1>1, <1>4, <1>5, <1>6, <1>7, RunHolds, VerifyHolds, PublishHolds, ParentHolds

\* A checkpoint, a return and a delivery begin ready.
LEMMA AskedReady ==
  ASSUME NEW c, git.branch = c,
         NEW x, \/ \E k, r : x = CheckpointTask(c, k, r) /\ r \in {<<>>, <<"admit">>}
                \/ \E k : x = Task(c, k, <<"commit", "publish">>)
                \/ \E r \in {<<>>, <<"reenter">>} : x = ReturnTask(c, r)
                \/ x = DeliverTask(c)
  PROVE  x.card = c /\ Ready(c, x.todo)
<1>1. ASSUME NEW k, NEW r \in {<<>>, <<"admit">>}, x = CheckpointTask(c, k, r) PROVE x.card = c /\ Ready(c, x.todo)
  <2>1. x.card = c /\ x.todo \in {<<"failed">>, <<"commit", "publish">> \o r}
    BY <1>1 DEF CheckpointTask, Task
  <2>2. CASE r = <<>>
    <3>1. <<"commit", "publish">> \o r = <<"commit", "publish">>
      BY <2>2
    <3>2. Head(x.todo) \in {"failed", "commit"}
      BY <2>1, <3>1, ListParts
    <3> QED BY <2>1, <3>2, QuietHeads
  <2>3. CASE r = <<"admit">>
    <3> DEFINE S == {"commit", "publish", "admit"}
    <3>1. "commit" \in S /\ "publish" \in S /\ "admit" \in S
      OBVIOUS
    <3>2. <<"commit", "publish">> \o <<"admit">> = <<"commit", "publish", "admit">>
      BY <3>1, TwoThenOne
    <3>3. Head(x.todo) \in {"failed", "commit"}
      BY <2>1, <2>3, <3>2, ListParts
    <3> QED BY <2>1, <3>3, QuietHeads
  <2> QED BY <2>2, <2>3
<1>2. ASSUME NEW k, x = Task(c, k, <<"commit", "publish">>) PROVE x.card = c /\ Ready(c, x.todo)
  <2>1. x.card = c /\ x.todo = <<"commit", "publish">>
    BY <1>2 DEF Task
  <2>2. Head(x.todo) = "commit"
    BY <2>1, ListParts
  <2> QED BY <2>1, <2>2, QuietHeads
<1>3. ASSUME NEW rest \in {<<>>, <<"reenter">>}, x = ReturnTask(c, rest) PROVE x.card = c /\ Ready(c, x.todo)
  <2>1. PICK r \in Returned :
           /\ <<"commit", "leave", "publish">> \o rest = Saving(r)
           /\ <<"publishVerified">> \o <<"commit", "leave", "publish">> \o rest = Verifying(r)
           /\ <<"capture", "publishSnapshot", "verify", "abort", "restore", "commit", "leave", "publish">> \o rest = Capturing(r)
    BY ReturnForms
  <2>2. PICK s : /\ x = Task(c, "return", s)
                 /\ s \in {<<"failed">>, Saving(r), Verifying(r)} \/ (s = Capturing(r) /\ Corrects(c))
    <3>1. CASE Corrects(c) /\ HasRebase(git)
      BY <1>3, <2>1, <3>1 DEF ReturnTask, ReturnTodo
    <3>2. CASE ~(Corrects(c) /\ HasRebase(git))
      <4>1. ReturnTodo(c) = <<"commit", "leave", "publish">>
        BY <3>2 DEF ReturnTodo
      <4> QED BY <1>3, <2>1, <3>2, <4>1 DEF ReturnTask
    <3> QED BY <3>1, <3>2
  <2>3. x.card = c /\ x.todo = s
    BY <2>2 DEF Task
  <2>4. CASE s \in {<<"failed">>, Saving(r), Verifying(r)}
    <3>1. Head(s) \in {"failed", "commit", "publishVerified"}
      BY <2>4, ReturnParts, ListParts
    <3> QED BY <2>3, <3>1, QuietHeads
  <2>5. CASE s = Capturing(r) /\ Corrects(c)
    <3>1. Head(s) = "capture" /\ s \notin Replaying /\ s \notin Replays
      BY <2>5, ReturnParts, ReplayingHeads DEF Replaying
    <3> QED BY <2>3, <2>5, <3>1 DEF Ready
  <2> QED BY <2>2, <2>4, <2>5
<1>4. ASSUME x = DeliverTask(c) PROVE x.card = c /\ Ready(c, x.todo)
  <2>1. x.card = c /\ x.todo \in {<<"failed">>, DeliverTodo}
    BY <1>4 DEF DeliverTask, Task
  <2>2. CASE x.todo = <<"failed">>
    <3>1. Head(x.todo) = "failed"
      BY <2>2, ListParts
    <3> QED BY <2>1, <3>1, QuietHeads
  <2>3. CASE x.todo = DeliverTodo
    <3>1. Head(x.todo) = "leave"
      BY <2>3, ListParts DEF DeliverTodo
    <3>2. x.todo \notin Replaying /\ x.todo \notin Replays
      BY <3>1, ReplayingHeads DEF Replaying
    <3> QED BY <2>1, <3>1, <3>2 DEF Ready
  <2> QED BY <2>1, <2>2, <2>3
<1> QED BY <1>1, <1>2, <1>3, <1>4

\* What a card asks for
LEMMA CardHolds ==
  ASSUME SourceInv, OwnerInv, HoldInv, Card
  PROVE  HoldInv'
<1>1. PICK c \in Cards :
          \/ CheckpointSource(c) \/ ActivateChild(c) \/ PrepareCandidate(c) \/ AcceptResult(c)
          \/ CompleteCorrection(c) \/ SettleResult(c)
          \/ SettleInterrupted(c) \/ SettleBoundary(c) \/ InterruptNode(c)
          \/ \E b \in 0..(N + 1) : Interrupt(c, b)
  BY DEF Card
<1>2. CASE \/ CheckpointSource(c) \/ ActivateChild(c) \/ PrepareCandidate(c) \/ SettleResult(c)
           \/ SettleInterrupted(c) \/ SettleBoundary(c)
  <2>1. PICK x : /\ mode = "run" /\ depth = c /\ Begin(x) /\ UNCHANGED <<git, facts, made>>
                 /\ \/ x = CheckpointTask(c, "checkpoint", <<>>) \/ x = CheckpointTask(c, "handoff", <<"admit">>)
                    \/ x = Task(c, "prepare", <<"commit", "publish">>) \/ x = CheckpointTask(c, "urgent", <<>>)
                    \/ x = ReturnTask(c, <<>>) \/ x = ReturnTask(c, <<"reenter">>) \/ x = DeliverTask(c)
    BY <1>2 DEF CheckpointSource, ActivateChild, PrepareCandidate, SettleResult, SettleInterrupted, SettleBoundary, Working
  <2>2. x.card = c
    BY <2>1, AskedForm, TaskForm
  <2>3. ASSUME tasks = {} PROVE Ready(x.card, x.todo)
    <3>1. git.branch = c
      BY <2>1, <2>3 DEF OwnerInv
    <3>2. \/ \E k, r : x = CheckpointTask(c, k, r) /\ r \in {<<>>, <<"admit">>}
          \/ \E k : x = Task(c, k, <<"commit", "publish">>)
          \/ \E r \in {<<>>, <<"reenter">>} : x = ReturnTask(c, r)
          \/ x = DeliverTask(c)
      BY <2>1
    <3> QED BY <2>2, <3>1, <3>2, AskedReady
  <2> QED BY <2>1, <2>2, <2>3, BeginHolds
<1>3. CASE AcceptResult(c)
  <2>1. UNCHANGED <<git, facts, made, tasks, mode>>
    BY <1>3 DEF AcceptResult
  <2>2. \A u \in tasks' : Ready(u.card, u.todo)
    BY <2>1 DEF HoldInv
  <2>3. mode' = "down" => tasks' = {}
    BY <2>1 DEF HoldInv
  <2> QED BY <2>1, <2>2, <2>3, StillHolds
<1>4. CASE CompleteCorrection(c)
  <2>1. tasks' = {} /\ UNCHANGED <<git, made>>
    BY <1>4 DEF CompleteCorrection, Working
  <2>2. PICK f : facts' = [facts EXCEPT ![c] = f] /\ f.corr = NoTask
    <3>1. facts[c] \in FactRecords
      BY DEF SourceInv, FactInv
    <3>2. PICK x, y : facts' = [facts EXCEPT ![c] = [facts[c] EXCEPT !.tip = x, !.base = y, !.cand = None, !.done = None, !.corr = NoTask]]
      BY <1>4 DEF CompleteCorrection
    <3>3. [facts[c] EXCEPT !.tip = x, !.base = y, !.cand = None, !.done = None, !.corr = NoTask].corr = NoTask
      BY <3>1 DEF FactRecords
    <3> QED BY <3>2, <3>3
  <2>3. \A k \in Cards : (k = c => facts'[k].corr = NoTask) /\ (k # c => facts'[k] = facts[k])
    BY <2>2 DEF SourceInv, FactInv
  <2>4. TaskKept'
    BY <2>1, <2>3 DEF HoldInv, TaskKept, Corrects
  <2>5. Sound(git, git') /\ Held(git) \subseteq Held(git')
    BY <2>1, SoundSame DEF HoldInv
  <2>6. made' \subseteq Edits /\ made' \subseteq Held(git')
    BY <2>1, <2>5, MadeStays
  <2> QED BY <2>1, <2>4, <2>5, <2>6, HoldsNext
<1>5. CASE InterruptNode(c) \/ \E b \in 0..(N + 1) : Interrupt(c, b)
  <2>1. tasks' = DoomFrom(c) /\ mode = "run" /\ UNCHANGED <<git, facts, made, mode>>
    BY <1>5 DEF InterruptNode, Interrupt, Interruptible
  <2>2. \A u \in tasks' : u \in tasks \/ \E t \in tasks : u = [t EXCEPT !.doomed = TRUE]
    BY <2>1 DEF DoomFrom
  <2>3. \A u \in tasks' : Ready(u.card, u.todo)
    BY <2>2, DoomedSame DEF HoldInv
  <2>4. mode' # "down"
    BY <2>1
  <2> QED BY <2>1, <2>3, <2>4, StillHolds
<1> QED BY <1>1, <1>2, <1>3, <1>4, <1>5

\* An agent at work, no operation being in progress
LEMMA AgentHolds ==
  ASSUME SourceInv, OwnerInv, HoldInv, Agent
  PROVE  HoldInv'
<1>1. PICK c \in Cards : AgentCommit(c) \/ AgentRebase(c) \/ AgentContinue(c) \/ \E e \in Edits : AgentEdit(c, e)
  BY DEF Agent
<1>2. Working(c) /\ UNCHANGED <<facts, tasks, mode>>
  BY <1>1 DEF AgentCommit, AgentRebase, AgentContinue, AgentEdit
<1>3. tasks' = {} /\ git.branch = c /\ c \in 0..N
  BY <1>2, AtWork, CardNumbers
<1>4. History(git) /\ Created(git) /\ made \subseteq Edits /\ made \subseteq Held(git)
  BY DEF HoldInv, NoWorkLost
<1>5. ASSUME Sound(git, git'), made' \subseteq Edits, made' \subseteq Held(git') PROVE HoldInv'
  <2>1. TaskKept'
    BY <1>2, <1>5, TaskKeptOn
  <2> QED BY <1>3, <1>5, <2>1, HoldsNext
<1>6. CASE AgentCommit(c)
  <2>1. git' = CommitAll(git) /\ UNCHANGED made
    BY <1>6 DEF AgentCommit
  <2>2. Sound(git, git') /\ Held(git) \subseteq Held(git')
    BY <1>4, <2>1, CommitHolds
  <2> QED BY <1>4, <1>5, <2>1, <2>2
<1>7. CASE AgentRebase(c)
  <2>1. PICK base, onto, orig : base = facts[c].corr.base /\ onto = facts[c].corr.onto /\ orig = facts[c].corr.orig
    OBVIOUS
  <2>2. Corrects(c) /\ ~Dirty(git) /\ git' \in Rebase(git, c, base, onto) /\ UNCHANGED made
    BY <1>7, <2>1 DEF AgentRebase
  <2>3. onto # None /\ orig \in git.kept /\ IsAncestor(git, base, orig)
    BY <2>1, <2>2 DEF HoldInv, TaskKept
  <2>4. onto \in 1..Len(git.commits)
    <3>1. onto \in Nat /\ onto <= Len(git.commits) /\ Len(git.commits) \in Nat
      BY <2>1 DEF SourceInv, FactInv, FactRecords, Corrections, Repository
    <3> QED BY <2>3, <3>1 DEF None
  <2>5. PICK h : h = git'
    OBVIOUS
  <2>6. Sound(git, h) /\ \A e \in Edits : e \in Held(git) => e \in Held(h)
    BY <1>3, <1>4, <2>2, <2>3, <2>4, <2>5, ReplayHolds
  <2> QED BY <1>4, <1>5, <2>2, <2>5, <2>6
<1>8. CASE AgentContinue(c)
  <2>1. PICK h : h = WithCommit(git, git.rebase.onto, git.tree) /\ git' = [h EXCEPT !.tip[c] = Newest(h), !.rebase = NoRebase]
    BY <1>8 DEF AgentContinue
  <2>2. PICK f : f = git'
    OBVIOUS
  <2>3. git.rebase.onto \in 0..Len(git.commits) /\ git.tip[c] # None
    BY <1>3, <1>4 DEF History, Created
  <2>4. History(h)
    BY <1>4, <2>1, <2>3, SoundCommit DEF Sound
  <2>5. Fields \subseteq DOMAIN h /\ Len(h.commits) \in Nat
    BY <2>4 DEF History, Repository
  <2>6. Tipped(f, h, c)
    <3>1. /\ DOMAIN f = DOMAIN h /\ f.commits = h.commits /\ f.branch = h.branch /\ f.kept = h.kept /\ f.rebase = NoRebase
          /\ f.tip = [h.tip EXCEPT ![c] = Newest(h)]
      BY <2>1, <2>2, <2>5 DEF Fields
    <3>2. NoRebase.onto \in 0..Len(h.commits)
      BY <2>5 DEF NoRebase, None
    <3> QED BY <3>1, <3>2 DEF Tipped
  <2>7. Tips(git, f, c, git.rebase.onto, git.tree)
    BY <1>3, <1>4, <2>1, <2>3, <2>6, SoundTip
  <2>8. Sound(git, git')
    BY <2>2, <2>7 DEF Tips
  <2>9. made' = made \cap Held(git')
    BY <1>8 DEF AgentContinue
  <2> QED BY <1>4, <1>5, <2>8, <2>9
<1>9. ASSUME NEW e \in Edits, AgentEdit(c, e) PROVE HoldInv'
  <2>1. git' = WithEdit(git, e) /\ made' = made \cup {e}
    BY <1>9 DEF AgentEdit, WithEdit
  <2>2. Sound(git, git') /\ Held(git) \subseteq Held(git') /\ e \in Held(git')
    BY <1>4, <2>1, EditHolds
  <2> QED BY <1>4, <1>5, <2>1, <2>2
<1> QED BY <1>1, <1>6, <1>7, <1>8, <1>9

\* A write of a global file tool, and the operator's checkout of the delivery branch
LEMMA OperatorHolds ==
  ASSUME SourceInv, OwnerInv, HoldInv, Operator
  PROVE  HoldInv'
<1>1. History(git) /\ Created(git) /\ made \subseteq Edits /\ made \subseteq Held(git) /\ git.tip[0] # None /\ 0 \in 0..N
  BY GitSourceAssumption DEF HoldInv, NoWorkLost
<1>2. CASE OperatorRestore
  <2>1. PICK y : y = Tree(git, git.tip[0])
    OBVIOUS
  <2>2. /\ mode = "down" /\ ~Dirty(git) /\ UNCHANGED <<facts, tasks, made, mode>> /\ git' = [git EXCEPT !.branch = 0, !.tree = y]
    BY <1>2, <2>1 DEF OperatorRestore
  <2>3. PICK h : h = git'
    OBVIOUS
  <2>4. /\ Repository(git) /\ git.kept \subseteq 1..Len(git.commits) /\ git.rebase.onto \in 0..Len(git.commits)
        /\ git.tip[git.branch] \in Reachable(git)
    BY <1>1, HistoryHas
  <2>5. /\ DOMAIN h = DOMAIN git /\ h.commits = git.commits /\ h.branch = 0 /\ h.kept = git.kept /\ h.rebase = git.rebase
        /\ h.tip = git.tip
    BY <2>2, <2>3, <2>4 DEF Repository, Fields
  <2>6. Retouched(git, h)
    BY <1>1, <2>4, <2>5 DEF Retouched
  <2>7. \E o \in Reachable(git) : git.tree = Tree(git, o)
    BY <2>2, <2>4 DEF Dirty
  <2>8. Sound(git, h) /\ Held(git) \subseteq Held(h)
    BY <1>1, <2>5, <2>6, <2>7, PlainHolds
  <2>9. tasks' = {}
    BY <2>2 DEF HoldInv
  <2> QED BY <2>2, <2>3, <2>8, <2>9, QuietHolds
<1>3. ASSUME NEW e \in Edits, GlobalWrite(e) PROVE HoldInv'
  <2>1. git' = WithEdit(git, e) /\ made' = made \cup {e} /\ mode \in {"idle", "down"} /\ UNCHANGED <<facts, tasks, mode>>
    BY <1>3 DEF GlobalWrite, WithEdit
  <2>2. Sound(git, git') /\ Held(git) \subseteq Held(git') /\ e \in Held(git')
    BY <1>1, <2>1, EditHolds
  <2>3. tasks' = {}
    BY <2>1 DEF HoldInv, OwnerInv
  <2>4. made' \subseteq Edits /\ made' \subseteq Held(git')
    BY <1>1, <2>1, <2>2
  <2>5. TaskKept'
    BY <2>1, <2>2, TaskKeptOn
  <2> QED BY <2>2, <2>3, <2>4, <2>5, HoldsNext
<1> QED BY <1>2, <1>3 DEF Operator

\* Every step holds the work.
LEMMA HoldStep ==
  ASSUME Hooks = FALSE, SourceInv, OwnerInv, HoldInv, [Next]_vars
  PROVE  HoldInv'
<1>1. CASE UNCHANGED vars
  <2>1. \A u \in tasks' : Ready(u.card, u.todo)
    BY <1>1 DEF vars, HoldInv
  <2>2. (mode' = "down" => tasks' = {}) /\ UNCHANGED <<git, facts, made>>
    BY <1>1 DEF vars, HoldInv
  <2> QED BY <2>1, <2>2, StillHolds
<1>2. CASE Start
  <2>1. tasks' = {EnterTask(1)} /\ mode' = "run" /\ UNCHANGED <<git, facts, made>> /\ 1 \in Cards
    BY <1>2, GitSourceAssumption DEF Start, Cards
  <2>2. PICK x : x = EnterTask(1)
    OBVIOUS
  <2>3. x.card = 1 /\ Ready(1, x.todo)
    BY <2>1, <2>2, EnterReady
  <2> QED BY <2>1, <2>2, <2>3, StillHolds
<1>3. CASE Stop
  BY <1>3, HaltHolds DEF Stop
<1>4. CASE Halted
  <2>1. tasks' = {} /\ UNCHANGED <<git, facts, made>>
    BY <1>4 DEF Halted
  <2> QED BY <2>1, StillHolds
<1>5. CASE Die
  <2>1. tasks' = {} /\ UNCHANGED <<facts, made>> /\ (git' = git \/ \E t \in tasks : git' \in Command(t))
    BY <1>5 DEF Die
  <2>2. \A t \in tasks : t.card \in Cards
    BY DEF SourceInv, PlanInv, Planned
  <2>3. Sound(git, git') /\ Held(git) \subseteq Held(git')
    BY <2>1, <2>2, SoundSame, CommandHolds DEF HoldInv
  <2> QED BY <2>1, <2>3, QuietHolds
<1> QED BY <1>1, <1>2, <1>3, <1>4, <1>5, NativeHolds, CardHolds, AgentHolds, OperatorHolds DEF Next

\* The first state
LEMMA HoldInit == Init => HoldInv
<1> SUFFICES ASSUME Init PROVE HoldInv
  OBVIOUS
<1>1. PICK first : first = [par |-> None, tree |-> {}]
  OBVIOUS
<1>2. /\ git.commits = <<first>> /\ git.tip = [b \in 0..N |-> IF b <= 1 THEN 1 ELSE None] /\ git.kept = {} /\ git.branch = 0
      /\ git.rebase = NoRebase /\ tasks = {} /\ made = {}
      /\ facts = [c \in Cards |-> IF c = 1 THEN [NoFacts EXCEPT !.tip = 1, !.ptip = 1, !.base = 1] ELSE NoFacts]
  BY <1>1 DEF Init
<1>3. Len(git.commits) = 1 /\ git.commits[1] = first
  BY <1>2
<1>4. Ordered(git.commits)
  <2> SUFFICES ASSUME NEW k \in 1..1 PROVE git.commits[k].par \in 0..(k - 1)
    BY <1>3 DEF Ordered
  <2>1. k = 1 /\ git.commits[k].par = 0
    BY <1>1, <1>3 DEF None
  <2> QED BY <2>1
<1>5. History(git)
  <2>1. Repository(git)
    BY SourceInit DEF SourceInv
  <2>2. git.rebase.onto = 0
    BY <1>2 DEF NoRebase, None
  <2> QED BY <1>2, <1>3, <1>4, <2>1, <2>2 DEF History
<1>6. Created(git) /\ git.tip[0] # None
  <2>1. 0 \in 0..N /\ git.tip[0] = 1
    BY <1>2, GitSourceAssumption
  <2>2. ASSUME NEW c \in Cards, git.tip[c] # None PROVE git.tip[c - 1] # None
    <3>1. c \in 1..N /\ c - 1 \in 0..N /\ c \in 0..N
      BY CardNumbers DEF Cards
    <3>2. c <= 1
      BY <1>2, <2>2, <3>1 DEF None
    <3>3. c - 1 = 0
      BY <3>1, <3>2
    <3> QED BY <2>1, <3>3 DEF None
  <2>3. git.tip[0] # None /\ git.branch = 0
    BY <1>2, <2>1 DEF None
  <2> QED BY <2>2, <2>3 DEF Created
<1>7. TaskKept
  <2>1. \A c \in Cards : facts[c].corr = NoTask
    BY <1>2 DEF NoFacts
  <2> QED BY <2>1 DEF TaskKept, Corrects
<1> QED BY <1>2, <1>5, <1>6, <1>7 DEF HoldInv, NoWorkLost

\* No work is ever lost: wherever Stop, a death of the process, a failure, a
\* cancellation or an urgent notification meets a hand-over, a replay, a return or a
\* delivery, everything that agents and global tools wrote is in the checkout or in a
\* commit that a ref keeps; for every depth of the chain and every set of edits, when
\* no git hook writes source.
THEOREM WorkIsHeld ==
  ASSUME Hooks = FALSE
  PROVE  Spec => []NoWorkLost
<1>1. SourceInv /\ OwnerInv /\ HoldInv /\ [Next]_vars => SourceInv' /\ OwnerInv' /\ HoldInv'
  BY SourceStep, OwnerStep, HoldStep
<1>2. HoldInv => NoWorkLost
  BY DEF HoldInv
<1> QED BY <1>1, <1>2, SourceInit, OwnerInit, HoldInit, PTL DEF Spec
=============================================================================
