------------------------------ MODULE CardTree ------------------------------
(* The card tree and the status rules of a card's durable lifecycle.         *)
(*   src/cards/lifecycle.ts, src/cards/card-status.ts,                       *)
(*   src/runtime/card-process-config.ts (entry for a status),                *)
(*   src/runtime/running-card-chain.ts, src/runtime/changed-propagation.ts   *)
(* The tree is fixed while a model runs; card creation, deletion and         *)
(* reordering are outside this module.                                       *)

CONSTANTS
  Cards,      \* card ids
  Root,       \* the id 'project'
  NoCard,     \* null
  Parent,     \* Parent[c] is cardParentId(c); NoCard for Root
  Anc,        \* Anc[c]: the strict ancestors of c (getAncestors)
  DependsOn   \* DependsOn[c]: the cards in c's depends_on

ASSUME TreeAssumption ==
  /\ Root \in Cards
  /\ NoCard \notin Cards
  /\ Parent \in [Cards -> Cards \cup {NoCard}]
  /\ Parent[Root] = NoCard
  /\ \A c \in Cards \ {Root} : Parent[c] \in Cards
  /\ Anc \in [Cards -> SUBSET Cards]
  /\ Anc[Root] = {}
  /\ \A c \in Cards \ {Root} : Anc[c] = {Parent[c]} \cup Anc[Parent[c]]
  /\ \A c \in Cards : c \notin Anc[c]
  /\ \A c \in Cards : \A a \in Anc[c] : Anc[a] \subseteq Anc[c]
  /\ \A c \in Cards \ {Root} : Root \in Anc[c]
  /\ \A c \in Cards : \A a \in Anc[c] : \E d \in {c} \cup Anc[c] : Parent[d] = a
  /\ DependsOn \in [Cards -> SUBSET Cards]

Status == {"backlog", "running", "blocked", "changed", "stopped",
           "done", "failed", "cancelled"}

-----------------------------------------------------------------------------
(* Tree navigation *)

Children(c) == {d \in Cards : Parent[d] = c}

Descendants(c) == {d \in Cards : c \in Anc[d]}

Subtree(c) == {c} \cup Descendants(c)

\* [editedCardId, ...getAncestors(editedCardId).reverse()] as a set; the order
\* of the walk is the ancestor relation itself.
PathToRoot(c) == {c} \cup Anc[c]

-----------------------------------------------------------------------------
(* Status rules *)

SetStatusSources ==
  [running   |-> {"backlog", "blocked", "changed"},
   changed   |-> {"blocked", "done", "failed"},
   cancelled |-> {"backlog", "running", "blocked", "changed", "stopped", "failed"}]

CanCancel(s) == s \notin {"done", "cancelled"}

AcceptsNotifications(s) ==
  s \in {"backlog", "changed", "running", "blocked", "stopped"}

\* cardProcessEntryForStatus(s) # null
HasEntry(s) == s \in {"backlog", "changed", "blocked", "stopped"}

\* activateStopped for a stopped card, setStatus(.., 'running') otherwise.
CanBecomeRunning(s) == s = "stopped" \/ s \in SetStatusSources.running

\* The completion gate: firstIncompleteDescendant found nothing.
SubtreeComplete(st, c) ==
  \A d \in Descendants(c) : st[d] \in {"done", "cancelled"}

-----------------------------------------------------------------------------
(* The running chain *)

RunningSet(st) == {c \in Cards : st[c] = "running"}

\* selectLinkedRunningChain returns normally: every running card hangs from a
\* running parent, and a running card has at most one running child.
IsRunningChain(st) ==
  /\ \A c \in RunningSet(st) \ {Root} : Parent[c] \in RunningSet(st)
  /\ \A c, d \in RunningSet(st) \ {Root} : Parent[c] = Parent[d] => c = d

\* stopRunning on each card of S
StopCards(st, S) == [c \in Cards |-> IF c \in S THEN "stopped" ELSE st[c]]

\* Seeded fault: the settlement loop runs from the root down.
SettledFromRoot(st) ==
  {S \in SUBSET RunningSet(st) : \A c, d \in RunningSet(st) :
                                    (d \in S /\ c \in Anc[d]) => c \in S}

\* The settlement loop visits the chain leaf to root: what it has stopped is
\* always the part of the chain at or below one of its cards.
SettledSuffixes(st) ==
  {S \in SUBSET RunningSet(st) : \A c, d \in RunningSet(st) :
                                    (c \in S /\ c \in Anc[d]) => d \in S}

-----------------------------------------------------------------------------
(* Change propagation and cascading cancellation *)

Flippable == {"done", "failed", "blocked"}

\* The running cards on the walk from c to Root; the walk ends at the first.
ReachedOnPath(st, c) ==
  {x \in PathToRoot(c) :
     ~ \E y \in PathToRoot(c) : st[y] = "running" /\ (y = x \/ x \in Anc[y])}

FirstRunningOnPath(st, c) ==
  {x \in PathToRoot(c) :
     st[x] = "running"
       /\ ~ \E y \in PathToRoot(c) : st[y] = "running" /\ x \in Anc[y]}

\* Seeded fault: the cards above the edited one are not reopened.
FlipEditedOnly(st, c) ==
  [x \in Cards |-> IF x = c /\ st[x] \in Flippable THEN "changed" ELSE st[x]]

\* flipRestingCardsAlongPath
FlipPath(st, c) ==
  [x \in Cards |-> IF x \in ReachedOnPath(st, c) /\ st[x] \in Flippable
                   THEN "changed" ELSE st[x]]

\* Seeded fault: done and cancelled cards are cancelled too.
CascadeSetAll(st, c) == Subtree(c)

\* The cards cancelNonrunningSubtree(c) cancels: it does not enter the subtree
\* of a card that is done or cancelled.
CascadeSet(st, c) ==
  {d \in Subtree(c) :
     \A x \in Subtree(c) : (x = d \/ x \in Anc[d]) => CanCancel(st[x])}

\* It cancels children before their parent: what it has done is closed downwards.
CascadePrefixes(S) ==
  {T \in SUBSET S : \A d \in T : \A e \in S : d \in Anc[e] => e \in T}

\* flipRestingCardsAlongPath cut short: the flips at or below one card of the path.
FlipPrefixes(st, c) ==
  {[x \in Cards |-> IF x = y \/ y \in Anc[x] THEN FlipPath(st, c)[x] ELSE st[x]] :
     y \in PathToRoot(c)}

\* One of its writes fails: some flips are missing, the ones nearest to the root.
FlipsCutShort(st, c) == (FlipPrefixes(st, c) \cup {st}) \ {FlipPath(st, c)}

CancelCards(st, S) == [c \in Cards |-> IF c \in S THEN "cancelled" ELSE st[c]]
=============================================================================
