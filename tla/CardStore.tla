----------------------------- MODULE CardStore ------------------------------
(* cards/card-service.ts over persistence/card-files.ts: the tree of cards as *)
(* the store holds it.  One publication of a head is atomic (HeadPublication  *)
(* shows why); creation, deletion and a repair are several publications, and  *)
(* an error or the death of the process may end them between any two.         *)
EXTENDS Naturals, Sequences, FiniteSets, SequencesExt

CONSTANTS Segments,      \* 1..n: the segments a child namespace can take (bound)
          MaxDepth,      \* MAX_CARD_DEPTH
          MaxCards,      \* bound: creations begun
          MaxMoves,      \* bound: reorders and status changes
          MaxDeps,       \* bound: dependencies of a new card
          MaxRoots,      \* bound: cards named in one deletion
          Repairs        \* how many stopped stores are repaired

Root == <<>>
Ids == UNION {[1..n -> Segments] : n \in 0..MaxDepth}
ParentOf(c) == Front(c)
Types == {"project", "goal", "task"}
Permitted(t) == IF t = "task" THEN {} ELSE {"goal", "task"}
Status == {"backlog", "running", "done", "changed", "failed"}
CanCreateChild(s) == s \in {"backlog", "running", "changed"}

Absent == [type |-> "absent"]
Idle == [kind |-> "idle"]

VARIABLES claimed,       \* card namespaces that exist as directories
          head,          \* the current head of each card
          prev,          \* the previous head, kept for repair
          op,            \* the operation in progress
          created, moves, repairs

vars == <<claimed, head, prev, op, created, moves, repairs>>

NewCard(t, deps, born) ==
  [type |-> t, deps |-> deps, members |-> <<>>, order |-> <<>>,
   status |-> "backlog", deleted |-> FALSE, born |-> born]

Published(c) == head[c] # Absent

-----------------------------------------------------------------------------
(* Readers *)

\* readLinkedCard: every card from the root down to the target is a member of
\* its parent and not tombstoned.
Active(c) ==
  \A n \in 0..Len(c) :
    LET a == SubSeq(c, 1, n) IN
      /\ Published(a) /\ ~head[a].deleted
      /\ a # Root => a \in ToSet(head[ParentOf(a)].members)
ActiveCards == {c \in Ids : Active(c)}

\* readCanonicalChildrenOfReached: the members in active order without the tombstoned.
ActiveChildren(c) == SelectSeq(head[c].order, LAMBDA d : ~head[d].deleted)

\* walkActivePreorder, as the set of rows it lists.
Walk ==
  LET rows[n \in 0..MaxDepth] ==
        IF n = 0 THEN {Root}
        ELSE rows[n - 1] \cup UNION {ToSet(ActiveChildren(c)) : c \in {r \in rows[n - 1] : Len(r) = n - 1}}
  IN rows[MaxDepth]

\* descendantsOf in the index, with the card itself.
Subtree(c) == {d \in Walk : IsPrefix(c, d)}

\* Taking away what nothing goes before, as often as there are elements, leaves
\* nothing: the loop of deleteSubtrees over the ready cards.
Acyclic(S, before(_, _)) ==
  LET peel[n \in 0..Cardinality(S)] ==
        IF n = 0 THEN S ELSE {t \in peel[n - 1] : \E u \in peel[n - 1] : before(u, t)}
  IN peel[Cardinality(S)] = {}

\* validateParsedCards over the active cards.
Admissible ==
  /\ \A c \in Walk : head[c].deps \subseteq Walk
  /\ Acyclic(Walk, LAMBDA u, t : t \in head[u].deps)

\* admitCurrentCards: what a restart asks of the types.
TypesAdmitted ==
  \A c \in Walk \ {Root} : ParentOf(c) \in Walk /\ head[c].type \in Permitted(head[ParentOf(c)].type)

-----------------------------------------------------------------------------
Init ==
  /\ claimed = {Root}
  /\ head = [c \in Ids |-> IF c = Root THEN NewCard("project", {}, 0) ELSE Absent]
  /\ prev = [c \in Ids |-> Absent]
  /\ op = Idle /\ created = 0 /\ moves = 0 /\ repairs = Repairs

\* publishCardVersion: the new head, with the one before it in the previous slot.
Publish(c, new) ==
  /\ head' = [head EXCEPT ![c] = new]
  /\ prev' = [prev EXCEPT ![c] = head[c]]

\* admitChildParent and assertPermittedChildType.
AdmitsChild(p, t) == CanCreateChild(head[p].status) /\ t \in Permitted(head[p].type)

\* The checks of create before it writes: the parent, the depth, the type and
\* the dependencies.
MayCreate(p, t, deps) ==
  /\ Active(p) /\ Len(p) < MaxDepth
  /\ AdmitsChild(p, t) /\ (Len(p) + 1 = MaxDepth => Permitted(t) = {})
  /\ \A d \in deps : Active(d)

\* claimChildNamespace: the first segment whose directory does not
\* exist yet.
ClaimNamespace(p, t, deps) ==
  /\ op = Idle /\ created < MaxCards /\ MayCreate(p, t, deps)
  /\ \E s \in Segments :
       /\ Append(p, s) \notin claimed
       /\ \A r \in 1..(s - 1) : Append(p, r) \in claimed
       /\ claimed' = claimed \cup {Append(p, s)}
       /\ op' = [kind |-> "create", parent |-> p, id |-> Append(p, s), type |-> t, deps |-> deps]
  /\ created' = created + 1
  /\ UNCHANGED <<head, prev, moves, repairs>>

\* publishInitialChildCard: records, conversations and version 1 of the card.
PublishInitial ==
  /\ op.kind = "create"
  /\ Publish(op.id, NewCard(op.type, op.deps, created))
  /\ op' = [op EXCEPT !.kind = "link"]
  /\ UNCHANGED <<claimed, created, moves, repairs>>

\* The rest of create: the parent is read and admitted again, and its new
\* version links the child.
LinkChild ==
  /\ op.kind = "link"
  /\ Active(op.parent) /\ op.id \notin ToSet(head[op.parent].members)
  /\ AdmitsChild(op.parent, op.type)
  /\ LET p == head[op.parent] IN
       Publish(op.parent, [p EXCEPT !.members = Append(@, op.id), !.order = Append(@, op.id)])
  /\ op' = Idle
  /\ UNCHANGED <<claimed, created, moves, repairs>>

-----------------------------------------------------------------------------

\* The admission of deleteSubtrees: existing cards other than the root, none of
\* them running, and nothing that survives depends on them.
MayDelete(S) ==
  /\ S \subseteq Walk \ {Root}
  /\ \A c \in S : head[c].status # "running"
  /\ \A s \in Walk \ S : head[s].deps \cap S = {}

\* Seeded fault: only dependencies order a deletion.
DependentsFirst(u, t) == t \in head[u].deps

\* The edges of the deletion order: a card goes before its parent and before
\* the cards it depends on.
GoesBefore(u, t) == (u # Root /\ t = ParentOf(u)) \/ t \in head[u].deps

Intended(roots) == UNION {Subtree(c) : c \in roots}

\* deleteSubtrees up to the first tombstone; the index is read through
\* listActiveCardTraversal, which refuses a graph that is not admissible.
BeginDelete(roots) ==
  /\ op = Idle /\ roots # {} /\ Admissible
  /\ MayDelete(Intended(roots))
  /\ Acyclic(Intended(roots), GoesBefore)
  /\ op' = [kind |-> "delete", left |-> Intended(roots)]
  /\ UNCHANGED <<claimed, head, prev, created, moves, repairs>>

\* publishCardTombstone of the next card in an order that respects the edges
\* (the code breaks ties by id).
PublishTombstone(c) ==
  /\ op.kind = "delete" /\ c \in op.left
  /\ \A u \in op.left : ~GoesBefore(u, c)
  /\ Active(c)
  /\ Publish(c, [head[c] EXCEPT !.deleted = TRUE])
  /\ op' = IF op.left = {c} THEN Idle ELSE [op EXCEPT !.left = @ \ {c}]
  /\ UNCHANGED <<claimed, created, moves, repairs>>

\* reorderChildren: a permutation of the active children; the tombstoned
\* members keep their order behind them.
ReorderChildren(p, ids) ==
  /\ op = Idle /\ moves < MaxMoves /\ moves' = moves + 1
  /\ Active(p) /\ ToSet(ids) = ToSet(ActiveChildren(p))
  /\ ids # ActiveChildren(p)
  /\ Publish(p, [head[p] EXCEPT !.order = ids \o SelectSeq(head[p].order, LAMBDA d : d \notin ToSet(ids))])
  /\ UNCHANGED <<claimed, op, created, repairs>>

\* setStatus and commitActivationOutcome, as far as creation and deletion ask.
SetStatus(c, s) ==
  /\ op = Idle /\ moves < MaxMoves /\ moves' = moves + 1
  /\ Active(c)
  /\ <<head[c].status, s>> \in {<<"backlog", "running">>, <<"changed", "running">>, <<"running", "done">>,
                                <<"running", "failed">>, <<"done", "changed">>, <<"failed", "changed">>}
  /\ Publish(c, [head[c] EXCEPT !.status = s])
  /\ UNCHANGED <<claimed, op, created, repairs>>

\* An error or the death of the process ends the operation where it is.
Interrupt ==
  /\ op # Idle /\ op' = Idle
  /\ UNCHANGED <<claimed, head, prev, created, moves, repairs>>

-----------------------------------------------------------------------------
\* restoreCardSelection of a card that can be reached: its last publication is lost.
RestorePrevious(c) ==
  /\ op = Idle /\ repairs > 0 /\ repairs' = repairs - 1
  /\ Published(c) /\ (c # Root => Active(ParentOf(c)) /\ c \in ToSet(head[ParentOf(c)].members))
  /\ prev[c] # Absent
  /\ head' = [head EXCEPT ![c] = prev[c]]
  /\ UNCHANGED <<claimed, prev, op, created, moves>>

\* publishDiscardedCard: a placeholder without children or dependencies; the
\* namespaces below it stay.
Discard(c, t) ==
  /\ op = Idle /\ repairs > 0 /\ repairs' = repairs - 1
  /\ Published(c) /\ (c # Root => Active(ParentOf(c)) /\ c \in ToSet(head[ParentOf(c)].members))
  /\ IF c = Root THEN t = "project" ELSE t \in Permitted(head[ParentOf(c)].type)
  /\ Len(c) = MaxDepth => Permitted(t) = {}
  /\ head' = [head EXCEPT ![c] = [NewCard(t, {}, head[c].born) EXCEPT !.status = "failed"]]
  /\ prev' = [prev EXCEPT ![c] = Absent]
  /\ UNCHANGED <<claimed, op, created, moves>>

UpTo(n, S) == {T \in SUBSET S : Cardinality(T) <= n}

Create ==
  \/ \E p \in Ids, t \in Types, deps \in UpTo(MaxDeps, ActiveCards) : ClaimNamespace(p, t, deps)
  \/ PublishInitial \/ LinkChild
Delete ==
  \/ \E roots \in UpTo(MaxRoots, ActiveCards) : BeginDelete(roots)
  \/ \E c \in Ids : PublishTombstone(c)
Modify ==
  \/ \E p \in ActiveCards : \E ids \in SetToSeqs(ToSet(ActiveChildren(p))) : ReorderChildren(p, ids)
  \/ \E c \in ActiveCards, s \in Status : SetStatus(c, s)
Repair == \E c \in Ids : RestorePrevious(c) \/ \E t \in Types : Discard(c, t)

Next == Create \/ Delete \/ Modify \/ Interrupt \/ Repair
Spec == Init /\ [][Next]_vars

-----------------------------------------------------------------------------
(* Without repair *)

\* Whatever creation or deletion was interrupted at, a restart finds a graph it
\* accepts: no surviving card depends on a card that is gone, dependencies are
\* acyclic, and every card has an active parent that permits its type.
RestartAdmits == Admissible /\ TypesAdmitted

\* A deletion that is admitted always finds an order: no hierarchy and set of
\* dependencies the store can hold makes it refuse as conflicting.
DeletionNeverConflicts ==
  op = Idle => \A roots \in SUBSET (Walk \ {Root}) :
                 MayDelete(Intended(roots)) => Acyclic(Intended(roots), GoesBefore)

\* An interrupted deletion can be asked for again: what is left of it is still
\* reachable, since no live linked card is below a tombstoned one.
DeletionIsResumable ==
  \A c \in Ids \ {Root} :
    Published(c) /\ ~head[c].deleted /\ Published(ParentOf(c)) /\ c \in ToSet(head[ParentOf(c)].members)
      => ~head[ParentOf(c)].deleted

-----------------------------------------------------------------------------
(* With repair too *)

\* What a parent links was published before and is in its active order exactly
\* once, so no reader meets a member it cannot resolve and the path to a card
\* and the walk of the tree agree about what exists.
ReadersAgree ==
  /\ \A c \in Ids : Published(c) =>
       /\ \A d \in ToSet(head[c].members) : Published(d) /\ ParentOf(d) = c
       /\ ToSet(head[c].order) = ToSet(head[c].members)
       /\ Len(head[c].order) = Cardinality(ToSet(head[c].members))
  /\ Walk = ActiveCards

\* A card id is given to one card only: not after an interrupted creation, a
\* deletion, or a repair that forgets the link.
IdentityIsForever == \A c \in Ids : Published(c) => head'[c].born = head[c].born
=============================================================================
