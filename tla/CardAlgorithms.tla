--------------------------- MODULE CardAlgorithms ---------------------------
(* The tree walks of the code, step by step, and their agreement with the    *)
(* closed forms of CardTree that the other modules use.                      *)
EXTENDS CardTree, Sequences, SequencesExt

VARIABLE st    \* the statuses the walks read

\* readdir order is fixed per parent; the results do not depend on it.
ChildSeq(c) == SetToSeq(Children(c))

-----------------------------------------------------------------------------
(* running-card-chain.ts *)

\* The while loop of selectLinkedRunningChain from the running card c; FALSE for
\* the throw on two running children.
RECURSIVE ChainFrom(_)
ChainFrom(c) ==
  LET running == SelectSeq(ChildSeq(c), LAMBDA d : st[d] = "running")
  IN IF Len(running) > 1 THEN [ok |-> FALSE, chain |-> <<>>]
     ELSE IF running = <<>> THEN [ok |-> TRUE, chain |-> <<c>>]
     ELSE LET rest == ChainFrom(running[1])
          IN [ok |-> rest.ok, chain |-> <<c>> \o rest.chain]

\* The selection with its final check for running cards outside the chain.
SelectLinkedRunningChain ==
  LET walk == IF st[Root] = "running" THEN ChainFrom(Root)
                                      ELSE [ok |-> TRUE, chain |-> <<>>]
  IN [ok |-> walk.ok /\ RunningSet(st) \subseteq ToSet(walk.chain), chain |-> walk.chain]

\* settleInterruptedRunningChain after n publications: leaf to root.
StoppedAfter(chain, n) ==
  StopCards(st, ToSet(SubSeq(Reverse(chain), 1, n)))

-----------------------------------------------------------------------------
(* changed-propagation.ts *)

RECURSIVE PathSeq(_)
PathSeq(c) == IF c = Root THEN <<Root>> ELSE <<c>> \o PathSeq(Parent[c])

\* flipRestingCardsAlongPath over a path, reading the card before each flip
RECURSIVE WalkPath(_, _)
WalkPath(s, path) ==
  IF path = <<>> THEN [cards |-> s, firstRunning |-> NoCard]
  ELSE IF s[Head(path)] = "running" THEN [cards |-> s, firstRunning |-> Head(path)]
  ELSE WalkPath([s EXCEPT ![Head(path)] = IF @ \in Flippable THEN "changed" ELSE @],
                Tail(path))

-----------------------------------------------------------------------------
(* supervisor-runtime-api.ts, node-execution.ts *)

\* cancelNonrunningSubtree: children in order, then the card itself
RECURSIVE CancelWalk(_, _)
CancelWalk(s, c) ==
  IF ~CanCancel(s[c]) THEN s
  ELSE [FoldLeft(CancelWalk, s, ChildSeq(c)) EXCEPT ![c] = "cancelled"]

\* firstIncompleteDescendant; NoCard for null
RECURSIVE FirstIncomplete(_)
FirstIncomplete(c) ==
  FoldLeft(LAMBDA found, d :
             IF found # NoCard THEN found
             ELSE IF st[d] \notin {"done", "cancelled"} THEN d
             ELSE FirstIncomplete(d),
           NoCard, ChildSeq(c))

-----------------------------------------------------------------------------
Init == st \in [Cards -> Status]
Next == \E c \in Cards, s \in Status : st' = [st EXCEPT ![c] = s]
Spec == Init /\ [][Next]_st

\* The chain selection accepts exactly the states CardTree calls a running chain,
\* and then returns every running card, each one the parent of the next.
ChainSelectionAgrees ==
  LET r == SelectLinkedRunningChain
  IN /\ r.ok <=> IsRunningChain(st)
     /\ r.ok => /\ ToSet(r.chain) = RunningSet(st)
                /\ \A i \in 1 .. Len(r.chain) - 1 : Parent[r.chain[i + 1]] = r.chain[i]

\* Wherever the settlement loop is cut short, what it has stopped is one of the
\* suffixes the crash and failure steps of Supervisor choose from, every suffix
\* is reached, and the cards still running form a chain.
SettlementCutsAreSuffixes ==
  IsRunningChain(st) =>
    LET chain == SelectLinkedRunningChain.chain
        cuts == {StoppedAfter(chain, n) : n \in 0 .. Len(chain)}
    IN /\ cuts = {StopCards(st, S) : S \in SettledSuffixes(st)}
       /\ \A s \in cuts : IsRunningChain(s)

\* The propagation walk flips exactly the resting cards before the first running
\* card of the path, finds that card, and leaves no done card above one it
\* reopened when no card is running above.
PropagationAgrees ==
  \A c \in Cards :
    LET w == WalkPath(st, PathSeq(c))
    IN /\ w.cards = FlipPath(st, c)
       /\ FirstRunningOnPath(st, c) = {w.firstRunning} \ {NoCard}
       /\ \A x \in PathToRoot(c) :
            w.cards[x] = "changed" /\ st[x] # "changed" =>
              \A a \in Anc[x] : w.cards[a] = "done" =>
                \E y \in Anc[x] : w.cards[y] = "running" /\ a \in Anc[y]

\* The recursive cancellation of a subtree without running cards cancels exactly
\* CascadeSet: no done card, and nothing below a card that is already finished.
CancellationAgrees ==
  \A c \in Cards :
    (\A d \in Subtree(c) : st[d] # "running") =>
      CancelWalk(st, c) = CancelCards(st, CascadeSet(st, c))

\* The completion gate reports a blocker exactly when some descendant, at any
\* depth, is neither done nor cancelled; it does not look below such a blocker.
CompletionGateAgrees ==
  \A c \in Cards :
    /\ (FirstIncomplete(c) = NoCard) <=> SubtreeComplete(st, c)
    /\ FirstIncomplete(c) # NoCard => FirstIncomplete(c) \in Descendants(c)
=============================================================================
