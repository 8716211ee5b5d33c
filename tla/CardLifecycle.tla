--------------------------- MODULE CardLifecycle ----------------------------
(* The life of the cards as a reader of the project's durable state may      *)
(* expect it, whatever the runtime does: one chain of running cards hanging  *)
(* from the root, work starting and ending only at the end of that chain,    *)
(* no card settled as done above unfinished work, and work below a done card *)
(* reopened together with it unless the reopening was cut short.             *)
EXTENDS CardTree

VARIABLE card

Init == card = [c \in Cards |-> "backlog"]

\* c runs and none of its children does.
IsChainEnd(c) ==
  card[c] = "running" /\ \A d \in Children(c) : card[d] # "running"

\* A card that can be entered starts running under the end of the chain.
Activate(c) ==
  /\ CanBecomeRunning(card[c])
  /\ IF c = Root THEN RunningSet(card) = {} ELSE IsChainEnd(Parent[c])
  /\ card' = [card EXCEPT ![c] = "running"]

\* The end of the chain settles; done needs everything below it finished.
Settle(c, o) ==
  /\ IsChainEnd(c)
  /\ o \in {"done", "failed", "blocked", "stopped"}
  /\ o = "done" => SubtreeComplete(card, c)
  /\ card' = [card EXCEPT ![c] = o]

\* Recovery stops a part of the chain from its end upwards; a new run may then
\* put the root back.
Recover ==
  \E S \in SettledSuffixes(card) :
    \/ card' = StopCards(card, S)
    \/ S = RunningSet(card) /\ S # {}
         /\ card' = [StopCards(card, S) EXCEPT ![Root] = "running"]

\* G is cancelled, from the leaves up: nothing that could be cancelled is left
\* below a cancelled card, and a cancelled running card is the end of the chain.
Cancels(G) ==
  /\ Root \notin G
  /\ \A c \in G : CanCancel(card[c]) /\ (card[c] = "running" => IsChainEnd(c))
  /\ \A c \in G : \A d \in Children(c) : CanCancel(card[d]) => d \in G

\* F is reopened, from y towards the root: no resting card of the path is passed over.
Reopens(F, y, G) ==
  /\ F \subseteq PathToRoot(y) \ G
  /\ \A c \in F : card[c] \in Flippable
  /\ \A c \in F : \A d \in PathToRoot(y) \ G :
       c \in Anc[d] /\ card[d] \in Flippable => d \in F

Revised(G, F) ==
  [c \in Cards |-> IF c \in G THEN "cancelled" ELSE IF c \in F THEN "changed" ELSE card[c]]

\* Cards are cancelled, and resting cards above them or edited cards are
\* reopened, together with every done card above them.
Revise ==
  \E G, F \in SUBSET Cards : \E y \in Cards :
    /\ Cancels(G) /\ Reopens(F, y, G)
    /\ \A c \in F : \A a \in Anc[c] : card[a] = "done" => a \in F
    /\ card' = Revised(G, F)

\* The same cut short by a failed write or the death of the process: the done
\* cards above the last one reopened stay done.
CutShort ==
  \E G, F \in SUBSET Cards : \E y \in Cards :
    Cancels(G) /\ Reopens(F, y, G) /\ card' = Revised(G, F)

Whole ==
  \/ \E c \in Cards : Activate(c) \/ \E o \in Status : Settle(c, o)
  \/ Recover \/ Revise

Next == Whole \/ CutShort

Spec == Init /\ [][Next]_card
=============================================================================
