-------------------------- MODULE ExclusiveHolder ---------------------------
(* What an exclusive resource promises: it passes from one client to another  *)
(* only through the state in which nobody has it.                             *)
CONSTANTS Clients, Nobody
VARIABLE holder

Init == holder = Nobody
Take(c) == holder = Nobody /\ holder' = c
Leave == holder # Nobody /\ holder' = Nobody
Next == Leave \/ \E c \in Clients : Take(c)
Spec == Init /\ [][Next]_holder
=============================================================================
