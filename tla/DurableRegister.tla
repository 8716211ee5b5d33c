-------------------------- MODULE DurableRegister ---------------------------
(* What a durable register promises: readers see the last value written, and  *)
(* a power loss leaves one of the values written since the last               *)
(* synchronisation, never a mixture and never an older one.                   *)
CONSTANT Initial
VARIABLES val,          \* what a reader sees
          stable        \* what a power loss may leave

Init == val = Initial /\ stable = {Initial}
Write == val' # Initial /\ stable' = stable \cup {val'}
Sync == val' = val /\ stable' = {val}
PowerLoss == val' \in stable /\ stable' = {val'}
Next == Write \/ Sync \/ PowerLoss
vars == <<val, stable>>
Spec == Init /\ [][Next]_vars
=============================================================================
