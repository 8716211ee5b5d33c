---------------------------- MODULE RuntimeGate ----------------------------
(* The gate every autonomous LLM turn passes before it calls its provider:   *)
(* class RuntimeGate of src/runtime/runtime-gate.ts. The gate is a value; an *)
(* operator returns the gate after one of its methods.                       *)
(*                                                                           *)
(*   open, pauseRequested   the two flags                                    *)
(*   parked                 TRUE when a waiter occupies the single slot      *)
(*   onParked               the run whose pause installed the callback, or   *)
(*                          NoRun. The callback captures the run identity,   *)
(*                          so the identity is what the callback is.         *)

CONSTANTS
  RunIds,    \* run identities (the fresh {} objects of beginStartProject)
  NoRun      \* null

ASSUME RunAssumption == NoRun \notin RunIds

Gates == [open : BOOLEAN, pauseRequested : BOOLEAN, parked : BOOLEAN,
          onParked : RunIds \cup {NoRun}]

NewGate ==
  [open |-> TRUE, pauseRequested |-> FALSE, parked |-> FALSE, onParked |-> NoRun]

\* waitUntilOpen returns at once exactly in this case.
IsOpen(g) == g.open /\ ~g.pauseRequested

\* completeRun throws when this does not hold.
CanCompleteRun(g) == ~g.parked

CompletedRun(g) ==
  [g EXCEPT !.open = FALSE, !.pauseRequested = FALSE, !.onParked = NoRun]

PauseRequested(g, r) ==
  [g EXCEPT !.pauseRequested = TRUE, !.open = FALSE, !.onParked = r]

Closed(g) == [g EXCEPT !.open = FALSE]

\* open(): an open gate without a waiter keeps its callback (early return).
Opened(g) ==
  IF g.open /\ ~g.parked
  THEN [g EXCEPT !.pauseRequested = FALSE]
  ELSE [g EXCEPT !.pauseRequested = FALSE, !.open = TRUE, !.parked = FALSE,
                 !.onParked = NoRun]

\* waitUntilOpen on a gate that is not open: the waiter takes the slot; the
\* callback is called next, with the slot already taken.
Parked(g) == [g EXCEPT !.parked = TRUE]

\* The waiter's abort signal fires: cleanup() empties the slot.
WaiterAborted(g) == [g EXCEPT !.parked = FALSE]
=============================================================================
