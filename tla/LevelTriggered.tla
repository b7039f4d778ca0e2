--------------------------- MODULE LevelTriggered ---------------------------
(***************************************************************************)
(* What a level-triggered controller promises, whatever it does to get     *)
(* there: it comes to rest only when the world is as the wish asks, and it *)
(* does not stay at rest when the wish changes, or the world does in a way *)
(* that matters.                                                           *)
(***************************************************************************)
CONSTANT Consistent(_, _)

VARIABLES wish, world, resting

vars == <<wish, world, resting>>

Init == ~resting

(* The user, someone else, or the controller itself changes something. *)
Change == ~resting'

ComeToRest ==
  /\ ~resting /\ resting'
  /\ Consistent(wish, world)
  /\ UNCHANGED <<wish, world>>

(* A change to the world that nobody has to act upon. *)
ImmaterialChange ==
  /\ resting /\ resting'
  /\ UNCHANGED wish
  /\ Consistent(wish, world')

Next == Change \/ ComeToRest \/ ImmaterialChange

Spec == Init /\ [][Next]_vars
=============================================================================
