--------------------------- MODULE MCThreadGoals ----------------------------
(***************************************************************************)
(* A small instance of ThreadGoals.  Turns and requests are bounded, so    *)
(* that deadlock is not checked.                                           *)
(***************************************************************************)
EXTENDS ThreadGoals

(* A new goal, and one that was paused with its budget used up.            *)
StoredGoals == {NewGoal(1), [NewGoal(1) EXCEPT !.status = "paused", !.used = 1, !.budget = 1]}
=============================================================================
