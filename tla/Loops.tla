------------------------------- MODULE Loops --------------------------------
(***************************************************************************)
(* A loop of the code as the values its variables have after each round.   *)
(* step takes the values before a round to the values after it and leaves  *)
(* them alone once the loop has ended, so that any number of rounds that   *)
(* is large enough gives the outcome.                                      *)
(***************************************************************************)
EXTENDS Naturals

Iterate(step, init, rounds) ==
    LET after[k \in 0..rounds] == IF k = 0 THEN init ELSE step[after[k - 1]]
    IN  after[rounds]
=============================================================================
