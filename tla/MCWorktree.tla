----------------------------- MODULE MCWorktree -------------------------------
(***************************************************************************)
(* Worktree for TLC: a branch that is there and two new ones.  The wips of *)
(* the old and of one of the new, and all reviews, have one destination:   *)
(* their names differ in a `/` for a `-`, or a directory is in the way.    *)
(***************************************************************************)
EXTENDS Worktree, TLC

CONSTANTS old, new, slashed, d1, d2, d3

MCDestOf ==
  [k \in Kind \X {old, new, slashed} |->
     IF k[1] = "review" THEN d3 ELSE IF k[2] = new THEN d2 ELSE d1]

Symmetry == Permutations(Run)
===============================================================================
