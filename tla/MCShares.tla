------------------------------- MODULE MCShares -------------------------------
(* Three runs of one share name.                                             *)
EXTENDS Shares, TLC

CONSTANTS a, b, c

MCClient == {a, b, c}
MCSymmetry == Permutations(MCClient)
===============================================================================
