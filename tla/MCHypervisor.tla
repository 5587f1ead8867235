---------------------------- MODULE MCHypervisor ------------------------------
(***************************************************************************)
(* Hypervisor for TLC: the runs that shut down or delete are alike, and so *)
(* are the root images.                                                    *)
(***************************************************************************)
EXTENDS Hypervisor, TLC

Symmetry == Permutations(Cmd) \cup Permutations(Rootfs)
===============================================================================
