------------------------------ MODULE MCSandbox -------------------------------
(* Three runs of one name and four inodes for its lock file. *)
EXTENDS Sandbox, TLC

CONSTANTS r1, r2, r3, i1, i2, i3, i4

MCRun == {r1, r2, r3}
MCInode == {i1, i2, i3, i4}
MCSymmetry == Permutations(MCRun) \cup Permutations(MCInode)

(* The properties say nothing of what follows the loss of a lock file: TLC   *)
(* looks at the step that loses it and goes no further.                      *)
NotLost == ~lost

MCPlain == {"create", "shutdown", "delete", "prune"}
MCAfter == {"create", "createDelete"}
MCForce == {"create", "forceDelete"}
===============================================================================
