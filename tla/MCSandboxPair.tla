---------------------------- MODULE MCSandboxPair -----------------------------
(* Two runs of one name with every command, without symmetry: one of the    *)
(* properties is a liveness property.                                        *)
EXTENDS Sandbox, TLC

CONSTANTS r1, r2, i1, i2, i3

MCRun == {r1, r2}
MCInode == {i1, i2, i3}

MCAll == Command
===============================================================================
