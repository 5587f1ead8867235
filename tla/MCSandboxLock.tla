---------------------------- MODULE MCSandboxLock -----------------------------
(* Three runs (one drops the lock, one locks the old inode, one creates the *)
(* new file) and one inode more than there are runs.                        *)
EXTENDS SandboxLock, TLC

CONSTANTS r1, r2, r3, i1, i2, i3, i4

MCRun == {r1, r2, r3}
MCInode == {i1, i2, i3, i4}
MCSymmetry == Permutations(MCRun) \cup Permutations(MCInode)
===============================================================================
