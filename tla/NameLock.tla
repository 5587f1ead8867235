------------------------------- MODULE NameLock -------------------------------
(***************************************************************************)
(* What a sandbox lock promises (src/sandbox/lock.rs): a name has at most  *)
(* one holder, a second one is turned away, and a holder that exits or     *)
(* dies gives the name back.                                               *)
(***************************************************************************)
CONSTANT Run          (* the blinools processes that work on one name      *)
VARIABLE holders      (* the runs that hold the name                       *)

Init == holders = {}

Acquire(p) == holders = {} /\ holders' = {p}

Release(p) == p \in holders /\ holders' = holders \ {p}

Next == \E p \in Run : Acquire(p) \/ Release(p)

Spec == Init /\ [][Next]_holders
===============================================================================
