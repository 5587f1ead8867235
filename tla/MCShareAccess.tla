---------------------------- MODULE MCShareAccess ----------------------------
(***************************************************************************)
(* A share of eight paths for TLC: a repository with a nested one, a key   *)
(* file, hooks inside .git, and a directory on which the host has mounted  *)
(* another file system.                                                    *)
(***************************************************************************)
EXTENDS ShareAccess

CONSTANTS root, git, hooks, sub, subGit, key, vendor, lib

MCAbove ==
  [p \in {root, git, hooks, sub, subGit, key, vendor, lib} |->
     {root, p} \cup (IF p = hooks THEN {git} ELSE {})
              \cup (IF p \in {subGit, key} THEN {sub} ELSE {})
              \cup (IF p = lib THEN {vendor} ELSE {})]
MCPath == DOMAIN MCAbove

Plain == [readOnly |-> FALSE, readOnlyPaths |-> <<>>, hidden |-> <<>>, git |-> "default"]

MCSettings ==
  {Plain,
   [Plain EXCEPT !.git = "Hide", !.hidden = <<key>>],
   [Plain EXCEPT !.readOnly = TRUE, !.hidden = <<key>>, !.git = "None"],
   [Plain EXCEPT !.readOnlyPaths = <<sub>>, !.hidden = <<key, git>>],
   [Plain EXCEPT !.readOnlyPaths = <<lib>>, !.hidden = <<sub, key>>],
   [Plain EXCEPT !.readOnlyPaths = <<vendor>>, !.hidden = <<hooks, key, sub>>,
                 !.git = "ReadOnly"],
   [Plain EXCEPT !.readOnlyPaths = <<key, sub>>, !.hidden = <<vendor>>, !.git = "None"]}
===============================================================================
