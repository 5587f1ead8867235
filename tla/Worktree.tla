-------------------------------- MODULE Worktree -------------------------------
(***************************************************************************)
(* blinools worktree: runs of wip and review on one repository, at the     *)
(* same time, between them the user who commits (worktree/mod.rs).  A wip  *)
(* looks before it leaps three times, at the destination, at the branch    *)
(* and in add_worktree, and takes its new branch back when the last fails. *)
(* gix and the repository are external: creating a reference, deleting it  *)
(* where it still has its value and adding a worktree are one step each.   *)
(***************************************************************************)
EXTENDS Naturals

CONSTANTS
  Run,
  Branch,       (* names that parse_branch_name and the type check accept    *)
  Destination,
  DestOf,       (* worktree_destination; two branches may have the same      *)
  Preexisting,  (* branches that were there before                           *)
  MaxStarts     (* bound: commands, all together                             *)

Kind == {"wip", "review"}

ASSUME WorktreeAssumption ==
  /\ DestOf \in [Kind \X Branch -> Destination]
  /\ Preexisting \subseteq Branch /\ MaxStarts \in Nat

VARIABLES
  tip,          (* a branch's commit: HEAD's, one with somebody's work, none *)
  worktrees,    (* the linked worktrees and what is checked out there        *)
  occupied,     (* destinations that exist                                   *)
  run,          (* what each run does and where it is                        *)
  committed,    (* branches somebody has committed to                        *)
  crashed,      (* branches whose creator died before it had their worktree  *)
  undeleted,    (* branches whose removal failed: the run ended with an error*)
  starts

vars == <<tip, worktrees, occupied, run, committed, crashed, undeleted, starts>>

NotRunning == [pc |-> "idle", kind |-> "wip", branch |-> CHOOSE b \in Branch : TRUE,
               created |-> FALSE]

Init ==
  /\ tip \in [Branch -> {"none", "head", "work"}]
  /\ \A b \in Branch : tip[b] = "none" <=> b \notin Preexisting
  /\ worktrees = {}
  /\ \E d \in Destination : occupied \in {{}, {d}}
  /\ run = [r \in Run |-> NotRunning]
  /\ committed = {} /\ crashed = {} /\ undeleted = {} /\ starts = 0

Dest(r) == DestOf[run[r].kind, run[r].branch]
TipOf(r) == tip[run[r].branch]
Goto(r, pc) == run' = [run EXCEPT ![r].pc = pc]
End(r) == run' = [run EXCEPT ![r] = NotRunning]

Start(r, kind, b) ==
  /\ run[r].pc = "idle" /\ starts < MaxStarts
  /\ starts' = starts + 1
  /\ run' = [run EXCEPT ![r] = [pc |-> IF kind = "wip" THEN "destination" ELSE "lookup",
                                kind |-> kind, branch |-> b, created |-> FALSE]]
  /\ UNCHANGED <<tip, worktrees, occupied, committed, crashed, undeleted>>

(* worktree_destination: it must not exist.                                  *)
CheckDestination(r) ==
  /\ run[r].pc = "destination"
  /\ IF Dest(r) \in occupied THEN End(r)
     ELSE Goto(r, IF run[r].kind = "wip" THEN "lookup" ELSE "add")
  /\ UNCHANGED <<tip, worktrees, occupied, committed, crashed, undeleted, starts>>

(* branch_exists: wip uses it or makes it, review needs it.                  *)
LookUp(r) ==
  /\ run[r].pc = "lookup"
  /\ CASE run[r].kind = "review" /\ TipOf(r) = "none" -> End(r)
       [] run[r].kind = "review" /\ TipOf(r) # "none" -> Goto(r, "destination")
       [] OTHER -> Goto(r, IF TipOf(r) = "none" THEN "create" ELSE "add")
  /\ UNCHANGED <<tip, worktrees, occupied, committed, crashed, undeleted, starts>>

(* repo.reference with MustNotExist, at HEAD's commit.                       *)
CreateBranch(r) ==
  /\ run[r].pc = "create" /\ TipOf(r) = "none"
  /\ tip' = [tip EXCEPT ![run[r].branch] = "head"]
  /\ run' = [run EXCEPT ![r].pc = "add", ![r].created = TRUE]
  /\ UNCHANGED <<worktrees, occupied, committed, crashed, undeleted, starts>>

(* Another run was quicker, or HEAD has no commit.                           *)
CreateFails(r) ==
  /\ run[r].pc = "create"
  /\ End(r)
  /\ UNCHANGED <<tip, worktrees, occupied, committed, crashed, undeleted, starts>>

(* add_worktree: a free destination, a branch checked out nowhere else.      *)
AddWorktree(r) ==
  /\ run[r].pc = "add"
  /\ TipOf(r) # "none" /\ Dest(r) \notin occupied
  /\ \A w \in worktrees : w.branch # run[r].branch
  /\ worktrees' = worktrees \cup {[dest |-> Dest(r), branch |-> run[r].branch]}
  /\ occupied' = occupied \cup {Dest(r)}
  /\ End(r)
  /\ UNCHANGED <<tip, committed, crashed, undeleted, starts>>

AlwaysUndoes(r) == TRUE            \* mutated form: whoever created the branch
NeverUndoes(r) == FALSE            \* mutated form
Undoes(r) == run[r].created

AddFails(r) ==
  /\ run[r].pc = "add"
  /\ IF Undoes(r) THEN Goto(r, "undo") ELSE End(r)
  /\ UNCHANGED <<tip, worktrees, occupied, committed, crashed, undeleted, starts>>

(* reference.delete takes the branch back where it still is what it was.     *)
DeleteBranch(r) ==
  /\ run[r].pc = "undo" /\ TipOf(r) = "head"
  /\ tip' = [tip EXCEPT ![run[r].branch] = "none"]
  /\ End(r)
  /\ UNCHANGED <<worktrees, occupied, committed, crashed, undeleted, starts>>

(* It is refused because the branch has moved meanwhile, or it fails, on a   *)
(* reference or packed-refs locked by somebody else for instance: the run    *)
(* ends with that error and nobody tries again.                              *)
DeleteFails(r) ==
  /\ run[r].pc = "undo"
  /\ undeleted' = undeleted \cup {run[r].branch}
  /\ End(r)
  /\ UNCHANGED <<tip, worktrees, occupied, committed, crashed, starts>>

Crash(r) ==
  /\ run[r].pc # "idle"
  /\ End(r)
  /\ crashed' = IF run[r].created THEN crashed \cup {run[r].branch} ELSE crashed
  /\ UNCHANGED <<tip, worktrees, occupied, committed, undeleted, starts>>

(* The user commits in a worktree.                                           *)
Commit(w) ==
  /\ tip[w.branch] # "none"
  /\ tip' = [tip EXCEPT ![w.branch] = "work"]
  /\ committed' = committed \cup {w.branch}
  /\ UNCHANGED <<worktrees, occupied, run, crashed, undeleted, starts>>

Next ==
  \/ \E r \in Run :
       \/ \E kind \in Kind, b \in Branch : Start(r, kind, b)
       \/ CheckDestination(r) \/ LookUp(r) \/ CreateBranch(r) \/ CreateFails(r)
       \/ AddWorktree(r) \/ AddFails(r)
       \/ DeleteBranch(r) \/ DeleteFails(r) \/ Crash(r)
  \/ \E w \in worktrees : Commit(w)

Spec == Init /\ [][Next]_vars

-------------------------------------------------------------------------------
AtWork(b) == \E r \in Run : run[r].branch = b /\ run[r].created

(* Every variable has its type; who has created a branch still has to add    *)
(* its worktree or to take the branch back; no destination has two worktrees.*)
TypeOK ==
  /\ tip \in [Branch -> {"none", "head", "work"}]
  /\ \A w \in worktrees : w.dest \in occupied /\ w.branch \in Branch
  /\ \A v, w \in worktrees : v.dest = w.dest \/ v.branch = w.branch => v = w
  /\ \A r \in Run : run[r].created => run[r].pc \in {"add", "undo"}
  /\ starts \in 0..MaxStarts

(* A branch that was there before, or that somebody has committed to, is     *)
(* never taken back, whoever fails to add a worktree for it.                 *)
WorkIsKept == \A b \in Preexisting \cup committed : tip[b] # "none"

(* A wip that fails leaves no new branch behind that has no worktree, also   *)
(* when others try the same name, except where it cannot do better: it was   *)
(* killed, or git refused the removal itself, which is the error it reports. *)
NoBranchIsLeft ==
  \A b \in Branch \ (Preexisting \cup crashed \cup undeleted) :
    tip[b] # "none" => AtWork(b) \/ \E w \in worktrees : w.branch = b

(* A worktree has the branch it was made for.                                *)
WorktreeHasBranch == \A w \in worktrees : tip[w.branch] # "none"
===============================================================================
