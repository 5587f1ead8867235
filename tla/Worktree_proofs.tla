---------------------------- MODULE Worktree_proofs ----------------------------
(***************************************************************************)
(* The safety properties of Worktree for any number of runs, branches and  *)
(* destinations.  What a branch's creator may undo rests on where the work *)
(* comes from: commits are made in worktrees, and worktrees stay.          *)
(***************************************************************************)
EXTENDS Worktree, TLAPS

(* A run that is at work is at work on a branch whose name was accepted.      *)
RunsTyped ==
  /\ run \in [Run -> [pc : {"idle", "destination", "lookup", "create", "add", "undo"},
                      kind : Kind, branch : Branch \cup {NotRunning.branch},
                      created : BOOLEAN]]
  /\ \A r \in Run : run[r].pc # "idle" => run[r].branch \in Branch

(* Whoever created a branch found that there was none, and nobody else takes  *)
(* it back.                                                                   *)
CreatorsAreFirst ==
  \A r \in Run : /\ run[r].created => run[r].branch \notin Preexisting
                 /\ run[r].pc = "undo" => run[r].created

(* Somebody's work makes a branch differ from what its creator made it, and   *)
(* is done in a worktree.                                                     *)
WorkIsInWorktrees ==
  /\ committed \subseteq Branch
  /\ \A b \in committed : tip[b] = "work"
  /\ \A b \in Branch \ Preexisting :
       tip[b] = "work" => \E w \in worktrees : w.branch = b

WorktreeInv ==
  /\ TypeOK /\ RunsTyped /\ CreatorsAreFirst /\ WorkIsInWorktrees
  /\ WorkIsKept /\ NoBranchIsLeft

-------------------------------------------------------------------------------
(* Nobody has begun, and the branches are those that were there before.       *)
LEMMA WorktreeInitInv == Init => WorktreeInv
<1> SUFFICES ASSUME Init PROVE WorktreeInv
  OBVIOUS
<1>1. RunsTyped
  BY DEF Init, RunsTyped, NotRunning, Kind
<1>2. TypeOK
  BY WorktreeAssumption DEF Init, TypeOK, NotRunning
<1>3. CreatorsAreFirst /\ WorkIsInWorktrees
  BY DEF Init, CreatorsAreFirst, WorkIsInWorktrees, NotRunning
<1>4. WorkIsKept /\ NoBranchIsLeft
  BY WorktreeAssumption DEF Init, WorkIsKept, NoBranchIsLeft
<1> QED
  BY <1>1, <1>2, <1>3, <1>4 DEF WorktreeInv

(* The steps that only look, and those that give up without a branch to undo: *)
(* none of them touches the repository.                                       *)
LEMMA LookingKeepsInv ==
  ASSUME WorktreeInv, NEW r \in Run,
         \/ \E kind \in Kind, b \in Branch : Start(r, kind, b)
         \/ CheckDestination(r) \/ LookUp(r) \/ CreateFails(r) \/ AddFails(r)
  PROVE  WorktreeInv'
<1> USE DEF WorktreeInv
<1>1. UNCHANGED <<tip, worktrees, occupied, committed, crashed, undeleted>>
  BY DEF Start, CheckDestination, LookUp, CreateFails, AddFails
<1>2. RunsTyped'
  <2>1. CASE End(r)
    BY <2>1 DEF End, NotRunning, Kind, RunsTyped
  <2>2. ASSUME NEW pc \in {"destination", "lookup", "create", "add", "undo"},
               run[r].pc # "idle", Goto(r, pc)
        PROVE  RunsTyped'
    BY <2>2 DEF Goto, RunsTyped
  <2>3. CASE \E kind \in Kind, b \in Branch : Start(r, kind, b)
    BY <2>3 DEF Start, RunsTyped, Kind
  <2>4. CASE CheckDestination(r)
    BY <2>1, <2>2, <2>4 DEF CheckDestination
  <2>5. CASE LookUp(r)
    BY <2>1, <2>2, <2>5 DEF LookUp
  <2>6. CASE CreateFails(r) \/ AddFails(r)
    BY <2>1, <2>2, <2>6 DEF CreateFails, AddFails
  <2> QED
    BY <2>3, <2>4, <2>5, <2>6
<1>3. \A q \in Run :
        run'[q].created =>
          run[q].created /\ run'[q].branch = run[q].branch /\ run'[q].pc \in {"add", "undo"}
  BY DEF RunsTyped, TypeOK, Start, CheckDestination, LookUp, CreateFails, AddFails, Undoes,
         Goto, End, NotRunning
<1>4. \A q \in Run :
        run[q].created => run'[q].created /\ run'[q].branch = run[q].branch
  BY DEF RunsTyped, TypeOK, Start, CheckDestination, LookUp, CreateFails, AddFails, Undoes,
         Goto, End, NotRunning
<1>5. \A q \in Run : run'[q].pc = "undo" => run'[q].created
  BY DEF RunsTyped, CreatorsAreFirst, Start, CheckDestination, LookUp, CreateFails, AddFails,
         Undoes, Goto, End, NotRunning
<1>6. starts' \in 0..MaxStarts
  BY WorktreeAssumption
     DEF TypeOK, Start, CheckDestination, LookUp, CreateFails, AddFails
<1>7. TypeOK'
  BY <1>1, <1>3, <1>6 DEF TypeOK
<1>8. CreatorsAreFirst' /\ WorkIsInWorktrees' /\ WorkIsKept'
  BY <1>1, <1>3, <1>5 DEF CreatorsAreFirst, WorkIsInWorktrees, WorkIsKept
<1>9. NoBranchIsLeft'
  BY <1>1, <1>4 DEF NoBranchIsLeft, AtWork
<1> QED
  BY <1>2, <1>7, <1>8, <1>9

(* A new branch, whose creator is at work on it.                              *)
LEMMA CreateBranchKeepsInv ==
  ASSUME WorktreeInv, NEW r \in Run, CreateBranch(r)
  PROVE  WorktreeInv'
<1> USE DEF WorktreeInv, CreateBranch
<1>1. RunsTyped'
  BY DEF RunsTyped
<1>2. TypeOK'
  BY DEF TypeOK, RunsTyped
<1>3. CreatorsAreFirst'
  BY DEF CreatorsAreFirst, WorkIsKept, RunsTyped, TipOf
<1>4. WorkIsInWorktrees' /\ WorkIsKept'
  BY DEF WorkIsInWorktrees, WorkIsKept, RunsTyped, TipOf, TypeOK
<1>5. NoBranchIsLeft'
  BY DEF NoBranchIsLeft, AtWork, RunsTyped, TypeOK
<1> QED
  BY <1>1, <1>2, <1>3, <1>4, <1>5

(* A new worktree, where neither its destination nor its branch had one.      *)
LEMMA AddWorktreeKeepsInv ==
  ASSUME WorktreeInv, NEW r \in Run, AddWorktree(r)
  PROVE  WorktreeInv'
<1> USE DEF WorktreeInv, AddWorktree, End, NotRunning
<1>1. RunsTyped'
  BY DEF RunsTyped, Kind
<1>2. TypeOK'
  BY DEF TypeOK, RunsTyped
<1>3. CreatorsAreFirst' /\ WorkIsInWorktrees' /\ WorkIsKept'
  BY DEF CreatorsAreFirst, WorkIsInWorktrees, WorkIsKept, RunsTyped
<1>4. \A b \in Branch : AtWork(b) => AtWork(b)' \/ b = run[r].branch
  BY DEF AtWork, RunsTyped
<1>5. \E w \in worktrees' : w.branch = run[r].branch
  <2>1. [dest |-> Dest(r), branch |-> run[r].branch] \in worktrees'
    OBVIOUS
  <2> QED
    BY <2>1
<1>6. NoBranchIsLeft'
  BY <1>4, <1>5 DEF NoBranchIsLeft
<1> QED
  BY <1>1, <1>2, <1>3, <1>6

(* The branch goes only as its creator made it.                               *)
LEMMA DeleteBranchKeepsInv ==
  ASSUME WorktreeInv, NEW r \in Run, DeleteBranch(r)
  PROVE  WorktreeInv'
<1> USE DEF WorktreeInv, DeleteBranch, End, NotRunning, TipOf
<1>1. RunsTyped'
  BY DEF RunsTyped, Kind
<1>2. TypeOK'
  BY DEF TypeOK, RunsTyped
<1>3. CreatorsAreFirst' /\ WorkIsInWorktrees'
  BY DEF CreatorsAreFirst, WorkIsInWorktrees, RunsTyped, TypeOK
<1>4. WorkIsKept'
  BY DEF WorkIsKept, CreatorsAreFirst, WorkIsInWorktrees, RunsTyped, TypeOK
<1>5. NoBranchIsLeft'
  BY DEF NoBranchIsLeft, AtWork, RunsTyped, TypeOK
<1> QED
  BY <1>1, <1>2, <1>3, <1>4, <1>5

(* A removal that fails leaves its branch, which is remembered.               *)
LEMMA DeleteFailsKeepsInv ==
  ASSUME WorktreeInv, NEW r \in Run, DeleteFails(r)
  PROVE  WorktreeInv'
<1> USE DEF WorktreeInv, DeleteFails, End, NotRunning
<1>1. RunsTyped'
  BY DEF RunsTyped, Kind
<1>2. TypeOK'
  BY DEF TypeOK, RunsTyped
<1>3. CreatorsAreFirst' /\ WorkIsInWorktrees' /\ WorkIsKept'
  BY DEF CreatorsAreFirst, WorkIsInWorktrees, WorkIsKept, RunsTyped
<1>4. NoBranchIsLeft'
  BY DEF NoBranchIsLeft, AtWork, RunsTyped
<1> QED
  BY <1>1, <1>2, <1>3, <1>4

(* A run that dies leaves its branch, which is remembered.                    *)
LEMMA CrashKeepsInv ==
  ASSUME WorktreeInv, NEW r \in Run, Crash(r)
  PROVE  WorktreeInv'
<1> USE DEF WorktreeInv, Crash, End, NotRunning
<1>1. RunsTyped'
  BY DEF RunsTyped, Kind
<1>2. TypeOK'
  BY DEF TypeOK, RunsTyped
<1>3. CreatorsAreFirst' /\ WorkIsInWorktrees' /\ WorkIsKept'
  BY DEF CreatorsAreFirst, WorkIsInWorktrees, WorkIsKept, RunsTyped
<1>4. NoBranchIsLeft'
  BY DEF NoBranchIsLeft, AtWork, RunsTyped
<1> QED
  BY <1>1, <1>2, <1>3, <1>4

(* A commit is made in a worktree.                                            *)
LEMMA CommitKeepsInv ==
  ASSUME WorktreeInv, NEW w \in worktrees, Commit(w)
  PROVE  WorktreeInv'
<1> USE DEF WorktreeInv, Commit
<1>1. TypeOK' /\ RunsTyped' /\ CreatorsAreFirst'
  BY DEF TypeOK, RunsTyped, CreatorsAreFirst
<1>2. WorkIsInWorktrees' /\ WorkIsKept'
  BY DEF WorkIsInWorktrees, WorkIsKept, TypeOK
<1>3. NoBranchIsLeft'
  BY DEF NoBranchIsLeft, AtWork, TypeOK
<1> QED
  BY <1>1, <1>2, <1>3

LEMMA WorktreeNextInv == WorktreeInv /\ [Next]_vars => WorktreeInv'
<1> SUFFICES ASSUME WorktreeInv, [Next]_vars PROVE WorktreeInv'
  OBVIOUS
<1>1. CASE UNCHANGED vars
  BY <1>1 DEF vars, WorktreeInv, TypeOK, RunsTyped, CreatorsAreFirst, WorkIsInWorktrees,
              WorkIsKept, NoBranchIsLeft, AtWork
<1>2. CASE Next
  BY <1>2, LookingKeepsInv, CreateBranchKeepsInv, AddWorktreeKeepsInv,
     DeleteBranchKeepsInv, DeleteFailsKeepsInv, CrashKeepsInv, CommitKeepsInv DEF Next
<1> QED
  BY <1>1, <1>2

LEMMA WorktreeInvariance == Spec => []WorktreeInv
BY WorktreeInitInv, WorktreeNextInv, PTL DEF Spec

-------------------------------------------------------------------------------
(* Every variable of the worktree command has its type; a destination and a   *)
(* branch have one worktree at most, and a branch's creator is still at work. *)
THEOREM WorktreeTypeCorrect == Spec => []TypeOK
<1>1. WorktreeInv => TypeOK
  BY DEF WorktreeInv
<1> QED
  BY <1>1, WorktreeInvariance, PTL

(* No failing wip takes back a branch that was there before or that somebody  *)
(* has committed to (worktree/mod.rs, wip).                                   *)
THEOREM CommittedWorkIsKept == Spec => []WorkIsKept
<1>1. WorktreeInv => WorkIsKept
  BY DEF WorktreeInv
<1> QED
  BY <1>1, WorktreeInvariance, PTL

(* A wip that fails, however others interfere, leaves no branch of its own    *)
(* behind unless it was killed or git refused to delete the branch, which is  *)
(* then the error the run ends with (worktree/mod.rs, wip).                   *)
THEOREM FailureLeavesNoBranch == Spec => []NoBranchIsLeft
<1>1. WorktreeInv => NoBranchIsLeft
  BY DEF WorktreeInv
<1> QED
  BY <1>1, WorktreeInvariance, PTL
===============================================================================
