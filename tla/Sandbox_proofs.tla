---------------------------- MODULE Sandbox_proofs ----------------------------
(***************************************************************************)
(* First the lock alone (SandboxLock), for any number of runs and inodes.  *)
(* LockInv makes its properties inductive: the flock and the runs that     *)
(* believe they hold it agree, and while no lock file was lost every run   *)
(* past its open has the inode that the path names.  Then what the lock    *)
(* gives the commands of Sandbox, whatever commands users issue:           *)
(* SandboxInv ties the step a run is at to what it has of the lock, and    *)
(* carries the lock's own invariant over action by action.                 *)
(***************************************************************************)
EXTENDS Sandbox, TLAPS

(* A run that holds the name has the flock of the inode it opened.          *)
HolderHasFlock == \A p \in Run : Held(p) => flocked[file[p]] = p

(* Until a lock file is lost, the runs that opened it have the one that is   *)
(* linked.                                                                   *)
OpenedIsLinked ==
  ~lost => \A p \in Run : stage[p] \in {"opened", "held"} => file[p] = path

LockInv ==
  /\ LockTypeOK
  /\ NoFlockLeftBehind
  /\ HolderHasFlock
  /\ OpenedIsLinked
  /\ LeftoverOnlyFromCrash

-------------------------------------------------------------------------------
LEMMA LockInitInv == LockInit => LockInv
<1> USE RunAssumption, InodeAssumption
<1> QED
  BY DEF LockInit, LockInv, LockTypeOK, NoFlockLeftBehind, HolderHasFlock,
         OpenedIsLinked, LeftoverOnlyFromCrash, Held, Stage

(* Opening the file.  When the path names nothing, no run has opened it and   *)
(* it is not lost, so the new inode is everybody's.                           *)
LEMMA OpenKeepsInv ==
  ASSUME LockInv, NEW p \in Run, OpenLockFile(p)
  PROVE  LockInv'
<1> USE RunAssumption, InodeAssumption
<1> USE DEF LockInv, Held, Stage
<1>1. PICK i \in Inode :
        /\ IF path = None THEN i \notin InUse ELSE i = path
        /\ path' = i
        /\ file' = [file EXCEPT ![p] = i]
  BY DEF OpenLockFile
<1>2. /\ stage[p] = "none"
      /\ stage' = [stage EXCEPT ![p] = "opened"]
      /\ UNCHANGED <<flocked, lost, crashed>>
  BY DEF OpenLockFile
<1>3. LockTypeOK'
  BY <1>1, <1>2 DEF LockTypeOK
<1>4. NoFlockLeftBehind'
  BY <1>1, <1>2 DEF LockTypeOK, NoFlockLeftBehind
<1>5. HolderHasFlock'
  BY <1>1, <1>2 DEF LockTypeOK, HolderHasFlock
<1>6. OpenedIsLinked'
  <2> SUFFICES ASSUME ~lost, NEW q \in Run, stage'[q] \in {"opened", "held"}
               PROVE  file'[q] = i
    BY <1>1, <1>2 DEF OpenedIsLinked
  <2>1. CASE q = p
    BY <2>1, <1>1 DEF LockTypeOK
  <2>2. CASE q # p
    <3>1. stage[q] \in {"opened", "held"} /\ file'[q] = file[q]
      BY <2>2, <1>1, <1>2 DEF LockTypeOK
    <3>2. file[q] = path /\ path # None
      BY <3>1 DEF LockTypeOK, OpenedIsLinked
    <3> QED
      BY <3>1, <3>2, <1>1
  <2> QED
    BY <2>1, <2>2
<1>7. LeftoverOnlyFromCrash'
  BY <1>1, <1>2 DEF LockTypeOK, LeftoverOnlyFromCrash
<1> QED
  BY <1>3, <1>4, <1>5, <1>6, <1>7

LEMMA TakeKeepsInv ==
  ASSUME LockInv, NEW p \in Run, TakeFlock(p)
  PROVE  LockInv'
<1> USE RunAssumption, InodeAssumption
<1> USE DEF LockInv, Held, Stage, TakeFlock, FlockFree
<1>1. LockTypeOK' /\ file[p] \in Inode
  BY DEF LockTypeOK
<1>2. NoFlockLeftBehind'
  BY <1>1 DEF LockTypeOK, NoFlockLeftBehind
<1>3. HolderHasFlock'
  BY <1>1 DEF LockTypeOK, HolderHasFlock
<1>4. OpenedIsLinked'
  BY DEF LockTypeOK, OpenedIsLinked
<1>5. LeftoverOnlyFromCrash'
  BY DEF LeftoverOnlyFromCrash
<1> QED
  BY <1>1, <1>2, <1>3, <1>4, <1>5

(* A refused run leaves the file with the run that refused it.                *)
LEMMA RefusedKeepsInv ==
  ASSUME LockInv, NEW p \in Run, FlockRefused(p)
  PROVE  LockInv'
<1> USE RunAssumption, InodeAssumption
<1> USE DEF LockInv, Held, Stage, FlockRefused, FlockFree, FileAfterRefusal
<1>1. LockTypeOK' /\ file[p] \in Inode
  BY DEF LockTypeOK
<1>2. NoFlockLeftBehind'
  BY DEF LockTypeOK, NoFlockLeftBehind
<1>3. HolderHasFlock'
  BY DEF LockTypeOK, HolderHasFlock
<1>4. OpenedIsLinked'
  BY DEF LockTypeOK, OpenedIsLinked
<1>5. LeftoverOnlyFromCrash'
  <2>1. /\ flocked[file[p]] \in Run /\ flocked[file[p]] # p
        /\ file[flocked[file[p]]] = file[p]
    BY <1>1 DEF LockTypeOK, NoFlockLeftBehind
  <2> QED
    BY <2>1, <1>1 DEF LockTypeOK, LeftoverOnlyFromCrash
<1> QED
  BY <1>1, <1>2, <1>3, <1>4, <1>5

LEMMA UnlockKeepsInv ==
  ASSUME LockInv, NEW p \in Run, Unlock(p)
  PROVE  LockInv'
<1> USE RunAssumption, InodeAssumption
<1> USE DEF LockInv, Held, Stage, Unlock
<1>1. LockTypeOK' /\ file[p] \in Inode
  BY DEF LockTypeOK
<1>2. NoFlockLeftBehind'
  BY <1>1 DEF LockTypeOK, NoFlockLeftBehind, HolderHasFlock
<1>3. HolderHasFlock'
  BY <1>1 DEF LockTypeOK, HolderHasFlock
<1>4. OpenedIsLinked'
  BY DEF LockTypeOK, OpenedIsLinked
<1>5. LeftoverOnlyFromCrash'
  BY DEF LeftoverOnlyFromCrash
<1> QED
  BY <1>1, <1>2, <1>3, <1>4, <1>5

(* The unlink that takes the file away under a run records it as lost.        *)
LEMMA UnlinkKeepsInv ==
  ASSUME LockInv, NEW p \in Run, Unlink(p)
  PROVE  LockInv'
<1> USE RunAssumption, InodeAssumption
<1> USE DEF LockInv, Held, Stage, Unlink, PathAfterDrop
<1>1. LockTypeOK'
  BY DEF LockTypeOK
<1>2. NoFlockLeftBehind'
  BY DEF LockTypeOK, NoFlockLeftBehind
<1>3. HolderHasFlock'
  BY DEF LockTypeOK, HolderHasFlock
<1>4. OpenedIsLinked'
  <2> SUFFICES ASSUME ~lost', NEW q \in Run, stage'[q] \in {"opened", "held"}
               PROVE  FALSE
    BY DEF OpenedIsLinked
  <2>1. q # p /\ stage[q] \in {"opened", "held"} /\ ~lost
    BY DEF LockTypeOK
  <2>2. file[q] = path
    BY <2>1 DEF OpenedIsLinked
  <2> QED
    BY <2>1, <2>2
<1>5. LeftoverOnlyFromCrash'
  BY DEF LeftoverOnlyFromCrash
<1> QED
  BY <1>1, <1>2, <1>3, <1>4, <1>5

LEMMA DieKeepsInv ==
  ASSUME LockInv, NEW p \in Run, Die(p)
  PROVE  LockInv'
<1> USE RunAssumption, InodeAssumption
<1> USE DEF LockInv, Held, Stage, Die, FlockAfterDeath
<1>1. LockTypeOK'
  BY DEF LockTypeOK
<1>2. NoFlockLeftBehind'
  BY DEF LockTypeOK, NoFlockLeftBehind
<1>3. HolderHasFlock'
  BY DEF LockTypeOK, HolderHasFlock
<1>4. OpenedIsLinked'
  BY DEF LockTypeOK, OpenedIsLinked
<1>5. LeftoverOnlyFromCrash'
  BY DEF LeftoverOnlyFromCrash
<1> QED
  BY <1>1, <1>2, <1>3, <1>4, <1>5

LEMMA StutterKeepsInv == LockInv /\ UNCHANGED lockVars => LockInv'
BY DEF LockInv, LockTypeOK, NoFlockLeftBehind, HolderHasFlock, OpenedIsLinked,
       LeftoverOnlyFromCrash, Held, lockVars

LEMMA LockNextInv == LockInv /\ [LockNext]_lockVars => LockInv'
<1> SUFFICES ASSUME LockInv, [LockNext]_lockVars PROVE LockInv'
  OBVIOUS
<1>1. CASE UNCHANGED lockVars
  BY <1>1, StutterKeepsInv
<1>2. ASSUME NEW p \in Run,
             \/ OpenLockFile(p) \/ TakeFlock(p) \/ FlockRefused(p)
             \/ Unlock(p) \/ Unlink(p) \/ Die(p)
      PROVE  LockInv'
  BY <1>2, OpenKeepsInv, TakeKeepsInv, RefusedKeepsInv, UnlockKeepsInv,
     UnlinkKeepsInv, DieKeepsInv
<1> QED
  BY <1>1, <1>2 DEF LockNext

LEMMA LockInvariant == LockSpec => []LockInv
BY LockInitInv, LockNextInv, PTL DEF LockSpec

-------------------------------------------------------------------------------
LEMMA InvExcludes == LockInv => ExclusiveUnlessLost
BY DEF LockInv, HolderHasFlock, OpenedIsLinked, ExclusiveUnlessLost, Exclusive, Held

(* Type correctness of the lock.                                             *)
THEOREM LockTypeCorrect == LockSpec => []LockTypeOK
<1>1. LockInv => LockTypeOK
  BY DEF LockInv
<1> QED
  BY <1>1, LockInvariant, PTL

(* Two runs hold the name together only after a lock file was unlinked under  *)
(* a run that had it open.                                                    *)
THEOREM LockExcludes == LockSpec => []ExclusiveUnlessLost
BY InvExcludes, LockInvariant, PTL

(* A flock always belongs to a live run that believes it holds the name.      *)
THEOREM FlockDiesWithRun == LockSpec => []NoFlockLeftBehind
<1>1. LockInv => NoFlockLeftBehind
  BY DEF LockInv
<1> QED
  BY <1>1, LockInvariant, PTL

(* Without a crash, a lock file on disk is one a run is working with.         *)
THEOREM LockFileIsInUse == LockSpec => []LeftoverOnlyFromCrash
<1>1. LockInv => LeftoverOnlyFromCrash
  BY DEF LockInv
<1> QED
  BY <1>1, LockInvariant, PTL

-------------------------------------------------------------------------------
Holders == {p \in Run : Held(p)}

(* A granted flock is the promise's Acquire: nobody else holds the name.      *)
LEMMA TakeAcquires ==
  ASSUME LockInv, ~lost, NEW p \in Run, TakeFlock(p)
  PROVE  Holders = {} /\ Holders' = {p}
<1> USE DEF LockInv, Held, Stage, TakeFlock, FlockFree, Holders
<1>1. \A q \in Run : ~Held(q)
  BY RunAssumption DEF OpenedIsLinked, HolderHasFlock
<1> QED
  BY <1>1 DEF LockTypeOK

LEMMA LockStepImplements ==
  ASSUME LockInv, [LockNext]_lockVars, ~lost'
  PROVE  [Promise!Next]_Holders
<1> USE DEF Holders, Held, Stage, LockInv
<1> USE DEF Promise!Next, Promise!Acquire, Promise!Release
<1>1. CASE UNCHANGED lockVars
  BY <1>1 DEF lockVars
<1>2. ASSUME NEW p \in Run, OpenLockFile(p) PROVE UNCHANGED Holders
  BY <1>2 DEF OpenLockFile, LockTypeOK
<1>3. ASSUME NEW p \in Run, TakeFlock(p) PROVE Promise!Next
  <2>1. ~lost
    BY <1>3 DEF TakeFlock
  <2> QED
    BY <1>3, <2>1, TakeAcquires
<1>4. ASSUME NEW p \in Run, FlockRefused(p) PROVE UNCHANGED Holders
  BY <1>4 DEF FlockRefused, LockTypeOK
<1>5. ASSUME NEW p \in Run, Unlock(p) PROVE Promise!Next
  BY <1>5 DEF Unlock, LockTypeOK
<1>6. ASSUME NEW p \in Run, Unlink(p) PROVE UNCHANGED Holders
  BY <1>6 DEF Unlink, LockTypeOK
<1>7. ASSUME NEW p \in Run, Die(p) PROVE Promise!Next \/ UNCHANGED Holders
  <2>1. Holders' = Holders \ {p}
    BY <1>7 DEF Die, LockTypeOK
  <2> QED
    BY <2>1
<1> QED
  BY <1>1, <1>2, <1>3, <1>4, <1>5, <1>6, <1>7 DEF LockNext

(* Until a lock file is lost, every step of the lock file protocol is a step  *)
(* of the name lock it stands for, or none.                                   *)
THEOREM LockKeepsPromise == LockSpec => ImplementsNameLock
<1>1. LockInit => Promise!Init
  BY DEF LockInit, Promise!Init, Held
<1>2. LockInv /\ [LockNext]_lockVars
        => [lost' \/ [Promise!Next]_{p \in Run : Held(p)}]_lockVars
  BY LockStepImplements DEF Holders
<1> QED
  BY <1>1, <1>2, LockInvariant, PTL DEF LockSpec, ImplementsNameLock

-------------------------------------------------------------------------------
(* The commands                                                              *)

(* The steps a create takes with the lock, and those of a delete or shutdown. *)
LockedPc == {"mkdirs", "boot", "console", "reap", "release"}
DeletePc == {"check", "shutdown", "rmRuntime", "rmState"}

(* A run that creates has the lock throughout, so has a plain delete, and a   *)
(* run elsewhere, or one that only shuts the sandbox down, has none.          *)
PcFollowsLock ==
  \A p \in Run :
    /\ pc[p] = "flock" <=> stage[p] = "opened"
    /\ pc[p] = "unlink" <=> stage[p] = "released"
    /\ pc[p] \in LockedPc => Held(p)
    /\ Held(p) => pc[p] \in LockedPc \cup DeletePc
    /\ pc[p] \in DeletePc /\ cmd[p] = "delete" => Held(p)
    /\ cmd[p] = "shutdown" => pc[p] \in {"shutdown", "crashed"} /\ ~Held(p)

SandboxInv == TypeOK /\ LockInv /\ PcFollowsLock

-------------------------------------------------------------------------------
LEMMA SandboxInitInv == Init => SandboxInv
<1> SUFFICES ASSUME Init PROVE SandboxInv
  OBVIOUS
<1>1. LockInv
  BY LockInitInv DEF Init
<1>2. TypeOK
  BY <1>1 DEF Init, TypeOK, LockInv, Pc, VmState
<1>3. PcFollowsLock
  BY DEF Init, LockInit, PcFollowsLock, LockedPc, DeletePc, Held
<1> QED
  BY <1>1, <1>2, <1>3 DEF SandboxInv

(* The steps that touch the lock file carry its invariant.                    *)
LEMMA LockStepKeepsLockInv ==
  ASSUME LockInv, NEW p \in Run, LockStep(p) \/ Crash(p)
  PROVE  LockInv'
<1>1. \/ OpenLockFile(p) \/ TakeFlock(p) \/ FlockRefused(p)
      \/ Unlock(p) \/ Unlink(p) \/ Die(p) \/ UNCHANGED lockVars
  BY DEF LockStep, OpenLock, OpenFails, Locked, LockRefused, DropLock, UnlinkLock, Crash
<1> QED
  BY <1>1, OpenKeepsInv, TakeKeepsInv, RefusedKeepsInv, UnlockKeepsInv,
     UnlinkKeepsInv, DieKeepsInv, StutterKeepsInv

(* Every other step leaves it alone.                                          *)
LEMMA OtherStepsKeepLock ==
  ASSUME NEW p \in Run,
         \/ Start(p) \/ KilledWithParent(p)
         \/ CreateStep(p) \/ DeleteStep(p) \/ VmmStep(p)
  PROVE  UNCHANGED lockVars
BY DEF Start, KilledWithParent, CreateStep, EnsureUnique, MakeDirs, CreateFails,
       Boot, GuestGone, Reap, ReapTimesOut, ConsoleFails, Terminated, DeleteStep, PruneCheck,
       DeleteCheck, ShutdownVm, ShutdownFails, RemoveRuntimeDir, RemoveStateDir,
       RemoveFails, VmmStep, VmmListens, GuestPowersOff, VmmExits

-------------------------------------------------------------------------------
(* The steps of the lock: each moves the run's step with the run's stage.     *)
LEMMA LockStepKeepsInv ==
  ASSUME SandboxInv, NEW p \in Run, LockStep(p) \/ Crash(p)
  PROVE  SandboxInv'
<1> USE DEF SandboxInv, TypeOK, Goto, Finish, Pc, Command, Held, Stage
<1>1. LockInv' /\ LockTypeOK'
  BY LockStepKeepsLockInv DEF LockInv
<1>2. CASE OpenLock(p)
  <2>1. TypeOK'
    BY <1>1, <1>2 DEF OpenLock
  <2>2. PcFollowsLock'
    BY <1>2 DEF OpenLock, OpenLockFile, PcFollowsLock, LockedPc, DeletePc, LockTypeOK
  <2> QED
    BY <1>1, <2>1, <2>2
<1>3. CASE Locked(p)
  <2>1. TypeOK'
    BY <1>1, <1>3 DEF Locked
  <2>2. PcFollowsLock'
    BY <1>3 DEF Locked, TakeFlock, PcFollowsLock, LockedPc, DeletePc, LockTypeOK
  <2> QED
    BY <1>1, <2>1, <2>2
<1>4. CASE LockRefused(p)
  <2>1. TypeOK'
    BY <1>1, <1>4 DEF LockRefused
  <2>2. PcFollowsLock'
    BY <1>4 DEF LockRefused, FlockRefused, GoesOnUnlocked, Forced, PcFollowsLock,
                LockedPc, DeletePc, LockTypeOK
  <2> QED
    BY <1>1, <2>1, <2>2
<1>5. CASE DropLock(p)
  <2>1. TypeOK'
    BY <1>1, <1>5 DEF DropLock
  <2>2. PcFollowsLock'
    BY <1>5 DEF DropLock, Unlock, PcFollowsLock, LockedPc, DeletePc, LockTypeOK
  <2> QED
    BY <1>1, <2>1, <2>2
<1>6. CASE UnlinkLock(p)
  <2>1. TypeOK'
    BY <1>1, <1>6 DEF UnlinkLock
  <2>2. PcFollowsLock'
    BY <1>6 DEF UnlinkLock, Unlink, PcFollowsLock, LockedPc, DeletePc, LockTypeOK
  <2> QED
    BY <1>1, <2>1, <2>2
<1>7. CASE Crash(p)
  <2>1. TypeOK'
    BY <1>1, <1>7 DEF Crash
  <2>2. PcFollowsLock'
    BY <1>7 DEF Crash, Die, PcFollowsLock, LockedPc, DeletePc, LockTypeOK
  <2> QED
    BY <1>1, <2>1, <2>2
<1>8. CASE OpenFails(p)
  BY <1>1, <1>8 DEF OpenFails, PcFollowsLock, LockedPc, DeletePc, lockVars
<1> QED
  BY <1>2, <1>3, <1>4, <1>5, <1>6, <1>7, <1>8 DEF LockStep

(* The steps of a create that holds the lock stay with it up to "release".    *)
LEMMA CreateStepKeepsInv ==
  ASSUME SandboxInv, NEW p \in Run, CreateStep(p)
  PROVE  SandboxInv'
<1> USE DEF SandboxInv, TypeOK, Goto, Finish, Unwind, DropVm, Pc, Command, VmState
<1> USE DEF PcFollowsLock, LockedPc, DeletePc, Held, lockVars
<1>1. UNCHANGED lockVars /\ LockInv' /\ LockTypeOK'
  BY OtherStepsKeepLock, StutterKeepsInv DEF LockInv
<1>2. CASE EnsureUnique(p)
  BY <1>1, <1>2 DEF EnsureUnique
<1>3. CASE MakeDirs(p)
  BY <1>1, <1>3 DEF MakeDirs
<1>4. CASE CreateFails(p)
  BY <1>1, <1>4, ZenonT(60) DEF CreateFails
<1>5. CASE Boot(p)
  BY <1>1, <1>5 DEF Boot, SocketAtBoot
<1>6. CASE GuestGone(p)
  BY <1>1, <1>6 DEF GuestGone
<1>7. CASE Reap(p)
  BY <1>1, <1>7 DEF Reap
<1>8. CASE ReapTimesOut(p)
  BY <1>1, <1>8 DEF ReapTimesOut, WaitExpires
<1>9. CASE Terminated(p)
  BY <1>1, <1>9 DEF Terminated
<1>10. CASE ConsoleFails(p)
  BY <1>1, <1>10 DEF ConsoleFails
<1> QED
  BY <1>2, <1>3, <1>4, <1>5, <1>6, <1>7, <1>8, <1>9, <1>10 DEF CreateStep

(* A delete keeps the lock it has from its check to its last removal.         *)
LEMMA DeleteStepKeepsInv ==
  ASSUME SandboxInv, NEW p \in Run, DeleteStep(p)
  PROVE  SandboxInv'
<1> USE DEF SandboxInv, TypeOK, Goto, Finish, LeaveScope, Pc, Command, VmState
<1> USE DEF PcFollowsLock, LockedPc, DeletePc, Held, lockVars
<1>1. UNCHANGED lockVars /\ LockInv' /\ LockTypeOK'
  BY OtherStepsKeepLock, StutterKeepsInv DEF LockInv
<1>2. CASE PruneCheck(p)
  BY <1>1, <1>2 DEF PruneCheck
<1>3. CASE DeleteCheck(p)
  BY <1>1, <1>3 DEF DeleteCheck
<1>4. CASE ShutdownVm(p)
  <2>1. vm' \in [Run -> VmState] /\ UNCHANGED <<sock, runtimeDir, stateDir>>
    BY <1>4 DEF ShutdownVm, IsRunning
  <2>2. \/ pc' = [pc EXCEPT ![p] = "idle"] /\ cmd' = [cmd EXCEPT ![p] = "none"]
           /\ cmd[p] = "shutdown"
        \/ pc' = [pc EXCEPT ![p] = "rmRuntime"] /\ cmd' = cmd /\ cmd[p] # "shutdown"
    BY <1>4 DEF ShutdownVm, AfterShutdown
  <2>3. TypeOK'
    BY <1>1, <2>1, <2>2
  <2>4. PcFollowsLock'
    BY <1>1, <1>4, <2>2 DEF ShutdownVm
  <2> QED
    BY <1>1, <2>3, <2>4
<1>5. CASE ShutdownFails(p)
  BY <1>1, <1>5 DEF ShutdownFails
<1>6. CASE RemoveRuntimeDir(p)
  BY <1>1, <1>6, ZenonT(60) DEF RemoveRuntimeDir
<1>7. CASE RemoveStateDir(p)
  <2>1. \/ pc' = [pc EXCEPT ![p] = "release"] /\ cmd' = cmd /\ Held(p)
        \/ pc' = [pc EXCEPT ![p] = "idle"] /\ cmd' = [cmd EXCEPT ![p] = "none"]
           /\ ~Held(p)
    BY <1>7 DEF RemoveStateDir
  <2>2. TypeOK'
    BY <1>1, <1>7, <2>1 DEF RemoveStateDir
  <2>3. PcFollowsLock'
    BY <1>1, <1>7, <2>1 DEF RemoveStateDir
  <2> QED
    BY <1>1, <2>2, <2>3
<1>8. CASE RemoveFails(p)
  <2>1. \/ pc' = [pc EXCEPT ![p] = "release"] /\ cmd' = cmd /\ Held(p)
        \/ pc' = [pc EXCEPT ![p] = "idle"] /\ cmd' = [cmd EXCEPT ![p] = "none"]
           /\ ~Held(p)
    BY <1>8 DEF RemoveFails
  <2>2. TypeOK'
    BY <1>1, <1>8, <2>1 DEF RemoveFails
  <2>3. PcFollowsLock'
    BY <1>1, <1>8, <2>1 DEF RemoveFails
  <2> QED
    BY <1>1, <2>2, <2>3
<1> QED
  BY <1>2, <1>3, <1>4, <1>5, <1>6, <1>7, <1>8 DEF DeleteStep

(* Users, VMMs and the kernel do not move a run that has the lock.            *)
LEMMA EnvironmentKeepsInv ==
  ASSUME SandboxInv, NEW p \in Run, Start(p) \/ KilledWithParent(p) \/ VmmStep(p)
  PROVE  SandboxInv'
<1> USE DEF SandboxInv, TypeOK, Goto, Finish, Pc, Command, VmState
<1> USE DEF PcFollowsLock, LockedPc, DeletePc, Held, lockVars
<1>1. UNCHANGED lockVars /\ LockInv' /\ LockTypeOK'
  BY OtherStepsKeepLock, StutterKeepsInv DEF LockInv
<1>2. CASE Start(p)
  BY <1>1, <1>2, CommandsAssumption DEF Start, FirstStep
<1>3. CASE KilledWithParent(p)
  BY <1>1, <1>3 DEF KilledWithParent
<1>4. CASE VmmListens(p)
  BY <1>1, <1>4 DEF VmmListens
<1>5. CASE GuestPowersOff(p)
  BY <1>1, <1>5 DEF GuestPowersOff
<1>6. CASE VmmExits(p)
  BY <1>1, <1>6 DEF VmmExits
<1> QED
  BY <1>2, <1>3, <1>4, <1>5, <1>6 DEF VmmStep

LEMMA SandboxNextInv == SandboxInv /\ [Next]_vars => SandboxInv'
<1> SUFFICES ASSUME SandboxInv, [Next]_vars PROVE SandboxInv'
  OBVIOUS
<1>1. CASE UNCHANGED vars
  <2>1. LockInv' /\ UNCHANGED <<lockVars, sandboxVars>>
    BY <1>1, StutterKeepsInv DEF vars, SandboxInv
  <2> QED
    BY <2>1 DEF SandboxInv, LockInv, TypeOK, PcFollowsLock, Held, lockVars, sandboxVars
<1>2. CASE Next
  BY <1>2, LockStepKeepsInv, CreateStepKeepsInv, DeleteStepKeepsInv,
     EnvironmentKeepsInv DEF Next
<1> QED
  BY <1>1, <1>2

LEMMA SandboxInvariant == Spec => []SandboxInv
BY SandboxInitInv, SandboxNextInv, PTL DEF Spec

-------------------------------------------------------------------------------
(* Type correctness, the lock's part included.                               *)
THEOREM SandboxTypeCorrect == Spec => []TypeOK
<1>1. SandboxInv => TypeOK
  BY DEF SandboxInv
<1> QED
  BY <1>1, SandboxInvariant, PTL

(* However many runs create, delete, prune, shut down and die, at most one is *)
(* attached to a live VMM of the name, unless a lock file was lost.           *)
THEOREM OneSandbox == Spec => []OneSandboxPerName
<1>1. SandboxInv => OneSandboxPerName
  BY InvExcludes
     DEF SandboxInv, PcFollowsLock, LockedPc, OneSandboxPerName, Serving,
         ExclusiveUnlessLost, Exclusive
<1> QED
  BY <1>1, SandboxInvariant, PTL

(* A plain delete, and a prune, never works on a sandbox that runs.           *)
THEOREM DeleteSparesRunning == Spec => []PlainDeleteSparesRunning
<1>1. SandboxInv => PlainDeleteSparesRunning
  <2> SUFFICES ASSUME SandboxInv, ~lost, NEW p \in Run, NEW q \in Run,
                      cmd[p] = "delete", Destroying(p), Serving(q)
               PROVE  FALSE
    BY DEF PlainDeleteSparesRunning
  <2>1. Held(p) /\ Held(q)
    BY DEF SandboxInv, PcFollowsLock, LockedPc, DeletePc, Destroying, Serving
  <2>2. p = q
    BY <2>1, InvExcludes DEF SandboxInv, ExclusiveUnlessLost, Exclusive
  <2> QED
    BY <2>2 DEF Destroying, Serving
<1> QED
  BY <1>1, SandboxInvariant, PTL

-------------------------------------------------------------------------------
(* A run that dies with the lock gives it back, any other one has none.      *)
LEMMA CrashImplements ==
  ASSUME SandboxInv, NEW p \in Run, Crash(p)
  PROVE  [Promise!Next]_Holders
<1>1. Holders' = Holders \ {p}
  BY DEF Crash, Die, Holders, Held, SandboxInv, TypeOK, LockTypeOK, Stage
<1> QED
  BY <1>1 DEF Promise!Next, Promise!Release, Holders

LEMMA SandboxStepImplements ==
  ASSUME SandboxInv, [Next]_vars, ~lost'
  PROVE  [Promise!Next]_Holders
<1>1. CASE [LockNext]_lockVars
  BY <1>1, LockStepImplements DEF SandboxInv
<1>2. CASE UNCHANGED vars
  BY <1>1, <1>2 DEF vars
<1>3. ASSUME NEW p \in Run, LockStep(p) PROVE [LockNext]_lockVars
  BY <1>3 DEF LockNext, LockStep, OpenLock, OpenFails, Locked, LockRefused, DropLock,
              UnlinkLock
<1>4. ASSUME NEW p \in Run,
             \/ Start(p) \/ KilledWithParent(p)
             \/ CreateStep(p) \/ DeleteStep(p) \/ VmmStep(p)
      PROVE  [LockNext]_lockVars
  BY <1>4, OtherStepsKeepLock
<1> QED
  BY <1>1, <1>2, <1>3, <1>4, CrashImplements DEF Next

(* With all the commands around it, and with runs that die anywhere, each    *)
(* step is one of the name lock's or none, until a lock file is lost.        *)
THEOREM SandboxKeepsPromise == Spec => ImplementsNameLock
<1>1. Init => Promise!Init
  BY DEF Init, LockInit, Promise!Init, Held
<1>2. SandboxInv /\ [Next]_vars
        => [lost' \/ [Promise!Next]_{p \in Run : Held(p)}]_lockVars
  BY SandboxStepImplements DEF Holders
<1> QED
  BY <1>1, <1>2, SandboxInvariant, PTL DEF Spec, ImplementsNameLock

-------------------------------------------------------------------------------
(* The directories                                                           *)

LEMMA LostStays ==
  ASSUME NEW p \in Run, LockStep(p) \/ Crash(p), ~lost', lost \in BOOLEAN
  PROVE  ~lost
BY DEF LockStep, OpenLock, OpenFails, Locked, LockRefused, DropLock, UnlinkLock, Crash,
       OpenLockFile, TakeFlock, FlockRefused, Unlock, Unlink, Die, lockVars

(* A delete that has the lock has removed the runtime directory before it    *)
(* comes to the state directory, and nobody has made it again.               *)
RuntimeDirIsGone ==
  ~lost => \A p \in Run : Held(p) /\ pc[p] = "rmState" => ~runtimeDir

LEMMA MakersHoldTheLock ==
  ASSUME SandboxInv, ~lost, NEW p \in Run, NEW q \in Run,
         Held(p), pc[q] \in {"mkdirs", "boot", "console", "reap"}
  PROVE  p = q
<1>1. Held(q)
  BY DEF SandboxInv, PcFollowsLock, LockedPc
<1> QED
  BY <1>1, InvExcludes DEF SandboxInv, ExclusiveUnlessLost, Exclusive

LEMMA LockStepsLeaveDirs ==
  ASSUME SandboxInv, NEW p \in Run, LockStep(p) \/ Crash(p)
  PROVE  /\ UNCHANGED <<vm, sock, runtimeDir, stateDir>>
         /\ \A q \in Run : q # p => /\ stage'[q] = stage[q]
                                    /\ pc'[q] = pc[q] /\ cmd'[q] = cmd[q]
         /\ pc'[p] \notin {"rmRuntime", "rmState", "console", "reap"}
<1> USE DEF SandboxInv, TypeOK, LockTypeOK, Goto, Finish, Held
<1>1. CASE OpenLock(p)
  BY <1>1 DEF OpenLock, OpenLockFile
<1>2. CASE OpenFails(p)
  BY <1>2 DEF OpenFails, lockVars
<1>3. CASE Locked(p)
  BY <1>3 DEF Locked, TakeFlock
<1>4. CASE LockRefused(p)
  BY <1>4 DEF LockRefused, FlockRefused
<1>5. CASE DropLock(p)
  BY <1>5 DEF DropLock, Unlock
<1>6. CASE UnlinkLock(p)
  BY <1>6 DEF UnlinkLock, Unlink
<1>7. CASE Crash(p)
  BY <1>7 DEF Crash, Die
<1> QED
  BY <1>1, <1>2, <1>3, <1>4, <1>5, <1>6, <1>7 DEF LockStep

LEMMA RuntimeDirStaysGone ==
  ASSUME SandboxInv, RuntimeDirIsGone, [Next]_vars PROVE RuntimeDirIsGone'
<1> SUFFICES ASSUME ~lost', NEW q \in Run, Held(q)', pc'[q] = "rmState"
             PROVE  ~runtimeDir'
  BY DEF RuntimeDirIsGone
<1> USE DEF SandboxInv, TypeOK, Goto, Finish, Held
<1>1. CASE UNCHANGED vars
  BY <1>1 DEF vars, sandboxVars, lockVars, RuntimeDirIsGone
<1>2. ASSUME NEW p \in Run, LockStep(p) \/ Crash(p) PROVE ~runtimeDir'
  <2>1. /\ ~lost /\ runtimeDir' = runtimeDir /\ q # p
        /\ stage'[q] = stage[q] /\ pc'[q] = pc[q]
    BY <1>2, LockStepsLeaveDirs, LostStays DEF LockTypeOK
  <2> QED
    BY <2>1 DEF RuntimeDirIsGone
<1>3. ASSUME NEW p \in Run,
             \/ Start(p) \/ KilledWithParent(p)
             \/ CreateStep(p) \/ DeleteStep(p) \/ VmmStep(p)
      PROVE  ~runtimeDir'
  <2>1. ~lost /\ Held(q)
    BY <1>3, OtherStepsKeepLock DEF lockVars
  <2>2. CASE CreateStep(p)
    <3>1. pc[q] = "rmState" /\ q # p
      BY <2>2 DEF CreateStep, EnsureUnique, MakeDirs, CreateFails, Boot, GuestGone, Reap,
                  ReapTimesOut, ConsoleFails, Terminated, Unwind
    <3>2. pc[p] \notin {"mkdirs", "boot", "console", "reap"}
      BY <2>1, <3>1, MakersHoldTheLock
    <3>3. runtimeDir' = runtimeDir
      BY <2>2, <3>2 DEF CreateStep, EnsureUnique, MakeDirs, CreateFails, Boot, GuestGone,
                        Reap, ReapTimesOut, ConsoleFails, Terminated
    <3> QED
      BY <2>1, <3>1, <3>3 DEF RuntimeDirIsGone
  <2>3. CASE DeleteStep(p)
    <3>1. CASE RemoveRuntimeDir(p)
      BY <3>1 DEF RemoveRuntimeDir
    <3>2. CASE ~RemoveRuntimeDir(p)
      <4>1. runtimeDir' = runtimeDir /\ pc[q] = "rmState"
        BY <2>3, <3>2 DEF DeleteStep, PruneCheck, DeleteCheck, ShutdownVm, ShutdownFails,
                          RemoveStateDir, RemoveFails, LeaveScope, AfterShutdown
      <4> QED
        BY <2>1, <4>1 DEF RuntimeDirIsGone
    <3> QED
      BY <3>1, <3>2
  <2>4. CASE Start(p) \/ KilledWithParent(p) \/ VmmStep(p)
    <3>1. runtimeDir' = runtimeDir /\ pc[q] = "rmState"
      BY <2>4 DEF Start, KilledWithParent, VmmStep, VmmListens, GuestPowersOff, VmmExits,
                  FirstStep
    <3> QED
      BY <2>1, <3>1 DEF RuntimeDirIsGone
  <2> QED
    BY <1>3, <2>2, <2>3, <2>4
<1> QED
  BY <1>1, <1>2, <1>3 DEF Next

(* A delete that has the lock leaves neither directory behind: no create of  *)
(* the name, which would need the lock too, makes the runtime directory again *)
(* between the two remove_dir_all of delete_sandbox.                         *)
THEOREM DeleteRemovesAll == Spec => DeleteLeavesNothing
<1>1. Init => RuntimeDirIsGone
  BY DEF Init, RuntimeDirIsGone
<1>2. SandboxInv /\ RuntimeDirIsGone /\ [Next]_vars => RuntimeDirIsGone'
  BY RuntimeDirStaysGone
<1>3. SandboxInv /\ RuntimeDirIsGone /\ [Next]_vars
        => [\A p \in Run : /\ ~lost
                           /\ Held(p) /\ RemoveStateDir(p)
                           => ~runtimeDir' /\ ~stateDir']_vars
  BY DEF RuntimeDirIsGone, RemoveStateDir
<1> QED
  BY <1>1, <1>2, <1>3, SandboxInvariant, PTL DEF Spec, DeleteLeavesNothing

-------------------------------------------------------------------------------
(* Without forced deletes                                                    *)

(* The commands that never delete with force; --delete-after-shutdown does.  *)
Plain == {"create", "shutdown", "delete", "prune"}

(* Where the runs of plain commands can be.                                  *)
CommandFits ==
  \A p \in Run :
    /\ cmd[p] \in Plain \cup {"none"}
    /\ pc[p] = "unique" => cmd[p] = "create"
    /\ pc[p] \in {"open", "flock"} => cmd[p] \in {"create", "delete"}
    /\ pc[p] \in {"check", "rmRuntime", "rmState"} => cmd[p] = "delete"
    /\ pc[p] = "shutdown" => cmd[p] \in {"delete", "shutdown"}

(* A VMM lives no longer than the run that has started it is attached to it, *)
(* but for the moment the kernel takes to kill it with its run.              *)
VmFollowsRun == \A p \in Run : Alive(p) => pc[p] \in {"console", "reap", "crashed"}

ServedIsThere ==
  ~lost => \A p \in Run :
    Serving(p) => runtimeDir /\ stateDir /\ (vm[p] = "running" => sock = p)

PlainInv == CommandFits /\ VmFollowsRun /\ ServedIsThere

LEMMA PlainInitInv == Init => PlainInv
BY DEF Init, PlainInv, CommandFits, VmFollowsRun, ServedIsThere, Serving, Alive

(* Every step leaves a run at a step that fits its command.                  *)
LEMMA CommandStillFits ==
  ASSUME Commands \subseteq Plain, SandboxInv, CommandFits, NEW p \in Run,
         \/ Start(p) \/ Crash(p) \/ KilledWithParent(p)
         \/ CreateStep(p) \/ LockStep(p) \/ DeleteStep(p) \/ VmmStep(p)
  PROVE  CommandFits'
<1> USE DEF SandboxInv, TypeOK, CommandFits, Plain, Goto, Finish
<1>1. CASE Start(p)
  BY <1>1 DEF Start, FirstStep
<1>2. CASE Crash(p) \/ KilledWithParent(p)
  BY <1>2 DEF Crash, KilledWithParent
<1>3. CASE CreateStep(p)
  <2>1. CASE EnsureUnique(p)
    BY <2>1 DEF EnsureUnique
  <2>2. CASE MakeDirs(p) \/ CreateFails(p) \/ Boot(p)
    BY <2>2, ZenonT(60) DEF MakeDirs, CreateFails, Boot, Unwind
  <2>3. CASE GuestGone(p) \/ Reap(p) \/ Terminated(p)
    BY <2>3 DEF GuestGone, Reap, Terminated
  <2>4. CASE ReapTimesOut(p) \/ ConsoleFails(p)
    BY <2>4 DEF ReapTimesOut, ConsoleFails, Unwind
  <2> QED
    BY <1>3, <2>1, <2>2, <2>3, <2>4 DEF CreateStep
<1>4. CASE LockStep(p)
  BY <1>4 DEF LockStep, OpenLock, OpenFails, Locked, LockRefused, DropLock, UnlinkLock,
              Creating, GoesOnUnlocked, Forced, DeletesAfter
<1>5. CASE DeleteStep(p)
  BY <1>5 DEF DeleteStep, PruneCheck, DeleteCheck, ShutdownVm, ShutdownFails, AfterShutdown,
              RemoveRuntimeDir, RemoveStateDir, RemoveFails, LeaveScope
<1>6. CASE VmmStep(p)
  BY <1>6 DEF VmmStep, VmmListens, GuestPowersOff, VmmExits
<1> QED
  BY <1>1, <1>2, <1>3, <1>4, <1>5, <1>6

(* While a VMM is served, a run with the lock is the run that serves it.     *)
LEMMA ServerHoldsTheLock ==
  ASSUME SandboxInv, ~lost, NEW p \in Run, NEW q \in Run, Serving(q),
         Held(p) \/ pc[p] \in {"mkdirs", "boot", "console", "reap"}
  PROVE  p = q
<1>1. Held(q) /\ Held(p)
  BY DEF SandboxInv, PcFollowsLock, LockedPc, Serving
<1> QED
  BY <1>1, InvExcludes DEF SandboxInv, ExclusiveUnlessLost, Exclusive

LEMMA CreateKeepsServed ==
  ASSUME SandboxInv, PlainInv, NEW p \in Run, CreateStep(p)
  PROVE  VmFollowsRun' /\ ServedIsThere'
<1> USE DEF SandboxInv, TypeOK, PlainInv, Goto, Finish, Unwind, DropVm, Alive, Serving
<1>1. VmFollowsRun'
  BY DEF CreateStep, EnsureUnique, MakeDirs, CreateFails, Boot, GuestGone, Reap,
         ReapTimesOut, ConsoleFails, Terminated, VmFollowsRun, VmState
<1>2. ServedIsThere'
  <2> SUFFICES ASSUME ~lost', NEW q \in Run, Serving(q)'
               PROVE  runtimeDir' /\ stateDir' /\ (vm'[q] = "running" => sock' = q)
    BY DEF ServedIsThere
  <2>1. ~lost
    BY OtherStepsKeepLock DEF lockVars
  <2>2. CASE q = p
    BY <2>1, <2>2 DEF CreateStep, EnsureUnique, MakeDirs, CreateFails, Boot, GuestGone, Reap,
                      ReapTimesOut, ConsoleFails, Terminated, ServedIsThere, VmState
  <2>3. CASE q # p
    <3>1. Serving(q) /\ vm'[q] = vm[q]
      BY <2>3 DEF CreateStep, EnsureUnique, MakeDirs, CreateFails, Boot, GuestGone, Reap,
                  ReapTimesOut, ConsoleFails, Terminated, VmState
    <3>2. pc[p] \notin {"mkdirs", "boot", "console", "reap"}
      BY <2>1, <2>3, <3>1, ServerHoldsTheLock
    <3>3. UNCHANGED <<runtimeDir, stateDir, sock>>
      BY <3>2 DEF CreateStep, EnsureUnique, MakeDirs, CreateFails, Boot, GuestGone, Reap,
                  ReapTimesOut, ConsoleFails, Terminated
    <3> QED
      BY <2>1, <3>1, <3>3 DEF ServedIsThere
  <2> QED
    BY <2>2, <2>3
<1> QED
  BY <1>1, <1>2

LEMMA LockKeepsServed ==
  ASSUME SandboxInv, PlainInv, NEW p \in Run, LockStep(p) \/ Crash(p)
  PROVE  VmFollowsRun' /\ ServedIsThere'
<1> USE DEF SandboxInv, TypeOK, PlainInv, Alive, Serving
<1>1. /\ UNCHANGED <<vm, sock, runtimeDir, stateDir>>
      /\ \A q \in Run : q # p => pc'[q] = pc[q]
      /\ pc'[p] \notin {"console", "reap"}
  BY LockStepsLeaveDirs
<1>2. ~lost' => ~lost
  BY LostStays DEF LockTypeOK
<1>3. VmFollowsRun'
  <2>1. CASE LockStep(p)
    <3>1. ~Alive(p)
      BY <2>1 DEF LockStep, OpenLock, OpenFails, Locked, LockRefused, DropLock, UnlinkLock,
                  VmFollowsRun
    <3> QED
      BY <1>1, <3>1 DEF VmFollowsRun
  <2>2. CASE Crash(p)
    BY <1>1, <2>2 DEF Crash, Goto, VmFollowsRun
  <2> QED
    BY <2>1, <2>2
<1>4. ServedIsThere'
  BY <1>1, <1>2 DEF ServedIsThere
<1> QED
  BY <1>3, <1>4

LEMMA DeleteKeepsServed ==
  ASSUME SandboxInv, PlainInv, NEW p \in Run, DeleteStep(p)
  PROVE  VmFollowsRun' /\ ServedIsThere'
<1> USE DEF SandboxInv, TypeOK, PlainInv, Goto, Finish, LeaveScope, Alive, Serving
<1>1. /\ \A q \in Run : q # p => pc'[q] = pc[q]
      /\ pc'[p] \notin {"console", "reap", "crashed"} /\ ~Alive(p)
      /\ \A q \in Run : vm'[q] = vm[q] \/ (vm'[q] = "closing" /\ q = sock)
      /\ \A q \in Run : vm[q] = "none" => vm'[q] = "none"
  <2>1. CASE ShutdownVm(p)
    BY <2>1 DEF ShutdownVm, AfterShutdown, IsRunning, VmState, VmFollowsRun
  <2>2. CASE ~ShutdownVm(p)
    BY <2>2 DEF DeleteStep, PruneCheck, DeleteCheck, ShutdownFails, RemoveRuntimeDir,
                RemoveStateDir, RemoveFails, VmFollowsRun
  <2> QED
    BY <2>1, <2>2
<1>2. VmFollowsRun'
  BY <1>1 DEF VmFollowsRun
<1>3. ServedIsThere'
  <2> SUFFICES ASSUME ~lost', NEW q \in Run, Serving(q)'
               PROVE  runtimeDir' /\ stateDir' /\ (vm'[q] = "running" => sock' = q)
    BY DEF ServedIsThere
  <2>1. ~lost
    BY OtherStepsKeepLock DEF lockVars
  <2>2. q # p /\ Serving(q) /\ (vm'[q] = "running" => vm[q] = "running")
    BY <1>1
  <2>3. pc[p] \notin {"rmRuntime", "rmState"}
    <3>1. pc[p] \in {"rmRuntime", "rmState"} => Held(p)
      BY DEF CommandFits, PcFollowsLock, DeletePc
    <3> QED
      BY <2>1, <2>2, <3>1, ServerHoldsTheLock
  <2>4. UNCHANGED <<runtimeDir, stateDir, sock>>
    BY <2>3 DEF DeleteStep, PruneCheck, DeleteCheck, ShutdownVm, ShutdownFails,
                RemoveRuntimeDir, RemoveStateDir, RemoveFails
  <2> QED
    BY <2>1, <2>2, <2>4 DEF ServedIsThere
<1> QED
  BY <1>2, <1>3

LEMMA EnvironmentKeepsServed ==
  ASSUME SandboxInv, PlainInv, NEW p \in Run, Start(p) \/ KilledWithParent(p) \/ VmmStep(p)
  PROVE  VmFollowsRun' /\ ServedIsThere'
<1> USE DEF SandboxInv, TypeOK, PlainInv, Goto, Finish, Alive, Serving
<1>1. lost' = lost
  BY OtherStepsKeepLock DEF lockVars
<1>2. CASE Start(p)
  <2>1. ~Alive(p)
    BY <1>2 DEF Start, VmFollowsRun
  <2>2. /\ UNCHANGED <<vm, sock, runtimeDir, stateDir>> /\ pc'[p] \notin {"console", "reap"}
        /\ \A q \in Run : q # p => pc'[q] = pc[q]
    BY <1>2, CommandsAssumption DEF Start, FirstStep, Command
  <2> QED
    BY <1>1, <2>1, <2>2 DEF VmFollowsRun, ServedIsThere
<1>3. CASE KilledWithParent(p)
  BY <1>1, <1>3 DEF KilledWithParent, VmFollowsRun, ServedIsThere, VmState
<1>4. CASE VmmListens(p)
  <2>1. Serving(p) /\ UNCHANGED <<pc, runtimeDir, stateDir>>
    BY <1>4 DEF VmmListens, VmFollowsRun
  <2>2. \A q \in Run : q # p => vm'[q] = vm[q]
    BY <1>4 DEF VmmListens
  <2>3. vm'[p] = "running" => sock' = p
    BY <1>4 DEF VmmListens, VmState
  <2>4. ~lost => \A q \in Run : Serving(q) => p = q
    BY <2>1, ServerHoldsTheLock
  <2>5. VmFollowsRun'
    BY <2>1, <2>2 DEF VmFollowsRun
  <2>6. ServedIsThere'
    BY <1>1, <2>1, <2>2, <2>3, <2>4 DEF ServedIsThere
  <2> QED
    BY <2>5, <2>6
<1>5. CASE GuestPowersOff(p) \/ VmmExits(p)
  BY <1>1, <1>5 DEF GuestPowersOff, VmmExits, VmFollowsRun, ServedIsThere, VmState
<1> QED
  BY <1>2, <1>3, <1>4, <1>5 DEF VmmStep

(* Without forced deletes, ps, shutdown, delete and prune reach the sandbox  *)
(* that runs: the VMM of the run that is attached answers on the API socket, *)
(* whichever runs of the name fail, unwind or die meanwhile.                 *)
THEOREM RunningSandboxIsSeen ==
  ASSUME Commands \subseteq Plain
  PROVE  Spec => []RunningIsReachable
<1>1. SandboxInv /\ PlainInv /\ [Next]_vars => PlainInv'
  <2> SUFFICES ASSUME SandboxInv, PlainInv, [Next]_vars PROVE PlainInv'
    OBVIOUS
  <2>1. CASE UNCHANGED vars
    BY <2>1 DEF vars, sandboxVars, lockVars, PlainInv, CommandFits, VmFollowsRun,
                ServedIsThere, Serving, Alive
  <2>2. ASSUME NEW p \in Run,
               \/ Start(p) \/ Crash(p) \/ KilledWithParent(p)
               \/ CreateStep(p) \/ LockStep(p) \/ DeleteStep(p) \/ VmmStep(p)
        PROVE  PlainInv'
    <3>1. CommandFits'
      BY <2>2, CommandStillFits DEF PlainInv
    <3>2. VmFollowsRun' /\ ServedIsThere'
      BY <2>2, CreateKeepsServed, LockKeepsServed, DeleteKeepsServed, EnvironmentKeepsServed
    <3> QED
      BY <3>1, <3>2 DEF PlainInv
  <2> QED
    BY <2>1, <2>2 DEF Next
<1>2. PlainInv => RunningIsReachable
  BY DEF PlainInv, ServedIsThere, RunningIsReachable
<1> QED
  BY PlainInitInv, <1>1, <1>2, SandboxInvariant, PTL DEF Spec

===============================================================================
