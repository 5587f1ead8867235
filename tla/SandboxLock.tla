----------------------------- MODULE SandboxLock ------------------------------
(***************************************************************************)
(* The lock file <runtime dir>/<name>.lock of ONE sandbox name             *)
(* (src/sandbox/lock.rs).  A run opens the file, creating it if need be,   *)
(* and then asks for a non-blocking exclusive flock on what it opened.     *)
(* Dropping the lock gives the flock back and then removes whatever file   *)
(* the path names.  The file system is modelled down to the inode: the     *)
(* flock belongs to the inode, the name only to the directory.             *)
(***************************************************************************)
EXTENDS FiniteSets

CONSTANTS
  Run,     (* the blinools processes that work on the name                 *)
  Inode,   (* inodes the file system hands out for the lock file           *)
  None     (* no inode / no run                                            *)

ASSUME RunAssumption == None \notin Run
ASSUME InodeAssumption == None \notin Inode

VARIABLES
  path,    (* the inode <name>.lock refers to, None when there is no file  *)
  flocked, (* for each inode the run whose descriptor has the flock        *)
  file,    (* for each run the inode of its open descriptor                *)
  stage,   (* how far each run is in acquiring or dropping the lock        *)
  lost,    (* history: a lock file was unlinked while another run held it  *)
           (* or was about to lock it                                      *)
  crashed  (* history: a run has died inside the protocol                  *)

lockVars == <<path, flocked, file, stage, lost, crashed>>

Stage == {"none", "opened", "held", "released"}

Held(p) == stage[p] = "held"

(* Inodes that still exist: linked, or open somewhere.                      *)
InUse == {path} \cup {file[p] : p \in Run}

LockInit ==
  /\ path = None
  /\ flocked = [i \in Inode |-> None]
  /\ file = [p \in Run |-> None]
  /\ stage = [p \in Run |-> "none"]
  /\ lost = FALSE
  /\ crashed = FALSE

-------------------------------------------------------------------------------
(* try_acquire_at, first half: open(create, no truncate).                   *)
OpenLockFile(p) ==
  /\ stage[p] = "none"
  /\ stage' = [stage EXCEPT ![p] = "opened"]
  /\ \E i \in Inode :
       /\ IF path = None THEN i \notin InUse ELSE i = path
       /\ path' = i
       /\ file' = [file EXCEPT ![p] = i]
  /\ UNCHANGED <<flocked, lost, crashed>>

FlockAnyway(i) == TRUE       \* mutated form: the WouldBlock answer is ignored
FlockFree(i) == flocked[i] = None

(* try_acquire_at, second half, when LOCK_EX | LOCK_NB is granted.          *)
TakeFlock(p) ==
  /\ stage[p] = "opened"
  /\ FlockFree(file[p])
  /\ flocked' = [flocked EXCEPT ![file[p]] = p]
  /\ stage' = [stage EXCEPT ![p] = "held"]
  /\ UNCHANGED <<path, file, lost, crashed>>

FileAfterRefusal(p) == None

(* ... and when it answers WouldBlock: the descriptor is dropped again and   *)
(* the caller gets None.  The file stays.                                   *)
FlockRefused(p) ==
  /\ stage[p] = "opened"
  /\ ~FlockFree(file[p])
  /\ file' = [file EXCEPT ![p] = FileAfterRefusal(p)]
  /\ stage' = [stage EXCEPT ![p] = "none"]
  /\ UNCHANGED <<path, flocked, lost, crashed>>

(* Drop, first statement: flock(LOCK_UN).                                   *)
Unlock(p) ==
  /\ Held(p)
  /\ flocked' = [flocked EXCEPT ![file[p]] = None]
  /\ stage' = [stage EXCEPT ![p] = "released"]
  /\ UNCHANGED <<path, file, lost, crashed>>

PathAfterDrop(p) == None

(* Drop, second statement: remove_file(path), whichever inode it names now; *)
(* the descriptor is closed with the struct.                                *)
Unlink(p) ==
  /\ stage[p] = "released"
  /\ path' = PathAfterDrop(p)
  /\ file' = [file EXCEPT ![p] = None]
  /\ stage' = [stage EXCEPT ![p] = "none"]
  /\ lost' = (lost \/ \E q \in Run \ {p} : /\ stage[q] \in {"opened", "held"}
                                           /\ file[q] = path)
  /\ UNCHANGED <<flocked, crashed>>

FlockAfterDeath(p) ==
  [i \in Inode |-> IF flocked[i] = p THEN None ELSE flocked[i]]

(* The run dies: the kernel closes its descriptor, which drops the flock.   *)
(* Nothing removes the file.                                                *)
Die(p) ==
  /\ flocked' = FlockAfterDeath(p)
  /\ file' = [file EXCEPT ![p] = None]
  /\ stage' = [stage EXCEPT ![p] = "none"]
  /\ crashed' = TRUE
  /\ UNCHANGED <<path, lost>>

LockNext ==
  \E p \in Run :
    \/ OpenLockFile(p)
    \/ TakeFlock(p)
    \/ FlockRefused(p)
    \/ Unlock(p)
    \/ Unlink(p)
    \/ stage[p] # "none" /\ Die(p)

LockSpec == LockInit /\ [][LockNext]_lockVars

-------------------------------------------------------------------------------
(* Every variable has its type, and a run has a descriptor exactly while it *)
(* is somewhere between opening the file and the end of drop.               *)
LockTypeOK ==
  /\ path \in Inode \cup {None}
  /\ flocked \in [Inode -> Run \cup {None}]
  /\ file \in [Run -> Inode \cup {None}]
  /\ stage \in [Run -> Stage]
  /\ lost \in BOOLEAN /\ crashed \in BOOLEAN
  /\ \A p \in Run : stage[p] = "none" <=> file[p] = None

(* What the test a_second_holder_is_turned_away_until_the_first_one_is_gone *)
(* says of SandboxLock: two runs never hold the name at the same time.      *)
Exclusive == \A p, q \in Run : Held(p) /\ Held(q) => p = q

(* The one way two runs come to hold the name is a lock file unlinked under *)
(* a run that had opened it: until that happens the lock excludes.          *)
ExclusiveUnlessLost == ~lost => Exclusive

(* A flock belongs to a live run that believes it holds the lock, so a run  *)
(* that crashed or gave up never keeps the name taken ("a crashed run       *)
(* cannot leave a name taken forever").                                     *)
NoFlockLeftBehind ==
  \A i \in Inode : flocked[i] # None =>
    Held(flocked[i]) /\ file[flocked[i]] = i

(* docs/sandbox_architecture.md: the lock file is "removed when the holder  *)
(* exits normally, a crash can leave an unlocked file".  So without a crash *)
(* a lock file on disk is one that some run is working with.                *)
LeftoverOnlyFromCrash ==
  path # None /\ ~crashed => \E p \in Run : file[p] = path

(* What the name's lock promises, and the steps that keep the promise.      *)
Promise == INSTANCE NameLock WITH holders <- {p \in Run : Held(p)}

ImplementsNameLock ==
  Promise!Init /\ [][lost' \/ [Promise!Next]_{p \in Run : Held(p)}]_lockVars
===============================================================================
