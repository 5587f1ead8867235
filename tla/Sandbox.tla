------------------------------- MODULE Sandbox --------------------------------
(***************************************************************************)
(* The life of ONE sandbox name (src/sandbox/mod.rs): blinools runs that   *)
(* create it, attached to its console until the guest is gone, and runs    *)
(* that shut it down, delete it or prune it, all at the same time.  They   *)
(* share the lock file of SandboxLock, the two directories of the name and *)
(* the VMM's API socket, which is also how every run decides whether the   *)
(* sandbox is running.  A run may die at any point.                        *)
(***************************************************************************)
EXTENDS SandboxLock

CONSTANT Commands  (* the commands users issue, a subset of Command         *)

VARIABLES
  pc,         (* the step a run is at                                       *)
  cmd,        (* the command it carries out                                 *)
  vm,         (* the VMM process each run has started                       *)
  sock,       (* whose VMM made the API socket file, None if there is none  *)
  runtimeDir, (* the name's runtime directory exists                        *)
  stateDir    (* the name's state directory, with the disk overlay, exists  *)

sandboxVars == <<pc, cmd, vm, sock, runtimeDir, stateDir>>
vars == <<lockVars, sandboxVars>>

(* "createDelete" is create --delete-after-shutdown, "afterDelete" the       *)
(* delete_sandbox(force) such a run ends with.                               *)
Command == {"create", "createDelete", "shutdown", "delete", "forceDelete", "prune"}

ASSUME CommandsAssumption == Commands \subseteq Command

Pc == {"idle", "unique", "pruneCheck", "open", "flock", "mkdirs", "boot",
       "console", "reap", "check", "shutdown", "rmRuntime", "rmState",
       "release", "unlink", "crashed"}

Creating(p) == cmd[p] \in {"create", "createDelete"}
Forced(p) == cmd[p] \in {"forceDelete", "afterDelete"}

(* A VMM process: spawned and not listening yet, listening, with its console *)
(* closed but not gone, or no process at all.                                *)
VmState == {"none", "booting", "running", "closing"}
Alive(p) == vm[p] # "none"

(* is_running: the socket file exists and something accepts on it.           *)
IsRunning == sock # None /\ vm[sock] \in {"running", "closing"}

(* A run that is attached to a live VMM.                                     *)
Serving(p) == pc[p] \in {"console", "reap"} /\ Alive(p)

Init ==
  /\ LockInit
  /\ pc = [p \in Run |-> "idle"]
  /\ cmd = [p \in Run |-> "none"]
  /\ vm = [p \in Run |-> "none"]
  /\ sock = None
  /\ runtimeDir = FALSE
  /\ stateDir = FALSE

Goto(p, label) == pc' = [pc EXCEPT ![p] = label]

Finish(p) ==
  /\ Goto(p, "idle")
  /\ cmd' = [cmd EXCEPT ![p] = "none"]

(* The end of create_sandbox's and delete_sandbox's scope: a run that has    *)
(* the lock drops it, a forced delete that could not get it just ends.       *)
LeaveScope(p) ==
  IF Held(p) THEN Goto(p, "release") /\ UNCHANGED cmd ELSE Finish(p)

FirstStep(c) ==
  CASE c \in {"create", "createDelete"} -> "unique"
    [] c = "prune"                      -> "pruneCheck"
    [] c = "shutdown"                   -> "shutdown"
    [] OTHER                            -> "open"

(* handle: the user starts a command.                                        *)
Start(p) ==
  /\ pc[p] = "idle"
  /\ \E c \in Commands :
       /\ cmd' = [cmd EXCEPT ![p] = c]
       /\ Goto(p, FirstStep(c))
  /\ UNCHANGED <<vm, sock, runtimeDir, stateDir, lockVars>>

-------------------------------------------------------------------------------
(* create_sandbox                                                            *)

(* ensure_unique_sandbox_name: bails out when the sandbox runs.              *)
EnsureUnique(p) ==
  /\ pc[p] = "unique"
  /\ IF IsRunning THEN Finish(p) ELSE Goto(p, "open") /\ UNCHANGED cmd
  /\ UNCHANGED <<vm, sock, runtimeDir, stateDir, lockVars>>

(* SandboxLock::try_acquire, for create and for delete.                      *)
OpenLock(p) ==
  /\ pc[p] = "open"
  /\ OpenLockFile(p)
  /\ Goto(p, "flock")
  /\ UNCHANGED <<cmd, vm, sock, runtimeDir, stateDir>>

Locked(p) ==
  /\ pc[p] = "flock"
  /\ TakeFlock(p)
  /\ Goto(p, IF Creating(p) THEN "mkdirs" ELSE "check")
  /\ UNCHANGED <<cmd, vm, sock, runtimeDir, stateDir>>

DeletesWithoutLock(p) == ~Creating(p)   \* mutated form: force is not needed
GoesOnUnlocked(p) == Forced(p)

(* The lock file cannot be opened.                                           *)
OpenFails(p) ==
  /\ pc[p] = "open"
  /\ Finish(p)
  /\ UNCHANGED <<vm, sock, runtimeDir, stateDir, lockVars>>

(* The lock is taken: create bails out, and so does a delete without force.  *)
LockRefused(p) ==
  /\ pc[p] = "flock"
  /\ FlockRefused(p)
  /\ IF GoesOnUnlocked(p) THEN Goto(p, "check") /\ UNCHANGED cmd ELSE Finish(p)
  /\ UNCHANGED <<vm, sock, runtimeDir, stateDir>>

(* create_dir for both directories.                                          *)
MakeDirs(p) ==
  /\ pc[p] = "mkdirs"
  /\ runtimeDir' = TRUE
  /\ stateDir' = TRUE
  /\ Goto(p, "boot")
  /\ UNCHANGED <<cmd, vm, sock, lockVars>>

(* Any `?` of create_sandbox: the run unwinds and skips what follows the     *)
(* console, so a createDelete does not delete any more.                      *)
Unwind(p) ==
  /\ Goto(p, "release")
  /\ cmd' = [cmd EXCEPT ![p] = "create"]

(* A directory, maybe the second one, cannot be made, a socket path is too   *)
(* long, the network, a mount or the VMM fails to start.                     *)
CreateFails(p) ==
  /\ pc[p] \in {"mkdirs", "boot"}
  /\ runtimeDir' \in IF pc[p] = "mkdirs" THEN {runtimeDir, TRUE} ELSE {runtimeDir}
  /\ Unwind(p)
  /\ UNCHANGED <<vm, sock, stateDir, lockVars>>

SocketAtBoot == None

(* boot: remove_stale_socket, overlay in the state directory, spawn.         *)
Boot(p) ==
  /\ pc[p] = "boot"
  /\ sock' = SocketAtBoot
  /\ IF runtimeDir /\ stateDir
       THEN /\ vm' = [vm EXCEPT ![p] = "booting"]
            /\ Goto(p, "console")
            /\ UNCHANGED cmd
       ELSE Unwind(p) /\ UNCHANGED vm
  /\ UNCHANGED <<runtimeDir, stateDir, lockVars>>

(* read_until_terminated returns GuestGone: the VMM's console is closed.     *)
GuestGone(p) ==
  /\ pc[p] = "console"
  /\ vm[p] \in {"closing", "none"}
  /\ Goto(p, "reap")
  /\ UNCHANGED <<cmd, vm, sock, runtimeDir, stateDir, lockVars>>

(* Dropping the Vm: no process is left, and whatever file is at the API      *)
(* socket's path goes.                                                       *)
DropVm(p) ==
  /\ vm' = [vm EXCEPT ![p] = "none"]
  /\ sock' = None

(* ... then vm.wait sees the VMM exit and the inner scope ends ...           *)
Reap(p) ==
  /\ pc[p] = "reap"
  /\ vm[p] = "none"
  /\ DropVm(p)
  /\ Goto(p, "release")
  /\ UNCHANGED <<cmd, runtimeDir, stateDir, lockVars>>

WaitsForEver(p) == FALSE   \* mutated form: wait has no deadline
WaitExpires(p) == Alive(p)

(* ... or gives up after WAIT_TIMEOUT: the error unwinds, which kills it.    *)
ReapTimesOut(p) ==
  /\ pc[p] = "reap"
  /\ WaitExpires(p)
  /\ DropVm(p)
  /\ Unwind(p)
  /\ UNCHANGED <<runtimeDir, stateDir, lockVars>>

(* The console fails: the error unwinds, too.                                *)
ConsoleFails(p) ==
  /\ pc[p] = "console"
  /\ DropVm(p)
  /\ Unwind(p)
  /\ UNCHANGED <<runtimeDir, stateDir, lockVars>>

(* Terminated: a signal ended the console, drop(vm) kills the VMM.           *)
Terminated(p) ==
  /\ pc[p] = "console"
  /\ DropVm(p)
  /\ Goto(p, "release")
  /\ UNCHANGED <<cmd, runtimeDir, stateDir, lockVars>>

-------------------------------------------------------------------------------
(* SandboxLock::drop, in two steps, and what create does after it: the      *)
(* delete of --delete-after-shutdown.                                       *)
DropLock(p) ==
  /\ pc[p] = "release"
  /\ Unlock(p)
  /\ Goto(p, "unlink")
  /\ UNCHANGED <<cmd, vm, sock, runtimeDir, stateDir>>

DeletesAfter(p) == cmd[p] = "createDelete"

UnlinkLock(p) ==
  /\ pc[p] = "unlink"
  /\ Unlink(p)
  /\ IF DeletesAfter(p)
       THEN /\ cmd' = [cmd EXCEPT ![p] = "afterDelete"]
            /\ Goto(p, "open")
       ELSE Finish(p)
  /\ UNCHANGED <<vm, sock, runtimeDir, stateDir>>

-------------------------------------------------------------------------------
(* delete_sandbox, prune_sandboxes and the shutdown command                  *)

(* prune: only names that exist and do not run, then as a plain delete.      *)
PruneCheck(p) ==
  /\ pc[p] = "pruneCheck"
  /\ IF (runtimeDir \/ stateDir) /\ ~IsRunning
       THEN Goto(p, "open") /\ cmd' = [cmd EXCEPT ![p] = "delete"]
       ELSE Finish(p)
  /\ UNCHANGED <<vm, sock, runtimeDir, stateDir, lockVars>>

MustNotDelete(p) == ~Forced(p) /\ IsRunning

(* With the lock, or with force without it: refuse a running sandbox.        *)
DeleteCheck(p) ==
  /\ pc[p] = "check"
  /\ IF MustNotDelete(p) THEN LeaveScope(p)
                         ELSE Goto(p, "shutdown") /\ UNCHANGED cmd
  /\ UNCHANGED <<vm, sock, runtimeDir, stateDir, lockVars>>

AfterShutdown(p) ==
  IF cmd[p] = "shutdown" THEN Finish(p) ELSE Goto(p, "rmRuntime") /\ UNCHANGED cmd

(* hypervisor.shutdown: asks whichever VMM answers on the socket to quit.    *)
ShutdownVm(p) ==
  /\ pc[p] = "shutdown"
  /\ IF IsRunning THEN vm' = [vm EXCEPT ![sock] = "closing"] ELSE UNCHANGED vm
  /\ AfterShutdown(p)
  /\ UNCHANGED <<sock, runtimeDir, stateDir, lockVars>>

(* The VMM refuses or the API request fails.                                 *)
ShutdownFails(p) ==
  /\ pc[p] = "shutdown"
  /\ IsRunning
  /\ LeaveScope(p)
  /\ UNCHANGED <<vm, sock, runtimeDir, stateDir, lockVars>>

(* remove_dir_all of the runtime directory takes the socket file with it.    *)
RemoveRuntimeDir(p) ==
  /\ pc[p] = "rmRuntime"
  /\ runtimeDir' = FALSE
  /\ sock' = None
  /\ Goto(p, "rmState")
  /\ UNCHANGED <<cmd, vm, stateDir, lockVars>>

RemoveStateDir(p) ==
  /\ pc[p] = "rmState"
  /\ stateDir' = FALSE
  /\ LeaveScope(p)
  /\ UNCHANGED <<vm, sock, runtimeDir, lockVars>>

(* remove_dir_all fails, because another delete is quicker for instance.     *)
RemoveFails(p) ==
  /\ \/ pc[p] = "rmRuntime" /\ runtimeDir
     \/ pc[p] = "rmState" /\ stateDir
  /\ LeaveScope(p)
  /\ UNCHANGED <<vm, sock, runtimeDir, stateDir, lockVars>>

-------------------------------------------------------------------------------
(* The VMM process.                                                          *)

(* It makes its API socket, which needs the directory and a free path;       *)
(* failing that it exits.  A VMM whose run is dead has a SIGKILL pending.    *)
VmmListens(p) ==
  /\ vm[p] = "booting"
  /\ pc[p] # "crashed"
  /\ IF runtimeDir /\ sock = None
       THEN vm' = [vm EXCEPT ![p] = "running"] /\ sock' = p
       ELSE vm' = [vm EXCEPT ![p] = "none"] /\ UNCHANGED sock
  /\ UNCHANGED <<pc, cmd, runtimeDir, stateDir, lockVars>>

(* The guest powers off: the VMM closes the console ...                      *)
GuestPowersOff(p) ==
  /\ vm[p] = "running"
  /\ vm' = [vm EXCEPT ![p] = "closing"]
  /\ UNCHANGED <<pc, cmd, sock, runtimeDir, stateDir, lockVars>>

(* ... and exits.                                                            *)
VmmExits(p) ==
  /\ vm[p] = "closing"
  /\ vm' = [vm EXCEPT ![p] = "none"]
  /\ UNCHANGED <<pc, cmd, sock, runtimeDir, stateDir, lockVars>>

-------------------------------------------------------------------------------
(* A run dies without unwinding (SIGKILL).                                   *)
Crash(p) ==
  /\ pc[p] \notin {"idle", "crashed"}
  /\ Die(p)
  /\ Goto(p, "crashed")
  /\ UNCHANGED <<cmd, vm, sock, runtimeDir, stateDir>>

(* PR_SET_PDEATHSIG: its VMM is killed with it, and leaves its socket file.  *)
KilledWithParent(p) ==
  /\ pc[p] = "crashed"
  /\ vm' = [vm EXCEPT ![p] = "none"]
  /\ Finish(p)
  /\ UNCHANGED <<sock, runtimeDir, stateDir, lockVars>>

CreateStep(p) ==
  \/ EnsureUnique(p) \/ MakeDirs(p) \/ CreateFails(p) \/ Boot(p)
  \/ GuestGone(p) \/ Reap(p) \/ ReapTimesOut(p) \/ ConsoleFails(p)
  \/ Terminated(p)

LockStep(p) ==
  \/ OpenLock(p) \/ OpenFails(p) \/ Locked(p) \/ LockRefused(p)
  \/ DropLock(p) \/ UnlinkLock(p)

DeleteStep(p) ==
  \/ PruneCheck(p) \/ DeleteCheck(p) \/ ShutdownVm(p) \/ ShutdownFails(p)
  \/ RemoveRuntimeDir(p) \/ RemoveStateDir(p) \/ RemoveFails(p)

VmmStep(p) == VmmListens(p) \/ GuestPowersOff(p) \/ VmmExits(p)

Next ==
  \E p \in Run :
    \/ Start(p) \/ Crash(p) \/ KilledWithParent(p)
    \/ CreateStep(p) \/ LockStep(p) \/ DeleteStep(p) \/ VmmStep(p)

Spec == Init /\ [][Next]_vars

(* A run goes on with its command, by its own deadline where the code has    *)
(* one, and a VMM whose run is dead dies.  Nothing obliges a VMM to exit     *)
(* when it was told to, a user to issue a command, a guest to power off, a   *)
(* signal to arrive or a run to die.                                         *)
RunStep(p) ==
  \/ EnsureUnique(p) \/ MakeDirs(p) \/ Boot(p)
  \/ GuestGone(p) \/ Reap(p) \/ ReapTimesOut(p)
  \/ LockStep(p)
  \/ PruneCheck(p) \/ DeleteCheck(p) \/ ShutdownVm(p)
  \/ RemoveRuntimeDir(p) \/ RemoveStateDir(p)

Fairness ==
  \A p \in Run : /\ WF_vars(RunStep(p))
                 /\ WF_vars(KilledWithParent(p))

FairSpec == Spec /\ Fairness

-------------------------------------------------------------------------------
(* Every variable has its type.                                              *)
TypeOK ==
  /\ LockTypeOK
  /\ pc \in [Run -> Pc]
  /\ cmd \in [Run -> Command \cup {"none", "afterDelete"}]
  /\ vm \in [Run -> VmState]
  /\ sock \in Run \cup {None}
  /\ runtimeDir \in BOOLEAN /\ stateDir \in BOOLEAN

(* docs/sandbox.md: "A sandbox name has to be unique among the running       *)
(* sandboxes."  As long as no lock file was lost, at most one run is         *)
(* attached to a live VMM of the name, whatever else is running, deleting or *)
(* dying at the time.                                                        *)
OneSandboxPerName ==
  ~lost => \A p, q \in Run : Serving(p) /\ Serving(q) => p = q

Destroying(p) == pc[p] \in {"shutdown", "rmRuntime", "rmState"}

(* "Deleting a running sandbox fails unless --force is supplied": from its   *)
(* check to its last removal a plain delete, prune's included, never has a   *)
(* sandbox of the name run, so what it checked still holds when it acts.     *)
PlainDeleteSparesRunning ==
  ~lost => \A p, q \in Run :
    cmd[p] = "delete" /\ Destroying(p) => ~Serving(q)

(* A delete that has the lock leaves neither directory behind when it        *)
(* succeeds: no create makes one again between the two removals.             *)
DeleteLeavesNothing ==
  [][\A p \in Run :
       /\ ~lost
       /\ Held(p) /\ RemoveStateDir(p)
       => ~runtimeDir' /\ ~stateDir']_vars

(* Without forced deletes, a listening VMM of an attached run is the one     *)
(* that every other run reaches over the API socket, and its directories     *)
(* exist: shutdown, delete, prune and ps see the sandbox that is there.      *)
RunningIsReachable ==
  ~lost => \A p \in Run :
    Serving(p) /\ vm[p] = "running" => sock = p /\ runtimeDir /\ stateDir

(* A guest that powers off, or that is told to, ends the run that created    *)
(* it, through --delete-after-shutdown too, whatever the other runs do and   *)
(* even if its VMM closes the console and then hangs: the run's own wait     *)
(* gives up on it and drop kills it.                                         *)
PowerOffEndsRun ==
  \A p \in Run : (Serving(p) /\ vm[p] = "closing") ~> (pc[p] = "idle")

(* "Delete the sandbox after it shuts down": the delete at the end of a      *)
(* create --delete-after-shutdown works on the sandbox that this create ran  *)
(* and not on one another run has started under the name meanwhile.          *)
AfterDeleteSparesOthers ==
  ~lost => \A p, q \in Run :
    cmd[p] = "afterDelete" /\ Destroying(p) => ~(Serving(q) /\ vm[q] = "running")

(* "Shut down a running sandbox before deleting it": a forced delete removes *)
(* the directories of a sandbox only once its VMM has been told to quit.     *)
ForceShutsDownFirst ==
  ~lost => \A p \in Run :
    Serving(p) /\ vm[p] = "running" => runtimeDir /\ stateDir
===============================================================================
