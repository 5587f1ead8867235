-------------------------------- MODULE Shares --------------------------------
(***************************************************************************)
(* One share name of one Cloud Hypervisor sandbox: attach-share starts a   *)
(* virtiofsd that outlives blinools and plugs it into the running VMM,     *)
(* detach-share unplugs it and stops the virtiofsd that a pid file names   *)
(* (attach_share and detach_share of src/sandbox/mod.rs, src/sandbox/fs.rs *)
(* and the two requests of src/sandbox/hypervisor/cloud_hypervisor.rs).    *)
(* Neither takes the sandbox's lock.  Runs are told apart, and so is the   *)
(* virtiofsd each of them has started; Boot is the virtiofsd of a share    *)
(* that create has configured.  The VMM comes and goes around them.        *)
(***************************************************************************)
CONSTANTS
  Client,     (* the blinools runs that attach or detach the share          *)
  Boot,       (* the create run's virtiofsd                                 *)
  Stale,      (* some virtiofsd that is long gone                           *)
  None,       (* nobody                                                     *)
  Configured  (* whether create's configuration has a share of the name     *)

ASSUME SharesAssumption ==
  /\ Boot \notin Client /\ Stale \notin Client /\ None \notin Client
  /\ Boot # Stale /\ Boot # None /\ Stale # None
  /\ Configured \in BOOLEAN

Daemon == Client \cup {Boot}

VARIABLES
  pc,       (* the step each run is at                                      *)
  daemon,   (* the virtiofsd each run has started                           *)
  attached, (* runs whose attach has succeeded: their virtiofsd is disowned *)
  victim,   (* the virtiofsd whose pid stop_share has read and recognised   *)
  sock,     (* whose socket vfsd-<share>.sock is                            *)
  pidFile,  (* whose pid is in vfsd-<share>.pid, None if there is none there   *)
  vmm,      (* the VMM runs                                                 *)
  device,   (* the virtiofsd the VMM's device of the share is connected to  *)
  leaving,  (* the device was told to go, the guest has not ejected it yet  *)
  overlap,  (* history: two runs were at work at the same time              *)
  crashed,  (* history: a run has died at work                              *)
  unwritten (* history: runs that could not write their virtiofsd's pid     *)

vmmVars == <<vmm, device, leaving>>
historyVars == <<overlap, crashed, unwritten>>
vars == <<pc, daemon, attached, victim, sock, pidFile, vmmVars, historyVars>>

Pc == {"idle", "attach", "exists", "spawn", "wait", "api", "disown", "fail",
       "detach", "remove", "readPid", "kill", "rmSocket", "rmPid"}

DaemonState == {"none", "started", "listening", "serving", "gone"}
Alive(d) == daemon[d] \in {"started", "listening", "serving"}

Init ==
  /\ pc = [p \in Client |-> "idle"]
  /\ daemon = [d \in Daemon |-> "none"]
  /\ attached = {} /\ victim = [p \in Client |-> None]
  /\ sock = None /\ pidFile = None
  /\ vmm = FALSE /\ device = None /\ leaving = FALSE
  /\ overlap = FALSE /\ crashed = FALSE /\ unwritten = {}

Goto(p, label) == pc' = [pc EXCEPT ![p] = label]
Settle(d, state) == daemon' = [daemon EXCEPT ![d] = state]

Outdated(owner, p) == IF owner = p THEN Stale ELSE owner

(* A user runs attach-share or detach-share.  Bound: a run has the name of   *)
(* an earlier one only once that one's virtiofsd is gone and forgotten.      *)
Start(p) ==
  /\ pc[p] = "idle" /\ ~Alive(p) /\ device # p
  /\ \A q \in Client : victim[q] # p
  /\ \E c \in {"attach", "detach"} : Goto(p, c)
  /\ Settle(p, "none")
  /\ attached' = attached \ {p}
  /\ sock' = Outdated(sock, p) /\ pidFile' = Outdated(pidFile, p)
  /\ overlap' = (overlap \/ \E q \in Client : pc[q] # "idle")
  /\ unwritten' = unwritten \ {p}
  /\ UNCHANGED <<victim, vmmVars, crashed>>

-------------------------------------------------------------------------------
(* attach_share                                                              *)

AttachCheck(p) ==
  /\ pc[p] = "attach"
  /\ Goto(p, IF vmm THEN "exists" ELSE "idle")
  /\ UNCHANGED <<daemon, attached, victim, sock, pidFile, vmmVars, historyVars>>

AlreadyShared == sock # None

(* "the sandbox already has a share named ...".                              *)
CheckExists(p) ==
  /\ pc[p] = "exists"
  /\ Goto(p, IF AlreadyShared THEN "idle" ELSE "spawn")
  /\ UNCHANGED <<daemon, attached, victim, sock, pidFile, vmmVars, historyVars>>

(* FsMount::spawn: whatever socket is there goes, and virtiofsd is started   *)
(* without a death signal ...                                                *)
Spawn(p) ==
  /\ pc[p] = "spawn"
  /\ sock' = None
  /\ Settle(p, "started")
  /\ Goto(p, "wait")
  /\ UNCHANGED <<attached, victim, pidFile, vmmVars, historyVars>>

(* ... or its hook, which mounts over what the guest must not see, fails: no *)
(* virtiofsd is executed, and the socket goes all the same.                  *)
SpawnFails(p) ==
  /\ pc[p] = "spawn"
  /\ sock' = None
  /\ Settle(p, "gone")
  /\ Goto(p, "fail")
  /\ UNCHANGED <<attached, victim, pidFile, vmmVars, historyVars>>

(* wait_for_file: a socket is there, whoever made it ...                     *)
SocketAppears(p) ==
  /\ pc[p] = "wait"
  /\ sock # None
  /\ Goto(p, "api")
  /\ UNCHANGED <<daemon, attached, victim, sock, pidFile, vmmVars, historyVars>>

(* ... or virtiofsd has exited, or VIRTIOFSD_STARTUP_TIMEOUT has passed.     *)
WaitFails(p) ==
  /\ pc[p] = "wait"
  /\ Goto(p, "fail")
  /\ UNCHANGED <<daemon, attached, victim, sock, pidFile, vmmVars, historyVars>>

(* The virtiofsd the VMM reaches over the socket.                            *)
Reachable(d) == sock = d /\ d \in Daemon /\ daemon[d] = "listening"

(* vm.add-fs: the VMM has no device of that id, and connects.  The answer    *)
(* may be lost, which is an error here.                                      *)
AddFs(p) ==
  /\ pc[p] = "api"
  /\ vmm /\ device = None
  /\ \E d \in Daemon :
       /\ Reachable(d)
       /\ device' = d
       /\ Settle(d, "serving")
  /\ \E answer \in {"disown", "fail"} : Goto(p, answer)
  /\ UNCHANGED <<attached, victim, sock, pidFile, vmm, leaving, historyVars>>

(* There is such a device, nobody listens, or no VMM answers.                *)
AddFsRefused(p) ==
  /\ pc[p] = "api"
  /\ ~vmm \/ device # None \/ ~\E d \in Daemon : Reachable(d)
  /\ Goto(p, "fail")
  /\ UNCHANGED <<daemon, attached, victim, sock, pidFile, vmmVars, historyVars>>

OwnPid(p) == Stale              \* mutated form: blinools' pid, gone with the run
PidFileOf(p) == p

(* disown: virtiofsd's pid goes to its file, and the drop will do nothing.   *)
(* A write that fails, which leaves the file as it was or without a pid, is  *)
(* ignored.                                                                  *)
Disown(p) ==
  /\ pc[p] = "disown"
  /\ \/ pidFile' = PidFileOf(p) /\ UNCHANGED unwritten
     \/ pidFile' \in {pidFile, None} /\ unwritten' = unwritten \cup {p}
  /\ attached' = attached \cup {p}
  /\ Goto(p, "idle")
  /\ UNCHANGED <<daemon, victim, sock, vmmVars, overlap, crashed>>

LeavesDaemon(p) == daemon       \* mutated form: disowned before it is attached
DaemonAfterDrop(p) == [daemon EXCEPT ![p] = "gone"]

(* An error drops the FsMount: its virtiofsd is killed, the socket removed.  *)
DropMount(p) ==
  /\ pc[p] = "fail"
  /\ daemon' = DaemonAfterDrop(p)
  /\ sock' = None
  /\ Goto(p, "idle")
  /\ UNCHANGED <<attached, victim, pidFile, vmmVars, historyVars>>

-------------------------------------------------------------------------------
(* detach_share                                                              *)

DetachCheck(p) ==
  /\ pc[p] = "detach"
  /\ Goto(p, IF vmm THEN "remove" ELSE "idle")
  /\ UNCHANGED <<daemon, attached, victim, sock, pidFile, vmmVars, historyVars>>

(* vm.remove-device: the guest is asked to eject it.                         *)
RemoveDevice(p) ==
  /\ pc[p] = "remove"
  /\ vmm /\ device # None
  /\ leaving' = TRUE
  /\ Goto(p, "readPid")
  /\ UNCHANGED <<daemon, attached, victim, sock, pidFile, vmm, device, historyVars>>

GoesOnRefused == "readPid"      \* mutated form: the answer is not looked at
AfterRefusal == "idle"

(* There is none, it cannot be removed now, or the answer is lost.           *)
RemoveRefused(p) ==
  /\ pc[p] = "remove"
  /\ leaving' \in {leaving, leaving \/ device # None}
  /\ Goto(p, AfterRefusal)
  /\ UNCHANGED <<daemon, attached, victim, sock, pidFile, vmm, device, historyVars>>

NamesVirtiofsd == pidFile \in Daemon /\ Alive(pidFile)

(* stop_share: the pid file names a process whose command line has this very *)
(* socket, or there is nothing to stop.                                      *)
ReadPid(p) ==
  /\ pc[p] = "readPid"
  /\ IF NamesVirtiofsd
       THEN victim' = [victim EXCEPT ![p] = pidFile] /\ Goto(p, "kill")
       ELSE UNCHANGED victim /\ Goto(p, "rmSocket")
  /\ UNCHANGED <<daemon, attached, sock, pidFile, vmmVars, historyVars>>

Kill(p) ==
  /\ pc[p] = "kill"
  /\ Settle(victim[p], "gone")
  /\ victim' = [victim EXCEPT ![p] = None]
  /\ Goto(p, "rmSocket")
  /\ UNCHANGED <<attached, sock, pidFile, vmmVars, historyVars>>

SocketAfterDetach == None

RemoveSocket(p) ==
  /\ pc[p] = "rmSocket"
  /\ sock' = SocketAfterDetach
  /\ Goto(p, "rmPid")
  /\ UNCHANGED <<daemon, attached, victim, pidFile, vmmVars, historyVars>>

RemovePidFile(p) ==
  /\ pc[p] = "rmPid"
  /\ pidFile' = None
  /\ Goto(p, "idle")
  /\ UNCHANGED <<daemon, attached, victim, sock, vmmVars, historyVars>>

(* A run dies: its virtiofsd does not.                                       *)
Crash(p) ==
  /\ pc[p] # "idle"
  /\ Goto(p, "idle")
  /\ victim' = [victim EXCEPT ![p] = None]
  /\ crashed' = TRUE
  /\ UNCHANGED <<daemon, attached, sock, pidFile, vmmVars, overlap, unwritten>>

-------------------------------------------------------------------------------
(* virtiofsd makes its socket in the place of whatever is there ...          *)
Listens(d) ==
  /\ daemon[d] = "started"
  /\ Settle(d, "listening")
  /\ sock' = d
  /\ UNCHANGED <<pc, attached, victim, pidFile, vmmVars, historyVars>>

(* ... or fails to.  It serves one connection and exits with it; whether it  *)
(* still can remove its socket is up to its own sandbox.                     *)
Exits(d) ==
  /\ \/ daemon[d] = "started"
     \/ daemon[d] = "serving" /\ device # d
  /\ Settle(d, "gone")
  /\ sock' \in {sock, IF sock = d THEN None ELSE sock}
  /\ UNCHANGED <<pc, attached, victim, pidFile, vmmVars, historyVars>>

GuestEjects ==
  /\ leaving
  /\ device' = None /\ leaving' = FALSE
  /\ UNCHANGED <<pc, daemon, attached, victim, sock, pidFile, vmm, historyVars>>

(* create boots the VMM, with its own virtiofsd when the share is configured.*)
VmmBoots ==
  /\ ~vmm /\ ~Alive(Boot)
  /\ vmm' = TRUE
  /\ leaving' = FALSE
  /\ IF Configured
       THEN Settle(Boot, "serving") /\ sock' = Boot /\ device' = Boot
       ELSE UNCHANGED <<daemon, sock, device>>
  /\ UNCHANGED <<pc, attached, victim, pidFile, historyVars>>

(* The VMM is gone and create drops its shares: every connection ends.       *)
VmmEnds ==
  /\ vmm
  /\ vmm' = FALSE /\ device' = None /\ leaving' = FALSE
  /\ daemon' = [daemon EXCEPT ![Boot] = IF Configured THEN "gone" ELSE @]
  /\ sock' = IF Configured THEN None ELSE sock
  /\ UNCHANGED <<pc, attached, victim, pidFile, historyVars>>

AttachStep(p) ==
  \/ AttachCheck(p) \/ CheckExists(p) \/ Spawn(p) \/ SpawnFails(p) \/ SocketAppears(p)
  \/ WaitFails(p) \/ AddFs(p) \/ AddFsRefused(p) \/ Disown(p) \/ DropMount(p)

DetachStep(p) ==
  \/ DetachCheck(p) \/ RemoveDevice(p) \/ RemoveRefused(p) \/ ReadPid(p) \/ Kill(p)
  \/ RemoveSocket(p) \/ RemovePidFile(p)

Outside == (\E d \in Daemon : Listens(d) \/ Exits(d)) \/ GuestEjects \/ VmmBoots \/ VmmEnds

Next ==
  \/ \E p \in Client : Start(p) \/ Crash(p) \/ AttachStep(p) \/ DetachStep(p)
  \/ Outside

Spec == Init /\ [][Next]_vars

-------------------------------------------------------------------------------
(* Every variable has its type; stop_share kills a virtiofsd of this share   *)
(* and never the process that has inherited the pid of an old one, and it    *)
(* has one in mind exactly between reading its pid and the kill.             *)
TypeOK ==
  /\ pc \in [Client -> Pc]
  /\ daemon \in [Daemon -> DaemonState]
  /\ attached \subseteq Client
  /\ victim \in [Client -> Daemon \cup {None}]
  /\ sock \in Daemon \cup {Stale, None} /\ pidFile \in Daemon \cup {Stale, None}
  /\ vmm \in BOOLEAN /\ device \in Daemon \cup {None} /\ leaving \in BOOLEAN
  /\ overlap \in BOOLEAN /\ crashed \in BOOLEAN /\ unwritten \subseteq Client
  /\ \A p \in Client : pc[p] = "kill" <=> victim[p] # None

(* The runs come one after the other, and none has been killed at work.      *)
Undisturbed == ~overlap /\ ~crashed

(* A share that was attached stays served until it is detached or the VMM    *)
(* goes: no later attach or detach of the name, successful or not, takes its *)
(* virtiofsd away.                                                           *)
AttachedIsServed ==
  Undisturbed => \A p \in attached : device = p /\ ~leaving => daemon[p] = "serving"

(* A virtiofsd started by attach-share has no death signal, so it must not   *)
(* be left waiting for a connection that nobody will make: one that is not   *)
(* connected belongs to a run at work.                                       *)
NoOrphan ==
  Undisturbed =>
    \A p \in Client : daemon[p] \in {"started", "listening"} => pc[p] # "idle"

(* "accessing it in the sandbox fails from now on": when a detach is past    *)
(* stop_share, the share it has unplugged is served no more even if the      *)
(* guest never ejects the device -- if attach-share had added it and could   *)
(* write its pid file.                                                       *)
DetachEndsAccess ==
  Undisturbed =>
    \A p \in Client :
      pc[p] \in {"rmSocket", "rmPid"} /\ device \in Client \ unwritten =>
        daemon[device] = "gone"

(* The same sentence as it stands, for every share.                          *)
DetachedIsInaccessible ==
  Undisturbed =>
    \A p \in Client : pc[p] = "rmPid" /\ device # None => daemon[device] = "gone"

(* "Share has been added to the sandbox", with other runs at work.           *)
AddedShareIsServed ==
  \A p \in attached : device = p /\ ~leaving => daemon[p] = "serving"
===============================================================================
