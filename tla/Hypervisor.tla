------------------------------- MODULE Hypervisor ------------------------------
(***************************************************************************)
(* What Sandbox.tla leaves out of one sandbox name: the two VMM flavours,  *)
(* each with a socket and a protocol of its own, of which shutdown and     *)
(* delete have to find the one that runs (sandbox/hypervisor/*.rs); and    *)
(* the disk overlay, which a create takes over from earlier ones or makes  *)
(* in steps.  A request may go unanswered or be answered too late, a run   *)
(* may die between any two steps.  The lock is taken and dropped in one    *)
(* step here (see SandboxLock) and the VMM processes are external.         *)
(***************************************************************************)
EXTENDS Naturals, Sequences, FiniteSets

CONSTANTS
  Cmd,         (* runs that shut down or delete                              *)
  Rootfs,      (* root images, each a path with its format                   *)
  MaxCreates,  (* bound: creates                                             *)
  MaxCommands, (* bound: shutdowns and deletes                               *)
  MaxWrites,   (* bound: writes of the guests, all together                  *)
  MaxPieces    (* MAX_API_RESPONSE_LENGTH, in pieces                         *)

CH == "cloud-hypervisor"
QEMU == "qemu-qmp"
Flavor == {CH, QEMU}
None == "none"

ASSUME HypervisorAssumption ==
  /\ {MaxCreates, MaxCommands, MaxWrites, MaxPieces} \subseteq Nat
  /\ {None, "create"} \cap Cmd = {}

VARIABLES
  create,      (* the create that has the lock or wants it                   *)
  cmd,         (* what each shutdown or delete does and where it is          *)
  lock,        (* who has the sandbox's lock                                 *)
  vmm,         (* the VMM process, and the overlay as it has opened it       *)
  sock,        (* per flavour: no socket file, one nobody serves, a live one *)
  dirs,        (* which of the two directories exist                         *)
  overlay,     (* the file backing_file.qcow2                                *)
  promised,    (* writes guests made since the last --recreate or delete     *)
  inbox,       (* requests the VMM has not handled yet                       *)
  reply,       (* the answer on each command's connection                    *)
  budget       (* creates, commands and writes that are left                 *)

disk == <<overlay, promised>>
talk == <<cmd, inbox, reply>>
vars == <<create, cmd, lock, vmm, sock, dirs, disk, inbox, reply, budget>>

NoOverlay == [stage |-> None, rootfs |-> None, writes |-> 0]
NoCreate == [pc |-> "idle", flavor |-> CH, rootfs |-> None, recreate |-> FALSE]
NoVmm == [flavor |-> None, rootfs |-> None, state |-> None, image |-> NoOverlay]
Ready == [pc |-> "idle", kind |-> "shutdown", force |-> FALSE, picked |-> CH,
          asked |-> FALSE, cause |-> None, pieces |-> 0]

Init ==
  /\ create = NoCreate
  /\ cmd = [c \in Cmd |-> Ready]
  /\ lock = None
  /\ vmm = NoVmm
  /\ sock = [f \in Flavor |-> "absent"]
  /\ dirs = {}
  /\ overlay = NoOverlay /\ promised = 0
  /\ inbox = <<>> /\ reply = [c \in Cmd |-> None]
  /\ budget = [creates |-> MaxCreates, commands |-> MaxCommands, writes |-> MaxWrites]

(* can_connect_to_socket                                                     *)
Live(f) == sock[f] = "live"

(* The VMM process goes, and with it the requests it has not handled.        *)
VmmGoes ==
  /\ vmm' = NoVmm
  /\ inbox' = <<>>
  /\ cmd' = [c \in Cmd |-> [cmd[c] EXCEPT !.asked = FALSE]]

-------------------------------------------------------------------------------
(* create_sandbox                                                            *)

Start(flavor, rootfs, recreate) ==
  /\ create.pc = "idle" /\ budget.creates > 0
  /\ budget' = [budget EXCEPT !.creates = @ - 1]
  /\ create' = [pc |-> "unique", flavor |-> flavor, rootfs |-> rootfs, recreate |-> recreate]
  /\ UNCHANGED <<talk, lock, vmm, sock, dirs, disk>>

CreateAt(here, there) ==
  /\ create.pc = here
  /\ create' = IF there = "idle" THEN NoCreate ELSE [create EXCEPT !.pc = there]

(* ensure_unique_sandbox_name asks both flavours.                            *)
EnsureUnique ==
  /\ CreateAt("unique", IF \E f \in Flavor : Live(f) THEN "idle" ELSE "lock")
  /\ UNCHANGED <<talk, lock, vmm, sock, dirs, disk, budget>>

(* The lock, then both directories; then boot removes the flavour's socket.  *)
Lock ==
  /\ IF lock = None
     THEN /\ CreateAt("lock", "overlay")
          /\ lock' = "create"
          /\ dirs' = {"runtime", "state"}
          /\ sock' = [sock EXCEPT ![create.flavor] = "absent"]
     ELSE CreateAt("lock", "idle") /\ UNCHANGED <<lock, dirs, sock>>
  /\ UNCHANGED <<talk, vmm, disk, budget>>

(* ensure_overlay_backs_onto_rootfs: it opens and names the configured root. *)
Opens == overlay.stage \in {"headed", "whole"}
AnyOverlay == TRUE                        \* mutated form: reused unchecked
BacksOntoRootfs == Opens /\ overlay.rootfs = create.rootfs

NewUnlessFits == create.recreate \/ ~BacksOntoRootfs    \* mutated form
MakesNew == create.recreate \/ overlay.stage = None

(* An overlay that is there is used as it is.                                *)
ReuseOverlay ==
  /\ ~MakesNew /\ BacksOntoRootfs
  /\ CreateAt("overlay", "spawn")
  /\ UNCHANGED <<talk, lock, vmm, sock, dirs, disk, budget>>

(* create_open: a new file, or the old one emptied; its directory must exist.*)
OpenOverlay ==
  /\ MakesNew /\ "state" \in dirs
  /\ CreateAt("overlay", "format")
  /\ overlay' = [NoOverlay EXCEPT !.stage = "empty"]
  /\ promised' = IF create.recreate THEN 0 ELSE promised
  /\ UNCHANGED <<talk, lock, vmm, sock, dirs, budget>>

(* Qcow2CreateBuilder::create; a delete may have removed the file meanwhile. *)
FormatOverlay ==
  /\ CreateAt("format", "spawn")
  /\ overlay' = IF overlay.stage = None THEN overlay
                ELSE [stage |-> "whole", rootfs |-> create.rootfs, writes |-> 0]
  /\ UNCHANGED <<talk, lock, vmm, sock, dirs, promised, budget>>

SpawnVmm ==
  /\ CreateAt("spawn", "attached")
  /\ vmm' = [NoVmm EXCEPT !.flavor = create.flavor, !.rootfs = create.rootfs,
                          !.state = "spawned"]
  /\ UNCHANGED <<talk, lock, sock, dirs, disk, budget>>

(* Formatting stops in the middle: whether the header is there by then is    *)
(* the image library's affair.                                               *)
LeftBehind ==
  IF create.pc = "format" /\ overlay.stage = "empty"
  THEN {overlay, [overlay EXCEPT !.stage = "headed", !.rootfs = create.rootfs]}
  ELSE {overlay}

(* A `?` before the VMM is there, the one of a refused overlay included.     *)
CreateFails ==
  /\ create.pc \in {"overlay", "format", "spawn"}
  /\ create' = NoCreate
  /\ lock' = None
  /\ overlay' \in LeftBehind
  /\ UNCHANGED <<talk, vmm, sock, dirs, promised, budget>>

(* The console ends, with the guest or by a signal, and dropping the Process *)
(* leaves neither it nor its socket file behind; then the lock is dropped.   *)
LeaveScope ==
  /\ CreateAt("attached", "idle")
  /\ VmmGoes
  /\ sock' = [sock EXCEPT ![create.flavor] = "absent"]
  /\ lock' = None
  /\ UNCHANGED <<reply, dirs, disk, budget>>

(* SIGKILL: the VMM dies with its parent.                                    *)
CreateDies ==
  /\ create.pc # "idle"
  /\ create' = NoCreate
  /\ VmmGoes
  /\ sock' = [f \in Flavor |-> IF Live(f) THEN "stale" ELSE sock[f]]
  /\ lock' = IF lock = "create" THEN None ELSE lock
  /\ overlay' \in LeftBehind
  /\ UNCHANGED <<reply, dirs, promised, budget>>

-------------------------------------------------------------------------------
(* The shutdown command and delete_sandbox                                   *)

Goto(c, pc) == cmd' = [cmd EXCEPT ![c].pc = pc, ![c].pieces = 0]

Unlocked(c) == IF lock = c THEN None ELSE lock

(* Why it fails: no answer, one that is not a success, or anything else.     *)
Fail(c, cause) ==
  /\ cmd' = [cmd EXCEPT ![c] = [Ready EXCEPT !.pc = "failed", !.kind = cmd[c].kind,
                                  !.force = cmd[c].force, !.cause = cause]]
  /\ lock' = Unlocked(c)

Begin(c, kind, force) ==
  /\ cmd[c].pc \in {"idle", "ok", "failed"} /\ budget.commands > 0
  /\ budget' = [budget EXCEPT !.commands = @ - 1]
  /\ cmd' = [cmd EXCEPT ![c] = [Ready EXCEPT !.pc = "probe", !.kind = kind, !.force = force]]
  /\ UNCHANGED <<create, lock, vmm, sock, dirs, disk, inbox, reply>>

(* for_sandbox: the first that answers, or the one that is configured here.  *)
Candidates ==
  IF Live(CH) THEN {CH} ELSE IF Live(QEMU) THEN {QEMU} ELSE Flavor

Probe(c) ==
  /\ cmd[c].pc = "probe"
  /\ \E f \in Candidates :
       cmd' = [cmd EXCEPT ![c].picked = f,
                          ![c].pc = IF cmd[c].kind = "delete" THEN "lock" ELSE "first"]
  /\ UNCHANGED <<create, lock, vmm, sock, dirs, disk, inbox, reply, budget>>

(* try_acquire, and without force the check that nothing runs.               *)
TryLock(c) ==
  /\ cmd[c].pc = "lock"
  /\ LET got == lock = None
         refused == ~cmd[c].force /\ (~got \/ Live(cmd[c].picked)) IN
       IF refused THEN Fail(c, "other")
       ELSE Goto(c, "first") /\ lock' = IF got THEN c ELSE lock
  /\ UNCHANGED <<create, vmm, sock, dirs, disk, inbox, reply, budget>>

(* The two requests of a shutdown: Cloud Hypervisor's are connections of     *)
(* their own; QMP's are qmp_capabilities and quit, both on one connection.   *)
Request(f, n) ==
  IF f = CH THEN IF n = "first" THEN "vm.shutdown" ELSE "vmm.shutdown"
  ELSE IF n = "first" THEN "qmp_capabilities" ELSE "quit"

Send(c, n, wait) ==
  /\ inbox' = Append(inbox, [from |-> c, what |-> Request(cmd[c].picked, n)])
  /\ cmd' = [cmd EXCEPT ![c].pc = wait, ![c].asked = TRUE]

AfterShutdown(c) == IF cmd[c].kind = "delete" THEN "rmRuntime" ELSE "ok"

(* Nothing to shut down where nothing answers.                               *)
SendFirst(c) ==
  /\ cmd[c].pc = "first"
  /\ IF Live(cmd[c].picked)
     THEN Send(c, "first", "waitFirst")
     ELSE Goto(c, AfterShutdown(c)) /\ UNCHANGED inbox
  /\ UNCHANGED <<create, lock, vmm, sock, dirs, disk, reply, budget>>

SendSecond(c) ==
  /\ cmd[c].pc = "second"
  /\ IF Live(cmd[c].picked) \/ (cmd[c].picked = QEMU /\ cmd[c].asked)
     THEN Send(c, "second", "waitSecond") /\ UNCHANGED lock
     ELSE Fail(c, "silent") /\ UNCHANGED inbox
  /\ UNCHANGED <<create, vmm, sock, dirs, disk, reply, budget>>

NoForce(c) == reply[c] = "ok"             \* mutated form: force is not read
GoesOn(c) == reply[c] = "ok" \/ (cmd[c].picked = CH /\ cmd[c].force)

FirstIsAll(c) == AfterShutdown(c)         \* mutated form: the guest is down
AfterFirst(c) == "second"

TakeAnswer(c) ==
  /\ reply[c] # None
  /\ \/ /\ cmd[c].pc = "waitFirst"
        /\ IF GoesOn(c) THEN Goto(c, AfterFirst(c)) /\ UNCHANGED lock
                        ELSE Fail(c, reply[c])
     \/ /\ cmd[c].pc = "waitSecond"
        /\ IF reply[c] = "ok" THEN Goto(c, AfterShutdown(c)) /\ UNCHANGED lock
                              ELSE Fail(c, reply[c])
  /\ reply' = [reply EXCEPT ![c] = None]
  /\ UNCHANGED <<create, vmm, sock, dirs, disk, inbox, budget>>

Waits(c) == cmd[c].pc \in {"waitFirst", "waitSecond"} /\ reply[c] = None

(* The connection is gone: a request in the inbox is still handled.          *)
HangUp(c) ==
  inbox' = [i \in DOMAIN inbox |-> IF inbox[i].from = c THEN [inbox[i] EXCEPT !.from = None]
                                   ELSE inbox[i]]

(* A read times out, or the VMM has closed the connection.                   *)
GiveUp(c) ==
  /\ Waits(c)
  /\ Fail(c, "silent")
  /\ HangUp(c)
  /\ UNCHANGED <<create, vmm, sock, dirs, disk, reply, budget>>

(* A read returns a part of the response, or one of QMP's events, and the    *)
(* next one may take as long; Cloud Hypervisor's response is cut off, while  *)
(* execute skips any number of events.                                       *)
NeverTooLong(c) == FALSE                  \* mutated form
TooLong(c) == cmd[c].picked = CH /\ cmd[c].pieces = MaxPieces

ReadPiece(c) ==
  /\ Waits(c) /\ vmm # NoVmm
  /\ IF TooLong(c) THEN Fail(c, "silent") /\ HangUp(c)
     ELSE /\ cmd' = [cmd EXCEPT ![c].pieces = (@ + 1) % (MaxPieces + 1)]
          /\ UNCHANGED <<lock, inbox>>
  /\ UNCHANGED <<create, vmm, sock, dirs, disk, reply, budget>>

(* remove_dir_all of the runtime directory, then of the state directory.     *)
RemoveRuntimeDir(c) ==
  /\ cmd[c].pc = "rmRuntime"
  /\ Goto(c, "rmState")
  /\ dirs' = dirs \ {"runtime"}
  /\ sock' = [f \in Flavor |-> "absent"]
  /\ UNCHANGED <<create, lock, vmm, disk, inbox, reply, budget>>

RemoveStateDir(c) ==
  /\ cmd[c].pc = "rmState"
  /\ Goto(c, "ok")
  /\ lock' = Unlocked(c)
  /\ dirs' = dirs \ {"state"}
  /\ overlay' = NoOverlay /\ promised' = 0
  /\ UNCHANGED <<create, vmm, sock, inbox, reply, budget>>

RemoveFails(c) ==
  /\ cmd[c].pc \in {"rmRuntime", "rmState"}
  /\ Fail(c, "other")
  /\ UNCHANGED <<create, vmm, sock, dirs, disk, inbox, reply, budget>>

CmdDies(c) ==
  /\ cmd[c].pc \notin {"idle", "ok", "failed"}
  /\ cmd' = [cmd EXCEPT ![c] = Ready]
  /\ lock' = IF lock = c THEN None ELSE lock
  /\ HangUp(c)
  /\ reply' = [reply EXCEPT ![c] = None]
  /\ UNCHANGED <<create, vmm, sock, dirs, disk, budget>>

-------------------------------------------------------------------------------
(* The VMM process                                                           *)

(* It makes its socket, which needs the directory and a free path, or exits. *)
VmmListens ==
  /\ vmm.state = "spawned"
  /\ IF "runtime" \in dirs /\ sock[vmm.flavor] = "absent"
     THEN /\ vmm' = [vmm EXCEPT !.state = "listening"]
          /\ sock' = [sock EXCEPT ![vmm.flavor] = "live"]
          /\ UNCHANGED <<cmd, inbox>>
     ELSE VmmGoes /\ UNCHANGED sock
  /\ UNCHANGED <<create, lock, dirs, disk, reply, budget>>

(* It opens its disk and starts the guest, or exits.                         *)
VmmStarts ==
  /\ vmm.state = "listening"
  /\ IF Opens
     THEN vmm' = [vmm EXCEPT !.state = "running", !.image = [overlay EXCEPT !.writes = 0]]
     ELSE vmm' = [vmm EXCEPT !.state = "quitting"]
  /\ UNCHANGED <<create, talk, lock, sock, dirs, disk, budget>>

GuestWrites ==
  /\ vmm.state = "running" /\ budget.writes > 0
  /\ overlay.stage # None
  /\ overlay' = [overlay EXCEPT !.writes = @ + 1]
  /\ promised' = promised + 1
  /\ budget' = [budget EXCEPT !.writes = @ - 1]
  /\ UNCHANGED <<create, talk, lock, vmm, sock, dirs>>

GuestPowersOff ==
  /\ vmm.state = "running"
  /\ vmm' = [vmm EXCEPT !.state = "quitting"]
  /\ UNCHANGED <<create, talk, lock, sock, dirs, disk, budget>>

VmmExits ==
  /\ vmm.state = "quitting"
  /\ VmmGoes
  /\ sock' = [f \in Flavor |-> IF Live(f) THEN "stale" ELSE sock[f]]
  /\ UNCHANGED <<create, lock, dirs, disk, reply, budget>>

(* vm.shutdown stops a running guest, the others end the VMM.                *)
Handles(what) ==
  CASE what = "vm.shutdown" -> "halted"
    [] what = "qmp_capabilities" -> vmm.state
    [] OTHER -> "quitting"

(* The VMM may refuse any request, and must where there is no guest to stop: *)
(* "refused" is the guest's shutdown, "denied" a request about the VMM.      *)
Answers(what) ==
  IF what # "vm.shutdown" THEN {"ok", "denied"}
  ELSE IF vmm.state = "running" THEN {"ok", "refused"} ELSE {"refused"}

VmmHandles ==
  /\ vmm.state \in {"listening", "running", "halted"} /\ inbox # <<>>
  /\ LET r == Head(inbox) IN
       \E answer \in Answers(r.what) :
         /\ vmm' = IF answer = "ok" THEN [vmm EXCEPT !.state = Handles(r.what)] ELSE vmm
         /\ reply' = IF r.from = None THEN reply ELSE [reply EXCEPT ![r.from] = answer]
  /\ inbox' = Tail(inbox)
  /\ UNCHANGED <<create, cmd, lock, sock, dirs, disk, budget>>

-------------------------------------------------------------------------------
CreateStep ==
  \/ \E f \in Flavor, r \in Rootfs, recreate \in BOOLEAN : Start(f, r, recreate)
  \/ EnsureUnique \/ Lock \/ ReuseOverlay \/ OpenOverlay \/ FormatOverlay
  \/ SpawnVmm \/ CreateFails \/ LeaveScope \/ CreateDies

(* The calls of a command that return, every read within its timeout.        *)
CmdStep(c) ==
  \/ Probe(c) \/ TryLock(c) \/ SendFirst(c) \/ SendSecond(c) \/ TakeAnswer(c)
  \/ GiveUp(c) \/ ReadPiece(c)
  \/ RemoveRuntimeDir(c) \/ RemoveStateDir(c) \/ RemoveFails(c)

VmmStep ==
  VmmListens \/ VmmStarts \/ GuestWrites \/ GuestPowersOff \/ VmmExits \/ VmmHandles

Next ==
  \/ CreateStep \/ VmmStep
  \/ \E c \in Cmd :
       \/ CmdStep(c) \/ CmdDies(c)
       \/ \E kind \in {"shutdown", "delete"}, force \in BOOLEAN : Begin(c, kind, force)

Spec == Init /\ [][Next]_vars /\ \A c \in Cmd : WF_vars(CmdStep(c))

-------------------------------------------------------------------------------
(* Every variable has its type; whoever has the lock is still at work.       *)
TypeOK ==
  /\ create.pc \in {"idle", "unique", "lock", "overlay", "format", "spawn", "attached"}
  /\ create.flavor \in Flavor /\ create.rootfs \in Rootfs \cup {None}
  /\ lock \in {None, "create"} \cup Cmd
  /\ lock = "create" <=> create.pc \in {"overlay", "format", "spawn", "attached"}
  /\ \A c \in Cmd : lock = c => cmd[c].pc \notin {"idle", "probe", "lock", "ok", "failed"}
  /\ vmm.state \in {None, "spawned", "listening", "running", "halted", "quitting"}
  /\ vmm # NoVmm => create.pc = "attached" /\ vmm.flavor = create.flavor
  /\ sock \in [Flavor -> {"absent", "stale", "live"}]
  /\ dirs \subseteq {"runtime", "state"}
  /\ overlay.stage \in {None, "empty", "headed", "whole"}
  /\ reply \in [Cmd -> {None, "ok", "refused", "denied"}]

(* A guest runs on an overlay that backs onto the root image of the command  *)
(* that booted it and on no other, whatever earlier creates were configured  *)
(* with, wherever they died and whatever is deleted meanwhile.               *)
GuestHasItsRoot ==
  vmm.state \in {"running", "halted"} =>
    vmm.image.stage \in {"headed", "whole"} /\ vmm.image.rootfs = vmm.rootfs

(* What the reuse of an overlay takes for granted: the one that is there was *)
(* formatted to its end.                                                     *)
OverlayIsWhole ==
  vmm.state \in {"running", "halted"} => vmm.image.stage = "whole"

(* What guests have written is there for the next guest: over crashes,       *)
(* refused and failed creates, and a change of the root image and back, only *)
(* --recreate and delete discard it.                                         *)
WritesAreKept ==
  vmm.state \in {"running", "halted"} /\ overlay.stage # None =>
    overlay.writes = promised

(* A shutdown or delete that asked a VMM and reports no error has ended that *)
(* VMM: late answers, a half of a shutdown somebody else did, and requests   *)
(* that are left from a command which gave up, do not count as success.      *)
OkMeansDown ==
  \A c \in Cmd : cmd[c].pc \in {"ok", "rmRuntime", "rmState"} /\ cmd[c].asked =>
    vmm.state = "quitting"

(* A guest that is already down, or that will not go down, is never why a    *)
(* forced shutdown fails: a request about the VMM itself was turned down, or *)
(* there was no answer.                                                      *)
ForceFinishesHalf ==
  \A c \in Cmd :
    cmd[c].pc = "failed" /\ cmd[c].kind = "shutdown" /\ cmd[c].force =>
      cmd[c].cause \in {"silent", "denied"}

(* Every shutdown and delete ends, however the VMM answers: an answer that   *)
(* never comes times out and one that never ends is cut off.  Only QMP's     *)
(* events may keep a command: each starts the timeout anew, and as long as   *)
(* they come in time the wait for the answer goes on.                        *)
QmpEvent(c) == cmd[c].picked = QEMU /\ ReadPiece(c)

EveryCommandEnds ==
  \A c \in Cmd :
    <>[][~QmpEvent(c)]_vars =>
      (cmd[c].pc # "idle" ~> cmd[c].pc \in {"idle", "ok", "failed"})

(* The flavour a command has picked is the one that runs.                    *)
PickedRuns ==
  \A c \in Cmd : cmd[c].pc = "first" =>
    \A f \in Flavor : Live(f) => f = cmd[c].picked
===============================================================================
