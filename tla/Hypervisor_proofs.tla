--------------------------- MODULE Hypervisor_proofs ---------------------------
(***************************************************************************)
(* The safety properties of Hypervisor, for any number of commands, root   *)
(* images, creates and writes.  HypervisorInv is their inductive           *)
(* strengthening, in three parts that are proved one after the other: the  *)
(* types, what the disk is like between two steps of a create, and which   *)
(* requests and answers a command can meet.                                *)
(***************************************************************************)
EXTENDS Hypervisor, SequenceTheorems, TLAPS

CreatePc == {"idle", "unique", "lock", "overlay", "format", "spawn", "attached"}
CmdPc == {"idle", "probe", "lock", "first", "waitFirst", "second", "waitSecond",
          "rmRuntime", "rmState", "ok", "failed"}
VmmState == {None, "spawned", "listening", "running", "halted", "quitting"}
Cause == {None, "silent", "refused", "denied", "other"}
Reply == {None, "ok", "refused", "denied"}
USE DEF Cause, Reply
What == {"vm.shutdown", "vmm.shutdown", "qmp_capabilities", "quit"}

CreateRecord ==
  [pc : CreatePc, flavor : Flavor, rootfs : Rootfs \cup {None}, recreate : BOOLEAN]
OverlayRecord ==
  [stage : {None, "empty", "headed", "whole"}, rootfs : Rootfs \cup {None}, writes : Nat]
VmmRecord ==
  [flavor : Flavor \cup {None}, rootfs : Rootfs \cup {None}, state : VmmState,
   image : OverlayRecord]
CmdRecord ==
  [pc : CmdPc, kind : {"shutdown", "delete"}, force : BOOLEAN, picked : Flavor,
   asked : BOOLEAN, cause : Cause, pieces : Nat]
RequestRecord == [from : Cmd \cup {None}, what : What]

(* TypeOK with the fields of every record.                                   *)
Records ==
  /\ create \in CreateRecord
  /\ cmd \in [Cmd -> CmdRecord]
  /\ vmm \in VmmRecord
  /\ overlay \in OverlayRecord /\ promised \in Nat
  /\ inbox \in Seq(RequestRecord)
  /\ budget \in [creates : Nat, commands : Nat, writes : Nat]

(* The lock and the directories are for delete.                              *)
OnlyDelete ==
  \A c \in Cmd : lock = c \/ cmd[c].pc \in {"lock", "rmRuntime", "rmState"} =>
    cmd[c].kind = "delete"

Types == TypeOK /\ Records /\ OnlyDelete

(* The file holds what the guests wrote; while a create formats it, it is a  *)
(* file without a header, and when that create starts its VMM it is gone or  *)
(* backs onto the root image of the create.                                  *)
DiskInv ==
  /\ overlay.writes = promised
  /\ overlay.stage \in {None, "empty"} => promised = 0
  /\ create.pc = "format" => overlay.stage \in {None, "empty"}
  /\ create.pc \in {"spawn", "attached"} /\ overlay.stage # None =>
       overlay.stage # "empty" /\ overlay.rootfs = create.rootfs
  /\ vmm # NoVmm => vmm.rootfs = create.rootfs

(* A request in the inbox is the only one of its command, and the one that   *)
(* command waits for now; requests of commands that gave up have no sender.  *)
RequestsBelong ==
  \A i \in DOMAIN inbox : inbox[i].from # None =>
    /\ reply[inbox[i].from] = None
    /\ \/ /\ cmd[inbox[i].from].pc = "waitFirst"
          /\ inbox[i].what = Request(cmd[inbox[i].from].picked, "first")
       \/ /\ cmd[inbox[i].from].pc = "waitSecond"
          /\ inbox[i].what = Request(cmd[inbox[i].from].picked, "second")
    /\ \A j \in DOMAIN inbox : inbox[j].from = inbox[i].from => j = i

(* An answer finds its command waiting for it.  Only the guest's shutdown is *)
(* "refused", and who grants a second request quits or is already gone.      *)
AnswersBelong ==
  \A c \in Cmd : reply[c] # None =>
    /\ cmd[c].pc \in {"waitFirst", "waitSecond"}
    /\ reply[c] = "refused" => cmd[c].pc = "waitFirst" /\ cmd[c].picked = CH
    /\ reply[c] = "ok" /\ cmd[c].pc = "waitSecond" /\ cmd[c].asked =>
         vmm.state = "quitting"

(* Who has not sent a request has not asked.                                 *)
AskedBySending ==
  \A c \in Cmd :
    cmd[c].asked => cmd[c].pc \notin {"idle", "probe", "lock", "first", "failed"}

TalkInv ==
  RequestsBelong /\ AnswersBelong /\ AskedBySending /\ OkMeansDown /\ ForceFinishesHalf

Disk == DiskInv /\ GuestHasItsRoot

HypervisorInv == Types /\ Disk /\ TalkInv

-------------------------------------------------------------------------------
(* Types                                                                     *)

LEMMA InitTypes == Init => Types
<1> SUFFICES ASSUME Init PROVE Types
  OBVIOUS
<1>1. <<>> \in Seq(RequestRecord)
  BY EmptySeq
<1> QED
  BY <1>1, HypervisorAssumption
     DEF Init, Types, OnlyDelete, TypeOK, Records, NoCreate, NoOverlay, NoVmm, Ready, CreateRecord,
         CreatePc, CmdRecord, CmdPc, VmmRecord, VmmState, OverlayRecord, Flavor, CH, QEMU, None

(* What the VMM leaves when it goes is typed.                                *)
LEMMA VmmGoesTypes ==
  ASSUME Types, VmmGoes
  PROVE  /\ vmm' \in VmmRecord /\ vmm'.state = None
         /\ cmd' \in [Cmd -> CmdRecord]
         /\ inbox' \in Seq(RequestRecord)
         /\ \A c \in Cmd : cmd'[c].pc = cmd[c].pc /\ cmd'[c].kind = cmd[c].kind
<1>1. <<>> \in Seq(RequestRecord)
  BY EmptySeq
<1>2. NoVmm \in VmmRecord /\ NoVmm.state = None
  BY DEF NoVmm, NoOverlay, VmmRecord, VmmState, OverlayRecord
<1>3. ASSUME NEW c \in Cmd
      PROVE  /\ [cmd[c] EXCEPT !.asked = FALSE] \in CmdRecord
             /\ [cmd[c] EXCEPT !.asked = FALSE].pc = cmd[c].pc
             /\ [cmd[c] EXCEPT !.asked = FALSE].kind = cmd[c].kind
  BY DEF Types, Records, CmdRecord
<1> QED
  BY <1>1, <1>2, <1>3 DEF VmmGoes

LEMMA NoCreateTypes == NoCreate \in CreateRecord /\ NoCreate.pc = "idle"
BY DEF NoCreate, CreateRecord, CreatePc, Flavor

(* However a create ends while it formats, the file stays a typed one.       *)
LEMMA LeftBehindTypes ==
  ASSUME Types, NEW left \in LeftBehind
  PROVE  left \in OverlayRecord
<1>1. [overlay EXCEPT !.stage = "headed", !.rootfs = create.rootfs] \in OverlayRecord
  BY DEF Types, Records, OverlayRecord, CreateRecord
<1> QED
  BY <1>1 DEF LeftBehind, Types, Records

LEMMA CreateStepTypes ==
  ASSUME Types, CreateStep
  PROVE  Types'
<1> USE DEF Types, TypeOK, Records, OnlyDelete, CreateAt
<1> USE DEF CreateRecord, CreatePc, OverlayRecord
<1>1. CASE \E f \in Flavor, r \in Rootfs, recreate \in BOOLEAN : Start(f, r, recreate)
  BY <1>1 DEF Start, talk, disk
<1>2. CASE EnsureUnique
  BY <1>2, NoCreateTypes DEF EnsureUnique, talk, disk
<1>3. CASE Lock
  <2>1. CASE lock = None
    <3>1. /\ create' \in CreateRecord /\ create'.pc = "overlay" /\ lock' = "create"
          /\ create'.flavor = create.flavor
      <4>1. create' = [create EXCEPT !.pc = "overlay"] /\ lock' = "create"
        BY <1>3, <2>1 DEF Lock
      <4>2. create \in CreateRecord
        OBVIOUS
      <4> QED
        BY ONLY <4>1, <4>2 DEF CreateRecord, CreatePc
    <3>2. sock' \in [Flavor -> {"absent", "stale", "live"}] /\ dirs' \subseteq {"runtime", "state"}
      BY <1>3, <2>1 DEF Lock
    <3>3. vmm = NoVmm
      BY <2>1, HypervisorAssumption DEF None
    <3> QED
      BY <1>3, <2>1, <3>1, <3>2, <3>3, HypervisorAssumption DEF Lock, talk, disk, None
  <2>2. CASE lock # None
    BY <1>3, <2>2, NoCreateTypes DEF Lock, talk, disk
  <2> QED
    BY <2>1, <2>2
<1>4. CASE ReuseOverlay
  BY <1>4 DEF ReuseOverlay, talk, disk
<1>5. CASE OpenOverlay
  BY <1>5 DEF OpenOverlay, NoOverlay, talk
<1>6. CASE FormatOverlay
  BY <1>6 DEF FormatOverlay, talk
<1>7. CASE SpawnVmm
  <2>1. vmm' \in VmmRecord
    BY <1>7 DEF SpawnVmm, NoVmm, NoOverlay, VmmRecord, VmmState
  <2> QED
    BY <1>7, <2>1 DEF SpawnVmm, NoVmm, talk, disk
<1>8. CASE CreateFails
  <2>1. overlay' \in OverlayRecord
    BY <1>8, LeftBehindTypes DEF CreateFails
  <2> QED
    BY <1>8, <2>1, NoCreateTypes, HypervisorAssumption DEF CreateFails, talk, None
<1>9. CASE LeaveScope
  BY <1>9, VmmGoesTypes, NoCreateTypes, HypervisorAssumption DEF LeaveScope, VmmGoes, disk, None
<1>10. CASE CreateDies
  <2>1. overlay' \in OverlayRecord
    BY <1>10, LeftBehindTypes DEF CreateDies
  <2> QED
    BY <1>10, <2>1, VmmGoesTypes, NoCreateTypes, HypervisorAssumption
       DEF CreateDies, VmmGoes, None, Live
<1> QED
  BY <1>1, <1>2, <1>3, <1>4, <1>5, <1>6, <1>7, <1>8, <1>9, <1>10 DEF CreateStep

(* The three ways a command goes on: with its next step, with a request it   *)
(* sends, or failed and without the lock.                                    *)
LEMMA GotoTypes ==
  ASSUME Types, NEW c \in Cmd, NEW pc \in CmdPc, Goto(c, pc)
  PROVE  /\ cmd' \in [Cmd -> CmdRecord]
         /\ cmd'[c].pc = pc /\ cmd'[c].kind = cmd[c].kind
         /\ \A d \in Cmd \ {c} : cmd'[d] = cmd[d]
<1>1. cmd[c] \in CmdRecord
  BY DEF Types, Records
<1>2. [[cmd[c] EXCEPT !.pc = pc] EXCEPT !.pieces = 0] \in CmdRecord
  BY <1>1 DEF CmdRecord
<1> QED
  BY <1>1, <1>2 DEF Types, Records, CmdRecord, Goto

LEMMA PickTypes ==
  ASSUME Types, NEW c \in Cmd, NEW f \in Flavor, NEW pc \in CmdPc,
         cmd' = [cmd EXCEPT ![c].picked = f, ![c].pc = pc]
  PROVE  /\ cmd' \in [Cmd -> CmdRecord]
         /\ cmd'[c].pc = pc /\ cmd'[c].kind = cmd[c].kind
         /\ \A d \in Cmd \ {c} : cmd'[d] = cmd[d]
<1>1. cmd[c] \in CmdRecord
  BY DEF Types, Records
<1>2. [[cmd[c] EXCEPT !.picked = f] EXCEPT !.pc = pc] \in CmdRecord
  BY <1>1 DEF CmdRecord
<1> QED
  BY <1>1, <1>2 DEF Types, Records, CmdRecord

LEMMA SendTypes ==
  ASSUME Types, NEW c \in Cmd, NEW n, NEW wait \in CmdPc, Send(c, n, wait)
  PROVE  /\ cmd' \in [Cmd -> CmdRecord] /\ inbox' \in Seq(RequestRecord)
         /\ cmd'[c].pc = wait /\ cmd'[c].kind = cmd[c].kind
         /\ \A d \in Cmd \ {c} : cmd'[d] = cmd[d]
<1>1. [from |-> c, what |-> Request(cmd[c].picked, n)] \in RequestRecord
  BY DEF RequestRecord, What, Request
<1>2. inbox' \in Seq(RequestRecord)
  BY <1>1, AppendProperties DEF Types, Records, Send
<1>3. cmd[c] \in CmdRecord
  BY DEF Types, Records
<1>4. [[cmd[c] EXCEPT !.pc = wait] EXCEPT !.asked = TRUE] \in CmdRecord
  BY <1>3 DEF CmdRecord
<1> QED
  BY <1>2, <1>3, <1>4 DEF Types, Records, CmdRecord, Send

LEMMA FailTypes ==
  ASSUME Types, NEW c \in Cmd, NEW cause \in Cause, Fail(c, cause)
  PROVE  /\ cmd' \in [Cmd -> CmdRecord]
         /\ cmd'[c].pc = "failed" /\ cmd'[c].kind = cmd[c].kind
         /\ \A d \in Cmd \ {c} : cmd'[d] = cmd[d]
         /\ lock' = IF lock = c THEN None ELSE lock
BY DEF Types, Records, CmdRecord, CmdPc, Fail, Unlocked, Ready, Flavor

(* A command that hangs up takes its name from the requests it has sent.     *)
LEMMA HangUpTypes ==
  ASSUME Types, NEW c, HangUp(c)
  PROVE  /\ inbox' \in Seq(RequestRecord) /\ DOMAIN inbox' = DOMAIN inbox
         /\ \A i \in DOMAIN inbox :
              /\ inbox'[i].from = IF inbox[i].from = c THEN None ELSE inbox[i].from
              /\ inbox'[i].what = inbox[i].what
<1>1. /\ Len(inbox) \in Nat /\ DOMAIN inbox = 1 .. Len(inbox)
      /\ \A i \in DOMAIN inbox : inbox[i] \in RequestRecord
  BY LenProperties, ElementOfSeq DEF Types, Records
<1>2. ASSUME NEW i \in DOMAIN inbox
      PROVE  /\ [inbox[i] EXCEPT !.from = None] \in RequestRecord
             /\ [inbox[i] EXCEPT !.from = None].from = None
             /\ [inbox[i] EXCEPT !.from = None].what = inbox[i].what
  BY <1>1 DEF RequestRecord
<1>3. /\ inbox' \in [1 .. Len(inbox) -> RequestRecord]
      /\ DOMAIN inbox' = DOMAIN inbox
  BY <1>1, <1>2 DEF HangUp
<1>4. inbox' \in Seq(RequestRecord)
  BY <1>1, <1>3, SeqDef
<1> QED
  BY <1>2, <1>3, <1>4 DEF HangUp

(* What a command's step has to keep for the types: the lock is left alone,  *)
(* dropped, or taken by one that is at work.                                 *)
AtWork(pc) == pc \notin {"idle", "probe", "lock", "ok", "failed"}

LEMMA CommandKeepsTypes ==
  ASSUME Types, NEW c \in Cmd,
         cmd' \in [Cmd -> CmdRecord], \A d \in Cmd \ {c} : cmd'[d] = cmd[d],
         \/ lock' = None
         \/ lock' \in {lock, c} /\ (lock = "create" => lock' = lock) /\ AtWork(cmd'[c].pc)
         \/ lock' = lock /\ lock # c,
         lock' = "create" <=> lock = "create",
         lock' = c \/ cmd'[c].pc \in {"lock", "rmRuntime", "rmState"} =>
           cmd'[c].kind = "delete",
         UNCHANGED <<create, vmm>>,
         sock' \in [Flavor -> {"absent", "stale", "live"}],
         dirs' \subseteq {"runtime", "state"},
         overlay' \in OverlayRecord, promised' \in Nat,
         inbox' \in Seq(RequestRecord),
         reply' \in [Cmd -> Reply],
         budget' \in [creates : Nat, commands : Nat, writes : Nat]
  PROVE  Types'
<1>1. Records'
  BY DEF Types, Records
<1>2. lock' \in {None, "create"} \cup Cmd
  BY DEF Types, TypeOK
<1>3. \A d \in Cmd : lock' = d => AtWork(cmd'[d].pc)
  BY HypervisorAssumption DEF Types, TypeOK, AtWork
<1>4. overlay'.stage \in {None, "empty", "headed", "whole"}
  BY DEF OverlayRecord
<1>5. OnlyDelete'
  BY HypervisorAssumption DEF Types, OnlyDelete
<1> QED
  BY <1>1, <1>2, <1>3, <1>4, <1>5 DEF Types, TypeOK, AtWork

LEMMA FailureKeepsTypes ==
  ASSUME Types, NEW c \in Cmd, NEW cause \in Cause, Fail(c, cause),
         UNCHANGED <<create, vmm, sock, dirs, disk, budget>>,
         inbox' \in Seq(RequestRecord),
         reply' \in [Cmd -> Reply]
  PROVE  Types'
<1>1. /\ cmd' \in [Cmd -> CmdRecord]
      /\ cmd'[c].pc = "failed"
      /\ \A d \in Cmd \ {c} : cmd'[d] = cmd[d]
      /\ lock' = IF lock = c THEN None ELSE lock
  BY FailTypes
<1>2. c # None /\ c # "create" /\ "create" # None
  BY HypervisorAssumption DEF None
<1>3. lock' = None \/ (lock' = lock /\ lock # c)
  BY DEF Fail, Unlocked
<1>4. /\ sock' \in [Flavor -> {"absent", "stale", "live"}]
      /\ dirs' \subseteq {"runtime", "state"}
      /\ overlay' \in OverlayRecord /\ promised' \in Nat
      /\ budget' \in [creates : Nat, commands : Nat, writes : Nat]
      /\ UNCHANGED <<create, vmm>>
  BY DEF Types, TypeOK, Records, disk
<1> QED
  BY <1>1, <1>2, <1>3, <1>4, CommandKeepsTypes

LEMMA CmdStepTypes ==
  ASSUME Types, NEW c \in Cmd, CmdStep(c)
  PROVE  Types'
<1>0. /\ c # None /\ c # "create" /\ "create" # None
      /\ lock = c => AtWork(cmd[c].pc) /\ cmd[c].kind = "delete"
      /\ cmd[c].pc \in {"lock", "rmRuntime", "rmState"} => cmd[c].kind = "delete"
      /\ sock \in [Flavor -> {"absent", "stale", "live"}]
      /\ dirs \subseteq {"runtime", "state"}
      /\ reply \in [Cmd -> Reply]
      /\ Records
  BY HypervisorAssumption DEF Types, TypeOK, OnlyDelete, AtWork, None
<1> USE DEF disk, AtWork, CmdPc
<1>1. CASE Probe(c)
  <2>1. PICK f \in Candidates :
          cmd' = [cmd EXCEPT ![c].picked = f,
                             ![c].pc = IF cmd[c].kind = "delete" THEN "lock" ELSE "first"]
    BY <1>1 DEF Probe
  <2>2. f \in Flavor
    BY DEF Candidates, Flavor
  <2>3. ASSUME NEW pc \in {"lock", "first"}, cmd' = [cmd EXCEPT ![c].picked = f, ![c].pc = pc],
               pc = "lock" => cmd[c].kind = "delete"
        PROVE  Types'
    <3>1. /\ cmd' \in [Cmd -> CmdRecord]
          /\ cmd'[c].pc = pc /\ cmd'[c].kind = cmd[c].kind
          /\ \A d \in Cmd \ {c} : cmd'[d] = cmd[d]
      BY <2>2, <2>3, PickTypes
    <3>2. lock' = lock /\ lock # c
      BY <1>0, <1>1 DEF Probe
    <3> QED
      BY <1>0, <1>1, <2>3, <3>1, <3>2, CommandKeepsTypes DEF Probe, Records
  <2> QED
    BY <2>1, <2>3
<1>2. CASE TryLock(c)
  <2>1. CASE ~cmd[c].force /\ (lock # None \/ Live(cmd[c].picked))
    BY <1>0, <1>2, <2>1, FailureKeepsTypes DEF TryLock, Records
  <2>2. CASE ~(~cmd[c].force /\ (lock # None \/ Live(cmd[c].picked)))
    BY <1>0, <1>2, <2>2, GotoTypes, CommandKeepsTypes DEF TryLock, Records
  <2> QED
    BY <2>1, <2>2
<1>3. CASE SendFirst(c)
  <2>1. CASE Live(cmd[c].picked)
    BY <1>0, <1>3, <2>1, SendTypes, CommandKeepsTypes DEF SendFirst, Records
  <2>2. CASE ~Live(cmd[c].picked)
    <3>1. Goto(c, AfterShutdown(c)) /\ AfterShutdown(c) \in {"rmRuntime", "ok"}
      BY <1>3, <2>2 DEF SendFirst, AfterShutdown
    <3>2. /\ lock = c => AtWork(AfterShutdown(c))
          /\ AfterShutdown(c) = "rmRuntime" => cmd[c].kind = "delete"
      BY <1>0 DEF AfterShutdown
    <3> QED
      BY <1>0, <1>3, <2>2, <3>1, <3>2, GotoTypes, CommandKeepsTypes DEF SendFirst, Records
  <2> QED
    BY <2>1, <2>2
<1>4. CASE SendSecond(c)
  <2>1. CASE Live(cmd[c].picked) \/ (cmd[c].picked = QEMU /\ cmd[c].asked)
    <3>1. Send(c, "second", "waitSecond") /\ UNCHANGED lock /\ cmd[c].pc = "second"
      BY <1>4, <2>1 DEF SendSecond
    <3> QED
      BY <1>0, <1>4, <3>1, SendTypes, CommandKeepsTypes DEF SendSecond, Records
  <2>2. CASE ~(Live(cmd[c].picked) \/ (cmd[c].picked = QEMU /\ cmd[c].asked))
    BY <1>0, <1>4, <2>2, FailureKeepsTypes DEF SendSecond, Records
  <2> QED
    BY <2>1, <2>2
<1>5. CASE TakeAnswer(c)
  <2>0. reply' \in [Cmd -> Reply]
    BY <1>0, <1>5 DEF TakeAnswer
  <2>1. CASE reply[c] # "ok" /\ Fail(c, reply[c])
    <3>1. reply[c] \in Cause
      BY <1>0, <2>1
    <3> QED
      BY <1>0, <1>5, <2>0, <2>1, <3>1, FailureKeepsTypes DEF TakeAnswer, Records
  <2>2. CASE Goto(c, AfterFirst(c)) /\ UNCHANGED lock
    BY <1>0, <1>5, <2>0, <2>2, GotoTypes, CommandKeepsTypes DEF TakeAnswer, Records, AfterFirst
  <2>3. CASE Goto(c, AfterShutdown(c)) /\ UNCHANGED lock
    <3>1. /\ AfterShutdown(c) \in {"rmRuntime", "ok"}
          /\ lock = c => AtWork(AfterShutdown(c))
          /\ AfterShutdown(c) = "rmRuntime" => cmd[c].kind = "delete"
      BY <1>0 DEF AfterShutdown
    <3> QED
      BY <1>0, <1>5, <2>0, <2>3, <3>1, GotoTypes, CommandKeepsTypes DEF TakeAnswer, Records
  <2> QED
    BY <1>5, <2>1, <2>2, <2>3 DEF TakeAnswer, GoesOn
<1>6. CASE GiveUp(c)
  BY <1>0, <1>6, HangUpTypes, FailureKeepsTypes DEF GiveUp
<1>7. CASE ReadPiece(c)
  <2>1. CASE TooLong(c)
    BY <1>0, <1>7, <2>1, HangUpTypes, FailureKeepsTypes DEF ReadPiece
  <2>2. CASE ~TooLong(c)
    <3>1. (cmd[c].pieces + 1) % (MaxPieces + 1) \in Nat
      BY <1>0, HypervisorAssumption DEF Records, CmdRecord
    <3>a. [cmd[c] EXCEPT !.pieces = (@ + 1) % (MaxPieces + 1)] \in CmdRecord
      BY <1>0, <3>1, ZenonT(60) DEF Records, CmdRecord
    <3>b. cmd' = [cmd EXCEPT ![c].pieces = (@ + 1) % (MaxPieces + 1)]
      BY <1>7, <2>2 DEF ReadPiece
    <3>2. /\ cmd' \in [Cmd -> CmdRecord] /\ \A d \in Cmd \ {c} : cmd'[d] = cmd[d]
          /\ cmd'[c].pc = cmd[c].pc /\ cmd'[c].kind = cmd[c].kind
      BY <1>0, <3>a, <3>b DEF Records, CmdRecord
    <3> QED
      BY <1>0, <1>7, <2>2, <3>2, CommandKeepsTypes DEF ReadPiece, Records
  <2> QED
    BY <2>1, <2>2
<1>8. CASE RemoveRuntimeDir(c)
  <2>1. /\ Goto(c, "rmState") /\ cmd[c].pc = "rmRuntime"
        /\ sock' \in [Flavor -> {"absent", "stale", "live"}]
        /\ dirs' \subseteq {"runtime", "state"}
    BY <1>0, <1>8 DEF RemoveRuntimeDir
  <2> QED
    BY <1>0, <1>8, <2>1, GotoTypes, CommandKeepsTypes DEF RemoveRuntimeDir, Records
<1>9. CASE RemoveStateDir(c)
  <2>1. NoOverlay \in OverlayRecord
    BY DEF NoOverlay, OverlayRecord
  <2>2. /\ Goto(c, "ok") /\ lock' = IF lock = c THEN None ELSE lock
        /\ dirs' \subseteq {"runtime", "state"}
    BY <1>0, <1>9 DEF RemoveStateDir, Unlocked
  <2> QED
    BY <1>0, <1>9, <2>1, <2>2, GotoTypes, CommandKeepsTypes DEF RemoveStateDir, Records
<1>10. CASE RemoveFails(c)
  BY <1>0, <1>10, FailureKeepsTypes DEF RemoveFails, Records
<1> QED
  BY <1>1, <1>2, <1>3, <1>4, <1>5, <1>6, <1>7, <1>8, <1>9, <1>10 DEF CmdStep

LEMMA BeginOrDeathTypes ==
  ASSUME Types, NEW c \in Cmd,
         CmdDies(c) \/ \E kind \in {"shutdown", "delete"}, force \in BOOLEAN : Begin(c, kind, force)
  PROVE  Types'
<1>0. /\ c # None /\ c # "create" /\ "create" # None
      /\ lock = c => AtWork(cmd[c].pc)
      /\ sock \in [Flavor -> {"absent", "stale", "live"}]
      /\ dirs \subseteq {"runtime", "state"}
      /\ reply \in [Cmd -> Reply]
      /\ Records
  BY HypervisorAssumption DEF Types, TypeOK, AtWork, None
<1>1. CASE CmdDies(c)
  <2>1. /\ cmd' \in [Cmd -> CmdRecord] /\ \A d \in Cmd \ {c} : cmd'[d] = cmd[d]
        /\ cmd'[c].pc = "idle"
    BY <1>0, <1>1 DEF CmdDies, Ready, Records, CmdRecord, CmdPc, Flavor
  <2>2. reply' \in [Cmd -> Reply]
    BY <1>0, <1>1 DEF CmdDies
  <2> QED
    BY <1>0, <1>1, <2>1, <2>2, HangUpTypes, CommandKeepsTypes DEF CmdDies, Records, disk
<1>2. ASSUME NEW kind \in {"shutdown", "delete"}, NEW force \in BOOLEAN, Begin(c, kind, force)
      PROVE  Types'
  <2>1. /\ cmd' \in [Cmd -> CmdRecord]
        /\ \A d \in Cmd \ {c} : cmd'[d] = cmd[d]
        /\ cmd'[c].pc = "probe"
    BY <1>0, <1>2 DEF Begin, Ready, Records, CmdRecord, CmdPc, Flavor
  <2>2. budget' \in [creates : Nat, commands : Nat, writes : Nat]
    <3>1. budget \in [creates : Nat, commands : Nat, writes : Nat] /\ budget.commands > 0
      BY <1>0, <1>2 DEF Begin, Records
    <3>2. budget' = [budget EXCEPT !.commands = @ - 1]
      BY <1>2 DEF Begin
    <3> QED
      BY <3>1, <3>2
  <2>3. lock # c
    BY <1>0, <1>2 DEF Begin, AtWork
  <2> QED
    BY <1>0, <1>2, <2>1, <2>2, <2>3, CommandKeepsTypes DEF Begin, Records, disk
<1> QED
  BY <1>1, <1>2

(* What a step of the VMM has to keep for the types.                         *)
LEMMA VmmKeepsTypes ==
  ASSUME Types, UNCHANGED <<create, lock, dirs>>,
         cmd' \in [Cmd -> CmdRecord],
         \A c \in Cmd : cmd'[c].pc = cmd[c].pc /\ cmd'[c].kind = cmd[c].kind,
         vmm' \in VmmRecord, vmm' = NoVmm \/ (vmm # NoVmm /\ vmm'.flavor = vmm.flavor),
         sock' \in [Flavor -> {"absent", "stale", "live"}],
         overlay' \in OverlayRecord, promised' \in Nat,
         inbox' \in Seq(RequestRecord),
         reply' \in [Cmd -> Reply],
         budget' \in [creates : Nat, commands : Nat, writes : Nat]
  PROVE  Types'
<1>1. Records'
  BY DEF Types, Records
<1>2. vmm'.state \in VmmState /\ overlay'.stage \in {None, "empty", "headed", "whole"}
  BY DEF OverlayRecord, VmmRecord
<1>3. OnlyDelete'
  BY DEF Types, OnlyDelete
<1> QED
  BY <1>1, <1>2, <1>3 DEF Types, TypeOK, VmmState

LEMMA VmmStepTypes ==
  ASSUME Types, VmmStep
  PROVE  Types'
<1>0. /\ Records
      /\ sock \in [Flavor -> {"absent", "stale", "live"}]
      /\ reply \in [Cmd -> Reply]
  BY DEF Types, TypeOK
<1>a. ASSUME VmmGoes, UNCHANGED <<create, lock, dirs, disk, reply, budget>>,
             sock' \in [Flavor -> {"absent", "stale", "live"}]
      PROVE  Types'
  <2>1. /\ vmm' \in VmmRecord /\ vmm' = NoVmm
        /\ cmd' \in [Cmd -> CmdRecord] /\ inbox' \in Seq(RequestRecord)
        /\ \A c \in Cmd : cmd'[c].pc = cmd[c].pc /\ cmd'[c].kind = cmd[c].kind
    BY <1>a, VmmGoesTypes DEF VmmGoes
  <2>2. UNCHANGED <<create, lock, dirs>>
    BY <1>a
  <2>3. /\ overlay' \in OverlayRecord /\ promised' \in Nat
        /\ reply' \in [Cmd -> Reply]
        /\ budget' \in [creates : Nat, commands : Nat, writes : Nat]
    BY <1>0, <1>a DEF Records, disk
  <2> QED
    BY <1>a, <2>1, <2>2, <2>3, VmmKeepsTypes
<1> USE DEF disk, talk
<1>1. CASE VmmListens
  <2>1. CASE "runtime" \in dirs /\ sock[vmm.flavor] = "absent"
    <3>1. vmm' \in VmmRecord /\ vmm'.flavor = vmm.flavor /\ vmm # NoVmm
      BY <1>0, <1>1, <2>1 DEF VmmListens, NoVmm, None, Records, VmmRecord, VmmState
    <3>2. sock' \in [Flavor -> {"absent", "stale", "live"}]
      BY <1>0, <1>1, <2>1 DEF VmmListens
    <3> QED
      BY <1>0, <1>1, <2>1, <3>1, <3>2, VmmKeepsTypes DEF VmmListens, Records
  <2>2. CASE ~("runtime" \in dirs /\ sock[vmm.flavor] = "absent")
    <3>1. VmmGoes /\ UNCHANGED <<create, lock, dirs, disk, reply, budget, sock>>
      BY <1>1, <2>2 DEF VmmListens
    <3> QED
      BY <1>0, <3>1, <1>a
  <2> QED
    BY <2>1, <2>2
<1>2. CASE VmmStarts
  <2>1. vmm # NoVmm
    BY <1>2 DEF VmmStarts, NoVmm, None
  <2>2. [overlay EXCEPT !.writes = 0] \in OverlayRecord
    BY <1>0 DEF Records, OverlayRecord
  <2>3. vmm' \in VmmRecord /\ vmm'.flavor = vmm.flavor
    BY <1>0, <1>2, <2>2 DEF VmmStarts, Records, VmmRecord, VmmState
  <2> QED
    BY <1>0, <1>2, <2>1, <2>3, VmmKeepsTypes DEF VmmStarts, Records
<1>3. CASE GuestWrites
  <2>1. overlay' \in OverlayRecord /\ promised' \in Nat
    BY <1>0, <1>3 DEF GuestWrites, Records, OverlayRecord
  <2>2. budget' \in [creates : Nat, commands : Nat, writes : Nat]
    BY <1>0, <1>3 DEF GuestWrites, Records
  <2>3. vmm # NoVmm
    BY <1>3 DEF GuestWrites, NoVmm, None
  <2> QED
    BY <1>0, <1>3, <2>1, <2>2, <2>3, VmmKeepsTypes DEF GuestWrites, Records
<1>4. CASE GuestPowersOff
  <2>1. vmm' \in VmmRecord /\ vmm'.flavor = vmm.flavor /\ vmm # NoVmm
    BY <1>0, <1>4 DEF GuestPowersOff, NoVmm, None, Records, VmmRecord, VmmState
  <2> QED
    BY <1>0, <1>4, <2>1, VmmKeepsTypes DEF GuestPowersOff, Records
<1>5. CASE VmmExits
  <2>1. sock' \in [Flavor -> {"absent", "stale", "live"}]
    BY <1>0, <1>5 DEF VmmExits, Live
  <2> QED
    BY <1>0, <1>5, <2>1, <1>a DEF VmmExits
<1>6. CASE VmmHandles
  <2>1. Head(inbox) \in RequestRecord /\ inbox' \in Seq(RequestRecord)
    BY <1>0, <1>6, HeadTailProperties DEF VmmHandles, Records
  <2>2. PICK answer \in Answers(Head(inbox).what) :
          /\ vmm' = IF answer = "ok" THEN [vmm EXCEPT !.state = Handles(Head(inbox).what)]
                    ELSE vmm
          /\ reply' = IF Head(inbox).from = None THEN reply
                      ELSE [reply EXCEPT ![Head(inbox).from] = answer]
    BY <1>6 DEF VmmHandles
  <2>3. Handles(Head(inbox).what) \in VmmState /\ answer \in Reply
    BY <1>0 DEF Handles, Answers, Records, VmmRecord, VmmState
  <2>4. vmm' \in VmmRecord /\ vmm'.flavor = vmm.flavor /\ vmm # NoVmm
    BY <1>0, <1>6, <2>2, <2>3 DEF VmmHandles, NoVmm, None, Records, VmmRecord
  <2>5. reply' \in [Cmd -> Reply]
    BY <1>0, <2>1, <2>2, <2>3 DEF RequestRecord
  <2> QED
    BY <1>0, <1>6, <2>1, <2>4, <2>5, VmmKeepsTypes DEF VmmHandles, Records
<1> QED
  BY <1>1, <1>2, <1>3, <1>4, <1>5, <1>6 DEF VmmStep

LEMMA NextTypes == Types /\ [Next]_vars => Types'
<1>1. CASE UNCHANGED vars
  BY <1>1 DEF vars, disk, Types, TypeOK, Records, OnlyDelete
<1> QED
  BY <1>1, CreateStepTypes, CmdStepTypes, VmmStepTypes, BeginOrDeathTypes DEF Next

-------------------------------------------------------------------------------
(* The disk                                                                  *)

LEMMA InitDisk == Init => Disk
BY DEF Init, Disk, DiskInv, GuestHasItsRoot, NoOverlay, NoVmm, NoCreate, None

(* What the disk is about: who leaves it, the create and the VMM alone, or    *)
(* only ends the VMM, keeps it.                                              *)
LEMMA FrameKeepsDisk ==
  ASSUME Disk, UNCHANGED <<create, disk>>, vmm' \in {vmm, NoVmm}
  PROVE  Disk'
BY DEF Disk, DiskInv, GuestHasItsRoot, NoVmm, disk, None

LEMMA CreateStepKeepsDisk ==
  ASSUME Types, Disk, CreateStep
  PROVE  Disk'
<1>0. /\ create \in CreateRecord /\ overlay \in OverlayRecord /\ vmm \in VmmRecord
      /\ vmm # NoVmm => create.pc = "attached"
      /\ DiskInv /\ GuestHasItsRoot
  BY DEF Types, TypeOK, Records, Disk
<1> USE DEF Disk, DiskInv, GuestHasItsRoot, disk, None
<1>1. CASE \E f \in Flavor, r \in Rootfs, recreate \in BOOLEAN : Start(f, r, recreate)
  BY <1>0, <1>1 DEF Start, NoVmm
<1>2. CASE EnsureUnique
  BY <1>0, <1>2 DEF EnsureUnique, CreateAt, NoCreate, NoVmm, CreateRecord
<1>3. CASE Lock
  BY <1>0, <1>3 DEF Lock, CreateAt, NoCreate, NoVmm, CreateRecord
<1>4. CASE ReuseOverlay
  BY <1>0, <1>4 DEF ReuseOverlay, CreateAt, NoVmm, CreateRecord, MakesNew, BacksOntoRootfs, Opens
<1>5. CASE OpenOverlay
  BY <1>0, <1>5 DEF OpenOverlay, CreateAt, NoVmm, CreateRecord, NoOverlay, MakesNew
<1>6. CASE FormatOverlay
  BY <1>0, <1>6 DEF FormatOverlay, CreateAt, NoVmm, CreateRecord
<1>7. CASE SpawnVmm
  BY <1>0, <1>7 DEF SpawnVmm, CreateAt, NoVmm, NoOverlay, CreateRecord
<1>8. CASE CreateFails
  BY <1>0, <1>8 DEF CreateFails, LeftBehind, NoCreate, NoVmm, OverlayRecord
<1>9. CASE LeaveScope
  BY <1>0, <1>9 DEF LeaveScope, CreateAt, VmmGoes, NoCreate, NoVmm
<1>10. CASE CreateDies
  BY <1>0, <1>10 DEF CreateDies, VmmGoes, LeftBehind, NoCreate, NoVmm, OverlayRecord
<1> QED
  BY <1>1, <1>2, <1>3, <1>4, <1>5, <1>6, <1>7, <1>8, <1>9, <1>10 DEF CreateStep

LEMMA CommandKeepsDisk ==
  ASSUME Types, Disk, NEW c \in Cmd,
         \/ CmdStep(c) \/ CmdDies(c)
         \/ \E kind \in {"shutdown", "delete"}, force \in BOOLEAN : Begin(c, kind, force)
  PROVE  Disk'
<1>1. CASE RemoveStateDir(c)
  BY <1>1 DEF RemoveStateDir, NoOverlay, Disk, DiskInv, GuestHasItsRoot, None
<1>2. CASE ~RemoveStateDir(c)
  <2>1. UNCHANGED <<create, disk, vmm>>
    BY <1>2 DEF CmdStep, CmdDies, Begin, Probe, TryLock, SendFirst, SendSecond, TakeAnswer,
                GiveUp, ReadPiece, RemoveRuntimeDir, RemoveFails, disk
  <2> QED
    BY <2>1, FrameKeepsDisk
<1> QED
  BY <1>1, <1>2

LEMMA VmmStepKeepsDisk ==
  ASSUME Types, Disk, VmmStep
  PROVE  Disk'
<1>0. /\ overlay \in OverlayRecord /\ vmm \in VmmRecord
      /\ vmm # NoVmm => create.pc = "attached"
      /\ DiskInv /\ GuestHasItsRoot
  BY DEF Types, TypeOK, Records, Disk
<1> USE DEF Disk, DiskInv, GuestHasItsRoot, None
<1>1. CASE VmmListens
  BY <1>0, <1>1 DEF VmmListens, VmmGoes, NoVmm, disk, VmmRecord
<1>2. CASE VmmStarts
  <2>1. /\ vmm # NoVmm /\ UNCHANGED <<create, overlay, promised>>
        /\ vmm'.rootfs = vmm.rootfs
        /\ vmm'.state \in {"running", "halted"} =>
             overlay.stage \in {"headed", "whole"} /\ vmm'.image = [overlay EXCEPT !.writes = 0]
    <3>1. vmm # NoVmm /\ UNCHANGED <<create, overlay, promised>>
      BY <1>2 DEF VmmStarts, NoVmm, disk
    <3>2. CASE Opens
      BY <1>0, <1>2, <3>1, <3>2 DEF VmmStarts, Opens, VmmRecord
    <3>3. CASE ~Opens
      BY <1>0, <1>2, <3>1, <3>3 DEF VmmStarts, VmmRecord
    <3> QED
      BY <3>2, <3>3
  <2>2. vmm'.state \in {"running", "halted"} =>
          /\ [overlay EXCEPT !.writes = 0].stage = overlay.stage
          /\ [overlay EXCEPT !.writes = 0].rootfs = vmm.rootfs
    BY <1>0, <2>1 DEF OverlayRecord
  <2> QED
    BY <1>0, <2>1, <2>2
<1>3. CASE GuestWrites
  BY <1>0, <1>3 DEF GuestWrites, NoVmm, talk, OverlayRecord
<1>4. CASE GuestPowersOff
  BY <1>0, <1>4 DEF GuestPowersOff, NoVmm, talk, disk, VmmRecord
<1>5. CASE VmmExits
  BY <1>5, FrameKeepsDisk DEF VmmExits, VmmGoes, disk
<1>6. CASE VmmHandles
  <2>1. vmm # NoVmm /\ UNCHANGED <<create, overlay, promised>>
    BY <1>6 DEF VmmHandles, NoVmm, disk
  <2>2. PICK answer \in Answers(Head(inbox).what) :
          vmm' = IF answer = "ok" THEN [vmm EXCEPT !.state = Handles(Head(inbox).what)] ELSE vmm
    BY <1>6 DEF VmmHandles
  <2>3. /\ vmm'.rootfs = vmm.rootfs /\ vmm'.image = vmm.image
        /\ vmm'.state \in {"running", "halted"} => vmm.state \in {"running", "halted"}
    BY <1>0, <2>2 DEF Answers, Handles, VmmRecord
  <2> QED
    BY <1>0, <2>1, <2>3
<1> QED
  BY <1>1, <1>2, <1>3, <1>4, <1>5, <1>6 DEF VmmStep

LEMMA NextDisk == Types /\ Disk /\ [Next]_vars => Disk'
<1>1. Types /\ Disk /\ UNCHANGED vars => Disk'
  BY FrameKeepsDisk DEF vars
<1> QED
  BY <1>1, CreateStepKeepsDisk, CommandKeepsDisk, VmmStepKeepsDisk DEF Next

-------------------------------------------------------------------------------
(* Requests and answers                                                      *)

LEMMA InitTalk == Init => TalkInv
BY DEF Init, TalkInv, RequestsBelong, AnswersBelong, AskedBySending, OkMeansDown,
       ForceFinishesHalf, Ready, None

(* The VMM goes and takes its requests along; answers stay for the reader.    *)
LEMMA VmmGoesKeepsTalk ==
  ASSUME Types, TalkInv, VmmGoes, UNCHANGED reply
  PROVE  TalkInv'
<1>1. \A c \in Cmd :
        /\ cmd'[c].pc = cmd[c].pc /\ cmd'[c].picked = cmd[c].picked
        /\ cmd'[c].kind = cmd[c].kind /\ cmd'[c].force = cmd[c].force
        /\ cmd'[c].cause = cmd[c].cause /\ ~cmd'[c].asked
  BY DEF Types, Records, CmdRecord, VmmGoes
<1>2. RequestsBelong'
  BY DEF VmmGoes, RequestsBelong
<1> QED
  BY <1>1, <1>2 DEF TalkInv, AnswersBelong, AskedBySending, OkMeansDown, ForceFinishesHalf

(* A create touches the VMM only where it has none or takes it along.         *)
LEMMA CreateStepKeepsTalk ==
  ASSUME Types, TalkInv, CreateStep
  PROVE  TalkInv'
<1>1. CASE LeaveScope \/ CreateDies
  BY <1>1, VmmGoesKeepsTalk DEF LeaveScope, CreateDies
<1>2. CASE SpawnVmm
  <2>1. vmm = NoVmm /\ UNCHANGED talk
    BY <1>2 DEF SpawnVmm, CreateAt, Types, TypeOK
  <2> QED
    BY <2>1 DEF NoVmm, None, talk, TalkInv, RequestsBelong, AnswersBelong, AskedBySending,
                OkMeansDown, ForceFinishesHalf
<1>3. CASE ~(LeaveScope \/ CreateDies \/ SpawnVmm)
  <2>1. UNCHANGED <<talk, vmm>>
    BY <1>3 DEF CreateStep, Start, EnsureUnique, Lock, ReuseOverlay, OpenOverlay,
                FormatOverlay, CreateFails
  <2> QED
    BY <2>1 DEF talk, TalkInv, RequestsBelong, AnswersBelong, AskedBySending,
                OkMeansDown, ForceFinishesHalf
<1> QED
  BY <1>1, <1>2, <1>3

Waiting == {"waitFirst", "waitSecond"}
NoRequest(c) == \A i \in DOMAIN inbox : inbox[i].from # c

(* A command that waits for nothing, or has its answer, has nothing sent.    *)
LEMMA QuietUnlessWaiting ==
  ASSUME Types, TalkInv, NEW c \in Cmd, cmd[c].pc \notin Waiting \/ reply[c] # None
  PROVE  NoRequest(c)
BY HypervisorAssumption DEF TalkInv, RequestsBelong, NoRequest, Waiting

LEMMA HeldRequests ==
  ASSUME Types, NEW i \in DOMAIN inbox
  PROVE  inbox[i] \in RequestRecord
BY ElementOfSeq, LenProperties DEF Types, Records

(* What is left in the inbox when a command no longer waits is others'.       *)
LEMMA HangUpKeepsRequests ==
  ASSUME Types, TalkInv, NEW c \in Cmd,
         HangUp(c) \/ (inbox' = inbox /\ NoRequest(c)),
         \A d \in Cmd \ {c} : cmd'[d] = cmd[d] /\ reply'[d] = reply[d]
  PROVE  RequestsBelong'
<1>1. /\ DOMAIN inbox' = DOMAIN inbox
      /\ \A i \in DOMAIN inbox :
           /\ inbox'[i].from # c
           /\ inbox'[i].from # None => inbox'[i] = inbox[i]
  BY HypervisorAssumption, HeldRequests DEF HangUp, NoRequest, RequestRecord
<1> SUFFICES ASSUME NEW i \in DOMAIN inbox, inbox'[i].from # None
             PROVE  /\ reply'[inbox'[i].from] = None
                    /\ \/ /\ cmd'[inbox'[i].from].pc = "waitFirst"
                          /\ inbox'[i].what = Request(cmd'[inbox'[i].from].picked, "first")
                       \/ /\ cmd'[inbox'[i].from].pc = "waitSecond"
                          /\ inbox'[i].what = Request(cmd'[inbox'[i].from].picked, "second")
                    /\ \A j \in DOMAIN inbox : inbox'[j].from = inbox'[i].from => j = i
  BY <1>1 DEF RequestsBelong
<1>2. inbox'[i] = inbox[i] /\ inbox[i].from \in Cmd \ {c}
  BY <1>1, HeldRequests DEF RequestRecord
<1>3. \A j \in DOMAIN inbox : inbox'[j].from = inbox'[i].from => inbox'[j] = inbox[j]
  BY <1>1, <1>2
<1> QED
  BY <1>2, <1>3 DEF TalkInv, RequestsBelong

(* A command fails: what it waited for, if anything, is nobody's now.         *)
LEMMA FailureKeepsTalk ==
  ASSUME Types, TalkInv, NEW c \in Cmd, NEW cause \in Cause, Fail(c, cause),
         UNCHANGED vmm,
         cmd[c].kind = "shutdown" /\ cmd[c].force => cause \in {"silent", "denied"},
         HangUp(c) \/ (inbox' = inbox /\ NoRequest(c)),
         reply'[c] = None, \A d \in Cmd \ {c} : reply'[d] = reply[d]
  PROVE  TalkInv'
<1>1. /\ cmd'[c].pc = "failed" /\ ~cmd'[c].asked
      /\ cmd'[c].kind = cmd[c].kind /\ cmd'[c].force = cmd[c].force
      /\ cmd'[c].cause = cause
      /\ \A d \in Cmd \ {c} : cmd'[d] = cmd[d]
  BY DEF Types, Records, CmdRecord, Fail, Ready
<1>2. RequestsBelong'
  BY <1>1, HangUpKeepsRequests
<1>3. AnswersBelong' /\ AskedBySending' /\ OkMeansDown' /\ ForceFinishesHalf'
  BY <1>1 DEF TalkInv, AnswersBelong, AskedBySending, OkMeansDown, ForceFinishesHalf
<1> QED
  BY <1>2, <1>3 DEF TalkInv

(* A command goes on without a request of its own.                           *)
LEMMA GotoKeepsTalk ==
  ASSUME Types, TalkInv, NEW c \in Cmd, NEW pc \in CmdPc, Goto(c, pc),
         UNCHANGED <<vmm, inbox>>, NoRequest(c),
         pc \notin Waiting \cup {"failed"},
         cmd[c].asked => pc \notin {"idle", "probe", "lock", "first"},
         cmd[c].asked /\ pc \in {"ok", "rmRuntime", "rmState"} => vmm.state = "quitting",
         reply'[c] = None, \A d \in Cmd \ {c} : reply'[d] = reply[d]
  PROVE  TalkInv'
<1>1. /\ cmd'[c].pc = pc /\ cmd'[c].asked = cmd[c].asked
      /\ \A d \in Cmd \ {c} : cmd'[d] = cmd[d]
  BY DEF Types, Records, CmdRecord, Goto
<1>2. RequestsBelong'
  <2>1. \A i \in DOMAIN inbox : inbox[i].from # None => inbox[i].from \in Cmd \ {c}
    BY HeldRequests DEF RequestRecord, NoRequest
  <2> QED
    BY <1>1, <2>1 DEF TalkInv, RequestsBelong
<1>3. AnswersBelong' /\ AskedBySending' /\ OkMeansDown' /\ ForceFinishesHalf'
  BY <1>1 DEF TalkInv, AnswersBelong, AskedBySending, OkMeansDown, ForceFinishesHalf, Waiting
<1> QED
  BY <1>2, <1>3 DEF TalkInv

(* A command sends the first or the second request and waits for its answer. *)
LEMMA SendKeepsTalk ==
  ASSUME Types, TalkInv, NEW c \in Cmd, NEW n, NEW wait, Send(c, n, wait),
         (n = "first" /\ wait = "waitFirst") \/ (n = "second" /\ wait = "waitSecond"),
         cmd[c].pc \notin Waiting,
         UNCHANGED <<vmm, reply>>
  PROVE  TalkInv'
<1> DEFINE new == [from |-> c, what |-> Request(cmd[c].picked, n)]
<1>1. /\ cmd'[c].pc = wait /\ cmd'[c].picked = cmd[c].picked
      /\ \A d \in Cmd \ {c} : cmd'[d] = cmd[d]
  BY DEF Types, Records, CmdRecord, Send
<1>2. NoRequest(c) /\ reply[c] = None
  BY QuietUnlessWaiting DEF TalkInv, AnswersBelong, Waiting
<1>3. /\ Len(inbox) \in Nat /\ DOMAIN inbox = 1 .. Len(inbox)
      /\ DOMAIN inbox' = 1 .. (Len(inbox) + 1)
      /\ inbox'[Len(inbox) + 1] = new
      /\ \A i \in DOMAIN inbox : inbox'[i] = inbox[i]
  BY LenProperties DEF Types, Records, Send
<1>4. RequestsBelong'
  <2>1. \A i \in DOMAIN inbox : inbox[i].from # None => inbox[i].from \in Cmd \ {c}
    BY <1>2, HeldRequests DEF RequestRecord, NoRequest
  <2>2. ASSUME NEW i \in DOMAIN inbox', inbox'[i].from # None
        PROVE  /\ reply'[inbox'[i].from] = None
               /\ \/ /\ cmd'[inbox'[i].from].pc = "waitFirst"
                     /\ inbox'[i].what = Request(cmd'[inbox'[i].from].picked, "first")
                  \/ /\ cmd'[inbox'[i].from].pc = "waitSecond"
                     /\ inbox'[i].what = Request(cmd'[inbox'[i].from].picked, "second")
               /\ \A j \in DOMAIN inbox' : inbox'[j].from = inbox'[i].from => j = i
    <3>1. CASE i = Len(inbox) + 1
      BY <1>1, <1>2, <1>3, <2>1, <2>2, <3>1 DEF NoRequest
    <3>2. CASE i \in DOMAIN inbox
      <4>1. inbox'[i] = inbox[i] /\ inbox[i].from \in Cmd \ {c}
        BY <1>3, <2>1, <2>2, <3>2
      <4>2. \A j \in DOMAIN inbox' : inbox'[j].from = inbox'[i].from => j \in DOMAIN inbox
        BY <1>3, <4>1
      <4> QED
        <5>1. /\ reply[inbox[i].from] = None
              /\ \/ /\ cmd[inbox[i].from].pc = "waitFirst"
                    /\ inbox[i].what = Request(cmd[inbox[i].from].picked, "first")
                 \/ /\ cmd[inbox[i].from].pc = "waitSecond"
                    /\ inbox[i].what = Request(cmd[inbox[i].from].picked, "second")
              /\ \A j \in DOMAIN inbox : inbox[j].from = inbox[i].from => j = i
          BY <1>3, <2>2, <3>2 DEF TalkInv, RequestsBelong
        <5>2. cmd'[inbox[i].from] = cmd[inbox[i].from]
          BY <1>1, <4>1
        <5>3. \A j \in DOMAIN inbox' : inbox'[j].from = inbox'[i].from => j = i
          BY <1>3, <4>1, <4>2, <5>1
        <5> QED
          BY <4>1, <5>1, <5>2, <5>3
    <3> QED
      BY <1>3, <3>1, <3>2
  <2> QED
    BY <2>2 DEF RequestsBelong
<1>5. AnswersBelong' /\ AskedBySending' /\ OkMeansDown' /\ ForceFinishesHalf'
  BY <1>1, <1>2 DEF TalkInv, AnswersBelong, AskedBySending, OkMeansDown, ForceFinishesHalf
<1> QED
  BY <1>4, <1>5 DEF TalkInv

LEMMA CmdStepKeepsTalk ==
  ASSUME Types, TalkInv, NEW c \in Cmd, CmdStep(c)
  PROVE  TalkInv'
<1>0. /\ reply \in [Cmd -> Reply]
      /\ cmd[c] \in CmdRecord
      /\ cmd[c].pc \in {"lock", "rmRuntime", "rmState"} => cmd[c].kind = "delete"
      /\ reply[c] # None => cmd[c].pc \in Waiting
      /\ cmd[c].pc \notin Waiting => NoRequest(c) /\ reply[c] = None
      /\ reply[c] # None => NoRequest(c)
      /\ cmd[c].asked => cmd[c].pc \notin {"idle", "probe", "lock", "first", "failed"}
  BY QuietUnlessWaiting
     DEF Types, TypeOK, Records, OnlyDelete, TalkInv, AnswersBelong, AskedBySending, Waiting
<1>1. CASE Probe(c)
  <2>1. /\ \E f \in Candidates :
             cmd' = [cmd EXCEPT ![c].picked = f,
                                ![c].pc = IF cmd[c].kind = "delete" THEN "lock" ELSE "first"]
        /\ UNCHANGED <<vmm, inbox, reply>> /\ cmd[c].pc = "probe"
    BY <1>1 DEF Probe
  <2>2. /\ \A d \in Cmd \ {c} : cmd'[d] = cmd[d]
        /\ cmd'[c].pc \in {"lock", "first"} /\ cmd'[c].asked = cmd[c].asked
    BY <1>0, <2>1 DEF Types, Records, CmdRecord
  <2>3. \A i \in DOMAIN inbox : inbox[i].from # None => inbox[i].from \in Cmd \ {c}
    BY <1>0, <2>1, HeldRequests DEF RequestRecord, NoRequest, Waiting
  <2>4. RequestsBelong'
    BY <2>1, <2>2, <2>3 DEF TalkInv, RequestsBelong
  <2> QED
    BY <1>0, <2>1, <2>2, <2>4, ZenonT(60)
       DEF TalkInv, AnswersBelong, AskedBySending, OkMeansDown, ForceFinishesHalf, Waiting
<1>2. CASE TryLock(c)
  <2>1. CASE Fail(c, "other")
    BY <1>0, <1>2, <2>1, FailureKeepsTalk DEF TryLock, Waiting
  <2>2. CASE Goto(c, "first")
    BY <1>0, <1>2, <2>2, GotoKeepsTalk DEF TryLock, CmdPc, Waiting
  <2> QED
    BY <1>2, <2>1, <2>2 DEF TryLock
<1>3. CASE SendFirst(c)
  <2>1. CASE Send(c, "first", "waitFirst")
    BY <1>3, <2>1, SendKeepsTalk DEF SendFirst, Waiting
  <2>2. CASE Goto(c, AfterShutdown(c)) /\ UNCHANGED inbox
    <3>1. AfterShutdown(c) \in {"rmRuntime", "ok"}
      BY DEF AfterShutdown
    <3> QED
      BY <1>0, <1>3, <2>2, <3>1, GotoKeepsTalk DEF SendFirst, CmdPc, Waiting
  <2> QED
    BY <1>3, <2>1, <2>2 DEF SendFirst
<1>4. CASE SendSecond(c)
  <2>1. CASE Send(c, "second", "waitSecond")
    BY <1>4, <2>1, SendKeepsTalk DEF SendSecond, Waiting
  <2>2. CASE Fail(c, "silent") /\ UNCHANGED inbox
    BY <1>0, <1>4, <2>2, FailureKeepsTalk DEF SendSecond, Waiting
  <2> QED
    BY <1>4, <2>1, <2>2 DEF SendSecond
<1>5. CASE TakeAnswer(c)
  <2>0. /\ reply'[c] = None /\ \A d \in Cmd \ {c} : reply'[d] = reply[d]
        /\ NoRequest(c) /\ UNCHANGED <<vmm, inbox>> /\ reply[c] # None
    BY <1>0, <1>5 DEF TakeAnswer
  <2>1. /\ reply[c] \in {"ok", "refused", "denied"}
        /\ reply[c] = "refused" => cmd[c].pc = "waitFirst" /\ cmd[c].picked = CH
        /\ reply[c] = "ok" /\ cmd[c].pc = "waitSecond" /\ cmd[c].asked =>
             vmm.state = "quitting"
    BY <1>0, <2>0 DEF TalkInv, AnswersBelong
  <2>2. CASE cmd[c].pc = "waitFirst" /\ Goto(c, AfterFirst(c))
    BY <2>0, <2>2, GotoKeepsTalk DEF AfterFirst, CmdPc, Waiting
  <2>3. CASE reply[c] # "ok" /\ Fail(c, reply[c]) /\ (reply[c] = "refused" => ~GoesOn(c))
    (* Only the guest's shutdown is "refused", and force goes on then.       *)
    <3>1. reply[c] \in Cause /\ (cmd[c].force => reply[c] # "refused")
      BY <2>1, <2>3 DEF GoesOn
    <3> QED
      BY <2>0, <2>1, <2>3, <3>1, FailureKeepsTalk
  <2>4. CASE cmd[c].pc = "waitSecond" /\ reply[c] = "ok" /\ Goto(c, AfterShutdown(c))
    <3>1. AfterShutdown(c) \in {"rmRuntime", "ok"}
      BY DEF AfterShutdown
    <3> QED
      BY <2>0, <2>1, <2>4, <3>1, GotoKeepsTalk DEF CmdPc, Waiting
  <2> QED
    BY <1>5, <2>1, <2>2, <2>3, <2>4 DEF TakeAnswer, GoesOn
<1>6. CASE GiveUp(c)
  BY <1>6, FailureKeepsTalk DEF GiveUp, Waits
<1>7. CASE ReadPiece(c)
  <2>1. CASE TooLong(c)
    BY <1>7, <2>1, FailureKeepsTalk DEF ReadPiece, Waits
  <2>2. CASE ~TooLong(c)
    <3>1. /\ cmd' = [cmd EXCEPT ![c].pieces = (@ + 1) % (MaxPieces + 1)]
          /\ UNCHANGED <<inbox, reply, vmm>>
      BY <1>7, <2>2 DEF ReadPiece
    <3>2. \A d \in Cmd :
            /\ cmd'[d].pc = cmd[d].pc /\ cmd'[d].picked = cmd[d].picked
            /\ cmd'[d].kind = cmd[d].kind /\ cmd'[d].force = cmd[d].force
            /\ cmd'[d].cause = cmd[d].cause /\ cmd'[d].asked = cmd[d].asked
      BY <3>1 DEF Types, Records, CmdRecord
    <3>3. \A i \in DOMAIN inbox : inbox[i].from # None => inbox[i].from \in Cmd
      BY HeldRequests DEF RequestRecord
    <3>4. RequestsBelong'
      BY <3>1, <3>2, <3>3 DEF TalkInv, RequestsBelong
    <3> QED
      BY <3>1, <3>2, <3>4
         DEF TalkInv, AnswersBelong, AskedBySending, OkMeansDown, ForceFinishesHalf
  <2> QED
    BY <2>1, <2>2
<1>8. CASE RemoveRuntimeDir(c) \/ RemoveStateDir(c)
  <2>1. cmd[c].asked => vmm.state = "quitting"
    BY <1>8 DEF RemoveRuntimeDir, RemoveStateDir, TalkInv, OkMeansDown
  <2>2. CASE RemoveRuntimeDir(c)
    BY <1>0, <2>1, <2>2, GotoKeepsTalk DEF RemoveRuntimeDir, CmdPc, Waiting
  <2>3. CASE RemoveStateDir(c)
    BY <1>0, <2>1, <2>3, GotoKeepsTalk DEF RemoveStateDir, CmdPc, Waiting
  <2> QED
    BY <1>8, <2>2, <2>3
<1>9. CASE RemoveFails(c)
  BY <1>0, <1>9, FailureKeepsTalk DEF RemoveFails, Waiting
<1> QED
  BY <1>1, <1>2, <1>3, <1>4, <1>5, <1>6, <1>7, <1>8, <1>9 DEF CmdStep

LEMMA BeginOrDeathKeepsTalk ==
  ASSUME Types, TalkInv, NEW c \in Cmd,
         CmdDies(c) \/ \E kind \in {"shutdown", "delete"}, force \in BOOLEAN : Begin(c, kind, force)
  PROVE  TalkInv'
<1> DEFINE Afresh ==
      /\ \E fresh \in CmdRecord : /\ fresh.pc \in {"idle", "probe"} /\ ~fresh.asked
                                  /\ cmd' = [cmd EXCEPT ![c] = fresh]
      /\ HangUp(c) \/ (inbox' = inbox /\ NoRequest(c))
      /\ reply'[c] = None /\ \A d \in Cmd \ {c} : reply'[d] = reply[d]
      /\ UNCHANGED vmm
<1>1. Afresh
  <2>1. CASE CmdDies(c)
    <3>1. Ready \in CmdRecord /\ Ready.pc = "idle" /\ ~Ready.asked
      BY DEF Ready, CmdRecord, CmdPc, Flavor
    <3> QED
      BY <2>1, <3>1 DEF CmdDies, Types, TypeOK
  <2>2. ASSUME NEW kind \in {"shutdown", "delete"}, NEW force \in BOOLEAN, Begin(c, kind, force)
        PROVE  Afresh
    <3>1. NoRequest(c) /\ reply[c] = None
      BY <2>2, QuietUnlessWaiting DEF Begin, Waiting, TalkInv, AnswersBelong
    <3> DEFINE fresh == [Ready EXCEPT !.pc = "probe", !.kind = kind, !.force = force]
    <3>2. fresh \in CmdRecord /\ fresh.pc = "probe" /\ ~fresh.asked
      BY DEF Ready, CmdRecord, CmdPc, Flavor
    <3>3. cmd' = [cmd EXCEPT ![c] = fresh]
      BY <2>2 DEF Begin
    <3> HIDE DEF fresh
    <3> QED
      BY <2>2, <3>1, <3>2, <3>3 DEF Begin
  <2> QED
    BY <2>1, <2>2
<1>2. /\ cmd'[c].pc \in {"idle", "probe"} /\ ~cmd'[c].asked
      /\ \A d \in Cmd \ {c} : cmd'[d] = cmd[d]
  BY <1>1 DEF Types, Records
<1>3. RequestsBelong'
  BY <1>1, <1>2, HangUpKeepsRequests
<1> QED
  BY <1>1, <1>2, <1>3
     DEF TalkInv, AnswersBelong, AskedBySending, OkMeansDown, ForceFinishesHalf

(* The VMM answers in the order of the requests.                             *)
LEMMA VmmStepKeepsTalk ==
  ASSUME Types, TalkInv, VmmStep
  PROVE  TalkInv'
<1>1. CASE VmmListens
  <2>1. CASE VmmGoes
    BY <1>1, <2>1, VmmGoesKeepsTalk DEF VmmListens
  <2>2. CASE ~VmmGoes
    <3>1. UNCHANGED <<cmd, inbox, reply>> /\ vmm.state = "spawned"
      BY <1>1, <2>2 DEF VmmListens
    <3> QED
      BY <3>1 DEF TalkInv, RequestsBelong, AnswersBelong, AskedBySending, OkMeansDown,
                  ForceFinishesHalf
  <2> QED
    BY <2>1, <2>2
<1>2. CASE VmmStarts \/ GuestWrites \/ GuestPowersOff
  <2>1. UNCHANGED <<cmd, inbox, reply>> /\ vmm.state # "quitting"
    BY <1>2 DEF VmmStarts, GuestWrites, GuestPowersOff, talk
  <2> QED
    BY <2>1 DEF TalkInv, RequestsBelong, AnswersBelong, AskedBySending, OkMeansDown,
                ForceFinishesHalf
<1>3. CASE VmmExits
  BY <1>3, VmmGoesKeepsTalk DEF VmmExits
<1>4. CASE VmmHandles
  <2> DEFINE r == Head(inbox)
  <2>1. /\ r = inbox[1] /\ 1 \in DOMAIN inbox /\ r \in RequestRecord
        /\ Len(inbox) \in Nat /\ DOMAIN inbox = 1 .. Len(inbox)
        /\ DOMAIN inbox' = 1 .. (Len(inbox) - 1)
        /\ \A i \in DOMAIN inbox' : i + 1 \in DOMAIN inbox /\ inbox'[i] = inbox[i + 1]
    BY <1>4, HeadTailProperties, LenProperties DEF VmmHandles, Types, Records
  <2>a. PICK answer \in Answers(r.what) :
          /\ vmm' = IF answer = "ok" THEN [vmm EXCEPT !.state = Handles(r.what)] ELSE vmm
          /\ reply' = IF r.from = None THEN reply ELSE [reply EXCEPT ![r.from] = answer]
    BY <1>4 DEF VmmHandles
  <2>2. /\ vmm.state # "quitting" /\ UNCHANGED cmd
        /\ answer = "ok" => vmm'.state = Handles(r.what)
        /\ \A d \in Cmd : d # r.from => reply'[d] = reply[d]
        /\ r.from # None => reply'[r.from] = answer
    <3>1. /\ vmm \in VmmRecord /\ reply \in [Cmd -> Reply]
          /\ r.from \in Cmd \cup {None}
      BY <2>1 DEF Types, TypeOK, Records, RequestRecord
    <3>2. vmm.state # "quitting" /\ UNCHANGED cmd
      BY <1>4 DEF VmmHandles
    <3> HIDE DEF r
    <3>3. answer = "ok" => vmm'.state = Handles(r.what)
      BY <3>1, <2>a DEF VmmRecord
    <3> QED
      BY <2>a, <3>1, <3>2, <3>3
  <2>3. \A i \in DOMAIN inbox' : inbox'[i].from # None =>
          inbox'[i].from \in Cmd /\ inbox'[i].from # r.from
    BY <2>1, HeldRequests DEF TalkInv, RequestsBelong, RequestRecord
  <2>4. RequestsBelong'
    BY <2>1, <2>2, <2>3 DEF TalkInv, RequestsBelong
  <2>5. ASSUME r.from # None
        PROVE  /\ r.from \in Cmd
               /\ \/ /\ cmd[r.from].pc = "waitFirst"
                     /\ r.what = Request(cmd[r.from].picked, "first")
                  \/ /\ cmd[r.from].pc = "waitSecond"
                     /\ r.what = Request(cmd[r.from].picked, "second")
    BY <2>1, <2>5 DEF TalkInv, RequestsBelong, RequestRecord
  <2>6. /\ \A f \in Flavor : /\ Request(f, "first") = "vm.shutdown" => f = CH
                           /\ Request(f, "second") \in {"vmm.shutdown", "quit"}
        /\ answer = "refused" => r.what = "vm.shutdown"
        /\ r.what \in {"vmm.shutdown", "quit"} => Handles(r.what) = "quitting"
    BY DEF Request, Answers, Handles, Flavor, CH, QEMU
  <2>7. AnswersBelong'
    <3> SUFFICES ASSUME NEW d \in Cmd, reply'[d] # None
                 PROVE  /\ cmd[d].pc \in {"waitFirst", "waitSecond"}
                        /\ reply'[d] = "refused" => cmd[d].pc = "waitFirst" /\ cmd[d].picked = CH
                        /\ reply'[d] = "ok" /\ cmd[d].pc = "waitSecond" /\ cmd[d].asked =>
                             vmm'.state = "quitting"
      BY <2>2 DEF AnswersBelong
    <3>1. CASE d = r.from
      <4>1. d # None /\ cmd[d].picked \in Flavor
        BY HypervisorAssumption DEF Types, Records, CmdRecord
      <4> QED
        BY <2>2, <2>5, <2>6, <3>1, <4>1
    <3>2. CASE d # r.from
      BY <2>2, <3>2 DEF TalkInv, AnswersBelong
    <3> QED
      BY <3>1, <3>2
  <2> QED
    BY <2>2, <2>4, <2>7 DEF TalkInv, AskedBySending, OkMeansDown, ForceFinishesHalf
<1> QED
  BY <1>1, <1>2, <1>3, <1>4 DEF VmmStep

LEMMA NextTalk == Types /\ TalkInv /\ [Next]_vars => TalkInv'
<1>1. TalkInv /\ UNCHANGED vars => TalkInv'
  BY DEF vars, TalkInv, RequestsBelong, AnswersBelong, AskedBySending, OkMeansDown,
         ForceFinishesHalf
<1> QED
  BY <1>1, CreateStepKeepsTalk, CmdStepKeepsTalk, BeginOrDeathKeepsTalk, VmmStepKeepsTalk DEF Next

-------------------------------------------------------------------------------
(* The properties                                                            *)

(* The three parts are kept by every step of the runs and of the VMM.        *)
THEOREM HypervisorInvariant == Spec => []HypervisorInv
<1>1. Init => HypervisorInv
  BY InitTypes, InitDisk, InitTalk DEF HypervisorInv
<1>2. HypervisorInv /\ [Next]_vars => HypervisorInv'
  BY NextTypes, NextDisk, NextTalk DEF HypervisorInv
<1> QED
  BY <1>1, <1>2, PTL DEF Spec

(* TypeOK of any number of commands and root images; the lock is for someone *)
(* who is at work (try_acquire and the drops of lock.rs).                    *)
THEOREM HypervisorTypes == Spec => []TypeOK
BY HypervisorInvariant, PTL DEF HypervisorInv, Types

(* GuestHasItsRoot: create_qcow2_overlay and the check of a reused overlay   *)
(* keep a guest of create_sandbox off every overlay that backs onto another  *)
(* root, also one that a create left half formatted.                         *)
THEOREM GuestsHaveTheirRoot == Spec => []GuestHasItsRoot
<1>1. HypervisorInv => GuestHasItsRoot
  BY DEF HypervisorInv, Disk
<1> QED
  BY <1>1, HypervisorInvariant, PTL

(* WritesAreKept: ensure_overlay_backs_onto_rootfs and create_open lose no   *)
(* write, wherever a create stops formatting.                                *)
THEOREM WritesSurvive == Spec => []WritesAreKept
<1>1. HypervisorInv => WritesAreKept
  BY DEF HypervisorInv, Disk, DiskInv, WritesAreKept
<1> QED
  BY <1>1, HypervisorInvariant, PTL

(* OkMeansDown: the shutdown of either flavour, with its requests, answers    *)
(* and timeouts, reports success only for the VMM it has asked.              *)
THEOREM SuccessMeansDown == Spec => []OkMeansDown
BY HypervisorInvariant, PTL DEF HypervisorInv, TalkInv

(* ForceFinishesHalf: a refusal of the guest's shutdown never fails a forced *)
(* one, for any number of commands at once; a refusal of the VMM's may.      *)
THEOREM ForceIsEnough == Spec => []ForceFinishesHalf
BY HypervisorInvariant, PTL DEF HypervisorInv, TalkInv

===============================================================================
