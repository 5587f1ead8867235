----------------------------- MODULE Shares_proofs -----------------------------
(***************************************************************************)
(* The safety properties of Shares for any number of runs that attach and  *)
(* detach a share one after the other, with the guest, the VMM and every   *)
(* virtiofsd moving in between, whether or not create has configured a     *)
(* share of the name.  SharesInv is their inductive strengthening: where   *)
(* the virtiofsd of a run can be by the step that run is at, and which of  *)
(* the pid file, the device and the run at work knows of it.               *)
(***************************************************************************)
EXTENDS Shares, TLAPS

(* Create's own virtiofsd is connected at once, and a device needs a VMM.    *)
BootIsServed ==
  /\ daemon[Boot] \in {"none", "serving", "gone"}
  /\ ~vmm => device = None

(* There is one run at work, if any, and whoever has attached has ended.     *)
OneAtATime ==
  /\ \A p, q \in Client : pc[p] # "idle" /\ pc[q] # "idle" => p = q
  /\ \A p \in attached : pc[p] = "idle"

(* A virtiofsd that nobody has connected to is waited for; one that the VMM  *)
(* has connected to is served until its run has failed, and a run that adds  *)
(* a share adds its own virtiofsd.                                           *)
DaemonsFollowRuns ==
  /\ \A p \in Client : daemon[p] \in {"started", "listening"} => pc[p] \in {"wait", "api", "fail"}
  /\ \A p \in Client : device = p =>
       pc[p] \in {"idle", "disown", "fail"} /\ daemon[p] \in {"serving", "gone"}
  /\ \A p \in Client : pc[p] = "disown" =>
       /\ daemon[p] \in {"serving", "gone"}
       /\ device \in {p, None, Boot}
       /\ device = p /\ ~leaving => daemon[p] = "serving"

(* Once its run has ended, the pid file knows the virtiofsd that the device  *)
(* is connected to, unless it could not be written; what stop_share is about *)
(* to kill is what the file names.                                           *)
PidFileKnowsDevice ==
  /\ \A p \in Client : device = p /\ daemon[p] # "gone" /\ pc[p] = "idle" =>
       pidFile = p \/ p \in unwritten
  /\ \A p \in Client : pc[p] = "kill" => victim[p] = pidFile

(* stop_share runs only when the VMM has told the device to go.              *)
DeviceGoesFirst ==
  \A p \in Client : pc[p] \in {"readPid", "kill", "rmSocket", "rmPid"} =>
    leaving \/ device \in {None, Boot}

Served == \A p \in attached : device = p /\ ~leaving => daemon[p] = "serving"
Ended ==
  \A p \in Client : pc[p] \in {"rmSocket", "rmPid"} /\ device \in Client \ unwritten =>
    daemon[device] = "gone"

WhileUndisturbed ==
  OneAtATime /\ DaemonsFollowRuns /\ PidFileKnowsDevice /\ DeviceGoesFirst /\ Served /\ Ended

SharesInv == TypeOK /\ BootIsServed /\ (Undisturbed => WhileUndisturbed)

-------------------------------------------------------------------------------
(* Types                                                                     *)

LEMMA InitInv == Init => SharesInv
BY SharesAssumption
   DEF Init, SharesInv, TypeOK, Pc, DaemonState, Daemon, BootIsServed, Undisturbed,
       WhileUndisturbed, OneAtATime, DaemonsFollowRuns, PidFileKnowsDevice,
       DeviceGoesFirst, Served, Ended

LEMMA RunKeepsTypes ==
  ASSUME TypeOK, NEW p \in Client, Start(p) \/ Crash(p) \/ AttachStep(p) \/ DetachStep(p)
  PROVE  TypeOK'
<1> USE SharesAssumption
    DEF TypeOK, Pc, DaemonState, Daemon, Goto, Settle, vmmVars, historyVars
<1>1. CASE Start(p)
  BY <1>1 DEF Start, Outdated, Alive
<1>2. CASE Crash(p)
  BY <1>2 DEF Crash
<1>3. CASE AttachCheck(p)
  BY <1>3 DEF AttachCheck
<1>4. CASE CheckExists(p)
  BY <1>4 DEF CheckExists
<1>5. CASE Spawn(p)
  BY <1>5 DEF Spawn
<1>6. CASE SpawnFails(p)
  BY <1>6 DEF SpawnFails
<1>7. CASE SocketAppears(p)
  BY <1>7 DEF SocketAppears
<1>8. CASE WaitFails(p)
  BY <1>8 DEF WaitFails
<1>9. CASE AddFs(p)
  BY <1>9 DEF AddFs, Reachable
<1>10. CASE AddFsRefused(p)
  BY <1>10 DEF AddFsRefused
<1>11. CASE Disown(p)
  BY <1>11 DEF Disown, PidFileOf
<1>12. CASE DropMount(p)
  BY <1>12 DEF DropMount, DaemonAfterDrop
<1>13. CASE DetachCheck(p)
  BY <1>13 DEF DetachCheck
<1>14. CASE RemoveDevice(p)
  BY <1>14 DEF RemoveDevice
<1>15. CASE RemoveRefused(p)
  BY <1>15 DEF RemoveRefused, AfterRefusal
<1>16. CASE ReadPid(p)
  BY <1>16 DEF ReadPid, NamesVirtiofsd, Alive
<1>17. CASE Kill(p)
  BY <1>17 DEF Kill
<1>18. CASE RemoveSocket(p)
  BY <1>18 DEF RemoveSocket, SocketAfterDetach
<1>19. CASE RemovePidFile(p)
  BY <1>19 DEF RemovePidFile
<1> QED
  BY <1>1, <1>2, <1>3, <1>4, <1>5, <1>6, <1>7, <1>8, <1>9, <1>10,
     <1>11, <1>12, <1>13, <1>14, <1>15, <1>16, <1>17, <1>18, <1>19 DEF AttachStep, DetachStep

LEMMA OutsideKeepsTypes ==
  ASSUME TypeOK, Outside
  PROVE  TypeOK'
<1> USE SharesAssumption
    DEF TypeOK, DaemonState, Daemon, Settle, vmmVars, historyVars
<1>1. ASSUME NEW d \in Daemon, Listens(d)
      PROVE  TypeOK'
  BY <1>1 DEF Listens
<1>2. ASSUME NEW d \in Daemon, Exits(d)
      PROVE  TypeOK'
  BY <1>2 DEF Exits
<1>3. CASE GuestEjects
  BY <1>3 DEF GuestEjects
<1>4. CASE VmmBoots
  BY <1>4 DEF VmmBoots
<1>5. CASE VmmEnds
  BY <1>5 DEF VmmEnds
<1> QED
  BY <1>1, <1>2, <1>3, <1>4, <1>5 DEF Outside

LEMMA NextTypes == TypeOK /\ [Next]_vars => TypeOK'
<1>1. TypeOK /\ UNCHANGED vars => TypeOK'
  BY DEF TypeOK, vars, vmmVars, historyVars
<1> QED
  BY <1>1, RunKeepsTypes, OutsideKeepsTypes DEF Next

-------------------------------------------------------------------------------
(* Create's own virtiofsd                                                    *)

(* Neither the runs of attach-share and detach-share nor anything around them *)
(* makes create's virtiofsd wait for a connection.                           *)
LEMMA NextBoot == TypeOK /\ BootIsServed /\ [Next]_vars => BootIsServed'
<1> SUFFICES ASSUME TypeOK, BootIsServed, [Next]_vars PROVE BootIsServed'
  OBVIOUS
<1> USE SharesAssumption DEF TypeOK, BootIsServed, Daemon, Settle, vmmVars
<1>1. ASSUME NEW p \in Client, AttachStep(p)
      PROVE  BootIsServed'
  BY <1>1 DEF AttachStep, AttachCheck, CheckExists, Spawn, SpawnFails, SocketAppears, WaitFails,
              AddFs, Reachable, AddFsRefused, Disown, DropMount, DaemonAfterDrop
<1>2. ASSUME NEW p \in Client, DetachStep(p)
      PROVE  BootIsServed'
  BY <1>2 DEF DetachStep, DetachCheck, RemoveDevice, RemoveRefused, ReadPid, Kill, RemoveSocket,
              RemovePidFile
<1>3. ASSUME NEW p \in Client, Start(p) \/ Crash(p)
      PROVE  BootIsServed'
  BY <1>3 DEF Start, Crash
<1>4. CASE Outside
  BY <1>4 DEF Outside, Listens, Exits, GuestEjects, VmmBoots, VmmEnds
<1>5. CASE UNCHANGED vars
  BY <1>5 DEF vars
<1> QED
  BY <1>1, <1>2, <1>3, <1>4, <1>5 DEF Next

-------------------------------------------------------------------------------
(* Runs that follow each other                                               *)

(* A run starts when nobody is at work, or the runs overlap from here on.     *)
LEMMA StartKeepsOrder ==
  ASSUME SharesInv, NEW p \in Client, Start(p), Undisturbed'
  PROVE  WhileUndisturbed'
<1>1. Undisturbed /\ \A q \in Client : pc[q] = "idle"
  BY DEF Start, Undisturbed
<1>2. TypeOK /\ BootIsServed /\ WhileUndisturbed
  BY <1>1 DEF SharesInv
<1> USE SharesAssumption, <1>1, <1>2
    DEF TypeOK, BootIsServed, WhileUndisturbed, Daemon, Start, Goto, Settle, Outdated, vmmVars
<1>3. OneAtATime'
  BY DEF OneAtATime
<1>4. DaemonsFollowRuns'
  BY DEF DaemonsFollowRuns
<1>5. PidFileKnowsDevice'
  BY DEF PidFileKnowsDevice
<1>6. DeviceGoesFirst' /\ Served' /\ Ended'
  BY DEF DeviceGoesFirst, Served, Ended
<1> QED
  BY <1>3, <1>4, <1>5, <1>6

LEMMA StepKeepsOrder ==
  ASSUME SharesInv, NEW p \in Client, AttachStep(p) \/ DetachStep(p), Undisturbed'
  PROVE  WhileUndisturbed'
<1>1. Undisturbed /\ pc[p] # "idle"
  BY DEF Undisturbed, historyVars, AttachStep, AttachCheck, CheckExists, Spawn, SpawnFails,
         SocketAppears, WaitFails, AddFs, AddFsRefused, Disown, DropMount, DetachStep,
         DetachCheck, RemoveDevice, RemoveRefused, ReadPid, Kill, RemoveSocket, RemovePidFile
<1>2. /\ TypeOK /\ BootIsServed /\ WhileUndisturbed
      /\ \A q \in Client : q # p => pc[q] = "idle"
      /\ p \notin attached
  BY <1>1 DEF SharesInv, WhileUndisturbed, OneAtATime
<1> USE SharesAssumption, <1>1, <1>2
    DEF TypeOK, BootIsServed, WhileUndisturbed, OneAtATime, DaemonsFollowRuns,
        PidFileKnowsDevice, DeviceGoesFirst, Served, Ended, Daemon, Goto, Settle, vmmVars, historyVars
<1>3. CASE AttachCheck(p)
  BY <1>3 DEF AttachCheck
<1>4. CASE CheckExists(p)
  BY <1>4 DEF CheckExists
<1>5. CASE Spawn(p)
  BY <1>5 DEF Spawn
<1>6. CASE SpawnFails(p)
  BY <1>6 DEF SpawnFails
<1>7. CASE SocketAppears(p)
  BY <1>7 DEF SocketAppears
<1>8. CASE WaitFails(p)
  BY <1>8 DEF WaitFails
<1>9. CASE AddFs(p)
  BY <1>9 DEF AddFs, Reachable
<1>10. CASE AddFsRefused(p)
  BY <1>10 DEF AddFsRefused
<1>11. CASE Disown(p)
  BY <1>11 DEF Disown, PidFileOf
<1>12. CASE DropMount(p)
  BY <1>12 DEF DropMount, DaemonAfterDrop
<1>13. CASE DetachCheck(p)
  BY <1>13 DEF DetachCheck
<1>14. CASE RemoveDevice(p)
  BY <1>14 DEF RemoveDevice
<1>15. CASE RemoveRefused(p)
  BY <1>15 DEF RemoveRefused, AfterRefusal
<1>16. CASE ReadPid(p)
  BY <1>16 DEF ReadPid, NamesVirtiofsd, Alive
<1>17. CASE Kill(p)
  BY <1>17 DEF Kill
<1>18. CASE RemoveSocket(p)
  BY <1>18 DEF RemoveSocket, SocketAfterDetach
<1>19. CASE RemovePidFile(p)
  BY <1>19 DEF RemovePidFile
<1> QED
  BY <1>3, <1>4, <1>5, <1>6, <1>7, <1>8, <1>9, <1>10, <1>11, <1>12,
     <1>13, <1>14, <1>15, <1>16, <1>17, <1>18, <1>19 DEF AttachStep, DetachStep

LEMMA OutsideKeepsOrder ==
  ASSUME SharesInv, Outside, Undisturbed'
  PROVE  WhileUndisturbed'
<1>1. Undisturbed /\ TypeOK /\ BootIsServed /\ WhileUndisturbed
  BY DEF SharesInv, Undisturbed, historyVars, Outside, Listens, Exits, GuestEjects, VmmBoots, VmmEnds
<1> USE SharesAssumption, <1>1
    DEF TypeOK, BootIsServed, WhileUndisturbed, OneAtATime, DaemonsFollowRuns,
        PidFileKnowsDevice, DeviceGoesFirst, Served, Ended, Daemon, Settle, vmmVars, historyVars
<1>2. ASSUME NEW d \in Daemon, Listens(d)
      PROVE  WhileUndisturbed'
  BY <1>2 DEF Listens
<1>3. ASSUME NEW d \in Daemon, Exits(d)
      PROVE  WhileUndisturbed'
  BY <1>3 DEF Exits
<1>4. CASE GuestEjects
  BY <1>4 DEF GuestEjects
<1>5. CASE VmmBoots
  BY <1>5 DEF VmmBoots, Alive
<1>6. CASE VmmEnds
  BY <1>6 DEF VmmEnds
<1> QED
  BY <1>2, <1>3, <1>4, <1>5, <1>6 DEF Outside

-------------------------------------------------------------------------------
(* The properties                                                            *)

(* The strengthening is kept by every step of the runs and around them.       *)
THEOREM SharesInvariant == Spec => []SharesInv
<1>1. SharesInv /\ [Next]_vars => SharesInv'
  <2> SUFFICES ASSUME SharesInv, [Next]_vars PROVE SharesInv'
    OBVIOUS
  <2>1. TypeOK' /\ BootIsServed'
    BY NextTypes, NextBoot DEF SharesInv
  <2>2. ASSUME Undisturbed' PROVE WhileUndisturbed'
    <3>1. CASE UNCHANGED vars
      BY <2>2, <3>1 DEF SharesInv, vars, vmmVars, historyVars, Undisturbed, WhileUndisturbed,
                 OneAtATime, DaemonsFollowRuns, PidFileKnowsDevice, DeviceGoesFirst, Served, Ended
    <3>2. ASSUME NEW p \in Client PROVE ~Crash(p)
      BY <2>2 DEF Crash, Undisturbed
    <3> QED
      BY <2>2, <3>1, <3>2, StartKeepsOrder, StepKeepsOrder, OutsideKeepsOrder DEF Next
  <2> QED
    BY <2>1, <2>2 DEF SharesInv
<1> QED
  BY <1>1, InitInv, PTL DEF Spec

(* TypeOK: in particular stop_share has a virtiofsd in mind exactly between   *)
(* reading the pid file and the kill, for any number of runs at once.        *)
THEOREM SharesTypes == Spec => []TypeOK
BY SharesInvariant, PTL DEF SharesInv

(* AttachedIsServed: no later attach_share or detach_share of the name takes *)
(* the virtiofsd of an attached share away, as long as one run follows the   *)
(* other.                                                                    *)
THEOREM AttachedStaysServed == Spec => []AttachedIsServed
<1>1. SharesInv => AttachedIsServed
  BY DEF SharesInv, WhileUndisturbed, Served, AttachedIsServed
<1> QED
  BY <1>1, SharesInvariant, PTL

(* NoOrphan: whatever step attach_share fails at, and whether or not the VMM *)
(* has answered, no virtiofsd waits for a connection that nobody will make.  *)
THEOREM NoVirtiofsdIsOrphaned == Spec => []NoOrphan
<1>1. SharesInv => NoOrphan
  BY DEF SharesInv, WhileUndisturbed, DaemonsFollowRuns, NoOrphan
<1> QED
  BY <1>1, SharesInvariant, PTL

(* DetachEndsAccess: what detach_share has unplugged is no longer served     *)
(* once it has stopped the virtiofsd, if attach_share had added it and its   *)
(* pid file was written.                                                     *)
THEOREM DetachedIsNotServed == Spec => []DetachEndsAccess
<1>1. SharesInv => DetachEndsAccess
  BY DEF SharesInv, WhileUndisturbed, Ended, DetachEndsAccess
<1> QED
  BY <1>1, SharesInvariant, PTL

===============================================================================
