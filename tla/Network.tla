------------------------------- MODULE Network --------------------------------
(***************************************************************************)
(* The network of a sandbox (src/sandbox/network/mod.rs, passt.rs and      *)
(* pasta.rs): passt is cloned into its namespaces and held back, pasta     *)
(* joins them from the host and configures them, passt installs the        *)
(* firewall there and execs, and only then does it serve the guest.  The   *)
(* run sees pasta's progress through a pid file and passt's through a      *)
(* socket.  Module Process has the protocol between a run and one child in *)
(* detail; here it is what the two helpers make of it together, over runs  *)
(* of one sandbox name that follow each other and may crash.               *)
(***************************************************************************)

VARIABLES
  pc,         (* where network::create, or the network's owner, is          *)
  mode,       (* NetworkMode of this run                                    *)
  passt,      (* the passt process                                          *)
  pasta,      (* the pasta process                                          *)
  failed,     (* passt's Failed message has reached the pach                *)
  pidFile,    (* pasta.pid exists                                           *)
  socket,     (* passt.sock exists                                          *)
  configured, (* passt's network namespace was configured by pasta          *)
  firewall,   (* the ruleset is installed in that namespace                 *)
  crashed     (* history: some run of the name has died                     *)

vars == <<pc, mode, passt, pasta, failed, pidFile, socket, configured, firewall, crashed>>
world == <<mode, configured, firewall, crashed>>

Step == {"idle", "passt", "pasta", "waitPid", "exec", "execResult", "waitSocket",
         "up", "drop", "crashed"}

PasstState == {"none", "isolated", "hook", "running", "listening", "gone"}
PastaState == {"none", "started", "attached", "gone"}

Init ==
  /\ pc = "idle"
  /\ mode = "Restricted"
  /\ passt = "none" /\ pasta = "none"
  /\ failed = FALSE
  /\ pidFile = FALSE /\ socket = FALSE
  /\ configured = FALSE /\ firewall = FALSE
  /\ crashed = FALSE

-------------------------------------------------------------------------------
(* network::create                                                           *)

(* A run of the name gets here; its namespaces are new, its files may not be.*)
Begin ==
  /\ pc = "idle"
  /\ pc' = "passt"
  /\ mode' \in {"Restricted", "Unrestricted"}
  /\ configured' = FALSE /\ firewall' = FALSE /\ failed' = FALSE
  /\ UNCHANGED <<passt, pasta, pidFile, socket, crashed>>

(* Passt::new: remove_stale_socket and isolate, which may fail.              *)
NewPasst ==
  /\ pc = "passt"
  /\ socket' = FALSE
  /\ \/ passt' = "isolated" /\ pc' = "pasta"
     \/ passt' = "gone" /\ pc' = "drop"
  /\ UNCHANGED <<pasta, failed, pidFile, world>>

ExecsAtOnce == "exec"            \* mutated form: does not wait for pasta
AfterPastaSpawn == "waitPid"

(* Pasta::new: spawn.  The pid file is only registered for removal on drop.  *)
NewPasta ==
  /\ pc = "pasta"
  /\ \/ pasta' = "started" /\ pc' = AfterPastaSpawn
     \/ pasta' = "gone" /\ pc' = "drop"
  /\ UNCHANGED <<passt, failed, pidFile, socket, world>>

Goto(label) ==
  pc' = label /\ UNCHANGED <<passt, pasta, failed, pidFile, socket, world>>

(* wait_for_pid_file: the file exists, pasta has exited, or time is up.      *)
PidFileAppears == pc = "waitPid" /\ pidFile /\ Goto("exec")
PastaHasExited == pc = "waitPid" /\ pasta = "gone" /\ Goto("drop")

WaitsForever == FALSE            \* mutated form: no deadline
DeadlinePasses == TRUE

PidFileTimesOut == pc = "waitPid" /\ DeadlinePasses /\ Goto("drop")

(* exec, first half: ContinueExec, to which a passt that is gone is EPIPE.   *)
SendContinue ==
  /\ pc = "exec"
  /\ IF passt = "isolated" THEN passt' = "hook" /\ pc' = "execResult"
                           ELSE pc' = "drop" /\ UNCHANGED passt
  /\ UNCHANGED <<pasta, failed, pidFile, socket, world>>

AfterExec == "waitSocket"

(* ... second half: only a Failed that has arrived within 5 s is an error.   *)
ExecReturns ==
  /\ pc = "execResult"
  /\ Goto(IF failed THEN "drop" ELSE AfterExec)

(* wait_for_socket: a connect succeeds, passt has exited, or time is up.     *)
SocketConnects == pc = "waitSocket" /\ socket /\ passt = "listening" /\ Goto("up")
PasstHasExited == pc = "waitSocket" /\ passt = "gone" /\ Goto("drop")
SocketTimesOut == pc = "waitSocket" /\ DeadlinePasses /\ Goto("drop")

(* The sandbox is done with its network.                                     *)
Finish == pc = "up" /\ Goto("drop")

(* Drop of the two processes, in either order (an error and a return differ):*)
(* each is stopped and reaped and then its files are removed.                *)
DropPasst ==
  /\ pc = "drop" /\ passt # "none"
  /\ passt' = "none"
  /\ socket' = FALSE
  /\ UNCHANGED <<pc, pasta, failed, pidFile, world>>

KeepsPidFile == pidFile          \* mutated form: no remove_on_drop
PidFileAfterDrop == FALSE

DropPasta ==
  /\ pc = "drop" /\ pasta # "none"
  /\ pasta' = "none"
  /\ pidFile' = PidFileAfterDrop
  /\ UNCHANGED <<pc, passt, failed, socket, world>>

BothDropped == passt = "none" /\ pasta = "none"

DropDone == pc = "drop" /\ BothDropped /\ Goto("idle")

-------------------------------------------------------------------------------
(* The two helpers                                                           *)

(* passt is held back for 5 s at most.                                       *)
PasstGivesUp ==
  /\ passt = "isolated"
  /\ passt' = "gone"
  /\ UNCHANGED <<pc, pasta, failed, pidFile, socket, world>>

(* firewall::install is the pre_exec hook of a restricted network.           *)
HookAndExec ==
  /\ passt = "hook"
  /\ passt' = "running"
  /\ firewall' = (mode = "Restricted")
  /\ UNCHANGED <<pc, mode, pasta, failed, pidFile, socket, configured, crashed>>

(* The hook, if there is one, or the exec fails.                             *)
HookOrExecFails ==
  /\ passt = "hook"
  /\ passt' = "gone"
  /\ failed' = TRUE
  /\ firewall' \in {FALSE, mode = "Restricted"}
  /\ UNCHANGED <<pc, mode, pasta, pidFile, socket, configured, crashed>>

PasstListens ==
  /\ passt = "running"
  /\ passt' = "listening"
  /\ socket' = TRUE
  /\ UNCHANGED <<pc, pasta, failed, pidFile, world>>

PasstExits ==
  /\ passt \in {"running", "listening"}
  /\ passt' = "gone"
  /\ UNCHANGED <<pc, pasta, failed, pidFile, socket, world>>

(* pasta joins the namespaces of a passt that is still there, configures     *)
(* them and writes its pid file.                                             *)
PastaAttaches ==
  /\ pasta = "started" /\ passt \notin {"none", "gone"}
  /\ pasta' = "attached"
  /\ configured' = TRUE
  /\ pidFile' = TRUE
  /\ UNCHANGED <<pc, mode, passt, failed, socket, firewall, crashed>>

PastaExits ==
  /\ pasta \in {"started", "attached"}
  /\ pasta' = "gone"
  /\ UNCHANGED <<pc, passt, failed, pidFile, socket, world>>

(* The run dies; its helpers are killed with it and their files stay.        *)
Crash ==
  /\ pc \notin {"idle", "crashed"}
  /\ pc' = "crashed"
  /\ crashed' = TRUE
  /\ UNCHANGED <<mode, passt, pasta, failed, pidFile, socket, configured, firewall>>

KilledWithParent ==
  /\ pc = "crashed"
  /\ passt' = "none" /\ pasta' = "none"
  /\ pc' = "idle"
  /\ UNCHANGED <<failed, pidFile, socket, world>>

RunStep ==
  \/ NewPasst \/ NewPasta \/ PidFileAppears \/ PastaHasExited \/ PidFileTimesOut
  \/ SendContinue \/ ExecReturns \/ SocketConnects \/ PasstHasExited
  \/ SocketTimesOut \/ DropPasst \/ DropPasta \/ DropDone

HelperStep ==
  \/ PasstGivesUp \/ HookAndExec \/ HookOrExecFails \/ PasstListens \/ PasstExits
  \/ PastaAttaches \/ PastaExits

Next == Begin \/ RunStep \/ Finish \/ HelperStep \/ Crash \/ KilledWithParent

Spec == Init /\ [][Next]_vars

(* The run is scheduled, its deadlines pass, and the kernel kills a dead     *)
(* run's helpers.  The helpers owe nobody anything.                          *)
FairSpec == Spec /\ WF_vars(RunStep) /\ WF_vars(KilledWithParent)

-------------------------------------------------------------------------------
(* Every variable has its type, and what exists belongs to somebody: passt's *)
(* socket appears only after passt, helpers only within a run.               *)
TypeOK ==
  /\ pc \in Step
  /\ mode \in {"Restricted", "Unrestricted"}
  /\ passt \in PasstState /\ pasta \in PastaState
  /\ failed \in BOOLEAN /\ pidFile \in BOOLEAN /\ socket \in BOOLEAN
  /\ configured \in BOOLEAN /\ firewall \in BOOLEAN /\ crashed \in BOOLEAN
  /\ pc \in {"idle", "passt"} => passt = "none" /\ pasta = "none"
  /\ pc \in {"exec", "execResult", "waitSocket", "up"} => pasta # "none"

(* A restricted network that create has returned has its firewall, although  *)
(* exec takes a hook that is still at work, resolving names for instance,    *)
(* for one that has succeeded.                                               *)
UpIsFiltered == pc = "up" /\ mode = "Restricted" => firewall

(* docs/sandbox_architecture.md: the table is installed "after pasta         *)
(* configures networking and before passt executes".  As long as no crashed  *)
(* run has left a pid file, passt goes on only in a configured namespace.    *)
PastaFirstUnlessStale ==
  ~crashed => (passt \in {"hook", "running", "listening"} => configured)

(* "On normal shutdown, helpers cleanup removes sockets and the PID file",   *)
(* and however create fails the two helpers and their files go as well.      *)
LeavesNothing ==
  pc = "idle" /\ ~crashed => ~pidFile /\ ~socket /\ passt = "none" /\ pasta = "none"

(* create returns, a network or an error, whatever the helpers do.           *)
CreateSettles == (pc = "passt") ~> (pc \in {"up", "idle"})

(* The sentence about the firewall as it stands.                             *)
FirewallAfterPasta == firewall => configured
===============================================================================
