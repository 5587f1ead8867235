------------------------------- MODULE Process --------------------------------
(***************************************************************************)
(* One child process of blinools, from Process::new to Drop                *)
(* (src/sandbox/process/mod.rs).  The parent clones a child into new       *)
(* namespaces and the two talk over the pach, a socket pair: the child     *)
(* reports that it is isolated, the parent tells it to go on, the child    *)
(* runs the pre_exec hook and execs, which closes its end.  Every read has *)
(* a timeout, which may strike whenever the message has not arrived.       *)
(***************************************************************************)
EXTENDS Sequences

VARIABLES
  parent,    (* where the parent is                                         *)
  child,     (* where the child is, or how it ended                         *)
  toParent,  (* pach messages on their way to the parent                    *)
  toChild,   (* pach messages on their way to the child                     *)
  pachOpen,  (* the parent still has its end of the pach                    *)
  killWith,  (* kill_with_parent                                            *)
  deathSig,  (* the child has asked for SIGKILL when its parent dies        *)
  signals,   (* signals sent to the child that it has not acted on          *)
  owned,     (* the parent still has the pid, FALSE after disown            *)
  hook,      (* history: the outcome of the pre_exec hook                   *)
  continued, (* history: the parent has sent ContinueExec                   *)
  file       (* a file registered with remove_on_drop exists                *)

vars == <<parent, child, toParent, toChild, pachOpen, killWith, deathSig,
          signals, owned, hook, continued, file>>

ParentState ==
  {"new", "isolating", "reaping", "isolated", "continuing", "started", "failed",
   "dropping", "terminating", "killing", "removing", "dropped", "dead"}

ChildState ==
  {"none", "born", "setup", "waiting", "hook", "ready", "running",
   "escaped", "zombie", "reaped"}

Message == {"IsolationDone", "ContinueExec", "Failed"}

Living == ChildState \ {"none", "zombie", "reaped"}

(* The child's end of the pach is close-on-exec and dies with the child.     *)
ChildEndOpen == child \in Living \ {"running"}

Init ==
  /\ parent = "new"
  /\ child = "none"
  /\ toParent = <<>> /\ toChild = <<>>
  /\ pachOpen = FALSE
  /\ killWith \in BOOLEAN
  /\ deathSig = FALSE
  /\ signals = {}
  /\ owned = FALSE
  /\ hook = "none"
  /\ continued = FALSE
  /\ file = FALSE

childSide == <<child, hook, deathSig, toChild, signals, file, killWith>>
parentSide == <<parent, toParent, pachOpen, owned, continued, killWith>>

-------------------------------------------------------------------------------
(* The parent: isolate                                                       *)

(* socket pair and clone3; both drop the other's end.                        *)
Isolate ==
  /\ parent = "new"
  /\ parent' = "isolating"
  /\ child' = "born"
  /\ pachOpen' = TRUE
  /\ owned' = TRUE
  /\ UNCHANGED <<toParent, toChild, killWith, deathSig, signals, hook, continued, file>>

CloneFails ==
  /\ parent = "new"
  /\ parent' = "failed"
  /\ UNCHANGED <<toParent, pachOpen, owned, continued, childSide>>

Report == toParent # <<>>
Eof == toParent = <<>> /\ ~ChildEndOpen
TimesOut == toParent = <<>> /\ ChildEndOpen

(* recv in isolate: the child reports, or its Failed is the error ...        *)
IsolateReport ==
  /\ parent = "isolating"
  /\ Report
  /\ toParent' = Tail(toParent)
  /\ parent' = IF Head(toParent) = "IsolationDone" THEN "isolated" ELSE "failed"
  /\ UNCHANGED <<pachOpen, owned, continued, childSide>>

AfterSilence == "failed"

(* ... or it does not report in time, which is an error ...                  *)
IsolateTimesOut ==
  /\ parent = "isolating"
  /\ TimesOut
  /\ parent' = AfterSilence
  /\ UNCHANGED <<toParent, pachOpen, owned, continued, childSide>>

(* ... or the pach is at its end, and child_failure waits for the child.     *)
IsolateEof ==
  /\ parent = "isolating"
  /\ Eof
  /\ parent' = "reaping"
  /\ UNCHANGED <<toParent, pachOpen, owned, continued, childSide>>

(* wait in child_failure: the status, or WAIT_TIMEOUT; an error either way.  *)
WaitForFailed ==
  /\ parent = "reaping"
  /\ child' = IF child = "zombie" THEN "reaped" ELSE child
  /\ parent' = "failed"
  /\ UNCHANGED <<toParent, toChild, pachOpen, killWith, deathSig, signals, owned,
                 hook, continued, file>>

-------------------------------------------------------------------------------
(* The parent: exec                                                          *)

(* takes the pach and sends ContinueExec; EPIPE when the child is gone.      *)
Exec ==
  /\ parent = "isolated"
  /\ IF ChildEndOpen
       THEN /\ toChild' = Append(toChild, "ContinueExec")
            /\ parent' = "continuing"
            /\ continued' = TRUE
            /\ UNCHANGED pachOpen
       ELSE /\ parent' = "failed"
            /\ pachOpen' = FALSE
            /\ UNCHANGED <<toChild, continued>>
  /\ UNCHANGED <<child, toParent, killWith, deathSig, signals, owned, hook, file>>

(* recv in exec: only a Failed that has arrived is an error.  The end of the *)
(* pach is how a successful exec shows, but a timeout counts the same.       *)
ExecResult ==
  /\ parent = "continuing"
  /\ parent' = IF Report /\ Head(toParent) = "Failed" THEN "failed" ELSE "started"
  /\ toParent' = IF Report THEN Tail(toParent) ELSE toParent
  /\ pachOpen' = FALSE
  /\ UNCHANGED <<owned, continued, childSide>>

(* try_wait, from wait or wait_until: reaps a child that has exited.         *)
TryWait ==
  /\ parent = "started" /\ owned
  /\ child = "zombie"
  /\ child' = "reaped"
  /\ UNCHANGED <<hook, deathSig, toChild, signals, file, parentSide>>

(* disown: forgets the pid and the files.                                    *)
Disown ==
  /\ parent = "started"
  /\ owned /\ ~killWith
  /\ owned' = FALSE
  /\ UNCHANGED <<parent, toParent, pachOpen, continued, childSide>>

-------------------------------------------------------------------------------
(* The parent: Drop                                                          *)

KillsWhateverPid == owned         \* mutated form: no try_wait before the kill
StillRunning == owned /\ child \in Living

BeginDrop ==
  /\ parent \in {"isolated", "started", "failed"}
  /\ parent' = "dropping"
  /\ UNCHANGED <<toParent, pachOpen, owned, continued, childSide>>

(* try_wait reaps a child that has exited; one that runs gets SIGTERM.       *)
DropTerminates ==
  /\ parent = "dropping"
  /\ IF StillRunning
       THEN /\ signals' = signals \cup {"term"}
            /\ parent' = "terminating"
            /\ UNCHANGED child
       ELSE /\ child' = IF owned /\ child = "zombie" THEN "reaped" ELSE child
            /\ parent' = "removing"
            /\ UNCHANGED signals
  /\ UNCHANGED <<toParent, toChild, pachOpen, killWith, deathSig, owned, hook,
                 continued, file>>

(* The polls of the two waiting loops.                                       *)
DropReaps ==
  /\ parent \in {"terminating", "killing"}
  /\ child = "zombie"
  /\ child' = "reaped"
  /\ parent' = "removing"
  /\ UNCHANGED <<toParent, toChild, pachOpen, killWith, deathSig, signals, owned,
                 hook, continued, file>>

NoSignal == {}                    \* mutated form: SIGTERM only
LastSignal == {"kill"}

(* PROCESS_TERMINATE_TIMEOUT has passed: SIGKILL, if it still runs.          *)
DropKills ==
  /\ parent = "terminating"
  /\ child \in Living
  /\ signals' = signals \cup LastSignal
  /\ parent' = "killing"
  /\ UNCHANGED <<child, toParent, toChild, pachOpen, killWith, deathSig, owned,
                 hook, continued, file>>

(* wait after SIGKILL times out: logged, and the drop goes on.               *)
DropGivesUp ==
  /\ parent = "killing"
  /\ child \in Living
  /\ parent' = "removing"
  /\ UNCHANGED <<toParent, pachOpen, owned, continued, childSide>>

(* remove_file for every file, which disown has cleared; then the fields go. *)
DropRemovesFiles ==
  /\ parent = "removing"
  /\ file' = (file /\ ~owned)
  /\ pachOpen' = FALSE
  /\ parent' = "dropped"
  /\ UNCHANGED <<child, toParent, toChild, killWith, deathSig, signals, owned, hook,
                 continued>>

(* The run ends, at whatever point: the kernel closes the pach and sends the *)
(* child the death signal it asked for.                                      *)
ParentDies ==
  /\ parent \notin {"new", "dead"}
  /\ parent' = "dead"
  /\ pachOpen' = FALSE
  /\ signals' = IF deathSig /\ child \in Living THEN signals \cup {"kill"} ELSE signals
  /\ UNCHANGED <<child, toParent, toChild, killWith, deathSig, owned, hook,
                 continued, file>>

-------------------------------------------------------------------------------
(* The child                                                                 *)

Runs == "kill" \notin signals

(* An Err out of child(): Failed is sent, then _exit(127).  When the parent  *)
(* has closed its end the send fails: SIGPIPE, which the child has reset to  *)
(* its default, ends it if the write raises one, and otherwise the `?` takes *)
(* the child out of isolate into the parent's code.                          *)
ChildFails ==
  IF pachOpen THEN toParent' = Append(toParent, "Failed") /\ child' = "zombie"
              ELSE UNCHANGED toParent /\ child' \in {"zombie", "escaped"}

NeverDeathSig == FALSE            \* mutated form: no prctl
DeathSigAsked == killWith

(* PR_SET_PDEATHSIG, unless the process is meant to outlive the parent.      *)
ArmDeathSig ==
  /\ child = "born" /\ Runs
  /\ deathSig' = DeathSigAsked
  /\ child' = "setup"
  /\ UNCHANGED <<toParent, toChild, pachOpen, killWith, signals, owned, hook,
                 continued, file, parent>>

(* Namespaces, mounts or their files could not be set up.                    *)
SetupFails ==
  /\ child \in {"born", "setup"} /\ Runs
  /\ ChildFails
  /\ UNCHANGED <<parent, toChild, pachOpen, killWith, deathSig, signals, owned,
                 hook, continued, file>>

(* IsolationDone, when the namespaces stand.                                 *)
ReportIsolated ==
  /\ child = "setup" /\ Runs
  /\ IF pachOpen THEN toParent' = Append(toParent, "IsolationDone") /\ child' = "waiting"
                 ELSE ChildFails
  /\ UNCHANGED <<parent, toChild, pachOpen, killWith, deathSig, signals, owned,
                 hook, continued, file>>

(* recv: ContinueExec.                                                       *)
GoOn ==
  /\ child = "waiting" /\ Runs
  /\ toChild # <<>>
  /\ toChild' = Tail(toChild)
  /\ child' = "hook"
  /\ UNCHANGED <<hook, deathSig, signals, file, parentSide>>

EarlyExit == "zombie"

(* recv: the end of the pach, or the timeout; early_exit.                    *)
GiveUp ==
  /\ child = "waiting" /\ Runs
  /\ toChild = <<>>
  /\ child' = EarlyExit
  /\ UNCHANGED <<hook, deathSig, toChild, signals, file, parentSide>>

HookSucceeds ==
  /\ child = "hook" /\ Runs
  /\ hook' = "ok"
  /\ child' = "ready"
  /\ UNCHANGED <<deathSig, toChild, signals, file, parentSide>>

HookErrorIgnored == child' = "ready" /\ UNCHANGED toParent  \* mutated form
HookError == ChildFails

HookFails ==
  /\ child = "hook" /\ Runs
  /\ hook' = "failed"
  /\ HookError
  /\ UNCHANGED <<parent, toChild, pachOpen, killWith, deathSig, signals, owned,
                 continued, file>>

ExecSucceeds ==
  /\ child = "ready" /\ Runs
  /\ child' = "running"
  /\ UNCHANGED <<hook, deathSig, toChild, signals, file, parentSide>>

(* dup2, an argument or execvp itself fails.                                 *)
ExecFails ==
  /\ child = "ready" /\ Runs
  /\ ChildFails
  /\ UNCHANGED <<parent, toChild, pachOpen, killWith, deathSig, signals, owned,
                 hook, continued, file>>

(* The program makes the file, a socket or a pid file, it was started for.   *)
MakeFile ==
  /\ child = "running" /\ Runs
  /\ file' = TRUE
  /\ UNCHANGED <<child, hook, deathSig, toChild, signals, parentSide>>

(* The child exits or is killed by someone else; an escaped one unwinds.     *)
ChildExits ==
  /\ child \in Living
  /\ child' = "zombie"
  /\ UNCHANGED <<hook, deathSig, toChild, signals, file, parentSide>>

(* SIGTERM: acted on, or without effect on an init of a PID namespace.       *)
TakeSigterm ==
  /\ child \in Living /\ Runs
  /\ "term" \in signals
  /\ signals' = signals \ {"term"}
  /\ child' \in {child, "zombie"}
  /\ UNCHANGED <<hook, deathSig, toChild, file, parentSide>>

TakeSigkill ==
  /\ child \in Living
  /\ "kill" \in signals
  /\ child' = "zombie"
  /\ UNCHANGED <<hook, deathSig, toChild, signals, file, parentSide>>

ParentStep ==
  \/ Isolate \/ CloneFails \/ IsolateReport \/ IsolateTimesOut \/ IsolateEof
  \/ WaitForFailed \/ Exec \/ ExecResult \/ TryWait \/ Disown
  \/ BeginDrop \/ DropTerminates \/ DropReaps \/ DropKills \/ DropGivesUp
  \/ DropRemovesFiles \/ ParentDies

ChildStep ==
  \/ ArmDeathSig \/ SetupFails \/ ReportIsolated \/ GoOn \/ GiveUp
  \/ HookSucceeds \/ HookFails \/ ExecSucceeds \/ ExecFails \/ MakeFile
  \/ ChildExits \/ TakeSigterm \/ TakeSigkill

Next == ParentStep \/ ChildStep

Spec == Init /\ [][Next]_vars

(* The child is scheduled: it goes on as far as it can by itself, its hook   *)
(* comes to an end, and a SIGKILL is acted on.  Nothing obliges a program to *)
(* exit, a parent to do anything, or a timeout to strike.                    *)
Fairness ==
  /\ WF_vars(ArmDeathSig) /\ WF_vars(ReportIsolated) /\ WF_vars(GoOn \/ GiveUp)
  /\ WF_vars(HookSucceeds \/ HookFails) /\ WF_vars(ExecSucceeds \/ ExecFails)
  /\ WF_vars(TakeSigkill)
  /\ WF_vars(child = "escaped" /\ ChildExits)

FairSpec == Spec /\ Fairness

-------------------------------------------------------------------------------
(* Every variable has its type; the death signal is only ever asked for by a *)
(* child that is to die with its parent.                                     *)
TypeOK ==
  /\ parent \in ParentState
  /\ child \in ChildState
  /\ toParent \in Seq(Message) /\ toChild \in Seq(Message)
  /\ pachOpen \in BOOLEAN /\ killWith \in BOOLEAN /\ deathSig \in BOOLEAN
  /\ signals \subseteq {"term", "kill"}
  /\ owned \in BOOLEAN /\ continued \in BOOLEAN /\ file \in BOOLEAN
  /\ hook \in {"none", "ok", "failed"}
  /\ deathSig => killWith

(* isolate's promise, "fork and create namespaces but don't exec yet": until *)
(* the parent has called exec the child does not get past its namespaces,    *)
(* whatever times out or dies (an_isolated_process_waits_for_exec).          *)
WaitsForExec == child \in {"hook", "ready", "running"} => continued

(* The program never runs when its pre_exec hook failed: passt without its   *)
(* firewall, virtiofsd without its read-only mounts.                         *)
NeverRunsWithoutHook == child = "running" => hook = "ok"

(* When isolate has returned Ok the namespaces stand, so that pasta can join *)
(* them before the child goes on.                                            *)
IsolatedMeansIsolated ==
  parent \in {"isolated", "continuing"} => child \notin {"none", "born", "setup"}

(* Drop signals a pid only while it is its own: a child that was reaped, by  *)
(* wait, by try_wait or by drop itself, may have left its pid to a stranger. *)
SignalsOnlyOwnChild ==
  [][~(signals' \subseteq signals) => child \notin {"none", "reaped"}]_vars

(* A drop of a process that was not disowned leaves neither a child, unless  *)
(* one that SIGKILL is about to end, nor the files registered with it.       *)
DropLeavesNothing ==
  parent = "dropped" /\ owned =>
    (child \in {"none", "reaped"} \/ "kill" \in signals) /\ ~file

(* A disowned process outlives its parent: no signal of the parent, nor its  *)
(* death, ever reaches the child (a_disowned_process_survives_drop).         *)
DisownedIsLeftAlone == child # "none" /\ ~owned => signals = {}

(* "When the parent dies then we should make sure that the child is          *)
(* terminated as well": also when it dies before the child has asked for the *)
(* death signal.                                                             *)
DiesWithParent == (parent = "dead" /\ killWith) ~> (child \notin Living)

(* What the test a_failing_pre_exec_hook_fails_spawn says of spawn: a hook   *)
(* that fails makes it fail.                                                 *)
FailingHookFailsSpawn == hook = "failed" => parent # "started"
===============================================================================
