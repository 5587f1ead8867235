---------------------------- MODULE Process_proofs ----------------------------
(***************************************************************************)
(* The safety properties of Process, over behaviours of any length.  Each  *)
(* has its own strengthening, kept as a named conjunct of ProcessInv.      *)
(***************************************************************************)
EXTENDS Process, SequenceTheorems, TLAPS

(* The parent has let the child go on before ContinueExec is under way.       *)
ContinueWasSent ==
  /\ toChild # <<>> => continued
  /\ WaitsForExec

(* A child that has not got past its namespaces has told the parent nothing.  *)
SilentUntilIsolated ==
  /\ child \in {"none", "born", "setup"} => toParent = <<>>
  /\ IsolatedMeansIsolated

(* The program, and what comes right before it, has its hook behind it.       *)
HookDone == child \in {"ready", "running"} => hook = "ok"

(* No signal before drop; a process drop works on was not disowned; only one  *)
(* that is to outlive its parent can be.                                      *)
BeforeDrop == {"new", "isolating", "reaping", "isolated", "continuing", "started", "failed"}

DropDecides ==
  /\ child # "none" /\ ~owned => ~killWith
  /\ deathSig => killWith
  /\ parent \in BeforeDrop \cup {"dropping"} => signals = {}
  /\ parent = "new" => child = "none"
  /\ parent \in {"terminating", "killing"} => owned
  /\ DisownedIsLeftAlone

(* Once drop has stopped polling, the child it owns has ended or is about to. *)
EndedByDrop ==
  /\ parent = "killing" => "kill" \in signals
  /\ parent \in {"removing", "dropped"} /\ owned =>
       child \in {"none", "reaped"} \/ "kill" \in signals
  /\ parent = "dropped" /\ owned => ~file

ProcessInv ==
  /\ TypeOK
  /\ ContinueWasSent
  /\ SilentUntilIsolated
  /\ HookDone
  /\ DropDecides
  /\ EndedByDrop

-------------------------------------------------------------------------------
(* The pach carries messages and nothing else.                                *)
LEMMA PachHasType ==
  /\ <<>> \in Seq(Message)
  /\ \A s \in Seq(Message) : \A m \in Message :
       Append(s, m) \in Seq(Message) /\ Append(s, m) # <<>>
  /\ \A s \in Seq(Message) : s # <<>> => Tail(s) \in Seq(Message)
<1>1. \A s \in Seq(Message) : \A m \in Message :
        Append(s, m) \in Seq(Message) /\ Append(s, m) # <<>>
  BY AppendProperties
<1>2. \A s \in Seq(Message) : s # <<>> => Tail(s) \in Seq(Message)
  BY HeadTailProperties
<1> QED
  BY <1>1, <1>2, EmptySeq

LEMMA ProcessInitInv == Init => ProcessInv
<1> SUFFICES ASSUME Init PROVE ProcessInv
  OBVIOUS
<1>1. TypeOK
  BY PachHasType DEF Init, TypeOK, ParentState, ChildState
<1>2. ContinueWasSent /\ SilentUntilIsolated /\ HookDone
  BY DEF Init, ContinueWasSent, WaitsForExec, SilentUntilIsolated,
         IsolatedMeansIsolated, HookDone
<1>3. DropDecides /\ EndedByDrop
  BY DEF Init, DropDecides, BeforeDrop, DisownedIsLeftAlone, EndedByDrop
<1> QED
  BY <1>1, <1>2, <1>3 DEF ProcessInv

(* isolate and exec: what the parent sends, and what it makes of an answer.   *)
LEMMA SpawnKeepsInv ==
  ASSUME ProcessInv,
         \/ Isolate \/ CloneFails \/ IsolateReport \/ IsolateTimesOut \/ IsolateEof
         \/ WaitForFailed \/ Exec \/ ExecResult
  PROVE  ProcessInv'
<1> USE DEF ProcessInv, TypeOK, ParentState, ChildState, Message, childSide
<1> USE DEF ContinueWasSent, WaitsForExec, SilentUntilIsolated, IsolatedMeansIsolated
<1> USE DEF HookDone, DropDecides, BeforeDrop, DisownedIsLeftAlone, EndedByDrop
<1>1. CASE Isolate
  BY <1>1 DEF Isolate
<1>2. CASE CloneFails
  BY <1>2 DEF CloneFails
<1>3. CASE IsolateReport
  BY <1>3 DEF IsolateReport, Report
<1>4. CASE IsolateTimesOut
  BY <1>4 DEF IsolateTimesOut, AfterSilence
<1>5. CASE IsolateEof
  BY <1>5 DEF IsolateEof
<1>6. CASE WaitForFailed
  BY <1>6 DEF WaitForFailed
<1>7. CASE Exec
  <2>1. TypeOK'
    BY <1>7, PachHasType DEF Exec
  <2>2. ContinueWasSent' /\ SilentUntilIsolated' /\ HookDone'
    BY <1>7 DEF Exec
  <2>3. DropDecides' /\ EndedByDrop'
    BY <1>7 DEF Exec
  <2> QED
    BY <2>1, <2>2, <2>3
<1>8. CASE ExecResult
  <2>1. TypeOK'
    BY <1>8, PachHasType DEF ExecResult, Report
  <2>2. ContinueWasSent' /\ SilentUntilIsolated' /\ HookDone'
    BY <1>8 DEF ExecResult, Report
  <2>3. DropDecides' /\ EndedByDrop'
    BY <1>8 DEF ExecResult, Report
  <2> QED
    BY <2>1, <2>2, <2>3
<1> QED
  BY <1>1, <1>2, <1>3, <1>4, <1>5, <1>6, <1>7, <1>8

(* wait, disown, drop and the parent's death.                                 *)
LEMMA DropKeepsInv ==
  ASSUME ProcessInv,
         \/ TryWait \/ Disown \/ BeginDrop \/ DropTerminates \/ DropReaps
         \/ DropKills \/ DropGivesUp \/ DropRemovesFiles \/ ParentDies
  PROVE  ProcessInv'
<1> USE DEF ProcessInv, TypeOK, ParentState, ChildState, Living, childSide, parentSide
<1> USE DEF ContinueWasSent, WaitsForExec, SilentUntilIsolated, IsolatedMeansIsolated
<1> USE DEF HookDone, DropDecides, BeforeDrop, DisownedIsLeftAlone, EndedByDrop
<1>1. CASE TryWait
  BY <1>1 DEF TryWait
<1>2. CASE Disown
  BY <1>2 DEF Disown
<1>3. CASE BeginDrop
  BY <1>3 DEF BeginDrop
<1>4. CASE DropTerminates
  BY <1>4, ZenonT(60) DEF DropTerminates, StillRunning
<1>5. CASE DropReaps
  BY <1>5 DEF DropReaps
<1>6. CASE DropKills
  BY <1>6 DEF DropKills, LastSignal
<1>7. CASE DropGivesUp
  BY <1>7 DEF DropGivesUp
<1>8. CASE DropRemovesFiles
  BY <1>8, ZenonT(60) DEF DropRemovesFiles
<1>9. CASE ParentDies
  BY <1>9, ZenonT(60) DEF ParentDies
<1> QED
  BY <1>1, <1>2, <1>3, <1>4, <1>5, <1>6, <1>7, <1>8, <1>9

(* The child up to its exec.                                                  *)
LEMMA SetupKeepsInv ==
  ASSUME ProcessInv,
         \/ ArmDeathSig \/ SetupFails \/ ReportIsolated \/ GoOn \/ GiveUp
         \/ HookSucceeds \/ HookFails \/ ExecSucceeds \/ ExecFails
  PROVE  ProcessInv'
<1> USE DEF ProcessInv, TypeOK, ParentState, ChildState, Message, ChildFails, parentSide
<1> USE DEF ContinueWasSent, WaitsForExec, SilentUntilIsolated, IsolatedMeansIsolated
<1> USE DEF HookDone, DropDecides, BeforeDrop, DisownedIsLeftAlone, EndedByDrop
<1>1. CASE ArmDeathSig
  BY <1>1 DEF ArmDeathSig, DeathSigAsked
<1>2. CASE SetupFails
  BY <1>2 DEF SetupFails
<1>3. CASE ReportIsolated
  <2>1. TypeOK'
    BY <1>3, PachHasType, ZenonT(60) DEF ReportIsolated
  <2>2. ContinueWasSent' /\ SilentUntilIsolated' /\ HookDone'
    BY <1>3 DEF ReportIsolated
  <2>3. DropDecides' /\ EndedByDrop'
    BY <1>3 DEF ReportIsolated
  <2> QED
    BY <2>1, <2>2, <2>3
<1>4. CASE GoOn
  BY <1>4 DEF GoOn
<1>5. CASE GiveUp
  BY <1>5 DEF GiveUp, EarlyExit
<1>6. CASE HookSucceeds
  BY <1>6 DEF HookSucceeds
<1>7. CASE HookFails
  <2>1. TypeOK'
    BY <1>7, PachHasType DEF HookFails, HookError
  <2>2. ContinueWasSent' /\ SilentUntilIsolated' /\ HookDone'
    BY <1>7 DEF HookFails, HookError
  <2>3. DropDecides' /\ EndedByDrop'
    BY <1>7 DEF HookFails, HookError
  <2> QED
    BY <2>1, <2>2, <2>3
<1>8. CASE ExecSucceeds
  BY <1>8 DEF ExecSucceeds
<1>9. CASE ExecFails
  BY <1>9, SMTT(60) DEF ExecFails
<1> QED
  BY <1>1, <1>2, <1>3, <1>4, <1>5, <1>6, <1>7, <1>8, <1>9

(* The program, its end, and signals.                                         *)
LEMMA ProgramKeepsInv ==
  ASSUME ProcessInv, MakeFile \/ ChildExits \/ TakeSigterm \/ TakeSigkill
  PROVE  ProcessInv'
<1> USE DEF ProcessInv, TypeOK, ParentState, ChildState, Living, Runs, parentSide
<1> USE DEF ContinueWasSent, WaitsForExec, SilentUntilIsolated, IsolatedMeansIsolated
<1> USE DEF HookDone, DropDecides, BeforeDrop, DisownedIsLeftAlone, EndedByDrop
<1>1. CASE MakeFile
  BY <1>1 DEF MakeFile
<1>2. CASE ChildExits
  BY <1>2 DEF ChildExits
<1>3. CASE TakeSigterm
  BY <1>3 DEF TakeSigterm
<1>4. CASE TakeSigkill
  BY <1>4 DEF TakeSigkill
<1> QED
  BY <1>1, <1>2, <1>3, <1>4

LEMMA ProcessNextInv == ProcessInv /\ [Next]_vars => ProcessInv'
<1> SUFFICES ASSUME ProcessInv, [Next]_vars PROVE ProcessInv'
  OBVIOUS
<1>1. CASE UNCHANGED vars
  BY <1>1 DEF vars, ProcessInv, TypeOK, ContinueWasSent, WaitsForExec,
              SilentUntilIsolated, IsolatedMeansIsolated, HookDone, DropDecides,
              DisownedIsLeftAlone, EndedByDrop
<1>2. CASE ParentStep
  BY <1>2, SpawnKeepsInv, DropKeepsInv DEF ParentStep
<1>3. CASE ChildStep
  BY <1>3, SetupKeepsInv, ProgramKeepsInv DEF ChildStep
<1> QED
  BY <1>1, <1>2, <1>3 DEF Next

LEMMA ProcessInvariant == Spec => []ProcessInv
BY ProcessInitInv, ProcessNextInv, PTL DEF Spec

-------------------------------------------------------------------------------
(* Type correctness.                                                         *)
THEOREM ProcessTypeCorrect == Spec => []TypeOK
<1>1. ProcessInv => TypeOK
  BY DEF ProcessInv
<1> QED
  BY <1>1, ProcessInvariant, PTL

(* A child never gets past its namespaces before the parent calls exec, and   *)
(* the parent never believes in namespaces that do not stand yet.             *)
THEOREM ExecIsAwaited == Spec => [](WaitsForExec /\ IsolatedMeansIsolated)
<1>1. ProcessInv => WaitsForExec /\ IsolatedMeansIsolated
  BY DEF ProcessInv, ContinueWasSent, SilentUntilIsolated
<1> QED
  BY <1>1, ProcessInvariant, PTL

(* No program runs without its pre_exec hook having succeeded.                *)
THEOREM HookIsEnforced == Spec => []NeverRunsWithoutHook
<1>1. ProcessInv => NeverRunsWithoutHook
  BY DEF ProcessInv, HookDone, NeverRunsWithoutHook
<1> QED
  BY <1>1, ProcessInvariant, PTL

(* Drop leaves neither the child it owns nor its files; a disowned child is   *)
(* never sent a signal.                                                       *)
THEOREM DropIsClean == Spec => [](DropLeavesNothing /\ DisownedIsLeftAlone)
<1>1. ProcessInv => DropLeavesNothing /\ DisownedIsLeftAlone
  BY DEF ProcessInv, EndedByDrop, DropDecides, DropLeavesNothing
<1> QED
  BY <1>1, ProcessInvariant, PTL

(* Drop, and the death of the parent, signal a child only while it has not   *)
(* been reaped: its pid cannot have become a stranger's.                     *)
THEOREM NoStrangerIsSignalled == Spec => SignalsOnlyOwnChild
<1>1. ProcessInv /\ [Next]_vars
        => [~(signals' \subseteq signals) => child \notin {"none", "reaped"}]_vars
  <2> SUFFICES ASSUME ProcessInv, Next, ~(signals' \subseteq signals)
               PROVE  child \notin {"none", "reaped"}
    BY DEF vars
  <2>1. CASE ChildStep
    <3>1. signals' \subseteq signals
      BY <2>1 DEF ChildStep, ArmDeathSig, SetupFails, ReportIsolated, GoOn, GiveUp,
                  HookSucceeds, HookFails, ExecSucceeds, ExecFails, MakeFile, ChildExits,
                  TakeSigterm, TakeSigkill
    <3> QED
      BY <3>1
  <2>2. CASE DropTerminates \/ DropKills \/ ParentDies
    <3>1. child \in Living
      BY <2>2 DEF DropTerminates, StillRunning, DropKills, ParentDies
    <3> QED
      BY <3>1 DEF Living
  <2>3. CASE ParentStep /\ ~(DropTerminates \/ DropKills \/ ParentDies)
    <3>1. signals' = signals
      BY <2>3 DEF ParentStep, Isolate, CloneFails, IsolateReport, IsolateTimesOut, IsolateEof,
                  WaitForFailed, Exec, ExecResult, TryWait, Disown, BeginDrop, DropReaps,
                  DropGivesUp, DropRemovesFiles, childSide
    <3> QED
      BY <3>1
  <2> QED
    BY <2>1, <2>2, <2>3 DEF Next
<1> QED
  BY <1>1, ProcessInvariant, PTL DEF Spec, SignalsOnlyOwnChild
===============================================================================
