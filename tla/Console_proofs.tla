---------------------------- MODULE Console_proofs ----------------------------
(***************************************************************************)
(* The safety properties of Console for every limit, buffer, capacity and  *)
(* growth of the filter, and for behaviours of any length.                 *)
(***************************************************************************)
EXTENDS Console, AnsiFilter, SequenceTheorems, FiniteSetTheorems, TLAPS

Forwarding == {"top", "poll", "stdin", "masterWrite", "masterRead", "stdout"}
SettingUp == {"install", "rawMode", "nonBlock"}

(* Handlers are in place before a mode is changed, and every mode is restored *)
(* before they are taken away.                                                *)
RestoresInOrder ==
  /\ pc \in {"rawMode", "nonBlock"} => masked
  /\ pc \in {"unraw", "unmask"} => ~nonBlocking
  /\ pc = "unmask" => ~raw
  /\ ModesOnlyWhileMasked

(* What ppoll is asked for is what the queues have room and bytes for.        *)
AsksForWork ==
  pc = "poll" =>
    /\ events.stdin => toGuest < Limit
    /\ events.masterIn <=> ~guestGone /\ toMaster < Limit
    /\ toGuest > 0 => events.masterOut
    /\ events.stdout <=> toMaster > 0
    /\ guestGone => toMaster > 0

(* A source ppoll has answered for may be read without passing the limit by   *)
(* more than a buffer, save for a pty whose guest is gone.                    *)
ReadsWithinLimit ==
  /\ pc = "stdin" /\ revents.stdin => toGuest < Limit
  /\ pc \in {"stdin", "masterWrite", "masterRead"} /\ revents.masterIn =>
       toMaster < Limit \/ ~slaveOpen

(* The loop takes the guest for gone only when it has closed the pty, and has *)
(* then read all of it or was told by the refusal of input; the loop's result *)
(* stands from the moment it leaves.                                          *)
GoneMeansClosed ==
  /\ guestGone => ~slaveOpen /\ (ptyOut = 0 \/ rejected)
  /\ exit = "GuestGone" => guestGone
  /\ pc \in Forwarding \cup SettingUp => exit = "none"
  /\ NothingLeftUnlessRejected

(* TypeOK by kind of variable: flags, counts, and the rest.                   *)
FlagsOK ==
  /\ stdinOpen \in BOOLEAN /\ guestGone \in BOOLEAN /\ slaveOpen \in BOOLEAN
  /\ hangup \in BOOLEAN /\ terminated \in BOOLEAN /\ resized \in BOOLEAN
  /\ masked \in BOOLEAN /\ raw \in BOOLEAN /\ nonBlocking \in BOOLEAN
  /\ rejected \in BOOLEAN

CountsOK ==
  /\ toMaster \in Nat /\ toGuest \in Nat /\ typed \in Nat
  /\ ptyOut \in 0 .. PtyCap /\ ptyIn \in 0 .. PtyCap /\ room \in 0 .. Room
  /\ written \in 0 .. MaxOutput /\ input \in 0 .. MaxInput
  /\ consumed \in Nat /\ produced \in Nat /\ shown \in Nat

StatesOK ==
  /\ pc \in Step /\ exit \in {"none", "GuestGone", "Terminated", "Error", "killed"}
  /\ events \in Events /\ revents \in Events
  /\ pending \subseteq Signal
  /\ hostSize \in {0, 1} /\ ptySize \in {0, 1}

ConsoleInv ==
  /\ FlagsOK /\ CountsOK /\ StatesOK
  /\ OutputConserved /\ QueuesBounded
  /\ RestoresInOrder /\ AsksForWork /\ ReadsWithinLimit /\ GoneMeansClosed

-------------------------------------------------------------------------------
(* The lower of two counts.                                                   *)
LEMMA LowerBounds ==
  ASSUME NEW a \in Nat, NEW b \in Nat
  PROVE  Lower(a, b) \in Nat /\ Lower(a, b) <= a /\ Lower(a, b) <= b
BY DEF Lower

(* The filter makes at most Growth bytes of each byte.                        *)
LEMMA GrowthIsMonotone ==
  ASSUME NEW g \in Nat, NEW a \in Nat, NEW b \in Nat, a <= b
  PROVE  /\ g * a \in Nat /\ g * b \in Nat
         /\ g * a <= g * b /\ g * (b - a) = g * b - g * a
<1>1. PICK d \in Nat : b = a + d
  BY b - a \in Nat
<1>2. g * b = g * a + g * d /\ g * a \in Nat /\ g * d \in Nat
  BY <1>1
<1> QED
  BY <1>1, <1>2

(* A record of four answers is a set of events.                               *)
LEMMA EventsAre ==
  ASSUME NEW a \in BOOLEAN, NEW b \in BOOLEAN, NEW c \in BOOLEAN, NEW d \in BOOLEAN
  PROVE [stdin |-> a, masterIn |-> b, masterOut |-> c, stdout |-> d] \in Events
BY DEF Events

(* So is the record of none.                                                  *)
LEMMA NothingIsEvents == Nothing \in Events
BY Zenon DEF Nothing, Events

(* ppoll answers with events, each of them asked for -- or the hangup.        *)
LEMMA AnswersAre ==
  ASSUME NEW a \in Answers
  PROVE  /\ a \in Events
         /\ a.stdin => events.stdin
         /\ a.masterIn => events.masterIn \/ ~slaveOpen
<1> DEFINE in == events.stdin /\ (typed > 0 \/ hangup)
           show == events.stdout /\ room > 0
<1>1. PICK out \in BOOLEAN :
        a = [stdin |-> in, masterIn |-> HupOrInput, masterOut |-> out, stdout |-> show]
  <2>1. PICK out \in IF ~events.masterOut THEN {FALSE}
                     ELSE IF slaveOpen THEN {ptyIn < PtyCap} ELSE BOOLEAN :
        a = [stdin |-> in, masterIn |-> HupOrInput, masterOut |-> out, stdout |-> show]
    BY DEF Answers
  <2>2. (ptyIn < PtyCap) \in BOOLEAN
    OBVIOUS
  <2>3. out \in BOOLEAN
    BY Zenon, <2>1, <2>2
  <2> QED
    BY <2>1, <2>3
<1>2. in \in BOOLEAN /\ show \in BOOLEAN /\ HupOrInput \in BOOLEAN
  BY Zenon DEF HupOrInput
<1>3. /\ in => events.stdin
      /\ HupOrInput => events.masterIn \/ ~slaveOpen
  BY DEF HupOrInput
<1> HIDE DEF in, show
<1>4. a \in Events
  BY <1>1, <1>2, EventsAre
<1>5. a.stdin = in /\ a.masterIn = HupOrInput
  BY <1>1
<1> QED
  BY <1>3, <1>4, <1>5

-------------------------------------------------------------------------------
(* The three parts are the type invariant. *)
LEMMA TypeParts == FlagsOK /\ CountsOK /\ StatesOK <=> TypeOK
BY Zenon DEF TypeOK, FlagsOK, CountsOK, StatesOK

(* A step turns a flag into a flag. *)
LEMMA FlagsKept ==
  ASSUME FlagsOK, [Next]_vars
  PROVE  FlagsOK'
<1> USE DEF FlagsOK, loopVars, queueVars, ptyVars, termVars, sigVars, modeVars,
   histVars
<1>1. CASE UNCHANGED vars
  BY Zenon, <1>1 DEF vars
<1>2. CASE InstallSignals
  BY Zenon, <1>2 DEF InstallSignals
<1>3. CASE EnableRawMode
  BY Zenon, <1>3 DEF EnableRawMode
<1>4. CASE SetNonBlocking
  BY Zenon, <1>4 DEF SetNonBlocking
<1>5. CASE Top
  BY Zenon, <1>5 DEF Top
<1>6. CASE PollAnswers \/ PollInterrupted
  BY ZenonT(60), <1>6 DEF PollAnswers, PollInterrupted
<1>7. CASE ReadStdin
  <2> DEFINE more == Lower(typed, Buffer) > 0
  <2>1. more \in BOOLEAN
    OBVIOUS
  <2>2. stdinOpen' = stdinOpen \/ stdinOpen' = more
    BY Zenon, <1>7 DEF ReadStdin
  <2> HIDE DEF more
  <2> QED
    BY ZenonT(60), <1>7, <2>1, <2>2 DEF ReadStdin
<1>8. CASE WriteMaster
  BY Zenon, <1>8 DEF WriteMaster
<1>9. CASE ReadMaster
  <2>1. guestGone' \in BOOLEAN
    BY Zenon, <1>9 DEF ReadMaster
  <2> QED
    BY Zenon, <1>9, <2>1 DEF ReadMaster
<1>10. CASE WriteStdout
  BY Zenon, <1>10 DEF WriteStdout
<1>11. CASE ForwardFails
  BY Zenon, <1>11 DEF ForwardFails
<1>12. CASE RestoreBlocking
  BY Zenon, <1>12 DEF RestoreBlocking
<1>13. CASE RestoreMode
  BY Zenon, <1>13 DEF RestoreMode
<1>14. CASE RestoreSignals
  BY Zenon, <1>14 DEF RestoreSignals
<1>15. CASE GuestWrites \/ GuestReads
  BY ZenonT(60), <1>15 DEF GuestWrites, GuestReads
<1>16. CASE GuestCloses
  BY Zenon, <1>16 DEF GuestCloses
<1>17. CASE UserTypes
  BY Zenon, <1>17 DEF UserTypes
<1>18. CASE StdinEnds
  BY Zenon, <1>18 DEF StdinEnds
<1>19. CASE TerminalCatchesUp
  BY Zenon, <1>19 DEF TerminalCatchesUp
<1>20. CASE SignalArrives \/ TerminalResized
  BY ZenonT(60), <1>20 DEF SignalArrives, TerminalResized
<1> QED
  BY Zenon, <1>1, <1>2, <1>3, <1>4, <1>5, <1>6, <1>7, <1>8, <1>9, <1>10, <1>11, <1>12,
     <1>13, <1>14, <1>15, <1>16, <1>17, <1>18, <1>19, <1>20
  DEF Next, LoopStep, Outside

(* A step keeps every count within its range. *)
LEMMA CountsKept ==
  ASSUME CountsOK, [Next]_vars
  PROVE  CountsOK'
<1> USE ConsoleAssumption DEF CountsOK, queueVars, ptyVars, termVars, histVars
<1>1. CASE UNCHANGED vars
  BY <1>1 DEF vars
<1>2. CASE InstallSignals \/ EnableRawMode \/ SetNonBlocking
  BY <1>2 DEF InstallSignals, EnableRawMode, SetNonBlocking
<1>3. CASE Top
  BY <1>3 DEF Top, DropsInput
<1>4. CASE PollAnswers \/ PollInterrupted
  BY <1>4 DEF PollAnswers, PollInterrupted
<1>5. CASE ReadStdin \/ WriteMaster
  BY <1>5 DEF ReadStdin, Lower, WriteMaster, PtyTakes
<1>6. CASE ReadMaster \/ WriteStdout
  BY <1>6 DEF ReadMaster, Lower, WriteStdout
<1>7. CASE RestoreBlocking \/ RestoreMode \/ RestoreSignals \/ ForwardFails
  BY <1>7 DEF RestoreBlocking, RestoreMode, RestoreSignals, ForwardFails
<1>8. CASE Outside
  BY <1>8 DEF Outside, GuestWrites, GuestReads, GuestCloses, UserTypes, StdinEnds,
     TerminalCatchesUp, SignalArrives, TerminalResized
<1> QED
  BY Zenon, <1>1, <1>2, <1>3, <1>4, <1>5, <1>6, <1>7, <1>8
  DEF Next, LoopStep, Outside

(* What is not a flag or a count keeps its type as well. *)
LEMMA StatesKept ==
  ASSUME FlagsOK, CountsOK, StatesOK, [Next]_vars
  PROVE  StatesOK'
<1> USE DEF StatesOK, Step, Running, Leave, loopVars, sigVars
<1>1. CASE UNCHANGED vars
  BY <1>1 DEF vars
<1>2. CASE InstallSignals \/ EnableRawMode \/ SetNonBlocking
  BY <1>2 DEF InstallSignals, EnableRawMode, SetNonBlocking
<1>3. CASE Top
  <2>1. Wanted \in Events
    <3>1. /\ (stdinOpen /\ HasSpace(toGuest)) \in BOOLEAN
          /\ (~guestGone /\ HasSpace(toMaster)) \in BOOLEAN
      OBVIOUS
    <3>2. (toGuest > 0) \in BOOLEAN /\ HasOutput(toMaster) \in BOOLEAN
      BY DEF HasOutput
    <3> QED
      BY Zenon, <3>1, <3>2, EventsAre DEF Wanted
  <2>2. events' \in {events, Wanted}
    BY Zenon, <1>3 DEF Top
  <2>3. ptySize' \in {ptySize, hostSize}
    BY <1>3 DEF Top, SizeAtTop
  <2> QED
    BY <1>3, <2>1, <2>2, <2>3 DEF Top
<1>4. CASE PollAnswers
  <2>1. revents' \in Events
    BY <1>4, AnswersAre DEF PollAnswers
  <2> QED
    BY <1>4, <2>1 DEF PollAnswers
<1>5. CASE PollInterrupted
  BY <1>5 DEF PollInterrupted
<1>6. CASE ReadStdin \/ WriteMaster
  BY <1>6 DEF ReadStdin, WriteMaster
<1>7. CASE ReadMaster \/ WriteStdout
  BY <1>7 DEF ReadMaster, WriteStdout
<1>8. CASE RestoreBlocking \/ RestoreMode \/ RestoreSignals \/ ForwardFails
  BY <1>8 DEF RestoreBlocking, AfterUnblock, RestoreMode, RestoreSignals, ForwardFails
<1>9. CASE GuestWrites
  BY <1>9 DEF GuestWrites
<1>10. CASE GuestReads
  BY <1>10 DEF GuestReads
<1>11. CASE GuestCloses
  BY <1>11 DEF GuestCloses
<1>12. CASE UserTypes
  BY <1>12 DEF UserTypes
<1>13. CASE StdinEnds
  BY <1>13 DEF StdinEnds
<1>14. CASE TerminalCatchesUp
  BY <1>14 DEF TerminalCatchesUp
<1>15. CASE SignalArrives
  BY <1>15 DEF SignalArrives, Signal
<1>16. CASE TerminalResized
  BY <1>16 DEF TerminalResized, Signal
<1> QED
  BY Zenon, <1>1, <1>2, <1>3, <1>4, <1>5, <1>6, <1>7, <1>8, <1>9, <1>10, <1>11, <1>12,
     <1>13, <1>14, <1>15, <1>16
  DEF Next, LoopStep, Outside

(* The loop starts with every variable in its type.                          *)
LEMMA InitTypes == Init => FlagsOK /\ CountsOK /\ StatesOK
<1> SUFFICES ASSUME Init PROVE FlagsOK /\ CountsOK /\ StatesOK
  OBVIOUS
<1>1. FlagsOK
  BY Zenon DEF Init, FlagsOK
<1>2. CountsOK
  BY ConsoleAssumption DEF Init, CountsOK
<1>3. StatesOK
  BY NothingIsEvents DEF Init, StatesOK, Step
<1> QED
  BY <1>1, <1>2, <1>3

(* Every variable of the console has its type, for every limit and capacity. *)
THEOREM ConsoleTypeCorrect == Spec => []TypeOK
<1> DEFINE Types == FlagsOK /\ CountsOK /\ StatesOK
<1>1. Types /\ [Next]_vars => Types'
  BY FlagsKept, CountsKept, StatesKept
<1> QED
  BY <1>1, InitTypes, TypeParts, PTL DEF Spec

-------------------------------------------------------------------------------
(* What a step takes out of one place it counts in the next. *)
LEMMA ConservedKept ==
  ASSUME ConsoleInv, [Next]_vars
  PROVE  OutputConserved'
<1> USE ConsoleAssumption
    DEF ConsoleInv, CountsOK, OutputConserved, Running, Leave, queueVars, ptyVars,
       termVars, modeVars, histVars, loopVars, sigVars
<1>1. CASE UNCHANGED vars
  BY <1>1 DEF vars
<1>2. CASE InstallSignals \/ EnableRawMode \/ SetNonBlocking
  BY <1>2 DEF InstallSignals, EnableRawMode, SetNonBlocking
<1>3. CASE Top
  BY <1>3 DEF Top, DropsInput
<1>4. CASE PollAnswers \/ PollInterrupted
  BY <1>4 DEF PollAnswers, PollInterrupted
<1>5. CASE ReadStdin \/ WriteMaster
  BY <1>5 DEF ReadStdin, Lower, WriteMaster, PtyTakes
<1>6. CASE ReadMaster \/ WriteStdout
  BY <1>6 DEF ReadMaster, Lower, WriteStdout
<1>7. CASE RestoreBlocking \/ RestoreMode \/ RestoreSignals \/ ForwardFails
  BY <1>7 DEF RestoreBlocking, RestoreMode, RestoreSignals, ForwardFails
<1>8. CASE Outside
  BY <1>8 DEF Outside, GuestWrites, GuestReads, GuestCloses, UserTypes, StdinEnds,
     TerminalCatchesUp, SignalArrives, TerminalResized
<1> QED
  BY Zenon, <1>1, <1>2, <1>3, <1>4, <1>5, <1>6, <1>7, <1>8 DEF Next, LoopStep, Outside

(* A queue grows only by a read, and a read comes only below the limit, or after the
   guest has closed, when its bytes were in the pty already. *)
LEMMA QueuesKept ==
  ASSUME ConsoleInv, [Next]_vars
  PROVE  QueuesBounded'
<1> USE ConsoleAssumption
    DEF ConsoleInv, CountsOK, QueuesBounded, Running, Leave, queueVars, ptyVars,
       termVars, modeVars, histVars, loopVars, sigVars
<1>1. CASE UNCHANGED vars
  BY <1>1 DEF vars
<1>2. CASE InstallSignals \/ EnableRawMode \/ SetNonBlocking
  BY <1>2 DEF InstallSignals, EnableRawMode, SetNonBlocking
<1>3. CASE Top
  BY <1>3 DEF Top, DropsInput, Wanted, HasSpace, HasOutput, GuestIsDone
<1>4. CASE PollAnswers \/ PollInterrupted
  BY <1>4 DEF PollAnswers, PollInterrupted
<1>5. CASE ReadStdin
  <2>1. Lower(typed, Buffer) \in Nat /\ Lower(typed, Buffer) <= Buffer
    BY LowerBounds
  <2>2. /\ \/ toGuest' = toGuest + Lower(typed, Buffer) /\ toGuest < Limit
           \/ toGuest' = toGuest
        /\ UNCHANGED <<toMaster, slaveOpen, ptyOut>>
    BY <1>5 DEF ReadStdin, ReadsWithinLimit
  <2> QED
    BY <2>1, <2>2
<1>6. CASE WriteMaster
  BY <1>6 DEF WriteMaster, PtyTakes, Lower
<1>7. CASE ReadMaster
  <2>1. CASE revents.masterIn
    <3> DEFINE n == Lower(ptyOut, Buffer)
    <3>1. n \in Nat /\ n <= ptyOut /\ n <= Buffer
      BY LowerBounds
    <3>2. PICK k \in 0 .. Growth * n : toMaster' = toMaster + k /\ ptyOut' = ptyOut - n
      BY Zenon, <1>7, <2>1 DEF ReadMaster
    <3> HIDE DEF n
    <3>3. /\ Growth * n \in Nat /\ Growth * n <= Growth * Buffer
          /\ Growth * Buffer \in Nat
          /\ Growth * ptyOut \in Nat
          /\ Growth * (ptyOut - n) = Growth * ptyOut - Growth * n
      BY <3>1, GrowthIsMonotone
    <3>4. k \in Nat /\ k <= Growth * n
      BY <3>2, <3>3
    <3>5. UNCHANGED <<slaveOpen, toGuest>> /\ (slaveOpen => toMaster < Limit)
      BY <1>7, <2>1 DEF ReadMaster, ReadsWithinLimit
    <3>6. slaveOpen' => toMaster' < Limit + Growth * Buffer
      BY <3>2, <3>3, <3>4, <3>5
    <3>7. toMaster' + Growth * ptyOut' <= toMaster + Growth * ptyOut
      BY <3>2, <3>3, <3>4
    <3>8. Growth * ptyOut' \in Nat /\ Growth * (Buffer + PtyCap) \in Nat
      <4>1. ptyOut' \in Nat
        BY <3>1, <3>2
      <4>2. Buffer + PtyCap \in Nat /\ Growth \in Nat
        OBVIOUS
      <4>3. \A g, m \in Nat : g * m \in Nat
        OBVIOUS
      <4> QED
        BY <4>1, <4>2, <4>3
    <3> QED
      BY <3>2, <3>3, <3>4, <3>5, <3>6, <3>7, <3>8
  <2>2. CASE ~revents.masterIn
    BY <1>7, <2>2 DEF ReadMaster
  <2> QED
    BY <2>1, <2>2
<1>8. CASE WriteStdout
  BY <1>8 DEF WriteStdout, Lower
<1>9. CASE RestoreBlocking \/ RestoreMode \/ RestoreSignals \/ ForwardFails
  BY <1>9 DEF RestoreBlocking, RestoreMode, RestoreSignals, ForwardFails
<1>10. CASE Outside
  BY <1>10 DEF Outside, GuestWrites, GuestReads, GuestCloses, UserTypes, StdinEnds,
     TerminalCatchesUp, SignalArrives, TerminalResized
<1> QED
  BY Zenon, <1>1, <1>2, <1>3, <1>4, <1>5, <1>6, <1>7, <1>8, <1>9, <1>10 DEF Next,
     LoopStep, Outside

(* Modes are changed after, and restored before, the handlers' time. *)
LEMMA RestoresKept ==
  ASSUME ConsoleInv, [Next]_vars
  PROVE  RestoresInOrder'
<1> USE ConsoleAssumption
    DEF ConsoleInv, CountsOK, RestoresInOrder, ModesOnlyWhileMasked, Running, Leave,
       queueVars, ptyVars, termVars, modeVars, histVars, loopVars, sigVars
<1>1. CASE UNCHANGED vars
  BY <1>1 DEF vars
<1>2. CASE InstallSignals \/ EnableRawMode \/ SetNonBlocking
  BY <1>2 DEF InstallSignals, EnableRawMode, SetNonBlocking
<1>3. CASE Top
  BY <1>3 DEF Top
<1>4. CASE PollAnswers \/ PollInterrupted
  BY <1>4 DEF PollAnswers, PollInterrupted
<1>5. CASE ReadStdin \/ WriteMaster
  BY <1>5 DEF ReadStdin, WriteMaster
<1>6. CASE ReadMaster \/ WriteStdout
  BY <1>6 DEF ReadMaster, WriteStdout
<1>7. CASE RestoreBlocking \/ RestoreMode \/ RestoreSignals \/ ForwardFails
  BY <1>7 DEF RestoreBlocking, AfterUnblock, RestoreMode, RestoreSignals, ForwardFails
<1>8. CASE Outside
  BY <1>8 DEF Outside, GuestWrites, GuestReads, GuestCloses, UserTypes, StdinEnds,
     TerminalCatchesUp, SignalArrives, TerminalResized
<1> QED
  BY Zenon, <1>1, <1>2, <1>3, <1>4, <1>5, <1>6, <1>7, <1>8 DEF Next, LoopStep, Outside

(* The top of the loop asks for what the queues allow; nothing else touches them. *)
LEMMA AsksKept ==
  ASSUME ConsoleInv, [Next]_vars
  PROVE  AsksForWork'
<1> USE ConsoleAssumption
    DEF ConsoleInv, CountsOK, AsksForWork, GoneMeansClosed, Running, Leave, queueVars,
       ptyVars, termVars, modeVars, histVars, loopVars, sigVars
<1>1. CASE UNCHANGED vars
  BY <1>1 DEF vars
<1>2. CASE InstallSignals \/ EnableRawMode \/ SetNonBlocking
  BY <1>2 DEF InstallSignals, EnableRawMode, SetNonBlocking
<1>3. CASE Top
  <2>1. /\ Wanted.stdin => toGuest < Limit
        /\ Wanted.masterIn <=> ~guestGone /\ toMaster < Limit
        /\ Wanted.masterOut <=> toGuest > 0
        /\ Wanted.stdout <=> toMaster > 0
    BY DEF Wanted, HasSpace, HasOutput
  <2>2. pc' = "poll" =>
          /\ events' = Wanted /\ ~GuestIsDone /\ UNCHANGED <<toMaster, guestGone>>
          /\ toGuest' = 0 \/ toGuest' = toGuest
    BY <1>3 DEF Top, DropsInput
  <2>3. toGuest' \in Nat /\ toGuest' <= toGuest
    BY <1>3 DEF Top, DropsInput
  <2> QED
    BY <2>1, <2>2, <2>3 DEF GuestIsDone
<1>4. CASE PollAnswers \/ PollInterrupted
  BY <1>4 DEF PollAnswers, PollInterrupted
<1>5. CASE ReadStdin \/ WriteMaster
  BY <1>5 DEF ReadStdin, Lower, WriteMaster, PtyTakes
<1>6. CASE ReadMaster \/ WriteStdout
  BY <1>6 DEF ReadMaster, Lower, WriteStdout
<1>7. CASE RestoreBlocking \/ RestoreMode \/ RestoreSignals \/ ForwardFails
  BY <1>7 DEF RestoreBlocking, AfterUnblock, RestoreMode, RestoreSignals, ForwardFails
<1>8. CASE Outside
  BY <1>8 DEF Outside, GuestWrites, GuestReads, GuestCloses, UserTypes, StdinEnds,
     TerminalCatchesUp, SignalArrives, TerminalResized
<1> QED
  BY Zenon, <1>1, <1>2, <1>3, <1>4, <1>5, <1>6, <1>7, <1>8 DEF Next, LoopStep, Outside

(* What was asked for is what is read; no other step fills the queue in between. *)
LEMMA ReadsKept ==
  ASSUME ConsoleInv, [Next]_vars
  PROVE  ReadsWithinLimit'
<1> USE ConsoleAssumption
    DEF ConsoleInv, CountsOK, ReadsWithinLimit, AsksForWork, Running, Leave,
       queueVars, ptyVars, termVars, modeVars, histVars, loopVars, sigVars
<1>1. CASE UNCHANGED vars
  BY <1>1 DEF vars
<1>2. CASE InstallSignals \/ EnableRawMode \/ SetNonBlocking
  BY <1>2 DEF InstallSignals, EnableRawMode, SetNonBlocking
<1>3. CASE Top
  BY <1>3 DEF Top, DropsInput, Wanted, HasSpace, HasOutput, GuestIsDone
<1>4. CASE PollAnswers
  <2>1. /\ revents'.stdin => events.stdin
        /\ revents'.masterIn => events.masterIn \/ ~slaveOpen
    BY <1>4, AnswersAre DEF PollAnswers
  <2> QED
    BY <1>4, <2>1 DEF PollAnswers
<1>5. CASE PollInterrupted
  BY <1>5 DEF PollInterrupted
<1>6. CASE ReadStdin \/ WriteMaster
  BY <1>6 DEF ReadStdin, Lower, WriteMaster, PtyTakes
<1>7. CASE ReadMaster \/ WriteStdout
  BY <1>7 DEF ReadMaster, Lower, WriteStdout
<1>8. CASE RestoreBlocking \/ RestoreMode \/ RestoreSignals \/ ForwardFails
  BY <1>8 DEF RestoreBlocking, AfterUnblock, RestoreMode, RestoreSignals, ForwardFails
<1>9. CASE Outside
  BY <1>9 DEF Outside, GuestWrites, GuestReads, GuestCloses, UserTypes, StdinEnds,
     TerminalCatchesUp, SignalArrives, TerminalResized
<1> QED
  BY Zenon, <1>1, <1>2, <1>3, <1>4, <1>5, <1>6, <1>7, <1>8, <1>9 DEF Next, LoopStep,
     Outside

(* The loop learns of the guest's end from a pty that is closed, and leaves with nothing
   queued. *)
LEMMA GoneKept ==
  ASSUME ConsoleInv, [Next]_vars
  PROVE  GoneMeansClosed'
<1> USE ConsoleAssumption
    DEF ConsoleInv, CountsOK, GoneMeansClosed, NothingLeftUnlessRejected, Forwarding,
       SettingUp, Running, Leave, queueVars, ptyVars, termVars, modeVars, histVars,
       loopVars, sigVars
<1>1. CASE UNCHANGED vars
  BY <1>1 DEF vars
<1>2. CASE InstallSignals \/ EnableRawMode \/ SetNonBlocking
  BY <1>2 DEF InstallSignals, EnableRawMode, SetNonBlocking
<1>3. CASE Top
  BY <1>3 DEF Top, DropsInput, Wanted, HasSpace, HasOutput, GuestIsDone
<1>4. CASE PollAnswers \/ PollInterrupted
  BY <1>4 DEF PollAnswers, PollInterrupted
<1>5. CASE ReadStdin \/ WriteMaster
  BY <1>5 DEF ReadStdin, Lower, WriteMaster, PtyTakes
<1>6. CASE ReadMaster
  <2>1. guestGone' => ~slaveOpen' /\ (ptyOut' = 0 \/ rejected')
    <3>1. Lower(0, Buffer) = 0
      BY DEF Lower
    <3>2. /\ guestGone' => guestGone \/ (ptyOut = 0 /\ ~slaveOpen)
          /\ ptyOut' = ptyOut \/ ptyOut' = ptyOut - Lower(ptyOut, Buffer)
          /\ UNCHANGED <<slaveOpen, rejected>>
      BY <1>6 DEF ReadMaster, GuestGoneOnEio
    <3> QED
      BY <3>1, <3>2
  <2> QED
    BY <1>6, <2>1 DEF ReadMaster
<1>7. CASE WriteStdout
  BY <1>7 DEF WriteStdout, Lower
<1>8. CASE RestoreBlocking \/ RestoreMode \/ RestoreSignals \/ ForwardFails
  BY <1>8 DEF RestoreBlocking, AfterUnblock, RestoreMode, RestoreSignals, ForwardFails
<1>9. CASE Outside
  BY <1>9 DEF Outside, GuestWrites, GuestReads, GuestCloses, UserTypes, StdinEnds,
     TerminalCatchesUp, SignalArrives, TerminalResized
<1> QED
  BY Zenon, <1>1, <1>2, <1>3, <1>4, <1>5, <1>6, <1>7, <1>8, <1>9 DEF Next, LoopStep,
     Outside

(* The loop starts with empty queues and no mode changed.                    *)
LEMMA ConsoleInitInv == Init => ConsoleInv
<1> SUFFICES ASSUME Init PROVE ConsoleInv
  OBVIOUS
<1> USE ConsoleAssumption DEF Init
<1>1. Growth * 0 = 0 /\ Growth * Buffer \in Nat /\ Growth * (Buffer + PtyCap) \in Nat
  OBVIOUS
<1>2. OutputConserved /\ QueuesBounded
  BY <1>1 DEF OutputConserved, QueuesBounded
<1>3. RestoresInOrder /\ AsksForWork /\ ReadsWithinLimit /\ GoneMeansClosed
  BY DEF RestoresInOrder, ModesOnlyWhileMasked, AsksForWork, ReadsWithinLimit,
         GoneMeansClosed, NothingLeftUnlessRejected
<1> QED
  BY <1>2, <1>3, InitTypes DEF ConsoleInv

(* The inductive invariant holds of every state.                             *)
LEMMA ConsoleInvariant == Spec => []ConsoleInv
<1>1. ConsoleInv /\ [Next]_vars => ConsoleInv'
  <2> SUFFICES ASSUME ConsoleInv, [Next]_vars PROVE ConsoleInv'
    OBVIOUS
  <2>1. FlagsOK' /\ CountsOK' /\ StatesOK'
    BY FlagsKept, CountsKept, StatesKept DEF ConsoleInv
  <2>2. OutputConserved' /\ QueuesBounded' /\ RestoresInOrder'
    BY ConservedKept, QueuesKept, RestoresKept
  <2>3. AsksForWork' /\ ReadsWithinLimit' /\ GoneMeansClosed'
    BY AsksKept, ReadsKept, GoneKept
  <2> QED
    BY <2>1, <2>2, <2>3 DEF ConsoleInv
<1> QED
  BY <1>1, ConsoleInitInv, PTL DEF Spec

-------------------------------------------------------------------------------
(* No byte of the guest is lost or doubled on its way to the terminal.        *)
THEOREM ConsoleLosesNothing == Spec => []OutputConserved
<1>1. ConsoleInv => OutputConserved
  BY DEF ConsoleInv
<1> QED
  BY <1>1, ConsoleInvariant, PTL

(* Neither queue passes its limit by more than a buffer, or, once the guest   *)
(* has closed the pty, by what the pty still held.                            *)
THEOREM ConsoleQueuesBounded == Spec => []QueuesBounded
<1>1. ConsoleInv => QueuesBounded
  BY DEF ConsoleInv
<1> QED
  BY <1>1, ConsoleInvariant, PTL

(* No signal can end the run by its default action while the user's terminal  *)
(* is raw or non-blocking.                                                    *)
THEOREM TerminalIsRestored == Spec => []ModesOnlyWhileMasked
<1>1. ConsoleInv => ModesOnlyWhileMasked
  BY DEF ConsoleInv, RestoresInOrder
<1> QED
  BY <1>1, ConsoleInvariant, PTL

(* The loop calls the guest gone with an empty queue, and with an empty pty   *)
(* unless it learned of the end from input the pty refused.                   *)
THEOREM GuestGoneIsFlushed == Spec => []NothingLeftUnlessRejected
<1>1. ConsoleInv => NothingLeftUnlessRejected
  BY DEF ConsoleInv, GoneMeansClosed
<1> QED
  BY <1>1, ConsoleInvariant, PTL

(* ppoll has an answer whenever there is work: what was asked for at the top  *)
(* of the loop still is what the queues allow.                                *)
LEMMA WorkIsAnswered ==
  ASSUME ConsoleInv
  PROVE  NeverSleepsOnWork
<1> DEFINE answer(out) ==
      [stdin |-> events.stdin /\ (typed > 0 \/ hangup), masterIn |-> HupOrInput,
       masterOut |-> out, stdout |-> events.stdout /\ room > 0]
    outs == IF ~events.masterOut THEN {FALSE}
            ELSE IF slaveOpen THEN {ptyIn < PtyCap} ELSE BOOLEAN
<1> SUFFICES ASSUME pc = "poll", ~Ready
             PROVE  /\ ~(toMaster > 0 /\ room > 0)
                    /\ ~(slaveOpen /\ ptyOut > 0 /\ toMaster < Limit)
                    /\ ~(slaveOpen /\ toGuest > 0 /\ ptyIn < PtyCap)
                    /\ ~(~slaveOpen /\ toMaster = 0)
  BY DEF NeverSleepsOnWork
<1>1. \A out \in outs : answer(out) = Nothing
  BY Zenon DEF Ready, Answers
<1>2. PICK out \in outs : TRUE
  OBVIOUS
<1>3. ~answer(out).stdout /\ ~answer(out).masterIn /\ answer(out).masterOut = FALSE
  BY <1>1 DEF Nothing
<1>4. ~(events.stdout /\ room > 0) /\ ~HupOrInput /\ out = FALSE
  BY <1>3
<1>5. ~(toMaster > 0 /\ room > 0)
  BY <1>4 DEF ConsoleInv, AsksForWork
<1>6. events.masterIn => ptyOut = 0 /\ slaveOpen
  BY <1>4 DEF HupOrInput, ConsoleInv, CountsOK
<1>7. guestGone => ~slaveOpen /\ toMaster > 0
  BY DEF ConsoleInv, AsksForWork, GoneMeansClosed
<1>8. /\ ~(slaveOpen /\ ptyOut > 0 /\ toMaster < Limit)
      /\ ~(~slaveOpen /\ toMaster = 0)
  BY <1>6, <1>7, ConsoleAssumption DEF ConsoleInv, AsksForWork
<1>9. ~(slaveOpen /\ toGuest > 0 /\ ptyIn < PtyCap)
  BY <1>2, <1>4 DEF ConsoleInv, AsksForWork
<1> QED
  BY <1>5, <1>8, <1>9

(* The loop never sleeps on bytes it could forward or on a guest's end.       *)
THEOREM ConsoleNeverSleeps == Spec => []NeverSleepsOnWork
<1>1. ConsoleInv => NeverSleepsOnWork
  BY WorkIsAnswered
<1> QED
  BY <1>1, ConsoleInvariant, PTL

-------------------------------------------------------------------------------
(* AnsiFilter: what one symbol does to the state, to the output and to the   *)
(* counter of combining marks, for every state the parser can be in.         *)
ParserState ==
  {"ground", "escape", "escapeIntermediate", "osc", "string", "csiEntry", "csiParam",
   "csiIntermediate", "csiIgnore"}

Output == [symbol : Symbol, at : Nat]

FilterState ==
  [state : ParserState, inter : Seq(Intermediate \cup Private), ignore : BOOLEAN,
   params : Seq(Parameter), title : BOOLEAN, marks : Nat, out : Seq(Output)]

Stamped(symbols, i) == [n \in DOMAIN symbols |-> [symbol |-> symbols[n], at |-> i]]

Silent(f, g) == g.out = f.out /\ g.marks >= f.marks

ShowsControl(f, s, i, g) ==
  /\ s \in C0 \cup {"CAN"} /\ s # "NUL"
  /\ g.out = f.out \o Stamped(<<s>>, i) /\ g.marks = f.marks

ShowsMark(f, s, i, g) ==
  /\ s = "mark" /\ ~f.title
  /\ g.out = f.out \o Stamped(<<s>>, i) /\ g.marks = f.marks + 1 /\ g.marks <= MarksMax

ShowsCharacter(f, s, i, g) ==
  /\ s \notin C0 \cup {"C1", "CAN", "ESC", "mark", "format", "hidden"} /\ ~f.title
  /\ g.out = f.out \o Stamped(<<s>>, i) /\ g.marks = 0

Visible == Symbol \ ({"mark"} \cup C1)

(* The sequences that the filter lets through.                               *)
Allowed(f, symbols) ==
  \/ symbols = <<"ESC", "7">>
  \/ ~f.ignore /\ \E a \in Final : AllowedCsi(f, a) /\ symbols = WriteCsi(f, a)

ShowsSequence(f, i, g) ==
  \E symbols \in Seq(Visible) :
    /\ Len(symbols) >= 2 /\ Allowed(f, symbols)
    /\ g.out = f.out \o Stamped(symbols, i) /\ g.marks = f.marks

(* What the performer can do with one symbol.                                *)
Shows(f, s, i, g) ==
  \/ Silent(f, g) \/ ShowsControl(f, s, i, g) \/ ShowsMark(f, s, i, g)
  \/ ShowsCharacter(f, s, i, g) \/ ShowsSequence(f, i, g)

(* A function into the same fields is changed in the fields that are named.  *)
LEMMA StampedIsOutput ==
  ASSUME NEW symbols \in Seq(Symbol), NEW i \in Nat
  PROVE  /\ Stamped(symbols, i) \in Seq(Output)
         /\ Len(Stamped(symbols, i)) = Len(symbols)
         /\ \A n \in 1 .. Len(symbols) :
              Stamped(symbols, i)[n] = [symbol |-> symbols[n], at |-> i]
<1>1. /\ Len(symbols) \in Nat /\ DOMAIN symbols = 1 .. Len(symbols)
      /\ \A n \in 1 .. Len(symbols) : symbols[n] \in Symbol
  BY LenProperties, ElementOfSeq
<1>2. \A n \in 1 .. Len(symbols) : [symbol |-> symbols[n], at |-> i] \in Output
  BY <1>1 DEF Output
<1>3. Stamped(symbols, i) \in [1 .. Len(symbols) -> Output]
  BY <1>1, <1>2 DEF Stamped
<1>4. Stamped(symbols, i) \in Seq(Output)
  BY <1>1, <1>3, SeqDef
<1>5. Len(Stamped(symbols, i)) = Len(symbols)
  BY <1>1, <1>3, <1>4, LenProperties
<1> QED
  BY <1>1, <1>4, <1>5 DEF Stamped

LEMMA WriteShows ==
  ASSUME NEW f \in FilterState, NEW symbols \in Seq(Symbol), NEW i \in Nat
  PROVE  LET g == Write(f, symbols, i) IN
         /\ g \in FilterState /\ g.out = f.out \o Stamped(symbols, i)
         /\ g.state = f.state /\ g.inter = f.inter /\ g.title = f.title /\ g.marks = f.marks
<1>1. f.out \o Stamped(symbols, i) \in Seq(Output)
  BY StampedIsOutput, ConcatProperties DEF FilterState
<1>2. Write(f, symbols, i) = [f EXCEPT !.out = f.out \o Stamped(symbols, i)]
  BY DEF Write, Stamped, FilterState
<1>3. Write(f, symbols, i) \in FilterState
  BY <1>1, <1>2 DEF FilterState
<1> QED
  BY <1>2, <1>3 DEF FilterState

LEMMA WriteSymbol ==
  ASSUME NEW f \in FilterState, NEW s \in Symbol, NEW i \in Nat
  PROVE  /\ Write(f, <<s>>, i) \in FilterState
         /\ Write(f, <<s>>, i).out = f.out \o Stamped(<<s>>, i)
         /\ Write(f, <<s>>, i).state = f.state /\ Write(f, <<s>>, i).inter = f.inter
         /\ Write(f, <<s>>, i).title = f.title /\ Write(f, <<s>>, i).marks = f.marks
<1>1. <<s>> \in Seq(Symbol)
  OBVIOUS
<1> QED
  BY <1>1, WriteShows

LEMMA PrintShows ==
  ASSUME NEW f \in FilterState, NEW s \in Symbol \ (C0 \cup {"C1", "CAN", "ESC"}),
         NEW i \in Nat, MarksMax \in Nat
  PROVE  LET g == PrintChar(f, s, i) IN
         /\ g \in FilterState
         /\ g.state = f.state /\ g.inter = f.inter /\ g.title = f.title
         /\ Silent(f, g) \/ ShowsMark(f, s, i, g) \/ ShowsCharacter(f, s, i, g)
<1>1. CASE f.title \/ s \in {"format", "hidden"}
  BY <1>1 DEF PrintChar, Silent, FilterState
<1>2. CASE ~f.title /\ s \notin {"format", "hidden"} /\ s # "mark"
  <2> DEFINE h == [f EXCEPT !.marks = 0]
  <2>1. /\ h \in FilterState /\ h.marks = 0 /\ h.out = f.out /\ h.state = f.state
        /\ h.inter = f.inter /\ h.title = f.title
    BY DEF FilterState
  <2>2. PrintChar(f, s, i) = Write(h, <<s>>, i)
    BY <1>2 DEF PrintChar, Printed
  <2> HIDE DEF h
  <2>3. /\ Write(h, <<s>>, i) \in FilterState
        /\ Write(h, <<s>>, i).out = h.out \o Stamped(<<s>>, i)
        /\ Write(h, <<s>>, i).state = h.state /\ Write(h, <<s>>, i).inter = h.inter
        /\ Write(h, <<s>>, i).title = h.title /\ Write(h, <<s>>, i).marks = h.marks
    BY <2>1, WriteSymbol
  <2> QED
    BY <1>2, <2>1, <2>2, <2>3 DEF ShowsCharacter
<1>3. CASE ~f.title /\ s = "mark"
  <2> DEFINE h == [f EXCEPT !.marks = @ + 1]
  <2>1. /\ h \in FilterState /\ h.marks = f.marks + 1 /\ h.out = f.out /\ h.state = f.state
        /\ h.inter = f.inter /\ h.title = f.title /\ f.marks \in Nat
    BY DEF FilterState
  <2>2. PrintChar(f, s, i) = IF h.marks > MarksMax THEN h ELSE Write(h, <<s>>, i)
    BY <1>3 DEF PrintChar, Printed
  <2> HIDE DEF h
  <2>3. CASE h.marks > MarksMax
    BY <2>1, <2>2, <2>3 DEF Silent
  <2>4. CASE ~(h.marks > MarksMax)
    <3>1. /\ Write(h, <<s>>, i) \in FilterState
          /\ Write(h, <<s>>, i).out = h.out \o Stamped(<<s>>, i)
          /\ Write(h, <<s>>, i).state = h.state /\ Write(h, <<s>>, i).inter = h.inter
          /\ Write(h, <<s>>, i).title = h.title /\ Write(h, <<s>>, i).marks = h.marks
      BY <2>1, WriteSymbol
    <3>2. f.marks + 1 <= MarksMax
      BY <2>1, <2>4
    <3>3. PrintChar(f, s, i) = Write(h, <<s>>, i)
      BY <2>2, <2>4
    <3>4. ShowsMark(f, s, i, Write(h, <<s>>, i))
      BY <1>3, <2>1, <3>1, <3>2 DEF ShowsMark
    <3> QED
      BY <2>1, <3>1, <3>3, <3>4
  <2> QED
    BY <2>3, <2>4
<1> QED
  BY <1>1, <1>2, <1>3

LEMMA ExecuteShows ==
  ASSUME NEW f \in FilterState, NEW s \in C0 \cup C1 \cup {"CAN"}, NEW i \in Nat
  PROVE  LET g == Execute(f, s, i) IN
         /\ g \in FilterState
         /\ g.state = f.state /\ g.inter = f.inter
         /\ g.title = (f.title /\ s \notin {"BEL", "CAN"})
         /\ Silent(f, g) \/ ShowsControl(f, s, i, g)
<1> DEFINE h == [f EXCEPT !.title = @ /\ s \notin EndsTitle]
<1>1. /\ h \in FilterState /\ h.marks = f.marks /\ h.out = f.out /\ h.state = f.state
      /\ h.inter = f.inter /\ h.title = (f.title /\ s \notin {"BEL", "CAN"}) /\ f.marks \in Nat
  BY DEF FilterState, EndsTitle
<1>2. Execute(f, s, i) = IF s \in {"NUL"} \cup C1 THEN h ELSE Write(h, <<s>>, i)
  BY DEF Execute
<1> HIDE DEF h
<1>3. s \in Symbol
  BY DEF Symbol, NotAscii, Wide
<1>4. CASE s \in {"NUL"} \cup C1
  BY <1>1, <1>2, <1>4 DEF Silent
<1>5. CASE s \notin {"NUL"} \cup C1
  <2>1. /\ Write(h, <<s>>, i) \in FilterState
        /\ Write(h, <<s>>, i).out = h.out \o Stamped(<<s>>, i)
        /\ Write(h, <<s>>, i).state = h.state /\ Write(h, <<s>>, i).inter = h.inter
        /\ Write(h, <<s>>, i).title = h.title /\ Write(h, <<s>>, i).marks = h.marks
    BY <1>1, <1>3, WriteSymbol
  <2> QED
    BY <1>1, <1>2, <1>5, <2>1 DEF ShowsControl, C1
<1> QED
  BY <1>4, <1>5

LEMMA SilentSame == \A f \in FilterState : Silent(f, f)
BY DEF Silent, FilterState

LEMMA SeqOfMore ==
  ASSUME NEW S, NEW T, S \subseteq T, NEW s \in Seq(S)
  PROVE  s \in Seq(T)
OBVIOUS

(* Two or more symbols that are written together and bury nothing.           *)
LEMMA WriteSequence ==
  ASSUME NEW f \in FilterState, NEW symbols \in Seq(Visible), Len(symbols) >= 2,
         Allowed(f, symbols), NEW i \in Nat
  PROVE  LET g == Write(f, symbols, i) IN
         /\ g \in FilterState /\ g.state = f.state /\ g.inter = f.inter /\ g.title = f.title
         /\ ShowsSequence(f, i, g)
<1>1. symbols \in Seq(Symbol)
  BY SeqOfMore DEF Visible
<1>2. /\ Write(f, symbols, i) \in FilterState
      /\ Write(f, symbols, i).out = f.out \o Stamped(symbols, i)
      /\ Write(f, symbols, i).state = f.state /\ Write(f, symbols, i).inter = f.inter
      /\ Write(f, symbols, i).title = f.title /\ Write(f, symbols, i).marks = f.marks
  BY <1>1, WriteShows
<1> QED
  BY <1>2 DEF ShowsSequence

LEMMA WriteCsiIsSequence ==
  ASSUME NEW f \in FilterState, NEW action \in Final
  PROVE  /\ WriteCsi(f, action) \in Seq(Visible)
         /\ Len(WriteCsi(f, action)) >= 2
<1> DEFINE head == <<"ESC", "[">>
           tail == <<action>>
<1>1. /\ f.inter \in Seq(Visible) /\ f.params \in Seq(Visible)
  <2>1. Intermediate \cup Private \subseteq Visible /\ Parameter \subseteq Visible
    BY DEF Visible, C1, Symbol, Intermediate, Private, Parameter, Number, Separator
  <2>2. f.inter \in Seq(Intermediate \cup Private) /\ f.params \in Seq(Parameter)
    BY DEF FilterState
  <2> QED
    BY <2>1, <2>2, SeqOfMore
<1>2. Marked(f.inter) \in {0, 1} /\ (Marked(f.inter) = 1 => Len(f.inter) >= 1)
  BY <1>1, EmptySeq DEF Marked
<1>3. Markers(f.inter) \in Seq(Visible) /\ Trailing(f.inter) \in Seq(Visible)
  BY <1>1, <1>2, SubSeqProperties DEF Markers, Trailing
<1>4. /\ head \in Seq(Visible) /\ Len(head) = 2 /\ tail \in Seq(Visible)
  <2>1. "ESC" \in Visible /\ "[" \in Visible /\ action \in Visible
    BY DEF Visible, C1, Symbol, Final
  <2> QED
    BY <2>1
<1> HIDE DEF head, tail
<1> DEFINE a == head \o Markers(f.inter)
           b == a \o f.params
           c == b \o Trailing(f.inter)
<1>5. a \in Seq(Visible) /\ Len(a) >= 2
  <2>1. a \in Seq(Visible) /\ Len(a) = Len(head) + Len(Markers(f.inter))
    BY <1>3, <1>4, ConcatProperties
  <2>2. Len(Markers(f.inter)) \in Nat
    BY <1>3, LenProperties
  <2> HIDE DEF a
  <2> QED
    BY <1>4, <2>1, <2>2
<1>6. b \in Seq(Visible) /\ Len(b) >= 2
  <2> HIDE DEF a
  <2> QED BY <1>1, <1>5, ConcatProperties, LenProperties
<1>7. c \in Seq(Visible) /\ Len(c) >= 2
  <2> HIDE DEF a, b
  <2> QED BY <1>3, <1>6, ConcatProperties, LenProperties
<1>8. c \o tail \in Seq(Visible) /\ Len(c \o tail) >= 2
  <2> HIDE DEF a, b, c
  <2> QED BY <1>4, <1>7, ConcatProperties, LenProperties
<1>9. WriteCsi(f, action) = c \o tail
  BY DEF WriteCsi, head, tail
<1> QED
  BY <1>8, <1>9

LEMMA CsiShows ==
  ASSUME NEW f \in FilterState, NEW action \in Final, NEW i \in Nat
  PROVE  LET g == CsiDispatch(f, action, i) IN
         /\ g \in FilterState /\ g.state = f.state /\ g.inter = f.inter /\ g.title = f.title
         /\ Silent(f, g) \/ ShowsSequence(f, i, g)
<1>1. \/ /\ CsiDispatch(f, action, i) = Write(f, WriteCsi(f, action), i)
         /\ ~f.ignore /\ AllowedCsi(f, action)
      \/ CsiDispatch(f, action, i) = f
  BY DEF CsiDispatch
<1>2. CASE CsiDispatch(f, action, i) = f
  BY <1>2, SilentSame
<1>3. CASE /\ CsiDispatch(f, action, i) = Write(f, WriteCsi(f, action), i)
           /\ ~f.ignore /\ AllowedCsi(f, action)
  <2> DEFINE g == Write(f, WriteCsi(f, action), i)
  <2>2. Allowed(f, WriteCsi(f, action))
    BY <1>3 DEF Allowed
  <2>1. /\ g \in FilterState /\ g.state = f.state /\ g.inter = f.inter /\ g.title = f.title
        /\ ShowsSequence(f, i, g)
    BY <2>2, WriteCsiIsSequence, WriteSequence
  <2> QED
    BY <1>3, <2>1
<1> QED
  BY <1>1, <1>2, <1>3

LEMMA EscShows ==
  ASSUME NEW f \in FilterState, NEW s \in Symbol, NEW i \in Nat
  PROVE  LET g == EscDispatch(f, s, i) IN
         /\ g \in FilterState /\ g.state = f.state /\ g.inter = f.inter
         /\ Silent(f, g) \/ ShowsSequence(f, i, g)
         /\ f.inter # <<>> \/ s \notin {"k", "\\"} => g.title = f.title
         /\ f.inter = <<>> /\ s = "k" => g.title
<1> DEFINE g == EscDispatch(f, s, i)
<1>1. CASE f.inter # <<>> \/ s \notin {"k", "\\", "7"}
  <2>1. EscDispatch(f, s, i) = f
    BY <1>1 DEF EscDispatch
  <2> QED
    BY <1>1, <2>1, SilentSame
<1>2. CASE f.inter = <<>> /\ s \in {"k", "\\"}
  <2>1. EscDispatch(f, s, i) = [f EXCEPT !.title = (s = "k")]
    BY <1>2 DEF EscDispatch
  <2>2. [f EXCEPT !.title = (s = "k")] \in FilterState
    BY DEF FilterState
  <2> QED
    BY <1>2, <2>1, <2>2, SilentSame DEF Silent, FilterState
<1>3. CASE f.inter = <<>> /\ s = "7"
  <2>1. g = Write(f, <<"ESC", s>>, i)
    BY <1>3 DEF EscDispatch
  <2>2. /\ <<"ESC", s>> \in Seq(Visible) /\ Len(<<"ESC", s>>) >= 2
        /\ Allowed(f, <<"ESC", s>>)
    <3>1. "ESC" \in Visible /\ s \in Visible
      BY <1>3 DEF Visible, Symbol, C1
    <3> QED
      BY <1>3, <3>1 DEF Allowed
  <2> HIDE DEF g
  <2>3. /\ g \in FilterState /\ g.state = f.state /\ g.inter = f.inter /\ g.title = f.title
        /\ ShowsSequence(f, i, g)
    BY <2>1, <2>2, WriteSequence
  <2> QED
    BY <1>3, <2>3 DEF g
<1> QED
  BY <1>1, <1>2, <1>3

-------------------------------------------------------------------------------
(* The steps of the parser that leave the performer alone.                   *)
SamePerformer(f, g) ==
  g.out = f.out /\ g.marks = f.marks /\ g.title = f.title

SameSequence(f, g) ==
  g.inter = f.inter /\ g.params = f.params /\ g.ignore = f.ignore

(* Intermediates are collected from nothing when a sequence begins.          *)
Collects(f) ==
  /\ Len(f.inter) <= 2
  /\ f.state = "escape" => f.inter = <<>>
  /\ f.state = "escapeIntermediate" => f.inter # <<>>

LEMMA ToMoves ==
  ASSUME NEW f \in FilterState, NEW state \in ParserState
  PROVE  /\ To(f, state) \in FilterState /\ To(f, state).state = state
         /\ To(f, state).inter = f.inter /\ SamePerformer(f, To(f, state))
         /\ SameSequence(f, To(f, state))
BY DEF To, FilterState, SamePerformer, SameSequence

LEMMA ResetEmpties ==
  ASSUME NEW f \in FilterState
  PROVE  /\ ResetParams(f) \in FilterState /\ ResetParams(f).inter = <<>>
         /\ SamePerformer(f, ResetParams(f))
<1>1. <<"0">> \in Seq(Parameter)
  <2>1. "0" \in Parameter
    BY DEF Parameter, Number
  <2> HIDE DEF Parameter
  <2> QED BY <2>1
<1>2. <<>> \in Seq(Intermediate \cup Private)
  OBVIOUS
<1> DEFINE g == [f EXCEPT !.inter = <<>>]
           h == [g EXCEPT !.ignore = FALSE]
<1>3. g \in FilterState /\ g.inter = <<>> /\ SamePerformer(f, g)
  BY <1>2 DEF FilterState, SamePerformer
<1>4. h \in FilterState /\ h.inter = <<>> /\ SamePerformer(f, h)
  <2> HIDE DEF g
  <2> QED
    BY <1>3 DEF FilterState, SamePerformer
<1>5. ResetParams(f) = [h EXCEPT !.params = <<"0">>]
  BY DEF ResetParams
<1> HIDE DEF g, h
<1> QED
  BY <1>1, <1>4, <1>5 DEF FilterState, SamePerformer

LEMMA CollectAppends ==
  ASSUME NEW f \in FilterState, Len(f.inter) <= 2, NEW s \in Intermediate \cup Private
  PROVE  /\ Collect(f, s) \in FilterState /\ Collect(f, s).state = f.state
         /\ Collect(f, s).inter # <<>> /\ Len(Collect(f, s).inter) <= 2
         /\ SamePerformer(f, Collect(f, s))
<1> DEFINE More == Append(f.inter, s)
<1>1. f.inter \in Seq(Intermediate \cup Private) /\ Len(f.inter) \in Nat
  BY LenProperties DEF FilterState
<1>2. /\ More \in Seq(Intermediate \cup Private)
      /\ Len(More) = Len(f.inter) + 1 /\ More # <<>>
  <2>1. \A S : \A t \in Seq(S) : \A e \in S :
          /\ Append(t, e) \in Seq(S) /\ Len(Append(t, e)) = Len(t) + 1
          /\ Append(t, e) # <<>>
    BY AppendProperties
  <2>2. s \in Intermediate \cup Private
    OBVIOUS
  <2> QED
    BY <1>1, <2>1, <2>2
<1>3. CASE Len(f.inter) = 2
  <2>1. Collect(f, s) = [f EXCEPT !.ignore = TRUE]
    BY <1>3 DEF Collect
  <2>2. f.inter # <<>>
    BY <1>3, <1>1, EmptySeq
  <2> QED
    BY <1>3, <2>1, <2>2 DEF FilterState, SamePerformer
<1>4. CASE Len(f.inter) # 2
  <2>1. Collect(f, s) = [f EXCEPT !.inter = More]
    BY <1>4 DEF Collect, FilterState
  <2>2. Len(More) <= 2
    <3>1. \A n \in Nat : n <= 2 /\ n # 2 => n + 1 <= 2
      OBVIOUS
    <3> HIDE DEF More
    <3> QED
      BY <1>1, <1>2, <1>4, <3>1
  <2> HIDE DEF More
  <2>3. Collect(f, s) \in FilterState
    BY <1>2, <2>1 DEF FilterState
  <2> QED
    BY <1>2, <2>1, <2>2, <2>3 DEF FilterState, SamePerformer
<1> QED
  BY <1>3, <1>4

LEMMA AddParamAdds ==
  ASSUME NEW f \in FilterState, NEW s \in Parameter
  PROVE  /\ AddParam(f, s) \in FilterState /\ AddParam(f, s).inter = f.inter
         /\ SamePerformer(f, AddParam(f, s))
<1>1. f.params \in Seq(Parameter) /\ {"0", "65535"} \subseteq Parameter
  BY DEF FilterState, Parameter, Number
<1>2. CASE s \in Separator
  <2> DEFINE More == f.params \o <<s, "0">>
  <2>1. More \in Seq(Parameter)
    <3> HIDE DEF Parameter
    <3>1. <<s, "0">> \in Seq(Parameter)
      BY <1>1
    <3> QED
      BY <1>1, <3>1, ConcatProperties
  <2>2. AddParam(f, s) = [f EXCEPT !.params = More]
    BY <1>2 DEF AddParam, FilterState
  <2> HIDE DEF More
  <2> QED
    BY <2>1, <2>2 DEF FilterState, SamePerformer
<1>3. CASE s \notin Separator
  <2> DEFINE old == f.params[Len(f.params)]
             Changed == [f.params EXCEPT ![Len(f.params)] = IF old = "0" THEN s ELSE "65535"]
  <2>1. Changed \in Seq(Parameter)
    <3> HIDE DEF Parameter
    <3>1. f.params \in [1 .. Len(f.params) -> Parameter] /\ Len(f.params) \in Nat
      BY <1>1, LenProperties, ElementOfSeq, SeqDef
    <3>2. Changed \in [1 .. Len(f.params) -> Parameter]
      BY <1>1, <3>1
    <3> QED
      BY <3>1, <3>2, SeqDef
  <2>2. AddParam(f, s) = [f EXCEPT !.params = Changed]
    BY <1>3 DEF AddParam, FilterState
  <2> HIDE DEF Changed
  <2> QED
    BY <2>1, <2>2 DEF FilterState, SamePerformer
<1> QED
  BY <1>2, <1>3

-------------------------------------------------------------------------------
(* What one symbol can do to the state and to a title.                       *)
Moves(f, s, g) ==
  /\ g.state = "escape" <=> s = "ESC" \/ (f.state = "escape" /\ s \in C0 \cup NotAscii)
  /\ f.state = "escape" =>
       /\ s = "]" => g.state = "osc"
       /\ s \in {"P", "_"} => g.state = "string"
       /\ s = "k" => g.title
  /\ f.title /\ ~g.title =>
       \/ s = "CAN"
       \/ s = "BEL" /\ f.state \notin {"osc", "string"}
       \/ s = "\\" /\ f.state = "escape"
  /\ f.state \in {"osc", "string"} /\ s \notin {"ESC", "CAN"} =>
       (f.state = "osc" /\ s = "BEL") \/ g = f

ParsedWell(f, s, i, g) ==
  g \in FilterState /\ Collects(g) /\ Shows(f, s, i, g) /\ Moves(f, s, g)

(* The sets of symbols do not overlap.                                       *)
LEMMA Kinds ==
  ASSUME NEW s \in Symbol
  PROVE  /\ s \in C0 => s \notin NotAscii \cup Final \cup Intermediate \cup {"ESC", "CAN"}
         /\ s \in NotAscii => s \notin Final \cup Intermediate \cup {"ESC", "CAN"}
         /\ s \in Intermediate => s \notin Final \cup {"ESC", "CAN"}
         /\ s \in Final => s \notin {"ESC", "CAN"}
         /\ {"]", "P", "_", "k", "\\"} \subseteq Final
         /\ "BEL" \in C0 /\ C1 \subseteq NotAscii
         /\ ParserState = {"ground", "escape", "escapeIntermediate", "osc", "string",
                           "csiEntry", "csiParam", "csiIntermediate", "csiIgnore"}
BY DEF C0, C1, Wide, NotAscii, Final, Intermediate, ParserState

(* A relation to a state the performer has not touched is one to the first.  *)
LEMMA SameShows ==
  ASSUME NEW f, NEW h, NEW s, NEW i, NEW g, SamePerformer(f, h), SameSequence(f, h),
         \/ Silent(h, g) \/ ShowsControl(h, s, i, g) \/ ShowsMark(h, s, i, g)
         \/ ShowsCharacter(h, s, i, g) \/ ShowsSequence(h, i, g)
  PROVE  Shows(f, s, i, g)
<1>1. \A symbols : Allowed(h, symbols) => Allowed(f, symbols)
  BY DEF SameSequence, Allowed, AllowedCsi, AllowedAlone, WriteCsi, Modes, Flat
<1>2. ShowsSequence(h, i, g) => ShowsSequence(f, i, g)
  BY <1>1 DEF SamePerformer, ShowsSequence
<1> QED
  BY <1>2 DEF SamePerformer, Shows, Silent, ShowsControl, ShowsMark, ShowsCharacter

LEMMA SameIsSilent ==
  ASSUME NEW f \in FilterState, NEW g, NEW s, NEW i, SamePerformer(f, g)
  PROVE  Shows(f, s, i, g)
BY DEF SamePerformer, Shows, Silent, FilterState

(* A character in ground is printed, wherever its bytes come from.           *)
LEMMA PrintParses ==
  ASSUME NEW f \in FilterState, Collects(f), f.state = "ground",
         NEW s \in Symbol \ (C0 \cup {"C1", "CAN", "ESC"}), NEW i \in Nat, MarksMax \in Nat
  PROVE  ParsedWell(f, s, i, PrintChar(f, s, i))
<1> DEFINE g == PrintChar(f, s, i)
<1>1. /\ g \in FilterState /\ g.state = f.state /\ g.inter = f.inter /\ g.title = f.title
      /\ Silent(f, g) \/ ShowsMark(f, s, i, g) \/ ShowsCharacter(f, s, i, g)
  BY PrintShows
<1> HIDE DEF g
<1>2. Collects(g) /\ Shows(f, s, i, g)
  BY <1>1 DEF Collects, Shows
<1>3. Moves(f, s, g)
  BY <1>1 DEF Moves
<1> QED
  BY <1>1, <1>2, <1>3 DEF ParsedWell, g

LEMMA GroundParses ==
  ASSUME NEW f \in FilterState, Collects(f), f.state = "ground",
         NEW s \in Symbol \ {"ESC", "CAN"}, NEW i \in Nat, MarksMax \in Nat
  PROVE  ParsedWell(f, s, i, InGround(f, s, i))
<1>1. CASE s \in C0 \cup C1
  <2> DEFINE g == Execute(f, s, i)
  <2>1. InGround(f, s, i) = g
    BY <1>1 DEF InGround
  <2>2. /\ g \in FilterState /\ g.state = f.state /\ g.inter = f.inter
        /\ g.title = (f.title /\ s \notin {"BEL", "CAN"})
        /\ Silent(f, g) \/ ShowsControl(f, s, i, g)
    BY <1>1, ExecuteShows
  <2> HIDE DEF g
  <2>3. Collects(g) /\ Shows(f, s, i, g)
    BY <2>2 DEF Collects, Shows
  <2>4. Moves(f, s, g)
    BY <2>2 DEF Moves
  <2> QED
    BY <2>1, <2>2, <2>3, <2>4 DEF ParsedWell
<1>2. CASE s \notin C0 \cup C1
  <2>1. InGround(f, s, i) = PrintChar(f, s, i)
    BY <1>2 DEF InGround
  <2>2. "C1" \in C1
    BY DEF C1
  <2> QED
    BY <1>2, <2>1, <2>2, PrintParses
<1> QED
  BY <1>1, <1>2

(* A sequence ends, with or without intermediates.                           *)
LEMMA DispatchParses ==
  ASSUME NEW f \in FilterState, Collects(f), f.state \in {"escape", "escapeIntermediate"},
         NEW s \in Symbol \ (C0 \cup NotAscii \cup Intermediate \cup {"ESC", "CAN"}),
         f.state = "escape" => s \notin {"[", "]", "P", "_"},
         NEW i \in Nat
  PROVE  ParsedWell(f, s, i, EscDispatch(To(f, "ground"), s, i))
<1> DEFINE h == To(f, "ground")
           g == EscDispatch(h, s, i)
<1>1. /\ h \in FilterState /\ h.state = "ground" /\ h.inter = f.inter
      /\ SamePerformer(f, h) /\ SameSequence(f, h)
  BY ToMoves DEF ParserState
<1>2. s \in Symbol
  OBVIOUS
<1> HIDE DEF h
<1>3. /\ g \in FilterState /\ g.state = "ground" /\ g.inter = f.inter
      /\ Silent(h, g) \/ ShowsSequence(h, i, g)
      /\ h.inter # <<>> \/ s \notin {"k", "\\"} => g.title = h.title
      /\ h.inter = <<>> /\ s = "k" => g.title
  BY <1>1, <1>2, EscShows, ZenonT(60)
<1> HIDE DEF g
<1>4. Collects(g)
  BY <1>3 DEF Collects
<1>5. Shows(f, s, i, g)
  BY <1>1, <1>3, SameShows
<1>6. h.title = f.title
  BY <1>1 DEF SamePerformer
<1>7. Moves(f, s, g)
  BY <1>1, <1>3, <1>6 DEF Moves, Collects
<1> QED
  BY <1>3, <1>4, <1>5, <1>7 DEF ParsedWell, g, h

(* A control in the middle of a sequence is executed and the sequence goes on. *)
LEMMA ControlParses ==
  ASSUME NEW f \in FilterState, Collects(f), f.state \notin {"osc", "string"},
         NEW s \in C0, NEW i \in Nat
  PROVE  ParsedWell(f, s, i, Execute(f, s, i))
<1> DEFINE g == Execute(f, s, i)
<1>1. s \in Symbol /\ s \in C0 \cup C1 \cup {"CAN"}
  BY DEF Symbol
<1>2. /\ g \in FilterState /\ g.state = f.state /\ g.inter = f.inter
      /\ g.title = (f.title /\ s \notin {"BEL", "CAN"})
      /\ Silent(f, g) \/ ShowsControl(f, s, i, g)
  BY <1>1, ExecuteShows
<1> HIDE DEF g
<1>3. Collects(g) /\ Shows(f, s, i, g)
  BY <1>2 DEF Collects, Shows
<1>4. Moves(f, s, g)
  BY <1>1, <1>2, Kinds DEF Moves
<1> QED
  BY <1>2, <1>3, <1>4 DEF ParsedWell, g

(* Another character is ignored, and a string takes all that does not end it. *)
LEMMA IgnoredParses ==
  ASSUME NEW f \in FilterState, Collects(f), NEW s \in Symbol \ {"ESC", "CAN"}, NEW i \in Nat,
         f.state = "escape" => s \in NotAscii
  PROVE  ParsedWell(f, s, i, f)
<1>1. Shows(f, s, i, f)
  BY SilentSame DEF Shows
<1>2. Moves(f, s, f)
  BY Kinds DEF Moves
<1> QED
  BY <1>1, <1>2 DEF ParsedWell

(* The parser alone moves on.                                                *)
LEMMA QuietParses ==
  ASSUME NEW f \in FilterState, NEW g \in FilterState, NEW s \in Symbol, NEW i \in Nat,
         SamePerformer(f, g), Collects(g),
         g.state = "escape" <=> s = "ESC" \/ (f.state = "escape" /\ s \in C0 \cup NotAscii),
         f.state = "escape" =>
           /\ s = "]" => g.state = "osc"
           /\ s \in {"P", "_"} => g.state = "string"
           /\ s # "k",
         f.state \in {"osc", "string"} /\ s \notin {"ESC", "CAN"} =>
           (f.state = "osc" /\ s = "BEL") \/ g = f
  PROVE  ParsedWell(f, s, i, g)
<1>1. Shows(f, s, i, g)
  BY SameIsSilent
<1>2. Moves(f, s, g)
  BY DEF Moves, SamePerformer
<1> QED
  BY <1>1, <1>2 DEF ParsedWell

LEMMA EscapeParses ==
  ASSUME NEW f \in FilterState, Collects(f), f.state = "escape",
         NEW s \in Symbol \ {"ESC", "CAN"}, NEW i \in Nat
  PROVE  ParsedWell(f, s, i, InEscape(f, s, i))
<1>1. CASE s \in C0
  <2>1. InEscape(f, s, i) = Execute(f, s, i)
    BY <1>1 DEF InEscape, C0, C1, NotAscii, Wide, Intermediate
  <2> QED
    BY <1>1, <2>1, ControlParses
<1>2. CASE s \in NotAscii
  <2>1. InEscape(f, s, i) = f
    BY <1>2 DEF InEscape, C0, NotAscii, Wide, C1, Intermediate
  <2> QED
    BY <1>2, <2>1, IgnoredParses
<1>3. CASE s \in Intermediate
  <2> DEFINE h == Collect(f, s)
             g == To(h, "escapeIntermediate")
  <2>1. InEscape(f, s, i) = g
    BY <1>3 DEF InEscape, C0, C1, NotAscii, Wide, Intermediate
  <2>2. h \in FilterState /\ h.inter # <<>> /\ Len(h.inter) <= 2 /\ SamePerformer(f, h)
    BY <1>3, CollectAppends DEF Collects
  <2> HIDE DEF h
  <2>3. g \in FilterState /\ g.state = "escapeIntermediate" /\ g.inter = h.inter
        /\ SamePerformer(h, g)
    BY <2>2, ToMoves DEF ParserState
  <2> HIDE DEF g
  <2>4. SamePerformer(f, g) /\ Collects(g)
    BY <2>2, <2>3 DEF SamePerformer, Collects
  <2>5. s \notin C0 \cup NotAscii \cup Final
    BY <1>3, Kinds
  <2>6. ParsedWell(f, s, i, g)
    BY <2>3, <2>4, <2>5, Kinds, QuietParses
  <2> QED
    BY <2>1, <2>6
<1>4. CASE s = "["
  <2> DEFINE h == ResetParams(f)
             g == To(h, "csiEntry")
  <2>1. InEscape(f, s, i) = g
    BY <1>4 DEF InEscape, C0, C1, NotAscii, Wide, Intermediate
  <2>2. h \in FilterState /\ h.inter = <<>> /\ SamePerformer(f, h)
    BY ResetEmpties
  <2> HIDE DEF h
  <2>3. g \in FilterState /\ g.state = "csiEntry" /\ g.inter = <<>> /\ SamePerformer(h, g)
    BY <2>2, ToMoves DEF ParserState
  <2> HIDE DEF g
  <2>4. SamePerformer(f, g) /\ Collects(g)
    BY <2>2, <2>3, EmptySeq DEF SamePerformer, Collects
  <2>5. s \notin C0 \cup NotAscii \cup {"]", "P", "_", "k"}
    BY <1>4 DEF C0, NotAscii, Wide, C1
  <2>6. ParsedWell(f, s, i, g)
    BY <2>3, <2>4, <2>5, QuietParses
  <2> QED
    BY <2>1, <2>6
<1>5. CASE s \in {"]", "P", "_"}
  <2> DEFINE state == IF s = "]" THEN "osc" ELSE "string"
             g == To(f, state)
  <2>1. InEscape(f, s, i) = g
    BY <1>5 DEF InEscape, C0, C1, NotAscii, Wide, Intermediate
  <2>2. g \in FilterState /\ g.state = state /\ g.inter = f.inter /\ SamePerformer(f, g)
    BY ToMoves DEF ParserState
  <2> HIDE DEF g
  <2>3. Collects(g)
    BY <2>2 DEF Collects
  <2>4. s \notin C0 \cup NotAscii \cup {"k"}
    BY <1>5 DEF C0, NotAscii, Wide, C1
  <2>5. ParsedWell(f, s, i, g)
    BY <2>2, <2>3, <2>4, QuietParses
  <2> QED
    BY <2>1, <2>5
<1>6. CASE s \notin C0 \cup NotAscii \cup Intermediate \cup {"[", "]", "P", "_"}
  <2>1. InEscape(f, s, i) = EscDispatch(To(f, "ground"), s, i)
    BY <1>6 DEF InEscape
  <2> QED
    BY <1>6, <2>1, DispatchParses
<1> QED
  BY <1>1, <1>2, <1>3, <1>4, <1>5, <1>6

LEMMA EscapeIntermediateParses ==
  ASSUME NEW f \in FilterState, Collects(f), f.state = "escapeIntermediate",
         NEW s \in Symbol \ {"ESC", "CAN"}, NEW i \in Nat
  PROVE  ParsedWell(f, s, i, InEscapeIntermediate(f, s, i))
<1>1. CASE s \in C0
  <2>1. InEscapeIntermediate(f, s, i) = Execute(f, s, i)
    BY <1>1 DEF InEscapeIntermediate, C0, C1, NotAscii, Wide, Intermediate
  <2> QED
    BY <1>1, <2>1, ControlParses
<1>2. CASE s \in NotAscii
  <2>1. InEscapeIntermediate(f, s, i) = f
    BY <1>2 DEF InEscapeIntermediate, C0, NotAscii, Wide, C1, Intermediate
  <2> QED
    BY <1>2, <2>1, IgnoredParses
<1>3. CASE s \in Intermediate
  <2> DEFINE g == Collect(f, s)
  <2>1. InEscapeIntermediate(f, s, i) = g
    BY <1>3 DEF InEscapeIntermediate, C0, C1, NotAscii, Wide, Intermediate
  <2>2. /\ g \in FilterState /\ g.state = f.state /\ g.inter # <<>> /\ Len(g.inter) <= 2
        /\ SamePerformer(f, g)
    BY <1>3, CollectAppends DEF Collects
  <2> HIDE DEF g
  <2>3. Collects(g)
    BY <2>2 DEF Collects
  <2>4. ParsedWell(f, s, i, g)
    BY <2>2, <2>3, QuietParses
  <2> QED
    BY <2>1, <2>4
<1>4. CASE s \notin C0 \cup NotAscii \cup Intermediate
  <2>1. InEscapeIntermediate(f, s, i) = EscDispatch(To(f, "ground"), s, i)
    BY <1>4 DEF InEscapeIntermediate
  <2> QED
    BY <1>4, <2>1, DispatchParses
<1> QED
  BY <1>1, <1>2, <1>3, <1>4

LEMMA CsiParses ==
  ASSUME NEW f \in FilterState, Collects(f),
         f.state \in {"csiEntry", "csiParam", "csiIntermediate", "csiIgnore"},
         NEW s \in Symbol \ {"ESC", "CAN"}, NEW i \in Nat
  PROVE  ParsedWell(f, s, i, InCsi(f, s, i))
<1>1. CASE s \in C0
  <2>1. InCsi(f, s, i) = Execute(f, s, i)
    BY <1>1 DEF InCsi, C0, C1, NotAscii, Wide, Final
  <2> QED
    BY <1>1, <2>1, ControlParses
<1>2. CASE s \in NotAscii
  <2>1. InCsi(f, s, i) = f
    BY <1>2 DEF InCsi, C0, C1, NotAscii, Wide, Final
  <2> QED
    BY <1>2, <2>1, IgnoredParses
<1>3. CASE s \in Final
  <2> DEFINE h == To(f, "ground")
             g == CsiDispatch(h, s, i)
  <2>1. InCsi(f, s, i) = IF f.state = "csiIgnore" THEN h ELSE g
    BY <1>3 DEF InCsi, C0, C1, NotAscii, Wide, Final
  <2>2. /\ h \in FilterState /\ h.state = "ground" /\ h.inter = f.inter
        /\ SamePerformer(f, h) /\ SameSequence(f, h)
    BY ToMoves DEF ParserState
  <2> HIDE DEF h
  <2>3. /\ g \in FilterState /\ g.state = "ground" /\ g.inter = f.inter /\ g.title = h.title
        /\ Silent(h, g) \/ ShowsSequence(h, i, g)
    BY <1>3, <2>2, CsiShows
  <2> HIDE DEF g
  <2>4. h.title = f.title /\ Collects(g) /\ Collects(h)
    BY <2>2, <2>3 DEF SamePerformer, Collects
  <2>5. Shows(f, s, i, g) /\ Shows(f, s, i, h)
    BY <2>2, <2>3, SameShows, SameIsSilent
  <2>6. Moves(f, s, g) /\ Moves(f, s, h)
    BY <2>2, <2>3, <2>4 DEF Moves
  <2> QED
    BY <2>1, <2>2, <2>3, <2>4, <2>5, <2>6 DEF ParsedWell
<1>4. CASE s \notin C0 \cup NotAscii \cup Final
  <2> DEFINE g == MoreCsi(f, s)
  <2>1. InCsi(f, s, i) = g
    BY <1>4 DEF InCsi
  <2>2. g \in FilterState /\ SamePerformer(f, g) /\ Collects(g) /\ g.state # "escape"
    <3>1. CASE f.state = "csiIgnore"
      BY <3>1 DEF MoreCsi, SamePerformer
    <3>2. CASE f.state # "csiIgnore" /\ s \in Intermediate \cup Private
      <4> DEFINE h == Collect(f, s)
      <4>1. h \in FilterState /\ Len(h.inter) <= 2 /\ SamePerformer(f, h)
        BY <3>2, CollectAppends DEF Collects
      <4> HIDE DEF h
      <4>2. \A state \in {"csiIntermediate", "csiParam"} :
              /\ To(h, state) \in FilterState /\ To(h, state).state = state
              /\ To(h, state).inter = h.inter /\ SamePerformer(h, To(h, state))
        BY <4>1, ToMoves DEF ParserState
      <4>3. \/ g = To(h, "csiIntermediate")
            \/ g = To(h, "csiParam")
            \/ g = To(f, "csiIgnore")
        BY <3>2 DEF MoreCsi, h, Intermediate, Private, Parameter, Number, Separator
      <4>4. /\ To(f, "csiIgnore") \in FilterState /\ To(f, "csiIgnore").state = "csiIgnore"
            /\ To(f, "csiIgnore").inter = f.inter /\ SamePerformer(f, To(f, "csiIgnore"))
        BY ToMoves DEF ParserState
      <4> HIDE DEF g
      <4> QED
        BY <4>1, <4>2, <4>3, <4>4 DEF Collects, SamePerformer
    <3>3. CASE f.state # "csiIgnore" /\ s \notin Intermediate \cup Private /\ s \in Parameter
      <4> DEFINE h == AddParam(f, s)
      <4>1. h \in FilterState /\ h.inter = f.inter /\ SamePerformer(f, h)
        BY <3>3, AddParamAdds
      <4> HIDE DEF h
      <4>2. /\ To(h, "csiParam") \in FilterState /\ To(h, "csiParam").state = "csiParam"
            /\ To(h, "csiParam").inter = h.inter /\ SamePerformer(h, To(h, "csiParam"))
        BY <4>1, ToMoves DEF ParserState
      <4>3. g = To(h, "csiParam") \/ g = To(f, "csiIgnore")
        BY <3>3 DEF MoreCsi, h
      <4>4. /\ To(f, "csiIgnore") \in FilterState /\ To(f, "csiIgnore").state = "csiIgnore"
            /\ To(f, "csiIgnore").inter = f.inter /\ SamePerformer(f, To(f, "csiIgnore"))
        BY ToMoves DEF ParserState
      <4> HIDE DEF g
      <4> QED
        BY <4>1, <4>2, <4>3, <4>4 DEF Collects, SamePerformer
    <3>4. CASE /\ f.state # "csiIgnore"
               /\ s \notin Intermediate \cup Private /\ s \notin Parameter
      <4>1. g = To(f, "csiIgnore")
        BY <3>4 DEF MoreCsi
      <4>2. /\ g \in FilterState /\ g.state = "csiIgnore"
            /\ g.inter = f.inter /\ SamePerformer(f, g)
        BY <4>1, ToMoves DEF ParserState
      <4> HIDE DEF g
      <4> QED
        BY <4>2 DEF Collects
    <3> QED
      BY <3>1, <3>2, <3>3, <3>4
  <2> HIDE DEF g
  <2>3. ParsedWell(f, s, i, g)
    BY <2>2, QuietParses
  <2> QED
    BY <2>1, <2>3
<1> QED
  BY <1>1, <1>2, <1>3, <1>4

(* One symbol, whatever the parser is in the middle of.                      *)
LEMMA ParsesWell ==
  ASSUME NEW f \in FilterState, Collects(f), NEW s \in Symbol, NEW i \in Nat,
         MarksMax \in Nat
  PROVE  ParsedWell(f, s, i, Parsed(f, s, i))
<1>1. CASE s = "ESC"
  <2> DEFINE h == ResetParams(f)
             g == To(h, "escape")
  <2>1. Parsed(f, s, i) = g
    BY <1>1 DEF Parsed
  <2>2. h \in FilterState /\ h.inter = <<>> /\ SamePerformer(f, h)
    BY ResetEmpties
  <2> HIDE DEF h
  <2>3. g \in FilterState /\ g.state = "escape" /\ g.inter = <<>> /\ SamePerformer(h, g)
    BY <2>2, ToMoves DEF ParserState
  <2> HIDE DEF g
  <2>4. SamePerformer(f, g) /\ Collects(g)
    BY <2>2, <2>3, EmptySeq DEF SamePerformer, Collects
  <2>5. ParsedWell(f, s, i, g)
    BY <1>1, <2>3, <2>4, QuietParses
  <2> QED
    BY <2>1, <2>5
<1>2. CASE s = "CAN"
  <2> DEFINE h == To(f, "ground")
             g == Execute(h, s, i)
  <2>1. Parsed(f, s, i) = g
    BY <1>2 DEF Parsed
  <2>2. /\ h \in FilterState /\ h.state = "ground" /\ h.inter = f.inter
        /\ SamePerformer(f, h) /\ SameSequence(f, h)
    BY ToMoves DEF ParserState
  <2> HIDE DEF h
  <2>3. /\ g \in FilterState /\ g.state = "ground" /\ g.inter = f.inter
        /\ Silent(h, g) \/ ShowsControl(h, s, i, g)
    <3>1. s \in C0 \cup C1 \cup {"CAN"}
      BY <1>2
    <3> QED
      BY <2>2, <3>1, ExecuteShows
  <2> HIDE DEF g
  <2>4. Collects(g) /\ Shows(f, s, i, g)
    BY <2>2, <2>3, SameShows DEF Collects
  <2>5. Moves(f, s, g)
    BY <1>2, <2>3 DEF Moves, C0, NotAscii, Wide, C1
  <2> QED
    BY <2>1, <2>3, <2>4, <2>5 DEF ParsedWell
<1>3. CASE s \notin {"ESC", "CAN"} /\ f.state = "osc" /\ s = "BEL"
  <2> DEFINE g == To(f, "ground")
  <2>1. Parsed(f, s, i) = g
    BY <1>3 DEF Parsed
  <2>2. g \in FilterState /\ g.state = "ground" /\ g.inter = f.inter /\ SamePerformer(f, g)
    BY ToMoves DEF ParserState
  <2> HIDE DEF g
  <2>3. Collects(g)
    BY <2>2 DEF Collects
  <2>4. ParsedWell(f, s, i, g)
    BY <1>3, <2>2, <2>3, QuietParses
  <2> QED
    BY <2>1, <2>4
<1>4. CASE /\ s \notin {"ESC", "CAN"}
           /\ (f.state = "osc" /\ s # "BEL") \/ f.state = "string"
  <2>1. Parsed(f, s, i) = f
    BY <1>4 DEF Parsed
  <2> QED
    BY <1>4, <2>1, IgnoredParses
<1>5. CASE s \notin {"ESC", "CAN"} /\ f.state = "ground"
  <2>1. Parsed(f, s, i) = InGround(f, s, i)
    BY <1>5 DEF Parsed
  <2> QED
    BY <1>5, <2>1, GroundParses
<1>6. CASE s \notin {"ESC", "CAN"} /\ f.state = "escape"
  <2>1. Parsed(f, s, i) = InEscape(f, s, i)
    BY <1>6 DEF Parsed
  <2> QED
    BY <1>6, <2>1, EscapeParses
<1>7. CASE s \notin {"ESC", "CAN"} /\ f.state = "escapeIntermediate"
  <2>1. Parsed(f, s, i) = InEscapeIntermediate(f, s, i)
    BY <1>7 DEF Parsed
  <2> QED
    BY <1>7, <2>1, EscapeIntermediateParses
<1>8. CASE /\ s \notin {"ESC", "CAN"}
           /\ f.state \in {"csiEntry", "csiParam", "csiIntermediate", "csiIgnore"}
  <2>1. Parsed(f, s, i) = InCsi(f, s, i)
    BY <1>8 DEF Parsed
  <2> QED
    BY <1>8, <2>1, CsiParses
<1>9. f.state \in ParserState
  BY DEF FilterState
<1> QED
  BY <1>1, <1>2, <1>3, <1>4, <1>5, <1>6, <1>7, <1>8, <1>9 DEF ParserState

-------------------------------------------------------------------------------
(* What has been read of the text says what the parser is in the middle of.  *)

TitleGoesOn(m) ==
  /\ text[m] # "CAN"
  /\ text[m] = "BEL" => InString(m) \/ EndsOsc(m)
  /\ ~(text[m] = "\\" /\ AfterEsc(m))

FilterParts ==
  /\ alphabet \in Alphabets /\ text \in Seq(alphabet)
  /\ filter \in FilterState /\ Collects(filter)
  /\ taken \in 0 .. MaxChunk /\ length \in 0 .. MaxStringSequence
  /\ partial \in (alphabet \cap Wide) \cup {None}
  /\ partial # None => filter.state = "ground"
  /\ cut \subseteq 1 .. Len(text)

(* After an ESC, in a string and in a title the text and the state agree.    *)
StateFitsText ==
  /\ filter.state = "escape" <=> AfterEsc(Len(text) + 1)
  /\ \A k \in 1 .. Len(text) :
       Opens(k) /\ (\A m \in (k + 1) .. Len(text) : ~Closes(k, m)) =>
         filter.state = IF text[k] = "]" THEN "osc" ELSE "string"
  /\ \A k \in 1 .. Len(text) :
       text[k] = "k" /\ AfterEsc(k) /\ (\A m \in (k + 1) .. Len(text) : TitleGoesOn(m)) =>
         filter.title

OutputHasCause == \A n \in DOMAIN filter.out : filter.out[n].at \in 1 .. Len(text)

LEMMA Taken ==
  ASSUME NEW S, text \in Seq(S), NEW s \in S, text' = Append(text, s)
  PROVE  /\ text' \in Seq(S) /\ Len(text) \in Nat /\ Len(text') = Len(text) + 1
         /\ \A k \in 1 .. Len(text) : text'[k] = text[k]
         /\ text'[Len(text) + 1] = s
BY AppendProperties, LenProperties

LEMMA AfterEscKept ==
  ASSUME NEW S, text \in Seq(S), NEW s \in S, text' = Append(text, s),
         NEW n, n = Len(text)
  PROVE  /\ \A k \in 1 .. (n + 1) : AfterEsc(k)' <=> AfterEsc(k)
         /\ AfterEsc(n + 2)' <=> s = "ESC" \/ (AfterEsc(n + 1) /\ s \in C0 \cup NotAscii)
<1> DEFINE Quiet == C0 \cup NotAscii
<1>1. /\ n \in Nat /\ \A k \in 1 .. n : text'[k] = text[k]
      /\ text'[n + 1] = s
  BY Taken
<1>2. ASSUME NEW k \in 1 .. (n + 1)
      PROVE  AfterEsc(k)' <=> AfterEsc(k)
  BY <1>1 DEF AfterEsc
<1>3. n + 2 - 1 = n + 1 /\ n + 1 - 1 = n
  BY <1>1
<1>4. AfterEsc(n + 1) <=>
        \E j \in 1 .. n : text[j] = "ESC" /\ \A m \in (j + 1) .. n : text[m] \in Quiet
  BY <1>3 DEF AfterEsc
<1>5. AfterEsc(n + 2)' <=>
        \E j \in 1 .. (n + 1) :
          text'[j] = "ESC" /\ \A m \in (j + 1) .. (n + 1) : text'[m] \in Quiet
  BY <1>3 DEF AfterEsc
<1> HIDE DEF Quiet
<1>6. ASSUME s = "ESC"
      PROVE  AfterEsc(n + 2)'
  <2>1. n + 1 \in 1 .. (n + 1) /\ \A m \in (n + 1 + 1) .. (n + 1) : FALSE
    BY <1>1
  <2> QED
    BY <1>1, <1>5, <1>6, <2>1
<1>7. ASSUME AfterEsc(n + 1), s \in Quiet
      PROVE  AfterEsc(n + 2)'
  <2>1. PICK j \in 1 .. n : text[j] = "ESC" /\ \A m \in (j + 1) .. n : text[m] \in Quiet
    BY <1>4, <1>7
  <2>2. text'[j] = "ESC" /\ \A m \in (j + 1) .. (n + 1) : text'[m] \in Quiet
    BY <1>1, <1>7, <2>1
  <2>3. j \in 1 .. (n + 1)
    BY <1>1
  <2> QED
    BY <1>5, <2>2, <2>3
<1>8. ASSUME AfterEsc(n + 2)', s # "ESC"
      PROVE  AfterEsc(n + 1) /\ s \in Quiet
  <2>1. PICK j \in 1 .. (n + 1) :
          text'[j] = "ESC" /\ \A m \in (j + 1) .. (n + 1) : text'[m] \in Quiet
    BY <1>5, <1>8
  <2>2. j \in 1 .. n
    BY <1>1, <1>8, <2>1
  <2>3. s \in Quiet
    BY <1>1, <2>1, <2>2
  <2>4. text[j] = "ESC" /\ \A m \in (j + 1) .. n : text[m] \in Quiet
    BY <1>1, <2>1, <2>2
  <2> QED
    BY <1>4, <2>2, <2>3, <2>4
<1> QED
  BY <1>2, <1>6, <1>7, <1>8 DEF Quiet

LEMMA TextKept ==
  ASSUME NEW S, text \in Seq(S), NEW s \in S, text' = Append(text, s)
  PROVE  /\ \A k \in 1 .. Len(text) : Opens(k)' <=> Opens(k)
         /\ \A k, m \in 1 .. Len(text) : Closes(k, m)' <=> Closes(k, m)
         /\ \A m \in 1 .. Len(text) : InString(m)' <=> InString(m)
         /\ \A m \in 1 .. Len(text) : EndsOsc(m)' <=> EndsOsc(m)
         /\ \A m \in 1 .. Len(text) : TitleGoesOn(m)' <=> TitleGoesOn(m)
         /\ \A m \in 1 .. Len(text) : InTitle(m)' <=> InTitle(m)
<1> DEFINE N == Len(text)
<1>1. N \in Nat /\ \A k \in 1 .. N : text'[k] = text[k]
  BY Taken
<1>2. \A k \in 1 .. N : AfterEsc(k)' <=> AfterEsc(k)
  BY <1>1, AfterEscKept
<1>3. \A k \in 1 .. N : Opens(k)' <=> Opens(k)
  BY <1>1, <1>2 DEF Opens
<1>4. \A k, m \in 1 .. N : Closes(k, m)' <=> Closes(k, m)
  BY <1>1 DEF Closes
<1>5. ASSUME NEW m \in 1 .. N
      PROVE  InString(m)' <=> InString(m)
  <2>1. /\ 1 .. (m - 1) \subseteq 1 .. N
        /\ \A k \in 1 .. (m - 1) : (k + 1) .. m \subseteq 1 .. N
    BY <1>1
  <2> HIDE DEF N
  <2> QED
    BY <1>3, <1>4, <2>1 DEF InString
<1>6. ASSUME NEW m \in 1 .. N
      PROVE  EndsOsc(m)' <=> EndsOsc(m)
  BY <1>1, <1>3, <1>4 DEF EndsOsc
<1>7. ASSUME NEW m \in 1 .. N
      PROVE  TitleGoesOn(m)' <=> TitleGoesOn(m)
  BY <1>1, <1>2, <1>5, <1>6 DEF TitleGoesOn
<1>8. ASSUME NEW m \in 1 .. N
      PROVE  InTitle(m)' <=> InTitle(m)
  <2>1. InTitle(m) <=> \E k \in 1 .. (m - 1) :
          text[k] = "k" /\ AfterEsc(k) /\ \A j \in (k + 1) .. m : TitleGoesOn(j)
    BY DEF InTitle, TitleGoesOn
  <2>2. InTitle(m)' <=> \E k \in 1 .. (m - 1) :
          text'[k] = "k" /\ AfterEsc(k)' /\ \A j \in (k + 1) .. m : TitleGoesOn(j)'
    BY DEF InTitle, TitleGoesOn
  <2> QED
    BY <1>1, <1>2, <1>7, <2>1, <2>2
<1> QED
  BY <1>3, <1>4, <1>5, <1>6, <1>7, <1>8

-------------------------------------------------------------------------------
(* The next symbol, in one read or the rest of it in the next.               *)
TakesNext(s, n) ==
  /\ FilterParts /\ StateFitsText
  /\ s \in alphabet /\ n = Len(text)
  /\ text' = Append(text, s)
  /\ \/ filter' = Parsed(filter, s, n + 1)
     \/ /\ filter' = PrintChar(filter, s, n + 1)
        /\ s \in Wide /\ filter.state = "ground"

LEMMA NextParsed ==
  ASSUME NEW s, NEW n, TakesNext(s, n)
  PROVE  /\ n \in Nat /\ s \in Symbol /\ alphabet \subseteq Symbol /\ text \in Seq(Symbol)
         /\ Len(text') = n + 1 /\ text'[n + 1] = s
         /\ \A k \in 1 .. n : text'[k] = text[k]
         /\ filter \in FilterState /\ ParsedWell(filter, s, n + 1, filter')
<1>1. alphabet \subseteq Symbol /\ MarksMax \in Nat
  BY AnsiFilterAssumption DEF TakesNext, FilterParts
<1>2. text \in Seq(alphabet) /\ filter \in FilterState /\ Collects(filter) /\ s \in Symbol
  BY <1>1 DEF TakesNext, FilterParts
<1>3. text \in Seq(Symbol)
  BY <1>1, <1>2, SeqOfMore
<1>4. /\ n \in Nat /\ Len(text') = n + 1 /\ text'[n + 1] = s
      /\ \A k \in 1 .. n : text'[k] = text[k]
  BY <1>2, <1>3, Taken DEF TakesNext
<1>5. ParsedWell(filter, s, n + 1, Parsed(filter, s, n + 1))
  BY <1>1, <1>2, <1>4, ParsesWell
<1>6. s \in Wide /\ filter.state = "ground" =>
        ParsedWell(filter, s, n + 1, PrintChar(filter, s, n + 1))
  <2>1. s \in Wide => s \notin C0 \cup {"C1", "CAN", "ESC"}
    BY DEF Wide, C0
  <2> QED
    BY <1>1, <1>2, <1>4, <2>1, PrintParses
<1> QED
  BY <1>1, <1>2, <1>3, <1>4, <1>5, <1>6 DEF TakesNext

(* A symbol that a string swallows leaves everything as it is.               *)
LEMMA NextInString ==
  ASSUME NEW s, NEW n, TakesNext(s, n), NEW k \in 1 .. n, Opens(k)',
         \A m \in (k + 1) .. n : ~Closes(k, m)'
  PROVE  /\ filter.state = IF text[k] = "]" THEN "osc" ELSE "string"
         /\ ~Closes(k, n + 1)' => filter' = filter
<1>1. /\ n \in Nat /\ s \in Symbol /\ text \in Seq(Symbol)
      /\ Len(text') = n + 1 /\ text'[n + 1] = s
      /\ \A j \in 1 .. n : text'[j] = text[j]
      /\ ParsedWell(filter, s, n + 1, filter')
  BY NextParsed
<1>2. /\ n = Len(text) /\ text' = Append(text, s)
  BY DEF TakesNext
<1>3. Opens(k) /\ \A m \in (k + 1) .. n : ~Closes(k, m)
  BY <1>1, <1>2, TextKept
<1>4. filter.state = IF text[k] = "]" THEN "osc" ELSE "string"
  BY <1>2, <1>3 DEF TakesNext, StateFitsText
<1>5. ASSUME ~Closes(k, n + 1)'
      PROVE  filter' = filter
  <2>1. s \notin {"ESC", "CAN"} /\ ~(text[k] = "]" /\ s = "BEL")
    BY <1>1, <1>5 DEF Closes
  <2> QED
    BY <1>1, <1>4, <2>1 DEF ParsedWell, Moves
<1> QED
  BY <1>4, <1>5

LEMMA NextKeepsState ==
  ASSUME NEW s, NEW n, TakesNext(s, n)
  PROVE  StateFitsText'
<1>1. /\ n \in Nat /\ s \in Symbol /\ text \in Seq(Symbol)
      /\ Len(text') = n + 1 /\ text'[n + 1] = s
      /\ \A k \in 1 .. n : text'[k] = text[k]
      /\ filter \in FilterState /\ Moves(filter, s, filter')
  BY NextParsed DEF ParsedWell
<1>2. n = Len(text) /\ text' = Append(text, s) /\ StateFitsText
  BY DEF TakesNext
<1>3. AfterEsc(n + 1)' <=> AfterEsc(n + 1)
  BY <1>1, <1>2, AfterEscKept
<1>4. filter.state = "escape" <=> AfterEsc(n + 1)
  BY <1>2 DEF StateFitsText
<1>5. filter'.state = "escape" <=> AfterEsc(n + 2)'
  <2>1. AfterEsc(n + 2)' <=> s = "ESC" \/ (AfterEsc(n + 1) /\ s \in C0 \cup NotAscii)
    BY <1>1, <1>2, AfterEscKept
  <2> QED
    BY <1>1, <1>4, <2>1 DEF Moves
<1>6. ASSUME NEW k \in 1 .. (n + 1), Opens(k)',
             \A m \in (k + 1) .. (n + 1) : ~Closes(k, m)'
      PROVE  filter'.state = IF text'[k] = "]" THEN "osc" ELSE "string"
  <2>1. CASE k = n + 1
    BY <1>1, <1>3, <1>4, <1>6, <2>1 DEF Opens, Moves
  <2>2. CASE k \in 1 .. n
    <3>1. \A m \in (k + 1) .. n : ~Closes(k, m)'
      BY <1>1, <1>6, <2>2
    <3>2. ~Closes(k, n + 1)'
      BY <1>1, <1>6, <2>2
    <3>3. filter.state = (IF text[k] = "]" THEN "osc" ELSE "string") /\ filter' = filter
      BY <1>6, <2>2, <3>1, <3>2, NextInString
    <3> QED
      BY <1>1, <2>2, <3>3
  <2> QED
    BY <1>1, <2>1, <2>2
<1>7. ASSUME NEW k \in 1 .. (n + 1), text'[k] = "k", AfterEsc(k)',
             \A m \in (k + 1) .. (n + 1) : TitleGoesOn(m)'
      PROVE  filter'.title
  <2>1. CASE k = n + 1
    BY <1>1, <1>3, <1>4, <1>7, <2>1 DEF Moves
  <2>2. CASE k \in 1 .. n
    <3>1. /\ text[k] = "k" /\ AfterEsc(k)
          /\ \A m \in (k + 1) .. n : TitleGoesOn(m)
      <4>1. AfterEsc(k) <=> AfterEsc(k)'
        BY <1>1, <1>2, <2>2, AfterEscKept
      <4>2. \A m \in 1 .. n : TitleGoesOn(m)' <=> TitleGoesOn(m)
        BY <1>1, <1>2, TextKept
      <4> QED
        BY <1>1, <1>7, <2>2, <4>1, <4>2
    <3>2. filter.title
      BY <1>2, <2>2, <3>1 DEF StateFitsText
    <3>3. TitleGoesOn(n + 1)'
      BY <1>1, <1>7, <2>2
    <3>4. s # "CAN" /\ ~(s = "\\" /\ filter.state = "escape")
      BY <1>1, <1>3, <1>4, <3>3 DEF TitleGoesOn
    <3>5. ASSUME s = "BEL"
          PROVE  filter.state \in {"osc", "string"}
      <4>1. InString(n + 1)' \/ EndsOsc(n + 1)'
        BY <1>1, <3>3, <3>5 DEF TitleGoesOn
      <4>2. \E j \in 1 .. n : Opens(j)' /\ \A m \in (j + 1) .. n : ~Closes(j, m)'
        <5>1. n + 1 - 1 = n
          BY <1>1
        <5>2. CASE EndsOsc(n + 1)'
          BY <1>1, <5>1, <5>2 DEF EndsOsc
        <5>3. CASE InString(n + 1)'
          <6>1. \E j \in 1 .. n : Opens(j)' /\ \A m \in (j + 1) .. (n + 1) : ~Closes(j, m)'
            BY <1>1, <5>1, <5>3 DEF InString
          <6>2. \A j \in 1 .. n : (j + 1) .. n \subseteq (j + 1) .. (n + 1)
            BY <1>1
          <6> QED
            BY <6>1, <6>2
        <5> QED
          BY <4>1, <5>2, <5>3
      <4> QED
        BY <4>2, NextInString
    <3> QED
      BY <1>1, <3>2, <3>4, <3>5 DEF Moves, FilterState
  <2> QED
    BY <1>1, <2>1, <2>2
<1>8. n + 1 + 1 = n + 2
  BY <1>1
<1> QED
  BY <1>1, <1>5, <1>6, <1>7, <1>8 DEF StateFitsText

-------------------------------------------------------------------------------
(* What one symbol adds to the output.                                       *)
Added(symbols, f, g) ==
  \/ Len(symbols) = 0 /\ g.marks >= f.marks
  \/ Len(symbols) = 1 /\ symbols[1] \in C0 \cup {"CAN"} /\ g.marks = f.marks
  \/ /\ Len(symbols) = 1 /\ symbols[1] = "mark" /\ ~f.title
     /\ g.marks = f.marks + 1 /\ g.marks <= MarksMax
  \/ /\ Len(symbols) = 1 /\ symbols[1] \notin C0 \cup {"CAN", "mark"} /\ ~f.title
     /\ g.marks = 0
  \/ /\ Len(symbols) >= 2 /\ \A n \in 1 .. Len(symbols) : symbols[n] # "mark"
     /\ g.marks = f.marks

Grows(symbols, i, f, g) ==
  /\ symbols \in Seq(Symbol)
  /\ Len(g.out) = Len(f.out) + Len(symbols)
  /\ \A n \in 1 .. Len(f.out) : g.out[n] = f.out[n]
  /\ \A n \in 1 .. Len(symbols) : g.out[Len(f.out) + n] = [symbol |-> symbols[n], at |-> i]
  /\ Added(symbols, f, g)

LEMMA OutputGrows ==
  ASSUME NEW f \in FilterState, NEW g \in FilterState, NEW s \in Symbol, NEW i \in Nat,
         Shows(f, s, i, g)
  PROVE  \E symbols : Grows(symbols, i, f, g)
<1>1. f.out \in Seq(Output) /\ Len(f.out) \in Nat
  BY LenProperties DEF FilterState
<1>2. ASSUME NEW symbols \in Seq(Symbol), g.out = f.out \o Stamped(symbols, i),
             Added(symbols, f, g)
      PROVE  Grows(symbols, i, f, g)
  <2> DEFINE more == Stamped(symbols, i)
  <2>1. /\ more \in Seq(Output) /\ Len(more) = Len(symbols) /\ Len(symbols) \in Nat
        /\ \A n \in 1 .. Len(symbols) : more[n] = [symbol |-> symbols[n], at |-> i]
    BY StampedIsOutput, LenProperties
  <2> HIDE DEF more
  <2>2. /\ Len(f.out \o more) = Len(f.out) + Len(more)
        /\ \A n \in 1 .. (Len(f.out) + Len(more)) :
             (f.out \o more)[n] = IF n <= Len(f.out) THEN f.out[n] ELSE more[n - Len(f.out)]
    <3>1. \A S : \A a, b \in Seq(S) :
            /\ Len(a \o b) = Len(a) + Len(b)
            /\ \A n \in 1 .. (Len(a) + Len(b)) :
                 (a \o b)[n] = IF n <= Len(a) THEN a[n] ELSE b[n - Len(a)]
      BY ConcatProperties
    <3> QED
      BY <1>1, <2>1, <3>1
  <2>3. g.out = f.out \o more
    BY <1>2 DEF more
  <2>4. \A n \in 1 .. Len(f.out) : g.out[n] = f.out[n]
    BY <1>1, <2>1, <2>2, <2>3
  <2>5. \A n \in 1 .. Len(symbols) : g.out[Len(f.out) + n] = [symbol |-> symbols[n], at |-> i]
    BY <1>1, <2>1, <2>2, <2>3
  <2> QED
    BY <1>2, <2>1, <2>2, <2>3, <2>4, <2>5 DEF Grows
<1>3. <<s>> \in Seq(Symbol) /\ Len(<<s>>) = 1 /\ <<s>>[1] = s
  OBVIOUS
<1>4. CASE Silent(f, g)
  <2>1. <<>> \in Seq(Symbol) /\ Len(<<>>) = 0 /\ Added(<<>>, f, g)
    BY <1>4 DEF Silent, Added
  <2>2. Grows(<<>>, i, f, g)
    BY <1>1, <1>4, <2>1 DEF Silent, Grows
  <2> QED
    BY <2>2
<1>5. CASE ShowsControl(f, s, i, g)
  BY <1>2, <1>3, <1>5 DEF ShowsControl, Added
<1>6. CASE ShowsMark(f, s, i, g)
  BY <1>2, <1>3, <1>6 DEF ShowsMark, Added
<1>7. CASE ShowsCharacter(f, s, i, g)
  BY <1>2, <1>3, <1>7 DEF ShowsCharacter, Added
<1>8. CASE ShowsSequence(f, i, g)
  <2>1. PICK symbols \in Seq(Visible) :
          Len(symbols) >= 2 /\ g.out = f.out \o Stamped(symbols, i) /\ g.marks = f.marks
    BY <1>8 DEF ShowsSequence
  <2>2. symbols \in Seq(Symbol) /\ \A n \in 1 .. Len(symbols) : symbols[n] # "mark"
    BY SeqOfMore, ElementOfSeq DEF Visible
  <2> QED
    BY <1>2, <2>1, <2>2 DEF Added
<1> QED
  BY <1>4, <1>5, <1>6, <1>7, <1>8 DEF Shows

(* What the output's index says of the two states.                           *)
LEMMA NextGrows ==
  ASSUME NEW s, NEW n, TakesNext(s, n)
  PROVE  /\ \E symbols : Grows(symbols, n + 1, filter, filter')
         /\ filter.out \in Seq(Output) /\ DOMAIN filter.out = 1 .. Len(filter.out)
         /\ filter'.out \in Seq(Output) /\ DOMAIN filter'.out = 1 .. Len(filter'.out)
         /\ Len(filter.out) \in Nat /\ filter.marks \in Nat /\ filter'.marks \in Nat
<1>1. /\ n + 1 \in Nat /\ s \in Symbol /\ filter \in FilterState /\ filter' \in FilterState
      /\ Shows(filter, s, n + 1, filter')
  BY NextParsed DEF ParsedWell
<1>2. \E symbols : Grows(symbols, n + 1, filter, filter')
  BY <1>1, OutputGrows
<1>3. /\ filter.out \in Seq(Output) /\ filter'.out \in Seq(Output)
      /\ filter.marks \in Nat /\ filter'.marks \in Nat
  BY <1>1 DEF FilterState
<1> QED
  BY <1>2, <1>3, LenProperties

(* New output does not change what the old is.                               *)
LEMMA NextShown ==
  ASSUME NEW s, NEW n, TakesNext(s, n), OutputHasCause,
         NEW symbols, Grows(symbols, n + 1, filter, filter'),
         NEW L, L = Len(filter.out), NEW K, K = Len(symbols)
  PROVE  /\ OutputHasCause'
         /\ \A k \in 1 .. L : Shown(k)' <=> Shown(k)
         /\ \A k \in 1 .. K :
              Shown(L + k)' <=> K = 1 /\ symbols[1] \notin C0 \cup {"CAN"}
<1>1. /\ DOMAIN filter.out = 1 .. L /\ L \in Nat
      /\ DOMAIN filter'.out = 1 .. (L + K) /\ K \in Nat
      /\ \A m \in 1 .. L : filter'.out[m] = filter.out[m]
      /\ \A m \in 1 .. K :
           /\ filter'.out[L + m].symbol = symbols[m]
           /\ filter'.out[L + m].at = n + 1
  <2>1. /\ DOMAIN filter.out = 1 .. L /\ L \in Nat
        /\ DOMAIN filter'.out = 1 .. Len(filter'.out)
    BY NextGrows
  <2>2. /\ symbols \in Seq(Symbol) /\ Len(filter'.out) = L + K
        /\ \A m \in 1 .. L : filter'.out[m] = filter.out[m]
        /\ \A m \in 1 .. K : filter'.out[L + m] = [symbol |-> symbols[m], at |-> n + 1]
    BY DEF Grows
  <2>3. K \in Nat
    BY <2>2, LenProperties
  <2>4. \A m \in 1 .. K : /\ filter'.out[L + m].symbol = symbols[m]
                          /\ filter'.out[L + m].at = n + 1
    <3> SUFFICES ASSUME NEW m \in 1 .. K
                 PROVE  /\ filter'.out[L + m].symbol = symbols[m]
                        /\ filter'.out[L + m].at = n + 1
      OBVIOUS
    <3> DEFINE o == filter'.out[L + m]
    <3>1. o = [symbol |-> symbols[m], at |-> n + 1]
      BY <2>2
    <3> HIDE DEF o
    <3>2. o.symbol = symbols[m] /\ o.at = n + 1
      BY <3>1
    <3> QED
      BY <3>2 DEF o
  <2> QED
    BY <2>1, <2>2, <2>3, <2>4
<1>2. n \in Nat /\ n = Len(text) /\ Len(text') = n + 1
  BY NextParsed DEF TakesNext
<1>3. \A m \in 1 .. L : filter.out[m].at \in 1 .. n
  BY <1>1, <1>2 DEF OutputHasCause
<1>4. \A m \in 1 .. (L + K) : m \in 1 .. L \/ \E j \in 1 .. K : m = L + j
  <2> SUFFICES ASSUME NEW m \in 1 .. (L + K), m \notin 1 .. L
               PROVE  m - L \in 1 .. K /\ m = L + (m - L)
    OBVIOUS
  <2> QED
    BY <1>1
<1>5. OutputHasCause'
  <2> SUFFICES ASSUME NEW m \in 1 .. (L + K)
               PROVE  filter'.out[m].at \in 1 .. (n + 1)
    BY <1>1, <1>2 DEF OutputHasCause
  <2>1. CASE m \in 1 .. L
    BY <1>1, <1>2, <1>3, <2>1
  <2>2. CASE \E j \in 1 .. K : m = L + j
    <3>1. PICK j \in 1 .. K : m = L + j
      BY <2>2
    <3>2. filter'.out[m].at = n + 1
      BY <1>1, <3>1
    <3> QED
      BY <1>2, <3>2
  <2> QED
    BY <1>4, <2>1, <2>2
<1>6. ASSUME NEW k \in 1 .. L
      PROVE  Shown(k)' <=> Shown(k)
  <2>1. filter'.out[k] = filter.out[k] /\ filter.out[k].at \in 1 .. n
    BY <1>1, <1>3
  <2>2. \A j \in 1 .. K : filter'.out[L + j].at # filter'.out[k].at
    <3>1. filter.out[k].at # n + 1
      BY <1>2, <2>1
    <3> QED
      BY <1>1, <2>1, <3>1
  <2>3. (\A m \in 1 .. (L + K) \ {k} : filter'.out[m].at # filter'.out[k].at)
          <=> (\A m \in 1 .. L \ {k} : filter.out[m].at # filter.out[k].at)
    <3>1. ASSUME \A m \in 1 .. (L + K) \ {k} : filter'.out[m].at # filter'.out[k].at,
                 NEW m \in 1 .. L \ {k}
          PROVE  filter.out[m].at # filter.out[k].at
      <4>1. m \in 1 .. (L + K) \ {k} /\ filter'.out[m] = filter.out[m]
        BY <1>1
      <4> QED
        BY <2>1, <3>1, <4>1
    <3>2. ASSUME \A m \in 1 .. L \ {k} : filter.out[m].at # filter.out[k].at,
                 NEW m \in 1 .. (L + K) \ {k}
          PROVE  filter'.out[m].at # filter'.out[k].at
      <4>1. CASE m \in 1 .. L
        <5>1. filter'.out[m] = filter.out[m]
          BY <1>1, <4>1
        <5> QED
          BY <2>1, <3>2, <4>1, <5>1
      <4>2. CASE \E j \in 1 .. K : m = L + j
        BY <2>2, <4>2
      <4> QED
        BY <1>4, <4>1, <4>2
    <3> QED
      BY <3>1, <3>2
  <2> QED
    BY <1>1, <2>1, <2>3 DEF Shown
<1>7. ASSUME NEW k \in 1 .. K
      PROVE  Shown(L + k)' <=> K = 1 /\ symbols[1] \notin C0 \cup {"CAN"}
  <2>1. ASSUME Shown(L + k)'
        PROVE  K = 1 /\ symbols[1] \notin C0 \cup {"CAN"}
    <3>1. /\ filter'.out[L + k].symbol \notin C0 \cup {"CAN"}
          /\ \A m \in 1 .. (L + K) \ {L + k} : filter'.out[m].at # filter'.out[L + k].at
      BY <1>1, <2>1 DEF Shown
    <3>2. \A j \in 1 .. K : L + j \in 1 .. (L + K) /\ (L + j = L + k => j = k)
      BY <1>1
    <3>3. ASSUME NEW j \in 1 .. K, j # k
          PROVE  FALSE
      <4>1. L + j \in 1 .. (L + K) \ {L + k}
        BY <3>2, <3>3
      <4>2. filter'.out[L + j].at = n + 1 /\ filter'.out[L + k].at = n + 1
        BY <1>1
      <4> QED
        BY <3>1, <4>1, <4>2
    <3>4. K = 1 /\ k = 1
      <4>1. 1 \in 1 .. K /\ K \in 1 .. K
        BY <1>1
      <4> QED
        BY <3>3, <4>1
    <3> QED
      BY <1>1, <3>1, <3>4
  <2>2. ASSUME K = 1, symbols[1] \notin C0 \cup {"CAN"}
        PROVE  Shown(L + k)'
    <3>1. k = 1
      BY <2>2
    <3>2. filter'.out[L + k].symbol \notin C0 \cup {"CAN"}
      BY <1>1, <2>2, <3>1
    <3>3. ASSUME NEW m \in 1 .. (L + K), m # L + k
          PROVE  filter'.out[m].at # filter'.out[L + k].at
      <4>1. m \in 1 .. L
        BY <1>4, <2>2, <3>1, <3>3
      <4>2. filter.out[m].at # n + 1
        BY <1>2, <1>3, <4>1
      <4> QED
        BY <1>1, <4>1, <4>2
    <3> QED
      BY <1>1, <3>2, <3>3 DEF Shown
  <2> QED
    BY <2>1, <2>2
<1> QED
  BY <1>5, <1>6, <1>7

(* A string that is open shows nothing, a title that is open shows no character. *)
LEMMA NextIsSwallowed ==
  ASSUME NEW s, NEW n, TakesNext(s, n), OutputHasCause, StringsAreSwallowed
  PROVE  StringsAreSwallowed'
<1>1. PICK symbols : Grows(symbols, n + 1, filter, filter')
  BY NextGrows
<1>2. PICK L : L = Len(filter.out)
  OBVIOUS
<1>3. PICK K : K = Len(symbols)
  OBVIOUS
<1>4. /\ L \in Nat /\ K \in Nat /\ DOMAIN filter.out = 1 .. L
      /\ DOMAIN filter'.out = 1 .. (L + K)
      /\ \A k \in 1 .. L : filter'.out[k] = filter.out[k]
      /\ Added(symbols, filter, filter')
  BY <1>1, <1>2, <1>3, NextGrows, LenProperties DEF Grows
<1>5. \A k \in 1 .. K : filter'.out[L + k].at = n + 1
  <2> SUFFICES ASSUME NEW k \in 1 .. K
               PROVE  filter'.out[L + k].at = n + 1
    OBVIOUS
  <2> DEFINE o == filter'.out[L + k]
  <2>1. o = [symbol |-> symbols[k], at |-> n + 1]
    BY <1>1, <1>2, <1>3 DEF Grows
  <2> HIDE DEF o
  <2>2. o.at = n + 1
    BY <2>1
  <2> QED
    BY <2>2 DEF o
<1>6. /\ n \in Nat /\ n = Len(text) /\ text' = Append(text, s) /\ s \in alphabet
      /\ text \in Seq(alphabet) /\ text'[n + 1] = s /\ StateFitsText
  BY NextParsed DEF TakesNext, FilterParts
<1>7. /\ \A m \in 1 .. n : InString(m)' <=> InString(m)
      /\ \A m \in 1 .. n : InTitle(m)' <=> InTitle(m)
  BY <1>6, TextKept
<1>8. /\ \A k \in 1 .. L : Shown(k)' <=> Shown(k)
      /\ \A k \in 1 .. K : Shown(L + k)' <=> K = 1 /\ symbols[1] \notin C0 \cup {"CAN"}
  BY <1>1, <1>2, <1>3, NextShown
<1>9. ASSUME InString(n + 1)'
      PROVE  K = 0
  <2>1. PICK k \in 1 .. n : Opens(k)' /\ \A m \in (k + 1) .. (n + 1) : ~Closes(k, m)'
    <3>1. n + 1 - 1 = n
      BY <1>6
    <3> QED
      BY <1>6, <1>9, <3>1 DEF InString
  <2>2. (\A m \in (k + 1) .. n : ~Closes(k, m)') /\ ~Closes(k, n + 1)'
    BY <1>6, <2>1
  <2>3. filter' = filter
    BY <2>1, <2>2, NextInString
  <2>4. 1 .. L = 1 .. (L + K)
    BY <1>4, <2>3
  <2> QED
    <3>1. K > 0 => L + K \in 1 .. (L + K) /\ L + K \notin 1 .. L
      BY <1>4
    <3> QED
      BY <1>4, <2>4, <3>1
<1>10. InTitle(n + 1)' => filter.title
  <2> SUFFICES ASSUME InTitle(n + 1)'
               PROVE  filter.title
    OBVIOUS
  <2>1. InTitle(n + 1)' <=> \E k \in 1 .. n :
          text'[k] = "k" /\ AfterEsc(k)' /\ \A j \in (k + 1) .. (n + 1) : TitleGoesOn(j)'
    <3>1. n + 1 - 1 = n
      BY <1>6
    <3> QED
      BY <1>6, <3>1 DEF InTitle, TitleGoesOn
  <2>2. PICK k \in 1 .. n :
          text'[k] = "k" /\ AfterEsc(k)' /\ \A j \in (k + 1) .. (n + 1) : TitleGoesOn(j)'
    BY <2>1
  <2>3. /\ \A j \in 1 .. n : TitleGoesOn(j)' <=> TitleGoesOn(j)
        /\ AfterEsc(k)' <=> AfterEsc(k)
        /\ text'[k] = text[k]
    BY <1>6, TextKept, AfterEscKept, NextParsed
  <2>4. text[k] = "k" /\ AfterEsc(k) /\ \A j \in (k + 1) .. n : TitleGoesOn(j)
    BY <1>6, <2>2, <2>3
  <2> QED
    BY <1>6, <2>4 DEF StateFitsText
<1>11. ASSUME NEW m \in 1 .. L
       PROVE  /\ ~InString(filter.out[m].at)'
              /\ Shown(m)' => ~InTitle(filter.out[m].at)'
  <2> DEFINE at == filter.out[m].at
  <2>1. at \in 1 .. n /\ ~InString(at) /\ (Shown(m) => ~InTitle(at))
    BY <1>4, <1>6, <1>11 DEF OutputHasCause, StringsAreSwallowed
  <2>2. filter'.out[m].at = at
    BY <1>4
  <2> HIDE DEF at
  <2>3. PICK a \in 1 .. n : a = at
    BY <2>1
  <2>4. ~InString(a)' /\ (Shown(m)' => ~InTitle(a)')
    BY <1>7, <1>8, <2>1, <2>3
  <2> QED
    BY <2>2, <2>3, <2>4 DEF InString, InTitle
<1>12. ASSUME NEW k \in 1 .. K
       PROVE  ~InString(n + 1)' /\ (Shown(L + k)' => ~InTitle(n + 1)')
  <2>1. K # 0
    BY <1>4
  <2>2. ASSUME Shown(L + k)'
        PROVE  ~filter.title
    <3>1. K = 1 /\ symbols[1] \notin C0 \cup {"CAN"}
      BY <1>8, <2>2
    <3> QED
      BY <1>3, <1>4, <3>1 DEF Added
  <2> QED
    BY <1>9, <1>10, <2>1, <2>2
<1>13. ASSUME NEW m \in 1 .. (L + K)
       PROVE  /\ ~InString(filter.out[m].at)'
              /\ Shown(m)' => ~InTitle(filter.out[m].at)'
  <2>1. CASE m \in 1 .. L
    BY <1>11, <2>1
  <2>2. CASE m \notin 1 .. L
    <3>1. PICK k \in 1 .. K : m = L + k
      <4>1. m - L \in 1 .. K /\ m = L + (m - L)
        BY <1>4, <2>2
      <4> QED
        BY <4>1
    <3>2. filter'.out[m].at = n + 1
      BY <1>5, <3>1
    <3>3. ~InString(n + 1)' /\ (Shown(L + k)' => ~InTitle(n + 1)')
      BY <1>12
    <3> QED
      BY <3>1, <3>2, <3>3 DEF InString, InTitle
  <2> QED
    BY <2>1, <2>2
<1> QED
  BY <1>4, <1>13 DEF StringsAreSwallowed

-------------------------------------------------------------------------------
(* Combining marks.                                                          *)
MarksOf(n, m) == {k \in n .. m : filter.out[k].symbol = "mark"}
NoneShown(n, m) == \A k \in n .. m : filter.out[k].symbol # "mark" => ~Shown(k)

(* The counter never falls behind the marks since the last shown character.  *)
MarksAreCounted ==
  \A n \in 1 .. (Len(filter.out) + 1) :
    NoneShown(n, Len(filter.out)) =>
      /\ Cardinality(MarksOf(n, Len(filter.out))) <= filter.marks
      /\ Cardinality(MarksOf(n, Len(filter.out))) <= MarksMax

LEMMA MarksAreFinite ==
  ASSUME NEW n \in Nat, NEW m \in Nat
  PROVE  IsFiniteSet(MarksOf(n, m)) /\ Cardinality(MarksOf(n, m)) \in Nat
<1>1. IsFiniteSet(n .. m)
  BY FS_Interval
<1>2. MarksOf(n, m) \subseteq n .. m
  BY DEF MarksOf
<1> QED
  BY <1>1, <1>2, FS_Subset, FS_CardinalityType

LEMMA OneMore ==
  ASSUME NEW S, IsFiniteSet(S), NEW x
  PROVE  Cardinality(S \cup {x}) \in Nat /\ Cardinality(S \cup {x}) <= Cardinality(S) + 1
<1>1. Cardinality(S) \in Nat
  BY FS_CardinalityType
<1>2. Cardinality(S \cup {x}) = IF x \in S THEN Cardinality(S) ELSE Cardinality(S) + 1
  BY FS_AddElement
<1> QED
  BY <1>1, <1>2

LEMMA NextMarks ==
  ASSUME NEW s, NEW n, TakesNext(s, n), OutputHasCause, MarksAreCounted, MarksAreFew
  PROVE  MarksAreCounted' /\ MarksAreFew'
<1>1. PICK symbols : Grows(symbols, n + 1, filter, filter')
  BY NextGrows
<1>2. PICK L : L = Len(filter.out)
  OBVIOUS
<1>3. PICK K : K = Len(symbols)
  OBVIOUS
<1>4. /\ L \in Nat /\ K \in Nat /\ DOMAIN filter.out = 1 .. L
      /\ DOMAIN filter'.out = 1 .. (L + K) /\ Len(filter'.out) = L + K
      /\ \A k \in 1 .. L : filter'.out[k] = filter.out[k]
      /\ Added(symbols, filter, filter')
      /\ filter.marks \in Nat /\ filter'.marks \in Nat
  BY <1>1, <1>2, <1>3, NextGrows, LenProperties DEF Grows
<1>5. \A k \in 1 .. K : filter'.out[L + k].symbol = symbols[k]
  <2> SUFFICES ASSUME NEW k \in 1 .. K
               PROVE  filter'.out[L + k].symbol = symbols[k]
    OBVIOUS
  <2> DEFINE o == filter'.out[L + k]
  <2>1. o = [symbol |-> symbols[k], at |-> n + 1]
    BY <1>1, <1>2, <1>3 DEF Grows
  <2> HIDE DEF o
  <2>2. o.symbol = symbols[k]
    BY <2>1
  <2> QED
    BY <2>2 DEF o
<1>6. /\ \A k \in 1 .. L : Shown(k)' <=> Shown(k)
      /\ \A k \in 1 .. K : Shown(L + k)' <=> K = 1 /\ symbols[1] \notin C0 \cup {"CAN"}
  BY <1>1, <1>2, <1>3, NextShown
<1>7. MarksMax \in Nat
  BY AnsiFilterAssumption
<1>8. \A a, b \in Nat : b <= L /\ a >= 1 => MarksOf(a, b)' = MarksOf(a, b)
  <2> SUFFICES ASSUME NEW a \in Nat, NEW b \in Nat, b <= L, a >= 1
               PROVE  {k \in a .. b : filter'.out[k].symbol = "mark"}
                        = {k \in a .. b : filter.out[k].symbol = "mark"}
    BY DEF MarksOf
  <2>1. \A k \in a .. b : filter'.out[k] = filter.out[k]
    BY <1>4
  <2> QED
    BY <2>1
<1>9. \A a \in 1 .. (L + 1), b \in Nat : b >= L /\ NoneShown(a, b)' => NoneShown(a, L)
  <2> SUFFICES ASSUME NEW a \in 1 .. (L + 1), NEW b \in Nat, b >= L, NoneShown(a, b)',
                      NEW k \in a .. L, filter.out[k].symbol # "mark"
               PROVE  ~Shown(k)
    BY DEF NoneShown
  <2>1. k \in a .. b /\ k \in 1 .. L /\ filter'.out[k] = filter.out[k]
    BY <1>4
  <2>2. ~Shown(k)'
    BY <2>1 DEF NoneShown
  <2> QED
    BY <1>6, <2>1, <2>2
<1>10. \A a \in 1 .. (L + 1) :
         NoneShown(a, L) =>
           /\ Cardinality(MarksOf(a, L)) <= filter.marks
           /\ Cardinality(MarksOf(a, L)) <= MarksMax
  BY <1>2 DEF MarksAreCounted
(* Nothing new is a mark: the marks up to any new place are the old ones.    *)
<1>11. ASSUME \A k \in 1 .. K : symbols[k] # "mark",
              NEW a \in 1 .. (L + K + 1), NEW b \in L .. (L + K)
       PROVE  MarksOf(a, b)' = MarksOf(a, L)
  <2>1. \A k \in a .. b : k \in 1 .. L \/ \E j \in 1 .. K : k = L + j
    <3> SUFFICES ASSUME NEW k \in a .. b, k \notin 1 .. L
                 PROVE  k - L \in 1 .. K /\ k = L + (k - L)
      OBVIOUS
    <3> QED
      BY <1>4
  <2>2. \A k \in a .. b : filter'.out[k].symbol = "mark" => k \in a .. L
    <3> SUFFICES ASSUME NEW k \in a .. b, filter'.out[k].symbol = "mark"
                 PROVE  k \in 1 .. L
      BY <1>4
    <3> QED
      BY <1>5, <1>11, <2>1
  <2>3. a .. L \subseteq a .. b /\ a .. L \subseteq 1 .. L
    BY <1>4
  <2>4. \A k \in a .. L : filter'.out[k] = filter.out[k]
    BY <1>4, <2>3
  <2>5. {k \in a .. b : filter'.out[k].symbol = "mark"}
          = {k \in a .. L : filter.out[k].symbol = "mark"}
    BY <2>2, <2>3, <2>4
  <2> QED
    BY <2>5 DEF MarksOf
<1>12. ASSUME NEW a \in 1 .. (L + K + 1), NoneShown(a, L + K)'
       PROVE  /\ Cardinality(MarksOf(a, L + K)') <= filter'.marks
              /\ Cardinality(MarksOf(a, L + K)') <= MarksMax
  <2>1. a \in Nat /\ L + K \in Nat /\ L + K \in L .. (L + K)
    BY <1>4
  <2>2. CASE a \in 1 .. (L + 1) /\ \A k \in 1 .. K : symbols[k] # "mark"
    <3>1. NoneShown(a, L) /\ MarksOf(a, L + K)' = MarksOf(a, L)
      BY <1>4, <1>9, <1>11, <1>12, <2>1, <2>2
    <3>2. Cardinality(MarksOf(a, L)) <= filter.marks /\ Cardinality(MarksOf(a, L)) <= MarksMax
      BY <1>10, <2>2, <3>1
    <3>3. Cardinality(MarksOf(a, L)) \in Nat
      BY <1>4, <2>1, MarksAreFinite
    <3>4. filter'.marks >= filter.marks
      <4>1. CASE K = 1 /\ symbols[1] \notin C0 \cup {"CAN", "mark"}
        <5>1. L + 1 \in a .. (L + K) /\ filter'.out[L + 1].symbol # "mark"
          BY <1>4, <1>5, <2>2, <4>1
        <5>2. Shown(L + 1)'
          BY <1>6, <4>1
        <5> QED
          BY <1>12, <5>1, <5>2 DEF NoneShown
      <4>2. CASE ~(K = 1 /\ symbols[1] \notin C0 \cup {"CAN", "mark"})
        BY <1>3, <1>4, <4>2 DEF Added
      <4> QED
        BY <4>1, <4>2
    <3> QED
      BY <1>4, <3>1, <3>2, <3>3, <3>4
  <2>3. CASE a \in 1 .. (L + 1) /\ \E k \in 1 .. K : symbols[k] = "mark"
    <3>1. /\ K = 1 /\ symbols[1] = "mark"
          /\ filter'.marks = filter.marks + 1 /\ filter'.marks <= MarksMax
      <4>1. K # 0
        BY <1>4, <2>3
      <4>2. K = 1 => symbols[1] = "mark"
        BY <2>3
      <4>3. "mark" \notin C0 \cup {"CAN"}
        BY DEF C0
      <4> QED
        BY <1>3, <1>4, <2>3, <4>1, <4>2, <4>3 DEF Added
    <3>2. NoneShown(a, L)
      BY <1>4, <1>9, <1>12, <2>1, <2>3
    <3>3. Cardinality(MarksOf(a, L)) <= filter.marks
      BY <1>10, <2>3, <3>2
    <3>4. MarksOf(a, L + K)' = MarksOf(a, L) \cup {L + 1}
      <4>1. a .. (L + K) = (a .. L) \cup {L + 1}
        BY <1>4, <2>3, <3>1
      <4>2. filter'.out[L + 1].symbol = "mark"
        BY <1>5, <3>1
      <4>3. \A k \in a .. L : filter'.out[k] = filter.out[k]
        BY <1>4, <2>3
      <4>4. {k \in a .. (L + K) : filter'.out[k].symbol = "mark"}
              = {k \in a .. L : filter.out[k].symbol = "mark"} \cup {L + 1}
        BY <4>1, <4>2, <4>3
      <4> QED
        BY <4>4 DEF MarksOf
    <3>5. IsFiniteSet(MarksOf(a, L)) /\ Cardinality(MarksOf(a, L)) \in Nat
      BY <1>4, <2>1, MarksAreFinite
    <3>6. /\ Cardinality(MarksOf(a, L + K)') \in Nat
          /\ Cardinality(MarksOf(a, L + K)') <= Cardinality(MarksOf(a, L)) + 1
      BY <3>4, <3>5, OneMore
    <3>7. Cardinality(MarksOf(a, L + K)') <= filter'.marks
      BY <1>4, <3>1, <3>3, <3>5, <3>6
    <3> QED
      BY <1>4, <1>7, <3>1, <3>6, <3>7
  <2>4. CASE a \notin 1 .. (L + 1)
    <3>1. MarksOf(a, L + K)' = {}
      <4>1. CASE K < 2
        BY <1>4, <2>4, <4>1 DEF MarksOf
      <4>2. CASE K >= 2
        <5>1. \A k \in 1 .. K : symbols[k] # "mark"
          <6>1. Len(symbols) >= 2 /\ ~(Len(symbols) = 0) /\ ~(Len(symbols) = 1)
            BY <1>3, <1>4, <4>2
          <6> QED
            BY <1>3, <1>4, <6>1 DEF Added
        <5>2. MarksOf(a, L + K)' = MarksOf(a, L)
          BY <1>11, <2>1, <5>1
        <5>3. a .. L = {}
          BY <1>4, <2>4
        <5> QED
          BY <5>2, <5>3 DEF MarksOf
      <4> QED
        BY <1>4, <4>1, <4>2
    <3>2. Cardinality(MarksOf(a, L + K)') = 0
      BY <3>1, FS_EmptySet
    <3> QED
      BY <1>4, <1>7, <3>2
  <2> QED
    BY <1>4, <2>2, <2>3, <2>4
<1>13. MarksAreCounted'
  <2> SUFFICES ASSUME NEW a \in 1 .. (L + K + 1), NoneShown(a, Len(filter.out))'
               PROVE  /\ Cardinality(MarksOf(a, Len(filter.out)))' <= filter'.marks
                      /\ Cardinality(MarksOf(a, Len(filter.out)))' <= MarksMax
    BY <1>4 DEF MarksAreCounted
  <2>1. NoneShown(a, L + K)'
    BY <1>4 DEF NoneShown
  <2>2. /\ Cardinality(MarksOf(a, L + K)') <= filter'.marks
        /\ Cardinality(MarksOf(a, L + K)') <= MarksMax
    BY <1>12, <2>1
  <2> QED
    BY <1>4, <2>2 DEF MarksOf
<1>14. ASSUME NEW a \in 1 .. (L + K), NEW b \in 1 .. (L + K), NoneShown(a, b)'
       PROVE  Cardinality(MarksOf(a, b)') <= MarksMax
  <2>1. CASE b <= L
    <3>1. MarksOf(a, b)' = MarksOf(a, b)
      BY <1>4, <1>8, <2>1
    <3>2. NoneShown(a, b)
      <4> SUFFICES ASSUME NEW k \in a .. b, filter.out[k].symbol # "mark"
                   PROVE  ~Shown(k)
        BY DEF NoneShown
      <4>1. k \in 1 .. L /\ filter'.out[k] = filter.out[k]
        BY <1>4, <2>1
      <4>2. ~Shown(k)'
        BY <1>14, <4>1 DEF NoneShown
      <4> QED
        BY <1>6, <4>1, <4>2
    <3>3. CASE a <= L
      <4>1. a \in DOMAIN filter.out /\ b \in DOMAIN filter.out
        BY <1>4, <2>1, <3>3
      <4>2. Cardinality(MarksOf(a, b)) > MarksMax
              => \E k \in (a .. b) \ MarksOf(a, b) : Shown(k)
        BY <4>1 DEF MarksAreFew, MarksOf
      <4>3. \A k \in (a .. b) \ MarksOf(a, b) : ~Shown(k)
        BY <3>2 DEF NoneShown, MarksOf
      <4>4. Cardinality(MarksOf(a, b)) \in Nat
        BY MarksAreFinite
      <4> QED
        BY <1>7, <3>1, <4>2, <4>3, <4>4
    <3>4. CASE a > L
      <4>1. MarksOf(a, b) = {}
        BY <1>4, <2>1, <3>4 DEF MarksOf
      <4> QED
        BY <1>7, <3>1, <4>1, FS_EmptySet
    <3> QED
      BY <1>4, <3>3, <3>4
  <2>2. CASE b = L + K
    BY <1>4, <1>12, <1>14, <2>2
  <2>3. CASE b > L /\ b # L + K
    <3>1. K >= 2
      BY <1>4, <2>3
    <3>2. \A k \in 1 .. K : symbols[k] # "mark"
      <4>1. Len(symbols) >= 2 /\ Len(symbols) # 0 /\ Len(symbols) # 1
        BY <1>3, <3>1
      <4>2. \A k \in 1 .. Len(symbols) : symbols[k] # "mark"
        BY <1>4, <4>1, Zenon DEF Added
      <4> QED
        BY <1>3, <4>2, Zenon
    <3>3. MarksOf(a, b)' = MarksOf(a, L)
      BY <1>4, <1>11, <2>3, <3>2
    <3>4. CASE a \in 1 .. (L + 1)
      <4>1. NoneShown(a, L)
        <5>1. b \in Nat /\ b >= L
          BY <1>4, <2>3
        <5> QED
          BY <1>9, <1>14, <3>4, <5>1
      <4> QED
        BY <1>10, <3>3, <3>4, <4>1
    <3>5. CASE a \notin 1 .. (L + 1)
      <4>1. MarksOf(a, L) = {}
        BY <1>4, <3>5 DEF MarksOf
      <4> QED
        BY <1>7, <3>3, <4>1, FS_EmptySet
    <3> QED
      BY <3>4, <3>5
  <2> QED
    BY <1>4, <2>1, <2>2, <2>3
<1>15. MarksAreFew'
  <2> SUFFICES ASSUME NEW a \in 1 .. (L + K), NEW b \in 1 .. (L + K),
                      Cardinality(MarksOf(a, b)') > MarksMax
               PROVE  \E k \in (a .. b) \ MarksOf(a, b)' : Shown(k)'
    BY <1>4 DEF MarksAreFew, MarksOf
  <2>1. Cardinality(MarksOf(a, b)') \in Nat
    <3>1. IsFiniteSet(a .. b) /\ MarksOf(a, b)' \subseteq a .. b
      BY FS_Interval DEF MarksOf
    <3> QED
      BY <3>1, FS_Subset, FS_CardinalityType
  <2>2. ~NoneShown(a, b)'
    BY <1>7, <1>14, <2>1
  <2> QED
    BY <2>2 DEF NoneShown, MarksOf
<1> QED
  BY <1>13, <1>15

-------------------------------------------------------------------------------
(* All that the theorems rest on, one symbol after the other.                *)
FilterInv ==
  /\ FilterParts /\ StateFitsText /\ OutputHasCause
  /\ StringsAreSwallowed /\ MarksAreCounted /\ MarksAreFew

LEMMA FilterStarts ==
  FilterInit => FilterInv
<1> SUFFICES ASSUME FilterInit
             PROVE  FilterInv
  OBVIOUS
<1>1. /\ alphabet \in Alphabets /\ text = <<>> /\ filter = Fresh /\ taken = 0 /\ length = 0
      /\ partial = None /\ cut = {}
      /\ MarksMax \in Nat /\ MaxChunk \in Nat /\ MaxStringSequence \in Nat
  BY AnsiFilterAssumption DEF FilterInit
<1>2. /\ Fresh.state = "ground" /\ Fresh.inter = <<>> /\ Fresh.out = <<>>
      /\ Fresh.marks = 0 /\ Fresh \in FilterState
  <2>1. <<"0">> \in Seq(Parameter)
    <3>1. "0" \in Parameter
      BY DEF Parameter, Number
    <3> HIDE DEF Parameter
    <3> QED BY <3>1
  <2> HIDE DEF Parameter, Intermediate, Private, Output
  <2>2. <<>> \in Seq(Intermediate \cup Private) /\ <<>> \in Seq(Output)
    OBVIOUS
  <2> QED
    BY <2>1, <2>2 DEF Fresh, FilterState, ParserState
<1>3. Len(text) = 0 /\ text \in Seq(alphabet) /\ DOMAIN filter.out = {}
  BY <1>1, <1>2
<1>4. FilterParts
  BY <1>1, <1>2, <1>3 DEF FilterParts, Collects
<1>5. StateFitsText
  BY <1>1, <1>2, <1>3 DEF StateFitsText, AfterEsc
<1>6. OutputHasCause /\ StringsAreSwallowed /\ MarksAreFew
  BY <1>3 DEF OutputHasCause, StringsAreSwallowed, MarksAreFew
<1>7. MarksAreCounted
  <2>1. Len(filter.out) = 0 /\ filter.marks = 0
    BY <1>1, <1>2
  <2>2. \A n \in 1 .. 1 : MarksOf(n, 0) = {}
    BY DEF MarksOf
  <2> QED
    BY <1>1, <2>1, <2>2, FS_EmptySet DEF MarksAreCounted
<1> QED
  BY <1>4, <1>5, <1>6, <1>7 DEF FilterInv

(* Where a read ends the filter's state stays what it was.                   *)
LEMMA ReadEnds ==
  ASSUME FilterInv, text' = text, filter' = filter
  PROVE  /\ StateFitsText' /\ OutputHasCause' /\ StringsAreSwallowed'
         /\ MarksAreCounted' /\ MarksAreFew'
<1>1. \A k : AfterEsc(k)' <=> AfterEsc(k)
  BY DEF AfterEsc
<1>2. /\ \A k : Opens(k)' <=> Opens(k)
      /\ \A k, m : Closes(k, m)' <=> Closes(k, m)
  BY <1>1 DEF Opens, Closes
<1>3. \A m : InString(m)' <=> InString(m)
  BY <1>2 DEF InString
<1>4. \A m : EndsOsc(m)' <=> EndsOsc(m)
  BY <1>2 DEF EndsOsc
<1>5. \A m : TitleGoesOn(m)' <=> TitleGoesOn(m)
  BY <1>1, <1>3, <1>4 DEF TitleGoesOn
<1>6. \A m : InTitle(m)' <=> InTitle(m)
  BY <1>1, <1>3, <1>4 DEF InTitle
<1>7. \A n : Shown(n)' <=> Shown(n)
  BY DEF Shown
<1>8. StateFitsText'
  <2> DEFINE N == Len(text) + 1
  <2>1. PICK n : n = N
    OBVIOUS
  <2>2. StateFitsText
    BY DEF FilterInv
  <2>3. filter'.state = "escape" <=> AfterEsc(n)'
    BY <1>1, <2>1, <2>2 DEF StateFitsText
  <2>4. (AfterEsc(Len(text) + 1))' <=> AfterEsc(n)'
    BY <2>1 DEF AfterEsc
  <2> QED
    BY <1>1, <1>2, <1>5, <2>2, <2>3, <2>4 DEF StateFitsText
<1>9. OutputHasCause'
  BY DEF FilterInv, OutputHasCause
<1>10. StringsAreSwallowed'
  <2> SUFFICES ASSUME NEW n \in DOMAIN filter.out
               PROVE  /\ ~InString(filter.out[n].at)'
                      /\ Shown(n)' => ~InTitle(filter.out[n].at)'
    BY DEF StringsAreSwallowed
  <2>1. PICK i : i = filter.out[n].at
    OBVIOUS
  <2>2. ~InString(i)' /\ (Shown(n)' => ~InTitle(i)')
    BY <1>3, <1>6, <1>7, <2>1 DEF FilterInv, StringsAreSwallowed
  <2>3. filter'.out[n].at = i
    BY <2>1
  <2> QED
    BY <2>2, <2>3 DEF InString, InTitle
<1>11. /\ \A n, m : MarksOf(n, m)' = MarksOf(n, m)
       /\ \A n, m : NoneShown(n, m)' <=> NoneShown(n, m)
  BY <1>7 DEF MarksOf, NoneShown
<1>12. MarksAreCounted'
  <2>1. PICK n : n = Len(filter.out)
    OBVIOUS
  <2>2. \A k \in 1 .. (n + 1) :
          NoneShown(k, n)' => /\ Cardinality(MarksOf(k, n)') <= filter.marks
                              /\ Cardinality(MarksOf(k, n)') <= MarksMax
    BY <1>11, <2>1 DEF FilterInv, MarksAreCounted
  <2>3. /\ \A k : (NoneShown(k, Len(filter.out)))' <=> NoneShown(k, n)'
        /\ \A k : (MarksOf(k, Len(filter.out)))' = MarksOf(k, n)'
        /\ Len(filter'.out) = n
    BY <2>1 DEF NoneShown, MarksOf
  <2> QED
    BY <2>2, <2>3 DEF MarksAreCounted
<1>13. MarksAreFew'
  <2> SUFFICES ASSUME NEW n \in DOMAIN filter.out, NEW m \in DOMAIN filter.out,
                      Cardinality(MarksOf(n, m)') > MarksMax
               PROVE  \E k \in (n .. m) \ MarksOf(n, m)' : Shown(k)'
    BY DEF MarksAreFew, MarksOf
  <2>1. Cardinality(MarksOf(n, m)) > MarksMax =>
          \E k \in (n .. m) \ MarksOf(n, m) : Shown(k)
    BY DEF FilterInv, MarksAreFew, MarksOf
  <2> QED
    BY <1>7, <1>11, <2>1
<1> QED
  BY <1>8, <1>9, <1>10, <1>12, <1>13

(* What the next symbol leaves as it should be.                              *)
LEMMA NextKeeps ==
  ASSUME FilterInv, NEW s, NEW n, TakesNext(s, n),
         text' \in Seq(alphabet), taken' \in 0 .. MaxChunk,
         alphabet' = alphabet, length' = length, partial' = None, cut' \subseteq 1 .. Len(text')
  PROVE  FilterInv'
<1>1. filter' \in FilterState /\ Collects(filter')
  BY NextParsed DEF ParsedWell
<1>2. FilterParts'
  BY <1>1 DEF FilterInv, FilterParts, Collects
<1>3. PICK symbols : Grows(symbols, n + 1, filter, filter')
  BY NextGrows
<1>4. OutputHasCause'
  BY <1>3, NextShown DEF FilterInv
<1> QED
  BY <1>2, <1>4, NextKeepsState, NextIsSwallowed, NextMarks DEF FilterInv

(* The rest of a character is its symbol's turn.                             *)
LEMMA ResumeTakesNext ==
  ASSUME FilterInv, Resume, NEW n, n = Len(text)
  PROVE  /\ TakesNext(partial, n) /\ partial \in alphabet \cap Wide
         /\ text' = Append(text, partial) /\ filter.state = "ground"
         /\ filter' = PrintChar(filter, partial, n + 1)
<1>1. partial \in alphabet \cap Wide /\ filter.state = "ground"
  BY DEF Resume, FilterInv, FilterParts
<1>2. text' = Append(text, partial) /\ filter' = PrintChar(filter, partial, n + 1)
  BY DEF Resume
<1> QED
  BY <1>1, <1>2 DEF TakesNext, FilterInv

LEMMA FilterSteps ==
  FilterInv /\ [FilterNext]_filterVars => FilterInv'
<1> SUFFICES ASSUME FilterInv, [FilterNext]_filterVars
             PROVE  FilterInv'
  OBVIOUS
<1>1. FilterParts
  BY DEF FilterInv
<1>2. MaxChunk \in Nat /\ MaxStringSequence \in Nat
  BY AnsiFilterAssumption
<1>3. CASE Advance
  <2>1. PICK s \in alphabet : /\ text' = Append(text, s)
                              /\ filter' = Parsed(filter, s, Len(text) + 1)
    BY <1>3 DEF Advance
  <2>2. PICK n : n = Len(text)
    OBVIOUS
  <2>3. TakesNext(s, n)
    BY <1>1, <2>1, <2>2 DEF TakesNext, FilterInv
  <2>4. text' \in Seq(alphabet) /\ Len(text') = n + 1 /\ n \in Nat
    BY <1>1, <2>1, <2>2, Taken DEF FilterParts
  <2>5. taken' \in 0 .. MaxChunk
    BY <1>1, <1>2, <1>3 DEF FilterParts, Advance
  <2>6. /\ alphabet' = alphabet /\ length' = length /\ partial = None /\ partial' = None
        /\ cut' \subseteq 1 .. Len(text')
    BY <1>1, <1>3, <2>2, <2>4 DEF FilterParts, Advance
  <2> QED
    BY <1>1, <2>3, <2>4, <2>5, <2>6, NextKeeps
<1>6. CASE CutRead
  <2>1. /\ text' = text /\ filter' = filter /\ alphabet' = alphabet /\ length' = length
        /\ cut' = cut /\ partial' \in alphabet \cap Wide /\ filter.state = "ground"
    BY <1>6 DEF CutRead
  <2>2. taken' \in 0 .. MaxChunk
    BY <1>1, <1>2, <1>6 DEF FilterParts, CutRead
  <2>3. FilterParts'
    BY <1>1, <2>1, <2>2 DEF FilterParts, Collects
  <2> QED
    BY <2>1, <2>3, ReadEnds DEF FilterInv
<1>7. CASE Resume
  <2>1. PICK n : n = Len(text)
    OBVIOUS
  <2>2. /\ TakesNext(partial, n) /\ partial \in alphabet /\ text' = Append(text, partial)
    BY <1>7, <2>1, ResumeTakesNext
  <2>3. text' \in Seq(alphabet) /\ Len(text') = n + 1 /\ n \in Nat
    BY <1>1, <2>1, <2>2, Taken DEF FilterParts
  <2>4. taken' \in 0 .. MaxChunk
    BY <1>1, <1>2, <1>7 DEF FilterParts, Resume
  <2>5. /\ alphabet' = alphabet /\ length' = length /\ partial' = None
        /\ cut' \subseteq 1 .. Len(text')
    <3>1. /\ alphabet' = alphabet /\ length' = length /\ partial' = None
          /\ cut' = cut \cup {n + 1}
      BY <1>7, <2>1 DEF Resume
    <3>2. cut \subseteq 1 .. n
      BY <1>1, <2>1 DEF FilterParts
    <3> QED
      BY <2>3, <3>1, <3>2
  <2> QED
    BY <1>1, <2>2, <2>3, <2>4, <2>5, NextKeeps
<1>4. CASE EndRead
  <2>1. /\ text' = text /\ filter' = filter /\ alphabet' = alphabet /\ taken' = 0
        /\ partial' = partial /\ cut' = cut
    BY <1>4 DEF EndRead, AtLimit
  <2>2. length' \in 0 .. MaxStringSequence
    <3>1. length + taken \in Nat
      BY <1>1, <1>2 DEF FilterParts
    <3>2. \A k \in Nat : Capped(k) \in 0 .. MaxStringSequence
      BY <1>2 DEF Capped
    <3> QED
      BY <1>2, <1>4, <3>1, <3>2 DEF EndRead, LengthAfterRead
  <2>3. FilterParts'
    BY <1>1, <1>2, <2>1, <2>2 DEF FilterParts, Collects
  <2> QED
    BY <2>1, <2>3, ReadEnds DEF FilterInv
<1>5. CASE UNCHANGED filterVars
  <2>1. text' = text /\ filter' = filter
    BY <1>5 DEF filterVars
  <2>2. FilterParts'
    BY <1>1, <1>5 DEF FilterParts, Collects, filterVars
  <2> QED
    BY <2>1, <2>2, ReadEnds DEF FilterInv
<1> QED
  BY <1>3, <1>4, <1>5, <1>6, <1>7 DEF FilterNext

LEMMA FilterInvariant ==
  FilterSpec => []FilterInv
BY FilterStarts, FilterSteps, PTL DEF FilterSpec

(* The variables have their types and the counters keep to their limits.     *)
THEOREM FilterTypes ==
  FilterSpec => []FilterTypeOK
<1>1. FilterInv => FilterTypeOK
  <2> SUFFICES ASSUME FilterInv
               PROVE  FilterTypeOK
    OBVIOUS
  <2>1. FilterParts
    BY DEF FilterInv
  <2>2. filter.state \in ParserState /\ filter.out \in Seq(Output)
    BY <2>1 DEF FilterParts, FilterState
  <2>3. \A n \in DOMAIN filter.out : filter.out[n] \in Output
    BY <2>2, LenProperties, ElementOfSeq
  <2>4. \A n \in DOMAIN filter.out : filter.out[n].symbol \in Symbol
    BY <2>3 DEF Output
  <2>5. partial \in Wide \cup {None} /\ cut \subseteq DOMAIN text
    <3>1. DOMAIN text = 1 .. Len(text)
      BY <2>1, LenProperties DEF FilterParts
    <3> QED
      BY <2>1, <3>1 DEF FilterParts
  <2> QED
    BY <2>1, <2>2, <2>4, <2>5 DEF FilterTypeOK, FilterParts, Collects, ParserState
<1> QED
  BY <1>1, FilterInvariant, PTL

(* Whatever the guest writes, whatever alphabet it keeps to and however long *)
(* it goes on, nothing inside a string reaches the terminal and no character *)
(* of a screen title is shown: filter.rs has no state of its own for strings *)
(* and one bit for titles, which other sequences may come in the middle of.  *)
THEOREM NothingLeaksFromStrings ==
  FilterSpec => []StringsAreSwallowed
<1>1. FilterInv => StringsAreSwallowed
  BY DEF FilterInv
<1> QED
  BY <1>1, FilterInvariant, PTL

(* For every limit on combining marks: controls, removed sequences and       *)
(* invisible characters between the marks do not make the limit start again. *)
THEOREM MarksNeverPileUp ==
  FilterSpec => []MarksAreFew
<1>1. FilterInv => MarksAreFew
  BY DEF FilterInv
<1> QED
  BY <1>1, FilterInvariant, PTL

-------------------------------------------------------------------------------
(* The states a read goes through.  AllAtOnce picks one such function; what  *)
(* is carried from symbol to symbol is that there is one and that all of     *)
(* them end in the same state, so that no induction over the text is needed. *)
IsChain(h, symbols) ==
  h = [n \in 0 .. Len(symbols) |->
         IF n = 0 THEN Fresh ELSE Parsed(h[n - 1], symbols[n], n)]

(* One read of symbols leads to f: AllAtOnce without its recursion.          *)
LeadsTo(symbols, f) ==
  /\ \E h : IsChain(h, symbols)
  /\ \A h : IsChain(h, symbols) => h[Len(symbols)] = f

LEMMA OneReadIsAllAtOnce ==
  ASSUME NEW symbols, NEW f, LeadsTo(symbols, f)
  PROVE  AllAtOnce(symbols) = f
<1> DEFINE state == CHOOSE h : IsChain(h, symbols)
<1>1. IsChain(state, symbols)
  BY DEF LeadsTo
<1>2. AllAtOnce(symbols) = state[Len(symbols)]
  BY Zenon DEF AllAtOnce, IsChain
<1> QED
  BY <1>1, <1>2 DEF LeadsTo

LEMMA NothingLeadsToFresh ==
  ASSUME NEW symbols, Len(symbols) = 0
  PROVE  LeadsTo(symbols, Fresh)
<1> DEFINE h == [n \in 0 .. 0 |-> Fresh]
<1>1. IsChain(h, symbols)
  <2>1. \A n \in 0 .. 0 : n = 0
    OBVIOUS
  <2> QED
    BY <2>1, Zenon DEF IsChain
<1>2. ASSUME NEW g, IsChain(g, symbols)
      PROVE  g[0] = Fresh
  <2>1. 0 \in 0 .. 0
    OBVIOUS
  <2> QED
    BY <1>2, <2>1, Zenon DEF IsChain
<1> QED
  BY <1>1, <1>2 DEF LeadsTo

LEMMA ChainIs ==
  ASSUME NEW h, NEW symbols, IsChain(h, symbols)
  PROVE  /\ DOMAIN h = 0 .. Len(symbols)
         /\ \A k \in 0 .. Len(symbols) :
              h[k] = IF k = 0 THEN Fresh ELSE Parsed(h[k - 1], symbols[k], k)
<1> DEFINE is == [n \in 0 .. Len(symbols) |->
                    IF n = 0 THEN Fresh ELSE Parsed(h[n - 1], symbols[n], n)]
<1>1. h = is
  BY Zenon DEF IsChain
<1>2. /\ DOMAIN is = 0 .. Len(symbols)
      /\ \A k \in 0 .. Len(symbols) :
           is[k] = IF k = 0 THEN Fresh ELSE Parsed(h[k - 1], symbols[k], k)
  BY Zenon
<1> HIDE DEF is
<1> QED
  BY <1>1, <1>2, Zenon

LEMMA IsOneChain ==
  ASSUME NEW symbols, NEW n \in Nat, n = Len(symbols), NEW h,
         h = [k \in 0 .. n |-> h[k]], h[0] = Fresh,
         \A k \in 1 .. n : h[k] = Parsed(h[k - 1], symbols[k], k)
  PROVE  IsChain(h, symbols)
<1> DEFINE is == [k \in 0 .. Len(symbols) |->
                    IF k = 0 THEN Fresh ELSE Parsed(h[k - 1], symbols[k], k)]
<1>1. ASSUME NEW k \in 0 .. n
      PROVE  h[k] = IF k = 0 THEN Fresh ELSE Parsed(h[k - 1], symbols[k], k)
  <2>1. k = 0 \/ k \in 1 .. n
    OBVIOUS
  <2> QED
    BY <2>1
<1>2. h = is
  BY <1>1, Zenon
<1> QED
  BY <1>2, Zenon DEF IsChain

(* One symbol more leads one step on, from whatever a read led to.          *)
LEMMA OneMoreSymbol ==
  ASSUME NEW symbols, NEW more, NEW n \in Nat, NEW s, NEW f,
         n = Len(symbols), Len(more) = n + 1, more[n + 1] = s,
         \A k \in 1 .. n : more[k] = symbols[k],
         LeadsTo(symbols, f)
  PROVE  LeadsTo(more, Parsed(f, s, n + 1))
<1>1. PICK h : IsChain(h, symbols)
  BY DEF LeadsTo
<1>2. /\ DOMAIN h = 0 .. n /\ h[0] = Fresh /\ h[n] = f
      /\ \A k \in 1 .. n : h[k] = Parsed(h[k - 1], symbols[k], k)
  <2>1. 0 \in 0 .. n /\ \A k \in 1 .. n : k \in 0 .. n /\ k # 0
    OBVIOUS
  <2> QED
    BY <1>1, <2>1, ChainIs DEF LeadsTo
<1> DEFINE longer == [k \in 0 .. (n + 1) |-> IF k = n + 1 THEN Parsed(f, s, n + 1) ELSE h[k]]
<1>3. /\ longer = [k \in 0 .. (n + 1) |-> longer[k]]
      /\ longer[n + 1] = Parsed(f, s, n + 1)
      /\ \A k \in 0 .. n : longer[k] = h[k]
  OBVIOUS
<1> HIDE DEF longer
<1>4. IsChain(longer, more)
  <2>1. longer[0] = Fresh
    <3>1. 0 \in 0 .. n
      OBVIOUS
    <3>2. longer[0] = h[0]
      BY <1>3, <3>1, Zenon
    <3> QED
      BY <1>2, <3>2, Zenon
  <2>2. ASSUME NEW k \in 1 .. (n + 1)
        PROVE  longer[k] = Parsed(longer[k - 1], more[k], k)
    <3>1. CASE k = n + 1
      <4>1. n \in 0 .. n /\ k - 1 = n
        BY <3>1
      <4> QED
        BY <1>2, <1>3, <3>1, <4>1
    <3>2. CASE k # n + 1
      <4>1. k \in 1 .. n /\ k \in 0 .. n /\ k - 1 \in 0 .. n
        BY <3>2
      <4> QED
        BY <1>2, <1>3, <4>1
    <3> QED
      BY <3>1, <3>2
  <2>3. n + 1 \in Nat
    OBVIOUS
  <2> QED
    BY <1>3, <2>1, <2>2, <2>3, IsOneChain
<1>5. ASSUME NEW g, IsChain(g, more)
      PROVE  g[n + 1] = Parsed(f, s, n + 1)
  <2>1. \A k \in 0 .. (n + 1) : g[k] = IF k = 0 THEN Fresh ELSE Parsed(g[k - 1], more[k], k)
    BY <1>5, ChainIs
  <2> DEFINE shorter == [k \in 0 .. n |-> g[k]]
  <2>2. /\ shorter = [k \in 0 .. n |-> shorter[k]]
        /\ \A k \in 0 .. n : shorter[k] = g[k]
    OBVIOUS
  <2> HIDE DEF shorter
  <2>3. shorter[0] = Fresh
    BY <2>1, <2>2
  <2>4. ASSUME NEW k \in 1 .. n
        PROVE  shorter[k] = Parsed(shorter[k - 1], symbols[k], k)
    <3>1. k \in 0 .. n /\ k - 1 \in 0 .. n /\ k \in 0 .. (n + 1) /\ k # 0
      OBVIOUS
    <3> QED
      BY <2>1, <2>2, <3>1
  <2>5. IsChain(shorter, symbols)
    BY <2>2, <2>3, <2>4, IsOneChain
  <2>6. g[n] = f
    BY <2>2, <2>5 DEF LeadsTo
  <2>7. n + 1 \in 0 .. (n + 1) /\ n + 1 # 0 /\ (n + 1) - 1 = n
    OBVIOUS
  <2> QED
    BY <2>1, <2>6, <2>7
<1> QED
  BY <1>4, <1>5 DEF LeadsTo

(* A C1 control that is in one read changes nothing.                         *)
LEMMA C1Parses ==
  ASSUME NEW f \in FilterState, NEW s \in C1, NEW i
  PROVE  Parsed(f, s, i) = f
<1>1. /\ s \notin C0 \cup Final \cup Intermediate \cup {"ESC", "CAN", "BEL", "[", "]", "P", "_"}
      /\ s \notin EndsTitle /\ s \in NotAscii
  BY DEF C0, C1, Final, Intermediate, EndsTitle, NotAscii, Wide
<1>2. Execute(f, s, i) = [f EXCEPT !.title = @ /\ s \notin EndsTitle]
  BY DEF Execute
<1>3. [f EXCEPT !.title = @ /\ s \notin EndsTitle] = f
  BY <1>1 DEF FilterState
<1>4. CASE f.state = "ground"
  BY <1>1, <1>2, <1>3, <1>4 DEF Parsed, InGround
<1>5. CASE f.state # "ground"
  <2>1. InEscape(f, s, i) = f /\ InEscapeIntermediate(f, s, i) = f /\ InCsi(f, s, i) = f
    BY <1>1 DEF InEscape, InEscapeIntermediate, InCsi
  <2> QED
    BY <1>1, <1>5, <2>1 DEF Parsed
<1> QED
  BY <1>4, <1>5

(* Only such a control can be what the output has more of them.              *)
LEMMA NextControls ==
  ASSUME NEW s, NEW n, TakesNext(s, n)
  PROVE  /\ ControlsOut \subseteq ControlsOut'
         /\ \A k \in ControlsOut : filter'.out[k] = filter.out[k]
         /\ \A k \in ControlsOut' \ ControlsOut : filter'.out[k].at = n + 1 /\ s \in C1
<1>1. /\ n + 1 \in Nat /\ s \in Symbol /\ filter \in FilterState /\ filter' \in FilterState
      /\ Shows(filter, s, n + 1, filter')
  BY NextParsed DEF ParsedWell
<1>2. /\ filter.out \in Seq(Output) /\ DOMAIN filter.out = 1 .. Len(filter.out)
      /\ Len(filter.out) \in Nat
  BY NextGrows
<1>3. ASSUME NEW symbols \in Seq(Symbol), filter'.out = filter.out \o Stamped(symbols, n + 1),
             \A k \in 1 .. Len(symbols) : symbols[k] \in C1 => s \in C1
      PROVE  /\ ControlsOut \subseteq ControlsOut'
             /\ \A k \in ControlsOut : filter'.out[k] = filter.out[k]
             /\ \A k \in ControlsOut' \ ControlsOut : filter'.out[k].at = n + 1 /\ s \in C1
  <2> DEFINE more == Stamped(symbols, n + 1)
             L == Len(filter.out)
  <2>1. /\ more \in Seq(Output) /\ Len(more) = Len(symbols) /\ Len(symbols) \in Nat
        /\ \A k \in 1 .. Len(symbols) : more[k] = [symbol |-> symbols[k], at |-> n + 1]
    BY <1>1, StampedIsOutput, LenProperties
  <2> HIDE DEF more
  <2>2. /\ filter.out \o more \in Seq(Output)
        /\ Len(filter.out \o more) = L + Len(more)
        /\ \A k \in 1 .. (L + Len(more)) :
             (filter.out \o more)[k] = IF k <= L THEN filter.out[k] ELSE more[k - L]
    <3>1. \A a, b \in Seq(Output) :
            /\ a \o b \in Seq(Output) /\ Len(a \o b) = Len(a) + Len(b)
            /\ \A k \in 1 .. (Len(a) + Len(b)) :
                 (a \o b)[k] = IF k <= Len(a) THEN a[k] ELSE b[k - Len(a)]
      BY ConcatProperties
    <3>2. filter.out \in Seq(Output) /\ more \in Seq(Output)
      BY <1>2, <2>1
    <3> QED
      BY <3>1, <3>2
  <2>3. /\ DOMAIN filter'.out = 1 .. (L + Len(symbols))
        /\ \A k \in 1 .. L : filter'.out[k] = filter.out[k]
        /\ \A k \in 1 .. (L + Len(symbols)) : k \notin 1 .. L =>
             /\ k - L \in 1 .. Len(symbols)
             /\ filter'.out[k] = [symbol |-> symbols[k - L], at |-> n + 1]
    <3>1. filter'.out = filter.out \o more
      BY <1>3 DEF more
    <3>2. DOMAIN filter'.out = 1 .. (L + Len(symbols))
      BY <2>1, <2>2, <3>1, LenProperties
    <3>3. \A k \in 1 .. L : filter'.out[k] = filter.out[k]
      BY <1>2, <2>1, <2>2, <3>1
    <3>4. \A k \in 1 .. (L + Len(symbols)) : k \notin 1 .. L =>
             k - L \in 1 .. Len(symbols) /\ ~(k <= L)
      BY <1>2, <2>1
    <3> QED
      BY <2>1, <2>2, <3>1, <3>2, <3>3, <3>4
  <2>4. 1 .. L \subseteq 1 .. (L + Len(symbols))
    BY <1>2, <2>1
  <2>5. ControlsOut \subseteq ControlsOut' /\ \A k \in ControlsOut : filter'.out[k] = filter.out[k]
    BY <1>2, <2>3, <2>4 DEF ControlsOut
  <2>6. ASSUME NEW k \in ControlsOut', k \notin ControlsOut
        PROVE  filter'.out[k].at = n + 1 /\ s \in C1
    <3>1. k \in 1 .. (L + Len(symbols)) /\ filter'.out[k].symbol \in C1
      BY <2>3 DEF ControlsOut
    <3>2. k \notin 1 .. L
      BY <1>2, <2>3, <2>6, <3>1 DEF ControlsOut
    <3>3. PICK o : o = filter'.out[k]
      OBVIOUS
    <3>4. k - L \in 1 .. Len(symbols) /\ o = [symbol |-> symbols[k - L], at |-> n + 1]
      BY <2>3, <3>1, <3>2, <3>3
    <3>5. o.symbol = symbols[k - L] /\ o.at = n + 1
      BY <3>4
    <3> QED
      BY <1>3, <3>1, <3>3, <3>4, <3>5
  <2> QED
    BY <2>5, <2>6
<1>4. <<s>> \in Seq(Symbol) /\ \A k \in 1 .. Len(<<s>>) : <<s>>[k] = s
  BY <1>1
<1>5. CASE Silent(filter, filter')
  BY <1>5 DEF Silent, ControlsOut
<1>6. CASE \/ ShowsControl(filter, s, n + 1, filter') \/ ShowsMark(filter, s, n + 1, filter')
           \/ ShowsCharacter(filter, s, n + 1, filter')
  <2>1. filter'.out = filter.out \o Stamped(<<s>>, n + 1)
    BY <1>6 DEF ShowsControl, ShowsMark, ShowsCharacter
  <2> QED
    BY <1>3, <1>4, <2>1
<1>7. CASE ShowsSequence(filter, n + 1, filter')
  <2>1. PICK symbols \in Seq(Visible) : filter'.out = filter.out \o Stamped(symbols, n + 1)
    BY <1>7 DEF ShowsSequence
  <2>2. symbols \in Seq(Symbol) /\ \A k \in 1 .. Len(symbols) : symbols[k] \notin C1
    BY SeqOfMore, ElementOfSeq DEF Visible
  <2> QED
    BY <1>3, <2>1, <2>2
<1> QED
  BY <1>1, <1>5, <1>6, <1>7 DEF Shows

(* One that two reads share is let through, but in a title.                  *)
LEMMA SharedControl ==
  ASSUME NEW s, NEW n, TakesNext(s, n), s \in C1, filter' = PrintChar(filter, s, n + 1)
  PROVE  filter' = filter \/ ControlsOut' # {}
<1>1. /\ n + 1 \in Nat /\ s \in Symbol /\ filter \in FilterState
      /\ filter.out \in Seq(Output) /\ Len(filter.out) \in Nat
  BY NextParsed, NextGrows
<1>2. s \notin {"format", "hidden", "mark"}
  BY DEF C1
<1>3. CASE filter.title
  BY <1>3 DEF PrintChar
<1>4. CASE ~filter.title
  <2> DEFINE none == [filter EXCEPT !.marks = 0]
             L == Len(filter.out)
  <2>1. none \in FilterState /\ none.out = filter.out
    BY <1>1 DEF FilterState
  <2>2. filter' = Write(none, <<s>>, n + 1)
    BY <1>2, <1>4 DEF PrintChar, Printed
  <2> HIDE DEF none
  <2>3. filter'.out = filter.out \o Stamped(<<s>>, n + 1)
    <3>1. PICK i \in Nat : i = n + 1
      BY <1>1
    <3>2. Write(none, <<s>>, i).out = none.out \o Stamped(<<s>>, i)
      BY <1>1, <2>1, <3>1, WriteSymbol
    <3> QED
      BY <2>1, <2>2, <3>1, <3>2
  <2>4. PICK more : more = Stamped(<<s>>, n + 1)
    OBVIOUS
  <2>5. more \in Seq(Output) /\ Len(more) = 1 /\ more[1].symbol = s
    <3>1. PICK u \in Seq(Symbol), i \in Nat : u = <<s>> /\ i = n + 1
      <4>1. <<s>> \in Seq(Symbol)
        BY <1>1
      <4> QED
        BY <1>1, <4>1
    <3>2. Len(u) = 1 /\ u[1] = s /\ 1 \in 1 .. 1
      BY <3>1
    <3>3. more = Stamped(u, i)
      BY <2>4, <3>1
    <3>4. more \in Seq(Output) /\ Len(more) = 1 /\ more[1] = [symbol |-> s, at |-> i]
      BY <3>2, <3>3, StampedIsOutput
    <3> QED
      BY <3>4
  <2>6. /\ filter'.out \in Seq(Output) /\ Len(filter'.out) = L + 1
        /\ filter'.out[L + 1] = more[1]
    <3>1. \A a, b \in Seq(Output) :
            /\ a \o b \in Seq(Output) /\ Len(a \o b) = Len(a) + Len(b)
            /\ \A k \in 1 .. (Len(a) + Len(b)) :
                 (a \o b)[k] = IF k <= Len(a) THEN a[k] ELSE b[k - Len(a)]
      BY ConcatProperties
    <3>2. PICK out : out = filter.out
      OBVIOUS
    <3>3. /\ filter'.out = out \o more /\ out \in Seq(Output) /\ L = Len(out) /\ L \in Nat
      BY <1>1, <2>3, <2>4, <3>2
    <3> HIDE DEF L
    <3>4. L + 1 \in 1 .. (L + 1) /\ ~(L + 1 <= L) /\ L + 1 - L = 1
      BY <3>3
    <3>5. /\ out \o more \in Seq(Output) /\ Len(out \o more) = L + 1
          /\ (out \o more)[L + 1] = more[1]
      BY <2>5, <3>1, <3>3, <3>4
    <3> QED
      BY <3>3, <3>5
  <2>7. L + 1 \in DOMAIN filter'.out /\ filter'.out[L + 1].symbol = s
    BY <1>1, <2>5, <2>6, LenProperties
  <2> QED
    BY <2>7 DEF ControlsOut
<1> QED
  BY <1>3, <1>4

(* What one read would have made of the past text.                           *)
OneReadWould ==
  /\ \A n \in ControlsOut : filter.out[n].at \in cut
  /\ ControlsOut = {} => LeadsTo(text, filter)

(* A symbol that the parser takes in one piece.                              *)
LEMMA WholeSymbol ==
  ASSUME OneReadWould, NEW s, NEW n, TakesNext(s, n), filter' = Parsed(filter, s, n + 1),
         cut \subseteq cut'
  PROVE  OneReadWould'
<1>1. /\ n \in Nat /\ Len(text') = n + 1 /\ text'[n + 1] = s /\ n = Len(text)
      /\ \A k \in 1 .. n : text'[k] = text[k] /\ filter \in FilterState
  BY NextParsed DEF TakesNext
<1>2. ControlsOut \subseteq ControlsOut'
  BY NextControls
<1>3. \A k \in ControlsOut' : k \in ControlsOut /\ filter'.out[k] = filter.out[k]
  <2>1. CASE s \in C1
    <3>1. filter' = filter
      BY <2>1, C1Parses, NextParsed
    <3> QED
      BY <3>1 DEF ControlsOut
  <2>2. CASE s \notin C1
    BY <2>2, NextControls
  <2> QED
    BY <2>1, <2>2
<1>4. \A k \in ControlsOut' : filter'.out[k].at \in cut'
  BY <1>3 DEF OneReadWould
<1>5. ASSUME ControlsOut' = {}
      PROVE  LeadsTo(text', filter')
  <2>1. LeadsTo(text, filter)
    BY <1>2, <1>5 DEF OneReadWould
  <2>2. PICK past, next, f, g :
          past = text /\ next = text' /\ f = filter /\ g = filter'
    OBVIOUS
  <2>3. LeadsTo(next, Parsed(f, s, n + 1))
    BY <1>1, <2>1, <2>2, OneMoreSymbol
  <2> QED
    BY <2>2, <2>3
<1> QED
  BY <1>4, <1>5 DEF OneReadWould

(* For every text and however it is cut into reads, in characters too: but   *)
(* for C1 controls that two reads share, which are all that can come out of  *)
(* the place where a read ends, the filter's state and its output are those  *)
(* of one read of the past text.  AnsiFilter::filter forgets nothing at the  *)
(* end of a read and does not start over when a string gets longer than it   *)
(* remembers; that the rest of a character goes to print is harmless for     *)
(* all others.                                                               *)
THEOREM ReadsMakeNoDifference ==
  FilterSpec => []ChunksDoNotMatter
<1>1. FilterInit => OneReadWould
  <2> SUFFICES ASSUME FilterInit
               PROVE  OneReadWould
    OBVIOUS
  <2>1. Len(text) = 0 /\ filter = Fresh /\ DOMAIN filter.out = {}
    BY DEF FilterInit, Fresh
  <2> QED
    BY <2>1, NothingLeadsToFresh DEF OneReadWould, ControlsOut
<1>2. FilterInv /\ OneReadWould /\ [FilterNext]_filterVars => OneReadWould'
  <2> SUFFICES ASSUME FilterInv, OneReadWould, [FilterNext]_filterVars
               PROVE  OneReadWould'
    OBVIOUS
  <2>1. CASE Advance
    <3>1. PICK s \in alphabet : /\ text' = Append(text, s)
                                /\ filter' = Parsed(filter, s, Len(text) + 1)
      BY <2>1 DEF Advance
    <3>2. PICK n : n = Len(text)
      OBVIOUS
    <3>3. TakesNext(s, n)
      BY <3>1, <3>2 DEF TakesNext, FilterInv
    <3>4. cut' = cut
      BY <2>1 DEF Advance
    <3> QED
      BY <3>1, <3>2, <3>3, <3>4, WholeSymbol
  <2>2. CASE Resume
    <3>1. PICK s, n : s = partial /\ n = Len(text)
      OBVIOUS
    <3>2. /\ TakesNext(s, n) /\ s \in Wide /\ filter.state = "ground"
          /\ filter' = PrintChar(filter, s, n + 1) /\ filter \in FilterState
      BY <2>2, <3>1, ResumeTakesNext DEF FilterInv, FilterParts
    <3>3. cut' = cut \cup {n + 1}
      BY <2>2, <3>1 DEF Resume
    <3>4. CASE s \notin C1
      <4>1. Parsed(filter, s, n + 1) = PrintChar(filter, s, n + 1)
        <5>1. s \notin C0 \cup C1 \cup {"CAN", "ESC"}
          BY <3>2, <3>4 DEF Wide, C0
        <5> QED
          BY <3>2, <5>1 DEF Parsed, InGround
      <4> QED
        BY <3>2, <3>3, <3>4, <4>1, WholeSymbol
    <3>5. CASE s \in C1 /\ filter' = filter
      <4>1. Parsed(filter, s, n + 1) = filter
        BY <3>2, <3>5, C1Parses
      <4> QED
        BY <3>2, <3>3, <3>5, <4>1, WholeSymbol
    <3>6. CASE s \in C1 /\ ControlsOut' # {}
      <4>1. \A k \in ControlsOut' \ ControlsOut : filter'.out[k].at = n + 1
        BY <3>2, NextControls
      <4>2. \A k \in ControlsOut : filter'.out[k] = filter.out[k]
        BY <3>2, NextControls
      <4> QED
        BY <3>3, <3>6, <4>1, <4>2 DEF OneReadWould
    <3> QED
      BY <3>2, <3>4, <3>5, <3>6, SharedControl
  <2>3. CASE CutRead \/ EndRead \/ UNCHANGED filterVars
    <3>1. text' = text /\ filter' = filter /\ cut' = cut
      BY <2>3 DEF CutRead, EndRead, AtLimit, filterVars
    <3>2. PICK past, f : past = text /\ f = filter
      OBVIOUS
    <3>3. ControlsOut' = ControlsOut
      BY <3>1 DEF ControlsOut
    <3>4. LeadsTo(text, filter) => LeadsTo(text', filter')
      BY <3>1, <3>2
    <3> QED
      BY <3>1, <3>3, <3>4 DEF OneReadWould
  <2> QED
    BY <2>1, <2>2, <2>3 DEF FilterNext
<1>3. OneReadWould => ChunksDoNotMatter
  BY OneReadIsAllAtOnce DEF OneReadWould, ChunksDoNotMatter
<1> QED
  BY <1>1, <1>2, <1>3, FilterInvariant, PTL DEF FilterSpec

-------------------------------------------------------------------------------
(* What becomes of the intermediates and the parameters.                     *)
Stays(f, g) ==
  SameSequence(f, g) /\ (g.state = "csiEntry" => f.state = "csiEntry")

Takes(f, s, g) ==
  \/ Stays(f, g)
  \/ g.inter = <<>> /\ g.params = <<"0">>
  \/ /\ g.state # "csiEntry" /\ g.params = f.params
     /\ g.inter = f.inter \/ g.inter = Append(f.inter, s)
     /\ s \in Intermediate \/ (s \in Private /\ f.state = "csiEntry")
  \/ /\ g.state # "csiEntry" /\ g.inter = f.inter
     /\ s \in Parameter /\ g.params = AddParam(f, s).params

LEMMA PerformerStays ==
  ASSUME NEW f \in FilterState, NEW s, NEW i
  PROVE  /\ \A symbols : Stays(f, Write(f, symbols, i))
         /\ Stays(f, Execute(f, s, i))
         /\ Stays(f, PrintChar(f, s, i))
         /\ Stays(f, CsiDispatch(f, s, i))
         /\ Stays(f, EscDispatch(f, s, i))
<1>1. \A g \in FilterState : \A symbols :
        /\ Write(g, symbols, i).state = g.state
        /\ SameSequence(g, Write(g, symbols, i))
  BY DEF Write, SameSequence, FilterState
<1>2. \A symbols : Stays(f, Write(f, symbols, i))
  BY <1>1 DEF Stays
<1>3. Stays(f, Execute(f, s, i))
  <2> DEFINE h == [f EXCEPT !.title = @ /\ s \notin EndsTitle]
  <2>1. h \in FilterState /\ h.state = f.state /\ SameSequence(f, h)
    BY DEF FilterState, SameSequence
  <2>2. Execute(f, s, i) = h \/ Execute(f, s, i) = Write(h, <<s>>, i)
    BY DEF Execute
  <2> HIDE DEF h
  <2> QED
    BY <1>1, <2>1, <2>2 DEF Stays, SameSequence
<1>4. Stays(f, PrintChar(f, s, i))
  <2> DEFINE none == [f EXCEPT !.marks = 0]
             more == [f EXCEPT !.marks = @ + 1]
  <2>1. none \in FilterState /\ none.state = f.state /\ SameSequence(f, none)
    BY DEF FilterState, SameSequence
  <2>3. more \in FilterState /\ more.state = f.state /\ SameSequence(f, more)
    BY DEF FilterState, SameSequence
  <2>2. PrintChar(f, s, i) \in {f, more, Write(none, <<s>>, i), Write(more, <<s>>, i)}
    BY DEF PrintChar, Printed
  <2> HIDE DEF none, more
  <2> QED
    BY <1>1, <2>1, <2>2, <2>3 DEF Stays, SameSequence
<1>5. Stays(f, CsiDispatch(f, s, i))
  <2>1. CsiDispatch(f, s, i) \in {f, Write(f, WriteCsi(f, s), i)}
    BY DEF CsiDispatch
  <2> QED
    BY <1>2, <2>1 DEF Stays, SameSequence
<1>6. Stays(f, EscDispatch(f, s, i))
  <2> DEFINE begun == [f EXCEPT !.title = TRUE]
             ended == [f EXCEPT !.title = FALSE]
  <2>1. Stays(f, begun) /\ Stays(f, ended) /\ Stays(f, f)
    BY DEF Stays, SameSequence, FilterState
  <2>2. EscDispatch(f, s, i) \in {f, begun, ended, Write(f, <<"ESC", s>>, i)}
    <3>1. f.inter # <<>> \/ s \in {"k", "\\", "7"} \/ s \notin {"k", "\\", "7"}
      OBVIOUS
    <3> QED
      BY <3>1 DEF EscDispatch
  <2> HIDE DEF begun, ended
  <2> QED
    BY <1>2, <2>1, <2>2
<1> QED
  BY <1>2, <1>3, <1>4, <1>5, <1>6

LEMMA ToStays ==
  ASSUME NEW f \in FilterState, NEW state \in ParserState, state # "csiEntry",
         NEW g, g = To(f, state) \/ Stays(To(f, state), g)
  PROVE  Stays(f, g)
BY ToMoves DEF Stays, SameSequence

LEMMA EscapeTakes ==
  ASSUME NEW f \in FilterState, f.state \in {"escape", "escapeIntermediate"},
         NEW s \in Symbol, NEW i
  PROVE  /\ Takes(f, s, InEscape(f, s, i))
         /\ Takes(f, s, InEscapeIntermediate(f, s, i))
<1> DEFINE h == Collect(f, s)
           g == To(h, "escapeIntermediate")
           d == EscDispatch(To(f, "ground"), s, i)
           r == To(ResetParams(f), "csiEntry")
<1>1. s \in Intermediate =>
        /\ h.params = f.params /\ (h.inter = f.inter \/ h.inter = Append(f.inter, s))
        /\ g.params = f.params /\ g.inter = h.inter /\ g.state # "csiEntry"
        /\ h.state = f.state
  BY DEF Collect, To, FilterState
<1>2. Stays(f, Execute(f, s, i)) /\ Stays(f, d) /\ Stays(f, f)
      /\ Stays(f, To(f, "osc")) /\ Stays(f, To(f, "string"))
  <2>1. To(f, "ground") \in FilterState
    BY ToMoves DEF ParserState
  <2>2. Stays(To(f, "ground"), d)
    BY <2>1, PerformerStays
  <2> QED
    BY <2>2, PerformerStays, ToStays DEF ParserState, Stays, SameSequence
<1>3. r.inter = <<>> /\ r.params = <<"0">>
  BY DEF ResetParams, To, FilterState
<1>4. \/ s \in Intermediate /\ InEscape(f, s, i) = g
      \/ InEscape(f, s, i) \in {Execute(f, s, i), r, To(f, "osc"), To(f, "string"), f, d}
  <2>1. CASE s \in C0 \cup NotAscii \cup Intermediate \cup {"[", "]", "P", "_"}
    BY <2>1 DEF InEscape, C0, C1, NotAscii, Wide, Intermediate
  <2>2. CASE s \notin C0 \cup NotAscii \cup Intermediate \cup {"[", "]", "P", "_"}
    BY <2>2 DEF InEscape
  <2> QED
    BY <2>1, <2>2
<1>5. \/ s \in Intermediate /\ InEscapeIntermediate(f, s, i) = h
      \/ InEscapeIntermediate(f, s, i) \in {Execute(f, s, i), f, d}
  <2>1. CASE s \in C0 \cup NotAscii \cup Intermediate
    BY <2>1 DEF InEscapeIntermediate, C0, C1, NotAscii, Wide, Intermediate
  <2>2. CASE s \notin C0 \cup NotAscii \cup Intermediate
    BY <2>2 DEF InEscapeIntermediate
  <2> QED
    BY <2>1, <2>2
<1> HIDE DEF h, g, d, r
<1>6. Takes(f, s, InEscape(f, s, i))
  BY <1>1, <1>2, <1>3, <1>4 DEF Takes
<1>7. Takes(f, s, InEscapeIntermediate(f, s, i))
  BY <1>1, <1>2, <1>5 DEF Takes
<1> QED
  BY <1>6, <1>7

LEMMA CsiTakes ==
  ASSUME NEW f \in FilterState, NEW s \in Symbol, NEW i
  PROVE  Takes(f, s, InCsi(f, s, i))
<1> DEFINE d == CsiDispatch(To(f, "ground"), s, i)
           c == To(Collect(f, s), "csiIntermediate")
           m == To(Collect(f, s), "csiParam")
           p == To(AddParam(f, s), "csiParam")
<1>1. /\ Stays(f, Execute(f, s, i)) /\ Stays(f, d) /\ Stays(f, f)
      /\ Stays(f, To(f, "ground")) /\ Stays(f, To(f, "csiIgnore"))
  <2>1. To(f, "ground") \in FilterState
    BY ToMoves DEF ParserState
  <2>2. Stays(To(f, "ground"), d)
    BY <2>1, PerformerStays
  <2> QED
    BY <2>2, PerformerStays, ToStays DEF ParserState, Stays, SameSequence
<1>2. \A g \in {c, m} :
        /\ g.state # "csiEntry" /\ g.params = f.params
        /\ g.inter = f.inter \/ g.inter = Append(f.inter, s)
  BY DEF Collect, To, FilterState
<1>3. s \in Parameter =>
        p.state # "csiEntry" /\ p.inter = f.inter /\ p.params = AddParam(f, s).params
  <2>1. s \in Parameter => AddParam(f, s) \in FilterState /\ AddParam(f, s).inter = f.inter
    BY AddParamAdds
  <2> QED
    BY <2>1, ToMoves DEF ParserState, SameSequence
<1>4. \/ InCsi(f, s, i) \in {Execute(f, s, i), d, f, To(f, "ground"), To(f, "csiIgnore")}
      \/ InCsi(f, s, i) = c /\ s \in Intermediate
      \/ InCsi(f, s, i) = m /\ s \in Private /\ f.state = "csiEntry"
      \/ InCsi(f, s, i) = p /\ s \in Parameter
  <2>1. CASE s \in C0 \cup NotAscii \cup Final
    BY <2>1 DEF InCsi, C0, C1, NotAscii, Wide, Final
  <2>2. CASE s \notin C0 \cup NotAscii \cup Final
    <3>1. InCsi(f, s, i) = MoreCsi(f, s)
      BY <2>2 DEF InCsi
    <3>2. CASE f.state = "csiIgnore" \/ s \in Intermediate
      BY <3>1, <3>2 DEF MoreCsi, Intermediate, Private, Parameter, Number, Separator
    <3>3. CASE f.state # "csiIgnore" /\ s \in Private
      BY <3>1, <3>3 DEF MoreCsi, Intermediate, Private, Parameter, Number, Separator
    <3>4. CASE f.state # "csiIgnore" /\ s \in Parameter
      BY <3>1, <3>4 DEF MoreCsi, Intermediate, Private, Parameter, Number, Separator
    <3>5. CASE f.state # "csiIgnore" /\ s \notin Intermediate \cup Private \cup Parameter
      BY <3>1, <3>5 DEF MoreCsi
    <3> QED
      BY <3>2, <3>3, <3>4, <3>5
  <2> QED
    BY <2>1, <2>2
<1> HIDE DEF d, c, m, p
<1> QED
  BY <1>1, <1>2, <1>3, <1>4 DEF Takes

LEMMA ParsedTakes ==
  ASSUME NEW f \in FilterState, NEW s \in Symbol, NEW i
  PROVE  Takes(f, s, Parsed(f, s, i))
<1>1. CASE s = "ESC"
  <2>1. LET g == To(ResetParams(f), "escape") IN g.inter = <<>> /\ g.params = <<"0">>
    BY DEF ResetParams, To, FilterState
  <2> QED
    BY <1>1, <2>1 DEF Parsed, Takes
<1>2. CASE s = "CAN"
  <2>1. To(f, "ground") \in FilterState
    BY ToMoves DEF ParserState
  <2>2. Stays(To(f, "ground"), Execute(To(f, "ground"), s, i))
    BY <2>1, PerformerStays
  <2>3. Stays(f, Execute(To(f, "ground"), s, i))
    BY <2>2, ToStays DEF ParserState
  <2> QED
    BY <1>2, <2>3 DEF Parsed, Takes
<1>3. CASE s \notin {"ESC", "CAN"} /\ f.state \in {"ground", "osc", "string"}
  <2>1. Parsed(f, s, i) \in {Execute(f, s, i), PrintChar(f, s, i), To(f, "ground"), f}
    BY <1>3 DEF Parsed, InGround
  <2>2. Stays(f, f) /\ Stays(f, To(f, "ground"))
    BY ToStays DEF ParserState, Stays, SameSequence
  <2> QED
    BY <2>1, <2>2, PerformerStays DEF Takes
<1>4. CASE s \notin {"ESC", "CAN"} /\ f.state \in {"escape", "escapeIntermediate"}
  <2>1. Parsed(f, s, i) \in {InEscape(f, s, i), InEscapeIntermediate(f, s, i)}
    BY <1>4 DEF Parsed
  <2> QED
    BY <1>4, <2>1, EscapeTakes
<1>5. CASE /\ s \notin {"ESC", "CAN"}
           /\ f.state \in {"csiEntry", "csiParam", "csiIntermediate", "csiIgnore"}
  <2>1. Parsed(f, s, i) = InCsi(f, s, i)
    BY <1>5 DEF Parsed
  <2> QED
    BY <2>1, CsiTakes
<1>6. f.state \in ParserState
  BY DEF FilterState
<1> QED
  BY <1>1, <1>2, <1>3, <1>4, <1>5, <1>6 DEF ParserState

-------------------------------------------------------------------------------
(* A sequence of symbols by its last one.                                    *)
AllButLast(u) == SubSeq(u, 1, Len(u) - 1)

LEMMA LastIsAppended ==
  ASSUME NEW S, NEW u \in Seq(S), Len(u) >= 1
  PROVE  /\ AllButLast(u) \in Seq(S) /\ u[Len(u)] \in S
         /\ Len(AllButLast(u)) = Len(u) - 1
         /\ \A k \in 1 .. (Len(u) - 1) : AllButLast(u)[k] = u[k]
         /\ u = Append(AllButLast(u), u[Len(u)])
<1>1. Len(u) \in Nat /\ Len(u) \in 1 .. Len(u) /\ 1 \in 1 .. Len(u)
  BY LenProperties
<1>2. \A k \in 1 .. Len(u) : u[k] \in S
  BY ElementOfSeq
<1>3. /\ AllButLast(u) \in Seq(S) /\ Len(AllButLast(u)) = Len(u) - 1
      /\ \A k \in 1 .. (Len(u) - 1) : AllButLast(u)[k] = u[k]
  <2> DEFINE n == Len(u) - 1
  <2>1. n \in Nat /\ 1 \in Int /\ (\A k \in 1 .. n : u[k] \in S) /\ n - 1 + 1 = n
    BY <1>1, <1>2
  <2>2. AllButLast(u) = SubSeq(u, 1, n)
    BY DEF AllButLast
  <2> HIDE DEF n
  <2>3. n \in Int
    BY <2>1
  <2>4. /\ SubSeq(u, 1, n) \in Seq(S)
        /\ Len(SubSeq(u, 1, n)) = IF 1 <= n THEN n - 1 + 1 ELSE 0
        /\ \A k \in 1 .. (n - 1 + 1) : SubSeq(u, 1, n)[k] = u[1 + k - 1]
    BY <2>1, <2>3, SubSeqProperties
  <2>5. Len(SubSeq(u, 1, n)) = n /\ \A k \in 1 .. n : SubSeq(u, 1, n)[k] = u[k]
    BY <2>1, <2>4
  <2> QED
    BY <2>2, <2>4, <2>5 DEF n
<1>4. u = AllButLast(u) \o <<u[Len(u)]>>
  BY <1>1, SubSeqFull, SubSeqRecursiveSecond DEF AllButLast
<1> QED
  BY <1>1, <1>2, <1>3, <1>4, AppendIsConcat

LEMMA AppendedIsLast ==
  ASSUME NEW S, NEW u \in Seq(S), NEW e \in S
  PROVE  /\ AllButLast(Append(u, e)) = u /\ Append(u, e) \in Seq(S)
         /\ Len(Append(u, e)) = Len(u) + 1 /\ Append(u, e)[Len(Append(u, e))] = e
<1> DEFINE v == Append(u, e)
<1>1. /\ v \in Seq(S) /\ Len(v) = Len(u) + 1 /\ v[Len(u) + 1] = e /\ Len(u) \in Nat
  BY AppendProperties, LenProperties
<1>2. /\ AllButLast(v) \in Seq(S) /\ v[Len(v)] \in S
      /\ v = Append(AllButLast(v), v[Len(v)])
  <2> HIDE DEF v
  <2> QED
    BY <1>1, LastIsAppended
<1>3. AllButLast(v) = u
  BY <1>1, <1>2, AppendInjective
<1> QED
  BY <1>1, <1>3

LEMMA ConcatAppend ==
  ASSUME NEW S, NEW u \in Seq(S), NEW v \in Seq(S), NEW e \in S
  PROVE  u \o Append(v, e) = Append(u \o v, e)
<1>1. <<e>> \in Seq(S) /\ u \o v \in Seq(S)
  BY ConcatProperties
<1>2. Append(v, e) = v \o <<e>> /\ Append(u \o v, e) = (u \o v) \o <<e>>
  BY <1>1, AppendIsConcat
<1> QED
  BY <1>1, <1>2, ConcatAssociative

LEMMA LastReplaced ==
  ASSUME NEW S, NEW u \in Seq(S), Len(u) >= 1, NEW y \in S
  PROVE  [u EXCEPT ![Len(u)] = y] = Append(AllButLast(u), y)
<1> DEFINE v == [u EXCEPT ![Len(u)] = y]
<1>1. Len(u) \in Nat /\ Len(u) \in 1 .. Len(u)
  BY LenProperties
<1>2. /\ v \in Seq(S) /\ Len(v) = Len(u)
      /\ \A j \in 1 .. Len(u) : v[j] = IF j = Len(u) THEN y ELSE u[j]
  BY <1>1, ExceptSeq
<1> HIDE DEF v
<1>3. v[Len(v)] = y /\ Len(v) >= 1
  BY <1>1, <1>2
<1>4. AllButLast(v) = AllButLast(u)
  <2>1. /\ AllButLast(v) \in Seq(S) /\ AllButLast(u) \in Seq(S)
        /\ Len(AllButLast(v)) = Len(u) - 1 /\ Len(AllButLast(u)) = Len(u) - 1
        /\ \A k \in 1 .. (Len(u) - 1) :
             AllButLast(v)[k] = v[k] /\ AllButLast(u)[k] = u[k]
    BY <1>2, <1>3, LastIsAppended
  <2>2. \A k \in 1 .. (Len(u) - 1) : k \in 1 .. Len(u) /\ k # Len(u)
    BY <1>1
  <2>3. \A k \in 1 .. Len(AllButLast(v)) : AllButLast(v)[k] = AllButLast(u)[k]
    BY <1>2, <2>1, <2>2
  <2> QED
    BY <2>1, <2>3, SeqEqual
<1>5. v = Append(AllButLast(v), v[Len(v)])
  BY <1>2, <1>3, LastIsAppended
<1> QED
  BY <1>3, <1>4, <1>5 DEF v

LEMMA TwoAppended ==
  ASSUME NEW S, NEW u \in Seq(S), NEW a \in S, NEW b \in S
  PROVE  u \o <<a, b>> = Append(Append(u, a), b)
<1>1. <<a>> \in Seq(S) /\ <<a, b>> = Append(<<a>>, b)
  OBVIOUS
<1>2. u \o Append(<<a>>, b) = Append(u \o <<a>>, b)
  BY <1>1, ConcatAppend
<1>3. u \o <<a>> = Append(u, a)
  BY AppendIsConcat
<1> QED
  BY <1>1, <1>2, <1>3

LEMMA LastOfThree ==
  ASSUME NEW S, NEW u \in Seq(S), NEW v \in Seq(S), NEW w \in Seq(S), NEW e \in S
  PROVE  (u \o v) \o Append(w, e) = Append(u \o (v \o w), e)
<1>1. u \o v \in Seq(S)
  BY ConcatProperties
<1>2. (u \o v) \o w = u \o (v \o w)
  BY ConcatAssociative
<1>3. (u \o v) \o Append(w, e) = Append((u \o v) \o w, e)
  BY <1>1, ConcatAppend
<1> QED
  BY <1>2, <1>3

LEMMA LeadsOn ==
  ASSUME NEW w \in Seq(Symbol), NEW s \in Symbol, NEW f, LeadsTo(w, f)
  PROVE  /\ Append(w, s) \in Seq(Symbol) /\ Len(w) + 1 \in Nat
         /\ LeadsTo(Append(w, s), Parsed(f, s, Len(w) + 1))
<1>1. /\ Append(w, s) \in Seq(Symbol) /\ Len(w) \in Nat
      /\ Len(Append(w, s)) = Len(w) + 1 /\ Append(w, s)[Len(w) + 1] = s
      /\ \A k \in 1 .. Len(w) : Append(w, s)[k] = w[k]
  BY AppendProperties, LenProperties
<1>2. PICK n \in Nat : n = Len(w)
  BY <1>1
<1>3. LeadsTo(Append(w, s), Parsed(f, s, n + 1))
  BY <1>1, <1>2, OneMoreSymbol
<1> QED
  BY <1>1, <1>2, <1>3

-------------------------------------------------------------------------------
(* The terminal's parser, in the middle of a sequence that the filter has    *)
(* written: what the parser g was becomes h.                                 *)
InSequence(g, h, inter, params) ==
  /\ h \in FilterState /\ SamePerformer(g, h) /\ ~h.ignore
  /\ h.inter = inter /\ h.params = params

LEMMA SequenceBegins ==
  ASSUME NEW g \in FilterState, NEW i, NEW j
  PROVE  LET h == Parsed(Parsed(g, "ESC", i), "[", j) IN
         InSequence(g, h, <<>>, <<"0">>) /\ h.state = "csiEntry"
<1> DEFINE e == Parsed(g, "ESC", i)
           h == Parsed(e, "[", j)
           r == ResetParams(g)
           q == ResetParams(e)
<1>1. e = To(r, "escape")
  BY DEF Parsed
<1>2. r \in FilterState /\ SamePerformer(g, r)
  BY ResetEmpties
<1>3. e \in FilterState /\ e.state = "escape" /\ SamePerformer(r, e)
  <2> HIDE DEF r, e
  <2> QED
    BY <1>1, <1>2, ToMoves DEF ParserState
<1>4. h = To(q, "csiEntry")
  <2> HIDE DEF e
  <2> QED
    BY <1>3 DEF Parsed, InEscape, C0, C1, NotAscii, Wide, Intermediate
<1> HIDE DEF e, r
<1>5. /\ q \in FilterState /\ SamePerformer(e, q)
      /\ q.inter = <<>> /\ q.params = <<"0">> /\ ~q.ignore
  <2>1. q.inter = <<>> /\ q.params = <<"0">> /\ ~q.ignore
    BY <1>3 DEF ResetParams, FilterState
  <2> QED
    BY <1>3, <2>1, ResetEmpties
<1> HIDE DEF q
<1>6. /\ To(q, "csiEntry") \in FilterState /\ To(q, "csiEntry").state = "csiEntry"
      /\ SamePerformer(q, To(q, "csiEntry")) /\ SameSequence(q, To(q, "csiEntry"))
  BY <1>5, ToMoves DEF ParserState
<1> QED
  BY <1>2, <1>3, <1>4, <1>5, <1>6 DEF InSequence, SamePerformer, SameSequence, e

LEMMA MarkerIsRead ==
  ASSUME NEW g, NEW h, NEW params, InSequence(g, h, <<>>, params), h.state = "csiEntry",
         NEW s \in Private, NEW i
  PROVE  LET k == Parsed(h, s, i) IN
         InSequence(g, k, <<s>>, params) /\ k.state = "csiParam"
<1> DEFINE c == Collect(h, s)
<1>1. h \in FilterState /\ h.inter = <<>> /\ h.params = params /\ ~h.ignore
  BY DEF InSequence
<1>2. Parsed(h, s, i) = To(c, "csiParam")
  BY <1>1 DEF Parsed, InCsi, MoreCsi, C0, C1, NotAscii, Wide, Final, Intermediate, Private, Parameter,
              Number, Separator
<1>3. c \in FilterState /\ SamePerformer(h, c)
  BY <1>1, CollectAppends, EmptySeq
<1>4. c.inter = <<s>> /\ c.params = h.params /\ c.ignore = h.ignore
  BY <1>1 DEF Collect, FilterState
<1> HIDE DEF c
<1>5. /\ To(c, "csiParam") \in FilterState /\ To(c, "csiParam").state = "csiParam"
      /\ SamePerformer(c, To(c, "csiParam")) /\ SameSequence(c, To(c, "csiParam"))
  BY <1>3, ToMoves DEF ParserState
<1> QED
  BY <1>1, <1>2, <1>3, <1>4, <1>5 DEF InSequence, SamePerformer, SameSequence

LEMMA ParamIsRead ==
  ASSUME NEW g, NEW h, NEW inter, NEW params, InSequence(g, h, inter, params),
         h.state \in {"csiEntry", "csiParam"}, NEW s \in Parameter, NEW i
  PROVE  LET k == Parsed(h, s, i) IN
         InSequence(g, k, inter, AddParam(h, s).params) /\ k.state = "csiParam"
<1> DEFINE a == AddParam(h, s)
<1>1. h \in FilterState /\ h.inter = inter /\ ~h.ignore
  BY DEF InSequence
<1>2. Parsed(h, s, i) = To(a, "csiParam")
  <2>1. s \notin Private \cup Intermediate \cup C0 \cup NotAscii \cup Final \cup {"ESC", "CAN"}
    BY DEF C0, C1, NotAscii, Wide, Final, Intermediate, Private, Parameter, Number, Separator
  <2>2. Parsed(h, s, i) = InCsi(h, s, i)
    BY <2>1 DEF Parsed
  <2>3. InCsi(h, s, i) = MoreCsi(h, s)
    BY <2>1 DEF InCsi
  <2>4. MoreCsi(h, s) = To(a, "csiParam")
    BY <2>1 DEF MoreCsi
  <2> QED
    BY <2>2, <2>3, <2>4
<1>3. a \in FilterState /\ SamePerformer(h, a) /\ a.inter = h.inter
  BY <1>1, AddParamAdds
<1>4. a.ignore = h.ignore
  BY <1>1 DEF AddParam, FilterState
<1> HIDE DEF a
<1>5. /\ To(a, "csiParam") \in FilterState /\ To(a, "csiParam").state = "csiParam"
      /\ SamePerformer(a, To(a, "csiParam")) /\ SameSequence(a, To(a, "csiParam"))
  BY <1>3, ToMoves DEF ParserState
<1> QED
  BY <1>1, <1>2, <1>3, <1>4, <1>5 DEF InSequence, SamePerformer, SameSequence, a

-------------------------------------------------------------------------------
(* How write_csi begins a sequence: all but the last parameter.              *)
HeadOf(inter, params) == (<<"ESC", "[">> \o Markers(inter)) \o AllButLast(params)

(* Whoever reads that, whatever was read before it, has the parameters that  *)
(* the filter had when it read the last of them.                             *)
Rereads(inter, params) ==
  \A w \in Seq(Symbol), g \in FilterState :
    LeadsTo(w, g) =>
      \E h : /\ LeadsTo(w \o HeadOf(inter, params), h)
             /\ InSequence(g, h, Markers(inter), Append(AllButLast(params), "0"))
             /\ h.state = IF inter = <<>> /\ Len(params) = 1 THEN "csiEntry" ELSE h.state
             /\ h.state \in {"csiEntry", "csiParam"}

SequenceParts(inter, params) ==
  /\ inter \in Seq(Intermediate \cup Private)
  /\ params \in Seq(Parameter) /\ Len(params) >= 1 /\ params[Len(params)] \in Number

LEMMA SymbolKinds ==
  /\ Intermediate \cup Private \subseteq Symbol /\ Parameter \subseteq Symbol
  /\ Number \subseteq Parameter /\ "0" \in Number /\ Separator \subseteq Parameter
  /\ \A n \in Number : n \notin Separator
  /\ {"ESC", "[", "7"} \subseteq Symbol /\ Final \subseteq Symbol
BY DEF Symbol, Parameter, Number, Separator, Final

LEMMA MarkersAre ==
  ASSUME NEW inter \in Seq(Intermediate \cup Private)
  PROVE  /\ Markers(inter) \in Seq(Intermediate \cup Private)
         /\ inter = <<>> => Markers(inter) = <<>>
         /\ \A s \in Intermediate : Markers(Append(inter, s)) = Markers(inter)
         /\ \A s \in Private : Markers(<<s>>) = <<s>>
<1> DEFINE Kind == Intermediate \cup Private
<1>1. Len(inter) \in Nat /\ (inter # <<>> => Len(inter) >= 1)
  BY LenProperties, EmptySeq
<1>2. Marked(inter) \in {0, 1} /\ (Marked(inter) = 1 => Len(inter) >= 1)
  BY <1>1 DEF Marked
<1>3. \A k \in 1 .. Len(inter) : inter[k] \in Kind
  BY ElementOfSeq
<1>4. Markers(inter) \in Seq(Kind)
  BY <1>1, <1>2, <1>3, SubSeqProperties DEF Markers
<1>5. \A u : Marked(u) = 0 => Markers(u) = <<>>
  BY SubSeqEmpty DEF Markers
<1>6. inter = <<>> => Markers(inter) = <<>>
  BY <1>5 DEF Marked
<1>7. ASSUME NEW s \in Intermediate
      PROVE  Markers(Append(inter, s)) = Markers(inter)
  <2> DEFINE more == Append(inter, s)
  <2>1. /\ more \in Seq(Kind) /\ more # <<>> /\ Len(more) = Len(inter) + 1
        /\ \A k \in 1 .. Len(inter) : more[k] = inter[k]
        /\ more[Len(inter) + 1] = s
    <3>1. s \in Kind
      OBVIOUS
    <3> HIDE DEF Kind
    <3> QED
      BY <3>1, AppendProperties DEF Kind
  <2> HIDE DEF more
  <2>2. CASE inter = <<>>
    <3>1. more[1] = s /\ s \notin Private
      <4>1. Len(inter) = 0
        BY <2>2
      <4>2. more[1] = s
        BY <2>1, <4>1
      <4> QED
        BY <4>2 DEF Intermediate, Private
    <3> QED
      BY <1>5, <1>6, <2>2, <3>1 DEF Marked, more
  <2>3. CASE inter # <<>>
    <3>1. more[1] = inter[1] /\ Marked(more) = Marked(inter)
      BY <1>1, <2>1, <2>3 DEF Marked
    <3>2. CASE Marked(inter) = 0
      BY <1>5, <3>1, <3>2 DEF more
    <3>3. CASE Marked(inter) = 1
      <4>1. \A u : Marked(u) = 1 => Markers(u) = SubSeq(u, 1, 1)
        BY DEF Markers
      <4>2. 1 \in 1 .. Len(inter) /\ 1 \in 1 .. Len(more) /\ Len(inter) \in Nat
        BY <1>1, <2>1, <2>3
      <4>3. \A u \in Seq(Kind) : Len(u) >= 1 => SubSeq(u, 1, 1) = <<u[1]>>
        <5> SUFFICES ASSUME NEW u \in Seq(Kind), Len(u) >= 1
                     PROVE  SubSeq(u, 1, 1) = <<u[1]>>
          OBVIOUS
        <5>1. 1 \in 1 .. Len(u)
          BY LenProperties
        <5>2. SubSeq(u, 1, 1) = SubSeq(u, 1, 1 - 1) \o <<u[1]>>
          BY <5>1, SubSeqRecursiveSecond
        <5>3. SubSeq(u, 1, 1 - 1) = <<>>
          BY SubSeqEmpty
        <5>4. u[1] \in Kind
          BY <5>1, ElementOfSeq
        <5>5. <<u[1]>> \in Seq(Kind)
          BY <5>4
        <5> QED
          BY <5>2, <5>3, <5>5, ConcatEmptySeq
      <4> QED
        <5>1. Markers(inter) = <<inter[1]>>
          BY <3>3, <4>1, <4>2, <4>3
        <5>2. Len(more) >= 1 /\ Marked(more) = 1
          BY <2>1, <3>1, <3>3, <4>2
        <5>3. Markers(more) = <<more[1]>>
          BY <2>1, <4>1, <4>3, <5>2
        <5> QED
          BY <3>1, <5>1, <5>3 DEF more
    <3> QED
      BY <1>2, <3>2, <3>3
  <2> QED
    BY <2>2, <2>3
<1>8. ASSUME NEW s \in Private
      PROVE  Markers(<<s>>) = <<s>>
  <2>1. <<s>>[1] = s /\ <<s>> # <<>> /\ <<s>> \in Seq(Private) /\ Len(<<s>>) = 1
    OBVIOUS
  <2>2. Marked(<<s>>) = 1
    BY <2>1 DEF Marked
  <2>3. Markers(<<s>>) = SubSeq(<<s>>, 1, Len(<<s>>))
    BY <2>1, <2>2 DEF Markers
  <2> QED
    BY <2>1, <2>3, SubSeqFull
<1> QED
  BY <1>4, <1>6, <1>7, <1>8

LEMMA HeadIs ==
  ASSUME NEW inter, NEW params, SequenceParts(inter, params)
  PROVE  /\ HeadOf(inter, params) \in Seq(Symbol)
         /\ AllButLast(params) \in Seq(Parameter)
         /\ params = Append(AllButLast(params), params[Len(params)])
         /\ \A w \in Seq(Symbol) : w \o HeadOf(inter, params) \in Seq(Symbol)
<1>1. /\ AllButLast(params) \in Seq(Parameter)
      /\ params = Append(AllButLast(params), params[Len(params)])
  BY LastIsAppended DEF SequenceParts
<1>2. Markers(inter) \in Seq(Intermediate \cup Private)
  BY MarkersAre DEF SequenceParts
<1>3. AllButLast(params) \in Seq(Symbol) /\ Markers(inter) \in Seq(Symbol)
  BY <1>1, <1>2, SymbolKinds, SeqOfMore
<1>4. <<"ESC", "[">> \in Seq(Symbol)
  <2>1. "ESC" \in Symbol /\ "[" \in Symbol
    BY SymbolKinds
  <2> QED
    BY <2>1
<1>5. HeadOf(inter, params) \in Seq(Symbol)
  BY <1>3, <1>4, ConcatProperties DEF HeadOf
<1> QED
  BY <1>1, <1>5, ConcatProperties

LEMMA NothingIsReread == Rereads(<<>>, <<"0">>)
<1>1. HeadOf(<<>>, <<"0">>) = <<"ESC", "[">> /\ AllButLast(<<"0">>) = <<>>
  <2>1. <<>> \in Seq(Intermediate \cup Private)
    OBVIOUS
  <2>2. AllButLast(<<"0">>) = <<>>
    BY SubSeqEmpty DEF AllButLast
  <2>3. Markers(<<>>) = <<>>
    BY <2>1, MarkersAre
  <2>4. <<"ESC", "[">> \in Seq(Symbol)
    <3>1. "ESC" \in Symbol /\ "[" \in Symbol
      BY SymbolKinds
    <3> QED
      BY <3>1
  <2> QED
    BY <2>2, <2>3, <2>4, ConcatEmptySeq DEF HeadOf
<1>2. ASSUME NEW w \in Seq(Symbol), NEW g \in FilterState, LeadsTo(w, g)
      PROVE  \E h : /\ LeadsTo(w \o <<"ESC", "[">>, h)
                    /\ InSequence(g, h, <<>>, <<"0">>) /\ h.state = "csiEntry"
  <2>1. "ESC" \in Symbol /\ "[" \in Symbol
    BY SymbolKinds
  <2> DEFINE v == Append(w, "ESC")
             e == Parsed(g, "ESC", Len(w) + 1)
             h == Parsed(e, "[", Len(v) + 1)
  <2>2. v \in Seq(Symbol) /\ LeadsTo(v, e)
    BY <1>2, <2>1, LeadsOn
  <2>3. LeadsTo(Append(v, "["), h)
    <3> HIDE DEF v, e
    <3> QED
      BY <2>1, <2>2, LeadsOn
  <2>4. InSequence(g, h, <<>>, <<"0">>) /\ h.state = "csiEntry"
    BY SequenceBegins
  <2>5. w \o <<"ESC", "[">> = Append(v, "[")
    <3>1. <<"ESC", "[">> = Append(<<"ESC">>, "[") /\ <<"ESC">> \in Seq(Symbol)
      BY <2>1
    <3>2. w \o Append(<<"ESC">>, "[") = Append(w \o <<"ESC">>, "[")
      BY <2>1, <3>1, ConcatAppend
    <3>3. v = w \o <<"ESC">>
      BY <2>1, AppendIsConcat
    <3> QED
      BY <3>1, <3>2, <3>3
  <2> HIDE DEF v, e, h
  <2> QED
    BY <2>3, <2>4, <2>5
<1>3. Markers(<<>>) = <<>> /\ Len(<<"0">>) = 1 /\ Append(<<>>, "0") = <<"0">>
  <2>1. <<>> \in Seq(Intermediate \cup Private)
    OBVIOUS
  <2>2. Markers(<<>>) = <<>>
    BY <2>1, MarkersAre
  <2>3. Len(<<"0">>) = 1 /\ Append(<<>>, "0") = <<"0">>
    OBVIOUS
  <2> QED
    BY <2>2, <2>3
<1> QED
  BY <1>1, <1>2, <1>3 DEF Rereads

LEMMA MarkerIsReread ==
  ASSUME NEW params, SequenceParts(<<>>, params), Len(params) = 1,
         Rereads(<<>>, params), NEW s \in Private
  PROVE  Rereads(<<s>>, params)
<1>1. AllButLast(params) = <<>>
  BY SubSeqEmpty DEF AllButLast
<1>2. Markers(<<>>) = <<>> /\ Markers(<<s>>) = <<s>> /\ <<s>> # <<>>
  <2>1. <<>> \in Seq(Intermediate \cup Private)
    OBVIOUS
  <2> QED
    BY <2>1, MarkersAre
<1>3. s \in Symbol /\ "ESC" \in Symbol /\ "[" \in Symbol
  BY SymbolKinds
<1>4. <<"ESC", "[">> \in Seq(Symbol) /\ <<s>> \in Seq(Symbol)
  BY <1>3
<1>5. HeadOf(<<>>, params) = <<"ESC", "[">>
  BY <1>1, <1>2, <1>4, ConcatEmptySeq DEF HeadOf
<1>6. HeadOf(<<s>>, params) = Append(<<"ESC", "[">>, s)
  <2>1. <<"ESC", "[">> \o <<s>> \in Seq(Symbol)
    BY <1>4, ConcatProperties
  <2>2. HeadOf(<<s>>, params) = <<"ESC", "[">> \o <<s>>
    BY <1>1, <1>2, <2>1, ConcatEmptySeq DEF HeadOf
  <2> QED
    BY <1>3, <1>4, <2>2, AppendIsConcat
<1> SUFFICES ASSUME NEW w \in Seq(Symbol), NEW g \in FilterState, LeadsTo(w, g)
             PROVE  \E h : /\ LeadsTo(w \o HeadOf(<<s>>, params), h)
                           /\ InSequence(g, h, <<s>>, Append(AllButLast(params), "0"))
                           /\ h.state \in {"csiEntry", "csiParam"}
  BY <1>2 DEF Rereads
<1>7. PICK h : /\ LeadsTo(w \o <<"ESC", "[">>, h)
               /\ InSequence(g, h, <<>>, Append(AllButLast(params), "0"))
               /\ h.state = "csiEntry"
  BY <1>2, <1>5 DEF Rereads
<1>8. PICK v \in Seq(Symbol) : v = w \o <<"ESC", "[">>
  BY <1>4, ConcatProperties
<1>9. PICK k : k = Parsed(h, s, Len(v) + 1)
  OBVIOUS
<1>10. LeadsTo(Append(v, s), k)
  BY <1>3, <1>7, <1>8, <1>9, LeadsOn
<1>11. InSequence(g, k, <<s>>, Append(AllButLast(params), "0")) /\ k.state = "csiParam"
  BY <1>7, <1>9, MarkerIsRead
<1>12. w \o HeadOf(<<s>>, params) = Append(v, s)
  <2>1. PICK u \in Seq(Symbol) : u = <<"ESC", "[">>
    BY <1>4
  <2>2. w \o Append(u, s) = Append(w \o u, s)
    BY <1>3, ConcatAppend
  <2> QED
    BY <1>6, <1>8, <2>1, <2>2
<1> QED
  BY <1>10, <1>11, <1>12

(* An intermediate goes last and comes again when all the rest is there.     *)
LEMMA IntermediateIsReread ==
  ASSUME NEW inter, NEW params, SequenceParts(inter, params), Rereads(inter, params),
         NEW s \in Intermediate
  PROVE  Rereads(Append(inter, s), params)
<1>1. Markers(Append(inter, s)) = Markers(inter)
  BY MarkersAre DEF SequenceParts
<1>2. HeadOf(Append(inter, s), params) = HeadOf(inter, params)
  BY <1>1 DEF HeadOf
<1>3. Append(inter, s) # <<>>
  <2>1. s \in Intermediate \cup Private
    OBVIOUS
  <2> QED
    BY <2>1, AppendProperties DEF SequenceParts
<1> QED
  BY <1>1, <1>2, <1>3 DEF Rereads

LEMMA NumberIsReread ==
  ASSUME NEW inter, NEW params, SequenceParts(inter, params), Rereads(inter, params),
         NEW n \in Number
  PROVE  LET more == [params EXCEPT ![Len(params)] = n] IN
         SequenceParts(inter, more) /\ Rereads(inter, more)
<1> DEFINE more == [params EXCEPT ![Len(params)] = n]
<1>1. params \in Seq(Parameter) /\ Len(params) \in Nat /\ Len(params) \in 1 .. Len(params)
      /\ n \in Parameter /\ inter \in Seq(Intermediate \cup Private)
  <2>1. Len(params) \in Nat
    BY LenProperties DEF SequenceParts
  <2>2. n \in Parameter
    BY SymbolKinds
  <2>3. Len(params) \in 1 .. Len(params)
    BY <2>1 DEF SequenceParts
  <2> QED
    BY <2>1, <2>2, <2>3 DEF SequenceParts
<1>2. more = Append(AllButLast(params), n)
  BY <1>1, LastReplaced DEF SequenceParts
<1> HIDE DEF more
<1>3. /\ more \in Seq(Parameter) /\ AllButLast(more) = AllButLast(params)
      /\ Len(more) = Len(params) /\ more[Len(more)] = n
  <2>1. AllButLast(params) \in Seq(Parameter) /\ Len(AllButLast(params)) = Len(params) - 1
    BY <1>1, LastIsAppended DEF SequenceParts
  <2>2. /\ more \in Seq(Parameter) /\ AllButLast(more) = AllButLast(params)
        /\ Len(more) = Len(AllButLast(params)) + 1 /\ more[Len(more)] = n
    BY <1>1, <1>2, <2>1, AppendedIsLast
  <2> QED
    BY <1>1, <2>1, <2>2
<1>4. SequenceParts(inter, more)
  BY <1>1, <1>3 DEF SequenceParts
<1>5. HeadOf(inter, more) = HeadOf(inter, params)
  BY <1>3 DEF HeadOf
<1>6. Rereads(inter, more)
  BY <1>3, <1>5 DEF Rereads
<1> QED
  BY <1>4, <1>6 DEF more

(* A number takes the place of the zero that stands for the last parameter.  *)
LEMMA ZeroIsReplaced ==
  ASSUME NEW h \in FilterState, NEW front \in Seq(Parameter), h.params = Append(front, "0")
  PROVE  /\ \A n \in Number : AddParam(h, n).params = Append(front, n)
         /\ \A s \in Separator : AddParam(h, s).params = Append(Append(h.params, s), "0")
<1>1. "0" \in Parameter /\ Separator \subseteq Parameter
  BY SymbolKinds
<1>2. /\ h.params \in Seq(Parameter) /\ h.params[Len(h.params)] = "0"
      /\ AllButLast(h.params) = front /\ Len(h.params) >= 1
  <2>1. /\ Append(front, "0")[Len(Append(front, "0"))] = "0"
        /\ AllButLast(Append(front, "0")) = front
        /\ Len(Append(front, "0")) = Len(front) + 1
    BY <1>1, AppendedIsLast
  <2>2. Len(front) \in Nat
    BY LenProperties
  <2> QED
    BY <2>1, <2>2 DEF FilterState
<1>3. ASSUME NEW n \in Number
      PROVE  AddParam(h, n).params = Append(front, n)
  <2>1. n \notin Separator /\ n \in Parameter
    BY SymbolKinds
  <2>2. AddParam(h, n).params = [h.params EXCEPT ![Len(h.params)] = n]
    BY <1>2, <2>1 DEF AddParam, FilterState
  <2>3. PICK p \in Seq(Parameter) : p = h.params
    BY <1>2
  <2>4. Len(p) >= 1
    BY <1>2, <2>3
  <2>5. [p EXCEPT ![Len(p)] = n] = Append(AllButLast(p), n)
    BY <2>1, <2>4, LastReplaced
  <2> QED
    BY <1>2, <2>2, <2>3, <2>5
<1>4. ASSUME NEW s \in Separator
      PROVE  AddParam(h, s).params = Append(Append(h.params, s), "0")
  <2>1. AddParam(h, s).params = h.params \o <<s, "0">>
    BY DEF AddParam, FilterState
  <2>2. s \in Parameter
    BY <1>1
  <2> QED
    BY <1>1, <1>2, <2>1, <2>2, TwoAppended
<1> QED
  BY <1>3, <1>4

(* With the last parameter the terminal's parser, which was g after w and is *)
(* h after v, knows as much as the filter's.                                 *)
ReadsParams(w, g, inter, params, v, h) ==
  /\ v \in Seq(Symbol) /\ v = (w \o (<<"ESC", "[">> \o Markers(inter))) \o params
  /\ LeadsTo(v, h) /\ InSequence(g, h, Markers(inter), params) /\ h.state = "csiParam"

LEMMA LastIsReread ==
  ASSUME NEW inter, NEW params, SequenceParts(inter, params), Rereads(inter, params),
         NEW w \in Seq(Symbol), NEW g \in FilterState, LeadsTo(w, g)
  PROVE  \E v, h : ReadsParams(w, g, inter, params, v, h)
<1> DEFINE last == params[Len(params)]
           front == AllButLast(params)
           begin == <<"ESC", "[">> \o Markers(inter)
<1>1. PICK h : /\ LeadsTo(w \o HeadOf(inter, params), h)
               /\ InSequence(g, h, Markers(inter), Append(front, "0"))
               /\ h.state \in {"csiEntry", "csiParam"}
  BY DEF Rereads
<1>2. /\ front \in Seq(Parameter) /\ params = Append(front, last) /\ last \in Number
      /\ last \in Parameter /\ HeadOf(inter, params) = begin \o front
      /\ w \o HeadOf(inter, params) \in Seq(Symbol)
  <2>1. last \in Number /\ last \in Parameter
    BY SymbolKinds DEF SequenceParts
  <2> QED
    BY <2>1, HeadIs DEF HeadOf
<1>3. begin \in Seq(Symbol) /\ front \in Seq(Symbol) /\ last \in Symbol
  <2>1. Markers(inter) \in Seq(Intermediate \cup Private)
    BY MarkersAre DEF SequenceParts
  <2>2. Markers(inter) \in Seq(Symbol)
    BY <2>1, SymbolKinds, SeqOfMore
  <2>3. "ESC" \in Symbol /\ "[" \in Symbol
    BY SymbolKinds
  <2>4. <<"ESC", "[">> \in Seq(Symbol)
    BY <2>3
  <2>5. front \in Seq(Symbol)
    BY <1>2, SymbolKinds, SeqOfMore
  <2>6. last \in Symbol
    BY <1>2, SymbolKinds
  <2> QED
    BY <2>2, <2>4, <2>5, <2>6, ConcatProperties
<1> HIDE DEF last, front, begin
<1>4. PICK u \in Seq(Symbol) : u = w \o HeadOf(inter, params)
  BY <1>2
<1>5. PICK k : k = Parsed(h, last, Len(u) + 1)
  OBVIOUS
<1>6. Append(u, last) \in Seq(Symbol) /\ LeadsTo(Append(u, last), k)
  BY <1>1, <1>3, <1>4, <1>5, LeadsOn
<1>7. h \in FilterState /\ h.params = Append(front, "0")
  BY <1>1 DEF InSequence
<1>8. AddParam(h, last).params = params
  BY <1>2, <1>7, ZeroIsReplaced
<1>9. InSequence(g, k, Markers(inter), params) /\ k.state = "csiParam"
  BY <1>1, <1>2, <1>5, <1>8, ParamIsRead
<1>10. Append(u, last) = (w \o begin) \o params
  <2>1. (w \o begin) \o Append(front, last) = Append(w \o (begin \o front), last)
    BY <1>3, LastOfThree, SMTT(30)
  <2> QED
    BY <1>2, <1>4, <2>1
<1> QED
  BY <1>6, <1>9, <1>10 DEF begin, ReadsParams

LEMMA SeparatorIsReread ==
  ASSUME NEW inter, NEW params, SequenceParts(inter, params), Rereads(inter, params),
         NEW s \in Separator
  PROVE  LET more == Append(Append(params, s), "0") IN
         SequenceParts(inter, more) /\ Rereads(inter, more)
<1> DEFINE shorter == Append(params, s)
           more == Append(shorter, "0")
<1>1. s \in Parameter /\ "0" \in Parameter /\ "0" \in Number /\ s \in Symbol
  BY SymbolKinds
<1>2. params \in Seq(Parameter) /\ shorter \in Seq(Parameter)
      /\ Len(shorter) = Len(params) + 1 /\ Len(params) \in Nat
  BY <1>1, AppendProperties, LenProperties DEF SequenceParts
<1> HIDE DEF shorter
<1>3. /\ more \in Seq(Parameter) /\ AllButLast(more) = shorter
      /\ Len(more) = Len(shorter) + 1 /\ more[Len(more)] = "0"
  BY <1>1, <1>2, AppendedIsLast
<1> HIDE DEF more
<1>4. SequenceParts(inter, more)
  <2>1. Len(more) >= 1
    BY <1>2, <1>3
  <2> QED
    BY <1>1, <1>3, <2>1 DEF SequenceParts
<1>5. Len(more) # 1
  BY <1>2, <1>3 DEF SequenceParts
<1>6. ASSUME NEW w \in Seq(Symbol), NEW g \in FilterState, LeadsTo(w, g)
      PROVE  \E h : /\ LeadsTo(w \o HeadOf(inter, more), h)
                    /\ InSequence(g, h, Markers(inter), Append(shorter, "0"))
                    /\ h.state = "csiParam"
  <2> DEFINE begin == <<"ESC", "[">> \o Markers(inter)
  <2>1. PICK v, h :
          /\ v \in Seq(Symbol) /\ v = (w \o begin) \o params
          /\ LeadsTo(v, h) /\ InSequence(g, h, Markers(inter), params) /\ h.state = "csiParam"
    <3>1. PICK v, h : ReadsParams(w, g, inter, params, v, h)
      BY <1>6, LastIsReread
    <3> QED
      BY <3>1, Zenon DEF ReadsParams, begin
  <2>2. PICK k : k = Parsed(h, s, Len(v) + 1)
    OBVIOUS
  <2>3. LeadsTo(Append(v, s), k)
    BY <1>1, <2>1, <2>2, LeadsOn
  <2>4. AddParam(h, s).params = Append(Append(params, s), "0")
    <3>1. h \in FilterState /\ h.params = params
      BY <2>1 DEF InSequence
    <3>2. AddParam(h, s).params = params \o <<s, "0">>
      BY <3>1 DEF AddParam, FilterState
    <3> QED
      BY <1>1, <1>2, <3>2, TwoAppended
  <2>5. InSequence(g, k, Markers(inter), Append(shorter, "0")) /\ k.state = "csiParam"
    BY <1>1, <2>1, <2>2, <2>4, ParamIsRead DEF shorter
  <2>6. Append(v, s) = w \o HeadOf(inter, more)
    <3>1. begin \in Seq(Symbol) /\ params \in Seq(Symbol)
      <4>1. Markers(inter) \in Seq(Intermediate \cup Private)
        BY MarkersAre DEF SequenceParts
      <4>2. Markers(inter) \in Seq(Symbol) /\ params \in Seq(Symbol)
        BY <1>2, <4>1, SymbolKinds, SeqOfMore
      <4>3. "ESC" \in Symbol /\ "[" \in Symbol
        BY SymbolKinds
      <4>4. <<"ESC", "[">> \in Seq(Symbol)
        BY <4>3
      <4> QED
        BY <4>2, <4>4, ConcatProperties
    <3>2. HeadOf(inter, more) = begin \o Append(params, s)
      BY <1>3 DEF HeadOf, shorter
    <3> HIDE DEF begin
    <3>3. begin \o Append(params, s) = Append(begin \o params, s)
      BY <1>1, <3>1, ConcatAppend
    <3>4. begin \o params \in Seq(Symbol)
      BY <3>1, ConcatProperties
    <3>5. w \o Append(begin \o params, s) = Append(w \o (begin \o params), s)
      BY <1>1, <3>4, ConcatAppend
    <3>6. v = w \o (begin \o params)
      BY <2>1, <3>1, ConcatAssociative, SMTT(60) DEF begin
    <3> QED
      BY <3>2, <3>3, <3>5, <3>6
  <2> QED
    BY <2>3, <2>5, <2>6
<1>7. Rereads(inter, more)
  BY <1>3, <1>5, <1>6 DEF Rereads
<1> QED
  BY <1>4, <1>7 DEF more, shorter

-------------------------------------------------------------------------------
(* The terminal's parser g, when it has read the output w, has let all of it *)
(* through, is in the middle of nothing, and has counted no more marks than  *)
(* the filter, for which some of them did not count.                         *)
Echoes(w, marks, g) ==
  /\ g \in FilterState /\ LeadsTo(w, g) /\ Symbols(g.out) = w
  /\ g.state = "ground" /\ ~g.title /\ g.marks <= marks

LEMMA SymbolsWritten ==
  ASSUME NEW out \in Seq(Output), NEW symbols \in Seq(Symbol), NEW i \in Nat
  PROVE  /\ Symbols(out) \in Seq(Symbol)
         /\ Symbols(out \o Stamped(symbols, i)) = Symbols(out) \o symbols
<1> DEFINE more == out \o Stamped(symbols, i)
           l == Len(out)
           n == Len(symbols)
<1>1. /\ l \in Nat /\ DOMAIN out = 1 .. l /\ n \in Nat
  BY LenProperties
<1>2. \A k \in 1 .. l : out[k].symbol \in Symbol
  <2>1. \A k \in 1 .. l : out[k] \in Output
    BY ElementOfSeq
  <2> QED
    BY <2>1 DEF Output
<1>3. /\ Stamped(symbols, i) \in Seq(Output) /\ Len(Stamped(symbols, i)) = n
      /\ \A k \in 1 .. n : Stamped(symbols, i)[k].symbol = symbols[k]
  <2>1. /\ Stamped(symbols, i) \in Seq(Output) /\ Len(Stamped(symbols, i)) = n
        /\ \A k \in 1 .. n : Stamped(symbols, i)[k] = [symbol |-> symbols[k], at |-> i]
    BY StampedIsOutput
  <2> HIDE DEF n
  <2> QED
    BY <2>1
<1> HIDE DEF l, n
<1>4. /\ more \in Seq(Output) /\ Len(more) = l + n
      /\ \A k \in 1 .. (l + n) :
           more[k] = IF k <= l THEN out[k] ELSE Stamped(symbols, i)[k - l]
  BY <1>3, ConcatProperties DEF l
<1> HIDE DEF more
<1>5. DOMAIN more = 1 .. (l + n)
  BY <1>4, LenProperties
<1>6. Symbols(out) = [k \in 1 .. l |-> out[k].symbol]
  BY <1>1 DEF Symbols
<1>7. Symbols(out) \in Seq(Symbol) /\ Len(Symbols(out)) = l
  <2>1. Symbols(out) \in [1 .. l -> Symbol]
    BY <1>2, <1>6
  <2>2. Symbols(out) \in Seq(Symbol)
    BY <1>1, <2>1, SeqDef
  <2> QED
    BY <1>1, <2>1, <2>2, LenProperties
<1>8. \A k \in 1 .. l : Symbols(out)[k] = out[k].symbol
  BY <1>6
<1>9. \A k \in 1 .. (l + n) : Symbols(more)[k] = more[k].symbol
  BY <1>5 DEF Symbols
<1>10. \A k \in 1 .. (l + n) : more[k] \in Output
  BY <1>4, ElementOfSeq
<1>11. Symbols(more) \in Seq(Symbol) /\ Len(Symbols(more)) = l + n
  <2>1. Symbols(more) = [k \in 1 .. (l + n) |-> more[k].symbol]
    BY <1>5 DEF Symbols
  <2>2. Symbols(more) \in [1 .. (l + n) -> Symbol]
    BY <1>10, <2>1 DEF Output
  <2>3. l + n \in Nat
    BY <1>1
  <2>4. Symbols(more) \in Seq(Symbol)
    BY <2>2, <2>3, SeqDef
  <2> QED
    BY <2>2, <2>3, <2>4, LenProperties
<1>12. /\ Symbols(out) \o symbols \in Seq(Symbol)
       /\ Len(Symbols(out) \o symbols) = l + n
       /\ \A k \in 1 .. (l + n) :
            (Symbols(out) \o symbols)[k] = IF k <= l THEN Symbols(out)[k] ELSE symbols[k - l]
  BY <1>7, ConcatProperties DEF n
<1>13. ASSUME NEW k \in 1 .. (l + n)
       PROVE  Symbols(more)[k] = (Symbols(out) \o symbols)[k]
  <2>1. CASE k <= l
    <3>1. k \in 1 .. l
      BY <1>1, <2>1
    <3> QED
      BY <1>4, <1>8, <1>9, <1>12, <2>1, <3>1
  <2>2. CASE ~(k <= l)
    <3>1. k - l \in 1 .. n
      BY <1>1, <2>2
    <3> QED
      BY <1>3, <1>4, <1>9, <1>12, <2>2, <3>1
  <2> QED
    BY <2>1, <2>2
<1>14. Symbols(more) = Symbols(out) \o symbols
  <2>1. \A u, v \in Seq(Symbol) :
          Len(u) = Len(v) /\ (\A k \in 1 .. Len(u) : u[k] = v[k]) => u = v
    BY SeqEqual
  <2> QED
    BY <1>11, <1>12, <1>13, <2>1
<1> QED
  BY <1>7, <1>14 DEF more

(* One symbol that the parser writes and that leaves it where it was.        *)
LEMMA SymbolEchoes ==
  ASSUME NEW w \in Seq(Symbol), NEW m \in Nat, NEW g, Echoes(w, m, g),
         NEW s \in Symbol, NEW i \in Nat, i = Len(w) + 1,
         NEW h \in FilterState, h.out = g.out, h.state = "ground", ~h.title,
         NEW n \in Nat, h.marks <= n, Parsed(g, s, i) = Write(h, <<s>>, i)
  PROVE  \E k : Echoes(Append(w, s), n, k)
<1> DEFINE k == Write(h, <<s>>, i)
<1>1. /\ k \in FilterState /\ k.out = h.out \o Stamped(<<s>>, i) /\ k.state = h.state
      /\ k.title = h.title /\ k.marks = h.marks
  BY WriteSymbol
<1>2. LeadsTo(Append(w, s), k)
  BY LeadsOn DEF Echoes
<1> HIDE DEF k
<1>3. Symbols(k.out) = Append(w, s)
  <2>1. g.out \in Seq(Output) /\ Symbols(g.out) = w
    BY DEF Echoes, FilterState
  <2>2. <<s>> \in Seq(Symbol)
    OBVIOUS
  <2>3. Symbols(g.out \o Stamped(<<s>>, i)) = Symbols(g.out) \o <<s>>
    BY <2>1, <2>2, SymbolsWritten
  <2>4. w \o <<s>> = Append(w, s)
    BY AppendIsConcat
  <2> QED
    BY <1>1, <2>1, <2>3, <2>4
<1> QED
  BY <1>1, <1>2, <1>3 DEF Echoes

LEMMA ControlEchoes ==
  ASSUME NEW w \in Seq(Symbol), NEW m \in Nat, NEW g, Echoes(w, m, g),
         NEW s \in C0 \cup {"CAN"}, s # "NUL"
  PROVE  \E k : Echoes(Append(w, s), m, k)
<1> DEFINE f == To(g, "ground")
           h == [f EXCEPT !.title = @ /\ s \notin EndsTitle]
<1>1. PICK i \in Nat : i = Len(w) + 1
  BY LenProperties
<1>2. s \in Symbol /\ s # "ESC" /\ s \notin {"NUL"} \cup C1
  BY DEF Symbol, C0, C1
<1>3. g \in FilterState /\ g.state = "ground" /\ ~g.title /\ g.marks <= m
  BY DEF Echoes
<1>4. f = g
  BY <1>3 DEF To, FilterState
<1>5. Parsed(g, s, i) = Execute(g, s, i)
  BY <1>2, <1>3, <1>4 DEF Parsed, InGround
<1>6. Execute(g, s, i) = Write(h, <<s>>, i)
  BY <1>2, <1>4 DEF Execute
<1>7. h \in FilterState /\ h.out = g.out /\ h.state = "ground" /\ ~h.title /\ h.marks <= m
  BY <1>3, <1>4 DEF FilterState
<1> HIDE DEF f, h
<1> QED
  BY <1>1, <1>2, <1>5, <1>6, <1>7, SymbolEchoes

LEMMA MarkEchoes ==
  ASSUME NEW w \in Seq(Symbol), NEW m \in Nat, NEW g, Echoes(w, m, g), m + 1 <= MarksMax
  PROVE  \E k : Echoes(Append(w, "mark"), m + 1, k)
<1> DEFINE h == [g EXCEPT !.marks = @ + 1]
<1>1. PICK i \in Nat : i = Len(w) + 1
  BY LenProperties
<1>2. "mark" \in Symbol /\ "mark" \notin C0 \cup C1 \cup {"CAN", "ESC", "format", "hidden"}
  BY DEF Symbol, C0, C1, NotAscii, Wide
<1>3. g \in FilterState /\ g.state = "ground" /\ ~g.title /\ g.marks <= m /\ g.marks \in Nat
  BY DEF Echoes, FilterState
<1>4. /\ h \in FilterState /\ h.out = g.out /\ h.state = "ground" /\ ~h.title
      /\ h.marks = g.marks + 1
  <2>1. g.marks + 1 \in Nat
    BY <1>3
  <2>2. h = [g EXCEPT !.marks = g.marks + 1]
    BY <1>3 DEF FilterState
  <2>3. h \in FilterState
    BY <1>3, <2>1, <2>2 DEF FilterState
  <2> QED
    BY <1>3, <2>2, <2>3 DEF FilterState
<1>5. h.marks <= m + 1 /\ ~(h.marks > MarksMax) /\ m + 1 \in Nat
  <2>1. MarksMax \in Nat
    BY AnsiFilterAssumption
  <2> HIDE DEF h
  <2> QED
    BY <1>3, <1>4, <2>1
<1>6. Parsed(g, "mark", i) = PrintChar(g, "mark", i)
  BY <1>2, <1>3 DEF Parsed, InGround
<1>7. PrintChar(g, "mark", i) = Write(h, <<"mark">>, i)
  BY <1>2, <1>3, <1>5 DEF PrintChar, Printed
<1> HIDE DEF h
<1> QED
  BY <1>1, <1>2, <1>4, <1>5, <1>6, <1>7, SymbolEchoes

LEMMA CharacterEchoes ==
  ASSUME NEW w \in Seq(Symbol), NEW m \in Nat, NEW g, Echoes(w, m, g), NEW s \in Symbol,
         s \notin C0 \cup C1 \cup {"CAN", "ESC", "mark", "format", "hidden"}
  PROVE  \E k : Echoes(Append(w, s), 0, k)
<1> DEFINE h == [g EXCEPT !.marks = 0]
<1>1. PICK i \in Nat : i = Len(w) + 1
  BY LenProperties
<1>2. g \in FilterState /\ g.state = "ground" /\ ~g.title
  BY DEF Echoes
<1>3. /\ h \in FilterState /\ h.out = g.out /\ h.state = "ground" /\ ~h.title
      /\ h.marks <= 0
  <2>1. h \in FilterState
    BY <1>2 DEF FilterState
  <2>2. h.marks = 0
    BY <1>2 DEF FilterState
  <2> QED
    BY <1>2, <2>1, <2>2 DEF FilterState
<1>4. Parsed(g, s, i) = PrintChar(g, s, i)
  BY <1>2 DEF Parsed, InGround
<1>5. PrintChar(g, s, i) = Write(h, <<s>>, i)
  BY <1>2 DEF PrintChar, Printed
<1> HIDE DEF h
<1> QED
  BY <1>1, <1>3, <1>4, <1>5, SymbolEchoes

(* A sequence that the parser writes when its last symbol is there.          *)
LEMMA SequenceEchoes ==
  ASSUME NEW w \in Seq(Symbol), NEW m \in Nat, NEW g, Echoes(w, m, g),
         NEW symbols \in Seq(Symbol), NEW i \in Nat, NEW k,
         LeadsTo(w \o symbols, k),
         NEW h \in FilterState, SamePerformer(g, h), h.state = "ground",
         k = Write(h, symbols, i)
  PROVE  Echoes(w \o symbols, m, k)
<1>1. /\ k \in FilterState /\ k.out = h.out \o Stamped(symbols, i) /\ k.state = h.state
      /\ k.title = h.title /\ k.marks = h.marks
  BY WriteShows
<1>2. h.out = g.out /\ h.title = g.title /\ h.marks = g.marks
  BY DEF SamePerformer
<1>3. g.out \in Seq(Output) /\ Symbols(g.out) = w
  BY DEF Echoes, FilterState
<1>4. Symbols(g.out \o Stamped(symbols, i)) = Symbols(g.out) \o symbols
  BY <1>3, SymbolsWritten
<1> QED
  BY <1>1, <1>2, <1>3, <1>4 DEF Echoes

LEMMA EscapeEchoes ==
  ASSUME NEW w \in Seq(Symbol), NEW m \in Nat, NEW g, Echoes(w, m, g)
  PROVE  \E k : Echoes(w \o <<"ESC", "7">>, m, k)
<1>1. "ESC" \in Symbol /\ "7" \in Symbol
  BY SymbolKinds
<1>2. PICK v \in Seq(Symbol), i \in Nat, j \in Nat :
        v = Append(w, "ESC") /\ i = Len(w) + 1 /\ j = Len(v) + 1
  <2>1. Append(w, "ESC") \in Seq(Symbol)
    BY <1>1, AppendProperties
  <2>2. Len(w) + 1 \in Nat
    BY LenProperties
  <2>3. Len(Append(w, "ESC")) + 1 \in Nat
    BY <2>1, LenProperties
  <2> QED
    BY <2>1, <2>2, <2>3
<1>3. PICK r : r = ResetParams(g)
  OBVIOUS
<1>4. PICK e : e = To(r, "escape")
  OBVIOUS
<1>5. PICK h : h = To(e, "ground")
  OBVIOUS
<1>6. PICK k : k = Parsed(e, "7", j)
  OBVIOUS
<1>7. g \in FilterState /\ g.state = "ground"
  BY DEF Echoes
<1>8. r \in FilterState /\ r.inter = <<>> /\ SamePerformer(g, r)
  BY <1>3, <1>7, ResetEmpties
<1>9. e \in FilterState /\ e.state = "escape" /\ e.inter = <<>> /\ SamePerformer(r, e)
  BY <1>4, <1>8, ToMoves DEF ParserState
<1>10. h \in FilterState /\ h.state = "ground" /\ h.inter = <<>> /\ SamePerformer(e, h)
  BY <1>5, <1>9, ToMoves DEF ParserState
<1>11. Parsed(g, "ESC", i) = e
  BY <1>3, <1>4 DEF Parsed
<1>12. k = Write(h, <<"ESC", "7">>, j)
  <2>1. k = InEscape(e, "7", j)
    BY <1>6, <1>9 DEF Parsed
  <2>2. InEscape(e, "7", j) = EscDispatch(h, "7", j)
    BY <1>5 DEF InEscape, C0, C1, NotAscii, Wide, Intermediate
  <2>3. EscDispatch(h, "7", j) = Write(h, <<"ESC", "7">>, j)
    BY <1>10 DEF EscDispatch
  <2> QED
    BY <2>1, <2>2, <2>3
<1>13. SamePerformer(g, h)
  BY <1>8, <1>9, <1>10 DEF SamePerformer
<1>14. LeadsTo(w \o <<"ESC", "7">>, k) /\ <<"ESC", "7">> \in Seq(Symbol)
  <2>1. LeadsTo(v, e)
    BY <1>1, <1>2, <1>11, LeadsOn DEF Echoes
  <2>2. LeadsTo(Append(v, "7"), k)
    BY <1>1, <1>2, <1>6, <2>1, LeadsOn
  <2>3. w \o <<"ESC", "7">> = Append(v, "7")
    BY <1>1, <1>2, TwoAppended
  <2>4. <<"ESC", "7">> \in Seq(Symbol)
    BY <1>1
  <2> QED
    BY <2>2, <2>3, <2>4
<1>15. PICK symbols \in Seq(Symbol) : symbols = <<"ESC", "7">>
  BY <1>14
<1>16. Echoes(w \o symbols, m, k)
  BY <1>2, <1>10, <1>12, <1>13, <1>14, <1>15, SequenceEchoes
<1> QED
  BY <1>15, <1>16

(* The parser that has read all of a sequence but its end writes it.         *)
LEMMA CsiIsWritten ==
  ASSUME NEW f \in FilterState, NEW a \in Final, AllowedCsi(f, a),
         NEW g \in FilterState, NEW h, InSequence(g, h, f.inter, f.params),
         h.state \in {"csiParam", "csiIntermediate"}, NEW i \in Nat
  PROVE  \E p \in FilterState : /\ SamePerformer(g, p) /\ p.state = "ground"
                                /\ Parsed(h, a, i) = Write(p, WriteCsi(f, a), i)
<1>1. PICK p : p = To(h, "ground")
  OBVIOUS
<1>2. h \in FilterState /\ SamePerformer(g, h) /\ ~h.ignore
      /\ h.inter = f.inter /\ h.params = f.params
  BY DEF InSequence
<1>3. /\ p \in FilterState /\ p.state = "ground" /\ SamePerformer(h, p) /\ SameSequence(h, p)
  BY <1>1, <1>2, ToMoves DEF ParserState
<1>4. p.inter = f.inter /\ p.params = f.params /\ ~p.ignore
  BY <1>2, <1>3 DEF SameSequence
<1>5. AllowedCsi(p, a) /\ WriteCsi(p, a) = WriteCsi(f, a)
  BY <1>4 DEF AllowedCsi, AllowedAlone, WriteCsi, Modes, Flat
<1>6. Parsed(h, a, i) = CsiDispatch(p, a, i)
  <2>1. a \notin C0 \cup NotAscii \cup {"ESC", "CAN"}
    BY DEF Final, C0, C1, NotAscii, Wide
  <2>2. Parsed(h, a, i) = InCsi(h, a, i)
    BY <2>1 DEF Parsed
  <2>3. InCsi(h, a, i) = CsiDispatch(p, a, i)
    BY <1>1, <2>1 DEF InCsi
  <2> QED
    BY <2>2, <2>3
<1>7. CsiDispatch(p, a, i) = Write(p, WriteCsi(f, a), i)
  BY <1>4, <1>5 DEF CsiDispatch
<1>8. SamePerformer(g, p)
  BY <1>2, <1>3 DEF SamePerformer
<1> QED
  BY <1>3, <1>6, <1>7, <1>8

LEMMA IntermediateIsRead ==
  ASSUME NEW g, NEW h, NEW inter, NEW params, InSequence(g, h, inter, params),
         Len(inter) < 2, h.state = "csiParam", NEW s \in Intermediate, NEW i
  PROVE  LET k == Parsed(h, s, i) IN
         InSequence(g, k, Append(inter, s), params) /\ k.state = "csiIntermediate"
<1> DEFINE c == Collect(h, s)
<1>1. /\ h \in FilterState /\ h.inter = inter /\ h.params = params /\ ~h.ignore
      /\ Len(inter) \in Nat
  BY LenProperties DEF InSequence, FilterState
<1>2. Parsed(h, s, i) = To(c, "csiIntermediate")
  <2>1. s \notin C0 \cup NotAscii \cup Final \cup {"ESC", "CAN"} \cup Private \cup Parameter
    BY DEF C0, C1, NotAscii, Wide, Final, Intermediate, Private, Parameter, Number, Separator
  <2>2. Parsed(h, s, i) = InCsi(h, s, i)
    BY <1>1, <2>1 DEF Parsed
  <2>3. InCsi(h, s, i) = MoreCsi(h, s)
    BY <2>1 DEF InCsi
  <2>4. MoreCsi(h, s) = To(c, "csiIntermediate")
    BY <2>1 DEF MoreCsi
  <2> QED
    BY <2>2, <2>3, <2>4
<1>3. c \in FilterState /\ SamePerformer(h, c)
  BY <1>1, CollectAppends
<1>4. c.inter = Append(inter, s) /\ c.params = h.params /\ c.ignore = h.ignore
  <2>1. Len(h.inter) # 2
    <3>1. PICK n \in Nat : n = Len(inter)
      BY <1>1
    <3>2. n # 2
      BY <3>1
    <3> QED
      BY <1>1, <3>1, <3>2
  <2>2. c = [h EXCEPT !.inter = Append(h.inter, s)]
    BY <1>1, <2>1 DEF Collect, FilterState
  <2> HIDE DEF c
  <2> QED
    BY <1>1, <2>2 DEF FilterState
<1> HIDE DEF c
<1>5. /\ To(c, "csiIntermediate") \in FilterState
      /\ To(c, "csiIntermediate").state = "csiIntermediate"
      /\ SamePerformer(c, To(c, "csiIntermediate"))
      /\ SameSequence(c, To(c, "csiIntermediate"))
  BY <1>3, ToMoves DEF ParserState
<1> QED
  BY <1>1, <1>2, <1>3, <1>4, <1>5 DEF InSequence, SamePerformer, SameSequence

(* The intermediates of a sequence that may be let through: a marker and one *)
(* other at most.                                                            *)
FewIntermediates(inter) ==
  \/ inter = <<>> \/ \E p \in Private : inter = <<p>>
  \/ \E b, s : /\ b = <<>> \/ \E p \in Private : b = <<p>>
              /\ s \in Intermediate /\ inter = Append(b, s)

(* Those that go before the parameters and those that go after them.         *)
LEMMA MarkerAndRest ==
  /\ Markers(<<>>) = <<>> /\ Trailing(<<>>) = <<>>
  /\ \A p \in Private : Markers(<<p>>) = <<p>> /\ Trailing(<<p>>) = <<>>
  /\ \A s \in Intermediate :
       Markers(Append(<<>>, s)) = <<>> /\ Trailing(Append(<<>>, s)) = <<s>>
  /\ \A p \in Private, s \in Intermediate :
       Markers(Append(<<p>>, s)) = <<p>> /\ Trailing(Append(<<p>>, s)) = <<s>>
<1>1. Markers(<<>>) = <<>> /\ Trailing(<<>>) = <<>>
  <2>1. Marked(<<>>) = 0 /\ Len(<<>>) = 0
    BY DEF Marked
  <2> QED
    BY <2>1, SubSeqEmpty DEF Markers, Trailing
<1>2. \A s : /\ SubSeq(<<s>>, 1, 0) = <<>> /\ SubSeq(<<s>>, 1, 1) = <<s>>
             /\ SubSeq(<<s>>, 2, 1) = <<>> /\ Len(<<s>>) = 1
  <2> SUFFICES ASSUME NEW s
               PROVE  /\ SubSeq(<<s>>, 1, 0) = <<>> /\ SubSeq(<<s>>, 1, 1) = <<s>>
                      /\ SubSeq(<<s>>, 2, 1) = <<>> /\ Len(<<s>>) = 1
    OBVIOUS
  <2>1. <<s>> \in Seq({s}) /\ Len(<<s>>) = 1
    OBVIOUS
  <2>2. SubSeq(<<s>>, 1, Len(<<s>>)) = <<s>>
    BY <2>1, SubSeqFull
  <2>3. SubSeq(<<s>>, 1, 0) = <<>> /\ SubSeq(<<s>>, 2, 1) = <<>>
    BY SubSeqEmpty
  <2> QED
    BY <2>1, <2>2, <2>3
<1>3. ASSUME NEW s \in Private
      PROVE  Markers(<<s>>) = <<s>> /\ Trailing(<<s>>) = <<>>
  <2>1. Marked(<<s>>) = 1
    BY DEF Marked
  <2> QED
    BY <1>2, <2>1 DEF Markers, Trailing
<1>4. ASSUME NEW s \in Intermediate
      PROVE  Markers(Append(<<>>, s)) = <<>> /\ Trailing(Append(<<>>, s)) = <<s>>
  <2>1. s \notin Private /\ Append(<<>>, s) = <<s>>
    <3>1. s \notin Private
      BY DEF Intermediate, Private
    <3>2. \A x : Append(<<>>, x) = <<x>>
      OBVIOUS
    <3> QED
      BY <3>1, <3>2
  <2>2. Marked(<<s>>) = 0
    BY <2>1 DEF Marked
  <2> QED
    BY <1>2, <2>1, <2>2 DEF Markers, Trailing
<1>5. ASSUME NEW p \in Private, NEW s \in Intermediate
      PROVE  Markers(Append(<<p>>, s)) = <<p>> /\ Trailing(Append(<<p>>, s)) = <<s>>
  <2>1. /\ <<p>> \in Seq(Intermediate \cup Private)
        /\ Markers(Append(<<p>>, s)) = Markers(<<p>>)
    <3>1. <<p>> \in Seq(Intermediate \cup Private)
      OBVIOUS
    <3> QED
      BY <3>1, MarkersAre
  <2>2. PICK u : u = <<p, s>>
    OBVIOUS
  <2>3. /\ u = Append(<<p>>, s) /\ Len(u) = 2 /\ u[1] = p /\ u[2] = s /\ u # <<>>
        /\ u \in Seq({p, s})
    BY <2>2
  <2>4. Marked(u) = 1
    BY <2>3 DEF Marked
  <2>5. Trailing(u) = SubSeq(u, 2, 2)
    BY <2>3, <2>4 DEF Trailing
  <2>6. SubSeq(u, 2, 2) = <<s>>
    <3>1. SubSeq(u, 2, 2) = SubSeq(u, 2, 2 - 1) \o <<u[2]>>
      BY <2>3, SubSeqRecursiveSecond
    <3>2. SubSeq(u, 2, 2 - 1) = <<>>
      BY SubSeqEmpty
    <3>3. <<s>> \in Seq({s})
      OBVIOUS
    <3> QED
      BY <2>3, <3>1, <3>2, <3>3, ConcatEmptySeq
  <2> QED
    BY <1>3, <2>1, <2>3, <2>5, <2>6
<1> QED
  BY <1>1, <1>3, <1>4, <1>5

LEMMA AllowedIntermediates ==
  ASSUME NEW f, NEW a, AllowedCsi(f, a)
  PROVE  FewIntermediates(f.inter)
<1>1. \/ f.inter = <<>> \/ f.inter = <<"?">> \/ f.inter = <<">">>
      \/ f.inter = <<"?", "$">> \/ f.inter = <<" ">>
  BY Zenon DEF AllowedCsi
<1>2. {"?", ">"} \subseteq Private /\ {" ", "$"} \subseteq Intermediate
  BY Zenon DEF Private, Intermediate
<1>3. <<" ">> = Append(<<>>, " ") /\ <<"?", "$">> = Append(<<"?">>, "$")
  OBVIOUS
<1>4. CASE f.inter = <<>> \/ f.inter = <<"?">> \/ f.inter = <<">">>
  BY <1>2, <1>4 DEF FewIntermediates
<1>5. CASE f.inter = <<" ">>
  <2>1. " " \in Intermediate
    BY <1>2
  <2> QED
    BY <1>3, <1>5, <2>1, Zenon DEF FewIntermediates
<1>6. CASE f.inter = <<"?", "$">>
  <2>1. "$" \in Intermediate /\ "?" \in Private
    BY <1>2
  <2> QED
    BY <1>3, <1>6, <2>1, Zenon DEF FewIntermediates
<1> QED
  BY <1>1, <1>4, <1>5, <1>6

IsText(w) == w \in Seq(Symbol)
Joined(v, w) == v \o w

LEMMA JoinedIsText == \A v, w : IsText(v) /\ IsText(w) => IsText(Joined(v, w))
<1> SUFFICES ASSUME NEW v \in Seq(Symbol), NEW w \in Seq(Symbol) PROVE v \o w \in Seq(Symbol)
  BY DEF IsText, Joined
<1> QED
  BY ConcatProperties

LEMMA JoinedAssociates ==
  \A u, v, w : IsText(u) /\ IsText(v) /\ IsText(w) =>
                 Joined(Joined(u, v), w) = Joined(u, Joined(v, w))
<1> SUFFICES ASSUME NEW u \in Seq(Symbol), NEW v \in Seq(Symbol), NEW w \in Seq(Symbol)
             PROVE  (u \o v) \o w = u \o (v \o w)
  BY DEF IsText, Joined
<1> QED
  BY ConcatAssociative

LEMMA Assembled ==
  ASSUME NEW w, NEW b, NEW p, NEW r, NEW t,
         IsText(w), IsText(b), IsText(p), IsText(r), IsText(t)
  PROVE  Joined(w, Joined(Joined(Joined(b, p), r), t))
           = Joined(Joined(Joined(Joined(w, b), p), r), t)
<1>1. PICK x : x = Joined(b, p)
  OBVIOUS
<1>2. IsText(x) /\ Joined(Joined(w, b), p) = Joined(w, x)
  BY <1>1, JoinedIsText, JoinedAssociates
<1>3. PICK y : y = Joined(x, r)
  OBVIOUS
<1>4. IsText(y) /\ Joined(Joined(w, x), r) = Joined(w, y)
  BY <1>2, <1>3, JoinedIsText, JoinedAssociates
<1>5. Joined(Joined(w, y), t) = Joined(w, Joined(y, t))
  BY <1>4, JoinedAssociates
<1> QED
  BY <1>1, <1>2, <1>3, <1>4, <1>5

LEMMA EndIsAppended ==
  ASSUME NEW f, NEW a \in Final, SequenceParts(f.inter, f.params),
         Trailing(f.inter) \in Seq(Symbol), NEW w \in Seq(Symbol), NEW u,
         u = ((w \o (<<"ESC", "[">> \o Markers(f.inter))) \o f.params) \o Trailing(f.inter)
  PROVE  \E t \in Seq(Symbol) : t = WriteCsi(f, a) /\ w \o t = Append(u, a)
<1>1. PICK b, p, r, c :
        b = <<"ESC", "[">> \o Markers(f.inter) /\ p = f.params /\ r = Trailing(f.inter)
        /\ c = <<a>>
  OBVIOUS
<1>2. a \in Symbol
  BY SymbolKinds
<1>3. IsText(b) /\ IsText(p)
  <2>1. Markers(f.inter) \in Seq(Intermediate \cup Private)
    BY MarkersAre DEF SequenceParts
  <2>2. Markers(f.inter) \in Seq(Symbol) /\ f.params \in Seq(Symbol)
    BY <2>1, SymbolKinds, SeqOfMore DEF SequenceParts
  <2>3. "ESC" \in Symbol /\ "[" \in Symbol
    BY SymbolKinds
  <2>4. <<"ESC", "[">> \in Seq(Symbol)
    BY <2>3
  <2> QED
    BY <1>1, <2>2, <2>4, ConcatProperties DEF IsText
<1>4. IsText(w) /\ IsText(r)
  BY <1>1 DEF IsText
<1>5. \A s : s \in Symbol => IsText(<<s>>)
  BY DEF IsText
<1>6. IsText(c)
  BY <1>1, <1>2, <1>5, Zenon
<1>7. PICK t : t = Joined(Joined(Joined(b, p), r), c)
  OBVIOUS
<1>8. PICK v : v = Joined(Joined(Joined(w, b), p), r)
  OBVIOUS
<1>9. IsText(t) /\ IsText(v)
  BY <1>3, <1>4, <1>6, <1>7, <1>8, JoinedIsText, Zenon
<1>10. Joined(w, t) = Joined(v, c)
  BY <1>3, <1>4, <1>6, <1>7, <1>8, Assembled
<1>11. t = WriteCsi(f, a)
  BY <1>1, <1>7, Zenon DEF Joined, WriteCsi
<1>12. v = u
  BY <1>1, <1>8, Zenon DEF Joined
<1>13. \A x, s : IsText(x) /\ s \in Symbol => Joined(x, <<s>>) = Append(x, s)
  BY AppendIsConcat DEF IsText, Joined
<1>14. Joined(w, t) = Append(u, a)
  BY <1>1, <1>2, <1>9, <1>10, <1>12, <1>13, Zenon
<1> QED
  BY <1>9, <1>11, <1>14, Zenon DEF IsText, Joined

LEMMA TrailingIs ==
  ASSUME NEW inter, FewIntermediates(inter)
  PROVE  Trailing(inter) \in Seq(Symbol)
<1>1. Trailing(inter) = <<>> \/ \E s \in Intermediate : Trailing(inter) = <<s>>
  <2>1. CASE inter = <<>> \/ \E p \in Private : inter = <<p>>
    BY <2>1, MarkerAndRest
  <2>2. ASSUME NEW b, NEW s \in Intermediate, inter = Append(b, s),
               b = <<>> \/ \E p \in Private : b = <<p>>
        PROVE  Trailing(inter) = <<s>>
    <3>1. CASE b = <<>>
      BY <2>2, <3>1, MarkerAndRest
    <3>2. ASSUME NEW p \in Private, b = <<p>>
          PROVE  Trailing(inter) = <<s>>
      BY <2>2, <3>2, MarkerAndRest
    <3> QED
      BY <2>2, <3>1, <3>2
  <2> QED
    BY <2>1, <2>2 DEF FewIntermediates
<1>2. <<>> \in Seq(Symbol) /\ \A s \in Intermediate : <<s>> \in Seq(Symbol)
  <2>1. \A s \in Intermediate : s \in Symbol
    BY SymbolKinds
  <2> QED
    BY <2>1
<1> QED
  BY <1>1, <1>2

(* And with the last intermediate: g is k after u.                           *)
ReadsRest(w, g, inter, params, u, k) ==
  /\ u \in Seq(Symbol)
  /\ u = ((w \o (<<"ESC", "[">> \o Markers(inter))) \o params) \o Trailing(inter)
  /\ LeadsTo(u, k) /\ InSequence(g, k, inter, params)
  /\ k.state \in {"csiParam", "csiIntermediate"}

LEMMA RestIsReread ==
  ASSUME NEW inter, NEW params, SequenceParts(inter, params), Rereads(inter, params),
         FewIntermediates(inter), NEW w \in Seq(Symbol), NEW g \in FilterState, LeadsTo(w, g)
  PROVE  \E u, k : ReadsRest(w, g, inter, params, u, k)
<1>1. PICK v, h :
        /\ v \in Seq(Symbol) /\ v = (w \o (<<"ESC", "[">> \o Markers(inter))) \o params
        /\ LeadsTo(v, h) /\ InSequence(g, h, Markers(inter), params)
        /\ h.state = "csiParam"
  <2>1. PICK v, h : ReadsParams(w, g, inter, params, v, h)
    BY LastIsReread
  <2> QED
    BY <2>1, Zenon DEF ReadsParams
<1>2. CASE inter = <<>> \/ \E s \in Private : inter = <<s>>
  <2>1. Markers(inter) = inter /\ Trailing(inter) = <<>>
    BY <1>2, MarkerAndRest
  <2>2. v \o <<>> = v
    BY ConcatEmptySeq
  <2> QED
    BY <1>1, <2>1, <2>2 DEF ReadsRest
<1>3. CASE \E b, s : /\ b = <<>> \/ \E p \in Private : b = <<p>>
                     /\ s \in Intermediate /\ inter = Append(b, s)
  <2>1. PICK b, s : /\ b = <<>> \/ \E p \in Private : b = <<p>>
                    /\ s \in Intermediate /\ inter = Append(b, s)
    BY <1>3
  <2>2. Markers(inter) = b /\ Trailing(inter) = <<s>> /\ s \in Symbol /\ Len(b) < 2
    <3>1. s \in Symbol /\ \A p : Len(<<p>>) = 1
      BY <2>1, SymbolKinds
    <3>2. CASE b = <<>>
      <4>1. inter = Append(<<>>, s) /\ s \in Intermediate
        BY <2>1, <3>2
      <4> QED
        BY <3>1, <3>2, <4>1, MarkerAndRest
    <3>3. CASE \E p \in Private : b = <<p>>
      <4>1. PICK p \in Private : b = <<p>>
        BY <3>3
      <4>2. inter = Append(<<p>>, s) /\ s \in Intermediate
        BY <2>1, <4>1
      <4> QED
        BY <3>1, <4>1, <4>2, MarkerAndRest
    <3> QED
      BY <2>1, <3>2, <3>3
  <2>3. PICK k : k = Parsed(h, s, Len(v) + 1)
    OBVIOUS
  <2>4. Append(v, s) \in Seq(Symbol) /\ LeadsTo(Append(v, s), k)
    BY <1>1, <2>2, <2>3, LeadsOn
  <2>5. InSequence(g, k, inter, params) /\ k.state = "csiIntermediate"
    BY <1>1, <2>1, <2>2, <2>3, IntermediateIsRead
  <2>6. v \o <<s>> = Append(v, s)
    BY <1>1, <2>2, AppendIsConcat
  <2> QED
    BY <1>1, <2>2, <2>4, <2>5, <2>6 DEF ReadsRest
<1> QED
  BY <1>2, <1>3 DEF FewIntermediates

LEMMA CsiEchoes ==
  ASSUME NEW f \in FilterState, SequenceParts(f.inter, f.params), Rereads(f.inter, f.params),
         NEW a \in Final, AllowedCsi(f, a),
         NEW w \in Seq(Symbol), NEW m \in Nat, NEW g, Echoes(w, m, g)
  PROVE  \E k : Echoes(w \o WriteCsi(f, a), m, k)
<1>1. g \in FilterState /\ LeadsTo(w, g)
  BY DEF Echoes
<1>2. FewIntermediates(f.inter)
  BY AllowedIntermediates
<1>4. Trailing(f.inter) \in Seq(Symbol)
  BY <1>2, TrailingIs
<1>5. PICK u, k :
        /\ u \in Seq(Symbol) /\ u = ((w \o (<<"ESC", "[">> \o Markers(f.inter))) \o f.params)
                 \o Trailing(f.inter)
        /\ LeadsTo(u, k) /\ InSequence(g, k, f.inter, f.params)
        /\ k.state \in {"csiParam", "csiIntermediate"}
  <2>1. PICK u, k : ReadsRest(w, g, f.inter, f.params, u, k)
    BY <1>1, <1>2, RestIsReread
  <2> QED
    BY <2>1, Zenon DEF ReadsRest
<1>6. PICK t \in Seq(Symbol) : t = WriteCsi(f, a) /\ w \o t = Append(u, a)
  BY <1>4, <1>5, EndIsAppended, Zenon
<1>7. PICK i \in Nat : i = Len(u) + 1
  BY LenProperties
<1>8. PICK e : e = Parsed(k, a, i)
  OBVIOUS
<1>9. LeadsTo(w \o t, e)
  <2>1. a \in Symbol
    BY SymbolKinds
  <2> QED
    BY <1>5, <1>6, <1>7, <1>8, <2>1, LeadsOn
<1>10. PICK p \in FilterState : /\ SamePerformer(g, p) /\ p.state = "ground"
                                /\ e = Write(p, WriteCsi(f, a), i)
  BY <1>1, <1>5, <1>8, CsiIsWritten
<1>11. Echoes(w \o t, m, e)
  BY <1>6, <1>9, <1>10, SequenceEchoes
<1> QED
  BY <1>6, <1>11

-------------------------------------------------------------------------------
(* At every symbol the terminal's parser could be told the filter's sequence *)
(* so far, in the form that write_csi gives it.                              *)
CsiFits(f) ==
  /\ SequenceParts(f.inter, f.params) /\ Rereads(f.inter, f.params)
  /\ f.state = "csiEntry" => f.inter = <<>> /\ Len(f.params) = 1

LEMMA NoSequenceFits ==
  /\ SequenceParts(<<>>, <<"0">>) /\ Rereads(<<>>, <<"0">>) /\ Len(<<"0">>) = 1
<1>1. <<>> \in Seq(Intermediate \cup Private)
  OBVIOUS
<1>2. "0" \in Number /\ "0" \in Parameter
  BY SymbolKinds
<1>3. <<"0">> \in Seq(Parameter) /\ Len(<<"0">>) = 1 /\ <<"0">>[1] = "0"
  BY <1>2
<1>4. SequenceParts(<<>>, <<"0">>)
  BY <1>1, <1>2, <1>3 DEF SequenceParts
<1> QED
  BY <1>3, <1>4, NothingIsReread

LEMMA AddedParam ==
  ASSUME NEW f \in FilterState, SequenceParts(f.inter, f.params), NEW s \in Parameter
  PROVE  \/ s \in Separator /\ AddParam(f, s).params = Append(Append(f.params, s), "0")
         \/ \E n \in Number : AddParam(f, s).params = [f.params EXCEPT ![Len(f.params)] = n]
<1>1. f.params \in Seq(Parameter) /\ "0" \in Parameter
  BY SymbolKinds DEF SequenceParts
<1>2. CASE s \in Separator
  <2>1. AddParam(f, s).params = f.params \o <<s, "0">>
    BY <1>2 DEF AddParam, FilterState
  <2> QED
    BY <1>1, <1>2, <2>1, TwoAppended
<1>3. CASE s \notin Separator
  <2>1. PICK n : n = IF f.params[Len(f.params)] = "0" THEN s ELSE "65535"
    OBVIOUS
  <2>2. n \in Number
    <3>1. s \in Number /\ "65535" \in Number
      BY <1>3, Zenon DEF Parameter, Number
    <3> QED
      BY <2>1, <3>1
  <2>3. AddParam(f, s) = [f EXCEPT !.params[Len(f.params)] = n]
    BY <1>3, <2>1 DEF AddParam, FilterState
  <2>4. AddParam(f, s).params = [f.params EXCEPT ![Len(f.params)] = n]
    BY <2>3 DEF FilterState
  <2> QED
    BY <2>2, <2>4
<1> QED
  BY <1>2, <1>3

LEMMA CsiGoesOnFitting ==
  ASSUME NEW f \in FilterState, CsiFits(f), NEW s \in Symbol, NEW g, Takes(f, s, g)
  PROVE  CsiFits(g)
<1>1. SequenceParts(f.inter, f.params) /\ Rereads(f.inter, f.params)
      /\ (f.state = "csiEntry" => f.inter = <<>> /\ Len(f.params) = 1)
  BY DEF CsiFits
<1>2. CASE Stays(f, g)
  BY <1>1, <1>2 DEF Stays, SameSequence, CsiFits
<1>3. CASE g.inter = <<>> /\ g.params = <<"0">>
  BY <1>3, NoSequenceFits DEF CsiFits
<1>4. CASE /\ g.state # "csiEntry" /\ g.params = f.params /\ g.inter = f.inter
  BY <1>1, <1>4 DEF CsiFits
<1>5. CASE /\ g.state # "csiEntry" /\ g.params = f.params
           /\ s \in Intermediate /\ g.inter = Append(f.inter, s)
  <2>1. Rereads(g.inter, g.params)
    BY <1>1, <1>5, IntermediateIsReread
  <2>2. g.inter \in Seq(Intermediate \cup Private)
    BY <1>1, <1>5, AppendProperties DEF SequenceParts
  <2> QED
    BY <1>1, <1>5, <2>1, <2>2 DEF SequenceParts, CsiFits
<1>6. CASE /\ g.state # "csiEntry" /\ g.params = f.params
           /\ s \in Private /\ f.state = "csiEntry" /\ g.inter = Append(f.inter, s)
  <2>1. f.inter = <<>> /\ Len(f.params) = 1
    BY <1>1, <1>6
  <2>2. g.inter = <<s>>
    BY <1>6, <2>1
  <2>3. Rereads(g.inter, g.params)
    BY <1>1, <1>6, <2>1, <2>2, MarkerIsReread
  <2>4. g.inter \in Seq(Intermediate \cup Private)
    BY <1>6, <2>2
  <2> QED
    BY <1>1, <1>6, <2>3, <2>4 DEF SequenceParts, CsiFits
<1>7. CASE /\ g.state # "csiEntry" /\ g.inter = f.inter
           /\ s \in Parameter /\ g.params = AddParam(f, s).params
  <2>1. SequenceParts(g.inter, g.params) /\ Rereads(g.inter, g.params)
    <3>1. CASE s \in Separator /\ g.params = Append(Append(f.params, s), "0")
      BY <1>1, <1>7, <3>1, SeparatorIsReread
    <3>2. CASE \E n \in Number : g.params = [f.params EXCEPT ![Len(f.params)] = n]
      BY <1>1, <1>7, <3>2, NumberIsReread
    <3> QED
      BY <1>1, <1>7, <3>1, <3>2, AddedParam
  <2> QED
    BY <1>7, <2>1 DEF CsiFits
<1> QED
  BY <1>2, <1>3, <1>4, <1>5, <1>6, <1>7 DEF Takes

(* Whatever one symbol lets through goes through the terminal's parser too.  *)
LEMMA EchoesOn ==
  ASSUME NEW f \in FilterState, CsiFits(f), NEW s \in Symbol, NEW i \in Nat,
         NEW g \in FilterState, Shows(f, s, i, g), MarksMax \in Nat,
         s \in C1 => g = f,
         NEW e, Echoes(Symbols(f.out), f.marks, e)
  PROVE  \E k : Echoes(Symbols(g.out), g.marks, k)
<1>1. /\ f.out \in Seq(Output) /\ f.marks \in Nat /\ g.marks \in Nat
  BY DEF FilterState
<1>2. PICK w \in Seq(Symbol), m \in Nat : w = Symbols(f.out) /\ m = f.marks
  BY <1>1, SymbolsWritten, EmptySeq
<1>3. Echoes(w, m, e)
  BY <1>2
<1>4. \A symbols \in Seq(Symbol) : g.out = f.out \o Stamped(symbols, i) =>
                                     Symbols(g.out) = w \o symbols
  <2> SUFFICES ASSUME NEW symbols \in Seq(Symbol), g.out = f.out \o Stamped(symbols, i)
               PROVE  Symbols(g.out) = w \o symbols
    OBVIOUS
  <2>1. Symbols(f.out \o Stamped(symbols, i)) = Symbols(f.out) \o symbols
    BY <1>1, SymbolsWritten
  <2> QED
    BY <1>2, <2>1
<1>5. g.out = f.out \o Stamped(<<s>>, i) => Symbols(g.out) = Append(w, s)
  <2>1. <<s>> \in Seq(Symbol) /\ w \o <<s>> = Append(w, s)
    BY AppendIsConcat
  <2> QED
    BY <1>4, <2>1
<1>6. CASE Silent(f, g)
  <2>1. Echoes(w, g.marks, e)
    BY <1>1, <1>2, <1>3, <1>6 DEF Silent, Echoes, FilterState
  <2> QED
    BY <1>2, <1>6, <2>1 DEF Silent
<1>7. CASE ShowsControl(f, s, i, g)
  <2>1. Symbols(g.out) = Append(w, s) /\ g.marks = m /\ s \in C0 \cup {"CAN"} /\ s # "NUL"
    BY <1>2, <1>5, <1>7 DEF ShowsControl
  <2> QED
    BY <1>3, <2>1, ControlEchoes
<1>8. CASE ShowsMark(f, s, i, g)
  <2>1. Symbols(g.out) = Append(w, "mark") /\ g.marks = m + 1 /\ m + 1 <= MarksMax
    BY <1>2, <1>5, <1>8 DEF ShowsMark
  <2> QED
    BY <1>3, <2>1, MarkEchoes
<1>9. CASE ShowsCharacter(f, s, i, g)
  <2>1. CASE s \in C1
    BY <2>1
  <2>2. CASE s \notin C1
    <3>1. /\ Symbols(g.out) = Append(w, s) /\ g.marks = 0
          /\ s \notin C0 \cup C1 \cup {"CAN", "ESC", "mark", "format", "hidden"}
      BY <1>5, <1>9, <2>2 DEF ShowsCharacter
    <3> QED
      BY <1>3, <3>1, CharacterEchoes
  <2> QED
    BY <2>1, <2>2
<1>10. CASE ShowsSequence(f, i, g)
  <2>1. PICK symbols \in Seq(Visible) :
          /\ Allowed(f, symbols) /\ g.out = f.out \o Stamped(symbols, i) /\ g.marks = f.marks
    BY <1>10 DEF ShowsSequence
  <2>2. symbols \in Seq(Symbol)
    <3>1. Visible \subseteq Symbol
      BY DEF Visible
    <3> QED
      BY <2>1, <3>1, SeqOfMore
  <2>3. Symbols(g.out) = w \o symbols /\ g.marks = m
    BY <1>2, <1>4, <2>1, <2>2
  <2>4. CASE symbols = <<"ESC", "7">>
    BY <1>3, <2>3, <2>4, EscapeEchoes
  <2>5. CASE \E a \in Final : AllowedCsi(f, a) /\ symbols = WriteCsi(f, a)
    BY <1>3, <2>3, <2>5, CsiEchoes DEF CsiFits
  <2> QED
    BY <2>1, <2>4, <2>5 DEF Allowed
<1> QED
  BY <1>6, <1>7, <1>8, <1>9, <1>10 DEF Shows

(* What the filter has written so far, filtered again, gives itself.         *)
OutputEchoes ==
  /\ CsiFits(filter)
  /\ ControlsOut = {} => \E g : Echoes(Symbols(filter.out), filter.marks, g)

LEMMA NothingEchoes == FilterInit => OutputEchoes
<1> SUFFICES ASSUME FilterInit
             PROVE  OutputEchoes
  OBVIOUS
<1>1. filter = Fresh
  BY DEF FilterInit
<1>2. Fresh.inter = <<>> /\ Fresh.params = <<"0">> /\ Fresh.out = <<>> /\ Fresh.marks = 0
      /\ Fresh.state = "ground" /\ ~Fresh.title
  BY DEF Fresh
<1>3. CsiFits(filter)
  BY <1>1, <1>2, NoSequenceFits DEF CsiFits
<1>4. Fresh \in FilterState
  BY <1>1, FilterStarts DEF FilterInv, FilterParts
<1>5. Symbols(<<>>) = <<>> /\ Len(<<>>) = 0
  BY DEF Symbols
<1>6. LeadsTo(<<>>, Fresh)
  BY <1>5, NothingLeadsToFresh
<1>7. Echoes(<<>>, 0, Fresh)
  BY <1>2, <1>4, <1>5, <1>6 DEF Echoes
<1> QED
  BY <1>1, <1>2, <1>3, <1>5, <1>7 DEF OutputEchoes

LEMMA OutputEchoesOn ==
  FilterInv /\ OutputEchoes /\ [FilterNext]_filterVars => OutputEchoes'
<1> SUFFICES ASSUME FilterInv, OutputEchoes, [FilterNext]_filterVars
             PROVE  OutputEchoes'
  OBVIOUS
<1>1. PICK f, g : f = filter /\ g = filter'
  OBVIOUS
<1>2. CsiFits(f) /\ (ControlsOut = {} => \E e : Echoes(Symbols(f.out), f.marks, e))
  BY <1>1 DEF OutputEchoes
<1>3. MarksMax \in Nat
  BY AnsiFilterAssumption
<1>4. CsiFits(g) /\ (ControlsOut' = {} => \E e : Echoes(Symbols(g.out), g.marks, e))
  <2>1. ASSUME NEW s, NEW n, TakesNext(s, n), Takes(f, s, g),
               s \in C1 => g = f \/ ControlsOut' # {}
        PROVE  CsiFits(g) /\ (ControlsOut' = {} => \E e : Echoes(Symbols(g.out), g.marks, e))
    <3>1. /\ f \in FilterState /\ s \in Symbol /\ n + 1 \in Nat
          /\ ParsedWell(f, s, n + 1, g)
      BY <1>1, <2>1, NextParsed DEF TakesNext, FilterParts
    <3>2. CsiFits(g)
      BY <1>2, <2>1, <3>1, CsiGoesOnFitting
    <3>3. ControlsOut \subseteq ControlsOut'
      BY <2>1, NextControls
    <3>4. ASSUME ControlsOut' = {}
          PROVE  \E e : Echoes(Symbols(g.out), g.marks, e)
      BY <1>2, <1>3, <2>1, <3>1, <3>3, <3>4, EchoesOn DEF ParsedWell
    <3> QED
      BY <3>2, <3>4
  <2>2. CASE Advance
    <3>1. PICK s \in alphabet : /\ text' = Append(text, s)
                                /\ filter' = Parsed(filter, s, Len(text) + 1)
      BY <2>2 DEF Advance
    <3>2. PICK n : n = Len(text)
      OBVIOUS
    <3>3. TakesNext(s, n)
      BY <3>1, <3>2 DEF TakesNext, FilterInv
    <3>4. f \in FilterState /\ s \in Symbol
      BY <1>1, <3>3, NextParsed
    <3>5. Takes(f, s, g) /\ (s \in C1 => g = f)
      BY <1>1, <3>1, <3>2, <3>4, ParsedTakes, C1Parses
    <3> QED
      BY <2>1, <3>3, <3>5
  <2>3. CASE Resume
    <3>1. PICK s, n : s = partial /\ n = Len(text)
      OBVIOUS
    <3>2. TakesNext(s, n) /\ filter' = PrintChar(filter, s, n + 1)
      BY <2>3, <3>1, ResumeTakesNext
    <3>3. f \in FilterState
      BY <1>1, <3>2, NextParsed
    <3>4. Takes(f, s, g)
      BY <1>1, <3>2, <3>3, PerformerStays DEF Takes
    <3>5. s \in C1 => g = f \/ ControlsOut' # {}
      BY <1>1, <3>2, SharedControl
    <3> QED
      BY <2>1, <3>2, <3>4, <3>5
  <2>4. CASE CutRead \/ EndRead \/ UNCHANGED filterVars
    <3>1. filter' = filter
      BY <2>4 DEF CutRead, EndRead, AtLimit, filterVars
    <3>2. ControlsOut' = ControlsOut
      BY <3>1 DEF ControlsOut
    <3> QED
      BY <1>1, <1>2, <3>1, <3>2
  <2> QED
    BY <2>2, <2>3, <2>4 DEF FilterNext
<1>5. /\ CsiFits(g) <=> CsiFits(filter')
      /\ (\E e : Echoes(Symbols(g.out), g.marks, e)) <=>
           (\E e : Echoes(Symbols(filter'.out), filter'.marks, e))
  BY <1>1
<1> QED
  BY <1>4, <1>5 DEF OutputEchoes

(* For every text and every limit: what AnsiFilter::filter lets through, the *)
(* sequences that write_csi puts together included, is read by a second      *)
(* parser as the same symbols, all of which it would let through again; but  *)
(* for C1 controls that two reads share, which it would not.                 *)
THEOREM FilterAgainChangesNothing ==
  FilterSpec => []FilterIsIdempotent
<1>1. OutputEchoes => FilterIsIdempotent
  <2> SUFFICES ASSUME OutputEchoes, ControlsOut = {}
               PROVE  Symbols(AllAtOnce(Symbols(filter.out)).out) = Symbols(filter.out)
    BY DEF FilterIsIdempotent
  <2>1. PICK w, g : w = Symbols(filter.out) /\ Echoes(w, filter.marks, g)
    BY DEF OutputEchoes
  <2>2. AllAtOnce(w) = g /\ Symbols(g.out) = w
    BY <2>1, OneReadIsAllAtOnce DEF Echoes
  <2> QED
    BY <2>1, <2>2
<1> QED
  BY <1>1, NothingEchoes, OutputEchoesOn, FilterInvariant, PTL DEF FilterSpec

===============================================================================
