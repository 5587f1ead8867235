------------------------------- MODULE Console --------------------------------
(***************************************************************************)
(* The attached console of a sandbox (src/sandbox/console/mod.rs, queue.rs *)
(* and signals.rs): one loop that forwards bytes between the user's        *)
(* terminal and the master of the guest's pty, with a queue for each       *)
(* direction, until the guest is gone or a signal ends it.  Bytes are      *)
(* counted, not told apart; the escape filter turns n bytes into some      *)
(* number of bytes.  The guest, the user, the terminal and the senders of  *)
(* signals act between any two steps of the loop.                          *)
(***************************************************************************)
EXTENDS Naturals

CONSTANTS
  Limit,     (* CONSOLE_BUFFER_LIMIT                                        *)
  Buffer,    (* the size of the read buffer                                 *)
  PtyCap,    (* what the kernel buffers in each direction of the pty        *)
  Room,      (* what the terminal takes before it has to catch up           *)
  Growth,    (* the most bytes the filter makes of one byte                 *)
  MaxOutput, (* bound: bytes the guest writes                               *)
  MaxInput,  (* bound: bytes the user types                                 *)
  Resizes    (* whether the terminal is ever resized                        *)

ASSUME ConsoleAssumption ==
  /\ Limit \in Nat \ {0} /\ Buffer \in Nat \ {0} /\ PtyCap \in Nat \ {0}
  /\ Room \in Nat \ {0} /\ Growth \in Nat
  /\ MaxOutput \in Nat /\ MaxInput \in Nat /\ Resizes \in BOOLEAN

VARIABLES
  (* the loop                                                               *)
  pc,         (* its next step                                              *)
  exit,       (* how it ended                                               *)
  toMaster,   (* length of the queue of filtered guest output               *)
  toGuest,    (* length of the queue of user input                          *)
  stdinOpen, guestGone,
  events,     (* what it polls for                                          *)
  revents,    (* what ppoll has answered                                    *)
  (* the pty and the terminal                                               *)
  slaveOpen,  (* the guest side has the slave open                          *)
  ptyOut,     (* bytes from the guest in the kernel                         *)
  ptyIn,      (* bytes to the guest in the kernel                           *)
  typed,      (* bytes from the user in the kernel                          *)
  hangup,     (* stdin is at its end                                        *)
  room,       (* bytes the terminal would take now                          *)
  (* signals and the terminal's modes                                       *)
  pending,    (* signals that are pending for the run                       *)
  terminated, resized,                        (* TERMINATED, WINDOW_RESIZED *)
  hostSize, ptySize,                          (* the two window sizes       *)
  masked, raw, nonBlocking,                   (* what must be restored      *)
  (* history                                                                *)
  written,    (* bytes the guest has written                                *)
  consumed,   (* bytes read from the master                                 *)
  produced,   (* bytes the filter has made of them                          *)
  shown,      (* bytes the terminal has taken                               *)
  input,      (* bytes the user has typed                                   *)
  rejected    (* the pty has refused input because the slave is closed      *)

loopVars  == <<pc, exit, stdinOpen, guestGone, events, revents>>
queueVars == <<toMaster, toGuest>>
ptyVars   == <<slaveOpen, ptyOut, ptyIn, written>>
termVars  == <<typed, hangup, room, input>>
sigVars   == <<pending, terminated, resized, hostSize, ptySize>>
modeVars  == <<masked, raw, nonBlocking>>
histVars  == <<consumed, produced, shown, rejected>>
vars == <<loopVars, queueVars, ptyVars, termVars, sigVars, modeVars, histVars>>

Signal == {"term", "winch"}   \* SIGTERM, SIGHUP, SIGINT, SIGQUIT / SIGWINCH

Step == {"install", "rawMode", "nonBlock", "top", "poll", "stdin", "masterWrite",
         "masterRead", "stdout", "unblock", "unraw", "unmask", "done"}

Lower(a, b) == IF a < b THEN a ELSE b

Nothing == [stdin |-> FALSE, masterIn |-> FALSE, masterOut |-> FALSE, stdout |-> FALSE]

Init ==
  /\ pc = "install" /\ exit = "none"
  /\ toMaster = 0 /\ toGuest = 0
  /\ stdinOpen = TRUE /\ guestGone = FALSE
  /\ events = Nothing /\ revents = Nothing
  /\ slaveOpen = TRUE /\ ptyOut = 0 /\ ptyIn = 0 /\ written = 0
  /\ typed = 0 /\ hangup = FALSE /\ room = Room /\ input = 0
  /\ pending = {} /\ terminated = FALSE /\ resized = FALSE
  /\ hostSize = 0 /\ ptySize = 0
  /\ masked = FALSE /\ raw = FALSE /\ nonBlocking = FALSE
  /\ consumed = 0 /\ produced = 0 /\ shown = 0 /\ rejected = FALSE

-------------------------------------------------------------------------------
(* Setting up: forward_until_terminated before its loop.  Any step may fail, *)
(* which restores what has been set up so far.                               *)
Leave(how) == pc' = "unblock" /\ exit' = how

Running(next) == pc' = next /\ UNCHANGED exit

InstallSignals ==
  /\ pc = "install"
  /\ \/ /\ masked' = TRUE
        /\ terminated' = FALSE /\ resized' = FALSE
        /\ Running("rawMode")
     \/ Leave("Error") /\ UNCHANGED <<masked, terminated, resized>>
  /\ UNCHANGED <<stdinOpen, guestGone, events, revents, queueVars, ptyVars, termVars,
                 pending, hostSize, ptySize, raw, nonBlocking, histVars>>

(* Only a stdin that is a terminal is put into raw mode.                     *)
EnableRawMode ==
  /\ pc = "rawMode"
  /\ \/ raw' \in BOOLEAN /\ Running("nonBlock")
     \/ Leave("Error") /\ UNCHANGED raw
  /\ UNCHANGED <<stdinOpen, guestGone, events, revents, queueVars, ptyVars, termVars,
                 sigVars, masked, nonBlocking, histVars>>

SetNonBlocking ==
  /\ pc = "nonBlock"
  /\ nonBlocking' = TRUE
  /\ \/ Running("top") \/ Leave("Error")
  /\ UNCHANGED <<stdinOpen, guestGone, events, revents, queueVars, ptyVars, termVars,
                 sigVars, masked, raw, histVars>>

-------------------------------------------------------------------------------
(* The top of the loop: the two flags, the guest's end, and what to poll     *)
(* for.  The events are computed before the input of a gone guest is cleared.*)
ReadsPastLimit(n) == TRUE               \* mutated form: no back-pressure
HasSpace(n) == n < Limit

SleepsOnOutput(n) == n > 1              \* mutated form: the last byte waits
HasOutput(n) == n > 0

Wanted ==
  [stdin     |-> stdinOpen /\ HasSpace(toGuest),
   masterIn  |-> ~guestGone /\ HasSpace(toMaster),
   masterOut |-> toGuest > 0,
   stdout    |-> HasOutput(toMaster)]

GuestIsDone == guestGone /\ toMaster = 0

IgnoresTermination == FALSE             \* mutated form: the flag is not read
TerminationSeen == terminated

DropsOutput == toMaster' = 0 /\ UNCHANGED toGuest  \* mutated form: wrong queue
DropsInput == toGuest' = 0 /\ UNCHANGED toMaster

KeepsSize == ptySize                    \* mutated form: no refresh_window_size
SizeAtTop == IF resized THEN hostSize ELSE ptySize

Top ==
  /\ pc = "top"
  /\ IF TerminationSeen
       THEN Leave("Terminated")
            /\ UNCHANGED <<resized, ptySize, events, queueVars>>
       ELSE /\ resized' = FALSE
            /\ ptySize' = SizeAtTop
            /\ IF GuestIsDone
                 THEN Leave("GuestGone") /\ UNCHANGED <<events, queueVars>>
                 ELSE /\ events' = Wanted
                      /\ IF guestGone THEN DropsInput ELSE UNCHANGED queueVars
                      /\ Running("poll")
  /\ UNCHANGED <<stdinOpen, guestGone, revents, ptyVars, termVars,
                 pending, terminated, hostSize, modeVars, histVars>>

-------------------------------------------------------------------------------
(* ppoll.  A descriptor with no events is switched off; a closed slave shows *)
(* as a hangup on the master whenever it is polled for anything.             *)
HupOrInput == \/ events.masterIn /\ ptyOut > 0
              \/ (events.masterIn \/ events.masterOut) /\ ~slaveOpen

Answers ==
  {[stdin     |-> events.stdin /\ (typed > 0 \/ hangup),
    masterIn  |-> HupOrInput,
    masterOut |-> out,
    stdout    |-> events.stdout /\ room > 0] :
      out \in IF ~events.masterOut THEN {FALSE}
              ELSE IF slaveOpen THEN {ptyIn < PtyCap} ELSE BOOLEAN}

Ready == \E a \in Answers : a # Nothing

PollAnswers ==
  /\ pc = "poll"
  /\ revents' \in Answers \ {Nothing}
  /\ Running("stdin")
  /\ UNCHANGED <<stdinOpen, guestGone, events, queueVars, ptyVars, termVars, sigVars,
                 modeVars, histVars>>

(* Only a ppoll that would sleep lets signals in: EINTR, and the handlers    *)
(* have set their flags.                                                     *)
PollInterrupted ==
  /\ pc = "poll"
  /\ ~Ready
  /\ pending # {}
  /\ terminated' = (terminated \/ "term" \in pending)
  /\ resized' = (resized \/ "winch" \in pending)
  /\ pending' = {}
  /\ Running("top")
  /\ UNCHANGED <<stdinOpen, guestGone, events, revents, queueVars, ptyVars, termVars,
                 hostSize, ptySize, modeVars, histVars>>

-------------------------------------------------------------------------------
(* One buffer from stdin; its end, or an error, closes it.                   *)
ReadStdin ==
  /\ pc = "stdin"
  /\ LET n == Lower(typed, Buffer)
     IN IF revents.stdin
          THEN /\ typed' = typed - n
               /\ toGuest' = toGuest + n
               /\ stdinOpen' = (n > 0)
          ELSE UNCHANGED <<typed, toGuest, stdinOpen>>
  /\ Running("masterWrite")
  /\ UNCHANGED <<guestGone, events, revents, toMaster, ptyVars, hangup, room, input,
                 sigVars, modeVars, histVars>>

PtyTakes(n) == Lower(n, PtyCap - ptyIn)

(* drain_into the master: all it takes, EIO when the slave is closed.        *)
WriteMaster ==
  /\ pc = "masterWrite"
  /\ LET n == PtyTakes(toGuest)
     IN IF revents.masterOut /\ toGuest > 0
          THEN IF slaveOpen
                 THEN /\ ptyIn' = ptyIn + n
                      /\ toGuest' = toGuest - n
                      /\ UNCHANGED <<guestGone, rejected>>
                 ELSE /\ guestGone' = TRUE
                      /\ rejected' = TRUE
                      /\ UNCHANGED <<ptyIn, toGuest>>
          ELSE UNCHANGED <<ptyIn, toGuest, guestGone, rejected>>
  /\ Running("masterRead")
  /\ UNCHANGED <<stdinOpen, events, revents, toMaster, slaveOpen, ptyOut, written,
                 termVars, sigVars, modeVars, consumed, produced, shown>>

NeverGone == FALSE                      \* mutated form: EIO is taken as transient
GuestGoneOnHup == ~slaveOpen            \* mutated form: HUP beats what is left
GuestGoneOnEio == ptyOut = 0 /\ ~slaveOpen

(* One buffer from the master through the filter; EIO, which Linux gives     *)
(* once a closed slave has nothing left, is the guest's end.                 *)
ReadMaster ==
  /\ pc = "masterRead"
  /\ IF revents.masterIn
       THEN \E n \in {Lower(ptyOut, Buffer)} : \E k \in 0 .. Growth * n :
              /\ ptyOut' = ptyOut - n
              /\ consumed' = consumed + n
              /\ toMaster' = toMaster + k
              /\ produced' = produced + k
              /\ guestGone' = (guestGone \/ GuestGoneOnEio)
       ELSE UNCHANGED <<ptyOut, consumed, toMaster, produced, guestGone>>
  /\ Running("stdout")
  /\ UNCHANGED <<stdinOpen, events, revents, toGuest, slaveOpen, ptyIn, written,
                 termVars, sigVars, modeVars, shown, rejected>>

(* drain_into stdout: all it takes, or the terminal is broken.               *)
WriteStdout ==
  /\ pc = "stdout"
  /\ LET n == Lower(toMaster, room)
     IN IF revents.stdout
          THEN \/ /\ toMaster' = toMaster - n
                  /\ room' = room - n
                  /\ shown' = shown + n
                  /\ Running("top")
               \/ Leave("Error") /\ UNCHANGED <<toMaster, room, shown>>
          ELSE Running("top") /\ UNCHANGED <<toMaster, room, shown>>
  /\ UNCHANGED <<stdinOpen, guestGone, events, revents, toGuest, ptyVars, typed, hangup,
                 input, sigVars, modeVars, consumed, produced, rejected>>

(* ppoll, or the master's read or write, fails for any other reason.         *)
ForwardFails ==
  /\ \/ pc = "poll"
     \/ pc = "masterWrite" /\ revents.masterOut /\ toGuest > 0
     \/ pc = "masterRead" /\ revents.masterIn
  /\ Leave("Error")
  /\ UNCHANGED <<stdinOpen, guestGone, events, revents, queueVars, ptyVars, termVars,
                 sigVars, modeVars, histVars>>

-------------------------------------------------------------------------------
(* restore_terminal: O_NONBLOCK, then raw mode, then handlers and mask.      *)
SkipsRawMode == "unmask"                \* mutated form: raw mode is forgotten
AfterUnblock == "unraw"

RestoreBlocking ==
  /\ pc = "unblock"
  /\ nonBlocking' = FALSE
  /\ Running(AfterUnblock)
  /\ UNCHANGED <<stdinOpen, guestGone, events, revents, queueVars, ptyVars, termVars,
                 sigVars, masked, raw, histVars>>

RestoreMode ==
  /\ pc = "unraw"
  /\ raw' = FALSE
  /\ Running("unmask")
  /\ UNCHANGED <<stdinOpen, guestGone, events, revents, queueVars, ptyVars, termVars,
                 sigVars, masked, nonBlocking, histVars>>

(* The old handlers and the old mask: a signal that is still pending now     *)
(* meets its default action, which ends the run.                             *)
RestoreSignals ==
  /\ pc = "unmask"
  /\ masked' = FALSE
  /\ pending' = {}
  /\ pc' = "done"
  /\ exit' = IF "term" \in pending THEN "killed" ELSE exit
  /\ UNCHANGED <<stdinOpen, guestGone, events, revents, queueVars, ptyVars, termVars,
                 terminated, resized, hostSize, ptySize, raw, nonBlocking, histVars>>

LoopStep ==
  \/ InstallSignals \/ EnableRawMode \/ SetNonBlocking
  \/ Top \/ PollAnswers \/ PollInterrupted
  \/ ReadStdin \/ WriteMaster \/ ReadMaster \/ WriteStdout
  \/ RestoreBlocking \/ RestoreMode \/ RestoreSignals

-------------------------------------------------------------------------------
(* Around the loop: the guest, the user, the terminal and signals.           *)
GuestWrites ==
  /\ slaveOpen /\ ptyOut < PtyCap /\ written < MaxOutput
  /\ ptyOut' = ptyOut + 1
  /\ written' = written + 1
  /\ UNCHANGED <<loopVars, queueVars, slaveOpen, ptyIn, termVars, sigVars, modeVars, histVars>>

GuestReads ==
  /\ slaveOpen /\ ptyIn > 0
  /\ ptyIn' = ptyIn - 1
  /\ UNCHANGED <<loopVars, queueVars, slaveOpen, ptyOut, written, termVars, sigVars,
                 modeVars, histVars>>

GuestCloses ==
  /\ slaveOpen
  /\ slaveOpen' = FALSE
  /\ UNCHANGED <<loopVars, queueVars, ptyOut, ptyIn, written, termVars, sigVars,
                 modeVars, histVars>>

UserTypes ==
  /\ ~hangup /\ input < MaxInput
  /\ typed' = typed + 1
  /\ input' = input + 1
  /\ UNCHANGED <<loopVars, queueVars, ptyVars, hangup, room, sigVars, modeVars, histVars>>

StdinEnds ==
  /\ ~hangup
  /\ hangup' = TRUE
  /\ UNCHANGED <<loopVars, queueVars, ptyVars, typed, room, input, sigVars, modeVars, histVars>>

TerminalCatchesUp ==
  /\ room < Room
  /\ room' = Room
  /\ UNCHANGED <<loopVars, queueVars, ptyVars, typed, hangup, input, sigVars, modeVars, histVars>>

SignalArrives ==
  /\ masked /\ "term" \notin pending
  /\ pending' = pending \cup {"term"}
  /\ UNCHANGED <<loopVars, queueVars, ptyVars, termVars, terminated, resized, hostSize,
                 ptySize, modeVars, histVars>>

(* Without the handler SIGWINCH is ignored.                                  *)
TerminalResized ==
  /\ Resizes
  /\ hostSize' = 1 - hostSize
  /\ pending' = IF masked THEN pending \cup {"winch"} ELSE pending
  /\ UNCHANGED <<loopVars, queueVars, ptyVars, termVars, terminated, resized, ptySize,
                 modeVars, histVars>>

Outside ==
  \/ GuestWrites \/ GuestReads \/ GuestCloses \/ UserTypes \/ StdinEnds
  \/ TerminalCatchesUp \/ SignalArrives \/ TerminalResized

Next == LoopStep \/ ForwardFails \/ Outside

Spec == Init /\ [][Next]_vars

(* The run is scheduled and a terminal that lags behind catches up; nothing  *)
(* obliges a guest to read, write or close, a user to type, or a call to     *)
(* fail: a ppoll with nothing to answer sleeps.                              *)
Fairness == WF_vars(LoopStep) /\ WF_vars(TerminalCatchesUp)

FairSpec == Spec /\ Fairness

-------------------------------------------------------------------------------
(* Every variable has its type.                                              *)
Events == [stdin : BOOLEAN, masterIn : BOOLEAN, masterOut : BOOLEAN, stdout : BOOLEAN]

TypeOK ==
  /\ pc \in Step
  /\ exit \in {"none", "GuestGone", "Terminated", "Error", "killed"}
  /\ toMaster \in Nat /\ toGuest \in Nat
  /\ stdinOpen \in BOOLEAN /\ guestGone \in BOOLEAN
  /\ events \in Events /\ revents \in Events
  /\ slaveOpen \in BOOLEAN
  /\ ptyOut \in 0 .. PtyCap /\ ptyIn \in 0 .. PtyCap
  /\ typed \in Nat /\ hangup \in BOOLEAN /\ room \in 0 .. Room
  /\ pending \subseteq Signal
  /\ terminated \in BOOLEAN /\ resized \in BOOLEAN
  /\ hostSize \in {0, 1} /\ ptySize \in {0, 1}
  /\ masked \in BOOLEAN /\ raw \in BOOLEAN /\ nonBlocking \in BOOLEAN
  /\ written \in 0 .. MaxOutput /\ input \in 0 .. MaxInput
  /\ consumed \in Nat /\ produced \in Nat /\ shown \in Nat
  /\ rejected \in BOOLEAN

(* No byte is lost or doubled on the way out: what the guest wrote is in the *)
(* pty or was read, what the filter made of it is queued or on the terminal. *)
OutputConserved ==
  /\ written = ptyOut + consumed
  /\ produced = toMaster + shown

(* "Stop reading from a source once this much output for the other side is   *)
(* still queued": the queue of input never outgrows the limit by a whole     *)
(* buffer, and neither does that of output while the guest has the pty open. *)
(* Once it is closed a poll for output alone answers with the hangup and is  *)
(* read past the limit, by no more than the pty still holds.                 *)
QueuesBounded ==
  /\ toGuest < Limit + Buffer
  /\ slaveOpen => toMaster < Limit + Growth * Buffer
  /\ toMaster + Growth * ptyOut < Limit + Growth * (Buffer + PtyCap)

(* ppoll never sleeps on work that could be done: output the terminal would  *)
(* take, output of the guest there is space for, input the pty would take,   *)
(* or a guest that is gone with nothing left to show.                        *)
NeverSleepsOnWork ==
  pc = "poll" /\ ~Ready =>
    /\ ~(toMaster > 0 /\ room > 0)
    /\ ~(slaveOpen /\ ptyOut > 0 /\ toMaster < Limit)
    /\ ~(slaveOpen /\ toGuest > 0 /\ ptyIn < PtyCap)
    /\ ~(~slaveOpen /\ toMaster = 0)

(* "Everything the guest wrote has reached the terminal nothing left to      *)
(* forward": when the loop noticed the guest's end by reading, GuestGone     *)
(* means that nothing is left in the pty or in the queue.                    *)
NothingLeftUnlessRejected ==
  exit = "GuestGone" => toMaster = 0 /\ (ptyOut = 0 \/ rejected)

(* The same sentence as it stands.                                           *)
NothingLeftToForward == exit = "GuestGone" => toMaster = 0 /\ ptyOut = 0

(* While the terminal is raw or non-blocking no signal can end the run with  *)
(* its default action, so even a run that a late signal kills has restored   *)
(* the user's terminal.                                                      *)
ModesOnlyWhileMasked == raw \/ nonBlocking => masked

(* When the guest is gone the loop comes to its end, whatever is queued and  *)
(* whatever the user still types.                                            *)
GuestExitEndsLoop == ~slaveOpen ~> (pc = "done")

(* A termination signal ends the loop once the guest and the user fall       *)
(* silent, as the bounds on both make them.                                  *)
TermEndsLoop == ("term" \in pending) ~> (pc = "done")

(* A resize that is signalled reaches the guest's pty.                       *)
ResizeReachesPty ==
  ("winch" \in pending) ~> (ptySize = hostSize \/ exit # "none")
===============================================================================
