# Verification of blinools

TLA+ models of `blinools`, the command that runs a program in a virtual machine
("sandbox") with QEMU or Cloud Hypervisor: the parts of it in which several
processes, the kernel, a guest and a user act at the same time, and the pure
algorithms on which a guest's confinement rests. The modules are checked with TLC
on small instances; every safety property that a run checks is also a theorem,
proved with TLAPS for every value of the constants (section 5). Paths below are those of the repository
(`sandbox/` stands for `src/sandbox/`).

## 1. The system and its parts

There is no daemon. Every command is a run of one program; `sandbox create`
stays attached to the console until its guest is gone and is the parent of the
VMM, of passt and pasta and of the virtiofsd of every configured share. Runs
meet in the file system (lock file, runtime and state directory, sockets, pid
files) and on the VMM's control socket. `worktree` is a command of its own: its
runs meet in a git repository.

| component | state | operations | talks to | what is hard, what makes it correct |
|---|---|---|---|---|
| sandbox lock, `sandbox/lock.rs` | a lock file and the flock on it | `try_acquire`, drop | every create and delete | open, flock and unlink are three steps of runs that may die between them. One holder; a crash never takes the name |
| sandbox life cycle, `sandbox/mod.rs` | the name's two directories, the VMM, the control socket | create, shutdown, delete, prune, delete after shutdown | lock, network, shares, console, hypervisor | "is it running?" is answered by the socket and acted on later. One sandbox per name; a delete spares what runs; a power-off ends the create |
| child processes, `sandbox/process/` | the child, a socket pair to it, a pidfd, files to remove | `spawn`, `exec`, `wait_*`, `disown`, drop | everything below runs in one | a handshake over `clone3` with namespaces, hook and exec; timeouts; the parent may die at any step. No binary without its hook; nothing is left by a drop |
| console, `sandbox/console/` | two byte queues, the pty, the terminal's modes, the signal mask | `read_until_terminated` and its steps | guest (pty), user (terminal), signals | one poll loop, bounded queues, partial writes, signals let in only inside `ppoll`. No byte lost or doubled; no sleep on work; the loop ends |
| console filter, `sandbox/console/filter.rs` | vte's parser and the performer's flags and counters, across reads | `filter` | console | sequences cut by reads, sequences written anew, counters that are reset. What is removed stays removed however the output is cut |
| network, `sandbox/network/{mod,passt,pasta}.rs` | passt, pasta, passt's socket, pasta's pid file | `network::create`, drop | child processes, firewall | two processes that wait for each other through files and a message, each with its own timeout. A network that is up is filtered; nothing is left behind |
| firewall, `sandbox/network/firewall.rs` | nftables rules in passt's namespace | `install` (passt's hook) | network | the first matching rule decides; names are looked up once. The rules are the documented policy, and no packet passes before them |
| shares, `sandbox/fs.rs`, attach and detach in `sandbox/mod.rs` | virtiofsd, its socket and pid file, the VMM's device | spawn, attach, detach, drop | child processes, hypervisor | attach and detach take no lock, and the virtiofsd outlives the run |
| access to a share, `sandbox/fs.rs`, `config.rs`, `sandbox/config.rs` | the mounts of virtiofsd's mount namespace | merge of the sources, `isolate_share` | shares | mounts cover one another, files vanish meanwhile, three sources set one share. What is served is what was asked for |
| hypervisors, `sandbox/hypervisor/` | the VMM, a control socket per flavour, the disk overlay | boot, wait, shutdown, is_running, attach/detach | child processes, network, shares | a shutdown of two requests with timeouts, an overlay made in steps, a flavour found by asking. Success means down; a guest has its own root; writes are kept |
| worktree, `worktree/mod.rs` | branches and linked worktrees of a repository | `wip`, `review` | git repository (gix) | three looks before the leap, and a branch taken back on failure. No commit is lost, no branch left |
| cgroup, parsing, command line | see section 7 | | | |

The code's hazards, each at its line, are in `PROJECT.json` ("hazards"); the
properties were written from that list.

## 2. Modules

| module | models | proofs | run for TLC |
|---|---|---|---|
| `NameLock` | abstract: at most one holder, a dead holder lets go | | property of `sandbox_plain` |
| `SandboxLock` | `sandbox/lock.rs`, a step per system call | `Sandbox_proofs` | within `MCSandbox`; alone in `MCSandboxLock` |
| `Sandbox` (extends `SandboxLock`) | the commands of `sandbox/mod.rs` on one name, the VMM as seen through its socket | `Sandbox_proofs` | `MCSandbox`, `MCSandboxPair` |
| `Hypervisor` | both VMM flavours, their requests, and the disk overlay of one name | `Hypervisor_proofs` | `MCHypervisor`, itself |
| `Process` | `sandbox/process/`: one child from `clone3` to its parent's drop | `Process_proofs` | itself |
| `Console` | `sandbox/console/{mod,queue,signals}.rs` | `Console_proofs` | itself |
| `AnsiFilter` | `sandbox/console/filter.rs` over vte's parser | `Console_proofs` | `MCAnsiFilter` |
| `Network` | `sandbox/network/{mod,passt,pasta}.rs` | `Traffic_proofs` | within `MCTraffic` |
| `Firewall` | `sandbox/network/firewall.rs`: rules and policy as operators | `Traffic_proofs` | within `MCTraffic` |
| `Traffic` (extends `Network` and `Firewall`) | packets of the guest while the network comes and goes | `Traffic_proofs` | `MCTraffic` |
| `Shares` | attach and detach of one share of a Cloud Hypervisor sandbox | `Shares_proofs` | `MCShares` |
| `ShareAccess` | a share from its configuration to the mounts that are served | `ShareAccess_proofs` | `MCShareAccess` |
| `Worktree` | `worktree/mod.rs`: `wip` and `review` on one repository | `Worktree_proofs` | `MCWorktree` |

Operators marked "mutated form" stand beside the definition they would replace:
each is a plausible mistake at that place, and the property it belongs to
(`PROJECT.json`, "mutants") fails with it.

### How they correspond to the code

*SandboxLock.* `path` is the inode the lock file's name leads to, `file[p]` the
inode run `p` has open, `flocked` who has the flock of an inode. `try_acquire`
is `OpenLockFile` (`open` with create) followed by `TakeFlock` or
`FlockRefused`; the drop is `Unlock` (LOCK_UN) followed by `Unlink` (whatever file the
name leads to is removed, and the descriptor closed). `Die` is a run's death: the
kernel drops its flock and the file
stays. The history variable `lost` becomes TRUE when a holder removes a file
that another run has open.

*Sandbox.* `pc[p]` is the place of a run in `create_sandbox`, `delete_sandbox`,
`prune_sandboxes` or the shutdown command. `vm[p]` is its VMM: spawned, listening
on its socket, with the console closed, or gone. `IsRunning` is the test every command
makes: the socket file exists and somebody accepts on it. `afterDelete` is the
delete at the end of a create with `--delete-after-shutdown`. `Reap` is `vm.wait`
that sees the VMM exit, `ReapTimesOut` the same wait past `WAIT_TIMEOUT`, which unwinds.

*Process.* Parent and child each have a `pc`; two channels carry the messages of
`pach_messages.rs`; timeouts are a step a waiting parent (or child) may take at
any time. Kill, disown, wait and drop come in any order the API allows.

*Console.* Bytes are counted, not named: `OutputConserved` balances what the
guest wrote against what was read, queued, filtered and shown. One iteration of
the loop is a sequence of actions in the order of the code: size, poll sets,
`ppoll` (with signals let in only if it would sleep), the reads, the writes. The
filter gives at most `Growth` bytes for each byte of input.

*Network.* `Step` is where `network::create` is. passt and pasta have their own
steps and may fail, hang or exit at each of them; pasta's pid file survives a
killed run, which is where the next run of the name begins.

*Shares.* Runs are told apart, and so is the virtiofsd each has started. `sock`
and `pidFile` say whose socket and pid are in the share's two files, `device`
which virtiofsd the VMM is connected to. An eject by the guest, the end of the VMM and
its next boot are steps of their own. `overlap`, `crashed` and `unwritten` are history;
the last are the runs whose `disown` could not write the pid file, an error the
code ignores (`fs.rs:154`).

*AnsiFilter.* `filter` is the parser's state (`state`, `inter`, `params`,
`ignore`), the performer's (`title`, `marks`) and the output, each symbol of it
with the index of the input that produced it; `text` is what the guest has
written so far. `Advance` gives the parser the next symbol of a read (`Parsed`, vte's
`advance`), `EndRead` is the end of `filter`: a read that has shown
nothing adds to the string's length, which is capped. Where a read ends is
free, so the reads cut the text in every way. A read may also end inside a
character of several bytes: `CutRead` leaves its first bytes with the parser
(`partial`), and the next read begins with the rest (`Resume`), which vte hands to `print`
whatever the character is; `cut` records where that happened. In a sequence or a
string such bytes are ignored one by one and the cut makes no difference. `params` is flat, as vte keeps it,
with the separators that `write_csi` puts back. The callbacks are `PrintChar`,
`Execute`, `EscDispatch` and `CsiDispatch`; the others are dropped. A symbol stands for a
control, a number or a class of characters. Each arm of `csi_dispatch` has a sequence of
its own (`AllowedCsi`: DECRQM with its marker and intermediate, DA2, private modes, cursor
style), and so has each kind of test in `allowed_csi` (`AllowedAlone`: `c`, `n`, `t`,
`~`, `J`); the finals that are allowed with any parameters share `m` and `P`. `AllAtOnce` is the filter as a
recursive function over a whole text, what the reads are compared with and what
the terminal's parser is taken to be.

*Firewall, Traffic.* `Allowances` translates the configuration and the resolver's
answers as `build_ruleset` does, `OutputChain` and `Ruleset` put the rules in its order,
`LeavesBy` walks a chain to the first match. `PolicyAllows` is the documented
policy, stated without any rule. `Traffic` adds packets to `Network`: they leave by the rules
that are installed at that moment, and are let in if they are related or the chain lets them.
The rules are made inside passt's hook, in the same step that `Network` takes for it.

*ShareAccess.* `Merge` picks the settings (`merge_by_name`, the global file or
not), `Spawn` makes the list of mounts in the order of `isolate_share`, `DoMount` and `MountFails` do
one of them, `WalkForGit`, `MountGit` and `MountGitFails` are
`lookup_git_dirs_and_apply_action`. `mnt[p]` is what is mounted at `p`. `Vanish` is
the host removing a tree at any moment before virtiofsd serves.

*Hypervisor.* `create` is the run that boots, `cmd[c]` a shutdown or delete,
`sock` a socket per flavour, `inbox` the requests that a VMM has not handled and
`reply` the answers. `overlay` is the image file (`empty`, `headed`, `whole`, and the root
image it names), `vmm.image` what the VMM opened; formatting that stops in the middle
leaves either of the first two (`LeftBehind`). A command may time out at every
read and leave its request behind. `Answers` are what a VMM may say to a request: any
of them can be turned down, and `cause` records why a command failed. `ReadPiece` is
a read that returns a part of an answer or one of QMP's events. The lock is one step
here.

*Worktree.* `tip[b]` says whether a branch is absent, at HEAD or has work, `run[r].pc`
is where a run is between its looks at the destination, the branch and the
worktree. `DeleteBranch` takes the branch back on failure if it still has its value, as
`delete` with `PreviousValue::MustExistAndMatch` does; `DeleteFails` is the `?` after
it, for a branch that has moved or a reference somebody else has locked.
`undeleted` are the branches of such runs, `crashed` those of killed ones.

## 3. Runs

| run | instance | shows |
|---|---|---|
| `sandbox_plain` | 3 runs, 4 inodes; create, shutdown, delete, prune | the lock protocol implements `NameLock` unless a file was lost; a running sandbox is the one the socket reaches |
| `sandbox` | 2 runs, every command, fairness | one sandbox per name, plain deletes spare what runs, a locked delete leaves nothing, a power-off ends its create |
| `process` | one child | no binary without its hook, no leftovers, signals only to the own child, death with the parent |
| `console` | 3 bytes in, 2 out, queues of 2, growth 2 | conservation of bytes, bounded queues, no sleep on work, what is left at the end, terminal modes |
| `console_live` | 1 in, 2 out, queues of 1, resizes | end of the loop after the guest's end and after a signal; resizes arrive |
| `ansi_filter` | 10 alphabets of 5 to 7 symbols, texts of up to 6, reads of up to 3 | the cuts make no difference but for C1 controls, strings and titles are removed, the output reads as it was meant, marks are bounded |
| `network` | consecutive runs of one name, one address of each kind, up to 2 exceptions, a packet each way | pasta before passt unless the pid file is stale, nothing left, rules are the policy, no packet beside it, create settles |
| `shares` | 3 runs of one share | attached shares stay served, no orphans, a detach ends access if the pid file could be written |
| `share_access` | 8 paths, 7 settings, up to 2 entries over the three sources | the nearest source wins; seen unless hidden, written unless read-only |
| `hypervisor` | 2 creates, 2 root images, 2 commands, a guest's write | the guest has its root and its writes; success means down; `--force` fails only where a request about the VMM itself does |
| `hypervisor_live` | 1 create, 2 commands, fairness | every shutdown and delete ends unless QMP events never do |
| `worktree` | 3 runs, 3 branches, 4 starts | commits are kept, a failure leaves no branch unless git refuses to remove it |

The type invariants are theorems (section 5) and no run lists them. To check one on a
run's instance, add it to the run's `INVARIANTS`.

### Bounds and why they are enough

*Lock and sandbox*: losing a lock file takes one run that drops, one that locks
the old inode and one that makes the new file; a fourth has no new role. One
inode more than runs are never all in use, so none is re-used while somebody has
it open. The constraint `NotLost` of `MCSandbox` stops at the step that loses a
file, because every property there is about the states before. What the pair of
runs in `sandbox` shows of safety is proved for any number (section 5).
*Console*: the limits are small so that each is met: full queues, full pty,
partial writes, a terminal that has to catch up. `MaxOutput` and `MaxInput`
bound what guest and user write; `Resizes` says whether the terminal is resized.
*Filter*: six symbols are DECRQM, the longest sequence with both a marker and an
intermediate (ESC, `[`, `?`, mode, `$`, `p`), or a shorter one with a symbol before or after
it; `MaxStringSequence` is 3, so that a string passes it
and goes on. Each alphabet holds what one kind of sequence is made of and a
character to be shown. *Process*: one child; channels hold the handshake's
messages, which are few. *Network*: the number of runs is not bounded, only one
works at a time, which is what the lock is for. The addresses are one of each
kind the rules tell apart and a second of the blocked range; two exceptions are
what it takes for one to precede another (for any number: section 5). *Shares*: three
runs are an attach at work, an attached share and a detach. A run takes the name
of an earlier one only when that one's virtiofsd is gone and forgotten.
*ShareAccess*: the tree has a `.git` with something in it, one below another
directory, a file, and a mounted file system with something in it; two entries
are what it takes for one to cover another, or two sources to name one share.
*Hypervisor*: two creates are what it takes to meet an earlier one's overlay or socket, and
two root images to be configured with another; `MaxPieces` is the size at
which a Cloud Hypervisor answer is cut off. QMP's events have no limit in the code and
none here: the count of pieces goes round.
*Worktree*: two branches share a destination; of three runs one is in the way
of another while a third begins. Symmetry is used for runs, inodes and root images, and
only where no liveness property is checked.

### Fairness

*Sandbox*: a run goes on with its command, by its own deadline (`WAIT_TIMEOUT`) where it
waits, and the kernel kills a VMM whose run is dead. No VMM owes the run that it
listens or exits, and no user, guest or signal owes anybody a step: `PowerOffEndsRun`
holds with a VMM that closes its console and then hangs. *Hypervisor*: each command goes on with
its own calls, because every read of an answer has a timeout; the VMM owes no
answer. `EveryCommandEnds` has a condition in place of a bound: the command's
VMM does not send QMP events for ever, because each of them starts the timeout
anew (`qemu.rs:262-271`). *Console*: the loop is
scheduled and a terminal that lags behind catches up (the one assumption about
the outside; a terminal that hangs for ever does hang the loop). No guest owes a
read, a write or a close, no user a key; a failing call (`ForwardFails`) is
possible and never owed. That guest and user fall silent is the bound on both.
*Process*: the child goes on with its own set-up, hook and exec, and takes a SIGKILL.
*Network*: `create` goes on, its deadlines pass, and the kernel kills the helpers
of a dead run; passt and pasta owe nothing.
`CHECK_DEADLOCK FALSE` is set where the component ends for good (the console
loop that has returned, the child that has been dropped, a share that is served
or refused) or where a bound uses up what the environment may do (creates and
commands, symbols, starts).

## 4. Disagreements

Each of these has a configuration of its own, to be run by hand with
`tlc -config <file> <module>`; TLC finds each property violated. In the passing
runs the properties carry the condition that these cases exclude (`~lost`,
`Undisturbed`, "unless stale"), so that everything else they say is checked.

| configuration (module) | property | what the code does |
|---|---|---|
| `MCSandboxLockExclusive.cfg` (`MCSandboxLock`) | `Exclusive` | `lock.rs:54`: the drop removes the file by name without asking whether it is still the file it has locked. Run B opens the file A holds; A unlocks and removes it; B locks the orphan; C makes a new file and locks it. `docs/sandbox.md:72`: "A sandbox name has to be unique among the running sandboxes." |
| `MCSandboxAfterDelete.cfg` (`MCSandbox`) | `AfterDeleteSparesOthers` | `mod.rs:305`: delete after shutdown is a forced delete, and the lock is not held between the two: another run may start the name and loses its sandbox. `mod.rs:75` speaks of the sandbox that was created |
| `MCSandboxForceDelete.cfg` (`MCSandbox`) | `ForceShutsDownFirst` | `mod.rs:414-428`: while the VMM has no socket yet a forced delete takes the sandbox for stopped, goes on past the refused lock and removes the directories under it. `mod.rs:166`: "Shut down a running sandbox before deleting it." |
| `MCHypervisorPicked.cfg` (`MCHypervisor`) | `PickedRuns` | `mod.rs:411`: a command picks the flavour whose socket answers before it tries the lock; a sandbox of the other flavour that comes up in between is not the one it asks |
| `NetworkStalePid.cfg` (`Network`) | `FirewallAfterPasta` | `pasta.rs:79`: a `pasta.pid` left by a killed run stands for a configured network; passt installs the firewall and executes before pasta has attached. `docs/sandbox_architecture.md:104-106` gives the other order |
| `MCSharesConfigured.cfg` (`MCShares`) | `DetachedIsInaccessible` | `mod.rs:394`: detaching a configured share does not stop its virtiofsd, which has no pid file (`fs.rs:28-34`), and the guest may keep using it. The message at `mod.rs:398` says that accessing it fails from now on |
| `MCSharesUnwritten.cfg` (`MCShares`) | `DetachedIsInaccessible` | `fs.rs:154`: a pid file that cannot be written is ignored (`let _ =`); `detach-share` then finds no pid (`fs.rs:28-34`), stops nothing, and prints the same message of `mod.rs:398` |
| `MCSharesRace.cfg` (`MCShares`) | `AddedShareIsServed` | `mod.rs:334-370`: overlapping attach, attach and detach stop the virtiofsd of a share just reported as added |
| `MCShareAccessReadOnly.cfg` (`MCShareAccess`) | `ReadOnlyMeansReadOnly` | `fs.rs:165-166,269`: the read-only remount is not recursive, and virtiofsd's `--readonly` (`fs.rs:103`) is not given for the override: a file system mounted inside the share stays writable. `docs/configuration.md:194`: "Mount every share read-only" |
| `ProcessSlowHook.cfg` (`Process`) | `FailingHookFailsSpawn` | `process/mod.rs:255-258`: `exec` takes the timeout of its receive for success, so a hook that fails later is not reported (test `a_failing_pre_exec_hook_fails_spawn`) |
| `ConsoleLostOutput.cfg` (`Console`) | `NothingLeftToForward` | `console/mod.rs:218-224`: EIO on a write of input ends the loop with guest output unread (comment at line 150) |
| `MCWorktreeRace.cfg` (`MCWorktree`) | `WorktreeHasBranch` | `worktree/mod.rs:114-119`: a `wip` whose worktree cannot be added deletes its new branch although another run has added a worktree for it in between |
| `MCAnsiFilterCuts.cfg` (`MCAnsiFilter`) | `BoundariesDoNotFool` | `filter.rs:133-156`: a C1 control in UTF-8 whose two bytes come in two reads is not executed but printed, and `print` lets it through. `filter.rs:371`: "make sure the filter is not fooled by chunk boundaries"; the test at `filter.rs:480-487`, "A terminal in UTF-8 mode decodes `c2 9d` back to the OSC introducer", has it in one read only |
| `MCHypervisorTorn.cfg` (`MCHypervisor`) | `OverlayIsWhole` | `hypervisor/mod.rs:151-154,185-206`: an overlay is taken for complete if it exists, opens and names the root. A crash during `create` (line 170) leaves one that does and is not whole, if the image library writes the header before the rest; whether it does is not this repository's code. The guest then still has its root (`GuestHasItsRoot`), on an image that was not formatted to its end |

What else modelling showed, without a configuration:

- After a crash before the header every create fails until `--recreate`
  or a delete: the image exists and does not open (`hypervisor/mod.rs:151`).
- When Cloud Hypervisor has shut its guest down and not itself, a plain shutdown is
  refused ever after; only `--force` ends it (`cloud_hypervisor.rs:134`).
- `docs/sandbox_architecture.md:41` calls QEMU the default; the code's default is Cloud
  Hypervisor (`sandbox/config.rs:13-19`).

## 5. Proofs

Checked with TLAPS, from the named assumptions on the constants only
(`RunAssumption`, `InodeAssumption`, `CommandsAssumption`, `ConsoleAssumption`,
`AnsiFilterAssumption`, `FirewallAssumption`, `TrafficAssumption`,
`HypervisorAssumption`, `SharesAssumption`, `ShareAccessAssumption`,
`TreeAssumption` and `WorktreeAssumption`; `Process` and `Network` have no
constants), which the passing runs evaluate. Most say that a bound is a number
or that names differ. `TreeAssumption` says that paths form a tree: what lies
above a path lies on one line. One theorem has a hypothesis of its own, which
is stated with it: `RunningSandboxIsSeen` (no forced deletes), which is what the run of that
property assumes, and section 4 has what happens without. The exceptions of the
properties themselves are listed at the end of this section. A theorem whose
property no run lists (a type invariant, `LockExcludes`, `FlockDiesWithRun`,
`LockFileIsInUse`, `ExecIsAwaited`, `UpMeansFiltered`) needs none: the property is a part of
an inductive invariant.

*Sandbox_proofs, the lock.* `LockInv` strengthens the type invariant and the safety
invariants by two facts: a holder has the flock of the file it has open
(`HolderHasFlock`), and while no file was lost whoever has a file open has the
one its name leads to (`OpenedIsLinked`). Exclusion follows: two holders have
the same inode and one flock. Without `OpenedIsLinked` exclusion is not
inductive: a state with two inodes open has no holder yet. Theorems:
`LockTypeCorrect`, `LockExcludes`, `FlockDiesWithRun`, `LockFileIsInUse`, and
`LockKeepsPromise`, that the protocol implements `NameLock`: `Held` maps to the
abstract holders, and each step is the abstract acquire, release or a stutter.

*Sandbox_proofs, the commands.* `SandboxInv` is `TypeOK`, `LockInv` and `PcFollowsLock`: which
places of a command mean that the run has the file open, has the lock, or has
neither. The lock lemmas are cited for the part of a step that is a step of the
lock. Theorems: `SandboxTypeCorrect`, `OneSandbox`, `DeleteSparesRunning` and
`SandboxKeepsPromise` (the refinement of `NameLock` once more, under all the
commands and their crashes), for any number of runs and any set of commands.
`DeleteRemovesAll` needs `RuntimeDirIsGone`: a delete that has come to the state
directory with the lock has removed the runtime directory, and whoever could
make it again would hold the lock too. `RunningSandboxIsSeen` is for the
commands without a forced delete (`Commands \subseteq Plain`); `PlainInv` says at which steps each
command can be (`CommandFits`), that a VMM outlives the attachment of its run
only until the kernel has killed it (`VmFollowsRun`), and that the directories and
the socket of a sandbox that runs are there and its own (`ServedIsThere`).

*Process_proofs.* `ProcessInv` adds what each place of the child and the parent
says about messages sent, isolation done and hooks run (`ContinueWasSent`,
`SilentUntilIsolated`, `HookDone`, `EndedByDrop`, `DropDecides`). Theorems:
`ProcessTypeCorrect`, `ExecIsAwaited`, `HookIsEnforced`, `DropIsClean`, and
`NoStrangerIsSignalled`, an action property: drop, and the kernel when the parent
dies, signal only a child that has not been reaped, whose pid is still its own.

*Console_proofs, the loop.* The loop decides at its top, asks, and acts on the answer some
steps later, so each bound needs a fact about what is under way. `ConsoleInv` has
`AsksForWork` (what ppoll is asked for is what the queues allow),
`ReadsWithinLimit` (a source it answered for may be read; after the guest has
closed, past the limit), `RestoresInOrder` and `GoneMeansClosed` besides the
properties themselves; the type invariant is proved first, in three parts. The
queue bound needs that bytes in the pty are charged to the queue before they are
read: `toMaster + Growth * ptyOut` never rises by a read. Theorems:
`ConsoleTypeCorrect`, `ConsoleLosesNothing`, `ConsoleQueuesBounded`,
`ConsoleNeverSleeps`, `GuestGoneIsFlushed`, `TerminalIsRestored`, for every limit,
buffer, capacity and growth of the filter. The limits of the code are one value of
the constants.

*Console_proofs, the filter.* What one symbol does is said once, for every state of the
parser (`ParsesWell`): it shows nothing, a control, a mark, a character or an
allowed sequence, and it changes state in one of a few ways (`Shows`, `Moves`).
`FilterInv` ties that state to the text: after an ESC, in a string and in a
title the parser is where a reader of the text would be (`StateFitsText`), and
the marks since the last character shown are no more than the filter has counted
(`MarksAreCounted`). Theorems: `FilterTypes`, `NothingLeaksFromStrings`,
`MarksNeverPileUp`. The other two compare the filter with the recursive
`AllAtOnce`, without induction over the text: `LeadsTo(text, f)` says that the
states of one read exist and that all such functions end in `f`, which is kept
from symbol to symbol (`OneMoreSymbol`), so that the behaviour itself is the induction.
`ReadsMakeNoDifference` rests on `OneReadWould`: only a C1 control that was cut comes out, and
as long as none has, `LeadsTo(text, filter)`. The rest of a cut character goes past the parser's
states straight to `PrintChar`; `TakesNext` covers it beside `Parsed`, and what is left to
show is that in ground the two agree for every character but the C1 controls, and that
those come out (`SharedControl`). For
`FilterAgainChangesNothing`, where no such control is in the output, the invariant speaks of a second parser, the
terminal's, that reads the output: it has let all of it through, is in the middle
of nothing and has counted no more marks than the filter (`Echoes`). A sequence is
written only when its last symbol comes, so its parts have to be known before:
given the sequence so far in the order of `write_csi`, that parser would have the
filter's parameters but for the last one, whatever it had read before (`Rereads`,
`CsiFits`). Every symbol of a sequence keeps that. It is here that the order of
private markers and other intermediates in `write_csi` matters.

*Traffic_proofs, the network.* `NetworkInv` adds to the properties that a pasta to wait for
exists (`HelpersBelong`), that passt executes behind its firewall and is up only
after it listened (`FilteredFromExec`), and, for runs none of which has died, that
the pid file stands for configured namespaces (`PidFileMeansConfigured`) and every
file for a process (`FilesBelong`). Theorems: `NetworkTypeCorrect`,
`UpMeansFiltered`, `PastaGoesFirst`, `NetworkCleansUp`, for any number of runs in
a row.

*Traffic_proofs, the rules.* `FirstMatchIsPolicy` is about the rules alone: for every
set of addresses, ranges and ports, every configuration and every answer of the
resolver, the walk to the first match decides as the policy does. The chain is
taken apart into its three stretches (loopback; exceptions and DNS servers; private
ranges); a lemma for each says which packets match in it. `TrafficInv` is the
`NetworkInv` of the network, the types of what packets add, that installed
rules are those of `config` (`RulesBelong`), and that there is neither a packet nor a rule
before the hook (`NoTrafficYet`, `NoRulesYet`).
A step of the network is cited by a refinement lemma
(`TrafficImplementsNetwork`). Theorems: `FirstMatchIsPolicy`,
`InstalledRulesKeepPolicy`, `RestrictedTrafficIsAllowed`, `TrafficTypeCorrect`.

*Worktree_proofs.* `WorktreeInv` adds to type and properties that a run which
has created its branch found none there (`CreatorsAreFirst`) and that a new branch
with work has a worktree (`WorkIsInWorktrees`): a branch that is taken back is
still what its creator made it, so the comparison protects every commit.
Theorems: `WorktreeTypeCorrect`, `CommittedWorkIsKept`,
`FailureLeavesNoBranch`, for any number of runs, branches and destinations and
any sharing of destinations.

*Hypervisor_proofs.* Three parts. `Types` are the types of every field and who
may have the lock. `DiskInv` says what the image is at each step of a create: it
holds what the guests wrote, a create that formats has a file without a header,
and one that starts its VMM has an image that backs onto its root or none at all, however much
of its format a crash has left undone. `TalkInv` is about requests and answers: a request in the inbox is its
command's only one and the one it waits for (`RequestsBelong`), an answer finds
its command waiting, and who has answered the second request is quitting or gone
(`AnswersBelong`). Without these two a late answer to a command that gave up could
pass for another one's success. That a forced shutdown fails only with a silent VMM or one that
turned down a request about itself is part of it: the guest's refusal is the
answer to a first request of Cloud Hypervisor and to nothing else. Theorems: `HypervisorTypes`,
`GuestsHaveTheirRoot`, `WritesSurvive`, `SuccessMeansDown`, `ForceIsEnough`, for
any number of commands, requests and root images.

*Shares_proofs.* `SharesInv` says, as long as no two runs overlapped and none was
killed at work, whose virtiofsd is in which state at each step
(`DaemonsFollowRuns`), that the pid file knows the one the device is connected
to once the run that attached it has ended (`PidFileKnowsDevice`), and that
`stop_share` is reached only when the VMM has told the device to go
(`DeviceGoesFirst`). Theorems: `SharesTypes`, `AttachedStaysServed`,
`NoVirtiofsdIsOrphaned`, `DetachedIsNotServed`, for any number of runs.

*ShareAccess_proofs.* `ShareAccessInv` follows the hook through its list: nothing is
mounted but what was there and what was asked for (`MountsAreAsked`), and what
is done stays done for every path that is still there, covered by no later mount (`DoneStaysDone`); when virtiofsd
executes, nothing is left to do. That a hidden tree covers what
is below it, and a remount reaches it, is where the paths must form a tree. Theorems: `ShareAccessTypes`,
`NearestSettings`, `ShowsWhatIsNotHidden`, `WritesWhatIsNotReadOnly`, for every
tree, every list of entries and every moment at which a path may vanish.

Only model-checked is liveness, which takes ENABLED, and TLAPS here has none:
`DiesWithParent`, `GuestExitEndsLoop`, `TermEndsLoop`, `ResizeReachesPty`,
`CreateSettles`, `PowerOffEndsRun` and `EveryCommandEnds`.

*Exceptions.* Some properties, and with them their theorems, name the one way in which
the code does less: `NoBranchIsLeft` a run that was killed or whose removal of the branch git
refused (that error is what it reports); `DetachEndsAccess` a share whose pid file could not be
written, and one that `create` has configured; `ChunksDoNotMatter` and `FilterIsIdempotent` a C1 control
that two reads share; `ForceFinishesHalf` a VMM that does not answer or turns down
a request about itself (`docs/cli/blinools-sandbox-shutdown.md:20`: "The command still
fails if the virtual machine monitor cannot shut down."); the lock's properties a lost lock
file. Where a document or a message promises more, section 4 has the
configuration without the exception.

## 6. Abstractions to know

- An error of a system call other than the modelled ones ends its operation as
  any error does. The errors that the code ignores and that a property can tell are
  modelled: the pid file of an attached share (`Disown`) and the mounts over `.git` directories
  (`MountGitFails`). `flock` fails only with "would block".
- Pids are names: a recycled pid is a process that is not the one meant
  (`SignalsOnlyOwnChild`, `TypeOK` of `Shares`).
- `Sandbox` has one VMM with one control socket and a shutdown that works or
  fails in a step. `Hypervisor` refines what this leaves out for one name: two flavours,
  two requests, late answers; in exchange its lock is one step.
- In `Process` a child whose message to a dead parent fails ends there, or escapes
  (`ChildFails`): in the code the error then returns from `spawn` in the child
  (`process/mod.rs:220`). What an escaped child does with its copy of the
  parent's drops and descriptors is planned; here it ends at some time.
- Time is a step that may come at any moment; the relation of two timeouts (5
  seconds in passt, 10 in `network::create`) is therefore every order of them.
- External, modelled by how the code uses them: vte's parser (its published state
  machine), nftables (first match, then the chain's policy) and connection tracking, the
  kernel's bind mounts and remounts, gix, the VMMs, passt, pasta and virtiofsd.
- In `AnsiFilter` a character is one symbol, which one read has whole or two reads share.
  Ill-formed UTF-8 and a character spread over three reads are not modelled. `MarksAreFew`
  counts a C1 control that was cut as a character that is shown, as the code does. `Console` has the filter as a growth factor; that its bytes
  come out as they should is `AnsiFilter`'s.
- `ShareAccess` compares what is served with what was found and mounted at that time; what
  the host does to a served share afterwards is outside.
- `Firewall` has addresses and ranges as sets; parsing them is not modelled, and
  an entry that does not parse is one value.

## 7. Not modelled, and the plan

In this order; each step is a module, its runs, and its theorems.

1. `Escape`: `Process` composed with `SandboxLock`, for the child that outlives
   its `spawn`.
2. `Console` with `AnsiFilter` in place of the growth factor.

Not modelled, and why: the cgroup of a sandbox (`cgroup.rs` makes a directory below
the user's slice, writes the limits into it and removes it on drop; a failure at any step only means
that there are no limits, and nothing else depends on it); `ps` and the listing of directories (read-only, their
answer is out of date when printed); parsing and validation of single values
and names and their error texts (text in, text out); the search and
deserialising of configuration files; the VMMs' and virtiofsd's command lines;
the command line, man pages and completion; build scripts, packages and examples.
