------------------------------ MODULE ShareAccess ------------------------------
(***************************************************************************)
(* What a share lets the guest see and write.  First the settings of one   *)
(* share name are put together from the global file, the project file and  *)
(* the command line (src/config.rs, merge_by_name of sandbox/config.rs,    *)
(* create and attach in sandbox/mod.rs); then virtiofsd's pre_exec hook    *)
(* turns them into mounts (isolate_share of sandbox/fs.rs), one by one and *)
(* over one another, while the host's files may change; and virtiofsd      *)
(* serves what is left to be seen.  mount(2) itself is external.           *)
(***************************************************************************)
EXTENDS Naturals, Sequences, FiniteSets, SequencesExt

CONSTANTS
  Path,        (* the files and directories of the share                     *)
  Root,        (* its host_dir                                               *)
  Above,       (* a path's ancestors and itself                              *)
  Git,         (* the paths whose last component is .git                     *)
  Foreign,     (* other file systems the host has mounted inside             *)
  Settings,    (* settings the share has in some file or argument            *)
  MaxEntries   (* bound: entries of the share's name in all sources together *)

GitAction == {"None", "ReadOnly", "Hide"}
Inner == Path \ {Root}

(* validate_into: paths lie inside host_dir and are not host_dir itself.     *)
Setting ==
  [readOnly : BOOLEAN, readOnlyPaths : Seq(Inner), hidden : Seq(Inner),
   git : GitAction \cup {"default"}]

ASSUME ShareAccessAssumption ==
  /\ Root \in Path /\ Git \subseteq Path /\ Foreign \subseteq Inner
  /\ Above \in [Path -> SUBSET Path]
  /\ \A p \in Path : Root \in Above[p] /\ p \in Above[p]
  /\ Settings \subseteq Setting /\ MaxEntries \in Nat

(* A path's ancestors lie on one line: of any of them one is the lowest.     *)
ASSUME TreeAssumption ==
  /\ \A p \in Path : \A q \in Above[p] : Above[q] \subseteq Above[p]
  /\ \A p \in Path : \A q \in Above[p] : p \in Above[q] => p = q
  /\ \A p \in Path : \A S \in SUBSET Above[p] : S # {} => \E m \in S : S \subseteq Above[m]

Overrides == [readOnly : BOOLEAN, noHidden : BOOLEAN, hiddenAsReadOnly : BOOLEAN]
NoOverrides == [readOnly |-> FALSE, noHidden |-> FALSE, hiddenAsReadOnly |-> FALSE]

VARIABLES
  pc,          (* where the command, then its hook, is                       *)
  sources,     (* what was configured and asked for, until it is merged      *)
  share,       (* the share's settings, or NoShare                           *)
  asked,       (* the command's overrides and the sandbox's git_action       *)
  there,       (* the paths that exist on the host                           *)
  todo,        (* mounts the hook has still to do                            *)
  left,        (* .git entries the walk has still to reach                   *)
  found,       (* .git entries the walk has reached or will                  *)
  ignored,     (* .git entries whose mount failed, which is ignored          *)
  mnt          (* what is mounted at each path, in virtiofsd's namespace     *)

vars == <<pc, sources, share, asked, there, todo, left, found, ignored, mnt>>

NoShare == [readOnly |-> FALSE, readOnlyPaths |-> <<>>, hidden |-> <<>>, git |-> "none"]

(* What create and attach-share are started with; attach takes no file's.    *)
CreateSources(g, p, c) ==
  [command : {"create"}, global : TupleOf(Settings, g), project : TupleOf(Settings, p),
   hasProject : IF p = 0 THEN BOOLEAN ELSE {TRUE}, inherit : BOOLEAN,
   cli : TupleOf(Settings, c)]
AttachSources ==
  [command : {"attach"}, global : {<<>>}, project : {<<>>}, hasProject : {FALSE},
   inherit : {FALSE}, cli : TupleOf(Settings, 1)]
NoSources ==
  [command |-> "create", global |-> <<>>, project |-> <<>>, hasProject |-> FALSE,
   inherit |-> FALSE, cli |-> <<>>]

Init ==
  /\ pc = "merge"
  /\ \/ sources \in AttachSources
     \/ \E g, p, c \in 0..MaxEntries :
          g + p + c <= MaxEntries /\ sources \in CreateSources(g, p, c)
  /\ share = NoShare /\ asked = [overrides |-> NoOverrides, git |-> "ReadOnly"]
  /\ there = Path
  /\ todo = <<>> /\ left = {} /\ found = {} /\ ignored = {}
  /\ mnt = [p \in Path |-> IF p \in Foreign \cup {Root} THEN "rw" ELSE "none"]

-------------------------------------------------------------------------------
(* Of one name: merge_by_name takes the last entry, and overrides over base. *)
BaseWins(base, overrides) ==        \* mutated form: insert keeps what is there
  IF base = <<>> THEN overrides ELSE base
MergeByName(base, overrides) ==
  LET all == base \o overrides IN IF all = <<>> THEN <<>> ELSE <<Last(all)>>

(* parse_config_with and resolve_shares: a project file replaces the global  *)
(* shares unless they are inherited.                                         *)
ConfiguredShares(s) ==
  IF s.hasProject
  THEN MergeByName(IF s.inherit THEN s.global ELSE <<>>, s.project)
  ELSE s.global

Resolved(s) ==
  IF s.command = "attach" THEN s.cli ELSE MergeByName(ConfiguredShares(s), s.cli)

(* The settings are read and merged; create ends here for a name nobody gave.*)
Merge ==
  /\ pc = "merge"
  /\ IF Resolved(sources) = <<>>
     THEN pc' = "noShare" /\ UNCHANGED share
     ELSE pc' = "spawn" /\ share' = Resolved(sources)[1]
  /\ UNCHANGED <<sources, asked, there, todo, left, found, ignored, mnt>>

-------------------------------------------------------------------------------
(* The hook                                                                  *)
Ops(what, paths) == [i \in DOMAIN paths |-> [what |-> what, path |-> paths[i]]]

ReadOnlyOps(s, o) ==
  IF s.readOnly \/ o.readOnly THEN Ops("readOnly", <<Root>>)
  ELSE Ops("readOnly", s.readOnlyPaths)

HiddenOps(s, o) ==
  IF o.noHidden THEN <<>>
  ELSE Ops(IF o.hiddenAsReadOnly THEN "readOnly" ELSE "hide", s.hidden)

(* FsMount::spawn; attach-share has no overrides to give.                    *)
Spawn ==
  /\ pc = "spawn"
  /\ \E o \in IF sources.command = "attach" THEN {NoOverrides} ELSE Overrides,
        git \in GitAction :
       /\ asked' = [overrides |-> o, git |-> git]
       /\ todo' = ReadOnlyOps(share, o) \o HiddenOps(share, o)
  /\ pc' = "mounts"
  /\ sources' = NoSources
  /\ UNCHANGED <<share, there, left, found, ignored, mnt>>

GitActionOf == IF share.git = "default" THEN asked.git ELSE share.git

(* A path can be reached while nothing covers a directory above it.          *)
Reachable(p) ==
  p \in there /\ \A q \in Above[p] \ {p} : mnt[q] # "void"

(* mount_read_only: a bind mount of p on p that takes along what is mounted  *)
(* below (MS_REC); the remount makes the top of it read-only and no more.    *)
BindsAlone(p) ==                    \* mutated form: no MS_REC
  [q \in Path |-> IF q = p THEN (IF mnt[p] = "void" THEN "void" ELSE "ro")
                  ELSE IF p \in Above[q] THEN "none" ELSE mnt[q]]
BoundReadOnly(p) ==
  [mnt EXCEPT ![p] = IF @ = "void" THEN "void" ELSE "ro"]

(* hide_dir and hide_file: an empty file system or file on top of p.         *)
Covered(p) ==
  [q \in Path |-> IF q = p THEN "void" ELSE IF p \in Above[q] THEN "none" ELSE mnt[q]]

Mounted(op) == IF op.what = "hide" THEN Covered(op.path) ELSE BoundReadOnly(op.path)

(* The next mount is done, and an error of it ends the hook.                 *)
DoMount ==
  /\ pc = "mounts" /\ todo # <<>>
  /\ Reachable(Head(todo).path)
  /\ mnt' = Mounted(Head(todo))
  /\ todo' = Tail(todo)
  /\ UNCHANGED <<pc, sources, share, asked, there, left, found, ignored>>

GoesOn == "mounts"                  \* mutated form: the error is ignored
AfterMountError == "failed"

MountFails ==
  /\ pc = "mounts" /\ todo # <<>>
  /\ pc' = AfterMountError
  /\ todo' = Tail(todo)
  /\ UNCHANGED <<sources, share, asked, there, left, found, ignored, mnt>>

(* lookup_git_dirs_and_apply_action: one walk over what can be reached now.  *)
StartWalk ==
  /\ found' = IF GitActionOf = "None" THEN {} ELSE {p \in Git : Reachable(p)}
  /\ left' = found'
  /\ pc' = "git"
  /\ UNCHANGED <<sources, share, asked, there, todo, ignored, mnt>>
WalkForGit == pc = "mounts" /\ todo = <<>> /\ StartWalk

GitMounted(p) == IF GitActionOf = "Hide" THEN Covered(p) ELSE BoundReadOnly(p)

(* The walk reaches a directory before what is in it.                        *)
NextGit(p) == p \in left /\ Above[p] \cap left = {p}

MountGit(p) ==
  /\ pc = "git" /\ NextGit(p)
  /\ Reachable(p)
  /\ mnt' = GitMounted(p)
  /\ left' = left \ {p}
  /\ UNCHANGED <<pc, sources, share, asked, there, todo, found, ignored>>

MountGitFails(p) ==
  /\ pc = "git" /\ NextGit(p)
  /\ left' = left \ {p}
  /\ ignored' = ignored \cup {p}
  /\ UNCHANGED <<pc, sources, share, asked, there, todo, found, mnt>>

(* The hook returns, virtiofsd executes and serves.                          *)
Serve ==
  /\ pc = "git" /\ left = {}
  /\ pc' = "serving"
  /\ UNCHANGED <<sources, share, asked, there, todo, left, found, ignored, mnt>>

(* Meanwhile somebody on the host removes a file or a tree; the kernel drops *)
(* what the hook had mounted there, and keeps the host's own mount points.   *)
Vanish(p) ==
  /\ pc \in {"spawn", "mounts", "git"}
  /\ p \in there \ {Root}
  /\ \A q \in Foreign : p \notin Above[q]
  /\ there' = {q \in there : p \notin Above[q]}
  /\ mnt' = [q \in Path |-> IF p \in Above[q] THEN "none" ELSE mnt[q]]
  /\ UNCHANGED <<pc, sources, share, asked, todo, left, found, ignored>>

Next ==
  \/ Merge \/ Spawn \/ DoMount \/ MountFails \/ WalkForGit \/ Serve
  \/ \E p \in Path : MountGit(p) \/ MountGitFails(p) \/ Vanish(p)

Spec == Init /\ [][Next]_vars

-------------------------------------------------------------------------------
(* What the guest gets.                                                      *)
SeesContent(p) == p \in there /\ \A q \in Above[p] : mnt[q] # "void"

(* The file system p lives on is that of the nearest mount above it.         *)
Writes(p) ==
  /\ SeesContent(p) /\ ~share.readOnly          \* --readonly of virtiofsd
  /\ \E m \in Above[p] : /\ mnt[m] = "rw"
                         /\ \A q \in Above[p] : mnt[q] # "none" => q \in Above[m]

(* What the documentation says of it.                                        *)
Elements(seq) == {seq[i] : i \in DOMAIN seq}

AskedHidden ==
  IF asked.overrides.noHidden \/ asked.overrides.hiddenAsReadOnly THEN {}
  ELSE Elements(share.hidden)

AskedReadOnly ==
  (IF share.readOnly \/ asked.overrides.readOnly THEN {Root}
   ELSE Elements(share.readOnlyPaths))
  \cup (IF asked.overrides.hiddenAsReadOnly /\ ~asked.overrides.noHidden
        THEN Elements(share.hidden) ELSE {})

GitHidden == IF GitActionOf = "Hide" THEN found \ ignored ELSE {}
GitReadOnly == IF GitActionOf = "ReadOnly" THEN found \ ignored ELSE {}

IsUnder(p, set) == Above[p] \cap set # {}

(* A read-only mount of q leaves another file system under q writable.       *)
OnlyAcrossForeign(p, set) ==
  \A q \in Above[p] \cap set : \E f \in Above[p] \cap Foreign : q \in Above[f] \ {f}

(* Every variable has its type: the walk reaches only what it has found and   *)
(* starts when no other mount is left to do.                                 *)
TypeOK ==
  /\ pc \in {"merge", "noShare", "spawn", "mounts", "git", "serving", "failed"}
  /\ share \in Settings \cup {NoShare}
  /\ asked \in [overrides : Overrides, git : GitAction]
  /\ there \subseteq Path /\ left \subseteq found /\ ignored \subseteq found
  /\ mnt \in [Path -> {"none", "rw", "ro", "void"}]
  /\ pc \in {"git", "serving"} => todo = <<>>

(* The settings in force are those of the source the documentation gives     *)
(* precedence: the command line, the project file, and the global file only  *)
(* where there is no project file or it is to be inherited from.             *)
NearestSourceWins ==
  pc = "spawn" =>
    LET s == sources IN
    \/ s.cli # <<>> /\ share = Last(s.cli)
    \/ s.cli = <<>> /\ s.project # <<>> /\ share = Last(s.project)
    \/ /\ s.cli = <<>> /\ s.project = <<>> /\ share = Last(s.global)
       /\ s.hasProject => s.inherit

(* A share that is served shows what is not hidden and nothing else, whatever *)
(* mounts came before and after, whatever vanished meanwhile and whichever   *)
(* .git mounts failed: the hook has done all of it or virtiofsd is not there. *)
SeenUnlessHidden ==
  pc = "serving" => \A p \in there :
    SeesContent(p) <=> ~IsUnder(p, AskedHidden \cup GitHidden)

(* What is seen can be written unless it is to be read-only; only another    *)
(* file system mounted below a read-only path may escape that, and not in a  *)
(* share that is read-only by itself.                                        *)
WrittenUnlessReadOnly ==
  pc = "serving" => \A p \in {q \in there : SeesContent(q)} :
    LET locked == AskedReadOnly \cup GitReadOnly IN
    /\ Writes(p) => \/ ~IsUnder(p, locked)
                    \/ ~share.readOnly /\ OnlyAcrossForeign(p, locked)
    /\ ~IsUnder(p, locked) => Writes(p)

(* docs/configuration.md on --read-only: "Mount every share read-only".      *)
ReadOnlyMeansReadOnly ==
  pc = "serving" /\ asked.overrides.readOnly => \A p \in Path : ~Writes(p)
===============================================================================
