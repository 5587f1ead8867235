--------------------------- MODULE ShareAccess_proofs --------------------------
(***************************************************************************)
(* The safety properties of ShareAccess, for every tree of paths, every    *)
(* set of settings and any number of entries in any source, whatever the   *)
(* host removes while the hook is at work.  ShareAccessInv says what the   *)
(* mounts are like between two steps of the hook: every mount was asked    *)
(* for, and what was asked for and is done stays done.                     *)
(***************************************************************************)
EXTENDS ShareAccess, SequenceTheorems, TLAPS

Op == [what : {"hide", "readOnly"}, path : Path]

(* TypeOK and the types it leaves out.                                       *)
Types ==
  /\ TypeOK
  /\ sources \in [command : {"create", "attach"}, global : Seq(Settings),
                  project : Seq(Settings), hasProject : BOOLEAN, inherit : BOOLEAN,
                  cli : Seq(Settings)]
  /\ todo \in Seq(Op)
  /\ found \subseteq Path
  /\ pc \notin {"merge", "noShare"} => share \in Settings

(* What Init says of the sources, which only Merge reads.                    *)
SourcesFit ==
  pc = "merge" =>
    /\ sources.command = "attach" => Len(sources.cli) = 1
    /\ sources.command = "create" /\ sources.project # <<>> => sources.hasProject

Working == pc \in {"mounts", "git", "serving"}

(* Before the walk nothing is known of .git entries, where they are left     *)
(* alone there is no walk, and after it none is left.                        *)
WalkFits ==
  /\ left \cap ignored = {}
  /\ pc \in {"merge", "noShare", "spawn", "mounts"} => found = {}
  /\ left # {} => GitActionOf \in {"ReadOnly", "Hide"}
  /\ pc \in {"merge", "noShare", "spawn"} => todo = <<>>
  /\ pc = "serving" => left = {}

(* The paths of the mounts that are still to do, and what is done.           *)
Pending(what) == {q \in Path : [what |-> what, path |-> q] \in Elements(todo)}
HiddenByNow == (AskedHidden \ Pending("hide")) \cup (GitHidden \ left)
LockedByNow == (AskedReadOnly \ Pending("readOnly")) \cup (GitReadOnly \ left)

(* Nothing is mounted but what was there and what was asked for.             *)
MountsAreAsked ==
  /\ mnt[Root] # "none"
  /\ \A q \in Path : mnt[q] = "rw" => q \in Foreign \cup {Root}
  /\ pc \in {"merge", "noShare", "spawn"} => \A q \in Path : mnt[q] \in {"none", "rw"}
  /\ Working =>
       /\ Pending("hide") \subseteq AskedHidden /\ Pending("readOnly") \subseteq AskedReadOnly
       /\ \A q \in Path : mnt[q] = "void" => q \in AskedHidden \cup (GitHidden \ left)
       /\ \A q \in Path : mnt[q] = "ro" => q \in AskedReadOnly \cup (GitReadOnly \ left)

Dark(p) == \E q \in Above[p] : mnt[q] = "void"

(* What is done stays done, for every path that is still there.              *)
DoneStaysDone ==
  Working => \A p \in there :
    /\ IsUnder(p, HiddenByNow) => Dark(p)
    /\ \A r \in Above[p] \cap LockedByNow : mnt[r] = "ro" \/ Dark(p)

ShareAccessInv ==
  Types /\ SourcesFit /\ WalkFits /\ MountsAreAsked /\ DoneStaysDone /\ NearestSourceWins

-------------------------------------------------------------------------------
(* Sequences of mounts                                                       *)

(* What a sequence holds that is put together of two, or of one and the rest.*)
LEMMA ElementsOfConcat ==
  ASSUME NEW S, NEW s \in Seq(S), NEW t \in Seq(S)
  PROVE  s \o t \in Seq(S) /\ Elements(s \o t) = Elements(s) \cup Elements(t)
<1>1. /\ s \o t \in Seq(S) /\ Len(s \o t) = Len(s) + Len(t)
      /\ \A i \in 1 .. Len(s) + Len(t) :
           (s \o t)[i] = IF i <= Len(s) THEN s[i] ELSE t[i - Len(s)]
      /\ Len(s) \in Nat /\ Len(t) \in Nat
      /\ DOMAIN s = 1 .. Len(s) /\ DOMAIN t = 1 .. Len(t)
      /\ DOMAIN (s \o t) = 1 .. Len(s) + Len(t)
  BY ConcatProperties, LenProperties
<1>2. ASSUME NEW i \in DOMAIN s PROVE s[i] \in Elements(s \o t)
  <2>1. i \in DOMAIN (s \o t) /\ (s \o t)[i] = s[i]
    BY <1>1
  <2> QED
    BY <2>1 DEF Elements
<1>3. ASSUME NEW i \in DOMAIN t PROVE t[i] \in Elements(s \o t)
  <2>1. i + Len(s) \in DOMAIN (s \o t) /\ (s \o t)[i + Len(s)] = t[i]
    BY <1>1
  <2> QED
    BY <2>1 DEF Elements
<1>4. ASSUME NEW i \in DOMAIN (s \o t) PROVE (s \o t)[i] \in Elements(s) \cup Elements(t)
  <2>1. CASE i <= Len(s)
    BY <1>1, <2>1 DEF Elements
  <2>2. CASE ~(i <= Len(s))
    <3>1. i - Len(s) \in DOMAIN t /\ (s \o t)[i] = t[i - Len(s)]
      BY <1>1, <2>2
    <3> QED
      BY <3>1 DEF Elements
  <2> QED
    BY <2>1, <2>2
<1> QED
  BY <1>1, <1>2, <1>3, <1>4 DEF Elements

LEMMA ElementsOfRest ==
  ASSUME NEW S, NEW s \in Seq(S), s # <<>>
  PROVE  /\ Head(s) \in S /\ Tail(s) \in Seq(S)
         /\ Elements(s) = {Head(s)} \cup Elements(Tail(s))
<1>1. /\ Head(s) = s[1] /\ Head(s) \in S /\ Tail(s) \in Seq(S)
      /\ Len(s) \in Nat /\ Len(s) # 0 /\ DOMAIN s = 1 .. Len(s)
      /\ DOMAIN Tail(s) = 1 .. Len(s) - 1
      /\ \A i \in 1 .. Len(s) - 1 : Tail(s)[i] = s[i + 1]
  BY HeadTailProperties, LenProperties, EmptySeq
<1>2. ASSUME NEW i \in DOMAIN s PROVE s[i] \in {Head(s)} \cup Elements(Tail(s))
  <2>1. CASE i = 1
    BY <1>1, <2>1
  <2>2. CASE i # 1
    <3>1. i - 1 \in DOMAIN Tail(s) /\ Tail(s)[i - 1] = s[i]
      BY <1>1, <2>2
    <3> QED
      BY <3>1 DEF Elements
  <2> QED
    BY <2>1, <2>2
<1>3. ASSUME NEW i \in DOMAIN Tail(s) PROVE Tail(s)[i] \in Elements(s)
  <2>1. i + 1 \in DOMAIN s /\ Tail(s)[i] = s[i + 1]
    BY <1>1
  <2> QED
    BY <2>1 DEF Elements
<1>4. Head(s) \in Elements(s)
  BY <1>1 DEF Elements
<1> QED
  BY <1>1, <1>2, <1>3, <1>4 DEF Elements

LEMMA ElementsOfOps ==
  ASSUME NEW what \in {"hide", "readOnly"}, NEW paths \in Seq(Path)
  PROVE  /\ Ops(what, paths) \in Seq(Op) /\ Elements(paths) \subseteq Path
         /\ Elements(Ops(what, paths)) = {[what |-> what, path |-> q] : q \in Elements(paths)}
<1>1. /\ Len(paths) \in Nat /\ DOMAIN paths = 1 .. Len(paths)
      /\ \A i \in DOMAIN paths : paths[i] \in Path
  BY LenProperties, ElementOfSeq
<1>2. \A i \in DOMAIN paths : [what |-> what, path |-> paths[i]] \in Op
  BY <1>1 DEF Op
<1>3. /\ Ops(what, paths) \in [1 .. Len(paths) -> Op]
      /\ \A i \in DOMAIN paths : Ops(what, paths)[i] = [what |-> what, path |-> paths[i]]
      /\ DOMAIN Ops(what, paths) = DOMAIN paths
  BY <1>1, <1>2 DEF Ops
<1>4. Ops(what, paths) \in Seq(Op)
  BY <1>1, <1>3, SeqDef
<1> QED
  BY <1>1, <1>3, <1>4 DEF Elements

-------------------------------------------------------------------------------
(* The settings                                                              *)

LEMMA TuplesAreSequences ==
  ASSUME NEW n \in Nat, NEW t \in TupleOf(Settings, n)
  PROVE  t \in Seq(Settings) /\ Len(t) = n
<1>1. t \in [1 .. n -> Settings]
  BY DEF TupleOf
<1>2. t \in Seq(Settings)
  BY <1>1, SeqDef
<1>3. 1 .. Len(t) = 1 .. n /\ Len(t) \in Nat
  BY <1>1, <1>2, LenProperties
<1> QED
  BY <1>2, <1>3

SourceRecord ==
  [command : {"create", "attach"}, global : Seq(Settings), project : Seq(Settings),
   hasProject : BOOLEAN, inherit : BOOLEAN, cli : Seq(Settings)]

LEMMA InitSources == Init => sources \in SourceRecord /\ SourcesFit
<1> SUFFICES ASSUME Init PROVE sources \in SourceRecord /\ SourcesFit
  OBVIOUS
<1>1. <<>> \in Seq(Settings)
  BY EmptySeq
<1>2. CASE sources \in AttachSources
  <2>1. sources.cli \in TupleOf(Settings, 1)
    BY <1>2 DEF AttachSources
  <2>2. sources.cli \in Seq(Settings) /\ Len(sources.cli) = 1
    BY <2>1, TuplesAreSequences
  <2>3. sources \in SourceRecord
    BY <1>1, <1>2, <2>2 DEF AttachSources, SourceRecord
  <2> QED
    BY <1>2, <2>2, <2>3 DEF AttachSources, SourcesFit
<1>3. ASSUME NEW g \in Nat, NEW p \in Nat, NEW c \in Nat, sources \in CreateSources(g, p, c)
      PROVE  sources \in SourceRecord /\ SourcesFit
  <2>1. /\ sources.global \in TupleOf(Settings, g) /\ sources.project \in TupleOf(Settings, p)
        /\ sources.cli \in TupleOf(Settings, c)
    BY <1>3 DEF CreateSources
  <2>2. /\ sources.global \in Seq(Settings) /\ sources.cli \in Seq(Settings)
        /\ sources.project \in Seq(Settings) /\ Len(sources.project) = p
    BY <2>1, TuplesAreSequences
  <2>3. sources \in SourceRecord
    BY <1>3, <2>2 DEF CreateSources, SourceRecord
  <2>4. sources.project # <<>> => p # 0
    BY <2>2, EmptySeq
  <2>5. sources.command = "create" /\ (p # 0 => sources.hasProject)
    BY <1>3 DEF CreateSources
  <2> QED
    BY <2>3, <2>4, <2>5 DEF SourcesFit
<1>4. 0 .. MaxEntries \subseteq Nat
  BY ShareAccessAssumption
<1> QED
  BY <1>2, <1>3, <1>4 DEF Init

LEMMA InitInv == Init => ShareAccessInv
<1> SUFFICES ASSUME Init PROVE ShareAccessInv
  OBVIOUS
<1>1. sources \in SourceRecord /\ SourcesFit
  BY InitSources
<1>2. <<>> \in Seq(Op)
  BY EmptySeq
<1>3. NoOverrides \in Overrides
  BY DEF NoOverrides, Overrides
<1>4. TypeOK /\ Types
  BY <1>1, <1>2, <1>3, ShareAccessAssumption
     DEF Init, Types, TypeOK, SourceRecord, GitAction
<1>5. WalkFits /\ MountsAreAsked /\ DoneStaysDone /\ NearestSourceWins
  BY ShareAccessAssumption
     DEF Init, WalkFits, MountsAreAsked, DoneStaysDone, NearestSourceWins, Working
<1> QED
  BY <1>1, <1>4, <1>5 DEF ShareAccessInv

(* The last entry of two sources is that of the nearer one, if it has any.   *)
LEMMA MergedByName ==
  ASSUME NEW base \in Seq(Settings), NEW overrides \in Seq(Settings)
  PROVE  /\ base = <<>> /\ overrides = <<>> => MergeByName(base, overrides) = <<>>
         /\ overrides # <<>> => MergeByName(base, overrides) = <<Last(overrides)>>
         /\ base # <<>> /\ overrides = <<>> => MergeByName(base, overrides) = <<Last(base)>>
         /\ overrides # <<>> => Last(overrides) \in Settings
         /\ base # <<>> => Last(base) \in Settings
         /\ MergeByName(base, overrides) \in Seq(Settings)
<1>1. /\ base \o overrides \in Seq(Settings)
      /\ Len(base \o overrides) = Len(base) + Len(overrides)
      /\ \A i \in 1 .. Len(base) + Len(overrides) :
           (base \o overrides)[i] = IF i <= Len(base) THEN base[i] ELSE overrides[i - Len(base)]
  BY ConcatProperties
<1>2. /\ Len(base) \in Nat /\ Len(overrides) \in Nat
      /\ base # <<>> => Len(base) > 0 /\ base[Len(base)] \in Settings
      /\ overrides # <<>> => Len(overrides) > 0 /\ overrides[Len(overrides)] \in Settings
  BY LenProperties, EmptySeq, ElementOfSeq
<1>3. Len(<<>>) = 0 /\ <<>> \in Seq(Settings)
  BY EmptySeq
<1>4. CASE overrides # <<>>
  <2>1. Last(base \o overrides) = Last(overrides) /\ base \o overrides # <<>>
    BY <1>1, <1>2, <1>3, <1>4 DEF Last
  <2> QED
    BY <1>2, <1>4, <2>1 DEF MergeByName, Last
<1>5. CASE overrides = <<>>
  <2>1. base \o overrides = base
    BY <1>5, ConcatEmptySeq
  <2> QED
    BY <1>2, <1>3, <1>5, <2>1 DEF MergeByName, Last
<1> QED
  BY <1>4, <1>5

(* The share that Merge takes.                                               *)
LEMMA ResolvedIsNearest ==
  ASSUME Types, SourcesFit, pc = "merge", Resolved(sources) # <<>>
  PROVE  LET s == sources
             winner == Resolved(s)[1]
         IN  /\ winner \in Settings
             /\ \/ s.cli # <<>> /\ winner = Last(s.cli)
                \/ s.cli = <<>> /\ s.project # <<>> /\ winner = Last(s.project)
                \/ /\ s.cli = <<>> /\ s.project = <<>> /\ winner = Last(s.global)
                   /\ s.hasProject => s.inherit
<1> DEFINE s == sources
<1>1. /\ s.global \in Seq(Settings) /\ s.project \in Seq(Settings) /\ s.cli \in Seq(Settings)
      /\ s.command \in {"create", "attach"}
      /\ s.hasProject \in BOOLEAN /\ s.inherit \in BOOLEAN
  BY DEF Types
<1>2. /\ s.command = "attach" => Len(s.cli) = 1
      /\ s.command = "create" /\ s.project # <<>> => s.hasProject
  BY DEF SourcesFit
<1>3. Len(<<>>) = 0 /\ <<>> \in Seq(Settings)
  BY EmptySeq
<1>4. CASE s.command = "attach"
  <2>1. Resolved(s) = s.cli
    BY <1>4 DEF Resolved
  <2>2. s.cli # <<>> /\ s.cli[1] = Last(s.cli) /\ s.cli[1] \in Settings
    BY <1>1, <1>2, <1>3, <1>4, ElementOfSeq DEF Last
  <2> QED
    BY <2>1, <2>2
<1>5. CASE s.command = "create"
  <2> DEFINE conf == ConfiguredShares(s)
  <2>1. Resolved(s) = MergeByName(conf, s.cli)
    BY <1>5 DEF Resolved
  <2>2. conf \in Seq(Settings)
    BY <1>1, <1>3, MergedByName DEF ConfiguredShares
  <2>a. conf = ConfiguredShares(s)
    OBVIOUS
  <2> HIDE DEF conf
  <2>3. CASE s.cli # <<>>
    <3>1. MergeByName(conf, s.cli) = <<Last(s.cli)>> /\ Last(s.cli) \in Settings
      BY <1>1, <2>2, <2>3, MergedByName
    <3> QED
      BY <2>1, <2>3, <3>1
  <2>4. CASE s.cli = <<>>
    <3>1. conf # <<>> /\ Resolved(s)[1] = Last(conf) /\ Last(conf) \in Settings
      <4>1. conf # <<>>
        BY <1>1, <2>1, <2>2, <2>4, MergedByName
      <4>2. MergeByName(conf, s.cli) = <<Last(conf)>> /\ Last(conf) \in Settings
        BY <1>1, <2>2, <2>4, <4>1, MergedByName
      <4> QED
        BY <2>1, <4>1, <4>2
    <3>2. CASE ~s.hasProject
      BY <1>2, <1>5, <2>4, <2>a, <3>1, <3>2 DEF ConfiguredShares
    <3>3. CASE s.hasProject
      <4> DEFINE base == IF s.inherit THEN s.global ELSE <<>>
      <4>1. base \in Seq(Settings) /\ conf = MergeByName(base, s.project)
        BY <1>1, <1>3, <2>a, <3>3 DEF ConfiguredShares
      <4>a. base = IF s.inherit THEN s.global ELSE <<>>
        OBVIOUS
      <4> HIDE DEF base
      <4>2. CASE s.project # <<>>
        <5>1. conf = <<Last(s.project)>>
          BY <1>1, <4>1, <4>2, MergedByName
        <5> QED
          BY <2>4, <3>1, <4>2, <5>1 DEF Last
      <4>3. CASE s.project = <<>>
        <5>1. base # <<>> /\ conf = <<Last(base)>>
          BY <1>1, <3>1, <4>1, <4>3, MergedByName
        <5>2. s.inherit /\ Last(conf) = Last(s.global)
          BY <4>a, <5>1 DEF Last
        <5> QED
          BY <2>4, <3>1, <4>3, <5>2
      <4> QED
        BY <4>2, <4>3
    <3> QED
      BY <3>2, <3>3
  <2> QED
    BY <2>3, <2>4
<1> QED
  BY <1>1, <1>4, <1>5

-------------------------------------------------------------------------------
(* The hook's list                                                           *)

(* What Spawn lists is what was asked for.                                   *)
LEMMA SpawnListsAsked ==
  ASSUME Types, Spawn
  PROVE  /\ asked' \in [overrides : Overrides, git : GitAction]
         /\ todo' \in Seq(Op)
         /\ Pending("hide")' = AskedHidden' /\ Pending("readOnly")' = AskedReadOnly'
<1>1. PICK o \in Overrides, git \in GitAction :
        /\ asked' = [overrides |-> o, git |-> git]
        /\ todo' = ReadOnlyOps(share, o) \o HiddenOps(share, o)
  BY DEF Spawn, NoOverrides, Overrides
<1>2. share \in Setting /\ share' = share
  BY ShareAccessAssumption DEF Types, Spawn
<1>3. ASSUME NEW paths \in Seq(Inner) PROVE paths \in Seq(Path)
  <2>1. paths \in [1 .. Len(paths) -> Path] /\ Len(paths) \in Nat
    BY LenProperties DEF Inner
  <2> QED
    BY <2>1, SeqDef
<1>4. /\ share.readOnlyPaths \in Seq(Path) /\ share.hidden \in Seq(Path)
      /\ <<Root>> \in Seq(Path) /\ Elements(<<Root>>) = {Root} /\ Root \in Path
      /\ <<>> \in Seq(Op) /\ Elements(<<>>) = {}
  <2>1. <<Root>> \in Seq(Path) /\ DOMAIN <<Root>> = {1} /\ <<Root>>[1] = Root
    BY ShareAccessAssumption
  <2>2. <<>> \in Seq(Op) /\ DOMAIN <<>> = {}
    BY EmptySeq
  <2> QED
    BY <1>2, <1>3, <2>1, <2>2, ShareAccessAssumption DEF Setting, Elements
<1> DEFINE R == ReadOnlyOps(share, o)
           H == HiddenOps(share, o)
           ROf == IF share.readOnly \/ o.readOnly THEN {Root} ELSE Elements(share.readOnlyPaths)
           HOf == IF o.noHidden THEN {} ELSE Elements(share.hidden)
           what == IF o.hiddenAsReadOnly THEN "readOnly" ELSE "hide"
<1>5. /\ R \in Seq(Op) /\ ROf \subseteq Path
      /\ Elements(R) = {[what |-> "readOnly", path |-> q] : q \in ROf}
  BY <1>4, ElementsOfOps DEF ReadOnlyOps
<1>6. /\ H \in Seq(Op) /\ HOf \subseteq Path
      /\ Elements(H) = {[what |-> what, path |-> q] : q \in HOf}
  <2>1. CASE o.noHidden
    BY <1>4, <2>1 DEF HiddenOps
  <2>2. CASE ~o.noHidden
    BY <1>4, <2>2, ElementsOfOps DEF HiddenOps
  <2> QED
    BY <2>1, <2>2
<1> HIDE DEF R, H
<1>7. todo' \in Seq(Op) /\ Elements(todo') = Elements(R) \cup Elements(H)
  BY <1>1, <1>5, <1>6, ElementsOfConcat DEF R, H
<1>8. AskedHidden' = IF o.noHidden \/ o.hiddenAsReadOnly THEN {} ELSE Elements(share.hidden)
  BY <1>1, <1>2 DEF AskedHidden, Elements
<1>9. AskedReadOnly' = ROf \cup (IF o.hiddenAsReadOnly /\ ~o.noHidden
                                THEN Elements(share.hidden) ELSE {})
  BY <1>1, <1>2 DEF AskedReadOnly, Elements
<1>10. \A w, q : [what |-> w, path |-> q] \in Elements(todo') <=>
         (w = "readOnly" /\ q \in ROf) \/ (w = what /\ q \in HOf)
  BY <1>5, <1>6, <1>7
<1>11. Pending("hide")' = {q \in Path : [what |-> "hide", path |-> q] \in Elements(todo')}
       /\ Pending("readOnly")' = {q \in Path : [what |-> "readOnly", path |-> q] \in Elements(todo')}
  BY DEF Pending, Elements
<1>12. Pending("hide")' = AskedHidden'
  BY <1>6, <1>8, <1>10, <1>11
<1>13. Pending("readOnly")' = AskedReadOnly'
  BY <1>5, <1>6, <1>9, <1>10, <1>11
<1> QED
  BY <1>1, <1>7, <1>12, <1>13

(* The next mount leaves the list.                                           *)
LEMMA PendingAfterMount ==
  ASSUME Types, todo # <<>>, todo' = Tail(todo)
  PROVE  /\ Head(todo) \in Op /\ todo' \in Seq(Op)
         /\ Head(todo).path \in Pending(Head(todo).what)
         /\ \A w : /\ Pending(w)' \subseteq Pending(w)
                  /\ Pending(w) \subseteq Pending(w)' \cup
                                       (IF w = Head(todo).what THEN {Head(todo).path} ELSE {})
<1>1. /\ todo \in Seq(Op) /\ Head(todo) \in Op /\ todo' \in Seq(Op)
      /\ Elements(todo) = {Head(todo)} \cup Elements(Tail(todo))
  BY ElementsOfRest DEF Types
<1>2. \A w : Pending(w)' = {q \in Path : [what |-> w, path |-> q] \in Elements(Tail(todo))}
  BY DEF Pending, Elements
<1>3. Head(todo) = [what |-> Head(todo).what, path |-> Head(todo).path]
  BY <1>1 DEF Op
<1>4. Head(todo).path \in Path
  BY <1>1 DEF Op
<1>5. ASSUME NEW w, NEW q \in Pending(w), q \notin Pending(w)'
      PROVE  w = Head(todo).what /\ q = Head(todo).path
  <2>1. [what |-> w, path |-> q] = Head(todo)
    BY <1>1, <1>2, <1>5 DEF Pending
  <2> QED
    BY <2>1
<1> QED
  BY <1>1, <1>2, <1>3, <1>4, <1>5 DEF Pending

-------------------------------------------------------------------------------
(* The mounts                                                                *)

(* What no mount and no removal undoes, for a path that is still there.      *)
DarkStays ==
  \A p \in there' :
    /\ Dark(p) => Dark(p)'
    /\ \A r \in Above[p] : (mnt[r] = "ro" \/ Dark(p)) => (mnt'[r] = "ro" \/ Dark(p)')

MountTypes == mnt \in [Path -> {"none", "rw", "ro", "void"}] /\ mnt[Root] # "none"

(* Nothing new is mounted outside hidden and locked.                         *)
NewOnly(hidden, locked) ==
  \A q \in Path : /\ mnt'[q] = "rw" => mnt[q] = "rw"
                  /\ mnt'[q] = "void" => (mnt[q] = "void" \/ q \in hidden)
                  /\ mnt'[q] = "ro" => (mnt[q] = "ro" \/ q \in locked)

(* Only the root lies above the root.                                        *)
LEMMA AboveRoot == \A q \in Above[Root] : q = Root
  BY ShareAccessAssumption, TreeAssumption

LEMMA AbovePaths == \A p \in Path : Above[p] \subseteq Path
  BY ShareAccessAssumption

LEMMA CoverKeeps ==
  ASSUME MountTypes, there \subseteq Path, there' = there, NEW h \in Path, mnt' = Covered(h)
  PROVE  /\ MountTypes' /\ DarkStays /\ NewOnly({h}, {})
         /\ \A p \in there' : h \in Above[p] => Dark(p)'
<1>1. \A q \in Path : mnt'[q] = IF q = h THEN "void" ELSE IF h \in Above[q] THEN "none" ELSE mnt[q]
  BY DEF Covered
<1>2. mnt' \in [Path -> {"none", "rw", "ro", "void"}]
  BY <1>1 DEF Covered, MountTypes
<1>3. mnt'[Root] # "none"
  BY <1>1, AboveRoot, ShareAccessAssumption DEF MountTypes
<1>4. ASSUME NEW p \in there', h \in Above[p] PROVE Dark(p)'
  BY <1>1, <1>4 DEF Dark
<1>5. ASSUME NEW p \in there', h \notin Above[p], NEW q \in Above[p] PROVE mnt'[q] = mnt[q]
  <2>1. q \in Path /\ h \notin Above[q] /\ q \in Above[q]
    BY <1>5, AbovePaths, TreeAssumption, ShareAccessAssumption
  <2> QED
    BY <1>1, <2>1
<1>6. ASSUME NEW p \in there', h \notin Above[p]
      PROVE  /\ Dark(p) => Dark(p)'
             /\ \A r \in Above[p] : mnt'[r] = mnt[r]
  BY <1>5, <1>6 DEF Dark
<1>7. DarkStays
  BY <1>4, <1>6 DEF DarkStays
<1>8. NewOnly({h}, {})
  BY <1>1 DEF NewOnly
<1> QED
  BY <1>2, <1>3, <1>4, <1>7, <1>8 DEF MountTypes

LEMMA BindKeeps ==
  ASSUME MountTypes, there \subseteq Path, there' = there, NEW h \in Path,
         mnt' = BoundReadOnly(h)
  PROVE  /\ MountTypes' /\ DarkStays /\ NewOnly({}, {h})
         /\ \A p \in there' : h \in Above[p] => (mnt'[h] = "ro" \/ Dark(p)')
<1>1. \A q \in Path : mnt'[q] = IF q = h THEN (IF mnt[h] = "void" THEN "void" ELSE "ro") ELSE mnt[q]
  BY DEF BoundReadOnly, MountTypes
<1>2. mnt' \in [Path -> {"none", "rw", "ro", "void"}]
  BY <1>1 DEF BoundReadOnly, MountTypes
<1>3. mnt'[Root] # "none"
  BY <1>1, ShareAccessAssumption DEF MountTypes
<1>4. \A q \in Path : (mnt[q] = "void" => mnt'[q] = "void") /\ (mnt[q] = "ro" => mnt'[q] = "ro")
  BY <1>1
<1>5. ASSUME NEW p \in there' PROVE Dark(p) => Dark(p)'
  BY <1>4, AbovePaths DEF Dark
<1>6. DarkStays
  BY <1>4, <1>5, AbovePaths DEF DarkStays
<1>7. NewOnly({}, {h})
  BY <1>1 DEF NewOnly
<1>8. ASSUME NEW p \in there', h \in Above[p] PROVE mnt'[h] = "ro" \/ Dark(p)'
  BY <1>1, <1>8 DEF Dark
<1> QED
  BY <1>2, <1>3, <1>6, <1>7, <1>8 DEF MountTypes

LEMMA VanishKeeps ==
  ASSUME MountTypes, there \subseteq Path, NEW x \in Path, Vanish(x)
  PROVE  MountTypes' /\ DarkStays /\ NewOnly({}, {}) /\ there' \subseteq there
<1>1. /\ x # Root /\ there' = {q \in there : x \notin Above[q]}
      /\ mnt' = [q \in Path |-> IF x \in Above[q] THEN "none" ELSE mnt[q]]
  BY DEF Vanish
<1>2. mnt' \in [Path -> {"none", "rw", "ro", "void"}]
  BY <1>1 DEF MountTypes
<1>3. mnt'[Root] # "none"
  BY <1>1, AboveRoot, ShareAccessAssumption DEF MountTypes
<1>4. ASSUME NEW p \in there', NEW q \in Above[p] PROVE mnt'[q] = mnt[q]
  <2>1. q \in Path /\ x \notin Above[q]
    BY <1>1, <1>4, AbovePaths, TreeAssumption
  <2> QED
    BY <1>1, <2>1
<1>5. DarkStays
  BY <1>4 DEF DarkStays, Dark
<1>6. NewOnly({}, {})
  BY <1>1 DEF NewOnly
<1> QED
  BY <1>1, <1>2, <1>3, <1>5, <1>6 DEF MountTypes

(* What was asked for is settled when the hook starts.                       *)
LEMMA AskedStays ==
  ASSUME share' = share, asked' = asked
  PROVE  AskedHidden' = AskedHidden /\ AskedReadOnly' = AskedReadOnly /\ GitActionOf' = GitActionOf
  BY DEF AskedHidden, AskedReadOnly, GitActionOf, Elements

LEMMA PendingStays == ASSUME todo' = todo PROVE \A w : Pending(w)' = Pending(w)
  BY DEF Pending, Elements

(* What a step adds to what is done holds of it, then so does all of it.     *)
LEMMA DoneKept ==
  ASSUME Working, DoneStaysDone, DarkStays, there' \subseteq there, there \subseteq Path,
         \A p \in there' : IsUnder(p, HiddenByNow' \ HiddenByNow) => Dark(p)',
         \A p \in there' : \A r \in Above[p] \cap (LockedByNow' \ LockedByNow) :
           mnt'[r] = "ro" \/ Dark(p)'
  PROVE  DoneStaysDone'
<1>1. ASSUME NEW p \in there', IsUnder(p, HiddenByNow') PROVE Dark(p)'
  <2>1. CASE IsUnder(p, HiddenByNow' \ HiddenByNow)
    BY <2>1
  <2>2. CASE IsUnder(p, HiddenByNow)
    BY <2>2 DEF DoneStaysDone, DarkStays
  <2> QED
    BY <1>1, <2>1, <2>2 DEF IsUnder
<1>2. ASSUME NEW p \in there', NEW r \in Above[p] \cap LockedByNow'
      PROVE  mnt'[r] = "ro" \/ Dark(p)'
  <2>1. CASE r \in LockedByNow
    BY <2>1 DEF DoneStaysDone, DarkStays
  <2>2. CASE r \notin LockedByNow
    BY <2>2
  <2> QED
    BY <2>1, <2>2
<1>3. ASSUME NEW p \in there' PROVE IsUnder(p, HiddenByNow)' => Dark(p)'
  BY <1>1, <1>3 DEF IsUnder
<1> QED
  BY <1>2, <1>3 DEF DoneStaysDone

-------------------------------------------------------------------------------
(* Every step keeps the invariant                                            *)

SourceTypes ==
  sources \in [command : {"create", "attach"}, global : Seq(Settings),
               project : Seq(Settings), hasProject : BOOLEAN, inherit : BOOLEAN,
               cli : Seq(Settings)]

LEMMA MergeKeepsInv == ShareAccessInv /\ Merge => ShareAccessInv'
<1> SUFFICES ASSUME ShareAccessInv, Merge PROVE ShareAccessInv'
  OBVIOUS
<1> USE DEF ShareAccessInv
<1>1. /\ pc = "merge" /\ pc' \in {"noShare", "spawn"} /\ sources' = sources /\ asked' = asked
      /\ there' = there /\ todo' = todo /\ left' = left /\ found' = found
      /\ ignored' = ignored /\ mnt' = mnt
  BY DEF Merge
<1>2. \/ pc' = "noShare" /\ share' = share
      \/ pc' = "spawn" /\ Resolved(sources) # <<>> /\ share' = Resolved(sources)[1]
  BY DEF Merge
<1>3. pc' = "spawn" => share' \in Settings /\ NearestSourceWins'
  BY <1>1, <1>2, ResolvedIsNearest DEF NearestSourceWins
<1>4. Types'
  BY <1>1, <1>2, <1>3 DEF Types, TypeOK
<1>5. SourcesFit' /\ MountsAreAsked' /\ DoneStaysDone' /\ NearestSourceWins'
  BY <1>1, <1>3 DEF SourcesFit, MountsAreAsked, DoneStaysDone, Working, NearestSourceWins
<1>6. left' = {} /\ WalkFits'
  BY <1>1 DEF WalkFits, Types, TypeOK
<1> QED
  BY <1>4, <1>5, <1>6

LEMMA SpawnKeepsInv == ShareAccessInv /\ Spawn => ShareAccessInv'
<1> SUFFICES ASSUME ShareAccessInv, Spawn PROVE ShareAccessInv'
  OBVIOUS
<1> USE DEF ShareAccessInv
<1>1. /\ pc = "spawn" /\ pc' = "mounts" /\ sources' = NoSources /\ share' = share
      /\ there' = there /\ left' = left /\ found' = found
      /\ ignored' = ignored /\ mnt' = mnt
  BY DEF Spawn
<1>2. /\ asked' \in [overrides : Overrides, git : GitAction] /\ todo' \in Seq(Op)
      /\ Pending("hide")' = AskedHidden' /\ Pending("readOnly")' = AskedReadOnly'
  BY SpawnListsAsked
<1>3. SourceTypes'
  BY <1>1, EmptySeq DEF SourceTypes, NoSources
<1>4. Types'
  BY <1>1, <1>2, <1>3 DEF Types, TypeOK, SourceTypes
<1>5. found' = {} /\ left' = {} /\ ignored' = {}
  BY <1>1 DEF WalkFits, Types, TypeOK
<1>6. WalkFits' /\ SourcesFit' /\ NearestSourceWins'
  BY <1>1, <1>5 DEF WalkFits, SourcesFit, NearestSourceWins
<1>7. MountsAreAsked'
  BY <1>1, <1>2 DEF MountsAreAsked
<1>8. HiddenByNow' = {} /\ LockedByNow' = {}
  BY <1>2, <1>5 DEF HiddenByNow, LockedByNow, GitHidden, GitReadOnly
<1>9. DoneStaysDone'
  BY <1>8 DEF DoneStaysDone, IsUnder
<1> QED
  BY <1>4, <1>6, <1>7, <1>9

LEMMA DoMountKeepsInv == ShareAccessInv /\ DoMount => ShareAccessInv'
<1> SUFFICES ASSUME ShareAccessInv, DoMount PROVE ShareAccessInv'
  OBVIOUS
<1> USE DEF ShareAccessInv
<1>1. /\ pc = "mounts" /\ pc' = pc /\ sources' = sources /\ share' = share /\ asked' = asked
      /\ there' = there /\ left' = left /\ found' = found /\ ignored' = ignored
      /\ todo # <<>> /\ todo' = Tail(todo) /\ mnt' = Mounted(Head(todo))
  BY DEF DoMount
<1> DEFINE op == Head(todo)
<1>2. /\ op \in Op /\ todo' \in Seq(Op) /\ op.path \in Pending(op.what)
      /\ \A w : /\ Pending(w)' \subseteq Pending(w)
                /\ Pending(w) \subseteq Pending(w)' \cup (IF w = op.what THEN {op.path} ELSE {})
  BY <1>1, PendingAfterMount
<1>3. op.path \in Path /\ op.what \in {"hide", "readOnly"}
  BY <1>2 DEF Op
<1>4. AskedHidden' = AskedHidden /\ AskedReadOnly' = AskedReadOnly /\ GitActionOf' = GitActionOf
  BY <1>1, AskedStays
<1>5. found = {} /\ left = {} /\ GitHidden' = {} /\ GitReadOnly' = {}
      /\ GitHidden = {} /\ GitReadOnly = {}
  BY <1>1 DEF WalkFits, Types, TypeOK, GitHidden, GitReadOnly
<1>6. MountTypes /\ there \subseteq Path /\ Working
      /\ Pending("hide") \subseteq AskedHidden /\ Pending("readOnly") \subseteq AskedReadOnly
  BY <1>1 DEF MountTypes, Types, TypeOK, MountsAreAsked, Working
<1> HIDE DEF op
<1>7. /\ MountTypes' /\ DarkStays
      /\ NewOnly(IF op.what = "hide" THEN {op.path} ELSE {},
                 IF op.what = "hide" THEN {} ELSE {op.path})
      /\ op.what = "hide" => \A p \in there' : op.path \in Above[p] => Dark(p)'
      /\ op.what = "readOnly" =>
           \A p \in there' : op.path \in Above[p] => (mnt'[op.path] = "ro" \/ Dark(p)')
  <2>1. CASE op.what = "hide"
    <3>1. mnt' = Covered(op.path)
      BY <1>1, <2>1 DEF Mounted, op
    <3> QED
      BY <1>1, <1>3, <1>6, <2>1, <3>1, CoverKeeps
  <2>2. CASE op.what = "readOnly"
    <3>1. mnt' = BoundReadOnly(op.path)
      BY <1>1, <2>2 DEF Mounted, op
    <3> QED
      BY <1>1, <1>3, <1>6, <2>2, <3>1, BindKeeps
  <2> QED
    BY <1>3, <2>1, <2>2
<1>8. Types'
  BY <1>1, <1>2, <1>7 DEF Types, TypeOK, MountTypes
<1>9. WalkFits' /\ SourcesFit' /\ NearestSourceWins'
  BY <1>1, <1>4, <1>5 DEF WalkFits, SourcesFit, NearestSourceWins
<1>10. MountsAreAsked'
  <2>1. \A q \in Path : mnt'[q] = "void" => q \in AskedHidden'
    BY <1>2, <1>4, <1>5, <1>6, <1>7 DEF NewOnly, MountsAreAsked
  <2>2. \A q \in Path : mnt'[q] = "ro" => q \in AskedReadOnly'
    BY <1>2, <1>3, <1>4, <1>5, <1>6, <1>7 DEF NewOnly, MountsAreAsked
  <2>3. \A q \in Path : mnt'[q] = "rw" => q \in Foreign \cup {Root}
    BY <1>7 DEF NewOnly, MountsAreAsked
  <2>4. Pending("hide")' \subseteq AskedHidden' /\ Pending("readOnly")' \subseteq AskedReadOnly'
    BY <1>2, <1>4, <1>6
  <2> QED
    BY <1>1, <1>7, <2>1, <2>2, <2>3, <2>4 DEF MountsAreAsked, MountTypes
<1>11. DoneStaysDone'
  <2>1. HiddenByNow' \ HiddenByNow \subseteq (IF op.what = "hide" THEN {op.path} ELSE {})
    BY <1>2, <1>3, <1>4, <1>5 DEF HiddenByNow
  <2>2. LockedByNow' \ LockedByNow \subseteq (IF op.what = "readOnly" THEN {op.path} ELSE {})
    BY <1>2, <1>3, <1>4, <1>5 DEF LockedByNow
  <2>3. \A p \in there' : IsUnder(p, HiddenByNow' \ HiddenByNow) => Dark(p)'
    BY <1>7, <2>1 DEF IsUnder
  <2>4. \A p \in there' : \A r \in Above[p] \cap (LockedByNow' \ LockedByNow) :
          mnt'[r] = "ro" \/ Dark(p)'
    BY <1>7, <2>2
  <2> QED
    BY <1>1, <1>6, <1>7, <2>3, <2>4, DoneKept
<1> QED
  BY <1>8, <1>9, <1>10, <1>11

LEMMA MountFailsKeepsInv == ShareAccessInv /\ MountFails => ShareAccessInv'
<1> SUFFICES ASSUME ShareAccessInv, MountFails PROVE ShareAccessInv'
  OBVIOUS
<1> USE DEF ShareAccessInv
<1>1. /\ pc = "mounts" /\ pc' = "failed" /\ sources' = sources /\ share' = share
      /\ asked' = asked /\ there' = there /\ left' = left /\ found' = found
      /\ ignored' = ignored /\ todo # <<>> /\ todo' = Tail(todo) /\ mnt' = mnt
  BY DEF MountFails, AfterMountError
<1>2. todo' \in Seq(Op)
  BY <1>1, PendingAfterMount
<1>3. Types'
  BY <1>1, <1>2 DEF Types, TypeOK
<1>4. GitActionOf' = GitActionOf
  BY <1>1, AskedStays
<1>5. WalkFits' /\ SourcesFit' /\ NearestSourceWins' /\ DoneStaysDone' /\ MountsAreAsked'
  BY <1>1, <1>4
     DEF WalkFits, SourcesFit, NearestSourceWins, DoneStaysDone, MountsAreAsked, Working
<1> QED
  BY <1>3, <1>5

LEMMA WalkForGitKeepsInv == ShareAccessInv /\ WalkForGit => ShareAccessInv'
<1> SUFFICES ASSUME ShareAccessInv, WalkForGit PROVE ShareAccessInv'
  OBVIOUS
<1> USE DEF ShareAccessInv
<1>1. /\ pc = "mounts" /\ pc' = "git" /\ sources' = sources /\ share' = share
      /\ asked' = asked /\ there' = there /\ left' = found' /\ todo = <<>> /\ todo' = todo
      /\ ignored' = ignored /\ mnt' = mnt
      /\ found' \subseteq Git /\ (GitActionOf = "None" => found' = {})
  BY DEF WalkForGit, StartWalk
<1>2. found = {} /\ left = {} /\ ignored = {} /\ GitHidden = {} /\ GitReadOnly = {}
  BY <1>1 DEF WalkFits, Types, TypeOK, GitHidden, GitReadOnly
<1>3. GitActionOf \in GitAction
  <2>1. share \in Setting
    BY <1>1, ShareAccessAssumption DEF Types
  <2>2. share.git \in GitAction \cup {"default"} /\ asked.git \in GitAction
    BY <2>1 DEF Setting, Types, TypeOK
  <2> QED
    BY <2>2 DEF GitActionOf
<1>4. AskedHidden' = AskedHidden /\ AskedReadOnly' = AskedReadOnly /\ GitActionOf' = GitActionOf
  BY <1>1, AskedStays
<1>5. \A w : Pending(w)' = Pending(w)
  BY <1>1, PendingStays
<1>6. Types'
  BY <1>1, <1>2, ShareAccessAssumption DEF Types, TypeOK
<1>7. WalkFits' /\ SourcesFit' /\ NearestSourceWins'
  BY <1>1, <1>2, <1>3, <1>4 DEF WalkFits, SourcesFit, NearestSourceWins, GitAction
<1>8. MountsAreAsked'
  BY <1>1, <1>2, <1>4, <1>5 DEF MountsAreAsked, Working
<1>9. HiddenByNow' = HiddenByNow /\ LockedByNow' = LockedByNow
  BY <1>1, <1>2, <1>4, <1>5 DEF HiddenByNow, LockedByNow, GitHidden, GitReadOnly
<1>10. DoneStaysDone'
  BY <1>1, <1>9 DEF DoneStaysDone, Working, IsUnder, Dark
<1> QED
  BY <1>6, <1>7, <1>8, <1>10

LEMMA MountGitKeepsInv ==
  ASSUME ShareAccessInv, NEW g \in Path, MountGit(g) PROVE ShareAccessInv'
<1> USE DEF ShareAccessInv
<1>1. /\ pc = "git" /\ pc' = pc /\ sources' = sources /\ share' = share /\ asked' = asked
      /\ there' = there /\ todo' = todo /\ found' = found /\ ignored' = ignored
      /\ g \in left /\ left' = left \ {g} /\ mnt' = GitMounted(g)
  BY DEF MountGit, NextGit
<1>2. GitActionOf \in {"ReadOnly", "Hide"} /\ g \in found \ ignored
  BY <1>1 DEF WalkFits, Types, TypeOK
<1>3. AskedHidden' = AskedHidden /\ AskedReadOnly' = AskedReadOnly /\ GitActionOf' = GitActionOf
  BY <1>1, AskedStays
<1>4. \A w : Pending(w)' = Pending(w)
  BY <1>1, PendingStays
<1>5. GitHidden' = GitHidden /\ GitReadOnly' = GitReadOnly
  BY <1>1, <1>3 DEF GitHidden, GitReadOnly
<1>6. MountTypes /\ there \subseteq Path /\ Working
  BY <1>1 DEF MountTypes, Types, TypeOK, MountsAreAsked, Working
<1>7. /\ MountTypes' /\ DarkStays
      /\ NewOnly(GitHidden \cap {g}, GitReadOnly \cap {g})
      /\ \A p \in there' : g \in Above[p] /\ g \in GitHidden => Dark(p)'
      /\ \A p \in there' : g \in Above[p] /\ g \in GitReadOnly => (mnt'[g] = "ro" \/ Dark(p)')
  <2>1. CASE GitActionOf = "Hide"
    <3>1. mnt' = Covered(g) /\ g \in GitHidden /\ GitReadOnly = {}
      BY <1>1, <1>2, <2>1 DEF GitMounted, GitHidden, GitReadOnly
    <3>2. /\ MountTypes' /\ DarkStays /\ NewOnly({g}, {})
          /\ \A p \in there' : g \in Above[p] => Dark(p)'
      BY <1>1, <1>6, <3>1, CoverKeeps
    <3> QED
      BY <3>1, <3>2 DEF NewOnly
  <2>2. CASE GitActionOf = "ReadOnly"
    <3>1. mnt' = BoundReadOnly(g) /\ g \in GitReadOnly /\ GitHidden = {}
      BY <1>1, <1>2, <2>2 DEF GitMounted, GitHidden, GitReadOnly
    <3>2. /\ MountTypes' /\ DarkStays /\ NewOnly({}, {g})
          /\ \A p \in there' : g \in Above[p] => (mnt'[g] = "ro" \/ Dark(p)')
      BY <1>1, <1>6, <3>1, BindKeeps
    <3> QED
      BY <3>1, <3>2 DEF NewOnly
  <2> QED
    BY <1>2, <2>1, <2>2
<1>8. Types'
  BY <1>1, <1>7 DEF Types, TypeOK, MountTypes
<1>9. WalkFits' /\ SourcesFit' /\ NearestSourceWins'
  BY <1>1, <1>3 DEF WalkFits, SourcesFit, NearestSourceWins
<1>10. MountsAreAsked'
  <2>1. \A q \in Path : mnt'[q] = "void" => q \in AskedHidden' \cup (GitHidden' \ left')
    BY <1>1, <1>3, <1>5, <1>6, <1>7 DEF NewOnly, MountsAreAsked
  <2>2. \A q \in Path : mnt'[q] = "ro" => q \in AskedReadOnly' \cup (GitReadOnly' \ left')
    BY <1>1, <1>3, <1>5, <1>6, <1>7 DEF NewOnly, MountsAreAsked
  <2>3. \A q \in Path : mnt'[q] = "rw" => q \in Foreign \cup {Root}
    BY <1>7 DEF NewOnly, MountsAreAsked
  <2>4. Pending("hide")' \subseteq AskedHidden' /\ Pending("readOnly")' \subseteq AskedReadOnly'
    BY <1>3, <1>4, <1>6 DEF MountsAreAsked
  <2> QED
    BY <1>1, <1>7, <2>1, <2>2, <2>3, <2>4 DEF MountsAreAsked, MountTypes
<1>11. DoneStaysDone'
  <2>1. HiddenByNow' \ HiddenByNow \subseteq GitHidden \cap {g}
    BY <1>1, <1>3, <1>4, <1>5 DEF HiddenByNow
  <2>2. LockedByNow' \ LockedByNow \subseteq GitReadOnly \cap {g}
    BY <1>1, <1>3, <1>4, <1>5 DEF LockedByNow
  <2>3. \A p \in there' : IsUnder(p, HiddenByNow' \ HiddenByNow) => Dark(p)'
    BY <1>7, <2>1 DEF IsUnder
  <2>4. \A p \in there' : \A r \in Above[p] \cap (LockedByNow' \ LockedByNow) :
          mnt'[r] = "ro" \/ Dark(p)'
    BY <1>7, <2>2
  <2> QED
    BY <1>1, <1>6, <1>7, <2>3, <2>4, DoneKept
<1> QED
  BY <1>8, <1>9, <1>10, <1>11

LEMMA MountGitFailsKeepsInv ==
  ASSUME ShareAccessInv, NEW g \in Path, MountGitFails(g) PROVE ShareAccessInv'
<1> USE DEF ShareAccessInv
<1>1. /\ pc = "git" /\ pc' = pc /\ sources' = sources /\ share' = share /\ asked' = asked
      /\ there' = there /\ todo' = todo /\ found' = found /\ ignored' = ignored \cup {g}
      /\ g \in left /\ left' = left \ {g} /\ mnt' = mnt
  BY DEF MountGitFails, NextGit
<1>2. AskedHidden' = AskedHidden /\ AskedReadOnly' = AskedReadOnly /\ GitActionOf' = GitActionOf
  BY <1>1, AskedStays
<1>3. \A w : Pending(w)' = Pending(w)
  BY <1>1, PendingStays
<1>4. Types'
  BY <1>1 DEF Types, TypeOK
<1>5. WalkFits' /\ SourcesFit' /\ NearestSourceWins'
  BY <1>1, <1>2 DEF WalkFits, SourcesFit, NearestSourceWins
<1>6. GitHidden' \ left' = GitHidden \ left /\ GitReadOnly' \ left' = GitReadOnly \ left
  BY <1>1, <1>2 DEF GitHidden, GitReadOnly
<1>7. MountsAreAsked'
  BY <1>1, <1>2, <1>3, <1>6 DEF MountsAreAsked, Working
<1>8. HiddenByNow' = HiddenByNow /\ LockedByNow' = LockedByNow
  BY <1>2, <1>3, <1>6 DEF HiddenByNow, LockedByNow
<1>9. DoneStaysDone'
  BY <1>1, <1>8 DEF DoneStaysDone, Working, IsUnder, Dark
<1> QED
  BY <1>4, <1>5, <1>7, <1>9

LEMMA ServeKeepsInv == ShareAccessInv /\ Serve => ShareAccessInv'
<1> SUFFICES ASSUME ShareAccessInv, Serve PROVE ShareAccessInv'
  OBVIOUS
<1> USE DEF ShareAccessInv
<1>1. /\ pc = "git" /\ pc' = "serving" /\ sources' = sources /\ share' = share
      /\ asked' = asked /\ there' = there /\ todo' = todo /\ found' = found
      /\ ignored' = ignored /\ left' = left /\ left = {} /\ mnt' = mnt
  BY DEF Serve
<1>2. AskedHidden' = AskedHidden /\ AskedReadOnly' = AskedReadOnly /\ GitActionOf' = GitActionOf
  BY <1>1, AskedStays
<1>3. \A w : Pending(w)' = Pending(w)
  BY <1>1, PendingStays
<1>4. GitHidden' = GitHidden /\ GitReadOnly' = GitReadOnly
  BY <1>1, <1>2 DEF GitHidden, GitReadOnly
<1>5. Types' /\ WalkFits' /\ SourcesFit' /\ NearestSourceWins'
  BY <1>1, <1>2 DEF Types, TypeOK, WalkFits, SourcesFit, NearestSourceWins
<1>6. MountsAreAsked'
  BY <1>1, <1>2, <1>3, <1>4 DEF MountsAreAsked, Working
<1>7. HiddenByNow' = HiddenByNow /\ LockedByNow' = LockedByNow
  BY <1>1, <1>2, <1>3, <1>4 DEF HiddenByNow, LockedByNow
<1>8. DoneStaysDone'
  BY <1>1, <1>7 DEF DoneStaysDone, Working, IsUnder, Dark
<1> QED
  BY <1>5, <1>6, <1>8

LEMMA VanishKeepsInv ==
  ASSUME ShareAccessInv, NEW x \in Path, Vanish(x) PROVE ShareAccessInv'
<1> USE DEF ShareAccessInv
<1>1. /\ pc' = pc /\ sources' = sources /\ share' = share /\ asked' = asked
      /\ todo' = todo /\ found' = found /\ ignored' = ignored /\ left' = left
      /\ pc \in {"spawn", "mounts", "git"}
  BY DEF Vanish
<1>2. MountTypes /\ there \subseteq Path
  BY DEF MountTypes, Types, TypeOK, MountsAreAsked
<1>3. MountTypes' /\ DarkStays /\ NewOnly({}, {}) /\ there' \subseteq there
  BY <1>2, VanishKeeps
<1>4. AskedHidden' = AskedHidden /\ AskedReadOnly' = AskedReadOnly /\ GitActionOf' = GitActionOf
  BY <1>1, AskedStays
<1>5. \A w : Pending(w)' = Pending(w)
  BY <1>1, PendingStays
<1>6. GitHidden' = GitHidden /\ GitReadOnly' = GitReadOnly
  BY <1>1, <1>4 DEF GitHidden, GitReadOnly
<1>7. Types'
  BY <1>1, <1>2, <1>3 DEF Types, TypeOK, MountTypes
<1>8. WalkFits' /\ SourcesFit' /\ NearestSourceWins'
  BY <1>1, <1>4 DEF WalkFits, SourcesFit, NearestSourceWins
<1>9. MountsAreAsked'
  <2>1. mnt'[Root] # "none" /\ (\A q \in Path : mnt'[q] = "rw" => q \in Foreign \cup {Root})
    BY <1>3 DEF MountTypes, NewOnly, MountsAreAsked
  <2>2. pc \in {"merge", "noShare", "spawn"} => \A q \in Path : mnt'[q] \in {"none", "rw"}
    BY <1>3 DEF NewOnly, MountTypes, MountsAreAsked
  <2>3. Working => \A q \in Path : mnt'[q] = "void" => q \in AskedHidden \cup (GitHidden \ left)
    BY <1>3 DEF NewOnly, MountsAreAsked
  <2>4. Working => \A q \in Path : mnt'[q] = "ro" => q \in AskedReadOnly \cup (GitReadOnly \ left)
    BY <1>3 DEF NewOnly, MountsAreAsked
  <2>5. Working => /\ Pending("hide") \subseteq AskedHidden
                   /\ Pending("readOnly") \subseteq AskedReadOnly
    BY DEF MountsAreAsked
  <2>6. Working' => Working
    BY <1>1 DEF Working
  <2> QED
    BY <1>1, <1>4, <1>5, <1>6, <2>1, <2>2, <2>3, <2>4, <2>5, <2>6 DEF MountsAreAsked
<1>10. DoneStaysDone'
  <2>1. HiddenByNow' = HiddenByNow /\ LockedByNow' = LockedByNow
    BY <1>1, <1>4, <1>5, <1>6 DEF HiddenByNow, LockedByNow
  <2>2. CASE Working
    BY <1>2, <1>3, <2>1, <2>2, DoneKept DEF IsUnder
  <2>3. CASE ~Working
    BY <1>1, <2>3 DEF DoneStaysDone, Working
  <2> QED
    BY <2>2, <2>3
<1> QED
  BY <1>7, <1>8, <1>9, <1>10

LEMMA StutterKeepsInv == ShareAccessInv /\ UNCHANGED vars => ShareAccessInv'
<1> SUFFICES ASSUME ShareAccessInv, UNCHANGED vars PROVE ShareAccessInv'
  OBVIOUS
<1> USE DEF ShareAccessInv
<1>1. /\ pc' = pc /\ sources' = sources /\ share' = share /\ asked' = asked
      /\ there' = there /\ todo' = todo /\ found' = found /\ ignored' = ignored
      /\ left' = left /\ mnt' = mnt
  BY DEF vars
<1>2. AskedHidden' = AskedHidden /\ AskedReadOnly' = AskedReadOnly /\ GitActionOf' = GitActionOf
  BY <1>1, AskedStays
<1>3. \A w : Pending(w)' = Pending(w)
  BY <1>1, PendingStays
<1>4. GitHidden' = GitHidden /\ GitReadOnly' = GitReadOnly
  BY <1>1, <1>2 DEF GitHidden, GitReadOnly
<1>5. Types' /\ WalkFits' /\ SourcesFit' /\ NearestSourceWins'
  BY <1>1, <1>2 DEF Types, TypeOK, WalkFits, SourcesFit, NearestSourceWins
<1>6. MountsAreAsked'
  BY <1>1, <1>2, <1>3, <1>4 DEF MountsAreAsked, Working
<1>7. HiddenByNow' = HiddenByNow /\ LockedByNow' = LockedByNow
  BY <1>1, <1>2, <1>3, <1>4 DEF HiddenByNow, LockedByNow
<1>8. DoneStaysDone'
  BY <1>1, <1>7 DEF DoneStaysDone, Working, IsUnder, Dark
<1> QED
  BY <1>5, <1>6, <1>8

(* What the mounts are like between two steps: the inductive invariant that  *)
(* the properties of ShareAccess follow from.                                *)
THEOREM ShareAccessInvariant == Spec => []ShareAccessInv
<1>1. ShareAccessInv /\ [Next]_vars => ShareAccessInv'
  <2> SUFFICES ASSUME ShareAccessInv, [Next]_vars PROVE ShareAccessInv'
    OBVIOUS
  <2>1. CASE Merge
    BY <2>1, MergeKeepsInv
  <2>2. CASE Spawn
    BY <2>2, SpawnKeepsInv
  <2>3. CASE DoMount
    BY <2>3, DoMountKeepsInv
  <2>4. CASE MountFails
    BY <2>4, MountFailsKeepsInv
  <2>5. CASE WalkForGit
    BY <2>5, WalkForGitKeepsInv
  <2>6. CASE Serve
    BY <2>6, ServeKeepsInv
  <2>7. ASSUME NEW p \in Path, MountGit(p) \/ MountGitFails(p) \/ Vanish(p)
        PROVE  ShareAccessInv'
    BY <2>7, MountGitKeepsInv, MountGitFailsKeepsInv, VanishKeepsInv
  <2>8. CASE UNCHANGED vars
    BY <2>8, StutterKeepsInv
  <2> QED
    BY <2>1, <2>2, <2>3, <2>4, <2>5, <2>6, <2>7, <2>8 DEF Next
<1> QED
  BY InitInv, <1>1, PTL DEF Spec

(* Every variable has its type, and the walk reaches only what it has found. *)
THEOREM ShareAccessTypes == Spec => []TypeOK
<1>1. ShareAccessInv => TypeOK
  BY DEF ShareAccessInv, Types
<1> QED
  BY <1>1, ShareAccessInvariant, PTL

(* The settings in force are those of the nearest source (merge_by_name,     *)
(* parse_config_with and resolve_shares), however many sources name the share.*)
THEOREM NearestSettings == Spec => []NearestSourceWins
<1>1. ShareAccessInv => NearestSourceWins
  BY DEF ShareAccessInv
<1> QED
  BY <1>1, ShareAccessInvariant, PTL

(* When virtiofsd serves, the whole list has been worked off.                *)
LEMMA AllIsDone ==
  ASSUME ShareAccessInv, pc = "serving"
  PROVE  /\ HiddenByNow = AskedHidden \cup GitHidden
         /\ LockedByNow = AskedReadOnly \cup GitReadOnly
         /\ left = {}
<1>1. todo = <<>> /\ left = {}
  BY DEF ShareAccessInv, Types, TypeOK, WalkFits
<1>2. \A w : Pending(w) = {}
  BY <1>1, EmptySeq DEF Pending, Elements
<1> QED
  BY <1>1, <1>2 DEF HiddenByNow, LockedByNow

LEMMA SeenFromInv == ShareAccessInv => SeenUnlessHidden
<1> SUFFICES ASSUME ShareAccessInv, pc = "serving", NEW p \in there
             PROVE  SeesContent(p) <=> ~IsUnder(p, AskedHidden \cup GitHidden)
  BY DEF SeenUnlessHidden
<1>1. HiddenByNow = AskedHidden \cup GitHidden /\ left = {}
  BY AllIsDone
<1>2. p \in Path /\ Working
  BY DEF ShareAccessInv, Types, TypeOK, Working
<1>3. IsUnder(p, AskedHidden \cup GitHidden) => Dark(p)
  BY <1>1, <1>2 DEF ShareAccessInv, DoneStaysDone
<1>4. ASSUME NEW q \in Above[p], mnt[q] = "void" PROVE q \in AskedHidden \cup GitHidden
  BY <1>1, <1>2, <1>4, AbovePaths DEF ShareAccessInv, MountsAreAsked
<1>5. Dark(p) => IsUnder(p, AskedHidden \cup GitHidden)
  BY <1>4 DEF Dark, IsUnder
<1> QED
  BY <1>3, <1>5 DEF SeesContent, Dark

(* A share that is served shows what is not hidden and nothing else: the     *)
(* hook (isolate_share, lookup_git_dirs_and_apply_action) works its whole    *)
(* list off or virtiofsd is not executed, and no later mount undoes an       *)
(* earlier one, for every tree and every list.                               *)
THEOREM ShowsWhatIsNotHidden == Spec => []SeenUnlessHidden
<1> QED
  BY ShareAccessInvariant, SeenFromInv, PTL

(* The mount a visible path lives on.                                        *)
LEMMA NearestMount ==
  ASSUME ShareAccessInv, pc = "serving", NEW p \in there, SeesContent(p)
  PROVE  \E m \in Above[p] : /\ mnt[m] \in {"rw", "ro"}
                             /\ \A q \in Above[p] : mnt[q] # "none" => q \in Above[m]
<1>1. p \in Path /\ mnt \in [Path -> {"none", "rw", "ro", "void"}] /\ mnt[Root] # "none"
  BY DEF ShareAccessInv, Types, TypeOK, MountsAreAsked
<1> DEFINE S == {q \in Above[p] : mnt[q] # "none"}
<1>2. S \in SUBSET Above[p] /\ S # {}
  BY <1>1, ShareAccessAssumption
<1> HIDE DEF S
<1>3. PICK m \in S : S \subseteq Above[m]
  BY <1>1, <1>2, TreeAssumption
<1> USE DEF S
<1>4. m \in Path /\ mnt[m] # "void"
  BY <1>1, <1>3, AbovePaths DEF SeesContent
<1> QED
  BY <1>1, <1>3, <1>4

LEMMA WrittenFromInv == ShareAccessInv => WrittenUnlessReadOnly
<1> DEFINE locked == AskedReadOnly \cup GitReadOnly
<1> SUFFICES ASSUME ShareAccessInv, pc = "serving", NEW p \in there, SeesContent(p)
             PROVE  /\ Writes(p) => \/ ~IsUnder(p, locked)
                                    \/ ~share.readOnly /\ OnlyAcrossForeign(p, locked)
                    /\ ~IsUnder(p, locked) => Writes(p)
  BY DEF WrittenUnlessReadOnly
<1>1. LockedByNow = locked /\ left = {}
  BY AllIsDone
<1>a. locked = AskedReadOnly \cup GitReadOnly
  OBVIOUS
<1> HIDE DEF locked
<1>2. p \in Path /\ Working /\ mnt \in [Path -> {"none", "rw", "ro", "void"}]
  BY DEF ShareAccessInv, Types, TypeOK, Working
<1>3. PICK m \in Above[p] : /\ mnt[m] \in {"rw", "ro"}
                            /\ \A q \in Above[p] : mnt[q] # "none" => q \in Above[m]
  BY NearestMount
<1>4. ASSUME ~IsUnder(p, locked) PROVE Writes(p)
  <2>1. m \in Path /\ m \notin locked
    BY <1>2, <1>3, <1>4, AbovePaths DEF IsUnder
  <2>2. mnt[m] = "rw"
    BY <1>1, <1>a, <1>3, <2>1 DEF ShareAccessInv, MountsAreAsked, Working
  <2>3. Root \in Above[p]
    BY <1>2, ShareAccessAssumption
  <2>4. ~share.readOnly
    BY <1>4, <1>a, <2>3 DEF AskedReadOnly, IsUnder
  <2> QED
    BY <1>3, <2>2, <2>4 DEF Writes
<1>5. ASSUME Writes(p), IsUnder(p, locked)
      PROVE  ~share.readOnly /\ OnlyAcrossForeign(p, locked)
  <2>1. ~share.readOnly
    BY <1>5 DEF Writes
  <2>2. PICK n \in Above[p] : /\ mnt[n] = "rw"
                              /\ \A q \in Above[p] : mnt[q] # "none" => q \in Above[n]
    BY <1>5 DEF Writes
  <2>3. ASSUME NEW r \in Above[p] \cap locked
        PROVE  \E f \in Above[p] \cap Foreign : r \in Above[f] \ {f}
    <3>1. mnt[r] = "ro"
      BY <1>1, <1>2, <2>3 DEF ShareAccessInv, DoneStaysDone, SeesContent, Dark
    <3>2. r \in Above[n] /\ r # n
      BY <2>2, <3>1
    <3>3. n \in Path /\ r \in Path
      BY <1>2, AbovePaths
    <3>4. n # Root
      BY <3>2, AboveRoot
    <3>5. n \in Foreign
      BY <2>2, <3>3, <3>4 DEF ShareAccessInv, MountsAreAsked
    <3> QED
      BY <3>2, <3>5
  <2> QED
    BY <2>1, <2>3 DEF OnlyAcrossForeign
<1> QED
  BY <1>4, <1>5

(* What is seen can be written unless it is to be read-only: mount_read_only *)
(* reaches everything below but another file system, hide_dir and hide_file  *)
(* undo no read-only mount, and what was not asked for is left writable.     *)
THEOREM WritesWhatIsNotReadOnly == Spec => []WrittenUnlessReadOnly
<1> QED
  BY ShareAccessInvariant, WrittenFromInv, PTL

===============================================================================
