---------------------------- MODULE Traffic_proofs ----------------------------
(***************************************************************************)
(* First the safety properties of Network, over any number of runs of the  *)
(* name that follow each other, each with its strengthening, a named       *)
(* conjunct of NetworkInv.  Then those of Firewall and Traffic: for every  *)
(* configuration, every answer of the resolver and every packet, the first *)
(* match over the rules of build_ruleset is the documented policy; and no  *)
(* restricted guest ever exchanges a packet the policy forbids.            *)
(***************************************************************************)
EXTENDS Traffic, FiniteSetTheorems, WellFoundedInduction, TLAPS

(* Between its spawn and the drop pasta is a process to wait for, and only a  *)
(* death takes a run out of the sequence.                                     *)
HelpersBelong ==
  /\ TypeOK
  /\ pc = "waitPid" => pasta # "none"
  /\ pc = "crashed" => crashed

(* passt executes with its firewall in place, and a run that is up has seen   *)
(* passt listen; namespaces keep their rules when passt is gone.              *)
FilteredFromExec ==
  /\ passt \in {"running", "listening"} /\ mode = "Restricted" => firewall
  /\ pc = "up" => passt \in {"listening", "gone"}
  /\ UpIsFiltered

(* Without a death, the pid file stands for this run's configured namespaces, *)
(* and whoever got past the wait for it has them.                             *)
PidFileMeansConfigured ==
  ~crashed =>
    /\ pidFile \/ pc \in {"exec", "execResult", "waitSocket", "up"} => configured
    /\ passt \in {"hook", "running", "listening"} => configured

(* Without a death, a file has the process that made it or its unreaped end.  *)
FilesBelong ==
  ~crashed => /\ pidFile => pasta # "none"
              /\ socket => passt # "none"

NetworkInv ==
  HelpersBelong /\ FilteredFromExec /\ PidFileMeansConfigured /\ FilesBelong

-------------------------------------------------------------------------------
(* No helper and no file at the start.                                       *)
LEMMA NetworkInitInv == Init => NetworkInv
BY DEF Init, NetworkInv, HelpersBelong, TypeOK, Step, PasstState, PastaState,
       FilteredFromExec, UpIsFiltered, PidFileMeansConfigured, FilesBelong

(* create, from a run's beginning to the point where it has a network.        *)
LEMMA CreateKeepsInv ==
  ASSUME NetworkInv,
         \/ Begin \/ NewPasst \/ NewPasta \/ PidFileAppears \/ PastaHasExited
         \/ PidFileTimesOut \/ SendContinue \/ ExecReturns
  PROVE  NetworkInv'
<1> USE DEF NetworkInv, HelpersBelong, TypeOK, Step, PasstState, PastaState,
            FilteredFromExec, UpIsFiltered, PidFileMeansConfigured, FilesBelong, world
<1>1. CASE Begin
  BY <1>1 DEF Begin
<1>2. CASE NewPasst
  BY <1>2 DEF NewPasst
<1>3. CASE NewPasta
  BY <1>3 DEF NewPasta, AfterPastaSpawn
<1>4. CASE PidFileAppears
  BY <1>4 DEF PidFileAppears, Goto
<1>5. CASE PastaHasExited \/ PidFileTimesOut
  BY <1>5 DEF PastaHasExited, PidFileTimesOut, Goto
<1>6. CASE SendContinue
  BY <1>6 DEF SendContinue
<1>7. CASE ExecReturns
  BY <1>7 DEF ExecReturns, AfterExec, Goto
<1> QED
  BY <1>1, <1>2, <1>3, <1>4, <1>5, <1>6, <1>7

(* The wait for passt's socket, and the end of the network.                   *)
LEMMA EndKeepsInv ==
  ASSUME NetworkInv,
         \/ SocketConnects \/ PasstHasExited \/ SocketTimesOut \/ Finish
         \/ DropPasst \/ DropPasta \/ DropDone
  PROVE  NetworkInv'
<1> USE DEF NetworkInv, HelpersBelong, TypeOK, Step, PasstState, PastaState,
            FilteredFromExec, UpIsFiltered, PidFileMeansConfigured, FilesBelong, world
<1>1. CASE SocketConnects
  BY <1>1 DEF SocketConnects, Goto
<1>2. CASE PasstHasExited \/ SocketTimesOut \/ Finish
  BY <1>2 DEF PasstHasExited, SocketTimesOut, Finish, Goto
<1>3. CASE DropPasst
  BY <1>3 DEF DropPasst
<1>4. CASE DropPasta
  BY <1>4 DEF DropPasta, PidFileAfterDrop
<1>5. CASE DropDone
  BY <1>5 DEF DropDone, BothDropped, Goto
<1> QED
  BY <1>1, <1>2, <1>3, <1>4, <1>5

(* What the two helpers do, and the death of a run.                           *)
LEMMA HelpersKeepInv ==
  ASSUME NetworkInv, HelperStep \/ Crash \/ KilledWithParent
  PROVE  NetworkInv'
<1> USE DEF NetworkInv, HelpersBelong, TypeOK, Step, PasstState, PastaState,
            FilteredFromExec, UpIsFiltered, PidFileMeansConfigured, FilesBelong, world
<1>1. CASE PasstGivesUp \/ PasstExits
  BY <1>1 DEF PasstGivesUp, PasstExits
<1>2. CASE HookAndExec
  BY <1>2 DEF HookAndExec
<1>3. CASE HookOrExecFails
  BY <1>3, ZenonT(60) DEF HookOrExecFails
<1>4. CASE PasstListens
  BY <1>4 DEF PasstListens
<1>5. CASE PastaAttaches
  BY <1>5 DEF PastaAttaches
<1>6. CASE PastaExits
  BY <1>6 DEF PastaExits
<1>7. CASE Crash
  BY <1>7 DEF Crash
<1>8. CASE KilledWithParent
  BY <1>8 DEF KilledWithParent
<1> QED
  BY <1>1, <1>2, <1>3, <1>4, <1>5, <1>6, <1>7, <1>8 DEF HelperStep

(* Every step, by the lemma of its part.                                     *)
LEMMA NetworkNextInv == NetworkInv /\ [Next]_vars => NetworkInv'
<1> SUFFICES ASSUME NetworkInv, [Next]_vars PROVE NetworkInv'
  OBVIOUS
<1>1. CASE UNCHANGED vars
  BY <1>1 DEF vars, NetworkInv, HelpersBelong, TypeOK, FilteredFromExec,
              UpIsFiltered, PidFileMeansConfigured, FilesBelong
<1>2. CASE Next
  BY <1>2, CreateKeepsInv, EndKeepsInv, HelpersKeepInv DEF Next, RunStep
<1> QED
  BY <1>1, <1>2

(* The inductive invariant holds of every state.                             *)
LEMMA NetworkInvariant == Spec => []NetworkInv
BY NetworkInitInv, NetworkNextInv, PTL DEF Spec

-------------------------------------------------------------------------------
(* Type correctness, and no helper outside a run.                             *)
THEOREM NetworkTypeCorrect == Spec => []TypeOK
<1>1. NetworkInv => TypeOK
  BY DEF NetworkInv, HelpersBelong
<1> QED
  BY <1>1, NetworkInvariant, PTL

(* A restricted network is up only behind its firewall, although exec takes a *)
(* hook that is still at work for one that has succeeded.                     *)
THEOREM UpMeansFiltered == Spec => []UpIsFiltered
<1>1. NetworkInv => UpIsFiltered
  BY DEF NetworkInv, FilteredFromExec
<1> QED
  BY <1>1, NetworkInvariant, PTL

(* As long as no run has died, passt goes on only in namespaces that pasta    *)
(* has configured.                                                            *)
THEOREM PastaGoesFirst == Spec => []PastaFirstUnlessStale
<1>1. NetworkInv => PastaFirstUnlessStale
  BY DEF NetworkInv, PidFileMeansConfigured, PastaFirstUnlessStale
<1> QED
  BY <1>1, NetworkInvariant, PTL

(* However a run ends short of a death, both helpers and their files are gone.*)
THEOREM NetworkCleansUp == Spec => []LeavesNothing
<1>1. NetworkInv => LeavesNothing
  BY DEF NetworkInv, HelpersBelong, TypeOK, FilesBelong, LeavesNothing
<1> QED
  BY <1>1, NetworkInvariant, PTL

-------------------------------------------------------------------------------
(* The rules and the packets                                                 *)

(* The list that sort and dedup make of a finite set has all of it: as an     *)
(* injection from as many indices as the set has elements it is onto.         *)
LEMMA ListHasAll ==
  ASSUME NEW S, IsFiniteSet(S)
  PROVE  /\ Cardinality(S) \in Nat
         /\ SetToSeq(S) \in [1 .. Cardinality(S) -> S]
         /\ \A x \in S : \E i \in 1 .. Cardinality(S) : SetToSeq(S)[i] = x
<1> DEFINE n == Cardinality(S)
<1> DEFINE f == SetToSeq(S)
<1>1. n \in Nat
  BY FS_CardinalityType
<1>2. PICK m \in Nat : ExistsBijection(1 .. m, S)
  BY FS_NatBijection
<1>3. n = m
  BY <1>2, FS_CountingElements
<1>4. \E g \in [1 .. n -> S] : IsInjective(g)
  BY <1>2, <1>3 DEF ExistsBijection, Bijection, Injection, IsInjective
<1>5. f \in [1 .. n -> S] /\ IsInjective(f)
  BY <1>4 DEF SetToSeq
<1> DEFINE T == {f[i] : i \in 1 .. n}
<1>6. f \in Bijection(1 .. n, T)
  BY <1>5 DEF Bijection, Injection, Surjection, IsInjective
<1>7. Cardinality(T) = n
  BY <1>1, <1>6, FS_CountingElements DEF ExistsBijection
<1>8. T \in SUBSET S
  BY <1>5
<1>9. T = S
  BY <1>7, <1>8, FS_Subset
<1> HIDE DEF f
<1>10. \A x \in S : \E i \in 1 .. n : f[i] = x
  BY <1>9
<1> QED
  BY <1>1, <1>5, <1>10 DEF f

(* A chain that has a matching rule has a first one.                          *)
LEMMA FirstMatchExists ==
  ASSUME NEW chain, NEW n \in Nat, DOMAIN chain = 1 .. n, NEW packet,
         NEW k \in 1 .. n, Matches(chain[k], packet)
  PROVE  \E i \in 1 .. k : Decides(chain, i, packet)
<1> DEFINE M == {i \in 1 .. k : Matches(chain[i], packet)}
<1>1. M \subseteq Nat /\ M # {}
  OBVIOUS
<1>2. PICK i \in M : \A j \in M : <<j, i>> \notin OpToRel(<, Nat)
  <2> HIDE DEF M
  <2> QED
    BY <1>1, NatLessThanWellFounded, WFMin
<1>3. \A j \in M : ~(j < i)
  BY <1>1, <1>2 DEF OpToRel
<1>4. i \in 1 .. k /\ Matches(chain[i], packet)
  OBVIOUS
<1>5. \A j \in 1 .. i - 1 : ~Matches(chain[j], packet)
  BY <1>3, <1>4
<1>6. Decides(chain, i, packet)
  <2> HIDE DEF M
  <2> QED
    BY <1>4, <1>5 DEF Decides
<1> QED
  BY <1>4, <1>6

-------------------------------------------------------------------------------
(* What each kind of rule matches.                                            *)
LEMMA LoRuleMatches ==
  ASSUME NEW packet
  PROVE  Matches(DropLo, packet) <=> packet.dst \in ViaLo
BY DEF Matches, DropLo, FamilyOfAddr

(* The port of an allowance, where it has one, and its network.               *)
IsAllowance(a) ==
  /\ a \in (SUBSET Addr) \X (Port \cup {AnyPort})
  /\ OneFamily(a[1])

Permits(allow, packet) ==
  \E a \in allow : packet.dst \in a[1] /\ a[2] \in {AnyPort, packet.port}

LEMMA AcceptRuleMatches ==
  ASSUME NEW a, IsAllowance(a), NEW packet \in Packet
  PROVE  Matches(Accept(a), packet)
           <=> packet.dst \in a[1] /\ a[2] \in {AnyPort, packet.port}
<1>1. packet.dst \in a[1] => FamilyOf(a[1]) = FamilyOfAddr(packet.dst)
  BY DEF IsAllowance, OneFamily, FamilyOf, FamilyOfAddr
<1>2. FamilyOf(a[1]) # "lo"
  BY DEF FamilyOf
<1> QED
  BY <1>1, <1>2 DEF Matches, Accept

LEMMA PrivateRulesMatch ==
  ASSUME NEW packet \in Packet
  PROVE  Matches(DropNets("ip", Blocked4), packet)
           \/ Matches(DropNets("ip6", Blocked6), packet)
         <=> Blocked(packet.dst)
<1>1. packet.dst \in Addr
  BY DEF Packet
<1>2. Matches(DropNets("ip", Blocked4), packet)
        <=> packet.dst \in V4 /\ \E net \in Blocked4 : packet.dst \in net
  BY DEF Matches, DropNets, FamilyOfAddr
<1>3. Matches(DropNets("ip6", Blocked6), packet)
        <=> packet.dst \notin V4 /\ \E net \in Blocked6 : packet.dst \in net
  BY DEF Matches, DropNets, FamilyOfAddr
<1>4. \A net \in Blocked4 : net \subseteq V4
  BY FirewallAssumption
<1>5. \A net \in Blocked6 : net \subseteq Addr \ V4
  BY FirewallAssumption
<1> QED
  BY <1>1, <1>2, <1>3, <1>4, <1>5 DEF Blocked

(* The chain, rule by rule.                                                   *)
LEMMA ChainShape ==
  ASSUME NEW allow, IsFiniteSet(allow)
  PROVE  LET n == Cardinality(allow)
             c == OutputChain(allow)
         IN  /\ n \in Nat
             /\ DOMAIN c = 1 .. n + 3
             /\ c[1] = DropLo
             /\ \A i \in 1 .. n : c[i + 1] = Accept(SetToSeq(allow)[i])
             /\ c[n + 2] = DropNets("ip", Blocked4)
             /\ c[n + 3] = DropNets("ip6", Blocked6)
<1> DEFINE n == Cardinality(allow)
<1> DEFINE rules == AcceptRules(allow)
<1>1. n \in Nat
  BY ListHasAll
<1>2. rules = [i \in 1 .. n |-> Accept(SetToSeq(allow)[i])]
  BY DEF AcceptRules
<1>3. DOMAIN rules = 1 .. n /\ rules \in Seq({rules[i] : i \in 1 .. n}) /\ Len(rules) = n
  BY <1>1, <1>2
<1> HIDE DEF n, rules
<1> DEFINE c == <<DropLo>> \o rules \o DropPrivate
<1>4. DropPrivate = <<DropNets("ip", Blocked4), DropNets("ip6", Blocked6)>>
  BY DEF DropPrivate
<1> DEFINE Rule == {rules[i] : i \in 1 .. n} \cup {DropLo, DropPrivate[1], DropPrivate[2]}
<1>5. rules \in Seq(Rule) /\ <<DropLo>> \in Seq(Rule) /\ DropPrivate \in Seq(Rule)
  BY <1>1, <1>2, <1>3, <1>4
<1> HIDE DEF Rule
<1>6. /\ DOMAIN c = 1 .. n + 3
      /\ c[1] = DropLo
      /\ \A i \in 1 .. n : c[i + 1] = rules[i]
      /\ c[n + 2] = DropPrivate[1]
      /\ c[n + 3] = DropPrivate[2]
  BY <1>1, <1>3, <1>4, <1>5
<1>7. \A i \in 1 .. n : rules[i] = Accept(SetToSeq(allow)[i])
  BY <1>2
<1> QED
  BY <1>1, <1>4, <1>6, <1>7 DEF OutputChain, n, rules

(* First match over the chain: loopback is closed, what is allowed is open,   *)
(* the blocked ranges are closed otherwise, and the rest is open.             *)
THEOREM FirstMatchIsPolicy ==
  ASSUME NEW allow, IsFiniteSet(allow), \A a \in allow : IsAllowance(a),
         NEW packet \in Packet
  PROVE  LeavesBy(OutputChain(allow), "accept", packet)
           <=> /\ packet.dst \notin ViaLo
               /\ Permits(allow, packet) \/ ~Blocked(packet.dst)
<1> DEFINE n == Cardinality(allow)
<1> DEFINE c == OutputChain(allow)
<1> DEFINE list == SetToSeq(allow)
<1> DEFINE Hit(i) == Matches(c[i], packet)
<1>1. n \in Nat /\ list \in [1 .. n -> allow]
      /\ \A a \in allow : \E i \in 1 .. n : list[i] = a
  BY ListHasAll
<1>2. /\ DOMAIN c = 1 .. n + 3
      /\ c[1] = DropLo
      /\ \A i \in 1 .. n : c[i + 1] = Accept(list[i])
      /\ c[n + 2] = DropNets("ip", Blocked4)
      /\ c[n + 3] = DropNets("ip6", Blocked6)
  BY ChainShape
<1> HIDE DEF n, c, list
<1>3. Hit(1) <=> packet.dst \in ViaLo
  BY <1>2, LoRuleMatches
<1>4. \A i \in 1 .. n :
        Hit(i + 1) <=> /\ packet.dst \in list[i][1]
                       /\ list[i][2] \in {AnyPort, packet.port}
  BY <1>1, <1>2, AcceptRuleMatches
<1>5. Hit(n + 2) \/ Hit(n + 3) <=> Blocked(packet.dst)
  BY <1>2, PrivateRulesMatch
<1>6. (\E i \in 1 .. n : Hit(i + 1)) <=> Permits(allow, packet)
  BY <1>1, <1>4 DEF Permits
<1>7. /\ c[1].verdict = "drop" /\ c[n + 2].verdict = "drop" /\ c[n + 3].verdict = "drop"
      /\ \A i \in 1 .. n : c[i + 1].verdict = "accept"
  <2>1. /\ DropLo.verdict = "drop"
        /\ DropNets("ip", Blocked4).verdict = "drop"
        /\ DropNets("ip6", Blocked6).verdict = "drop"
    BY DEF DropLo, DropNets
  <2>2. \A a \in allow : Accept(a).verdict = "accept"
    BY DEF Accept
  <2>3. \A i \in 1 .. n : c[i + 1].verdict = "accept"
    <3>1. \A i \in 1 .. n : list[i] \in allow
      BY <1>1
    <3> QED
      BY <3>1, <2>2, <1>2
  <2> QED
    BY <2>1, <2>3, <1>2
<1> HIDE DEF Hit
<1>8. ASSUME NEW i, Decides(c, i, packet)
      PROVE  /\ i \in 1 .. n + 3 /\ Hit(i)
             /\ \A j \in 1 .. i - 1 : ~Hit(j)
  BY <1>2, <1>8 DEF Decides, Hit
<1>9. LeavesBy(c, "accept", packet)
        <=> \/ \E i \in 1 .. n + 3 : Decides(c, i, packet) /\ c[i].verdict = "accept"
            \/ \A i \in 1 .. n + 3 : ~Hit(i)
  BY <1>2 DEF LeavesBy, Hit
<1>10. CASE packet.dst \in ViaLo
  <2>1. Hit(1)
    BY <1>3, <1>10
  <2>2. ASSUME NEW i \in 1 .. n + 3, Decides(c, i, packet), c[i].verdict = "accept"
        PROVE  FALSE
    <3>1. i # 1
      BY <2>2, <1>7
    <3>2. 1 \in 1 .. i - 1
      BY <3>1, <1>1
    <3> QED
      BY <2>1, <2>2, <3>2, <1>8
  <2>3. 1 \in 1 .. n + 3
    BY <1>1
  <2> QED
    BY <2>1, <2>2, <2>3, <1>9, <1>10 DEF c
<1>11. CASE packet.dst \notin ViaLo /\ Permits(allow, packet)
  <2>1. PICK k \in 1 .. n : Hit(k + 1)
    BY <1>6, <1>11
  <2>2. n + 3 \in Nat /\ k + 1 \in 1 .. n + 3
    BY <1>1
  <2>3. PICK i \in 1 .. k + 1 : Decides(c, i, packet)
    BY <2>1, <2>2, <1>2, FirstMatchExists DEF Hit
  <2>4. i # 1
    BY <2>3, <1>8, <1>3, <1>11
  <2>5. i - 1 \in 1 .. n /\ (i - 1) + 1 = i /\ i \in 1 .. n + 3
    BY <2>4, <1>1
  <2>6. c[i].verdict = "accept"
    BY <2>5, <1>7
  <2> QED
    BY <2>3, <2>5, <2>6, <1>9, <1>11 DEF c
<1>12. CASE packet.dst \notin ViaLo /\ ~Permits(allow, packet)
  <2>1. ~Hit(1) /\ \A i \in 1 .. n : ~Hit(i + 1)
    BY <1>3, <1>6, <1>12
  <2>2. \A i \in 1 .. n + 1 : ~Hit(i)
    <3> TAKE i \in 1 .. n + 1
    <3>1. CASE i = 1
      BY <2>1, <3>1
    <3>2. CASE i # 1
      <4>1. i - 1 \in 1 .. n /\ (i - 1) + 1 = i
        BY <3>2, <1>1
      <4> QED
        BY <4>1, <2>1
    <3> QED
      BY <3>1, <3>2
  <2>3. ASSUME NEW i \in 1 .. n + 3, Decides(c, i, packet), c[i].verdict = "accept"
        PROVE  FALSE
    <3>1. Hit(i)
      BY <2>3, <1>8
    <3>2. i = n + 2 \/ i = n + 3
      BY <3>1, <2>2, <1>1
    <3> QED
      BY <3>2, <2>3, <1>7
  <2>4. (\A i \in 1 .. n + 3 : ~Hit(i)) <=> ~Blocked(packet.dst)
    <3>1. n + 2 \in 1 .. n + 3 /\ n + 3 \in 1 .. n + 3
      BY <1>1
    <3>2. \A i \in 1 .. n + 3 : i \in 1 .. n + 1 \/ i = n + 2 \/ i = n + 3
      BY <1>1
    <3> QED
      BY <3>1, <3>2, <2>2, <1>5
  <2> QED
    BY <2>3, <2>4, <1>9, <1>12 DEF c
<1> QED
  BY <1>10, <1>11, <1>12

(* The allowances of a configuration are allowances, finitely many.           *)
LEMMA AllowancesAreFinite ==
  ASSUME NEW dns \in SUBSET DnsEntry, NEW exceptions \in SUBSET Exception,
         NEW names \in [Host -> SUBSET Addr]
  PROVE  LET allow == Allowances(dns, exceptions, names)
         IN  IsFiniteSet(allow) /\ \A a \in allow : IsAllowance(a)
<1> DEFINE allow == Allowances(dns, exceptions, names)
<1>1. \A ip \in Addr : OneFamily({ip})
  BY DEF OneFamily
<1>2. \A a \in DnsAllows(dns) : IsAllowance(a)
  <2>1. dns \ {Unparsable} \subseteq Addr
    BY DEF DnsEntry
  <2> QED
    BY <2>1, <1>1, FirewallAssumption DEF DnsAllows, IsAllowance
<1>3. ASSUME NEW x \in exceptions, NEW net \in NetsOf(x.target, names)
      PROVE  IsAllowance(<<net, x.port>>)
  <2>1. x.target \in Target /\ x.port \in Port \cup {AnyPort}
    BY DEF Exception
  <2>2. net \in SUBSET Addr /\ OneFamily(net)
    <3>1. CASE x.target.kind = "ip"
      BY <3>1, <2>1, <1>1 DEF NetsOf, Target
    <3>2. CASE x.target.kind = "range"
      BY <3>2, <2>1, FirewallAssumption DEF NetsOf, Target
    <3>3. CASE x.target.kind = "host"
      BY <3>3, <2>1, <1>1 DEF NetsOf, Target
    <3> QED
      BY <3>1, <3>2, <3>3, <2>1 DEF Target
  <2> QED
    BY <2>1, <2>2 DEF IsAllowance
<1>4. \A a \in allow : IsAllowance(a)
  <2> SUFFICES ASSUME NEW a \in allow PROVE IsAllowance(a)
    OBVIOUS
  <2>1. CASE a \in DnsAllows(dns)
    BY <2>1, <1>2
  <2>2. CASE \E x \in exceptions : a \in NetsOf(x.target, names) \X {x.port}
    <3>1. PICK x \in exceptions : a \in NetsOf(x.target, names) \X {x.port}
      BY <2>2
    <3>2. PICK net \in NetsOf(x.target, names) : a = <<net, x.port>>
      BY <3>1
    <3> QED
      BY <3>2, <1>3
  <2> QED
    BY <2>1, <2>2 DEF Allowances
<1>5. IsFiniteSet((SUBSET Addr) \X (Port \cup {AnyPort}))
  BY FS_SUBSET, FS_Product, FS_AddElement, FirewallAssumption
<1>6. allow \in SUBSET ((SUBSET Addr) \X (Port \cup {AnyPort}))
  BY <1>4 DEF IsAllowance
<1> QED
  BY <1>4, <1>5, <1>6, FS_Subset

(* What is allowed is what the documentation excepts.                         *)
LEMMA PermitsIsExcepted ==
  ASSUME NEW dns \in SUBSET DnsEntry, NEW exceptions \in SUBSET Exception,
         NEW names \in [Host -> SUBSET Addr], NEW packet \in Packet
  PROVE  Permits(Allowances(dns, exceptions, names), packet)
           <=> Excepted(packet, dns, exceptions, names)
<1> DEFINE allow == Allowances(dns, exceptions, names)
<1> DEFINE Named(x) ==
      \/ x.target.kind = "ip" /\ packet.dst = x.target.ip
      \/ x.target.kind = "range" /\ packet.dst \in x.target.net
      \/ x.target.kind = "host" /\ packet.dst \in names[x.target.name]
<1>1. packet.dst \in Addr /\ packet.port \in Port /\ packet.port # AnyPort
  BY FirewallAssumption DEF Packet
<1>2. 53 \in Port /\ AnyPort # 53
  BY FirewallAssumption
<1>3. packet.dst \in dns <=> packet.dst \in dns \ {Unparsable}
  BY <1>1, FirewallAssumption
<1>4. ASSUME NEW x \in exceptions
      PROVE  (\E net \in NetsOf(x.target, names) : packet.dst \in net) <=> Named(x)
  <2>1. x.target \in Target
    BY DEF Exception
  <2>2. CASE x.target.kind = "ip"
    BY <2>2 DEF NetsOf
  <2>3. CASE x.target.kind = "range"
    BY <2>3 DEF NetsOf
  <2>4. CASE x.target.kind = "host"
    BY <2>4 DEF NetsOf
  <2> QED
    BY <2>1, <2>2, <2>3, <2>4 DEF Target
<1>5. (\E a \in DnsAllows(dns) : packet.dst \in a[1] /\ a[2] \in {AnyPort, packet.port})
        <=> packet.dst \in dns /\ packet.port = 53
  <2>1. ASSUME NEW a \in DnsAllows(dns), packet.dst \in a[1],
               a[2] \in {AnyPort, packet.port}
        PROVE  packet.dst \in dns /\ packet.port = 53
    <3>1. PICK ip \in dns \ {Unparsable} : a = <<{ip}, 53>>
      BY <2>1 DEF DnsAllows
    <3> QED
      BY <3>1, <2>1, <1>2
  <2>2. ASSUME packet.dst \in dns, packet.port = 53
        PROVE  <<{packet.dst}, 53>> \in DnsAllows(dns)
    BY <2>2, <1>3 DEF DnsAllows
  <2> QED
    BY <2>1, <2>2
<1>6. ASSUME NEW x \in exceptions
      PROVE  (\E a \in NetsOf(x.target, names) \X {x.port} :
                packet.dst \in a[1] /\ a[2] \in {AnyPort, packet.port})
             <=> Named(x) /\ x.port \in {AnyPort, packet.port}
  <2> HIDE DEF Named
  <2>1. ASSUME NEW a \in NetsOf(x.target, names) \X {x.port}
        PROVE  a[1] \in NetsOf(x.target, names) /\ a[2] = x.port
    OBVIOUS
  <2>2. ASSUME NEW net \in NetsOf(x.target, names)
        PROVE  <<net, x.port>> \in NetsOf(x.target, names) \X {x.port}
    OBVIOUS
  <2> QED
    BY <2>1, <2>2, <1>4
<1>7. Permits(allow, packet)
        <=> \/ \E a \in DnsAllows(dns) :
                 packet.dst \in a[1] /\ a[2] \in {AnyPort, packet.port}
            \/ \E x \in exceptions : \E a \in NetsOf(x.target, names) \X {x.port} :
                 packet.dst \in a[1] /\ a[2] \in {AnyPort, packet.port}
  BY DEF Permits, Allowances
<1>8. Excepted(packet, dns, exceptions, names)
        <=> \/ packet.dst \in dns /\ packet.port = 53
            \/ \E x \in exceptions : Named(x) /\ x.port \in {AnyPort, packet.port}
  BY DEF Excepted
<1> HIDE DEF Named
<1> QED
  BY <1>5, <1>6, <1>7, <1>8

-------------------------------------------------------------------------------
(* The network's own variables move as in Network, traffic or not.            *)
LEMMA TrafficImplementsNetwork == [TrafficNext]_allVars => [Next]_vars
<1> SUFFICES ASSUME [TrafficNext]_allVars PROVE [Next]_vars
  OBVIOUS
<1>1. CASE UNCHANGED allVars
  BY <1>1 DEF allVars, vars
<1>2. CASE NewNamespace \/ PasstHook \/ PasstHookFails
  BY <1>2 DEF NewNamespace, PasstHook, PasstHookFails, Next, HelperStep
<1>3. CASE OtherNetworkStep
  BY <1>3 DEF OtherNetworkStep, Next, HelperStep
<1>4. CASE \E packet \in Packet : PacketLeaves(packet) \/ PacketEnters(packet)
  BY <1>4 DEF PacketLeaves, PacketEnters
<1> QED
  BY <1>1, <1>2, <1>3, <1>4 DEF TrafficNext

(* The rules are those of the configuration they were made of.                *)
RulesBelong ==
  ruleset = IF firewall
            THEN Ruleset(Allowances(config.dns, config.exceptions, config.names))
            ELSE NoRuleset

(* Until create has returned there is no traffic, so none escapes the hook.   *)
BeforeUp ==
  \/ pc \in {"passt", "pasta", "waitPid", "exec", "execResult", "waitSocket"}
  \/ passt \in {"isolated", "hook"}

NoTrafficYet == BeforeUp => opened = {} /\ heard = {}

(* The hook finds namespaces without rules.                                   *)
NoRulesYet == pc = "passt" \/ passt \in {"isolated", "hook"} => ~firewall

TrafficInv ==
  /\ NetworkInv
  /\ config \in Config /\ opened \subseteq Packet /\ heard \subseteq Packet
  /\ RulesBelong
  /\ NoTrafficYet
  /\ NoRulesYet
  /\ TrafficIsAllowed

(* The rules in force decide as the policy does.                              *)
LEMMA RulesDecide ==
  ASSUME config \in Config, RulesBelong, firewall, NEW packet \in Packet
  PROVE  LeavesBy(ruleset.output, ruleset.outputPolicy, packet)
           <=> PolicyAllows(packet, config.dns, config.exceptions, config.names)
<1> DEFINE allow == Allowances(config.dns, config.exceptions, config.names)
<1>1. /\ config.dns \in SUBSET DnsEntry /\ config.exceptions \in SUBSET Exception
      /\ config.names \in [Host -> SUBSET Addr]
  BY DEF Config
<1>2. IsFiniteSet(allow) /\ \A a \in allow : IsAllowance(a)
  BY <1>1, AllowancesAreFinite
<1>3. ruleset.output = OutputChain(allow) /\ ruleset.outputPolicy = "accept"
  BY DEF RulesBelong, Ruleset
<1>4. LeavesBy(OutputChain(allow), "accept", packet)
        <=> /\ packet.dst \notin ViaLo
            /\ Permits(allow, packet) \/ ~Blocked(packet.dst)
  <2> HIDE DEF allow
  <2> QED
    BY <1>2, FirstMatchIsPolicy
<1>5. Permits(allow, packet)
        <=> Excepted(packet, config.dns, config.exceptions, config.names)
  BY <1>1, PermitsIsExcepted
<1> QED
  BY <1>3, <1>4, <1>5 DEF PolicyAllows

LEMMA TrafficInitInv == TrafficInit => TrafficInv
<1> SUFFICES ASSUME TrafficInit PROVE TrafficInv
  OBVIOUS
<1>1. NetworkInv
  BY NetworkInitInv DEF TrafficInit
<1>2. config \in Config
  BY DEF TrafficInit, NoConfig, Config
<1>3. firewall = FALSE
  BY DEF TrafficInit, Init
<1> QED
  BY <1>1, <1>2, <1>3
  DEF TrafficInit, TrafficInv, RulesBelong, NoTrafficYet, NoRulesYet, TrafficIsAllowed

(* The hook, as far as it installs something.                                 *)
LEMMA HookInstalls ==
  ASSUME TrafficInv, HookAndExec \/ HookOrExecFails, InstallIfRestricted
  PROVE  /\ config' \in Config /\ RulesBelong'
         /\ opened = {} /\ heard = {} /\ opened' = opened /\ heard' = heard
<1>1. opened = {} /\ heard = {}
  BY DEF TrafficInv, NoTrafficYet, BeforeUp, HookAndExec, HookOrExecFails
<1>2. CASE firewall'
  <2>1. PICK dns \in SUBSET MayDns, exceptions \in SUBSET MayExcept,
             names \in [Host -> MayResolve] : Install(dns, exceptions, names)
    BY <1>2 DEF InstallIfRestricted
  <2>2. /\ dns \in SUBSET DnsEntry /\ exceptions \in SUBSET Exception
        /\ names \in [Host -> SUBSET Addr]
    BY TrafficAssumption
  <2>3. config' = [dns |-> dns, exceptions |-> exceptions, names |-> names]
        /\ ruleset' = Ruleset(Allowances(dns, exceptions, names))
        /\ UNCHANGED <<opened, heard>>
    BY <2>1 DEF Install
  <2>4. config' \in Config
    BY <2>2, <2>3 DEF Config
  <2>5. RulesBelong'
    BY <1>2, <2>3 DEF RulesBelong
  <2> QED
    BY <1>1, <2>3, <2>4, <2>5
<1>3. CASE ~firewall'
  <2>1. UNCHANGED trafficVars
    BY <1>3 DEF InstallIfRestricted
  <2>2. ~firewall
    BY DEF TrafficInv, NoRulesYet, HookAndExec, HookOrExecFails
  <2>3. RulesBelong'
    BY <1>3, <2>1, <2>2 DEF TrafficInv, RulesBelong, trafficVars
  <2> QED
    BY <1>1, <2>1, <2>3 DEF TrafficInv, trafficVars
<1> QED
  BY <1>2, <1>3

(* The steps of the network that leave rules and traffic alone.               *)
LEMMA NetworkStepKeepsTraffic ==
  ASSUME TrafficInv, OtherNetworkStep
  PROVE  /\ firewall' = firewall /\ mode' = mode
         /\ NoTrafficYet' /\ NoRulesYet'
<1>1. UNCHANGED <<opened, heard>>
  BY DEF OtherNetworkStep, trafficVars
<1> USE DEF TrafficInv, NoTrafficYet, BeforeUp, NoRulesYet, NetworkInv,
            FilteredFromExec, HelpersBelong, TypeOK, world
<1>2. CASE NewPasst \/ NewPasta \/ PidFileAppears \/ PastaHasExited \/ PidFileTimesOut
  BY <1>1, <1>2 DEF NewPasst, NewPasta, PidFileAppears, PastaHasExited,
     PidFileTimesOut, AfterPastaSpawn, Goto
<1>3. CASE SendContinue \/ ExecReturns
  BY <1>1, <1>3 DEF SendContinue, ExecReturns, AfterExec, Goto
<1>4. CASE SocketConnects \/ PasstHasExited \/ SocketTimesOut \/ Finish
  BY <1>1, <1>4 DEF SocketConnects, PasstHasExited, SocketTimesOut, Finish, Goto
<1>5. CASE DropPasst \/ DropPasta \/ DropDone
  BY <1>1, <1>5 DEF DropPasst, DropPasta, DropDone, Goto
<1>6. CASE PasstGivesUp \/ PasstListens \/ PasstExits \/ PastaAttaches \/ PastaExits
  BY <1>1, <1>6 DEF PasstGivesUp, PasstListens, PasstExits, PastaAttaches, PastaExits
<1>7. CASE Crash \/ KilledWithParent
  BY <1>1, <1>7 DEF Crash, KilledWithParent
<1> QED
  BY <1>2, <1>3, <1>4, <1>5, <1>6, <1>7 DEF OtherNetworkStep, RunStep

LEMMA TrafficNextInv == TrafficInv /\ [TrafficNext]_allVars => TrafficInv'
<1> SUFFICES ASSUME TrafficInv, [TrafficNext]_allVars PROVE TrafficInv'
  OBVIOUS
<1>1. NetworkInv'
  BY TrafficImplementsNetwork, NetworkNextInv DEF TrafficInv
<1>2. CASE UNCHANGED allVars
  BY <1>1, <1>2 DEF TrafficInv, RulesBelong, NoTrafficYet, NoRulesYet, BeforeUp,
     TrafficIsAllowed, allVars, vars, trafficVars
<1>3. CASE NewNamespace
  <2>1. config' \in Config
    BY <1>3 DEF NewNamespace, NoConfig, Config
  <2>2. firewall' = FALSE /\ ruleset' = NoRuleset /\ opened' = {} /\ heard' = {}
    BY <1>3 DEF NewNamespace, Begin
  <2> QED
    BY <1>1, <2>1, <2>2
    DEF TrafficInv, RulesBelong, NoTrafficYet, NoRulesYet, TrafficIsAllowed
<1>4. CASE PasstHook \/ PasstHookFails
  <2>1. /\ config' \in Config /\ RulesBelong'
        /\ opened' = {} /\ heard' = {}
    BY <1>4, HookInstalls DEF PasstHook, PasstHookFails
  <2>2. NoRulesYet'
    BY <1>4 DEF PasstHook, PasstHookFails, HookAndExec, HookOrExecFails, NoRulesYet,
       TrafficInv, NetworkInv, HelpersBelong, TypeOK
  <2> QED
    BY <1>1, <2>1, <2>2 DEF TrafficInv, NoTrafficYet, TrafficIsAllowed
<1>5. CASE OtherNetworkStep
  <2>1. UNCHANGED trafficVars /\ firewall' = firewall /\ mode' = mode
        /\ NoTrafficYet' /\ NoRulesYet'
    BY <1>5, NetworkStepKeepsTraffic DEF OtherNetworkStep
  <2> QED
    BY <1>1, <2>1 DEF TrafficInv, RulesBelong, TrafficIsAllowed, trafficVars
<1>6. CASE \E packet \in Packet : PacketLeaves(packet) \/ PacketEnters(packet)
  <2>1. PICK packet \in Packet : PacketLeaves(packet) \/ PacketEnters(packet)
    BY <1>6
  <2>2. Connected /\ UNCHANGED <<vars, ruleset, config>>
    BY <2>1 DEF PacketLeaves, PacketEnters
  <2>3. RulesBelong' /\ config' \in Config /\ NoRulesYet'
    BY <2>2 DEF TrafficInv, RulesBelong, NoRulesYet, vars
  <2>4. NoTrafficYet'
    BY <2>2 DEF Connected, NoTrafficYet, BeforeUp, vars
  <2>5. opened' \subseteq Packet /\ heard' \subseteq Packet
    BY <2>1 DEF PacketLeaves, PacketEnters, TrafficInv
  <2>6. ASSUME mode = "Restricted"
        PROVE  \A one \in (opened \cup heard)' :
                 PolicyAllows(one, config.dns, config.exceptions, config.names)
    <3>1. firewall
      BY <2>2, <2>6 DEF Connected, TrafficInv, NetworkInv, FilteredFromExec, UpIsFiltered
    <3>2. \A one \in opened \cup heard :
            PolicyAllows(one, config.dns, config.exceptions, config.names)
      BY <2>6 DEF TrafficInv, TrafficIsAllowed
    <3>3. CASE PacketLeaves(packet)
      <4>1. PolicyAllows(packet, config.dns, config.exceptions, config.names)
        BY <3>1, <3>3, RulesDecide DEF TrafficInv, PacketLeaves
      <4>2. (opened \cup heard)' = opened \cup heard \cup {packet}
        BY <3>3 DEF PacketLeaves
      <4> QED
        BY <3>2, <4>1, <4>2
    <3>4. CASE PacketEnters(packet)
      <4>1. ruleset.inputPolicy = "drop"
        BY <3>1 DEF TrafficInv, RulesBelong, Ruleset
      <4>2. packet \in opened /\ (opened \cup heard)' = opened \cup heard \cup {packet}
        BY <3>4, <4>1 DEF PacketEnters
      <4> QED
        BY <3>2, <4>2
    <3> QED
      BY <2>1, <3>3, <3>4
  <2>7. TrafficIsAllowed'
    BY <2>2, <2>6 DEF TrafficIsAllowed, vars
  <2> QED
    BY <1>1, <2>3, <2>4, <2>5, <2>7 DEF TrafficInv
<1> QED
  BY <1>2, <1>3, <1>4, <1>5, <1>6 DEF TrafficNext

LEMMA TrafficInvariant == TrafficSpec => []TrafficInv
BY TrafficInitInv, TrafficNextInv, PTL DEF TrafficSpec

-------------------------------------------------------------------------------
(* Whatever the configuration and the resolver say, the installed rules let   *)
(* out what the documented policy allows and nothing else.                    *)
THEOREM InstalledRulesKeepPolicy == TrafficSpec => []RulesKeepPolicy
<1>1. TrafficInv => RulesKeepPolicy
  BY RulesDecide DEF TrafficInv, RulesKeepPolicy
<1> QED
  BY <1>1, TrafficInvariant, PTL

(* A restricted guest never exchanges a packet with a destination that is     *)
(* not allowed, not even while the network comes up or goes down.             *)
THEOREM RestrictedTrafficIsAllowed == TrafficSpec => []TrafficIsAllowed
<1>1. TrafficInv => TrafficIsAllowed
  BY DEF TrafficInv
<1> QED
  BY <1>1, TrafficInvariant, PTL

(* Types, and rules exactly where there is a firewall.                        *)
THEOREM TrafficTypeCorrect == TrafficSpec => []TrafficTypeOK
<1>1. \A allow : Ruleset(allow) # NoRuleset
  BY DEF Ruleset, NoRuleset
<1>2. TrafficInv => TrafficTypeOK
  BY <1>1 DEF TrafficInv, TrafficTypeOK, RulesBelong
<1> QED
  BY <1>2, TrafficInvariant, PTL

===============================================================================
