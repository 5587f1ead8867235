------------------------------- MODULE Firewall -------------------------------
(***************************************************************************)
(* The ruleset of a restricted network (src/sandbox/network/firewall.rs):  *)
(* how build_ruleset makes it of the configured DNS servers and exceptions,*)
(* and what nftables does with a packet.  A network is the set of addresses*)
(* it covers, which is what trunc() and the prefixes come down to.  The    *)
(* policy of the docs stands beside it for comparison.                     *)
(***************************************************************************)
EXTENDS Naturals, Sequences, FiniteSets, SequencesExt

CONSTANTS
  Addr,       (* IPv4 and IPv6 addresses                                     *)
  V4,         (* those that are IPv4                                         *)
  ViaLo,      (* those that are routed through the loopback interface        *)
  Blocked4,   (* 10/8, 172.16/12, 192.168/16, 100.64/10, 169.254/16          *)
  Blocked6,   (* fc00::/7, fe80::/10                                         *)
  Cidr,       (* CIDR networks a user may write, after trunc()               *)
  Host,       (* host names                                                  *)
  Port,       (* destination ports                                           *)
  AnyPort     (* an exception without a port                                 *)

Unparsable == "unparsable"   (* an entry of dns that is not an address       *)
OneFamily(net) == net # {} /\ (net \subseteq V4 \/ net \cap V4 = {})

ASSUME FirewallAssumption ==
  /\ IsFiniteSet(Addr) /\ IsFiniteSet(Port) /\ 53 \in Port /\ AnyPort \notin Port
  /\ Unparsable \notin Addr
  /\ V4 \subseteq Addr /\ ViaLo \subseteq Addr
  /\ Blocked4 \subseteq SUBSET V4 /\ Blocked6 \subseteq SUBSET (Addr \ V4)
  /\ Cidr \subseteq SUBSET Addr /\ \A net \in Cidr : OneFamily(net)

Packet == [dst : Addr, port : Port]

(* An entry of the configuration's exceptions, and of its dns: strings that  *)
(* parse as an address, or do not.                                           *)
Target == [kind : {"ip"}, ip : Addr] \cup [kind : {"range"}, net : Cidr]
            \cup [kind : {"host"}, name : Host]
Exception == [target : Target, port : Port \cup {AnyPort}]
DnsEntry == Addr \cup {Unparsable}

-------------------------------------------------------------------------------
(* build_ruleset: (network, port) pairs in a set, which sort and dedup make  *)
(* of the list; names is what the resolver says at this moment.              *)
DnsAllows(dns) == {<<{ip}, 53>> : ip \in dns \ {Unparsable}}

NetsOf(target, names) ==
  CASE target.kind = "ip"    -> {{target.ip}}
    [] target.kind = "range" -> {target.net}
    [] target.kind = "host"  -> {{ip} : ip \in names[target.name]}

Allowances(dns, exceptions, names) ==
  DnsAllows(dns)
    \cup UNION {NetsOf(x.target, names) \X {x.port} : x \in exceptions}

(* Rules: the interface a packet leaves by, or the networks of one family    *)
(* that have its destination, with its port.                                 *)
FamilyOf(net) == IF net \subseteq V4 THEN "ip" ELSE "ip6"
DropLo == [on |-> "lo", nets |-> {}, port |-> AnyPort, verdict |-> "drop"]
DropNets(family, nets) ==
  [on |-> family, nets |-> nets, port |-> AnyPort, verdict |-> "drop"]
Accept(allowance) ==
  [on |-> FamilyOf(allowance[1]), nets |-> {allowance[1]},
   port |-> allowance[2], verdict |-> "accept"]

DropPrivate == <<DropNets("ip", Blocked4), DropNets("ip6", Blocked6)>>

(* The order within the accepts is of no consequence; sort gives one.        *)
AcceptRules(allow) ==
  LET list == SetToSeq(allow) IN [i \in 1 .. Cardinality(allow) |-> Accept(list[i])]

AcceptsFirst(allow) ==              \* mutated form: not the loopback rule first
  AcceptRules(allow) \o <<DropLo>> \o DropPrivate
OutputChain(allow) == <<DropLo>> \o AcceptRules(allow) \o DropPrivate

(* The chains of a ruleset: policies, and the rules of those that have some. *)
OpenInput(allow) ==                 \* mutated form
  [output |-> OutputChain(allow), outputPolicy |-> "accept", inputPolicy |-> "accept"]
Ruleset(allow) ==
  [output |-> OutputChain(allow), outputPolicy |-> "accept", inputPolicy |-> "drop"]

-------------------------------------------------------------------------------
(* nftables: the first rule that matches decides, or the chain's policy.     *)
FamilyOfAddr(ip) == IF ip \in V4 THEN "ip" ELSE "ip6"

Matches(rule, packet) ==
  /\ \/ rule.on = "lo" /\ packet.dst \in ViaLo
     \/ /\ rule.on = FamilyOfAddr(packet.dst)
        /\ \E net \in rule.nets : packet.dst \in net
  /\ rule.port \in {AnyPort, packet.port}

Decides(chain, i, packet) ==
  /\ i \in DOMAIN chain /\ Matches(chain[i], packet)
  /\ \A j \in 1 .. i - 1 : ~Matches(chain[j], packet)

LeavesBy(chain, policy, packet) ==
  \/ \E i \in DOMAIN chain : Decides(chain, i, packet) /\ chain[i].verdict = "accept"
  \/ policy = "accept" /\ \A i \in DOMAIN chain : ~Matches(chain[i], packet)

-------------------------------------------------------------------------------
(* docs/configuration.md: what the user is promised of a restricted network. *)
Blocked(ip) == \E net \in Blocked4 \cup Blocked6 : ip \in net

Excepted(packet, dns, exceptions, names) ==
  \/ packet.dst \in dns /\ packet.port = 53
  \/ \E x \in exceptions :
       /\ x.port \in {AnyPort, packet.port}
       /\ \/ x.target.kind = "ip" /\ packet.dst = x.target.ip
          \/ x.target.kind = "range" /\ packet.dst \in x.target.net
          \/ x.target.kind = "host" /\ packet.dst \in names[x.target.name]

PolicyAllows(packet, dns, exceptions, names) ==
  /\ packet.dst \notin ViaLo
  /\ Excepted(packet, dns, exceptions, names) \/ ~Blocked(packet.dst)
===============================================================================
