-------------------------------- MODULE Traffic --------------------------------
(***************************************************************************)
(* Network and Firewall together: what the guest's packets meet in passt's *)
(* namespace, from the hook that installs the ruleset (passt.rs, pre_exec) *)
(* to the end of the network.  The kernel's connection tracking is external.*)
(***************************************************************************)
EXTENDS Network, Firewall

CONSTANTS
  MayDns,         (* entries a configuration's dns may have                  *)
  MayExcept,      (* entries its network.exceptions may have                 *)
  MayResolve,     (* answers the resolver may give for a name                *)
  MaxExceptions,  (* bound: entries of network.exceptions                    *)
  MaxFlows        (* bound: packets remembered in each direction             *)

ASSUME TrafficAssumption ==
  /\ MayDns \subseteq DnsEntry /\ MayExcept \subseteq Exception
  /\ MayResolve \subseteq SUBSET Addr /\ MaxExceptions \in Nat /\ MaxFlows \in Nat

VARIABLES
  ruleset,    (* the table in passt's namespace, or NoRuleset                *)
  config,     (* dns, exceptions and the resolver's answers it was made of   *)
  opened,     (* packets of the guest that left: connection tracking         *)
  heard       (* packets that were let in, by the peer and its port          *)

trafficVars == <<ruleset, config, opened, heard>>
allVars == <<vars, trafficVars>>

NoRuleset == [output |-> <<>>, outputPolicy |-> "accept", inputPolicy |-> "accept"]

Config == [dns : SUBSET DnsEntry, exceptions : SUBSET Exception,
           names : [Host -> SUBSET Addr]]
NoConfig == [dns |-> {}, exceptions |-> {}, names |-> [h \in Host |-> {}]]

TrafficInit ==
  /\ Init
  /\ ruleset = NoRuleset /\ config = NoConfig /\ opened = {} /\ heard = {}

NewNamespace ==
  /\ Begin
  /\ ruleset' = NoRuleset /\ config' = NoConfig /\ opened' = {} /\ heard' = {}

(* firewall::install: one batch, applied as a whole or not at all.  Names are*)
(* looked up now and never again.                                            *)
Install(dns, exceptions, names) ==
  /\ config' = [dns |-> dns, exceptions |-> exceptions, names |-> names]
  /\ ruleset' = Ruleset(Allowances(dns, exceptions, names))
  /\ UNCHANGED <<opened, heard>>

InstallIfRestricted ==
  IF firewall'
  THEN \E dns \in SUBSET MayDns, exceptions \in SUBSET MayExcept,
          names \in [Host -> MayResolve] :
         /\ Cardinality(exceptions) <= MaxExceptions
         /\ Install(dns, exceptions, names)
  ELSE UNCHANGED trafficVars

PasstHook == HookAndExec /\ InstallIfRestricted
PasstHookFails == HookOrExecFails /\ InstallIfRestricted

(* The guest has a network: create has returned, and passt works in          *)
(* namespaces that pasta has connected.                                      *)
Connected == pc = "up" /\ passt = "listening" /\ configured

PacketLeaves(packet) ==
  /\ Connected
  /\ LeavesBy(ruleset.output, ruleset.outputPolicy, packet)
  /\ Cardinality(opened \cup {packet}) <= MaxFlows
  /\ opened' = opened \cup {packet}
  /\ UNCHANGED <<vars, ruleset, config, heard>>

(* The input chain: established and related, or its policy.                  *)
PacketEnters(packet) ==
  /\ Connected
  /\ packet \in opened \/ ruleset.inputPolicy = "accept"
  /\ Cardinality(heard \cup {packet}) <= MaxFlows
  /\ heard' = heard \cup {packet}
  /\ UNCHANGED <<vars, ruleset, config, opened>>

OtherNetworkStep ==
  /\ \/ RunStep \/ Finish \/ Crash \/ KilledWithParent
     \/ PasstGivesUp \/ PasstListens \/ PasstExits \/ PastaAttaches \/ PastaExits
  /\ UNCHANGED trafficVars

TrafficNext ==
  \/ NewNamespace \/ PasstHook \/ PasstHookFails \/ OtherNetworkStep
  \/ \E packet \in Packet : PacketLeaves(packet) \/ PacketEnters(packet)

TrafficSpec ==
  /\ TrafficInit /\ [][TrafficNext]_allVars
  /\ WF_vars(RunStep) /\ WF_vars(KilledWithParent)

-------------------------------------------------------------------------------
(* Every variable has its type, and only an installed firewall has rules.    *)
TrafficTypeOK ==
  /\ config \in Config
  /\ opened \subseteq Packet /\ heard \subseteq Packet
  /\ ruleset = NoRuleset <=> ~firewall

(* The documented policy is what the rules amount to, for every packet: no   *)
(* exception opens the loopback interface, every other exception opens what  *)
(* it names and nothing else, a DNS server is open on port 53 only, private  *)
(* ranges are closed otherwise and the public internet is not.               *)
RulesKeepPolicy ==
  firewall => \A packet \in Packet :
    LeavesBy(ruleset.output, ruleset.outputPolicy, packet)
      <=> PolicyAllows(packet, config.dns, config.exceptions, config.names)

(* A restricted guest exchanges packets with allowed destinations only, from *)
(* the first moment it has a network: the firewall is never late, and nobody *)
(* outside starts a conversation.                                            *)
TrafficIsAllowed ==
  mode = "Restricted" => \A packet \in opened \cup heard :
    PolicyAllows(packet, config.dns, config.exceptions, config.names)
===============================================================================
