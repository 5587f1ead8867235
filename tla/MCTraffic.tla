------------------------------ MODULE MCTraffic -------------------------------
(* One address of each kind that the rules tell apart, and exceptions for     *)
(* addresses and ranges that are blocked, in part blocked, and on loopback.   *)
EXTENDS Traffic

MCV4 == {"127.0.0.1", "10.1.2.3", "10.9.9.9", "192.168.1.1", "203.0.113.7"}
MCAddr == MCV4 \cup {"::1", "fd00::1", "2001:db8::1"}
MCViaLo == {"127.0.0.1", "::1"}
MCBlocked4 == {{"10.1.2.3", "10.9.9.9"}, {"192.168.1.1"}}
MCBlocked6 == {{"fd00::1"}}
MCCidr == {MCV4, {"fd00::1", "2001:db8::1"}}
MCHost == {"internal"}
MCPort == {53, 443}

MCMayDns == {"10.1.2.3", "203.0.113.7", Unparsable}
MCMayResolve == {{}, {"127.0.0.1", "192.168.1.1"}, {"10.9.9.9", "fd00::1"}}
MCMayExcept ==
  {[target |-> [kind |-> "ip", ip |-> "127.0.0.1"], port |-> AnyPort],
   [target |-> [kind |-> "ip", ip |-> "10.1.2.3"], port |-> 443],
   [target |-> [kind |-> "range", net |-> MCV4], port |-> 443],
   [target |-> [kind |-> "range", net |-> {"fd00::1", "2001:db8::1"}], port |-> 53],
   [target |-> [kind |-> "host", name |-> "internal"], port |-> AnyPort],
   [target |-> [kind |-> "host", name |-> "internal"], port |-> 443]}
===============================================================================
