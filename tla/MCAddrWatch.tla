----------------------------- MODULE MCAddrWatch -----------------------------
(* Instances of AddrWatch for TLC. *)
EXTENDS AddrWatch

CONSTANTS id1, relay1, ip1, ip2

Make(R, I) == [id |-> id1, relays |-> R, ips |-> I, customs |-> {}]

\* Addresses that differ in the relay only, in the direct addresses only, and in
\* both.
SomeAddrs == {Make({}, {ip1}), Make({relay1}, {ip1}), Make({relay1}, {ip2})}
=============================================================================
