---------------------------- MODULE EndpointAddr ----------------------------
(***************************************************************************)
(* The address of an endpoint in its two forms (`endpoint_addr.rs`): the   *)
(* library's, a set that mixes relay, IP and other transports, and the     *)
(* record that crosses the FFI, which has room for one relay and for       *)
(* direct addresses as strings.                                            *)
(***************************************************************************)
CONSTANTS
  Ids,       \* endpoint ids
  Relays,    \* relay URLs
  Ips,       \* IP socket addresses
  Customs,   \* transport addresses that are neither
  Malformed  \* what a string stands for that does not parse

ASSUME MalformedAssumption == Malformed \notin Ids \cup Relays \cup Ips

\* iroh::EndpointAddr.
IrohAddrs ==
  [id : Ids, relays : SUBSET Relays, ips : SUBSET Ips, customs : SUBSET Customs]

ASSUME MalformedAddrAssumption == Malformed \notin IrohAddrs

\* Strings: several may stand for one value, and one of them is what to_string
\* makes of it.  That it parses as the value again is taken from the libraries.
Text(V) == [of : V \cup {Malformed}, spelling : {"canonical", "other"}]
Parses(t) == t.of # Malformed
Show(v) == [of |-> v, spelling |-> "canonical"]

\* EndpointAddr, the record.  relay_url is an Option: a set of at most one.  The
\* order and the repetitions of direct_addresses have no effect.
Records ==
  [id : Text(Ids), relay_url : {{}} \cup {{t} : t \in Text(Relays)},
   direct_addresses : SUBSET Text(Ips)]

\* Mutant of FirstRelay: no relay is found.
FirstRelayMissed(R) == {}

\* relay_urls().next(): the first in the order of the set, if there is one.
FirstRelay(R) == {r \in R : r = CHOOSE q \in R : TRUE}

\* Mutant of FromIroh: one direct address is skipped.
FromIrohSkips(a) ==
  [id |-> Show(a.id),
   relay_url |-> {Show(r) : r \in FirstRelay(a.relays)},
   direct_addresses |-> {Show(i) : i \in {j \in a.ips : j # CHOOSE q \in a.ips : TRUE}}]

\* From<iroh::EndpointAddr> for EndpointAddr.
FromIroh(a) ==
  [id |-> Show(a.id),
   relay_url |-> {Show(r) : r \in FirstRelay(a.relays)},
   direct_addresses |-> {Show(i) : i \in a.ips}]

\* TryFrom<EndpointAddr> for iroh::EndpointAddr: every string has to parse ...
TryFromAccepts(r) ==
  Parses(r.id) /\ \A t \in r.direct_addresses \cup r.relay_url : Parses(t)

\* ... and the address is made of what they stand for.
TryFrom(r) ==
  [id |-> r.id.of, relays |-> {t.of : t \in r.relay_url},
   ips |-> {t.of : t \in r.direct_addresses}, customs |-> {}]
=============================================================================
