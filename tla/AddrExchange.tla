---------------------------- MODULE AddrExchange ----------------------------
(***************************************************************************)
(* An address on its way from application to application, as a ticket, as  *)
(* the bytes of a ticket or as an EndpointAddr record, through any number  *)
(* of the conversions of `endpoint.rs` and `endpoint_addr.rs`, until it is *)
(* dialed.                                                                 *)
(***************************************************************************)
EXTENDS EndpointAddr

VARIABLES
  kind,     \* what the application has in hand: "ticket", "bytes", "record",
            \*   or "error" when a conversion failed
  item,     \* the thing itself: a string, bytes or a record
  origin,   \* the address it stood for at first, or Malformed
  peer,     \* the id it named at first, or Malformed
  flat,     \* it has been a record made by the library
  dialed,   \* the addresses given to inner.connect by connect_conn or
            \*   connect_addr
  ids       \* the ids given to inner.connect by connect_by_id

vars == <<kind, item, origin, peer, flat, dialed, ids>>

\* A ticket is base32 text, its bytes have one form only.
Tickets == Text(IrohAddrs)
Bytes   == {t \in Tickets : t.spelling = "canonical"}

\* The thing x of kind k can be converted, and the address it stands for.
Valid(k, x) ==
  \/ k \in {"ticket", "bytes"} /\ Parses(x)
  \/ k = "record" /\ TryFromAccepts(x)
Means(k, x) == IF k = "record" THEN TryFrom(x) ELSE x.of

\* The id that x names: that of a record can be read although its addresses do
\* not parse.
Names(k, x) ==
  IF k = "record" THEN x.id.of ELSE IF Valid(k, x) THEN x.of.id ELSE Malformed

TypeOK ==
  /\ \/ kind = "ticket" /\ item \in Tickets
     \/ kind = "bytes" /\ item \in Bytes
     \/ kind = "record" /\ item \in Records
     \/ kind = "error"
  /\ origin \in IrohAddrs \cup {Malformed}
  /\ peer \in Ids \cup {Malformed}
  /\ flat \in BOOLEAN
  /\ dialed \subseteq IrohAddrs
  /\ ids \subseteq Ids

Init ==
  /\ \/ kind = "ticket" /\ item \in Tickets
     \/ kind = "bytes" /\ item \in Bytes
     \/ kind = "record" /\ item \in Records
  /\ origin = IF Valid(kind, item) THEN Means(kind, item) ELSE Malformed
  /\ peer = Names(kind, item)
  /\ flat = FALSE
  /\ dialed = {}
  /\ ids = {}

-----------------------------------------------------------------------------

\* The conversion of something of kind `from` into x of kind `to`, or its error.
Convert(from, to, x) ==
  /\ kind = from
  /\ \/ Valid(kind, item) /\ kind' = to /\ item' = x
     \/ ~Valid(kind, item) /\ kind' = "error" /\ UNCHANGED item
  /\ UNCHANGED <<origin, peer, dialed, ids>>

EndpointAddrFromTicket ==
  /\ Convert("ticket", "record", FromIroh(item.of))
  /\ flat' = (flat \/ Valid(kind, item))

TicketFromEndpointAddr ==
  /\ Convert("record", "ticket", Show(TryFrom(item)))
  /\ UNCHANGED flat

TicketBytes     == Convert("ticket", "bytes", Show(item.of)) /\ UNCHANGED flat
TicketFromBytes == Convert("bytes", "ticket", Show(item.of)) /\ UNCHANGED flat

\* connect and connect_conn dial what the ticket says.
ConnectConn ==
  /\ kind = "ticket" /\ Valid(kind, item)
  /\ dialed' = dialed \cup {item.of}
  /\ UNCHANGED <<kind, item, origin, peer, flat, ids>>

ConnectAddr ==
  /\ kind = "record" /\ Valid(kind, item)
  /\ dialed' = dialed \cup {TryFrom(item)}
  /\ UNCHANGED <<kind, item, origin, peer, flat, ids>>

\* endpoint_id_from_ticket.
EndpointIdFromTicket(t) == t.of.id

\* The id of a ticket, then connect_by_id; or connect_by_id with the id of a
\* record, whose addresses need not parse.
ConnectById ==
  /\ \/ kind = "ticket" /\ Valid(kind, item) /\ ids' = ids \cup {EndpointIdFromTicket(item)}
     \/ kind = "record" /\ Parses(item.id) /\ ids' = ids \cup {item.id.of}
  /\ UNCHANGED <<kind, item, origin, peer, flat, dialed>>

Next ==
  \/ EndpointAddrFromTicket \/ TicketFromEndpointAddr \/ TicketBytes \/ TicketFromBytes
  \/ ConnectConn \/ ConnectAddr \/ ConnectById

Spec == Init /\ [][Next]_vars

-----------------------------------------------------------------------------

\* a reaches the endpoint of o as well as can be expected: every IP address and,
\* if there are relays, one of them.
SamePeer(a, o) ==
  /\ a.id = o.id
  /\ a.ips = o.ips
  /\ a.relays \subseteq o.relays
  /\ o.relays # {} => a.relays # {}
  /\ a.customs \subseteq o.customs

\* Whatever chain of conversions an address goes through, it stays the address
\* of the same endpoint, with all its IP addresses and a relay if it had one; so
\* is every address that is dialed on the way, and every id is the one that was
\* named at first.
StaysReachable ==
  /\ Valid(kind, item) => SamePeer(Means(kind, item), origin)
  /\ \A a \in dialed : SamePeer(a, origin)
  /\ ids \subseteq {peer}

\* What the record cannot hold is lost the first time; later conversions change
\* nothing.
SettlesAtOnce ==
  [][flat /\ Valid(kind, item) =>
       Valid(kind', item') /\ Means(kind', item') = Means(kind, item)]_vars
=============================================================================
