------------------------- MODULE AddrExchangeProofs -------------------------
(***************************************************************************)
(* Proofs about AddrExchange, for any ids, relays, IP addresses and other  *)
(* transport addresses, and for chains of conversions of any length.       *)
(***************************************************************************)
EXTENDS AddrExchange, TLAPS

\* What is left of an address once it has been a record.
Flat(a) == [id |-> a.id, relays |-> FirstRelay(a.relays), ips |-> a.ips, customs |-> {}]

\* One relay is kept if there is one, and keeping it twice is keeping it once.
LEMMA FirstRelayKeeps ==
  ASSUME NEW R
  PROVE  /\ FirstRelay(R) \subseteq R
         /\ R # {} => FirstRelay(R) # {}
         /\ FirstRelay(FirstRelay(R)) = FirstRelay(R)
         /\ \/ FirstRelay(R) = {}
            \/ \E r \in R : FirstRelay(R) = {r}
<1>1. CASE R = {}
  BY <1>1 DEF FirstRelay
<1>2. CASE R # {}
  <2> DEFINE f == CHOOSE q \in R : TRUE
  <2>1. f \in R
    BY <1>2
  <2>2. FirstRelay(R) = {f}
    BY <2>1 DEF FirstRelay
  <2>3. (CHOOSE q \in {f} : TRUE) = f
    OBVIOUS
  <2>4. FirstRelay({f}) = {f}
    BY <2>3 DEF FirstRelay
  <2> HIDE DEF f
  <2> QED BY <2>1, <2>2, <2>4
<1> QED BY <1>1, <1>2

\* A value and the string to_string makes of it.
LEMMA ShowParses ==
  ASSUME NEW V, NEW v \in V
  PROVE  Show(v) \in Text(V) /\ Show(v).of = v /\ (v # Malformed => Parses(Show(v)))
BY DEF Show, Text, Parses

\* Parsing what was shown brings back the values.
LEMMA ShownValues ==
  ASSUME NEW X
  PROVE  {t.of : t \in {Show(x) : x \in X}} = X
<1>1. \A x : Show(x).of = x
  BY DEF Show
<1>2. ASSUME NEW y \in {t.of : t \in {Show(x) : x \in X}} PROVE y \in X
  <2>1. PICK t \in {Show(x) : x \in X} : y = t.of
    BY <1>2, Zenon
  <2>2. PICK x \in X : t = Show(x)
    BY <2>1, Zenon
  <2> QED BY <1>1, <2>1, <2>2, Zenon
<1>3. ASSUME NEW y \in X PROVE y \in {t.of : t \in {Show(x) : x \in X}}
  <2>1. Show(y) \in {Show(x) : x \in X}
    BY Zenon
  <2>2. y = Show(y).of
    BY <1>1, Zenon
  <2> QED BY <2>1, <2>2, Zenon
<1> QED BY <1>2, <1>3

\* The record made of an address is accepted and stands for the flat address.
LEMMA RecordOfAddr ==
  ASSUME NEW a \in IrohAddrs
  PROVE  /\ FromIroh(a) \in Records
         /\ TryFromAccepts(FromIroh(a))
         /\ TryFrom(FromIroh(a)) = Flat(a)
<1>1. a.id \in Ids /\ a.relays \subseteq Relays /\ a.ips \subseteq Ips
  BY DEF IrohAddrs
<1>2. FirstRelay(a.relays) \subseteq Relays
  BY <1>1, FirstRelayKeeps
<1>3. {Show(r) : r \in FirstRelay(a.relays)} \in {{}} \cup {{t} : t \in Text(Relays)}
  <2>1. CASE FirstRelay(a.relays) = {}
    BY <2>1
  <2>2. ASSUME NEW r \in a.relays, FirstRelay(a.relays) = {r}
        PROVE  {Show(q) : q \in FirstRelay(a.relays)} = {Show(r)} /\ Show(r) \in Text(Relays)
    BY <1>1, <2>2, ShowParses
  <2> QED BY <2>1, <2>2, FirstRelayKeeps
<1>4. {Show(i) : i \in a.ips} \subseteq Text(Ips)
  BY <1>1, ShowParses
<1>5. FromIroh(a) \in Records
  BY <1>1, <1>3, <1>4, ShowParses DEF FromIroh, Records
<1>6. TryFromAccepts(FromIroh(a))
  BY <1>1, <1>2, MalformedAssumption DEF TryFromAccepts, FromIroh, Parses, Show
<1>7. {t.of : t \in {Show(r) : r \in FirstRelay(a.relays)}} = FirstRelay(a.relays)
  BY ShownValues
<1>8. {t.of : t \in {Show(i) : i \in a.ips}} = a.ips
  BY ShownValues
<1>9. TryFrom(FromIroh(a)) = Flat(a)
  BY <1>7, <1>8 DEF TryFrom, FromIroh, Flat, Show
<1> QED BY <1>5, <1>6, <1>9

\* The address an accepted record stands for.
LEMMA AddrOfRecord ==
  ASSUME NEW r \in Records, TryFromAccepts(r)
  PROVE  TryFrom(r) \in IrohAddrs
<1>1. r.id \in Text(Ids) /\ r.direct_addresses \subseteq Text(Ips)
  BY DEF Records
<1>2. r.relay_url \subseteq Text(Relays)
  BY DEF Records
<1>3. /\ r.id.of \in Ids
      /\ {t.of : t \in r.relay_url} \subseteq Relays
      /\ {t.of : t \in r.direct_addresses} \subseteq Ips
  BY <1>1, <1>2 DEF TryFromAccepts, Parses, Text
<1> QED BY <1>3 DEF TryFrom, IrohAddrs

\* Flattening keeps the endpoint, and does nothing the second time.
LEMMA FlatKeeps ==
  ASSUME NEW a \in IrohAddrs, NEW o, SamePeer(a, o)
  PROVE  Flat(a) \in IrohAddrs /\ SamePeer(Flat(a), o) /\ Flat(Flat(a)) = Flat(a)
<1>1. FirstRelay(a.relays) \subseteq a.relays /\ (a.relays # {} => FirstRelay(a.relays) # {})
  BY FirstRelayKeeps
<1>2. FirstRelay(FirstRelay(a.relays)) = FirstRelay(a.relays)
  BY FirstRelayKeeps
<1> QED BY <1>1, <1>2 DEF Flat, IrohAddrs, SamePeer

-----------------------------------------------------------------------------
(* The inductive invariant: an address that has been a record is flat, and *)
(* the thing in hand names the id that it named at first.                  *)

FlatOK == flat /\ Valid(kind, item) => Flat(Means(kind, item)) = Means(kind, item)

NamedOK ==
  /\ kind = "record" => item.id.of = peer
  /\ Valid(kind, item) => Means(kind, item).id = peer

AInv == TypeOK /\ StaysReachable /\ FlatOK /\ NamedOK

\* A valid thing stands for an address.
LEMMA MeansAddr ==
  ASSUME TypeOK, Valid(kind, item)
  PROVE  Means(kind, item) \in IrohAddrs /\ Means(kind, item) # Malformed
BY AddrOfRecord, MalformedAddrAssumption
DEF TypeOK, Valid, Means, Tickets, Bytes, Text, Parses

LEMMA AInvInit == Init => AInv
<1> SUFFICES ASSUME Init PROVE AInv
  OBVIOUS
<1>1. /\ \/ kind = "ticket" /\ item \in Tickets
         \/ kind = "bytes" /\ item \in Bytes
         \/ kind = "record" /\ item \in Records
      /\ flat = FALSE /\ dialed = {} /\ ids = {}
  BY DEF Init
<1>2. CASE Valid(kind, item)
  <2>1. Means(kind, item) \in IrohAddrs /\ Means(kind, item) # Malformed
    BY <1>1, <1>2, AddrOfRecord, MalformedAddrAssumption
    DEF Valid, Means, Tickets, Bytes, Text, Parses
  <2>2. origin = Means(kind, item) /\ peer = Means(kind, item).id
    BY <1>1, <1>2 DEF Init, Names, Means, TryFrom
  <2>3. kind = "record" => item.id.of = peer
    BY DEF Init, Names
  <2>4. peer \in Ids
    BY <2>1, <2>2 DEF IrohAddrs
  <2> QED
    BY <1>1, <1>2, <2>1, <2>2, <2>3, <2>4
    DEF AInv, TypeOK, StaysReachable, SamePeer, FlatOK, NamedOK
<1>3. CASE ~Valid(kind, item)
  <2>1. origin = Malformed
    BY <1>3 DEF Init
  <2>2. peer \in Ids \cup {Malformed} /\ (kind = "record" => item.id.of = peer)
    BY <1>1, <1>3 DEF Init, Names, Records, Text
  <2> QED
    BY <1>1, <1>3, <2>1, <2>2
    DEF AInv, TypeOK, StaysReachable, FlatOK, NamedOK
<1> QED BY <1>2, <1>3

\* Every step that changes what is in hand makes something valid, which stands
\* for the same address or for the flat one, or fails with something malformed.
Keeps ==
  /\ Valid(kind, item)
  /\ Valid(kind', item')
  /\ \/ Means(kind', item') = Means(kind, item) /\ UNCHANGED flat
     \/ Means(kind', item') = Flat(Means(kind, item)) /\ flat' = TRUE
  /\ UNCHANGED <<origin, peer, dialed, ids>>
Fails == ~Valid(kind, item) /\ kind' = "error" /\ UNCHANGED <<origin, peer, flat, dialed, ids>>
Dials ==
  /\ dialed' \subseteq dialed \cup (IF Valid(kind, item) THEN {Means(kind, item)} ELSE {})
  /\ ids' \subseteq ids \cup {peer}
  /\ UNCHANGED <<kind, item, origin, peer, flat>>

LEMMA StepKeeps ==
  ASSUME AInv, [Next]_vars
  PROVE  TypeOK' /\ (Keeps \/ Fails \/ Dials)
<1> DEFINE Goal == TypeOK' /\ (Keeps \/ Fails \/ Dials)
<1>0. TypeOK /\ (Valid(kind, item) => Means(kind, item) \in IrohAddrs \ {Malformed})
  BY MeansAddr DEF AInv
<1>1. ASSUME NEW k \in {"ticket", "bytes", "record"}, NEW j, NEW x,
             Convert(k, j, x), ~Valid(kind, item), UNCHANGED flat
      PROVE  Goal
  BY <1>0, <1>1 DEF Convert, Fails, TypeOK
<1>2. ASSUME Valid(kind, item), EndpointAddrFromTicket PROVE Goal
  <2>1. kind = "ticket" /\ kind' = "record" /\ item' = FromIroh(item.of) /\ flat' = TRUE
    BY <1>2 DEF EndpointAddrFromTicket, Convert
  <2>2. item.of \in IrohAddrs /\ Means(kind, item) = item.of
    BY <1>0, <1>2, <2>1 DEF Means
  <2>3. item' \in Records /\ Valid(kind', item') /\ Means(kind', item') = Flat(item.of)
    BY <2>1, <2>2, RecordOfAddr DEF Valid, Means
  <2> QED
    BY <1>0, <1>2, <2>1, <2>2, <2>3 DEF EndpointAddrFromTicket, Convert, Keeps, TypeOK
<1>3. ASSUME Valid(kind, item), TicketFromEndpointAddr \/ TicketBytes \/ TicketFromBytes PROVE Goal
  <2>1. kind' \in {"ticket", "bytes"} /\ item' = Show(Means(kind, item))
    BY <1>3 DEF TicketFromEndpointAddr, TicketBytes, TicketFromBytes, Convert, Means
  <2>2. item' \in Bytes /\ item' \in Tickets /\ item'.of = Means(kind, item)
    BY <1>0, <1>3, <2>1 DEF Show, Tickets, Bytes, Text
  <2>3. Valid(kind', item') /\ Means(kind', item') = Means(kind, item)
    BY <1>0, <1>3, <2>1, <2>2 DEF Valid, Means, Parses
  <2> QED
    BY <1>0, <1>3, <2>1, <2>2, <2>3
    DEF TicketFromEndpointAddr, TicketBytes, TicketFromBytes, Convert, Keeps, TypeOK
<1>4. CASE EndpointAddrFromTicket \/ TicketFromEndpointAddr \/ TicketBytes \/ TicketFromBytes
  <2>1. CASE Valid(kind, item)
    BY <1>2, <1>3, <1>4, <2>1
  <2>2. CASE ~Valid(kind, item)
    <3>1. UNCHANGED flat
      BY <1>0, <1>4, <2>2
      DEF EndpointAddrFromTicket, TicketFromEndpointAddr, TicketBytes, TicketFromBytes, TypeOK
    <3> QED
      BY <1>1, <1>4, <2>2, <3>1
      DEF EndpointAddrFromTicket, TicketFromEndpointAddr, TicketBytes, TicketFromBytes
  <2> QED BY <2>1, <2>2
<1>5. CASE ConnectConn \/ ConnectAddr
  <2>1. Valid(kind, item) /\ dialed' = dialed \cup {Means(kind, item)}
    BY <1>5 DEF ConnectConn, ConnectAddr, Means
  <2> QED
    BY <1>0, <1>5, <2>1 DEF ConnectConn, ConnectAddr, Dials, TypeOK
<1>6. CASE ConnectById
  <2>1. CASE kind = "ticket" /\ Valid(kind, item) /\ ids' = ids \cup {EndpointIdFromTicket(item)}
    <3>1. EndpointIdFromTicket(item) = Means(kind, item).id /\ EndpointIdFromTicket(item) \in Ids
      BY <1>0, <2>1 DEF EndpointIdFromTicket, Means, IrohAddrs
    <3>2. EndpointIdFromTicket(item) = peer
      BY <2>1, <3>1 DEF AInv, NamedOK
    <3> QED
      BY <1>0, <1>6, <2>1, <3>1, <3>2 DEF ConnectById, Dials, TypeOK
  <2>2. CASE kind = "record" /\ Parses(item.id) /\ ids' = ids \cup {item.id.of}
    <3>1. item.id.of \in Ids /\ item.id.of = peer
      BY <1>0, <2>2 DEF TypeOK, Records, Text, Parses, AInv, NamedOK
    <3> QED
      BY <1>0, <1>6, <2>2, <3>1 DEF ConnectById, Dials, TypeOK
  <2> QED BY <1>6, <2>1, <2>2 DEF ConnectById
<1>7. CASE UNCHANGED vars
  BY <1>0, <1>7 DEF vars, Dials, TypeOK
<1> QED BY <1>4, <1>5, <1>6, <1>7 DEF Next

LEMMA AInvStep == AInv /\ [Next]_vars => AInv'
<1> SUFFICES ASSUME AInv, [Next]_vars PROVE AInv'
  OBVIOUS
<1>0. TypeOK' /\ (Keeps \/ Fails \/ Dials)
  BY StepKeeps
<1>1. CASE Keeps
  <2>1. Means(kind, item) \in IrohAddrs /\ SamePeer(Means(kind, item), origin)
    BY <1>1, MeansAddr DEF Keeps, AInv, StaysReachable
  <2>2. SamePeer(Means(kind', item'), origin')
    BY <1>1, <2>1, FlatKeeps DEF Keeps, SamePeer
  <2>3. FlatOK'
    BY <1>1, <2>1, FlatKeeps DEF Keeps, AInv, FlatOK, Flat, Means
  <2>4. Means(kind', item').id = peer'
    BY <1>1, <2>1 DEF Keeps, AInv, NamedOK, Flat
  <2>5. NamedOK'
    BY <2>4 DEF NamedOK, Means, TryFrom
  <2>6. StaysReachable'
    BY <1>1, <2>2 DEF Keeps, AInv, StaysReachable, SamePeer, Means, Valid
  <2> QED BY <1>0, <2>3, <2>5, <2>6 DEF AInv
<1>2. CASE Fails
  <2>1. ~Valid(kind', item') /\ kind' # "record"
    BY <1>2 DEF Fails, Valid
  <2> QED
    BY <1>0, <1>2, <2>1 DEF Fails, AInv, StaysReachable, FlatOK, NamedOK, SamePeer
<1>3. CASE Dials
  BY <1>0, <1>3 DEF Dials, AInv, StaysReachable, FlatOK, NamedOK, SamePeer, Valid, Means
<1> QED BY <1>0, <1>1, <1>2, <1>3

\* What is in hand has the type of its kind, a record one relay at most, and only
\* addresses are dialed.
THEOREM ExchangeTypes == Spec => []TypeOK
BY AInvInit, AInvStep, PTL DEF Spec, AInv

\* Through any chain of conversions an address stays the address of the same
\* endpoint, with all its IP addresses and a relay if it had one, and whatever is
\* dialed on the way, by address or by id, is that endpoint.
THEOREM ExchangeKeepsReachability == Spec => []StaysReachable
BY AInvInit, AInvStep, PTL DEF Spec, AInv

\* After the first record no conversion changes the address any more.
THEOREM ExchangeSettles == Spec => SettlesAtOnce
<1>1. ASSUME AInv, [Next]_vars
      PROVE  [flat /\ Valid(kind, item) =>
                Valid(kind', item') /\ Means(kind', item') = Means(kind, item)]_vars
  <2> SUFFICES ASSUME flat, Valid(kind, item)
               PROVE  Valid(kind', item') /\ Means(kind', item') = Means(kind, item)
    OBVIOUS
  <2>1. Flat(Means(kind, item)) = Means(kind, item)
    BY <1>1 DEF AInv, FlatOK
  <2>2. Keeps \/ Fails \/ Dials
    BY <1>1, StepKeeps
  <2> QED BY <2>1, <2>2 DEF Keeps, Fails, Dials
<1> QED BY <1>1, AInvInit, AInvStep, PTL DEF Spec, SettlesAtOnce
=============================================================================
