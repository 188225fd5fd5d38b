------------------------ MODULE IrohConnectionProofs ------------------------
(***************************************************************************)
(* Proofs about IrohConnection, for any calls on the two sides, any        *)
(* methods, error codes, stream limit and buffer sizes.                    *)
(***************************************************************************)
EXTENDS IrohConnection, SequenceTheorems, TLAPS

-----------------------------------------------------------------------------
(* The inductive invariant.                                                *)

\* A call has a method once it is made, and a value only if it returned one.
CallInv ==
  \A c \in Calls :
    /\ st[c] = "new" <=> op[c] = "none"
    /\ val[c] # <<>> => st[c] = "ok"

\* A side that has sent a CONNECTION_CLOSE has closed, so it sends only one; what
\* a side says of the other one is what that one has sent.
SaidBy(s, r) == r.kind \in {"app", "transport"} => frame[s] = r

CloseInv ==
  /\ \A s \in Sides : frame[s] # Open => ~IsOpen(s)
  /\ \A s \in Sides : SaidBy(Peer(s), reason[s])
  /\ \A c \in Calls : op[c] = "closed" /\ val[c] # <<>> => SaidBy(Peer(Side(c)), val[c][1])

\* The streams that calls have accepted are below the mark, and no two the same.
Accepter(c) == op[c] \in Accepts /\ val[c] # <<>>

StreamInv ==
  /\ \A c \in Calls : Accepter(c) => val[c][1].id <= taken[val[c][1].lane]
  /\ \A c, d \in Calls : Accepter(c) /\ Accepter(d) /\ val[c][1] = val[d][1] => c = d

\* A datagram was sent by a call of the other side that was not refused, and is
\* in one place: a send buffer, on its way, an inbox, or with its reader.
Elems(q) == {q[i] : i \in 1..Len(q)}
Distinct(q) == \A i, j \in 1..Len(q) : q[i] = q[j] => i = j

Reader(c) == op[c] = "read_datagram" /\ val[c] # <<>>

Sent(d) == op[d] \in {"send_datagram", "try_send_datagram"} /\ st[d] \in {"ok", "cancelled"}

DatagramInv ==
  /\ \A s \in Sides : Distinct(out[s]) /\ Distinct(inbox[s])
  /\ \A s \in Sides : \A d \in Elems(out[s]) : Sent(d) /\ Side(d) = s
  /\ \A d \in air : Sent(d) /\ d \notin Elems(out[Side(d)])
  /\ \A s \in Sides : \A d \in Elems(inbox[s]) :
       Sent(d) /\ Side(d) = Peer(s) /\ d \notin air /\ d \notin Elems(out[Side(d)])
  /\ \A c \in Calls : Reader(c) => LET d == val[c][1] IN
       /\ Sent(d) /\ Side(d) = Peer(Side(c))
       /\ d \notin air /\ d \notin Elems(out[Side(d)]) /\ d \notin Elems(inbox[Side(c)])
  /\ \A c, d \in Calls : Reader(c) /\ Reader(d) /\ val[c][1] = val[d][1] => c = d

CInv ==
  /\ TypeOK /\ CallInv /\ CloseInv /\ TokenMeansClosed
  /\ StreamInv /\ DatagramInv

-----------------------------------------------------------------------------
(* Facts about the operators.                                              *)

LEMMA PeerFacts ==
  \A s \in Sides : Peer(s) \in Sides /\ Peer(s) # s /\ Peer(Peer(s)) = s
BY DEF Sides, Peer

LEMMA SideFacts ==
  \A c \in Calls : Side(c) \in Sides /\ Peer(Side(c)) \in Sides
BY CallsAssumption, PeerFacts

LEMMA ReasonFacts ==
  /\ Open \in Reasons /\ Reason("local", 0) \in Reasons /\ Reason("lost", 0) \in Reasons
  /\ Reason("transport", 0) \in Reasons
  /\ \A n \in Codes \cup {0} : Reason("app", n) \in Reasons
<1>1. \A k \in {"open", "local", "app", "transport", "lost"}, n \in Codes \cup {0} : Reason(k, n) \in Reasons
  BY DEF Reasons
<1> QED BY <1>1 DEF Open

\* What is left in a queue when its first is taken.
LEMMA TailFacts ==
  ASSUME NEW S, NEW q \in Seq(S), q # <<>>
  PROVE  /\ Tail(q) \in Seq(S) /\ Len(Tail(q)) = Len(q) - 1 /\ Len(q) \in Nat \ {0}
         /\ Head(q) = q[1] /\ Head(q) \in Elems(q) /\ Head(q) \in S
         /\ Elems(Tail(q)) \subseteq Elems(q)
         /\ Distinct(q) => Distinct(Tail(q)) /\ Head(q) \notin Elems(Tail(q))
<1>1. Len(q) \in Nat \ {0} /\ Head(q) = q[1] /\ q[1] \in S
  <2>1. Len(q) \in Nat \ {0}
    BY EmptySeq
  <2> QED BY <2>1, ElementOfSeq
<1>2. /\ Tail(q) \in Seq(S) /\ Len(Tail(q)) = Len(q) - 1
      /\ \A i \in 1..Len(Tail(q)) : Tail(q)[i] = q[i + 1] /\ i + 1 \in 1..Len(q)
  BY <1>1, HeadTailProperties
<1>3. Head(q) \in Elems(q) /\ Elems(Tail(q)) \subseteq Elems(q)
  BY <1>1, <1>2 DEF Elems
<1>4. ASSUME Distinct(q) PROVE Distinct(Tail(q)) /\ Head(q) \notin Elems(Tail(q))
  <2>1. \A i, j \in 1..Len(Tail(q)) : q[i + 1] = q[j + 1] => i + 1 = j + 1
    BY <1>2, <1>4 DEF Distinct
  <2>2. Distinct(Tail(q))
    BY <1>1, <1>2, <2>1 DEF Distinct
  <2>3. \A i \in 1..Len(Tail(q)) : q[i + 1] # q[1]
    BY <1>1, <1>2, <1>4 DEF Distinct
  <2> QED BY <1>1, <1>2, <2>2, <2>3 DEF Elems
<1> QED BY <1>1, <1>2, <1>3, <1>4

LEMMA AppendFacts ==
  ASSUME NEW S, NEW q \in Seq(S), NEW d \in S
  PROVE  /\ Append(q, d) \in Seq(S) /\ Len(Append(q, d)) = Len(q) + 1 /\ Len(q) \in Nat
         /\ Elems(Append(q, d)) = Elems(q) \cup {d}
         /\ Distinct(q) /\ d \notin Elems(q) => Distinct(Append(q, d))
<1>1. /\ Append(q, d) \in Seq(S) /\ Len(Append(q, d)) = Len(q) + 1 /\ Len(q) \in Nat
      /\ \A i \in 1..Len(q) : Append(q, d)[i] = q[i]
      /\ Append(q, d)[Len(q) + 1] = d
  BY AppendProperties
<1>2. \A i \in 1..Len(Append(q, d)) : i \in 1..Len(q) \/ i = Len(q) + 1
  BY <1>1
<1>3. Elems(Append(q, d)) = Elems(q) \cup {d}
  BY <1>1, <1>2 DEF Elems
<1>4. Distinct(q) /\ d \notin Elems(q) => Distinct(Append(q, d))
  BY <1>1, <1>2 DEF Distinct, Elems
<1> QED BY <1>1, <1>3, <1>4

LEMMA ElemsFacts == ASSUME NEW S, NEW q \in Seq(S) PROVE Elems(q) \subseteq S
BY ElementOfSeq DEF Elems

LEMMA EmptyFacts == Elems(<<>>) = {} /\ Distinct(<<>>) /\ \A S : <<>> \in Seq(S)
BY EmptySeq DEF Elems, Distinct

\* A handle goes away: the connection stays as it is, or that was the last one.
LEMMA LastHandleFacts ==
  ASSUME TypeOK, NEW s \in Sides, NEW q \in Seq(Calls), Len(q) <= SendBuffer, LastHandle(s, q)
  PROVE  /\ out' \in [Sides -> Seq(Calls)] /\ out'[s] \in {q, <<>>} /\ Len(out'[s]) <= SendBuffer
         /\ \A t \in Sides \ {s} : out'[t] = out[t]
         /\ reason' \in [Sides -> Reasons] /\ frame' \in [Sides -> Reasons]
         /\ \/ UNCHANGED <<reason, frame>>
            \/ /\ IsOpen(s) /\ held'[s] = {} /\ Waiting(s)' = {}
               /\ reason' = [reason EXCEPT ![s] = Reason("local", 0)]
               /\ frame' = [frame EXCEPT ![s] = Reason("app", 0)]
<1>1. CASE IsOpen(s) /\ held'[s] = {} /\ Waiting(s)' = {}
  <2>1. CloseNow(s, 0)
    BY <1>1 DEF LastHandle
  <2>2. out' \in [Sides -> Seq(Calls)] /\ out'[s] = <<>> /\ \A t \in Sides \ {s} : out'[t] = out[t]
    BY <2>1, EmptyFacts DEF CloseNow, TypeOK
  <2>3. Len(out'[s]) <= SendBuffer
    BY <2>2, BoundsAssumption
  <2>4. reason' \in [Sides -> Reasons] /\ frame' \in [Sides -> Reasons]
    BY <2>1, ReasonFacts DEF CloseNow, TypeOK
  <2> QED BY <1>1, <2>1, <2>2, <2>3, <2>4 DEF CloseNow
<1>2. CASE ~(IsOpen(s) /\ held'[s] = {} /\ Waiting(s)' = {})
  <2>1. out' = [out EXCEPT ![s] = q] /\ UNCHANGED <<reason, frame>>
    BY <1>2 DEF LastHandle, closeVars
  <2> QED BY <2>1 DEF TypeOK
<1> QED BY <1>1, <1>2

\* A call returns v, or nobody gets it.
LEMMA ReturnFacts ==
  ASSUME TypeOK, NEW c \in Calls, NEW v \in Seq(Values), Return(c, v)
  PROVE  /\ st' \in [Calls -> {"new", "waiting"} \cup Results]
         /\ val' \in [Calls -> Seq(Values)]
         /\ \A d \in Calls \ {c} : st'[d] = st[d] /\ val'[d] = val[d]
         /\ \/ st'[c] = "ok" /\ val'[c] = v
            \/ st'[c] = "cancelled" /\ val'[c] = val[c]
<1>1. CASE st' = [st EXCEPT ![c] = "ok"] /\ val' = [val EXCEPT ![c] = v]
  <2>1. val' \in [Calls -> Seq(Values)]
    BY <1>1 DEF TypeOK
  <2>2. st' \in [Calls -> {"new", "waiting"} \cup Results]
    BY <1>1 DEF TypeOK, Results
  <2>3. st'[c] = "ok" /\ val'[c] = v
    BY <1>1 DEF TypeOK
  <2>4. \A d \in Calls \ {c} : st'[d] = st[d] /\ val'[d] = val[d]
    BY <1>1 DEF TypeOK
  <2> QED BY <2>1, <2>2, <2>3, <2>4
<1>2. CASE st' = [st EXCEPT ![c] = "cancelled"] /\ UNCHANGED val
  BY <1>2 DEF TypeOK, Results
<1> QED BY <1>1, <1>2 DEF Return

\* A call fails with e.
LEMMA FailFacts ==
  ASSUME TypeOK, NEW c \in Calls, NEW e \in Results, Fail(c, e)
  PROVE  /\ st' \in [Calls -> {"new", "waiting"} \cup Results]
         /\ \A d \in Calls \ {c} : st'[d] = st[d]
         /\ st'[c] = e /\ UNCHANGED <<op, val, held>>
         /\ LastHandle(Side(c), out[Side(c)])
BY DEF Fail, TypeOK

LEMMA MapConnErrFacts == \A r : MapConnErr(r) \in Results
BY DEF MapConnErr, Results

\* What type correctness asks of one call's value.
ValueOK(c) ==
  val[c] # <<>> =>
    \/ op[c] \in Accepts /\ val[c][1] \in Streams
    \/ op[c] = "read_datagram" /\ val[c][1] \in Calls
    \/ op[c] = "closed" /\ val[c][1] \in Reasons \ {Open}

\* A side's buffer is as it was or empty, and its reasons are reasons: what every
\* step that lets go of a handle does to the rest of the connection.
LEMMA LetsGo ==
  ASSUME TypeOK, NEW s \in Sides, LastHandle(s, out[s])
  PROVE  /\ out' \in [Sides -> Seq(Calls)] /\ \A t \in Sides : Len(out'[t]) <= SendBuffer
         /\ reason' \in [Sides -> Reasons] /\ frame' \in [Sides -> Reasons]
         /\ \A t \in Sides : out'[t] \in {out[t], <<>>}
<1>1. out[s] \in Seq(Calls) /\ \A t \in Sides : Len(out[t]) <= SendBuffer
  BY DEF TypeOK
<1> QED BY <1>1, LastHandleFacts

-----------------------------------------------------------------------------
(* Types.                                                                  *)

LEMMA TypeInit == Init => TypeOK
<1> SUFFICES ASSUME Init PROVE TypeOK
  OBVIOUS
<1>1. /\ op \in [Calls -> AllMethods \cup {"none"}] /\ st \in [Calls -> {"new", "waiting"} \cup Results]
      /\ val \in [Calls -> Seq(Values)]
      /\ \A c \in Calls : val[c] = <<>>
  BY EmptyFacts DEF Init
<1>2. /\ opened \in [Lanes -> Seq(Calls)] /\ known \in [Lanes -> Nat] /\ taken \in [Lanes -> Nat]
      /\ \A l \in Lanes : taken[l] <= known[l] /\ known[l] <= Len(opened[l])
  BY EmptyFacts DEF Init
<1>3. /\ held \in [Sides -> SUBSET (Calls \cup {"conn"})] /\ air \subseteq Calls
      /\ out \in [Sides -> Seq(Calls)] /\ inbox \in [Sides -> Seq(Calls)]
      /\ \A s \in Sides : Len(out[s]) <= SendBuffer /\ Len(inbox[s]) <= RecvBuffer
  BY EmptyFacts, BoundsAssumption DEF Init
<1>4. reason \in [Sides -> Reasons] /\ frame \in [Sides -> Reasons]
  BY ReasonFacts DEF Init
<1> QED BY <1>1, <1>2, <1>3, <1>4 DEF TypeOK

-----------------------------------------------------------------------------
(* The end of the connection, for each side.                               *)

\* Which steps end the connection on a side.
EndStep ==
  \/ UNCHANGED <<reason, frame>>
  \/ \E s \in Sides, q \in Seq(Calls) : Len(q) <= SendBuffer /\ LastHandle(s, q)
  \/ \E s \in Sides, n \in Codes : ShutdownOnce(s, n)
  \/ \E s \in Sides : PeerGone(s) \/ GiveUp(s)

LEMMA EndSteps == TypeOK /\ [Next]_vars => EndStep
<1> SUFFICES ASSUME TypeOK, [Next]_vars PROVE EndStep
  OBVIOUS
<1>1. ASSUME NEW s \in Sides, LastHandle(s, out[s]) PROVE EndStep
  BY <1>1 DEF TypeOK, EndStep
<1>2. ASSUME NEW c \in Calls, NEW e, Fail(c, e) PROVE EndStep
  BY <1>1, <1>2, SideFacts DEF Fail
<1>3. ASSUME NEW c \in Calls, NEW v, GiveStream(c, v) PROVE EndStep
  BY <1>1, <1>3, SideFacts DEF GiveStream
<1>4. ASSUME NEW c \in Calls, OpenStream(c) \/ AcceptStream(c) PROVE EndStep
  BY <1>2, <1>3, <1>4 DEF OpenStream, AcceptStream
<1>5. ASSUME NEW c \in Calls, SendDatagram(c) PROVE EndStep
  <2>1. CASE HasRoom(Side(c)) /\ LastHandle(Side(c), Append(out[Side(c)], c))
    <3>1. out[Side(c)] \in Seq(Calls) /\ Side(c) \in Sides
      BY SideFacts DEF TypeOK
    <3>2. Append(out[Side(c)], c) \in Seq(Calls) /\ Len(Append(out[Side(c)], c)) <= SendBuffer
      BY <2>1, <3>1, AppendFacts, BoundsAssumption DEF HasRoom
    <3> QED BY <2>1, <3>1, <3>2 DEF EndStep
  <2> QED BY <1>2, <1>5, <2>1 DEF SendDatagram
<1>6. ASSUME NEW c \in Calls, RefuseDatagram(c) \/ Cancel(c) PROVE EndStep
  BY <1>2, <1>6 DEF RefuseDatagram, Cancel
<1>7. ASSUME NEW c \in Calls, ReadDatagram(c) PROVE EndStep
  BY <1>1, <1>2, <1>7, SideFacts DEF ReadDatagram
<1>8. ASSUME NEW s \in Sides, NEW o, Drop(s, o) PROVE EndStep
  BY <1>1, <1>8 DEF Drop
<1>9. ASSUME NEW s \in Sides, NEW n \in Codes, Shutdown(s, n) PROVE EndStep
  BY <1>9 DEF Shutdown, EndStep
<1>10. ASSUME NEW s \in Sides, PeerGone(s) \/ GiveUp(s) PROVE EndStep
  BY <1>10 DEF EndStep
<1>11. ASSUME NEW c \in Calls,
              \/ Closed(c) \/ TrySendDatagram(c) \/ Arrive(c) \/ LoseDatagram(c)
              \/ \E m \in AllMethods : Call(c, m)
       PROVE  EndStep
  BY <1>11 DEF Closed, TrySendDatagram, Arrive, LoseDatagram, Call, closeVars, EndStep
<1>12. ASSUME NEW s \in Sides, Transmit(s) PROVE EndStep
  BY <1>12 DEF Transmit, closeVars, EndStep
<1>13. ASSUME NEW l \in Lanes, NEW i, Announce(l, i) PROVE EndStep
  BY <1>13 DEF Announce, closeVars, EndStep
<1>14. CASE UNCHANGED vars
  BY <1>14 DEF vars, closeVars, EndStep
<1> QED BY <1>4, <1>5, <1>6, <1>7, <1>8, <1>9, <1>10, <1>11, <1>12, <1>13, <1>14
        DEF Next, Progress, Network

\* What a step makes of the reason and the CONNECTION_CLOSE of side s.
EndMove(s) ==
  \/ reason'[s] = reason[s] /\ frame'[s] = frame[s]
  \/ /\ IsOpen(s) /\ reason'[s] = Reason("local", 0)
     /\ \/ frame'[s] = Reason("app", 0) /\ held'[s] = {} /\ Waiting(s)' = {}
        \/ \E n \in Codes : frame'[s] = Reason("app", n)
  \/ /\ IsOpen(s) /\ frame'[s] \in {frame[s], Reason("transport", 0)}
     /\ reason'[s] = Reason("lost", 0)
  \/ /\ IsOpen(s) /\ frame'[s] = frame[s]
     /\ frame[Peer(s)] # Open /\ reason'[s] = frame[Peer(s)] /\ frame'[Peer(s)] = frame[Peer(s)]
  \/ ~IsOpen(s) /\ reason'[s] = Reason("local", 0) /\ frame'[s] = frame[s]

LEMMA EndMoves ==
  ASSUME TypeOK, [Next]_vars
  PROVE  /\ reason' \in [Sides -> Reasons] /\ frame' \in [Sides -> Reasons]
         /\ \A s \in Sides : EndMove(s)
<1>0. reason \in [Sides -> Reasons] /\ frame \in [Sides -> Reasons]
  BY DEF TypeOK
<1>1. CASE UNCHANGED <<reason, frame>>
  BY <1>0, <1>1 DEF EndMove
<1>2. ASSUME NEW s \in Sides, NEW q \in Seq(Calls), Len(q) <= SendBuffer, LastHandle(s, q)
      PROVE  /\ reason' \in [Sides -> Reasons] /\ frame' \in [Sides -> Reasons]
             /\ \A t \in Sides : EndMove(t)
  BY <1>0, <1>2, LastHandleFacts DEF EndMove
<1>3. ASSUME NEW s \in Sides, NEW n \in Codes, ShutdownOnce(s, n)
      PROVE  /\ reason' \in [Sides -> Reasons] /\ frame' \in [Sides -> Reasons]
             /\ \A t \in Sides : EndMove(t)
  <2>1. CASE IsOpen(s) /\ CloseNow(s, n)
    <3>1. reason' \in [Sides -> Reasons] /\ frame' \in [Sides -> Reasons]
      BY <1>0, <2>1, ReasonFacts DEF CloseNow
    <3>2. /\ reason'[s] = Reason("local", 0) /\ frame'[s] = Reason("app", n)
          /\ \A t \in Sides \ {s} : reason'[t] = reason[t] /\ frame'[t] = frame[t]
      BY <1>0, <2>1 DEF CloseNow
    <3> QED BY <2>1, <3>1, <3>2 DEF EndMove
  <2>2. CASE ~IsOpen(s) /\ UNCHANGED <<closeVars, out>>
    BY <1>0, <2>2 DEF EndMove, closeVars
  <2>3. CASE ~IsOpen(s) /\ reason' = [reason EXCEPT ![s] = Reason("local", 0)] /\ UNCHANGED <<frame, out>>
    BY <1>0, <2>3, ReasonFacts DEF EndMove
  <2> QED BY <1>3, <2>1, <2>2, <2>3 DEF ShutdownOnce
<1>4. ASSUME NEW s \in Sides, PeerGone(s)
      PROVE  /\ reason' \in [Sides -> Reasons] /\ frame' \in [Sides -> Reasons]
             /\ \A t \in Sides : EndMove(t)
  <2>1. PICK r \in Reasons :
          /\ IsOpen(s) /\ UNCHANGED frame /\ reason' = [reason EXCEPT ![s] = r]
          /\ r = Reason("lost", 0) \/ (frame[Peer(s)] # Open /\ r = frame[Peer(s)])
    BY <1>0, <1>4, ReasonFacts, PeerFacts DEF PeerGone, Learn
  <2>2. reason' \in [Sides -> Reasons] /\ reason'[s] = r /\ \A t \in Sides \ {s} : reason'[t] = reason[t]
    BY <1>0, <2>1
  <2> QED BY <1>0, <2>1, <2>2 DEF EndMove
<1>5. ASSUME NEW s \in Sides, GiveUp(s)
      PROVE  /\ reason' \in [Sides -> Reasons] /\ frame' \in [Sides -> Reasons]
             /\ \A t \in Sides : EndMove(t)
  <2>1. /\ IsOpen(s) /\ reason' = [reason EXCEPT ![s] = Reason("lost", 0)]
        /\ frame' = frame \/ frame' = [frame EXCEPT ![s] = Reason("transport", 0)]
    BY <1>5 DEF GiveUp, Learn
  <2>2. /\ reason' \in [Sides -> Reasons] /\ reason'[s] = Reason("lost", 0)
        /\ \A t \in Sides \ {s} : reason'[t] = reason[t]
    BY <1>0, <2>1, ReasonFacts
  <2>3. /\ frame' \in [Sides -> Reasons] /\ frame'[s] \in {frame[s], Reason("transport", 0)}
        /\ \A t \in Sides \ {s} : frame'[t] = frame[t]
    BY <1>0, <2>1, ReasonFacts
  <2> QED BY <2>1, <2>2, <2>3 DEF EndMove
<1> QED BY <1>1, <1>2, <1>3, <1>4, <1>5, EndSteps DEF EndStep

-----------------------------------------------------------------------------
(* Calls.                                                                  *)

LEMMA SingleFacts == \A v \in Values : <<v>> \in Seq(Values) /\ <<v>>[1] = v /\ <<v>> # <<>>
OBVIOUS

\* The application makes call c.
Made(c) ==
  /\ st[c] = "new" /\ val'[c] = val[c] /\ op'[c] \in AllMethods /\ "conn" \in held[Side(c)]
  /\ \/ st'[c] = "waiting"
     \/ op'[c] = "try_send_datagram" /\ st'[c] \in {"ok", "err"}

LaneOf(c) == <<Peer(Side(c)), Kind(op[c])>>

\* What a call that waits can return.
Returns(c) ==
  \/ st'[c] = "cancelled" /\ val'[c] = val[c]
  \/ st'[c] = "err" /\ val'[c] = val[c]
  \/ st'[c] = "ok" /\ op[c] \in Opens \cup {"send_datagram"} /\ val'[c] = <<>>
  \/ st'[c] = "closed" /\ val'[c] = val[c] /\ MapConnErr(reason[Side(c)]) = "closed"
  \/ /\ st'[c] = "ok" /\ op[c] = "closed"
     /\ val'[c] = <<reason[Side(c)]>> /\ ~IsOpen(Side(c))
  \/ /\ st'[c] = "ok" /\ op[c] \in Accepts /\ TakeNext(LaneOf(c))
     /\ val'[c] = <<Stream(LaneOf(c), taken[LaneOf(c)] + 1)>>
  \/ /\ st'[c] = "ok" /\ op[c] = "read_datagram" /\ inbox[Side(c)] # <<>>
     /\ Received(Side(c)) /\ val'[c] = <<Head(inbox[Side(c)])>>

CallMove ==
  /\ op' \in [Calls -> AllMethods \cup {"none"}]
  /\ st' \in [Calls -> {"new", "waiting"} \cup Results]
  /\ val' \in [Calls -> Seq(Values)]
  /\ \/ UNCHANGED <<op, st, val>>
     \/ \E c \in Calls :
          /\ Made(c) \/ (st[c] = "waiting" /\ op'[c] = op[c] /\ Returns(c))
          /\ \A d \in Calls \ {c} : op'[d] = op[d] /\ st'[d] = st[d] /\ val'[d] = val[d]

LEMMA LaneFacts ==
  \A c \in Calls : LaneOf(c) \in Lanes /\ <<Side(c), Kind(op[c])>> \in Lanes
BY SideFacts DEF LaneOf, Lanes, Kind

LEMMA CallMoves == TypeOK /\ [Next]_vars => CallMove
<1> SUFFICES ASSUME TypeOK, [Next]_vars PROVE CallMove
  OBVIOUS
<1>0. /\ op \in [Calls -> AllMethods \cup {"none"}]
      /\ st \in [Calls -> {"new", "waiting"} \cup Results]
      /\ val \in [Calls -> Seq(Values)]
  BY DEF TypeOK
<1>1. ASSUME NEW c \in Calls, NEW m \in AllMethods, Call(c, m) PROVE CallMove
  <2>1. /\ op' = [op EXCEPT ![c] = m] /\ st' = [st EXCEPT ![c] = "waiting"] /\ UNCHANGED val
        /\ st[c] = "new" /\ "conn" \in held[Side(c)]
    BY <1>1 DEF Call
  <2>2. op' \in [Calls -> AllMethods \cup {"none"}] /\ st' \in [Calls -> {"new", "waiting"} \cup Results]
    BY <1>0, <2>1
  <2> QED BY <1>0, <2>1, <2>2 DEF CallMove, Made
<1>2. ASSUME NEW c \in Calls, TrySendDatagram(c) PROVE CallMove
  <2>1. PICK r \in {"ok", "err"} :
          /\ op' = [op EXCEPT ![c] = "try_send_datagram"] /\ st' = [st EXCEPT ![c] = r] /\ UNCHANGED val
          /\ st[c] = "new" /\ "conn" \in held[Side(c)]
    BY <1>2 DEF TrySendDatagram
  <2>2. op' \in [Calls -> AllMethods \cup {"none"}] /\ st' \in [Calls -> {"new", "waiting"} \cup Results]
    BY <1>0, <2>1 DEF AllMethods, Results
  <2> QED BY <1>0, <2>1, <2>2 DEF CallMove, Made, AllMethods
<1>3. ASSUME NEW c \in Calls, st[c] = "waiting", NEW e \in Results, Fail(c, e),
             e \in {"cancelled", "err"} \/ (e = "closed" /\ MapConnErr(reason[Side(c)]) = "closed")
      PROVE  CallMove
  <2>1. Returns(c)
    BY <1>3, FailFacts DEF Returns
  <2> QED BY <1>0, <1>3, <2>1, FailFacts DEF CallMove
<1>4. ASSUME NEW c \in Calls, st[c] = "waiting", Fail(c, MapConnErr(reason[Side(c)])) PROVE CallMove
  BY <1>3, <1>4, MapConnErrFacts DEF MapConnErr
<1>5. ASSUME NEW c \in Calls, st[c] = "waiting", UNCHANGED op, NEW v \in Seq(Values), Return(c, v),
             st'[c] = "ok" /\ val'[c] = v => Returns(c)
      PROVE  CallMove
  <2>1. Returns(c)
    BY <1>5, ReturnFacts DEF Returns
  <2> QED BY <1>0, <1>5, <2>1, ReturnFacts DEF CallMove
<1>6. ASSUME NEW c \in Calls, OpenStream(c) PROVE CallMove
  <2>1. CASE GiveStream(c, <<>>)
    BY <1>5, <1>6, <2>1, EmptyFacts DEF OpenStream, GiveStream, Returns
  <2> QED BY <1>4, <1>6, <2>1 DEF OpenStream
<1>7. ASSUME NEW c \in Calls, AcceptStream(c) PROVE CallMove
  <2> DEFINE v == Stream(LaneOf(c), taken[LaneOf(c)] + 1)
  <2>1. CASE TakeNext(LaneOf(c)) /\ GiveStream(c, <<v>>)
    <3>1. v \in Values
      <4>1. LaneOf(c) \in Lanes /\ taken[LaneOf(c)] \in Nat
        BY LaneFacts DEF TypeOK
      <4>2. taken[LaneOf(c)] + 1 \in Nat \ {0}
        BY <4>1
      <4>3. v \in Streams
        BY <4>1, <4>2 DEF Stream, Streams
      <4> QED BY <4>3 DEF Values
    <3> QED BY <1>5, <1>7, <2>1, <3>1, SingleFacts DEF AcceptStream, GiveStream, Returns
  <2> QED BY <1>4, <1>7, <2>1 DEF AcceptStream, LaneOf
<1>8. ASSUME NEW c \in Calls, SendDatagram(c) PROVE CallMove
  <2>1. CASE Return(c, <<>>) /\ UNCHANGED op
    BY <1>5, <1>8, <2>1, EmptyFacts DEF SendDatagram, Runs, Returns
  <2> QED BY <1>3, <1>8, <2>1 DEF SendDatagram, Runs, Results
<1>9. ASSUME NEW c \in Calls, RefuseDatagram(c) \/ Cancel(c) PROVE CallMove
  BY <1>3, <1>9 DEF RefuseDatagram, Cancel, Runs, Results
<1>10. ASSUME NEW c \in Calls, ReadDatagram(c) PROVE CallMove
  <2>1. CASE /\ inbox[Side(c)] # <<>> /\ Received(Side(c))
             /\ Return(c, <<Head(inbox[Side(c)])>>) /\ UNCHANGED op
    <3>1. inbox[Side(c)] \in Seq(Calls)
      BY SideFacts DEF TypeOK
    <3>2. Head(inbox[Side(c)]) \in Values
      BY <2>1, <3>1, TailFacts DEF Values
    <3> QED BY <1>5, <1>10, <2>1, <3>2, SingleFacts DEF ReadDatagram, Runs, Returns
  <2> QED BY <1>4, <1>10, <2>1 DEF ReadDatagram, Runs
<1>11. ASSUME NEW c \in Calls, Closed(c) PROVE CallMove
  <2>1. reason[Side(c)] \in Values
    BY SideFacts DEF TypeOK, Values
  <2> QED BY <1>5, <1>11, <2>1, SingleFacts DEF Closed, Runs, Returns
<1>12. ASSUME UNCHANGED <<op, st, val>> PROVE CallMove
  BY <1>0, <1>12 DEF CallMove
<1>13. ASSUME NEW s \in Sides, \/ Transmit(s) \/ PeerGone(s) \/ GiveUp(s)
                              \/ (\E n \in Codes : Shutdown(s, n))
                              \/ \E o \in Calls \cup {"conn"} : Drop(s, o)
       PROVE  CallMove
  BY <1>12, <1>13 DEF Transmit, PeerGone, GiveUp, Shutdown, Drop, callVars
<1>14. ASSUME NEW d \in Calls, Arrive(d) \/ LoseDatagram(d) PROVE CallMove
  BY <1>12, <1>14 DEF Arrive, LoseDatagram, callVars
<1>15. ASSUME NEW l \in Lanes, NEW i, Announce(l, i) PROVE CallMove
  BY <1>12, <1>15 DEF Announce, callVars
<1>16. CASE UNCHANGED vars
  BY <1>12, <1>16 DEF vars, callVars
<1> QED BY <1>1, <1>2, <1>6, <1>7, <1>8, <1>9, <1>10, <1>11, <1>13, <1>14, <1>15, <1>16
        DEF Next, Progress, Network

LEMMA CallInvStep == TypeOK /\ CallInv /\ [Next]_vars => CallInv'
<1> SUFFICES ASSUME TypeOK, CallInv, [Next]_vars, NEW c \in Calls
             PROVE  (st'[c] = "new" <=> op'[c] = "none") /\ (val'[c] # <<>> => st'[c] = "ok")
  BY DEF CallInv
<1>1. CallMove /\ (st[c] = "new" <=> op[c] = "none") /\ (val[c] # <<>> => st[c] = "ok")
  BY CallMoves DEF CallInv
<1>2. CASE Made(c)
  BY <1>1, <1>2 DEF Made, AllMethods, Opens, Accepts
<1>3. CASE st[c] = "waiting" /\ op'[c] = op[c] /\ Returns(c)
  BY <1>1, <1>3 DEF Returns
<1> QED BY <1>1, <1>2, <1>3 DEF CallMove

-----------------------------------------------------------------------------
(* Streams and the objects that hold them.                                 *)

\* A lane only grows, and no further than the one before it.
LaneMove ==
  /\ opened' \in [Lanes -> Seq(Calls)]
  /\ known' \in [Lanes -> Nat] /\ taken' \in [Lanes -> Nat]
  /\ \A l \in Lanes : taken'[l] <= known'[l] /\ known'[l] <= Len(opened'[l])
  /\ \A l \in Lanes : taken[l] <= taken'[l]

LEMMA LaneMoves == TypeOK /\ [Next]_vars => LaneMove
<1> SUFFICES ASSUME TypeOK, [Next]_vars PROVE LaneMove
  OBVIOUS
<1>0. /\ opened \in [Lanes -> Seq(Calls)] /\ known \in [Lanes -> Nat] /\ taken \in [Lanes -> Nat]
      /\ \A l \in Lanes : taken[l] <= known[l] /\ known[l] <= Len(opened[l])
      /\ \A l \in Lanes : Len(opened[l]) \in Nat
  BY DEF TypeOK
<1>1. ASSUME UNCHANGED <<opened, known, taken>> PROVE LaneMove
  BY <1>0, <1>1 DEF LaneMove
<1>2. ASSUME NEW c \in Calls, OpenStream(c) PROVE LaneMove
  <2> DEFINE l == <<Side(c), Kind(op[c])>>
  <2>1. CASE opened' = [opened EXCEPT ![l] = Append(@, c)] /\ UNCHANGED <<known, taken>>
    <3>1. l \in Lanes
      BY LaneFacts
    <3> HIDE DEF l
    <3>2. Append(opened[l], c) \in Seq(Calls) /\ Len(Append(opened[l], c)) = Len(opened[l]) + 1
      BY <1>0, <3>1, AppendFacts
    <3>3. opened' \in [Lanes -> Seq(Calls)] /\ \A k \in Lanes : Len(opened[k]) <= Len(opened'[k])
      BY <1>0, <2>1, <3>1, <3>2
    <3>4. \A k \in Lanes : Len(opened'[k]) \in Nat
      BY <3>3
    <3> QED BY <1>0, <2>1, <3>3, <3>4 DEF LaneMove
  <2> QED BY <1>1, <1>2, <2>1 DEF OpenStream
<1>3. ASSUME NEW l \in Lanes, NEW i \in 1..Len(opened[l]), Announce(l, i) PROVE LaneMove
  <2>1. /\ i \in (known[l] + 1)..Len(opened[l]) /\ known' = [known EXCEPT ![l] = i]
        /\ UNCHANGED <<opened, taken>>
    BY <1>3 DEF Announce
  <2>2. i \in Nat /\ known[l] < i /\ i <= Len(opened[l])
    BY <1>0, <2>1
  <2> QED BY <1>0, <2>1, <2>2 DEF LaneMove
<1>4. ASSUME NEW c \in Calls, AcceptStream(c) PROVE LaneMove
  <2>1. CASE taken[LaneOf(c)] < known[LaneOf(c)] /\ TakeNext(LaneOf(c)) /\ UNCHANGED <<opened, known>>
    <3>1. LaneOf(c) \in Lanes
      BY LaneFacts
    <3> QED BY <1>0, <2>1, <3>1 DEF TakeNext, LaneMove
  <2> QED BY <1>1, <1>4, <2>1 DEF AcceptStream, LaneOf
<1>5. ASSUME NEW c \in Calls,
             \/ SendDatagram(c) \/ ReadDatagram(c) \/ Closed(c) \/ Cancel(c) \/ TrySendDatagram(c)
             \/ RefuseDatagram(c) \/ LoseDatagram(c) \/ Arrive(c) \/ \E m \in AllMethods : Call(c, m)
      PROVE  LaneMove
  BY <1>1, <1>5 DEF SendDatagram, ReadDatagram, Closed, Cancel, TrySendDatagram, RefuseDatagram,
                    LoseDatagram, Arrive, Call, streamVars
<1>6. ASSUME NEW s \in Sides,
             \/ Transmit(s) \/ PeerGone(s) \/ GiveUp(s) \/ (\E n \in Codes : Shutdown(s, n))
             \/ \E o \in Calls \cup {"conn"} : Drop(s, o)
      PROVE  LaneMove
  BY <1>1, <1>6 DEF Transmit, PeerGone, GiveUp, Shutdown, Drop, streamVars
<1>7. CASE UNCHANGED vars
  BY <1>1, <1>7 DEF vars, streamVars
<1> QED BY <1>2, <1>3, <1>4, <1>5, <1>6, <1>7 DEF Next, Progress, Network

\* An application gets an object only from a call that was in flight.
HeldMove ==
  /\ held' \in [Sides -> SUBSET (Calls \cup {"conn"})]
  /\ \A s \in Sides : Waiting(s) = {} => held'[s] \subseteq held[s]

LEMMA HeldMoves == TypeOK /\ [Next]_vars => HeldMove
<1> SUFFICES ASSUME TypeOK, [Next]_vars PROVE HeldMove
  OBVIOUS
<1>0. held \in [Sides -> SUBSET (Calls \cup {"conn"})]
  BY DEF TypeOK
<1>1. ASSUME UNCHANGED held PROVE HeldMove
  BY <1>0, <1>1 DEF HeldMove
<1>2. ASSUME NEW s \in Sides, NEW o, Drop(s, o) PROVE HeldMove
  BY <1>0, <1>2 DEF Drop, HeldMove
<1>3. ASSUME NEW c \in Calls, st[c] = "waiting", NEW v, GiveStream(c, v) PROVE HeldMove
  <2>1. Side(c) \in Sides /\ c \in Waiting(Side(c))
    BY <1>3, SideFacts DEF Waiting
  <2>2. \/ held' = [held EXCEPT ![Side(c)] = @ \cup {c}]
        \/ held' = [held EXCEPT ![Side(c)] = @]
    BY <1>3 DEF GiveStream
  <2> QED BY <1>0, <2>1, <2>2 DEF HeldMove
<1>4. ASSUME NEW c \in Calls, OpenStream(c) \/ AcceptStream(c) PROVE HeldMove
  BY <1>1, <1>3, <1>4 DEF OpenStream, AcceptStream, Fail
<1>5. ASSUME NEW c \in Calls,
             \/ SendDatagram(c) \/ ReadDatagram(c) \/ Closed(c) \/ Cancel(c) \/ TrySendDatagram(c)
             \/ RefuseDatagram(c) \/ LoseDatagram(c) \/ Arrive(c) \/ \E m \in AllMethods : Call(c, m)
      PROVE  HeldMove
  BY <1>1, <1>5 DEF SendDatagram, ReadDatagram, Closed, Cancel, TrySendDatagram, RefuseDatagram,
                    LoseDatagram, Arrive, Call, Fail
<1>6. ASSUME NEW s \in Sides,
             \/ Transmit(s) \/ PeerGone(s) \/ GiveUp(s) \/ \E n \in Codes : Shutdown(s, n)
      PROVE  HeldMove
  BY <1>1, <1>6 DEF Transmit, PeerGone, GiveUp, Shutdown
<1>7. ASSUME NEW l \in Lanes, NEW i, Announce(l, i) PROVE HeldMove
  BY <1>1, <1>7 DEF Announce
<1>8. CASE UNCHANGED vars
  BY <1>1, <1>8 DEF vars
<1> QED BY <1>2, <1>4, <1>5, <1>6, <1>7, <1>8 DEF Next, Progress, Network

-----------------------------------------------------------------------------
(* How the connection ends.                                                *)

\* What a side has said it has said.
LEMMA FrameStays ==
  ASSUME TypeOK, CloseInv, [Next]_vars, NEW s \in Sides, frame[s] # Open
  PROVE  frame'[s] = frame[s]
<1>1. ~IsOpen(s) /\ EndMove(s)
  BY EndMoves DEF CloseInv
<1> QED BY <1>1 DEF EndMove

LEMMA CloseStep == TypeOK /\ CallInv /\ CloseInv /\ [Next]_vars => CloseInv'
<1> SUFFICES ASSUME TypeOK, CallInv, CloseInv, [Next]_vars PROVE CloseInv'
  OBVIOUS
<1>1. ASSUME NEW s \in Sides, NEW r, SaidBy(s, r) PROVE SaidBy(s, r)'
  BY <1>1, FrameStays DEF SaidBy, Open, Reason
<1>2. ASSUME NEW s \in Sides, frame'[s] # Open PROVE reason'[s] # Open
  BY <1>2, EndMoves DEF EndMove, CloseInv, IsOpen, Open, Reason
<1>3. ASSUME NEW s \in Sides PROVE SaidBy(Peer(s), reason[s])'
  <2>1. SaidBy(Peer(s), reason[s])' \/ reason'[s] = reason[s]
    BY EndMoves DEF EndMove, SaidBy, Reason
  <2>2. frame'[Peer(s)] = frame[Peer(s)] \/ reason[s].kind \notin {"app", "transport"}
    BY PeerFacts, FrameStays DEF CloseInv, SaidBy, Open, Reason
  <2> QED BY <2>1, <2>2 DEF CloseInv, SaidBy
<1>4. ASSUME NEW c \in Calls, op'[c] = "closed", val'[c] # <<>> PROVE SaidBy(Peer(Side(c)), val[c][1])'
  <2>1. CASE op[c] = "closed" /\ val'[c] = val[c]
    BY <1>1, <1>4, <2>1, SideFacts DEF CloseInv, SaidBy
  <2>2. CASE val'[c] = <<reason[Side(c)]>>
    <3>1. val'[c][1] = reason[Side(c)]
      BY <2>2
    <3> QED BY <1>1, <3>1, SideFacts DEF CloseInv, SaidBy
  <2>3. val[c] # <<>> => st[c] = "ok"
    BY DEF CallInv
  <2> QED BY <1>4, <2>1, <2>2, <2>3, CallMoves DEF CallMove, Made, Returns, Accepts, Opens
<1> QED BY <1>2, <1>3, <1>4 DEF CloseInv, IsOpen

LEMMA TokenStep == TypeOK /\ CloseInv /\ TokenMeansClosed /\ [Next]_vars => TokenMeansClosed'
<1> SUFFICES ASSUME TypeOK, CloseInv, TokenMeansClosed, [Next]_vars,
                    NEW c \in Calls, st'[c] = "closed"
             PROVE  reason'[Side(c)].kind = "local" \/ \E s \in Sides : frame'[s] # Open
  BY DEF TokenMeansClosed
<1>1. CASE \E s \in Sides : frame[s] # Open
  BY <1>1, FrameStays
<1>2. CASE reason[Side(c)].kind = "local"
  BY <1>2, EndMoves, SideFacts DEF EndMove, IsOpen, Open, Reason
<1>3. CASE st[c] # "closed"
  <2>1. MapConnErr(reason[Side(c)]) = "closed"
    BY <1>3, CallMoves DEF CallMove, Made, Returns
  <2>2. reason[Side(c)].kind = "local" \/ frame[Peer(Side(c))] # Open
    BY <2>1, SideFacts DEF MapConnErr, CloseInv, SaidBy, Open, Reason
  <2> QED BY <1>1, <1>2, <2>2, SideFacts
<1> QED BY <1>1, <1>2, <1>3 DEF TokenMeansClosed

-----------------------------------------------------------------------------
(* Each stream goes to one call.                                           *)

LEMMA AccepterFacts ==
  ASSUME TypeOK, NEW c \in Calls, Accepter(c)
  PROVE  val[c][1] \in Streams
BY DEF TypeOK, Accepter, Accepts

\* A call that has accepted had the stream before, or gets the next of its lane.
LEMMA AccepterMoves ==
  ASSUME TypeOK, CallInv, [Next]_vars, NEW c \in Calls, Accepter(c)'
  PROVE  \/ Accepter(c) /\ val'[c] = val[c]
         \/ /\ st[c] = "waiting" /\ TakeNext(LaneOf(c))
            /\ val'[c][1] = Stream(LaneOf(c), taken[LaneOf(c)] + 1)
            /\ \A d \in Calls \ {c} : op'[d] = op[d] /\ val'[d] = val[d]
<1>1. op'[c] \in Accepts /\ val'[c] # <<>> /\ (val[c] # <<>> => st[c] = "ok")
  BY DEF Accepter, CallInv
<1>2. CASE op'[c] = op[c] /\ val'[c] = val[c]
  BY <1>1, <1>2 DEF Accepter
<1>3. CASE Made(c)
  BY <1>1, <1>3 DEF Made
<1>4. CASE /\ st[c] = "waiting" /\ op'[c] = op[c] /\ Returns(c)
           /\ \A d \in Calls \ {c} : op'[d] = op[d] /\ val'[d] = val[d]
  BY <1>1, <1>4 DEF Returns, Accepts, Opens, Accepter
<1> QED BY <1>2, <1>3, <1>4, CallMoves DEF CallMove

LEMMA StreamStep == TypeOK /\ CallInv /\ StreamInv /\ [Next]_vars => StreamInv'
<1> SUFFICES ASSUME TypeOK, CallInv, StreamInv, [Next]_vars PROVE StreamInv'
  OBVIOUS
<1>0. /\ taken \in [Lanes -> Nat] /\ taken' \in [Lanes -> Nat]
      /\ \A l \in Lanes : taken[l] <= taken'[l]
  BY LaneMoves DEF TypeOK, LaneMove
<1>1. ASSUME NEW c \in Calls, TakeNext(LaneOf(c)) PROVE taken'[LaneOf(c)] = taken[LaneOf(c)] + 1
  BY <1>0, <1>1, LaneFacts DEF TakeNext
<1>2. ASSUME NEW c \in Calls, Accepter(c) PROVE val[c][1].id <= taken[val[c][1].lane] /\ val[c][1] \in Streams
  BY <1>2, AccepterFacts DEF StreamInv
<1>3. ASSUME NEW c \in Calls, Accepter(c)' PROVE val'[c][1].id <= taken'[val'[c][1].lane]
  <2>1. CASE Accepter(c) /\ val'[c] = val[c]
    <3>1. val[c][1].id \in Nat /\ val[c][1].lane \in Lanes
      BY <1>2, <2>1 DEF Streams
    <3> QED BY <1>0, <1>2, <2>1, <3>1
  <2>2. CASE TakeNext(LaneOf(c)) /\ val'[c][1] = Stream(LaneOf(c), taken[LaneOf(c)] + 1)
    <3>1. val'[c][1].id = taken[LaneOf(c)] + 1 /\ val'[c][1].lane = LaneOf(c)
      BY <2>2 DEF Stream
    <3>2. taken[LaneOf(c)] \in Nat
      BY <1>0, LaneFacts
    <3> QED BY <1>1, <2>2, <3>1, <3>2
  <2> QED BY <1>3, <2>1, <2>2, AccepterMoves
<1>4. ASSUME NEW c \in Calls, NEW d \in Calls, c # d, Accepter(d)', st[c] = "waiting",
             val'[c][1] = Stream(LaneOf(c), taken[LaneOf(c)] + 1),
             \A e \in Calls \ {c} : op'[e] = op[e] /\ val'[e] = val[e]
      PROVE  val'[c][1] # val'[d][1]
  <2>1. Accepter(d) /\ val'[d] = val[d]
    BY <1>4 DEF Accepter
  <2>2. val[d][1].id <= taken[val[d][1].lane]
    BY <1>2, <2>1
  <2>3. val'[c][1].id = taken[LaneOf(c)] + 1 /\ val'[c][1].lane = LaneOf(c)
    BY <1>4 DEF Stream
  <2>4. taken[LaneOf(c)] \in Nat
    BY <1>0, LaneFacts
  <2> QED BY <2>1, <2>2, <2>3, <2>4
<1>5. ASSUME NEW c \in Calls, NEW d \in Calls, Accepter(c)', Accepter(d)', val'[c][1] = val'[d][1], c # d
      PROVE  FALSE
  <2>1. CASE Accepter(c) /\ val'[c] = val[c] /\ Accepter(d) /\ val'[d] = val[d]
    BY <1>5, <2>1 DEF StreamInv
  <2> QED BY <1>4, <1>5, <2>1, AccepterMoves
<1> QED BY <1>3, <1>5 DEF StreamInv

-----------------------------------------------------------------------------
(* Buffers of datagrams.                                                   *)

BufferTypes ==
  /\ out' \in [Sides -> Seq(Calls)] /\ inbox' \in [Sides -> Seq(Calls)] /\ air' \subseteq Calls
  /\ \A s \in Sides : Len(out'[s]) <= SendBuffer /\ Len(inbox'[s]) <= RecvBuffer

\* A full queue loses its first to make room for one more.
LEMMA MakeRoomFacts ==
  ASSUME NEW q \in Seq(Calls), NEW max \in Nat \ {0}, Len(q) <= max, NEW d \in Calls, NEW p,
         p = Append(IF Len(q) < max THEN q ELSE Tail(q), d)
  PROVE  /\ p \in Seq(Calls) /\ Len(p) <= max /\ d \in Elems(p)
         /\ Elems(p) \subseteq Elems(q) \cup {d}
         /\ Distinct(q) /\ d \notin Elems(q) => Distinct(p)
<1>1. CASE Len(q) < max
  BY <1>1, AppendFacts
<1>2. CASE ~(Len(q) < max)
  <2>1. q # <<>>
    BY <1>2, EmptySeq
  <2>2. Tail(q) \in Seq(Calls) /\ Len(Tail(q)) = Len(q) - 1 /\ Elems(Tail(q)) \subseteq Elems(q)
    BY <2>1, TailFacts
  <2>3. Distinct(q) => Distinct(Tail(q))
    BY <2>1, TailFacts
  <2>4. p = Append(Tail(q), d) /\ Len(q) = max
    BY <1>2
  <2>5. /\ p \in Seq(Calls) /\ Len(p) = Len(Tail(q)) + 1 /\ Elems(p) = Elems(Tail(q)) \cup {d}
        /\ Distinct(Tail(q)) /\ d \notin Elems(Tail(q)) => Distinct(p)
    <3>1. PICK t \in Seq(Calls) : t = Tail(q)
      BY <2>2
    <3>2. p = Append(t, d)
      BY <2>4, <3>1
    <3>3. Append(t, d) \in Seq(Calls) /\ Len(Append(t, d)) = Len(t) + 1 /\ Elems(Append(t, d)) = Elems(t) \cup {d}
      BY AppendFacts
    <3>4. Distinct(t) /\ d \notin Elems(t) => Distinct(Append(t, d))
      BY AppendFacts
    <3> QED BY <3>1, <3>2, <3>3, <3>4
  <2> QED BY <2>2, <2>3, <2>4, <2>5
<1> QED BY <1>1, <1>2

LEMMA BufferStep == TypeOK /\ [Next]_vars => BufferTypes
<1> SUFFICES ASSUME TypeOK, [Next]_vars PROVE BufferTypes
  OBVIOUS
<1>0. /\ out \in [Sides -> Seq(Calls)] /\ inbox \in [Sides -> Seq(Calls)] /\ air \subseteq Calls
      /\ \A s \in Sides : Len(out[s]) <= SendBuffer /\ Len(inbox[s]) <= RecvBuffer
      /\ SendBuffer \in Nat \ {0} /\ RecvBuffer \in Nat \ {0}
  BY BoundsAssumption DEF TypeOK
<1> USE DEF BufferTypes
<1>1. ASSUME NEW s \in Sides, LastHandle(s, out[s]), UNCHANGED <<air, inbox>> PROVE BufferTypes
  BY <1>0, <1>1, LetsGo
<1>2. ASSUME NEW c \in Calls, NEW e, Fail(c, e), UNCHANGED <<air, inbox>> PROVE BufferTypes
  BY <1>1, <1>2, SideFacts DEF Fail
<1>3. ASSUME NEW c \in Calls, OpenStream(c) \/ AcceptStream(c) \/ Cancel(c) \/ RefuseDatagram(c) PROVE BufferTypes
  BY <1>1, <1>2, <1>3, SideFacts DEF OpenStream, AcceptStream, Cancel, RefuseDatagram, GiveStream
<1>4. ASSUME NEW s \in Sides, NEW o, Drop(s, o) PROVE BufferTypes
  BY <1>1, <1>4 DEF Drop
<1>5. ASSUME NEW c \in Calls, SendDatagram(c) PROVE BufferTypes
  <2>1. CASE HasRoom(Side(c)) /\ LastHandle(Side(c), Append(out[Side(c)], c)) /\ UNCHANGED <<air, inbox>>
    <3>1. out[Side(c)] \in Seq(Calls) /\ Side(c) \in Sides
      BY <1>0, SideFacts
    <3>2. Append(out[Side(c)], c) \in Seq(Calls) /\ Len(Append(out[Side(c)], c)) <= SendBuffer
      BY <1>0, <2>1, <3>1, AppendFacts DEF HasRoom
    <3> QED BY <1>0, <2>1, <3>1, <3>2, LastHandleFacts
  <2> QED BY <1>2, <1>5, <2>1 DEF SendDatagram
<1>6. ASSUME NEW c \in Calls, TrySendDatagram(c) PROVE BufferTypes
  <2>1. CASE UNCHANGED out
    BY <1>0, <1>6, <2>1 DEF TrySendDatagram
  <2>2. CASE out' = [out EXCEPT ![Side(c)] = Append(IF HasRoom(Side(c)) THEN @ ELSE Tail(@), c)]
    <3>1. PICK p : p = Append(IF Len(out[Side(c)]) < SendBuffer THEN out[Side(c)] ELSE Tail(out[Side(c)]), c)
      OBVIOUS
    <3>2. p \in Seq(Calls) /\ Len(p) <= SendBuffer
      BY <1>0, <3>1, SideFacts, MakeRoomFacts
    <3>3. out' = [out EXCEPT ![Side(c)] = p]
      BY <2>2, <3>1 DEF HasRoom
    <3> QED BY <1>0, <1>6, <3>2, <3>3, SideFacts DEF TrySendDatagram
  <2> QED BY <1>6, <2>1, <2>2 DEF TrySendDatagram
<1>7. ASSUME NEW c \in Calls, ReadDatagram(c) PROVE BufferTypes
  <2>1. CASE inbox[Side(c)] # <<>> /\ Received(Side(c)) /\ LastHandle(Side(c), out[Side(c)])
    <3>1. Side(c) \in Sides /\ inbox[Side(c)] \in Seq(Calls)
      BY <1>0, SideFacts
    <3>2. Tail(inbox[Side(c)]) \in Seq(Calls) /\ Len(Tail(inbox[Side(c)])) <= RecvBuffer
      BY <1>0, <2>1, <3>1, TailFacts
    <3>3. inbox' \in [Sides -> Seq(Calls)] /\ \A s \in Sides : Len(inbox'[s]) <= RecvBuffer
      BY <1>0, <2>1, <3>1, <3>2 DEF Received
    <3> QED BY <1>0, <1>7, <2>1, <3>1, <3>3, LetsGo DEF ReadDatagram
  <2> QED BY <1>2, <1>7, <2>1 DEF ReadDatagram
<1>8. ASSUME NEW s \in Sides, Transmit(s) PROVE BufferTypes
  <2>1. /\ out[s] # <<>> /\ out[s] \in Seq(Calls) /\ air' = air \cup {Head(out[s])}
        /\ out' = [out EXCEPT ![s] = Tail(@)] /\ UNCHANGED inbox
    BY <1>0, <1>8 DEF Transmit
  <2>2. Tail(out[s]) \in Seq(Calls) /\ Len(Tail(out[s])) <= SendBuffer /\ Head(out[s]) \in Calls
    BY <1>0, <2>1, TailFacts
  <2> QED BY <1>0, <2>1, <2>2
<1>9. ASSUME NEW d \in Calls, Arrive(d) PROVE BufferTypes
  <2> DEFINE s == Peer(Side(d))
  <2>1. s \in Sides
    BY SideFacts
  <2>2. PICK p : p = Append(IF Len(inbox[s]) < RecvBuffer THEN inbox[s] ELSE Tail(inbox[s]), d)
    OBVIOUS
  <2>3. p \in Seq(Calls) /\ Len(p) <= RecvBuffer
    BY <1>0, <2>1, <2>2, MakeRoomFacts
  <2>4. inbox' = [inbox EXCEPT ![s] = p] /\ air' = air \ {d} /\ UNCHANGED out
    BY <1>9, <2>2 DEF Arrive
  <2> HIDE DEF s
  <2>5. inbox' \in [Sides -> Seq(Calls)] /\ \A t \in Sides : Len(inbox'[t]) <= RecvBuffer
    BY <1>0, <2>1, <2>3, <2>4
  <2> QED BY <1>0, <2>4, <2>5
<1>10. ASSUME NEW s \in Sides, NEW n, Shutdown(s, n) \/ PeerGone(s) \/ GiveUp(s) PROVE BufferTypes
  <2>1. (out' = out \/ out' = [out EXCEPT ![s] = <<>>]) /\ UNCHANGED <<air, inbox>>
    BY <1>10 DEF Shutdown, ShutdownOnce, CloseNow, PeerGone, GiveUp, Learn
  <2>2. CASE out' = [out EXCEPT ![s] = <<>>]
    <3>1. out' \in [Sides -> Seq(Calls)] /\ out'[s] = <<>> /\ \A t \in Sides \ {s} : out'[t] = out[t]
      BY <1>0, <2>2, EmptyFacts
    <3>2. Len(out'[s]) <= SendBuffer
      BY <1>0, <3>1
    <3> QED BY <1>0, <2>1, <3>1, <3>2
  <2> QED BY <1>0, <2>1, <2>2
<1>11. ASSUME UNCHANGED <<out, inbox>>, air' \subseteq air PROVE BufferTypes
  BY <1>0, <1>11
<1>12. ASSUME NEW c \in Calls, Closed(c) \/ LoseDatagram(c) \/ \E m \in AllMethods : Call(c, m) PROVE BufferTypes
  BY <1>11, <1>12 DEF Closed, LoseDatagram, Call, dgramVars
<1>13. ASSUME NEW l \in Lanes, NEW i, Announce(l, i) PROVE BufferTypes
  BY <1>11, <1>13 DEF Announce, dgramVars
<1>14. CASE UNCHANGED vars
  BY <1>11, <1>14 DEF vars, dgramVars
<1> QED BY <1>3, <1>4, <1>5, <1>6, <1>7, <1>8, <1>9, <1>10, <1>12, <1>13, <1>14
        DEF Next, Progress, Network

-----------------------------------------------------------------------------
(* Types, of every step.                                                   *)

LEMMA TypeStep == TypeOK /\ CallInv /\ [Next]_vars => TypeOK'
<1> SUFFICES ASSUME TypeOK, CallInv, [Next]_vars PROVE TypeOK'
  OBVIOUS
<1>1. CallMove /\ LaneMove /\ HeldMove /\ BufferTypes
  BY CallMoves, LaneMoves, HeldMoves, BufferStep
<1>2. ASSUME NEW c \in Calls PROVE ValueOK(c)'
  <2>1. ValueOK(c) /\ (val[c] # <<>> => st[c] = "ok")
    BY DEF TypeOK, ValueOK, CallInv
  <2>2. CASE op'[c] = op[c] /\ val'[c] = val[c]
    BY <2>1, <2>2 DEF ValueOK
  <2>3. CASE Made(c)
    BY <2>1, <2>3 DEF Made, ValueOK
  <2>4. CASE st[c] = "waiting" /\ op'[c] = op[c] /\ Returns(c)
    <3>1. CASE op[c] = "closed" /\ val'[c] = <<reason[Side(c)]>> /\ ~IsOpen(Side(c))
      <4>1. reason[Side(c)] \in Reasons \ {Open}
        BY <3>1, SideFacts DEF TypeOK, IsOpen
      <4> QED BY <2>4, <3>1, <4>1 DEF ValueOK
    <3>2. CASE op[c] \in Accepts /\ val'[c] = <<Stream(LaneOf(c), taken[LaneOf(c)] + 1)>>
      <4>1. LaneOf(c) \in Lanes /\ taken[LaneOf(c)] + 1 \in Nat \ {0}
        <5>1. LaneOf(c) \in Lanes /\ taken[LaneOf(c)] \in Nat
          BY LaneFacts DEF TypeOK
        <5> QED BY <5>1
      <4>2. Stream(LaneOf(c), taken[LaneOf(c)] + 1) \in Streams
        BY <4>1 DEF Stream, Streams
      <4> QED BY <2>4, <3>2, <4>2 DEF ValueOK
    <3>3. CASE op[c] = "read_datagram" /\ inbox[Side(c)] # <<>> /\ val'[c] = <<Head(inbox[Side(c)])>>
      <4>1. inbox[Side(c)] \in Seq(Calls)
        BY SideFacts DEF TypeOK
      <4>2. Head(inbox[Side(c)]) \in Calls
        BY <3>3, <4>1, TailFacts
      <4> QED BY <2>4, <3>3, <4>2 DEF ValueOK
    <3>4. CASE val'[c] = val[c] \/ val'[c] = <<>>
      BY <2>1, <2>4, <3>4 DEF ValueOK
    <3> QED BY <2>4, <3>1, <3>2, <3>3, <3>4 DEF Returns
  <2> QED BY <1>1, <2>2, <2>3, <2>4 DEF CallMove
<1>3. reason' \in [Sides -> Reasons] /\ frame' \in [Sides -> Reasons]
  BY EndMoves
<1> QED BY <1>1, <1>2, <1>3 DEF TypeOK, CallMove, LaneMove, HeldMove, BufferTypes, ValueOK

-----------------------------------------------------------------------------
(* Each datagram is in one place.                                          *)

\* What was sent stays sent.
LEMMA SentStays == ASSUME TypeOK, [Next]_vars, NEW d \in Calls, Sent(d) PROVE Sent(d)'
BY CallMoves DEF CallMove, Made, Sent

ReadersKept == \A c \in Calls : Reader(c)' => Reader(c) /\ val'[c] = val[c]

\* Only a step that takes a datagram out of an inbox makes a reader.
LEMMA ReaderMoves ==
  ASSUME TypeOK, CallInv, [Next]_vars, NEW c \in Calls, Reader(c)'
  PROVE  \/ Reader(c) /\ val'[c] = val[c]
         \/ /\ inbox[Side(c)] # <<>> /\ Received(Side(c)) /\ val'[c][1] = Head(inbox[Side(c)])
            /\ \A d \in Calls \ {c} : op'[d] = op[d] /\ val'[d] = val[d]
<1>1. op'[c] = "read_datagram" /\ val'[c] # <<>> /\ (val[c] # <<>> => st[c] = "ok")
  BY DEF Reader, CallInv
<1>2. CASE op'[c] = op[c] /\ val'[c] = val[c]
  BY <1>1, <1>2 DEF Reader
<1>3. CASE Made(c)
  BY <1>1, <1>3 DEF Made
<1>4. CASE /\ st[c] = "waiting" /\ op'[c] = op[c] /\ Returns(c)
           /\ \A d \in Calls \ {c} : op'[d] = op[d] /\ val'[d] = val[d]
  BY <1>1, <1>4 DEF Returns, Accepts, Opens, Reader
<1> QED BY <1>2, <1>3, <1>4, CallMoves DEF CallMove

LEMMA InboxKeeps == ASSUME TypeOK, CallInv, [Next]_vars, UNCHANGED inbox PROVE ReadersKept
<1>1. ASSUME NEW s \in Sides, inbox[s] # <<>>, Received(s) PROVE FALSE
  <2>1. inbox[s] \in Seq(Calls) /\ inbox[s] = Tail(inbox[s])
    BY <1>1 DEF Received, TypeOK
  <2>2. Len(Tail(inbox[s])) = Len(inbox[s]) - 1 /\ Len(inbox[s]) \in Nat \ {0}
    BY <1>1, <2>1, TailFacts
  <2>3. Len(Tail(inbox[s])) = Len(inbox[s])
    BY <2>1, Zenon
  <2> QED BY <2>2, <2>3
<1> QED BY <1>1, ReaderMoves, SideFacts DEF ReadersKept

LEMMA ReaderFacts ==
  ASSUME TypeOK, NEW c \in Calls, Reader(c)
  PROVE  val[c][1] \in Calls
BY DEF TypeOK, Reader, Accepts

\* Readers stay, and datagrams only disappear from their places.
LEMMA DatagramsKept ==
  ASSUME TypeOK, CallInv, DatagramInv, [Next]_vars, ReadersKept, air' \subseteq air,
         \A s \in Sides :
           /\ Elems(out'[s]) \subseteq Elems(out[s]) /\ Distinct(out'[s])
           /\ Elems(inbox'[s]) \subseteq Elems(inbox[s]) /\ Distinct(inbox'[s])
  PROVE  DatagramInv'
<1>1. \A d \in Calls : Sent(d) => Sent(d)'
  BY SentStays
<1>2. /\ \A s \in Sides : Elems(out[s]) \subseteq Calls /\ Elems(inbox[s]) \subseteq Calls
      /\ air \subseteq Calls
  BY ElemsFacts DEF TypeOK
<1>3. \A s \in Sides : \A d \in Elems(out'[s]) : Sent(d)' /\ Side(d) = s
  BY <1>1, <1>2 DEF DatagramInv
<1>4. \A d \in air' : Sent(d)' /\ d \notin Elems(out'[Side(d)])
  BY <1>1, <1>2, SideFacts DEF DatagramInv
<1>5. \A s \in Sides : \A d \in Elems(inbox'[s]) :
        Sent(d)' /\ Side(d) = Peer(s) /\ d \notin air' /\ d \notin Elems(out'[Side(d)])
  BY <1>1, <1>2, SideFacts DEF DatagramInv
<1>6. ASSUME NEW c \in Calls, Reader(c)'
      PROVE  /\ Sent(val[c][1])' /\ Side(val'[c][1]) = Peer(Side(c))
             /\ val'[c][1] \notin air' /\ val'[c][1] \notin Elems(out'[Side(val'[c][1])])
             /\ val'[c][1] \notin Elems(inbox'[Side(c)])
  <2>1. Reader(c) /\ val'[c] = val[c] /\ val[c][1] \in Calls
    BY <1>6, ReaderFacts DEF ReadersKept
  <2>2. Sent(val[c][1]) => Sent(val[c][1])'
    BY <1>1, <2>1 DEF Sent
  <2> QED BY <2>1, <2>2, SideFacts DEF DatagramInv
<1>7. \A c, d \in Calls : Reader(c)' /\ Reader(d)' /\ val'[c][1] = val'[d][1] => c = d
  BY DEF ReadersKept, DatagramInv
<1> QED BY <1>3, <1>4, <1>5, <1>6, <1>7 DEF DatagramInv

\* The call c adds its datagram to the send buffer of its side.
LEMMA DatagramSent ==
  ASSUME TypeOK, CallInv, DatagramInv, [Next]_vars, UNCHANGED <<air, inbox>>,
         NEW c \in Calls, ~Sent(c), Sent(c)',
         \A s \in Sides \ {Side(c)} : out'[s] = out[s],
         Elems(out'[Side(c)]) \subseteq Elems(out[Side(c)]) \cup {c},
         c \notin Elems(out[Side(c)]) => Distinct(out'[Side(c)])
  PROVE  DatagramInv'
<1>1. \A d \in Calls : Sent(d) => Sent(d)'
  BY SentStays
<1>2. /\ \A s \in Sides : Elems(out[s]) \subseteq Calls /\ Elems(inbox[s]) \subseteq Calls
      /\ air \subseteq Calls /\ ReadersKept
  BY ElemsFacts, InboxKeeps DEF TypeOK
<1>3. /\ c \notin air /\ \A s \in Sides : c \notin Elems(out[s]) /\ c \notin Elems(inbox[s])
      /\ \A d \in Calls : Reader(d) => val[d][1] # c
  BY DEF DatagramInv
<1>4. \A s \in Sides : \A d \in Elems(out'[s]) : Sent(d)' /\ Side(d) = s
  BY <1>1, <1>2 DEF DatagramInv
<1>5. \A s \in Sides : Distinct(out'[s])
  BY <1>3, SideFacts DEF DatagramInv
<1>6. ASSUME NEW d \in Calls, d # c, d \notin Elems(out[Side(d)]) PROVE d \notin Elems(out'[Side(d)])
  BY <1>6, SideFacts
<1>7. \A d \in air : Sent(d)' /\ d \notin Elems(out'[Side(d)])
  BY <1>1, <1>2, <1>3, <1>6 DEF DatagramInv
<1>8. \A s \in Sides : \A d \in Elems(inbox[s]) :
        Sent(d)' /\ Side(d) = Peer(s) /\ d \notin air /\ d \notin Elems(out'[Side(d)])
  BY <1>1, <1>2, <1>3, <1>6 DEF DatagramInv
<1>9. ASSUME NEW e \in Calls, Reader(e)'
      PROVE  /\ Sent(val[e][1])' /\ Side(val'[e][1]) = Peer(Side(e))
             /\ val'[e][1] \notin air /\ val'[e][1] \notin Elems(out'[Side(val'[e][1])])
             /\ val'[e][1] \notin Elems(inbox[Side(e)])
  <2>1. Reader(e) /\ val'[e] = val[e] /\ val[e][1] \in Calls /\ val[e][1] # c
    BY <1>2, <1>3, <1>9, ReaderFacts DEF ReadersKept
  <2>2. Sent(val[e][1]) => Sent(val[e][1])'
    BY <1>1, <2>1 DEF Sent
  <2> QED BY <1>6, <2>1, <2>2 DEF DatagramInv
<1>10. \A e, d \in Calls : Reader(e)' /\ Reader(d)' /\ val'[e][1] = val'[d][1] => e = d
  BY <1>2 DEF ReadersKept, DatagramInv
<1> QED BY <1>4, <1>5, <1>7, <1>8, <1>9, <1>10 DEF DatagramInv

LEMMA DatagramTransmitted ==
  ASSUME TypeOK, CallInv, DatagramInv, [Next]_vars, NEW s \in Sides, Transmit(s)
  PROVE  DatagramInv'
<1> DEFINE h == Head(out[s])
<1>1. /\ out[s] # <<>> /\ out[s] \in Seq(Calls) /\ air' = air \cup {h}
      /\ out' = [out EXCEPT ![s] = Tail(@)] /\ UNCHANGED <<op, st, val, inbox>>
  BY DEF Transmit, TypeOK, callVars
<1>2. /\ h \in Elems(out[s]) /\ Elems(Tail(out[s])) \subseteq Elems(out[s])
      /\ Distinct(out[s]) => Distinct(Tail(out[s])) /\ h \notin Elems(Tail(out[s]))
  BY <1>1, TailFacts
<1> HIDE DEF h
<1>3. /\ \A t \in Sides : Elems(out'[t]) \subseteq Elems(out[t]) /\ Distinct(out'[t])
      /\ h \notin Elems(out'[s]) /\ Side(h) = s /\ Sent(h)
  BY <1>1, <1>2 DEF TypeOK, DatagramInv
<1>4. /\ \A t \in Sides : h \notin Elems(inbox[t])
      /\ \A c \in Calls : Reader(c) => val[c][1] # h
  BY <1>2, <1>3 DEF DatagramInv
<1>5. /\ \A d \in Calls : Sent(d)' <=> Sent(d)
      /\ \A c \in Calls : Reader(c)' <=> Reader(c)
  BY <1>1 DEF Sent, Reader
<1>6. /\ \A t \in Sides : Elems(out[t]) \subseteq Calls /\ Elems(inbox[t]) \subseteq Calls
      /\ air \subseteq Calls
  BY ElemsFacts DEF TypeOK
<1>7. \A t \in Sides : \A d \in Elems(out'[t]) : Sent(d)' /\ Side(d) = t
  BY <1>3, <1>5, <1>6 DEF DatagramInv
<1>8. \A d \in air' : Sent(d)' /\ d \notin Elems(out'[Side(d)])
  BY <1>1, <1>2, <1>3, <1>5, <1>6, SideFacts DEF DatagramInv
<1>9. \A t \in Sides : \A d \in Elems(inbox[t]) :
        Sent(d)' /\ Side(d) = Peer(t) /\ d \notin air' /\ d \notin Elems(out'[Side(d)])
  BY <1>1, <1>3, <1>4, <1>5, <1>6, SideFacts DEF DatagramInv
<1>10. ASSUME NEW c \in Calls, Reader(c)
       PROVE  /\ Sent(val[c][1])' /\ Side(val[c][1]) = Peer(Side(c))
              /\ val[c][1] \notin air' /\ val[c][1] \notin Elems(out'[Side(val[c][1])])
              /\ val[c][1] \notin Elems(inbox[Side(c)])
  <2>1. val[c][1] \in Calls /\ (Sent(val[c][1])' <=> Sent(val[c][1]))
    BY <1>1, <1>10, ReaderFacts DEF Sent
  <2>2. /\ Sent(val[c][1]) /\ Side(val[c][1]) = Peer(Side(c)) /\ val[c][1] \notin air
        /\ val[c][1] \notin Elems(out[Side(val[c][1])]) /\ val[c][1] \notin Elems(inbox[Side(c)])
    BY <1>10 DEF DatagramInv
  <2>3. val[c][1] \notin air'
    BY <1>1, <1>4, <1>10, <2>2
  <2>4. val[c][1] \notin Elems(out'[Side(val[c][1])])
    BY <1>3, <2>1, <2>2, SideFacts
  <2> QED BY <2>1, <2>2, <2>3, <2>4
<1> QED BY <1>1, <1>3, <1>5, <1>7, <1>8, <1>9, <1>10 DEF DatagramInv

LEMMA DatagramArrives ==
  ASSUME TypeOK, CallInv, DatagramInv, [Next]_vars, NEW a \in Calls, Arrive(a)
  PROVE  DatagramInv'
<1> DEFINE s == Peer(Side(a))
<1>1. s \in Sides /\ Side(a) = Peer(s)
  BY SideFacts, PeerFacts
<1>2. PICK p : p = Append(IF Len(inbox[s]) < RecvBuffer THEN inbox[s] ELSE Tail(inbox[s]), a)
  OBVIOUS
<1>3. /\ a \in air /\ air' = air \ {a} /\ inbox' = [inbox EXCEPT ![s] = p]
      /\ UNCHANGED <<op, st, val, out>>
  BY <1>2 DEF Arrive, callVars
<1> HIDE DEF s
<1>4. inbox[s] \in Seq(Calls) /\ Len(inbox[s]) <= RecvBuffer /\ RecvBuffer \in Nat \ {0}
  BY <1>1, BoundsAssumption DEF TypeOK
<1>5. Elems(p) \subseteq Elems(inbox[s]) \cup {a} /\ (Distinct(inbox[s]) /\ a \notin Elems(inbox[s]) => Distinct(p))
  <2>1. PICK q \in Seq(Calls) : q = inbox[s]
    BY <1>4
  <2>2. Len(q) <= RecvBuffer /\ p = Append(IF Len(q) < RecvBuffer THEN q ELSE Tail(q), a)
    BY <1>2, <1>4, <2>1
  <2>3. Elems(p) \subseteq Elems(q) \cup {a} /\ (Distinct(q) /\ a \notin Elems(q) => Distinct(p))
    BY <1>4, <2>2, MakeRoomFacts
  <2> QED BY <2>1, <2>3
<1>6. /\ Sent(a) /\ a \notin Elems(out[Side(a)])
      /\ \A t \in Sides : a \notin Elems(inbox[t])
      /\ \A c \in Calls : Reader(c) => val[c][1] # a
  BY <1>3 DEF DatagramInv
<1>7. /\ inbox'[s] = p /\ \A t \in Sides \ {s} : inbox'[t] = inbox[t]
  BY <1>1, <1>3 DEF TypeOK
<1>8. /\ \A t \in Sides : Distinct(inbox'[t])
      /\ \A t \in Sides : \A d \in Elems(inbox'[t]) : d \in Elems(inbox[t]) \/ (d = a /\ t = s)
  BY <1>1, <1>5, <1>6, <1>7 DEF DatagramInv
<1>9. /\ \A d \in Calls : Sent(d)' <=> Sent(d)
      /\ \A c \in Calls : Reader(c)' <=> Reader(c)
  BY <1>3 DEF Sent, Reader
<1>10. /\ \A t \in Sides : Elems(out[t]) \subseteq Calls /\ Elems(inbox[t]) \subseteq Calls
       /\ air \subseteq Calls
  BY ElemsFacts DEF TypeOK
<1>11. \A t \in Sides : \A d \in Elems(inbox'[t]) :
         Sent(d)' /\ Side(d) = Peer(t) /\ d \notin air' /\ d \notin Elems(out[Side(d)])
  BY <1>1, <1>3, <1>6, <1>8, <1>9, <1>10 DEF DatagramInv
<1>12. ASSUME NEW c \in Calls, Reader(c)
       PROVE  /\ Sent(val[c][1])' /\ Side(val[c][1]) = Peer(Side(c))
              /\ val[c][1] \notin air' /\ val[c][1] \notin Elems(out[Side(val[c][1])])
              /\ val[c][1] \notin Elems(inbox'[Side(c)])
  <2>1. val[c][1] \in Calls /\ (Sent(val[c][1])' <=> Sent(val[c][1]))
    BY <1>3, <1>12, ReaderFacts DEF Sent
  <2> QED BY <1>3, <1>6, <1>8, <1>12, <2>1, SideFacts DEF DatagramInv
<1>13. \A t \in Sides : \A d \in Elems(out[t]) : Sent(d)' /\ Side(d) = t
  BY <1>9, <1>10 DEF DatagramInv
<1>14. \A d \in air' : Sent(d)' /\ d \notin Elems(out[Side(d)])
  BY <1>3, <1>9, <1>10 DEF DatagramInv
<1> QED BY <1>3, <1>8, <1>9, <1>11, <1>12, <1>13, <1>14 DEF DatagramInv

\* The first of an inbox goes to the call c, or to nobody.
LEMMA DatagramRead ==
  ASSUME TypeOK, CallInv, DatagramInv, [Next]_vars, NEW c \in Calls, ReadDatagram(c),
         inbox[Side(c)] # <<>>, Received(Side(c)), LastHandle(Side(c), out[Side(c)])
  PROVE  DatagramInv'
<1> DEFINE s == Side(c)
           h == Head(inbox[s])
<1>1. s \in Sides /\ inbox[s] \in Seq(Calls) /\ Peer(s) \in Sides
  BY SideFacts DEF TypeOK
<1>2. /\ h \in Elems(inbox[s]) /\ Elems(Tail(inbox[s])) \subseteq Elems(inbox[s])
      /\ Distinct(inbox[s]) => Distinct(Tail(inbox[s])) /\ h \notin Elems(Tail(inbox[s]))
  BY <1>1, TailFacts
<1>3. /\ inbox'[s] = Tail(inbox[s]) /\ \A t \in Sides \ {s} : inbox'[t] = inbox[t]
      /\ air' = air
  BY <1>1 DEF Received, TypeOK, ReadDatagram
<1> HIDE DEF h
<1>4. /\ \A t \in Sides : Elems(inbox'[t]) \subseteq Elems(inbox[t]) /\ Distinct(inbox'[t])
      /\ h \notin Elems(inbox'[s]) /\ h \in Calls
      /\ Sent(h) /\ Side(h) = Peer(s) /\ h \notin air /\ h \notin Elems(out[Side(h)])
  BY <1>1, <1>2, <1>3, ElemsFacts DEF DatagramInv
<1>5. \A t \in Sides : Elems(out'[t]) \subseteq Elems(out[t]) /\ Distinct(out'[t])
  BY <1>1, LetsGo, EmptyFacts DEF DatagramInv
<1>6. CASE ReadersKept
  BY <1>3, <1>4, <1>5, <1>6, DatagramsKept
<1>7. CASE ~ReadersKept
  <2>1. PICK e \in Calls : Reader(e)' /\ ~(Reader(e) /\ val'[e] = val[e])
    BY <1>7 DEF ReadersKept
  <2>2. /\ inbox[Side(e)] # <<>> /\ Received(Side(e)) /\ val'[e][1] = Head(inbox[Side(e)])
        /\ \A d \in Calls \ {e} : op'[d] = op[d] /\ val'[d] = val[d]
    BY <2>1, ReaderMoves
  <2>3. e = c
    <3>1. \A d \in Calls \ {c} : op'[d] = op[d] /\ val'[d] = val[d]
      BY DEF ReadDatagram, Return, Fail, TypeOK
    <3> QED BY <2>1, <3>1 DEF Reader
  <2>4. val'[c][1] = h
    BY <2>2, <2>3 DEF h
  <2>5. ASSUME NEW d \in Calls, d # c, Reader(d)'
        PROVE  Reader(d) /\ val'[d] = val[d] /\ val[d][1] \in Calls
    BY <2>2, <2>3, <2>5, ReaderFacts DEF Reader
  <2>6. \A d \in Calls : Reader(d) => val[d][1] # h
    <3>1. ASSUME NEW d \in Calls, Reader(d), val[d][1] = h PROVE FALSE
      <4>1. h \notin Elems(inbox[Side(d)]) /\ Side(h) = Peer(Side(d))
        BY <3>1 DEF DatagramInv
      <4>2. Side(d) = s
        BY <1>1, <1>4, <4>1, SideFacts, PeerFacts
      <4> QED BY <1>2, <4>1, <4>2
    <3> QED BY <3>1
  <2>7. \A d \in Calls : Sent(d) => Sent(d)'
    BY SentStays
  <2>8. /\ \A t \in Sides : Elems(out[t]) \subseteq Calls /\ Elems(inbox[t]) \subseteq Calls
        /\ air \subseteq Calls
    BY ElemsFacts DEF TypeOK
  <2>9. \A t \in Sides : \A d \in Elems(out'[t]) : Sent(d)' /\ Side(d) = t
    BY <1>5, <2>7, <2>8 DEF DatagramInv
  <2>10. \A d \in air' : Sent(d)' /\ d \notin Elems(out'[Side(d)])
    BY <1>3, <1>5, <2>7, <2>8, SideFacts DEF DatagramInv
  <2>11. \A t \in Sides : \A d \in Elems(inbox'[t]) :
           Sent(d)' /\ Side(d) = Peer(t) /\ d \notin air' /\ d \notin Elems(out'[Side(d)])
    BY <1>3, <1>4, <1>5, <2>7, <2>8, SideFacts DEF DatagramInv
  <2>12. ASSUME NEW d \in Calls, Reader(d)'
         PROVE  /\ Sent(val[d][1])' /\ Side(val'[d][1]) = Peer(Side(d))
                /\ val'[d][1] \notin air' /\ val'[d][1] \notin Elems(out'[Side(val'[d][1])])
                /\ val'[d][1] \notin Elems(inbox'[Side(d)])
    <3>1. CASE d = c
      <4>1. Sent(val[d][1])'
        BY <1>4, <2>4, <2>7, <3>1 DEF Sent
      <4>2. h \notin Elems(out'[Side(h)])
        BY <1>1, <1>4, <1>5
      <4> QED BY <1>3, <1>4, <2>4, <3>1, <4>1, <4>2
    <3>2. CASE d # c
      <4>1. Reader(d) /\ val'[d] = val[d] /\ val[d][1] \in Calls
        BY <2>5, <2>12, <3>2
      <4>2. /\ Sent(val[d][1]) /\ Side(val[d][1]) = Peer(Side(d)) /\ val[d][1] \notin air
            /\ val[d][1] \notin Elems(out[Side(val[d][1])]) /\ val[d][1] \notin Elems(inbox[Side(d)])
        BY <4>1 DEF DatagramInv
      <4>3. Sent(val[d][1])'
        BY <2>7, <4>1, <4>2 DEF Sent
      <4>4. val[d][1] \notin Elems(out'[Side(val[d][1])]) /\ val[d][1] \notin Elems(inbox'[Side(d)])
        BY <1>4, <1>5, <4>1, <4>2, SideFacts
      <4> QED BY <1>3, <4>1, <4>2, <4>3, <4>4
    <3> QED BY <3>1, <3>2
  <2>13. ASSUME NEW d \in Calls, NEW f \in Calls, Reader(d)', Reader(f)', val'[d][1] = val'[f][1]
         PROVE  d = f
    BY <2>4, <2>5, <2>6, <2>13 DEF DatagramInv
  <2> QED BY <1>4, <1>5, <2>9, <2>10, <2>11, <2>12, <2>13 DEF DatagramInv
<1> QED BY <1>6, <1>7

LEMMA DatagramStep == TypeOK /\ CallInv /\ DatagramInv /\ [Next]_vars => DatagramInv'
<1> SUFFICES ASSUME TypeOK, CallInv, DatagramInv, [Next]_vars PROVE DatagramInv'
  OBVIOUS
<1>0. \A s \in Sides : Distinct(out[s]) /\ Distinct(inbox[s])
  BY DEF DatagramInv
<1>1. ASSUME UNCHANGED inbox, air' \subseteq air, \A s \in Sides : out'[s] \in {out[s], <<>>}
      PROVE  DatagramInv'
  <2>1. \A s \in Sides : Elems(out'[s]) \subseteq Elems(out[s]) /\ Distinct(out'[s])
    BY <1>0, <1>1, EmptyFacts
  <2> QED BY <1>0, <1>1, <2>1, InboxKeeps, DatagramsKept
<1>2. ASSUME NEW s \in Sides, LastHandle(s, out[s]), UNCHANGED <<air, inbox>> PROVE DatagramInv'
  BY <1>1, <1>2, LetsGo
<1>3. ASSUME NEW c \in Calls, NEW e, Fail(c, e), UNCHANGED <<air, inbox>> PROVE DatagramInv'
  BY <1>2, <1>3, SideFacts DEF Fail
<1>4. ASSUME NEW c \in Calls, OpenStream(c) \/ AcceptStream(c) \/ Cancel(c) \/ RefuseDatagram(c)
      PROVE  DatagramInv'
  BY <1>2, <1>3, <1>4, SideFacts DEF OpenStream, AcceptStream, Cancel, RefuseDatagram, GiveStream
<1>5. ASSUME NEW s \in Sides, NEW o, Drop(s, o) PROVE DatagramInv'
  BY <1>2, <1>5 DEF Drop
<1>6. ASSUME NEW c \in Calls, SendDatagram(c) PROVE DatagramInv'
  <2>1. CASE /\ HasRoom(Side(c)) /\ Return(c, <<>>) /\ UNCHANGED <<op, air, inbox>>
             /\ LastHandle(Side(c), Append(out[Side(c)], c))
    <3>1. PICK q \in Seq(Calls) : q = out[Side(c)]
      BY SideFacts DEF TypeOK
    <3>2. /\ Append(q, c) \in Seq(Calls) /\ Len(Append(q, c)) <= SendBuffer
          /\ Elems(Append(q, c)) = Elems(q) \cup {c}
          /\ Distinct(q) /\ c \notin Elems(q) => Distinct(Append(q, c))
      BY <2>1, <3>1, AppendFacts, BoundsAssumption DEF HasRoom
    <3>3. /\ out'[Side(c)] \in {Append(q, c), <<>>}
          /\ \A s \in Sides \ {Side(c)} : out'[s] = out[s]
      BY <2>1, <3>1, <3>2, LastHandleFacts, SideFacts
    <3>4. /\ Elems(out'[Side(c)]) \subseteq Elems(out[Side(c)]) \cup {c}
          /\ c \notin Elems(out[Side(c)]) => Distinct(out'[Side(c)])
      BY <1>0, <3>1, <3>2, <3>3, EmptyFacts, SideFacts
    <3>5. ~Sent(c) /\ Sent(c)'
      <4>1. st[c] = "waiting" /\ op'[c] = "send_datagram"
        BY <1>6, <2>1 DEF SendDatagram, Runs
      <4>2. st'[c] \in {"ok", "cancelled"}
        BY <2>1, ReturnFacts, EmptyFacts
      <4> QED BY <4>1, <4>2 DEF Sent
    <3> QED BY <2>1, <3>3, <3>4, <3>5, DatagramSent
  <2> QED BY <1>3, <1>6, <2>1 DEF SendDatagram
<1>7. ASSUME NEW c \in Calls, TrySendDatagram(c) PROVE DatagramInv'
  <2>1. CASE UNCHANGED out
    BY <1>1, <1>7, <2>1 DEF TrySendDatagram
  <2>2. CASE /\ st' = [st EXCEPT ![c] = "ok"]
             /\ out' = [out EXCEPT ![Side(c)] = Append(IF HasRoom(Side(c)) THEN @ ELSE Tail(@), c)]
    <3>1. PICK q \in Seq(Calls) : q = out[Side(c)] /\ Len(q) <= SendBuffer
      BY SideFacts DEF TypeOK
    <3>2. PICK p : p = Append(IF Len(q) < SendBuffer THEN q ELSE Tail(q), c)
      OBVIOUS
    <3>3. Elems(p) \subseteq Elems(q) \cup {c} /\ (Distinct(q) /\ c \notin Elems(q) => Distinct(p))
      BY <3>1, <3>2, MakeRoomFacts, BoundsAssumption
    <3>4. out' = [out EXCEPT ![Side(c)] = p]
      BY <2>2, <3>1, <3>2 DEF HasRoom
    <3>5. out'[Side(c)] = p /\ \A s \in Sides \ {Side(c)} : out'[s] = out[s]
      BY <3>4, SideFacts DEF TypeOK
    <3>6. /\ Elems(out'[Side(c)]) \subseteq Elems(out[Side(c)]) \cup {c}
          /\ c \notin Elems(out[Side(c)]) => Distinct(out'[Side(c)])
      BY <1>0, <3>1, <3>3, <3>5, SideFacts
    <3>7. ~Sent(c) /\ Sent(c)' /\ UNCHANGED <<air, inbox>>
      BY <1>7, <2>2 DEF TrySendDatagram, Sent, TypeOK
    <3> QED BY <3>5, <3>6, <3>7, DatagramSent
  <2> QED BY <1>7, <2>1, <2>2 DEF TrySendDatagram
<1>8. ASSUME NEW c \in Calls, ReadDatagram(c) PROVE DatagramInv'
  BY <1>3, <1>8, DatagramRead DEF ReadDatagram
<1>9. ASSUME NEW s \in Sides, NEW n, Shutdown(s, n) \/ PeerGone(s) \/ GiveUp(s) PROVE DatagramInv'
  <2>1. (out' = out \/ out' = [out EXCEPT ![s] = <<>>]) /\ UNCHANGED <<air, inbox>>
    BY <1>9 DEF Shutdown, ShutdownOnce, CloseNow, PeerGone, GiveUp, Learn
  <2> QED BY <1>1, <2>1 DEF TypeOK
<1>10. ASSUME NEW c \in Calls, Closed(c) \/ LoseDatagram(c) \/ \E m \in AllMethods : Call(c, m)
       PROVE  DatagramInv'
  BY <1>1, <1>10 DEF Closed, LoseDatagram, Call, dgramVars
<1>11. ASSUME NEW l \in Lanes, NEW i, Announce(l, i) PROVE DatagramInv'
  BY <1>1, <1>11 DEF Announce, dgramVars
<1>12. CASE UNCHANGED vars
  BY <1>1, <1>12 DEF vars, dgramVars
<1> QED BY <1>4, <1>5, <1>6, <1>7, <1>8, <1>9, <1>10, <1>11, <1>12, DatagramTransmitted, DatagramArrives
        DEF Next, Progress, Network

-----------------------------------------------------------------------------
(* The theorems.                                                           *)

LEMMA CInvInit == Init => CInv
<1> SUFFICES ASSUME Init PROVE CInv
  OBVIOUS
<1>1. TypeOK
  BY TypeInit
<1>2. /\ \A c \in Calls : op[c] = "none" /\ st[c] = "new" /\ val[c] = <<>>
      /\ \A s \in Sides : reason[s] = Open /\ frame[s] = Open /\ out[s] = <<>> /\ inbox[s] = <<>>
      /\ air = {}
  BY DEF Init
<1>3. CallInv /\ StreamInv
  BY <1>2 DEF CallInv, StreamInv, Accepter
<1>4. CloseInv /\ TokenMeansClosed
  BY <1>2 DEF CloseInv, SaidBy, TokenMeansClosed, Open, Reason
<1>5. DatagramInv
  BY <1>2, EmptyFacts DEF DatagramInv, Reader
<1> QED BY <1>1, <1>3, <1>4, <1>5 DEF CInv

LEMMA CInvStep == CInv /\ [Next]_vars => CInv'
BY TypeStep, CallInvStep, CloseStep, TokenStep, StreamStep, DatagramStep DEF CInv

LEMMA CInvAlways == Spec => []CInv
BY CInvInit, CInvStep, PTL DEF Spec

\* Every variable of the connection keeps its type: no buffer of datagrams grows
\* past its limit, and no stream is accepted that the other side has not opened.
THEOREM ConnectionTypes == Spec => []TypeOK
<1>1. CInv => TypeOK
  BY DEF CInv
<1> QED BY <1>1, CInvAlways, PTL

\* Whatever the order of shutdowns, timeouts and calls, a call fails with the
\* "closed: " token only if a side really closed the connection.
THEOREM ConnectionToken == Spec => []TokenMeansClosed
<1>1. CInv => TokenMeansClosed
  BY DEF CInv
<1> QED BY <1>1, CInvAlways, PTL

\* What close_reason and closed say of the other side is what the other side has
\* done, however often either calls shutdown.
THEOREM ConnectionReasons == Spec => []ReasonsAgree
<1>1. CInv => ReasonsAgree
  BY DEF CInv, CloseInv, SaidBy, ReasonsAgree
<1> QED BY <1>1, CInvAlways, PTL

\* However many accept and read_datagram calls race, each stream and each
\* datagram goes to one of them, and the datagram was not refused.
THEOREM ConnectionTakenOnce == Spec => []TakenOnce
<1>1. ASSUME CInv PROVE TakenOnce
  <2>1. ASSUME NEW c \in Calls, NEW d \in Calls, c # d, op[c] = op[d], op[c] # "closed", val[c] # <<>>
        PROVE  val[c] # val[d]
    <3>1. op[c] \in Accepts \/ op[c] = "read_datagram"
      BY <1>1, <2>1 DEF CInv, TypeOK
    <3>2. CASE op[c] \in Accepts
      BY <1>1, <2>1, <3>2 DEF CInv, StreamInv, Accepter
    <3>3. CASE op[c] = "read_datagram"
      BY <1>1, <2>1, <3>3 DEF CInv, DatagramInv, Reader
    <3> QED BY <3>1, <3>2, <3>3
  <2>2. ASSUME NEW c \in Calls, op[c] = "read_datagram", val[c] # <<>>
        PROVE  Side(val[c][1]) = Peer(Side(c)) /\ st[val[c][1]] # "err"
    BY <1>1, <2>2 DEF CInv, DatagramInv, Reader, Sent
  <2> QED BY <2>1, <2>2 DEF TakenOnce
<1> QED BY <1>1, CInvAlways, PTL
=============================================================================
