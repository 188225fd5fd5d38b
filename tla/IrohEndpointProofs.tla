------------------------- MODULE IrohEndpointProofs -------------------------
(***************************************************************************)
(* Proofs about IrohEndpoint, for any number of dials and of accept calls, *)
(* any protocols and any methods in use.                                   *)
(***************************************************************************)
EXTENDS IrohEndpoint, SequenceTheorems, TLAPS

-----------------------------------------------------------------------------
(* The inductive invariant.                                                *)

\* The dialing side: a dial that was not made has no connection, objects come
\* from a dial that returned, and somebody holds whatever is alive.
NearOK(d) ==
  /\ dial[d].st = "new" => conn[d] = "none"
  /\ near[d] # {} => dial[d].st = "ok"
  /\ conn[d] \in Live => NearHeld(d)
  /\ why[d] # "none" => conn[d] = "closed"

NearInv == \A d \in Dials : NearOK(d)

\* The queue holds connections that have arrived, each once and none that was
\* taken; an accept call takes once.
QueueInv ==
  /\ \A i \in 1..Len(queue) : conn[queue[i]] \notin {"none", "knocking"}
  /\ \A i, j \in 1..Len(queue) : queue[i] = queue[j] => i = j
  /\ \A a \in Accepts : acc[a].st \in {"new", "waiting"} => acc[a].got = NoConn
  /\ \A a \in Accepts : acc[a].got # NoConn =>
       /\ conn[acc[a].got] \notin {"none", "knocking"}
       /\ \A i \in 1..Len(queue) : queue[i] # acc[a].got

Taken(d) == \E a \in Accepts : acc[a].got = d

\* The accepting side: objects come from the accept call that took the
\* connection, and somebody holds what has been taken and is alive.
FarOK(d) ==
  /\ far[d] # {} => \E a \in Accepts : acc[a].got = d /\ acc[a].st = "ok"
  /\ conn[d] \in {"handshake", "up"} => FarHeld(d)

FarInv == \A d \in Dials : FarOK(d)

\* A side that has let go of a connection cannot get hold of it again: the dial
\* is over, or the accept call that took it is.
DropOK(d) == why[d] = "dropped" => ~NearHeld(d) \/ (~FarHeld(d) /\ Taken(d))

DropInv == \A d \in Dials : DropOK(d)

EInv ==
  /\ TypeOK /\ NearInv /\ QueueInv /\ ExclusiveDelivery
  /\ FarInv /\ DropInv

-----------------------------------------------------------------------------
(* Facts about the steps.                                                  *)

DialStates   == {"new", "ok", "err", "cancelled"} \cup Dialing
AcceptStates == {"new", "ok", "none", "err", "cancelled"} \cup Accepting
DialRecords   == [method : DialMethods, alpn : Alpns, st : DialStates]
AcceptRecords == [method : AcceptMethods, got : Dials \cup {NoConn}, st : AcceptStates]

\* A dial moves on to s, and no other.
LEMMA DialMoves ==
  ASSUME TypeOK, NEW d \in Dials, NEW s \in DialStates, DialTo(d, s)
  PROVE  /\ dial' \in [Dials -> DialRecords]
         /\ dial'[d].st = s
         /\ \A e \in Dials \ {d} : dial'[e] = dial[e]
BY DEF TypeOK, DialTo, DialRecords, DialStates

\* An accept call moves on to s with the connection it has, and no other does.
LEMMA AcceptMoves ==
  ASSUME TypeOK, NEW a \in Accepts, NEW s \in AcceptStates, AcceptTo(a, s)
  PROVE  /\ acc' \in [Accepts -> AcceptRecords]
         /\ acc'[a].st = s
         /\ \A b \in Accepts : acc'[b].got = acc[b].got
         /\ \A b \in Accepts \ {a} : acc'[b] = acc[b]
BY DEF TypeOK, AcceptTo, AcceptRecords, AcceptStates

\* Connections that are closed are of those named, and were alive.
LEMMA Closes ==
  ASSUME TypeOK, NEW D, NEW w \in {"dropped", "shutdown", "endpoint", "refused", "lost"},
         CloseAll(D, w)
  PROVE  /\ conn' \in [Dials -> Live \cup {"none", "closed"}]
         /\ why' \in [Dials -> {"none", "dropped", "shutdown", "endpoint", "refused", "lost"}]
         /\ \A d \in Dials \ D : conn'[d] = conn[d] /\ why'[d] = why[d]
         /\ \A d \in D \cap Dials : conn[d] \in Live => conn'[d] = "closed" /\ why'[d] = w
         /\ \A d \in Dials : conn[d] \notin Live => conn'[d] = conn[d] /\ why'[d] = why[d]
         /\ \A d \in Dials : (conn'[d] = conn[d] /\ why'[d] = why[d]) \/ conn'[d] = "closed"
BY DEF TypeOK, CloseAll, Live

\* The first of the queue is taken by a call.
LEMMA TakesHead ==
  ASSUME TypeOK, NEW a \in Accepts, queue # <<>>, TakeHead(a)
  PROVE  /\ Len(queue) \in Nat \ {0} /\ Head(queue) = queue[1] /\ queue[1] \in Dials
         /\ queue' \in Seq(Dials) /\ Len(queue') = Len(queue) - 1
         /\ \A i \in 1..Len(queue') : queue'[i] = queue[i + 1]
         /\ acc' \in [Accepts -> AcceptRecords]
         /\ acc'[a].st = "handshake" /\ acc'[a].got = queue[1]
         /\ \A b \in Accepts \ {a} : acc'[b] = acc[b]
<1>1. queue \in Seq(Dials) /\ queue # <<>> /\ queue' = Tail(queue)
  BY DEF TypeOK, TakeHead
<1>2. /\ Len(queue) \in Nat \ {0} /\ Head(queue) = queue[1] /\ queue[1] \in Dials
      /\ queue' \in Seq(Dials) /\ Len(queue') = Len(queue) - 1
      /\ \A i \in 1..Len(queue') : queue'[i] = queue[i + 1]
  <2>1. Len(queue) \in Nat \ {0}
    BY <1>1, EmptySeq
  <2>2. queue[1] \in Dials
    BY <1>1, <2>1, ElementOfSeq
  <2>3. Head(queue) = queue[1]
    BY <1>1, <2>1
  <2> QED BY <1>1, <2>1, <2>2, <2>3, HeadTailProperties
<1>3. /\ acc' \in [Accepts -> AcceptRecords]
      /\ acc'[a].st = "handshake" /\ acc'[a].got = queue[1]
      /\ \A b \in Accepts \ {a} : acc'[b] = acc[b]
  <2>1. acc \in [Accepts -> AcceptRecords] /\ "handshake" \in AcceptStates
    BY DEF TypeOK, AcceptRecords, AcceptStates, Accepting
  <2>2. acc' = [acc EXCEPT ![a].st = "handshake", ![a].got = queue[1]]
    BY <1>2 DEF TakeHead
  <2>3. acc'[a].st = "handshake" /\ acc'[a].got = queue[1]
    BY <2>1, <2>2 DEF AcceptRecords
  <2>4. \A b \in Accepts \ {a} : acc'[b] = acc[b]
    BY <2>1, <2>2
  <2>5. acc' \in [Accepts -> AcceptRecords]
    BY <1>2, <2>1, <2>2 DEF AcceptRecords
  <2> QED BY <2>3, <2>4, <2>5
<1> QED BY <1>2, <1>3

\* A dial returns an object, or loses its connection with the coroutine.
LEMMA NearGiven ==
  ASSUME TypeOK, NEW d \in Dials, NEW h \in Objects, GiveNear(d, h)
  PROVE  /\ dial' \in [Dials -> DialRecords]
         /\ near' \in [Dials -> SUBSET Objects]
         /\ conn' \in [Dials -> Live \cup {"none", "closed"}]
         /\ why' \in [Dials -> {"none", "dropped", "shutdown", "endpoint", "refused", "lost"}]
         /\ \A e \in Dials \ {d} :
              dial'[e] = dial[e] /\ near'[e] = near[e] /\ conn'[e] = conn[e] /\ why'[e] = why[e]
         /\ \/ dial'[d].st = "ok" /\ near'[d] # {} /\ conn'[d] = conn[d] /\ why'[d] = why[d]
            \/ /\ dial'[d].st = "cancelled" /\ near'[d] = near[d]
               /\ conn[d] \in Live => conn'[d] = "closed" /\ why'[d] = "dropped"
               /\ conn[d] \notin Live => conn'[d] = conn[d] /\ why'[d] = why[d]
<1>1. CASE /\ DialTo(d, "ok")
           /\ near' = [near EXCEPT ![d] = @ \cup {h}]
           /\ UNCHANGED <<conn, why>>
  <2>1. near' \in [Dials -> SUBSET Objects] /\ near'[d] # {} /\ \A e \in Dials \ {d} : near'[e] = near[e]
    BY <1>1 DEF TypeOK
  <2> QED BY <1>1, <2>1, DialMoves DEF TypeOK, DialStates
<1>2. CASE DialTo(d, "cancelled") /\ CloseAll({d}, "dropped") /\ UNCHANGED near
  BY <1>2, DialMoves, Closes DEF TypeOK, DialStates
<1> QED BY <1>1, <1>2 DEF GiveNear

\* Likewise for the accept call a and its connection.
LEMMA FarGiven ==
  ASSUME TypeOK, NEW a \in Accepts, acc[a].got \in Dials, NEW h \in Objects, GiveFar(a, h)
  PROVE  /\ acc' \in [Accepts -> AcceptRecords]
         /\ far' \in [Dials -> SUBSET Objects]
         /\ conn' \in [Dials -> Live \cup {"none", "closed"}]
         /\ why' \in [Dials -> {"none", "dropped", "shutdown", "endpoint", "refused", "lost"}]
         /\ \A b \in Accepts : acc'[b].got = acc[b].got
         /\ \A b \in Accepts \ {a} : acc'[b] = acc[b]
         /\ \A e \in Dials \ {acc[a].got} :
              far'[e] = far[e] /\ conn'[e] = conn[e] /\ why'[e] = why[e]
         /\ LET d == acc[a].got IN
              \/ acc'[a].st = "ok" /\ far'[d] # {} /\ conn'[d] = conn[d] /\ why'[d] = why[d]
              \/ /\ acc'[a].st = "cancelled" /\ far'[d] = far[d]
                 /\ conn[d] \in Live => conn'[d] = "closed" /\ why'[d] = "dropped"
                 /\ conn[d] \notin Live => conn'[d] = conn[d] /\ why'[d] = why[d]
<1> DEFINE d == acc[a].got
<1>1. CASE /\ AcceptTo(a, "ok")
           /\ far' = [far EXCEPT ![d] = @ \cup {h}]
           /\ UNCHANGED <<conn, why>>
  <2>1. far' \in [Dials -> SUBSET Objects] /\ far'[d] # {} /\ \A e \in Dials \ {d} : far'[e] = far[e]
    BY <1>1 DEF TypeOK
  <2> QED BY <1>1, <2>1, AcceptMoves DEF TypeOK, AcceptStates
<1>2. CASE AcceptTo(a, "cancelled") /\ CloseAll({d}, "dropped") /\ UNCHANGED far
  <2>1. AcceptTo(a, "cancelled") /\ "cancelled" \in AcceptStates
    BY <1>2 DEF AcceptStates
  <2>2. CloseAll({d}, "dropped")
    BY <1>2
  <2>3. /\ \A e \in Dials \ {d} : conn'[e] = conn[e] /\ why'[e] = why[e]
        /\ conn[d] \in Live => conn'[d] = "closed" /\ why'[d] = "dropped"
        /\ conn[d] \notin Live => conn'[d] = conn[d] /\ why'[d] = why[d]
        /\ conn' \in [Dials -> Live \cup {"none", "closed"}]
        /\ why' \in [Dials -> {"none", "dropped", "shutdown", "endpoint", "refused", "lost"}]
    BY <2>2, Closes
  <2> QED BY <1>2, <2>1, <2>3, AcceptMoves DEF TypeOK
<1> QED BY <1>1, <1>2 DEF GiveFar

\* A call that has taken a connection has it.
LEMMA HasConn ==
  ASSUME TypeOK, NEW a \in Accepts, acc[a].st \in {"handshake", "bi"}
  PROVE  acc[a].got \in Dials
BY DEF TypeOK

-----------------------------------------------------------------------------
(* Types.                                                                  *)

LEMMA TypeInit == Init => TypeOK
<1> SUFFICES ASSUME Init PROVE TypeOK
  OBVIOUS
<1>1. dial \in [Dials -> DialRecords] /\ acc \in [Accepts -> AcceptRecords]
  BY DEF Init, DialRecords, AcceptRecords, DialStates, AcceptStates
<1>2. \A a \in Accepts : acc[a].st = "new"
  BY DEF Init
<1>3. queue \in Seq(Dials)
  BY EmptySeq DEF Init
<1> QED BY <1>1, <1>2, <1>3 DEF Init, TypeOK, DialRecords, AcceptRecords, DialStates, AcceptStates

LEMMA TypeStep == TypeOK /\ [Next]_vars => TypeOK'
<1> SUFFICES ASSUME TypeOK, [Next]_vars PROVE TypeOK'
  OBVIOUS
<1> USE DEF DialRecords, AcceptRecords, DialStates, AcceptStates
<1>1. ASSUME NEW d \in Dials, Dial(d) PROVE TypeOK'
  <2>1. dial' \in [Dials -> DialRecords]
    BY <1>1, DialMoves DEF Dial, Dialing
  <2>2. conn' \in [Dials -> Live \cup {"none", "closed"}]
    BY <1>1 DEF Dial, TypeOK, Live
  <2> QED BY <1>1, <2>1, <2>2 DEF Dial, TypeOK
<1>2. ASSUME NEW d \in Dials, Connected(d) PROVE TypeOK'
  <2>1. CASE GiveNear(d, "conn")
    BY <1>2, <2>1, NearGiven DEF Connected, TypeOK, Objects
  <2>2. CASE UNCHANGED <<near, conn, why>> /\ (DialTo(d, "opening") \/ DialTo(d, "err"))
    <3>1. dial' \in [Dials -> DialRecords]
      BY <2>2, DialMoves DEF Dialing
    <3> QED BY <1>2, <2>2, <3>1 DEF Connected, TypeOK
  <2> QED BY <1>2, <2>1, <2>2 DEF Connected
<1>3. ASSUME NEW d \in Dials, ConnectOpens(d) PROVE TypeOK'
  <2>1. CASE stream' = [stream EXCEPT ![d] = "opened"] /\ GiveNear(d, "stream")
    <3>1. stream' \in [Dials -> {"none", "opened", "sent", "accepted"}]
      BY <2>1 DEF TypeOK
    <3> QED BY <1>3, <2>1, <3>1, NearGiven DEF ConnectOpens, TypeOK, Objects
  <2>2. CASE UNCHANGED <<stream, near, conn, why>> /\ DialTo(d, "err")
    BY <1>3, <2>2, DialMoves DEF ConnectOpens, TypeOK
  <2> QED BY <1>3, <2>1, <2>2 DEF ConnectOpens
<1>4. ASSUME NEW d \in Dials, OpenBi(d) \/ Speak(d) \/ AcceptBi(d) \/ Handshake(d) PROVE TypeOK'
  <2>1. stream' \in [Dials -> {"none", "opened", "sent", "accepted"}]
    BY <1>4 DEF OpenBi, Speak, AcceptBi, Handshake, TypeOK
  <2>2. near' \in [Dials -> SUBSET Objects]
    BY <1>4 DEF OpenBi, Speak, AcceptBi, Handshake, TypeOK, Objects
  <2>3. far' \in [Dials -> SUBSET Objects]
    BY <1>4 DEF OpenBi, Speak, AcceptBi, Handshake, TypeOK, Objects
  <2>4. conn' \in [Dials -> Live \cup {"none", "closed"}] /\ est' \subseteq Dials
    BY <1>4 DEF OpenBi, Speak, AcceptBi, Handshake, TypeOK, Live
  <2> QED BY <1>4, <2>1, <2>2, <2>3, <2>4 DEF OpenBi, Speak, AcceptBi, Handshake, TypeOK
<1>5. ASSUME NEW d \in Dials, CancelDial(d) PROVE TypeOK'
  BY <1>5, DialMoves, Closes DEF CancelDial, TypeOK
<1>6. ASSUME NEW d \in Dials, Shutdown(d) \/ Timeout(d) \/ Lose(d) \/ CloseReaches(d) PROVE TypeOK'
  BY <1>6, Closes DEF Shutdown, Timeout, Lose, CloseReaches, TypeOK
<1>7. ASSUME NEW d \in Dials, NEW h \in Objects, DropNear(d, h) \/ DropFar(d, h) PROVE TypeOK'
  <2>1. near' \in [Dials -> SUBSET Objects]
    BY <1>7 DEF DropNear, DropFar, TypeOK
  <2>2. far' \in [Dials -> SUBSET Objects]
    BY <1>7 DEF DropNear, DropFar, TypeOK
  <2> QED BY <1>7, <2>1, <2>2, Closes DEF DropNear, DropFar, TypeOK
<1>8. ASSUME NEW d \in Dials, Arrive(d) PROVE TypeOK'
  <2>1. queue' \in Seq(Dials)
    BY <1>8, AppendProperties DEF Arrive, TypeOK
  <2> QED BY <1>8, <2>1 DEF Arrive, TypeOK, Live
<1>9. ASSUME NEW a \in Accepts, Accept(a) PROVE TypeOK'
  BY <1>9, AcceptMoves DEF Accept, TypeOK, Accepting
<1>10. ASSUME NEW a \in Accepts, Take(a) PROVE TypeOK'
  <2>1. CASE closed /\ AcceptTo(a, "none") /\ UNCHANGED <<queue, conn, why>>
    BY <1>10, <2>1, AcceptMoves DEF Take, TypeOK
  <2>2. CASE queue # <<>> /\ TakeHead(a)
    <3>1. /\ queue' \in Seq(Dials) /\ acc' \in [Accepts -> AcceptRecords]
          /\ acc'[a].st = "handshake" /\ acc'[a].got \in Dials
          /\ \A b \in Accepts \ {a} : acc'[b] = acc[b]
      BY <2>2, TakesHead
    <3>2. /\ conn' \in [Dials -> Live \cup {"none", "closed"}]
          /\ why' \in [Dials -> {"none", "dropped", "shutdown", "endpoint", "refused", "lost"}]
      <4>1. CASE conn' = [conn EXCEPT ![Head(queue)] = "handshake"] /\ UNCHANGED why
        BY <4>1 DEF TypeOK, Live
      <4>2. CASE CloseAll({Head(queue)}, "refused")
        BY <4>2, Closes
      <4>3. acc'[a].st # "none"
        BY <3>1
      <4>4. ~AcceptTo(a, "none")
        BY <4>3, AcceptMoves DEF AcceptStates
      <4> QED BY <1>10, <2>2, <4>1, <4>2, <4>4 DEF Take
    <3> QED BY <1>10, <3>1, <3>2 DEF Take, TypeOK
  <2> QED BY <1>10, <2>1, <2>2 DEF Take
<1>11. ASSUME NEW a \in Accepts, Accepted(a) PROVE TypeOK'
  <2>1. acc[a].got \in Dials
    BY <1>11, HasConn DEF Accepted
  <2>2. CASE GiveFar(a, "conn")
    BY <1>11, <2>1, <2>2, FarGiven DEF Accepted, TypeOK, Objects
  <2>3. CASE UNCHANGED <<far, conn, why>> /\ (AcceptTo(a, "bi") \/ AcceptTo(a, "err"))
    <3>1. /\ acc' \in [Accepts -> AcceptRecords]
          /\ \A b \in Accepts : acc'[b].got = acc[b].got
          /\ \A b \in Accepts \ {a} : acc'[b] = acc[b]
      BY <2>3, AcceptMoves DEF Accepting
    <3> QED BY <1>11, <2>1, <2>3, <3>1 DEF Accepted, TypeOK
  <2> QED BY <1>11, <2>2, <2>3 DEF Accepted
<1>12. ASSUME NEW a \in Accepts, AcceptsBi(a) PROVE TypeOK'
  <2>1. acc[a].got \in Dials
    BY <1>12, HasConn DEF AcceptsBi
  <2>2. CASE stream' = [stream EXCEPT ![acc[a].got] = "accepted"] /\ GiveFar(a, "stream")
    <3>1. stream' \in [Dials -> {"none", "opened", "sent", "accepted"}]
      BY <2>2 DEF TypeOK
    <3>2. /\ acc' \in [Accepts -> AcceptRecords] /\ far' \in [Dials -> SUBSET Objects]
          /\ conn' \in [Dials -> Live \cup {"none", "closed"}]
          /\ why' \in [Dials -> {"none", "dropped", "shutdown", "endpoint", "refused", "lost"}]
          /\ \A b \in Accepts : acc'[b].got = acc[b].got
          /\ \A b \in Accepts \ {a} : acc'[b] = acc[b]
      BY <2>1, <2>2, FarGiven DEF Objects
    <3> QED BY <1>12, <2>1, <3>1, <3>2 DEF AcceptsBi, TypeOK
  <2>3. CASE UNCHANGED <<stream, far, conn, why>> /\ AcceptTo(a, "err")
    BY <1>12, <2>1, <2>3, AcceptMoves DEF AcceptsBi, TypeOK
  <2> QED BY <1>12, <2>2, <2>3 DEF AcceptsBi
<1>13. ASSUME NEW a \in Accepts, CancelAccept(a) PROVE TypeOK'
  BY <1>13, AcceptMoves, Closes DEF CancelAccept, TypeOK
<1>14. CASE CloseEndpoint
  BY <1>14 DEF CloseEndpoint, TypeOK
<1>15. CASE UNCHANGED vars \/ \E S \in SUBSET Alpns : SetAlpns(S)
  BY <1>15 DEF vars, SetAlpns, TypeOK
<1> QED BY <1>1, <1>2, <1>3, <1>4, <1>5, <1>6, <1>7, <1>8, <1>9, <1>10, <1>11, <1>12, <1>13,
          <1>14, <1>15 DEF Next

-----------------------------------------------------------------------------
(* The dialing side.                                                       *)

LEMMA NearStep == TypeOK /\ NearInv /\ [Next]_vars => NearInv'
<1> SUFFICES ASSUME TypeOK, NearInv, [Next]_vars, NEW e \in Dials PROVE NearOK(e)'
  BY DEF NearInv
<1>0. NearOK(e)
  BY DEF NearInv
<1> USE DEF NearOK, NearHeld
<1>1. ASSUME NEW d \in Dials, Dial(d) PROVE NearOK(e)'
  <2>1. /\ dial[d].st = "new" /\ \A x \in Dials \ {d} : dial'[x] = dial[x] /\ conn'[x] = conn[x]
        /\ \/ dial'[d].st = "err" /\ conn'[d] = conn[d]
           \/ dial'[d].st = "dialing" /\ conn'[d] = "knocking"
    <3>1. CASE DialTo(d, "err") /\ UNCHANGED conn
      BY <1>1, <3>1, DialMoves DEF Dial, DialStates
    <3>2. CASE DialTo(d, "dialing") /\ conn' = [conn EXCEPT ![d] = "knocking"]
      BY <1>1, <3>2, DialMoves DEF Dial, DialStates, Dialing, TypeOK
    <3> QED BY <1>1, <3>1, <3>2 DEF Dial
  <2> QED BY <1>0, <1>1, <2>1 DEF Dial, Dialing, Live
<1>2. ASSUME NEW d \in Dials, Connected(d) \/ ConnectOpens(d) PROVE NearOK(e)'
  <2>1. dial[d].st \in Dialing
    BY <1>2 DEF Connected, ConnectOpens, Dialing
  <2>2. CASE \E h \in Objects : GiveNear(d, h)
    BY <1>0, <2>1, <2>2, NearGiven DEF Dialing, Live
  <2>3. CASE DialTo(d, "opening") /\ UNCHANGED <<near, conn, why>>
    BY <1>0, <2>1, <2>3, DialMoves DEF DialStates, Dialing
  <2>4. CASE conn[d] = "closed" /\ DialTo(d, "err") /\ UNCHANGED <<near, conn, why>>
    BY <1>0, <2>1, <2>4, DialMoves DEF DialStates, Dialing, Live
  <2> QED BY <1>2, <2>2, <2>3, <2>4 DEF Connected, ConnectOpens, HandshakeFailed, Objects
<1>3. ASSUME NEW d \in Dials, OpenBi(d) PROVE NearOK(e)'
  BY <1>0, <1>3 DEF OpenBi, TypeOK
<1>4. ASSUME NEW d \in Dials, CancelDial(d) PROVE NearOK(e)'
  BY <1>0, <1>4, DialMoves, Closes DEF CancelDial, DialStates, Dialing, Live
<1>5. ASSUME NEW d \in Dials, NEW h \in Objects, DropNear(d, h) PROVE NearOK(e)'
  <2>1. /\ h \in near[d] /\ \A x \in Dials \ {d} : near'[x] = near[x]
        /\ near'[d] = near[d] \ {h}
    BY <1>5 DEF DropNear, TypeOK
  <2>2. CloseAll({x \in {d} : near[x] = {h}}, "dropped") /\ dial' = dial
    BY <1>5 DEF DropNear
  <2>3. CASE near[d] = {h}
    BY <1>0, <2>1, <2>2, <2>3, Closes DEF Live
  <2>4. CASE near[d] # {h}
    BY <1>0, <2>1, <2>2, <2>4, Closes DEF Live
  <2> QED BY <2>3, <2>4
<1>6. ASSUME NEW D \in SUBSET Dials, NEW w \in {"dropped", "shutdown", "endpoint", "refused", "lost"},
             CloseAll(D, w), UNCHANGED <<dial, near>>
      PROVE  NearOK(e)'
  BY <1>0, <1>6, Closes DEF Live
<1>7. ASSUME NEW d \in Dials, Shutdown(d) \/ Timeout(d) \/ Lose(d) \/ CloseReaches(d) PROVE NearOK(e)'
  BY <1>6, <1>7 DEF Shutdown, Timeout, Lose, CloseReaches
<1>8. ASSUME NEW d \in Dials, NEW h \in Objects, DropFar(d, h) PROVE NearOK(e)'
  BY <1>6, <1>8 DEF DropFar
<1>9. ASSUME NEW d \in Dials, Arrive(d) \/ Handshake(d) PROVE NearOK(e)'
  BY <1>0, <1>9 DEF Arrive, Handshake, TypeOK, Live
<1>10. ASSUME NEW a \in Accepts, Take(a) PROVE NearOK(e)'
  <2>1. CASE UNCHANGED <<conn, why>>
    BY <1>0, <1>10, <2>1 DEF Take
  <2>2. CASE queue # <<>> /\ TakeHead(a)
    <3>1. Head(queue) \in Dials
      BY <2>2, TakesHead
    <3>2. CASE CloseAll({Head(queue)}, "refused")
      BY <1>6, <1>10, <3>1, <3>2 DEF Take
    <3>3. CASE /\ conn[Head(queue)] = "queued"
               /\ conn' = [conn EXCEPT ![Head(queue)] = "handshake"] /\ UNCHANGED why
      BY <1>0, <1>10, <3>1, <3>3 DEF Take, TypeOK, Live
    <3> QED BY <1>10, <2>2, <3>2, <3>3, <2>1 DEF Take
  <2> QED BY <1>10, <2>1, <2>2 DEF Take
<1>11. ASSUME NEW a \in Accepts, Accepted(a) \/ AcceptsBi(a) PROVE NearOK(e)'
  <2>1. acc[a].got \in Dials /\ UNCHANGED <<dial, near>>
    BY <1>11, HasConn DEF Accepted, AcceptsBi
  <2>2. CASE UNCHANGED <<conn, why>>
    BY <1>0, <2>1, <2>2
  <2>3. CASE CloseAll({acc[a].got}, "dropped")
    BY <1>6, <2>1, <2>3
  <2> QED BY <1>11, <2>2, <2>3 DEF Accepted, AcceptsBi, GiveFar
<1>12. ASSUME NEW a \in Accepts, CancelAccept(a) PROVE NearOK(e)'
  BY <1>0, <1>12, Closes DEF CancelAccept, Live
<1>13. CASE CloseEndpoint
  BY <1>0, <1>13 DEF CloseEndpoint
<1>14. CASE \/ UNCHANGED vars \/ \E S \in SUBSET Alpns : SetAlpns(S)
            \/ (\E a \in Accepts : Accept(a)) \/ \E d \in Dials : Speak(d) \/ AcceptBi(d)
  BY <1>0, <1>14 DEF vars, SetAlpns, Accept, Speak, AcceptBi
<1> QED BY <1>1, <1>2, <1>3, <1>4, <1>5, <1>7, <1>8, <1>9, <1>10, <1>11, <1>12, <1>13, <1>14
        DEF Next

-----------------------------------------------------------------------------
(* The queue, and who takes from it.                                       *)

\* A connection that has arrived has not arrived again.
LEMMA ConnForward ==
  ASSUME TypeOK, NearInv, [Next]_vars, NEW e \in Dials, conn[e] \notin {"none", "knocking"}
  PROVE  conn'[e] \notin {"none", "knocking"}
<1>1. ASSUME NEW D, NEW w \in {"dropped", "shutdown", "endpoint", "refused", "lost"}, CloseAll(D, w)
      PROVE  conn'[e] \notin {"none", "knocking"}
  BY <1>1, Closes
<1>2. ASSUME NEW d \in Dials, Dial(d) PROVE conn'[e] \notin {"none", "knocking"}
  BY <1>2 DEF Dial, NearInv, NearOK, TypeOK
<1>3. ASSUME NEW d \in Dials, Connected(d) \/ ConnectOpens(d) PROVE conn'[e] \notin {"none", "knocking"}
  BY <1>1, <1>3 DEF Connected, ConnectOpens, GiveNear
<1>4. ASSUME NEW d \in Dials, CancelDial(d) \/ Shutdown(d) \/ Timeout(d) \/ Lose(d) \/ CloseReaches(d)
      PROVE  conn'[e] \notin {"none", "knocking"}
  BY <1>1, <1>4 DEF CancelDial, Shutdown, Timeout, Lose, CloseReaches
<1>5. ASSUME NEW d \in Dials, Arrive(d) \/ Handshake(d) PROVE conn'[e] \notin {"none", "knocking"}
  BY <1>5 DEF Arrive, Handshake, TypeOK
<1>6. ASSUME NEW d \in Dials, NEW h \in Objects, DropNear(d, h) \/ DropFar(d, h)
      PROVE  conn'[e] \notin {"none", "knocking"}
  BY <1>1, <1>6 DEF DropNear, DropFar
<1>7. ASSUME NEW a \in Accepts, Take(a) PROVE conn'[e] \notin {"none", "knocking"}
  <2>1. CASE conn' = [conn EXCEPT ![Head(queue)] = "handshake"]
    BY <2>1 DEF TypeOK
  <2>2. CASE CloseAll({Head(queue)}, "refused")
    BY <1>1, <2>2
  <2> QED BY <1>7, <2>1, <2>2 DEF Take
<1>8. ASSUME NEW a \in Accepts, Accepted(a) \/ AcceptsBi(a) \/ CancelAccept(a)
      PROVE  conn'[e] \notin {"none", "knocking"}
  BY <1>1, <1>8 DEF Accepted, AcceptsBi, CancelAccept, GiveFar
<1>9. CASE CloseEndpoint
  BY <1>9 DEF CloseEndpoint
<1>10. CASE \/ UNCHANGED vars \/ \E S \in SUBSET Alpns : SetAlpns(S)
            \/ (\E a \in Accepts : Accept(a))
            \/ \E d \in Dials : OpenBi(d) \/ Speak(d) \/ AcceptBi(d)
  BY <1>10 DEF vars, SetAlpns, Accept, OpenBi, Speak, AcceptBi
<1> QED BY <1>2, <1>3, <1>4, <1>5, <1>6, <1>7, <1>8, <1>9, <1>10 DEF Next

\* No accept call gets another connection and none waits again.
GotsKept ==
  \A a \in Accepts :
    /\ acc'[a].got = acc[a].got
    /\ acc'[a].st \in {"new", "waiting"} => acc[a].st \in {"new", "waiting"}

\* A step takes the first of the queue, or no call gets a connection and the
\* queue stays or gets a new one.
QueueMove ==
  \/ \E a \in Accepts :
       acc[a].st = "waiting" /\ queue # <<>> /\ TakeHead(a)
  \/ GotsKept /\ queue' = queue
  \/ /\ GotsKept
     /\ \E d \in Dials :
          conn[d] = "knocking" /\ conn'[d] = "queued" /\ queue' = Append(queue, d)

LEMMA QueueMoves == TypeOK /\ [Next]_vars => QueueMove
<1> SUFFICES ASSUME TypeOK, [Next]_vars PROVE QueueMove
  OBVIOUS
<1>1. ASSUME NEW d \in Dials, Arrive(d) PROVE QueueMove
  BY <1>1 DEF Arrive, TypeOK, GotsKept, QueueMove
<1>2. ASSUME NEW a \in Accepts, NEW s \in AcceptStates, acc[a].st \in {"new", "waiting"} \/ s # "waiting",
             s # "new", AcceptTo(a, s), queue' = queue
      PROVE  QueueMove
  BY <1>2, AcceptMoves DEF QueueMove, GotsKept
<1>3. ASSUME NEW a \in Accepts, Accept(a) PROVE QueueMove
  BY <1>2, <1>3 DEF Accept, AcceptStates, Accepting
<1>4. ASSUME NEW a \in Accepts, Take(a) PROVE QueueMove
  <2>1. CASE closed /\ AcceptTo(a, "none") /\ UNCHANGED <<queue, conn, why>>
    BY <1>2, <2>1 DEF AcceptStates
  <2>2. CASE queue # <<>> /\ TakeHead(a)
    BY <1>4, <2>2 DEF Take, QueueMove
  <2> QED BY <1>4, <2>1, <2>2 DEF Take
<1>5. ASSUME NEW a \in Accepts, Accepted(a) \/ AcceptsBi(a) \/ CancelAccept(a) PROVE QueueMove
  <2>1. \E s \in {"bi", "ok", "err", "cancelled"} : AcceptTo(a, s)
    BY <1>5 DEF Accepted, AcceptsBi, CancelAccept, GiveFar
  <2>2. queue' = queue
    BY <1>5 DEF Accepted, AcceptsBi, CancelAccept
  <2> QED BY <1>2, <2>1, <2>2 DEF AcceptStates, Accepting
<1>6. CASE CloseEndpoint
  BY <1>6 DEF CloseEndpoint, GotsKept, QueueMove
<1>7. ASSUME UNCHANGED <<acc, queue>> PROVE QueueMove
  BY <1>7 DEF QueueMove, GotsKept
<1>8. CASE UNCHANGED vars
  BY <1>7, <1>8 DEF vars
<1>9. ASSUME NEW d \in Dials,
             \/ Dial(d) \/ Connected(d) \/ ConnectOpens(d) \/ OpenBi(d) \/ Speak(d)
             \/ CancelDial(d) \/ AcceptBi(d) \/ Shutdown(d) \/ Handshake(d) \/ Timeout(d) \/ Lose(d)
             \/ CloseReaches(d)
             \/ \E h \in Objects : DropNear(d, h) \/ DropFar(d, h)
      PROVE  QueueMove
  BY <1>7, <1>9 DEF Dial, Connected, ConnectOpens, OpenBi, Speak, CancelDial, AcceptBi, Shutdown,
                    Handshake, Timeout, Lose, CloseReaches, DropNear, DropFar
<1>10. ASSUME NEW S \in SUBSET Alpns, SetAlpns(S) PROVE QueueMove
  BY <1>7, <1>10 DEF SetAlpns
<1> QED BY <1>1, <1>3, <1>4, <1>5, <1>6, <1>8, <1>9, <1>10 DEF Next

LEMMA QueueStep ==
  TypeOK /\ NearInv /\ QueueInv /\ ExclusiveDelivery /\ [Next]_vars
    => QueueInv' /\ ExclusiveDelivery'
<1> SUFFICES ASSUME TypeOK, NearInv, QueueInv, ExclusiveDelivery, [Next]_vars
             PROVE  QueueInv' /\ ExclusiveDelivery'
  OBVIOUS
<1>1. \A e \in Dials : conn[e] \notin {"none", "knocking"} => conn'[e] \notin {"none", "knocking"}
  BY ConnForward
<1>2. /\ queue \in Seq(Dials) /\ Len(queue) \in Nat
      /\ \A i \in 1..Len(queue) : queue[i] \in Dials
      /\ \A a \in Accepts : acc[a].got \in Dials \cup {NoConn}
  BY ElementOfSeq DEF TypeOK
<1>3. ASSUME NEW a \in Accepts, acc[a].st = "waiting", queue # <<>>, TakeHead(a)
      PROVE  QueueInv' /\ ExclusiveDelivery'
  <2>1. /\ Len(queue) \in Nat \ {0} /\ queue[1] \in Dials
        /\ Len(queue') = Len(queue) - 1
        /\ \A i \in 1..Len(queue') : i + 1 \in 1..Len(queue) /\ queue'[i] = queue[i + 1]
        /\ acc'[a].st = "handshake" /\ acc'[a].got = queue[1]
        /\ \A b \in Accepts \ {a} : acc'[b] = acc[b]
    BY <1>3, TakesHead
  <2>2. \A b \in Accepts : acc[b].got # NoConn => \A i \in 1..Len(queue) : queue[i] # acc[b].got
    BY DEF QueueInv
  <2>3. ExclusiveDelivery'
    BY <2>1, <2>2, NoConnAssumption DEF ExclusiveDelivery
  <2>4. \A i \in 1..Len(queue') : conn'[queue'[i]] \notin {"none", "knocking"}
    BY <1>1, <1>2, <2>1 DEF QueueInv
  <2>5. \A i, j \in 1..Len(queue') : queue'[i] = queue'[j] => i = j
    <3> SUFFICES ASSUME NEW i \in 1..Len(queue'), NEW j \in 1..Len(queue'), queue'[i] = queue'[j]
                 PROVE  i = j
      OBVIOUS
    <3>1. queue[i + 1] = queue[j + 1] /\ i + 1 \in 1..Len(queue) /\ j + 1 \in 1..Len(queue)
      BY <2>1
    <3>2. i + 1 = j + 1
      BY <3>1 DEF QueueInv
    <3> QED BY <2>1, <3>2
  <2>6. ASSUME NEW b \in Accepts, acc'[b].got # NoConn
        PROVE  /\ conn'[acc'[b].got] \notin {"none", "knocking"}
               /\ \A i \in 1..Len(queue') : queue'[i] # acc'[b].got
    <3>1. CASE b = a
      <4>1. acc'[b].got = queue[1] /\ 1 \in 1..Len(queue)
        BY <2>1, <3>1
      <4>2. conn'[queue[1]] \notin {"none", "knocking"}
        BY <1>1, <1>2, <4>1 DEF QueueInv
      <4>3. \A i \in 1..Len(queue') : queue[i + 1] # queue[1]
        BY <2>1, <4>1 DEF QueueInv
      <4> QED BY <2>1, <4>1, <4>2, <4>3
    <3>2. CASE b # a
      <4>1. acc'[b] = acc[b]
        BY <2>1, <3>2
      <4> QED BY <1>1, <1>2, <2>1, <2>2, <2>6, <4>1 DEF QueueInv
    <3> QED BY <3>1, <3>2
  <2>7. \A b \in Accepts : acc'[b].st \in {"new", "waiting"} => acc'[b].got = NoConn
    BY <2>1 DEF QueueInv
  <2> QED BY <2>3, <2>4, <2>5, <2>6, <2>7 DEF QueueInv
<1>4. CASE GotsKept
  <2>1. ExclusiveDelivery'
    BY <1>4 DEF GotsKept, ExclusiveDelivery
  <2>2. \A a \in Accepts : acc'[a].st \in {"new", "waiting"} => acc'[a].got = NoConn
    BY <1>4 DEF GotsKept, QueueInv
  <2>3. \A a \in Accepts : acc'[a].got # NoConn => conn'[acc'[a].got] \notin {"none", "knocking"}
    BY <1>1, <1>2, <1>4 DEF GotsKept, QueueInv
  <2>4. CASE queue' = queue
    <3>1. \A i \in 1..Len(queue) : conn'[queue[i]] \notin {"none", "knocking"}
      BY <1>1, <1>2 DEF QueueInv
    <3> QED BY <1>4, <2>1, <2>2, <2>3, <2>4, <3>1 DEF GotsKept, QueueInv
  <2>6. ASSUME NEW d \in Dials, conn[d] = "knocking", conn'[d] = "queued", queue' = Append(queue, d)
        PROVE  QueueInv'
    <3>1. /\ Len(queue') = Len(queue) + 1 /\ queue'[Len(queue) + 1] = d
          /\ \A i \in 1..Len(queue) : queue'[i] = queue[i]
      BY <1>2, <2>6, AppendProperties
    <3>2. \A i \in 1..Len(queue') : i \in 1..Len(queue) \/ i = Len(queue) + 1
      BY <1>2, <3>1
    <3>3. \A i \in 1..Len(queue) : queue[i] # d /\ conn'[queue[i]] \notin {"none", "knocking"}
      BY <1>1, <1>2, <2>6 DEF QueueInv
    <3>4. \A a \in Accepts : acc[a].got # d
      BY <2>6, NoConnAssumption DEF QueueInv
    <3>5. \A i \in 1..Len(queue') : conn'[queue'[i]] \notin {"none", "knocking"}
      BY <2>6, <3>1, <3>2, <3>3
    <3>6. \A i, j \in 1..Len(queue') : queue'[i] = queue'[j] => i = j
      BY <3>1, <3>2, <3>3 DEF QueueInv
    <3>7. \A a \in Accepts : acc'[a].got # NoConn => \A i \in 1..Len(queue') : queue'[i] # acc'[a].got
      BY <1>4, <3>1, <3>2, <3>4 DEF GotsKept, QueueInv
    <3> QED BY <2>2, <2>3, <3>5, <3>6, <3>7 DEF QueueInv
  <2> QED BY <1>3, <1>4, <2>1, <2>4, <2>6, QueueMoves DEF QueueMove
<1> QED BY <1>3, <1>4, QueueMoves DEF QueueMove

-----------------------------------------------------------------------------
(* The accepting side.                                                     *)

\* A connection that is alive after a step other than Take was so before.
ComesFrom(e) == conn'[e] \in {"handshake", "up"} => conn[e] \in {"handshake", "up"}

LEMMA AliveBefore ==
  ASSUME TypeOK, [Next]_vars, NEW e \in Dials, ~ \E a \in Accepts : Take(a)
  PROVE  ComesFrom(e)
<1>1. ASSUME NEW D, NEW w \in {"dropped", "shutdown", "endpoint", "refused", "lost"}, CloseAll(D, w)
      PROVE  ComesFrom(e)
  BY <1>1, Closes DEF ComesFrom
<1>2. ASSUME NEW d \in Dials, Dial(d) \/ Arrive(d) \/ Handshake(d) PROVE ComesFrom(e)
  BY <1>2 DEF Dial, Arrive, Handshake, TypeOK, ComesFrom
<1>3. ASSUME NEW d \in Dials, Connected(d) \/ ConnectOpens(d) PROVE ComesFrom(e)
  BY <1>1, <1>3 DEF Connected, ConnectOpens, GiveNear, ComesFrom
<1>4. ASSUME NEW d \in Dials, CancelDial(d) \/ Shutdown(d) \/ Timeout(d) \/ Lose(d) \/ CloseReaches(d)
      PROVE  ComesFrom(e)
  BY <1>1, <1>4 DEF CancelDial, Shutdown, Timeout, Lose, CloseReaches
<1>5. ASSUME NEW d \in Dials, NEW h \in Objects, DropNear(d, h) \/ DropFar(d, h)
      PROVE  ComesFrom(e)
  BY <1>1, <1>5 DEF DropNear, DropFar
<1>6. ASSUME NEW a \in Accepts, Accepted(a) \/ AcceptsBi(a) \/ CancelAccept(a)
      PROVE  ComesFrom(e)
  BY <1>1, <1>6 DEF Accepted, AcceptsBi, CancelAccept, GiveFar, ComesFrom
<1>7. CASE CloseEndpoint
  BY <1>7 DEF CloseEndpoint, ComesFrom
<1>8. CASE \/ UNCHANGED vars \/ \E S \in SUBSET Alpns : SetAlpns(S)
           \/ (\E a \in Accepts : Accept(a))
           \/ \E d \in Dials : OpenBi(d) \/ Speak(d) \/ AcceptBi(d)
  BY <1>8 DEF vars, SetAlpns, Accept, OpenBi, Speak, AcceptBi, ComesFrom
<1> QED BY <1>2, <1>3, <1>4, <1>5, <1>6, <1>7, <1>8 DEF Next

LEMMA FarStep ==
  TypeOK /\ NearInv /\ QueueInv /\ ExclusiveDelivery /\ FarInv /\ [Next]_vars => FarInv'
<1> SUFFICES ASSUME TypeOK, NearInv, QueueInv, ExclusiveDelivery, FarInv, [Next]_vars,
                    NEW e \in Dials
             PROVE  FarOK(e)'
  BY DEF FarInv
<1>0. FarOK(e)
  BY DEF FarInv
<1> USE DEF FarOK, FarHeld
<1>1. ASSUME UNCHANGED <<acc, far>>, ~ \E a \in Accepts : Take(a) PROVE FarOK(e)'
  BY <1>0, <1>1, AliveBefore DEF ComesFrom
<1>2. ASSUME NEW d \in Dials, AcceptBi(d) PROVE FarOK(e)'
  <2>1. /\ far[d] # {} /\ far'[d] # {} /\ UNCHANGED <<acc, conn>>
        /\ \A x \in Dials \ {d} : far'[x] = far[x]
    BY <1>2 DEF AcceptBi, TypeOK
  <2> QED BY <1>0, <2>1
<1>3. ASSUME NEW d \in Dials, NEW h \in Objects, DropFar(d, h) PROVE FarOK(e)'
  <2>1. /\ far[d] # {} /\ UNCHANGED acc /\ far'[d] = far[d] \ {h}
        /\ \A x \in Dials \ {d} : far'[x] = far[x]
    BY <1>3 DEF DropFar, TypeOK
  <2>2. CloseAll({x \in {d} : far[x] = {h}}, "dropped")
    BY <1>3 DEF DropFar
  <2>3. CASE far[d] = {h}
    BY <1>0, <2>1, <2>2, <2>3, Closes DEF Live
  <2>4. CASE far[d] # {h}
    BY <1>0, <2>1, <2>2, <2>4, Closes DEF Live
  <2> QED BY <2>3, <2>4
<1>4. ASSUME NEW a \in Accepts, acc[a].got # e, acc'[a].got # e, far'[e] = far[e],
             \A b \in Accepts \ {a} : acc'[b] = acc[b],
             conn'[e] \in {"handshake", "up"} => conn[e] \in {"handshake", "up"}
      PROVE  FarOK(e)'
  <2>1. ASSUME far[e] # {} PROVE \E b \in Accepts : acc'[b].got = e /\ acc'[b].st = "ok"
    BY <1>0, <1>4, <2>1
  <2>2. ASSUME FarHeld(e) PROVE FarHeld(e)'
    BY <1>4, <2>2
  <2> QED BY <1>0, <1>4, <2>1, <2>2
<1>5. ASSUME NEW a \in Accepts, Accept(a) PROVE FarOK(e)'
  <2>1. acc[a].got = NoConn /\ AcceptTo(a, "waiting") /\ UNCHANGED <<conn, far>>
    BY <1>5 DEF Accept, QueueInv
  <2> QED BY <1>4, <2>1, AcceptMoves, NoConnAssumption DEF AcceptStates, Accepting
<1>6. ASSUME NEW a \in Accepts, Take(a) PROVE FarOK(e)'
  <2>1. acc[a].got = NoConn /\ UNCHANGED far
    BY <1>6 DEF Take, QueueInv
  <2>2. CASE AcceptTo(a, "none") /\ UNCHANGED conn
    BY <1>4, <2>1, <2>2, AcceptMoves, NoConnAssumption DEF AcceptStates
  <2>3. CASE queue # <<>> /\ TakeHead(a)
    <3>1. /\ Head(queue) \in Dials /\ acc'[a].st = "handshake" /\ acc'[a].got = Head(queue)
          /\ \A b \in Accepts \ {a} : acc'[b] = acc[b]
      BY <2>3, TakesHead
    <3>2. \A x \in Dials \ {Head(queue)} : conn'[x] \in {"handshake", "up"} => conn[x] \in {"handshake", "up"}
      <4>1. CASE CloseAll({Head(queue)}, "refused")
        BY <4>1, Closes
      <4>2. CASE conn' = [conn EXCEPT ![Head(queue)] = "handshake"]
        BY <3>1, <4>2 DEF TypeOK
      <4> QED BY <1>6, <2>3, <4>1, <4>2 DEF Take
    <3>3. CASE e = Head(queue)
      <4>1. FarHeld(e)'
        BY <3>1, <3>3 DEF Accepting
      <4>2. far'[e] # {} => \E b \in Accepts : acc'[b].got = e /\ acc'[b].st = "ok"
        BY <1>0, <1>6, <2>1, <3>1 DEF Take
      <4> QED BY <4>1, <4>2
    <3>4. CASE e # Head(queue)
      BY <1>4, <2>1, <3>1, <3>2, <3>4, NoConnAssumption
    <3> QED BY <3>3, <3>4
  <2> QED BY <1>6, <2>2, <2>3 DEF Take
<1>7. ASSUME NEW a \in Accepts, acc[a].st \in {"handshake", "bi"}, NEW h \in Objects, GiveFar(a, h)
      PROVE  FarOK(e)'
  <2>1. acc[a].got \in Dials
    BY <1>7, HasConn
  <2>2. CASE acc[a].got # e
    BY <1>4, <1>7, <2>1, <2>2, FarGiven
  <2>3. CASE acc[a].got = e
    <3>1. /\ acc'[a].got = e /\ \A b \in Accepts \ {a} : acc'[b] = acc[b]
          /\ \/ acc'[a].st = "ok" /\ far'[e] # {}
             \/ far'[e] = far[e] /\ conn'[e] \notin {"handshake", "up"}
      BY <1>7, <2>1, <2>3, FarGiven DEF Live
    <3> QED BY <1>0, <1>7, <3>1
  <2> QED BY <2>2, <2>3
<1>8. ASSUME NEW a \in Accepts, acc[a].st \in Accepting, NEW s \in AcceptStates, AcceptTo(a, s),
             UNCHANGED far, conn'[e] \in {"handshake", "up"} => conn[e] \in {"handshake", "up"},
             acc[a].got = e => s \in Accepting \/ conn'[e] \notin {"handshake", "up"}
      PROVE  FarOK(e)'
  <2>1. /\ acc'[a].st = s /\ acc'[a].got = acc[a].got
        /\ \A b \in Accepts \ {a} : acc'[b] = acc[b]
    BY <1>8, AcceptMoves
  <2>2. CASE acc[a].got # e
    BY <1>4, <1>8, <2>1, <2>2
  <2>3. CASE acc[a].got = e
    BY <1>0, <1>8, <2>1, <2>3 DEF Accepting
  <2> QED BY <2>2, <2>3
<1>9. ASSUME NEW a \in Accepts, Accepted(a) \/ AcceptsBi(a) PROVE FarOK(e)'
  <2>1. acc[a].st \in {"handshake", "bi"}
    BY <1>9 DEF Accepted, AcceptsBi
  <2>2. CASE \E h \in Objects : GiveFar(a, h)
    BY <1>7, <2>1, <2>2
  <2>3. CASE AcceptTo(a, "bi") /\ UNCHANGED <<far, conn, why>>
    BY <1>8, <2>1, <2>3 DEF AcceptStates, Accepting
  <2>4. CASE AcceptTo(a, "err") /\ conn[acc[a].got] = "closed" /\ UNCHANGED <<far, conn, why>>
    BY <1>8, <2>1, <2>4 DEF AcceptStates, Accepting
  <2> QED BY <1>9, <2>2, <2>3, <2>4 DEF Accepted, AcceptsBi, HandshakeFailed, Objects
<1>10. ASSUME NEW a \in Accepts, CancelAccept(a) PROVE FarOK(e)'
  <2>1. /\ acc[a].st \in Accepting /\ AcceptTo(a, "cancelled") /\ UNCHANGED far
        /\ CloseAll({acc[a].got}, "dropped")
    BY <1>10 DEF CancelAccept
  <2>2. /\ conn'[e] \in {"handshake", "up"} => conn[e] \in {"handshake", "up"}
        /\ acc[a].got = e => conn'[e] \notin {"handshake", "up"}
    BY <2>1, Closes DEF Live
  <2> QED BY <1>8, <2>1, <2>2 DEF AcceptStates
<1>11. ASSUME NEW d \in Dials,
              \/ Dial(d) \/ Connected(d) \/ ConnectOpens(d) \/ OpenBi(d) \/ Speak(d)
              \/ CancelDial(d) \/ Shutdown(d) \/ Arrive(d) \/ Handshake(d) \/ Timeout(d) \/ Lose(d)
              \/ CloseReaches(d)
              \/ \E h \in Objects : DropNear(d, h)
       PROVE  UNCHANGED <<acc, far>>
  BY <1>11 DEF Dial, Connected, ConnectOpens, OpenBi, Speak, CancelDial, Shutdown,
               Arrive, Handshake, Timeout, Lose, CloseReaches, DropNear
<1>12. CASE CloseEndpoint \/ UNCHANGED vars \/ \E S \in SUBSET Alpns : SetAlpns(S)
  <2>1. UNCHANGED <<acc, far>>
    BY <1>12 DEF vars, SetAlpns, CloseEndpoint
  <2> QED BY <1>1, <1>6, <2>1
<1> QED BY <1>1, <1>2, <1>3, <1>5, <1>6, <1>9, <1>10, <1>11, <1>12 DEF Next

-----------------------------------------------------------------------------
(* Why connections are dropped.                                            *)

LEMMA DropStep == EInv /\ [Next]_vars => DropInv'
<1> SUFFICES ASSUME EInv, [Next]_vars, NEW e \in Dials PROVE DropOK(e)'
  BY DEF DropInv
<1>0. /\ TypeOK /\ NearOK(e) /\ QueueInv /\ ExclusiveDelivery /\ FarOK(e) /\ DropOK(e)
  BY DEF EInv, NearInv, FarInv, DropInv
<1> USE DEF DropOK, NearHeld, FarHeld, Taken
<1>2. ASSUME UNCHANGED <<dial, near, acc, far>>, why'[e] = "dropped" => why[e] = "dropped"
      PROVE  DropOK(e)'
  BY <1>0, <1>2
<1>3. ASSUME NEW D, NEW w \in {"shutdown", "endpoint", "refused", "lost"}, CloseAll(D, w)
      PROVE  why'[e] = "dropped" => why[e] = "dropped"
  BY <1>0, <1>3, Closes
<1>4. ASSUME NEW d \in Dials, Dial(d) PROVE DropOK(e)'
  <2>1. /\ conn[d] = "none" /\ dial[d].st = "new" /\ UNCHANGED <<near, acc, far, why>>
        /\ \A x \in Dials \ {d} : dial'[x] = dial[x]
    BY <1>0, <1>4, DialMoves DEF Dial, DialStates, Dialing, EInv, NearInv, NearOK
  <2> QED BY <1>0, <2>1 DEF NearOK
<1>5. ASSUME NEW d \in Dials, Connected(d) \/ ConnectOpens(d) \/ CancelDial(d) PROVE DropOK(e)'
  <2>1. dial[d].st \in Dialing /\ UNCHANGED <<acc, far>>
    BY <1>5 DEF Connected, ConnectOpens, CancelDial, Dialing
  <2>2. ASSUME UNCHANGED why, near' = near, \A x \in Dials \ {d} : dial'[x] = dial[x]
        PROVE DropOK(e)'
    BY <1>0, <2>1, <2>2 DEF Dialing
  <2>3. ASSUME NEW h \in Objects, GiveNear(d, h) PROVE DropOK(e)'
    <3>1. CASE d # e
      BY <1>0, <2>1, <2>3, <3>1, NearGiven
    <3>2. CASE d = e
      BY <1>0, <2>1, <2>3, <3>2, NearGiven DEF NearOK, Dialing
    <3> QED BY <3>1, <3>2
  <2>4. CASE (DialTo(d, "opening") \/ DialTo(d, "err")) /\ UNCHANGED <<near, conn, why>>
    BY <1>0, <2>2, <2>4, DialMoves DEF DialStates, Dialing
  <2>5. CASE CancelDial(d)
    <3>1. DialTo(d, "cancelled") /\ CloseAll({d}, "dropped") /\ UNCHANGED near
      BY <2>5 DEF CancelDial
    <3>2. CASE d # e
      BY <1>0, <2>1, <3>1, <3>2, DialMoves, Closes DEF DialStates
    <3>3. CASE d = e
      BY <1>0, <2>1, <3>1, <3>3, DialMoves, Closes DEF DialStates, NearOK, Dialing
    <3> QED BY <3>2, <3>3
  <2> QED BY <1>5, <2>3, <2>4, <2>5 DEF Connected, ConnectOpens, Objects
<1>6. ASSUME NEW d \in Dials, OpenBi(d) PROVE DropOK(e)'
  <2>1. /\ near[d] # {} /\ UNCHANGED <<dial, acc, far, why>>
        /\ \A x \in Dials \ {d} : near'[x] = near[x]
    BY <1>0, <1>6 DEF OpenBi, TypeOK
  <2> QED BY <1>0, <2>1
<1>7. ASSUME NEW d \in Dials, NEW h \in Objects, DropNear(d, h) PROVE DropOK(e)'
  <2>1. /\ h \in near[d] /\ UNCHANGED <<dial, acc, far>> /\ near'[d] = near[d] \ {h}
        /\ \A x \in Dials \ {d} : near'[x] = near[x]
    BY <1>0, <1>7 DEF DropNear, TypeOK
  <2>2. CloseAll({x \in {d} : near[x] = {h}}, "dropped")
    BY <1>7 DEF DropNear
  <2>3. CASE near[d] = {h}
    BY <1>0, <2>1, <2>2, <2>3, Closes DEF NearOK, Dialing
  <2>4. CASE near[d] # {h}
    BY <1>0, <2>1, <2>2, <2>4, Closes
  <2> QED BY <2>3, <2>4
<1>8. ASSUME NEW d \in Dials, AcceptBi(d) PROVE DropOK(e)'
  <2>1. /\ far[d] # {} /\ UNCHANGED <<dial, acc, near, why>>
        /\ \A x \in Dials \ {d} : far'[x] = far[x]
    BY <1>0, <1>8 DEF AcceptBi, TypeOK
  <2> QED BY <1>0, <2>1
<1>9. ASSUME NEW d \in Dials, NEW h \in Objects, DropFar(d, h) PROVE DropOK(e)'
  <2>1. /\ h \in far[d] /\ UNCHANGED <<dial, acc, near>> /\ far'[d] = far[d] \ {h}
        /\ \A x \in Dials \ {d} : far'[x] = far[x]
    BY <1>0, <1>9 DEF DropFar, TypeOK
  <2>2. CloseAll({x \in {d} : far[x] = {h}}, "dropped")
    BY <1>9 DEF DropFar
  <2>3. CASE far[d] = {h} /\ d = e
    <3>1. PICK b \in Accepts : acc[b].got = e /\ acc[b].st = "ok"
      BY <1>0, <2>3 DEF FarOK
    <3>2. \A a \in Accepts : acc[a].st \in Accepting => acc[a].got # e
      BY <1>0, <3>1, NoConnAssumption DEF ExclusiveDelivery, Accepting
    <3> QED BY <2>1, <2>3, <3>1, <3>2
  <2>4. CASE far[d] # {h} \/ d # e
    BY <1>0, <2>1, <2>2, <2>4, Closes
  <2> QED BY <2>3, <2>4
<1>10. ASSUME NEW a \in Accepts, acc[a].got # e, acc'[a].got # e, far'[e] = far[e],
              \A b \in Accepts \ {a} : acc'[b] = acc[b], UNCHANGED <<dial, near>>,
              why'[e] = "dropped" => why[e] = "dropped"
       PROVE  DropOK(e)'
  BY <1>0, <1>10
<1>11. ASSUME NEW a \in Accepts, Accept(a) PROVE DropOK(e)'
  <2>1. acc[a].got = NoConn /\ AcceptTo(a, "waiting") /\ UNCHANGED <<dial, near, far, why>>
    BY <1>0, <1>11 DEF Accept, QueueInv
  <2> QED BY <1>0, <1>10, <2>1, AcceptMoves, NoConnAssumption DEF AcceptStates, Accepting
<1>12. ASSUME NEW a \in Accepts, Take(a) PROVE DropOK(e)'
  <2>1. acc[a].got = NoConn /\ UNCHANGED <<dial, near, far>>
    BY <1>0, <1>12 DEF Take, QueueInv
  <2>2. CASE AcceptTo(a, "none") /\ UNCHANGED why
    BY <1>0, <1>10, <2>1, <2>2, AcceptMoves, NoConnAssumption DEF AcceptStates
  <2>3. CASE queue # <<>> /\ TakeHead(a)
    <3>1. /\ Head(queue) = queue[1] /\ acc'[a].got = queue[1] /\ Len(queue) \in Nat \ {0}
          /\ \A b \in Accepts \ {a} : acc'[b] = acc[b]
      BY <1>0, <2>3, TakesHead
    <3>2. why'[e] = "dropped" => why[e] = "dropped"
      BY <1>3, <1>12, <2>3 DEF Take
    <3>3. CASE e = queue[1]
      <4>1. ~Taken(e)
        BY <1>0, <3>1, <3>3, NoConnAssumption DEF QueueInv
      <4> QED BY <1>0, <2>1, <3>2, <4>1
    <3>4. CASE e # queue[1]
      BY <1>10, <2>1, <3>1, <3>2, <3>4, NoConnAssumption
    <3> QED BY <3>3, <3>4
  <2> QED BY <1>12, <2>2, <2>3 DEF Take
<1>13. ASSUME NEW a \in Accepts, Accepted(a) \/ AcceptsBi(a) \/ CancelAccept(a) PROVE DropOK(e)'
  <2>1. acc[a].st \in Accepting /\ UNCHANGED <<dial, near>>
    BY <1>13 DEF Accepted, AcceptsBi, CancelAccept, Accepting
  <2>2. CASE /\ AcceptTo(a, "ok") /\ UNCHANGED why
             /\ \A x \in Dials \ {acc[a].got} : far'[x] = far[x]
    <3>1. /\ acc'[a].st = "ok" /\ acc'[a].got = acc[a].got /\ \A b \in Accepts \ {a} : acc'[b] = acc[b]
      BY <1>0, <2>2, AcceptMoves DEF AcceptStates
    <3>2. CASE acc[a].got # e
      BY <1>0, <1>10, <2>1, <2>2, <3>1, <3>2 DEF TypeOK
    <3>3. CASE acc[a].got = e
      BY <1>0, <2>1, <2>2, <3>1, <3>3
    <3> QED BY <3>2, <3>3
  <2>3. CASE AcceptTo(a, "cancelled") /\ CloseAll({acc[a].got}, "dropped") /\ UNCHANGED far
    <3>1. /\ acc'[a].st = "cancelled" /\ acc'[a].got = acc[a].got
          /\ \A b \in Accepts \ {a} : acc'[b] = acc[b]
      BY <1>0, <2>3, AcceptMoves DEF AcceptStates
    <3>2. CASE acc[a].got # e
      BY <1>0, <1>10, <2>1, <2>3, <3>1, <3>2, Closes
    <3>3. CASE acc[a].got = e
      <4>1. \A b \in Accepts \ {a} : acc[b].got # e
        BY <1>0, <3>3, NoConnAssumption DEF ExclusiveDelivery
      <4>2. far[e] = {}
        BY <1>0, <2>1, <4>1 DEF FarOK, Accepting
      <4> QED BY <2>3, <3>1, <3>3, <4>1, <4>2 DEF Accepting
    <3> QED BY <3>2, <3>3
  <2>4. CASE (AcceptTo(a, "bi") \/ AcceptTo(a, "err")) /\ UNCHANGED <<far, conn, why>>
    <3>1. /\ acc'[a].got = acc[a].got /\ \A b \in Accepts \ {a} : acc'[b] = acc[b]
      BY <1>0, <2>4, AcceptMoves DEF AcceptStates, Accepting
    <3>2. CASE acc[a].got # e
      BY <1>10, <2>1, <2>4, <3>1, <3>2
    <3>3. CASE acc[a].got = e
      BY <1>0, <2>1, <2>4, <3>1, <3>3
    <3> QED BY <3>2, <3>3
  <2>5. ASSUME NEW h \in Objects, GiveFar(a, h), acc[a].got \in Dials PROVE DropOK(e)'
    BY <1>0, <2>2, <2>3, <2>5 DEF GiveFar, TypeOK
  <2>6. CASE Accepted(a) \/ AcceptsBi(a)
    <3>1. acc[a].got \in Dials
      BY <1>0, <2>6, HasConn DEF Accepted, AcceptsBi
    <3> QED BY <2>4, <2>5, <2>6, <3>1 DEF Accepted, AcceptsBi, Objects
  <2> QED BY <1>13, <2>3, <2>6 DEF CancelAccept
<1>14. ASSUME NEW d \in Dials, Shutdown(d) \/ Timeout(d) \/ Lose(d) \/ CloseReaches(d) PROVE DropOK(e)'
  BY <1>2, <1>3, <1>14 DEF Shutdown, Timeout, Lose, CloseReaches
<1>15. CASE CloseEndpoint
  BY <1>2, <1>15 DEF CloseEndpoint
<1>16. CASE \/ UNCHANGED vars \/ \E S \in SUBSET Alpns : SetAlpns(S)
            \/ \E d \in Dials : Speak(d) \/ Arrive(d) \/ Handshake(d)
  BY <1>2, <1>16 DEF vars, SetAlpns, Speak, Arrive, Handshake
<1> QED BY <1>4, <1>5, <1>6, <1>7, <1>8, <1>9, <1>11, <1>12, <1>13, <1>14, <1>15, <1>16 DEF Next

-----------------------------------------------------------------------------
(* The theorems.                                                           *)

LEMMA EInvInit == Init => EInv
<1> SUFFICES ASSUME Init PROVE EInv
  OBVIOUS
<1>1. TypeOK
  BY TypeInit
<1>2. /\ \A d \in Dials : dial[d].st = "new" /\ conn[d] = "none" /\ why[d] = "none"
                         /\ near[d] = {} /\ far[d] = {}
      /\ \A a \in Accepts : acc[a].got = NoConn
      /\ queue = <<>> /\ ~closed
  BY DEF Init
<1>3. NearInv /\ FarInv /\ DropInv
  BY <1>2 DEF NearInv, NearOK, FarInv, FarOK, DropInv, DropOK, Live
<1>4. QueueInv /\ ExclusiveDelivery
  BY <1>2 DEF QueueInv, ExclusiveDelivery
<1> QED BY <1>1, <1>3, <1>4 DEF EInv

LEMMA EInvStep == EInv /\ [Next]_vars => EInv'
BY TypeStep, NearStep, QueueStep, FarStep, DropStep DEF EInv

LEMMA EInvAlways == Spec => []EInv
BY EInvInit, EInvStep, PTL DEF Spec

\* Every variable of the endpoint keeps its type, and an accept call that has got
\* past the queue has a connection.
THEOREM EndpointTypes == Spec => []TypeOK
<1>1. EInv => TypeOK
  BY DEF EInv
<1> QED BY <1>1, EInvAlways, PTL

\* However many accept_next and accept_conn calls wait on the endpoint, each
\* incoming connection is handed to at most one of them.
THEOREM EndpointExclusive == Spec => []ExclusiveDelivery
<1>1. EInv => ExclusiveDelivery
  BY DEF EInv
<1> QED BY <1>1, EInvAlways, PTL

\* Whatever calls are cancelled and whatever objects are dropped on the way, a
\* connection that is up has somebody on each side who can close it.
THEOREM EndpointNoOrphans == Spec => []NoOrphans
<1>1. EInv => NoOrphans
  BY DEF EInv, NearInv, NearOK, FarInv, FarOK, NoOrphans, Live
<1> QED BY <1>1, EInvAlways, PTL

\* A connection is closed for want of handles only when one side has none, no
\* matter which of its objects and calls went first.
THEOREM EndpointKeepsAlive == Spec => []HandlesKeepAlive
<1>1. EInv => HandlesKeepAlive
  BY DEF EInv, DropInv, DropOK, HandlesKeepAlive
<1> QED BY <1>1, EInvAlways, PTL
=============================================================================
