--------------------------- MODULE IrohConnection ---------------------------
(***************************************************************************)
(* An established connection and the IrohConnection objects at its two     *)
(* sides (`connection.rs`): opening and accepting streams of both kinds,   *)
(* datagrams, shutdown, closed and close_reason, and the objects that keep *)
(* the connection alive.                                                   *)
(*                                                                         *)
(* The actors are the asynchronous calls, on either side; they can be      *)
(* cancelled while they wait.  Synchronous methods are one step.  Each     *)
(* side learns of the end of the connection by itself: it closed it, it is *)
(* told by the other side, or it hears no more.                            *)
(*                                                                         *)
(* A stream has the name of the call that opened it, a datagram that of    *)
(* the call that sent it.  What is written to a stream is the business of  *)
(* module IrohStream.                                                      *)
(***************************************************************************)
EXTENDS Naturals, Sequences, FiniteSets

CONSTANTS
  Calls,       \* calls, each made at most once
  Side(_),     \* the side whose application makes the call
  Scenarios,   \* functions that say which method each call may be of
  Codes,       \* the error codes given to shutdown
  VarIntMax,   \* the largest error code QUIC can carry (2^62 - 1)
  MaxStreams,  \* streams of one kind a side may have open at once
  SendBuffer,  \* datagrams waiting to be sent
  RecvBuffer   \* datagrams waiting to be read

ASSUME BoundsAssumption ==
  /\ VarIntMax \in Nat /\ Codes \subseteq Nat
  /\ MaxStreams \in Nat /\ SendBuffer \in Nat \ {0} /\ RecvBuffer \in Nat \ {0}

Sides == {"left", "right"}
Peer(s) == IF s = "left" THEN "right" ELSE "left"

Opens   == {"open_bi", "open_uni"}
Accepts == {"accept_bi", "accept_uni"}

AllMethods == Opens \cup Accepts \cup
  {"send_datagram", "try_send_datagram", "read_datagram", "closed"}

ASSUME CallsAssumption ==
  /\ \A c \in Calls : Side(c) \in Sides
  /\ Scenarios \subseteq [Calls -> AllMethods]

\* A lane is the streams of one kind that one side has opened.
Lanes == Sides \X {"bi", "uni"}

VARIABLES
  op,      \* op[c]: the method c calls
  st,      \* st[c]: "new", "waiting" or its result
  val,     \* val[c]: what c has returned: <<>>, or <<v>>
  opened,  \* opened[l]: the streams of a lane, in the order of their ids
  known,   \* known[l]: how many of them the other side has heard of
  taken,   \* taken[l]: how many of them have been accepted
  held,    \* held[s]: objects the application of side s has: "conn", and the
           \*   calls that returned a stream
  out,     \* out[s]: datagrams to be sent by s
  air,     \* datagrams under way
  inbox,   \* inbox[s]: datagrams that s has received
  reason,  \* reason[s]: why the connection is closed, as s knows it
  frame    \* frame[s]: the CONNECTION_CLOSE that s has sent

callVars   == <<op, st, val>>
streamVars == <<opened, known, taken>>
dgramVars  == <<out, air, inbox>>
closeVars  == <<reason, frame>>
vars       == <<callVars, streamVars, held, dgramVars, closeVars>>

\* ConnectionError, by what map_conn_err and the other side can tell apart:
\* LocallyClosed, ApplicationClosed(code), ConnectionClosed, and "lost" for
\* TimedOut, Reset, TransportError and the rest.  A code is 0 where there is none.
Reason(k, n) == [kind |-> k, code |-> n]
Open    == Reason("open", 0)
Reasons == {Reason(k, n) : k \in {"open", "local", "app", "transport", "lost"},
                           n \in Codes \cup {0}}
Results == {"ok", "err", "closed", "cancelled"}

Streams == [lane : Lanes, id : Nat \ {0}]
Values  == Streams \cup Calls \cup Reasons

TypeOK ==
  /\ op \in [Calls -> AllMethods \cup {"none"}]
  /\ st \in [Calls -> {"new", "waiting"} \cup Results]
  /\ val \in [Calls -> Seq(Values)]
  /\ \A c \in Calls : val[c] # <<>> =>
       \/ op[c] \in Accepts /\ val[c][1] \in Streams
       \/ op[c] = "read_datagram" /\ val[c][1] \in Calls
       \/ op[c] = "closed" /\ val[c][1] \in Reasons \ {Open}
  /\ opened \in [Lanes -> Seq(Calls)]
  /\ known \in [Lanes -> Nat] /\ taken \in [Lanes -> Nat]
  /\ \A l \in Lanes : taken[l] <= known[l] /\ known[l] <= Len(opened[l])
  /\ held \in [Sides -> SUBSET (Calls \cup {"conn"})]
  /\ out \in [Sides -> Seq(Calls)] /\ inbox \in [Sides -> Seq(Calls)]
  /\ \A s \in Sides : Len(out[s]) <= SendBuffer /\ Len(inbox[s]) <= RecvBuffer
  /\ air \subseteq Calls
  /\ reason \in [Sides -> Reasons]
  /\ frame \in [Sides -> Reasons]

Init ==
  /\ op = [c \in Calls |-> "none"]
  /\ st = [c \in Calls |-> "new"]
  /\ val = [c \in Calls |-> <<>>]
  /\ opened = [l \in Lanes |-> <<>>]
  /\ known = [l \in Lanes |-> 0]
  /\ taken = [l \in Lanes |-> 0]
  /\ held = [s \in Sides |-> {"conn"}]
  /\ out = [s \in Sides |-> <<>>]
  /\ air = {}
  /\ inbox = [s \in Sides |-> <<>>]
  /\ reason = [s \in Sides |-> Open]
  /\ frame = [s \in Sides |-> Open]

-----------------------------------------------------------------------------
(* Handles, calls and their results.                                       *)

IsOpen(s) == reason[s] = Open

\* Calls in flight on side s; each keeps the IrohConnection alive.
Waiting(s) == {c \in Calls : st[c] = "waiting" /\ Side(c) = s}

\* s closes the connection with code n and says so to the other side.
CloseNow(s, n) ==
  /\ reason' = [reason EXCEPT ![s] = Reason("local", 0)]
  /\ frame' = [frame EXCEPT ![s] = Reason("app", n)]
  /\ out' = [out EXCEPT ![s] = <<>>]

\* The library closes a connection, with code 0, when its last handle on a side
\* goes away: every IrohConnection, IrohStream, IrohSendStream, IrohRecvStream
\* and call in flight has one.  Otherwise q is left in its datagram buffer.
LastHandle(s, q) ==
  IF IsOpen(s) /\ held'[s] = {} /\ Waiting(s)' = {}
  THEN CloseNow(s, 0) ELSE out' = [out EXCEPT ![s] = q] /\ UNCHANGED closeVars

\* c has completed with value v; if its coroutine was cancelled before it
\* resumed, nobody gets the value.
Return(c, v) ==
  \/ st' = [st EXCEPT ![c] = "ok"] /\ val' = [val EXCEPT ![c] = v]
  \/ st' = [st EXCEPT ![c] = "cancelled"] /\ UNCHANGED val

\* Mutant of MapConnErr: a timeout counts as closed.
MapConnErrAlways(r) == "closed"

\* map_conn_err: the "closed: " token for what means a closed connection.
MapConnErr(r) == IF r.kind \in {"local", "app", "transport"} THEN "closed" ELSE "err"

\* c fails with result e and lets go of its handle.
Fail(c, e) ==
  /\ st' = [st EXCEPT ![c] = e]
  /\ UNCHANGED <<op, val, held>>
  /\ LastHandle(Side(c), out[Side(c)])

Runs(c, m) == op[c] = m /\ st[c] = "waiting"

\* What c may be a call of, in the scenarios that agree with the calls made so far.
Methods(c) == {f[c] : f \in {g \in Scenarios : \A d \in Calls : op[d] \in {"none", g[d]}}}

\* The application calls method m.
Call(c, m) ==
  /\ st[c] = "new" /\ "conn" \in held[Side(c)]
  /\ m # "try_send_datagram" /\ m \in Methods(c)
  /\ op' = [op EXCEPT ![c] = m]
  /\ st' = [st EXCEPT ![c] = "waiting"]
  /\ UNCHANGED <<val, streamVars, held, dgramVars, closeVars>>

\* The future is dropped while it waits: nothing was opened, taken or sent.
Cancel(c) ==
  /\ st[c] = "waiting"
  /\ Fail(c, "cancelled")
  /\ UNCHANGED <<streamVars, air, inbox>>

\* An object is disposed of.
Drop(s, o) ==
  /\ o \in held[s]
  /\ held' = [held EXCEPT ![s] = @ \ {o}]
  /\ UNCHANGED <<callVars, streamVars, air, inbox>>
  /\ LastHandle(s, out[s])

-----------------------------------------------------------------------------
(* Streams.                                                                *)

Stream(l, i) == [lane |-> l, id |-> i]

Kind(m) == IF m \in {"open_bi", "accept_bi"} THEN "bi" ELSE "uni"

\* Streams of lane l that both sides are through with: accepted, and held by
\* neither.
Retired(l) ==
  {i \in 1..taken[l] :
     /\ opened[l][i] \notin held[l[1]]
     /\ \A c \in held[Peer(l[1])] \cap Calls : val[c] # <<Stream(l, i)>>}

\* The other side allows MaxStreams at a time.
HasCredit(l) == Len(opened[l]) - Cardinality(Retired(l)) < MaxStreams

\* c has its stream: the object that it returns holds the connection.
GiveStream(c, v) ==
  /\ Return(c, v) /\ UNCHANGED op
  /\ held' = [held EXCEPT ![Side(c)] =
       IF st'[c] = "ok" THEN @ \cup {c} ELSE @]
  /\ LastHandle(Side(c), out[Side(c)])

\* open_bi, open_uni: wait until the limit allows one more stream.
OpenStream(c) ==
  /\ op[c] \in Opens /\ st[c] = "waiting"
  /\ LET l == <<Side(c), Kind(op[c])>> IN
       \/ /\ IsOpen(Side(c)) /\ HasCredit(l)
          /\ opened' = [opened EXCEPT ![l] = Append(@, c)]
          /\ GiveStream(c, <<>>)
       \/ /\ ~IsOpen(Side(c))
          /\ Fail(c, MapConnErr(reason[Side(c)]))
          /\ UNCHANGED opened
  /\ UNCHANGED <<known, taken, air, inbox>>

\* Bytes, the end or the reset of the i-th stream of a lane arrive; it and those
\* opened before it can be accepted.
Announce(l, i) ==
  /\ IsOpen(Peer(l[1]))
  /\ i \in (known[l] + 1)..Len(opened[l])
  /\ known' = [known EXCEPT ![l] = i]
  /\ UNCHANGED <<callVars, opened, taken, held, dgramVars, closeVars>>

\* Mutant of TakeNext: the stream is not removed from the queue.
TakeNextAgain(l) == UNCHANGED taken

\* The next stream of the lane belongs to the call that accepts it.
TakeNext(l) == taken' = [taken EXCEPT ![l] = @ + 1]

\* accept_bi, accept_uni: streams that have arrived come before the error.
AcceptStream(c) ==
  /\ op[c] \in Accepts /\ st[c] = "waiting"
  /\ LET l == <<Peer(Side(c)), Kind(op[c])>> IN
       \/ /\ taken[l] < known[l]
          /\ TakeNext(l)
          /\ GiveStream(c, <<Stream(l, taken[l] + 1)>>)
       \/ /\ taken[l] = known[l] /\ ~IsOpen(Side(c))
          /\ Fail(c, MapConnErr(reason[Side(c)]))
          /\ UNCHANGED taken
  /\ UNCHANGED <<opened, known, air, inbox>>

-----------------------------------------------------------------------------
(* Datagrams.                                                              *)

\* Mutant of HasRoom: one datagram too many.
HasRoomForOneMore(s) == Len(out[s]) <= SendBuffer

HasRoom(s) == Len(out[s]) < SendBuffer

\* send_datagram: wait for room.  No error has the token.
SendDatagram(c) ==
  /\ Runs(c, "send_datagram")
  /\ LET s == Side(c) IN
       \/ /\ IsOpen(s) /\ HasRoom(s)
          /\ Return(c, <<>>)
          /\ UNCHANGED <<op, held>>
          /\ LastHandle(s, Append(out[s], c))
       \/ ~IsOpen(s) /\ Fail(c, "err")
  /\ UNCHANGED <<streamVars, air, inbox>>

\* The datagram is too large, or the other side wants none.
RefuseDatagram(c) ==
  /\ Runs(c, "send_datagram")
  /\ Fail(c, "err")
  /\ UNCHANGED <<streamVars, air, inbox>>

\* try_send_datagram: does not wait.  If there is no room the library fails the
\* call or drops its oldest datagram.
TrySendDatagram(c) ==
  /\ st[c] = "new" /\ "conn" \in held[Side(c)]
  /\ "try_send_datagram" \in Methods(c)
  /\ op' = [op EXCEPT ![c] = "try_send_datagram"]
  /\ \/ /\ IsOpen(Side(c))
        /\ st' = [st EXCEPT ![c] = "ok"]
        /\ out' = [out EXCEPT ![Side(c)] =
             Append(IF HasRoom(Side(c)) THEN @ ELSE Tail(@), c)]
     \/ st' = [st EXCEPT ![c] = "err"] /\ UNCHANGED out
  /\ UNCHANGED <<val, streamVars, held, air, inbox, closeVars>>

\* Mutant of Received: the datagram stays in the inbox.
ReceivedAgain(s) == UNCHANGED inbox

\* The oldest datagram is taken out of the inbox.
Received(s) == inbox' = [inbox EXCEPT ![s] = Tail(@)]

\* read_datagram: what has arrived comes before the error.
ReadDatagram(c) ==
  /\ Runs(c, "read_datagram")
  /\ LET s == Side(c) IN
       \/ /\ inbox[s] # <<>>
          /\ Received(s)
          /\ Return(c, <<Head(inbox[s])>>)
          /\ UNCHANGED <<op, held>>
          /\ LastHandle(s, out[s])
       \/ /\ inbox[s] = <<>> /\ ~IsOpen(s)
          /\ Fail(c, MapConnErr(reason[s]))
          /\ UNCHANGED inbox
  /\ UNCHANGED <<streamVars, air>>

\* The library sends the oldest datagram in the buffer ...
Transmit(s) ==
  /\ IsOpen(s) /\ out[s] # <<>>
  /\ air' = air \cup {Head(out[s])}
  /\ out' = [out EXCEPT ![s] = Tail(@)]
  /\ UNCHANGED <<callVars, streamVars, held, inbox, closeVars>>

\* ... which arrives in any order; a full inbox drops its oldest ...
Arrive(d) ==
  /\ d \in air /\ IsOpen(Peer(Side(d)))
  /\ air' = air \ {d}
  /\ LET s == Peer(Side(d)) IN
       inbox' = [inbox EXCEPT ![s] = Append(IF Len(@) < RecvBuffer THEN @ ELSE Tail(@), d)]
  /\ UNCHANGED <<callVars, streamVars, held, out, closeVars>>

\* ... or is lost.
LoseDatagram(d) ==
  /\ d \in air
  /\ air' = air \ {d}
  /\ UNCHANGED <<callVars, streamVars, held, out, inbox, closeVars>>

-----------------------------------------------------------------------------
(* The end of the connection.                                              *)

\* Mutant of ShutdownOnce: a later shutdown changes what the peer is told.
ShutdownAgain(s, n) == CloseNow(s, n)

\* The first close counts.  Whether one that comes later changes the reason on
\* this side is left to the library.
ShutdownOnce(s, n) ==
  \/ IsOpen(s) /\ CloseNow(s, n)
  \/ ~IsOpen(s) /\ UNCHANGED <<closeVars, out>>
  \/ /\ ~IsOpen(s)
     /\ reason' = [reason EXCEPT ![s] = Reason("local", 0)]
     /\ UNCHANGED <<frame, out>>

\* shutdown: a code that does not fit is refused and changes nothing.
Shutdown(s, n) ==
  /\ "conn" \in held[s] /\ n <= VarIntMax
  /\ ShutdownOnce(s, n)
  /\ UNCHANGED <<callVars, streamVars, held, air, inbox>>

\* Mutant of Closed: only what has the token ends the wait.
ClosedWithToken(c) ==
  /\ Runs(c, "closed") /\ ~IsOpen(Side(c))
  /\ MapConnErr(reason[Side(c)]) = "closed"
  /\ Return(c, <<reason[Side(c)]>>)
  /\ UNCHANGED <<op, streamVars, held, dgramVars, closeVars>>

\* closed: the reason, as soon as there is one.
Closed(c) ==
  /\ Runs(c, "closed") /\ ~IsOpen(Side(c))
  /\ Return(c, <<reason[Side(c)]>>)
  /\ UNCHANGED <<op, streamVars, held, dgramVars, closeVars>>

\* s learns that the connection is closed for reason r.
Learn(s, r) ==
  /\ IsOpen(s)
  /\ reason' = [reason EXCEPT ![s] = r]
  /\ out' = [out EXCEPT ![s] = <<>>]

\* The other side's CONNECTION_CLOSE arrives, or does not and s times out.
PeerGone(s) ==
  /\ ~IsOpen(Peer(s))
  /\ Learn(s, Reason("lost", 0)) \/ (frame[Peer(s)] # Open /\ Learn(s, frame[Peer(s)]))
  /\ UNCHANGED <<callVars, streamVars, held, air, inbox, frame>>

\* The library of side s gives up: the path is dead, or the other side broke the
\* protocol, which it is told.
GiveUp(s) ==
  /\ Learn(s, Reason("lost", 0))
  /\ frame' = frame \/ frame' = [frame EXCEPT ![s] = Reason("transport", 0)]
  /\ UNCHANGED <<callVars, streamVars, held, air, inbox>>

Progress(c) ==
  OpenStream(c) \/ AcceptStream(c) \/ SendDatagram(c) \/ ReadDatagram(c) \/ Closed(c)

Network ==
  \/ \E s \in Sides : Transmit(s) \/ PeerGone(s)
  \/ \E d \in Calls : Arrive(d)

Next ==
  \/ \E c \in Calls : \E m \in AllMethods : Call(c, m)
  \/ \E c \in Calls : Progress(c) \/ Cancel(c) \/ TrySendDatagram(c) \/ RefuseDatagram(c)
  \/ \E s \in Sides : \E o \in Calls \cup {"conn"} : Drop(s, o)
  \/ \E s \in Sides : \E n \in Codes : Shutdown(s, n)
  \/ \E l \in Lanes : \E i \in 1..Len(opened[l]) : Announce(l, i)
  \/ \E d \in Calls : LoseDatagram(d)
  \/ \E s \in Sides : GiveUp(s)
  \/ Network

Spec == Init /\ [][Next]_vars

\* Futures that can go on are polled.  The library sends what it may send or
\* gives up, and learns that the other side is gone, by its idle timeout if by
\* nothing else.  Nothing obliges an application, or the network to deliver.
Fairness ==
  /\ \A c \in Calls : WF_vars(Progress(c))
  /\ \A s \in Sides : WF_vars(Transmit(s)) /\ WF_vars(PeerGone(s))

FairSpec == Spec /\ Fairness

-----------------------------------------------------------------------------
(* Safety.                                                                 *)

\* An error has the "closed: " token only if the application closed its side or
\* one side has told the other; a connection that is merely lost has none.
TokenMeansClosed ==
  \A c \in Calls : st[c] = "closed" =>
    \/ reason[Side(c)].kind = "local"
    \/ \E s \in Sides : frame[s] # Open

\* Both sides speak of the same close: if close_reason shows, or closed returned,
\* that the other side closed the connection, it did, and with that code,
\* whatever either side calls before or after.
ReasonsAgree ==
  \A s \in Sides :
    \A r \in {reason[s]} \cup {val[c][1] : c \in {d \in Calls :
                 op[d] = "closed" /\ Side(d) = s /\ val[d] # <<>>}} :
      r.kind \in {"app", "transport"} => frame[Peer(s)] = r

\* A stream goes to one accept call, and a datagram that was not refused to one
\* read_datagram on the other side, however many calls wait for the next one.
TakenOnce ==
  /\ \A c, d \in Calls :
       c # d /\ op[c] = op[d] /\ op[c] # "closed" /\ val[c] # <<>> => val[c] # val[d]
  /\ \A c \in Calls : op[c] = "read_datagram" /\ val[c] # <<>> =>
       /\ Side(val[c][1]) = Peer(Side(c))
       /\ st[val[c][1]] # "err"

-----------------------------------------------------------------------------
(* Liveness.                                                               *)

\* A call has to return: it is a send_datagram, or either side is closed.
MustReturn(c) ==
  st[c] = "waiting" /\ (op[c] = "send_datagram" \/ \E s \in Sides : ~IsOpen(s))

\* Once the connection is closed or lost at either side every call returns, and
\* a send_datagram returns in any case: a time comes when no such call waits.
CallsReturn ==
  (\E c \in Calls : MustReturn(c)) ~> (\A c \in Calls : ~MustReturn(c))
=============================================================================
