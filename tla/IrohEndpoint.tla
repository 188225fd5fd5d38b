---------------------------- MODULE IrohEndpoint ----------------------------
(***************************************************************************)
(* How connections come to be and go away: peers that dial one endpoint,   *)
(* and the accept calls of that endpoint (`endpoint.rs`), with the objects *)
(* that keep a connection alive on each side (`connection.rs`,             *)
(* `stream.rs`).  The dialing side is the near side, the accepting         *)
(* endpoint is the far side.                                               *)
(*                                                                         *)
(* A connection is closed when the last handle to it on either side is     *)
(* dropped.  Handles are held by the IrohConnection and IrohStream objects *)
(* of the application and by the futures of the calls in flight; a         *)
(* cancelled future drops the one it holds.                                *)
(*                                                                         *)
(* Each dial makes at most one connection, so the two share their names;   *)
(* only the first bidirectional stream of a connection is looked at.       *)
(***************************************************************************)
EXTENDS Naturals, Sequences

CONSTANTS
  Dials,     \* connect, connect_conn, connect_addr and connect_by_id calls
  Accepts,   \* accept_next and accept_conn calls on the endpoint
  Alpns,     \* protocol names
  NoConn,    \* an accept call that has taken no connection yet
  MethodsOf  \* the methods a call may be of; "connect_conn" stands for
             \*   connect_addr and connect_by_id too

DialMethods   == {"connect", "connect_conn"}
AcceptMethods == {"accept_next", "accept_conn"}

ASSUME NoConnAssumption == NoConn \notin Dials
ASSUME MethodsAssumption ==
  /\ \A d \in Dials : MethodsOf[d] \subseteq DialMethods
  /\ \A a \in Accepts : MethodsOf[a] \subseteq AcceptMethods

VARIABLES
  dial,    \* dial[d]: the method, its ALPN, and how far the call has come
  acc,     \* acc[a]: the method, how far it has come, and its connection
  queue,   \* the endpoint's queue of incoming connections
  conn,    \* conn[d]: the connection
  est,     \* connections whose handshake was completed
  why,     \* why[d]: what closed the connection
  stream,  \* stream[d]: its first bidirectional stream
  near,    \* near[d]: objects of the dialing application, "conn" or "stream"
  far,     \* far[d]: objects of the accepting application
  alpns,   \* the ALPNs the endpoint accepts
  closed   \* the endpoint was shut down

vars == <<dial, acc, queue, conn, est, why, stream, near, far, alpns, closed>>

Dialing       == {"dialing", "opening"}
Accepting     == {"waiting", "handshake", "bi"}
Live          == {"knocking", "queued", "handshake", "up"}
Objects       == {"conn", "stream"}

TypeOK ==
  /\ dial \in [Dials -> [method : DialMethods, alpn : Alpns,
                         st : {"new", "ok", "err", "cancelled"} \cup Dialing]]
  /\ acc \in [Accepts -> [method : AcceptMethods, got : Dials \cup {NoConn},
                          st : {"new", "ok", "none", "err", "cancelled"} \cup Accepting]]
  /\ \A a \in Accepts : acc[a].st \in {"handshake", "bi", "ok", "err"} => acc[a].got \in Dials
  /\ queue \in Seq(Dials)
  /\ conn \in [Dials -> Live \cup {"none", "closed"}]
  /\ est \subseteq Dials
  /\ why \in [Dials -> {"none", "dropped", "shutdown", "endpoint", "refused", "lost"}]
  /\ stream \in [Dials -> {"none", "opened", "sent", "accepted"}]
  /\ near \in [Dials -> SUBSET Objects]
  /\ far \in [Dials -> SUBSET Objects]
  /\ alpns \subseteq Alpns
  /\ closed \in BOOLEAN

Init ==
  /\ dial \in [Dials -> [method : DialMethods, alpn : Alpns, st : {"new"}]]
  /\ \A d \in Dials : dial[d].method \in MethodsOf[d]
  /\ acc \in [Accepts -> [method : AcceptMethods, got : {NoConn}, st : {"new"}]]
  /\ \A a \in Accepts : acc[a].method \in MethodsOf[a]
  /\ queue = <<>>
  /\ conn = [d \in Dials |-> "none"]
  /\ est = {}
  /\ why = [d \in Dials |-> "none"]
  /\ stream = [d \in Dials |-> "none"]
  /\ near = [d \in Dials |-> {}]
  /\ far = [d \in Dials |-> {}]
  /\ alpns = Alpns
  /\ closed = FALSE

-----------------------------------------------------------------------------
(* Closing connections and returning from calls.                           *)

\* Those of the connections in D that are alive are closed because of w.
CloseAll(D, w) ==
  /\ conn' = [d \in Dials |-> IF d \in D /\ conn[d] \in Live THEN "closed" ELSE conn[d]]
  /\ why'  = [d \in Dials |-> IF d \in D /\ conn[d] \in Live THEN w ELSE why[d]]

DialTo(d, s)   == dial' = [dial EXCEPT ![d].st = s]
AcceptTo(a, s) == acc' = [acc EXCEPT ![a].st = s]

\* Mutant of GiveFar: the object does not hold the connection.
GiveFarUnheld(a, h) ==
  /\ AcceptTo(a, "ok")
  /\ far' = [far EXCEPT ![acc[a].got] = @ \cup {h}]
  /\ CloseAll({acc[a].got}, "dropped")

\* Mutants of HandshakeFailed: one of the reasons is not noticed.
HandshakeFailedInTime(d)  == d \notin est /\ conn[d] = "closed" /\ why[d] # "lost"
HandshakeFailedWhileUp(d) == d \notin est /\ conn[d] = "closed" /\ why[d] # "endpoint"

\* Both sides of a connection that ends before its handshake does learn of it.
HandshakeFailed(d) == d \notin est /\ conn[d] = "closed"

\* The dial returns object h.  If its coroutine was cancelled meanwhile, nobody
\* gets the object and its handle was the only one.
GiveNear(d, h) ==
  \/ /\ DialTo(d, "ok")
     /\ near' = [near EXCEPT ![d] = @ \cup {h}]
     /\ UNCHANGED <<conn, why>>
  \/ /\ DialTo(d, "cancelled")
     /\ CloseAll({d}, "dropped")
     /\ UNCHANGED near

\* The accept call returns object h of its connection, likewise.
GiveFar(a, h) ==
  \/ /\ AcceptTo(a, "ok")
     /\ far' = [far EXCEPT ![acc[a].got] = @ \cup {h}]
     /\ UNCHANGED <<conn, why>>
  \/ /\ AcceptTo(a, "cancelled")
     /\ CloseAll({acc[a].got}, "dropped")
     /\ UNCHANGED far

-----------------------------------------------------------------------------
(* The dialing side.                                                       *)

\* A dial is called: a malformed ticket, address or id is refused at once.
Dial(d) ==
  /\ dial[d].st = "new"
  /\ \/ DialTo(d, "err") /\ UNCHANGED conn
     \/ DialTo(d, "dialing") /\ conn' = [conn EXCEPT ![d] = "knocking"]
  /\ UNCHANGED <<acc, queue, est, why, stream, near, far, alpns, closed>>

\* inner.connect() resolves: connect_conn returns the connection, connect goes
\* on to open a stream.
Connected(d) ==
  /\ dial[d].st = "dialing"
  /\ \/ d \in est /\ dial[d].method = "connect_conn" /\ GiveNear(d, "conn")
     \/ /\ d \in est /\ dial[d].method = "connect"
        /\ DialTo(d, "opening") /\ UNCHANGED <<near, conn, why>>
     \/ /\ HandshakeFailed(d)
        /\ DialTo(d, "err") /\ UNCHANGED <<near, conn, why>>
  /\ UNCHANGED <<acc, queue, est, stream, far, alpns, closed>>

\* connect's open_bi: the stream holds the connection, the IrohConnection is
\* dropped as connect returns.
ConnectOpens(d) ==
  /\ dial[d].st = "opening"
  /\ \/ /\ conn[d] = "up"
        /\ stream' = [stream EXCEPT ![d] = "opened"]
        /\ GiveNear(d, "stream")
     \/ /\ conn[d] = "closed"
        /\ DialTo(d, "err")
        /\ UNCHANGED <<stream, near, conn, why>>
  /\ UNCHANGED <<acc, queue, est, far, alpns, closed>>

\* open_bi on the application's own connection.
OpenBi(d) ==
  /\ "conn" \in near[d] /\ conn[d] = "up" /\ stream[d] = "none"
  /\ stream' = [stream EXCEPT ![d] = "opened"]
  /\ near' = [near EXCEPT ![d] = @ \cup {"stream"}]
  /\ UNCHANGED <<dial, acc, queue, conn, est, why, far, alpns, closed>>

\* The first send_bytes: only now does the stream exist for the other side.
Speak(d) ==
  /\ "stream" \in near[d] /\ conn[d] = "up" /\ stream[d] = "opened"
  /\ stream' = [stream EXCEPT ![d] = "sent"]
  /\ UNCHANGED <<dial, acc, queue, conn, est, why, near, far, alpns, closed>>

\* The future of the dial is dropped, and with it the only handle.
CancelDial(d) ==
  /\ dial[d].st \in Dialing
  /\ DialTo(d, "cancelled")
  /\ CloseAll({d}, "dropped")
  /\ UNCHANGED <<acc, queue, est, stream, near, far, alpns, closed>>

DropNear(d, h) ==
  /\ h \in near[d]
  /\ near' = [near EXCEPT ![d] = @ \ {h}]
  /\ CloseAll({e \in {d} : near[e] = {h}}, "dropped")
  /\ UNCHANGED <<dial, acc, queue, est, stream, far, alpns, closed>>

-----------------------------------------------------------------------------
(* The accepting side.                                                     *)

Accept(a) ==
  /\ acc[a].st = "new"
  /\ AcceptTo(a, "waiting")
  /\ UNCHANGED <<dial, queue, conn, est, why, stream, near, far, alpns, closed>>

\* Mutants of TakeHead: the connection stays in the queue; it is not kept.
TakeHeadAgain(a) ==
  acc' = [acc EXCEPT ![a].st = "handshake", ![a].got = Head(queue)] /\ UNCHANGED queue
TakeHeadAway(a) ==
  acc' = [acc EXCEPT ![a].st = "handshake"] /\ queue' = Tail(queue)

\* The first connection in the queue becomes a's.
TakeHead(a) ==
  /\ acc' = [acc EXCEPT ![a].st = "handshake", ![a].got = Head(queue)]
  /\ queue' = Tail(queue)

\* inner.accept() resolves with None or with the next in the queue, which is
\* accepted with the ALPNs of the moment; its handshake is awaited next.  What
\* arrived before the endpoint was closed may still be taken from the queue.
Take(a) ==
  /\ acc[a].st = "waiting"
  /\ \/ closed /\ AcceptTo(a, "none") /\ UNCHANGED <<queue, conn, why>>
     \/ /\ queue # <<>>
        /\ TakeHead(a)
        /\ LET d == Head(queue) IN
             \/ /\ conn[d] = "queued" /\ dial[d].alpn \in alpns
                /\ conn' = [conn EXCEPT ![d] = "handshake"] /\ UNCHANGED why
             \/ /\ ~(conn[d] = "queued" /\ dial[d].alpn \in alpns)
                /\ CloseAll({d}, "refused")
  /\ UNCHANGED <<dial, est, stream, near, far, alpns, closed>>

\* The handshake is over: accept_conn returns, accept_next goes on to accept
\* the first stream.
Accepted(a) ==
  /\ acc[a].st = "handshake"
  /\ \/ /\ acc[a].got \in est /\ acc[a].method = "accept_conn"
        /\ GiveFar(a, "conn")
     \/ /\ acc[a].got \in est /\ acc[a].method = "accept_next"
        /\ AcceptTo(a, "bi") /\ UNCHANGED <<far, conn, why>>
     \/ /\ HandshakeFailed(acc[a].got)
        /\ AcceptTo(a, "err") /\ UNCHANGED <<far, conn, why>>
  /\ UNCHANGED <<dial, queue, est, stream, near, alpns, closed>>

\* accept_next's accept_bi: a stream that has arrived, else the end of the
\* connection.
AcceptsBi(a) ==
  /\ acc[a].st = "bi"
  /\ \/ /\ stream[acc[a].got] = "sent"
        /\ stream' = [stream EXCEPT ![acc[a].got] = "accepted"]
        /\ GiveFar(a, "stream")
     \/ /\ stream[acc[a].got] # "sent" /\ conn[acc[a].got] = "closed"
        /\ AcceptTo(a, "err")
        /\ UNCHANGED <<stream, far, conn, why>>
  /\ UNCHANGED <<dial, queue, est, near, alpns, closed>>

\* accept_bi on the application's own connection.
AcceptBi(d) ==
  /\ "conn" \in far[d] /\ stream[d] = "sent"
  /\ stream' = [stream EXCEPT ![d] = "accepted"]
  /\ far' = [far EXCEPT ![d] = @ \cup {"stream"}]
  /\ UNCHANGED <<dial, acc, queue, conn, est, why, near, alpns, closed>>

\* Mutant of CancelAccept: the connection taken from the queue is leaked.
CancelAcceptLeaks(a) ==
  /\ acc[a].st \in Accepting
  /\ AcceptTo(a, "cancelled")
  /\ UNCHANGED <<dial, queue, conn, est, why, stream, near, far, alpns, closed>>

\* The future of the accept call is dropped, and with it the connection it has
\* taken from the queue.
CancelAccept(a) ==
  /\ acc[a].st \in Accepting
  /\ AcceptTo(a, "cancelled")
  /\ CloseAll({acc[a].got}, "dropped")
  /\ UNCHANGED <<dial, queue, est, stream, near, far, alpns, closed>>

DropFar(d, h) ==
  /\ h \in far[d]
  /\ far' = [far EXCEPT ![d] = @ \ {h}]
  /\ CloseAll({e \in {d} : far[e] = {h}}, "dropped")
  /\ UNCHANGED <<dial, acc, queue, est, stream, near, alpns, closed>>

SetAlpns(S) ==
  /\ alpns' = S
  /\ UNCHANGED <<dial, acc, queue, conn, est, why, stream, near, far, closed>>

\* Endpoint.close(): from now on nothing arrives, and an accept call that finds
\* the queue empty returns None ...
CloseEndpoint ==
  /\ ~closed
  /\ closed' = TRUE
  /\ UNCHANGED <<dial, acc, queue, conn, est, why, stream, near, far, alpns>>

\* ... and the library closes the connections of the endpoint one by one, whether
\* or not anybody still awaits the future of shutdown.
CloseReaches(d) ==
  /\ closed
  /\ conn[d] \in Live \ {"knocking"}
  /\ CloseAll({d}, "endpoint")
  /\ UNCHANGED <<dial, acc, queue, est, stream, near, far, alpns, closed>>

-----------------------------------------------------------------------------
(* Either side, and the network.                                           *)

\* IrohConnection.shutdown, on either side.
Shutdown(d) ==
  /\ "conn" \in near[d] \cup far[d]
  /\ conn[d] = "up"
  /\ CloseAll({d}, "shutdown")
  /\ UNCHANGED <<dial, acc, queue, est, stream, near, far, alpns, closed>>

Arrive(d) ==
  /\ conn[d] = "knocking" /\ ~closed
  /\ conn' = [conn EXCEPT ![d] = "queued"]
  /\ queue' = Append(queue, d)
  /\ UNCHANGED <<dial, acc, est, why, stream, near, far, alpns, closed>>

Handshake(d) ==
  /\ conn[d] = "handshake"
  /\ conn' = [conn EXCEPT ![d] = "up"]
  /\ est' = est \cup {d}
  /\ UNCHANGED <<dial, acc, queue, why, stream, near, far, alpns, closed>>

\* A handshake that takes too long.
Timeout(d) ==
  /\ conn[d] \in Live \ {"up"}
  /\ CloseAll({d}, "lost")
  /\ UNCHANGED <<dial, acc, queue, est, stream, near, far, alpns, closed>>

\* The path breaks, or the dialing endpoint is shut down.
Lose(d) ==
  /\ conn[d] = "up"
  /\ CloseAll({d}, "lost")
  /\ UNCHANGED <<dial, acc, queue, est, stream, near, far, alpns, closed>>

Next ==
  \/ \E d \in Dials :
       \/ Dial(d) \/ Connected(d) \/ ConnectOpens(d) \/ OpenBi(d) \/ Speak(d)
       \/ CancelDial(d) \/ AcceptBi(d) \/ Shutdown(d)
       \/ Arrive(d) \/ Handshake(d) \/ Timeout(d) \/ Lose(d) \/ CloseReaches(d)
       \/ \E h \in Objects : DropNear(d, h) \/ DropFar(d, h)
  \/ \E a \in Accepts : Accept(a) \/ Take(a) \/ Accepted(a) \/ AcceptsBi(a) \/ CancelAccept(a)
  \/ \E S \in SUBSET Alpns : SetAlpns(S)
  \/ CloseEndpoint

Spec == Init /\ [][Next]_vars

\* Futures that can go on are polled, packets arrive, handshakes end, a close of
\* the endpoint reaches its connections; nobody has to call, speak, cancel, drop
\* or close anything.
Fairness ==
  /\ \A a \in Accepts : WF_vars(Take(a) \/ Accepted(a) \/ AcceptsBi(a))
  /\ \A d \in Dials : WF_vars(Connected(d) \/ ConnectOpens(d))
  /\ \A d \in Dials : WF_vars(Arrive(d) \/ Handshake(d))
  /\ \A d \in Dials : WF_vars(Timeout(d))
  /\ \A d \in Dials : WF_vars(CloseReaches(d))

FairSpec == Spec /\ Fairness

-----------------------------------------------------------------------------
(* Safety.                                                                 *)

\* What can still close a connection: a call in flight or an object.
NearHeld(d) == dial[d].st \in Dialing \/ near[d] # {}
FarHeld(d)  == far[d] # {} \/ \E a \in Accepts : acc[a].st \in Accepting /\ acc[a].got = d

\* Concurrent accept calls share one queue, and no connection is handed to two
\* of them.
ExclusiveDelivery ==
  \A a, b \in Accepts : a # b /\ acc[a].got # NoConn => acc[a].got # acc[b].got

\* No connection stays up when nobody is left on one of its sides to use it or
\* to close it, whatever was cancelled on the way.
NoOrphans == \A d \in Dials : conn[d] = "up" => NearHeld(d) /\ FarHeld(d)

\* "it also keeps the connection alive for the stream's lifetime": a connection
\* is closed for want of handles only when one side has really none, although
\* connect and accept_next drop the IrohConnection they made.
HandlesKeepAlive ==
  \A d \in Dials : why[d] = "dropped" => ~NearHeld(d) \/ ~FarHeld(d)

\* "Returns `None` once the endpoint is closed": an accept call whose connection
\* the closing of the endpoint has closed does not fail.
ClosedMeansNone ==
  [][\A a \in Accepts :
       acc[a].st \in {"handshake", "bi"} /\ why[acc[a].got] = "endpoint"
         => acc'[a].st # "err"]_vars

-----------------------------------------------------------------------------
(* Liveness.                                                               *)

\* Every dial returns, whether or not anybody accepts it: each is made once, and a
\* time comes when none is under way.
DialsReturn ==
  (\E d \in Dials : dial[d].st \in Dialing) ~> (\A d \in Dials : dial[d].st \notin Dialing)

\* Shutting the endpoint down releases every accept call, wherever it waits.
ShutdownReleasesAccepts == closed ~> (\A a \in Accepts : acc[a].st \notin Accepting)
=============================================================================
