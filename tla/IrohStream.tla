----------------------------- MODULE IrohStream -----------------------------
(***************************************************************************)
(* One direction of a QUIC stream as `stream.rs` exposes it: the send half *)
(* of an IrohStream or an IrohSendStream at one endpoint, and the receive  *)
(* half of the IrohStream or IrohRecvStream at the other.  A bidirectional *)
(* IrohStream is two of these, with no state in common: each half sits     *)
(* behind a tokio Mutex of its own.                                        *)
(*                                                                         *)
(* The actors are the FFI calls.  An `async` method is a future that a     *)
(* coroutine of the application polls; it can be cancelled wherever it     *)
(* awaits.  A synchronous method uses `blocking_lock` and keeps its thread *)
(* until it has the mutex; it cannot be cancelled.  The mutex is held      *)
(* across the awaits of write_all, read, read_exact and read_to_end.       *)
(*                                                                         *)
(* Bytes are named by the call that wrote them and by the call that read   *)
(* them: no property looks at their values.                                *)
(***************************************************************************)
EXTENDS Integers, Sequences, FiniteSets

CONSTANTS
  SendCalls,   \* calls made on the send half, each made at most once
  RecvCalls,   \* calls made on the receive half, each made at most once
  ThreadOf,    \* the thread that polls, or is blocked by, a call
  MethodsOf,   \* the methods a call may be of
  Lengths,     \* the lengths and limits the calls are given
  Window,      \* flow control: bytes written and not yet read
  VarIntMax    \* the largest error code QUIC can carry (2^62 - 1)

Calls == SendCalls \cup RecvCalls

ASSUME CallsAssumption == SendCalls \cap RecvCalls = {}

AsyncOps    == {"send_bytes", "finish", "stopped", "recv", "read_exact", "read_to_end"}
BlockingOps == {"reset", "stop", "query"}   \* "query": priority and id accessors
SendOps     == {"send_bytes", "finish", "stopped", "reset", "query"}
RecvOps     == {"recv", "read_exact", "read_to_end", "stop", "query"}

ASSUME MethodsAssumption ==
  /\ \A c \in SendCalls : MethodsOf[c] \subseteq SendOps
  /\ \A c \in RecvCalls : MethodsOf[c] \subseteq RecvOps

ASSUME BoundsAssumption == Lengths \subseteq Nat /\ Window \in Nat /\ VarIntMax \in Nat

VARIABLES
  op,       \* op[c]: the method c calls
  arg,      \* arg[c]: its length, limit or error code
  st,       \* st[c]: "new", in flight ("queued", "waiting") or its result
  done,     \* done[c]: bytes c has written or read so far
  ahead,    \* ahead[c]: calls that asked for c's mutex before c and have
            \*   not let go of it; c owns the mutex when there are none
  wire,     \* wire[i]: the call that wrote the i-th byte of the stream
  taken,    \* taken[i]: the call that read the i-th byte of the stream
  arrived,  \* how many bytes have reached the receiving endpoint
  tx,       \* the send half: "open", "finished" or "reset"
  rx,       \* the receive half: "open" or "stopped"
  seen,     \* signals that have reached the endpoint they are meant for
  held,     \* the halves whose Kotlin object has not been disposed of
  lost      \* the connection is closed, at either end

callVars == <<op, arg>>
netVars  == <<arrived, seen, held, lost>>
vars     == <<op, arg, st, done, ahead, wire, taken, arrived, tx, rx, seen, held, lost>>

Signals     == {"fin", "ack", "reset", "stop"}
InFlight    == {"queued", "waiting"}
Results     == {"ok", "eos", "err", "code", "cancelled"}

TypeOK ==
  /\ op      \in [Calls -> AsyncOps \cup BlockingOps \cup {"none"}]
  /\ \A c \in SendCalls : op[c] \in SendOps \cup {"none"}
  /\ \A c \in RecvCalls : op[c] \in RecvOps \cup {"none"}
  /\ arg     \in [Calls -> Nat]
  /\ st      \in [Calls -> {"new"} \cup InFlight \cup Results]
  /\ done    \in [Calls -> Nat]
  /\ ahead   \in [Calls -> SUBSET Calls]
  /\ wire    \in Seq(SendCalls)
  /\ taken   \in Seq(RecvCalls)
  /\ arrived \in 0..Len(wire)
  /\ Len(taken) <= arrived
  /\ tx      \in {"open", "finished", "reset"}
  /\ rx      \in {"open", "stopped"}
  /\ seen    \in SUBSET Signals
  /\ held    \in SUBSET {"send", "recv"}
  /\ lost    \in BOOLEAN

Init ==
  /\ op      = [c \in Calls |-> "none"]
  /\ arg     = [c \in Calls |-> 0]
  /\ st      = [c \in Calls |-> "new"]
  /\ done    = [c \in Calls |-> 0]
  /\ ahead   = [c \in Calls |-> {}]
  /\ wire    = <<>>
  /\ taken   = <<>>
  /\ arrived = 0
  /\ tx      = "open"
  /\ rx      = "open"
  /\ seen    = {}
  /\ held    = {"send", "recv"}
  /\ lost    = FALSE

-----------------------------------------------------------------------------
(* Threads and the mutex of a half.                                        *)

\* A thread inside blocking_lock polls no future and starts no call.
ThreadFree(c) ==
  \A d \in Calls \ {c} :
    ThreadOf[d] = ThreadOf[c] => ~(st[d] = "queued" /\ op[d] \in BlockingOps)

\* The calls that share c's mutex, and the name of the half they are made on.
Half(c) == IF c \in SendCalls THEN SendCalls ELSE RecvCalls
HalfName(c) == IF c \in SendCalls THEN "send" ELSE "recv"

\* Mutant of Holds: the mutex is released across the awaits.
HoldsNothing(c) == st[c] = "queued"

\* tokio's Mutex is fair: it goes to whoever has waited longest.
Holds(c) == st[c] = "queued" /\ ahead[c] = {}

\* Mutant of Runs: finish does not take the mutex.
RunsUnlockedFinish(c, o) ==
  op[c] = o /\ ThreadFree(c) /\ (Holds(c) \/ (o = "finish" /\ st[c] = "queued"))

\* Call c of method o is polled while it owns the mutex of its half.
Runs(c, o) == op[c] = o /\ Holds(c) /\ ThreadFree(c)

\* c drops its guard, if it has one, and the next waiter owns the mutex.
Unlock(c) == ahead' = [d \in Calls |-> ahead[d] \ {c}]

\* c completes with r and drops its guard.  A coroutine that was cancelled
\* between the completion of its future and its own resumption never sees r.
Return(c, r) ==
  /\ \/ st' = [st EXCEPT ![c] = r]
     \/ op[c] \in AsyncOps /\ st' = [st EXCEPT ![c] = "cancelled"]
  /\ Unlock(c)

\* The argument values worth telling apart: the lengths chosen for a run, and
\* the two error codes at the edge of the VarInt range.
ArgsOf(o) ==
  CASE o \in {"send_bytes", "recv", "read_exact", "read_to_end"} -> Lengths
    [] o \in {"reset", "stop"} -> {VarIntMax, VarIntMax + 1}
    [] OTHER -> {0}

\* The application calls method o.  An error code that does not fit a VarInt
\* is refused before the mutex is asked for.
Call(c, o, n) ==
  /\ st[c] = "new"
  /\ HalfName(c) \in held
  /\ ThreadFree(c)
  /\ op'  = [op EXCEPT ![c] = o]
  /\ arg' = [arg EXCEPT ![c] = n]
  /\ \/ /\ o \in {"reset", "stop"} /\ n > VarIntMax
        /\ st' = [st EXCEPT ![c] = "err"]
        /\ UNCHANGED ahead
     \/ /\ ~(o \in {"reset", "stop"} /\ n > VarIntMax)
        /\ st' = [st EXCEPT ![c] = "queued"]
        /\ ahead' = [ahead EXCEPT ![c] = {d \in Half(c) : st[d] = "queued"}]
  /\ UNCHANGED <<done, wire, taken, tx, rx, netVars>>

\* The coroutine of an async call is cancelled: the future is dropped where it
\* awaits, and its place in the mutex with it.  What it has written or read so
\* far stays written or read.
Cancel(c) ==
  /\ st[c] \in InFlight
  /\ op[c] \in AsyncOps
  /\ ThreadFree(c)
  /\ st' = [st EXCEPT ![c] = "cancelled"]
  /\ Unlock(c)
  /\ UNCHANGED <<callVars, done, wire, taken, tx, rx, netVars>>

-----------------------------------------------------------------------------
(* The send half.                                                          *)

\* Mutant of Writable: a stop from the peer is not looked at.
WritableUnlessClosed == tx = "open" /\ ~lost

\* A write is accepted until the half is finished or reset, the peer has said
\* stop, or the connection is gone.
Writable == tx = "open" /\ "stop" \notin seen /\ ~lost

\* Mutant of Written: `write` instead of `write_all`.
WrittenInPart(c) == done[c] = arg[c] \/ done[c] > 0

\* write_all is through.
Written(c) == done[c] = arg[c]

\* send_bytes: write_all passes bytes while flow control has room for them,
\* and holds the mutex while it waits for room.
SendBytes(c) ==
  /\ Runs(c, "send_bytes")
  /\ \/ /\ Written(c)
        /\ Return(c, "ok")
        /\ UNCHANGED <<done, wire>>
     \/ /\ ~Written(c) /\ ~Writable
        /\ Return(c, "err")
        /\ UNCHANGED <<done, wire>>
     \/ /\ ~Written(c) /\ Writable
        /\ Len(wire) - Len(taken) < Window
        /\ wire' = Append(wire, c)
        /\ done' = [done EXCEPT ![c] = @ + 1]
        /\ UNCHANGED <<st, ahead>>
  /\ UNCHANGED <<callVars, taken, tx, rx, netVars>>

\* finish: a finished or reset half is an error.  One the peer has stopped is
\* left as it is without complaint, as long as the library remembers it.
Finish(c) ==
  /\ Runs(c, "finish")
  /\ \/ tx = "open" /\ "stop" \notin seen /\ tx' = "finished" /\ Return(c, "ok")
     \/ "stop" \in seen /\ UNCHANGED tx /\ Return(c, "ok")
     \/ tx # "open" /\ UNCHANGED tx /\ Return(c, "err")
  /\ UNCHANGED <<callVars, done, wire, taken, rx, netVars>>

\* The library has forgotten the half: reset, or acknowledged in full.
Closed == tx = "reset" \/ "ack" \in seen

\* reset: a finished half can still be reset until the peer acknowledges it.
Reset(c) ==
  /\ Runs(c, "reset")
  /\ \/ ~Closed /\ tx' = "reset" /\ Return(c, "ok")
     \/ Closed /\ UNCHANGED tx /\ Return(c, "err")
  /\ UNCHANGED <<callVars, done, wire, taken, rx, netVars>>

\* set_priority, priority, send_id, recv_id, id: nothing but the mutex.  The
\* priority of a half that is closed is an error, its id is not.
Query(c) ==
  /\ Runs(c, "query")
  /\ \/ Return(c, "ok")
     \/ c \in SendCalls /\ Closed /\ Return(c, "err")
  /\ UNCHANGED <<callVars, done, wire, taken, tx, rx, netVars>>

\* Mutant of Stopped: the guard lives as long as the await.
StoppedUnderLock(c) ==
  /\ Runs(c, "stopped")
  /\ st' = [st EXCEPT ![c] = "waiting"]
  /\ UNCHANGED ahead
  /\ UNCHANGED <<callVars, done, wire, taken, tx, rx, netVars>>

\* stopped: the mutex is held only to make the inner future ...
Stopped(c) ==
  /\ Runs(c, "stopped")
  /\ st' = [st EXCEPT ![c] = "waiting"]
  /\ Unlock(c)
  /\ UNCHANGED <<callVars, done, wire, taken, tx, rx, netVars>>

\* Mutant of Acknowledged: finished is taken for acknowledged.
FinishedAtLeast == tx # "open"

\* The peer has acknowledged the end of the half, or its reset.
Acknowledged == seen \cap {"ack", "reset"} # {}

\* ... which is awaited without it.  "code" is Some(code), "ok" is None.
StoppedResolves(c) ==
  /\ st[c] = "waiting"
  /\ ThreadFree(c)
  /\ \/ "stop" \in seen /\ Return(c, "code")
     \/ Acknowledged /\ Return(c, "ok")
     \/ lost /\ Return(c, "err")
  /\ UNCHANGED <<callVars, done, wire, taken, tx, rx, netVars>>

-----------------------------------------------------------------------------
(* The receive half.                                                       *)

\* Mutant of Available: one byte too many.
AvailablePlusOne == arrived - Len(taken) + 1

\* Bytes that have arrived and nobody has read.
Available == arrived - Len(taken)

\* Reading is possible: the half is open and the peer has not reset it.
Readable == rx = "open" /\ "reset" \notin seen

\* Mutant of AtEnd: the end of a stream that carried nothing is waited for.
AtEndAfterData == Readable /\ Available = 0 /\ "fin" \in seen /\ taken # <<>>

\* The peer has finished and everything it wrote has been read.
AtEnd == Readable /\ Available = 0 /\ "fin" \in seen

\* Mutant of ReadFails: a waiting read does not learn of the loss.
ReadFailsOnReset == "reset" \in seen

\* Mutant of ReadFails: a lost connection fails reads of what has arrived.
ReadFailsWhenLost == "reset" \in seen \/ (rx = "open" /\ lost)

\* A read that has to wait learns that the connection is gone; one on a reset
\* half learns of the reset.
ReadFails == "reset" \in seen \/ (rx = "open" /\ Available = 0 /\ "fin" \notin seen /\ lost)

\* The QUIC library answers a read after a local stop with an error or with
\* end-of-stream.
AfterStop(c, eos) == rx = "stopped" /\ (Return(c, "err") \/ Return(c, eos))

\* c reads k of the bytes that have arrived.
Take(c, k) ==
  /\ Readable
  /\ k \in 1..Available
  /\ taken' = taken \o [i \in 1..k |-> c]
  /\ done'  = [done EXCEPT ![c] = @ + k]

\* read_to_end takes chunks in the order of their arrival.  The library refuses
\* reads in the order of the stream after that: always once chunks were taken,
\* and when it was cancelled after it was polled, which may be so or not.
Unordered == \E q \in RecvCalls : op[q] = "read_to_end" /\ done[q] > 0
MaybeUnordered ==
  \E q \in RecvCalls : op[q] = "read_to_end" /\ (done[q] > 0 \/ st[q] = "cancelled")

\* recv: at most arg[c] bytes of what has arrived, None at end-of-stream.
Recv(c) ==
  /\ Runs(c, "recv")
  /\ \/ arg[c] = 0 /\ Return(c, "ok") /\ UNCHANGED <<done, taken>>
     \/ ~Unordered /\ \E k \in 1..arg[c] : Take(c, k) /\ Return(c, "ok")
     \/ /\ arg[c] > 0
        /\ \/ AtEnd /\ Return(c, "eos")
           \/ (ReadFails \/ MaybeUnordered) /\ Return(c, "err")
           \/ AfterStop(c, "eos")
        /\ UNCHANGED <<done, taken>>
  /\ UNCHANGED <<callVars, wire, tx, rx, netVars>>

\* read_exact: bytes are consumed as they arrive; the end of the stream before
\* the last of them is an error.
ReadExact(c) ==
  /\ Runs(c, "read_exact")
  /\ \/ done[c] = arg[c] /\ Return(c, "ok") /\ UNCHANGED <<done, taken>>
     \/ /\ ~Unordered
        /\ \E k \in 1..(arg[c] - done[c]) : Take(c, k)
        /\ UNCHANGED <<st, ahead>>
     \/ /\ done[c] < arg[c]
        /\ \/ (AtEnd \/ ReadFails \/ MaybeUnordered) /\ Return(c, "err")
           \/ AfterStop(c, "err")
        /\ UNCHANGED <<done, taken>>
  /\ UNCHANGED <<callVars, wire, tx, rx, netVars>>

\* read_to_end: a chunk that goes past the limit is an error, the limit itself
\* is not.
ReadToEnd(c) ==
  /\ Runs(c, "read_to_end")
  /\ \/ /\ \E k \in 1..Available : Take(c, k)
        /\ \/ done'[c] <= arg[c] /\ UNCHANGED <<st, ahead>>
           \/ done'[c] > arg[c] /\ Return(c, "err")
     \/ /\ \/ AtEnd /\ Return(c, "ok")
           \/ ReadFails /\ Return(c, "err")
           \/ AfterStop(c, "ok")
        /\ UNCHANGED <<done, taken>>
  /\ UNCHANGED <<callVars, wire, tx, rx, netVars>>

\* stop: once only.  The library refuses it when it has forgotten the half,
\* some time after the end or the reset.
Stop(c) ==
  /\ Runs(c, "stop")
  /\ \/ rx = "open" /\ rx' = "stopped" /\ Return(c, "ok")
     \/ (~Readable \/ AtEnd) /\ UNCHANGED rx /\ Return(c, "err")
  /\ UNCHANGED <<callVars, done, wire, taken, tx, netVars>>

-----------------------------------------------------------------------------
(* The QUIC library: reliable and in order while the connection lasts.     *)

Deliver ==
  /\ ~lost /\ tx # "reset" /\ arrived < Len(wire)
  /\ arrived' = arrived + 1
  /\ UNCHANGED <<callVars, st, done, ahead, wire, taken, tx, rx, seen, held, lost>>

\* A FIN follows the last byte and is acknowledged; a RESET overtakes what is
\* still under way; a STOP_SENDING goes to the sender, which ignores it once the
\* FIN is acknowledged.
Signal(s) ==
  /\ ~lost /\ s \notin seen
  /\ \/ s = "fin"   /\ tx = "finished" /\ arrived = Len(wire)
     \/ s = "ack"   /\ tx = "finished" /\ "fin" \in seen
     \/ s = "reset" /\ tx = "reset"
     \/ s = "stop"  /\ rx = "stopped" /\ "ack" \notin seen
  /\ seen' = seen \cup {s}
  /\ UNCHANGED <<callVars, st, done, ahead, wire, taken, arrived, tx, rx, held, lost>>

\* The Kotlin object of half h is closed.  Calls in flight keep the Rust object
\* alive, so the library's handle is dropped when there are none: an open send
\* half is finished (or reset, if the peer said stop), a receive half that was
\* not read to its end is stopped.
Dispose(h) ==
  /\ h \in held
  /\ \A c \in Calls : HalfName(c) = h => st[c] \notin InFlight
  /\ held' = held \ {h}
  /\ \/ /\ h = "send" /\ tx = "open" /\ ~lost
        /\ tx' = IF "stop" \in seen THEN "reset" ELSE "finished"
        /\ UNCHANGED rx
     \/ /\ h = "recv" /\ rx = "open" /\ ~lost
        /\ rx' = "stopped"
        /\ UNCHANGED tx
     \/ /\ lost \/ (h = "send" /\ tx # "open") \/ (h = "recv" /\ (~Readable \/ AtEnd))
        /\ UNCHANGED <<tx, rx>>
  /\ UNCHANGED <<callVars, st, done, ahead, wire, taken, arrived, seen, lost>>

\* Closed by either side, by the last handle going away, or by a timeout.
LoseConnection ==
  /\ ~lost
  /\ lost' = TRUE
  /\ UNCHANGED <<callVars, st, done, ahead, wire, taken, arrived, tx, rx, seen, held>>

Progress(c) ==
  \/ SendBytes(c) \/ Finish(c) \/ Reset(c) \/ Query(c) \/ Stopped(c) \/ StoppedResolves(c)
  \/ Recv(c) \/ ReadExact(c) \/ ReadToEnd(c) \/ Stop(c)

Network == Deliver \/ \E s \in Signals : Signal(s)

Next ==
  \/ \E c \in Calls : \E o \in MethodsOf[c] : \E n \in ArgsOf(o) : Call(c, o, n)
  \/ \E c \in Calls : Cancel(c)
  \/ \E c \in Calls : Progress(c)
  \/ \E h \in {"send", "recv"} : Dispose(h)
  \/ Network
  \/ LoseConnection

Spec == Init /\ [][Next]_vars

\* What is scheduled: whoever polls a future polls it again when it is woken,
\* and the QUIC library keeps sending.  Nobody has to call, to cancel, to
\* dispose of a half or to close the connection.
Fairness == (\A c \in Calls : WF_vars(Progress(c))) /\ WF_vars(Network)

FairSpec == Spec /\ Fairness

\* A connection does not outlive its idle timeout for ever.
MortalSpec == FairSpec /\ WF_vars(LoseConnection)

-----------------------------------------------------------------------------
(* Safety.                                                                 *)

\* The bytes of one send_bytes call are never interleaved with another's, not
\* even when it is cancelled or fails half-way: write_all runs under the mutex.
WritesContiguous ==
  \A i, j, k \in 1..Len(wire) : i < j /\ j < k /\ wire[i] = wire[k] => wire[j] = wire[i]

\* The bytes one read_exact or read_to_end collects are consecutive bytes of
\* the stream, however many reads are made at the same time.
ReadsContiguous ==
  \A i, j, k \in 1..Len(taken) : i < j /\ j < k /\ taken[i] = taken[k] => taken[j] = taken[i]

\* Bytes of call c among the first n of the stream.
BytesOf(c, n) == Cardinality({i \in 1..n : wire[i] = c})

\* Call r has been told that the stream is over.
ToldEnd(r) == st[r] = "eos" \/ (op[r] = "read_to_end" /\ st[r] = "ok")

\* A reader that is told the stream is over, by recv's None or by read_to_end's
\* Ok, is told so only when every byte of every send_bytes that returned Ok has
\* been read, unless this endpoint stopped reading.
EndMeansEverything ==
  \A r \in RecvCalls : ToldEnd(r) /\ rx = "open" =>
    \A c \in SendCalls : op[c] = "send_bytes" /\ st[c] = "ok" =>
      BytesOf(c, Len(taken)) = arg[c]

\* A send_bytes that fails with part of its data on the wire fails because of
\* the peer or of the connection, never because finish or reset was called
\* meanwhile.
TornWritesHaveACause ==
  \A c \in SendCalls :
    op[c] = "send_bytes" /\ st[c] = "err" /\ done[c] > 0 => lost \/ "stop" \in seen

\* stopped() returns None for a half nobody reset only when the peer has all
\* that was ever written to it, which no later call adds to.
StoppedNoneMeansDelivered ==
  \A c \in SendCalls : op[c] = "stopped" /\ st[c] = "ok" /\ tx # "reset" =>
    tx = "finished" /\ arrived = Len(wire)

\* Once stopped() has told the sender that the peer has everything, the loss of
\* the connection, a shutdown right after it included, fails no recv of the
\* peer: what has arrived can still be read, up to the end of the stream, unless
\* a read_to_end was given up on the way.
AcknowledgedIsReadable ==
  [][\A c \in SendCalls, r \in RecvCalls :
       /\ op[c] = "stopped" /\ st[c] = "ok" /\ tx # "reset" /\ rx = "open"
       /\ op[r] = "recv" /\ st[r] = "queued" /\ ~MaybeUnordered
       => st'[r] # "err"]_vars

\* Neither half is closed in the middle of a call that is using it: finish and
\* reset wait for a write under way, stop for a read under way.
ClosesBetweenCalls ==
  [][/\ tx' # tx => \A c \in SendCalls : st[c] = "queued" => done[c] = 0
     /\ rx' # rx => \A c \in RecvCalls : st[c] = "queued" => done[c] = 0]_vars

-----------------------------------------------------------------------------
(* Liveness.                                                               *)

\* Calls are made at most once, so that all of them return if and only if a time
\* comes when none is in flight.
Quiet(C) == \A c \in C : st[c] \notin InFlight

\* Once the connection is lost, every call in flight returns.
LossReleasesEveryone == lost ~> Quiet(Calls)

\* Once the FIN or a reset has arrived, every call in flight on the receive
\* half returns: a read waiting for data, and those waiting for its mutex.
EndReleasesReaders == seen \cap {"fin", "reset"} # {} ~> Quiet(RecvCalls)

\* Once the receiver has stopped the stream, every call in flight on the send
\* half returns: a write waiting for room, and those waiting for its mutex.
StopReleasesSenders == rx = "stopped" ~> Quiet(SendCalls)

\* While a read_to_end that has the mutex drains the stream, every send_bytes,
\* finish and reset in flight returns.
DrainedWritersReturn ==
  \A r \in RecvCalls :
    op[r] = "read_to_end" /\ Holds(r)
      ~> (\A c \in SendCalls : st[c] # "queued") \/ st[r] # "queued"

\* "Abruptly reset the send half" and "Tell the peer to stop sending on the recv
\* half": a reset or stop that was called takes effect.
AbortsTakeEffect ==
  \A c \in Calls : op[c] \in {"reset", "stop"} /\ st[c] = "queued" ~> st[c] # "queued"

-----------------------------------------------------------------------------
(* What the stream promises, seen through the results of the calls.        *)

\* What call c has told the application that the rest of the state must honour.
Outcome(c) ==
  IF st[c] \in {"new"} \cup InFlight THEN "busy"
  ELSE IF ToldEnd(c) THEN "end"
  ELSE IF op[c] = "stopped" /\ st[c] = "ok" THEN "sure" ELSE "done"

Serial == INSTANCE SerialStream WITH
  Writers <- SendCalls, Readers <- RecvCalls, sent <- wire, got <- taken,
  phase <- tx, quit <- (rx = "stopped"), res <- [c \in Calls |-> Outcome(c)]

\* Concurrent calls on the two halves, with their mutexes, their network and
\* their cancellations, behave like calls that take turns.
Serializes == Serial!Spec
=============================================================================
