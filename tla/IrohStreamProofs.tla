-------------------------- MODULE IrohStreamProofs --------------------------
(***************************************************************************)
(* Proofs about IrohStream, for any number of calls, any lengths, any      *)
(* window and any assignment of calls to threads.                          *)
(***************************************************************************)
EXTENDS IrohStream, SequenceTheorems, FiniteSetTheorems, TLAPS

-----------------------------------------------------------------------------
(* The inductive invariant.                                                *)

\* The queue of each mutex: only calls that are queued on the same half can be
\* ahead of a call, and of two queued calls one is ahead of the other.
QueueOK ==
  /\ \A c \in Calls : ahead[c] \subseteq {d \in Half(c) \ {c} : st[d] = "queued"}
  /\ \A c \in Calls : \A d \in Half(c) \ {c} :
       st[c] = "queued" /\ st[d] = "queued" => c \in ahead[d] \/ d \in ahead[c]

\* A call that has moved bytes is not new, is a call that moves bytes, and while
\* it is in flight it owns its mutex.
DoneOK ==
  \A c \in Calls : done[c] > 0 =>
    /\ st[c] # "new"
    /\ op[c] \in {"send_bytes", "recv", "read_exact", "read_to_end"}
    /\ st[c] = "queued" => ahead[c] = {}

\* The last byte of sequence q was moved by whichever of the calls in C is in
\* the middle of moving its bytes, and no call has its bytes in two places.
BytesOK(q, C) ==
  /\ \A i \in 1..Len(q) : done[q[i]] > 0
  /\ \A c \in C : st[c] = "queued" /\ done[c] > 0 => Len(q) > 0 /\ q[Len(q)] = c
  /\ \A i, j, k \in 1..Len(q) : i < j /\ j < k /\ q[i] = q[k] => q[j] = q[i]

IInv == TypeOK /\ QueueOK /\ DoneOK /\ BytesOK(wire, SendCalls) /\ BytesOK(taken, RecvCalls)

-----------------------------------------------------------------------------
(* Facts about calls and their mutex.                                      *)

\* The effect of a step on the results and on the mutexes: none, a call that
\* lets go of its mutex, a call that is refused, or a call that queues.
Leaves(c) ==
  \E x \in Results \cup {"waiting"} : st' = [st EXCEPT ![c] = x] /\ Unlock(c)
Refused(c) == st[c] = "new" /\ st' = [st EXCEPT ![c] = "err"] /\ UNCHANGED ahead
Queues(c)  ==
  /\ st[c] = "new"
  /\ st' = [st EXCEPT ![c] = "queued"]
  /\ ahead' = [ahead EXCEPT ![c] = {d \in Half(c) : st[d] = "queued"}]

\* A result leaves the mutex.
LEMMA ReturnLeaves ==
  ASSUME NEW c \in Calls, NEW r \in Results, Return(c, r)
  PROVE  Leaves(c)
BY DEF Return, Leaves, Results

\* At most one call of a half owns its mutex.
LEMMA UniqueOwner ==
  ASSUME QueueOK, NEW c \in Calls, NEW d \in Half(c), Holds(c), Holds(d)
  PROVE  c = d
BY DEF QueueOK, Holds, Half

\* Every step of a call that leaves, is refused or queues, and every step that
\* touches no call, keeps the queues in order.
LEMMA QueueStep ==
  ASSUME TypeOK, QueueOK,
         \/ UNCHANGED <<st, ahead>>
         \/ \E c \in Calls : Leaves(c) \/ Refused(c) \/ Queues(c)
  PROVE  QueueOK'
<1>1. CASE UNCHANGED <<st, ahead>>
  BY <1>1 DEF QueueOK, Half
<1>2. ASSUME NEW c \in Calls, Leaves(c) PROVE QueueOK'
  <2>1. PICK x \in Results \cup {"waiting"} : st' = [st EXCEPT ![c] = x] /\ Unlock(c)
    BY <1>2 DEF Leaves
  <2>2. x # "queued" /\ st'[c] = x /\ \A d \in Calls \ {c} : st'[d] = st[d]
    BY <2>1 DEF TypeOK, Results
  <2>3. \A d \in Calls : ahead'[d] = ahead[d] \ {c}
    BY <2>1 DEF Unlock
  <2>4. Half(c) \subseteq Calls /\ \A d \in Calls : Half(d) \subseteq Calls /\ Half(d)' = Half(d)
    BY DEF Half, Calls
  <2>5. \A d \in Calls : ahead'[d] \subseteq {e \in Half(d) \ {d} : st'[e] = "queued"}
    BY <2>2, <2>3, <2>4 DEF QueueOK
  <2>6. \A d \in Calls : \A e \in Half(d) \ {d} :
          st'[d] = "queued" /\ st'[e] = "queued" => d \in ahead'[e] \/ e \in ahead'[d]
    BY <2>2, <2>3, <2>4 DEF QueueOK
  <2> QED BY <2>4, <2>5, <2>6 DEF QueueOK
<1>3. ASSUME NEW c \in Calls, Refused(c) PROVE QueueOK'
  <2>1. st'[c] = "err" /\ st[c] = "new" /\ \A d \in Calls \ {c} : st'[d] = st[d]
    BY <1>3 DEF Refused, TypeOK
  <2>2. \A d \in Calls : Half(d) \subseteq Calls /\ Half(d)' = Half(d)
    BY DEF Half, Calls
  <2> QED BY <1>3, <2>1, <2>2 DEF Refused, QueueOK
<1>4. ASSUME NEW c \in Calls, Queues(c) PROVE QueueOK'
  <2>1. st'[c] = "queued" /\ st[c] = "new" /\ \A d \in Calls \ {c} : st'[d] = st[d]
    BY <1>4 DEF Queues, TypeOK
  <2>2. /\ ahead'[c] = {d \in Half(c) : st[d] = "queued"}
        /\ \A d \in Calls \ {c} : ahead'[d] = ahead[d]
    BY <1>4 DEF Queues, TypeOK
  <2>3. \A d \in Calls : Half(d) \subseteq Calls /\ Half(d)' = Half(d)
    BY DEF Half, Calls
  <2>4. \A d \in Calls, e \in Calls : e \in Half(d) <=> d \in Half(e)
    BY CallsAssumption DEF Half, Calls
  <2>5. \A d \in Calls : ahead'[d] \subseteq {e \in Half(d) \ {d} : st'[e] = "queued"}
    BY <2>1, <2>2, <2>3 DEF QueueOK
  <2>6. \A d \in Calls : \A e \in Half(d) \ {d} :
          st'[d] = "queued" /\ st'[e] = "queued" => d \in ahead'[e] \/ e \in ahead'[d]
    BY <2>1, <2>2, <2>3, <2>4 DEF QueueOK
  <2> QED BY <2>3, <2>5, <2>6 DEF QueueOK
<1> QED BY <1>1, <1>2, <1>3, <1>4

-----------------------------------------------------------------------------
(* Facts about the two sequences of bytes.                                 *)

\* r is q followed by k bytes of call c.
Extends(r, q, c, k) ==
  /\ Len(r) = Len(q) + k
  /\ \A i \in 1..Len(q) : r[i] = q[i]
  /\ \A i \in (Len(q) + 1)..(Len(q) + k) : r[i] = c

\* One more byte written.
LEMMA AppendExtends ==
  ASSUME NEW S, NEW q \in Seq(S), NEW c \in S
  PROVE  Append(q, c) \in Seq(S) /\ Extends(Append(q, c), q, c, 1)
BY DEF Extends

\* k more bytes read.
LEMMA ConcatExtends ==
  ASSUME NEW S, NEW q \in Seq(S), NEW c \in S, NEW k \in Nat
  PROVE  /\ q \o [i \in 1..k |-> c] \in Seq(S)
         /\ Extends(q \o [i \in 1..k |-> c], q, c, k)
<1> DEFINE run == [i \in 1..k |-> c]
<1>1. run \in Seq(S) /\ Len(run) = k
  <2>1. run \in [1..k -> S]
    OBVIOUS
  <2>2. run \in Seq(S)
    BY <2>1
  <2>3. DOMAIN run = 1..k
    OBVIOUS
  <2> QED BY <2>2, <2>3, LenProperties
<1>2. \A i \in 1..k : run[i] = c
  OBVIOUS
<1> HIDE DEF run
<1>3. q \o run \in Seq(S) /\ Len(q \o run) = Len(q) + k
  BY <1>1, ConcatProperties
<1>4. \A i \in 1..(Len(q) + k) : (q \o run)[i] = IF i <= Len(q) THEN q[i] ELSE run[i - Len(q)]
  BY <1>1, ConcatProperties
<1>5. Len(q) \in Nat
  BY LenProperties
<1>6. \A i \in 1..Len(q) : (q \o run)[i] = q[i]
  BY <1>4, <1>5
<1>7. ASSUME NEW i \in (Len(q) + 1)..(Len(q) + k) PROVE (q \o run)[i] = c
  <2>1. i \in 1..(Len(q) + k) /\ ~(i <= Len(q)) /\ i - Len(q) \in 1..k
    BY <1>5
  <2>2. (q \o run)[i] = run[i - Len(q)]
    BY <1>4, <2>1
  <2> QED BY <1>2, <2>1, <2>2
<1>8. Extends(q \o run, q, c, k)
  BY <1>3, <1>6, <1>7 DEF Extends
<1> QED BY <1>3, <1>8 DEF run

\* A run of bytes by the owner of the mutex keeps every call's bytes together:
\* either it moved the last byte, or it has not moved any.
LEMMA BytesMove ==
  ASSUME TypeOK, QueueOK, DoneOK,
         NEW C \in {SendCalls, RecvCalls}, NEW q \in Seq(C), NEW r \in Seq(C),
         NEW c \in C, Holds(c), NEW k \in Nat \ {0},
         Extends(r, q, c, k),
         done' = [done EXCEPT ![c] = @ + k],
         \A d \in Calls \ {c} : st'[d] = st[d],
         BytesOK(q, C)
  PROVE  /\ \A i \in 1..Len(r) : done'[r[i]] > 0
         /\ \A d \in C : st'[d] = "queued" /\ done'[d] > 0 => Len(r) > 0 /\ r[Len(r)] = d
         /\ \A i, j, l \in 1..Len(r) : i < j /\ j < l /\ r[i] = r[l] => r[j] = r[i]
<1>1. C \subseteq Calls /\ Half(c) = C
  BY CallsAssumption DEF Calls, Half
<1>2. Len(q) \in Nat /\ Len(r) = Len(q) + k /\ \A i \in 1..Len(q) : q[i] \in C
  BY LenProperties, ElementOfSeq DEF Extends
<1>3. /\ \A i \in 1..Len(q) : r[i] = q[i]
      /\ \A i \in 1..Len(r) : i > Len(q) => r[i] = c
  BY <1>2 DEF Extends
<1>4. done[c] \in Nat /\ done'[c] = done[c] + k /\ \A d \in Calls \ {c} : done'[d] = done[d]
  BY <1>1 DEF TypeOK
<1>5. \A i \in 1..Len(r) : done'[r[i]] > 0
  BY <1>1, <1>2, <1>3, <1>4 DEF BytesOK
<1>6. \A d \in C \ {c} : ~(st[d] = "queued" /\ done[d] > 0)
  BY <1>1, UniqueOwner DEF DoneOK, Holds
<1>7. \A d \in C : st'[d] = "queued" /\ done'[d] > 0 => Len(r) > 0 /\ r[Len(r)] = d
  BY <1>1, <1>2, <1>3, <1>4, <1>6
<1>8. \/ \A i \in 1..Len(q) : q[i] # c
      \/ Len(q) > 0 /\ q[Len(q)] = c
  <2>1. CASE done[c] > 0
    BY <2>1 DEF BytesOK, Holds
  <2>2. CASE ~(done[c] > 0)
    BY <2>2 DEF BytesOK
  <2> QED BY <2>1, <2>2
<1>9. ASSUME NEW i \in 1..Len(r), NEW j \in 1..Len(r), NEW l \in 1..Len(r),
             i < j, j < l, r[i] = r[l]
      PROVE  r[j] = r[i]
  <2>1. CASE l <= Len(q)
    BY <1>2, <1>3, <1>9, <2>1 DEF BytesOK
  <2>2. CASE l > Len(q) /\ i > Len(q)
    BY <1>2, <1>3, <1>9, <2>2
  <2>3. CASE l > Len(q) /\ i <= Len(q)
    <3>1. i \in 1..Len(q) /\ l \in 1..Len(r)
      BY <1>2, <1>9, <2>3
    <3>2. r[l] = c /\ r[i] = c /\ q[i] = c
      BY <1>3, <1>9, <2>3, <3>1
    <3>3. Len(q) \in 1..Len(q) /\ q[Len(q)] = c
      BY <1>2, <1>8, <3>1, <3>2
    <3>4. CASE j < Len(q)
      <4>1. j \in 1..Len(q)
        BY <1>2, <3>4
      <4>2. q[j] = q[i]
        BY <1>9, <3>1, <3>2, <3>3, <3>4, <4>1 DEF BytesOK
      <4> QED BY <1>3, <3>2, <4>1, <4>2
    <3>5. CASE j = Len(q)
      BY <1>3, <3>2, <3>3, <3>5
    <3>6. CASE j > Len(q)
      BY <1>3, <3>2, <3>6
    <3> QED BY <1>2, <3>4, <3>5, <3>6
  <2> QED BY <1>2, <2>1, <2>2, <2>3
<1> QED BY <1>5, <1>7, <1>9

-----------------------------------------------------------------------------
(* The steps of the specification, as seen by the mutexes and the bytes.   *)

Idle == UNCHANGED <<op, st, done, ahead, wire, taken>>

Starts(c) ==
  /\ Refused(c) \/ Queues(c)
  /\ \A d \in Calls \ {c} : op'[d] = op[d]
  /\ UNCHANGED <<done, wire, taken>>

Ends(c) == Leaves(c) /\ UNCHANGED <<op, done, wire, taken>>

Writes(c) ==
  /\ c \in SendCalls /\ Holds(c) /\ op[c] = "send_bytes" /\ tx = "open"
  /\ wire' \in Seq(SendCalls) /\ Extends(wire', wire, c, 1)
  /\ done' = [done EXCEPT ![c] = @ + 1]
  /\ UNCHANGED <<op, st, ahead, taken, tx>>

Reads(c, k) ==
  /\ c \in RecvCalls /\ Holds(c) /\ op[c] \in {"recv", "read_exact", "read_to_end"}
  /\ taken' \in Seq(RecvCalls) /\ Extends(taken', taken, c, k) /\ Len(taken') <= arrived
  /\ done' = [done EXCEPT ![c] = @ + k]
  /\ UNCHANGED <<st, ahead>> \/ Leaves(c)
  /\ UNCHANGED <<op, wire>>

Shape ==
  \/ Idle
  \/ \E c \in Calls : Starts(c) \/ Ends(c) \/ Writes(c)
  \/ \E c \in Calls : \E k \in Nat \ {0} : Reads(c, k)

\* Taking bytes is a read, with or without the return of the call.
LEMMA TakeReads ==
  ASSUME TypeOK, NEW c \in Calls, Holds(c), NEW k, Take(c, k),
         op[c] \in {"recv", "read_exact", "read_to_end"},
         UNCHANGED <<st, ahead>> \/ Leaves(c),
         UNCHANGED <<op, wire>>
  PROVE  k \in Nat \ {0} /\ Reads(c, k)
<1>1. c \in RecvCalls
  BY DEF TypeOK, Calls, SendOps
<1>2. k \in Nat \ {0} /\ Len(taken) + k <= arrived /\ Len(taken) \in Nat
  BY LenProperties DEF TypeOK, Take, Available
<1>3. taken' \in Seq(RecvCalls) /\ Extends(taken', taken, c, k)
  BY <1>1, <1>2, ConcatExtends DEF TypeOK, Take
<1> QED BY <1>1, <1>2, <1>3 DEF Reads, Take, Extends

\* Every step has one of the shapes.
LEMMA StepShape ==
  ASSUME TypeOK, [Next]_vars
  PROVE  Shape
<1>1. CASE UNCHANGED vars
  BY <1>1 DEF vars, Shape, Idle
<1>2. ASSUME NEW c \in Calls, NEW o, NEW n, Call(c, o, n) PROVE Shape
  <2>1. \A d \in Calls \ {c} : op'[d] = op[d]
    BY <1>2 DEF Call, TypeOK
  <2> QED BY <1>2, <2>1 DEF Call, Shape, Starts, Refused, Queues
<1>3. ASSUME NEW c \in Calls, Cancel(c) PROVE Shape
  BY <1>3 DEF Cancel, Shape, Ends, Leaves, Results, callVars
<1>4. ASSUME NEW c \in Calls, SendBytes(c) PROVE Shape
  <2>1. c \in SendCalls /\ Holds(c) /\ op[c] = "send_bytes"
    BY <1>4 DEF SendBytes, Runs, TypeOK, Calls, RecvOps
  <2>2. CASE Return(c, "ok") /\ UNCHANGED <<done, wire>>
    BY <1>4, <2>2, ReturnLeaves DEF SendBytes, Shape, Ends, Results, callVars
  <2>3. CASE Return(c, "err") /\ UNCHANGED <<done, wire>>
    BY <1>4, <2>3, ReturnLeaves DEF SendBytes, Shape, Ends, Results, callVars
  <2>4. CASE /\ Writable
             /\ wire' = Append(wire, c)
             /\ done' = [done EXCEPT ![c] = @ + 1]
             /\ UNCHANGED <<st, ahead>>
    <3>1. wire' \in Seq(SendCalls) /\ Extends(wire', wire, c, 1)
      BY <2>1, <2>4, AppendExtends DEF TypeOK
    <3> QED BY <1>4, <2>1, <2>4, <3>1 DEF SendBytes, Shape, Writes, Writable, callVars
  <2> QED BY <1>4, <2>2, <2>3, <2>4 DEF SendBytes
<1>5. ASSUME NEW c \in Calls, Finish(c) \/ Reset(c) \/ Query(c) \/ Stop(c) PROVE Shape
  <2>1. Leaves(c)
    BY <1>5, ReturnLeaves DEF Finish, Reset, Query, Stop, Results
  <2> QED BY <1>5, <2>1 DEF Finish, Reset, Query, Stop, Shape, Ends, callVars
<1>6. ASSUME NEW c \in Calls, Stopped(c) PROVE Shape
  BY <1>6 DEF Stopped, Shape, Ends, Leaves, callVars
<1>7. ASSUME NEW c \in Calls, StoppedResolves(c) PROVE Shape
  <2>1. Leaves(c)
    BY <1>7, ReturnLeaves DEF StoppedResolves, Results
  <2> QED BY <1>7, <2>1 DEF StoppedResolves, Shape, Ends, callVars
<1>8. ASSUME NEW c \in Calls, Recv(c) PROVE Shape
  <2>1. CASE UNCHANGED <<done, taken>> /\ \E r \in {"ok", "eos", "err"} : Return(c, r)
    BY <1>8, <2>1, ReturnLeaves DEF Recv, Shape, Ends, Results, callVars
  <2>2. CASE \E k \in 1..arg[c] : Take(c, k) /\ Return(c, "ok")
    BY <1>8, <2>2, TakeReads, ReturnLeaves DEF Recv, Runs, Shape, Results, callVars
  <2> QED BY <1>8, <2>1, <2>2 DEF Recv, AfterStop
<1>9. ASSUME NEW c \in Calls, ReadExact(c) PROVE Shape
  <2>1. CASE UNCHANGED <<done, taken>> /\ \E r \in {"ok", "err"} : Return(c, r)
    BY <1>9, <2>1, ReturnLeaves DEF ReadExact, Shape, Ends, Results, callVars
  <2>2. CASE (\E k \in 1..(arg[c] - done[c]) : Take(c, k)) /\ UNCHANGED <<st, ahead>>
    BY <1>9, <2>2, TakeReads DEF ReadExact, Runs, Shape, callVars
  <2> QED BY <1>9, <2>1, <2>2 DEF ReadExact, AfterStop
<1>10. ASSUME NEW c \in Calls, ReadToEnd(c) PROVE Shape
  <2>1. CASE UNCHANGED <<done, taken>> /\ \E r \in {"ok", "err"} : Return(c, r)
    BY <1>10, <2>1, ReturnLeaves DEF ReadToEnd, Shape, Ends, Results, callVars
  <2>2. CASE /\ \E k \in 1..Available : Take(c, k)
             /\ UNCHANGED <<st, ahead>> \/ Return(c, "err")
    BY <1>10, <2>2, TakeReads, ReturnLeaves DEF ReadToEnd, Runs, Shape, Results, callVars
  <2> QED BY <1>10, <2>1, <2>2 DEF ReadToEnd, AfterStop
<1>11. CASE Network \/ LoseConnection \/ \E h \in {"send", "recv"} : Dispose(h)
  BY <1>11 DEF Network, Deliver, Signal, LoseConnection, Dispose, Shape, Idle, callVars
<1> QED
  BY <1>1, <1>2, <1>3, <1>4, <1>5, <1>6, <1>7, <1>8, <1>9, <1>10, <1>11
  DEF Next, Progress, Calls

-----------------------------------------------------------------------------
(* Preservation of the inductive invariant.                                *)

\* The arguments a call can be given are natural numbers.
LEMMA ArgsAreNat == \A o : ArgsOf(o) \subseteq Nat
BY BoundsAssumption DEF ArgsOf

LEMMA TypeInit == Init => TypeOK
<1> SUFFICES ASSUME Init PROVE TypeOK
  OBVIOUS
<1>1. wire \in Seq(SendCalls) /\ taken \in Seq(RecvCalls) /\ Len(wire) = 0 /\ Len(taken) = 0
  BY EmptySeq DEF Init
<1>2. /\ op \in [Calls -> AsyncOps \cup BlockingOps \cup {"none"}]
      /\ \A c \in SendCalls : op[c] \in SendOps \cup {"none"}
      /\ \A c \in RecvCalls : op[c] \in RecvOps \cup {"none"}
  BY DEF Init, Calls
<1>3. /\ arg \in [Calls -> Nat] /\ done \in [Calls -> Nat]
      /\ st \in [Calls -> {"new"} \cup InFlight \cup Results]
      /\ ahead \in [Calls -> SUBSET Calls]
  BY DEF Init
<1>4. arrived \in 0..Len(wire) /\ Len(taken) <= arrived
  BY <1>1 DEF Init
<1>5. /\ tx \in {"open", "finished", "reset"} /\ rx \in {"open", "stopped"}
      /\ seen \in SUBSET Signals /\ held \in SUBSET {"send", "recv"} /\ lost \in BOOLEAN
  BY DEF Init
<1> QED BY <1>1, <1>2, <1>3, <1>4, <1>5 DEF TypeOK

\* Every step respects the types; the only steps to look at closely are those
\* that move bytes.
LEMMA TypeStep == TypeOK /\ [Next]_vars => TypeOK'
<1> SUFFICES ASSUME TypeOK, [Next]_vars PROVE TypeOK'
  OBVIOUS
<1> USE DEF Results, InFlight
<1>0. Len(wire) \in Nat /\ Len(taken) \in Nat
  BY LenProperties DEF TypeOK
<1>1. CASE UNCHANGED vars
  BY <1>1 DEF vars, TypeOK
<1>2. ASSUME NEW c \in Calls, NEW o, NEW n \in ArgsOf(o), Call(c, o, n),
             \/ c \in SendCalls /\ o \in SendOps
             \/ c \in RecvCalls /\ o \in RecvOps
      PROVE  TypeOK'
  <2>1. n \in Nat /\ o \in AsyncOps \cup BlockingOps
    BY <1>2, ArgsAreNat DEF SendOps, RecvOps, AsyncOps, BlockingOps
  <2>2. /\ ahead' \in [Calls -> SUBSET Calls]
        /\ st' \in [Calls -> {"new"} \cup InFlight \cup Results]
    <3>1. {d \in Half(c) : st[d] = "queued"} \in SUBSET Calls
      BY DEF Half, Calls
    <3>2. \/ UNCHANGED ahead
          \/ ahead' = [ahead EXCEPT ![c] = {d \in Half(c) : st[d] = "queued"}]
      BY <1>2 DEF Call
    <3>3. ahead' \in [Calls -> SUBSET Calls]
      BY <3>1, <3>2 DEF TypeOK
    <3>4. st' \in [Calls -> {"new"} \cup InFlight \cup Results]
      BY <1>2 DEF Call, TypeOK
    <3> QED BY <3>3, <3>4
  <2>3. /\ op' \in [Calls -> AsyncOps \cup BlockingOps \cup {"none"}]
        /\ arg' \in [Calls -> Nat]
    BY <1>2, <2>1 DEF Call, TypeOK
  <2>4. /\ \A d \in SendCalls : op'[d] \in SendOps \cup {"none"}
        /\ \A d \in RecvCalls : op'[d] \in RecvOps \cup {"none"}
    BY <1>2, CallsAssumption DEF Call, TypeOK, Calls
  <2> QED BY <1>2, <2>2, <2>3, <2>4 DEF Call, TypeOK, netVars
<1>3. ASSUME NEW c \in Calls, Leaves(c)
      PROVE  /\ st' \in [Calls -> {"new"} \cup InFlight \cup Results]
             /\ ahead' \in [Calls -> SUBSET Calls]
  BY <1>3 DEF Leaves, Unlock, TypeOK
<1>4. ASSUME NEW c \in Calls, Cancel(c) \/ Stopped(c) \/ StoppedResolves(c) \/ Query(c)
      PROVE  TypeOK'
  <2>1. Leaves(c)
    BY <1>4, ReturnLeaves DEF Cancel, Stopped, StoppedResolves, Query, Leaves
  <2> QED BY <1>3, <1>4, <2>1
          DEF Cancel, Stopped, StoppedResolves, Query, TypeOK, callVars, netVars
<1>5. ASSUME NEW c \in Calls, Finish(c) \/ Reset(c) \/ Stop(c) PROVE TypeOK'
  <2>1. Leaves(c)
    BY <1>5, ReturnLeaves DEF Finish, Reset, Stop
  <2> QED BY <1>3, <1>5, <2>1 DEF Finish, Reset, Stop, TypeOK, callVars, netVars
<1>6. ASSUME NEW c \in Calls, SendBytes(c) \/ Recv(c) \/ ReadExact(c) \/ ReadToEnd(c)
      PROVE  TypeOK'
  <2>1. UNCHANGED <<op, arg, tx, rx, arrived, seen, held, lost>>
    BY <1>6 DEF SendBytes, Recv, ReadExact, ReadToEnd, callVars, netVars
  <2>2. /\ st' \in [Calls -> {"new"} \cup InFlight \cup Results]
        /\ ahead' \in [Calls -> SUBSET Calls]
    <3>1. UNCHANGED <<st, ahead>> \/ Leaves(c)
      BY <1>6, ReturnLeaves DEF SendBytes, Recv, ReadExact, ReadToEnd, AfterStop
    <3> QED BY <1>3, <3>1 DEF TypeOK
  <2>3. CASE UNCHANGED <<done, wire, taken>>
    BY <2>1, <2>2, <2>3 DEF TypeOK
  <2>4. ASSUME NEW d \in Calls, Writes(d) PROVE TypeOK'
    <3>1. done' \in [Calls -> Nat]
      BY <2>4 DEF Writes, TypeOK
    <3>2. wire' \in Seq(SendCalls) /\ Len(wire') = Len(wire) + 1
      BY <2>4 DEF Writes, Extends
    <3> QED BY <1>0, <2>1, <2>2, <2>4, <3>1, <3>2 DEF Writes, TypeOK
  <2>5. ASSUME NEW d \in Calls, NEW k \in Nat \ {0}, Reads(d, k) PROVE TypeOK'
    <3>1. done' \in [Calls -> Nat]
      BY <2>5 DEF Reads, TypeOK
    <3> QED BY <2>1, <2>2, <2>5, <3>1 DEF Reads, TypeOK
  <2> QED BY <2>3, <2>4, <2>5, StepShape DEF Shape, Idle, Starts, Ends
<1>7. CASE Network \/ LoseConnection
  <2>1. CASE Deliver
    BY <1>0, <2>1 DEF Deliver, TypeOK, callVars
  <2>2. CASE \E s \in Signals : Signal(s)
    BY <2>2 DEF Signal, TypeOK, callVars
  <2>3. CASE LoseConnection
    BY <2>3 DEF LoseConnection, TypeOK, callVars
  <2> QED BY <1>7, <2>1, <2>2, <2>3 DEF Network
<1>8. CASE \E h \in {"send", "recv"} : Dispose(h)
  BY <1>8 DEF Dispose, TypeOK, callVars
<1> QED
  BY <1>1, <1>2, <1>4, <1>5, <1>6, <1>7, <1>8, MethodsAssumption DEF Next, Progress, Calls

\* The types are invariant.
THEOREM TypeCorrect == Spec => []TypeOK
BY TypeInit, TypeStep, PTL DEF Spec

\* Every shape keeps the bytes of every call together and the queues in order.
LEMMA ShapeStep ==
  ASSUME IInv, Shape, TypeOK'
  PROVE  QueueOK' /\ DoneOK' /\ BytesOK(wire, SendCalls)' /\ BytesOK(taken, RecvCalls)'
<1>0. /\ SendCalls \subseteq Calls /\ RecvCalls \subseteq Calls
      /\ \A i \in 1..Len(wire) : wire[i] \in Calls
      /\ \A i \in 1..Len(taken) : taken[i] \in Calls
      /\ \A c \in Calls : done[c] \in Nat
  BY ElementOfSeq DEF IInv, TypeOK, Calls
<1>1. CASE Idle
  BY <1>1, QueueStep DEF Idle, IInv, DoneOK, BytesOK
<1>2. ASSUME NEW c \in Calls, Starts(c)
      PROVE  QueueOK' /\ DoneOK' /\ BytesOK(wire, SendCalls)' /\ BytesOK(taken, RecvCalls)'
  <2>1. QueueOK'
    BY <1>2, QueueStep DEF Starts, IInv
  <2>2. st[c] = "new" /\ ~(done[c] > 0) /\ \A d \in Calls \ {c} : st'[d] = st[d]
    BY <1>2 DEF Starts, Refused, Queues, IInv, TypeOK, DoneOK
  <2>3. \A d \in Calls \ {c} : ahead'[d] = ahead[d]
    BY <1>2 DEF Starts, Refused, Queues, IInv, TypeOK
  <2>4. DoneOK'
    BY <1>2, <2>2, <2>3 DEF Starts, IInv, DoneOK
  <2>5. UNCHANGED <<done, wire, taken>>
    BY <1>2 DEF Starts
  <2>6. BytesOK(wire, SendCalls)'
    BY <1>0, <2>2, <2>5 DEF IInv, BytesOK
  <2>7. BytesOK(taken, RecvCalls)'
    BY <1>0, <2>2, <2>5 DEF IInv, BytesOK
  <2> QED BY <2>1, <2>4, <2>6, <2>7
<1>3. ASSUME NEW c \in Calls, Ends(c)
      PROVE  QueueOK' /\ DoneOK' /\ BytesOK(wire, SendCalls)' /\ BytesOK(taken, RecvCalls)'
  <2>1. QueueOK'
    BY <1>3, QueueStep DEF Ends, IInv
  <2>2. /\ st'[c] \notin {"new", "queued"}
        /\ \A d \in Calls \ {c} : st'[d] = st[d]
        /\ \A d \in Calls : ahead'[d] \subseteq ahead[d]
    BY <1>3 DEF Ends, Leaves, Unlock, Results, IInv, TypeOK
  <2>3. DoneOK'
    BY <1>3, <2>2 DEF Ends, IInv, DoneOK
  <2>4. BytesOK(wire, SendCalls)' /\ BytesOK(taken, RecvCalls)'
    BY <1>0, <1>3, <2>2 DEF Ends, IInv, BytesOK
  <2> QED BY <2>1, <2>3, <2>4
<1>4. ASSUME NEW c \in Calls, Writes(c)
      PROVE  QueueOK' /\ DoneOK' /\ BytesOK(wire, SendCalls)' /\ BytesOK(taken, RecvCalls)'
  <2>1. QueueOK'
    BY <1>4, QueueStep DEF Writes, IInv
  <2>2. \A d \in Calls \ {c} : done'[d] = done[d]
    BY <1>4 DEF Writes, IInv, TypeOK
  <2>3. DoneOK'
    BY <1>4, <2>2 DEF Writes, Holds, IInv, DoneOK
  <2>4. BytesOK(wire, SendCalls)'
    <3>1. /\ wire \in Seq(SendCalls) /\ wire' \in Seq(SendCalls)
          /\ c \in SendCalls /\ Holds(c) /\ Extends(wire', wire, c, 1)
          /\ done' = [done EXCEPT ![c] = @ + 1] /\ st' = st
      BY <1>4 DEF Writes, IInv, TypeOK
    <3>2. /\ \A i \in 1..Len(wire') : done'[wire'[i]] > 0
          /\ \A d \in SendCalls : st'[d] = "queued" /\ done'[d] > 0
               => Len(wire') > 0 /\ wire'[Len(wire')] = d
          /\ \A i, j, l \in 1..Len(wire') :
               i < j /\ j < l /\ wire'[i] = wire'[l] => wire'[j] = wire'[i]
      <4>1. /\ TypeOK /\ QueueOK /\ DoneOK /\ BytesOK(wire, SendCalls)
            /\ SendCalls \in {SendCalls, RecvCalls} /\ 1 \in Nat \ {0}
            /\ \A d \in Calls \ {c} : st'[d] = st[d]
        BY <3>1 DEF IInv
      <4> QED BY <3>1, <4>1, BytesMove
    <3> QED BY <3>2 DEF BytesOK
  <2>5. BytesOK(taken, RecvCalls)'
    <3>1. \A d \in RecvCalls : done'[d] = done[d]
      BY <1>0, <1>4, <2>2, CallsAssumption DEF Writes
    <3>2. \A i \in 1..Len(taken) : taken[i] \in RecvCalls
      BY ElementOfSeq DEF IInv, TypeOK
    <3> QED BY <1>4, <3>1, <3>2 DEF Writes, IInv, BytesOK
  <2> QED BY <2>1, <2>3, <2>4, <2>5
<1>5. ASSUME NEW c \in Calls, NEW k \in Nat \ {0}, Reads(c, k)
      PROVE  QueueOK' /\ DoneOK' /\ BytesOK(wire, SendCalls)' /\ BytesOK(taken, RecvCalls)'
  <2>1. QueueOK'
    BY <1>5, QueueStep DEF Reads, IInv
  <2>2. \A d \in Calls \ {c} : done'[d] = done[d] /\ st'[d] = st[d]
    BY <1>5 DEF Reads, Leaves, IInv, TypeOK
  <2>3. /\ st'[c] # "new"
        /\ \A d \in Calls : ahead'[d] \subseteq ahead[d]
    <3>1. CASE UNCHANGED <<st, ahead>>
      BY <1>5, <3>1 DEF Reads, Holds
    <3>2. CASE Leaves(c)
      BY <3>2 DEF Leaves, Unlock, Results, IInv, TypeOK
    <3> QED BY <1>5, <3>1, <3>2 DEF Reads
  <2>4. DoneOK'
    BY <1>5, <2>2, <2>3 DEF Reads, Holds, IInv, DoneOK
  <2>5. BytesOK(taken, RecvCalls)'
    <3>1. /\ taken \in Seq(RecvCalls) /\ taken' \in Seq(RecvCalls)
          /\ c \in RecvCalls /\ Holds(c) /\ Extends(taken', taken, c, k)
          /\ done' = [done EXCEPT ![c] = @ + k]
      BY <1>5 DEF Reads, IInv, TypeOK
    <3>2. /\ \A i \in 1..Len(taken') : done'[taken'[i]] > 0
          /\ \A d \in RecvCalls : st'[d] = "queued" /\ done'[d] > 0
               => Len(taken') > 0 /\ taken'[Len(taken')] = d
          /\ \A i, j, l \in 1..Len(taken') :
               i < j /\ j < l /\ taken'[i] = taken'[l] => taken'[j] = taken'[i]
      <4>1. /\ TypeOK /\ QueueOK /\ DoneOK /\ BytesOK(taken, RecvCalls)
            /\ RecvCalls \in {SendCalls, RecvCalls} /\ k \in Nat \ {0}
            /\ \A d \in Calls \ {c} : st'[d] = st[d]
        BY <2>2 DEF IInv
      <4> QED BY <3>1, <4>1, BytesMove
    <3> QED BY <3>2 DEF BytesOK
  <2>6. BytesOK(wire, SendCalls)'
    <3>1. \A d \in SendCalls : done'[d] = done[d] /\ st'[d] = st[d]
      BY <1>0, <1>5, <2>2, CallsAssumption DEF Reads
    <3>2. \A i \in 1..Len(wire) : wire[i] \in SendCalls
      BY ElementOfSeq DEF IInv, TypeOK
    <3> QED BY <1>5, <3>1, <3>2 DEF Reads, IInv, BytesOK
  <2> QED BY <2>1, <2>4, <2>5, <2>6
<1> QED BY <1>1, <1>2, <1>3, <1>4, <1>5 DEF Shape

LEMMA IInvInit == Init => IInv
<1> SUFFICES ASSUME Init PROVE IInv
  OBVIOUS
<1>1. Len(wire) = 0 /\ Len(taken) = 0
  BY EmptySeq DEF Init
<1>2. \A c \in Calls : ahead[c] = {} /\ st[c] = "new" /\ done[c] = 0
  BY DEF Init
<1>3. \A c \in Calls : Half(c) \subseteq Calls
  BY DEF Half, Calls
<1>4. QueueOK
  BY <1>2, <1>3 DEF QueueOK
<1>5. DoneOK
  BY <1>2 DEF DoneOK
<1>6. BytesOK(wire, SendCalls) /\ BytesOK(taken, RecvCalls)
  BY <1>1, <1>2 DEF BytesOK, Calls
<1> QED BY <1>4, <1>5, <1>6, TypeInit DEF IInv

LEMMA IInvStep == IInv /\ [Next]_vars => IInv'
BY TypeStep, StepShape, ShapeStep DEF IInv

\* The bytes of one send_bytes call are never interleaved with another's, for
\* any number of concurrent calls, cancelled ones included.
THEOREM WritesStayTogether == Spec => []WritesContiguous
<1>1. IInv => WritesContiguous
  BY DEF IInv, BytesOK, WritesContiguous
<1> QED BY <1>1, IInvInit, IInvStep, PTL DEF Spec

\* The bytes one read collects are consecutive bytes of the stream.
THEOREM ReadsStayTogether == Spec => []ReadsContiguous
<1>1. IInv => ReadsContiguous
  BY DEF IInv, BytesOK, ReadsContiguous
<1> QED BY <1>1, IInvInit, IInvStep, PTL DEF Spec

\* finish, reset, stop and the disposal of a half never come in the middle of a
\* write or of a read.
LEMMA BetweenCalls ==
  ASSUME IInv, [Next]_vars
  PROVE  /\ tx' # tx => \A c \in SendCalls : st[c] = "queued" => done[c] = 0
         /\ rx' # rx => \A c \in RecvCalls : st[c] = "queued" => done[c] = 0
<1> DEFINE Between ==
      /\ tx' # tx => \A c \in SendCalls : st[c] = "queued" => done[c] = 0
      /\ rx' # rx => \A c \in RecvCalls : st[c] = "queued" => done[c] = 0
<1>0. /\ SendCalls \subseteq Calls /\ RecvCalls \subseteq Calls
      /\ \A c \in Calls : done[c] \in Nat
      /\ \A c \in SendCalls : Half(c) = SendCalls
      /\ \A c \in RecvCalls : Half(c) = RecvCalls
  BY CallsAssumption DEF IInv, TypeOK, Calls, Half
<1>1. ASSUME NEW f \in Calls, Finish(f) \/ Reset(f) \/ Stop(f) PROVE Between
  <2>1. Holds(f) /\ op[f] \in {"finish", "reset", "stop"}
    BY <1>1 DEF Finish, Reset, Stop, Runs
  <2>2. done[f] = 0
    BY <1>0, <2>1 DEF IInv, DoneOK
  <2>3. f \in SendCalls => \A c \in SendCalls : st[c] = "queued" => done[c] = 0
    BY <1>0, <2>1, <2>2, UniqueOwner DEF IInv, DoneOK, Holds
  <2>4. f \in RecvCalls => \A c \in RecvCalls : st[c] = "queued" => done[c] = 0
    BY <1>0, <2>1, <2>2, UniqueOwner DEF IInv, DoneOK, Holds
  <2>5. (f \in SendCalls => UNCHANGED rx) /\ (f \in RecvCalls => UNCHANGED tx)
    BY <1>1 DEF IInv, TypeOK, SendOps, RecvOps, Finish, Reset, Stop, Runs
  <2> QED BY <2>3, <2>4, <2>5 DEF Calls
<1>2. ASSUME NEW h \in {"send", "recv"}, Dispose(h) PROVE Between
  <2>1. \A c \in Calls : HalfName(c) = h => st[c] # "queued"
    BY <1>2 DEF Dispose, InFlight
  <2>2. (h = "send" => UNCHANGED rx) /\ (h = "recv" => UNCHANGED tx)
    BY <1>2 DEF Dispose
  <2>3. /\ h = "send" => \A c \in SendCalls : HalfName(c) = h
        /\ h = "recv" => \A c \in RecvCalls : HalfName(c) = h
    BY CallsAssumption DEF HalfName
  <2> QED BY <1>0, <2>1, <2>2, <2>3
<1>3. CASE UNCHANGED <<tx, rx>>
  BY <1>3
<1>4. \/ UNCHANGED <<tx, rx>>
      \/ \E f \in Calls : Finish(f) \/ Reset(f) \/ Stop(f)
      \/ \E h \in {"send", "recv"} : Dispose(h)
  BY DEF Next, Progress, Network, vars, Call, Cancel, SendBytes, Query, Stopped,
     StoppedResolves, Recv, ReadExact, ReadToEnd, Deliver, Signal, LoseConnection
<1> QED BY <1>1, <1>2, <1>3, <1>4

\* The action property follows from the invariant alone.
THEOREM HalvesCloseBetweenCalls == Spec => ClosesBetweenCalls
<1>1. ASSUME IInv, [Next]_vars
      PROVE  [/\ tx' # tx => \A c \in SendCalls : st[c] = "queued" => done[c] = 0
              /\ rx' # rx => \A c \in RecvCalls : st[c] = "queued" => done[c] = 0]_vars
  BY <1>1, BetweenCalls
<1> QED BY <1>1, IInvInit, IInvStep, PTL DEF Spec, ClosesBetweenCalls

-----------------------------------------------------------------------------
(* What the results of the calls say.                                      *)

\* A call that awaits `stopped` is such a call, and has left its mutex.
WaitingOK == \A c \in Calls : st[c] = "waiting" => op[c] = "stopped"

\* Nothing that has been signalled, lost, closed or stopped is taken back.
LEMMA Monotone ==
  ASSUME TypeOK, [Next]_vars
  PROVE  /\ seen \subseteq seen' /\ (lost => lost')
         /\ rx # "open" => rx' # "open"
         /\ tx # "open" => tx' # "open"
         /\ tx = "reset" => tx' = "reset"
<1>1. CASE Network
  BY <1>1 DEF Network, Deliver, Signal
<1>2. CASE LoseConnection
  BY <1>2 DEF LoseConnection
<1>3. CASE \E h \in {"send", "recv"} : Dispose(h)
  BY <1>3 DEF Dispose
<1>4. CASE \E c \in Calls : Finish(c) \/ Reset(c) \/ Stop(c)
  BY <1>4 DEF Finish, Reset, Stop, netVars
<1>5. CASE UNCHANGED <<seen, lost, tx, rx>>
  BY <1>5
<1> QED
  BY <1>1, <1>2, <1>3, <1>4, <1>5 DEF Next, Progress, vars, netVars, Call, Cancel, SendBytes,
     Query, Stopped, StoppedResolves, Recv, ReadExact, ReadToEnd

\* What a new result of a call means at the moment it is given.
NewResult(c) ==
  \/ st[c] = "new" /\ st'[c] = "err"
  \/ st[c] \in InFlight /\ st'[c] = "cancelled"
  \/ /\ op[c] = "send_bytes" /\ st[c] = "queued" /\ UNCHANGED <<done, wire>>
     /\ \/ st'[c] = "ok" /\ Written(c)
        \/ st'[c] = "err" /\ ~Writable
  \/ op[c] \in {"finish", "reset", "query", "stop"} /\ st[c] = "queued" /\ st'[c] \in {"ok", "err"}
  \/ st[c] = "waiting" /\ (st'[c] = "ok" => Acknowledged)
  \/ /\ op[c] \in {"recv", "read_exact", "read_to_end"} /\ st[c] = "queued"
     /\ st'[c] = "eos" \/ (op[c] = "read_to_end" /\ st'[c] = "ok")
        => (rx # "open" \/ AtEnd) /\ UNCHANGED <<wire, taken>>

LEMMA ResultStep ==
  ASSUME TypeOK, [Next]_vars, NEW c \in Calls, st'[c] \in Results, st'[c] # st[c]
  PROVE  NewResult(c) /\ (st[c] # "new" => op'[c] = op[c])
<1> DEFINE Goal == NewResult(c) /\ (st[c] # "new" => op'[c] = op[c])
<1>1. ASSUME NEW d \in Calls, NEW o, NEW n, Call(d, o, n) PROVE Goal
  <2>1. \/ st' = [st EXCEPT ![d] = "err"]
        \/ st' = [st EXCEPT ![d] = "queued"]
    BY <1>1 DEF Call
  <2>2. c = d /\ st'[c] = "err"
    BY <2>1 DEF TypeOK, Results
  <2> QED BY <1>1, <2>2 DEF Call, NewResult
<1>2. ASSUME NEW d \in Calls, NEW x, Return(d, x)
      PROVE  c = d /\ (st'[c] = x \/ st'[c] = "cancelled")
  BY <1>2 DEF Return, TypeOK
<1>3. ASSUME NEW d \in Calls, Cancel(d) PROVE Goal
  <2>1. c = d /\ st'[c] = "cancelled"
    BY <1>3 DEF Cancel, TypeOK
  <2> QED BY <1>3, <2>1 DEF Cancel, NewResult, callVars, InFlight
<1>4. ASSUME NEW d \in Calls, SendBytes(d) PROVE Goal
  BY <1>2, <1>4 DEF SendBytes, Runs, Holds, InFlight, NewResult, callVars
<1>5. ASSUME NEW d \in Calls, Finish(d) \/ Reset(d) \/ Query(d) \/ Stop(d) PROVE Goal
  BY <1>2, <1>5 DEF Finish, Reset, Query, Stop, Runs, Holds, InFlight, NewResult, callVars
<1>6. ASSUME NEW d \in Calls, Stopped(d) PROVE Goal
  BY <1>6 DEF Stopped, TypeOK, Results
<1>7. ASSUME NEW d \in Calls, StoppedResolves(d) PROVE Goal
  <2>1. c = d /\ st[c] = "waiting" /\ op' = op
    BY <1>2, <1>7 DEF StoppedResolves, callVars
  <2>2. st'[c] = "ok" => Acknowledged
    BY <1>2, <1>7, <2>1 DEF StoppedResolves
  <2> QED BY <2>1, <2>2 DEF NewResult
<1>8. ASSUME NEW d \in Calls, Recv(d) PROVE Goal
  <2>1. op[d] = "recv" /\ st[d] = "queued" /\ op' = op /\ wire' = wire
    BY <1>8 DEF Recv, Runs, Holds, callVars
  <2>2. c = d /\ (st'[c] = "eos" => (rx # "open" \/ AtEnd) /\ taken' = taken)
    BY <1>2, <1>8 DEF Recv, AfterStop
  <2> QED BY <2>1, <2>2 DEF NewResult
<1>9. ASSUME NEW d \in Calls, ReadExact(d) PROVE Goal
  <2>1. op[d] = "read_exact" /\ st[d] = "queued" /\ op' = op /\ wire' = wire
    BY <1>9 DEF ReadExact, Runs, Holds, callVars
  <2>2. c = d /\ st'[c] # "eos"
    BY <1>2, <1>9 DEF ReadExact, AfterStop
  <2> QED BY <2>1, <2>2 DEF NewResult
<1>10. ASSUME NEW d \in Calls, ReadToEnd(d) PROVE Goal
  <2>1. op[d] = "read_to_end" /\ st[d] = "queued" /\ op' = op /\ wire' = wire
    BY <1>10 DEF ReadToEnd, Runs, Holds, callVars
  <2>2. c = d /\ st'[c] # "eos" /\ (st'[c] = "ok" => (rx # "open" \/ AtEnd) /\ taken' = taken)
    BY <1>2, <1>10 DEF ReadToEnd, AfterStop
  <2> QED BY <2>1, <2>2 DEF NewResult
<1>11. ASSUME st' = st PROVE FALSE
  BY <1>11
<1> QED
  BY <1>1, <1>3, <1>4, <1>5, <1>6, <1>7, <1>8, <1>9, <1>10, <1>11
  DEF Next, Progress, Calls, vars, Network, Deliver, Signal, LoseConnection, Dispose

\* What a step does to a call that is not moving bytes.
LEMMA Settled ==
  ASSUME IInv, [Next]_vars, NEW c \in Calls
  PROVE  /\ st[c] # "queued" => done'[c] = done[c]
         /\ st[c] # "new" => op'[c] = op[c] /\ arg'[c] = arg[c]
         /\ st'[c] = "queued" /\ st[c] # "queued" => done'[c] = 0
         /\ st'[c] = "waiting" /\ st[c] # "waiting" => op'[c] = "stopped"
<1>0. TypeOK /\ DoneOK /\ done[c] \in Nat /\ Shape
  BY StepShape DEF IInv, TypeOK
<1>1. st[c] # "queued" => done'[c] = done[c]
  BY <1>0 DEF Shape, Idle, Starts, Ends, Writes, Reads, Holds, TypeOK
<1>2. st[c] # "new" => op'[c] = op[c] /\ arg'[c] = arg[c]
  BY <1>0 DEF Next, Progress, Network, vars, callVars, Call, Cancel, SendBytes, Finish, Reset,
     Query, Stopped, StoppedResolves, Recv, ReadExact, ReadToEnd, Stop, Deliver, Signal,
     LoseConnection, Dispose, TypeOK
<1>3. st'[c] = "queued" /\ st[c] # "queued" => st[c] = "new"
  BY <1>0 DEF Shape, Idle, Starts, Ends, Writes, Reads, Refused, Queues, Leaves, Results, TypeOK
<1>4. st[c] = "new" => done[c] = 0
  BY <1>0 DEF DoneOK
<1>5. ASSUME st'[c] = "waiting", st[c] # "waiting" PROVE op'[c] = "stopped"
  <2>1. ASSUME NEW d \in Calls, NEW x \in Results \cup {"queued"}, st' = [st EXCEPT ![d] = x]
        PROVE  FALSE
    BY <1>0, <1>5, <2>1 DEF TypeOK, Results
  <2>2. ASSUME NEW d \in Calls, NEW x \in Results, Return(d, x) PROVE FALSE
    BY <2>1, <2>2 DEF Return, Results
  <2>3. ASSUME st' = st PROVE FALSE
    BY <1>5, <2>3
  <2>4. ASSUME NEW d \in Calls, Stopped(d) PROVE op'[c] = "stopped"
    BY <1>0, <1>5, <2>4 DEF Stopped, Runs, callVars, TypeOK
  <2>5. ASSUME NEW d \in Calls, NEW o, NEW n, Call(d, o, n) PROVE FALSE
    BY <2>1, <2>5 DEF Call, Results
  <2>6. ASSUME NEW d \in Calls, Cancel(d) PROVE FALSE
    BY <2>1, <2>6 DEF Cancel, Results
  <2>7. ASSUME NEW d \in Calls,
               SendBytes(d) \/ Finish(d) \/ Reset(d) \/ Query(d) \/ StoppedResolves(d) \/ Stop(d)
        PROVE  FALSE
    BY <2>2, <2>3, <2>7 DEF SendBytes, Finish, Reset, Query, StoppedResolves, Stop, Results
  <2>8. ASSUME NEW d \in Calls, Recv(d) \/ ReadExact(d) \/ ReadToEnd(d) PROVE FALSE
    BY <2>2, <2>3, <2>8 DEF Recv, ReadExact, ReadToEnd, AfterStop, Results
  <2> QED
    BY <2>3, <2>4, <2>5, <2>6, <2>7, <2>8
    DEF Next, Progress, Calls, vars, Network, Deliver, Signal, LoseConnection, Dispose
<1> QED BY <1>1, <1>2, <1>3, <1>4, <1>5

\* A write that is under way is on a half that is open.
SendOpenOK == \A c \in SendCalls : st[c] = "queued" /\ done[c] > 0 => tx = "open"

\* What the signals that have arrived say of the half they come from.
SignalsOK ==
  /\ "fin" \in seen => tx # "open" /\ arrived = Len(wire)
  /\ "ack" \in seen => tx = "finished" /\ "fin" \in seen
  /\ "reset" \in seen => tx = "reset"

\* What the results handed out say: a write that returned Ok is complete, one
\* that failed half-way has an outside cause, None from stopped was answered by
\* the peer, and a reported end is the end.
ResultsOK ==
  /\ \A c \in SendCalls : op[c] = "send_bytes" /\ st[c] = "ok" => done[c] = arg[c]
  /\ TornWritesHaveACause
  /\ \A c \in SendCalls : op[c] = "stopped" /\ st[c] = "ok" => Acknowledged
  /\ \A r \in RecvCalls : ToldEnd(r) /\ rx = "open" => "fin" \in seen /\ Len(taken) = Len(wire)

RInv == IInv /\ WaitingOK /\ SendOpenOK /\ SignalsOK /\ ResultsOK

LEMMA RInvInit == Init => RInv
<1> SUFFICES ASSUME Init PROVE RInv
  OBVIOUS
<1>1. (\A c \in Calls : st[c] = "new" /\ done[c] = 0) /\ seen = {}
  BY DEF Init
<1> QED
  BY <1>1, IInvInit
  DEF RInv, WaitingOK, SendOpenOK, SignalsOK, ResultsOK, TornWritesHaveACause, ToldEnd, Calls

\* A call waits only in stopped.
LEMMA WaitingStep ==
  ASSUME IInv, WaitingOK, [Next]_vars
  PROVE  WaitingOK'
<1> SUFFICES ASSUME NEW c \in Calls, st'[c] = "waiting" PROVE op'[c] = "stopped"
  BY DEF WaitingOK
<1>1. CASE st[c] = "waiting"
  BY <1>1, Settled DEF WaitingOK
<1>2. CASE st[c] # "waiting"
  BY <1>2, Settled
<1> QED BY <1>1, <1>2

\* Closing the half comes between writes, so a write under way finds it open.
LEMMA SendOpenStep ==
  ASSUME IInv, SendOpenOK, [Next]_vars
  PROVE  SendOpenOK'
<1> SUFFICES ASSUME NEW c \in SendCalls, st'[c] = "queued", done'[c] > 0 PROVE tx' = "open"
  BY DEF SendOpenOK
<1>0. c \in Calls /\ done[c] \in Nat /\ TypeOK /\ Shape
  BY StepShape DEF Calls, IInv, TypeOK
<1>1. st[c] = "queued"
  BY <1>0, Settled
<1>2. CASE done[c] > 0
  BY <1>1, <1>2, BetweenCalls DEF SendOpenOK
<1>3. CASE ~(done[c] > 0)
  <2>1. done'[c] # done[c]
    BY <1>0, <1>3
  <2>2. \A d \in Calls, k \in Nat \ {0} : ~Reads(d, k)
    BY <1>0, <2>1, CallsAssumption DEF Reads, TypeOK
  <2>3. PICK d \in Calls : Writes(d)
    BY <1>0, <2>1, <2>2 DEF Shape, Idle, Starts, Ends
  <2> QED BY <2>3 DEF Writes
<1> QED BY <1>2, <1>3

\* The FIN is the last thing to arrive, and the library forgets a half that was
\* acknowledged.
LEMMA SignalsStep ==
  ASSUME IInv, SignalsOK, [Next]_vars
  PROVE  SignalsOK'
<1>0. TypeOK /\ Len(wire) \in Nat /\ arrived \in Nat
  BY LenProperties DEF IInv, TypeOK
<1>1. CASE Deliver
  BY <1>0, <1>1 DEF Deliver, SignalsOK
<1>2. CASE \E s \in Signals : Signal(s)
  BY <1>2 DEF Signal, Signals, SignalsOK
<1>3. CASE \E h \in {"send", "recv"} : Dispose(h)
  BY <1>3 DEF Dispose, SignalsOK
<1>4. ASSUME NEW c \in Calls, Finish(c) \/ Reset(c) PROVE SignalsOK'
  BY <1>4 DEF Finish, Reset, Closed, netVars, SignalsOK
<1>5. ASSUME NEW c \in Calls, SendBytes(c) PROVE SignalsOK'
  BY <1>5 DEF SendBytes, Writable, netVars, SignalsOK
<1>6. CASE UNCHANGED <<wire, arrived, tx, seen>>
  BY <1>6 DEF SignalsOK
<1> QED
  BY <1>1, <1>2, <1>3, <1>4, <1>5, <1>6 DEF Next, Progress, Network, Calls, vars, netVars, Call,
     Cancel, Query, Stopped, StoppedResolves, Recv, ReadExact, ReadToEnd, Stop, LoseConnection

\* A result that is new is right when it is given, and nothing later makes an
\* old one wrong.
LEMMA ResultsStep ==
  ASSUME RInv, [Next]_vars
  PROVE  ResultsOK'
<1>0. /\ IInv /\ TypeOK /\ TypeOK' /\ Shape /\ SignalsOK
      /\ SendCalls \subseteq Calls /\ RecvCalls \subseteq Calls
      /\ \A c \in Calls : done[c] \in Nat
  BY StepShape, TypeStep DEF RInv, IInv, TypeOK, Calls
<1>1. ASSUME NEW c \in SendCalls, op'[c] = "send_bytes", st'[c] = "ok" PROVE done'[c] = arg'[c]
  <2>1. CASE st[c] = "ok"
    BY <1>0, <1>1, <2>1, Settled DEF RInv, ResultsOK
  <2>2. CASE st[c] # "ok"
    <3>1. NewResult(c) /\ (st[c] # "new" => op'[c] = op[c])
      BY <1>0, <1>1, <2>2, ResultStep DEF Results
    <3>2. Written(c) /\ UNCHANGED done /\ st[c] = "queued"
      BY <1>0, <1>1, <3>1 DEF NewResult, RInv, WaitingOK
    <3> QED BY <1>0, <3>2, Settled DEF Written
  <2> QED BY <2>1, <2>2
<1>2. TornWritesHaveACause'
  <2> SUFFICES ASSUME NEW c \in SendCalls, op'[c] = "send_bytes", st'[c] = "err", done'[c] > 0
               PROVE  lost' \/ "stop" \in seen'
    BY DEF TornWritesHaveACause
  <2>1. CASE st[c] = "err"
    BY <1>0, <2>1, Settled, Monotone DEF RInv, ResultsOK, TornWritesHaveACause
  <2>2. CASE st[c] # "err"
    <3>1. NewResult(c) /\ (st[c] # "new" => op'[c] = op[c])
      BY <1>0, <2>2, ResultStep DEF Results
    <3>2. st[c] # "new"
      BY <1>0, Settled DEF IInv, DoneOK
    <3>3. ~Writable /\ UNCHANGED done /\ st[c] = "queued"
      BY <1>0, <3>1, <3>2 DEF NewResult, RInv, WaitingOK
    <3>4. tx = "open"
      BY <3>3 DEF RInv, SendOpenOK
    <3> QED BY <1>0, <3>3, <3>4, Monotone DEF Writable
  <2> QED BY <2>1, <2>2
<1>3. ASSUME NEW c \in SendCalls, op'[c] = "stopped", st'[c] = "ok" PROVE Acknowledged'
  <2>1. CASE st[c] = "ok"
    BY <1>0, <1>3, <2>1, Settled, Monotone DEF RInv, ResultsOK, Acknowledged
  <2>2. CASE st[c] # "ok"
    <3>1. NewResult(c) /\ (st[c] # "new" => op'[c] = op[c])
      BY <1>0, <1>3, <2>2, ResultStep DEF Results
    <3>2. Acknowledged
      BY <1>3, <3>1 DEF NewResult
    <3> QED BY <1>0, <3>2, Monotone DEF Acknowledged
  <2> QED BY <2>1, <2>2
<1>4. ASSUME NEW r \in RecvCalls, ToldEnd(r)', rx' = "open"
      PROVE  "fin" \in seen' /\ Len(taken') = Len(wire')
  <2>0. rx = "open"
    BY <1>0, <1>4, Monotone DEF TypeOK
  <2>1. CASE st[r] = st'[r]
    <3>1. "fin" \in seen /\ Len(taken) = Len(wire) /\ tx # "open"
      BY <1>0, <1>4, <2>0, <2>1, Settled DEF RInv, ResultsOK, ToldEnd, SignalsOK
    <3>2. wire' = wire
      BY <1>0, <3>1 DEF Shape, Idle, Starts, Ends, Writes, Reads
    <3>3. Len(taken') >= Len(taken)
      BY <1>0, LenProperties DEF Shape, Idle, Starts, Ends, Writes, Reads, Extends, TypeOK
    <3>4. Len(taken') <= Len(wire') /\ Len(taken') \in Nat /\ Len(wire') \in Nat
      BY <1>0, LenProperties DEF TypeOK
    <3> QED BY <1>0, <3>1, <3>2, <3>3, <3>4, Monotone
  <2>2. CASE st[r] # st'[r]
    <3>1. NewResult(r) /\ (st[r] # "new" => op'[r] = op[r])
      BY <1>0, <1>4, <2>2, ResultStep DEF Results, ToldEnd
    <3>2. op[r] # "send_bytes" /\ st[r] # "waiting"
      BY <1>0 DEF RInv, WaitingOK, TypeOK, RecvOps
    <3>3. AtEnd /\ UNCHANGED <<wire, taken>>
      BY <1>4, <2>0, <3>1, <3>2 DEF NewResult, ToldEnd
    <3>4. "fin" \in seen /\ Len(taken) = arrived /\ arrived = Len(wire)
      BY <1>0, <3>3, LenProperties DEF AtEnd, Available, SignalsOK, TypeOK
    <3> QED BY <1>0, <3>3, <3>4, Monotone
  <2> QED BY <2>1, <2>2
<1> QED BY <1>1, <1>2, <1>3, <1>4 DEF ResultsOK

LEMMA RInvStep == RInv /\ [Next]_vars => RInv'
BY IInvStep, WaitingStep, SendOpenStep, SignalsStep, ResultsStep DEF RInv

\* A send_bytes that fails half-way fails because of the peer or of the
\* connection, however finish, reset and other writes are interleaved with it.
THEOREM TornWritesAreExplained == Spec => []TornWritesHaveACause
<1>1. RInv => TornWritesHaveACause
  BY DEF RInv, ResultsOK
<1> QED BY <1>1, RInvInit, RInvStep, PTL DEF Spec

\* None from stopped means that the peer has everything that was written.
THEOREM StoppedNoneIsDelivery == Spec => []StoppedNoneMeansDelivered
<1>1. RInv => StoppedNoneMeansDelivered
  BY DEF RInv, ResultsOK, SignalsOK, Acknowledged, StoppedNoneMeansDelivered
<1> QED BY <1>1, RInvInit, RInvStep, PTL DEF Spec

\* Every byte a send_bytes has written is on the wire once.
CountOK == \A c \in SendCalls : BytesOf(c, Len(wire)) = done[c]

LEMMA CountInit == Init => CountOK
<1> SUFFICES ASSUME Init, NEW c \in SendCalls PROVE BytesOf(c, Len(wire)) = done[c]
  BY DEF CountOK
<1>1. Len(wire) = 0 /\ done[c] = 0
  BY EmptySeq DEF Init, Calls
<1>2. {i \in 1..Len(wire) : wire[i] = c} = {}
  BY <1>1
<1> QED BY <1>1, <1>2, FS_EmptySet DEF BytesOf

\* Only a write adds to the wire, and it adds one byte of its own.
LEMMA CountStep ==
  ASSUME IInv, CountOK, [Next]_vars
  PROVE  CountOK'
<1>0. TypeOK /\ Shape /\ Len(wire) \in Nat /\ SendCalls \subseteq Calls
  BY StepShape, LenProperties DEF IInv, TypeOK, Calls
<1>1. ASSUME wire' = wire, \A c \in SendCalls : done'[c] = done[c] PROVE CountOK'
  BY <1>1 DEF CountOK, BytesOf
<1>2. ASSUME NEW d \in Calls, Writes(d) PROVE CountOK'
  <2> SUFFICES ASSUME NEW c \in SendCalls PROVE BytesOf(c, Len(wire))' = done'[c]
    BY DEF CountOK
  <2> DEFINE old == {i \in 1..Len(wire) : wire[i] = c}
             new == {i \in 1..Len(wire') : wire'[i] = c}
  <2>1. /\ d \in SendCalls /\ Len(wire') = Len(wire) + 1
        /\ \A i \in 1..Len(wire) : wire'[i] = wire[i]
        /\ wire'[Len(wire) + 1] = d
    BY <1>0, <1>2 DEF Writes, Extends
  <2>2. IsFiniteSet(old) /\ Cardinality(old) = done[c]
    <3>1. IsFiniteSet(1..Len(wire))
      BY <1>0, FS_Interval
    <3>2. IsFiniteSet(old)
      BY <3>1, FS_Subset
    <3> QED BY <3>2 DEF CountOK, BytesOf
  <2>3. CASE c = d
    <3>1. new = old \cup {Len(wire) + 1} /\ Len(wire) + 1 \notin old
      BY <1>0, <2>1, <2>3
    <3>2. Cardinality(new) = Cardinality(old) + 1
      BY <2>2, <3>1, FS_AddElement
    <3>3. done'[c] = done[c] + 1
      BY <1>0, <1>2, <2>3 DEF Writes, TypeOK
    <3> QED BY <2>2, <3>2, <3>3 DEF BytesOf
  <2>4. CASE c # d
    <3>1. new = old
      BY <1>0, <2>1, <2>4
    <3>2. done'[c] = done[c]
      BY <1>0, <1>2, <2>4 DEF Writes, TypeOK
    <3> QED BY <2>2, <3>1, <3>2 DEF BytesOf
  <2> QED BY <2>3, <2>4
<1>3. ASSUME NEW d \in Calls, NEW k \in Nat \ {0}, Reads(d, k) PROVE CountOK'
  <2>1. \A c \in SendCalls : done'[c] = done[c]
    BY <1>0, <1>3, CallsAssumption DEF Reads, TypeOK
  <2> QED BY <1>1, <1>3, <2>1 DEF Reads
<1> QED BY <1>0, <1>1, <1>2, <1>3 DEF Shape, Idle, Starts, Ends

\* A reader that is told the stream is over has been given every byte of every
\* send_bytes that returned Ok, for any number of writers and of readers.
THEOREM EndIsEverything == Spec => []EndMeansEverything
<1>1. RInv /\ CountOK => EndMeansEverything
  BY DEF RInv, ResultsOK, CountOK, EndMeansEverything
<1>2. RInv /\ CountOK /\ [Next]_vars => CountOK'
  BY CountStep DEF RInv
<1> QED BY <1>1, <1>2, RInvInit, RInvStep, CountInit, PTL DEF Spec

\* A recv that fails is a recv whose turn it was, on a half that was reset,
\* stopped, read without order, or lost before its end.
LEMMA RecvError ==
  ASSUME TypeOK, [Next]_vars, NEW r \in Calls, op[r] = "recv", st[r] = "queued", st'[r] = "err"
  PROVE  ReadFails \/ MaybeUnordered \/ rx = "stopped"
<1>1. ASSUME NEW d \in Calls, NEW x, Return(d, x) PROVE r = d /\ x = "err"
  BY <1>1 DEF Return, TypeOK
<1>2. ASSUME NEW d \in Calls, Recv(d) PROVE ReadFails \/ MaybeUnordered \/ rx = "stopped"
  BY <1>1, <1>2 DEF Recv, AfterStop
<1>3. ASSUME NEW d \in Calls, NEW o, NEW n, Call(d, o, n) PROVE FALSE
  BY <1>3 DEF Call, TypeOK
<1>4. ASSUME NEW d \in Calls, Cancel(d) \/ Stopped(d) PROVE FALSE
  BY <1>4 DEF Cancel, Stopped, TypeOK
<1>5. ASSUME NEW d \in Calls,
             SendBytes(d) \/ Finish(d) \/ Reset(d) \/ Query(d) \/ StoppedResolves(d) \/ Stop(d)
      PROVE  FALSE
  BY <1>1, <1>5 DEF SendBytes, Finish, Reset, Query, StoppedResolves, Stop, Runs
<1>6. ASSUME NEW d \in Calls, ReadExact(d) \/ ReadToEnd(d) PROVE FALSE
  BY <1>1, <1>6 DEF ReadExact, ReadToEnd, AfterStop, Runs
<1>7. ASSUME st' = st PROVE FALSE
  BY <1>7
<1> QED
  BY <1>2, <1>3, <1>4, <1>5, <1>6, <1>7
  DEF Next, Progress, Calls, vars, Network, Deliver, Signal, LoseConnection, Dispose

\* What stopped has confirmed can be read to its end, whatever becomes of the
\* connection: no step fails a recv of it.
THEOREM ConfirmedIsReadable == Spec => AcknowledgedIsReadable
<1>1. ASSUME RInv, [Next]_vars
      PROVE  [\A c \in SendCalls, r \in RecvCalls :
                /\ op[c] = "stopped" /\ st[c] = "ok" /\ tx # "reset" /\ rx = "open"
                /\ op[r] = "recv" /\ st[r] = "queued" /\ ~MaybeUnordered
                => st'[r] # "err"]_vars
  <2> SUFFICES ASSUME NEW c \in SendCalls, NEW r \in RecvCalls,
                      op[c] = "stopped", st[c] = "ok", tx # "reset", rx = "open",
                      op[r] = "recv", st[r] = "queued", ~MaybeUnordered, st'[r] = "err"
               PROVE  FALSE
    OBVIOUS
  <2>1. ReadFails
    BY <1>1, RecvError DEF RInv, IInv, Calls
  <2>2. "fin" \in seen /\ "reset" \notin seen
    BY <1>1 DEF RInv, ResultsOK, SignalsOK, Acknowledged
  <2> QED BY <2>1, <2>2 DEF ReadFails
<1> QED BY <1>1, RInvInit, RInvStep, PTL DEF Spec, AcknowledgedIsReadable

-----------------------------------------------------------------------------
(* Nobody waits for a mutex that nobody has.                               *)

\* While calls are queued for the mutex of a half, one of them owns it.
MutexHasOwner == \A c \in Calls : st[c] = "queued" => \E d \in Half(c) : Holds(d)

\* The strengthening: who is ahead of a call that is ahead of c is ahead of c, and
\* finitely many calls are queued.
LineOK ==
  /\ \A c \in Calls : \A d \in ahead[c] : ahead[d] \subseteq ahead[c]
  /\ IsFiniteSet({c \in Calls : st[c] = "queued"})

\* A finite line has a first.
LEMMA FirstInLine ==
  ASSUME NEW Q, IsFiniteSet(Q), Q # {}, NEW f \in [Q -> SUBSET Q],
         \A c \in Q : c \notin f[c],
         \A c \in Q : \A d \in f[c] : f[d] \subseteq f[c]
  PROVE  \E c \in Q : f[c] = {}
<1> DEFINE T == {f[c] : c \in Q}
<1>1. T \subseteq FiniteSubsetsOf(Q) /\ T # {}
  BY FS_Subset DEF FiniteSubsetsOf
<1>2. IsWellFoundedOn(StrictSubsetOrdering(Q), FiniteSubsetsOf(Q))
  BY FS_StrictSubsetOrderingWellFounded
<1>3. PICK x \in T : \A y \in T : ~(<<y, x>> \in StrictSubsetOrdering(Q))
  <2> HIDE DEF T
  <2> QED BY <1>1, <1>2, WFMin
<1>4. PICK c \in Q : x = f[c]
  BY <1>3
<1>5. ASSUME NEW d \in f[c] PROVE FALSE
  <2>1. d \in Q /\ f[d] \subseteq f[c] /\ f[d] # f[c] /\ f[d] \in T
    BY <1>5
  <2>2. <<f[d], f[c]>> \in StrictSubsetOrdering(Q)
    BY <2>1 DEF StrictSubsetOrdering
  <2> QED BY <1>3, <1>4, <2>1, <2>2
<1> QED BY <1>5

LEMMA LineInit == Init => LineOK
<1> SUFFICES ASSUME Init PROVE LineOK
  OBVIOUS
<1>1. {c \in Calls : st[c] = "queued"} = {} /\ \A c \in Calls : ahead[c] = {}
  BY DEF Init
<1> QED BY <1>1, FS_EmptySet DEF LineOK

\* A call joins the line at its end; one that leaves it, from whatever place, is
\* ahead of nobody any more.
LEMMA LineStep ==
  ASSUME IInv, LineOK, [Next]_vars
  PROVE  LineOK'
<1> DEFINE line == {c \in Calls : st[c] = "queued"}
<1>0. /\ TypeOK /\ QueueOK /\ Shape
      /\ \A c \in Calls : ahead[c] \subseteq Calls
      /\ \A c \in Calls : Half(c) \subseteq Calls
  BY StepShape DEF IInv, TypeOK, Half, Calls
<1>1. CASE UNCHANGED <<st, ahead>>
  BY <1>1 DEF LineOK
<1>2. ASSUME NEW c \in Calls, Leaves(c) PROVE LineOK'
  <2>1. /\ \A d \in Calls : ahead'[d] = ahead[d] \ {c}
        /\ \A d \in Calls : st'[d] = "queued" => st[d] = "queued"
    BY <1>0, <1>2 DEF Leaves, Unlock, Results, TypeOK
  <2>2. line' \subseteq line
    BY <2>1
  <2>3. IsFiniteSet(line')
    BY <2>2, FS_Subset DEF LineOK
  <2> QED BY <1>0, <2>1, <2>3 DEF LineOK
<1>3. ASSUME NEW c \in Calls, Refused(c) PROVE LineOK'
  <2>1. line' = line /\ ahead' = ahead
    BY <1>0, <1>3 DEF Refused, TypeOK
  <2> QED BY <2>1 DEF LineOK
<1>4. ASSUME NEW c \in Calls, Queues(c) PROVE LineOK'
  <2>1. /\ st[c] = "new"
        /\ ahead'[c] = {d \in Half(c) : st[d] = "queued"}
        /\ \A d \in Calls \ {c} : ahead'[d] = ahead[d]
    BY <1>0, <1>4 DEF Queues, TypeOK
  <2>2. line' = line \cup {c}
    BY <1>0, <1>4 DEF Queues, TypeOK
  <2>3. IsFiniteSet(line')
    BY <2>2, FS_AddElement DEF LineOK
  <2>4. ASSUME NEW d \in Calls, NEW e \in ahead'[d] PROVE ahead'[e] \subseteq ahead'[d]
    <3>1. CASE d = c
      <4>1. e \in Half(c) /\ st[e] = "queued" /\ e \in Calls \ {c} /\ Half(e) = Half(c)
        BY <1>0, <2>1, <2>4, <3>1, CallsAssumption DEF Half, Calls
      <4>2. ahead[e] \subseteq {x \in Half(c) : st[x] = "queued"}
        BY <4>1 DEF IInv, QueueOK
      <4> QED BY <2>1, <3>1, <4>1, <4>2
    <3>2. CASE d # c
      <4>1. e \in ahead[d] /\ e \in Calls \ {c}
        BY <1>0, <2>1, <2>4, <3>2 DEF QueueOK
      <4> QED BY <2>1, <3>2, <4>1 DEF LineOK
    <3> QED BY <3>1, <3>2
  <2> QED BY <2>3, <2>4 DEF LineOK
<1> QED
  BY <1>0, <1>1, <1>2, <1>3, <1>4 DEF Shape, Idle, Starts, Ends, Writes, Reads

\* However calls queue for a mutex, are cancelled while they wait for it or while
\* they have it, and return, the mutex goes on to somebody who waits.
THEOREM MutexIsPassedOn == Spec => []MutexHasOwner
<1>1. ASSUME IInv, LineOK PROVE MutexHasOwner
  <2> SUFFICES ASSUME NEW c \in Calls, st[c] = "queued" PROVE \E d \in Half(c) : Holds(d)
    BY DEF MutexHasOwner
  <2> DEFINE Q == {d \in Half(c) : st[d] = "queued"}
             f == [d \in Q |-> ahead[d]]
  <2>1. Half(c) \subseteq Calls /\ c \in Half(c) /\ \A d \in Half(c) : Half(d) = Half(c)
    BY CallsAssumption DEF Half, Calls
  <2>2. \A d \in Q : ahead[d] \subseteq Q \ {d}
    BY <1>1, <2>1 DEF IInv, QueueOK
  <2>3. IsFiniteSet(Q)
    <3>1. Q \subseteq {d \in Calls : st[d] = "queued"}
      BY <2>1
    <3> QED BY <1>1, <3>1, FS_Subset DEF LineOK
  <2>4. /\ Q # {} /\ f \in [Q -> SUBSET Q]
        /\ \A d \in Q : d \notin f[d]
        /\ \A d \in Q : \A e \in f[d] : f[e] \subseteq f[d]
    BY <1>1, <2>1, <2>2 DEF LineOK
  <2>5. PICK d \in Q : f[d] = {}
    <3> HIDE DEF Q, f
    <3> QED BY <2>3, <2>4, FirstInLine
  <2> QED BY <2>5 DEF Holds
<1> QED BY <1>1, IInvInit, IInvStep, LineInit, LineStep, PTL DEF Spec

=============================================================================
