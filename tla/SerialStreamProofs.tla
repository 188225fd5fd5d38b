------------------------- MODULE SerialStreamProofs -------------------------
(***************************************************************************)
(* IrohStream implements SerialStream, for any number of calls, any        *)
(* lengths, any window and any assignment of calls to threads: every step  *)
(* of the calls, of their mutexes and of the network is a step in which    *)
(* calls take turns, or changes nothing that SerialStream shows.           *)
(***************************************************************************)
EXTENDS IrohStreamProofs

-----------------------------------------------------------------------------
(* The outcomes of the calls.                                              *)

\* What SerialStream shows of the results.
Shown == [c \in Calls |-> Outcome(c)]

\* A call whose state does not change shows what it showed.
LEMMA OutcomeKept ==
  ASSUME IInv, [Next]_vars, NEW c \in Calls, st'[c] = st[c]
  PROVE  Outcome(c)' = Outcome(c)
<1>1. st[c] # "new" => op'[c] = op[c]
  BY Settled
<1> QED BY <1>1 DEF Outcome, ToldEnd

\* A step of one call changes what that call shows and nothing else.
LEMMA ShownStep ==
  ASSUME IInv, [Next]_vars, NEW c \in Calls, \A d \in Calls \ {c} : st'[d] = st[d]
  PROVE  Shown' = [Shown EXCEPT ![c] = Outcome(c)']
<1>1. \A d \in Calls \ {c} : Outcome(d)' = Outcome(d)
  BY OutcomeKept
<1> QED BY <1>1 DEF Shown

\* A step of no call changes nothing.
LEMMA ShownKept ==
  ASSUME IInv, [Next]_vars, st' = st
  PROVE  Shown' = Shown
<1>1. \A d \in Calls : Outcome(d)' = Outcome(d)
  BY OutcomeKept
<1> QED BY <1>1 DEF Shown

\* A call in flight that is given a result goes from "busy" to what the result
\* tells.
LEMMA ReturnShows ==
  ASSUME IInv, [Next]_vars, NEW c \in Calls, NEW x \in Results,
         st[c] \in InFlight, Return(c, x), op' = op
  PROVE  /\ Shown[c] = "busy"
         /\ \/ Shown' = [Shown EXCEPT ![c] = "done"]
            \/ /\ x = "eos" \/ (x = "ok" /\ op[c] = "read_to_end")
               /\ Shown' = [Shown EXCEPT ![c] = "end"]
            \/ /\ x = "ok" /\ op[c] = "stopped"
               /\ Shown' = [Shown EXCEPT ![c] = "sure"]
<1>1. \E y \in {x, "cancelled"} : st' = [st EXCEPT ![c] = y]
  BY DEF Return
<1>2. PICK y \in {x, "cancelled"} : st'[c] = y /\ \A d \in Calls \ {c} : st'[d] = st[d]
  BY <1>1 DEF IInv, TypeOK
<1>3. Shown[c] = "busy"
  BY DEF Shown, Outcome
<1>4. \/ Outcome(c)' = "done"
      \/ (x = "eos" \/ (x = "ok" /\ op[c] = "read_to_end")) /\ Outcome(c)' = "end"
      \/ (x = "ok" /\ op[c] = "stopped") /\ Outcome(c)' = "sure"
  BY <1>2 DEF Outcome, ToldEnd, Results, InFlight
<1>5. Shown' = [Shown EXCEPT ![c] = Outcome(c)']
  BY <1>2, ShownStep
<1> QED BY <1>3, <1>4, <1>5

\* A result that says nothing about the end of the stream.
LEMMA PlainReturn ==
  ASSUME IInv, [Next]_vars, NEW c \in Calls, NEW x \in Results,
         st[c] \in InFlight, Return(c, x), op' = op,
         x # "eos", x = "ok" => op[c] \notin {"read_to_end", "stopped"}
  PROVE  Serial!Returns(c, "done")
BY ReturnShows DEF Serial!Returns, Shown

-----------------------------------------------------------------------------
(* Whose turn it is.                                                       *)

\* The call that moved the last byte of q is in C and, unless it has returned,
\* owns the mutex.
LEMMA LastMover ==
  ASSUME RInv, NEW C \in {SendCalls, RecvCalls}, NEW q \in Seq(C), BytesOK(q, C), q # <<>>
  PROVE  LET d == q[Len(q)] IN
         /\ d \in C /\ done[d] > 0
         /\ Outcome(d) = "busy" => Holds(d)
<1> DEFINE d == q[Len(q)]
<1>1. Len(q) \in 1..Len(q)
  BY EmptySeq, LenProperties
<1>2. d \in C /\ d \in Calls /\ done[d] > 0
  BY <1>1, ElementOfSeq DEF BytesOK, Calls
<1>3. st[d] # "new" /\ st[d] # "waiting" /\ (st[d] = "queued" => ahead[d] = {})
  BY <1>2 DEF RInv, IInv, DoneOK, WaitingOK
<1>4. Outcome(d) = "busy" => st[d] = "queued"
  BY <1>3 DEF Outcome, InFlight
<1> QED BY <1>2, <1>3, <1>4 DEF Holds

\* While nobody is in the middle of moving bytes, no run is unfinished.
LEMMA NoRun ==
  ASSUME RInv, NEW C \in {SendCalls, RecvCalls}, NEW q \in Seq(C), BytesOK(q, C),
         \A c \in C : st[c] = "queued" => done[c] = 0
  PROVE  Serial!BetweenRuns(q)
<1> SUFFICES ASSUME q # <<>> PROVE Shown[q[Len(q)]] # "busy"
  BY DEF Serial!BetweenRuns, Shown
<1>1. PICK d \in C : d = q[Len(q)] /\ done[d] > 0 /\ (Outcome(d) = "busy" => Holds(d))
  BY LastMover
<1>2. d \in Calls /\ st[d] # "queued"
  BY <1>1 DEF Calls
<1> QED BY <1>1, <1>2 DEF Shown, Holds

\* It is the turn of the call that owns the mutex.
LEMMA OwnersTurn ==
  ASSUME RInv, NEW C \in {SendCalls, RecvCalls}, NEW q \in Seq(C), BytesOK(q, C),
         NEW c \in C, Holds(c)
  PROVE  Serial!Turn(q, c)
<1> SUFFICES ASSUME q # <<>>, q[Len(q)] # c PROVE Shown[q[Len(q)]] # "busy"
  BY DEF Serial!Turn, Serial!BetweenRuns, Shown
<1>1. PICK d \in C : d = q[Len(q)] /\ (Outcome(d) = "busy" => Holds(d))
  BY LastMover
<1>2. c \in Calls /\ d \in Calls /\ Half(c) = C
  BY CallsAssumption DEF Calls, Half
<1>3. ~Holds(d)
  BY <1>1, <1>2, UniqueOwner DEF RInv, IInv
<1> QED BY <1>1, <1>2, <1>3 DEF Shown

-----------------------------------------------------------------------------
(* Every step is a step of SerialStream.                                   *)

\* The initial states of a stream are those of SerialStream.
LEMMA SerialInit == Init => Serial!Init
<1> SUFFICES ASSUME Init PROVE Serial!Init
  OBVIOUS
<1>1. \A c \in Calls : Outcome(c) = "busy"
  BY DEF Init, Outcome
<1>2. Shown = [c \in SendCalls \cup RecvCalls |-> "busy"]
  BY <1>1 DEF Shown, Calls
<1> QED BY <1>2 DEF Init, Serial!Init, Shown

\* A call is refused at once, or queues, which shows nothing.
LEMMA CallSerial ==
  ASSUME RInv, [Next]_vars, NEW c \in Calls, NEW o, NEW n, Call(c, o, n)
  PROVE  [Serial!Next]_(Serial!vars)
<1>1. IInv /\ TypeOK /\ st[c] = "new" /\ Shown[c] = "busy"
  BY DEF RInv, IInv, Call, Shown, Outcome
<1>2. UNCHANGED <<wire, taken, tx, rx>>
  BY DEF Call
<1>3. CASE st' = [st EXCEPT ![c] = "err"]
  <2>1. st'[c] = "err" /\ \A d \in Calls \ {c} : st'[d] = st[d]
    BY <1>1, <1>3 DEF TypeOK
  <2>2. Outcome(c)' = "done"
    BY <2>1 DEF Outcome, ToldEnd, InFlight
  <2>3. Shown' = [Shown EXCEPT ![c] = "done"]
    BY <1>1, <2>1, <2>2, ShownStep
  <2>4. Serial!Finishes(c)
    BY <1>1, <1>2, <2>3 DEF Serial!Finishes, Serial!Returns, Shown
  <2> QED BY <2>4 DEF Serial!Next, Calls
<1>4. CASE st' = [st EXCEPT ![c] = "queued"]
  <2>1. st'[c] = "queued" /\ \A d \in Calls \ {c} : st'[d] = st[d]
    BY <1>1, <1>4 DEF TypeOK
  <2>2. Outcome(c)' = "busy"
    BY <2>1 DEF Outcome, InFlight
  <2>3. Shown' = [Shown EXCEPT ![c] = Shown[c]]
    BY <1>1, <2>1, <2>2, ShownStep
  <2>4. Shown' = Shown
    BY <2>3 DEF Shown
  <2> QED BY <1>2, <2>4 DEF Serial!vars, Shown
<1> QED BY <1>3, <1>4 DEF Call

\* A step that shows the end of a call and nothing else.
LEMMA PlainSerial ==
  ASSUME RInv, [Next]_vars, NEW c \in Calls, NEW x \in Results,
         st[c] \in InFlight, Return(c, x), UNCHANGED <<op, wire, taken, tx, rx>>,
         x # "eos", x = "ok" => op[c] \notin {"read_to_end", "stopped"}
  PROVE  Serial!Next
<1>1. Serial!Finishes(c)
  BY PlainReturn DEF RInv, Serial!Finishes
<1> QED BY <1>1 DEF Serial!Next, Calls

\* A step that shows nothing.
LEMMA QuietSerial ==
  ASSUME RInv, [Next]_vars, UNCHANGED <<st, wire, taken, tx, rx>>
  PROVE  UNCHANGED Serial!vars
BY ShownKept DEF RInv, Serial!vars, Shown

\* A cancelled call returns.
LEMMA CancelSerial ==
  ASSUME RInv, [Next]_vars, NEW c \in Calls, Cancel(c)
  PROVE  Serial!Next
BY PlainSerial DEF Cancel, Return, callVars, Results

\* A write is a Push by the call whose turn it is.
LEMMA SendBytesSerial ==
  ASSUME RInv, [Next]_vars, NEW c \in Calls, SendBytes(c)
  PROVE  Serial!Next
<1>1. /\ c \in SendCalls /\ Holds(c) /\ op[c] = "send_bytes" /\ st[c] \in InFlight
      /\ UNCHANGED <<op, taken, tx, rx>>
  BY DEF SendBytes, Runs, Holds, RInv, IInv, TypeOK, Calls, RecvOps, callVars, InFlight
<1>2. CASE (Return(c, "ok") \/ Return(c, "err")) /\ UNCHANGED wire
  BY <1>1, <1>2, PlainSerial DEF Results
<1>3. CASE Writable /\ wire' = Append(wire, c) /\ UNCHANGED st
  <2>1. Serial!Turn(wire, c)
    BY <1>1, OwnersTurn DEF RInv, IInv, TypeOK
  <2>2. Shown' = Shown /\ Shown[c] = "busy"
    BY <1>1, <1>3, ShownKept DEF RInv, Shown, Outcome
  <2>3. Serial!Push(c)
    BY <1>1, <1>3, <2>1, <2>2 DEF Serial!Push, Writable, Shown
  <2> QED BY <1>1, <2>3 DEF Serial!Next
<1> QED BY <1>2, <1>3 DEF SendBytes

\* finish and reset close the stream between two runs, and never one that the
\* peer is known to have.
LEMMA CloseSerial ==
  ASSUME RInv, [Next]_vars, NEW c \in Calls, Finish(c) \/ Reset(c)
  PROVE  Serial!Next
<1>1. /\ c \in SendCalls /\ op[c] \in {"finish", "reset"} /\ st[c] \in InFlight
      /\ UNCHANGED <<op, wire, taken, rx>>
  BY DEF Finish, Reset, Runs, Holds, RInv, IInv, TypeOK, Calls, RecvOps, callVars, InFlight
<1>2. CASE (Return(c, "err") \/ Return(c, "ok")) /\ UNCHANGED tx
  BY <1>1, <1>2, PlainSerial DEF Results
<1>3. CASE /\ Return(c, "ok") /\ tx' # tx
           /\ \/ tx = "open" /\ tx' = "finished"
              \/ ~Closed /\ tx' = "reset"
  <2>1. Serial!BetweenRuns(wire)
    BY <1>3, BetweenCalls, NoRun DEF RInv, IInv, TypeOK
  <2>2. Serial!Returns(c, "done")
    BY <1>1, <1>3, PlainReturn DEF RInv, Results
  <2>3. ASSUME ~Closed, NEW w \in SendCalls PROVE Shown[w] # "sure"
    <3>1. ~(op[w] = "stopped" /\ st[w] = "ok")
      BY <2>3 DEF RInv, ResultsOK, Acknowledged, SignalsOK, Closed
    <3> QED BY <3>1 DEF Shown, Outcome, Calls
  <2>4. /\ tx \in {"open", "finished"}
        /\ tx' \in {"finished", "reset"}
        /\ tx = "finished" => tx' = "reset" /\ ~Closed
    BY <1>3 DEF Closed, RInv, IInv, TypeOK
  <2>5. Serial!Close(tx')
    BY <1>1, <2>1, <2>2, <2>3, <2>4 DEF Serial!Close, Shown
  <2> QED BY <2>4, <2>5 DEF Serial!Next
<1> QED BY <1>2, <1>3 DEF Finish, Reset, Closed

\* Accessors return.
LEMMA QuerySerial ==
  ASSUME RInv, [Next]_vars, NEW c \in Calls, Query(c)
  PROVE  Serial!Next
<1>1. op[c] = "query" /\ st[c] \in InFlight /\ UNCHANGED <<op, wire, taken, tx, rx>>
  BY DEF Query, Runs, Holds, callVars, InFlight
<1> QED BY <1>1, PlainSerial DEF Query, Results

\* Going to wait for the peer shows nothing.
LEMMA StoppedSerial ==
  ASSUME RInv, [Next]_vars, NEW c \in Calls, Stopped(c)
  PROVE  UNCHANGED Serial!vars
<1>1. /\ st[c] = "queued" /\ st'[c] = "waiting" /\ \A d \in Calls \ {c} : st'[d] = st[d]
      /\ UNCHANGED <<wire, taken, tx, rx>>
  BY DEF Stopped, Runs, Holds, RInv, IInv, TypeOK
<1>2. Outcome(c)' = "busy" /\ Outcome(c) = "busy"
  BY <1>1 DEF Outcome, InFlight
<1>3. Shown' = [Shown EXCEPT ![c] = Outcome(c)']
  BY <1>1, ShownStep DEF RInv
<1>4. Shown' = Shown
  BY <1>2, <1>3 DEF Shown
<1> QED BY <1>1, <1>4 DEF Serial!vars, Shown

\* None from stopped is a Confirm: what was acknowledged had been closed.
LEMMA StoppedResolvesSerial ==
  ASSUME RInv, [Next]_vars, NEW c \in Calls, StoppedResolves(c)
  PROVE  Serial!Next
<1>1. /\ op[c] = "stopped" /\ c \in SendCalls /\ st[c] \in InFlight
      /\ UNCHANGED <<op, wire, taken, tx, rx>>
  BY DEF StoppedResolves, RInv, WaitingOK, IInv, TypeOK, Calls, RecvOps, callVars, InFlight
<1>2. CASE Return(c, "code") \/ Return(c, "err")
  BY <1>1, <1>2, PlainSerial DEF Results
<1>3. CASE Acknowledged /\ Return(c, "ok")
  <2>1. tx # "open"
    BY <1>3 DEF Acknowledged, RInv, SignalsOK
  <2>2. /\ Shown[c] = "busy"
        /\ \/ Shown' = [Shown EXCEPT ![c] = "done"]
           \/ Shown' = [Shown EXCEPT ![c] = "sure"]
    BY <1>1, <1>3, ReturnShows DEF RInv, Results
  <2>3. Serial!Finishes(c) \/ Serial!Confirm(c)
    BY <1>1, <2>1, <2>2 DEF Serial!Finishes, Serial!Confirm, Serial!Returns, Shown
  <2> QED BY <1>1, <2>3 DEF Serial!Next
<1> QED BY <1>2, <1>3 DEF StoppedResolves

-----------------------------------------------------------------------------
(* The receive half.                                                       *)

\* Reading bytes, with or without the return of the call, is a Pull.
LEMMA TakeSerial ==
  ASSUME RInv, [Next]_vars, NEW c \in RecvCalls, Holds(c), NEW k, Take(c, k),
         UNCHANGED <<op, wire, tx, rx>>,
         \/ UNCHANGED st
         \/ \E x \in {"ok", "err"} : Return(c, x) /\ (x = "ok" => op[c] = "recv")
  PROVE  Serial!Next
<1>1. c \in Calls /\ st[c] \in InFlight /\ Shown[c] = "busy"
  BY DEF Calls, Holds, InFlight, Shown, Outcome
<1>2. rx # "stopped" /\ k \in 1..(Len(wire) - Len(taken)) /\ taken' = taken \o [i \in 1..k |-> c]
  <2>1. Len(wire) \in Nat /\ Len(taken) \in Nat /\ arrived \in 0..Len(wire)
    BY LenProperties DEF RInv, IInv, TypeOK
  <2> QED BY <2>1 DEF Take, Readable, Available
<1>3. Serial!Turn(taken, c)
  BY OwnersTurn DEF RInv, IInv, TypeOK
<1>4. Serial!Returns(c, "done") \/ (Shown[c] = "busy" /\ Shown' = Shown)
  <2>1. CASE UNCHANGED st
    BY <1>1, <2>1, ShownKept DEF RInv
  <2>2. ASSUME NEW x \in {"ok", "err"}, Return(c, x), x = "ok" => op[c] = "recv"
        PROVE  Serial!Returns(c, "done")
    BY <1>1, <2>2, PlainReturn DEF RInv, Results
  <2> QED BY <2>1, <2>2
<1>5. Serial!Pull(c)
  BY <1>2, <1>3, <1>4 DEF Serial!Pull, Shown
<1> QED BY <1>5 DEF Serial!Next

\* The end that is reported is the end, or the reader has quit.
LEMMA EndSerial ==
  ASSUME RInv, [Next]_vars, NEW c \in RecvCalls, NEW x \in {"ok", "eos"},
         st[c] \in InFlight, Return(c, x), AtEnd \/ rx = "stopped",
         UNCHANGED <<op, wire, taken, tx, rx>>
  PROVE  Serial!Next
<1>1. c \in Calls /\ op[c] # "stopped"
  BY DEF Calls, RInv, IInv, TypeOK, RecvOps
<1>2. /\ Shown[c] = "busy"
      /\ \/ Shown' = [Shown EXCEPT ![c] = "done"]
         \/ Shown' = [Shown EXCEPT ![c] = "end"]
  BY <1>1, ReturnShows DEF RInv, Results
<1>3. rx = "stopped" \/ (tx # "open" /\ Len(taken) = Len(wire))
  BY LenProperties DEF AtEnd, Available, RInv, IInv, TypeOK, SignalsOK
<1>4. Serial!Finishes(c) \/ Serial!TellEnd(c)
  BY <1>2, <1>3 DEF Serial!Finishes, Serial!TellEnd, Serial!Returns, Shown
<1> QED BY <1>1, <1>4 DEF Serial!Next, Calls

\* recv takes bytes, reports the end or fails.
LEMMA RecvSerial ==
  ASSUME RInv, [Next]_vars, NEW c \in Calls, Recv(c)
  PROVE  Serial!Next
<1>1. /\ c \in RecvCalls /\ Holds(c) /\ op[c] = "recv" /\ st[c] \in InFlight
      /\ UNCHANGED <<op, wire, tx, rx>>
  BY DEF Recv, Runs, Holds, RInv, IInv, TypeOK, Calls, SendOps, callVars, InFlight
<1>2. CASE (Return(c, "ok") \/ Return(c, "err")) /\ UNCHANGED taken
  BY <1>1, <1>2, PlainSerial DEF Results
<1>3. CASE \E k \in 1..arg[c] : Take(c, k) /\ Return(c, "ok")
  BY <1>1, <1>3, TakeSerial
<1>4. CASE Return(c, "eos") /\ (AtEnd \/ rx = "stopped") /\ UNCHANGED taken
  BY <1>1, <1>4, EndSerial
<1> QED BY <1>2, <1>3, <1>4 DEF Recv, AfterStop

\* read_exact takes bytes, is complete or fails.
LEMMA ReadExactSerial ==
  ASSUME RInv, [Next]_vars, NEW c \in Calls, ReadExact(c)
  PROVE  Serial!Next
<1>1. /\ c \in RecvCalls /\ Holds(c) /\ op[c] = "read_exact" /\ st[c] \in InFlight
      /\ UNCHANGED <<op, wire, tx, rx>>
  BY DEF ReadExact, Runs, Holds, RInv, IInv, TypeOK, Calls, SendOps, callVars, InFlight
<1>2. CASE (Return(c, "ok") \/ Return(c, "err")) /\ UNCHANGED taken
  BY <1>1, <1>2, PlainSerial DEF Results
<1>3. CASE (\E k \in 1..(arg[c] - done[c]) : Take(c, k)) /\ UNCHANGED st
  BY <1>1, <1>3, TakeSerial
<1> QED BY <1>2, <1>3 DEF ReadExact, AfterStop

\* read_to_end takes bytes, is complete at the end or fails.
LEMMA ReadToEndSerial ==
  ASSUME RInv, [Next]_vars, NEW c \in Calls, ReadToEnd(c)
  PROVE  Serial!Next
<1>1. /\ c \in RecvCalls /\ Holds(c) /\ op[c] = "read_to_end" /\ st[c] \in InFlight
      /\ UNCHANGED <<op, wire, tx, rx>>
  BY DEF ReadToEnd, Runs, Holds, RInv, IInv, TypeOK, Calls, SendOps, callVars, InFlight
<1>2. CASE Return(c, "err") /\ UNCHANGED taken
  BY <1>1, <1>2, PlainSerial DEF Results
<1>3. CASE (\E k \in 1..Available : Take(c, k)) /\ (UNCHANGED st \/ Return(c, "err"))
  BY <1>1, <1>3, TakeSerial
<1>4. CASE Return(c, "ok") /\ (AtEnd \/ rx = "stopped") /\ UNCHANGED taken
  BY <1>1, <1>4, EndSerial
<1> QED BY <1>2, <1>3, <1>4 DEF ReadToEnd, AfterStop

\* stop quits between two runs of reads, or fails.
LEMMA StopSerial ==
  ASSUME RInv, [Next]_vars, NEW c \in Calls, Stop(c)
  PROVE  Serial!Next
<1>1. /\ c \in RecvCalls /\ op[c] = "stop" /\ st[c] \in InFlight
      /\ UNCHANGED <<op, wire, taken, tx>>
  BY DEF Stop, Runs, Holds, RInv, IInv, TypeOK, Calls, SendOps, callVars, InFlight
<1>2. CASE Return(c, "err") /\ UNCHANGED rx
  BY <1>1, <1>2, PlainSerial DEF Results
<1>3. CASE rx = "open" /\ rx' = "stopped" /\ Return(c, "ok")
  <2>1. Serial!BetweenRuns(taken)
    BY <1>3, BetweenCalls, NoRun DEF RInv, IInv, TypeOK
  <2>2. Serial!Returns(c, "done")
    BY <1>1, <1>3, PlainReturn DEF RInv, Results
  <2>3. Serial!Quit
    BY <1>1, <1>3, <2>1, <2>2 DEF Serial!Quit
  <2> QED BY <2>3 DEF Serial!Next
<1> QED BY <1>2, <1>3 DEF Stop

\* Disposing of a half closes the stream, quits it, or shows nothing.
LEMMA DisposeSerial ==
  ASSUME RInv, [Next]_vars, NEW h \in {"send", "recv"}, Dispose(h)
  PROVE  [Serial!Next]_(Serial!vars)
<1>1. UNCHANGED <<st, wire, taken>> /\ Shown' = Shown
  BY ShownKept DEF Dispose, RInv
<1>2. CASE UNCHANGED <<tx, rx>>
  BY <1>1, <1>2, QuietSerial
<1>3. CASE tx = "open" /\ tx' \in {"finished", "reset"} /\ UNCHANGED rx
  <2>1. Serial!BetweenRuns(wire)
    BY <1>3, BetweenCalls, NoRun DEF RInv, IInv, TypeOK
  <2>2. Serial!Close(tx')
    BY <1>1, <1>3, <2>1 DEF Serial!Close, Shown
  <2> QED BY <1>3, <2>2 DEF Serial!Next
<1>4. CASE rx = "open" /\ rx' = "stopped" /\ UNCHANGED tx
  <2>1. Serial!BetweenRuns(taken)
    BY <1>4, BetweenCalls, NoRun DEF RInv, IInv, TypeOK
  <2>2. Serial!Quit
    BY <1>1, <1>4, <2>1 DEF Serial!Quit, Shown
  <2> QED BY <2>2 DEF Serial!Next
<1> QED BY <1>2, <1>3, <1>4 DEF Dispose

\* Every step of the stream is a step of SerialStream or leaves it as it is.
LEMMA SerialStep ==
  ASSUME RInv, [Next]_vars
  PROVE  [Serial!Next]_(Serial!vars)
<1>1. CASE UNCHANGED vars \/ Network \/ LoseConnection
  <2>1. UNCHANGED <<st, wire, taken, tx, rx>>
    BY <1>1 DEF vars, Network, Deliver, Signal, LoseConnection
  <2> QED BY <2>1, QuietSerial
<1>2. ASSUME NEW c \in Calls, Progress(c) PROVE [Serial!Next]_(Serial!vars)
  BY <1>2, SendBytesSerial, CloseSerial, QuerySerial, StoppedSerial, StoppedResolvesSerial,
     RecvSerial, ReadExactSerial, ReadToEndSerial, StopSerial DEF Progress
<1>3. ASSUME NEW c \in Calls, NEW o, NEW n, Call(c, o, n) PROVE [Serial!Next]_(Serial!vars)
  BY <1>3, CallSerial
<1>4. ASSUME NEW c \in Calls, Cancel(c) PROVE [Serial!Next]_(Serial!vars)
  BY <1>4, CancelSerial
<1>5. ASSUME NEW h \in {"send", "recv"}, Dispose(h) PROVE [Serial!Next]_(Serial!vars)
  BY <1>5, DisposeSerial
<1> QED BY <1>1, <1>2, <1>3, <1>4, <1>5 DEF Next, Calls

\* Concurrent calls on the two halves of a stream, with the mutexes of
\* `stream.rs`, cancellation, disposal, flow control and the network, behave
\* like calls that take turns.
THEOREM StreamSerializes == Spec => Serializes
<1>1. RInv /\ [Next]_vars => [Serial!Next]_(Serial!vars)
  BY SerialStep
<1> QED BY <1>1, SerialInit, RInvInit, RInvStep, PTL DEF Spec, Serializes, Serial!Spec

=============================================================================
