---------------------------- MODULE MCIrohStream ----------------------------
(* Instances of IrohStream for TLC. *)
EXTENDS IrohStream, TLC

CONSTANTS s1, s2, s3, r1, r2

\* Every call has a thread of its own: a multi-threaded dispatcher.
OwnThread == [c \in Calls |-> c]

\* Every call of an endpoint shares one thread: a main-thread dispatcher.
OneThread == [c \in Calls |-> IF c \in SendCalls THEN "sender" ELSE "receiver"]

\* Any call may be of any method of its half.
AnyMethod == [c \in Calls |-> IF c \in SendCalls THEN SendOps ELSE RecvOps]

\* A write that may block on flow control and another call beside it; a read
\* that may wait for data and another call beside it.
OneWriterOneReader ==
  [c \in Calls |-> CASE c = s1 -> {"send_bytes"}
                     [] c = r1 -> {"recv", "read_to_end"}
                     [] c \in SendCalls \ {s1} -> {"finish", "stopped", "reset"}
                     [] c \in RecvCalls \ {r1} -> {"read_exact", "stop"}]

\* Calls of the same half are interchangeable when threads are.
CallSymmetry == Permutations(SendCalls) \cup Permutations(RecvCalls)
=============================================================================
