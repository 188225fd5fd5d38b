--------------------------- MODULE MCIrohEndpoint ---------------------------
(* Instances of IrohEndpoint for TLC. *)
EXTENDS IrohEndpoint, TLC

CONSTANTS d1, d2, a1, a2

\* Any call may be of any method of its side.
AnyMethod == [c \in Dials \cup Accepts |-> IF c \in Dials THEN DialMethods ELSE AcceptMethods]

\* One call of each kind.
OneOfEach ==
  (d1 :> {"connect"}) @@ (d2 :> {"connect_conn"}) @@ (a1 :> {"accept_next"}) @@ (a2 :> {"accept_conn"})
=============================================================================
