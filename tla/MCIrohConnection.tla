-------------------------- MODULE MCIrohConnection --------------------------
(* An instance of IrohConnection for TLC. *)
EXTENDS IrohConnection

CONSTANTS l1, l2, r1

\* Two calls on the left and one on the right.
SideOf(c) == IF c = r1 THEN "right" ELSE "left"

Scenario(a, b, z) == [c \in Calls |-> CASE c = l1 -> a [] c = l2 -> b [] c = r1 -> z]

\* Two calls compete for the one stream that their side may have open, for a stream
\* or a datagram of the other side, and for the room in their buffer; both sides
\* open streams at once, or of two kinds; closed waits beside calls of each group.
SomeScenarios ==
  {Scenario("open_bi", "open_bi", "accept_bi"),
   Scenario("accept_bi", "accept_bi", "open_bi"),
   Scenario("read_datagram", "read_datagram", "try_send_datagram"),
   Scenario("try_send_datagram", "send_datagram", "read_datagram"),
   Scenario("read_datagram", "send_datagram", "try_send_datagram"),
   Scenario("open_bi", "accept_bi", "open_bi"),
   Scenario("open_uni", "accept_bi", "accept_uni"),
   Scenario("open_bi", "open_uni", "accept_uni"),
   Scenario("closed", "accept_uni", "open_uni"),
   Scenario("closed", "send_datagram", "closed")}
=============================================================================
