---------------------------- MODULE SerialStream ----------------------------
(***************************************************************************)
(* What one direction of a stream promises to the applications at its ends *)
(* (`stream.rs`), with neither mutexes nor a network: calls take turns.    *)
(* The bytes of a call form one run, the next run starts when that call    *)
(* has returned, and the stream changes its phase between runs only.       *)
(***************************************************************************)
EXTENDS Naturals, Sequences

CONSTANTS
  Writers,   \* calls on the send half
  Readers    \* calls on the receive half

VARIABLES
  sent,    \* sent[i]: the call that wrote the i-th byte
  got,     \* got[i]: the call that read the i-th byte
  phase,   \* "open", "finished" or "reset"
  quit,    \* the reader has stopped the stream
  res      \* res[c]: "busy" until c has returned, then "done"; "end" if c was
           \*   told that the stream is over, "sure" that the peer has it all

vars == <<sent, got, phase, quit, res>>

Init ==
  /\ sent = <<>>
  /\ got = <<>>
  /\ phase = "open"
  /\ quit = FALSE
  /\ res = [c \in Writers \cup Readers |-> "busy"]

\* Whoever wrote or read the last byte of s has returned.
BetweenRuns(s) == s # <<>> => res[s[Len(s)]] # "busy"

\* It is c's turn: c continues its run, or nobody's run is unfinished.
Turn(s, c) == BetweenRuns(s) \/ s[Len(s)] = c

Returns(c, r) == res[c] = "busy" /\ res' = [res EXCEPT ![c] = r]

\* w writes one more byte.
Push(w) ==
  /\ phase = "open" /\ res[w] = "busy" /\ Turn(sent, w)
  /\ sent' = Append(sent, w)
  /\ UNCHANGED <<got, phase, quit, res>>

\* r reads some of the bytes nobody has read, and may return at once.
Pull(r) ==
  /\ ~quit /\ Turn(got, r)
  /\ \E n \in 1..(Len(sent) - Len(got)) : got' = got \o [i \in 1..n |-> r]
  /\ Returns(r, "done") \/ (res[r] = "busy" /\ UNCHANGED res)
  /\ UNCHANGED <<sent, phase, quit>>

\* The stream is finished or reset, by a call or by disposal.  What the peer is
\* known to have is not taken back.
Close(p) ==
  /\ BetweenRuns(sent)
  /\ phase = "open" \/ (phase = "finished" /\ p = "reset" /\ \A w \in Writers : res[w] # "sure")
  /\ phase' = p
  /\ (\E w \in Writers : Returns(w, "done")) \/ UNCHANGED res
  /\ UNCHANGED <<sent, got, quit>>

\* The reader stops the stream, by a call or by disposal.
Quit ==
  /\ ~quit /\ BetweenRuns(got)
  /\ quit' = TRUE
  /\ (\E r \in Readers : Returns(r, "done")) \/ UNCHANGED res
  /\ UNCHANGED <<sent, got, phase>>

\* r is told that the stream is over: nothing is left to read, nor will be.
TellEnd(r) ==
  /\ quit \/ (phase # "open" /\ Len(got) = Len(sent))
  /\ Returns(r, "end")
  /\ UNCHANGED <<sent, got, phase, quit>>

\* stopped() returns None: the peer has acknowledged the end or the reset.
Confirm(w) ==
  /\ phase # "open"
  /\ Returns(w, "sure")
  /\ UNCHANGED <<sent, got, phase, quit>>

\* Any other result, errors and cancellation included.
Finishes(c) ==
  /\ Returns(c, "done")
  /\ UNCHANGED <<sent, got, phase, quit>>

Next ==
  \/ \E w \in Writers : Push(w) \/ Confirm(w)
  \/ \E r \in Readers : Pull(r) \/ TellEnd(r)
  \/ \E p \in {"finished", "reset"} : Close(p)
  \/ Quit
  \/ \E c \in Writers \cup Readers : Finishes(c)

Spec == Init /\ [][Next]_vars
=============================================================================
