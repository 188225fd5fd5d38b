----------------------------- MODULE AddrWatch ------------------------------
(***************************************************************************)
(* An endpoint's own address and online state as `endpoint.rs` exposes     *)
(* them: addr, addr_updated, my_ticket, wait_online, the warm-up task that *)
(* bind spawns, shutdown, and the disposal of the Kotlin object.           *)
(*                                                                         *)
(* The client is an application that keeps a copy of the address.  It has  *)
(* only snapshots and addr_updated to work with, and uses them in one of   *)
(* two orders:                                                             *)
(*   "snapshot_first"  read addr() once, then loop addr_updated();         *)
(*   "watch_first"     start addr_updated(), read addr() while it waits,   *)
(*                     then await it, and so on.                           *)
(***************************************************************************)
EXTENDS EndpointAddr, Naturals

CONSTANTS
  Addrs,       \* the addresses the endpoint may have
  MaxChanges,  \* how often its address changes
  MaxFlaps,    \* how often a relay is disconnected
  OnlineCalls, \* calls that wait for a relay: my_ticket and wait_online
  WarmUp,      \* options.warm_up_online
  Recipes,     \* the orders of calls a client may use
  NoAddr       \* a snapshot that has not been taken

ASSUME AddrsAssumption == Addrs \subseteq IrohAddrs
ASSUME ClientAssumption ==
  /\ MaxChanges \in Nat /\ MaxFlaps \in Nat
  /\ WarmUp \in BOOLEAN
  /\ Recipes \subseteq {"snapshot_first", "watch_first"}

VARIABLES
  addr,     \* the address, as the library has it
  up,       \* the home relays that are connected
  changes,  \* how often the address has changed
  flaps,    \* how often a relay was disconnected
  closed,   \* shutdown was called
  gone,     \* the library's watchables were dropped: watchers disconnect
  held,     \* the Kotlin object of the endpoint has not been disposed of
  warm,     \* the warm-up task: "waiting", or "done"
  call,     \* call[c]: how far my_ticket or wait_online has come
  recipe,   \* the client's order of calls
  pc,       \* the client: "idle", "watching", "ready"; at first "start"
  base,     \* the address when the client's watcher was made
  since,    \* how often the address had changed by then
  result,   \* what addr_updated has returned to the client
  read,     \* the client has read addr() since it last called addr_updated
  view      \* the client's copy of the address

libVars    == <<addr, up, changes, flaps, closed, gone>>
onlineVars == <<warm, call>>
clientVars == <<recipe, pc, base, since, result, read, view>>
vars       == <<libVars, held, onlineVars, clientVars>>

Snapshots == {FromIroh(a) : a \in Addrs}

TypeOK ==
  /\ addr \in Addrs
  /\ up \subseteq addr.relays
  /\ changes \in 0..MaxChanges /\ flaps \in 0..MaxFlaps /\ since \in 0..MaxChanges
  /\ closed \in BOOLEAN /\ gone \in BOOLEAN /\ held \in BOOLEAN
  /\ warm \in {"waiting", "done"}
  /\ call \in [OnlineCalls -> {"new", "waiting", "online", "returned", "cancelled"}]
  /\ recipe \in Recipes
  /\ pc \in {"start", "idle", "watching", "ready", "stopped"}
  /\ base \in Addrs \cup {NoAddr}
  /\ result \in Snapshots \cup {NoAddr}
  /\ view \in Snapshots \cup {NoAddr}
  /\ read \in BOOLEAN

\* bind_with has returned.
Init ==
  /\ addr \in Addrs
  /\ up = {}
  /\ changes = 0
  /\ flaps = 0
  /\ closed = FALSE
  /\ gone = FALSE
  /\ held = TRUE
  /\ warm = IF WarmUp THEN "waiting" ELSE "done"
  /\ call = [c \in OnlineCalls |-> "new"]
  /\ recipe \in Recipes
  /\ pc = "start"
  /\ base = NoAddr
  /\ since = 0
  /\ result = NoAddr
  /\ read = FALSE
  /\ view = NoAddr

-----------------------------------------------------------------------------
(* The library.                                                            *)

\* The network changes, by itself or after network_change: so does the address.
Change(a) ==
  /\ ~closed /\ changes < MaxChanges /\ a # addr
  /\ addr' = a
  /\ up' = up \cap a.relays
  /\ changes' = changes + 1
  /\ UNCHANGED <<flaps, closed, gone, held, onlineVars, clientVars>>

RelayUp(r) ==
  /\ ~closed /\ r \in addr.relays \ up
  /\ up' = up \cup {r}
  /\ UNCHANGED <<addr, changes, flaps, closed, gone, held, onlineVars, clientVars>>

RelayDown(r) ==
  /\ r \in up /\ flaps < MaxFlaps
  /\ up' = up \ {r}
  /\ flaps' = flaps + 1
  /\ UNCHANGED <<addr, changes, closed, gone, held, onlineVars, clientVars>>

\* The library drops its watchables some time after it was closed.
Disconnect ==
  /\ closed /\ ~gone
  /\ gone' = TRUE
  /\ UNCHANGED <<addr, up, changes, flaps, closed, held, onlineVars, clientVars>>

-----------------------------------------------------------------------------
(* The endpoint.                                                           *)

\* The handles on the library's endpoint: the object, the warm-up task's clone
\* and the calls in flight, which keep the object alive.
InUse ==
  \/ held
  \/ warm = "waiting"
  \/ \E c \in OnlineCalls : call[c] \in {"waiting", "online"}
  \/ pc \in {"watching", "ready"}

Shutdown ==
  /\ held
  /\ ~closed
  /\ closed' = TRUE
  /\ up' = {}
  /\ UNCHANGED <<addr, changes, flaps, gone, held, onlineVars, clientVars>>

\* The Kotlin object is closed; the client makes no further call.
Dispose ==
  /\ held
  /\ held' = FALSE
  /\ UNCHANGED <<libVars, onlineVars, clientVars>>

\* The library closes the endpoint when its last handle is dropped.
Release ==
  /\ ~InUse /\ ~closed
  /\ closed' = TRUE
  /\ up' = {}
  /\ UNCHANGED <<addr, changes, flaps, gone, held, onlineVars, clientVars>>

\* Mutant of WarmUpEnds: the task goes on to wait for the endpoint to close.
WarmUpEndsWithEndpoint ==
  /\ warm = "waiting" /\ closed
  /\ warm' = "done"
  /\ UNCHANGED <<libVars, held, call, clientVars>>

\* The warm-up task: online() resolves and the task drops its clone.
WarmUpEnds ==
  /\ warm = "waiting" /\ up # {}
  /\ warm' = "done"
  /\ UNCHANGED <<libVars, held, call, clientVars>>

CallTo(c, from, to) == call[c] = from /\ call' = [call EXCEPT ![c] = to]

\* my_ticket or wait_online is called.
WaitOnline(c) ==
  /\ held
  /\ CallTo(c, "new", "waiting")
  /\ UNCHANGED <<libVars, held, warm, clientVars>>

\* online() resolves.
Online(c) ==
  /\ up # {}
  /\ CallTo(c, "waiting", "online")
  /\ UNCHANGED <<libVars, held, warm, clientVars>>

\* wait_online returns; my_ticket reads the address, encodes it and returns.
OnlineReturns(c) ==
  /\ CallTo(c, "online", "returned")
  /\ UNCHANGED <<libVars, held, warm, clientVars>>

CancelOnline(c) ==
  /\ call[c] \in {"waiting", "online"}
  /\ call' = [call EXCEPT ![c] = "cancelled"]
  /\ UNCHANGED <<libVars, held, warm, clientVars>>

-----------------------------------------------------------------------------
(* The client.                                                             *)

\* addr(): a snapshot, taken at the start or while addr_updated waits.
Addr ==
  /\ held
  /\ \/ recipe = "snapshot_first" /\ pc = "start" /\ pc' = "idle"
     \/ recipe = "watch_first" /\ pc \in {"watching", "ready"} /\ ~read /\ UNCHANGED pc
  /\ view' = FromIroh(addr)
  /\ read' = TRUE
  /\ UNCHANGED <<libVars, held, onlineVars, recipe, base, since, result>>

\* addr_updated is called: a watcher is made that knows the present address.
AddrUpdated ==
  /\ held
  /\ pc = "idle" \/ (recipe = "watch_first" /\ pc = "start")
  /\ pc' = "watching"
  /\ base' = addr
  /\ since' = changes
  /\ result' = NoAddr
  /\ read' = (recipe = "snapshot_first")
  /\ UNCHANGED <<libVars, held, onlineVars, recipe, view>>

\* Mutant of Updated: only the direct addresses are watched.
UpdatedDirect == addr.ips # base.ips

\* watcher.updated() resolves: the address is not the one the watcher knows.
Updated == addr # base

\* addr_updated resolves with the address of that moment, also when the watcher
\* is disconnected.
AddrUpdatedResolves ==
  /\ pc = "watching"
  /\ Updated \/ gone
  /\ pc' = "ready"
  /\ result' = FromIroh(addr)
  /\ UNCHANGED <<libVars, held, onlineVars, recipe, base, since, read, view>>

\* The client takes the result, and stops if it has disposed of the endpoint.
TakeResult ==
  /\ pc = "ready" /\ (read \/ ~held)
  /\ view' = result
  /\ pc' = IF held THEN "idle" ELSE "stopped"
  /\ UNCHANGED <<libVars, held, onlineVars, recipe, base, since, result, read>>

\* The client's coroutine is cancelled.
CancelWatch ==
  /\ pc \in {"watching", "ready"} /\ ~held
  /\ pc' = "stopped"
  /\ UNCHANGED <<libVars, held, onlineVars, recipe, base, since, result, read, view>>

Client == Addr \/ AddrUpdated \/ AddrUpdatedResolves \/ TakeResult

Next ==
  \/ \E a \in Addrs : Change(a)
  \/ \E r \in Relays : RelayUp(r) \/ RelayDown(r)
  \/ Disconnect \/ Shutdown \/ Dispose \/ Release \/ WarmUpEnds
  \/ \E c \in OnlineCalls :
       WaitOnline(c) \/ Online(c) \/ OnlineReturns(c) \/ CancelOnline(c)
  \/ Client \/ CancelWatch

Spec == Init /\ [][Next]_vars

\* The client, the calls and the warm-up task are polled when they can go on; a
\* client that has disposed of the endpoint cancels what it has left.  Nobody has
\* to change the network, to connect a relay or to shut the endpoint down.
Fairness ==
  /\ WF_vars(Client) /\ WF_vars(CancelWatch) /\ WF_vars(WarmUpEnds) /\ WF_vars(Release)
  /\ \A c \in OnlineCalls : WF_vars(Online(c)) /\ WF_vars(OnlineReturns(c))

FairSpec == Spec /\ Fairness

-----------------------------------------------------------------------------

\* The client's copy is out of date, and not because the address has come back
\* to what the watcher knows: the library does not report that.
Stale == view # FromIroh(addr) /\ ~(addr = base /\ changes # since)

\* A client that reads the address while addr_updated waits ends up with the
\* address the endpoint settles on, whatever changes between its calls.
ViewConverges == <>[](recipe = "watch_first" /\ held => ~Stale)

\* "loop addrUpdated() into a Kotlin Flow": so does the client that reads one
\* snapshot and then loops.
FlowConverges == <>[](recipe = "snapshot_first" /\ held /\ ~closed => ~Stale)

\* An endpoint that is disposed of without shutdown is closed all the same, as
\* soon as a relay is connected: the warm-up task and the calls that wait for one
\* are the only ones left that hold it.
DisposedIsClosed == ~held ~> closed \/ up = {}
=============================================================================
