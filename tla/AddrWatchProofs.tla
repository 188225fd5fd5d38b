--------------------------- MODULE AddrWatchProofs ---------------------------
(* Type correctness of AddrWatch, and that a client which watches first misses
   no change, for any addresses, calls and bounds. *)
EXTENDS AddrWatch, TLAPS

LEMMA TypeInit == Init => TypeOK
<1> SUFFICES ASSUME Init PROVE TypeOK
  OBVIOUS
<1>1. warm \in {"waiting", "done"}
  BY DEF Init
<1>2. up \subseteq addr.relays
  BY DEF Init
<1>3. 0 \in 0..MaxChanges /\ 0 \in 0..MaxFlaps
  BY ClientAssumption
<1>4. call \in [OnlineCalls -> {"new", "waiting", "online", "returned", "cancelled"}]
  BY DEF Init
<1> QED BY <1>1, <1>2, <1>3, <1>4 DEF Init, TypeOK

LEMMA TypeStep == TypeOK /\ [Next]_vars => TypeOK'
<1> SUFFICES ASSUME TypeOK, [Next]_vars PROVE TypeOK'
  OBVIOUS
<1> USE AddrsAssumption, ClientAssumption DEF TypeOK, Snapshots
<1>1. ASSUME NEW a \in Addrs, Change(a) PROVE TypeOK'
  BY <1>1 DEF Change, onlineVars, clientVars
<1>2. ASSUME NEW r \in Relays, RelayUp(r) \/ RelayDown(r) PROVE TypeOK'
  BY <1>2 DEF RelayUp, RelayDown, onlineVars, clientVars
<1>3. CASE Disconnect \/ Shutdown \/ Dispose \/ Release \/ WarmUpEnds
  BY <1>3 DEF Disconnect, Shutdown, Dispose, Release, WarmUpEnds, libVars, onlineVars, clientVars
<1>4. ASSUME NEW c \in OnlineCalls,
             WaitOnline(c) \/ Online(c) \/ OnlineReturns(c) \/ CancelOnline(c)
      PROVE  TypeOK'
  BY <1>4 DEF WaitOnline, Online, OnlineReturns, CancelOnline, CallTo, libVars, clientVars
<1>5. CASE Client \/ CancelWatch
  <2>1. CASE Addr
    BY <2>1 DEF Addr, libVars, onlineVars
  <2>2. CASE AddrUpdated
    BY <2>2 DEF AddrUpdated, libVars, onlineVars
  <2>3. CASE AddrUpdatedResolves
    BY <2>3 DEF AddrUpdatedResolves, libVars, onlineVars
  <2>4. CASE TakeResult \/ CancelWatch
    BY <2>4 DEF TakeResult, CancelWatch, libVars, onlineVars
  <2> QED BY <1>5, <2>1, <2>2, <2>3, <2>4 DEF Client
<1>6. CASE UNCHANGED vars
  BY <1>6 DEF vars, libVars, onlineVars, clientVars
<1> QED BY <1>1, <1>2, <1>3, <1>4, <1>5, <1>6 DEF Next

\* The endpoint's state and the client's stay well formed; only relays of the
\* present address are ever connected, and what the client has seen is always a
\* record that stands for one of the endpoint's addresses.
THEOREM WatchTypes == Spec => []TypeOK
BY TypeInit, TypeStep, PTL DEF Spec

-----------------------------------------------------------------------------
(* The safety half of ViewConverges.                                       *)

\* While addr_updated waits for a change that would wake it, a client that has
\* read the address meanwhile is not out of date.
NothingMissed == recipe = "watch_first" /\ pc = "watching" /\ read /\ ~Updated => ~Stale

\* The strengthening: as long as the address has not changed since the watcher
\* was made, the watcher knows it, and a copy read in that time is still right.
WatchInv ==
  /\ since <= changes
  /\ pc = "watching" /\ changes = since => addr = base
  /\ recipe = "watch_first" /\ pc = "watching" /\ read /\ changes = since
       => view = FromIroh(addr)

LEMMA WatchInvInit == Init => WatchInv
BY DEF Init, WatchInv

\* A change leaves the watcher's count behind; a new watcher starts without a
\* copy that was read since; reading refreshes the copy.
LEMMA WatchInvStep == TypeOK /\ WatchInv /\ [Next]_vars => WatchInv'
<1> SUFFICES ASSUME TypeOK, WatchInv, [Next]_vars PROVE WatchInv'
  OBVIOUS
<1>0. changes \in Nat /\ since \in Nat
  BY ClientAssumption DEF TypeOK
<1>1. ASSUME NEW a \in Addrs, Change(a) PROVE WatchInv'
  BY <1>0, <1>1 DEF Change, clientVars, WatchInv
<1>2. CASE UNCHANGED <<addr, changes, clientVars>>
  BY <1>2 DEF clientVars, WatchInv
<1>3. CASE Addr
  BY <1>3 DEF Addr, libVars, WatchInv
<1>4. CASE AddrUpdated
  <2>1. recipe' = "watch_first" => ~read'
    <3>1. recipe' = recipe /\ read' = (recipe = "snapshot_first")
      BY <1>4 DEF AddrUpdated
    <3>2. recipe = "watch_first" => recipe # "snapshot_first"
      OBVIOUS
    <3> QED BY <3>1, <3>2, Zenon
  <2>2. addr' = addr /\ changes' = changes /\ since' = changes /\ base' = addr
    BY <1>4 DEF AddrUpdated, libVars
  <2> QED BY <1>0, <2>1, <2>2 DEF WatchInv
<1>5. CASE AddrUpdatedResolves \/ TakeResult \/ CancelWatch
  BY <1>5 DEF AddrUpdatedResolves, TakeResult, CancelWatch, libVars, WatchInv
<1>6. ASSUME NEW r \in Relays, RelayUp(r) \/ RelayDown(r)
      PROVE  UNCHANGED <<addr, changes, clientVars>>
  BY <1>6 DEF RelayUp, RelayDown
<1>7. ASSUME Disconnect \/ Shutdown \/ Dispose \/ Release \/ WarmUpEnds
      PROVE  UNCHANGED <<addr, changes, clientVars>>
  BY <1>7 DEF Disconnect, Shutdown, Dispose, Release, WarmUpEnds, libVars
<1>8. ASSUME NEW c \in OnlineCalls,
             WaitOnline(c) \/ Online(c) \/ OnlineReturns(c) \/ CancelOnline(c)
      PROVE  UNCHANGED <<addr, changes, clientVars>>
  BY <1>8 DEF WaitOnline, Online, OnlineReturns, CancelOnline, libVars
<1>9. ASSUME UNCHANGED vars PROVE UNCHANGED <<addr, changes, clientVars>>
  BY <1>9 DEF vars, libVars
<1> QED
  BY <1>1, <1>2, <1>3, <1>4, <1>5, <1>6, <1>7, <1>8, <1>9 DEF Next, Client

\* A client that calls addr_updated first and reads addr() while it waits cannot
\* be left waiting with an old address: whatever it has missed wakes it, except
\* an address that has come back to what it was.
THEOREM WatchFirstMissesNothing == Spec => []NothingMissed
<1>1. WatchInv => NothingMissed
  BY DEF WatchInv, NothingMissed, Updated, Stale
<1> QED BY <1>1, WatchInvInit, WatchInvStep, TypeInit, TypeStep, PTL DEF Spec

=============================================================================
