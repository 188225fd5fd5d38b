# A TLA+ model of iroh-kmp

iroh-kmp wraps the `iroh` Rust crate for Kotlin Multiplatform. The crate under
`src/src/commonMain/rust` is thin, but it decides what concurrent Kotlin callers
see: which mutex is held across which await, which call blocks a thread, who
owns a connection while futures are cancelled and objects are disposed of. That
is what these modules model and model-check with TLC; every safety property is
also proved with TLAPS, for instances of any size.

## Inventory

| part | state | operations | what is hard |
|---|---|---|---|
| `stream.rs`: IrohStream, IrohSendStream, IrohRecvStream | one tokio `Mutex` per half around the library's stream | async `send_bytes`, `finish`, `stopped`, `recv`, `read_exact`, `read_to_end`; blocking `reset`, `stop`, `set_priority`, `priority`, `send_id`, `recv_id`, `id`; `rtt_ms` | the mutex is held across awaits on the peer; cancellation between two chunks; blocking calls behind suspended ones |
| `endpoint.rs`: dialing and accepting | the library's endpoint with its accept queue | `connect`, `connect_conn`, `connect_addr`, `connect_by_id`, `accept_next`, `accept_conn`, `set_alpns`, `shutdown`, `is_closed` | concurrent accept calls on one queue; cancellation after a connection was taken; shutdown in the middle; hand-over from connection to stream |
| `connection.rs`: IrohConnection | a clonable handle of the library's connection | `open_bi`, `accept_bi`, `open_uni`, `accept_uni`, datagrams, `shutdown`, `closed`, `close_reason`, paths | close by drop of the last handle; errors with and without the `closed: ` token |
| `endpoint.rs`: addresses | watchers of the library | `addr`, `addr_updated`, `my_ticket`, `wait_online`, warm-up task | changes between two `addr_updated` calls; pending for ever without relays |
| `endpoint_addr.rs`, `remote_info.rs`, tickets | none | conversions between the library's address, the FFI record and the ticket | what a round trip loses |
| `config.rs`, `bind`, `bind_with` | none | `builder_from_options` | subtraction from the preset; a warm-up task without relays |
| `crypto.rs`, `sign`, `verify_signature` | the secret key the application saves | generate, sign, verify, derive | one identity over restarts and over two ways to sign and to verify |
| `android_init.rs`, `IrohAndroid.kt` | a `Once` | `installAndroidContext` | threads that race; a failed first call |
| build and publishing | files | Gradle tasks, CI | outside the program |

The parts interact through ownership. `accept_next` is `accept_conn` followed by
`accept_bi`; `connect` is `connect_conn` followed by `open_bi`; every stream
object clones the connection handle, so the connection lives as long as a stream
of it does. A coroutine that is cancelled drops the Rust future, and with it the
mutex guard, the place in a mutex queue or the connection handle it holds.

What makes each part correct:

* streams: calls on one half behave as if they came one after the other; an end
  that is reported is the real end; whatever the peer or the network does to
  end the stream releases every waiting call;
* dialing and accepting: a connection has exactly one taker, never an open
  connection without an owner, never a closed one under a live handle; calls
  return;
* connections: the documented error token and close reasons, on which the two
  sides agree; streams and datagrams are taken once; calls return once it ends;
* addresses: a consumer that follows the documented loop ends up with the current
  address; conversions lose nothing they claim to keep;
* configuration: `bind` is `bind_with` with the defaults; address lookup depends
  on `address_lookup` alone, so that endpoints find each other;
* identities: a saved key is one endpoint id for ever, and what is signed with it
  verifies for that id and no other;
* Android: the context does not change once an endpoint is being bound. (That it is
  there by then is what the comments ask for, and what a failed first install breaks.)

`PROJECT.json` lists the hazards line by line with the properties that cover
them.

## Modules

* `IrohStream`: one direction of a stream, from the calls on the send half at one
  endpoint to the calls on the receive half at the other.
* `SerialStream`: the abstract specification of such a direction, with neither
  mutexes nor a network, that `IrohStream` implements.
* `IrohStreamProofs`: the theorems about `IrohStream`; `SerialStreamProofs`: that it
  implements `SerialStream`.
* `MCIrohStream`: instances for TLC (threads, methods of the calls, symmetry).
* `IrohEndpoint`: peers that dial an endpoint, its accept calls and the
  lifetime of the connections.
* `MCIrohEndpoint`: the methods of the calls for TLC; `IrohEndpointProofs`: the theorems about
  `IrohEndpoint`.
* `EndpointAddr`: an address in the library's form and in the FFI's, and the
  conversions between them; no state.
* `AddrExchange`: an address handed on as ticket, ticket bytes or record;
  `AddrExchangeProofs`: the theorems about it.
* `AddrWatch`: the endpoint's own address and online state, its warm-up task, and
  a client that keeps a copy of the address; `MCAddrWatch`: the addresses it goes
  through for TLC; `AddrWatchProofs`: its type correctness, and that a client which
  watches first misses nothing.
* `IrohConnection`: the two sides of an established connection: streams of both
  kinds, datagrams, close; `MCIrohConnection`: the calls and scenarios of the instance;
  `IrohConnectionProofs`: the theorems about it.
* `Ed25519`: keys and signatures as they cross the FFI; no state.
* `EndpointConfig`: options and the builder made of them; no state.
* `EndpointBind`: the Android context, `bind` and `bind_with`, the warm-up task, and
  an application that saves its key, signs and is restarted; `MCEndpointBind`: keys
  and options of the instance; `EndpointBindProofs`: the theorems about it.

`EndpointConfig` extends `Ed25519`, which extends `EndpointAddr`, so that an endpoint
id is the same thing in a ticket, in a dial and in a signature. `IrohEndpoint` makes
connections, `IrohConnection` is one of them in detail, and `IrohStream` one
direction of one of its streams; the loss or close of a connection is a step of
its environment there (`LoseConnection`).

### IrohStream and `stream.rs`

The actors are FFI calls. `Call` is the entry of a method: it checks the error
code of `reset` and `stop`, then queues for the mutex of its half. `ahead[c]` is
the set of calls that asked for that mutex before `c`; tokio's mutex is fair, so
`c` owns it when the set is empty. The other actions are the methods:
`SendBytes` writes one byte per step while the window has room and keeps the
mutex in between, as `write_all` does under `self.send.lock().await`; `ReadExact`
and `ReadToEnd` likewise for reading; `Finish`, `Reset`, `Stop` and `Query` (the
priority and id accessors) are one step under the mutex; `Stopped` takes the
mutex only to make the inner future and `StoppedResolves` awaits it without.

An async method can be cancelled wherever it waits (`Cancel`) and also after its
future has completed but before its coroutine resumes (the second disjunct of
`Return`). A blocking method keeps its thread: while it is queued, no other call
of that thread is started, polled or cancelled (`ThreadFree`). `Dispose` is the
disposal of the Kotlin object: calls in flight keep the Rust object, so the
library's handle is dropped when there are none.

Bytes are represented by the call that wrote them (`wire`) and the call that read
them (`taken`). The QUIC library is external: reliable, ordered delivery
(`Deliver`), the FIN, its acknowledgement, RESET and STOP_SENDING as signals that
take time (`Signal`), and loss of the connection at any time. Where the library's
answer depends on when it forgets a stream (a read or a stop after the end), the
model allows both answers. `finish` on a half that the peer has stopped returns Ok and
leaves the half as it is.

`read_to_end` takes chunks in whatever order they arrive, and the library refuses
ordered reads after it has begun (`Unordered`): a later `recv` or `read_exact` fails. One
that was cancelled before it took anything may have begun or not (`MaybeUnordered`).
Delivery in the model is in order, so what the holes left by a cancelled `read_to_end`
look like to a second one is not modelled.

### IrohStream implements SerialStream

In `SerialStream` calls take turns. A byte is written by a call that is in the
middle of its run, or that starts one because whoever wrote the last byte has
returned; readers likewise. The stream is finished, reset or stopped only between
runs; a call is told the end only when there is nothing left to read; and once
`stopped()` has confirmed the end, it is not taken back. `Serializes` says that
every behaviour of `IrohStream` is one of `SerialStream`, under the mapping that
forgets mutex queues, threads, flow control and signals, and of a result keeps
whether it was the end (`"end"`), the confirmation (`"sure"`) or another (`"done"`).

### IrohConnection and `connection.rs`

A call is of one side; the two sides are symmetric. `OpenStream` and `AcceptStream`
are the four methods that make stream objects. A stream belongs to a lane, the
streams of one kind opened by one side; `known` of them have been heard of by the
other side (`Announce`: QUIC announces a stream with its first bytes, and with it
those opened before), `taken` have been accepted. Opening waits for the stream
limit, which an accepted stream that neither side holds any more no longer counts
against. Datagrams wait in `out`, travel in `air`, where they can be reordered and
lost, and arrive in `inbox`; both buffers are bounded. `held` are the objects of the
two applications; each of them, and each call in flight, has a clone of the
library's connection, which is closed with code 0 when the last one goes
(`LastHandle`). `reason` is what `close_reason` shows on a side, `frame` what that side
has told the other. The connection ends by `Shutdown`, by the last handle, by the
other side (`PeerGone`, with or without its frame) or because the library gives up
(`GiveUp`). `MapConnErr` is `map_conn_err`; `send_datagram` and `try_send_datagram` do not
use it, so their errors never have the token.

What the library does where the source does not tell is left open: whether a
`shutdown` after the end changes the reason on its own side, and whether
`try_send_datagram` fails or drops the oldest datagram when its buffer is full. (The
comment at `connection.rs:88` says it fails; the QUIC library of iroh drops.)

### EndpointBind, EndpointConfig, Ed25519 and their sources

`InstallRuns` and `InstallEnds` are the closure of the `Once`, whose early returns leave
the process without a context; `InstallReturns` is a caller that found it spent. An
application binds when one of its calls has returned, as the comment in
`android_init.rs` asks; whether that call, or the one it waited for, got the context it
is not told. `BindWith` and `Bound` are `bind_with` before and after the
library's `bind`; `BuilderFromOptions` starts from the preset, of which the source
knows nothing but that it is there, so its relays and lookup services are
constants. Keys are symbolic; a byte array has a length and may stand for nothing,
so that every length check of the source is there.

An identity is named by whoever generated its key; `who` follows a key through
`secret_key_bytes`, storage, restart and `bind`, and `ids` collects the endpoint ids
under which the identity has appeared. A restart ends every endpoint, empties the
`Once` and keeps what was saved and what was signed.

### IrohEndpoint, `endpoint.rs` and `connection.rs`

A dial is a record of its method, ALPN and progress. `Dial` and `Connected` are
the three methods that return a connection; `ConnectOpens` is the rest of
`connect`. An accept call waits (`Take`), awaits the handshake (`Accepted`) and,
in `accept_next`, the first stream (`AcceptsBi`). The connection of a dial goes
from "knocking" over the accept queue and the handshake to "up" and "closed";
`why` is its close reason. `near` and `far` are the objects the two applications
hold; `OpenBi`, `AcceptBi`, `Shutdown`, `DropNear` and `DropFar` are what they do
with them. `Speak` is the first `send_bytes` on the stream: QUIC announces a
stream with its first bytes, not when it is opened. `SetAlpns` is `set_alpns`; the ALPNs
apply to connections accepted afterwards.

`CloseEndpoint` is the beginning of `IrohEndpoint::shutdown`: nothing arrives any more. The
rest of it is not one step: the library closes the connections one at a time
(`CloseReaches`), whether or not the future of `shutdown` is still awaited, and meanwhile
accept calls go on: they may take what is left in the queue, complete a handshake and
return a connection that is closed right after.

A connection whose handshake completed and that was closed before the accept
call resumed is still returned, as the library does; a stream whose bytes have
arrived is accepted even if the connection is closed by then.

### EndpointAddr, AddrExchange, `endpoint_addr.rs` and the tickets

The library's address is an id with sets of relays, IP addresses and other
transports. The record has one optional relay and a list of strings; the list is
a set here, since repetitions and order disappear in the library's set. A string
is a value and a spelling: several spellings parse to one value, `to_string`
makes the canonical one, and a malformed string stands for no value. `FromIroh`
takes the first relay in the set's order, which `CHOOSE` leaves open. `AddrExchange`
starts from any ticket, bytes or record, well-formed or not, and applies the four
conversions and the three ways to dial in any order; `origin` remembers the address it
started from and `peer` the id that was named, which a record has although its addresses
do not parse. That what the library prints it also parses is assumed of the library (`Show`)
and not shown: the properties are about what the conversions of this crate keep.

### AddrWatch and `endpoint.rs`

`AddrUpdated` is the first poll of `addr_updated`: a new watcher that knows the
address of the moment (`base`). `AddrUpdatedResolves` is its completion, when the
address is another one or the watcher is disconnected. The watcher of iroh compares
values: an address that has come back to `base` in the meantime is no change.
Whether and when the library disconnects its watchers after a close is left open
(`Disconnect`). `WarmUpEnds` ends the task that `bind_with` spawns. The endpoint is
closed by `shutdown` or when nobody holds it (`Release`): the Kotlin object, the
task and calls in flight do.

The client uses the two accessors in one of two orders: as the project's README
has it, a snapshot and then a loop of `addr_updated`; or with a snapshot taken while
each `addr_updated` waits.

## Runs

| run | instance | shows |
|---|---|---|
| `stream_safety` | 2 + 2 calls, lengths 0 and 2, window 3 | messages and reads are never mixed; a reported end is complete; a torn write has an outside cause; halves close between calls |
| `stream_serial` | 3 + 1 calls, length 2, window 2 | the stream implements `SerialStream`; `stopped() = None` means delivered, and the end of the connection takes nothing away that was acknowledged |
| `stream_calls_return` | 2 + 2 calls, length 2, window 1; a write with `finish`, `stopped` or `reset` beside it, a `recv` or `read_to_end` with `read_exact` or `stop` beside it | a peer that stops or drains the stream releases every sender; end, reset and loss release whoever waits for data or queues for the mutex |
| `stream_stop_deadlock` | 1 + 2 calls, one thread per endpoint | violated: `stop` (and `reset` likewise) waits for the call it is to abort; on the thread of a pending `recv` it deadlocks, even though the connection is eventually lost |
| `endpoint` | `connect`, `connect_conn`, `accept_next` and `accept_conn` | one taker per connection, no orphans, no close under a live handle; dials return, shutdown releases accept calls |
| `endpoint_closed_accept` | 1 dial, 1 accept call | violated: an accept call in a handshake fails when the endpoint closes |
| `addr_exchange` | 2 ids, relays, IPs, 1 other transport | conversions keep the peer reachable, in what is handed on and in what is dialed, and settle |
| `addr_converges` | 3 addresses, 3 changes, 1 relay disconnection, 1 call, both orders | reading while watching misses nothing; a disposed endpoint closes |
| `addr_loop` | 3 addresses, 2 changes | violated: the loop of `addr_updated` ends with an old address |
| `connection` | 2 calls on one side, 1 on the other, 10 combinations of methods, limits and buffers of 1 | the `closed: ` token, close codes, streams and datagrams are right on both sides; calls return once the connection ends, also an open that waits at the stream limit |
| `endpoint_bind` | 2 threads, 2 bind calls, 5 option sets, 2 keys, 1 signature checked with 2 data, 1 restart | the context does not change under an endpoint; one id per identity; signatures verify; endpoints find each other; installs return and disposed endpoints go away |
| `android_context` | as `endpoint_bind` | violated: after a first install that failed, endpoints are bound without the context |

Bounds. Every call is made at most once, so the number of calls bounds the run;
two on a half are enough for one to overtake, tear or block the other, and for a
third party to be the peer; `stream_serial` has three, a write, a `finish` and a
`stopped`. The liveness of streams is explored with two calls on each half, of methods
that wait for the peer and methods that queue behind them (`OneWriterOneReader`), that of
the endpoint with one call of each kind. Length 2 lets a call be half-way; length 0 is the
boundary of every length argument, and as a limit of `read_to_end` it is
exceeded. The window is smaller than what two calls write, so that writers block.
`VarIntMax` stands for 2^62 - 1 and the codes tried are it and its successor. The
instances are symmetric in the calls of a half when each has a thread of its
own; liveness runs use no symmetry. The addresses of `AddrWatch` differ in the
relay, in the direct address and in both; three changes are enough for one before,
one during and one after a call. In `connection` a scenario
says which method each call is of (`SomeScenarios`): two calls of a side compete for one
stream, one datagram, one place in a buffer or the one stream that their side may have
open, streams of two kinds and in both directions overlap, and `closed` waits beside the
others; all shutdowns have one code there, which differs from that of a close by the last
handle. In `endpoint_bind` one call makes an identity and the other takes it up after
the restart, or makes another one; which fresh key is generated does not matter
(`FreshKey`), and one signature is checked against every id, with what was signed and with
something else. Deadlock is not checked: when all calls have
been made and returned there is nothing left to do.

Since a call is made once, that all calls return is the same as that a time comes when
none of them is under way; the liveness properties have this form, which TLC checks in
one pass.

Fairness. A future that can make progress is polled again (its waker is called
and the dispatcher has a thread), and the network delivers while the connection
lasts: weak fairness per call and for the network. Nobody is obliged to call,
cancel, dispose of or close anything. A handshake that does not finish times out
(`Timeout`), since the library bounds it, and a close of the endpoint reaches each of its
connections (`CloseReaches`); an established connection may last for
ever, except in `stream_stop_deadlock`, which grants that it is eventually lost
to show that not even this helps.

The client of `AddrWatch` goes on as long as it holds the endpoint and cancels
what it has left after disposing of it; no relay has to connect. In
`IrohConnection` a side that hears nothing of the other any more gives up after its
idle timeout (`PeerGone`), and datagrams in its buffer are sent as long as it has not
(`Transmit`); none has to arrive, and no application has to open, accept or close. In
`EndpointBind` threads that install the context run, the warm-up task is polled and
what nobody holds is dropped; relays need not be reachable, nor binds succeed.

The violated runs are the `findings`: each states a sentence of the source's
documentation and shows a behaviour of the code that departs from it. Smaller
differences are in the model without a run of their own: `accept_next` returns
only when the peer has written to the stream it opened (`AcceptsBi`);
`ticket_from_endpoint_addr` is the inverse of `endpoint_addr_from_ticket` only for
tickets with at most one relay (`FromIroh`); `addr_updated` returns at once, without a
change, when its watcher is disconnected (`AddrUpdatedResolves`).

## Proofs

`IrohStreamProofs` proves, for any finite or infinite set of calls, any lengths,
any window and any assignment of calls to threads:

* `TypeCorrect`: the type invariant, including `Len(taken) <= arrived <= Len(wire)`;
* `WritesStayTogether` and `ReadsStayTogether`: contiguity of writes and reads;
* `HalvesCloseBetweenCalls`: the action property `ClosesBetweenCalls`;
* `TornWritesAreExplained`: a write that fails half-way has an outside cause;
* `StoppedNoneIsDelivery`: `None` from `stopped` means delivered;
* `EndIsEverything`: a reported end comes after every byte of every `Ok` write;
* `ConfirmedIsReadable`: the action property `AcknowledgedIsReadable`;
* `MutexIsPassedOn`: while calls are queued for a mutex, one of them owns it.

The only assumptions of `IrohStreamProofs` are that the two sets of calls are disjoint and that lengths
are natural numbers.

Contiguity is not inductive: it says nothing of who may write next. `IInv` adds
that of two calls queued on a half one is ahead of the other and only queued
calls are ahead of anybody (`QueueOK`, hence at most one owner: `UniqueOwner`);
that a call with bytes moved owns its mutex while in flight (`DoneOK`); and that
the last byte of the sequence is its (`BytesOK`). Then a step that appends bytes
either continues the last run or starts the first run of its call (`BytesMove`).
`StepShape` reduces the actions to five shapes (idle, a call starts, ends, writes,
reads), so that each part of `IInv` is shown once per shape.

The theorems on torn writes, `stopped`, the end and what is confirmed are about results
handed out in the past, and rest on a second invariant on top of `IInv`. `RInv` adds that a write under way is on an open half
(`SendOpenOK`, which needs `BetweenCalls`: halves close only between calls); what
each signal that has arrived implies (`SignalsOK`: the FIN follows the last byte,
after it nothing is written, an acknowledged half is not reset); and what each
result implies (`ResultsOK`). `ResultStep` says what holds when a result is given,
`Settled` and `Monotone` that no later step takes it back. `CountOK`, that the
bytes of a call on the wire are as many as it has written, closes the argument
for `EndIsEverything`. `ConfirmedIsReadable` needs `RInv` in the state before the step: a
`None` from `stopped` means that the FIN has arrived, so that a `recv` fails neither for
the loss of the connection nor for a reset (`RecvError` says what else could fail it).

`MutexIsPassedOn` is the safety half of the liveness properties: nobody waits for a mutex
that nobody has. `LineOK` adds to `IInv` that the queue is transitive and finite; a finite
line has a first (`FirstInLine`, from the well-foundedness of strict inclusion).

`SerialStreamProofs` proves `StreamSerializes`: `IrohStream` implements `SerialStream`. The
invariant is `RInv`, and there is one lemma per action, which names the abstract step
it takes: a byte written is a `Push` and bytes read are a `Pull` (with or without the
return of the call); `finish`, `reset` and the disposal of the send half are a `Close`;
`stop` and the disposal of the receive half are a `Quit`; the end of the stream is a
`TellEnd`, the confirmation a `Confirm`, any other result a `Finishes`; queueing, going
to wait and all of the network are stutters. Three facts carry it. Whoever moved the
last byte and has not returned owns the mutex (`LastMover`), so it is the turn of the
call that owns it (`OwnersTurn`). A half closes when nobody is in the middle of moving
bytes (`BetweenCalls`), so it closes between runs (`NoRun`). A confirmed half is
acknowledged or was reset, and neither can be reset any more (`SignalsOK`), so nothing
confirmed is taken back.

`IrohEndpointProofs` proves the four invariants of `IrohEndpoint`, for any number of dials
and accept calls: `EndpointTypes`, `EndpointExclusive`, `EndpointNoOrphans` and
`EndpointKeepsAlive`. Who owns a connection is spread over the
dial, the accept queue, the accept call that took it and the objects of two
applications, so none of them but the types is inductive. `EInv` adds:

* `NearInv`: on the dialing side objects come from a dial that returned, and somebody
  holds whatever is alive;
* `QueueInv`: the queue has each connection once and none that was taken, and a call
  that has taken nothing yet has nothing; `ExclusiveDelivery` needs it at the step that
  takes the head of the queue;
* `FarInv`: the same as `NearInv` for the accepting side, from the handshake on;
* `DropInv`: the side for whose sake a connection was dropped has let go of it and
  cannot get hold of it again, because its dial, or the one call that took the
  connection, is over. Without it an accept call could return a handle to a connection
  that was closed for want of handles.

Assumed: the name for "no connection" is none of a dial's.

`IrohConnectionProofs` proves the four invariants of `IrohConnection`, for any calls on the
two sides, any methods, codes, stream limit and buffer sizes: `ConnectionTypes`,
`ConnectionToken`, `ConnectionReasons` and `ConnectionTakenOnce`. `CInv` adds:

* `CallInv`: a call has a value only if it returned;
* `CloseInv`: a side that has sent a CONNECTION_CLOSE has closed, hence sends one only,
  and what a side says of the other is what that one has sent, also in the results of
  `closed` that were handed out earlier;
* `StreamInv`: accepted streams are below the mark of their lane and differ;
* `DatagramInv`: a datagram is in one place at a time (a send buffer, the air, an inbox,
  or with its reader) and was sent by a call of the other side that was not refused.

`TakenOnce` says only that the readers differ; that a datagram still in a buffer has no
reader yet is what makes it inductive. Assumed: calls belong to one of the two sides,
codes are natural numbers, and buffers hold at least one datagram.

`AddrExchangeProofs` proves type correctness (`ExchangeTypes`) and the two properties of
`AddrExchange` for all sets of ids, relays and addresses: `ExchangeKeepsReachability` and
`ExchangeSettles`. `RecordOfAddr` says what one round trip
through the record leaves (`Flat`), `FlatKeeps` that this is the same peer and that a
second round trip changes nothing. `AInv` adds to the properties that an address
which has been a record is flat, and that whatever still names an endpoint names the
first one (`NamedOK`). Assumed: a malformed string stands for no value.

`AddrWatchProofs` proves `WatchTypes`, the type invariant, which is inductive as it
stands, and `WatchFirstMissesNothing`, the safety half of `ViewConverges`: a client that reads
`addr()` while `addr_updated` waits is not out of date while nothing is there to wake it,
except for an address that came back to what it was. `WatchInv` compares the number of
changes with that at the time the watcher was made.

`EndpointBindProofs` proves the safety properties of `EndpointBind`, for any threads,
calls, keys, options and number of restarts: `BindTypes`, `ContextFirst`,
`IdentityIsStable`, `SignaturesAreGood` and `LookupsAlwaysMeet`. `BindInv` is the
inductive invariant:

* `ContextInv`: one thread at most runs the closure of the `Once`, and whoever is past the
  `Once`, or binds, is past a finished closure; `ContextFirst` needs it before the step;
* `KeysInv`: the key of an endpoint, in storage or in the options of a call under way
  is a key of the identity it is used for;
* `FreshInv`: a call without a key is to make an identity of its own, which has no id
  so far; without it an endpoint that generates its key could add a second id;
* `IdsInv`: every id is that of a generated key, so that a fresh key has a fresh id;
* `EndpointInv`: an endpoint has the lookups of its options, and is there only while
  its call is bound or disposed;
* `SigsInv`: a signature was made with a key of the identity that signed.

Types depend on `KeysInv` (a key is a key because it was one when it was saved). `NewIds`
is the heart: a step adds an id only together with a newly generated key. Assumed:
two secret keys have different public keys; the preset resolves what it publishes; a
key that an application passes and that did not come from storage is one that does not
fit.

Every invariant and every action property that a run checks, and the refinement, is
stated by a theorem. What is checked by TLC only is liveness (`StopReleasesSenders`,
`DrainedWritersReturn`, `LossReleasesEveryone`, `EndReleasesReaders`,
`DialsReturn`, `ShutdownReleasesAccepts`, `ViewConverges`, `DisposedIsClosed`, `CallsReturn`,
`InstallsReturn`, `DisposedIsReleased`): fairness and ENABLED are out of the prover's reach.
The four violated properties are refuted by TLC's counterexamples.

## Plan

1. Proofs: the safety halves of the liveness properties, as `WatchFirstMissesNothing` is
   one of `ViewConverges` and `MutexIsPassedOn` of the streams' calls: what an accept call, or
   a call on a connection, that waits is waiting for.
2. The two directions of an `IrohStream` that share the threads of an application.

## Not modelled

`rtt_ms`, `paths`, `conn_type`, `remote_info`, `direct_addresses`, `home_relay`,
`bound_sockets`, `max_datagram_size`, `remote_id`, `alpn` and `stable_id` turn a snapshot of the
library's state into text or numbers and change nothing; what they show is the
library's. Byte values, message texts and logging do not matter to any property.
Memory is not modelled (`recv` and `read_exact` allocate their buffer before they
read). Cryptography is symbolic. Build files and CI are outside the program.
