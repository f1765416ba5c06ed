# A TLA+ development of busylib-go

`busylib-go` is a Go client for the BUSY Bar device: HTTP over the local network,
the same HTTP API tunnelled through MQTT, a live status stream over either, a USB
command line, snapshots of the device state, and media conversion.  This directory
models the parts of it that are concurrent, long-lived or that have to survive
failures, checks them with TLC on small instances and proves the central ones for
every instance with TLAPS.

Every definition is translated from the Go source; `PROJECT.json` ("map") gives the
lines.  Line numbers below are those of the modelled commit.

## 1. The system and its parts

| Component | Source | State it keeps | Operations | Model |
|---|---|---|---|---|
| Remote HTTP round tripper | `remote/http.go` | `mu`, `pending`, `subscription`, `closed`, `inflight` | `RoundTrip`, `receive`, `subscriptionFailed`, `close` | `RemoteHTTP`, abstract `RoundTrips` |
| Shared stream state | `internal/streamstate/state.go` | `started`, `finished`, `finalErr`, `status`, the three channels | `Begin`, `StopBeforeStart`, `SetStatus`, `Deliver`, `Finish`, `Wait` | `StreamState`, `StatusChannel` |
| Stream contract | `stream/types.go` | - | the `Stream` interface | abstract `StreamContract` |
| Local status stream | `internal/statusstream/stream.go` | `cancel`, `conn`, `clean`, attempts, watcher | `Start`, `run`, `Stop`, `RequestSnapshot` | `LocalStream` |
| Remote status stream | `remote/stream.go` | `activated`, `subscription`, `stopErr`, `closeErr`, lease timer | `Start`, `run`, `Stop` | `RemoteStream` |
| Paho transport | `pahotransport/transport.go` | `subscriptions`, the loop's `broker` map, wake-up tokens, `operations`, retry timer; per subscription a buffer, `done`, its error | `Dial`, `Subscribe`, `Publish`, `route`, `Receive`, `Subscription.Close`, `reconcileLoop`, `Close` | `PahoTransport` (topics), `PahoDelivery` (messages) |
| Remote client | `remote/client.go` | `active`, `closed` | `NewStatusStream`, `Close` | `RemoteClient` |
| Version cache | `version.go` | cached version, in-flight request and its waiters | `APISemVer`, `RefreshAPISemVer` | `VersionCache` |
| Request execution | `request.go`, `body.go`, `response.go`, `internal/api/metadata.go` | per execution: header, attempts, retried; per body: used, measured length | `Prepare`, `preparedExecution`, `executePreparedWith`, reading the answer | `RequestPreparation`, `RequestExec` |
| USB session | `usb/session.go`, `usb/protocol.go`, `usb/client.go` | `opMu`, `closed`, the connection and its deadline | `Open`, `SendCommand`, `StreamCommand`, `Reboot`, `Close` | `UsbSession` |
| Snapshot | `snapshot/*.go`, `internal/statusdecode` | merged sections with values and errors | `Collect`, `NewStore`, `Store.Snapshot`, `Store.Apply` | `SnapshotFields`, `SnapshotStore` |
| Display frames | `frame/frame.go` | the cursor of a decoding | `FromHTTP`, `FromProto`, `Pixels`, `RGBA` | `FrameDecoding` |
| Animations | `convert/animation` | record and write cursors of a pass | `EncodeRGB888`, `EncodeImages`, `ConvertZIP` | `Animation` |
| Images | `convert/image.go` | - | `Image` | `ImageFitting`, `LimitedReading` |
| Audio | `convert/audio` | what the goroutines of an ffmpeg run share | `Convert` | `AudioConversion`, `LimitedReading` |
| Busy service | `busy.go` | none; the device keeps the timer | `SetProfile`, `Snapshot`, `SetSnapshot` and their validation | `BusyTimer` |
| Other device services | `update.go`, `storage.go`, `display*.go`, ... | none | one validated request each | not modelled |
| Options, client construction | `client.go`, `options.go`, `*/options.go` | none | validation | not modelled |
| Contract tooling | `internal/api` | tag resolved, files read | `LoadContractFile`, `Validate`, the firmware check | `ContractFacts`, `ContractCheck` |
| Generated code, `internal/docscheck` | `proto` | none | - | not modelled |

How they interact.  The application calls a `Client`.  A local client sends HTTP
requests and opens a WebSocket for its status stream.  A remote client puts
`http.go`'s round tripper under the same HTTP client: a request becomes an MQTT
publication, its response arrives on one shared subscription and is matched by a
correlation identifier.  Its status stream (`remote/stream.go`) has a subscription
of its own and asks the device to stream by a publication that grants a lease.
Both use a `remote.Transport`, of which `pahotransport` is the implementation the
repository ships; that one multiplexes every subscription over a single
reconnecting broker connection.  Both streams keep their lifecycle, status
snapshots and message queue in `streamstate`.

Every request of a client, local or remote, carries the API version the device
reported; callers share one fetch of it (`version.go`), and a 405 makes the request
fetch it again and go out once more (`request.go`).  A `Store` merges what `Collect` read
over HTTP with the messages of a status stream.  The USB session, the converters and the
contract checker stand alone.

What is hard here: goroutines that share a mutex and hand results over through
channels of capacity one; a mutex held during a network call; sends made outside
the lock from a map taken inside it; `select` with several ready cases; retries
and renewals racing `Stop`, `Close` and cancellation; calls that fail for the
caller and take effect all the same; wake-ups that coalesce; a map that describes a
broker session which no longer exists; a slow consumer; a fetch that
belongs to nobody in particular; a deadline that a goroutine moves while the command it
belongs to ends; one state that arrives over two wires in two encodings, with failures in
between; values that share memory after they were copied; input that is read twice and may
differ the second time.  The full list, with the
line each one bites at and the property that covers it, is `PROJECT.json`
("hazards").

## 2. Modules

```
RoundTrips     <--implements--  RemoteHTTP   <-- RemoteHTTP_proofs
StreamContract <--implements--  LocalStream  <-- LocalStream_proofs
               <--implements--  RemoteStream <-- RemoteStream_proofs
StreamState    <--EXTENDS--     LocalStream, RemoteStream
VersionCache   <--EXTENDS--     RequestExec  <-- RequestExec_proofs
UsbSession                                   <-- UsbSession_proofs
PahoTransport                                <-- PahoTransport_proofs
StatusChannel                                <-- Snapshots_proofs
SnapshotFields <--EXTENDS--     SnapshotStore <-- Snapshots_proofs
Parts: RemoteClient (over RoundTrips and what StreamContract says),
       PahoDelivery, RequestPreparation, BusyTimer, Animation, FrameDecoding,
       ImageFitting, AudioConversion (LimitedReading),
       ContractCheck (ContractFacts)                   <-- Parts_proofs
```

`MC<Module>` extends a module for TLC; the `.cfg` files give the constants.

`Parts` puts nine small parts that share no state side by side: each has its own
variables, `Init`, `Next` and a value of rest (`...Idle`), and a behaviour of `Parts` is
one of them at work while the others rest.  So one run covers them all, and a part can be
read alone.  `MCParts` gives the inputs of two of them, the spellings of paths and the ways
the firmware may differ.

Most modules also hold the plausible mistakes that the mutants of `PROJECT.json` ("as") put in
place of a definition; no specification uses them.

### RemoteHTTP (`remote/http.go`)

One process per `RoundTrip` call (`pc`), one per receive goroutine (`rcv`), and
`Close`.  `mu = r` means request `r` holds `r.mu` across a transport call:
`ensureSubscription` holds it while it subscribes (lines 128-151) and `publish` while
it publishes (119-126), so every other critical section has the guard `mu = None`.
Critical sections that make no call are one action.  `pending`, `inflight`, `closed`
and `cur` (the current subscription) are the fields of the round tripper.  A result
channel has capacity one: `full` is the set of requests whose channel holds a result,
and `hand[g]` the requests whose entry goroutine `g` has taken out of `pending` and
not yet answered, so that the sends made outside the lock interleave with everything
else.  `CloseBegin` sets `closed` and takes both the subscription and `pending`;
`CloserSends`, `CloseSubscription` and `CloseReturns` are the rest of `close`, which
waits for `inflight`.  The device answers a publication up to `MaxCopies` times (at
least once delivery), late, or never; an entry's correlation identifier is its
request.

`RoundTrips` is the abstract promise: a call is either refused or runs and returns;
calls start only while the gate is open; Close ends when the last has returned.
`ImplementsRoundTrips` is the refinement.

### StreamState and StatusChannel (`internal/streamstate/state.go`)

`StreamState` has one operator per method, used as a conjunct of the action of the
stream that calls it.  The status snapshot is a record of lifecycle, access, data and
"a device state has been seen" (`LastStateAt` is set); errors are their causes.
`Deliver` is `Enqueue` (there is room) or `Refuse` (there is not).

`StatusChannel` opens up `publishStatusLocked` (141-155): three `select`s, between
which the consumer may take the snapshot out of the one-slot channel.  Writers hold
`mu`; snapshots are numbered.  It also contains `Finish`, which publishes the terminal
snapshot and closes the channel.

### StreamContract

The `Stream` interface as a state machine: it starts at most once, holds something
(a connection, a subscription) and delivers only while it runs, and ends only when it holds nothing
any more, with a result that never changes.  It may lose a message to a full queue
(`Lose`), but not silently: nothing is delivered after that, and the result says so
(`ErrStreamMessageDropped`) unless the context ended too (`over`).

### LocalStream (`internal/statusstream/stream.go`)

The driving goroutine (first the caller inside `Start`, then `run`) goes through
`connectWithRetry`, `readConnection` and the verdict in `run`; around it act the
staleness watcher, the callers of `Stop`, one `RequestSnapshot`, the consumer, the
peer and the caller's context.  Connections have identities, so the model tells the
current one from those of earlier attempts.  The single 405 refresh inside
`connectOnce` (389-395) is the `DialIncompatible` action.

### RemoteStream (`remote/stream.go`)

The driving goroutine again, with a receive goroutine per subscription (`rcv`,
`passed` being its channel of capacity one), the callers of `Stop`, the context, the
transport, the consumer and the device.  `leased` says whether the device streams: a
start publication sets it, a stop publication clears it, and it may expire.  A
publication that fails for the caller may have been carried out or not, for starts
(`Publish(FALSE)`) and for the stop (`PublishStop`).  `finish` is split where
others can see it: the stop publication, `release` (which clears the client's
`active` slot), then `Finish`.  `Received(c)` hands on the message in the channel of
subscription `c`; the loop calls it for the current one only, and a message its receive
goroutine left in the channel of an earlier one stays there.  `heard` is a history variable,
the subscription the data shown came over, so that `FreshIsCurrent` says that fresh data
never comes from such a leftover.

### PahoTransport (`pahotransport/transport.go`)

Each item is one local subscription with the caller that subscribes and later closes
it.  The reconcile loop takes one wake-up at a time (an operation, the reconnect
token, the reconcile token or the retry timer), computes the wanted set under the
lock and then calls the manager for each difference; `job` says with whose context.
`broker` is the loop's belief, `actual` what the broker really holds.  `failTopic`,
`failAll` and `remove` take items out of the map inside the lock and act outside it.
A connection loss empties `actual` (the session ends with the connection), and the
callback of the next connection leaves the reconnect token.  Items in `Slow` may be
evicted by `route`.

A SUBSCRIBE or UNSUBSCRIBE whose call was given up may take effect all the same
(`Abandoned` says which of the two).  `unheard`, a history variable, holds the topics the
broker dropped that way on a session that still stands, while the loop believes them
subscribed.  A `Subscribe` to such a topic gets no SUBSCRIBE and no message (section 6), so
`OpenIsSubscribed` names it as the one exception, and `SubscribeTakesEffect` is the
documented promise without the exception.

### PahoDelivery (`pahotransport/transport.go`, messages)

What travels over an established connection to the subscribers of one topic: `Route` takes
the subscriptions under the lock, `deliver` has its two `select`s (`Examine`, then a send
to the buffer, a full buffer, or `done`), a consumer's `Receive` has the same two, and
`Subscribe`, `Close`, `failTopic`, `Publish` and `Dial` with its failure path run against
them.  `owed` is the history of packets routed while a subscription was listed, `got`
what its consumer has.

### RemoteClient (`remote/client.go`)

The client above its two users of the transport, each taken at what it promises: a stream
is created, runs, holds something, gives everything up, releases the client and ends
(the phases `RemoteStream` has, whose order `KeepsContract` and `ReleasedIsSilent` state and
prove), and the round tripper is the gate `RoundTrips`.  `Close` reads the active stream
under the lock and stops it outside; several callers of `Close` share one run of it.

### VersionCache and RequestExec (`version.go`, `request.go`, `body.go`)

`VersionCache` has one operator per critical section of `version.go`: a caller of
`APISemVer` finds the value (`Hit`), joins the flight (`Join`) or launches one
(`Launch`); `Release` is a waiter leaving, `Land` the flight's goroutine publishing
its result, which a flight that is no longer `versionInFlight` does only to its own
waiters.  The device answers a fetch at one moment and the answer is used at a later
one, with firmware upgrades and a concurrent `RefreshAPISemVer` in between, so that a
stale value may overwrite a newer one.

`RequestExec` is `preparedExecution` and `executePreparedWith` over it.  `local[c]`
holds the locals of an execution (version header, attempts, retried, the reply under
way) and is reset when it returns.  Several callers may execute one prepared request;
a `ReaderBody` opens once for all of them (`used`).  A transport may fail before or
after the device has carried the request out; a device that speaks another version
than the header answers 405 and does nothing.  `waitForVersionRefresh`'s cancelled case
and `releaseVersionWaiter` are one action: between them the caller does nothing that
others see, and the case may be taken with the flight done.

### UsbSession (`usb/session.go`)

A call goes through `Begin` (`opMu`, `ensureOpen`, `setDeadline`), the write, the
reads up to the prompt, and `Stop` (the stop function `setDeadline` returns, then
the unlock).  Interrupting a stream is `Interrupt` (deadline reset, ETX) and the reads of
`RecoverMore`.  `hook[c]` is the `context.AfterFunc` of a call: it may start when the
context is over, and moves the deadline of the connection to the past a step later;
the stop function waits for one that has started (`session.go:204-214`).  Bytes are tokens
that remember their command, and the prompt is two tokens, since a read may end inside
it.  The device works through what it is sent: it prints, ends by itself, or is ended
by ETX.

Two assumptions about the firmware matter.  ETX at the prompt prints nothing: with a
device that prints another prompt there, a stream that ends by itself as it is
interrupted leaves a stray prompt behind, which would end the next command, so
`OpenIsAtPrompt` fails; the code has no way to tell.  And a context whose deadline
passes may be noticed by the connection first: the read then fails with `ctx.Err()`
still nil, and the session is closed rather than recovered (`session.go:121-125`).

### SnapshotFields and SnapshotStore (`snapshot/`, `internal/statusdecode`)

`SnapshotFields` is the data: what a section holds, how the firmware renders a device
state over HTTP (`Answer`) and over the stream, how each is decoded, what a copy and a
comparison do (a copied empty slice becomes nil).  Wi-Fi, BLE, power and brightness have their
own shapes; other sections hold one of two values.  HTTP carries less than the stream: no
actual brightness, and one Wi-Fi address without gateway and netmask where the stream has
any number with both.  `Common` is what both carry; the firmware is taken to give HTTP the
first address it gives the stream.  `SnapshotStore` is the life of it:
`Collect` one endpoint at a time while the device changes, with failing endpoints and
cancellation; `NewStore`; `Apply` and `Snapshot`, each one critical section of `Store.mu`.
What a pointer, a slice or a protobuf message refers to lives in a cell, `at` says who
allocated it, and the application may write through every cell it can reach.  `CaughtUp`
has two levels accordingly: a section the stream has updated is the device's in all the
stream carries, one that comes from HTTP only in what HTTP carries.

### ContractFacts and ContractCheck (`internal/api`)

`ContractFacts` lists the facts of the receipt, those `Validate` pins, and those the
checker looks for, file by file in its order.  `ContractCheck` loads the receipt, resolves
the tag, reads each file once (each a git call, between which the tag may be moved) and
gives its verdict.  Any git call may fail (`Load`, `GitFails`); the program prints such an
error, an unresolvable tag included, under the same "firmware contract drift" as a
disagreement, and so does the model.  `Differences` says in which facts the receipt and the
two revisions of the tag differ from the client.  Comparing a text with a marker is one
comparison of values.

### RequestPreparation (`request.go`, `body.go`, `response.go`, `internal/api/metadata.go`)

`Prepare` with `canonicalAPIPath` over a path as its text split at every slash, empty
segments kept (`Spelling` is the set of texts callers give), the remote blocklist and the
credentials; `prepareBody`'s length; each attempt's opening of the body, which may have
changed since it was measured; `ProgressBody`; and reading the answer under its limit.

### BusyTimer (`busy.go`)

The validation of settings and snapshots, the device that runs what it accepted (counting
down, alternating work and rest), and an application that reads a snapshot, changes it and
writes it back while the timer goes on.

### Animation, FrameDecoding, ImageFitting, AudioConversion (`convert`, `frame`)

`Animation` has both passes of the encoder: the first counts records and pixels to size
the output, the second writes it, an action per frame; an image may draw itself
differently the second time.  `FrameDecoding` decodes a payload an action per run, and says
which bytes `RGBA` reads.  `ImageFitting` has the limits, the scaling and the crop with
exact sizes.  `AudioConversion` has the parties of an ffmpeg run: the source's goroutine,
the one that fills the limited output, the tool and the context; its verdict depends on
which of them ended first.  `LimitedReading` is reading one unit beyond a limit.

## 3. Runs

Constants that only bound a run are listed with the run; all others are the code's.

| Run | Shows | Bounds |
|---|---|---|
| `remote_http` | no waiter is lost, result sends never block; refinement of `RoundTrips`; cancelled callers leave, a failed subscription releases its waiters, Close returns | 2 requests, 2 subscriptions (one failure and one replacement), 1 copy of a response |
| `local_stream` | one connection at a time, freshness belongs to the current connection, refinement of `StreamContract` (no silent loss); `Stop` returns, `Start` ends | 2 connections, 1 `Stop` caller, 2 attempts, queue of 1 |
| `remote_stream` | a clean end has stopped the device; the client slot is released only by a silent stream; freshness; refinement of `StreamContract` | 2 subscriptions, 1 `Stop` caller, 2 attempts, queue of 1 |
| `status_channel` | the latest snapshot is never lost, the terminal snapshot is seen | 2 writers, 6 writes |
| `paho` | live subscriptions are never forgotten, open means subscribed (one exception), no wake-up lost | 3 items on 2 topics, any pair of which subscribes except the third with the second, 1 connection loss, 1 slow consumer, either request given up, no Close |
| `paho_unheard` | a disagreement, see section 6 | as small as shows it |
| `paho_live` | Close and every caller return with a broker that hangs; convergence with one that answers | 1 item, 1 connection loss |
| `requests` | nothing unsafe is carried out twice, a body that opens once is sent once, a shared fetch lives as long as somebody waits for it, 405 reaches a caller only after an upgrade during its call | 2 callers, any of 3 requests, 2 attempts, 2 upgrades, 2 shared fetches |
| `usb_session` | an open session is at its prompt, answers and deadlines belong to their command; `Close` and cancellation get a blocked command out | one stream, one command, one reboot, 1 output per command |
| `snapshot` | the Store's state is its own, changes are reported exactly, both wires decode to one state, failures stay until an update | 5 sections (one of each shape), 2 device changes, 1 failing endpoint |
| `snapshot_wifi` | a disagreement, see section 6 | 1 section, 2 device changes (two equal updates) |
| `parts` | the properties of the nine parts, below | below |

The properties of `parts`: `ClosedOwnsNothing` (2 streams, 2 requests, 2 callers of
Close), `NoGap` (1 subscription with room for 1 message, 3 packets, 1 `Publish`),
`SentAsPrepared` (bodies of at most 2 units; 16 spellings, with empty segments at the start,
in the middle and at the end, singly and doubled), `SnapshotReturns` (limits scaled to 1-3
units and 2-3 cycles), `PlaysBack` (2 images, durations up to 3, up to 4 frames, 1 image
that changes), `DecodesExactly` (displays and the opcode's count scaled down, 2 runs, a
payload cut by up to 2 bytes), `FillsDisplay` (the real displays, source sides at, around
and at multiples of theirs), `ResultIsComplete` (a limit of 4 bytes, a tool that writes up
to 6, a pipe of 2), `VerdictIsTrue` (any one fact differs between the two revisions, or in the receipt too, or both
revisions differ, each in a fact of another file; the tag moves once; any git call may fail).  Scaling keeps which of two limits is met first, and both sides of
every limit are among the inputs.

Why the bounds are enough.  The hazards need two of a kind: two requests (one holds
the mutex while another is registered), two subscriptions or connections (the old one
and its replacement), two attempts (a failure and the attempt after it), two topics
(a foreign failure), two callers of one `Close`.  A queue of capacity one is full
after one message, which is the case that matters; the code's capacities only delay it.
One connection loss allows a reconnection with a stale map; a second one repeats it.
In `status_channel` six writes are more than the publish steps two writers
and a consumer can have outstanding.  `remote_http` has one copy of a response to leave
room for liveness; duplicates are covered by the theorems, which hold for any `MaxCopies`.
`Ends` and `Slow` switch the Paho transport's Close and evictions on.  `Abandoned` names the
requests that may take effect although their call was given up: both kinds in `paho`.
`Together` is a bound: the items of one of its sets take part in a behaviour.  In `paho` they
are pairs, one on a single topic (the second subscribes again to what the first has
unsubscribed, acknowledged or not) and one on two topics (a failure of the one meets the
other); the theorems have any set.

`requests` has as many flights as callers, since a caller begins once; it is safety
only and uses symmetry in callers and flights.  Two upgrades are needed for a second
405 (`OnlyUpgradeRejects` would be vacuous with one).  In `usb_session` one output and a
prompt in two pieces give every split of a read; the three calls come in any order, so
each follows an interrupted stream.  In `snapshot` two changes of the device give a section
that changes and changes back within a batch, and one changed before and after its endpoint
was read.

Identities that are used up (connections, subscriptions) stop further reconnections; the
runs of the concurrent components keep deadlock checking on, with an explicit action for
the states in which everything has ended.  A stream that ran out of identities can still
fail its remaining attempts and end.  `snapshot` and `parts` consist of calls
that simply end, so a state without successor is no deadlock there
(`CHECK_DEADLOCK FALSE`).

Fairness (only the liveness runs use it).  Goroutines that can run do (weak fairness
on the steps of the code).  Transport and manager calls return when their context is
over or their connection lost, and not otherwise.  Strong fairness stands where Go's
`select` picks at random among ready cases: a case that is ready again and again is
taken eventually (`reconcileLoop`'s channels).  No fairness is assumed of the device,
the broker's answers, the consumer, cancellation or timeouts; `Converges` has its
assumption about the broker and the connection in its own premise.  In `UsbSession` time passes
(`Expire`) and a read returns once its deadline has; the device owes nothing.  In `RemoteHTTP`
transport calls return (the transport's own timeouts end them).

## 4. Proofs

Eight modules hold theorems; all of them follow one pattern.  `IInv` (where a module proves
about several components, `StoreInv`, `ChannelInv`, `ClientInv` and so on) is an inductive
invariant, a conjunction of named parts; one lemma per part, or per action, shows that
every step keeps it; `Invariance` combines them, and the properties the runs check follow
from it.

- `RemoteHTTP_proofs`, for any finite or infinite sets of requests and subscriptions and
  any `MaxCopies`: type correctness, `NoWaiterForgotten`, `SendNeverBlocks`,
  `PendingHasReceiver`, `ClosedIsQuiet`, `CloseDrains` and the refinement
  `ImplementsRoundTrips`.  That a send never blocks depends on an entry having left
  `pending` before it is handed to a sender (`TransitInv`), that a pending entry has a
  receiver depends on which goroutine answers for which subscription (`ReceiverInv`) and on
  the order in which a request ensures the subscription and registers (`PendingInv`), and
  both on who may hold the mutex (`MutexInv`) and on what Close took with it (`CloseInv`).
- `LocalStream_proofs`: `OneConnection`, `FreshIsCurrent` and the refinement
  `KeepsContract`.  `ConnInv` says where each connection may be open and watched for each
  place of the driving goroutine, `DataInv` what the shown data means there, `LifeInv` how
  `started`, `finished` and the lost message go with it.
- `RemoteStream_proofs`: `FreshIsCurrent`, `CleanEndStopsDevice`, `ReleasedIsSilent` and
  `KeepsContract`.  `SubInv`, `DataInv` and `LifeInv` play the parts they play for the local
  stream; `LeaseInv` follows the lease: a stream that reads has been activated, only an activated one
  can end cleanly, and then its stop publication has silenced the device.
- `RequestExec_proofs`, for any finite set of callers (`FiniteAssumption`: a count of waiters
  needs one): `ExecutedOnce`, `OnlyUpgradeRejects`, `FlightIsShared`.  `FlightInv` and
  `CountInv` tie the flight in the cache to its waiters, `ExecInv` says that
  nothing more will be carried out of a request that is unsafe to repeat once it has been,
  `UsedInv` gives a body that opens once to one execution, and `UpgradeInv` says that the
  version fetched for the second attempt is the device's unless it was upgraded since.
- `UsbSession_proofs`, for any callers and any output: `OpenIsAtPrompt`, `ResponseIsOwn` and
  `DeadlineIsOwn`.  `MutexInv` ties `opMu`, the contexts' goroutines and the deadline to
  one call; `DeviceInv` says that while the session is open everything under way belongs to that
  call and comes in order: one line (`LineInv`), then its output, whose end is the prompt
  (`OutputInv`), and nothing at rest (`RestInv`).  So reading a prompt means having read
  everything.
- `PahoTransport_proofs`, for any sets of subscriptions and topics, any number of connection
  losses and any of `Slow`, `Ends`, `Abandoned` and `Together`: `LiveIsReachable`,
  `NoLostWakeUp` and `OpenIsSubscribed`.  `ListInv` says that whoever takes items out of
  the map fails them before it goes on, `LiveInv` that a live item can be reached, `CallInv` what a call to the
  broker is for, `JobInv` that the running job knows of every item that waits for its answer,
  `RestInv` the same of the loop's map at rest, `WakeInv` that the loop looks again wherever
  the map holds a topic without an item.  `BelievedInv` says that what the loop believes
  subscribed is so, except for the topics in `unheard`: an abandoned UNSUBSCRIBE is the only
  way for the two to part while a connection stands.
- `Snapshots_proofs`, for any set of the code's sections and any number of changes and
  faults: the action property `StoreIsPrivate`, `FailuresAccountFor`, `CaughtUp` and
  `ReportIsExact` (`ReportInv`: what `Among` selects, shown by induction over the list, is
  what the comparison of the Store before and after the batch finds).  Lemmas
  on the data come first: `WiresAgree` (what HTTP decodes to and what the stream brings of
  one device state are the same in what HTTP carries, `Common`), `CloneKeeps` (a copy
  means what its original means) and `Applied` (the last update of a batch wins).  `OwnCellsInv` gives each holder its own
  cells, `CollectInv` says what Collect has left on each section, `QueueInv` that the newest
  update on its way brings the device's state, and `NewsInv` that with none on its way the
  last holder agrees with the device, in everything for a section the stream has updated:
  `CaughtUp` alone is not inductive, since a message may
  bring an older state as long as a newer one follows.  For any set of writers:
  `LatestReachable`, `NoSendAfterClose` and `SeenInOrder` of `StatusChannel`.
- `Parts_proofs`, over `Parts`' own specification, so that each theorem names what the run
  `parts` checks: `ClosedOwnsNothing` of `RemoteClient`, from who owns the slot (`SlotInv`),
  what `Close` waits for (`CloseInv`) and how far the round tripper is closed (`GateInv`);
  `NoGap` of `PahoDelivery`, from who may be in the list of subscriptions (`ListedInv`) and
  where a packet can be between `Route` and the consumer (`SequenceInv`); `SentAsPrepared` of
  `RequestPreparation`, for any set of spellings (`SentInv`, `BodyInv`); `SnapshotReturns` of `BusyTimer` (`BusyInv`:
  the timer that runs is one the device may have been given); `ResultIsComplete` of
  `AudioConversion` (`PipeInv`: what the tool wrote is in the pipe or the buffer until that is
  exceeded; `PhaseInv`: who runs when); `VerdictIsTrue` of `ContractCheck`, for any number of
  moves of the tag, any failing git calls and however the receipt and the two revisions differ,
  with the facts and looks of `ContractFacts` (`ReadInv`:
  what was read is what was compared, each file from one revision the tag named; `LookedInv`:
  the looks so far have found what they look for).

  `FillsDisplay` of `ImageFitting`, for all sides of source and display and either rounding
  (`ImageInv`): each side is scaled, sampled and cut in a lemma (`ScaledSide`,
  `SampledInside`, `CutFromTheMiddle`), with products of variables named so that each leaf is
  linear.

  `DecodesExactly` of `FrameDecoding`, for any number of runs of any length: the bytes of the
  first n runs begin those of all of them (`Onward`, `NextRun`), so the loop has always
  decoded a number of whole runs and its cursor is behind them (`Behind`, in `FrameInv`).

  `PlaysBack` of `Animation`, for any number of frames.  What is written is shown by what it
  plays (`WriteOne`: a frame extends the last record, appends one or both, and the records
  go on playing it).  That the two passes count alike as long as no image changes is the
  hard half: `AnalyzeInv` and `WriteInv` say that what each pass has reached is an entry of
  one and the same sequence of loop states (`Counting`), so the second can neither exceed the
  number of records the first allowed nor stay below it.

The results fit together: `RemoteClient` takes the round tripper as `RoundTrips`, which
`Refinement` proves of `RemoteHTTP`, and a stream as the order of its phases, which
`RemoteKeepsContract` and `ReleaseIsSilent` prove of `RemoteStream`.

Assumptions: the named ASSUMEs of the modules, i.e. that the "nil" values are not
identities, that bounds are naturals (the longest duration of a record a positive
one), that callers are finitely many, and the types of the inputs (`Spelling`,
`Differences`).  TLC evaluates them in each run.

Only proved, checked by no run: the invariants (`IInv` and its like), `ClosedIsQuiet`,
`PendingHasReceiver`, `CloseDrains`, `NoSendAfterClose` and `SeenInOrder`.

Only model-checked, and why:

- all liveness (`CallsEnd`, `CallersReturn`, `CallsReturn`, `TerminalSeen`, `CloseCompletes`,
  `Converges`): the prover has no rules for fairness or ENABLED;
- the disagreements of section 6: a counterexample is all there is to show.

Every safety property and every action property that a passing run checks is also a
theorem.

Inductions.  The library's induction theorems take a predicate as a parameter, which the
provers here cannot instantiate; the proofs use induction on sets instead.  `LeastNumber`
(from `WFMin` and `NatLessThanWellFounded`: a set of numbers that is not empty has a least
one) gives `Induction`: a set with 0 that with n has n + 1 holds every natural.  A recursive
function (`FlattenSeq` of the community modules, `Among`) is first shown to exist up to
every n (`FlatExists`, `AmongExists`) by that induction, then to be what the definition
chooses (`FlattenIs`), and from there appending, length and membership follow
(`FlattenMore`, `FlattenTyped`).

## 5. Not modelled

- Payloads, topics as strings, header and envelope encoding, the precedence of correlation
  headers, logging, error texts and which of several errors `errors.Join` carries.
- Sample, colour and pixel values of the converters, image codecs, what ffmpeg writes to its
  standard error.
- Protobuf decoding: whether an update decodes, and to which section, is an input.
- The validators of display elements, storage paths, assets and names, and the device
  services other than Busy: each method is one validated request that keeps no state, so
  its concurrency is that of `RequestExec`, and its validation is a formula with no steps.
- Resolution of options and construction of the clients: sequential, without a state that
  outlives it.
- Generated protocol code and `internal/docscheck`.
- Time is a nondeterministic choice: a timer may fire whenever it is set.
- `guardedSubscription`'s own `sync.Once` (one close per subscription in the code that calls
  it); two subscriptions to one Paho topic in `PahoDelivery`, which share only the map.
- A start publication that the broker delivers after the stop that followed it: MQTT keeps
  the order of one connection.
- The slice of frames a caller passes to the animation encoder is taken to stay the same
  between the two readings; its images may change.

## 6. Where code and documents disagree

Two are runs that TLC must find violated (`PROJECT.json`, "findings"):

- `snapshot_wifi`: `cloneWiFi` copies the address slice with `append([]IPAddress(nil), ...)`
  (`snapshot/store.go:374`), which turns the empty slice `wifiFromProto` makes into nil, and
  `reflect.DeepEqual` tells the two apart.  Of two equal Wi-Fi updates without addresses the
  second is so reported as a change, though `snapshot/store.go:18` says that the sections
  reported are those "whose final values differ from their values before the batch".
- `paho_unheard`: an UNSUBSCRIBE whose call ends before its acknowledgment comes may have
  taken effect, yet the topic stays in the loop's map (`transport.go:391`).  A `Subscribe` to
  it before the retry finds it there (line 183), sends nothing and returns an open
  subscription, and the retry is dropped: nothing arrives on it until the next reconnection,
  though `transport.go:283` says "Subscribe creates one exact-topic subscription".

Others seen while modelling, without a run of their own:

- A context that ends during `Start` leaves the local stream in `LifecycleFailed`;
  `stream/types.go:80` says a stream ended by context cancellation is `LifecycleStopped`.
- A reconnect token handled after a removal clears the loop's map first, so the broker is
  never unsubscribed; `remote/transport.go:67` says "Close releases the subscription".
- `pahotransport/README.md:54` "restores active subscriptions after reconnection": a
  reconciliation runs with the context of the operation that woke it, and when that
  context ends while another topic is being restored, `failTopic` ends that topic's
  open subscriptions for good (`transport.go:180`, `:191`).
- `docs/getting-started.md:69` "one refresh and retry when the request method and body
  are safe to repeat": the compatibility retry asks only about the body
  (`request.go:316-329`), as `docs/reference/client.md:136` says.
- `docs/integrations/remote-mqtt.md:115` "Context cancellation bounds the caller's
  wait": `remote/http.go` holds `r.mu` across transport calls, so a cancelled caller
  may wait for another caller's call (`http.go:119`).
- `stream/types.go:106` "DataStale means the last device state is older than its
  freshness window": both streams also show stale data when no state ever arrived
  (`statusstream/stream.go:290`, `remote/stream.go:394`).
- `stream/types.go:24` "waits for owned resources to close": the receive goroutine of a
  remote subscription is not waited for, and when the stream ends by itself with a
  message still in its channel it stays blocked, as nothing cancels `runCtx`
  (`remote/stream.go:211-224`).
- `pahotransport/transport.go:103` "Close terminates subscriptions": one registered
  between `failAll` and `cancel` (lines 110-111) is terminated by nobody.
- A BLE or power state that the firmware may report ("internal error", unknown) is a value
  over the stream and an error over HTTP (`snapshot/collect.go:168`, `:356`), so what a
  section holds depends on the wire that came last (`SnapshotFields`).
- So it does for a connected Wi-Fi: HTTP gives one address without gateway and netmask
  (`snapshot/collect.go:315-335`), the stream every address with both
  (`snapshot/store.go:274-283`).
- The remote blocklist compares texts: `canonicalAPIPath` (`request.go:491-509`) keeps empty
  segments and `internal/api/metadata.go:23-25` strips one trailing slash, so `update//` and `//update` are
  other paths than the blocked `update` and are sent.  What a device makes of them is not in
  this repository; `SentAsPrepared` claims the exact path, with or without one slash at its end.
- `firmware-contract-check` prints "firmware contract drift" also when the tag does not
  resolve or a git call fails (`internal/api/cmd/firmware-contract-check/main.go:35-37`); and a
  tag moved while it runs can yield a match for files of two commits neither of which
  has every fact.
- A snapshot of the Busy service may name an interval its own settings do not have:
  `busy.go` bounds `current_interval` by the most cycles any timer has, not by the cycles
  in the snapshot.
- `audio.Convert` waits for a source whose `Read` blocks even after its context has ended
  and the tool is dead (`exec.Cmd.Run` waits for the copying goroutine).

## 7. Plan

One run answers several questions, so that the model stays quick to check; later work
deepens what is there before it adds any.

1. Liveness of `RemoteStream`: `Stop` returns under the fairness the local stream has.
2. A refinement that ties `PahoDelivery` and `PahoTransport` to one specification of the
   broker's promise.
3. `RemoteStream` and `RemoteHTTP` over `PahoTransport` instead of a transport that may do
   anything: what a client loses while the broker connection is restored.
4. The validators of display elements and storage paths against reference definitions.
