# libatbus-go: a TLA+ verification development

libatbus-go is a message bus between processes. A process owns a *node* with a
bus id; nodes connect to each other over stream sockets, unix sockets or memory,
register with each other, form a tree of upstreams and downstreams, and forward
messages along it. This directory holds TLA+ models of the parts of it where
order, interleaving and failure matter, the TLC runs that check them on small
instances, and proofs, checked by TLAPS, of the most important results for every
instance. `PROJECT.json` lists the runs, the mutants that show each property can
fail, the source lines each definition stands for, the hazards and the theorems.

To check a run: `tlc -config <file>.cfg <module>`; the proofs: `tlapm <module>.tla`.

## 1. Inventory

| component | source | state it keeps | operations | what is hard |
|---|---|---|---|---|
| topology registry | `impl/atbus_topology.go` | bus id -> peer; a peer's upstream pointer, downstream map, proactive mark | `UpdatePeer`, `RemovePeer`, `GetRelation`, `CheckPolicy` | pointers to peers that were removed; recursion; no cycle may ever form |
| stream channel | `channel/io_stream/channel_io_stream.go` | listeners, connections, per connection a status, flags, a bounded write queue, read assembly state | `Listen`, `Connect`, `Send`, `Disconnect`, `Close`, accept, read and write goroutines | four kinds of goroutine on one connection; deferred shutdown; queue limits; partial writes |
| frame codec, buffers | `channel/io_stream/frame_codec.go`, `buffer/*` | blocks in a ring or a list, read head | pack, unpack, push, pop, merge | boundary sizes, wrap-around, varint lengths |
| connection | `impl/atbus_connection.go` | state, binding to an endpoint, address, statistics | `Listen`, `Connect`, `Push`, `Disconnect`, `Reset` | callbacks from I/O goroutines against the owner's thread |
| endpoint | `impl/atbus_endpoint.go` | control connection, data connections, listen addresses, statistics | `AddConnection`, `RemoveConnection`, `Reset`, `GetDataConnection` | a connection is added and closed on different goroutines; the control connection's loss resets the endpoint |
| node | `impl/atbus_node.go` | state, endpoint routes, upstream, timers, self message queues, GC lists | `Init`, `Start`, `Proc`, `Poll`, `Reset`, `Shutdown`, `Listen`, `Connect`, `AddEndpoint`, `RemoveEndpoint` | upstream loss and reconnection, timeouts that race answers, re-entrance from callbacks |
| message handler | `message_handle/atbus_message_handler.go` | none of its own | register, ping, pong, forward, transfer, command handlers | two-sided handshake, duplicate answers, TTL, forwarding loops |
| connection context | `impl/atbus_connection_context.go` | cipher, key exchange state, compression choice | handshake, `PackMessage`, `UnpackMessage` | key renegotiation while messages are in flight |
| protocol | `protocol/*` | - | generated protobuf code | - |

Interactions: a node owns endpoints, an endpoint owns connections, a connection
wraps one connection of the stream channel (or of the memory channel) and a
connection context. The stream channel's goroutines call back into the node
(`onIoStream*`), which passes received messages to the message handler; handlers
change endpoints, routes and timers. The topology registry is consulted by the
node's routing (`GetPeerChannel`) and changed by its owner.

What makes each part correct:

* registry: upstream pointers form a forest; the two directions of a link agree;
  a proactively added peer stays; the next hop is on the path;
* stream connection: frames keep their order; every report is true; a graceful
  disconnect flushes; the teardown happens once and always;
* endpoint and connection: an endpoint holds the connections that are bound to it;
  what is reset is out of every list;
* node: the state follows the upstream; timers do not fire for finished
  connections; everything put into a GC list is removed from every other table;
* handler: both ends of a registered connection agree on who is who; a forwarded
  message is answered or delivered, at most TTL hops away.

## 2. Modules and plan

| module | models | extends or uses |
|---|---|---|
| `TopologyRegistry`, `TopologyRelation` | the registry; `GetRelation` | proofs in `TopologyRegistryProofs` |
| `IoStreamConnection` | one connection of the stream channel | proofs in `IoStreamConnectionProofs` |
| `FrameCodec`, `ReadAssembly` | frames and how readLoop puts them together | `ReadAssembly` extends `FrameCodec`; proofs in `ReadAssemblyProofs` |
| `CipherSession` | the ciphers of the two ends of a connection | proofs in `CipherSessionProofs` |
| `BlockDeque`, `BufferManager` | the promise of the buffer manager; the manager | `BufferManager` implements `BlockDeque`; proofs in `BufferManagerProofs` |
| `EndpointBinding` | endpoints, connections, routes and their collection | proofs in `EndpointBindingProofs` |
| `NodeLifecycle` | a node with an upstream, over its whole life | endpoints without their inner races; proofs in `NodeLifecycleProofs` |
| `MessageRouting` | one message through a bus of several nodes | `GetRelation` read off a forest; proofs in `MessageRoutingProofs` |

The `MC...` modules only give constants their values.

The modules are layers of one system: `MessageRouting` takes from
`EndpointBinding` and `NodeLifecycle` that links come and go at any time, and from
`TopologyRelation` what a relation is; these take from `CipherSession` and
`IoStreamConnection` that messages arrive in order or the connection is lost; and
`IoStreamConnection` takes from `ReadAssembly` that frames survive the stream.

Every safety property of the runs that is within the prover's reach is a theorem; what
stays with the model checker, and why, is in section 11.

## 3. The topology registry

`TopologyRegistry` models `impl/atbus_topology.go`. Go pointers are peer
*instances*, a bus id and a generation, because a peer that was dropped from the
map may still be pointed at, and the same bus id may be registered again as
another object: that is where this code is delicate. `UpdatePeer` has one action
per way to return; `RemovePeer` is one action per invocation, `pending` holding
the argument of the recursive call. The registry is documented as not
thread-safe, so nothing interleaves with a recursion. `TopologyData` is left out,
since nothing branches on it. `TopologyRelation` adds `GetRelation` and, as its
reference, the path through the lowest common ancestor.

| run | checks | bounds |
|---|---|---|
| `topology` | `TypeOK`, `Acyclic`, `DownstreamConsistent`, `RecursionReturns` | 3 bus ids, 2 instances of each: a peer is removed and created again below every other |
| `topology_relation` | `RelationMatchesForest`, `HopAdvances`, `LeafRemovalKeepsForest`, `LeafRemovalKeepsProactive` | callers remove only peers without downstreams; 4 bus ids, so that transitive, sibling and uncle relations occur, and one instance of each (all four are proved for any number) |

Three things the code does differ from what its comments and tests say. All three
are in the model and none breaks a property above.

* `RemovePeer` recurses with the bus id of the removed peer's upstream pointer
  (`atbus_topology.go:212`). When that upstream was itself removed and registered
  again, the recursion removes the new, proactively added instance, although
  `atbus_topology_test.go:242` says "A proactivelyAdded peer must NOT be removed
  automatically unless RemovePeer is called." `LeafRemovalKeepsProactive` shows
  that callers that remove only leaves are safe.
* `RemovePeer` of a peer with downstreams drops its proactive mark and leaves it
  as their upstream (`:185`); `types/atbus_topology.go:80` says that their upstream
  is cleared.
* For a transitive relation `GetRelation` returns the adjacent hop (`:318`, `:328`),
  as its tests expect; `types/atbus_topology.go:93` says it is the target.

Fairness: only that a started recursion goes on, which a Go call does.

Proved in `TopologyRegistryProofs`, for any set of bus ids and any number of
instances: `TypeOK`, `Acyclic`, `DownstreamConsistent` for all clients, and the
two leaf-removal properties. `Acyclic` is stated without recursion (every set of
instances has a member that points out of the set), which makes it inductive
together with the fact that an instance not yet born has no links; the move of a
peer keeps it because `ChainAvoids` gives a set that is closed under upstream
pointers and does not contain the target. The leaf theorems need the stronger
invariant that a registered peer's upstream is registered.

`GetRelation` is proved against its reference: `RegistryRelationMatchesForest` for
all clients, `RegistryHopAdvances` for clients that remove only leaves (with others
the hop need not be registered). `UpstreamChain` is a recursive function, and what
is known of it is only that the choice of its definition satisfies the recursion if
anything does. So the proof starts from `Acyclic` read as an induction principle
(`PeerInduction`: a set that holds a peer whenever it holds its upstream holds all),
shows with it that every peer has exactly one chain to a root, and from that that
walks exist (`WalksExist`). By the same induction the peers on a walk are ordered by
the length of their own walks (`WalkOrder`), so the steps up are a difference of
depths, and two walks that share a peer share a unique lowest one (`Deepest`), which
is the reference's `Meet`. The two theorems are then a case distinction over the
cascade (`Placed`): in each case the lowest common peer is known, and the kind and
the distance follow by arithmetic.

## 4. One stream connection

`IoStreamConnection` models the life of one connection in its channel. The
goroutines are: the opener (`Connect` or one round of `acceptLoop`), `readLoop`,
`writeLoop`, any number of callers of `Send` and `Disconnect`, the caller of
`Close`, and the owner of the parent context. A step is what a goroutine does
between two accesses to shared state: `disconnectRun` is five steps after the
swap, a write is mark, write, unmark, notify. Frames are opaque (sender, number)
pairs; a sender in `LargeSender` makes frames above `DataSmallSize`. The socket
and the peer are the environment: a write may fail after some of its frames went
out, a read may return anything at any time. Go's rules for channels are
modelled: sending on a closed channel, or closing it twice, panics and ends the
process (`crashed`).

| run | checks | bounds |
|---|---|---|
| `io_stream` | `TypeOK`, `WireInOrder`, `ReportsHonest`, `GracefulFlush`, `DisconnectedOnce`, `DeferredCloseNoticed`, `DisconnectCompletes`, `CloseCompletes` | 2 senders, one with large frames, 1 frame each, a queue of 1, merges of 2, one `Disconnect`, one `Close`, one cancellation |
| `io_stream_panic` | `CancelDoesNotPanic`, violated | one sender: a `Send` against a cancelled context |

Two frames for a queue of 1 make the queue fill, `Send` be refused, and merges end
because the queue is empty or a frame is large. The safety properties are proved for
any number of frames, any capacity and any limit (below), so that the run need not
have more.

A cancelled context makes writeLoop run `disconnectRun`, which closes the write
queue (`channel_io_stream.go:880`). A `Send` that passed its checks before then
panics when it sends on the closed queue (`:240`), while
`channel_io_stream_test.go:1725` says of the cancellation test that it checks
"context cancel doesn't cause panics". That is the finding of `io_stream_panic`. The
other properties hold up to the panic (`crashed`), which ends the process; the two
about completion accept it as an end.

Fairness: a goroutine that can run does run (weak fairness of each goroutine's
steps), and a blocked `Write` returns some day. Nothing is assumed of the peer: a
`Read` is only sure to return once the socket is closed. The assumption on
`Write` is the kernel's: the code sets no write deadline, so that with a peer
that stops reading for ever a deferred `Disconnect` waits for ever.

Proved in `IoStreamConnectionProofs`, for any number of senders and callers, any
capacity and any limits: `ConnectionTypeOK`, `ConnectionDisconnectedOnce`,
`ConnectionDeferredCloseNoticed`, `ConnectionWireInOrder`, `ConnectionReportsHonest`
and `ConnectionGracefulFlush`. `ControlInv` relates the program counters to the
flags: what the winner of the `closed` swap has released so far, and that the
Writing flag is up exactly around a write, so that a `Disconnect` that defers is
followed by a test of the status. `OrderInv` says where the accepted frames are:
on the wire, in the writer's batch, in the queue, in this order. `FlushInv`
explains the flush: `writeLoop` drains only after the connection left Connected,
and without a Close, a cancelled context or a failed write it ends only when the
queue is empty.

## 5. The ciphers of a connection

`CipherSession` models the two `ConnectionContext` objects of one connection and
the handlers that change their keys: `SendRegister`, `SendPing`, the handlers of
register, ping, pong and handshake_confirm, `PackMessage` and `UnpackMessage`,
the counting of faults, and `ReloadCrypto`. The operations of the context are
functions from context to context, named as in the code; the actions are the
handlers. A cipher is an algorithm and a key, a key the pair of ECDH key pairs it
was derived from, so that two ends have the same key exactly when they used the
same two pairs. A session that is not initialized and one with algorithm NONE are
one value, because no operation tells them apart. Compression, the bytes of a
message and key derivation itself are left out.

The readLoop runs the handlers, an application goroutine sends data and Poll
sends the pings, so a handler that changes a cipher and then pushes its answer
takes two steps, and so do `SendPing` and a sender of data. On the server the
application can also send between the two steps from within a handler, in the
`OnEndpointPing` and `OnEndpointAdded` callbacks. Pushed messages arrive in
order, which is what section 4 proves. A push may be refused (the write queue is full). Time is
abstract: a refresh may be due at any ping, since the code neither bounds the
refresh interval from below nor waits for a pong. A context starts fresh, with a
key pair the application generated in `OnNewConnection`, or with a key set by
`SetupCryptoWithKey`; without one of the last two no handshake ever starts, which
is the finding of `cipher_register`. An end whose connection is reset does nothing more here.

| run | checks | bounds |
|---|---|---|
| `cipher` | `TypeOK`, `LostOnlyWhenDisturbed`, `ConfirmMatchesAnswer`, `CleanHandshakeAgrees`, `HandshakeCompletes` | 2 curves, 2 algorithms, 3 client key pairs (three refreshes, overlapping or not, or a registration and one refresh), 1 data message, 1 refused push, 1 reload |
| `cipher_register` | `RegisterNegotiates`, violated | a configured key exchange is never offered |

`LostOnlyWhenDisturbed` says what the protocol achieves and what it does not: of
itself a change of keys under traffic loses nothing, and there are five ways in
which it does, each of which TLC reaches alone: overlapping handshakes, a refused
answer, a reload that takes the selected algorithm away, data packed before the
change and pushed after it, and data pushed between the change and its
announcement. `CleanHandshakeAgrees` says that the next undisturbed handshake
repairs the damage. Three key pairs are enough for a handshake that is disturbed
and one that repairs it; one data message, sent by either end at any time, meets every
change of keys (the theorems below are about any number).

The fault that reaches `FaultTolerant` resets the connection (`atbus_node.go:2045`),
so that with the default of 2 the second one does; `types/atbus_common_types.go:76`
says the third. The model counts as the code does.

Fairness: goroutines that can run do run, and what was pushed is read. Nobody
has to send data or a ping.

Proved in `CipherSessionProofs`, for any number of key pairs, refused pushes,
reloads and data messages: `SessionConfirmMatchesAnswer`. The inductive invariant
`SessionInv` says that there is a numbering, a function from handshake sequences
to the client's key pairs, that everything agrees with (`Numbered`): a request
carries the key pair of its sequence, an answer or a confirmation the server's key
pair made for it, and the server's context holds the latter for its current
sequence, from which the staged cipher was derived. Only the client's start of a
handshake extends the numbering, at a sequence nothing has used yet; every other
step only copies from it. The last part needs that the key exchange of a context
never changes: once a handshake is pending, no later one can fail on the server
after its key pair was replaced.

Proved on top of it: `SessionLostOnlyWhenDisturbed` and `SessionCleanHandshakeAgrees`.
Neither property is inductive, because both look only at the last step of a handshake. The
invariant `HandshakeInv` follows it from its first:

* `Clean`: while the handshake is not spoiled, it is in one place. Of the ping that is due,
  the request on the link, the server's answer, the reply on the link and the client's
  answer at most one exists, and only the confirmation of the one before can still be ahead
  of a request. A request carries the client's current key pair; a reply carries the
  server's, its sequence and the algorithm of the cipher that the server has staged and
  writes with; a confirmation carries the sequence that is pending, when the client already
  writes with what is staged and reads with what the server writes.
* `Calm`: while there is no cause of a loss, what the server writes the client reads unless
  a reply is under way, what the client writes the server reads unless a confirmation is,
  and every data message on a link can be read with the cipher that its receiver will have
  when it comes to it: the present one, or the next if the message that changes it is
  ahead (`Splits`).
* `Flow`: until the server has accepted the registration, there is nothing on the links but
  the one request or the denials, and no cipher has changed since the start. This is what
  makes the registration's handshake start from equal ciphers.

A started handshake makes the state clean again, whatever came before it: `SendPing` resets
`spoiled` only when neither a request, a reply nor a confirmation of an earlier, spoiled
handshake is left. That is the case the second theorem is about.

Proved last: `SessionTypeOK`, the types with their bounds. `TypeOK` is far from inductive,
because its bounds are consequences of the protocol; `BoundedInv` adds to `HandshakeInv`:

* `FaultsInv`: an end that was not reset has not used up its faults, and only such an end
  still has an answer to push.
* `SmallContexts`, `SmallLinks`: ciphers have a numbered algorithm and keys in range, a
  request carries one of the client's `MaxKeys` key pairs, so that the one the server
  numbers after it is in range too, and the server takes no sequence of its own. That
  `NegotiateCryptoAlgorithm` returns one of the allowed algorithms rests on the well-order
  of the natural numbers.
* `BudgetInv`: the client's sequence and the handshakes under way (the ping that is due, the
  server's answer, and those on the two links, which `Counts` counts) are together at most
  twice the key pairs. The client takes one sequence for its request and one for the
  confirmation; the second is paid for by the answer it reads, also when handshakes overlap.

It assumes that `MaxKeys` is at least 1: a context may start with a key pair.

## 6. Frames

`FrameCodec` has the frame format: hash, length, payload, with the library's
variable-length integers. A byte has fewer values than in the code (`VintBase`
stands for 128), so that lengths of one, two and three bytes occur with short
payloads. The hash (murmur3) is a parameter, any function from payloads to one byte: nothing
here depends on which, only on a damaged hash being another than the payload's. `ReadAssembly` is what `readLoop` does with
the chunks a socket hands out: one step per `Read`, per turn of the loop that feeds
a buffer, and per turn of `processReadHeadFrames`. `readHead` and `readLargeFrame`
are the two buffers; payloads are real sequences of bytes, because cutting and
joining them is the question.

| run | checks | bounds |
|---|---|---|
| `frames` | `ReceivedInOrder`, `NothingHeldBack`, `ClosedOnlyForBadData`, `EventuallyReceived` | 3 frames with payloads of 0, 1, 3, 5 and 6 bytes, intact or damaged; a head buffer of 6; chunks of 1 to 8; no limit, a limit below and one between the large sizes; one bad frame tolerated |

The sizes are on both sides of every boundary: a frame that just fills the head
buffer, one that does not fit and is within the limit, and one beyond it. Three
frames are one before, one at and one after a boundary.

Fairness: the goroutine of `readLoop` goes on. Nothing is assumed of the sender, and
the loop may end at any `Read`.

The model damages hashes (which stands for payloads, too) and not lengths: a
damaged length makes the rest of the stream something else, and the code promises
nothing for it. A frame over the limit that does not fit the head buffer closes the
connection at once, one that fits is counted; both are in `ClosedOnlyForBadData`.

Proved in `ReadAssemblyProofs`, for any base of the integers, any hash, any payloads, sizes
of the head buffer and of chunks, limits, and any number of frames: `FramesTyped`,
`FramesInOrder` (`ReceivedInOrder`), `NoFrameHeldBack` (`NothingHeldBack`) and
`GivenUpForBadData` (`ClosedOnlyForBadData`). The one assumption about sizes is that every
header fits in the head buffer (a hash of 4 bytes and a length of at most 10 against 7168).

* The codec: what `WriteVint` writes `ReadVint` reads, for every number (`VintRead`), and it
  finds the length as soon as all of it is there and not before, whatever follows
  (`VintSizeOf`). So from bytes that start a frame `processReadHeadFrames` reads this
  frame's header and payload (`FrameRead`).
* The inductive invariant speaks of the whole stream ever sent. There is a layout of the
  frames in it (`Layout`) and a number k of frames that are dealt with, such that the head
  buffer, the chunk and the socket are adjacent windows of the stream, the first of which
  starts where frame k ends (`InHead`); or the large frame's buffer has the hash and a part
  of the payload of frame k + 1, and the chunk goes on from there (`InLarge`). Between two
  feeds the head buffer has less than a whole frame and is not full: that is
  what makes the branch for a full head buffer dead, and what `NothingHeldBack` rests on.
* What was handed over is what is to be handed over of the first k frames (`Deliveries`), and
  the counters of bad frames are at most the number of bad ones among them (`Counted`).

The induction over numbers that this needs (lengths of integers, prefixes of the sent
frames) is an argument about the least counterexample (`LeastNumber`, `Induction`), since the
library's induction theorems cannot be applied by the prover.

## 7. Buffers

`BlockDeque` says what a buffer manager promises: a deque of blocks of unread bytes.
`BufferManager` is the code: the list of the dynamic mode, the ring of the static
mode with its spare slot, the counters and the limits. `DequeSpec` is the refinement,
with the unread bytes of the blocks, in the order `ForEach` visits them, as the deque.

| run | checks | bounds |
|---|---|---|
| `buffer` | `CostsMatch`, `RingWindow`, `RingFullAtLimit`, `GrowthWithinLimits`, `DequeSpec` | 2 byte values, requests of 0 to 2 bytes, blocks of at most 3, limits of 4 bytes and 2 blocks or none, so a ring of 3 slots |

A ring of 3 slots wraps in both directions and fills; with 2 byte values a byte that
is copied to the wrong place shows.

`MergeFront` copies the `used` mark of a block (`buffer_manager.go:428`): after a
partial pop, part of the returned space counts as read and part of the old bytes is
unread again. `BlockDeque` therefore promises the contents only for a block that
nothing was popped from, and the number of unread bytes for all.

Proved in `BufferManagerProofs`, for any byte values, sizes and limits: `BufferTyped`,
`CostsAreTrue` (`CostsMatch`), `RingHoldsItsWindow` (`RingWindow`), `FullMeansLimit`
(`RingFullAtLimit`), `LimitsAreKept` (`GrowthWithinLimits`), and `ImplementsDeque`, the
refinement of `BlockDeque`. The inductive invariant `Inv` has four parts: the limits are
configured ones; `Store`, which says for either mode where the blocks are (the ring
has one slot more than the limit, `head` and `tail` are inside it, and exactly the slots from
`head` up to `tail` hold blocks); every block that `ForEach` visits has its marks in
order; and the counters are the number and the unread bytes of the blocks. `Store` is
what the counters need: an operation changes one or two slots, and only with the window
known is the list `ForEach` sees after it the old one with an element added, dropped or
replaced at an end. The sum of the unread bytes is a recursive function (`Total`), so
that its value at a longer sequence is a fact about the one before; what it does at
either end and at a replaced element follows from that. In the refinement the deque is
the list of unread bytes in the order of `ForEach`; every action is the action of the
same name in `BlockDeque`, or leaves the deque as it is.

## 8. Endpoints and their connections

`EndpointBinding` models one remote peer: its endpoint objects, its connections,
the entry in the routes, and the list of the garbage collection. Closing a
connection resets its endpoint, which resets all its connections, so each goroutine
has a stack of calls, and one step is one call up to the next critical section of the
endpoint's mutex. There are the readLoop of each connection, which handles a
registration; the goroutine of each Disconnected callback; and the caller of `Proc`.
`AddConnection` is cut inside its critical section, too, because what it looks at is not
under that mutex: it tests the binding of the connection (`AddToKnown`, `AddToNew`,
`AddData`), binds it (`Bind`) and changes its status (`Promote`) in three steps, the
mutex being held in between (`owner`).

| run | checks | bounds |
|---|---|---|
| `endpoint` | `BoundIsHeld`, `RouteIsTended` | 2 connections, 2 endpoint objects, one registration per connection; any number of collections and disconnects |
| `endpoint_timing` | `ClosedStaysClosed`, violated | 1 connection, 1 endpoint object |

Two of each are enough for two registrations that both create an endpoint, for a
control and a data connection in one endpoint, and for a closing connection against
another's registration. Connections and endpoints are symmetric.

`endpoint_timing` is a finding: the comment in `AddConnection`
(`atbus_endpoint.go:193`) says that the mutex makes the order of binding and status
safe, but `onIoStreamDisconnected` writes the status without it (`atbus_node.go:331`), so
that `Promote` overwrites Disconnected with Connected.

What the model shows the code does not promise:

* A connection can be held by two endpoints. `ConnectWithEndpoint` adds a data
  connection to one endpoint while the connection's own answer adds it to another that
  replaced the first in the routes: the two hold different mutexes, both find no
  binding, and both keep the connection.
* `RouteIsTended` names the two ways in which an endpoint stays in the routes without
  connections: queued while a collection runs (`AddEndpointGcList` refuses, and
  `executeGC` clears what was queued), and a new endpoint whose `AddConnection` failed
  (its result is not looked at).
* The converse of `BoundIsHeld` fails: `setConnectionBinding(nil)` runs outside the
  mutex, so a connection that was taken away and added again in between is held
  without being bound.
* An endpoint can hold a connection that is gone: the Disconnected callback may come
  before `AddConnection`.

Proved in `EndpointBindingProofs`, for any number of connections, endpoint objects and
goroutines, and stacks of any depth: `BindingTyped`, `BoundConnectionsAreHeld`
(`BoundIsHeld`) and `RoutesAreTended` (`RouteIsTended`). Neither property is inductive,
since between two critical sections the truth is in the stacks. `Pending` is the set of
calls that any goroutine has still to make, and `Inv` relates it to the tables: the
goroutine in the middle of `AddConnection` owns the mutex of an endpoint that is not being
reset (`Locked`), and an endpoint that is being reset holds nothing (`Tidy`); a connection
that is bound is held, or its endpoint's reset is about to release it
(`BoundOrReleased`); nobody knows of a new endpoint before it is in the routes
(`NewIsUnknown`); an endpoint in the routes holds a connection, or somebody will list it
or bind one, or it is stranded (`RouteTended`). `Placed` and `Once` say where on a stack a
call can be, where it matters what follows it or that it is made once. Each action is shown
to replace a set of pending calls by another, and the parts of `Inv` are proved about these
sets, so that the depth of the stacks does not matter.

## 9. The life of a node

`NodeLifecycle` models a node that is configured with an upstream: `Init`, `Start`,
the phases of `Proc` (connecting timeouts, upstream operations, collection), `Poll`,
`Disconnect`, `Shutdown` and `Reset` on the application's goroutine; answers to the
registration, lost connections and their callbacks on others.

Nothing of this is under a lock, so a test and what is done because of it are two steps
wherever they run beside other goroutines. `answer` says, per connection, how far the
handler of its answer has come: it looks up or creates the endpoint, puts it in place
(`AddEndpoint`), activates a node that had registered before (`Activate`), adds the
connection (`AddToEndpoint`), sees to a data connection (`DataChannel`), tests state and
upstream (`CheckUpstream`), and brings the node up (`Up`). `pending` holds what a
goroutine has decided on and not yet done: to take the node to LostUpstream after
`OnDisconnect` found it ConnectingUpstream, to change the state after `RemoveEndpoint`
cleared the upstream, and to call `FatalShutdown` after it found the node not Actived. Each
happens later, whatever the state is by then, and answers on different connections are
handled side by side.

A timer is the time left until it is due. Connections that were reset but not closed
(`Reset` of a connection leaves its socket open) can still deliver an answer or be lost
later; those without an answer to come are one Boolean, `orphan`. A connection that is
closed while its answer is being handled is added to the endpoint all the same, as `Dead`.
`Forget` moves connections to `orphan` and is bookkeeping of the model, not a step of the
code.

| run | checks | bounds |
|---|---|---|
| `node` | `RunningHasUpstream`, `Reconnects`, `ShutdownCompletes` | 2 connections, 2 endpoint objects, a connecting timeout of one tick, retries and pings at once, 3 interferences from outside |

Two connections are a control and a data connection, or one that is being dropped
and its successor; two endpoints are one that waits for its collection and its
successor. What interferes (a closed connection, a dial that fails, a registration that
cannot be sent, an answer that is refused or late, an entry of the connecting list that
is lost, `Init`, `Disconnect` and `Shutdown` of the application) may do so at any moment,
`MaxFaults` times in all; the `Init` of the node is one of them. A reset node need not be
initialised again, so the run may end there.

Fairness: the application goes on calling `Proc`, goroutines do what they decided on, an
answer that has come is handled to its end, and connections are forgotten. Answers are not
late without an interference: then they come before the next tick. Since interferences
are finite, `Reconnects` says what becomes of the node when they have ended: it is
attached to its upstream for good, or was shut down.

What the model showed on the way:

* A node can be Running without an upstream. `onRecvNodeRegisterRsp` tests for the
  upstream and activates the node later (`atbus_message_handler.go:1374` to `:1381`),
  `AddEndpoint` likewise, while the collection of `Proc` may remove the upstream in
  between (`atbus_node.go:1476`). `late` remembers it, and `RunningHasUpstream` says
  that it is the only way but for `RemoveEndpoint` being half way itself. The timer
  is set in every case, so that the next `Proc` connects again.
* A node that has come up can be shut down by a failure from before: Actived is tested
  first and `FatalShutdown` called later (`atbus_message_handler.go:1359`,
  `atbus_node.go:1497`, `:1838`).
* An endpoint can be given a control connection that is closed already.
  `AddConnection` never replaces it, `GetCtrlConnection` stays nil, and later
  connections become data connections, which make the endpoint available: such a node
  never has a control connection again unless all data connections are lost. `Proc`
  goes on dialling every FirstIdleTimeout. `Attached` therefore accepts such an
  endpoint when it has a data connection.
* `Connect` returns before `Start` and `processUpstreamOperations` set the state
  (`atbus_node.go:448`, `:650`). An answer that is handled in between leaves the node
  ConnectingUpstream although it is linked; `Reconnects` therefore speaks of
  connections and not of Running.
* A reset connection that is lost later still counts as a loss of the upstream and
  takes a ConnectingUpstream node to LostUpstream (`OnDisconnect`).
* `processConnectingTimeout` pops an entry after its owner checker has already
  removed it, so the next connection loses its timeout (`:597`); `upstreamOpTimepoint`
  makes up for it.
* `Reset` keeps `upstreamOpTimepoint`; a registration fails when its data connection
  cannot be dialled; `executeGC` removes an endpoint without resetting it.

Simplifications: `Init` of a node waits until the handlers of its former life have ended;
answers that have not been read at `Reset` are dropped with their connections; `OnActived`
is one step; the answer on a data connection is not handled before
`ConnectWithEndpoint` has added it (the race of the two is in `EndpointBinding`). A
refusal because of an outdated process id, and resets by the count of faults, are among
the refused answers and closed connections, and so are bounded with them.

Proved in `NodeLifecycleProofs`, for any number of connections, endpoints and
interferences and any timeouts: `LifecycleTyped`, `RunningNodesHaveUpstream`
(`RunningHasUpstream`) and `TimerStaysSet` (`TimerSet`: from the first attempt to connect
on, `upstreamOpTimepoint` is never cleared, so that `Proc` always has a next time to look
after the upstream). `RunningHasUpstream` is not inductive: a handler makes the node
Running because of what it found some steps before. `Decisions` says what it can still
rely on when it does: a handler that inserts an endpoint has one, and the timer was set
before a handler decided to activate the node. With `TimerSet`, `Decisions` and the types it is
inductive; `CoreKept` and `CoreLeft` reduce most actions to what they leave alone.

## 10. Routing

`MessageRouting` follows one message (data or a custom command, to another node or to
the sender itself) through the bus: `GetPeerChannel` at every hop, the second try
through the upstream, the hop limit, and all responses. Every node decides from its
own registry (`view`), which may be out of date or lack peers, and from its own
endpoints. The write queue of a connection that was chosen for a forwarded request may be
full (`PushRefused`), which leads to the second try, too; a first push that the sender's own
queue refuses is reported by the call itself and is not modelled. A link has no endpoints, endpoints without connections, a control
connection only, or data connections, and changes at any time; messages may be lost
with it. Views do not change while the message is under way.

| run | checks | bounds |
|---|---|---|
| `routing` | `FailureIsReal`, `RequestEnds`, `Delivered` | a root, two branches with a direct link between them, a leaf below each; 12 assignments of views (true, one leaf where it once was, one leaf unknown); TTL 4; one link change or refused push; every sender, target and option |

The five nodes have every relation (direct, transitive, sibling, a neighbour of the
upstream) and a cycle of links, in which a request goes round with stale views. TTL 4
is the longest path of the bus; one change is enough to take a link from under a
message or from under its response.

Fairness: a message on a connection is read and handled, and self messages are
dispatched, which needs the application to call `Proc`: `Poll` raises InCallback
first, which makes `dispatchAllSelfMessages` return at once (`atbus_node.go:881`).

What the properties do not say, because it does not hold:

* a success answer does not mean delivery: every hop that forwards a request with
  REQUIRE_RSP answers success of its own. `Delivered` asks for the answer of the
  target;
* a custom command carries no target: the first hop executes it, whoever it was for;
* responses have no hop limit and can go round for ever between nodes with stale
  views; `RequestEnds` speaks of the request only;
* a data response a node queues for itself is thrown away by
  `dispatchAllSelfMessages`.

Proved in `MessageRoutingProofs`, for any nodes, views, links, TTL and number of link
changes: `RoutingTyped` and `FailuresAreReal` (`FailureIsReal`). The inductive invariant
says that before the message is sent nothing is anywhere (`Quiet`), that there is one copy
of the request at most, on the network or on the queue of its sender (`OneCopy`), and that while there is one it was
neither received nor given up, and only a request that was given up has error responses
(`Truthful`). The proof of the types found a bound that the checked
instance cannot reach: with a TTL of 0 the response to a request that was given up has made TTL + 2 hops, because
the hop of the sender is not compared with the limit.

## 11. What the results do not cover

* Liveness (`RecursionReturns`, `DisconnectCompletes`, `CloseCompletes`,
  `HandshakeCompletes`, `EventuallyReceived`, `Reconnects`, `ShutdownCompletes`,
  `RequestEnds`, `Delivered`) is model-checked only, because the prover does not
  handle fairness.
* Every safety property of a run is also proved, except the three that are violated.
* The `TypeOK` of the modules of sections 6 to 10 is proved and is not part of the listed
  runs.
* Frames accepted after the drain's last look at the queue are neither written
  nor reported: `GracefulFlush` speaks of frames accepted before the connection
  left Connected.
* `PackMessage` reads the algorithm and the key in one step. Its race with a
  change of keys can also mix an old algorithm with a new key or fail; the first
  is one more way of the kind `causes` calls stale, the second sends nothing.
* Data races inside the node's own maps and lists (only endpoints have a mutex) are
  not modelled: an operation on `nodeRoute` or a GC list is one step.
* `openFlag` answers false also when another guard holds the flag
  (`atbus_node.go:138`), so nothing stops `Reset` or `Proc` from being entered again
  from a callback; the models assume that applications do not.
* The registration request on the accepting node can be answered twice when it fails
  (`atbus_message_handler.go:1256`); `NodeLifecycle` takes one answer per request.

Not modelled: listeners and address locks (files and sockets), `UnpackFrame` and
`FrameReader` (the channel does not use them), compression, access tokens and
versions, ping timers of endpoints, temporary nodes without a bus id,
`SetTopologyUpstream`, `CheckPolicy` (reads the registry), statistics, logging,
`channel/utility` (parsing of addresses), `StaticBufferBlock` (the bytes of one packed
message), generated protocol code, samples and tools.
