# TLA+ models of the MPC relay, client and driver

The repository is a framework for multi-party computation over a relay server.
Clients open a websocket to the relay, run a Noise handshake with it, agree on
a session through it, run Noise handshakes with each other through it, and then
drive a protocol (GG20 key generation or signing) by sending each other
encrypted round messages that the relay passes on.

This directory models the parts of it that are hard to test: tasks that share
locks and bounded channels, background tasks that poll, clients that come and
go, and several clients that must agree on where they are. It holds the
modules, the configurations TLC checks them with, and proofs for TLAPS.

## 1. Inventory

| Part | Source | State | Operations | Hard because |
|---|---|---|---|---|
| Session data | `protocol/src/protocol.rs` | participant vector; owner, participants, registered connections, last access; meeting slots | `party_number`, `peer_key`, `connections`, `recipients`, `register_connection`, `is_active`, `touch_session`, `expired_keys`, `join`, `is_full` | the relay and the clients compute the same topology independently |
| Relay sessions | `server/src/service.rs`, `server.rs` | `SessionManager`, two detached tasks per session | NewSession, SessionConnection, PeerMessage, CloseSession, `wait_for_session_ready`, `wait_for_session_active`, `notify_peers`, `purge_expired` | what a poll saw is stale when it is announced; clients, reaper and clock interfere |
| Relay connections | `server/src/websocket.rs`, `service.rs` | `pending`, `active`, one lock and one bounded channel per connection, three tasks each | `upgrade`, `handle_request`, `promote_connection`, `send_message`, `read`, `write`, `disconnect` | guards held across awaits; two connections of one client |
| Meeting points | `service.rs`, `protocol.rs` | slots per user identifier | NewMeeting, JoinMeeting, `wait_for_meeting_ready` | polling; users nobody asked for |
| Client and event loop | `client/src/client.rs`, `event_loop.rs`, `native.rs`, `lib.rs`, `transport.rs` | Noise state with server and peers, the lock on the peers, two bounded channels | `connect`, `connect_peer`, `relay`, `request`, `handle_incoming_message`, `run` | order of events; crossing handshakes; channels filled by their own reader |
| Driver | `driver/src/session.rs`, `bridge.rs`, `round.rs`, `gg20/` | session state, round buffer, protocol state machine | `wait_for_session`, `wait_for_driver`, `handle_event`, `dispatch_round_messages`, `keygen`, `sign` | clients are in different phases; no acknowledgements |
| Wire format, chunks | `protocol/src/encoding`, `channel.rs` | none | encode, decode, split, join | lengths and truncation |
| Configuration, access lists | `server/src/config.rs` | none | `load`, `is_allowed_access` | boundary values |
| Key pairs, HTTP server, web client, bindings, command line | `protocol/src/keypair.rs`, `server/src/server.rs`, `client/src/web.rs`, `bindings`, `src`, `tools` | - | - | I/O, cryptography, glue |

How they interact: the client's driver calls the transport, which queues
requests for the event loop; the event loop writes them to the socket; the
relay's read task hands each frame to the connection's listen task, which
handles one request after the other. Replies, relayed messages and
notifications all go into the outgoing channel of the target connection, which
its write task empties. The relay's shared state is one `RwLock<ServerState>`;
each connection is an `RwLock` of its own.

What makes the parts correct:

* topology: of two participants exactly one dials; the relay's idea of "active"
  is what the drivers register;
* relay sessions: one verdict per session, `SessionActive` only when everyone is
  connected, notifications in order, tasks that end, sessions that go away;
* relay connections: an entry in `active` can be used; the handshake reply is
  first; nobody waits for ever;
* meeting points: the announced list is complete and final;
* client: what a task encrypts is what the other end can decrypt, in order; calls
  return unless a channel is full; no order of its own steps makes it panic;
* wire format: what is decoded is what was encoded, a chunk fits its buffer;
* the whole run: no client fails or panics while the session is set up, no round
  message is lost, rounds stay in step, everyone finishes.

`PROJECT.json` lists the hazards line by line with the properties that cover
them.

## 2. Modules

| Module | Models | Composes |
|---|---|---|
| `Protocol` | operators for `SessionState`, `Session`, `Meeting` | |
| `Sessions` | the life of sessions on the relay | `Protocol` |
| `SessionLife` | what the relay promises about a session: the abstract specification | |
| `SessionsLife` | the refinement mapping from `Sessions` to `SessionLife` | `Sessions`, `SessionLife` |
| `Connections` | access lists, locks, channels and tasks of the relay's websockets | |
| `MeetingPoint` | meeting points on the relay | `Protocol` |
| `Wire` | the message format, chunks and nonces, as operators | |
| `EventLoop` | one client: its methods, its clones, its event loop and channels | `Wire` |
| `SessionRun` | relay and all clients of one session, from connect to close, for `keygen()` and `sign()` | `Protocol` |
| `ProtocolProofs` | lemmas: what the operators of `Protocol` compute | `Protocol` |
| `SessionRunProofs` | theorems | `SessionRun`, `ProtocolProofs` |
| `SessionsProofs`, `SessionsLifeProofs` | theorems | `Sessions`, `SessionsLife` |
| `ConnectionsProofs`, `MeetingPointProofs`, `EventLoopProofs` | theorems | `Connections`, `MeetingPoint`, `EventLoop` |
| `MC*` | small instances for TLC | one each |

Operators whose comment starts with "A slip" are not part of the models: they
are variants of the definition below them with a plausible mistake, kept to show
that the properties notice it.

### Protocol

Keys are uninterpreted. `Vec` is a sequence, `HashSet` a set, `Option<T>` a set
with at most one element; `connections: HashMap<Vec<u8>, HashSet<Vec<u8>>>` is a
set of pairs. `last_access` only matters by its distance from the present, so an
entry stores its age `idle`, which stops growing at the first value that has
expired. A meeting's `participants` vector, whose order is that of a hash map,
is a function from users to keys. The `as u16` of `party_number` is left out: the
vector a client numbers has arrived with a u16 count, so the cast is exact.

### Sessions

One step is one section under the state lock, or one await point between such
sections. `wait_for_session_ready` followed by `wait_for_session_active` is one
record `waiter[s]`:

| pc | in the code |
|---|---|
| `unborn` | before NewSession |
| `poll` | at `stream.next().await` |
| `late` | condition false, about to read `start_time.elapsed()` |
| `found` | about to call a `notify_session_*` function |
| `notify` | inside the loop of `notify_peers`, holding `state.read()` |
| `done` | returned |

While a waiter is in `notify`, every action that needs `state.write()` is
blocked. `handler[k]` is what the listen task of client `k` still has to do for
its current request (CloseSession has three parts). `sent` collects the
notifications; `dead` are the entries of `active` whose channel has no receiver
(see Observations). In `notify` the task waits for the guard and for room in the
channel of each participant with an entry (`WaitsForRoom`). The channel itself is
in `Connections`; here the wait may last for any time, and for ever. Polls and reapings may come at any time, which
covers every length and phase of the intervals. Requests that are refused change
nothing but the caller's replies and are left out.

### SessionLife and SessionsLife

`SessionLife` has no locks, tasks or clocks: a session is created once, ends
once, at most one verdict is reached about it, and its members are told only
what fits. It follows the comments on `ServerMessage`. `SessionsLife` maps
`Sessions` to it: a session is live while the manager has it, and the verdict is
reached at the moment the waiting task stops polling for it, which is before
anybody is told and may be after the session is gone (`silent`, or a timeout
that comes too late).

### Connections

`Upgrade` asks `is_allowed_access` first: a key on the deny list, or not on the
allow list if there is one, gets no connection. Per connection: the Noise state,
the socket, the outgoing channel, the holder of the write guard, and the program
counters of the listen, read and write tasks. One more task, `Notifier`, stands
for a waiting task that runs `notify_peers` for any set of keys. A task that
sends is at `lock` (awaiting the guard) or `send` (holding it, awaiting room).
Read guards that are dropped before the next await are a condition of the step.
`Capacity` is the length of the channel, 32 in the code. What frames say is left
out, except for the handshake reply.

### MeetingPoint

The same style as `Sessions`, for the meeting manager and its waiting task. Which
participants a notification reaches is left open. `requested` is a history
variable: the code forgets how many slots there were. A user without a slot can
join and gets one (`Meeting::join` inserts any identifier), so the announced
users include the requested ones and may be more (see Observations).

### Wire

A frame is the sequence of values the writer puts out, one element per integer,
flag, identifier, string or run of bytes; `decode_X(t, i)` reads an X that starts
at position `i`. So the order and the number of fields, the kind bytes and the
width of counts are modelled, and byte order and compression are not. A
ciphertext is its plain text with the nonce Noise counted for it: it can be
decrypted as the next message of its channel and in no other place.

### EventLoop

One client. The driver and the clones of the client call the methods of
`client.rs`; a call that has encrypted a message and waits for room in the
outbound channel is in `held`. `lock` is the `RwLock` on the peers. `loop.pc` is
the place in `run()`:

| pc | in the code |
|---|---|
| `idle` | the driver handles an event and does not poll the stream |
| `select` | at `select!` |
| `read` | in `read_message`, waiting for room in the inbound channel |
| `lock` | a handler waits for `peers.write()` |
| `reply` | `peer_handshake_responder` waits for room in the outbound channel |
| `closed` | the stream has ended |
| `panicked` | the driver's task has panicked, in a handler or in `request()` |

A panic ends the task it happens in. Four lines of the client can panic: `request()`
and the handler of server messages when the Option with the server state is empty
(`unreachable!()`), a server message that is no blob, and a message no arm of
`handle_incoming_message` takes. In a clone it ends the clone, in the driver the
event loop too, and other tasks then find their channel closed.

The relay and the peers are external: a *script* says which calls the driver and
the clones make and which frames arrive when. Scripts are constants, and TLC
checks every interleaving of each. A handshake answer is one that Noise accepts.

### SessionRun

Two FIFO queues per client stand for channels, socket and buffers. The relay part
repeats what `Sessions` says about one session, without time, in a form that
fits the queues: a request stays at the head of its queue until its handler has
returned, and `stage[c]` tells the parts of a handler apart. A client handles one
event per step, because the event stream is not polled while the driver handles
an event. A *job* is the operation (`keygen` or `sign`), the participants in the
order of the session, and the threshold. `phase[c]` is the place in `keygen()` or
`sign()`: `setup` (`wait_for_session`),
`running` (`wait_for_driver`), `closing` (`wait_for_session_finish`), `leaving`
(`wait_for_close`), `done`, `failed` (an error was returned), `panicked`.
Signing runs three drivers over one session: one round to tell each other the key
indices, six rounds of the offline stage, one of the online stage. A message
carries the driver it belongs to, because its body deserializes as a message of
that driver only. `PreSignDriver` numbers the signers by the rank of their key
index, `dispatch_round_messages` finds a receiver by its place in the session,
and `receivers` models what that comes to when the two orders differ. The
cryptographic state machine is external: it takes the messages of the round it is
in and yields one message for each other party, or one for everybody. Which
bodies the messages have is left out; `buffer` counts them. A client that is done
or has failed stays in the relay's `active`, where its disconnect would remove it:
what is sent to it then is lost in its queue instead of being refused. That `parties`
of the parameters is the number of participants is taken from how `keygen()` and
`sign()` are called.

## 3. Runs

| Run | Instance | Result |
|---|---|---|
| `sessions_three` | 3 clients, 1 session, fairness; with the refinement | about 640 000 states, passes |
| `sessions_verdict` | 2 clients | violation, see below |
| `sessions_notify` | 3 clients, entries of which may be dead | violation |
| `reconnect` | 2 clients of which one is denied, 3 connections, sockets break or close | about 3 million states, passes |
| `purge` | 2 clients, sound sockets, fairness | about 23 500 states, passes |
| `purge_broken` | 1 client, its socket breaks, fairness | violation |
| `stale_disconnect` | 1 client, 2 connections | violation |
| `meeting` | 3 clients, 4 users, up to 3 slots, fairness | about 7 500 states, passes |
| `run_three` | key generation of 3, signing by 2 in and out of key order, by 3 out of key order with one signer in its place, fairness | about 21 000 states, passes |
| `run_early_close` | key generation of 3, fairness | violation |
| `sign_three` | signing by 3 | violation |
| `event_loop` | 8 scripts, 2 clones, channels of 2, fairness | about 10 100 states, passes |

What the passing runs show is in the comment at each property. Deadlock is not
checked in any of them: a session that is over, a meeting nobody joins and a
server nobody connects to are legitimate ends; that nobody is stuck is stated as
liveness instead.

Bounds and why they suffice:

* three clients are the first number at which a pair of clients exists that does
  not include the owner; the proofs remove the bound for the invariants of the relay
  and for those of a whole session (section 4);
* a timeout of 0 or 1 ticks has "not yet" and "expired"; a tick may come at any
  time, and a session's age is renewed independently of a waiter's, so either
  can expire first;
* one session: session identifiers are fresh and sessions share nothing but the
  lock, which the proofs cover for any number;
* `Capacity = 1` makes a full channel cheap to reach; a longer channel needs more
  messages for the same block;
* `Reaping` is off where no property is about the reaper: `PurgeExpired` of
  `Connections` changes nothing but the reaper's own state, so it would only double
  the states;
* two connections suffice for a client that overtakes itself, and two clients for
  one that sends to another;
* four rounds of key generation and 1, 6 and 1 of signing are the numbers in
  `KeyGenDriver::new` and `sign.rs`;
* `MaxBuffer = 4`, `TagLen = 1` and payloads of up to seven elements give messages
  of one, two and three chunks, full and not; `CountBits = 2` makes a list of four
  keys overflow its count, as 65 536 keys do with 16 bits;
* the scripts of `event_loop` between them reach every modelled branch of the
  client's methods and of the loop, every panic of the handlers and of `request()`,
  every way of blocking on a full channel, and a clone that relays while a peer
  dials, writes and answers.

Fairness: tokio polls every task that can make progress, time goes on, and the
reaper's and the waiting tasks' intervals fire (weak fairness). tokio's `RwLock`
is fair, so a task that keeps asking for a guard gets it in turn (strong fairness
in `Connections` for the steps that compete for a lock). What clients and the
network owe differs:

* `Sessions`: nothing, not even that they read what they are sent. A task that
  waits for room in a participant's channel need not go on, and `WaitersEnd` and
  `UnusedSessionsGoAway` say what holds unless one waits like that for ever
  (`Stuck`);
* `Connections`: a sound socket takes what is written to it, so its client reads. A
  socket that breaks owes nothing, and `purge_broken` is what comes of it;
* `MeetingPoint`: the state lock becomes free again and again, which takes the same;
* `SessionRun`: every client connects and handles its events, since the question is
  whether well-behaved clients finish;
* `EventLoop`: the socket takes what is written. Every task that can go on does (weak
  fairness per task); nothing is assumed of the branch `select!` takes.

### Disagreements between code and documentation

* **`sessions_verdict`**: a session is reaped while its participants connect
  (registering a connection does not renew `last_access`, and both timeouts
  default to 300 s). `wait_for_session_active` then ends without a word:
  participants get neither `SessionActive` nor `SessionTimeout`.
* **`sessions_notify`**: `notify_peers` returns at the first participant whose
  channel is closed but which still has an entry in `active`; the participants after
  it are not told, although SessionReady, SessionActive and SessionTimeout are
  documented as dispatched to all participants in a session. `OnlyTheDeadCutOff`, in
  `sessions_three`, says that nothing else can cut anyone off.
* **`purge_broken`**: `notify_peers` waits for room in the channel of a broken
  connection, holding `state.read()` and that connection's guard; the write task
  that should make room waits in `disconnect()` for one of the two. From then on
  nothing that needs `state.write()` happens.
* **`stale_disconnect`**: the clean-up of a client's old connection removes the
  entry of its new one.
* **`run_early_close`**: with three or more clients the owner may close the
  session before the last message between two others is relayed. The relay
  refuses it, and its recipient waits for ever.
* **`sign_three`**: with three signers a client may still wait for the key index
  of one peer when another has all of them and sends its first message of the
  offline stage. `wait_for_driver` gives it to the driver that is current, where
  it does not deserialize, and `sign()` returns an error. Two signers cannot get
  that far apart.

### Observations

Behaviour that a reader of the code may not expect, and that no run reports. The
models contain it, and the properties are stated so as to hold with it.

* A connection whose socket broke during the handshake can be promoted after its
  clean-up and stays in `active` without a task that writes (`Connections`). Such
  entries are the `dead` of `Sessions`.
* A meeting can be announced with more users than it has slots: `Meeting::join` takes
  an identifier the owner did not ask for as well. The documentation of MeetingReady
  speaks of the "limit for the meeting" that "has been reached"
  (`protocol/src/protocol.rs`, 143-146), which reads as if there could not be more.
  `ReadyMeansEveryoneJoined` says only that nobody requested is missing.
* A client blocks for ever when a channel of its own is full and its event loop
  has to wait for room (`BlockedOnRoom`): the driver inside a call, a handler or
  the driver waiting for the peers' lock while a clone is inside `relay()`, the
  answer to a peer's handshake, or `read_message`. With 32 places it takes a burst
  of that length. `BlockedForEver` says there is no way out, `DoneUnlessFull` that
  a client waits in vain for nothing else. Neither says that it does not happen: it
  does, and the runs reach it.
* `server_handshake` takes the server state out of its Option and puts nothing back
  when it was no handshake. A second answer to the handshake therefore makes the next
  server message, or the next `request()`, panic at an `unreachable!()`. The relay of
  this repository answers once; `PanicsAreProvoked` says that it takes such a reply,
  and that no order of calls and frames does it alone.
* `request()` releases the server channel before it queues what it has encrypted.
  Two clones that make requests at the same time can queue them in the wrong order,
  after which the relay can decrypt neither. The drivers make requests from one
  task, and `RequestsArrive` assumes it.
* An answer to a peer's handshake that comes a second time takes the state out of
  the map and does not put it back (`peer_handshake_ack`): the channel is gone, and
  a later handshake with the same peer counts its nonces from 0. `PeersCanRead`
  takes one handshake per peer; `EventsInOrder` holds with any number.
* An empty payload is split into no chunks, so nothing of it is encrypted and no
  nonce tells its place: it is delivered even where a message before it was not.
  `EventsInOrder` takes payloads that are not empty.
* The number of keys in a session request is written as a u16: a longer list
  arrives without the keys that do not fit, and without an error.
* Signers whose session order is not the order of their key indices never get a
  signature. A signer whose two numbers differ would send to itself in the second
  round of the offline stage, has no channel to itself and fails with
  `PeerNotFound`; one whose two numbers agree reaches that round and waits there
  for ever (`OnlyKeyOrderFinishes`).
* When the socket ends, the read branch of `select!` is ready at once and for ever
  and yields nothing: the loop spins and the driver is not told. In `EventLoop`
  this is stuttering.

## 4. Proofs

All theorems are about every value of the constants, under the named assumptions
of the module that declares them, which TLC evaluates in the passing runs.
Most of the properties are not inductive as they stand, so each proof has an
invariant of its own, in the proof module, that is.

`ProtocolProofs` says what `party_number`, `connections` and `recipients` compute
on a vector without repeated keys. `recipients` filters recursively; the proof
that its result is determined (`KeptUnique`) looks at the first place where two
results differ, which the lemma `Least` provides.

### The relay

`SessionsProofs` (assumes `ConfigAssumption` and `InputAssumption`, the types of
the constants):

* `TypeCorrect`: the type invariant, with `MembersInv`: the keys a background task
  notifies are the owner and the participants of its session;
* `VerdictCorrect`, `ReadyFirst`: from `VerdictInv`, which ties what has been
  sent to where the waiter is: nothing final has been sent before the waiter has
  found something final to say, and afterwards only that. `OneVerdict` alone is
  not inductive, since it says nothing about a waiter that is about to notify;
* `ActiveCorrect`: from `ConnectedInv`, which adds that a waiter which has found
  the session active, but not yet told anyone, is right as long as the session
  exists. It needs that registrations only grow and identifiers are not reused;
* `NotifiedCorrect`: `NotifiedSoFar` is inductive with the type invariant;
* `CutOffCorrect`: the action property `OnlyTheDeadCutOff`, from `NotifiedSoFar`
  at the step with which the loop of `notify_peers` ends;
* `FinishedCorrect`: from `OwnerInv`. CloseSession looks the owner up, removes the
  session and answers in three steps, with other handlers in between. `OwnerInv`
  says that whoever is between those steps owns the session, so nobody else can
  have got that far, and that the session is gone before the last of them.

`SessionsLifeProofs`: `LifeImplemented`, the refinement `ImplementsLife`. Every
action of `Sessions` is mapped to one of `SessionLife` or to a stuttering step;
`LifeCreate`, `LifeTell`, `LifeVerdict` and `LifeEnd` are those that are mapped to a
step. It takes `TypeOK`, `OwnerInv` and `PollingInv`: the verdict is
read off the waiter's message, which is only sound if a waiter that still polls
carries the message it was made with.

`ConnectionsProofs` (assumes `ConnectionsAssumption`: the types of the
constants, a positive capacity and a `Notifier` that is no connection), for any number of clients and connections
and any capacity:

* `TypeCorrect`, which bounds the length of every channel;
* `GuardCorrect`: `GuardIsInUse` is inductive with the type invariant, over the
  steps of every task;
* `ActiveReady`: from `PromotionInv`, which says of a listen task between the
  handshake and `promote_connection` what `ActiveEntriesAreReady` says of an entry;
* `ReplyComesFirst`: from `AddressInv` and `QueueInv`. A task that is about to send
  an encrypted frame chose its target before it got the guard; `AddressInv` says
  that the target had finished its handshake at that time and `QueueInv` that the
  reply is then in the channel already, or through, or nobody writes any more.

`MeetingPointProofs` (assumes `MeetingAssumption`):

* `TypeCorrect`: from `ShapeInv`, which gives the slots and the announced list
  the types that the steps preserve;
* `ListIsFinal`, `EveryoneJoined`: from `ReadyInv`. A slot is never emptied, and
  `join` refuses a full meeting; so the list that was read when the meeting was
  full is still the list when it is announced.

### The client

`EventLoopProofs` (assumes `EventLoopAssumption`: a positive capacity, tasks that
differ, and keys that are not the two names a script uses besides keys;
`WireAssumption`: a tag shorter than the buffer, and that `2^CountBits` is a positive
number, since the provers know nothing of powers; and `ScriptsAssumption`: calls and
replies come in finite sequences and have the fields of their type), for any
number of clones, any scripts, capacity, buffer length and width of counts.

The format first, as facts about the operators of `Wire`:

* `MessageBack`: decoding an encoded message gives the message back. A reader
  starts at a position, so the lemmas say of each part that the frame `Holds` it at
  the position where its reader starts;
* `ServerMessageBack`: the same for the messages inside an envelope to the relay,
  where lists of keys lose what exceeds the count (`Received`);
* `SplitJoins`: `Chunk::join` undoes `Chunk::split`; a payload that fills its last
  chunk, and an empty one, included.

They rest on what `FlattenSeq` does to sequences of any length (`FlattenVec`,
`FlattenVecAppend`, `FlattenVecCons`). It is a recursive function, and without the
induction theorems the proofs argue from the least place where a claim fails
(`Least`).

Then the client:

* `BlockedStays`: the action property `BlockedForEver`. `CallersInv` gives the
  callers; the rest is that in none of the five ways to be blocked a step of the
  loop or of a caller takes the cause away;
* `AlwaysFits`: from `FitInv`, which follows what is encrypted through the hands
  of the callers (`HeldInv`), the outbound channel (`OutboundInv`) and the loop
  (`LoopInv`) to `EventsInv`: the loop never reports `MaxBufferSize`. `SplitFits` is
  the arithmetic: a chunk of the last, shorter kind fits as well as the others;
* `TypeCorrect`: from `TypeInv`. `TypeOK` says nothing of what is in the channels,
  and a handler that takes a message of no type could do anything; `TypeInv` types
  every request, frame and message on its way, and holds across the socket because
  of `MessageBack`;
* `OrderedEvents`: from `OrderInv`. `InFlight` is what the loop has read and not
  handled: the message in a handler, those in the channel, the one that waits for
  room. `Flight` says that these are replies of the relay in order, all later than
  the last one handled. `GivenInv` says that what the driver has of a peer are the
  first of its messages, and that the nonce the channel expects fits a later message
  only if the driver has all that the peer sent before that one. So a lost message
  ends the sequence, and so does a handshake that came again and made the channel
  count from 0, unless nothing had been sent before;
* `PeersRead`, `RequestsRead`: from `FlowInv` and `TaskInv`. `Line` puts together
  what was encrypted for one receiver, in the order it will be written: the frames
  on the socket, the requests in the channel, and the request in the hand of a
  task. `Flow` says that its chunks are numbered from 0 without a gap, that its
  payloads are what was asked for, and that the channel's nonce is their number.
  There is one request in hand at most because `relay()` keeps the guard on the
  peers until it has queued its own (`Carried`, `LockInv`); requests to the relay
  have no such guard, and there `CloneInv` uses that one task makes them. A
  handshake that fails resets the nonce, and the channel is `Spent`: with one
  handshake per peer, none is left that could open it again (`LastHandshake`,
  `OverStays`), so `relay()` will not use it. When the event loop has ended,
  `Flow` no longer holds, since what is queued then is lost, and `Arrived` is
  what stays;
* `OnlyProvoked`: from `ServerInv`. `PanicsAreProvoked` says nothing of a handshake
  that is already answered; `Greeted` adds that the answer is then among the replies
  up to the last one handled, for the same last one as in `Flight`. So an answer that
  is handled later is a second one, and a message that makes the handler panic is a
  reply that was read (`HandledReply`).

### A whole session

`SessionRunProofs` (assumes `SessionRunAssumption`: at least two participants, no
key twice, `threshold + 1` signers; and `KeyIndexAssumption`: key indices are
positive and differ), for any number of participants, for key generation and
signing:

* `NobodyPanics`: from `CreatedInv`. The initiator unwraps a session state that only
  SessionCreated sets, and the relay's waiter may send it SessionReady first. What it
  must not get first is the answer to a handshake. `CreatedInv` has two cases. Before
  the relay has answered NewSession (`Unanswered`), no peer has sent the initiator
  anything and the session cannot be active: nobody dials the owner, and what the
  owner has sent to others stands behind NewSession in its own queue. After that
  (`Answered`), the answer stands before anything of a peer in the queue to the
  initiator;
* `TypeCorrect`: from `TypeInv`, with the types of both queues;
* `OneInitiator`, `PartyNumbers`: exactly one of two participants dials, and
  `party_number` and `peer_key` are inverse to each other, from what `ProtocolProofs`
  says of `connections` and from the participants having no key twice;
* `ActiveExactly`: `is_active` holds if and only if every participant has registered
  everything it had to dial. From `ChannelInv`: only dialled pairs are registered, and that makes
  `is_active`, which accepts a pair in either order, equivalent to the one-sided
  registration;
* `ChannelsOpen`: from `ChannelInv`. For each pair of clients `PairInv` says where
  its handshake is: the call is on its way at most once and then the other end is
  untouched, the answer is on its way at most once and then only one end is open,
  and a pair the relay has registered is open at both. With `is_active` this
  makes `SessionActive` true of every pair, also of two clients that never told the
  receiver of `SessionActive` anything (`Announced => AllOpen`);
* `InLockStep`: from `RoundInv`. A round message is sent once, when its sender
  begins the round (`SentInv`); a client's buffer counts no more messages of a round
  than peers whose message is not on its way any more (`CountInv`); so a client that
  has passed a round has had the message of every peer (`PassedInv`), and every
  peer has begun that round. The buffer only counts, so this is where it matters
  that `receivers` addresses nobody twice (`ReceiversOnce`);
* `KeyOrderNeeded`: from `RoundInv` and `KeyInv`. The ranks of the key indices are
  a bijection (`NumberInjective`, `NumberOnto`), so a signer whose rank is not its
  place would send to itself (`SendsToItself`), and never begins the second round
  of the offline stage; and then nobody passes it;
* `NothingDropped`: from `RoundInv` and `LobbyInv`. A client in `setup` drops a round
  message. While `notify_peers` runs it holds `state.read()`, and the relay takes
  no message of a round (`RelayedInv`); the participants the loop has passed have
  `SessionActive` before any round message in their queue (`WarnedInv`), and when
  the loop is through these are all. The other parts say that there is one
  waiter (`AskedInv`), that it begins to notify when all are connected
  (`GatheredInv`), and that nobody begins a round before it does (`BegunInv`).
* `NobodyFails`: until a client closes the session, nobody fails; for key generation
  and for two signers (with three signers it is false, and `sign_three` shows a run).
  It has two halves. `EndInv` is about the set-up: only the owner closes, and only
  after its last round (`ClosingInv`), nobody hears of another participant before
  all are connected (`MetInv`), and nobody is told SessionReady twice or after it
  has dialled (`ReadyInv`), so the handshakes of a pair do not cross. `CalmInv` is
  about the rounds: what one client sends another stays in the order of the rounds
  through both queues (`OrderInv`), and what a client has taken of its driver's rounds
  is exactly what its buffer holds (`ExactInv`). Hence a message that arrives is of
  the driver its recipient runs and does not complete a later round (`RightRound`),
  and `handle_incoming` has no reason to fail.

### Only model-checked

The liveness properties, since fairness and ENABLED are out of the prover's reach:
`WaitersEnd`, `UnusedSessionsGoAway`, `PurgeHappens`, `OwnerFinishes`,
`PairFinishes` and `DoneUnlessFull`.

Every invariant and every action property that a passing run checks is proved.

## 5. Not modelled

* Cryptography (Noise, GG20, key pairs): a ciphertext is its plain text and a
  nonce, a protocol is its rounds. PEM encoding, compression, TLS and HTTP routing.
* The order of bytes in integers, and the bytes of strings and identifiers.
* Clocks that are set back: `elapsed().unwrap()` would end a waiting task.
* The checks of the configuration file; the models start from a relay that is
  configured and running. A `wait_interval` of 0 is accepted and makes tokio's
  `interval` panic.
* Errors of a client's socket: `send_message` and `handle_close_message` would yield
  them as events (`native.rs`, `event_loop.rs`), and the loop would go on.
* Full channels inside a whole session: `EventLoop` has them for one client,
  `Connections` for the relay, and `SessionRun` takes its queues as unbounded.
* Lists of participants with a repeated key, which a meeting that one client joined
  twice produces.
* The socket of the web client and the bindings; the client's methods and its loop
  are macros that both clients share, and are in `EventLoop`. The command line.

## 6. Plan

What is modelled covers the parts that carry the protocol, and every invariant and
action property that a passing run checks is proved for every value of the
constants. What is left is outside: liveness stays with TLC, and the parts of
section 5 would need models of their own.
