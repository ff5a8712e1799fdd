----------------------------- MODULE EventLoop ------------------------------
(***************************************************************************)
(* A client and its event loop (client/src/client.rs, event_loop.rs and    *)
(* native.rs; web.rs differs in the socket only).                          *)
(*                                                                         *)
(* The methods of the client put requests into the channel `outbound`.     *)
(* The event loop selects between the socket, whose messages it decodes    *)
(* and puts into the channel `inbound`, the channel `outbound`, which it   *)
(* writes to the socket, and the channel `inbound`, whose messages it      *)
(* turns into events.  It is a stream: it runs only while the driver polls *)
(* it, and the driver does not while it handles an event.  The client can  *)
(* be cloned, and other tasks may call its methods at any time.            *)
(*                                                                         *)
(* The map of peers is behind an RwLock; relay() and the event loop's      *)
(* handshake handler keep its guard while they wait for room in            *)
(* `outbound`.  The lock of the server channel is never kept over a wait,  *)
(* so its sections are parts of a step.                                    *)
(*                                                                         *)
(* A panic!() or unreachable!() ends the task it happens in.  Inside the   *)
(* event loop, or in a call of the driver, that is the driver's task, and  *)
(* the event loop goes with it.  Errors of the socket are left out.        *)
(*                                                                         *)
(* What the tasks ask for and what the relay sends comes from a script.    *)
(***************************************************************************)
EXTENDS Wire

CONSTANTS
    Keys,       \* public keys of peers
    Clones,     \* tasks with a clone of the client
    Driver,     \* the task that polls the event loop
    Loop,       \* the event loop
    NoOne,
    Capacity,   \* of each of the two channels, 32 in the code
    Scripts

ASSUME EventLoopAssumption ==
    /\ Capacity \in Nat \ {0}
    /\ Loop \notin Clones /\ Driver \notin Clones /\ Loop # Driver
    /\ NoOne \notin Clones \cup {Driver, Loop}
    /\ Keys \cap {"server", "transparent"} = {}

(***************************************************************************)
(* A script:                                                               *)
(*   server, peers  the Noise states to begin with                         *)
(*   bursts         the calls of the driver, first before it polls the     *)
(*                  stream and then after each event                       *)
(*   calls          the calls of each clone                                *)
(*   replies        what the relay sends, each with the number of frames   *)
(*                  it must have received before (`after`) and the version *)
(*                  of the protocol it speaks                              *)
(***************************************************************************)
Callers == Clones \cup {Driver}

CallsOf(s) == Range(s.calls) \cup UNION {Range(burst) : burst \in Range(s.bursts)}

IsCall(call) ==
    \/ call.call \in {"connect", "close"}
    \/ call.call = "connect_peer" /\ call.key \in Keys
    \/ call.call = "request" /\ IsServerMessage(call.message)
    \/ /\ call.call = "relay"
       /\ call.key \in Keys /\ IsVec(call.payload) /\ IsOption(call.session)
       /\ call.encoding \in DOMAIN EncodingId

IsReply(reply) ==
    \/ /\ reply.from = "transparent" /\ IsMessage(reply.message)
       /\ reply.message.class = "Transparent"
       /\ reply.message.type = "PeerHandshake" => reply.message.key \in Keys
    \/ /\ reply.from \in Keys \cup {"server"}
       /\ IsVec(reply.payload) /\ IsOption(reply.session)
       /\ reply.encoding \in DOMAIN EncodingId

Status == {"none", "handshake", "transport"}

\* Calls and replies come in vectors, and have the fields of their type.
ASSUME ScriptsAssumption ==
    \A s \in Scripts :
        /\ s.server \in Status \ {"none"} /\ \A k \in Keys : s.peers[k] \in Status
        /\ s.calls \in Seq(CallsOf(s))
        /\ s.bursts \in Seq(Seq(CallsOf(s))) /\ s.bursts # <<>>
        /\ \A call \in CallsOf(s) : IsCall(call)
        /\ IsVec(s.replies) /\ \A i \in DOMAIN s.replies : IsReply(s.replies[i])

VARIABLES
    script,     \* never changes
    server,     \* the Noise state of the server channel: status, nonces
    peers,      \* the same for each peer; "none" is no state at all
    lock,       \* who has peers.write()
    todo,       \* the calls each task still has to make
    held,       \* Option: the request a task is about to queue
    inbound, outbound,
    loop,       \* where the event loop is, and its message or request
    read,       \* number of frames read from the socket
    written,    \* the frames written to the socket
    events,     \* what the driver was given
    asked       \* history: the payloads given to relay() and request()

tasks == <<todo, held>>
channels == <<inbound, outbound>>
vars == <<script, server, peers, lock, tasks, channels, loop, read, written,
          events, asked>>

NoMessage == [class |-> "none"]
Channel(status) == [status |-> status, sent |-> 0, received |-> 0]

Init ==
    /\ script \in Scripts
    /\ server = Channel(script.server)
    /\ peers = [k \in Keys |-> Channel(script.peers[k])]
    /\ lock = NoOne
    /\ todo = [c \in Callers |->
           IF c = Driver THEN script.bursts[1] ELSE script.calls]
    /\ held = [c \in Callers |-> {}]
    /\ inbound = <<>>
    /\ outbound = <<>>
    /\ loop = [pc |-> "idle", message |-> NoMessage]
    /\ read = 0
    /\ written = <<>>
    /\ events = <<>>
    /\ asked = [server |-> <<>>, peers |-> [k \in Keys |-> <<>>]]

-----------------------------------------------------------------------------
(* The methods of the client                                               *)

\* The driver acts while it does not poll the event loop.
Turn(c) == held[c] = {} /\ todo[c] # <<>> /\ (c = Driver => loop.pc = "idle")

Call(c, type) ==
    /\ Turn(c)
    /\ Head(todo[c]).call = type
    /\ todo' = [todo EXCEPT ![c] = Tail(@)]

Hold(c, request) == held' = [held EXCEPT ![c] = {request}]

Handshake(type, side, key) ==
    [class |-> "Transparent", type |-> type, side |-> side, length |-> 48,
     noise |-> "noise", key |-> key]

ServerHandshake(side) ==
    [class |-> "Transparent", type |-> "ServerHandshake", side |-> side,
     length |-> 48, noise |-> "noise"]

Envelope(payload, channel, encoding, broadcast) ==
    [encoding |-> encoding, broadcast |-> broadcast,
     chunks |-> split(payload, channel.sent)]

Encrypted(channel, envelope) ==
    [channel EXCEPT !.sent = @ + Len(envelope.chunks)]

\* A slip: the state is taken out of the Option, not borrowed.
ConnectTakesState(c) ==
    /\ Call(c, "connect")
    /\ server.status = "handshake"
    /\ server' = [server EXCEPT !.status = "none"]
    /\ Hold(c, ServerHandshake("Initiator"))
    /\ UNCHANGED <<script, peers, lock, channels, loop, read, written, events,
                   asked>>

Connect(c) ==
    /\ Call(c, "connect")
    /\ server.status = "handshake"
    /\ Hold(c, ServerHandshake("Initiator"))
    /\ UNCHANGED <<script, server, peers, lock, channels, loop, read, written,
                   events, asked>>

\* The guard is dropped before the request is queued.
ConnectPeer(c) ==
    /\ Call(c, "connect_peer")
    /\ lock = NoOne
    /\ LET key == Head(todo[c]).key
       IN /\ peers[key].status = "none"
          /\ peers' = [peers EXCEPT ![key].status = "handshake"]
          /\ Hold(c, Handshake("PeerHandshake", "Initiator", key))
    /\ UNCHANGED <<script, server, lock, channels, loop, read, written, events,
                   asked>>

\* Encrypted under the server's lock, which is released before the request is
\* queued.
Request(c) ==
    /\ Call(c, "request")
    /\ server.status = "transport"
    /\ LET message == Head(todo[c]).message
           envelope == Envelope(encode_server(message), server, "Blob", FALSE)
       IN /\ server' = Encrypted(server, envelope)
          /\ Hold(c, [class |-> "Opaque", type |-> "ServerMessage",
                      envelope |-> envelope])
          /\ asked' = [asked EXCEPT !.server = Append(@, message)]
    /\ UNCHANGED <<script, peers, lock, channels, loop, read, written, events>>

\* A slip: the guard is dropped before the request is queued.
RelayDropsGuard(c) ==
    /\ Call(c, "relay")
    /\ lock = NoOne
    /\ LET call == Head(todo[c])
           envelope == Envelope(call.payload, peers[call.key], call.encoding,
                                call.broadcast)
       IN /\ peers[call.key].status = "transport"
          /\ peers' = [peers EXCEPT ![call.key] = Encrypted(@, envelope)]
          /\ Hold(c, [class |-> "Opaque", type |-> "PeerMessage",
                      key |-> call.key, session |-> call.session,
                      envelope |-> envelope])
          /\ asked' = [asked EXCEPT !.peers[call.key] = Append(@, call.payload)]
    /\ UNCHANGED <<script, server, lock, channels, loop, read, written, events>>

\* The guard is kept until the request is queued.
Relay(c) ==
    /\ Call(c, "relay")
    /\ lock = NoOne
    /\ LET call == Head(todo[c])
           envelope == Envelope(call.payload, peers[call.key], call.encoding,
                                call.broadcast)
       IN /\ peers[call.key].status = "transport"
          /\ peers' = [peers EXCEPT ![call.key] = Encrypted(@, envelope)]
          /\ Hold(c, [class |-> "Opaque", type |-> "PeerMessage",
                      key |-> call.key, session |-> call.session,
                      envelope |-> envelope])
          /\ asked' = [asked EXCEPT !.peers[call.key] = Append(@, call.payload)]
    /\ lock' = c
    /\ UNCHANGED <<script, server, channels, loop, read, written, events>>

\* PeerAlreadyExists, PeerNotFound, NotTransportState, NotHandshakeState: the
\* method returns an error, and `?` ends what its caller was doing.
Refused(call) ==
    \/ call.call = "connect" /\ server.status # "handshake"
    \/ call.call = "request" /\ server.status = "handshake"
    \/ call.call = "connect_peer" /\ lock = NoOne
           /\ peers[call.key].status # "none"
    \/ call.call = "relay" /\ lock = NoOne
           /\ peers[call.key].status # "transport"

Refuse(c) ==
    /\ Turn(c)
    /\ Refused(Head(todo[c]))
    /\ todo' = [todo EXCEPT ![c] = <<>>]
    /\ UNCHANGED <<script, server, peers, lock, held, channels, loop, read,
                   written, events, asked>>

\* request() without a server state: unreachable!().
Panic(c) ==
    /\ Turn(c)
    /\ Head(todo[c]).call = "request" /\ server.status = "none"
    /\ todo' = [todo EXCEPT ![c] = <<>>]
    /\ loop' = IF c = Driver THEN [loop EXCEPT !.pc = "panicked"] ELSE loop
    /\ UNCHANGED <<script, server, peers, lock, held, channels, read, written,
                   events, asked>>

Close(c) ==
    /\ Call(c, "close")
    /\ Hold(c, [class |-> "Close"])
    /\ UNCHANGED <<script, server, peers, lock, channels, loop, read, written,
                   events, asked>>

\* The event loop is gone, and with it the receiver of the channel.
Ended == loop.pc \in {"closed", "panicked"}

\* A slip: the channel is taken to have room.
QueueUnbounded(c) ==
    /\ held[c] # {}
    /\ ~Ended
    /\ \E request \in held[c] : outbound' = Append(outbound, request)
    /\ held' = [held EXCEPT ![c] = {}]
    /\ lock' = IF lock = c THEN NoOne ELSE lock
    /\ UNCHANGED <<script, server, peers, todo, inbound, loop, read, written,
                   events, asked>>

\* outbound_tx.send(..).await
Queue(c) ==
    /\ held[c] # {}
    /\ ~Ended
    /\ Len(outbound) < Capacity
    /\ \E request \in held[c] : outbound' = Append(outbound, request)
    /\ held' = [held EXCEPT ![c] = {}]
    /\ lock' = IF lock = c THEN NoOne ELSE lock
    /\ UNCHANGED <<script, server, peers, todo, inbound, loop, read, written,
                   events, asked>>

\* SendError: nobody is there to receive.
QueueFails(c) ==
    /\ held[c] # {}
    /\ Ended
    /\ held' = [held EXCEPT ![c] = {}]
    /\ todo' = [todo EXCEPT ![c] = <<>>]
    /\ lock' = IF lock = c THEN NoOne ELSE lock
    /\ UNCHANGED <<script, server, peers, channels, loop, read, written, events,
                   asked>>

Caller(c) ==
    \/ Connect(c) \/ ConnectPeer(c) \/ Request(c) \/ Relay(c) \/ Close(c)
    \/ Refuse(c) \/ Panic(c) \/ Queue(c) \/ QueueFails(c)

\* The driver is done with an event and polls the stream.
Poll ==
    /\ loop.pc = "idle"
    /\ held[Driver] = {} /\ todo[Driver] = <<>>
    /\ loop' = [loop EXCEPT !.pc = "select"]
    /\ UNCHANGED <<script, server, peers, lock, tasks, channels, read, written,
                   events, asked>>

-----------------------------------------------------------------------------
(* The event loop.  select! takes any branch that is ready.                *)

\* The frame the relay sends next, encrypted with the next nonce of its
\* channel; a reply without payload is a transparent message.
Earlier(i, from) ==
    Len(FlattenSeq([j \in 1..(i - 1) |->
            IF script.replies[j].from = from
            THEN split(script.replies[j].payload, 0) ELSE <<>>]))

ReplyMessage(i) ==
    LET reply == script.replies[i]
        envelope == [encoding |-> reply.encoding, broadcast |-> FALSE,
                     chunks |-> split(reply.payload, Earlier(i, reply.from))]
    IN IF reply.from = "transparent" THEN reply.message
       ELSE IF reply.from = "server"
       THEN [class |-> "Opaque", type |-> "ServerMessage", envelope |-> envelope]
       ELSE [class |-> "Opaque", type |-> "PeerMessage", key |-> reply.from,
             session |-> reply.session, envelope |-> envelope]

ReplyFrame(i) ==
    [encode(ReplyMessage(i)) EXCEPT ![2] = script.replies[i].version]

Available == {i \in DOMAIN script.replies :
                  script.replies[i].after <= Len(written)}

\* The stream yields an event, and the driver handles it: its next calls.
Yield(event) ==
    /\ loop' = [pc |-> "idle", message |-> NoMessage]
    /\ events' = Append(events, event)
    /\ todo' = [todo EXCEPT ![Driver] =
           IF Len(events) + 2 \in DOMAIN script.bursts
           THEN script.bursts[Len(events) + 2] ELSE <<>>]
    /\ UNCHANGED held

NoEvent ==
    /\ loop' = [pc |-> "select", message |-> NoMessage]
    /\ UNCHANGED <<events, tasks>>

\* The handler panics, in the task of the driver.
HandlerPanics ==
    /\ loop' = [pc |-> "panicked", message |-> NoMessage]
    /\ UNCHANGED <<events, tasks>>

Err(error) == [event |-> "Err", about |-> error]

\* Error::ServerError, what the relay answers to a request it refuses.
ServerError(code) == [event |-> "Err", about |-> "ServerError", code |-> code]

\* read_message: decoded at once, then inbound_tx.send(..).await.
ReadFrame ==
    /\ loop.pc = "select"
    /\ read + 1 \in Available
    /\ read' = read + 1
    /\ LET message == decode(ReplyFrame(read + 1))
       IN IF message = DecodeError
          THEN Yield(Err("Decode"))
          ELSE /\ loop' = [pc |-> "read", message |-> message]
               /\ UNCHANGED <<events, tasks>>
    /\ UNCHANGED <<script, server, peers, lock, channels, written, asked>>

QueueResponse ==
    /\ loop.pc = "read"
    /\ Len(inbound) < Capacity
    /\ inbound' = Append(inbound, loop.message)
    /\ loop' = [pc |-> "select", message |-> NoMessage]
    /\ UNCHANGED <<script, server, peers, lock, tasks, outbound, read, written,
                   events, asked>>

\* send_message, or handle_close_message and the end of the stream.  The socket
\* takes what is written.
WriteFrame ==
    /\ loop.pc = "select"
    /\ outbound # <<>>
    /\ outbound' = Tail(outbound)
    /\ LET request == Head(outbound)
       IN IF request.class = "Close"
          THEN /\ loop' = [pc |-> "closed", message |-> NoMessage]
               /\ events' = Append(events, [event |-> "Close"])
               /\ UNCHANGED <<tasks, written>>
          ELSE IF request.class = "Opaque" /\ ~Fits(request.envelope)
          THEN Yield(Err("MaxBufferSize")) /\ UNCHANGED written
          ELSE NoEvent /\ written' = Append(written, encode(request))
    /\ UNCHANGED <<script, server, peers, lock, inbound, read, asked>>

Decrypted(channel, envelope) ==
    [channel EXCEPT !.received = @ + Len(envelope.chunks)]

CanDecrypt(channel, envelope) ==
    /\ channel.status = "transport"
    /\ CanJoin(envelope.chunks, channel.received)

\* Events of handle_server_channel_message; the others are dropped.
ServerEvents == WithState \cup {"SessionTimeout", "SessionFinished"}

\* handle_incoming_message takes the next message of one of these types.
Take(types) ==
    /\ loop.pc = "select"
    /\ inbound # <<>>
    /\ Head(inbound).type \in types
    /\ inbound' = Tail(inbound)
    /\ UNCHANGED <<script, peers, lock, outbound, read, written, asked>>

TakeError ==
    /\ Take({"Error"})
    /\ Yield(ServerError(Head(inbound).code))
    /\ UNCHANGED server

\* state.take() leaves nothing behind when the state is not a handshake.  The
\* answer itself is one that Noise accepts.
TakeServerHandshake ==
    /\ Take({"ServerHandshake"})
    /\ Head(inbound).side = "Responder"
    /\ IF server.status = "handshake"
       THEN /\ server' = [server EXCEPT !.status = "transport"]
            /\ Yield([event |-> "ServerConnected"])
       ELSE /\ server' = [server EXCEPT !.status = "none"]
            /\ Yield(Err("NotHandshakeState"))

\* The last arm of the match: panic!("unhandled message").
TakeUnhandled ==
    /\ Take({"ServerHandshake"})
    /\ Head(inbound).side = "Initiator"
    /\ HandlerPanics
    /\ UNCHANGED server

\* Without a server state the code is "unreachable", and the relay is taken to
\* encode its messages as blobs.
TakeServerMessage ==
    /\ Take({"ServerMessage"})
    /\ LET envelope == Head(inbound).envelope
           message == decode_server(join_chunks(envelope.chunks))
       IN IF server.status = "none"
          THEN HandlerPanics /\ UNCHANGED server
          ELSE IF ~CanDecrypt(server, envelope)
          THEN Yield(Err("Decrypt")) /\ UNCHANGED server
          ELSE /\ server' = Decrypted(server, envelope)
               /\ IF envelope.encoding # "Blob"
                  THEN HandlerPanics
                  ELSE IF message.type \in ServerEvents
                  THEN Yield([event |-> "Server", message |-> message])
                  ELSE IF message.type = "Error"
                  THEN Yield(ServerError(message.code))
                  ELSE NoEvent

\* The handlers of the others begin with peers.write().await.
TakePeer ==
    /\ Take({"PeerHandshake", "PeerMessage"})
    /\ loop' = [pc |-> "lock", message |-> Head(inbound)]
    /\ UNCHANGED <<server, events, tasks>>

TakeResponse ==
    \/ TakeError \/ TakeServerHandshake \/ TakeUnhandled
    \/ TakeServerMessage \/ TakePeer

\* peer_handshake_responder: with the guard it queues the answer.
PeerHandshakeResponder ==
    /\ loop.pc = "lock" /\ lock = NoOne
    /\ loop.message.type = "PeerHandshake" /\ loop.message.side = "Initiator"
    /\ LET key == loop.message.key
       IN IF peers[key].status # "none"
          THEN /\ Yield(Err("PeerAlreadyExistsMaybeRace"))
               /\ UNCHANGED <<peers, lock>>
          ELSE /\ peers' = [peers EXCEPT ![key].status = "transport"]
               /\ lock' = Loop
               /\ loop' = [pc |-> "reply",
                           message |-> Handshake("PeerHandshake", "Responder", key)]
               /\ UNCHANGED <<events, tasks>>
    /\ UNCHANGED <<script, server, channels, read, written, asked>>

\* A slip: the guard is not dropped with the answer.
QueueReplyKeepsGuard ==
    /\ loop.pc = "reply"
    /\ Len(outbound) < Capacity
    /\ outbound' = Append(outbound, loop.message)
    /\ Yield([event |-> "PeerConnected", key |-> loop.message.key])
    /\ UNCHANGED <<script, server, peers, lock, inbound, read, written, asked>>

QueueReply ==
    /\ loop.pc = "reply"
    /\ Len(outbound) < Capacity
    /\ outbound' = Append(outbound, loop.message)
    /\ lock' = NoOne
    /\ Yield([event |-> "PeerConnected", key |-> loop.message.key])
    /\ UNCHANGED <<script, server, peers, inbound, read, written, asked>>

PeerHandshakeAck ==
    /\ loop.pc = "lock" /\ lock = NoOne
    /\ loop.message.type = "PeerHandshake" /\ loop.message.side = "Responder"
    /\ LET key == loop.message.key
       IN IF peers[key].status = "handshake"
          THEN /\ peers' = [peers EXCEPT ![key].status = "transport"]
               /\ Yield([event |-> "PeerConnected", key |-> key])
          ELSE /\ peers' = [peers EXCEPT ![key] = Channel("none")]
               /\ Yield(Err(IF peers[key].status = "none"
                            THEN "PeerNotFound" ELSE "NotHandshakeState"))
    /\ UNCHANGED <<script, server, lock, channels, read, written, asked>>

\* A slip: only the first chunk is taken.
decrypt_first_chunk(envelope) == envelope.chunks[1].contents.plain

decrypt_peer_channel(envelope) == join_chunks(envelope.chunks)

HandleRelayedMessage ==
    /\ loop.pc = "lock" /\ lock = NoOne
    /\ loop.message.type = "PeerMessage"
    /\ LET m == loop.message
       IN IF CanDecrypt(peers[m.key], m.envelope)
          THEN /\ peers' = [peers EXCEPT ![m.key] = Decrypted(@, m.envelope)]
               /\ Yield([event |-> "Message", key |-> m.key,
                         encoding |-> m.envelope.encoding,
                         payload |-> decrypt_peer_channel(m.envelope),
                         session |-> m.session])
          ELSE Yield(Err("Decrypt")) /\ UNCHANGED peers
    /\ UNCHANGED <<script, server, lock, channels, read, written, asked>>

LoopStep ==
    \/ ReadFrame \/ QueueResponse
    \/ WriteFrame
    \/ TakeResponse \/ PeerHandshakeResponder \/ QueueReply \/ PeerHandshakeAck
    \/ HandleRelayedMessage

Next ==
    \/ \E c \in Callers : Caller(c)
    \/ Poll
    \/ LoopStep

Spec == Init /\ [][Next]_vars

\* A task that can go on does.  Nothing is assumed of the choices of select!.
Fairness ==
    /\ \A c \in Callers : WF_vars(Caller(c))
    /\ WF_vars(Poll)
    /\ WF_vars(LoopStep)

FairSpec == Spec /\ Fairness

-----------------------------------------------------------------------------
(* Properties                                                              *)

IsChannel(c) == c.status \in Status /\ c.sent \in Nat /\ c.received \in Nat

\* The variables have their types: neither channel of run() ever holds more
\* than its capacity, and a task or the event loop has the map of peers.
TypeOK ==
    /\ IsChannel(server) /\ \A k \in Keys : IsChannel(peers[k])
    /\ lock \in Callers \cup {Loop, NoOne}
    /\ \A c \in Callers : Cardinality(held[c]) <= 1
    /\ Len(inbound) <= Capacity /\ Len(outbound) <= Capacity
    /\ loop.pc \in {"idle", "select", "read", "lock", "reply", "closed", "panicked"}
    /\ read \in 0..Len(script.replies)

\* What the receiver makes of the frames that match: the payloads, if the
\* nonces come in the order Noise wants.
Chunks(Match(_)) ==
    FlattenSeq([j \in DOMAIN written |->
        LET m == decode(written[j])
        IN IF m.class = "Opaque" /\ Match(m) THEN m.envelope.chunks ELSE <<>>])

Payloads(Match(_)) ==
    FlattenSeq([j \in DOMAIN written |->
        LET m == decode(written[j])
        IN IF m.class = "Opaque" /\ Match(m)
           THEN <<join_chunks(m.envelope.chunks)>> ELSE <<>>])

\* The handshake messages of a peer among the replies.
Handshakes(k) ==
    {i \in DOMAIN script.replies :
        LET reply == script.replies[i]
        IN /\ reply.from = "transparent"
           /\ reply.message.type = "PeerHandshake" /\ reply.message.key = k}

\* A peer can decrypt what the event loop writes for it, and gets the payloads
\* in the order the calls of relay() were made, also when several clones of the
\* client relay to the same peer: relay() keeps its guard on the peers until
\* the request is in the channel.  This takes one handshake with the peer: an
\* answer that comes again drops the channel, and the next one counts its
\* nonces from 0.
PeersCanRead ==
    \A k \in Keys :
        LET ToPeer(m) == m.type = "PeerMessage" /\ m.key = k
            OneHandshake == \A i, j \in Handshakes(k) : i = j
        IN OneHandshake =>
           /\ CanJoin(Chunks(ToPeer), 0)
           /\ IsPrefix(Payloads(ToPeer), asked.peers[k])

\* The list of keys the relay decodes: its length is written as a u16, so a
\* longer list loses keys without an error.
Received(m) ==
    IF "keys" \in DOMAIN m THEN [m EXCEPT !.keys = SubSeq(@, 1, u16(Len(@)))]
                           ELSE m

\* The relay can decrypt the requests of request() and decodes what the client
\* encoded, except for the keys that do not fit the count.  This takes one
\* task that makes requests: request() releases the server channel before it
\* queues the envelope, and two clones may queue theirs the other way round.
RequestsArrive ==
    LET ToServer(m) == m.type = "ServerMessage"
        decoded == Payloads(ToServer)
        OneTask == \A i \in DOMAIN script.calls : script.calls[i].call # "request"
    IN OneTask =>
        /\ CanJoin(Chunks(ToServer), 0)
        /\ Len(decoded) <= Len(asked.server)
        /\ \A j \in DOMAIN decoded :
               decode_server(decoded[j]) = Received(asked.server[j])

\* The driver is given the messages of a peer whole, in the order the relay
\* sent them and none twice; a message that cannot be decrypted ends the
\* sequence, it never leaves a gap in it.  This takes payloads that are not
\* empty: an empty one has no chunks, and no nonce that could be wrong.
EventsInOrder ==
    \A k \in Keys :
        LET given == FlattenSeq([j \in DOMAIN events |->
                         IF events[j].event = "Message" /\ events[j].key = k
                         THEN <<events[j]>> ELSE <<>>])
            sent == FlattenSeq([j \in DOMAIN script.replies |->
                         IF script.replies[j].from = k
                         THEN <<script.replies[j]>> ELSE <<>>])
        IN (\A j \in DOMAIN sent : sent[j].payload # <<>>) =>
           /\ Len(given) <= Len(sent)
           /\ \A j \in DOMAIN given :
                  /\ given[j].payload = sent[j].payload
                  /\ given[j].session = sent[j].session
                  /\ given[j].encoding = sent[j].encoding

\* Chunk::split leaves room for the authentication tag: send_message never
\* finds a chunk that is longer than encode_buffer accepts.
ChunksFit == \A j \in DOMAIN events : events[j] # Err("MaxBufferSize")

\* Replies the relay of this repository never makes: a server message that is
\* not a blob, the initiator's half of the handshake, its answer a second time
\* or to a client that is connected.
Greetings ==
    {i \in DOMAIN script.replies :
        /\ script.replies[i].from = "transparent"
        /\ script.replies[i].message.type = "ServerHandshake"}

Unexpected(i) ==
    \/ script.replies[i].from = "server" /\ script.replies[i].encoding # "Blob"
    \/ /\ i \in Greetings
       /\ \/ script.replies[i].message.side = "Initiator"
          \/ script.server = "transport"
          \/ \E j \in Greetings : j < i

\* The client panics in request() and in handle_incoming_message when the
\* server state is gone or a message is of no kind it handles.  Only a reply
\* the relay never makes leads there: no interleaving of calls, clones and
\* frames takes the state away by itself.
PanicsAreProvoked ==
    loop.pc = "panicked" \/ server.status = "none" =>
        \E i \in 1..read : Unexpected(i)

NeedsPeers(c) ==
    /\ held[c] = {} /\ todo[c] # <<>>
    /\ Head(todo[c]).call \in {"relay", "connect_peer"}

\* The event loop cannot go on until there is room in a channel that only the
\* event loop empties: the driver, which does not poll it, is inside a call; or
\* the driver or the handler of a peer's message waits for a clone that is
\* inside relay(); or that handler queues its answer; or read_message waits for
\* the channel the same select! reads.
BlockedOnRoom ==
    \/ /\ Len(outbound) = Capacity
       /\ \/ loop.pc = "idle" /\ held[Driver] # {}
          \/ loop.pc = "idle" /\ NeedsPeers(Driver) /\ lock \in Clones
          \/ loop.pc = "lock" /\ lock \in Clones
          \/ loop.pc = "reply"
    \/ loop.pc = "read" /\ Len(inbound) = Capacity

\* Once blocked like that, it is blocked for good, whatever other tasks do.
BlockedForEver == [][BlockedOnRoom => BlockedOnRoom']_vars

Done ==
    /\ \A c \in Callers : todo[c] = <<>> /\ held[c] = {}
    /\ \/ Ended
       \/ loop.pc = "select" /\ inbound = <<>> /\ outbound = <<>>
              /\ read + 1 \notin Available

\* A full channel is the only thing a client waits for in vain: otherwise every
\* call returns or panics, no task waits for the map of peers for ever, and the
\* event loop writes every request and handles every frame, unless it is closed
\* or panics on the way.
DoneUnlessFull == <>(Done \/ BlockedOnRoom)

=============================================================================
