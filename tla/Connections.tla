---------------------------- MODULE Connections ----------------------------
(***************************************************************************)
(* The relay's websocket connections (server/src/websocket.rs and          *)
(* server/src/service.rs): upgrade, the read, write and listen tasks of    *)
(* each connection, the server handshake that moves a connection from      *)
(* `pending` to `active`, relayed messages, and notify_peers.              *)
(*                                                                         *)
(* Each connection has an RwLock of its own and a bounded channel of       *)
(* outgoing frames; ServerState has one more RwLock.  A task that sends to *)
(* a connection holds its write guard until the channel has room.  A read  *)
(* guard that is dropped before the next await is a guard of the step.     *)
(***************************************************************************)
EXTENDS Integers, Sequences

CONSTANTS
    Conns,      \* connections, one per websocket upgrade
    Keys,       \* public keys of clients
    Participants, \* those that sessions are made of
    Notifier,   \* the background task that runs notify_peers
    public_key, \* the key each connection offers in its query string
    Capacity,   \* room in the outgoing channel, 32 in upgrade()
    Faults,     \* what may happen to a socket: subset of {"broken", "closed"}
    Allow, Deny, \* ServerConfig: lists of keys, each an Option
    Reaping     \* a bound: whether the reaper's interval comes round

ASSUME ConnectionsAssumption ==
    /\ public_key \in [Conns -> Keys] /\ Participants \subseteq Keys
    /\ Capacity \in Nat \ {0}
    /\ Faults \subseteq {"broken", "closed"}
    /\ Notifier \notin Conns
    /\ Allow \subseteq SUBSET Keys /\ Deny \subseteq SUBSET Keys
    /\ Reaping \in BOOLEAN

VARIABLES
    pending,    \* ServerState::pending
    active,     \* ServerState::active, Option<Connection> for each key
    proto,      \* WebSocketConnection::state
    socket,     \* the websocket: "none", "open", "broken" or "closed"
    outgoing,   \* frames in the outgoing channel
    greeted,    \* connections whose client has been sent the reply
    holder,     \* the task that has the connection's write guard, an Option
    task,       \* the listen task of each connection, and the notifier
    reader,     \* the read task of each connection
    writer,     \* the write task of each connection
    purge       \* "due" while purge_expired waits for state.write()

tables == <<pending, active>>
sockets == <<socket, outgoing, greeted>>
vars == <<tables, proto, sockets, holder, task, reader, writer, purge>>

Tasks == Conns \cup {Notifier}

\* Frames: the handshake reply, an unencrypted error, a message encrypted
\* by the server or relayed from a peer, and a close frame.
Frames == {"handshake", "error", "opaque", "close"}

(***************************************************************************)
(* task[t].pc of a listen task: "idle"; "handshake" (holds its own guard,  *)
(* sends the reply); "handshaken" (will read its own id and key);          *)
(* "promote" (awaits state.write()); "lock" (awaits the guard of           *)
(* task[t].to); "send" (holds it, awaits room for task[t].frame); "ended". *)
(* The notifier is "idle", or it holds the read guard of the state:        *)
(* "loop", "lock", "send"; task[t].keys are the keys still to be notified. *)
(***************************************************************************)
TaskType ==
    [pc    : {"idle", "handshake", "handshaken", "promote", "lock", "send",
              "loop", "ended"},
     to    : SUBSET Conns,
     frame : Frames,
     keys  : SUBSET Keys]

Idle == [pc |-> "idle", to |-> {}, frame |-> "opaque", keys |-> {}]

SocketTask == {"none", "run", "disconnect", "remove", "close", "ended"}

StateIsRead == task[Notifier].pc # "idle"

Free(c) == holder[c] = {}

\* The write task owns the receiver of the outgoing channel until it ends.
HasReceiver(c) == writer[c] # "ended"

HasRoom(c) == Len(outgoing[c]) < Capacity

-----------------------------------------------------------------------------

Init ==
    /\ pending = {}
    /\ active = [k \in Keys |-> {}]
    /\ proto = [c \in Conns |-> "handshake"]
    /\ socket = [c \in Conns |-> "none"]
    /\ outgoing = [c \in Conns |-> <<>>]
    /\ greeted = {}
    /\ holder = [c \in Conns |-> {}]
    /\ task = [t \in Tasks |-> Idle]
    /\ reader = [c \in Conns |-> "none"]
    /\ writer = [c \in Conns |-> "none"]
    /\ purge = "done"

\* A slip: the list of allowed keys is looked at first.
is_allowed_first(key) ==
    \/ \E allow \in Allow : key \in allow
    \/ Allow = {} /\ \A deny \in Deny : key \notin deny

is_allowed_access(key) ==
    /\ \A deny \in Deny : key \notin deny
    /\ \A allow \in Allow : key \in allow

\* upgrade() and handle_socket().
Upgrade(c) ==
    /\ socket[c] = "none"
    /\ ~StateIsRead
    /\ is_allowed_access(public_key[c])
    /\ pending' = pending \cup {c}
    /\ socket' = [socket EXCEPT ![c] = "open"]
    /\ reader' = [reader EXCEPT ![c] = "run"]
    /\ writer' = [writer EXCEPT ![c] = "run"]
    /\ UNCHANGED <<active, proto, outgoing, greeted, holder, task, purge>>

\* The network fails, or the client sends a close frame.
SocketFault(c) ==
    /\ socket[c] = "open"
    /\ \E fault \in Faults : socket' = [socket EXCEPT ![c] = fault]
    /\ UNCHANGED <<tables, proto, outgoing, greeted, holder, task, reader,
                   writer, purge>>

-----------------------------------------------------------------------------
(* The listen task: handle_request and handle_error                        *)

\* The listen task will send one frame to connection d.
SendTo(t, d, frame) ==
    task' = [task EXCEPT ![t] =
                [@ EXCEPT !.pc = "lock", !.to = {d}, !.frame = frame]]

\* handle_error picks the error frame by the protocol state.
ErrorFrame(c) == IF proto[c] = "transport" THEN "opaque" ELSE "error"

ServerHandshake(c) ==
    /\ socket[c] # "none" /\ task[c].pc = "idle"
    /\ proto[c] = "handshake"
    /\ Free(c)
    /\ holder' = [holder EXCEPT ![c] = {c}]
    /\ task' = [task EXCEPT ![c].pc = "handshake"]
    /\ UNCHANGED <<tables, proto, sockets, reader, writer, purge>>

\* A handshake message that Noise refuses, or one that comes too late
\* (NotHandshakeState).
HandshakeError(c) ==
    /\ socket[c] # "none" /\ task[c].pc = "idle"
    /\ Free(c)
    /\ SendTo(c, c, ErrorFrame(c))
    /\ UNCHANGED <<tables, proto, sockets, holder, reader, writer, purge>>

\* A slip: the connection is made active before the reply is queued.
HandshakeReplyLast(c) ==
    /\ task[c].pc = "handshake"
    /\ ~StateIsRead
    /\ pending' = pending \ {c}
    /\ active' = [active EXCEPT ![public_key[c]] = {c}]
    /\ holder' = [holder EXCEPT ![c] = {}]
    /\ task' = [task EXCEPT ![c] =
           [Idle EXCEPT !.pc = "lock", !.to = {c}, !.frame = "handshake"]]
    /\ UNCHANGED <<proto, sockets, reader, writer, purge>>

\* A slip: the guard on the connection is not dropped before promotion.
HandshakeReplyKeepsGuard(c) ==
    /\ task[c].pc = "handshake"
    /\ HasReceiver(c) /\ HasRoom(c)
    /\ outgoing' = [outgoing EXCEPT ![c] = Append(@, "handshake")]
    /\ proto' = [proto EXCEPT ![c] = "transport"]
    /\ task' = [task EXCEPT ![c].pc = "promote"]
    /\ UNCHANGED <<tables, socket, greeted, holder, reader, writer, purge>>

\* The reply is queued, the state becomes Transport, the guard is dropped.
\* Without a receiver the error is handled like any other.
HandshakeReply(c) ==
    /\ task[c].pc = "handshake"
    /\ holder' = [holder EXCEPT ![c] = {}]
    /\ \/ /\ HasReceiver(c) /\ HasRoom(c)
          /\ outgoing' = [outgoing EXCEPT ![c] = Append(@, "handshake")]
          /\ proto' = [proto EXCEPT ![c] = "transport"]
          /\ task' = [task EXCEPT ![c].pc = "handshaken"]
       \/ /\ ~HasReceiver(c)
          /\ task' = [task EXCEPT ![c] =
                 [@ EXCEPT !.pc = "lock", !.to = {c}, !.frame = "error"]]
          /\ UNCHANGED <<outgoing, proto>>
    /\ UNCHANGED <<tables, socket, greeted, reader, writer, purge>>

\* promote_connection reads the id and the key of the connection ...
PromoteRead(c) ==
    /\ task[c].pc = "handshaken"
    /\ Free(c)
    /\ task' = [task EXCEPT ![c].pc = "promote"]
    /\ UNCHANGED <<tables, proto, sockets, holder, reader, writer, purge>>

\* ... and enters it under state.write(), whatever has happened meanwhile.
PromoteConnection(c) ==
    /\ task[c].pc = "promote"
    /\ ~StateIsRead
    /\ pending' = pending \ {c}
    /\ active' = [active EXCEPT ![public_key[c]] = {c}]
    /\ task' = [task EXCEPT ![c] = Idle]
    /\ UNCHANGED <<proto, sockets, holder, reader, writer, purge>>

\* PeerHandshake and PeerMessage: the target is looked up, the lock on the
\* state is dropped, and the frame goes to the connection that was found.
\* The handler does not ask whether the sender has shaken hands itself.
RelayPeer(c, key) ==
    /\ task[c].pc = "idle" /\ socket[c] # "none"
    /\ Free(c)
    /\ IF active[key] = {}
       THEN SendTo(c, c, ErrorFrame(c))
       ELSE \E d \in active[key] : SendTo(c, d, "opaque")
    /\ UNCHANGED <<tables, proto, sockets, holder, reader, writer, purge>>

\* ServerMessage: decrypted with the state of the connection that `active`
\* has for the sender's key, whose guard must be free; the answer, or the
\* error, goes to the sender's own connection.  A client encrypts nothing for
\* the relay before it has the reply to its handshake.
ServerMessage(c) ==
    /\ task[c].pc = "idle" /\ c \in greeted
    /\ Free(c)
    /\ \A d \in active[public_key[c]] : Free(d)
    /\ SendTo(c, c, ErrorFrame(c))
    /\ UNCHANGED <<tables, proto, sockets, holder, reader, writer, purge>>

\* A frame that does not decode ends the listen task, and only it.
DecodeFails(c) ==
    /\ task[c].pc = "idle" /\ socket[c] # "none"
    /\ task' = [task EXCEPT ![c].pc = "ended"]
    /\ UNCHANGED <<tables, proto, sockets, holder, reader, writer, purge>>

-----------------------------------------------------------------------------
(* Sending: conn.write(), then WebSocketConnection::send                   *)

Lock(t) ==
    /\ task[t].pc = "lock"
    /\ \A d \in task[t].to : Free(d)
    /\ holder' = [d \in Conns |-> IF d \in task[t].to THEN {t} ELSE holder[d]]
    /\ task' = [task EXCEPT ![t].pc = "send"]
    /\ UNCHANGED <<tables, proto, sockets, reader, writer, purge>>

Unlock(t) == holder' = [d \in Conns |-> holder[d] \ {t}]

\* A slip: an unbounded channel, which never makes its sender wait.
SendUnbounded(t) ==
    /\ task[t].pc = "send"
    /\ \E d \in task[t].to :
           /\ HasReceiver(d)
           /\ outgoing' = [outgoing EXCEPT ![d] = Append(@, task[t].frame)]
    /\ Unlock(t)
    /\ task' = [task EXCEPT ![t] =
           IF t = Notifier THEN [@ EXCEPT !.pc = "loop", !.to = {}] ELSE Idle]
    /\ UNCHANGED <<tables, proto, socket, greeted, reader, writer, purge>>

\* The guard is held while the channel is full.
Send(t) ==
    /\ task[t].pc = "send"
    /\ \E d \in task[t].to :
           /\ HasReceiver(d) /\ HasRoom(d)
           /\ outgoing' = [outgoing EXCEPT ![d] = Append(@, task[t].frame)]
    /\ Unlock(t)
    /\ task' = [task EXCEPT ![t] =
           IF t = Notifier THEN [@ EXCEPT !.pc = "loop", !.to = {}] ELSE Idle]
    /\ UNCHANGED <<tables, proto, socket, greeted, reader, writer, purge>>

\* No receiver: notify_peers gives up and drops the read guard; a listen
\* task reports the error to its own client, once.
SendFails(t) ==
    /\ task[t].pc = "send"
    /\ \E d \in task[t].to : ~HasReceiver(d)
    /\ Unlock(t)
    /\ \/ /\ t = Notifier \/ task[t].to = {t}
          /\ task' = [task EXCEPT ![t] = Idle]
       \/ /\ t # Notifier /\ task[t].to # {t}
          /\ SendTo(t, t, ErrorFrame(t))
    /\ UNCHANGED <<tables, proto, sockets, reader, writer, purge>>

-----------------------------------------------------------------------------
(* notify_peers, started by a waiting task for some participants           *)

NotifyPeers ==
    /\ task[Notifier].pc = "idle"
    /\ \E keys \in SUBSET Participants :
           task' = [task EXCEPT ![Notifier] =
                       [Idle EXCEPT !.pc = "loop", !.keys = keys]]
    /\ UNCHANGED <<tables, proto, sockets, holder, reader, writer, purge>>

NotifyPeer ==
    /\ task[Notifier].pc = "loop"
    /\ \E key \in task[Notifier].keys :
           task' = [task EXCEPT
               ![Notifier].pc = IF active[key] = {} THEN "loop" ELSE "lock",
               ![Notifier].to = active[key],
               ![Notifier].keys = @ \ {key}]
    /\ UNCHANGED <<tables, proto, sockets, holder, reader, writer, purge>>

NotifyDone ==
    /\ task[Notifier].pc = "loop"
    /\ task[Notifier].keys = {}
    /\ task' = [task EXCEPT ![Notifier] = Idle]
    /\ UNCHANGED <<tables, proto, sockets, holder, reader, writer, purge>>

-----------------------------------------------------------------------------
(* The write task                                                          *)

\* A frame reaches the client, or the socket reports an error.  After a
\* close frame both can happen.
WriteFrame(c) ==
    /\ writer[c] = "run"
    /\ outgoing[c] # <<>>
    /\ outgoing' = [outgoing EXCEPT ![c] = Tail(@)]
    /\ \/ /\ socket[c] \in {"open", "closed"}
          /\ greeted' = IF Head(outgoing[c]) = "handshake"
                        THEN greeted \cup {c}
                        ELSE greeted
          /\ writer' = writer
       \/ /\ socket[c] \in {"broken", "closed"}
          /\ greeted' = greeted
          /\ writer' = [writer EXCEPT ![c] = "disconnect"]
    /\ UNCHANGED <<tables, proto, socket, holder, task, reader, purge>>

\* disconnect(): conn.read(), then state.write().  The channel loses its
\* receiver when the task returns.
WriteDisconnect(c) ==
    /\ writer[c] = "disconnect"
    /\ Free(c)
    /\ writer' = [writer EXCEPT ![c] = "remove"]
    /\ UNCHANGED <<tables, proto, sockets, holder, task, reader, purge>>

\* Whatever connection `active` has for the key is removed.
Remove(c) ==
    /\ ~StateIsRead
    /\ pending' = pending \ {c}
    /\ active' = [active EXCEPT ![public_key[c]] = {}]

WriteRemove(c) ==
    /\ writer[c] = "remove"
    /\ Remove(c)
    /\ writer' = [writer EXCEPT ![c] = "ended"]
    /\ outgoing' = [outgoing EXCEPT ![c] = <<>>]
    /\ UNCHANGED <<proto, socket, greeted, holder, task, reader, purge>>

-----------------------------------------------------------------------------
(* The read task                                                           *)

ReadError(c) ==
    /\ reader[c] = "run" /\ socket[c] = "broken"
    /\ reader' = [reader EXCEPT ![c] = "disconnect"]
    /\ UNCHANGED <<tables, proto, sockets, holder, task, writer, purge>>

ReadDisconnect(c) ==
    /\ reader[c] = "disconnect"
    /\ Free(c)
    /\ reader' = [reader EXCEPT ![c] = "remove"]
    /\ UNCHANGED <<tables, proto, sockets, holder, task, writer, purge>>

ReadRemove(c) ==
    /\ reader[c] = "remove"
    /\ Remove(c)
    /\ reader' = [reader EXCEPT ![c] = "ended"]
    /\ UNCHANGED <<proto, sockets, holder, task, writer, purge>>

ReadClose(c) ==
    /\ reader[c] = "run" /\ socket[c] = "closed"
    /\ reader' = [reader EXCEPT ![c] = "close"]
    /\ UNCHANGED <<tables, proto, sockets, holder, task, writer, purge>>

\* The close frame is echoed; disconnect() is not called.
EchoClose(c) ==
    /\ reader[c] = "close"
    /\ \/ /\ HasReceiver(c) /\ HasRoom(c)
          /\ outgoing' = [outgoing EXCEPT ![c] = Append(@, "close")]
       \/ /\ ~HasReceiver(c)
          /\ outgoing' = outgoing
    /\ reader' = [reader EXCEPT ![c] = "ended"]
    /\ UNCHANGED <<tables, proto, socket, greeted, holder, task, writer, purge>>

\* The listen task has ended, so the next frame cannot be handed to it: the
\* read task returns, again without disconnect().
ReadAbandoned(c) ==
    /\ reader[c] = "run" /\ task[c].pc = "ended"
    /\ socket[c] = "open"
    /\ reader' = [reader EXCEPT ![c] = "ended"]
    /\ UNCHANGED <<tables, proto, sockets, holder, task, writer, purge>>

-----------------------------------------------------------------------------
(* purge_expired needs state.write() at every interval                     *)

PurgeDue ==
    /\ Reaping
    /\ purge = "done"
    /\ purge' = "due"
    /\ UNCHANGED <<tables, proto, sockets, holder, task, reader, writer>>

PurgeExpired ==
    /\ purge = "due"
    /\ ~StateIsRead
    /\ purge' = "done"
    /\ UNCHANGED <<tables, proto, sockets, holder, task, reader, writer>>

-----------------------------------------------------------------------------

\* What a client or the network decides to do.
Outside(c) ==
    \/ Upgrade(c)
    \/ SocketFault(c)
    \/ ServerHandshake(c)
    \/ HandshakeError(c)
    \/ \E key \in Keys : RelayPeer(c, key)
    \/ ServerMessage(c)
    \/ DecodeFails(c)
    \/ ReadAbandoned(c)

\* The steps of the connection's own tasks.
Inside(c) ==
    \/ HandshakeReply(c)
    \/ PromoteRead(c)
    \/ PromoteConnection(c)

SocketWriter(c) == WriteFrame(c) \/ WriteDisconnect(c) \/ WriteRemove(c)

SocketReader(c) ==
    \/ ReadError(c) \/ ReadDisconnect(c) \/ ReadRemove(c)
    \/ ReadClose(c) \/ EchoClose(c)

Sending(t) == Lock(t) \/ Send(t) \/ SendFails(t)

Notifying == NotifyPeer \/ NotifyDone

Next ==
    \/ \E c \in Conns : Outside(c)
    \/ \E c \in Conns : Inside(c)
    \/ \E c \in Conns : SocketWriter(c)
    \/ \E c \in Conns : SocketReader(c)
    \/ \E t \in Tasks : Sending(t)
    \/ NotifyPeers
    \/ Notifying
    \/ PurgeDue
    \/ PurgeExpired

Spec == Init /\ [][Next]_vars

\* Every task that can run is polled, and tokio's RwLock is fair: a task that
\* keeps asking for a guard gets it (SF).  Polling alone (WF) is enough for
\* the steps of Inside and SocketReader.  A sound socket takes what is written
\* to it: its client reads.  Otherwise clients and the network owe nothing.
Fairness ==
    /\ \A c \in Conns : /\ WF_vars(Inside(c))
                        /\ SF_vars(SocketWriter(c))
                        /\ WF_vars(SocketReader(c))
    /\ \A t \in Tasks : SF_vars(Sending(t))
    /\ WF_vars(Notifying)
    /\ SF_vars(PurgeExpired)

FairSpec == Spec /\ Fairness

-----------------------------------------------------------------------------

TypeOK ==
    /\ pending \subseteq Conns
    /\ active \in [Keys -> SUBSET Conns]
    /\ proto \in [Conns -> {"handshake", "transport"}]
    /\ socket \in [Conns -> {"none", "open", "broken", "closed"}]
    /\ outgoing \in [Conns -> Seq(Frames)]
    /\ \A c \in Conns : Len(outgoing[c]) <= Capacity
    /\ greeted \subseteq Conns
    /\ holder \in [Conns -> SUBSET Tasks]
    /\ task \in [Tasks -> TaskType]
    /\ reader \in [Conns -> SocketTask]
    /\ writer \in [Conns -> SocketTask]
    /\ purge \in {"due", "done"}

\* send_message and handle_request unwrap the protocol state of whatever
\* connection `active` yields and encrypt with it: an entry of `active`
\* belongs to its key, which is not on the list of denied keys, has finished
\* the handshake and is no longer pending.
ActiveEntriesAreReady ==
    \A k \in Keys : \A c \in active[k] :
        /\ public_key[c] = k
        /\ \A deny \in Deny : k \notin deny
        /\ proto[c] = "transport"
        /\ c \notin pending

\* A client sees the reply to its handshake before anything encrypted or
\* relayed, although many tasks send to the same connection: its event loop
\* drops what it cannot decrypt (event_loop.rs, handle_incoming_message).
HandshakeComesFirst ==
    \A c \in Conns : \A i \in DOMAIN outgoing[c] :
        outgoing[c][i] = "opaque" =>
            \/ c \in greeted
            \/ \E j \in 1..(i - 1) : outgoing[c][j] = "handshake"
            \/ writer[c] # "run"

\* The write guard of a connection belongs to one task, and that task is the
\* one that is about to send to it.
GuardIsInUse ==
    \A c \in Conns :
        /\ \A t, u \in holder[c] : t = u
        /\ \A t \in holder[c] : \/ task[t].pc = "send" /\ c \in task[t].to
                                \/ task[t].pc = "handshake" /\ t = c

\* purge_expired: every reaping that is due takes place.
PurgeHappens == purge = "due" ~> purge = "done"

\* ServerState::active is documented as "Active socket connections in the
\* transport state": a connection with a sound socket that was made active
\* stays so until its own tasks, or a later connection of the same client,
\* take its place.
SoundConnectionsStayActive ==
    [][\A c \in Conns :
          /\ c \in active[public_key[c]]
          /\ socket[c] = "open" /\ reader[c] = "run" /\ writer[c] = "run"
          => active'[public_key[c]] # {}]_vars

=============================================================================
