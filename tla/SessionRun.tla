----------------------------- MODULE SessionRun -----------------------------
(***************************************************************************)
(* One session from the handshakes to the close: the clients (driver and   *)
(* client crates) and the relay (server crate) together.  It is the run of *)
(* keygen() or of sign() in driver/src/gg20/mod.rs:                        *)
(*                                                                         *)
(*   connect - wait_for_session - wait_for_driver, once or three times -   *)
(*   close_session (owner) - wait_for_session_finish (owner) - close -     *)
(*   wait_for_close                                                        *)
(*                                                                         *)
(* Between a client and the relay there are two FIFO queues, which stand   *)
(* for the channels, the socket and its buffers; that they may fill up is  *)
(* the business of Connections.  A client handles one event at a time, and *)
(* the event stream is not polled while it does: one event is one step.    *)
(* The listen task of the relay handles the requests of a client in order; *)
(* a request stays at the head of the queue until its handler returns, and *)
(* stage[c] says how far the handler has come.                             *)
(*                                                                         *)
(* Nothing is lost here and no timeout strikes: those are in Sessions and  *)
(* Connections.  For the same reason a client that is done, or has failed, *)
(* stays in `active`; the relay would drop it, and refuse what is still    *)
(* sent to it (PeerNotFound), and the sender would fail where it waits     *)
(* here.  Parameters::parties is the number of participants.               *)
(***************************************************************************)
EXTENDS Protocol, FiniteSets

CONSTANTS
    Keys,       \* public keys of clients
    Jobs,       \* what the participants may be about to do together
    KeyIndex    \* LocalKey::i of each key's share, for signing

\* A job: the operation, all_participants of its session with the owner
\* first, and Parameters::threshold.  Signing takes threshold + 1 clients.
ASSUME SessionRunAssumption ==
    \A job \in Jobs :
        /\ job.op \in {"keygen", "sign"}
        /\ job.parties \in Seq(Keys) /\ Len(job.parties) > 1
        /\ DistinctKeys(job.parties)
        /\ job.threshold \in Nat
        /\ job.op = "sign" => Len(job.parties) = job.threshold + 1

ASSUME KeyIndexAssumption ==
    /\ KeyIndex \in [Keys -> Nat \ {0}]
    /\ \A j, k \in Keys : KeyIndex[j] = KeyIndex[k] => j = k

VARIABLES
    job,        \* never changes
    \* the relay
    active,     \* ServerState::active
    session,    \* the session, an Option: {} before NewSession and when removed
    waiter,     \* wait_for_session_ready, then wait_for_session_active
    stage,      \* how far the handler of each client's first request is
    \* the wires
    toServer, toClient,
    \* the clients
    phase,      \* where keygen() or sign() is
    created,    \* who has the session in its session_state
    peers,      \* the Peers map of each client
    round,      \* the driver and the round it is in
    buffer,     \* RoundBuffer::messages, as a number per round
    ignored     \* round messages that a client did not look at

relay == <<job, active, session, waiter, stage>>
clients == <<job, phase, created, peers, round, buffer, ignored>>
vars == <<relay, toServer, toClient, clients>>

Parties == job.parties
Clients == {Parties[i] : i \in DOMAIN Parties}
Owner == Parties[1]

\* What is sent, with the other client it concerns; a round message also
\* tells the driver it belongs to, by the type of its body, and the round.
NoRound == [driver |-> 0, number |-> 0]
Msg(type, peer, r) == [type |-> type, peer |-> peer, round |-> r]
Word(type) == Msg(type, Owner, NoRound)

\* The drivers, by their number of rounds: KeyGenDriver, or ParticipantDriver,
\* PreSignDriver and SignatureDriver.
Drivers == IF job.op = "keygen" THEN <<4>> ELSE <<1, 6, 1>>
MaxRounds == 6

Init ==
    /\ job \in Jobs
    /\ active = {}
    /\ session = {}
    /\ waiter = [pc |-> "unborn", msg |-> "SessionReady", next |-> 1]
    /\ stage = [c \in Keys |-> "start"]
    /\ toServer = [c \in Keys |-> <<>>]
    /\ toClient = [c \in Keys |-> <<>>]
    /\ phase = [c \in Keys |-> "setup"]
    /\ created = {}
    /\ peers = [c \in Keys |-> [p \in Keys \ {c} |-> "none"]]
    /\ round = [c \in Keys |-> NoRound]
    /\ buffer = [c \in Keys |-> [r \in 1..MaxRounds |-> 0]]
    /\ ignored = {}

-----------------------------------------------------------------------------
(* The relay                                                               *)

reading == waiter.pc = "notify"

First(c) == Head(toServer[c])
Request(c, type) == toServer[c] # <<>> /\ First(c).type = type
Returned(c) == toServer' = [toServer EXCEPT ![c] = Tail(@)]
Send(c, msg) == toClient' = [toClient EXCEPT ![c] = Append(@, msg)]

\* handle_error: the handler of c returns with an error.
HandleError(c) == Returned(c) /\ Send(c, Word("Error"))

\* The handshake with the relay up to promote_connection.  The event
\* ServerConnected makes the initiator ask for the session.
Connect(c) ==
    /\ c \in Clients \ active
    /\ ~reading
    /\ active' = active \cup {c}
    /\ toServer' = [toServer EXCEPT ![c] =
           IF c = Owner THEN Append(@, Word("NewSession")) ELSE @]
    /\ UNCHANGED <<session, waiter, stage, toClient, clients>>

NewSession(c) ==
    /\ Request(c, "NewSession") /\ stage[c] = "start"
    /\ ~reading
    /\ session' = {Session(c, Clients \ {c})}
    /\ waiter' = [waiter EXCEPT !.pc = "poll"]
    /\ stage' = [stage EXCEPT ![c] = "created"]
    /\ UNCHANGED <<active, toServer, toClient, clients>>

\* The task polls at once: it can be quicker than this reply.
ReplySessionCreated(c) ==
    /\ stage[c] = "created"
    /\ Send(c, Word("SessionCreated"))
    /\ Returned(c)
    /\ stage' = [stage EXCEPT ![c] = "start"]
    /\ UNCHANGED <<active, session, waiter, clients>>

SessionConnection(c) ==
    /\ Request(c, "SessionConnection")
    /\ ~reading
    /\ IF session = {}
       THEN HandleError(c)
       ELSE Returned(c) /\ UNCHANGED toClient
    /\ session' = {register_connection(s, c, First(c).peer) : s \in session}
    /\ UNCHANGED <<active, waiter, stage, clients>>

\* The last part of PeerHandshake and PeerMessage.
RelayTo(c, p) ==
    IF p \in active
    THEN /\ Returned(c)
         /\ Send(p, [First(c) EXCEPT !.peer = c])
    ELSE HandleError(c)

PeerHandshake(c) ==
    /\ Request(c, "Initiator") \/ Request(c, "Responder")
    /\ RelayTo(c, First(c).peer)
    /\ UNCHANGED <<relay, clients>>

\* A slip: the session is looked up without state.write().
TouchWithoutLock(c) ==
    /\ Request(c, "Round") /\ stage[c] = "start"
    /\ stage' = [stage EXCEPT ![c] = "relay"]
    /\ UNCHANGED <<active, session, waiter, toServer, toClient, clients>>

\* PeerMessage: the session is touched under state.write() ...
Touch(c) ==
    /\ Request(c, "Round") /\ stage[c] = "start"
    /\ ~reading
    /\ IF session = {}
       THEN HandleError(c) /\ UNCHANGED stage
       ELSE /\ stage' = [stage EXCEPT ![c] = "relay"]
            /\ UNCHANGED <<toServer, toClient>>
    /\ UNCHANGED <<active, session, waiter, clients>>

\* ... and the envelope is handed on after the lock is released.
RelayRound(c) ==
    /\ stage[c] = "relay"
    /\ RelayTo(c, First(c).peer)
    /\ stage' = [stage EXCEPT ![c] = "start"]
    /\ UNCHANGED <<active, session, waiter, clients>>

CloseSession(c) ==
    /\ Request(c, "CloseSession") /\ stage[c] = "start"
    /\ IF \E s \in session : s.owner_key = c
       THEN /\ stage' = [stage EXCEPT ![c] = "close"]
            /\ UNCHANGED <<toServer, toClient>>
       ELSE HandleError(c) /\ UNCHANGED stage
    /\ UNCHANGED <<active, session, waiter, clients>>

RemoveSession(c) ==
    /\ stage[c] = "close"
    /\ ~reading
    /\ session' = {}
    /\ stage' = [stage EXCEPT ![c] = "finished"]
    /\ UNCHANGED <<active, waiter, toServer, toClient, clients>>

ReplySessionFinished(c) ==
    /\ stage[c] = "finished"
    /\ Send(c, Word("SessionFinished"))
    /\ Returned(c)
    /\ stage' = [stage EXCEPT ![c] = "start"]
    /\ UNCHANGED <<active, session, waiter, clients>>

Handle(c) ==
    \/ NewSession(c) \/ ReplySessionCreated(c)
    \/ SessionConnection(c)
    \/ PeerHandshake(c)
    \/ Touch(c) \/ RelayRound(c)
    \/ CloseSession(c) \/ RemoveSession(c) \/ ReplySessionFinished(c)

\* A poll that finds something to say; the others change nothing.  (The
\* owner closes the session only after SessionActive, so the task never
\* finds the session gone.)
Poll ==
    /\ waiter.pc = "poll"
    /\ \/ waiter.msg = "SessionReady" /\ Clients \subseteq active
       \/ waiter.msg = "SessionActive" /\ \E s \in session : is_active(s)
    /\ waiter' = [waiter EXCEPT !.pc = "found"]
    /\ UNCHANGED <<active, session, stage, toServer, toClient, clients>>

NotifyPeers ==
    /\ waiter.pc = "found"
    /\ waiter' = [waiter EXCEPT !.pc = "notify", !.next = 1]
    /\ UNCHANGED <<active, session, stage, toServer, toClient, clients>>

NotifyPeer ==
    /\ waiter.pc = "notify" /\ waiter.next <= Len(Parties)
    /\ Send(Parties[waiter.next], Word(waiter.msg))
    /\ waiter' = [waiter EXCEPT !.next = @ + 1]
    /\ UNCHANGED <<active, session, stage, toServer, clients>>

NotifyReturn ==
    /\ waiter.pc = "notify" /\ waiter.next > Len(Parties)
    /\ waiter' = IF waiter.msg = "SessionReady"
                 THEN [waiter EXCEPT !.pc = "poll", !.msg = "SessionActive"]
                 ELSE [waiter EXCEPT !.pc = "done"]
    /\ UNCHANGED <<active, session, stage, toServer, toClient, clients>>

Waiter == Poll \/ NotifyPeers \/ NotifyPeer \/ NotifyReturn

-----------------------------------------------------------------------------
(* The clients                                                             *)

Phases == {"setup", "running", "closing", "leaving", "done", "failed", "panicked"}

\* The event loop of c takes up a message of this type.
Incoming(c, type) ==
    /\ phase[c] \notin {"done", "failed", "panicked"}
    /\ toClient[c] # <<>>
    /\ Head(toClient[c]).type = type
    /\ toClient' = [toClient EXCEPT ![c] = Tail(@)]

\* c sends requests, in this order.
Requests(c, msgs) == toServer' = [toServer EXCEPT ![c] = @ \o msgs]

\* An Err from the event stream, or from what the driver does in response,
\* ends keygen() or sign().
Fail(c) == phase' = [phase EXCEPT ![c] = "failed"]

\* Event::SessionCreated: only the initiator is sent it.
OnSessionCreated(c) ==
    /\ Incoming(c, "SessionCreated")
    /\ phase[c] = "setup"
    /\ created' = created \cup {c}
    /\ UNCHANGED <<relay, toServer, phase, peers, round, buffer, ignored>>

\* connect_peer for each of the connections, in their order.
Dial(c) ==
    LET mine == connections(Parties, c)
    IN /\ peers' = [peers EXCEPT ![c] = [p \in DOMAIN @ |->
              IF \E i \in DOMAIN mine : mine[i] = p THEN "handshake" ELSE @[p]]]
       /\ Requests(c, [i \in DOMAIN mine |-> Msg("Initiator", mine[i], NoRound)])

\* Event::SessionReady.  PeerAlreadyExists of connect_peer ends the run, and
\* with it the event loop that would have sent what is queued.
OnSessionReady(c) ==
    /\ Incoming(c, "SessionReady")
    /\ phase[c] = "setup"
    /\ created' = IF c # Owner THEN created \cup {c} ELSE created
    /\ IF \E i \in DOMAIN connections(Parties, c) :
              peers[c][connections(Parties, c)[i]] # "none"
       THEN Fail(c) /\ UNCHANGED <<toServer, peers>>
       ELSE Dial(c) /\ UNCHANGED phase
    /\ UNCHANGED <<relay, round, buffer, ignored>>

\* The driver's answer to Event::PeerConnected: the dialling side registers
\* the connection.  The initiator unwraps its session_state.
RegisterConnection(c, p) ==
    IF /\ phase[c] = "setup"
       /\ c \in created
       /\ \E i \in DOMAIN connections(Parties, c) : connections(Parties, c)[i] = p
    THEN <<Msg("SessionConnection", p, NoRound)>>
    ELSE <<>>

PeerConnected(c) ==
    phase' = [phase EXCEPT ![c] =
        IF @ = "setup" /\ c = Owner /\ c \notin created THEN "panicked" ELSE @]

\* peer_handshake_responder.
OnInitiator(c) ==
    /\ Incoming(c, "Initiator")
    /\ LET p == Head(toClient[c]).peer
       IN IF peers[c][p] # "none"
          THEN Fail(c) /\ UNCHANGED <<toServer, peers>>
          ELSE /\ peers' = [peers EXCEPT ![c][p] = "transport"]
               /\ Requests(c, <<Msg("Responder", p, NoRound)>> \o RegisterConnection(c, p))
               /\ PeerConnected(c)
    /\ UNCHANGED <<relay, created, round, buffer, ignored>>

\* peer_handshake_ack: the entry is taken out before its state is looked at.
OnResponder(c) ==
    /\ Incoming(c, "Responder")
    /\ LET p == Head(toClient[c]).peer
       IN IF peers[c][p] # "handshake"
          THEN /\ peers' = [peers EXCEPT ![c][p] = "none"]
               /\ Fail(c)
               /\ UNCHANGED toServer
          ELSE /\ peers' = [peers EXCEPT ![c][p] = "transport"]
               /\ Requests(c, RegisterConnection(c, p))
               /\ PeerConnected(c)
    /\ UNCHANGED <<relay, created, round, buffer, ignored>>

\* The number by which the state machine of a driver knows client p: its
\* party number in the session, and in the offline stage of signing the
\* position of its key index among those of the signers.
IsOffline(r) == job.op = "sign" /\ r.driver = 2

Number(p, r) ==
    IF IsOffline(r)
    THEN Cardinality({q \in Clients : KeyIndex[q] <= KeyIndex[p]})
    ELSE party_number(Parties, p)

\* Rounds with a message of its own for each party: the shares of key
\* generation and the second round of the offline stage (external).
PeerToPeer(r) ==
    \/ job.op = "keygen" /\ r.number = 3
    \/ IsOffline(r) /\ r.number = 2

\* A slip: every round goes to the recipients of a broadcast.
receivers_broadcast(c, r) == recipients(Parties, c)

\* Whom the messages of a round are sent to: a broadcast to the recipients,
\* the others by peer_key of the receiver's number.
receivers(c, r) ==
    LET others == recipients(Parties, c)
    IN IF PeerToPeer(r)
       THEN [i \in DOMAIN others |-> Parties[Number(others[i], r)]]
       ELSE others

\* dispatch_round_messages, after the driver is in round r.  relay() finds no
\* channel to the client itself: PeerNotFound.
Dispatch(c, r) ==
    LET to == receivers(c, r)
    IN IF \E i \in DOMAIN to : to[i] = c
       THEN Fail(c) /\ UNCHANGED <<toServer, round>>
       ELSE /\ round' = [round EXCEPT ![c] = r]
            /\ Requests(c, [i \in DOMAIN to |-> Msg("Round", to[i], r)])
            /\ phase' = [phase EXCEPT ![c] = "running"]

\* wait_for_driver: a new driver with an empty buffer is executed.
StartDriver(c, d) ==
    /\ buffer' = [buffer EXCEPT ![c] = [r \in DOMAIN @ |-> 0]]
    /\ Dispatch(c, [driver |-> d, number |-> 1])

\* Event::SessionActive: the first driver is made and executed.
OnSessionActive(c) ==
    /\ Incoming(c, "SessionActive")
    /\ phase[c] = "setup"
    /\ StartDriver(c, 1)
    /\ UNCHANGED <<relay, created, peers, ignored>>

\* A slip: one message fewer makes a round ready.
is_ready_early(messages) == messages >= Len(Parties) - 2

\* RoundBuffer::new_fixed(_, parties - 1) for key generation and
\* new_fixed(_, threshold) for signing.
is_ready(messages) ==
    messages = IF job.op = "keygen" THEN Len(Parties) - 1 ELSE job.threshold

\* A slip: the owner leaves the session open.
FinishKeepsSession(c) ==
    /\ phase' = [phase EXCEPT ![c] = IF c = Owner THEN "closing" ELSE "leaving"]
    /\ UNCHANGED toServer

\* The last driver has its result: the initiator closes the session first.
Finish(c) ==
    IF c = Owner
    THEN /\ phase' = [phase EXCEPT ![c] = "closing"]
         /\ Requests(c, <<Word("CloseSession")>>)
    ELSE /\ phase' = [phase EXCEPT ![c] = "leaving"]
         /\ UNCHANGED toServer

\* A slip: the last round counts as one more to proceed from.
ProceedPastEnd(c, r) ==
    /\ buffer' = [buffer EXCEPT ![c][r.number] = 0]
    /\ Dispatch(c, [r EXCEPT !.number = @ + 1])

\* The messages of round r are given to the protocol, which has to be in
\* that round (the state machine is external to the repository).  A driver
\* that is done makes room for the next one.
Proceed(c, r) ==
    IF r.number # round[c].number
    THEN /\ buffer' = [buffer EXCEPT ![c][r.number] = 0]
         /\ Fail(c)
         /\ UNCHANGED <<toServer, round>>
    ELSE \/ /\ r.number < Drivers[r.driver]
            /\ buffer' = [buffer EXCEPT ![c][r.number] = 0]
            /\ Dispatch(c, [r EXCEPT !.number = @ + 1])
         \/ /\ r.number = Drivers[r.driver] /\ r.driver < Len(Drivers)
            /\ StartDriver(c, r.driver + 1)
         \/ /\ r.number = Drivers[r.driver] /\ r.driver = Len(Drivers)
            /\ buffer' = [buffer EXCEPT ![c][r.number] = 0]
            /\ Finish(c)
            /\ UNCHANGED round

\* Bridge::handle_event.  A message of another driver has a body of another
\* type and does not deserialize.
HandleEvent(c, r) ==
    LET messages == buffer[c][r.number] + 1
    IN IF r.driver # round[c].driver
       THEN Fail(c) /\ UNCHANGED <<toServer, round, buffer>>
       ELSE IF is_ready(messages)
       THEN Proceed(c, r)
       ELSE /\ buffer' = [buffer EXCEPT ![c][r.number] = messages]
            /\ UNCHANGED <<toServer, phase, round>>

\* handle_relayed_message needs the peer's channel.  Of the phases only
\* wait_for_driver looks at what a peer says.
OnRound(c) ==
    /\ Incoming(c, "Round")
    /\ LET m == Head(toClient[c])
       IN IF peers[c][m.peer] # "transport"
          THEN Fail(c) /\ UNCHANGED <<toServer, round, buffer, ignored>>
          ELSE IF phase[c] = "running"
          THEN HandleEvent(c, m.round) /\ UNCHANGED ignored
          ELSE /\ ignored' = ignored \cup {<<m.peer, c, m.round>>}
               /\ UNCHANGED <<toServer, phase, round, buffer>>
    /\ UNCHANGED <<relay, created, peers>>

\* wait_for_session_finish.
OnSessionFinished(c) ==
    /\ Incoming(c, "SessionFinished")
    /\ phase[c] = "closing"
    /\ phase' = [phase EXCEPT ![c] = "leaving"]
    /\ UNCHANGED <<relay, toServer, created, peers, round, buffer, ignored>>

\* Error::ServerError, in every phase.
OnError(c) ==
    /\ Incoming(c, "Error")
    /\ Fail(c)
    /\ UNCHANGED <<relay, toServer, created, peers, round, buffer, ignored>>

\* close and wait_for_close: the event loop says Close and stops.
Close(c) ==
    /\ phase[c] = "leaving"
    /\ phase' = [phase EXCEPT ![c] = "done"]
    /\ UNCHANGED <<relay, toServer, toClient, created, peers, round, buffer,
                   ignored>>

Client(c) ==
    \/ OnSessionCreated(c) \/ OnSessionReady(c) \/ OnSessionActive(c)
    \/ OnInitiator(c) \/ OnResponder(c)
    \/ OnRound(c)
    \/ OnSessionFinished(c) \/ OnError(c)
    \/ Close(c)

-----------------------------------------------------------------------------

Next ==
    \/ \E c \in Keys : Connect(c) \/ Handle(c) \/ Client(c)
    \/ Waiter

Spec == Init /\ [][Next]_vars

\* Every client connects, and tokio polls each task that can go on.
FairSpec ==
    /\ Spec
    /\ \A c \in Keys :
           WF_vars(Connect(c)) /\ WF_vars(Handle(c)) /\ WF_vars(Client(c))
    /\ WF_vars(Waiter)

-----------------------------------------------------------------------------

TypeOK ==
    /\ job \in Jobs
    /\ active \subseteq Clients
    /\ stage \in [Keys -> {"start", "created", "relay", "close", "finished"}]
    /\ phase \in [Keys -> Phases]
    /\ created \subseteq Clients
    /\ \A c \in Keys :
           peers[c] \in [Keys \ {c} -> {"none", "handshake", "transport"}]
    /\ round \in [Keys -> [driver : 0..Len(Drivers), number : 0..MaxRounds]]
    /\ \A c \in Keys : round[c].driver > 0 =>
           round[c].number \in 1..Drivers[round[c].driver]
    /\ buffer \in [Keys -> [1..MaxRounds -> 0..(Len(Parties) - 2)]]

\* The peers a client dials after SessionReady.
dialled(c) == {connections(Parties, c)[i] : i \in DOMAIN connections(Parties, c)}

\* SessionState::connections: of any two participants exactly one dials the
\* other, so no two peers ever start a Noise handshake with each other at the
\* same time (client.rs, connect_peer would answer PeerAlreadyExists).
OneInitiatorPerPair ==
    \A c, p \in Clients : c # p => (p \in dialled(c) <=> c \notin dialled(p))

\* Session::is_active knows nothing of who dials whom and takes a pair of keys
\* in either order.  It is true exactly when every participant has registered
\* every peer it had to dial, whatever order the registrations arrive in.
ActiveWhenAllRegistered ==
    \A s \in session :
        is_active(s) <=>
            \A c \in Clients : \A p \in dialled(c) : <<c, p>> \in s.connections

\* SessionState::party_number and peer_key agree: the number a key gets leads
\* back to that key, and no other key gets the same number.
PartyNumbersIdentifyKeys ==
    \A c \in Clients :
        /\ peer_key(Parties, party_number(Parties, c)) = {c}
        /\ \A p \in Clients \ {c} :
               party_number(Parties, p) # party_number(Parties, c)

\* SessionInitiator::handle_event unwraps session_state at PeerConnected.  It
\* is set by SessionCreated, which can come after SessionReady: the unwrap is
\* safe because no peer can be connected before the relay has come to the
\* initiator's next request.
NoPanic == \A c \in Clients : phase[c] # "panicked"

\* The session lists the signers in the order of their key indices.  Key
\* generation has no indices yet.
InKeyOrder ==
    job.op = "sign" =>
        \A i, j \in DOMAIN Parties :
            i < j => KeyIndex[Parties[i]] < KeyIndex[Parties[j]]

\* Until the owner closes the session no client gives up: no handshakes cross
\* (PeerAlreadyExists, PeerAlreadyExistsMaybeRace, NotHandshakeState), no
\* message comes over a channel that is not there (PeerNotFound), no request
\* is refused, no round is ready before the one ahead of it, and no message
\* comes while its recipient still runs another driver.
NobodyFailsBeforeClose ==
    InKeyOrder /\ (\E c \in Clients : phase[c] = "failed") =>
        phase[Owner] \in {"closing", "leaving", "done", "failed"} /\ session = {}

\* PreSignDriver numbers the signers by key index, dispatch_round_messages
\* looks the receiver up by session position.  When the two orders differ
\* nobody gets a signature out of it: a client whose two numbers differ would
\* send to itself in the second round and fails, and the others wait there for
\* its message.
OnlyKeyOrderFinishes ==
    LET offline == [driver |-> 2, number |-> 2]
    IN ~InKeyOrder => \A c \in Clients :
        /\ phase[c] \notin {"closing", "leaving", "done"}
        /\ round[c].driver <= 2
        /\ round[c].driver = 2 =>
               IF Number(c, offline) = party_number(Parties, c)
               THEN round[c].number <= 2 ELSE round[c].number = 1

\* SessionActive: when a client starts its driver, the channels between all
\* participants are open at both ends, also the ones between other clients.
ActiveMeansChannels ==
    (\E c \in Clients : round[c].driver > 0) =>
        \A c \in Clients : \A p \in Clients \ {c} : peers[c][p] = "transport"

\* wait_for_session drops the messages of peers.  None is there to drop: the
\* first participant to hear SessionActive cannot reach another through the
\* relay before notify_peers has told that one too, as the relay takes
\* state.write() for a message of a session.
NothingIgnored == ignored = {}

\* Rounds begun so far, over all drivers.
Progress(c) ==
    LET r == round[c]
    IN r.number + (IF r.driver > 1 THEN Drivers[1] ELSE 0)
                + (IF r.driver > 2 THEN Drivers[2] ELSE 0)

\* RoundBuffer: a client in a round has everything of the round before, also
\* across drivers, so two clients are never more than a round apart.
LockStep ==
    \A c, d \in Clients : Progress(c) - Progress(d) <= 1

\* The owner returns from keygen() or sign(): through all handshakes, rounds
\* and the close there is always someone who goes on.
OwnerFinishes == InKeyOrder => <>(phase[Owner] = "done")

\* Two participants both return: the one that is not the owner has all it
\* needs before the session is closed.
PairFinishes ==
    InKeyOrder /\ Len(Parties) = 2 => <>(\A c \in Clients : phase[c] = "done")

\* The driver "drives a protocol to completion": keygen() or sign() returns on
\* every client, and nobody waits for ever.
EveryoneFinishes == <>(\A c \in Clients : phase[c] = "done")

=============================================================================
