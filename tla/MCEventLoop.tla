---------------------------- MODULE MCEventLoop -----------------------------
EXTENDS EventLoop

CONSTANTS k1, k2, k3, k4

ClientKeys == {k1, k2, k3, k4}
NoPeers == [k \in ClientKeys |-> "none"]
Peer1 == [NoPeers EXCEPT ![k1] = "transport"]

\* Calls of the client's methods
connect == [call |-> "connect"]
close == [call |-> "close"]
connect_peer(k) == [call |-> "connect_peer", key |-> k]
request(m) == [call |-> "request", message |-> m]
send(k, payload, encoding) ==
    [call |-> "relay", key |-> k, payload |-> payload, encoding |-> encoding,
     broadcast |-> FALSE, session |-> {}]
broadcast(keys, payload) ==
    [j \in DOMAIN keys |->
        [call |-> "relay", key |-> keys[j], payload |-> payload,
         encoding |-> "Blob", broadcast |-> TRUE, session |-> {"session"}]]

\* Replies of the relay
Reply(from, after, payload, encoding, session, message) ==
    [from |-> from, after |-> after, payload |-> payload, version |-> Version,
     encoding |-> encoding, session |-> session, message |-> message]
Transparent(after, message) ==
    Reply("transparent", after, <<>>, "Blob", {}, message)
FromServer(after, message) ==
    Reply("server", after, encode_server(message), "Blob", {}, NoMessage)
FromPeer(k, after, payload, encoding) ==
    Reply(k, after, payload, encoding, {"session"}, NoMessage)
Foreign(reply) == [reply EXCEPT !.version = Version + 1]
RelayError(code) ==
    [class |-> "Transparent", type |-> "Error", code |-> code, text |-> "text"]

State(type, keys) == [type |-> type, id |-> "session", keys |-> keys]
WithSession(type) == [type |-> type, id |-> "session"]
NewSession(keys) == [type |-> "NewSession", keys |-> keys]
Registered == [type |-> "SessionConnection", id |-> "session", key |-> k1]

Script(server_state, peer_states, bursts, calls, replies) ==
    [server |-> server_state, peers |-> peer_states, bursts |-> bursts,
     calls |-> calls, replies |-> replies]

\* A client from its first handshake to the close of its socket.
WholeSession ==
    Script("handshake", NoPeers,
        << <<connect>>,
           <<request(NewSession(<<k1, k2>>))>>,
           << >>,
           <<connect_peer(k1)>>,
           <<request(Registered)>>,
           <<send(k1, <<1, 2, 3, 4, 5>>, "Json")>> \o broadcast(<<k1>>, <<6>>),
           <<request(WithSession("CloseSession"))>>,
           <<close>> >>,
        <<>>,
        << Transparent(1, ServerHandshake("Responder")),
           FromServer(2, State("SessionCreated", <<k1, k2>>)),
           FromServer(2, State("SessionReady", <<k1, k2>>)),
           Transparent(3, Handshake("PeerHandshake", "Responder", k1)),
           FromServer(4, State("SessionActive", <<k1, k2>>)),
           FromPeer(k1, 4, <<7, 8, 9, 10>>, "Json"),
           FromServer(6, WithSession("SessionFinished")) >>)

\* Meetings, a list of keys that is too long, errors of all kinds.
Oddities ==
    Script("transport", Peer1,
        << <<request([type |-> "NewMeeting", user |-> "u", slots |-> {"u", "v"}]),
             request([type |-> "JoinMeeting", id |-> "meeting", user |-> "u"])>>,
           <<request(NewSession(<<k1, k2, k3, k4>>))>>,
           <<connect>>,
           <<connect_peer(k1)>>,
           <<send(k2, <<1>>, "Blob")>>,
           << >>, << >>, << >>,
           <<request(Registered), close>> >>,
        <<>>,
        << FromServer(1, State("MeetingCreated", <<>>)),
           FromServer(2, State("MeetingReady", <<k1, k2>>)),
           FromServer(2, WithSession("SessionTimeout")),
           FromServer(2, [type |-> "Error", code |-> "404", text |-> "text"]),
           Transparent(3, RelayError("409")),
           Foreign(FromPeer(k1, 3, <<1>>, "Blob")),
           FromPeer(k2, 3, <<1>>, "Blob"),
           Transparent(3, ServerHandshake("Responder")),
           FromServer(3, WithSession("SessionFinished")) >>)

\* Two clones relay to the same peer while peers call and write.
Clones2 ==
    Script("transport", Peer1,
        << <<>>, <<send(k2, <<1>>, "Blob")>> >>,
        <<send(k1, <<1, 2, 3, 4>>, "Json"), send(k1, <<5>>, "Blob")>>,
        << Transparent(0, Handshake("PeerHandshake", "Initiator", k2)),
           FromPeer(k1, 0, <<1, 2, 3, 4, 5, 6, 7>>, "Blob"),
           Transparent(0, Handshake("PeerHandshake", "Initiator", k1)),
           FromPeer(k1, 1, <<8>>, "Json") >>)

\* The driver broadcasts to as many peers as the channel has room for.
Broadcast ==
    Script("transport", [Peer1 EXCEPT ![k2] = "transport"],
        << <<>>, broadcast(<<k1, k2>>, <<1, 2>>) >>,
        <<request(Registered)>>,
        << FromPeer(k1, 0, <<1>>, "Blob"),
           Transparent(0, Handshake("PeerHandshake", "Responder", k1)),
           FromPeer(k2, 0, <<2>>, "Blob"),
           FromServer(1, NewSession(<<k1>>)) >>)

\* A relay that says what this one never does, to a client whose clones make
\* a request before, while and after it is connected.
Strange(reply) ==
    Script("handshake", NoPeers, << <<connect>> >>, <<request(Registered)>>,
        << Transparent(1, ServerHandshake("Responder")),
           reply,
           FromServer(1, WithSession("SessionFinished")) >>)
Strangers ==
    {Strange(Transparent(1, ServerHandshake("Initiator"))),
     Strange(Transparent(1, ServerHandshake("Responder"))),
     Strange([FromServer(1, WithSession("SessionFinished"))
                 EXCEPT !.encoding = "Json"])}

\* The driver closes the socket under the clones.
Closing ==
    Script("transport", Peer1, << <<close>> >>,
        <<send(k1, <<1>>, "Json"), send(k1, <<2>>, "Blob")>>, <<>>)

MCScripts == {Closing, WholeSession, Oddities, Clones2, Broadcast} \cup Strangers
=============================================================================
