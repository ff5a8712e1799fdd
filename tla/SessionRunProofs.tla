-------------------------- MODULE SessionRunProofs --------------------------
(***************************************************************************)
(* Proofs about SessionRun, for every number of clients and every job.     *)
(***************************************************************************)
EXTENDS SessionRun, ProtocolProofs, FiniteSetTheorems, TLAPS

PeerSays == {"Initiator", "Responder"}

\* What a client may have asked, and may have been told, as long as the relay
\* has not answered NewSession: no dialled peer and no registered connection
\* is the owner, and nobody knows of a peer's call but the later ones.
Asks(c) ==
    {m \in [type : PeerSays \cup {"NewSession", "SessionConnection"},
            peer : Keys, round : {NoRound}] :
        IF m.type = "NewSession" THEN c = Owner ELSE m.peer # Owner}

Tells(c) ==
    {m \in [type : PeerSays \cup {"SessionCreated", "SessionReady", "Error"},
            peer : Keys, round : {NoRound}] :
        /\ c = Owner => m.type \notin PeerSays \cup {"SessionCreated"}
        /\ m.type = "Initiator" => m.peer # Owner}

AsksInv == DOMAIN toServer = Keys /\ \A c \in Keys : toServer[c] \in Seq(Asks(c))

TellsInv == \A c \in Keys : toClient[c] \in Seq(Tells(c))

\* The owner's NewSession is ahead of everything else it asks.
OwnerInv ==
    IF Owner \in active
    THEN Request(Owner, "NewSession")
    ELSE toServer[Owner] = <<>> /\ toClient[Owner] = <<>>

StageInv ==
    /\ DOMAIN stage = Keys
    /\ \A c \in Keys : stage[c] = "start" \/ (c = Owner /\ stage[c] = "created")
    /\ stage[Owner] = "created" => Owner \in active

WaiterInv ==
    /\ waiter = [pc |-> waiter.pc, msg |-> waiter.msg, next |-> waiter.next]
    /\ waiter.next \in Nat \ {0}
    /\ waiter.pc \in {"found", "notify"} =>
           waiter.msg = "SessionReady" /\ Clients \subseteq active

\* The session cannot be active: the owner has no connection.
SessionInv ==
    \A s \in session :
        /\ s = [owner_key |-> s.owner_key, participant_keys |-> s.participant_keys,
                connections |-> s.connections, idle |-> s.idle]
        /\ public_keys(s) = Clients
        /\ \A p : <<Owner, p>> \notin s.connections /\ <<p, Owner>> \notin s.connections

\* The relay has not answered NewSession.
Unanswered ==
    AsksInv /\ TellsInv /\ OwnerInv /\ StageInv /\ WaiterInv /\ SessionInv

\* It has, and the answer comes before what any peer says.
Answered ==
    \/ Owner \in created
    \/ \E j \in DOMAIN toClient[Owner] :
           /\ toClient[Owner][j].type = "SessionCreated"
           /\ \A i \in DOMAIN toClient[Owner] :
                  toClient[Owner][i].type \in PeerSays => j < i

Shape ==
    /\ job \in Jobs
    /\ DOMAIN toClient = Keys
    /\ \E S : toClient[Owner] \in Seq(S)
    /\ DOMAIN phase = Keys
    /\ \A c \in Keys : phase[c] # "panicked"

CreatedInv == Shape /\ (Unanswered \/ Answered)

-----------------------------------------------------------------------------
(* The participants                                                        *)

LEMMA JobFacts ==
    ASSUME job \in Jobs
    PROVE  /\ Parties \in Seq(Keys) /\ Len(Parties) > 1
           /\ DistinctKeys(Parties)
           /\ Owner \in Clients /\ Clients \subseteq Keys
           /\ \E p \in Clients : p # Owner
<1>1. Parties \in Seq(Keys) /\ Len(Parties) > 1 /\ DistinctKeys(Parties)
  BY SessionRunAssumption DEF Parties
<1>2. Len(Parties) \in Nat /\ 1 \in DOMAIN Parties /\ 2 \in DOMAIN Parties
  BY <1>1
<1>3. Parties[2] # Parties[1]
  BY <1>1, <1>2 DEF DistinctKeys
<1>4. Owner \in Clients /\ Clients \subseteq Keys /\ Parties[2] \in Clients
  BY <1>1, <1>2 DEF Owner, Clients
<1> QED
  BY <1>1, <1>3, <1>4 DEF Owner

\* SessionState::connections: nobody dials the owner.
LEMMA NobodyDialsOwner ==
    ASSUME job \in Jobs, NEW c
    PROVE  /\ connections(Parties, c) \in Seq(Keys)
           /\ \A i \in DOMAIN connections(Parties, c) :
                  connections(Parties, c)[i] # Owner
<1> DEFINE n == party_number(Parties, c)
<1>0. /\ Parties \in Seq(Keys) /\ DistinctKeys(Parties)
      /\ Len(Parties) \in Nat /\ Len(Parties) > 1
  BY JobFacts
<1>1. n \in 0..Len(Parties)
  BY <1>0, PartyNumberRange
<1>2. CASE n = 0
  BY <1>2 DEF connections
<1>3. CASE n # 0
  <2> HIDE DEF n
  <2>1. connections(Parties, c) = SubSeq(Parties, n + 1, Len(Parties))
    BY <1>3 DEF connections, n
  <2>2. n \in 1..Len(Parties)
    BY <1>1, <1>3
  <2>3. SubSeq(Parties, n + 1, Len(Parties)) \in Seq(Keys)
    BY <1>0, <2>2
  <2>4. ASSUME NEW i \in DOMAIN SubSeq(Parties, n + 1, Len(Parties))
        PROVE  SubSeq(Parties, n + 1, Len(Parties))[i] # Owner
    <3>1. /\ 1 \in DOMAIN Parties /\ n + i \in DOMAIN Parties /\ n + i # 1
          /\ SubSeq(Parties, n + 1, Len(Parties))[i] = Parties[n + i]
      BY <1>0, <2>2, <2>4
    <3> QED
      BY <1>0, <3>1 DEF DistinctKeys, Owner
  <2> QED
    BY <2>1, <2>3, <2>4
<1> QED
  BY <1>2, <1>3

-----------------------------------------------------------------------------
(* Before the answer to NewSession                                         *)

LEMMA SameSets ==
    ASSUME UNCHANGED job
    PROVE  /\ Owner' = Owner /\ Clients' = Clients /\ Parties' = Parties
           /\ \A c : Asks(c)' = Asks(c) /\ Tells(c)' = Tells(c)
<1>1. Parties' = Parties /\ Owner' = Owner /\ Clients' = Clients
  BY DEF Parties, Owner, Clients
<1> QED
  BY <1>1 DEF Asks, Tells

LEMMA WordFacts ==
    ASSUME job \in Jobs, NEW type
    PROVE  /\ Word(type) = [type |-> type, peer |-> Owner, round |-> NoRound]
           /\ Owner \in Keys
  BY JobFacts DEF Word, Msg

\* The queues of the owner, and the others, after one step of a client or a
\* handler.
LEMMA AfterSend ==
    ASSUME Shape, Unanswered, NEW c \in Keys, NEW m \in Tells(c), Send(c, m),
           UNCHANGED job
    PROVE  TellsInv' /\ DOMAIN toClient' = Keys
           /\ (Owner # c => toClient'[Owner] = toClient[Owner])
<1>1. toClient' = [toClient EXCEPT ![c] = Append(toClient[c], m)]
  BY DEF Send
<1>2. Append(toClient[c], m) \in Seq(Tells(c))
  BY DEF Unanswered, TellsInv
<1>3. \A d \in Keys : toClient'[d] \in Seq(Tells(d))
  BY <1>1, <1>2 DEF Shape, Unanswered, TellsInv
<1> QED
  BY <1>1, <1>3, SameSets, JobFacts DEF Shape, TellsInv

LEMMA AfterTake ==
    ASSUME Shape, Unanswered, NEW c \in Keys, NEW type, Incoming(c, type),
           UNCHANGED job
    PROVE  /\ TellsInv' /\ DOMAIN toClient' = Keys
           /\ (Owner # c => toClient'[Owner] = toClient[Owner])
           /\ Head(toClient[c]) \in Tells(c) /\ Head(toClient[c]).type = type
           /\ c = Owner => Owner \in active
<1>1. toClient' = [toClient EXCEPT ![c] = Tail(toClient[c])] /\ toClient[c] # <<>>
  BY DEF Incoming
<1>2. Tail(toClient[c]) \in Seq(Tells(c)) /\ Head(toClient[c]) \in Tells(c)
  BY <1>1 DEF Unanswered, TellsInv
<1>3. \A d \in Keys : toClient'[d] \in Seq(Tells(d))
  BY <1>1, <1>2 DEF Shape, Unanswered, TellsInv
<1> QED
  BY <1>1, <1>2, <1>3, SameSets, JobFacts
     DEF Shape, TellsInv, Incoming, Unanswered, OwnerInv

LEMMA AfterRequests ==
    ASSUME Shape, Unanswered, NEW c \in Keys, NEW msgs \in Seq(Asks(c)),
           Requests(c, msgs), c = Owner => Owner \in active,
           UNCHANGED <<job, active>>, toClient'[Owner] = toClient[Owner] \/ c = Owner
    PROVE  AsksInv' /\ OwnerInv'
<1>1. toServer' = [toServer EXCEPT ![c] = toServer[c] \o msgs]
  BY DEF Requests
<1>2. toServer[c] \o msgs \in Seq(Asks(c))
  BY DEF Unanswered, AsksInv
<1>3. \A d \in Keys : toServer'[d] \in Seq(Asks(d))
  BY <1>1, <1>2 DEF Unanswered, AsksInv
<1>4. AsksInv'
  BY <1>1, <1>3, SameSets DEF Unanswered, AsksInv
<1>5. OwnerInv'
  <2>1. CASE c # Owner
    BY <1>1, <2>1, SameSets DEF Unanswered, OwnerInv, Request, First
  <2>2. CASE c = Owner
    <3>1. toServer[c] \in Seq(Asks(c)) /\ toServer[c] # <<>> /\ Head(toServer[c]).type = "NewSession"
      BY <2>2 DEF Unanswered, OwnerInv, Request, First, AsksInv
    <3>2. toServer[c] \o msgs # <<>> /\ Head(toServer[c] \o msgs) = Head(toServer[c])
      BY <3>1
    <3> QED
      BY <1>1, <2>2, <3>1, <3>2, SameSets
         DEF Unanswered, OwnerInv, Request, First, AsksInv
  <2> QED
    BY <2>1, <2>2
<1> QED
  BY <1>4, <1>5

\* The owner's first request stays where it is: only others return.
LEMMA AfterReturned ==
    ASSUME Shape, Unanswered, NEW c \in Keys, c # Owner, toServer[c] # <<>>,
           Returned(c), UNCHANGED <<job, active>>,
           toClient'[Owner] = toClient[Owner]
    PROVE  AsksInv' /\ OwnerInv'
<1>1. toServer' = [toServer EXCEPT ![c] = Tail(toServer[c])]
  BY DEF Returned
<1>2. Tail(toServer[c]) \in Seq(Asks(c))
  BY DEF Unanswered, AsksInv
<1>3. \A d \in Keys : toServer'[d] \in Seq(Asks(d))
  BY <1>1, <1>2 DEF Unanswered, AsksInv
<1> QED
  BY <1>1, <1>3, SameSets, JobFacts
     DEF Shape, Unanswered, AsksInv, OwnerInv, Request, First

\* The head of a queue, and what it cannot be.
LEMMA FirstAsk ==
    ASSUME Shape, Unanswered, NEW c \in Keys, toServer[c] # <<>>
    PROVE  /\ First(c) \in Asks(c)
           /\ c = Owner <=> First(c).type = "NewSession"
<1>1. First(c) \in Asks(c)
  BY DEF Unanswered, AsksInv, First
<1>2. c = Owner => First(c).type = "NewSession"
  BY DEF Unanswered, OwnerInv, Request
<1> QED
  BY <1>1, <1>2 DEF Asks

LEMMA Unmoved ==
    ASSUME UNCHANGED job
    PROVE  /\ Unanswered /\ UNCHANGED toServer => AsksInv'
           /\ Unanswered /\ UNCHANGED toClient => TellsInv'
           /\ Unanswered /\ UNCHANGED <<active, toServer>>
                  /\ (Owner \in active \/ toClient'[Owner] = toClient[Owner])
                  => OwnerInv'
           /\ Unanswered /\ UNCHANGED <<active, stage>> => StageInv'
           /\ Unanswered /\ UNCHANGED <<active, waiter>> => WaiterInv'
           /\ Unanswered /\ UNCHANGED session => SessionInv'
  BY SameSets
     DEF Unanswered, AsksInv, TellsInv, OwnerInv, StageInv, WaiterInv,
         SessionInv, Request, First, public_keys

\* A step that leaves phase alone or lets a client fail keeps Shape.
LEMMA ShapeAfter ==
    ASSUME Shape, UNCHANGED job, TellsInv', DOMAIN toClient' = Keys,
           UNCHANGED phase \/ \E c \in Keys : Fail(c)
    PROVE  Shape'
<1>1. toClient'[Owner] \in Seq(Tells(Owner)) /\ Owner' = Owner
  BY SameSets, JobFacts DEF Shape, TellsInv
<1> QED
  BY <1>1 DEF Shape, Fail

LEMMA RelayBefore ==
    ASSUME Shape, Unanswered, NEW c \in Keys, Connect(c) \/ Handle(c)
    PROVE  Shape' /\ (Unanswered' \/ Answered')
<1>0. /\ UNCHANGED <<job, phase, created>> /\ Owner' = Owner /\ Clients' = Clients
      /\ Owner \in Clients /\ Owner \in Keys /\ Clients \subseteq Keys
  BY SameSets, JobFacts
     DEF Shape, Connect, Handle, NewSession, ReplySessionCreated,
         SessionConnection, PeerHandshake, Touch, RelayRound, CloseSession,
         RemoveSession, ReplySessionFinished, clients
<1>1. CASE Connect(c)
  <2>0. UNCHANGED <<session, waiter, stage, toClient>> /\ active' = active \cup {c}
    BY <1>1 DEF Connect
  <2>1. AsksInv' /\ OwnerInv'
    <3>1. CASE c # Owner
      <4>1. DOMAIN toServer' = Keys /\ \A d \in Keys : toServer'[d] = toServer[d]
        BY <1>1, <3>1 DEF Connect, Unanswered, AsksInv
      <4> QED
        BY <1>0, <2>0, <3>1, <4>1, SameSets
           DEF Unanswered, AsksInv, OwnerInv, Request, First
    <3>2. CASE c = Owner
      <4>1. toServer[c] = <<>>
        BY <1>1, <3>2 DEF Connect, Unanswered, OwnerInv
      <4>2. toServer' = [toServer EXCEPT ![c] = <<Word("NewSession")>>]
        BY <1>1, <3>2, <4>1 DEF Connect
      <4>3. Word("NewSession") \in Asks(c) /\ Word("NewSession").type = "NewSession"
        BY <3>2, WordFacts DEF Shape, Asks
      <4>4. <<Word("NewSession")>> \in Seq(Asks(c))
        BY <4>3
      <4>5. \A d \in Keys : toServer'[d] \in Seq(Asks(d))
        BY <4>2, <4>4 DEF Unanswered, AsksInv
      <4>6. AsksInv'
        BY <1>0, <4>2, <4>5, SameSets DEF Unanswered, AsksInv
      <4>7. toServer'[Owner] = <<Word("NewSession")>>
        BY <3>2, <4>2 DEF Unanswered, AsksInv
      <4>8. OwnerInv'
        BY <1>0, <2>0, <3>2, <4>3, <4>7 DEF OwnerInv, Request, First
      <4> QED
        BY <4>6, <4>8
    <3> QED
      BY <3>1, <3>2
  <2>2. TellsInv' /\ SessionInv'
    BY <1>0, <2>0, Unmoved
  <2>3. StageInv' /\ WaiterInv'
    BY <1>0, <2>0 DEF Unanswered, StageInv, WaiterInv
  <2>4. Shape'
    BY <1>0, <2>0, <2>2, ShapeAfter DEF Shape
  <2> QED
    BY <2>1, <2>2, <2>3, <2>4 DEF Unanswered
<1>2. CASE NewSession(c)
  <2>0. /\ UNCHANGED <<active, toServer, toClient>> /\ Request(c, "NewSession")
        /\ session' = {Session(c, Clients \ {c})}
        /\ waiter' = [waiter EXCEPT !.pc = "poll"]
        /\ stage' = [stage EXCEPT ![c] = "created"]
    BY <1>2 DEF NewSession
  <2>1. c = Owner /\ Owner \in active
    <3>1. c = Owner
      BY <2>0, FirstAsk DEF Request
    <3> QED
      BY <2>0, <3>1 DEF Unanswered, OwnerInv, Request
  <2>2. AsksInv' /\ TellsInv' /\ OwnerInv'
    BY <1>0, <2>0, Unmoved
  <2>3. StageInv'
    BY <1>0, <2>0, <2>1 DEF Unanswered, StageInv
  <2>4. WaiterInv'
    BY <1>0, <2>0 DEF Unanswered, WaiterInv
  <2>5. SessionInv'
    BY <1>0, <2>0, <2>1 DEF SessionInv, Session, public_keys
  <2>6. Shape'
    BY <1>0, <2>0, <2>2, ShapeAfter DEF Shape
  <2> QED
    BY <2>2, <2>3, <2>4, <2>5, <2>6 DEF Unanswered
<1>3. CASE ReplySessionCreated(c)
  <2> DEFINE m == Word("SessionCreated")
             q == toClient[Owner]
  <2>1. c = Owner /\ toClient' = [toClient EXCEPT ![c] = Append(toClient[c], m)]
    BY <1>3 DEF ReplySessionCreated, Send, Unanswered, StageInv
  <2>2. /\ q \in Seq(Tells(Owner))
        /\ m.type = "SessionCreated"
        /\ \A i \in DOMAIN q : q[i].type \notin PeerSays
    BY <1>0, WordFacts DEF Shape, Unanswered, TellsInv, Tells
  <2>3. toClient'[Owner] = Append(q, m) /\ DOMAIN toClient' = Keys
    BY <1>0, <2>1 DEF Shape
  <2> HIDE DEF m, q
  <2>4. /\ Len(q) + 1 \in DOMAIN Append(q, m)
        /\ Append(q, m)[Len(q) + 1].type = "SessionCreated"
        /\ \A i \in DOMAIN Append(q, m) : Append(q, m)[i].type \notin PeerSays
    BY <2>2 DEF PeerSays
  <2>5. Answered'
    BY <1>0, <2>3, <2>4 DEF Answered
  <2>6. Append(q, m) \in Seq(Tells(Owner) \cup {m})
    BY <2>2
  <2>7. Shape'
    BY <1>0, <2>3, <2>6 DEF Shape
  <2> QED
    BY <2>5, <2>7
<1>4. CASE SessionConnection(c)
  <2>0. Request(c, "SessionConnection") /\ UNCHANGED <<active, waiter, stage>>
    BY <1>4 DEF SessionConnection
  <2>1. c # Owner /\ toServer[c] # <<>> /\ First(c).peer # Owner
    BY <2>0, FirstAsk DEF Request, Asks
  <2>2. Word("Error") \in Tells(c)
    BY <1>0, <2>1, WordFacts DEF Shape, Tells, PeerSays
  <2>3. /\ Returned(c) /\ TellsInv' /\ DOMAIN toClient' = Keys
        /\ toClient'[Owner] = toClient[Owner]
    BY <1>0, <1>4, <2>1, <2>2, AfterSend, Unmoved
       DEF SessionConnection, HandleError, Shape
  <2>4. AsksInv' /\ OwnerInv'
    BY <1>0, <2>0, <2>1, <2>3, AfterReturned
  <2>5. StageInv' /\ WaiterInv'
    BY <1>0, <2>0, Unmoved
  <2>6. SessionInv'
    <3>1. session' = {register_connection(s, c, First(c).peer) : s \in session}
      BY <1>4 DEF SessionConnection
    <3> SUFFICES ASSUME NEW t \in session
                 PROVE  LET s == register_connection(t, c, First(c).peer)
                        IN /\ s = [owner_key |-> s.owner_key,
                                   participant_keys |-> s.participant_keys,
                                   connections |-> s.connections, idle |-> s.idle]
                           /\ public_keys(s) = Clients
                           /\ \A p : /\ <<Owner, p>> \notin s.connections
                                     /\ <<p, Owner>> \notin s.connections
      BY <1>0, <3>1 DEF SessionInv, public_keys
    <3> DEFINE s == register_connection(t, c, First(c).peer)
    <3>2. /\ t = [owner_key |-> t.owner_key, participant_keys |-> t.participant_keys,
                  connections |-> t.connections, idle |-> t.idle]
          /\ public_keys(t) = Clients
          /\ \A p : <<Owner, p>> \notin t.connections /\ <<p, Owner>> \notin t.connections
      BY DEF Unanswered, SessionInv
    <3>3. s = [owner_key |-> t.owner_key, participant_keys |-> t.participant_keys,
               connections |-> t.connections \cup {<<c, First(c).peer>>},
               idle |-> t.idle]
      BY <3>2 DEF register_connection
    <3>4. \A p : <<Owner, p>> # <<c, First(c).peer>> /\ <<p, Owner>> # <<c, First(c).peer>>
      BY <2>1
    <3> HIDE DEF s
    <3>5. /\ s = [owner_key |-> s.owner_key, participant_keys |-> s.participant_keys,
                  connections |-> s.connections, idle |-> s.idle]
          /\ public_keys(s) = Clients
          /\ \A p : <<Owner, p>> \notin s.connections /\ <<p, Owner>> \notin s.connections
      BY <3>2, <3>3, <3>4 DEF public_keys
    <3> QED
      BY <3>5 DEF s
  <2>7. Shape'
    BY <1>0, <2>3, ShapeAfter
  <2> QED
    BY <2>3, <2>4, <2>5, <2>6, <2>7 DEF Unanswered
<1>5. CASE PeerHandshake(c)
  <2> DEFINE p == First(c).peer
             m == [First(c) EXCEPT !.peer = c]
  <2>0. UNCHANGED relay /\ RelayTo(c, p) /\ toServer[c] # <<>>
        /\ First(c).type \in PeerSays
    BY <1>5 DEF PeerHandshake, Request, PeerSays
  <2>1. c # Owner /\ First(c) \in Asks(c) /\ p # Owner /\ p \in Keys
    BY <2>0, FirstAsk DEF Asks, PeerSays
  <2>2. Word("Error") \in Tells(c)
    BY <1>0, <2>1, WordFacts DEF Shape, Tells, PeerSays
  <2>3. m \in Tells(p)
    BY <2>0, <2>1 DEF Asks, Tells
  <2>4. /\ Returned(c) /\ TellsInv' /\ DOMAIN toClient' = Keys
        /\ toClient'[Owner] = toClient[Owner]
    <3>1. CASE p \in active
      <4>1. Returned(c) /\ Send(p, m)
        BY <2>0, <3>1 DEF RelayTo
      <4> QED
        BY <1>0, <2>1, <2>3, <4>1, AfterSend
    <3>2. CASE p \notin active
      <4>1. Returned(c) /\ Send(c, Word("Error"))
        BY <2>0, <3>2 DEF RelayTo, HandleError
      <4> QED
        BY <1>0, <2>1, <2>2, <4>1, AfterSend
    <3> QED
      BY <3>1, <3>2
  <2>5. UNCHANGED <<active, session, waiter, stage>>
    BY <2>0 DEF relay
  <2>6. AsksInv' /\ OwnerInv'
    BY <1>0, <2>0, <2>1, <2>4, <2>5, AfterReturned
  <2>7. StageInv' /\ WaiterInv' /\ SessionInv'
    BY <1>0, <2>5, Unmoved
  <2>8. Shape'
    BY <1>0, <2>4, ShapeAfter
  <2> QED
    BY <2>4, <2>6, <2>7, <2>8 DEF Unanswered
<1>6. ~Touch(c) /\ ~CloseSession(c)
  BY FirstAsk DEF Touch, CloseSession, Request, Asks, PeerSays
<1>7. ~RelayRound(c) /\ ~RemoveSession(c) /\ ~ReplySessionFinished(c)
  BY DEF RelayRound, RemoveSession, ReplySessionFinished, Unanswered, StageInv
<1> QED
  BY <1>1, <1>2, <1>3, <1>4, <1>5, <1>6, <1>7 DEF Handle

LEMMA WaiterBefore ==
    ASSUME Shape, Unanswered, Waiter
    PROVE  Shape' /\ Unanswered'
<1>0. /\ UNCHANGED <<job, active, session, stage, toServer, phase, created>>
      /\ Owner' = Owner /\ Clients' = Clients
      /\ Owner \in Clients /\ Owner \in Keys /\ Clients \subseteq Keys
      /\ \E p \in Clients : p # Owner
  BY SameSets, JobFacts
     DEF Shape, Waiter, Poll, NotifyPeers, NotifyPeer, NotifyReturn, clients
<1>1. AsksInv' /\ StageInv' /\ SessionInv'
  BY <1>0, Unmoved
<1>2. ASSUME UNCHANGED toClient, WaiterInv' PROVE Shape' /\ Unanswered'
  <2>1. TellsInv' /\ OwnerInv'
    BY <1>0, <1>2, Unmoved
  <2>2. Shape'
    BY <1>0, <1>2, <2>1, ShapeAfter DEF Shape
  <2> QED
    BY <1>1, <1>2, <2>1, <2>2 DEF Unanswered
<1>3. CASE Poll
  <2>1. ~ \E s \in session : is_active(s)
    BY <1>0 DEF Unanswered, SessionInv, is_active, check_connection
  <2>2. WaiterInv'
    BY <1>0, <1>3, <2>1 DEF Poll, Unanswered, WaiterInv
  <2> QED
    BY <1>2, <1>3, <2>2 DEF Poll
<1>4. CASE NotifyPeers
  <2>1. waiter = [pc |-> waiter.pc, msg |-> waiter.msg, next |-> waiter.next]
        /\ waiter.msg = "SessionReady" /\ Clients \subseteq active
    BY <1>4 DEF NotifyPeers, Unanswered, WaiterInv
  <2>2. waiter' = [pc |-> "notify", msg |-> waiter.msg, next |-> 1]
    BY <1>4, <2>1 DEF NotifyPeers
  <2>3. WaiterInv'
    BY <1>0, <2>1, <2>2 DEF WaiterInv
  <2> QED
    BY <1>2, <1>4, <2>3 DEF NotifyPeers
<1>5. CASE NotifyPeer
  <2> DEFINE c == Parties[waiter.next]
             m == Word("SessionReady")
  <2>1. /\ Send(c, m) /\ waiter.msg = "SessionReady" /\ Clients \subseteq active
        /\ waiter.next \in DOMAIN Parties
    <3>1. waiter.msg = "SessionReady" /\ Clients \subseteq active
          /\ waiter.next \in Nat \ {0}
      BY <1>5 DEF NotifyPeer, Unanswered, WaiterInv
    <3>2. waiter.next \in DOMAIN Parties
      BY <1>5, <3>1, JobFacts DEF NotifyPeer, Shape
    <3> QED
      BY <1>5, <3>1, <3>2 DEF NotifyPeer
  <2>2. c \in Keys /\ c \in Clients
    BY <1>0, <2>1 DEF Clients
  <2>3. m \in Tells(c)
    BY <1>0, WordFacts DEF Shape, Tells, PeerSays
  <2>4. TellsInv' /\ DOMAIN toClient' = Keys
    BY <1>0, <2>1, <2>2, <2>3, AfterSend
  <2>5. OwnerInv'
    BY <1>0, <2>1, Unmoved
  <2>6. WaiterInv'
    BY <1>0, <1>5 DEF NotifyPeer, Unanswered, WaiterInv
  <2>7. Shape'
    BY <1>0, <2>4, ShapeAfter
  <2> QED
    BY <1>1, <2>4, <2>5, <2>6, <2>7 DEF Unanswered
<1>6. CASE NotifyReturn
  <2>1. WaiterInv'
    BY <1>0, <1>6 DEF NotifyReturn, Unanswered, WaiterInv
  <2> QED
    BY <1>2, <1>6, <2>1 DEF NotifyReturn
<1> QED
  BY <1>3, <1>4, <1>5, <1>6 DEF Waiter

LEMMA RegisterAsks ==
    ASSUME Shape, NEW c \in Keys, NEW p \in Keys
    PROVE  RegisterConnection(c, p) \in Seq(Asks(c))
<1>1. CASE \E i \in DOMAIN connections(Parties, c) : connections(Parties, c)[i] = p
  <2>1. p # Owner
    BY <1>1, NobodyDialsOwner DEF Shape
  <2>2. Msg("SessionConnection", p, NoRound) \in Asks(c)
    BY <2>1 DEF Msg, Asks
  <2>3. /\ <<>> \in Seq(Asks(c))
        /\ <<Msg("SessionConnection", p, NoRound)>> \in Seq(Asks(c))
    BY <2>2
  <2> QED
    BY <2>3 DEF RegisterConnection
<1>2. CASE ~ \E i \in DOMAIN connections(Parties, c) : connections(Parties, c)[i] = p
  BY <1>2 DEF RegisterConnection
<1> QED
  BY <1>1, <1>2

LEMMA ClientBefore ==
    ASSUME Shape, Unanswered, NEW c \in Keys, Client(c)
    PROVE  Shape' /\ Unanswered'
<1>0. /\ UNCHANGED <<job, active, session, waiter, stage>>
      /\ Owner' = Owner /\ Clients' = Clients
      /\ Owner \in Clients /\ Owner \in Keys /\ Clients \subseteq Keys
  BY SameSets, JobFacts
     DEF Shape, Client, OnSessionCreated, OnSessionReady, OnSessionActive,
         OnInitiator, OnResponder, OnRound, OnSessionFinished, OnError, Close,
         relay
<1>1. StageInv' /\ WaiterInv' /\ SessionInv'
  BY <1>0, Unmoved
<1>2. ASSUME NEW type, Incoming(c, type)
      PROVE  /\ TellsInv' /\ DOMAIN toClient' = Keys
             /\ UNCHANGED toServer => AsksInv' /\ OwnerInv'
             /\ \A msgs \in Seq(Asks(c)) :
                    Requests(c, msgs) => AsksInv' /\ OwnerInv'
  <2>1. /\ TellsInv' /\ DOMAIN toClient' = Keys
        /\ Owner # c => toClient'[Owner] = toClient[Owner]
        /\ c = Owner => Owner \in active
    BY <1>0, <1>2, AfterTake
  <2>2. UNCHANGED toServer => AsksInv' /\ OwnerInv'
    BY <1>0, <2>1, Unmoved
  <2>3. ASSUME NEW msgs \in Seq(Asks(c)), Requests(c, msgs)
        PROVE  AsksInv' /\ OwnerInv'
    BY <1>0, <2>1, <2>3, AfterRequests
  <2> QED
    BY <2>1, <2>2, <2>3
<1>3. ASSUME NEW type, Incoming(c, type),
             UNCHANGED toServer, UNCHANGED phase \/ Fail(c)
      PROVE  Shape' /\ Unanswered'
  <2>1. AsksInv' /\ OwnerInv' /\ TellsInv' /\ DOMAIN toClient' = Keys
    BY <1>2, <1>3
  <2>2. Shape'
    BY <1>0, <1>3, <2>1, ShapeAfter
  <2> QED
    BY <1>1, <2>1, <2>2 DEF Unanswered
<1>4. ASSUME NEW type, Incoming(c, type), NEW msgs \in Seq(Asks(c)),
             Requests(c, msgs), UNCHANGED phase
      PROVE  Shape' /\ Unanswered'
  <2>1. AsksInv' /\ OwnerInv' /\ TellsInv' /\ DOMAIN toClient' = Keys
    BY <1>2, <1>4
  <2>2. Shape'
    BY <1>0, <1>4, <2>1, ShapeAfter
  <2> QED
    BY <1>1, <2>1, <2>2 DEF Unanswered
<1>5. CASE OnSessionCreated(c)
  BY <1>3, <1>5 DEF OnSessionCreated
<1>6. CASE OnSessionReady(c)
  <2> DEFINE mine == connections(Parties, c)
             msgs == [i \in DOMAIN mine |-> Msg("Initiator", mine[i], NoRound)]
  <2>0. Incoming(c, "SessionReady")
    BY <1>6 DEF OnSessionReady
  <2>1. mine \in Seq(Keys) /\ \A i \in DOMAIN mine : mine[i] # Owner
    BY NobodyDialsOwner DEF Shape
  <2>2. \A i \in DOMAIN mine : Msg("Initiator", mine[i], NoRound) \in Asks(c)
    <3> SUFFICES ASSUME NEW i \in DOMAIN mine
                 PROVE  Msg("Initiator", mine[i], NoRound) \in Asks(c)
      OBVIOUS
    <3>1. mine[i] \in Keys /\ mine[i] # Owner
      BY <2>1
    <3> QED
      BY <3>1 DEF Msg, Asks, PeerSays
  <2>3. msgs \in Seq(Asks(c))
    BY <2>1, <2>2
  <2>4. CASE Fail(c) /\ UNCHANGED toServer
    BY <1>3, <2>0, <2>4
  <2>5. CASE Dial(c) /\ UNCHANGED phase
    <3>1. Requests(c, msgs)
      BY <2>5 DEF Dial
    <3> QED
      BY <1>4, <2>0, <2>3, <2>5, <3>1
  <2> QED
    BY <1>6, <2>4, <2>5 DEF OnSessionReady
<1>7. ASSUME Incoming(c, "Initiator") \/ Incoming(c, "Responder")
      PROVE  /\ c # Owner /\ Head(toClient[c]).peer \in Keys
             /\ Incoming(c, "Initiator") => Head(toClient[c]).peer # Owner
             /\ PeerConnected(c) => \A d \in Keys : phase'[d] = phase[d]
             /\ PeerConnected(c) => DOMAIN phase' = Keys
  <2>1. /\ Head(toClient[c]) \in Tells(c)
        /\ \/ Head(toClient[c]).type = "Initiator"
           \/ Head(toClient[c]).type = "Responder"
    BY <1>0, <1>7, AfterTake
  <2>2. /\ c # Owner /\ Head(toClient[c]).peer \in Keys
        /\ Head(toClient[c]).type = "Initiator" => Head(toClient[c]).peer # Owner
    BY <2>1 DEF Tells, PeerSays
  <2> QED
    BY <2>2 DEF PeerConnected, Shape, Incoming
<1>8. CASE OnInitiator(c)
  <2> DEFINE p == Head(toClient[c]).peer
             msgs == <<Msg("Responder", p, NoRound)>> \o RegisterConnection(c, p)
  <2>0. Incoming(c, "Initiator")
    BY <1>8 DEF OnInitiator
  <2>1. p \in Keys /\ p # Owner
    BY <1>7, <2>0
  <2>2. Msg("Responder", p, NoRound) \in Asks(c)
    BY <2>1 DEF Msg, Asks, PeerSays
  <2>3. RegisterConnection(c, p) \in Seq(Asks(c))
    BY <2>1, RegisterAsks
  <2>4. msgs \in Seq(Asks(c))
    BY <2>2, <2>3
  <2>5. CASE Fail(c) /\ UNCHANGED toServer
    BY <1>3, <2>0, <2>5
  <2>6. CASE Requests(c, msgs) /\ PeerConnected(c)
    <3>1. AsksInv' /\ OwnerInv' /\ TellsInv' /\ DOMAIN toClient' = Keys
      BY <1>2, <2>0, <2>4, <2>6
    <3>2. toClient'[Owner] \in Seq(Tells(Owner))
      BY <1>0, <3>1, SameSets DEF TellsInv
    <3>3. Shape'
      BY <1>0, <1>7, <2>0, <2>6, <3>1, <3>2 DEF Shape
    <3> QED
      BY <1>1, <3>1, <3>3 DEF Unanswered
  <2> QED
    BY <1>8, <2>5, <2>6 DEF OnInitiator
<1>9. CASE OnResponder(c)
  <2> DEFINE p == Head(toClient[c]).peer
             msgs == RegisterConnection(c, p)
  <2>0. Incoming(c, "Responder")
    BY <1>9 DEF OnResponder
  <2>1. msgs \in Seq(Asks(c))
    BY <1>7, <2>0, RegisterAsks
  <2>2. CASE Fail(c) /\ UNCHANGED toServer
    BY <1>3, <2>0, <2>2
  <2>3. CASE Requests(c, msgs) /\ PeerConnected(c)
    <3>1. AsksInv' /\ OwnerInv' /\ TellsInv' /\ DOMAIN toClient' = Keys
      BY <1>2, <2>0, <2>1, <2>3
    <3>2. toClient'[Owner] \in Seq(Tells(Owner))
      BY <1>0, <3>1, SameSets DEF TellsInv
    <3>3. Shape'
      BY <1>0, <1>7, <2>0, <2>3, <3>1, <3>2 DEF Shape
    <3> QED
      BY <1>1, <3>1, <3>3 DEF Unanswered
  <2> QED
    BY <1>9, <2>2, <2>3 DEF OnResponder
<1>10. CASE OnError(c)
  BY <1>3, <1>10 DEF OnError
<1>11. CASE Close(c)
  <2>1. UNCHANGED <<toServer, toClient>>
    BY <1>11 DEF Close
  <2>2. AsksInv' /\ OwnerInv' /\ TellsInv'
    BY <1>0, <2>1, Unmoved
  <2>3. Shape'
    BY <1>0, <1>11, <2>1 DEF Shape, Close
  <2> QED
    BY <1>1, <2>2, <2>3 DEF Unanswered
<1>12. ~OnSessionActive(c) /\ ~OnRound(c) /\ ~OnSessionFinished(c)
  <2>1. ASSUME NEW type, Incoming(c, type)
        PROVE  type \in PeerSays \cup {"SessionCreated", "SessionReady", "Error"}
    BY <1>0, <2>1, AfterTake DEF Tells
  <2> QED
    BY <2>1 DEF OnSessionActive, OnRound, OnSessionFinished, PeerSays
<1> QED
  BY <1>5, <1>6, <1>8, <1>9, <1>10, <1>11, <1>12 DEF Client

-----------------------------------------------------------------------------
(* After the answer                                                        *)

LEMMA SendAfter ==
    ASSUME Shape, Answered, UNCHANGED <<job, phase, created>>,
           UNCHANGED toClient \/ \E c, m : Send(c, m)
    PROVE  Shape' /\ Answered'
<1>0. Owner' = Owner /\ Owner \in Keys
  BY SameSets, JobFacts DEF Shape
<1>1. CASE UNCHANGED toClient
  BY <1>0, <1>1 DEF Shape, Answered
<1>2. ASSUME NEW c, NEW m, Send(c, m) PROVE Shape' /\ Answered'
  <2> DEFINE q == toClient[Owner]
  <2>1. DOMAIN toClient' = Keys
        /\ toClient'[Owner] = IF c = Owner THEN Append(q, m) ELSE q
    BY <1>0, <1>2 DEF Shape, Send
  <2>2. PICK S : q \in Seq(S)
    BY DEF Shape
  <2>3. q \in Seq(S \cup {m}) /\ Append(q, m) \in Seq(S \cup {m})
    BY <2>2
  <2>4. Shape'
    BY <1>0, <2>1, <2>3 DEF Shape
  <2>5. CASE c = Owner /\ Owner \notin created
    <3>1. PICK j \in DOMAIN q :
              /\ q[j].type = "SessionCreated"
              /\ \A i \in DOMAIN q : q[i].type \in PeerSays => j < i
      BY <2>5 DEF Answered
    <3> HIDE DEF q
    <3>2. /\ j \in DOMAIN Append(q, m)
          /\ Append(q, m)[j].type = "SessionCreated"
          /\ \A i \in DOMAIN Append(q, m) :
                 Append(q, m)[i].type \in PeerSays => j < i
      BY <2>2, <3>1
    <3> QED
      BY <1>0, <2>1, <2>4, <2>5, <3>2 DEF Answered
  <2>6. CASE c # Owner \/ Owner \in created
    BY <1>0, <2>1, <2>4, <2>6 DEF Answered
  <2> QED
    BY <2>5, <2>6
<1> QED
  BY <1>1, <1>2

LEMMA TakeAfter ==
    ASSUME Shape, Answered, UNCHANGED job, NEW c \in Keys, NEW type,
           Incoming(c, type), created \subseteq created',
           c = Owner /\ type = "SessionCreated" => Owner \in created'
    PROVE  /\ Answered' /\ DOMAIN toClient' = Keys
           /\ \E S : toClient'[Owner] \in Seq(S)
           /\ c = Owner /\ type \in PeerSays => Owner \in created
<1>0. Owner' = Owner /\ Owner \in Keys
  BY SameSets, JobFacts DEF Shape
<1> DEFINE q == toClient[Owner]
<1>1. PICK S : q \in Seq(S)
  BY DEF Shape
<1>2. DOMAIN toClient' = Keys
      /\ toClient'[Owner] = IF c = Owner THEN Tail(q) ELSE q
  BY <1>0 DEF Shape, Incoming
<1>3. c = Owner => q # <<>> /\ Head(q).type = type
  BY DEF Incoming
<1>4. \E T : toClient'[Owner] \in Seq(T)
  BY <1>1, <1>2, <1>3
<1>5. CASE c = Owner /\ Owner \notin created'
  <2>1. PICK j \in DOMAIN q :
            /\ q[j].type = "SessionCreated"
            /\ \A i \in DOMAIN q : q[i].type \in PeerSays => j < i
    BY <1>5 DEF Answered
  <2> HIDE DEF q
  <2>2. Head(q) = q[1] /\ 1 \in DOMAIN q /\ j # 1 /\ j \in Nat
    BY <1>1, <1>3, <1>5, <2>1
  <2>3. type \notin PeerSays
    BY <1>1, <1>3, <1>5, <2>1, <2>2
  <2>4. /\ j - 1 \in DOMAIN Tail(q)
        /\ Tail(q)[j - 1].type = "SessionCreated"
        /\ \A i \in DOMAIN Tail(q) : Tail(q)[i].type \in PeerSays => j - 1 < i
    BY <1>1, <1>3, <1>5, <2>1, <2>2
  <2> QED
    BY <1>0, <1>2, <1>4, <1>5, <2>3, <2>4 DEF Answered
<1>6. CASE c = Owner /\ Owner \in created' /\ type \in PeerSays /\ Owner \notin created
  <2>1. PICK j \in DOMAIN q : \A i \in DOMAIN q : q[i].type \in PeerSays => j < i
    BY <1>6 DEF Answered
  <2> HIDE DEF q
  <2>2. FALSE
    BY <1>1, <1>3, <1>6, <2>1
  <2> QED
    BY <2>2
<1>7. CASE c = Owner /\ Owner \in created' /\ ~(type \in PeerSays /\ Owner \notin created)
  BY <1>0, <1>2, <1>4, <1>7 DEF Answered
<1>8. CASE c # Owner
  BY <1>0, <1>2, <1>4, <1>8 DEF Answered
<1> QED
  BY <1>5, <1>6, <1>7, <1>8

LEMMA RelayAfter ==
    ASSUME Shape, Answered,
           Waiter \/ \E c \in Keys : Connect(c) \/ Handle(c)
    PROVE  Shape' /\ Answered'
<1>1. UNCHANGED <<job, phase, created>>
      /\ (UNCHANGED toClient \/ \E c, m : Send(c, m))
  <2>1. CASE Waiter
    BY <2>1 DEF Waiter, Poll, NotifyPeers, NotifyPeer, NotifyReturn, clients
  <2>2. ASSUME NEW c \in Keys, Connect(c) \/ Handle(c)
        PROVE  /\ UNCHANGED <<job, phase, created>>
               /\ UNCHANGED toClient \/ \E d, m : Send(d, m)
    BY <2>2
       DEF Connect, Handle, NewSession, ReplySessionCreated,
           SessionConnection, PeerHandshake, Touch, RelayRound, CloseSession,
           RemoveSession, ReplySessionFinished, RelayTo, HandleError, clients
  <2> QED
    BY <2>1, <2>2
<1> QED
  BY <1>1, SendAfter

\* What a client does when it starts a round or leaves one.
LEMMA NoPanicInRounds ==
    ASSUME NEW c, OnRound(c) \/ OnSessionActive(c),
           DOMAIN phase = Keys
    PROVE  DOMAIN phase' = Keys
           /\ \A d \in Keys : phase'[d] = phase[d] \/ phase'[d] # "panicked"
<1>1. ASSUME NEW s, Dispatch(c, s)
      PROVE  DOMAIN phase' = Keys
             /\ \A d \in Keys : phase'[d] = phase[d] \/ phase'[d] # "panicked"
  BY <1>1 DEF Dispatch, Fail
<1>2. ASSUME Fail(c)
      PROVE  DOMAIN phase' = Keys
             /\ \A d \in Keys : phase'[d] = phase[d] \/ phase'[d] # "panicked"
  BY <1>2 DEF Fail
<1>3. ASSUME Finish(c)
      PROVE  DOMAIN phase' = Keys
             /\ \A d \in Keys : phase'[d] = phase[d] \/ phase'[d] # "panicked"
  BY <1>3 DEF Finish
<1> QED
  BY <1>1, <1>2, <1>3
     DEF OnRound, OnSessionActive, StartDriver, HandleEvent, Proceed

LEMMA ClientAfter ==
    ASSUME Shape, Answered, NEW c \in Keys, Client(c)
    PROVE  Shape' /\ Answered'
<1>0. UNCHANGED job /\ Owner' = Owner /\ created \subseteq created'
  BY SameSets
     DEF Client, OnSessionCreated, OnSessionReady, OnSessionActive,
         OnInitiator, OnResponder, OnRound, OnSessionFinished, OnError, Close,
         relay
<1>1. CASE Close(c)
  BY <1>0, <1>1 DEF Close, Shape, Answered
<1>2. ASSUME NEW type, Incoming(c, type),
             c = Owner /\ type = "SessionCreated" => Owner \in created',
             DOMAIN phase' = Keys,
             \A d \in Keys : phase'[d] = phase[d] \/ phase'[d] # "panicked"
      PROVE  Shape' /\ Answered'
  BY <1>0, <1>2, TakeAfter DEF Shape
<1>3. CASE OnSessionCreated(c)
  <2>1. Incoming(c, "SessionCreated") /\ c \in created' /\ phase' = phase
    BY <1>3 DEF OnSessionCreated
  <2> QED
    BY <1>2, <2>1 DEF Shape
<1>4. CASE OnSessionReady(c)
  <2>1. Incoming(c, "SessionReady") /\ (Fail(c) \/ phase' = phase)
    BY <1>4 DEF OnSessionReady
  <2> QED
    BY <1>2, <2>1 DEF Shape, Fail
<1>5. CASE OnError(c) \/ OnSessionFinished(c)
  <2>1. CASE OnError(c)
    BY <1>2, <2>1 DEF OnError, Shape, Fail
  <2>2. CASE OnSessionFinished(c)
    BY <1>2, <2>2 DEF OnSessionFinished, Shape
  <2> QED
    BY <1>5, <2>1, <2>2
<1>6. CASE OnRound(c) \/ OnSessionActive(c)
  <2>1. DOMAIN phase' = Keys
        /\ \A d \in Keys : phase'[d] = phase[d] \/ phase'[d] # "panicked"
    BY <1>6, NoPanicInRounds DEF Shape
  <2>2. Incoming(c, "Round") \/ Incoming(c, "SessionActive")
    BY <1>6 DEF OnRound, OnSessionActive
  <2> QED
    BY <1>2, <2>1, <2>2
<1>7. CASE OnInitiator(c) \/ OnResponder(c)
  <2>1. PICK type \in PeerSays : Incoming(c, type)
    BY <1>7 DEF OnInitiator, OnResponder, PeerSays
  <2>2. type # "SessionCreated"
    BY <2>1 DEF PeerSays
  <2>3. c = Owner => Owner \in created
    BY <1>0, <2>1, <2>2, TakeAfter
  <2>4. Fail(c) \/ PeerConnected(c)
    BY <1>7 DEF OnInitiator, OnResponder
  <2>5. DOMAIN phase' = Keys
        /\ \A d \in Keys : phase'[d] = phase[d] \/ phase'[d] # "panicked"
    BY <2>3, <2>4 DEF Shape, Fail, PeerConnected
  <2> QED
    BY <1>2, <2>1, <2>2, <2>5
<1> QED
  BY <1>1, <1>3, <1>4, <1>5, <1>6, <1>7 DEF Client

-----------------------------------------------------------------------------

LEMMA CreatedInit == Init => CreatedInv
<1> SUFFICES ASSUME Init PROVE CreatedInv
  OBVIOUS
<1>0. Owner \in Keys
  BY JobFacts DEF Init
<1>1. Shape
  <2>1. toClient[Owner] \in Seq({})
    BY <1>0 DEF Init
  <2> QED
    BY <2>1 DEF Init, Shape
<1>2. Unanswered
  BY <1>0
     DEF Init, Unanswered, AsksInv, TellsInv, OwnerInv, StageInv, WaiterInv,
         SessionInv
<1> QED
  BY <1>1, <1>2 DEF CreatedInv

LEMMA CreatedNext == CreatedInv /\ [Next]_vars => CreatedInv'
<1> SUFFICES ASSUME CreatedInv, [Next]_vars PROVE CreatedInv'
  OBVIOUS
<1>1. CASE UNCHANGED vars
  <2>1. UNCHANGED <<relay, toServer, toClient, clients>>
    BY <1>1 DEF vars
  <2>2. /\ UNCHANGED <<job, active, session, waiter, stage, toServer, toClient>>
        /\ UNCHANGED <<phase, created>>
    BY <2>1 DEF relay, clients
  <2>3. Shape'
    BY <2>2, SameSets DEF CreatedInv, Shape
  <2>4. Unanswered => Unanswered'
    BY <2>2, Unmoved DEF Unanswered
  <2>5. Answered => Answered'
    BY <2>2, SameSets DEF Answered
  <2> QED
    BY <2>3, <2>4, <2>5 DEF CreatedInv
<1>2. CASE Next /\ Unanswered
  BY <1>2, RelayBefore, WaiterBefore, ClientBefore DEF Next, CreatedInv
<1>3. CASE Next /\ Answered
  BY <1>3, RelayAfter, ClientAfter DEF Next, CreatedInv
<1> QED
  BY <1>1, <1>2, <1>3 DEF CreatedInv

\* SessionInitiator::handle_event never unwraps a session_state that is not
\* there.  wait_for_session_ready may tell everybody before the relay answers
\* NewSession, and peers may be dialled before; but the owner is dialled by
\* nobody, and its own calls are queued behind NewSession, so the answer is on
\* its way to the owner before the first word of a peer.
THEOREM NobodyPanics == Spec => []NoPanic
<1>1. CreatedInv => NoPanic
  BY JobFacts DEF CreatedInv, Shape, NoPanic
<1> QED
  BY <1>1, CreatedInit, CreatedNext, PTL DEF Spec

-----------------------------------------------------------------------------
(* Types                                                                   *)

Rounds ==
    {r \in [driver : 1..Len(Drivers), number : 1..MaxRounds] :
        r.number <= Drivers[r.driver]}

MessageTypes ==
    PeerSays \cup {"NewSession", "SessionCreated", "SessionReady",
        "SessionConnection", "SessionActive", "Round", "CloseSession",
        "SessionFinished", "Error"}

Messages ==
    {m \in [type : MessageTypes, peer : Clients, round : Rounds \cup {NoRound}] :
        IF m.type = "Round" THEN m.round \in Rounds ELSE m.round = NoRound}

RelayOK ==
    /\ active \subseteq Clients
    /\ stage \in [Keys -> {"start", "created", "relay", "close", "finished"}]
    /\ waiter \in [pc : {"unborn", "poll", "found", "notify", "done"},
                   msg : {"SessionReady", "SessionActive"}, next : Nat \ {0}]

\* Only the participants talk.
ServerQueuesOK ==
    /\ toServer \in [Keys -> Seq(Messages)]
    /\ \A c \in Keys \ Clients : toServer[c] = <<>>

ClientQueuesOK ==
    /\ toClient \in [Keys -> Seq(Messages)]
    /\ \A c \in Keys \ Clients : toClient[c] = <<>>

\* A handler that has begun is at the request it began with.
HandlerOK ==
    \A c \in Keys :
        /\ stage[c] = "created" => Request(c, "NewSession")
        /\ stage[c] = "relay" => Request(c, "Round")
        /\ stage[c] \in {"close", "finished"} => Request(c, "CloseSession")

PeersOK ==
    /\ DOMAIN peers = Keys
    /\ \A c \in Keys :
           peers[c] \in [Keys \ {c} -> {"none", "handshake", "transport"}]

RoundsOK ==
    /\ round \in [Keys -> [driver : 0..Len(Drivers), number : 0..MaxRounds]]
    /\ \A c \in Keys : round[c].driver > 0 => round[c] \in Rounds
    /\ buffer \in [Keys -> [1..MaxRounds -> 0..(Len(Parties) - 2)]]

ClientsOK ==
    /\ phase \in [Keys -> Phases]
    /\ created \subseteq Clients
    /\ PeersOK
    /\ RoundsOK

TypeInv ==
    /\ job \in Jobs
    /\ RelayOK /\ ServerQueuesOK /\ ClientQueuesOK /\ HandlerOK /\ ClientsOK

LEMMA DriverFacts ==
    ASSUME job \in Jobs
    PROVE  /\ Len(Drivers) \in Nat /\ Len(Drivers) >= 1
           /\ DOMAIN Drivers = 1..Len(Drivers)
           /\ \A d \in 1..Len(Drivers) : Drivers[d] \in 1..MaxRounds
<1>1. CASE job.op = "keygen"
  <2>1. Drivers = <<4>>
    BY <1>1 DEF Drivers
  <2> QED
    BY <2>1 DEF MaxRounds
<1>2. CASE job.op # "keygen"
  <2>1. Drivers = <<1, 6, 1>>
    BY <1>2 DEF Drivers
  <2> QED
    BY <2>1 DEF MaxRounds
<1> QED
  BY <1>1, <1>2

LEMMA TypeInvImplies == TypeInv => TypeOK
<1> SUFFICES ASSUME TypeInv PROVE TypeOK
  OBVIOUS
<1>1. ASSUME NEW c \in Keys, round[c].driver > 0
      PROVE  round[c].number \in 1..Drivers[round[c].driver]
  <2>1. round[c] \in Rounds
    BY <1>1 DEF TypeInv, ClientsOK, RoundsOK
  <2>2. round[c].number \in 1..MaxRounds /\ round[c].number <= Drivers[round[c].driver]
        /\ round[c].driver \in 1..Len(Drivers)
    BY <2>1 DEF Rounds
  <2>3. Drivers[round[c].driver] \in 1..MaxRounds
    BY <2>2, DriverFacts DEF TypeInv
  <2> QED
    BY <2>2, <2>3 DEF MaxRounds
<1> QED
  BY <1>1 DEF TypeInv, RelayOK, ClientsOK, PeersOK, RoundsOK, TypeOK

LEMMA SameTypes ==
    ASSUME UNCHANGED job
    PROVE  /\ Owner' = Owner /\ Clients' = Clients /\ Parties' = Parties
           /\ Drivers' = Drivers /\ Rounds' = Rounds /\ Messages' = Messages
<1>1. Parties' = Parties /\ Owner' = Owner /\ Clients' = Clients
      /\ Drivers' = Drivers
  BY DEF Parties, Owner, Clients, Drivers
<1>2. Rounds' = Rounds
  BY <1>1 DEF Rounds
<1> QED
  BY <1>1, <1>2 DEF Messages

LEMMA WordMessage ==
    ASSUME job \in Jobs, NEW type \in MessageTypes, type # "Round"
    PROVE  Word(type) \in Messages /\ Word(type).type = type
  BY JobFacts DEF Word, Msg, Messages

\* As many clients as places in the session.
LEMMA ClientsFinite ==
    ASSUME job \in Jobs
    PROVE  /\ IsFiniteSet(Clients) /\ Cardinality(Clients) \in Nat
           /\ Cardinality(Clients) = Len(Parties)
<1> DEFINE n == Len(Parties)
<1>0. Parties \in Seq(Keys) /\ DistinctKeys(Parties) /\ n \in Nat
      /\ DOMAIN Parties = 1..n
  BY JobFacts
<1>1. Parties \in Bijection(1..n, Clients)
  <2>1. Parties \in [1..n -> Clients] /\ \A x \in Clients : \E i \in 1..n : Parties[i] = x
    BY <1>0 DEF Clients
  <2>2. \A i, j \in 1..n : Parties[i] = Parties[j] => i = j
    BY <1>0 DEF DistinctKeys
  <2> HIDE DEF n
  <2> QED
    BY <2>1, <2>2 DEF Bijection, Injection, Surjection, IsInjective
<1>2. IsFiniteSet(1..n) /\ Cardinality(1..n) = n
  <2>1. Cardinality(1..n) = IF 1 > n THEN 0 ELSE n - 1 + 1
    BY <1>0, FS_Interval
  <2> QED
    BY <1>0, <2>1, FS_Interval
<1>3. ExistsBijection(1..n, Clients)
  BY <1>1 DEF ExistsBijection
<1>4. IsFiniteSet(Clients) /\ Cardinality(Clients) = Cardinality(1..n)
  BY <1>2, <1>3, FS_Bijection
<1> QED
  BY <1>0, <1>2, <1>4

\* The numbers of the parties: a client's place among the key indices is one
\* of the places in the session.
LEMMA NumberFacts ==
    ASSUME job \in Jobs, NEW p \in Clients, NEW r
    PROVE  Number(p, r) \in DOMAIN Parties
<1> DEFINE n == Len(Parties)
           T == {q \in Clients : KeyIndex[q] <= KeyIndex[p]}
<1>0. Parties \in Seq(Keys) /\ DistinctKeys(Parties) /\ n \in Nat
      /\ DOMAIN Parties = 1..n
  BY JobFacts
<1>1. IsFiniteSet(Clients) /\ Cardinality(Clients) = n
  BY ClientsFinite
<1>2. p \in T
  BY KeyIndexAssumption, JobFacts
<1>3. IsFiniteSet(T) /\ Cardinality(T) <= Cardinality(Clients)
  BY <1>1, FS_Subset
<1>4. /\ Cardinality(T) \in Nat /\ Cardinality(Clients) \in Nat
      /\ Cardinality(T) # 0
  BY <1>1, <1>2, <1>3, FS_CardinalityType, FS_EmptySet
<1>5. Cardinality(T) \in DOMAIN Parties
  <2> HIDE DEF T
  <2> QED
    BY <1>0, <1>1, <1>3, <1>4
<1>6. party_number(Parties, p) \in DOMAIN Parties
  BY <1>0, PartyNumberOfIndex DEF Clients
<1> QED
  BY <1>5, <1>6 DEF Number

LEMMA ReceiversFacts ==
    ASSUME job \in Jobs, NEW c \in Clients, NEW r
    PROVE  /\ recipients(Parties, c) \in Seq(Clients)
           /\ receivers(c, r) \in Seq(Clients)
<1>0. /\ Parties \in Seq(Keys) /\ DistinctKeys(Parties)
      /\ Len(Parties) \in Nat /\ Len(Parties) > 1 /\ DOMAIN Parties = 1..Len(Parties)
  BY JobFacts
<1>1. PICK p \in DOMAIN Parties : Parties[p] = c
  BY DEF Clients
<1> DEFINE others == recipients(Parties, c)
<1>2. others = [k \in 1..(Len(Parties) - 1) |->
                   IF k < p THEN Parties[k] ELSE Parties[k + 1]]
  BY <1>0, <1>1, RecipientsOfIndex
<1>3. \A k \in 1..(Len(Parties) - 1) :
          (IF k < p THEN Parties[k] ELSE Parties[k + 1]) \in Clients
  BY <1>0, <1>1 DEF Clients
<1>4. others \in Seq(Clients) /\ DOMAIN others = 1..(Len(Parties) - 1)
  BY <1>0, <1>2, <1>3
<1> HIDE DEF others
<1>5. \A k \in DOMAIN others : Parties[Number(others[k], r)] \in Clients
  BY <1>4, NumberFacts DEF Clients
<1>6. [i \in DOMAIN others |-> Parties[Number(others[i], r)]] \in Seq(Clients)
  BY <1>0, <1>4, <1>5
<1> QED
  BY <1>4, <1>6 DEF receivers, others

LEMMA ConnectionsTyped ==
    ASSUME job \in Jobs, NEW c
    PROVE  connections(Parties, c) \in Seq(Clients)
<1>0. /\ Parties \in Seq(Keys) /\ DistinctKeys(Parties) /\ Len(Parties) \in Nat
      /\ Parties \in Seq(Clients)
  <2>1. Parties \in Seq(Keys) /\ DistinctKeys(Parties) /\ Len(Parties) \in Nat
    BY JobFacts
  <2> QED
    BY <2>1 DEF Clients
<1> DEFINE n == party_number(Parties, c)
<1>1. n \in 0..Len(Parties)
  BY <1>0, PartyNumberRange
<1> HIDE DEF n
<1>2. SubSeq(Parties, n + 1, Len(Parties)) \in Seq(Clients)
  BY <1>0, <1>1
<1> QED
  BY <1>2 DEF connections, n

LEMMA TypeInit == Init => TypeInv
<1> SUFFICES ASSUME Init PROVE TypeInv
  OBVIOUS
<1>0. job \in Jobs /\ Len(Parties) \in Nat /\ Len(Parties) > 1
  BY JobFacts DEF Init
<1>1. RelayOK /\ ServerQueuesOK /\ ClientQueuesOK /\ HandlerOK
  BY DEF Init, RelayOK, ServerQueuesOK, ClientQueuesOK, HandlerOK
<1>2. PeersOK
  BY DEF Init, PeersOK
<1>3. RoundsOK
  BY <1>0, DriverFacts DEF Init, RoundsOK, NoRound, MaxRounds
<1>4. phase \in [Keys -> Phases] /\ created \subseteq Clients
  BY DEF Init, Phases
<1> QED
  BY <1>0, <1>1, <1>2, <1>3, <1>4 DEF TypeInv, ClientsOK

\* The queues after one more message, one fewer, or the next requests.
LEMMA SendTyped ==
    ASSUME TypeInv, NEW c \in Clients, NEW m \in Messages, Send(c, m),
           UNCHANGED job
    PROVE  ClientQueuesOK'
<1>1. c \in Keys /\ toClient[c] \in Seq(Messages)
  BY JobFacts DEF TypeInv, ClientQueuesOK
<1>2. Append(toClient[c], m) \in Seq(Messages)
  BY <1>1
<1>3. toClient' = [toClient EXCEPT ![c] = Append(toClient[c], m)]
  BY DEF Send
<1>4. toClient' \in [Keys -> Seq(Messages)]
      /\ \A d \in Keys \ Clients : toClient'[d] = <<>>
  BY <1>1, <1>2, <1>3 DEF TypeInv, ClientQueuesOK
<1> QED
  BY <1>4, SameTypes DEF ClientQueuesOK

LEMMA TakeTyped ==
    ASSUME TypeInv, NEW c \in Keys, NEW type, Incoming(c, type), UNCHANGED job
    PROVE  /\ ClientQueuesOK' /\ c \in Clients
           /\ Head(toClient[c]) \in Messages /\ Head(toClient[c]).type = type
<1>1. c \in Clients /\ toClient[c] \in Seq(Messages) /\ toClient[c] # <<>>
  BY DEF TypeInv, ClientQueuesOK, Incoming
<1>2. Tail(toClient[c]) \in Seq(Messages) /\ Head(toClient[c]) \in Messages
  BY <1>1
<1>3. toClient' = [toClient EXCEPT ![c] = Tail(toClient[c])]
  BY DEF Incoming
<1>4. toClient' \in [Keys -> Seq(Messages)]
      /\ \A d \in Keys \ Clients : toClient'[d] = <<>>
  BY <1>1, <1>2, <1>3 DEF TypeInv, ClientQueuesOK
<1> QED
  BY <1>1, <1>2, <1>4, SameTypes DEF ClientQueuesOK, Incoming

LEMMA RequestsTyped ==
    ASSUME TypeInv, NEW c \in Clients, NEW msgs \in Seq(Messages),
           Requests(c, msgs), UNCHANGED <<job, stage>>
    PROVE  ServerQueuesOK' /\ HandlerOK'
<1>1. c \in Keys /\ toServer[c] \in Seq(Messages)
  BY JobFacts DEF TypeInv, ServerQueuesOK
<1>2. toServer[c] \o msgs \in Seq(Messages)
  BY <1>1
<1>3. toServer' = [toServer EXCEPT ![c] = toServer[c] \o msgs]
  BY DEF Requests
<1>4. toServer' \in [Keys -> Seq(Messages)]
      /\ \A d \in Keys \ Clients : toServer'[d] = <<>>
  BY <1>1, <1>2, <1>3 DEF TypeInv, ServerQueuesOK
<1>5. ASSUME NEW d \in Keys, NEW type, Request(d, type) PROVE Request(d, type)'
  <2>1. CASE d = c
    <3>1. toServer[c] # <<>> /\ Head(toServer[c]).type = type
      BY <1>5, <2>1 DEF Request, First
    <3>2. toServer[c] \o msgs # <<>> /\ Head(toServer[c] \o msgs) = Head(toServer[c])
      BY <1>1, <3>1
    <3>3. toServer'[d] = toServer[c] \o msgs
      BY <1>1, <1>3, <2>1 DEF TypeInv, ServerQueuesOK
    <3> QED
      BY <2>1, <3>1, <3>2, <3>3 DEF Request, First
  <2>2. CASE d # c
    BY <1>3, <1>5, <2>2 DEF Request, First, TypeInv, ServerQueuesOK
  <2> QED
    BY <2>1, <2>2
<1>6. HandlerOK'
  BY <1>5 DEF TypeInv, HandlerOK
<1> QED
  BY <1>4, <1>6, SameTypes DEF ServerQueuesOK

LEMMA ReturnedTyped ==
    ASSUME TypeInv, NEW c \in Keys, toServer[c] # <<>>, Returned(c),
           UNCHANGED job,
           stage' = [stage EXCEPT ![c] = "start"]
    PROVE  ServerQueuesOK' /\ HandlerOK'
<1>1. toServer[c] \in Seq(Messages)
  BY DEF TypeInv, ServerQueuesOK
<1>2. Tail(toServer[c]) \in Seq(Messages)
  BY <1>1
<1>3. toServer' = [toServer EXCEPT ![c] = Tail(toServer[c])]
  BY DEF Returned
<1>4. toServer' \in [Keys -> Seq(Messages)]
      /\ \A d \in Keys \ Clients : toServer'[d] = <<>>
  BY <1>1, <1>2, <1>3 DEF TypeInv, ServerQueuesOK
<1>5. \A d \in Keys : /\ d = c => stage'[d] = "start"
                      /\ d # c => stage'[d] = stage[d] /\ toServer'[d] = toServer[d]
  BY <1>3 DEF TypeInv, RelayOK, ServerQueuesOK
<1>6. HandlerOK'
  BY <1>5 DEF TypeInv, HandlerOK, Request, First
<1> QED
  BY <1>4, <1>6, SameTypes DEF ServerQueuesOK

\* The request a handler is at.
LEMMA FirstTyped ==
    ASSUME TypeInv, NEW c \in Keys, toServer[c] # <<>>
    PROVE  c \in Clients /\ First(c) \in Messages
  BY DEF TypeInv, ServerQueuesOK, First

LEMMA StillTyped ==
    ASSUME TypeInv, UNCHANGED job
    PROVE  /\ UNCHANGED <<active, stage, waiter>> => RelayOK'
           /\ UNCHANGED toServer => ServerQueuesOK'
           /\ UNCHANGED toClient => ClientQueuesOK'
           /\ UNCHANGED <<toServer, stage>> => HandlerOK'
           /\ UNCHANGED peers => PeersOK'
           /\ UNCHANGED <<round, buffer>> => RoundsOK'
           /\ UNCHANGED clients => ClientsOK'
  BY SameTypes
     DEF TypeInv, RelayOK, ServerQueuesOK, ClientQueuesOK, HandlerOK,
         ClientsOK, PeersOK, RoundsOK, Request, First, clients

\* A handler returns, with or without an answer to somebody.
LEMMA HandlerReturns ==
    ASSUME TypeInv, NEW c \in Keys, toServer[c] # <<>>, Returned(c),
           UNCHANGED toClient \/ \E d \in Clients : \E m \in Messages : Send(d, m),
           stage' = [stage EXCEPT ![c] = "start"],
           UNCHANGED <<active, waiter, clients>>
    PROVE  TypeInv'
<1>0. UNCHANGED job
  BY DEF clients
<1>1. ServerQueuesOK' /\ HandlerOK'
  BY <1>0, ReturnedTyped
<1>2. ClientQueuesOK'
  BY <1>0, SendTyped, StillTyped
<1>3. RelayOK'
  BY <1>0, SameTypes DEF TypeInv, RelayOK
<1>4. ClientsOK'
  BY <1>0, StillTyped
<1> QED
  BY <1>0, <1>1, <1>2, <1>3, <1>4 DEF TypeInv

LEMMA ErrorAnswer ==
    ASSUME TypeInv, NEW c \in Clients, HandleError(c)
    PROVE  Returned(c) /\ \E d \in Clients : \E m \in Messages : Send(d, m)
<1>1. Word("Error") \in Messages
  BY WordMessage DEF TypeInv, MessageTypes
<1> QED
  BY <1>1 DEF HandleError

LEMMA RelayTyped ==
    ASSUME TypeInv, NEW c \in Clients, First(c) \in Messages,
           RelayTo(c, First(c).peer)
    PROVE  Returned(c) /\ \E d \in Clients : \E m \in Messages : Send(d, m)
<1> DEFINE p == First(c).peer
           m == [First(c) EXCEPT !.peer = c]
<1>1. p \in Clients /\ m \in Messages
  BY DEF Messages
<1>2. CASE p \in active
  BY <1>1, <1>2 DEF RelayTo
<1>3. CASE p \notin active
  BY <1>3, ErrorAnswer DEF RelayTo
<1> QED
  BY <1>2, <1>3

LEMMA TypeRelay ==
    ASSUME TypeInv, NEW c \in Keys, Connect(c) \/ Handle(c)
    PROVE  TypeInv'
<1>0. /\ UNCHANGED clients /\ UNCHANGED job /\ ClientsOK'
      /\ Owner' = Owner /\ Clients' = Clients /\ Messages' = Messages
  <2>1. UNCHANGED clients
    BY DEF Connect, Handle, NewSession, ReplySessionCreated,
         SessionConnection, PeerHandshake, Touch, RelayRound, CloseSession,
         RemoveSession, ReplySessionFinished
  <2>2. UNCHANGED job
    BY <2>1 DEF clients
  <2> QED
    BY <2>1, <2>2, StillTyped, SameTypes
<1>1. ASSUME stage[c] = "start" PROVE stage = [stage EXCEPT ![c] = "start"]
  BY <1>1 DEF TypeInv, RelayOK
<1>2. CASE Connect(c)
  <2>1. /\ c \in Clients /\ active' = active \cup {c}
        /\ UNCHANGED <<waiter, stage, toClient>>
    BY <1>2 DEF Connect
  <2>2. RelayOK' /\ ClientQueuesOK'
    BY <1>0, <2>1, StillTyped DEF TypeInv, RelayOK
  <2>3. PICK msgs \in Seq(Messages) : Requests(c, msgs)
    <3>1. Word("NewSession") \in Messages
      BY WordMessage DEF TypeInv, MessageTypes
    <3>2. <<Word("NewSession")>> \in Seq(Messages) /\ <<>> \in Seq(Messages)
      BY <3>1
    <3>3. toServer[c] \in Seq(Messages)
      BY DEF TypeInv, ServerQueuesOK
    <3>4. Append(toServer[c], Word("NewSession")) = toServer[c] \o <<Word("NewSession")>>
          /\ toServer[c] = toServer[c] \o <<>>
      BY <3>1, <3>3
    <3>5. \/ toServer' = [toServer EXCEPT ![c] = toServer[c] \o <<Word("NewSession")>>]
          \/ toServer' = [toServer EXCEPT ![c] = toServer[c] \o <<>>]
      BY <1>2, <3>4 DEF Connect
    <3> QED
      BY <3>2, <3>5 DEF Requests
  <2>4. ServerQueuesOK' /\ HandlerOK'
    BY <1>0, <2>1, <2>3, RequestsTyped
  <2> QED
    BY <1>0, <2>2, <2>4 DEF TypeInv
<1>3. CASE NewSession(c)
  <2>1. /\ UNCHANGED <<active, toServer, toClient>> /\ Request(c, "NewSession")
        /\ waiter' = [waiter EXCEPT !.pc = "poll"]
        /\ stage' = [stage EXCEPT ![c] = "created"]
    BY <1>3 DEF NewSession
  <2>2. RelayOK'
    BY <1>0, <2>1 DEF TypeInv, RelayOK
  <2>3. HandlerOK'
    BY <2>1 DEF TypeInv, HandlerOK, RelayOK, Request, First
  <2>4. ServerQueuesOK' /\ ClientQueuesOK'
    BY <1>0, <2>1, StillTyped
  <2> QED
    BY <1>0, <2>2, <2>3, <2>4 DEF TypeInv
<1>4. CASE ReplySessionCreated(c)
  <2>1. Word("SessionCreated") \in Messages
    BY WordMessage DEF TypeInv, MessageTypes
  <2>2. toServer[c] # <<>> /\ c \in Clients
    BY <1>4, FirstTyped DEF ReplySessionCreated, TypeInv, HandlerOK, Request
  <2> QED
    BY <1>4, <2>1, <2>2, HandlerReturns DEF ReplySessionCreated
<1>5. CASE SessionConnection(c)
  <2>1. toServer[c] # <<>> /\ c \in Clients /\ stage[c] = "start"
    <3>1. toServer[c] # <<>> /\ First(c).type = "SessionConnection"
      BY <1>5 DEF SessionConnection, Request
    <3>2. stage[c] = "start"
      BY <3>1 DEF TypeInv, HandlerOK, RelayOK, Request
    <3> QED
      BY <3>1, <3>2, FirstTyped
  <2>2. /\ Returned(c)
        /\ UNCHANGED toClient \/ \E d \in Clients : \E m \in Messages : Send(d, m)
    BY <1>5, <2>1, ErrorAnswer DEF SessionConnection
  <2>3. UNCHANGED <<active, waiter, clients>> /\ stage' = stage
    BY <1>5 DEF SessionConnection
  <2> QED
    BY <1>1, <2>1, <2>2, <2>3, HandlerReturns
<1>6. CASE PeerHandshake(c)
  <2>1. /\ toServer[c] # <<>> /\ c \in Clients /\ First(c) \in Messages
        /\ stage[c] = "start"
    <3>1. toServer[c] # <<>> /\ First(c).type \in {"Initiator", "Responder"}
      BY <1>6 DEF PeerHandshake, Request
    <3>2. stage[c] = "start"
      BY <3>1 DEF TypeInv, HandlerOK, RelayOK, Request
    <3> QED
      BY <3>1, <3>2, FirstTyped
  <2>2. Returned(c) /\ \E d \in Clients : \E m \in Messages : Send(d, m)
    BY <1>6, <2>1, RelayTyped DEF PeerHandshake
  <2>3. UNCHANGED <<active, waiter, clients>> /\ stage' = stage
    BY <1>6 DEF PeerHandshake, relay
  <2> QED
    BY <1>1, <2>1, <2>2, <2>3, HandlerReturns
<1>7. ASSUME toServer[c] # <<>>, c \in Clients, stage[c] = "start",
             HandleError(c), stage' = stage, UNCHANGED <<active, waiter>>
      PROVE  TypeInv'
  <2>1. Returned(c) /\ \E d \in Clients : \E m \in Messages : Send(d, m)
    BY <1>7, ErrorAnswer
  <2> QED
    BY <1>0, <1>1, <1>7, <2>1, HandlerReturns
<1>8. CASE Touch(c)
  <2>1. /\ toServer[c] # <<>> /\ c \in Clients /\ stage[c] = "start"
        /\ Request(c, "Round") /\ UNCHANGED <<active, waiter>>
    BY <1>8, FirstTyped DEF Touch, Request
  <2>2. CASE HandleError(c) /\ UNCHANGED stage
    BY <1>7, <2>1, <2>2
  <2>3. CASE stage' = [stage EXCEPT ![c] = "relay"] /\ UNCHANGED <<toServer, toClient>>
    <3>1. RelayOK'
      BY <1>0, <2>1, <2>3 DEF TypeInv, RelayOK
    <3>2. HandlerOK'
      BY <2>1, <2>3 DEF TypeInv, HandlerOK, RelayOK, Request, First
    <3>3. ServerQueuesOK' /\ ClientQueuesOK'
      BY <1>0, <2>3, StillTyped
    <3> QED
      BY <1>0, <3>1, <3>2, <3>3 DEF TypeInv
  <2> QED
    BY <1>8, <2>2, <2>3 DEF Touch
<1>9. CASE RelayRound(c)
  <2>1. toServer[c] # <<>> /\ c \in Clients /\ First(c) \in Messages
    BY <1>9, FirstTyped DEF RelayRound, TypeInv, HandlerOK, Request
  <2>2. Returned(c) /\ \E d \in Clients : \E m \in Messages : Send(d, m)
    BY <1>9, <2>1, RelayTyped DEF RelayRound
  <2> QED
    BY <1>9, <2>1, <2>2, HandlerReturns DEF RelayRound
<1>10. CASE CloseSession(c)
  <2>1. /\ toServer[c] # <<>> /\ c \in Clients /\ stage[c] = "start"
        /\ Request(c, "CloseSession") /\ UNCHANGED <<active, waiter>>
    BY <1>10, FirstTyped DEF CloseSession, Request
  <2>2. CASE HandleError(c) /\ UNCHANGED stage
    BY <1>7, <2>1, <2>2
  <2>3. CASE stage' = [stage EXCEPT ![c] = "close"] /\ UNCHANGED <<toServer, toClient>>
    <3>1. RelayOK'
      BY <1>0, <2>1, <2>3 DEF TypeInv, RelayOK
    <3>2. HandlerOK'
      BY <2>1, <2>3 DEF TypeInv, HandlerOK, RelayOK, Request, First
    <3>3. ServerQueuesOK' /\ ClientQueuesOK'
      BY <1>0, <2>3, StillTyped
    <3> QED
      BY <1>0, <3>1, <3>2, <3>3 DEF TypeInv
  <2> QED
    BY <1>10, <2>2, <2>3 DEF CloseSession
<1>11. CASE RemoveSession(c)
  <2>1. /\ stage[c] = "close" /\ stage' = [stage EXCEPT ![c] = "finished"]
        /\ UNCHANGED <<active, waiter, toServer, toClient>>
    BY <1>11 DEF RemoveSession
  <2>2. RelayOK'
    BY <1>0, <2>1 DEF TypeInv, RelayOK
  <2>3. HandlerOK'
    BY <2>1 DEF TypeInv, HandlerOK, RelayOK, Request, First
  <2>4. ServerQueuesOK' /\ ClientQueuesOK'
    BY <1>0, <2>1, StillTyped
  <2> QED
    BY <1>0, <2>2, <2>3, <2>4 DEF TypeInv
<1>12. CASE ReplySessionFinished(c)
  <2>1. Word("SessionFinished") \in Messages
    BY WordMessage DEF TypeInv, MessageTypes
  <2>2. toServer[c] # <<>> /\ c \in Clients
    BY <1>12, FirstTyped DEF ReplySessionFinished, TypeInv, HandlerOK, Request
  <2> QED
    BY <1>12, <2>1, <2>2, HandlerReturns DEF ReplySessionFinished
<1> QED
  BY <1>2, <1>3, <1>4, <1>5, <1>6, <1>8, <1>9, <1>10, <1>11, <1>12 DEF Handle

LEMMA TypeWaiter ==
    ASSUME TypeInv, Waiter
    PROVE  TypeInv'
<1>0. /\ UNCHANGED <<active, stage, toServer, clients, job>>
      /\ ClientsOK' /\ ServerQueuesOK' /\ HandlerOK' /\ Clients' = Clients
  <2>1. UNCHANGED <<active, stage, toServer, clients>>
    BY DEF Waiter, Poll, NotifyPeers, NotifyPeer, NotifyReturn
  <2>2. UNCHANGED job
    BY <2>1 DEF clients
  <2> QED
    BY <2>1, <2>2, StillTyped, SameTypes
<1>1. RelayOK'
  <2> DEFINE W == [pc : {"unborn", "poll", "found", "notify", "done"},
                   msg : {"SessionReady", "SessionActive"}, next : Nat \ {0}]
  <2>0. waiter \in W
    BY DEF TypeInv, RelayOK
  <2>1. waiter' \in W
    <3>1. CASE Poll
      BY <2>0, <3>1 DEF Poll
    <3>2. CASE NotifyPeers
      <4>1. waiter' = [pc |-> "notify", msg |-> waiter.msg, next |-> 1]
        BY <2>0, <3>2 DEF NotifyPeers
      <4> QED
        BY <2>0, <4>1
    <3>3. CASE NotifyPeer
      BY <2>0, <3>3 DEF NotifyPeer
    <3>4. CASE NotifyReturn
      <4>1. \/ waiter' = [pc |-> "poll", msg |-> "SessionActive", next |-> waiter.next]
            \/ waiter' = [waiter EXCEPT !.pc = "done"]
        BY <2>0, <3>4 DEF NotifyReturn
      <4> QED
        BY <2>0, <4>1
    <3> QED
      BY <3>1, <3>2, <3>3, <3>4 DEF Waiter
  <2> QED
    BY <1>0, <2>1 DEF TypeInv, RelayOK
<1>2. CASE UNCHANGED toClient
  BY <1>0, <1>1, <1>2, StillTyped DEF TypeInv
<1>3. CASE NotifyPeer
  <2>1. waiter.next \in DOMAIN Parties
    BY <1>3, JobFacts DEF NotifyPeer, TypeInv, RelayOK
  <2>2. Parties[waiter.next] \in Clients
    BY <2>1 DEF Clients
  <2>3. Word(waiter.msg) \in Messages
    BY WordMessage DEF TypeInv, RelayOK, MessageTypes
  <2>4. ClientQueuesOK'
    BY <1>0, <1>3, <2>2, <2>3, SendTyped DEF NotifyPeer
  <2> QED
    BY <1>0, <1>1, <2>4 DEF TypeInv
<1> QED
  BY <1>2, <1>3 DEF Waiter, Poll, NotifyPeers, NotifyReturn

-----------------------------------------------------------------------------
(* Types: the clients                                                      *)

LEMMA FailTyped ==
    ASSUME TypeInv, NEW c \in Keys, Fail(c)
    PROVE  phase' \in [Keys -> Phases]
  BY DEF TypeInv, ClientsOK, Fail, Phases

\* What is sent for a round goes to participants.
LEMMA DispatchTyped ==
    ASSUME TypeInv, NEW c \in Clients, NEW r \in Rounds, Dispatch(c, r),
           UNCHANGED <<job, stage>>
    PROVE  /\ ServerQueuesOK' /\ HandlerOK'
           /\ phase' \in [Keys -> Phases]
           /\ round' \in [Keys -> [driver : 0..Len(Drivers), number : 0..MaxRounds]]
           /\ \A d \in Keys : round'[d].driver > 0 => round'[d] \in Rounds
<1> DEFINE to == receivers(c, r)
           msgs == [i \in DOMAIN to |-> Msg("Round", to[i], r)]
<1>0. c \in Keys
  BY JobFacts DEF TypeInv
<1>1. to \in Seq(Clients)
  BY ReceiversFacts DEF TypeInv
<1>2. CASE Fail(c) /\ UNCHANGED <<toServer, round>>
  BY <1>0, <1>2, FailTyped, StillTyped DEF TypeInv, ClientsOK, RoundsOK
<1>3. CASE /\ round' = [round EXCEPT ![c] = r]
           /\ Requests(c, msgs)
           /\ phase' = [phase EXCEPT ![c] = "running"]
  <2>1. \A i \in DOMAIN to : Msg("Round", to[i], r) \in Messages
    <3> SUFFICES ASSUME NEW i \in DOMAIN to
                 PROVE  Msg("Round", to[i], r) \in Messages
      OBVIOUS
    <3>1. to[i] \in Clients
      BY <1>1
    <3> HIDE DEF to
    <3> QED
      BY <3>1 DEF Msg, Messages, MessageTypes
  <2>2. msgs \in Seq(Messages)
    <3> HIDE DEF to
    <3> QED
      BY <1>1, <2>1
  <2>3. ServerQueuesOK' /\ HandlerOK'
    BY <1>3, <2>2, RequestsTyped
  <2>4. r \in [driver : 0..Len(Drivers), number : 0..MaxRounds]
    <3>1. r.driver \in 1..Len(Drivers) /\ r.number \in 1..MaxRounds
          /\ r = [driver |-> r.driver, number |-> r.number]
      BY DEF Rounds
    <3> QED
      BY <3>1, DriverFacts DEF TypeInv, MaxRounds
  <2>5. /\ round' \in [Keys -> [driver : 0..Len(Drivers), number : 0..MaxRounds]]
        /\ \A d \in Keys : round'[d].driver > 0 => round'[d] \in Rounds
    BY <1>0, <1>3, <2>4 DEF TypeInv, ClientsOK, RoundsOK
  <2>6. phase' \in [Keys -> Phases]
    BY <1>0, <1>3 DEF TypeInv, ClientsOK, Phases
  <2> QED
    BY <2>3, <2>5, <2>6
<1> QED
  BY <1>2, <1>3 DEF Dispatch

LEMMA StartTyped ==
    ASSUME TypeInv, NEW c \in Clients, NEW d \in 1..Len(Drivers),
           StartDriver(c, d), UNCHANGED <<job, stage>>
    PROVE  ServerQueuesOK' /\ HandlerOK' /\ phase' \in [Keys -> Phases] /\ RoundsOK'
<1>0. c \in Keys /\ Len(Parties) \in Nat /\ Len(Parties) > 1
  BY JobFacts DEF TypeInv
<1>1. [driver |-> d, number |-> 1] \in Rounds
  <2>1. Drivers[d] \in 1..MaxRounds
    BY DriverFacts DEF TypeInv
  <2> QED
    BY <2>1 DEF Rounds, MaxRounds
<1>2. buffer' \in [Keys -> [1..MaxRounds -> 0..(Len(Parties) - 2)]]
  BY <1>0 DEF TypeInv, ClientsOK, RoundsOK, StartDriver
<1> QED
  BY <1>1, <1>2, DispatchTyped, SameTypes DEF StartDriver, RoundsOK

LEMMA RoundTyped ==
    ASSUME TypeInv, NEW c \in Clients, NEW r \in Rounds, HandleEvent(c, r),
           UNCHANGED <<job, stage>>
    PROVE  ServerQueuesOK' /\ HandlerOK' /\ phase' \in [Keys -> Phases] /\ RoundsOK'
<1> DEFINE B == [1..MaxRounds -> 0..(Len(Parties) - 2)]
           messages == buffer[c][r.number] + 1
<1>0. /\ c \in Keys /\ Len(Parties) \in Nat /\ Len(Parties) > 1
      /\ buffer \in [Keys -> B]
      /\ r.number \in 1..MaxRounds /\ r.driver \in 1..Len(Drivers)
      /\ r = [driver |-> r.driver, number |-> r.number]
      /\ Len(Drivers) \in Nat /\ Drivers[r.driver] \in 1..MaxRounds
  <2>1. c \in Keys /\ Len(Parties) \in Nat /\ Len(Parties) > 1
    BY JobFacts DEF TypeInv
  <2>2. buffer \in [Keys -> B]
    BY DEF TypeInv, ClientsOK, RoundsOK
  <2>3. /\ r.number \in 1..MaxRounds /\ r.driver \in 1..Len(Drivers)
        /\ r = [driver |-> r.driver, number |-> r.number]
    BY DEF Rounds
  <2>4. Len(Drivers) \in Nat /\ Drivers[r.driver] \in 1..MaxRounds
    BY <2>3, DriverFacts DEF TypeInv
  <2> QED
    BY <2>1, <2>2, <2>3, <2>4
<1>1. ASSUME UNCHANGED <<toServer, round>>, Fail(c) \/ UNCHANGED phase,
             buffer' \in [Keys -> B]
      PROVE  ServerQueuesOK' /\ HandlerOK' /\ phase' \in [Keys -> Phases] /\ RoundsOK'
  <2>1. ServerQueuesOK' /\ HandlerOK'
    BY <1>1, StillTyped
  <2>2. phase' \in [Keys -> Phases]
    BY <1>0, <1>1, FailTyped DEF TypeInv, ClientsOK
  <2>3. RoundsOK'
    BY <1>1, SameTypes DEF TypeInv, ClientsOK, RoundsOK
  <2> QED
    BY <2>1, <2>2, <2>3
<1>2. CASE r.driver # round[c].driver
  <2>1. Fail(c) /\ UNCHANGED <<toServer, round, buffer>>
    BY <1>2 DEF HandleEvent
  <2>2. buffer' \in [Keys -> B]
    BY <1>0, <2>1
  <2> QED
    BY <1>1, <2>1, <2>2
<1>3. CASE r.driver = round[c].driver /\ ~is_ready(messages)
  <2>1. messages # Len(Parties) - 1
    <3>1. /\ job.op \in {"keygen", "sign"} /\ job.threshold \in Nat
          /\ job.op = "sign" => Len(Parties) = job.threshold + 1
      BY SessionRunAssumption DEF TypeInv, Parties
    <3> HIDE DEF messages
    <3>2. CASE job.op = "keygen"
      BY <1>3, <3>2 DEF is_ready
    <3>3. CASE job.op = "sign"
      <4>1. job.op # "keygen" /\ messages # job.threshold
        BY <1>3, <3>3 DEF is_ready
      <4>2. Len(Parties) - 1 = job.threshold
        BY <3>1, <3>3
      <4> QED
        BY <4>1, <4>2
    <3> QED
      BY <3>1, <3>2, <3>3
  <2>2. messages \in 0..(Len(Parties) - 2)
    <3>1. buffer[c][r.number] \in 0..(Len(Parties) - 2)
      BY <1>0
    <3> QED
      BY <1>0, <2>1, <3>1
  <2>3. /\ buffer' = [buffer EXCEPT ![c][r.number] = messages]
        /\ UNCHANGED <<toServer, phase, round>>
    BY <1>3 DEF HandleEvent
  <2>4. buffer' \in [Keys -> B]
    <3> HIDE DEF messages
    <3> QED
      BY <1>0, <2>2, <2>3
  <2> QED
    BY <1>1, <2>3, <2>4
<1>4. CASE r.driver = round[c].driver /\ is_ready(messages)
  <2>0. Proceed(c, r)
    BY <1>4 DEF HandleEvent
  <2>1. ASSUME buffer' = [buffer EXCEPT ![c][r.number] = 0]
        PROVE  buffer' \in [Keys -> B]
    BY <1>0, <2>1
  <2>2. CASE r.number # round[c].number
    BY <1>1, <2>0, <2>1, <2>2 DEF Proceed
  <2>3. CASE /\ r.number < Drivers[r.driver]
             /\ buffer' = [buffer EXCEPT ![c][r.number] = 0]
             /\ Dispatch(c, [r EXCEPT !.number = @ + 1])
    <3>1. [r EXCEPT !.number = @ + 1] = [driver |-> r.driver, number |-> r.number + 1]
      BY <1>0
    <3>2. [driver |-> r.driver, number |-> r.number + 1] \in Rounds
      BY <1>0, <2>3 DEF Rounds, MaxRounds
    <3>3. [r EXCEPT !.number = @ + 1] \in Rounds
      BY <3>1, <3>2
    <3> QED
      BY <2>1, <2>3, <3>3, DispatchTyped, SameTypes DEF RoundsOK
  <2>4. CASE r.driver < Len(Drivers) /\ StartDriver(c, r.driver + 1)
    <3>1. r.driver + 1 \in 1..Len(Drivers)
      BY <1>0, <2>4
    <3> QED
      BY <2>4, <3>1, StartTyped
  <2>5. CASE /\ buffer' = [buffer EXCEPT ![c][r.number] = 0]
             /\ Finish(c) /\ UNCHANGED round
    <3>1. RoundsOK'
      BY <2>1, <2>5, SameTypes DEF TypeInv, ClientsOK, RoundsOK
    <3>2. phase' \in [Keys -> Phases]
      BY <1>0, <2>5 DEF Finish, TypeInv, ClientsOK, Phases
    <3>3. ServerQueuesOK' /\ HandlerOK'
      <4>1. Word("CloseSession") \in Messages
        BY WordMessage DEF TypeInv, MessageTypes
      <4>2. <<Word("CloseSession")>> \in Seq(Messages)
        BY <4>1
      <4> QED
        BY <2>5, <4>2, RequestsTyped, StillTyped DEF Finish
    <3> QED
      BY <3>1, <3>2, <3>3
  <2> QED
    BY <2>0, <2>2, <2>3, <2>4, <2>5 DEF Proceed
<1> QED
  BY <1>2, <1>3, <1>4

LEMMA RegisterTyped ==
    ASSUME TypeInv, NEW c, NEW p \in Clients
    PROVE  RegisterConnection(c, p) \in Seq(Messages)
<1>1. Msg("SessionConnection", p, NoRound) \in Messages
  BY DEF Msg, Messages, MessageTypes
<1>2. <<Msg("SessionConnection", p, NoRound)>> \in Seq(Messages) /\ <<>> \in Seq(Messages)
  BY <1>1
<1> QED
  BY <1>2 DEF RegisterConnection

LEMMA TypeClient ==
    ASSUME TypeInv, NEW c \in Keys, Client(c)
    PROVE  TypeInv'
<1>0. /\ UNCHANGED <<job, active, waiter, stage>> /\ RelayOK'
      /\ Clients' = Clients
  <2>1. UNCHANGED <<job, active, waiter, stage>>
    BY DEF Client, OnSessionCreated, OnSessionReady, OnSessionActive,
         OnInitiator, OnResponder, OnRound, OnSessionFinished, OnError, Close,
         relay
  <2> QED
    BY <2>1, StillTyped, SameTypes
<1>1. ASSUME NEW type, Incoming(c, type)
      PROVE  /\ ClientQueuesOK' /\ c \in Clients
             /\ Head(toClient[c]) \in Messages /\ Head(toClient[c]).type = type
  BY <1>0, <1>1, TakeTyped
<1>2. ASSUME NEW type, Incoming(c, type), UNCHANGED <<toServer, round, buffer>>,
             phase' \in [Keys -> Phases], created' \subseteq Clients, PeersOK'
      PROVE  TypeInv'
  <2>1. ServerQueuesOK' /\ HandlerOK' /\ RoundsOK'
    BY <1>0, <1>2, StillTyped
  <2> QED
    BY <1>0, <1>1, <1>2, <2>1 DEF TypeInv, ClientsOK
<1>3. ASSUME NEW type, Incoming(c, type), UNCHANGED <<round, buffer>>,
             NEW msgs \in Seq(Messages), Requests(c, msgs),
             phase' \in [Keys -> Phases], created' \subseteq Clients, PeersOK'
      PROVE  TypeInv'
  <2>1. ServerQueuesOK' /\ HandlerOK' /\ RoundsOK'
    BY <1>0, <1>1, <1>3, StillTyped, RequestsTyped
  <2> QED
    BY <1>0, <1>1, <1>3, <2>1 DEF TypeInv, ClientsOK
<1>4. phase \in [Keys -> Phases] /\ created \subseteq Clients /\ PeersOK
  BY DEF TypeInv, ClientsOK
<1>5. UNCHANGED peers => PeersOK'
  BY <1>0, StillTyped
<1>6. Fail(c) => phase' \in [Keys -> Phases]
  BY FailTyped
<1>7. CASE OnSessionCreated(c)
  <2>1. Incoming(c, "SessionCreated") /\ created' = created \cup {c}
        /\ UNCHANGED <<toServer, phase, peers, round, buffer>>
    BY <1>7 DEF OnSessionCreated
  <2>2. c \in Clients
    BY <1>1, <2>1
  <2> QED
    BY <1>2, <1>4, <1>5, <2>1, <2>2
<1>8. CASE OnSessionReady(c)
  <2> DEFINE mine == connections(Parties, c)
             msgs == [i \in DOMAIN mine |-> Msg("Initiator", mine[i], NoRound)]
  <2>0. Incoming(c, "SessionReady") /\ UNCHANGED <<round, buffer>>
        /\ created' \subseteq created \cup {c}
    BY <1>8 DEF OnSessionReady
  <2>1. c \in Clients /\ created' \subseteq Clients
    BY <1>1, <1>4, <2>0
  <2>2. CASE Fail(c) /\ UNCHANGED <<toServer, peers>>
    BY <1>2, <1>5, <1>6, <2>0, <2>1, <2>2
  <2>3. CASE Dial(c) /\ UNCHANGED phase
    <3>1. mine \in Seq(Clients)
      BY <2>1, ConnectionsTyped DEF TypeInv
    <3>2. \A i \in DOMAIN mine : Msg("Initiator", mine[i], NoRound) \in Messages
      <4> SUFFICES ASSUME NEW i \in DOMAIN mine
                   PROVE  Msg("Initiator", mine[i], NoRound) \in Messages
        OBVIOUS
      <4>1. mine[i] \in Clients
        BY <3>1
      <4> HIDE DEF mine
      <4> QED
        BY <4>1 DEF Msg, Messages, MessageTypes, PeerSays
    <3>3. msgs \in Seq(Messages)
      <4> HIDE DEF mine
      <4> QED
        BY <3>1, <3>2
    <3>4. Requests(c, msgs)
      BY <2>3 DEF Dial
    <3>5. PeersOK'
      BY <1>4, <2>3 DEF Dial, PeersOK
    <3> QED
      BY <1>3, <1>4, <2>0, <2>1, <2>3, <3>3, <3>4, <3>5
  <2> QED
    BY <1>8, <2>2, <2>3 DEF OnSessionReady
<1>9. CASE OnSessionActive(c)
  <2>1. /\ Incoming(c, "SessionActive") /\ StartDriver(c, 1)
        /\ UNCHANGED <<created, peers>>
    BY <1>9 DEF OnSessionActive
  <2>2. 1 \in 1..Len(Drivers)
    BY DriverFacts DEF TypeInv
  <2>3. ServerQueuesOK' /\ HandlerOK' /\ phase' \in [Keys -> Phases] /\ RoundsOK'
    BY <1>0, <1>1, <2>1, <2>2, StartTyped
  <2> QED
    BY <1>0, <1>1, <1>4, <1>5, <2>1, <2>3 DEF TypeInv, ClientsOK
<1>10. ASSUME NEW p \in Clients, NEW status \in {"none", "transport"},
              peers' = [peers EXCEPT ![c][p] = status]
       PROVE  PeersOK'
  BY <1>4, <1>10 DEF PeersOK
<1>11. PeerConnected(c) => phase' \in [Keys -> Phases]
  BY <1>4 DEF PeerConnected, Phases
<1>12. CASE OnInitiator(c)
  <2> DEFINE p == Head(toClient[c]).peer
             msgs == <<Msg("Responder", p, NoRound)>> \o RegisterConnection(c, p)
  <2>0. Incoming(c, "Initiator") /\ UNCHANGED <<created, round, buffer>>
    BY <1>12 DEF OnInitiator
  <2>1. p \in Clients
    BY <1>1, <2>0 DEF Messages
  <2>2. CASE Fail(c) /\ UNCHANGED <<toServer, peers>>
    BY <1>2, <1>4, <1>5, <1>6, <2>0, <2>2
  <2>3. CASE /\ peers' = [peers EXCEPT ![c][p] = "transport"]
             /\ Requests(c, msgs) /\ PeerConnected(c)
    <3>1. Msg("Responder", p, NoRound) \in Messages
      BY <2>1 DEF Msg, Messages, MessageTypes, PeerSays
    <3>2. msgs \in Seq(Messages)
      BY <2>1, <3>1, RegisterTyped
    <3> QED
      BY <1>3, <1>4, <1>10, <1>11, <2>0, <2>1, <2>3, <3>2
  <2> QED
    BY <1>12, <2>2, <2>3 DEF OnInitiator
<1>13. CASE OnResponder(c)
  <2> DEFINE p == Head(toClient[c]).peer
  <2>0. Incoming(c, "Responder") /\ UNCHANGED <<created, round, buffer>>
    BY <1>13 DEF OnResponder
  <2>1. p \in Clients
    BY <1>1, <2>0 DEF Messages
  <2>2. CASE Fail(c) /\ UNCHANGED toServer /\ peers' = [peers EXCEPT ![c][p] = "none"]
    BY <1>2, <1>4, <1>6, <1>10, <2>0, <2>1, <2>2
  <2>3. CASE /\ peers' = [peers EXCEPT ![c][p] = "transport"]
             /\ Requests(c, RegisterConnection(c, p)) /\ PeerConnected(c)
    <3>1. RegisterConnection(c, p) \in Seq(Messages)
      BY <2>1, RegisterTyped
    <3> QED
      BY <1>3, <1>4, <1>10, <1>11, <2>0, <2>1, <2>3, <3>1
  <2> QED
    BY <1>13, <2>2, <2>3 DEF OnResponder
<1>14. CASE OnRound(c)
  <2> DEFINE m == Head(toClient[c])
  <2>0. Incoming(c, "Round") /\ UNCHANGED <<created, peers>>
    BY <1>14 DEF OnRound
  <2>1. m.round \in Rounds /\ c \in Clients
    BY <1>1, <2>0 DEF Messages
  <2>2. CASE Fail(c) /\ UNCHANGED <<toServer, round, buffer>>
    BY <1>2, <1>4, <1>5, <1>6, <2>0, <2>2
  <2>3. CASE UNCHANGED <<toServer, phase, round, buffer>>
    BY <1>2, <1>4, <1>5, <2>0, <2>3
  <2>4. CASE HandleEvent(c, m.round)
    <3>1. ServerQueuesOK' /\ HandlerOK' /\ phase' \in [Keys -> Phases] /\ RoundsOK'
      BY <1>0, <2>1, <2>4, RoundTyped
    <3> QED
      BY <1>0, <1>1, <1>4, <1>5, <2>0, <3>1 DEF TypeInv, ClientsOK
  <2> QED
    BY <1>14, <2>2, <2>3, <2>4 DEF OnRound
<1>15. CASE OnSessionFinished(c)
  <2>1. phase' \in [Keys -> Phases]
    BY <1>4, <1>15 DEF OnSessionFinished, Phases
  <2> QED
    BY <1>2, <1>4, <1>5, <1>15, <2>1 DEF OnSessionFinished
<1>16. CASE OnError(c)
  BY <1>2, <1>4, <1>5, <1>6, <1>16 DEF OnError
<1>17. CASE Close(c)
  <2>1. phase' \in [Keys -> Phases]
    BY <1>4, <1>17 DEF Close, Phases
  <2>2. UNCHANGED <<toServer, toClient, created, peers, round, buffer>>
    BY <1>17 DEF Close
  <2>3. ServerQueuesOK' /\ ClientQueuesOK' /\ HandlerOK' /\ RoundsOK'
    BY <1>0, <2>2, StillTyped
  <2> QED
    BY <1>0, <1>4, <1>5, <2>1, <2>2, <2>3 DEF TypeInv, ClientsOK
<1> QED
  BY <1>7, <1>8, <1>9, <1>12, <1>13, <1>14, <1>15, <1>16, <1>17 DEF Client

LEMMA TypeNext == TypeInv /\ [Next]_vars => TypeInv'
<1> SUFFICES ASSUME TypeInv, [Next]_vars PROVE TypeInv'
  OBVIOUS
<1>1. CASE UNCHANGED vars
  <2>1. UNCHANGED <<relay, toServer, toClient, clients>>
    BY <1>1 DEF vars
  <2>2. UNCHANGED <<job, active, waiter, stage, toServer, toClient, clients>>
    BY <2>1 DEF relay
  <2> QED
    BY <2>2, StillTyped DEF TypeInv
<1> QED
  BY <1>1, TypeRelay, TypeWaiter, TypeClient DEF Next

\* The variables have their types.  That a round of the buffer never holds as
\* many messages as make it ready, and that round numbers stay within those
\* of the driver, takes what is on its way: every round message carries a
\* round of one of the drivers.
THEOREM TypeCorrect == Spec => []TypeOK
  BY TypeInit, TypeNext, TypeInvImplies, PTL DEF Spec

-----------------------------------------------------------------------------
(* What is on its way between two clients                                  *)

Has(q, m) == \E n \in DOMAIN q : q[n] = m

Once(q, m) == \A k, n \in DOMAIN q : q[k] = m /\ q[n] = m => k = n

\* The types of message that a client sends to another one.
Carried == PeerSays \cup {"Round"}

\* A message from c to p is in the queue of requests of c, or the relay has
\* passed it on.
OnWay(type, r, c, p) ==
    Has(toServer[c], Msg(type, p, r)) \/ Has(toClient[p], Msg(type, c, r))

Single(type, r, c, p) ==
    /\ Once(toServer[c], Msg(type, p, r)) /\ Once(toClient[p], Msg(type, c, r))
    /\ ~(Has(toServer[c], Msg(type, p, r)) /\ Has(toClient[p], Msg(type, c, r)))

\* A step puts nothing new on the way.
NoneAdded(type, r, c, p) ==
    /\ OnWay(type, r, c, p)' => OnWay(type, r, c, p)
    /\ Single(type, r, c, p) => Single(type, r, c, p)'

LEMMA QueueTail ==
    ASSUME NEW S, NEW q \in Seq(S), q # <<>>, NEW m
    PROVE  /\ Has(Tail(q), m) => Has(q, m)
           /\ Has(q, m) => Head(q) = m \/ Has(Tail(q), m)
           /\ Head(q) = m => Has(q, m)
           /\ Once(q, m) => Once(Tail(q), m)
           /\ Once(q, m) /\ Head(q) = m => ~Has(Tail(q), m)
<1>1. /\ Len(q) \in Nat /\ Len(q) >= 1 /\ DOMAIN q = 1..Len(q)
      /\ DOMAIN Tail(q) = 1..(Len(q) - 1)
      /\ \A n \in 1..(Len(q) - 1) : n + 1 \in DOMAIN q /\ Tail(q)[n] = q[n + 1]
      /\ Head(q) = q[1] /\ 1 \in DOMAIN q
  OBVIOUS
<1>2. \A n \in DOMAIN q : n = 1 \/ (n - 1 \in DOMAIN Tail(q) /\ Tail(q)[n - 1] = q[n])
  BY <1>1
<1>3. Has(Tail(q), m) => Has(q, m)
  BY <1>1 DEF Has
<1>4. Has(q, m) => Head(q) = m \/ Has(Tail(q), m)
  BY <1>1, <1>2 DEF Has
<1>5. Head(q) = m => Has(q, m)
  BY <1>1 DEF Has
<1>6. ASSUME Once(q, m) PROVE Once(Tail(q), m)
  <2> SUFFICES ASSUME NEW k \in DOMAIN Tail(q), NEW n \in DOMAIN Tail(q),
                      Tail(q)[k] = m, Tail(q)[n] = m
               PROVE  k = n
    BY DEF Once
  <2>1. k + 1 \in DOMAIN q /\ n + 1 \in DOMAIN q /\ q[k + 1] = m /\ q[n + 1] = m
    BY <1>1
  <2>2. k + 1 = n + 1
    BY <1>6, <2>1 DEF Once
  <2> QED
    BY <1>1, <2>2
<1>7. ASSUME Once(q, m), Head(q) = m PROVE ~Has(Tail(q), m)
  <2> SUFFICES ASSUME NEW n \in DOMAIN Tail(q), Tail(q)[n] = m PROVE FALSE
    BY DEF Has
  <2>1. n + 1 \in DOMAIN q /\ q[n + 1] = m /\ q[1] = m /\ n + 1 # 1
    BY <1>1, <1>7
  <2> QED
    BY <1>1, <1>7, <2>1 DEF Once
<1> QED
  BY <1>3, <1>4, <1>5, <1>6, <1>7

LEMMA QueueJoin ==
    ASSUME NEW S, NEW q \in Seq(S), NEW u \in Seq(S), NEW m
    PROVE  /\ Has(q \o u, m) <=> Has(q, m) \/ Has(u, m)
           /\ Once(q, m) /\ Once(u, m) /\ ~(Has(q, m) /\ Has(u, m)) =>
                  Once(q \o u, m)
<1>1. /\ Len(q) \in Nat /\ Len(u) \in Nat
      /\ DOMAIN q = 1..Len(q) /\ DOMAIN u = 1..Len(u)
      /\ DOMAIN (q \o u) = 1..(Len(q) + Len(u))
  OBVIOUS
<1>2. \A n \in DOMAIN q : n \in DOMAIN (q \o u) /\ (q \o u)[n] = q[n]
  BY <1>1
<1>3. \A n \in DOMAIN u : n + Len(q) \in DOMAIN (q \o u) /\ (q \o u)[n + Len(q)] = u[n]
  BY <1>1
<1>4. \A n \in DOMAIN (q \o u) :
          \/ n \in DOMAIN q /\ (q \o u)[n] = q[n]
          \/ n - Len(q) \in DOMAIN u /\ (q \o u)[n] = u[n - Len(q)]
  BY <1>1
<1>5. Has(q \o u, m) <=> Has(q, m) \/ Has(u, m)
  <2>1. Has(q \o u, m) => Has(q, m) \/ Has(u, m)
    BY <1>4 DEF Has
  <2>2. Has(q, m) => Has(q \o u, m)
    BY <1>2 DEF Has
  <2>3. Has(u, m) => Has(q \o u, m)
    BY <1>3 DEF Has
  <2> QED
    BY <2>1, <2>2, <2>3
<1>6. ASSUME Once(q, m), Once(u, m), ~(Has(q, m) /\ Has(u, m))
      PROVE  Once(q \o u, m)
  <2> SUFFICES ASSUME NEW k \in DOMAIN (q \o u), NEW n \in DOMAIN (q \o u),
                      (q \o u)[k] = m, (q \o u)[n] = m
               PROVE  k = n
    BY DEF Once
  <2>1. CASE k \in DOMAIN q /\ q[k] = m /\ n \in DOMAIN q /\ q[n] = m
    BY <1>6, <2>1 DEF Once
  <2>2. CASE /\ k - Len(q) \in DOMAIN u /\ u[k - Len(q)] = m
             /\ n - Len(q) \in DOMAIN u /\ u[n - Len(q)] = m
    <3>1. k - Len(q) = n - Len(q)
      BY <1>6, <2>2 DEF Once
    <3> QED
      BY <1>1, <3>1
  <2>3. CASE Has(q, m) /\ Has(u, m)
    BY <1>6, <2>3
  <2> QED
    BY <1>4, <2>1, <2>2, <2>3 DEF Has
<1> QED
  BY <1>5, <1>6

LEMMA QueueOne ==
    ASSUME NEW S, NEW q \in Seq(S), NEW x \in S, NEW m
    PROVE  /\ Has(Append(q, x), m) <=> Has(q, m) \/ x = m
           /\ Once(q, m) /\ (x = m => ~Has(q, m)) => Once(Append(q, x), m)
<1>1. <<x>> \in Seq(S) /\ Append(q, x) = q \o <<x>>
  OBVIOUS
<1>2. (Has(<<x>>, m) <=> x = m) /\ Once(<<x>>, m)
  <2>1. DOMAIN <<x>> = {1} /\ <<x>>[1] = x
    OBVIOUS
  <2> QED
    BY <2>1, Zenon DEF Has, Once
<1> QED
  <2>1. /\ Has(q \o <<x>>, m) <=> Has(q, m) \/ Has(<<x>>, m)
        /\ Once(q, m) /\ Once(<<x>>, m) /\ ~(Has(q, m) /\ Has(<<x>>, m)) =>
               Once(q \o <<x>>, m)
    BY <1>1, QueueJoin
  <2> QED
    BY <1>1, <1>2, <2>1

\* The step of a queue at one end: shorter, unchanged, or longer.
LEMMA ServerStep ==
    ASSUME TypeInv, NEW c \in Keys, (toServer[c] # <<>> /\ Returned(c)) \/ UNCHANGED toServer,
           NEW a \in Keys, NEW m
    PROVE  /\ Has(toServer'[a], m) => Has(toServer[a], m)
           /\ Once(toServer[a], m) => Once(toServer'[a], m)
<1>1. CASE UNCHANGED toServer
  BY <1>1
<1>2. CASE toServer[c] # <<>> /\ Returned(c)
  <2>1. toServer'[a] = IF a = c THEN Tail(toServer[a]) ELSE toServer[a]
    BY <1>2 DEF Returned, TypeInv, ServerQueuesOK
  <2>2. toServer[c] \in Seq(Messages)
    BY DEF TypeInv, ServerQueuesOK
  <2> QED
    BY <1>2, <2>1, <2>2, QueueTail
<1> QED
  BY <1>1, <1>2

LEMMA SendStep ==
    ASSUME TypeInv, NEW d \in Clients, NEW x \in Messages, Send(d, x),
           NEW b \in Keys, NEW m
    PROVE  /\ Has(toClient'[b], m) <=> Has(toClient[b], m) \/ (b = d /\ x = m)
           /\ Once(toClient[b], m) /\ (b = d /\ x = m => ~Has(toClient[b], m)) =>
                  Once(toClient'[b], m)
<1>1. toClient'[b] = IF b = d THEN Append(toClient[b], x) ELSE toClient[b]
  BY DEF Send, TypeInv, ClientQueuesOK
<1>2. toClient[b] \in Seq(Messages)
  BY DEF TypeInv, ClientQueuesOK
<1> QED
  BY <1>1, <1>2, QueueOne

LEMMA RequestStep ==
    ASSUME TypeInv, NEW c \in Clients, NEW msgs \in Seq(Messages),
           Requests(c, msgs), NEW a \in Clients, NEW m
    PROVE  LET new == a = c /\ Has(msgs, m)
           IN /\ Has(toServer'[a], m) <=> Has(toServer[a], m) \/ new
              /\ Once(toServer[a], m) /\ (new => Once(msgs, m) /\ ~Has(toServer[a], m))
                 => Once(toServer'[a], m)
<1>0. a \in Keys /\ c \in Keys /\ toServer[a] \in Seq(Messages)
  BY JobFacts DEF TypeInv, ServerQueuesOK
<1>1. toServer'[a] = IF a = c THEN toServer[a] \o msgs ELSE toServer[a]
  BY <1>0 DEF Requests, TypeInv, ServerQueuesOK
<1>2. CASE a # c
  BY <1>1, <1>2
<1>3. CASE a = c
  <2>1. /\ Has(toServer[a] \o msgs, m) <=> Has(toServer[a], m) \/ Has(msgs, m)
        /\ Once(toServer[a], m) /\ Once(msgs, m)
              /\ ~(Has(toServer[a], m) /\ Has(msgs, m)) =>
               Once(toServer[a] \o msgs, m)
    BY <1>0, QueueJoin
  <2>2. ~Has(msgs, m) => Once(msgs, m)
    BY DEF Has, Once
  <2> QED
    BY <1>1, <1>3, <2>1, <2>2
<1> QED
  BY <1>2, <1>3

\* The relay says something of its own, or a handler returns.
LEMMA NothingCarried ==
    ASSUME TypeInv, NEW c \in Keys, (toServer[c] # <<>> /\ Returned(c)) \/ UNCHANGED toServer,
           UNCHANGED toClient \/
               \E d \in Clients : \E x \in Messages : Send(d, x) /\ x.type \notin Carried,
           NEW type \in Carried, NEW r, NEW a \in Clients, NEW b \in Clients
    PROVE  NoneAdded(type, r, a, b)
<1> DEFINE m == Msg(type, b, r)
           k == Msg(type, a, r)
<1>1. a \in Keys /\ b \in Keys
  BY JobFacts DEF TypeInv
<1>2. /\ Has(toServer'[a], m) => Has(toServer[a], m)
      /\ Once(toServer[a], m) => Once(toServer'[a], m)
  BY <1>1, ServerStep
<1>3. /\ Has(toClient'[b], k) => Has(toClient[b], k)
      /\ Once(toClient[b], k) => Once(toClient'[b], k)
  <2>1. CASE UNCHANGED toClient
    BY <2>1
  <2>2. ASSUME NEW d \in Clients, NEW x \in Messages, Send(d, x), x.type \notin Carried
        PROVE  /\ Has(toClient'[b], k) => Has(toClient[b], k)
               /\ Once(toClient[b], k) => Once(toClient'[b], k)
    <3>1. x # k
      BY <2>2 DEF Msg
    <3> HIDE DEF k
    <3> QED
      BY <1>1, <2>2, <3>1, SendStep
  <2> QED
    BY <2>1, <2>2
<1> QED
  BY <1>2, <1>3 DEF NoneAdded, OnWay, Single

\* The relay passes a message on, or refuses it.
LEMMA RelayCarries ==
    ASSUME TypeInv, NEW c \in Keys, toServer[c] # <<>>, RelayTo(c, First(c).peer),
           NEW type \in Carried, NEW r, NEW a \in Clients, NEW b \in Clients
    PROVE  NoneAdded(type, r, a, b)
<1> DEFINE f == First(c)
           x == [f EXCEPT !.peer = c]
           m == Msg(type, b, r)
           k == Msg(type, a, r)
<1>0. a \in Keys /\ b \in Keys /\ c \in Clients /\ f \in Messages
      /\ toServer[c] \in Seq(Messages)
  BY JobFacts, FirstTyped DEF TypeInv, ServerQueuesOK
<1>1. CASE f.peer \notin active
  <2>1. Returned(c) /\ Send(c, Word("Error"))
    BY <1>1 DEF RelayTo, HandleError
  <2>2. Word("Error") \in Messages /\ Word("Error").type \notin Carried
    BY WordMessage DEF TypeInv, MessageTypes, Carried, PeerSays
  <2> QED
    BY <1>0, <2>1, <2>2, NothingCarried
<1>2. CASE f.peer \in active
  <2>1. Returned(c) /\ Send(f.peer, x)
    BY <1>2 DEF RelayTo
  <2>2. f.peer \in Clients /\ x \in Messages /\ x = Msg(f.type, c, f.round)
        /\ f = Msg(f.type, f.peer, f.round)
    BY <1>0 DEF Messages, Msg
  <2>3. f.peer = b /\ x = k => a = c /\ f = m
    BY <2>2 DEF Msg
  <2>4. a = c /\ f = m =>
            Has(toServer[a], m) /\ (Once(toServer[a], m) => ~Has(toServer'[a], m))
    <3>1. toServer'[c] = Tail(toServer[c])
      BY <1>0, <2>1 DEF Returned, TypeInv, ServerQueuesOK
    <3> QED
      BY <1>0, <3>1, QueueTail DEF First
  <2>5. /\ Has(toServer'[a], m) => Has(toServer[a], m)
        /\ Once(toServer[a], m) => Once(toServer'[a], m)
    BY <1>0, <2>1, ServerStep
  <2>6. /\ Has(toClient'[b], k) <=> Has(toClient[b], k) \/ (b = f.peer /\ x = k)
        /\ Once(toClient[b], k) /\ (b = f.peer /\ x = k => ~Has(toClient[b], k)) =>
               Once(toClient'[b], k)
    <3>1. PICK d \in Clients, y \in Messages : d = f.peer /\ y = x /\ Send(d, y)
      BY <2>1, <2>2
    <3>2. Send(d, y) /\ b \in Keys
      BY <1>0, <3>1
    <3> HIDE DEF x, k, f
    <3>3. /\ Has(toClient'[b], k) <=> Has(toClient[b], k) \/ (b = d /\ y = k)
          /\ Once(toClient[b], k) /\ (b = d /\ y = k => ~Has(toClient[b], k)) =>
                 Once(toClient'[b], k)
      BY <3>2, SendStep
    <3> QED
      BY <3>1, <3>3
  <2> HIDE DEF x, f
  <2> QED
    BY <2>3, <2>4, <2>5, <2>6 DEF NoneAdded, OnWay, Single
<1> QED
  BY <1>1, <1>2

\* A client takes up what it was sent, and says something: what it says is
\* on its way then, and what it took up no longer is.
LEMMA ClientCarries ==
    ASSUME TypeInv, NEW c \in Clients,
           \/ toClient[c] # <<>> /\ toClient' = [toClient EXCEPT ![c] = Tail(@)]
           \/ UNCHANGED toClient,
           NEW msgs \in Seq(Messages), Requests(c, msgs),
           NEW type, NEW r, NEW a \in Clients, NEW b \in Clients
    PROVE  LET new == a = c /\ Has(msgs, Msg(type, b, r))
           IN /\ OnWay(type, r, a, b)' => OnWay(type, r, a, b) \/ new
              /\ /\ Single(type, r, a, b)
                 /\ new => Once(msgs, Msg(type, b, r)) /\ ~OnWay(type, r, a, b)
                 => Single(type, r, a, b)'
              /\ /\ toClient[c] # <<>> /\ toClient' = [toClient EXCEPT ![c] = Tail(@)]
                 /\ Head(toClient[c]) = Msg(type, a, r) /\ b = c
                 /\ Single(type, r, a, b) /\ ~new
                 => ~OnWay(type, r, a, b)'
<1> DEFINE new == a = c /\ Has(msgs, Msg(type, b, r))
           m == Msg(type, b, r)
           k == Msg(type, a, r)
           takes == toClient[c] # <<>> /\ toClient' = [toClient EXCEPT ![c] = Tail(@)]
<1>0. b \in Keys /\ c \in Keys /\ toClient[b] \in Seq(Messages)
  BY JobFacts DEF TypeInv, ServerQueuesOK, ClientQueuesOK
<1>2. takes => toClient'[b] = IF b = c THEN Tail(toClient[b]) ELSE toClient[b]
  BY <1>0 DEF TypeInv, ClientQueuesOK
<1>3. /\ Has(toServer'[a], m) <=> Has(toServer[a], m) \/ new
      /\ Once(toServer[a], m) /\ (new => Once(msgs, m) /\ ~Has(toServer[a], m)) =>
             Once(toServer'[a], m)
  BY RequestStep
<1>4. /\ Has(toClient'[b], k) => Has(toClient[b], k)
      /\ Once(toClient[b], k) => Once(toClient'[b], k)
      /\ takes /\ Head(toClient[c]) = k /\ b = c =>
             Has(toClient[b], k) /\ (Once(toClient[b], k) => ~Has(toClient'[b], k))
  <2> HIDE DEF k
  <2>1. CASE takes
    <3>1. CASE b = c
      BY <1>0, <1>2, <2>1, <3>1, QueueTail
    <3>2. CASE b # c
      BY <1>2, <2>1, <3>2
    <3> QED
      BY <3>1, <3>2
  <2>2. CASE ~takes /\ UNCHANGED toClient
    BY <2>2
  <2> QED
    BY <2>1, <2>2
<1> HIDE DEF takes
<1> QED
  BY <1>3, <1>4 DEF OnWay, Single, takes

-----------------------------------------------------------------------------
(* Handshakes between two clients                                          *)

Dials(c, p) ==
    \E i \in DOMAIN connections(Parties, c) : connections(Parties, c)[i] = p

Call(c, p) == OnWay("Initiator", NoRound, c, p)
Reply(p, c) == OnWay("Responder", NoRound, p, c)

\* c has told the relay that it is connected to p, or is about to.
Registered(c, p) ==
    \/ Has(toServer[c], Msg("SessionConnection", p, NoRound))
    \/ \E s \in session : <<c, p>> \in s.connections

Open(c, p) == peers[c][p] = "transport" /\ peers[p][c] = "transport"

\* The handshake that c begins: what is on its way and what the two ends have
\* in their maps go together.
PairInv(c, p) ==
    /\ Single("Initiator", NoRound, c, p) /\ Single("Responder", NoRound, p, c)
    /\ Call(c, p) =>
           Dials(c, p) /\ peers[c][p] = "handshake" /\ peers[p][c] = "none"
    /\ Reply(p, c) =>
           Dials(c, p) /\ peers[c][p] = "handshake" /\ peers[p][c] = "transport"
    /\ c # p /\ peers[c][p] = "handshake" => Dials(c, p)
    /\ Dials(c, p) /\ peers[p][c] # "none" => peers[c][p] # "none"
    /\ Registered(c, p) => Dials(c, p) /\ Open(c, p)

SessionOK ==
    \A s \in session :
        /\ s = [owner_key |-> s.owner_key, participant_keys |-> s.participant_keys,
                connections |-> s.connections, idle |-> s.idle]
        /\ public_keys(s) = Clients

\* The relay is about to say SessionActive, or has said so.
Announced ==
    \/ waiter.msg = "SessionActive" /\ waiter.pc \in {"found", "notify"}
    \/ \E c \in Clients : \E n \in DOMAIN toClient[c] :
           toClient[c][n].type = "SessionActive"
    \/ \E c \in Clients : round[c].driver > 0

AllOpen == \A c, p \in Clients : c # p => Open(c, p)

ChannelInv ==
    /\ \A c, p \in Clients : PairInv(c, p)
    /\ SessionOK
    /\ Announced => AllOpen

\* SessionState::connections: of two clients at most one dials, and once.
LEMMA DialFacts ==
    ASSUME job \in Jobs, NEW c \in Clients, NEW p \in Clients
    PROVE  /\ Dials(c, p) => c # p /\ ~Dials(p, c)
           /\ \A i, j \in DOMAIN connections(Parties, c) :
                  connections(Parties, c)[i] = connections(Parties, c)[j] => i = j
<1>0. /\ Parties \in Seq(Keys) /\ DistinctKeys(Parties) /\ Len(Parties) \in Nat
      /\ DOMAIN Parties = 1..Len(Parties)
  BY JobFacts
<1>1. PICK i \in DOMAIN Parties : Parties[i] = c
  BY DEF Clients
<1>2. PICK j \in DOMAIN Parties : Parties[j] = p
  BY DEF Clients
<1>3. ASSUME NEW k \in DOMAIN Parties
      PROVE  connections(Parties, Parties[k]) = SubSeq(Parties, k + 1, Len(Parties))
  <2>1. party_number(Parties, Parties[k]) = k /\ k # 0
    BY <1>0, PartyNumberOfIndex
  <2> QED
    BY <2>1 DEF connections
<1>4. ASSUME NEW k \in DOMAIN Parties,
             NEW n \in DOMAIN SubSeq(Parties, k + 1, Len(Parties))
      PROVE  /\ SubSeq(Parties, k + 1, Len(Parties))[n] = Parties[k + n]
             /\ n \in Nat \ {0} /\ k + n \in DOMAIN Parties
  BY <1>0
<1>5. ASSUME NEW k \in DOMAIN Parties, NEW l \in DOMAIN Parties,
             Dials(Parties[k], Parties[l])
      PROVE  k < l
  <2>1. PICK n \in DOMAIN SubSeq(Parties, k + 1, Len(Parties)) :
            SubSeq(Parties, k + 1, Len(Parties))[n] = Parties[l]
    BY <1>3, <1>5 DEF Dials
  <2>2. Parties[k + n] = Parties[l] /\ n \in Nat \ {0} /\ k + n \in DOMAIN Parties
    BY <1>4, <2>1
  <2>3. k + n = l
    BY <1>0, <2>2 DEF DistinctKeys
  <2> QED
    BY <1>0, <2>2, <2>3
<1>6. Dials(c, p) => i < j
  BY <1>1, <1>2, <1>5
<1>7. Dials(p, c) => j < i
  BY <1>1, <1>2, <1>5
<1>8. Dials(c, p) => c # p /\ ~Dials(p, c)
  <2>1. c = p => i = j
    BY <1>0, <1>1, <1>2 DEF DistinctKeys
  <2> QED
    BY <1>0, <1>6, <1>7, <2>1
<1>9. ASSUME NEW m \in DOMAIN connections(Parties, c),
             NEW n \in DOMAIN connections(Parties, c),
             connections(Parties, c)[m] = connections(Parties, c)[n]
      PROVE  m = n
  <2>1. m \in DOMAIN SubSeq(Parties, i + 1, Len(Parties))
        /\ n \in DOMAIN SubSeq(Parties, i + 1, Len(Parties))
    BY <1>1, <1>3, <1>9
  <2>2. /\ i + m \in DOMAIN Parties /\ i + n \in DOMAIN Parties
        /\ m \in Nat /\ n \in Nat /\ Parties[i + m] = Parties[i + n]
    BY <1>1, <1>3, <1>4, <1>9, <2>1
  <2>3. i + m = i + n
    BY <1>0, <2>2 DEF DistinctKeys
  <2> QED
    BY <1>0, <2>2, <2>3
<1> QED
  BY <1>8, <1>9

\* Steps of the relay leave the maps alone.
LEMMA PairQuiet ==
    ASSUME UNCHANGED <<job, peers>>, NEW c \in Clients, NEW p \in Clients,
           PairInv(c, p),
           NoneAdded("Initiator", NoRound, c, p), NoneAdded("Responder", NoRound, p, c),
           Registered(c, p)' => Registered(c, p)
    PROVE  PairInv(c, p)'
<1>1. Dials(c, p)' = Dials(c, p)
  BY DEF Dials, Parties
<1> QED
  BY <1>1 DEF PairInv, NoneAdded, Call, Reply, Open

LEMMA ChannelInit == Init => ChannelInv
<1> SUFFICES ASSUME Init PROVE ChannelInv
  OBVIOUS
<1>1. /\ session = {} /\ waiter.msg = "SessionReady"
      /\ \A c \in Clients : /\ c \in Keys
                            /\ toServer[c] = <<>> /\ toClient[c] = <<>>
                            /\ round[c].driver = 0
  BY JobFacts DEF Init, NoRound
<1>2. \A c, p \in Clients : c # p => peers[c][p] = "none"
  BY <1>1 DEF Init
<1>3. ASSUME NEW c \in Clients, NEW p \in Clients PROVE PairInv(c, p)
  <2>1. \A m : ~Has(toServer[c], m) /\ ~Has(toClient[c], m) /\ Once(toServer[c], m)
            /\ Once(toClient[c], m) /\ ~Has(toServer[p], m) /\ ~Has(toClient[p], m)
            /\ Once(toServer[p], m) /\ Once(toClient[p], m)
    <3>1. \A m : ~Has(<<>>, m) /\ Once(<<>>, m)
      BY DEF Has, Once
    <3> QED
      BY <1>1, <3>1
  <2>2. Dials(c, p) => c # p
    BY DialFacts DEF Init
  <2> QED
    BY <1>1, <1>2, <2>1, <2>2
       DEF PairInv, Single, Call, Reply, OnWay, Registered
<1> QED
  BY <1>1, <1>3 DEF ChannelInv, SessionOK, Announced

\* A step of the relay that passes nothing on but what peers say.
LEMMA ChannelFrame ==
    ASSUME TypeInv, ChannelInv, UNCHANGED <<job, peers, round>>,
           \A type \in PeerSays : \A a, b \in Clients : NoneAdded(type, NoRound, a, b),
           \A a, b \in Clients : Registered(a, b)' => Registered(a, b),
           SessionOK',
           Announced' => Announced \/ AllOpen
    PROVE  ChannelInv'
<1>1. Clients' = Clients
  BY SameTypes
<1>2. ASSUME NEW a \in Clients, NEW b \in Clients PROVE PairInv(a, b)'
  BY PairQuiet DEF ChannelInv, PeerSays
<1>3. AllOpen' = AllOpen
  BY <1>1 DEF AllOpen, Open
<1> QED
  BY <1>1, <1>2, <1>3 DEF ChannelInv

LEMMA AnnouncedFrame ==
    ASSUME TypeInv, UNCHANGED <<job, round>>,
           UNCHANGED toClient \/
               \E d \in Clients : \E x \in Messages :
                   Send(d, x) /\ (x.type = "SessionActive" => Announced),
           /\ waiter'.msg = "SessionActive" /\ waiter'.pc \in {"found", "notify"}
           => Announced \/ AllOpen
    PROVE  Announced' => Announced \/ AllOpen
<1>1. Clients' = Clients /\ Clients \subseteq Keys
  BY SameTypes, JobFacts DEF TypeInv
<1>2. ASSUME NEW c \in Clients, NEW n \in DOMAIN toClient'[c],
             toClient'[c][n].type = "SessionActive"
      PROVE  Announced
  <2>1. CASE UNCHANGED toClient
    BY <1>2, <2>1 DEF Announced
  <2>2. ASSUME NEW d \in Clients, NEW x \in Messages, Send(d, x),
               x.type = "SessionActive" => Announced
        PROVE  Announced
    <3> DEFINE y == toClient'[c][n]
    <3>1. Has(toClient'[c], y) <=> Has(toClient[c], y) \/ (c = d /\ x = y)
      <4>1. PICK z : z = y
        OBVIOUS
      <4>2. c \in Keys
        BY <1>1
      <4>3. Has(toClient'[c], z) <=> Has(toClient[c], z) \/ (c = d /\ x = z)
        BY <2>2, <4>2, SendStep
      <4> QED
        BY <4>1, <4>3
    <3>2. Has(toClient'[c], y)
      BY DEF Has
    <3>3. CASE Has(toClient[c], y)
      BY <1>2, <3>3 DEF Has, Announced
    <3>4. CASE x = y
      BY <1>2, <2>2, <3>4
    <3> QED
      BY <3>1, <3>2, <3>3, <3>4
  <2> QED
    BY <2>1, <2>2
<1>3. CASE \E c \in Clients : round'[c].driver > 0
  BY <1>3 DEF Announced
<1> QED
  BY <1>1, <1>2, <1>3 DEF Announced

LEMMA RegisteredFrame ==
    ASSUME TypeInv, NEW c \in Keys,
           (toServer[c] # <<>> /\ Returned(c)) \/ UNCHANGED toServer,
           UNCHANGED session \/ \A s \in session' : s.connections = {},
           NEW a \in Clients, NEW b \in Clients
    PROVE  Registered(a, b)' => Registered(a, b)
<1>1. a \in Keys
  BY JobFacts DEF TypeInv
<1>2. Has(toServer'[a], Msg("SessionConnection", b, NoRound)) =>
          Has(toServer[a], Msg("SessionConnection", b, NoRound))
  BY <1>1, ServerStep
<1> QED
  BY <1>2 DEF Registered

\* The steps of a handler that neither pass a message on nor register.
LEMMA ChannelHandler ==
    ASSUME TypeInv, ChannelInv, NEW c \in Keys,
           (toServer[c] # <<>> /\ Returned(c)) \/ UNCHANGED toServer,
           UNCHANGED toClient \/
               \E d \in Clients : \E x \in Messages :
                   /\ Send(d, x) /\ x.type \notin Carried
                   /\ x.type = "SessionActive" => Announced,
           UNCHANGED session \/ \A s \in session' : s.connections = {},
           SessionOK',
           /\ waiter'.msg = "SessionActive" /\ waiter'.pc \in {"found", "notify"}
           => Announced \/ AllOpen,
           UNCHANGED clients
    PROVE  ChannelInv'
<1>0. UNCHANGED <<job, peers, round>>
  BY DEF clients
<1>1. ASSUME NEW type \in PeerSays, NEW a \in Clients, NEW b \in Clients
      PROVE  NoneAdded(type, NoRound, a, b)
  <2>1. type \in Carried
    BY DEF Carried
  <2> QED
    BY <2>1, NothingCarried
<1>2. \A a, b \in Clients : Registered(a, b)' => Registered(a, b)
  BY RegisteredFrame
<1>3. Announced' => Announced \/ AllOpen
  BY <1>0, AnnouncedFrame
<1> QED
  BY <1>0, <1>1, <1>2, <1>3, ChannelFrame

LEMMA ChannelPassesOn ==
    ASSUME TypeInv, ChannelInv, NEW c \in Keys, toServer[c] # <<>>,
           First(c).type \in Carried, RelayTo(c, First(c).peer),
           UNCHANGED <<session, waiter, clients>>
    PROVE  ChannelInv'
<1>0. UNCHANGED <<job, peers, round>> /\ Clients' = Clients /\ c \in Clients
      /\ First(c) \in Messages
  BY SameTypes, FirstTyped DEF clients
<1>1. ASSUME NEW type \in PeerSays, NEW a \in Clients, NEW b \in Clients
      PROVE  NoneAdded(type, NoRound, a, b)
  <2>1. type \in Carried
    BY DEF Carried
  <2> QED
    BY <2>1, RelayCarries
<1>2. \A a, b \in Clients : Registered(a, b)' => Registered(a, b)
  <2>1. Returned(c)
    BY DEF RelayTo, HandleError
  <2> QED
    BY <2>1, RegisteredFrame
<1>3. Announced' => Announced \/ AllOpen
  <2>1. \E d \in Clients : \E x \in Messages : Send(d, x) /\ x.type # "SessionActive"
    <3>1. CASE First(c).peer \in active
      <4>1. [First(c) EXCEPT !.peer = c] \in Messages /\ First(c).peer \in Clients
        BY <1>0 DEF Messages
      <4>2. [First(c) EXCEPT !.peer = c].type # "SessionActive"
        BY <1>0 DEF Messages, Carried, PeerSays
      <4> QED
        BY <3>1, <4>1, <4>2 DEF RelayTo
    <3>2. CASE First(c).peer \notin active
      <4>1. Word("Error") \in Messages /\ Word("Error").type = "Error"
        BY WordMessage DEF TypeInv, MessageTypes
      <4> QED
        BY <1>0, <3>2, <4>1 DEF RelayTo, HandleError
    <3> QED
      BY <3>1, <3>2
  <2>2. waiter' = waiter
    OBVIOUS
  <2>3. /\ waiter'.msg = "SessionActive" /\ waiter'.pc \in {"found", "notify"}
        => Announced \/ AllOpen
    BY <2>2 DEF Announced
  <2> QED
    BY <1>0, <2>1, <2>3, AnnouncedFrame
<1>4. SessionOK'
  BY <1>0 DEF ChannelInv, SessionOK
<1> QED
  BY <1>0, <1>1, <1>2, <1>3, <1>4, ChannelFrame

\* The owner asks for the session when it is connected.
LEMMA ConnectSays ==
    ASSUME TypeInv, NEW c \in Keys, Connect(c)
    PROVE  \E msgs \in Seq(Messages) :
               /\ Requests(c, msgs)
               /\ \A n \in DOMAIN msgs : msgs[n].type = "NewSession"
<1>1. Word("NewSession") \in Messages /\ Word("NewSession").type = "NewSession"
  BY WordMessage DEF TypeInv, MessageTypes
<1>2. <<Word("NewSession")>> \in Seq(Messages) /\ <<>> \in Seq(Messages)
  BY <1>1
<1>3. toServer[c] \in Seq(Messages)
  BY DEF TypeInv, ServerQueuesOK
<1>4. Append(toServer[c], Word("NewSession")) = toServer[c] \o <<Word("NewSession")>>
      /\ toServer[c] = toServer[c] \o <<>>
  BY <1>1, <1>3
<1>5. \/ toServer' = [toServer EXCEPT ![c] = toServer[c] \o <<Word("NewSession")>>]
      \/ toServer' = [toServer EXCEPT ![c] = toServer[c] \o <<>>]
  BY <1>4 DEF Connect
<1>6. /\ \A n \in DOMAIN <<Word("NewSession")>> :
             <<Word("NewSession")>>[n].type = "NewSession"
      /\ \A n \in DOMAIN <<>> : <<>>[n].type = "NewSession"
  BY <1>1
<1> QED
  BY <1>2, <1>5, <1>6 DEF Requests

LEMMA ChannelRelay ==
    ASSUME TypeInv, ChannelInv, NEW c \in Keys, Connect(c) \/ Handle(c)
    PROVE  ChannelInv'
<1>0. /\ UNCHANGED clients /\ UNCHANGED <<job, peers, round>>
      /\ Owner' = Owner /\ Clients' = Clients
  <2>1. UNCHANGED clients
    BY DEF Connect, Handle, NewSession, ReplySessionCreated,
         SessionConnection, PeerHandshake, Touch, RelayRound, CloseSession,
         RemoveSession, ReplySessionFinished
  <2> QED
    BY <2>1, SameTypes DEF clients
<1>1. UNCHANGED session => SessionOK'
  BY <1>0 DEF ChannelInv, SessionOK
<1>2. /\ UNCHANGED waiter
      /\ waiter'.msg = "SessionActive" /\ waiter'.pc \in {"found", "notify"}
      => Announced
  BY DEF Announced
<1>3. ASSUME NEW type \in {"SessionCreated", "SessionFinished", "Error"},
             Send(c, Word(type)), c \in Clients
      PROVE  \E d \in Clients : \E x \in Messages :
                 /\ Send(d, x) /\ x.type \notin Carried
                 /\ x.type = "SessionActive" => Announced
  <2>1. /\ Word(type) \in Messages /\ Word(type).type \notin Carried
        /\ Word(type).type # "SessionActive"
    BY WordMessage DEF TypeInv, MessageTypes, Carried, PeerSays
  <2> QED
    BY <1>3, <2>1
<1>4. CASE Connect(c)
  <2>1. c \in Clients /\ UNCHANGED <<session, waiter, toClient>>
    BY <1>4 DEF Connect
  <2>2. PICK msgs \in Seq(Messages) :
            /\ Requests(c, msgs)
            /\ \A n \in DOMAIN msgs : msgs[n].type = "NewSession"
    BY <1>4, ConnectSays
  <2>3. ASSUME NEW type \in PeerSays, NEW a \in Clients, NEW b \in Clients
        PROVE  NoneAdded(type, NoRound, a, b)
    <3>1. ~Has(msgs, Msg(type, b, NoRound))
      BY <2>2 DEF Has, Msg, PeerSays
    <3> QED
      BY <2>1, <2>2, <3>1, ClientCarries DEF NoneAdded
  <2>4. ASSUME NEW a \in Clients, NEW b \in Clients, Registered(a, b)'
        PROVE  Registered(a, b)
    <3> DEFINE m == Msg("SessionConnection", b, NoRound)
    <3>1. ~Has(msgs, m)
      BY <2>2 DEF Has, Msg
    <3>2. Has(toServer'[a], m) => Has(toServer[a], m)
      <4> HIDE DEF m
      <4> QED
        BY <2>1, <2>2, <3>1, RequestStep
    <3> QED
      BY <2>1, <2>4, <3>2 DEF Registered
  <2>5. Announced' => Announced \/ AllOpen
    BY <1>0, <1>2, <2>1, AnnouncedFrame
  <2> QED
    BY <1>0, <1>1, <2>1, <2>3, <2>4, <2>5, ChannelFrame
<1>5. CASE NewSession(c)
  <2>1. c \in Clients /\ UNCHANGED <<toServer, toClient>>
        /\ waiter' = [waiter EXCEPT !.pc = "poll"]
        /\ session' = {Session(c, Clients \ {c})}
    BY <1>5, FirstTyped DEF NewSession, Request
  <2>2. \A s \in session' : s.connections = {}
    BY <2>1 DEF Session
  <2>3. SessionOK'
    BY <1>0, <2>1 DEF SessionOK, Session, public_keys
  <2>4. waiter'.pc = "poll"
    BY <2>1 DEF TypeInv, RelayOK
  <2> QED
    BY <1>0, <2>1, <2>2, <2>3, <2>4, ChannelHandler
<1>6. CASE ReplySessionCreated(c)
  <2>1. toServer[c] # <<>> /\ c \in Clients
    BY <1>6, FirstTyped DEF ReplySessionCreated, TypeInv, HandlerOK, Request
  <2>2. Returned(c) /\ Send(c, Word("SessionCreated")) /\ UNCHANGED <<session, waiter>>
    BY <1>6 DEF ReplySessionCreated
  <2> QED
    BY <1>0, <1>1, <1>2, <1>3, <2>1, <2>2, ChannelHandler
<1>7. CASE SessionConnection(c)
  <2>1. /\ toServer[c] # <<>> /\ c \in Clients /\ First(c) \in Messages
        /\ First(c).type = "SessionConnection" /\ Returned(c) /\ UNCHANGED waiter
        /\ UNCHANGED toClient \/ Send(c, Word("Error"))
        /\ session' = {register_connection(s, c, First(c).peer) : s \in session}
    BY <1>7, FirstTyped DEF SessionConnection, Request, HandleError
  <2>2. ASSUME NEW type \in PeerSays, NEW a \in Clients, NEW b \in Clients
        PROVE  NoneAdded(type, NoRound, a, b)
    <3>1. type \in Carried
      BY DEF Carried
    <3> QED
      BY <1>3, <2>1, <3>1, NothingCarried
  <2>3. ASSUME NEW s \in session
        PROVE  /\ register_connection(s, c, First(c).peer) =
                     [owner_key |-> s.owner_key,
                      participant_keys |-> s.participant_keys,
                      connections |-> s.connections \cup {<<c, First(c).peer>>},
                      idle |-> s.idle]
               /\ public_keys(register_connection(s, c, First(c).peer)) = Clients
    <3>1. s = [owner_key |-> s.owner_key, participant_keys |-> s.participant_keys,
               connections |-> s.connections, idle |-> s.idle]
          /\ public_keys(s) = Clients
      BY DEF ChannelInv, SessionOK
    <3>2. register_connection(s, c, First(c).peer) =
             [owner_key |-> s.owner_key,
              participant_keys |-> s.participant_keys,
              connections |-> s.connections \cup {<<c, First(c).peer>>},
              idle |-> s.idle]
      BY <3>1 DEF register_connection
    <3> QED
      BY <3>1, <3>2 DEF public_keys
  <2>4. SessionOK'
    <3> SUFFICES ASSUME NEW s \in session'
                 PROVE  /\ s = [owner_key |-> s.owner_key,
                               participant_keys |-> s.participant_keys,
                               connections |-> s.connections, idle |-> s.idle]
                        /\ public_keys(s) = Clients
      BY <1>0 DEF SessionOK
    <3>1. PICK t \in session : s = register_connection(t, c, First(c).peer)
      BY <2>1
    <3>2. public_keys(s) = Clients
      BY <2>3, <3>1
    <3>3. s = [owner_key |-> t.owner_key, participant_keys |-> t.participant_keys,
               connections |-> t.connections \cup {<<c, First(c).peer>>},
               idle |-> t.idle]
      BY <2>3, <3>1
    <3> QED
      BY <3>2, <3>3
  <2>5. ASSUME NEW a \in Clients, NEW b \in Clients, Registered(a, b)'
        PROVE  Registered(a, b)
    <3> DEFINE m == Msg("SessionConnection", b, NoRound)
    <3>1. a \in Keys
      BY JobFacts DEF TypeInv
    <3>2. Has(toServer'[a], m) => Has(toServer[a], m)
      BY <2>1, <3>1, ServerStep
    <3>3. ASSUME NEW s \in session' , <<a, b>> \in s.connections
          PROVE  Registered(a, b)
      <4>1. PICK t \in session : s = register_connection(t, c, First(c).peer)
        BY <2>1, <3>3
      <4>2. <<a, b>> \in t.connections \/ (a = c /\ b = First(c).peer)
        <5>1. s = [owner_key |-> t.owner_key, participant_keys |-> t.participant_keys,
                   connections |-> t.connections \cup {<<c, First(c).peer>>},
                   idle |-> t.idle]
          BY <2>3, <4>1
        <5>2. s.connections = t.connections \cup {<<c, First(c).peer>>}
          BY <5>1
        <5> QED
          BY <3>3, <5>2
      <4>3. CASE a = c /\ b = First(c).peer
        <5>1. First(c) = m
          BY <2>1, <4>3 DEF Messages, Msg
        <5>2. toServer[c] \in Seq(Messages)
          BY DEF TypeInv, ServerQueuesOK
        <5>3. Has(toServer[a], m)
          BY <2>1, <4>3, <5>1, <5>2, QueueTail DEF First
        <5> QED
          BY <5>3 DEF Registered
      <4> QED
        BY <4>2, <4>3 DEF Registered
    <3> QED
      BY <2>5, <3>2, <3>3 DEF Registered
  <2>6. Announced' => Announced \/ AllOpen
    BY <1>0, <1>2, <1>3, <2>1, AnnouncedFrame
  <2> QED
    BY <1>0, <2>2, <2>4, <2>5, <2>6, ChannelFrame
<1>8. CASE PeerHandshake(c)
  <2>1. toServer[c] # <<>> /\ First(c).type \in Carried
    BY <1>8 DEF PeerHandshake, Request, Carried, PeerSays
  <2> QED
    BY <1>0, <1>8, <2>1, ChannelPassesOn DEF PeerHandshake, relay
<1>9. CASE Touch(c)
  <2>1. toServer[c] # <<>> /\ c \in Clients
    BY <1>9, FirstTyped DEF Touch, Request
  <2>2. /\ UNCHANGED <<session, waiter>>
        /\ Returned(c) \/ UNCHANGED toServer
        /\ UNCHANGED toClient \/ Send(c, Word("Error"))
    BY <1>9 DEF Touch, HandleError
  <2> QED
    BY <1>0, <1>1, <1>2, <1>3, <2>1, <2>2, ChannelHandler
<1>10. CASE RelayRound(c)
  <2>1. toServer[c] # <<>> /\ First(c).type \in Carried
    BY <1>10 DEF RelayRound, TypeInv, HandlerOK, Request, Carried
  <2> QED
    BY <1>0, <1>10, <2>1, ChannelPassesOn DEF RelayRound
<1>11. CASE CloseSession(c)
  <2>1. toServer[c] # <<>> /\ c \in Clients
    BY <1>11, FirstTyped DEF CloseSession, Request
  <2>2. /\ UNCHANGED <<session, waiter>>
        /\ Returned(c) \/ UNCHANGED toServer
        /\ UNCHANGED toClient \/ Send(c, Word("Error"))
    BY <1>11 DEF CloseSession, HandleError
  <2> QED
    BY <1>0, <1>1, <1>2, <1>3, <2>1, <2>2, ChannelHandler
<1>12. CASE RemoveSession(c)
  <2>1. session' = {} /\ UNCHANGED <<waiter, toServer, toClient>>
    BY <1>12 DEF RemoveSession
  <2>2. SessionOK' /\ \A s \in session' : s.connections = {}
    BY <2>1 DEF SessionOK
  <2> QED
    BY <1>0, <1>2, <2>1, <2>2, ChannelHandler
<1>13. CASE ReplySessionFinished(c)
  <2>1. toServer[c] # <<>> /\ c \in Clients
    BY <1>13, FirstTyped DEF ReplySessionFinished, TypeInv, HandlerOK, Request
  <2>2. Returned(c) /\ Send(c, Word("SessionFinished")) /\ UNCHANGED <<session, waiter>>
    BY <1>13 DEF ReplySessionFinished
  <2> QED
    BY <1>0, <1>1, <1>2, <1>3, <2>1, <2>2, ChannelHandler
<1> QED
  BY <1>4, <1>5, <1>6, <1>7, <1>8, <1>9, <1>10, <1>11, <1>12, <1>13 DEF Handle

\* Session::is_active: every two participants are registered, by one of them.
LEMMA ActiveIsOpen ==
    ASSUME ChannelInv, NEW s \in session, is_active(s)
    PROVE  AllOpen
<1> SUFFICES ASSUME NEW c \in Clients, NEW p \in Clients, c # p PROVE Open(c, p)
  BY DEF AllOpen
<1>1. public_keys(s) = Clients
  BY DEF ChannelInv, SessionOK
<1>2. <<c, p>> \in s.connections \/ <<p, c>> \in s.connections
  BY <1>1 DEF is_active, check_connection
<1>3. Registered(c, p) \/ Registered(p, c)
  BY <1>2 DEF Registered
<1>4. Open(c, p) \/ Open(p, c)
  BY <1>3 DEF ChannelInv, PairInv
<1> QED
  BY <1>4 DEF Open

LEMMA ChannelWaiter ==
    ASSUME TypeInv, ChannelInv, Waiter
    PROVE  ChannelInv'
<1>0. UNCHANGED <<session, toServer, clients>>
  BY DEF Waiter, Poll, NotifyPeers, NotifyPeer, NotifyReturn
<1>1. SessionOK' /\ Owner \in Keys
  BY <1>0, SameTypes, JobFacts DEF ChannelInv, SessionOK, clients, TypeInv
<1>2. waiter = [pc |-> waiter.pc, msg |-> waiter.msg, next |-> waiter.next]
  BY DEF TypeInv, RelayOK
<1>3. CASE Poll
  <2>1. /\ waiter'.msg = waiter.msg /\ UNCHANGED toClient
        /\ waiter.msg = "SessionActive" => \E s \in session : is_active(s)
    BY <1>2, <1>3 DEF Poll
  <2>2. waiter'.msg = "SessionActive" => AllOpen
    BY <2>1, ActiveIsOpen
  <2> QED
    BY <1>0, <1>1, <2>1, <2>2, ChannelHandler
<1>4. CASE NotifyPeers
  <2>1. waiter'.msg = waiter.msg /\ UNCHANGED toClient /\ waiter.pc = "found"
    BY <1>2, <1>4 DEF NotifyPeers
  <2>2. waiter'.msg = "SessionActive" => Announced
    BY <2>1 DEF Announced
  <2> QED
    BY <1>0, <1>1, <2>1, <2>2, ChannelHandler
<1>5. CASE NotifyPeer
  <2>1. waiter'.msg = waiter.msg /\ waiter.pc = "notify"
    BY <1>2, <1>5 DEF NotifyPeer
  <2>2. waiter.msg = "SessionActive" => Announced
    BY <2>1 DEF Announced
  <2>3. \E d \in Clients : \E x \in Messages :
            /\ Send(d, x) /\ x.type \notin Carried
            /\ x.type = "SessionActive" => Announced
    <3>1. Parties[waiter.next] \in Clients
      <4>1. waiter.next \in Nat \ {0} /\ waiter.next <= Len(Parties)
            /\ Parties \in Seq(Keys)
        BY <1>5, JobFacts DEF NotifyPeer, TypeInv, RelayOK
      <4>2. waiter.next \in DOMAIN Parties
        BY <4>1
      <4> QED
        BY <4>2 DEF Clients
    <3>2. waiter.msg \in {"SessionReady", "SessionActive"}
      BY DEF TypeInv, RelayOK
    <3>3. /\ Word(waiter.msg) \in Messages /\ Word(waiter.msg).type = waiter.msg
      BY <3>2, WordMessage DEF TypeInv, MessageTypes
    <3>4. Word(waiter.msg).type \notin Carried
      BY <3>2, <3>3 DEF Carried, PeerSays
    <3> QED
      BY <1>5, <2>2, <3>1, <3>3, <3>4 DEF NotifyPeer
  <2> QED
    BY <1>0, <1>1, <2>1, <2>2, <2>3, ChannelHandler
<1>6. CASE NotifyReturn
  <2>1. UNCHANGED toClient /\ waiter'.pc \in {"poll", "done"}
    BY <1>2, <1>6 DEF NotifyReturn
  <2> QED
    BY <1>0, <1>1, <2>1, ChannelHandler
<1> QED
  BY <1>3, <1>4, <1>5, <1>6 DEF Waiter

LEMMA NoRequests ==
    ASSUME TypeInv, NEW c \in Clients, UNCHANGED toServer
    PROVE  Requests(c, <<>>) /\ <<>> \in Seq(Messages)
<1>1. toServer \in [Keys -> Seq(Messages)] /\ c \in Keys
  BY JobFacts DEF TypeInv, ServerQueuesOK
<1>2. toServer[c] \o <<>> = toServer[c]
  BY <1>1
<1> QED
  BY <1>1, <1>2 DEF Requests

\* What a driver makes its client send.
LEMMA DriverSays ==
    ASSUME TypeInv, NEW c \in Clients, NEW r \in Rounds,
           Dispatch(c, r) \/ HandleEvent(c, r)
    PROVE  \E msgs \in Seq(Messages) :
               /\ Requests(c, msgs)
               /\ \A n \in DOMAIN msgs : msgs[n].type \in {"Round", "CloseSession"}
<1> DEFINE Says == \E msgs \in Seq(Messages) :
               /\ Requests(c, msgs)
               /\ \A n \in DOMAIN msgs : msgs[n].type \in {"Round", "CloseSession"}
<1>1. ASSUME UNCHANGED toServer PROVE Says
  <2>1. \A n \in DOMAIN <<>> : <<>>[n].type \in {"Round", "CloseSession"}
    OBVIOUS
  <2> QED
    BY <1>1, <2>1, NoRequests
<1>2. ASSUME NEW d \in Rounds, Dispatch(c, d) PROVE Says
  <2>1. CASE UNCHANGED toServer
    BY <1>1, <2>1
  <2> DEFINE to == receivers(c, d)
             msgs == [i \in DOMAIN to |-> Msg("Round", to[i], d)]
  <2>2. CASE Requests(c, msgs)
    <3>1. to \in Seq(Clients)
      BY ReceiversFacts DEF TypeInv
    <3>2. ASSUME NEW i \in DOMAIN to
          PROVE  Msg("Round", to[i], d) \in Messages /\ Msg("Round", to[i], d).type = "Round"
      BY <3>1 DEF Messages, MessageTypes, Msg
    <3> HIDE DEF to
    <3>3. msgs \in Seq(Messages) /\ DOMAIN msgs = DOMAIN to
      BY <3>1, <3>2
    <3> QED
      BY <2>2, <3>2, <3>3
  <2> QED
    BY <1>2, <2>1, <2>2 DEF Dispatch
<1>3. ASSUME Finish(c) PROVE Says
  <2>1. Word("CloseSession") \in Messages /\ Word("CloseSession").type = "CloseSession"
    BY WordMessage DEF TypeInv, MessageTypes
  <2>2. <<Word("CloseSession")>> \in Seq(Messages)
        /\ \A n \in DOMAIN <<Word("CloseSession")>> :
               <<Word("CloseSession")>>[n].type = "CloseSession"
    BY <2>1
  <2> QED
    BY <1>1, <1>3, <2>2 DEF Finish
<1>4. ASSUME Proceed(c, r) PROVE Says
  <2>1. CASE r.number < Drivers[r.driver] /\ Dispatch(c, [r EXCEPT !.number = @ + 1])
    <3>1. r.number \in 1..MaxRounds /\ r.driver \in 1..Len(Drivers)
          /\ r = [driver |-> r.driver, number |-> r.number]
      BY DEF Rounds
    <3>2. Drivers[r.driver] \in 1..MaxRounds
      BY <3>1, DriverFacts DEF TypeInv
    <3>3. PICK d : d = [r EXCEPT !.number = @ + 1]
      OBVIOUS
    <3>4. d = [driver |-> r.driver, number |-> r.number + 1]
      BY <3>1, <3>3
    <3>5. d \in Rounds
      BY <2>1, <3>1, <3>2, <3>4 DEF Rounds, MaxRounds
    <3> QED
      BY <1>2, <2>1, <3>3, <3>5
  <2>2. CASE r.driver < Len(Drivers) /\ StartDriver(c, r.driver + 1)
    <3>1. r.driver \in 1..Len(Drivers)
      BY DEF Rounds
    <3>2. r.driver + 1 \in 1..Len(Drivers)
      BY <2>2, <3>1, DriverFacts DEF TypeInv
    <3>3. [driver |-> r.driver + 1, number |-> 1] \in Rounds
      <4>1. Drivers[r.driver + 1] \in 1..MaxRounds
        BY <3>2, DriverFacts DEF TypeInv
      <4> QED
        BY <3>2, <4>1 DEF Rounds, MaxRounds
    <3> QED
      BY <1>2, <2>2, <3>3 DEF StartDriver
  <2> QED
    BY <1>1, <1>3, <1>4, <2>1, <2>2 DEF Proceed
<1> QED
  BY <1>1, <1>2, <1>4 DEF HandleEvent

LEMMA TakeStep ==
    ASSUME TypeInv, NEW c \in Clients,
           \/ toClient[c] # <<>> /\ toClient' = [toClient EXCEPT ![c] = Tail(@)]
           \/ UNCHANGED toClient,
           NEW b \in Clients, NEW m
    PROVE  Has(toClient'[b], m) => Has(toClient[b], m)
<1>1. b \in Keys /\ c \in Keys /\ toClient[b] \in Seq(Messages)
  BY JobFacts DEF TypeInv, ClientQueuesOK
<1>2. \/ toClient'[b] = toClient[b]
      \/ toClient[b] # <<>> /\ toClient'[b] = Tail(toClient[b])
  BY <1>1 DEF TypeInv, ClientQueuesOK
<1> QED
  BY <1>1, <1>2, QueueTail

\* A step of a client announces nothing, unless it begins a driver.
LEMMA ClientAnnounces ==
    ASSUME TypeInv, NEW c \in Clients,
           \/ toClient[c] # <<>> /\ toClient' = [toClient EXCEPT ![c] = Tail(@)]
           \/ UNCHANGED toClient,
           UNCHANGED <<job, waiter>>,
           (\E k \in Clients : round'[k].driver > 0) => Announced
    PROVE  Announced' => Announced
<1>1. Clients' = Clients
  BY SameTypes
<1>2. ASSUME NEW k \in Clients, NEW n \in DOMAIN toClient'[k],
             toClient'[k][n].type = "SessionActive"
      PROVE  Announced
  <2>1. PICK m : m = toClient'[k][n]
    OBVIOUS
  <2>2. Has(toClient[k], m)
    <3>1. Has(toClient'[k], m)
      BY <2>1 DEF Has
    <3> QED
      BY <3>1, TakeStep
  <2> QED
    BY <1>2, <2>1, <2>2 DEF Has, Announced
<1> QED
  BY <1>1, <1>2 DEF Announced

\* A step of a client that leaves its map of peers alone.
LEMMA ChannelQuiet ==
    ASSUME TypeInv, ChannelInv, NEW c \in Clients,
           \/ toClient[c] # <<>> /\ toClient' = [toClient EXCEPT ![c] = Tail(@)]
           \/ UNCHANGED toClient,
           NEW msgs \in Seq(Messages), Requests(c, msgs),
           \A n \in DOMAIN msgs : msgs[n].type \in {"Round", "CloseSession"},
           UNCHANGED <<job, session, waiter, peers>>,
           (\E k \in Clients : round'[k].driver > 0) => Announced
    PROVE  ChannelInv'
<1>0. Clients' = Clients
  BY SameTypes
<1>1. ASSUME NEW a \in Clients, NEW b \in Clients PROVE PairInv(a, b)'
  <2>1. \A type \in PeerSays \cup {"SessionConnection"}, x \in Clients :
            ~Has(msgs, Msg(type, x, NoRound))
    BY DEF Has, Msg, PeerSays
  <2>2. ASSUME NEW type \in PeerSays, NEW x \in Clients, NEW y \in Clients
        PROVE  NoneAdded(type, NoRound, x, y)
    BY <2>1, ClientCarries DEF NoneAdded
  <2>3. Has(toServer'[a], Msg("SessionConnection", b, NoRound)) =>
            Has(toServer[a], Msg("SessionConnection", b, NoRound))
    BY <2>1, RequestStep
  <2>4. Registered(a, b)' => Registered(a, b)
    BY <2>3 DEF Registered
  <2> QED
    BY <2>2, <2>4, PairQuiet DEF ChannelInv, PeerSays
<1>2. SessionOK'
  BY <1>0 DEF ChannelInv, SessionOK
<1>3. Announced' => AllOpen'
  <2>1. Announced' => Announced
    BY ClientAnnounces
  <2> QED
    BY <1>0, <2>1 DEF ChannelInv, AllOpen, Open
<1> QED
  BY <1>0, <1>1, <1>2, <1>3 DEF ChannelInv

\* connect_peer for each connection: the calls are on their way.
LEMMA ChannelDial ==
    ASSUME TypeInv, ChannelInv, NEW c \in Clients,
           toClient[c] # <<>>, toClient' = [toClient EXCEPT ![c] = Tail(@)],
           \A p \in Clients : Dials(c, p) => peers[c][p] = "none",
           Dial(c), UNCHANGED <<job, session, waiter, round>>
    PROVE  ChannelInv'
<1> DEFINE mine == connections(Parties, c)
           msgs == [i \in DOMAIN mine |-> Msg("Initiator", mine[i], NoRound)]
<1>0. Clients' = Clients /\ c \in Keys /\ job \in Jobs /\ mine \in Seq(Clients)
  BY SameTypes, JobFacts, ConnectionsTyped DEF TypeInv
<1>1. msgs \in Seq(Messages) /\ DOMAIN msgs = DOMAIN mine
  <2>1. \A i \in DOMAIN mine : Msg("Initiator", mine[i], NoRound) \in Messages
    BY <1>0 DEF Messages, MessageTypes, PeerSays, Msg
  <2> HIDE DEF mine
  <2> QED
    BY <1>0, <2>1
<1>2. Requests(c, msgs)
  BY DEF Dial
<1>3. ASSUME NEW p \in Clients
      PROVE  /\ Has(msgs, Msg("Initiator", p, NoRound)) <=> Dials(c, p)
             /\ Once(msgs, Msg("Initiator", p, NoRound))
             /\ ~Has(msgs, Msg("Responder", p, NoRound))
             /\ ~Has(msgs, Msg("SessionConnection", p, NoRound))
  <2>1. \A i \in DOMAIN mine : /\ msgs[i] = Msg("Initiator", mine[i], NoRound)
                               /\ msgs[i].type = "Initiator" /\ msgs[i].peer = mine[i]
    BY DEF Msg
  <2>2. \A i \in DOMAIN mine : msgs[i] = Msg("Initiator", p, NoRound) <=> mine[i] = p
    BY <2>1 DEF Msg
  <2>3. \A i, j \in DOMAIN mine : mine[i] = mine[j] => i = j
    BY <1>0, DialFacts
  <2>4. Has(msgs, Msg("Initiator", p, NoRound)) <=> Dials(c, p)
    BY <1>1, <2>2 DEF Has, Dials
  <2>5. Once(msgs, Msg("Initiator", p, NoRound))
    BY <1>1, <2>2, <2>3 DEF Once
  <2>6. \A type \in {"Responder", "SessionConnection"} : ~Has(msgs, Msg(type, p, NoRound))
    BY <1>1, <2>1 DEF Has, Msg
  <2> QED
    BY <2>4, <2>5, <2>6
<1> HIDE DEF msgs
<1>4. ASSUME NEW a \in Clients, NEW b \in Clients, a # b
      PROVE  /\ a = c /\ Dials(c, b) => peers'[a][b] = "handshake"
             /\ ~(a = c /\ Dials(c, b)) => peers'[a][b] = peers[a][b]
  <2>1. a \in Keys /\ b \in Keys \ {a} /\ DOMAIN peers = Keys
        /\ peers[a] \in [Keys \ {a} -> {"none", "handshake", "transport"}]
    BY <1>4, JobFacts DEF TypeInv, ClientsOK, PeersOK
  <2>2. peers' = [peers EXCEPT ![c] = [p \in DOMAIN peers[c] |->
              IF Dials(c, p) THEN "handshake" ELSE peers[c][p]]]
    BY DEF Dial, Dials
  <2> QED
    BY <1>0, <1>4, <2>1, <2>2
<1>5. ASSUME NEW a \in Clients, NEW b \in Clients PROVE PairInv(a, b)'
  <2>0. /\ PairInv(a, b) /\ PairInv(b, a)
        /\ Dials(a, b)' = Dials(a, b)
        /\ Dials(a, b) => a # b /\ ~Dials(b, a)
    BY <1>0, DialFacts DEF ChannelInv, Dials, Parties
  <2>1. /\ Call(a, b)' => Call(a, b) \/ (a = c /\ Dials(c, b))
        /\ Single("Initiator", NoRound, a, b)'
    <3>1. a = c /\ Dials(c, b) => ~Call(a, b)
      BY <2>0 DEF PairInv
    <3> QED
      BY <1>1, <1>2, <1>3, <2>0, <3>1, ClientCarries DEF Call, PairInv
  <2>2. /\ Reply(b, a)' => Reply(b, a)
        /\ Single("Responder", NoRound, b, a)'
    BY <1>1, <1>2, <1>3, <2>0, ClientCarries DEF Reply, PairInv
  <2>3. Registered(a, b)' => Registered(a, b)
    BY <1>1, <1>2, <1>3, RequestStep DEF Registered
  <2>4. Call(a, b)' =>
            Dials(a, b) /\ peers'[a][b] = "handshake" /\ peers'[b][a] = "none"
    BY <1>4, <2>0, <2>1 DEF PairInv
  <2>5. Reply(b, a)' =>
            Dials(a, b) /\ peers'[a][b] = "handshake" /\ peers'[b][a] = "transport"
    BY <1>4, <2>0, <2>2 DEF PairInv
  <2>6. /\ a # b /\ peers'[a][b] = "handshake" => Dials(a, b)
        /\ Dials(a, b) /\ peers'[b][a] # "none" => peers'[a][b] # "none"
    BY <1>4, <2>0 DEF PairInv
  <2>7. Registered(a, b)' =>
            Dials(a, b) /\ peers'[a][b] = "transport" /\ peers'[b][a] = "transport"
    BY <1>4, <2>0, <2>3 DEF PairInv, Open
  <2> QED
    BY <2>0, <2>1, <2>2, <2>4, <2>5, <2>6, <2>7 DEF PairInv, Open
<1>6. SessionOK'
  BY <1>0 DEF ChannelInv, SessionOK
<1>7. Announced' => AllOpen'
  <2>1. Announced' => Announced
    <3>1. (\E k \in Clients : round'[k].driver > 0) => Announced
      BY DEF Announced
    <3> QED
      BY <3>1, ClientAnnounces
  <2>2. ASSUME AllOpen PROVE AllOpen'
    <3>1. \A a, b \in Clients : a # b => peers'[a][b] = peers[a][b]
      BY <1>4, <2>2 DEF AllOpen, Open
    <3> QED
      BY <1>0, <2>2, <3>1 DEF AllOpen, Open
  <2> QED
    BY <2>1, <2>2 DEF ChannelInv
<1> QED
  BY <1>0, <1>5, <1>6, <1>7 DEF ChannelInv

\* peer_handshake_responder: there is never an entry for the caller.
LEMMA ChannelCalled ==
    ASSUME TypeInv, ChannelInv, NEW c \in Clients, NEW p \in Clients,
           toClient[c] # <<>>, toClient' = [toClient EXCEPT ![c] = Tail(@)],
           Head(toClient[c]) = Msg("Initiator", p, NoRound),
           peers' = [peers EXCEPT ![c][p] = "transport"],
           Requests(c, <<Msg("Responder", p, NoRound)>> \o RegisterConnection(c, p)),
           UNCHANGED <<job, session, waiter, round>>
    PROVE  ChannelInv'
<1>0. Clients' = Clients /\ c \in Keys /\ p \in Keys /\ job \in Jobs
  BY SameTypes, JobFacts DEF TypeInv
<1>1. Call(p, c)
  <2>1. toClient[c] \in Seq(Messages)
    BY <1>0 DEF TypeInv, ClientQueuesOK
  <2> QED
    BY <2>1, QueueTail DEF Call, OnWay
<1>2. /\ Dials(p, c) /\ ~Dials(c, p) /\ c # p
      /\ peers[p][c] = "handshake" /\ peers[c][p] = "none"
  BY <1>0, <1>1, DialFacts DEF ChannelInv, PairInv
<1> DEFINE msgs == <<Msg("Responder", p, NoRound)>>
<1>3. msgs \in Seq(Messages) /\ Requests(c, msgs)
  <2>1. Msg("Responder", p, NoRound) \in Messages
    BY DEF Messages, MessageTypes, PeerSays, Msg
  <2>2. RegisterConnection(c, p) = <<>>
    BY <1>2 DEF RegisterConnection, Dials
  <2>3. msgs \o <<>> = msgs /\ msgs \in Seq(Messages)
    BY <2>1
  <2> QED
    BY <2>2, <2>3
<1>4. ASSUME NEW x \in Clients
      PROVE  /\ Has(msgs, Msg("Responder", x, NoRound)) => x = p
             /\ Once(msgs, Msg("Responder", x, NoRound))
             /\ ~Has(msgs, Msg("Initiator", x, NoRound))
             /\ ~Has(msgs, Msg("SessionConnection", x, NoRound))
  <2>1. DOMAIN msgs = {1} /\ msgs[1].type = "Responder" /\ msgs[1].peer = p
    BY DEF Msg
  <2> HIDE DEF msgs
  <2>2. Has(msgs, Msg("Responder", x, NoRound)) => x = p
    BY <2>1 DEF Has, Msg
  <2>3. Once(msgs, Msg("Responder", x, NoRound))
    BY <2>1, Zenon DEF Once
  <2>4. \A type \in {"Initiator", "SessionConnection"} : ~Has(msgs, Msg(type, x, NoRound))
    BY <2>1 DEF Has, Msg
  <2> QED
    BY <2>2, <2>3, <2>4
<1> HIDE DEF msgs
<1>5. ASSUME NEW a \in Clients, NEW b \in Clients, a # b
      PROVE  /\ a = c /\ b = p => peers'[a][b] = "transport"
             /\ ~(a = c /\ b = p) => peers'[a][b] = peers[a][b]
  <2>1. a \in Keys /\ b \in Keys \ {a} /\ DOMAIN peers = Keys
        /\ peers[a] \in [Keys \ {a} -> {"none", "handshake", "transport"}]
    BY <1>5, JobFacts DEF TypeInv, ClientsOK, PeersOK
  <2> QED
    BY <1>0, <1>5, <2>1
<1>6. ASSUME NEW a \in Clients, NEW b \in Clients PROVE PairInv(a, b)'
  <2>0. /\ PairInv(a, b) /\ PairInv(b, a)
        /\ Dials(a, b)' = Dials(a, b)
        /\ Dials(a, b) => a # b /\ ~Dials(b, a)
    BY <1>0, DialFacts DEF ChannelInv, Dials, Parties
  <2>1. /\ Call(a, b)' => Call(a, b) /\ ~(a = p /\ b = c)
        /\ Single("Initiator", NoRound, a, b)'
    <3>1. /\ Call(a, b)' => Call(a, b)
          /\ Single("Initiator", NoRound, a, b)'
      BY <1>3, <1>4, <2>0, ClientCarries DEF Call, PairInv
    <3>2. a = p /\ b = c => ~Call(a, b)'
      BY <1>3, <1>4, <2>0, ClientCarries DEF Call, PairInv
    <3> QED
      BY <3>1, <3>2
  <2>2. /\ Reply(b, a)' => Reply(b, a) \/ (b = c /\ a = p)
        /\ Single("Responder", NoRound, b, a)'
    <3>1. b = c /\ a = p => ~Reply(b, a)
      BY <1>2, <2>0 DEF PairInv
    <3> QED
      BY <1>3, <1>4, <2>0, <3>1, ClientCarries DEF Reply, PairInv
  <2>3. Registered(a, b)' => Registered(a, b)
    BY <1>3, <1>4, RequestStep DEF Registered
  <2>4. Call(a, b)' =>
            Dials(a, b) /\ peers'[a][b] = "handshake" /\ peers'[b][a] = "none"
    BY <1>2, <1>5, <2>0, <2>1 DEF PairInv
  <2>5. Reply(b, a)' =>
            Dials(a, b) /\ peers'[a][b] = "handshake" /\ peers'[b][a] = "transport"
    BY <1>2, <1>5, <2>0, <2>2 DEF PairInv
  <2>6. /\ a # b /\ peers'[a][b] = "handshake" => Dials(a, b)
        /\ Dials(a, b) /\ peers'[b][a] # "none" => peers'[a][b] # "none"
    BY <1>2, <1>5, <2>0 DEF PairInv
  <2>7. Registered(a, b)' =>
            Dials(a, b) /\ peers'[a][b] = "transport" /\ peers'[b][a] = "transport"
    BY <1>2, <1>5, <2>0, <2>3 DEF PairInv, Open
  <2> QED
    BY <2>0, <2>1, <2>2, <2>4, <2>5, <2>6, <2>7 DEF PairInv, Open
<1>7. SessionOK'
  BY <1>0 DEF ChannelInv, SessionOK
<1>8. ~Announced'
  <2>1. ~Announced
    BY <1>2 DEF ChannelInv, AllOpen, Open
  <2>2. (\E k \in Clients : round'[k].driver > 0) => Announced
    BY DEF Announced
  <2> QED
    BY <2>1, <2>2, ClientAnnounces
<1> QED
  BY <1>0, <1>6, <1>7, <1>8 DEF ChannelInv

\* peer_handshake_ack: the entry is the one the call left.
LEMMA ReplyFound ==
    ASSUME TypeInv, ChannelInv, NEW c \in Clients, NEW p \in Clients,
           toClient[c] # <<>>, Head(toClient[c]) = Msg("Responder", p, NoRound)
    PROVE  /\ Dials(c, p) /\ ~Dials(p, c) /\ c # p
           /\ peers[c][p] = "handshake" /\ peers[p][c] = "transport"
<1>1. toClient[c] \in Seq(Messages) /\ job \in Jobs
  BY JobFacts DEF TypeInv, ClientQueuesOK
<1>2. Reply(p, c)
  BY <1>1, QueueTail DEF Reply, OnWay
<1> QED
  BY <1>1, <1>2, DialFacts DEF ChannelInv, PairInv

LEMMA ChannelReplied ==
    ASSUME TypeInv, ChannelInv, NEW c \in Clients, NEW p \in Clients,
           toClient[c] # <<>>, toClient' = [toClient EXCEPT ![c] = Tail(@)],
           Head(toClient[c]) = Msg("Responder", p, NoRound),
           peers' = [peers EXCEPT ![c][p] = "transport"],
           Requests(c, RegisterConnection(c, p)),
           UNCHANGED <<job, session, waiter, round>>
    PROVE  ChannelInv'
<1>0. Clients' = Clients /\ c \in Keys /\ p \in Keys /\ job \in Jobs
  BY SameTypes, JobFacts DEF TypeInv
<1>2. /\ Dials(c, p) /\ ~Dials(p, c) /\ c # p
      /\ peers[c][p] = "handshake" /\ peers[p][c] = "transport"
  BY ReplyFound
<1>3. PICK msgs \in Seq(Messages) :
          /\ Requests(c, msgs)
          /\ msgs = <<>> \/ msgs = <<Msg("SessionConnection", p, NoRound)>>
  BY RegisterTyped DEF RegisterConnection
<1>4. ASSUME NEW x \in Clients
      PROVE  /\ ~Has(msgs, Msg("Responder", x, NoRound))
             /\ ~Has(msgs, Msg("Initiator", x, NoRound))
             /\ Has(msgs, Msg("SessionConnection", x, NoRound)) => x = p
  <2>1. \A i \in DOMAIN msgs : msgs[i] = Msg("SessionConnection", p, NoRound)
    BY <1>3
  <2> QED
    BY <2>1 DEF Has, Msg
<1>5. ASSUME NEW a \in Clients, NEW b \in Clients, a # b
      PROVE  /\ a = c /\ b = p => peers'[a][b] = "transport"
             /\ ~(a = c /\ b = p) => peers'[a][b] = peers[a][b]
  <2>1. a \in Keys /\ b \in Keys \ {a} /\ DOMAIN peers = Keys
        /\ peers[a] \in [Keys \ {a} -> {"none", "handshake", "transport"}]
    BY <1>5, JobFacts DEF TypeInv, ClientsOK, PeersOK
  <2> QED
    BY <1>0, <1>5, <2>1
<1>6. ASSUME NEW a \in Clients, NEW b \in Clients PROVE PairInv(a, b)'
  <2>0. /\ PairInv(a, b) /\ PairInv(b, a)
        /\ Dials(a, b)' = Dials(a, b)
        /\ Dials(a, b) => a # b /\ ~Dials(b, a)
    BY <1>0, DialFacts DEF ChannelInv, Dials, Parties
  <2>1. /\ Call(a, b)' => Call(a, b)
        /\ Single("Initiator", NoRound, a, b)'
    BY <1>3, <1>4, <2>0, ClientCarries DEF Call, PairInv
  <2>2. /\ Reply(b, a)' => Reply(b, a) /\ ~(b = p /\ a = c)
        /\ Single("Responder", NoRound, b, a)'
    <3>1. /\ Reply(b, a)' => Reply(b, a)
          /\ Single("Responder", NoRound, b, a)'
      BY <1>3, <1>4, <2>0, ClientCarries DEF Reply, PairInv
    <3>2. b = p /\ a = c => ~Reply(b, a)'
      <4>1. Single("Responder", NoRound, p, c) /\ ~Has(msgs, Msg("Responder", c, NoRound))
        BY <1>4 DEF ChannelInv, PairInv
      <4>2. ~OnWay("Responder", NoRound, p, c)'
        BY <1>3, <4>1, ClientCarries
      <4> QED
        BY <4>2 DEF Reply
    <3> QED
      BY <3>1, <3>2
  <2>3. Registered(a, b)' => Registered(a, b) \/ (a = c /\ b = p)
    BY <1>3, <1>4, RequestStep DEF Registered
  <2>4. Call(a, b)' =>
            Dials(a, b) /\ peers'[a][b] = "handshake" /\ peers'[b][a] = "none"
    BY <1>2, <1>5, <2>0, <2>1 DEF PairInv
  <2>5. Reply(b, a)' =>
            Dials(a, b) /\ peers'[a][b] = "handshake" /\ peers'[b][a] = "transport"
    BY <1>2, <1>5, <2>0, <2>2 DEF PairInv
  <2>6. /\ a # b /\ peers'[a][b] = "handshake" => Dials(a, b)
        /\ Dials(a, b) /\ peers'[b][a] # "none" => peers'[a][b] # "none"
    BY <1>2, <1>5, <2>0 DEF PairInv
  <2>7. Registered(a, b)' =>
            Dials(a, b) /\ peers'[a][b] = "transport" /\ peers'[b][a] = "transport"
    BY <1>2, <1>5, <2>0, <2>3 DEF PairInv, Open
  <2> QED
    BY <2>0, <2>1, <2>2, <2>4, <2>5, <2>6, <2>7 DEF PairInv, Open
<1>7. SessionOK'
  BY <1>0 DEF ChannelInv, SessionOK
<1>8. ~Announced'
  <2>1. ~Announced
    BY <1>2 DEF ChannelInv, AllOpen, Open
  <2>2. (\E k \in Clients : round'[k].driver > 0) => Announced
    BY DEF Announced
  <2> QED
    BY <2>1, <2>2, ClientAnnounces
<1> QED
  BY <1>0, <1>6, <1>7, <1>8 DEF ChannelInv

LEMMA ChannelClient ==
    ASSUME TypeInv, ChannelInv, NEW c \in Keys, Client(c)
    PROVE  ChannelInv'
<1>0. UNCHANGED <<job, session, waiter>>
  BY DEF Client, OnSessionCreated, OnSessionReady, OnSessionActive,
       OnInitiator, OnResponder, OnRound, OnSessionFinished, OnError, Close,
       relay
<1>1. ASSUME NEW type, Incoming(c, type)
      PROVE  /\ c \in Clients /\ toClient[c] # <<>>
             /\ toClient' = [toClient EXCEPT ![c] = Tail(@)]
             /\ Head(toClient[c]) \in Messages /\ Head(toClient[c]).type = type
  BY <1>0, <1>1, TakeTyped DEF Incoming
<1>2. ASSUME c \in Clients,
             \/ toClient[c] # <<>> /\ toClient' = [toClient EXCEPT ![c] = Tail(@)]
             \/ UNCHANGED toClient,
             UNCHANGED <<toServer, peers, round>>
      PROVE  ChannelInv'
  <2>1. Requests(c, <<>>) /\ <<>> \in Seq(Messages)
    BY <1>2, NoRequests
  <2>2. \A n \in DOMAIN <<>> : <<>>[n].type \in {"Round", "CloseSession"}
    OBVIOUS
  <2>3. (\E k \in Clients : round'[k].driver > 0) => Announced
    BY <1>2 DEF Announced
  <2> QED
    BY <1>0, <1>2, <2>1, <2>2, <2>3, ChannelQuiet
<1>3. ASSUME NEW r \in Rounds, c \in Clients,
             toClient[c] # <<>>, toClient' = [toClient EXCEPT ![c] = Tail(@)],
             Dispatch(c, r) \/ HandleEvent(c, r), UNCHANGED peers,
             Announced \/ UNCHANGED round
      PROVE  ChannelInv'
  <2>1. PICK msgs \in Seq(Messages) :
            /\ Requests(c, msgs)
            /\ \A n \in DOMAIN msgs : msgs[n].type \in {"Round", "CloseSession"}
    BY <1>3, DriverSays
  <2>2. (\E k \in Clients : round'[k].driver > 0) => Announced
    BY <1>3 DEF Announced
  <2> QED
    BY <1>0, <1>3, <2>1, <2>2, ChannelQuiet
<1>4. CASE OnSessionCreated(c)
  BY <1>1, <1>2, <1>4 DEF OnSessionCreated
<1>5. CASE OnSessionReady(c)
  <2>1. UNCHANGED round /\ Incoming(c, "SessionReady")
    BY <1>5 DEF OnSessionReady
  <2>2. CASE UNCHANGED <<toServer, peers>>
    BY <1>1, <1>2, <2>1, <2>2
  <2>3. CASE /\ ~\E i \in DOMAIN connections(Parties, c) :
                    peers[c][connections(Parties, c)[i]] # "none"
             /\ Dial(c)
    <3>1. \A p \in Clients : Dials(c, p) => peers[c][p] = "none"
      BY <2>3 DEF Dials
    <3> QED
      BY <1>0, <1>1, <2>1, <2>3, <3>1, ChannelDial
  <2> QED
    BY <1>5, <2>2, <2>3 DEF OnSessionReady
<1>6. CASE OnSessionActive(c)
  <2>1. /\ Incoming(c, "SessionActive") /\ StartDriver(c, 1) /\ UNCHANGED peers
    BY <1>6 DEF OnSessionActive
  <2>2. Announced
    <3>1. /\ c \in Clients /\ toClient[c] \in Seq(Messages) /\ toClient[c] # <<>>
          /\ Head(toClient[c]).type = "SessionActive"
      BY <1>1, <2>1 DEF TypeInv, ClientQueuesOK
    <3>2. 1 \in DOMAIN toClient[c] /\ toClient[c][1].type = "SessionActive"
      BY <3>1
    <3> QED
      BY <3>1, <3>2 DEF Announced
  <2>3. [driver |-> 1, number |-> 1] \in Rounds
    <3>1. 1 \in 1..Len(Drivers) /\ Drivers[1] \in 1..MaxRounds
      BY DriverFacts DEF TypeInv
    <3> QED
      BY <3>1 DEF Rounds, MaxRounds
  <2> QED
    BY <1>1, <1>3, <2>1, <2>2, <2>3 DEF StartDriver
<1>7. CASE OnInitiator(c)
  <2>1. Incoming(c, "Initiator") /\ UNCHANGED round
    BY <1>7 DEF OnInitiator
  <2>2. PICK p \in Clients : Head(toClient[c]) = Msg("Initiator", p, NoRound)
                             /\ p = Head(toClient[c]).peer
    BY <1>1, <2>1 DEF Messages, Msg
  <2>3. CASE UNCHANGED <<toServer, peers>>
    BY <1>1, <1>2, <2>1, <2>3
  <2>4. CASE /\ peers' = [peers EXCEPT ![c][p] = "transport"]
             /\ Requests(c, <<Msg("Responder", p, NoRound)>> \o RegisterConnection(c, p))
    BY <1>0, <1>1, <2>1, <2>2, <2>4, ChannelCalled
  <2> QED
    BY <1>7, <2>2, <2>3, <2>4 DEF OnInitiator
<1>8. CASE OnResponder(c)
  <2>1. Incoming(c, "Responder") /\ UNCHANGED round
    BY <1>8 DEF OnResponder
  <2>2. PICK p \in Clients : Head(toClient[c]) = Msg("Responder", p, NoRound)
                             /\ p = Head(toClient[c]).peer
    BY <1>1, <2>1 DEF Messages, Msg
  <2>3. peers[c][p] = "handshake"
    BY <1>1, <2>1, <2>2, ReplyFound
  <2>4. /\ peers' = [peers EXCEPT ![c][p] = "transport"]
        /\ Requests(c, RegisterConnection(c, p))
    BY <1>8, <2>2, <2>3 DEF OnResponder
  <2> QED
    BY <1>0, <1>1, <2>1, <2>2, <2>4, ChannelReplied
<1>9. CASE OnRound(c)
  <2>1. Incoming(c, "Round") /\ UNCHANGED peers
    BY <1>9 DEF OnRound
  <2>2. CASE UNCHANGED <<toServer, round>>
    BY <1>1, <1>2, <2>1, <2>2
  <2>3. CASE HandleEvent(c, Head(toClient[c]).round)
    <3>1. PICK r \in Rounds : r = Head(toClient[c]).round
      BY <1>1, <2>1 DEF Messages
    <3>2. r.driver \in 1..Len(Drivers) /\ Len(Drivers) \in Nat
      BY DriverFacts DEF Rounds, TypeInv
    <3>3. UNCHANGED round \/ r.driver = round[c].driver
      BY <2>3, <3>1 DEF HandleEvent
    <3>4. UNCHANGED round \/ Announced
      <4>1. r.driver > 0
        BY <3>2
      <4> QED
        BY <1>1, <2>1, <3>3, <4>1 DEF Announced
    <3> QED
      BY <1>1, <1>3, <2>1, <2>3, <3>1, <3>4
  <2> QED
    BY <1>9, <2>2, <2>3 DEF OnRound
<1>10. CASE OnSessionFinished(c)
  BY <1>1, <1>2, <1>10 DEF OnSessionFinished
<1>11. CASE OnError(c)
  BY <1>1, <1>2, <1>11 DEF OnError
<1>12. CASE Close(c)
  <2>1. UNCHANGED <<toServer, toClient, peers, round, session, waiter, job>>
    BY <1>0, <1>12 DEF Close
  <2>2. Clients' = Clients /\ AllOpen' = AllOpen /\ Announced' = Announced
        /\ SessionOK' = SessionOK /\ Parties' = Parties
    BY <2>1, SameTypes DEF AllOpen, Open, Announced, SessionOK
  <2>3. ASSUME NEW a \in Clients, NEW b \in Clients PROVE PairInv(a, b)'
    BY <2>1, <2>2 DEF ChannelInv, PairInv, Single, Call, Reply, OnWay, Dials,
         Registered, Open
  <2> QED
    BY <2>2, <2>3 DEF ChannelInv
<1> QED
  BY <1>4, <1>5, <1>6, <1>7, <1>8, <1>9, <1>10, <1>11, <1>12 DEF Client

LEMMA ChannelNext == TypeInv /\ ChannelInv /\ [Next]_vars => ChannelInv'
<1> SUFFICES ASSUME TypeInv, ChannelInv, [Next]_vars PROVE ChannelInv'
  OBVIOUS
<1>1. CASE UNCHANGED vars
  <2>1. UNCHANGED <<relay, toServer, toClient, clients>>
    BY <1>1 DEF vars
  <2>2. UNCHANGED <<toServer, toClient, peers, round, session, waiter, job>>
    BY <2>1 DEF relay, clients
  <2>3. Clients' = Clients /\ AllOpen' = AllOpen /\ Announced' = Announced
        /\ SessionOK' = SessionOK /\ Parties' = Parties
    BY <2>2, SameTypes DEF AllOpen, Open, Announced, SessionOK
  <2>4. ASSUME NEW a \in Clients, NEW b \in Clients PROVE PairInv(a, b)'
    BY <2>2, <2>3 DEF ChannelInv, PairInv, Single, Call, Reply, OnWay, Dials,
         Registered, Open
  <2> QED
    BY <2>3, <2>4 DEF ChannelInv
<1>2. CASE Next
  BY <1>2, ChannelRelay, ChannelWaiter, ChannelClient DEF Next
<1> QED
  BY <1>1, <1>2

\* A client that has begun a driver has channels to all the others, and so has
\* everybody else: SessionActive follows from the registered connections, a
\* connection is registered by the side that called when it has the reply, and
\* the other side has opened its end before it replied.
THEOREM ChannelsOpen == Spec => []ActiveMeansChannels
<1>1. ChannelInv => ActiveMeansChannels
  BY DEF ChannelInv, Announced, AllOpen, Open, ActiveMeansChannels
<1>2. Init => TypeInv /\ ChannelInv
  BY TypeInit, ChannelInit
<1>3. TypeInv /\ ChannelInv /\ [Next]_vars => TypeInv' /\ ChannelInv'
  BY TypeNext, ChannelNext
<1> QED
  BY <1>1, <1>2, <1>3, PTL DEF Spec

-----------------------------------------------------------------------------
(* Who dials whom, and what the relay makes of it                          *)

\* SessionState::connections, by the positions of the participants.
LEMMA DialledKeys ==
    ASSUME job \in Jobs
    PROVE  /\ \A i, j \in DOMAIN Parties : Parties[j] \in dialled(Parties[i]) <=> i < j
           /\ \A i \in DOMAIN Parties : dialled(Parties[i]) \subseteq Clients
           /\ \A i, j \in DOMAIN Parties : Parties[i] = Parties[j] <=> i = j
           /\ DOMAIN Parties \subseteq Int
<1>1. Parties \in Seq(Keys) /\ DistinctKeys(Parties)
  BY JobFacts
<1>2. \A i \in DOMAIN Parties :
          dialled(Parties[i]) = {Parties[j] : j \in {k \in DOMAIN Parties : i < k}}
  BY <1>1, ConnectionsOfIndex DEF dialled
<1>3. \A i, j \in DOMAIN Parties : Parties[i] = Parties[j] <=> i = j
  BY <1>1 DEF DistinctKeys
<1>4. DOMAIN Parties \subseteq Int
  BY <1>1
<1> QED
  BY <1>2, <1>3, <1>4 DEF Clients

LEMMA EitherDials == job \in Jobs => OneInitiatorPerPair
<1> SUFFICES ASSUME job \in Jobs, NEW c \in Clients, NEW p \in Clients, c # p
             PROVE  p \in dialled(c) <=> c \notin dialled(p)
  BY DEF OneInitiatorPerPair
<1>1. PICK i \in DOMAIN Parties : c = Parties[i]
  BY DEF Clients
<1>2. PICK j \in DOMAIN Parties : p = Parties[j]
  BY DEF Clients
<1>3. i \in Int /\ j \in Int /\ i # j
  BY <1>1, <1>2, DialledKeys
<1> QED
  BY <1>1, <1>2, <1>3, DialledKeys

LEMMA ActiveIsRegistered ==
    TypeInv /\ ChannelInv => ActiveWhenAllRegistered
<1> SUFFICES ASSUME TypeInv, ChannelInv, NEW s \in session
             PROVE  is_active(s) <=> \A c \in Clients : \A p \in dialled(c) :
                                         <<c, p>> \in s.connections
  BY DEF ActiveWhenAllRegistered
<1> DEFINE C == s.connections
<1>0. job \in Jobs
  BY DEF TypeInv
<1>1. ASSUME NEW c \in Clients
      PROVE  dialled(c) \subseteq Clients /\ c \notin dialled(c)
  <2>1. PICK i \in DOMAIN Parties : c = Parties[i]
    BY DEF Clients
  <2> QED
    BY <1>0, <2>1, DialledKeys
<1>2. ASSUME NEW c \in Clients, NEW p \in Clients, <<c, p>> \in C
      PROVE  p \in dialled(c)
  <2>1. Registered(c, p)
    BY <1>2 DEF Registered
  <2>2. Dials(c, p)
    BY <2>1 DEF ChannelInv, PairInv
  <2> QED
    BY <2>2 DEF Dials, dialled
<1>3. \A c, p \in Clients : c # p => (p \in dialled(c) <=> c \notin dialled(p))
  BY <1>0, EitherDials DEF OneInitiatorPerPair
<1>4. is_active(s) <=> \A c, p \in Clients :
          c # p => (<<c, p>> \in C \/ <<p, c>> \in C)
  <2>1. public_keys(s) = Clients
    BY DEF ChannelInv, SessionOK
  <2> QED
    BY <2>1 DEF is_active, check_connection
<1>5. ASSUME \A c \in Clients : \A p \in dialled(c) : <<c, p>> \in C,
             NEW c \in Clients, NEW p \in Clients, c # p
      PROVE  <<c, p>> \in C \/ <<p, c>> \in C
  BY <1>3, <1>5
<1>6. ASSUME \A c, p \in Clients : c # p => (<<c, p>> \in C \/ <<p, c>> \in C),
             NEW c \in Clients, NEW p \in dialled(c)
      PROVE  <<c, p>> \in C
  <2>1. p \in Clients /\ c # p
    BY <1>1, <1>6
  <2>2. <<p, c>> \notin C
    BY <1>2, <1>3, <1>6, <2>1
  <2> QED
    BY <1>6, <2>1, <2>2
<1> QED
  BY <1>4, <1>5, <1>6

LEMMA NumbersLeadBack == job \in Jobs => PartyNumbersIdentifyKeys
<1> SUFFICES ASSUME job \in Jobs, NEW c \in Clients
             PROVE  /\ peer_key(Parties, party_number(Parties, c)) = {c}
                    /\ \A p \in Clients \ {c} :
                           party_number(Parties, p) # party_number(Parties, c)
  BY DEF PartyNumbersIdentifyKeys
<1>1. \A i \in DOMAIN Parties : party_number(Parties, Parties[i]) = i
  BY JobFacts, PartyNumberOfIndex
<1>2. PICK i \in DOMAIN Parties : c = Parties[i]
  BY DEF Clients
<1>3. peer_key(Parties, i) = {Parties[i]}
  BY <1>2 DEF peer_key
<1> QED
  BY <1>1, <1>2, <1>3 DEF Clients

\* In every session exactly one of two participants dials the other
\* (SessionState::connections), whatever the number of participants.
THEOREM OneInitiator == Spec => []OneInitiatorPerPair
<1>1. TypeInv => OneInitiatorPerPair
  BY EitherDials DEF TypeInv
<1> QED
  BY <1>1, TypeInit, TypeNext, PTL DEF Spec

\* Session::is_active holds exactly when all the registrations the drivers owe
\* have arrived, whatever the number of participants: only dialled peers are
\* ever registered, and of two participants one dials.
THEOREM ActiveExactly == Spec => []ActiveWhenAllRegistered
<1>1. Init => TypeInv /\ ChannelInv
  BY TypeInit, ChannelInit
<1>2. TypeInv /\ ChannelInv /\ [Next]_vars => TypeInv' /\ ChannelInv'
  BY TypeNext, ChannelNext
<1> QED
  BY <1>1, <1>2, ActiveIsRegistered, PTL DEF Spec

\* The party number of a key leads back to that key and to no other one
\* (SessionState::party_number, SessionState::peer_key), whatever the number
\* of participants.
THEOREM PartyNumbers == Spec => []PartyNumbersIdentifyKeys
<1>1. TypeInv => PartyNumbersIdentifyKeys
  BY NumbersLeadBack DEF TypeInv
<1> QED
  BY <1>1, TypeInit, TypeNext, PTL DEF Spec

-----------------------------------------------------------------------------
(* Whom a round is sent to                                                 *)

\* The more clients, the higher the count.
LEMMA CountGrows ==
    ASSUME job \in Jobs, NEW S, NEW T, S \subseteq T, T \subseteq Clients
    PROVE  /\ Cardinality(S) \in Nat /\ Cardinality(T) \in Nat
           /\ Cardinality(S) <= Cardinality(T)
           /\ S # T => Cardinality(S) + 1 <= Cardinality(T)
<1>1. IsFiniteSet(T)
  BY ClientsFinite, FS_Subset
<1>2. IsFiniteSet(S) /\ Cardinality(S) <= Cardinality(T)
      /\ (Cardinality(S) = Cardinality(T) => S = T)
  BY <1>1, FS_Subset
<1>3. Cardinality(S) \in Nat /\ Cardinality(T) \in Nat
  BY <1>1, <1>2, FS_CardinalityType
<1> QED
  BY <1>2, <1>3

LEMMA CountAll ==
    ASSUME job \in Jobs, NEW c \in Clients, NEW T, T \subseteq Clients \ {c},
           Cardinality(T) >= Len(Parties) - 1
    PROVE  T = Clients \ {c}
<1>1. Len(Parties) \in Nat /\ Cardinality(Clients) = Len(Parties)
  BY ClientsFinite
<1>2. Cardinality(Clients \ {c}) \in Nat
      /\ Cardinality(Clients \ {c}) + 1 <= Cardinality(Clients)
  BY CountGrows
<1>3. /\ Cardinality(T) \in Nat
      /\ T # Clients \ {c} => Cardinality(T) + 1 <= Cardinality(Clients \ {c})
  BY CountGrows
<1> QED
  BY <1>1, <1>2, <1>3

\* No two clients have the same number, in the session or among the key
\* indices.
LEMMA NumberInjective ==
    ASSUME job \in Jobs, NEW p \in Clients, NEW q \in Clients, NEW r,
           Number(p, r) = Number(q, r)
    PROVE  p = q
<1> DEFINE T(x) == {y \in Clients : KeyIndex[y] <= KeyIndex[x]}
<1>0. /\ KeyIndex[p] \in Nat /\ KeyIndex[q] \in Nat
      /\ \A x \in Clients : x \in Keys /\ KeyIndex[x] \in Nat
  BY JobFacts, KeyIndexAssumption
<1>1. CASE ~IsOffline(r)
  <2>1. party_number(Parties, p) = party_number(Parties, q)
    BY <1>1 DEF Number
  <2>2. PICK i \in DOMAIN Parties : Parties[i] = p
    BY DEF Clients
  <2>3. PICK j \in DOMAIN Parties : Parties[j] = q
    BY DEF Clients
  <2>4. party_number(Parties, p) = i /\ party_number(Parties, q) = j
    BY <2>2, <2>3, JobFacts, PartyNumberOfIndex
  <2> QED
    BY <2>1, <2>2, <2>3, <2>4
<1>2. CASE IsOffline(r)
  <2>1. Cardinality(T(p)) = Cardinality(T(q))
    BY <1>2 DEF Number
  <2>2. ASSUME NEW x \in Clients, NEW y \in Clients, KeyIndex[x] <= KeyIndex[y],
               Cardinality(T(x)) = Cardinality(T(y))
        PROVE  x = y
    <3>1. T(x) \subseteq T(y)
      BY <1>0, <2>2
    <3>2. T(x) = T(y)
      <4>1. T(y) \subseteq Clients
        OBVIOUS
      <4> HIDE DEF T
      <4>2. /\ Cardinality(T(x)) \in Nat
            /\ T(x) # T(y) => Cardinality(T(x)) + 1 <= Cardinality(T(y))
        BY <3>1, <4>1, CountGrows
      <4> QED
        BY <2>2, <4>2
    <3>3. y \in T(y)
      BY <1>0
    <3>4. KeyIndex[y] <= KeyIndex[x]
      BY <3>2, <3>3
    <3> QED
      BY <1>0, <2>2, <3>4, KeyIndexAssumption
  <2>3. KeyIndex[p] <= KeyIndex[q] \/ KeyIndex[q] <= KeyIndex[p]
    BY <1>0
  <2> HIDE DEF T
  <2> QED
    BY <2>1, <2>2, <2>3
<1> QED
  BY <1>1, <1>2

\* Nobody is sent the message of a round twice.
LEMMA ReceiversOnce ==
    ASSUME job \in Jobs, NEW c \in Clients, NEW r,
           NEW i \in DOMAIN receivers(c, r), NEW j \in DOMAIN receivers(c, r),
           receivers(c, r)[i] = receivers(c, r)[j]
    PROVE  i = j
<1> DEFINE others == recipients(Parties, c)
<1>0. /\ Parties \in Seq(Keys) /\ DistinctKeys(Parties)
      /\ Len(Parties) \in Nat /\ Len(Parties) > 1 /\ DOMAIN Parties = 1..Len(Parties)
  BY JobFacts
<1>1. PICK p \in DOMAIN Parties : Parties[p] = c
  BY DEF Clients
<1>2. others = [k \in 1..(Len(Parties) - 1) |->
                   IF k < p THEN Parties[k] ELSE Parties[k + 1]]
  BY <1>0, <1>1, RecipientsOfIndex
<1>3. ASSUME NEW k \in DOMAIN others, NEW l \in DOMAIN others, others[k] = others[l]
      PROVE  k = l
  <2>1. k \in 1..(Len(Parties) - 1) /\ l \in 1..(Len(Parties) - 1)
    BY <1>0, <1>2
  <2>2. PICK x \in DOMAIN Parties : x = (IF k < p THEN k ELSE k + 1) /\ others[k] = Parties[x]
    BY <1>0, <1>1, <1>2, <2>1
  <2>3. PICK y \in DOMAIN Parties : y = (IF l < p THEN l ELSE l + 1) /\ others[l] = Parties[y]
    BY <1>0, <1>1, <1>2, <2>1
  <2>4. x = y
    BY <1>0, <1>3, <2>2, <2>3 DEF DistinctKeys
  <2> QED
    BY <1>0, <1>1, <2>1, <2>2, <2>3, <2>4
<1>4. others \in Seq(Clients)
  BY ReceiversFacts
<1> HIDE DEF others
<1>5. CASE ~PeerToPeer(r)
  BY <1>3, <1>5 DEF receivers, others
<1>6. CASE PeerToPeer(r)
  <2>1. /\ i \in DOMAIN others /\ j \in DOMAIN others
        /\ Parties[Number(others[i], r)] = Parties[Number(others[j], r)]
    BY <1>6 DEF receivers, others
  <2>2. others[i] \in Clients /\ others[j] \in Clients
    BY <1>4, <2>1
  <2>3. Number(others[i], r) = Number(others[j], r)
    BY <1>0, <2>1, <2>2, NumberFacts DEF DistinctKeys
  <2>4. others[i] = others[j]
    BY <2>2, <2>3, NumberInjective
  <2> QED
    BY <1>3, <2>1, <2>4
<1> QED
  BY <1>5, <1>6

-----------------------------------------------------------------------------
(* Rounds in step                                                          *)

\* Round r is s or comes before it.
Upto(r, s) ==
    r.driver < s.driver \/ (r.driver = s.driver /\ r.number <= s.number)

Reached(p, r) == Upto(r, round[p])

Over == {"closing", "leaving", "done"}

\* c has had what it needs of round r.
Passed(c, r) == (Reached(c, r) /\ r # round[c]) \/ phase[c] \in Over

\* Whose messages of round r for c are no longer on their way.
Taken(c, r) ==
    {p \in Clients \ {c} : Reached(p, r) /\ ~OnWay("Round", r, p, c)}

SetupInv ==
    \A c \in Clients :
        /\ phase[c] = "setup" => round[c].driver = 0
        /\ round[c].driver = 0 => round[c].number = 0

\* A client sends the message of a round once, when it begins the round.
SentInv ==
    \A p, c \in Clients : \A r \in Rounds :
        /\ Single("Round", r, p, c)
        /\ OnWay("Round", r, p, c) => p # c /\ Reached(p, r)

CountInv ==
    \A c \in Clients : \A r \in Rounds :
        r.driver = round[c].driver => buffer[c][r.number] <= Cardinality(Taken(c, r))

PassedInv ==
    \A c \in Clients : \A r \in Rounds :
        Passed(c, r) => Taken(c, r) = Clients \ {c}

RoundInv == SetupInv /\ SentInv /\ CountInv /\ PassedInv

\* A step that puts nothing on the way but what c sends for a round it begins.
Moves(c) ==
    \A p, x \in Clients : \A r \in Rounds :
        /\ Reached(p, r) => Reached(p, r)'
        /\ OnWay("Round", r, p, x)' =>
               \/ OnWay("Round", r, p, x)
               \/ p = c /\ x # c /\ ~Reached(c, r) /\ Reached(c, r)'
        /\ Single("Round", r, p, x)'

LEMMA TakenGrows ==
    ASSUME TypeInv, UNCHANGED job, NEW c \in Clients, Moves(c),
           NEW x \in Clients, NEW r \in Rounds
    PROVE  /\ Taken(x, r) \subseteq Taken(x, r)' /\ Taken(x, r)' \subseteq Clients \ {x}
           /\ Cardinality(Taken(x, r)) \in Nat /\ Cardinality(Taken(x, r)') \in Nat
           /\ Cardinality(Taken(x, r)) <= Cardinality(Taken(x, r)')
           /\ Taken(x, r)' # Taken(x, r) =>
                  Cardinality(Taken(x, r)) + 1 <= Cardinality(Taken(x, r)')
<1>1. Clients' = Clients
  BY SameTypes
<1>2. ASSUME NEW p \in Taken(x, r) PROVE p \in Taken(x, r)'
  <2>1. p \in Clients /\ p # x /\ Reached(p, r) /\ ~OnWay("Round", r, p, x)
    BY DEF Taken
  <2>2. Reached(p, r)' /\ ~OnWay("Round", r, p, x)'
    BY <2>1 DEF Moves
  <2> QED
    BY <1>1, <2>1, <2>2 DEF Taken
<1>3. Taken(x, r)' \subseteq Clients \ {x}
  BY <1>1 DEF Taken
<1>4. PICK S, T : S = Taken(x, r) /\ T = Taken(x, r)'
  OBVIOUS
<1>5. S \subseteq T /\ T \subseteq Clients
  BY <1>2, <1>3, <1>4
<1>6. /\ Cardinality(S) \in Nat /\ Cardinality(T) \in Nat
      /\ Cardinality(S) <= Cardinality(T)
      /\ S # T => Cardinality(S) + 1 <= Cardinality(T)
  BY <1>5, CountGrows DEF TypeInv
<1> QED
  BY <1>2, <1>3, <1>4, <1>6

LEMMA BufferTyped ==
    ASSUME TypeInv, NEW c \in Clients, NEW r \in Rounds
    PROVE  buffer[c][r.number] \in Nat
<1>1. c \in Keys /\ Len(Parties) \in Nat /\ Len(Parties) > 1
  BY JobFacts DEF TypeInv
<1>2. r.number \in 1..MaxRounds
  BY DEF Rounds
<1>3. buffer \in [Keys -> [1..MaxRounds -> 0..(Len(Parties) - 2)]]
  BY DEF TypeInv, ClientsOK, RoundsOK
<1>4. buffer[c][r.number] \in 0..(Len(Parties) - 2)
  BY <1>1, <1>2, <1>3
<1> QED
  BY <1>1, <1>4

LEMMA RoundFields ==
    ASSUME TypeInv
    PROVE  /\ \A r \in Rounds : /\ r.driver \in 1..Len(Drivers) /\ r.number \in 1..MaxRounds
                                /\ r.driver \in Nat /\ r.number \in Nat
                                /\ r.number <= Drivers[r.driver]
                                /\ Drivers[r.driver] \in 1..MaxRounds
                                /\ r = [driver |-> r.driver, number |-> r.number]
           /\ \A c \in Clients : /\ round[c].driver \in Nat /\ round[c].number \in Nat
                                 /\ round[c].driver > 0 => round[c] \in Rounds
           /\ round \in [Keys -> [driver : 0..Len(Drivers), number : 0..MaxRounds]]
           /\ Clients \subseteq Keys
<1>0. job \in Jobs /\ Clients \subseteq Keys
  BY JobFacts DEF TypeInv
<1>1. /\ round \in [Keys -> [driver : 0..Len(Drivers), number : 0..MaxRounds]]
      /\ \A c \in Keys : round[c].driver > 0 => round[c] \in Rounds
  BY DEF TypeInv, ClientsOK, RoundsOK
<1>2. ASSUME NEW r \in Rounds
      PROVE  /\ r.driver \in 1..Len(Drivers) /\ r.number \in 1..MaxRounds
             /\ r.number <= Drivers[r.driver]
             /\ r = [driver |-> r.driver, number |-> r.number]
  BY DEF Rounds
<1>3. Len(Drivers) \in Nat /\ \A d \in 1..Len(Drivers) : Drivers[d] \in 1..MaxRounds
  BY <1>0, DriverFacts
<1>4. ASSUME NEW c \in Clients
      PROVE  round[c].driver \in Nat /\ round[c].number \in Nat
  BY <1>0, <1>1, <1>3 DEF MaxRounds
<1> QED
  BY <1>0, <1>1, <1>2, <1>3, <1>4 DEF MaxRounds

\* What is left to show of a step in which c takes part.
LEMMA RoundMove ==
    ASSUME TypeInv, RoundInv, UNCHANGED job, NEW c \in Clients, Moves(c),
           \A x \in Clients \ {c} :
               round'[x] = round[x] /\ buffer'[x] = buffer[x] /\ phase'[x] = phase[x],
           phase'[c] = "setup" => phase[c] = "setup" /\ round'[c] = round[c],
           round'[c] = round[c] \/ round'[c] \in Rounds,
           \A r \in Rounds : r.driver = round'[c].driver =>
               \/ buffer'[c][r.number] = 0
               \/ r.driver = round[c].driver /\ buffer'[c][r.number] = buffer[c][r.number]
               \/ buffer'[c][r.number] <= Cardinality(Taken(c, r)'),
           \A r \in Rounds : Passed(c, r)' =>
               Passed(c, r) \/ Taken(c, r)' = Clients \ {c}
    PROVE  RoundInv'
<1>1. Clients' = Clients /\ Rounds' = Rounds
  BY SameTypes
<1>2. SetupInv'
  <2>1. \A r \in Rounds : r.driver # 0
    BY RoundFields
  <2> QED
    BY <1>1, <2>1 DEF RoundInv, SetupInv
<1>3. SentInv'
  <2> SUFFICES ASSUME NEW p \in Clients, NEW x \in Clients, NEW r \in Rounds
               PROVE  /\ Single("Round", r, p, x)'
                      /\ OnWay("Round", r, p, x)' => p # x /\ Reached(p, r)'
    BY <1>1 DEF SentInv
  <2>1. OnWay("Round", r, p, x) => p # x /\ Reached(p, r)
    BY DEF RoundInv, SentInv
  <2> QED
    BY <2>1 DEF Moves
<1>4. CountInv'
  <2> SUFFICES ASSUME NEW x \in Clients, NEW r \in Rounds, r.driver = round'[x].driver
               PROVE  buffer'[x][r.number] <= Cardinality(Taken(x, r)')
    BY <1>1 DEF CountInv
  <2>1. /\ Cardinality(Taken(x, r)) \in Nat /\ Cardinality(Taken(x, r)') \in Nat
        /\ Cardinality(Taken(x, r)) <= Cardinality(Taken(x, r)')
    BY TakenGrows
  <2>2. CASE buffer'[x][r.number] = 0
    BY <2>1, <2>2
  <2>3. CASE r.driver = round[x].driver /\ buffer'[x][r.number] = buffer[x][r.number]
    <3>1. buffer[x][r.number] <= Cardinality(Taken(x, r))
      BY <2>3 DEF RoundInv, CountInv
    <3>2. buffer[x][r.number] \in Int
      BY BufferTyped
    <3> QED
      BY <2>1, <2>3, <3>1, <3>2
  <2> QED
    BY <2>2, <2>3
<1>5. PassedInv'
  <2> SUFFICES ASSUME NEW x \in Clients, NEW r \in Rounds, Passed(x, r)'
               PROVE  Taken(x, r)' = Clients \ {x}
    BY <1>1 DEF PassedInv
  <2>1. CASE Passed(x, r)
    <3>1. Taken(x, r) = Clients \ {x}
      BY <2>1 DEF RoundInv, PassedInv
    <3> QED
      BY <3>1, TakenGrows
  <2>2. CASE ~Passed(x, r)
    <3>1. x = c
      BY <2>2 DEF Passed, Reached
    <3> QED
      BY <2>2, <3>1
  <2> QED
    BY <2>1, <2>2
<1> QED
  BY <1>2, <1>3, <1>4, <1>5 DEF RoundInv

\* Every other step.
LEMMA RoundFrame ==
    ASSUME TypeInv, RoundInv, UNCHANGED <<job, round, buffer>>,
           \A x \in Clients : /\ phase'[x] \in Over => phase[x] \in Over
                              /\ phase'[x] = "setup" => phase[x] = "setup",
           \A p, x \in Clients : \A r \in Rounds : NoneAdded("Round", r, p, x)
    PROVE  RoundInv'
<1>1. Clients' = Clients /\ Rounds' = Rounds /\ Owner \in Clients
  BY SameTypes, JobFacts DEF TypeInv
<1>2. Moves(Owner)
  BY DEF Moves, NoneAdded, RoundInv, SentInv, Reached
<1>3. PICK o \in Clients : o = Owner
  BY <1>1
<1>4. Moves(o)
  BY <1>2, <1>3
<1>5. SetupInv'
  BY <1>1 DEF RoundInv, SetupInv
<1>6. SentInv'
  BY <1>1 DEF RoundInv, SentInv, NoneAdded, Reached
<1>7. CountInv'
  <2> SUFFICES ASSUME NEW x \in Clients, NEW r \in Rounds, r.driver = round[x].driver
               PROVE  buffer[x][r.number] <= Cardinality(Taken(x, r)')
    BY <1>1 DEF CountInv
  <2>1. /\ Cardinality(Taken(x, r)) \in Nat /\ Cardinality(Taken(x, r)') \in Nat
        /\ Cardinality(Taken(x, r)) <= Cardinality(Taken(x, r)')
    BY <1>4, TakenGrows
  <2>2. buffer[x][r.number] <= Cardinality(Taken(x, r))
    BY DEF RoundInv, CountInv
  <2>3. buffer[x][r.number] \in Int
    BY BufferTyped
  <2> QED
    BY <2>1, <2>2, <2>3
<1>8. PassedInv'
  <2> SUFFICES ASSUME NEW x \in Clients, NEW r \in Rounds, Passed(x, r)'
               PROVE  Taken(x, r)' = Clients \ {x}
    BY <1>1 DEF PassedInv
  <2>1. Passed(x, r)
    BY DEF Passed, Reached
  <2>2. Taken(x, r) = Clients \ {x}
    BY <2>1 DEF RoundInv, PassedInv
  <2> QED
    BY <1>4, <2>2, TakenGrows
<1> QED
  BY <1>5, <1>6, <1>7, <1>8 DEF RoundInv

LEMMA RoundInit == Init => RoundInv
<1> SUFFICES ASSUME Init PROVE RoundInv
  OBVIOUS
<1>1. /\ \A c \in Clients : /\ c \in Keys /\ toServer[c] = <<>> /\ toClient[c] = <<>>
                            /\ round[c] = NoRound /\ phase[c] = "setup"
                            /\ round[c].driver = 0 /\ round[c].number = 0
      /\ job \in Jobs
  BY JobFacts DEF Init, NoRound
<1>2. \A m : ~Has(<<>>, m) /\ Once(<<>>, m)
  BY DEF Has, Once
<1>3. SetupInv /\ SentInv
  BY <1>1, <1>2 DEF SetupInv, SentInv, Single, OnWay
<1>4. ASSUME NEW c \in Clients, NEW r \in Rounds
      PROVE  ~(r.driver = round[c].driver) /\ ~Passed(c, r)
  <2>1. r.driver \in 1..Len(Drivers) /\ Len(Drivers) \in Nat
    BY <1>1, DriverFacts DEF Rounds
  <2>2. r.driver # 0 /\ ~(r.driver < 0)
    BY <2>1
  <2> QED
    BY <1>1, <2>2 DEF Passed, Reached, Upto, Over
<1> QED
  BY <1>3, <1>4 DEF RoundInv, CountInv, PassedInv

LEMMA RelayAdds ==
    ASSUME TypeInv, NEW c \in Keys, Connect(c) \/ Handle(c),
           NEW type \in Carried, NEW r, NEW a \in Clients, NEW b \in Clients
    PROVE  NoneAdded(type, r, a, b)
<1>1. CASE Connect(c)
  <2>1. c \in Clients /\ UNCHANGED toClient
    BY <1>1 DEF Connect
  <2>2. PICK msgs \in Seq(Messages) :
            /\ Requests(c, msgs)
            /\ \A n \in DOMAIN msgs : msgs[n].type = "NewSession"
    BY <1>1, ConnectSays
  <2>3. ~Has(msgs, Msg(type, b, r))
    BY <2>2 DEF Has, Msg, Carried, PeerSays
  <2> QED
    BY <2>1, <2>2, <2>3, ClientCarries DEF NoneAdded
<1>2. CASE Handle(c)
  <2>1. CASE UNCHANGED <<toServer, toClient>>
    BY <2>1, NothingCarried
  <2>2. CASE /\ toServer[c] # <<>> /\ Returned(c)
             /\ \/ UNCHANGED toClient
                \/ \E word \in {"SessionCreated", "SessionFinished", "Error"} :
                       Send(c, Word(word))
    <3>1. c \in Clients
      BY <2>2, FirstTyped
    <3>2. \A word \in {"SessionCreated", "SessionFinished", "Error"} :
              Word(word) \in Messages /\ Word(word).type \notin Carried
      BY WordMessage DEF TypeInv, MessageTypes, Carried, PeerSays
    <3> QED
      BY <2>2, <3>1, <3>2, NothingCarried
  <2>3. CASE toServer[c] # <<>> /\ RelayTo(c, First(c).peer)
    BY <2>3, RelayCarries
  <2> QED
    BY <1>2, <2>1, <2>2, <2>3
       DEF Handle, NewSession, ReplySessionCreated, SessionConnection,
           PeerHandshake, Touch, RelayRound, CloseSession, RemoveSession,
           ReplySessionFinished, HandleError, Request, TypeInv, HandlerOK
<1> QED
  BY <1>1, <1>2

LEMMA WaiterSays ==
    ASSUME TypeInv, Waiter
    PROVE  \/ UNCHANGED toClient
           \/ \E d \in Clients : \E x \in Messages :
                  /\ d = Parties[waiter.next] /\ x = Word(waiter.msg) /\ x.type = waiter.msg
                  /\ Send(d, x) /\ x.type \in {"SessionReady", "SessionActive"}
<1>1. CASE NotifyPeer
  <2>1. Parties[waiter.next] \in Clients
    <3>1. waiter.next \in Nat \ {0} /\ waiter.next <= Len(Parties)
          /\ Parties \in Seq(Keys)
      BY <1>1, JobFacts DEF NotifyPeer, TypeInv, RelayOK
    <3>2. waiter.next \in DOMAIN Parties
      BY <3>1
    <3> QED
      BY <3>2 DEF Clients
  <2>2. waiter.msg \in {"SessionReady", "SessionActive"}
    BY DEF TypeInv, RelayOK
  <2>3. Word(waiter.msg) \in Messages /\ Word(waiter.msg).type = waiter.msg
    BY <2>2, WordMessage DEF TypeInv, MessageTypes
  <2> QED
    BY <1>1, <2>1, <2>2, <2>3 DEF NotifyPeer
<1> QED
  BY <1>1 DEF Waiter, Poll, NotifyPeers, NotifyReturn

LEMMA RoundRelay ==
    ASSUME TypeInv, RoundInv, (\E c \in Keys : Connect(c) \/ Handle(c)) \/ Waiter
    PROVE  RoundInv'
<1>1. UNCHANGED clients
  BY DEF Connect, Handle, NewSession, ReplySessionCreated, SessionConnection,
         PeerHandshake, Touch, RelayRound, CloseSession, RemoveSession,
         ReplySessionFinished, Waiter, Poll, NotifyPeers, NotifyPeer, NotifyReturn
<1>2. UNCHANGED <<job, round, buffer, phase>>
  BY <1>1 DEF clients
<1>3. ASSUME NEW p \in Clients, NEW x \in Clients, NEW r \in Rounds
      PROVE  NoneAdded("Round", r, p, x)
  <2>0. "Round" \in Carried
    BY DEF Carried
  <2>1. CASE \E c \in Keys : Connect(c) \/ Handle(c)
    BY <2>0, <2>1, RelayAdds
  <2>2. CASE Waiter
    <3>1. UNCHANGED toServer /\ p \in Keys
      BY <2>2, JobFacts DEF Waiter, Poll, NotifyPeers, NotifyPeer, NotifyReturn, TypeInv
    <3>2. \/ UNCHANGED toClient
          \/ \E d \in Clients : \E y \in Messages : Send(d, y) /\ y.type \notin Carried
      BY <2>2, WaiterSays DEF Carried, PeerSays
    <3> QED
      BY <2>0, <3>1, <3>2, NothingCarried
  <2> QED
    BY <2>1, <2>2
<1> QED
  BY <1>2, <1>3, RoundFrame

\* A step of c that sends nothing for a round.
LEMMA QuietMoves ==
    ASSUME TypeInv, RoundInv, NEW c \in Clients,
           \/ toClient[c] # <<>> /\ toClient' = [toClient EXCEPT ![c] = Tail(@)]
           \/ UNCHANGED toClient,
           NEW msgs \in Seq(Messages), Requests(c, msgs),
           \A n \in DOMAIN msgs : msgs[n].type # "Round",
           UNCHANGED round
    PROVE  /\ Moves(c)
           /\ \A p, x \in Clients : \A r \in Rounds : NoneAdded("Round", r, p, x)
<1>1. ASSUME NEW p \in Clients, NEW x \in Clients, NEW r \in Rounds
      PROVE  NoneAdded("Round", r, p, x)
  <2>1. ~Has(msgs, Msg("Round", x, r))
    BY DEF Has, Msg
  <2> QED
    BY <2>1, ClientCarries DEF NoneAdded
<1>2. Moves(c)
  BY <1>1 DEF Moves, NoneAdded, RoundInv, SentInv, Reached
<1> QED
  BY <1>1, <1>2

\* d is the round after r.
Follows(r, d) ==
    /\ Upto(r, d) /\ ~Upto(d, r)
    /\ \A s \in Rounds : Upto(s, d) /\ s # d => Upto(s, r)

\* A step in which c begins the next round, or fails at it.
LEMMA DispatchMoves ==
    ASSUME TypeInv, RoundInv, NEW c \in Clients,
           toClient[c] # <<>>, toClient' = [toClient EXCEPT ![c] = Tail(@)],
           NEW d \in Rounds, Follows(round[c], d), Dispatch(c, d)
    PROVE  Moves(c)
<1> DEFINE to == receivers(c, d)
           msgs == [i \in DOMAIN to |-> Msg("Round", to[i], d)]
<1>1. CASE UNCHANGED <<toServer, round>>
  <2>1. Requests(c, <<>>) /\ <<>> \in Seq(Messages)
    BY <1>1, NoRequests
  <2>2. \A n \in DOMAIN <<>> : <<>>[n].type # "Round"
    OBVIOUS
  <2> QED
    BY <1>1, <2>1, <2>2, QuietMoves
<1>2. CASE /\ \A i \in DOMAIN to : to[i] # c
           /\ round' = [round EXCEPT ![c] = d]
           /\ Requests(c, msgs)
  <2>0. /\ to \in Seq(Clients) /\ c \in Keys
        /\ \A i, j \in DOMAIN to : to[i] = to[j] => i = j
    BY ReceiversFacts, ReceiversOnce, JobFacts DEF TypeInv
  <2> HIDE DEF to
  <2>1. \A i \in DOMAIN to : Msg("Round", to[i], d) \in Messages
    <3> SUFFICES ASSUME NEW i \in DOMAIN to PROVE Msg("Round", to[i], d) \in Messages
      OBVIOUS
    <3>1. to[i] \in Clients
      BY <2>0
    <3> QED
      BY <3>1 DEF Msg, Messages, MessageTypes
  <2>2. msgs \in Seq(Messages) /\ DOMAIN msgs = DOMAIN to
    BY <2>0, <2>1
  <2>3. ASSUME NEW x \in Clients, NEW r \in Rounds, Has(msgs, Msg("Round", x, r))
        PROVE  r = d /\ x # c /\ Once(msgs, Msg("Round", x, r))
    <3>1. PICK n \in DOMAIN to : Msg("Round", to[n], d) = Msg("Round", x, r)
      BY <2>3 DEF Has
    <3>2. to[n] = x /\ r = d
      BY <3>1 DEF Msg
    <3>3. ASSUME NEW k \in DOMAIN msgs, NEW l \in DOMAIN msgs,
                 msgs[k] = Msg("Round", x, r), msgs[l] = Msg("Round", x, r)
          PROVE  k = l
      <4>1. to[k] = x /\ to[l] = x
        BY <2>2, <3>3 DEF Msg
      <4> QED
        BY <2>0, <2>2, <4>1
    <3> QED
      BY <1>2, <3>2, <3>3 DEF Once
  <2>4. round'[c] = d /\ \A p \in Clients : p # c => round'[p] = round[p]
    BY <1>2, RoundFields
  <2> HIDE DEF msgs
  <2> SUFFICES ASSUME NEW p \in Clients, NEW x \in Clients, NEW r \in Rounds
               PROVE  /\ Reached(p, r) => Reached(p, r)'
                      /\ OnWay("Round", r, p, x)' =>
                             \/ OnWay("Round", r, p, x)
                             \/ p = c /\ x # c /\ ~Reached(c, r) /\ Reached(c, r)'
                      /\ Single("Round", r, p, x)'
    BY DEF Moves
  <2>5. Reached(p, r) => Reached(p, r)'
    <3>1. Upto(r, round[c]) => Upto(r, d)
      BY RoundFields DEF Follows, Upto
    <3> QED
      BY <2>4, <3>1 DEF Reached
  <2>6. r = d => ~Reached(c, r) /\ Reached(c, r)'
    <3>1. Upto(d, d)
      BY RoundFields DEF Upto
    <3> QED
      BY <2>4, <3>1 DEF Reached, Follows
  <2>7. Single("Round", r, p, x) /\ (OnWay("Round", r, p, x) => Reached(p, r))
    BY DEF RoundInv, SentInv
  <2>8. LET new == p = c /\ Has(msgs, Msg("Round", x, r))
        IN /\ OnWay("Round", r, p, x)' => OnWay("Round", r, p, x) \/ new
           /\ /\ Single("Round", r, p, x)
              /\ new => Once(msgs, Msg("Round", x, r)) /\ ~OnWay("Round", r, p, x)
              => Single("Round", r, p, x)'
    BY <1>2, <2>2, ClientCarries DEF msgs
  <2> QED
    BY <2>3, <2>5, <2>6, <2>7, <2>8
<1> QED
  BY <1>1, <1>2 DEF Dispatch

\* c takes up p's message of round r, which nobody sends again.
LEMMA TakenNow ==
    ASSUME TypeInv, RoundInv, UNCHANGED job, NEW c \in Clients, Moves(c),
           toClient[c] # <<>>, toClient' = [toClient EXCEPT ![c] = Tail(@)],
           NEW msgs \in Seq(Messages), Requests(c, msgs),
           NEW p \in Clients, NEW r \in Rounds, Head(toClient[c]) = Msg("Round", p, r)
    PROVE  /\ Cardinality(Taken(c, r)) \in Nat /\ Cardinality(Taken(c, r)') \in Nat
           /\ Cardinality(Taken(c, r)) + 1 <= Cardinality(Taken(c, r)')
<1>1. c \in Keys /\ toClient[c] \in Seq(Messages)
  BY JobFacts DEF TypeInv, ClientQueuesOK
<1>2. OnWay("Round", r, p, c)
  BY <1>1, QueueTail DEF OnWay
<1>3. Single("Round", r, p, c) /\ p # c /\ Reached(p, r)
  BY <1>2 DEF RoundInv, SentInv
<1>4. ~OnWay("Round", r, p, c)'
  BY <1>3, ClientCarries
<1>5. p \notin Taken(c, r) /\ p \in Taken(c, r)'
  BY <1>2, <1>3, <1>4, SameTypes DEF Taken, Moves
<1> QED
  BY <1>5, TakenGrows

\* RoundBuffer::is_ready: the messages counted are of all the others.
LEMMA ReadyMeansAll ==
    ASSUME TypeInv, RoundInv, UNCHANGED job, NEW c \in Clients, NEW r \in Rounds,
           r.driver = round[c].driver, is_ready(buffer[c][r.number] + 1),
           Cardinality(Taken(c, r)) \in Nat, Cardinality(Taken(c, r)') \in Nat,
           Cardinality(Taken(c, r)) + 1 <= Cardinality(Taken(c, r)')
    PROVE  Taken(c, r)' = Clients \ {c}
<1>1. /\ job.op \in {"keygen", "sign"} /\ job.threshold \in Nat
      /\ job.op = "sign" => Len(Parties) = job.threshold + 1
      /\ job \in Jobs /\ Len(Parties) \in Nat
  BY SessionRunAssumption, JobFacts DEF TypeInv, Parties
<1>2. buffer[c][r.number] + 1 = Len(Parties) - 1
  <2>1. CASE job.op = "keygen"
    BY <2>1 DEF is_ready
  <2>2. CASE job.op = "sign"
    <3>1. buffer[c][r.number] + 1 = job.threshold
      BY <2>2 DEF is_ready
    <3> QED
      BY <1>1, <2>2, <3>1
  <2> QED
    BY <1>1, <2>1, <2>2
<1>3. buffer[c][r.number] <= Cardinality(Taken(c, r)) /\ buffer[c][r.number] \in Nat
  BY BufferTyped DEF RoundInv, CountInv
<1>4. PICK T : T = Taken(c, r)'
  OBVIOUS
<1>5. T \subseteq Clients \ {c}
  BY <1>4, SameTypes DEF Taken
<1>6. Cardinality(T) >= Len(Parties) - 1
  BY <1>1, <1>2, <1>3, <1>4
<1> QED
  BY <1>1, <1>4, <1>5, <1>6, CountAll

\* The order of the rounds, within a driver and from one to the next.
LEMMA NextRounds ==
    ASSUME TypeInv, NEW r \in Rounds
    PROVE  /\ r.number < Drivers[r.driver] =>
                  LET d == [r EXCEPT !.number = @ + 1]
                  IN d \in Rounds /\ d.driver = r.driver /\ Follows(r, d)
           /\ r.number = Drivers[r.driver] /\ r.driver < Len(Drivers) =>
                  LET d == [driver |-> r.driver + 1, number |-> 1]
                  IN d \in Rounds /\ Follows(r, d)
           /\ r.number = Drivers[r.driver] /\ r.driver = Len(Drivers) =>
                  \A s \in Rounds : Upto(s, r)
<1>0. /\ r.driver \in 1..Len(Drivers) /\ r.number \in 1..MaxRounds
      /\ r = [driver |-> r.driver, number |-> r.number]
      /\ Drivers[r.driver] \in 1..MaxRounds
      /\ \A s \in Rounds :
             /\ s.driver \in 1..Len(Drivers) /\ s.number \in 1..MaxRounds
             /\ s.number <= Drivers[s.driver]
             /\ s = [driver |-> s.driver, number |-> s.number]
  BY RoundFields
<1>1. Len(Drivers) \in Nat /\ \A d \in 1..Len(Drivers) : Drivers[d] \in 1..MaxRounds
  BY DriverFacts DEF TypeInv
<1>2. ASSUME r.number < Drivers[r.driver], NEW d, d = [r EXCEPT !.number = @ + 1]
      PROVE  d \in Rounds /\ d.driver = r.driver /\ Follows(r, d)
  <2>1. d = [driver |-> r.driver, number |-> r.number + 1]
    BY <1>0, <1>2
  <2>2. d \in Rounds
    BY <1>0, <1>2, <2>1 DEF Rounds, MaxRounds
  <2>3. Upto(r, d) /\ ~Upto(d, r)
    BY <1>0, <2>1 DEF Upto
  <2>4. ASSUME NEW s \in Rounds, Upto(s, d), s # d PROVE Upto(s, r)
    <3>1. s.driver = d.driver => s.number # d.number
      BY <1>0, <2>1, <2>4
    <3> QED
      BY <1>0, <2>1, <2>4, <3>1 DEF Upto
  <2> QED
    BY <2>1, <2>2, <2>3, <2>4 DEF Follows
<1>3. ASSUME r.number = Drivers[r.driver], r.driver < Len(Drivers),
             NEW d, d = [driver |-> r.driver + 1, number |-> 1]
      PROVE  d \in Rounds /\ Follows(r, d)
  <2>1. d \in Rounds
    <3>1. r.driver + 1 \in 1..Len(Drivers)
      BY <1>0, <1>1, <1>3
    <3> QED
      BY <1>1, <1>3, <3>1 DEF Rounds, MaxRounds
  <2>2. Upto(r, d) /\ ~Upto(d, r)
    BY <1>0, <1>3 DEF Upto
  <2>3. ASSUME NEW s \in Rounds, Upto(s, d), s # d PROVE Upto(s, r)
    <3>1. ~(s.driver = d.driver /\ s.number = d.number)
      BY <1>0, <1>3, <2>3
    <3>2. s.driver <= r.driver
      BY <1>0, <1>1, <1>3, <2>3, <3>1 DEF Upto
    <3> QED
      BY <1>0, <1>3, <3>2 DEF Upto
  <2> QED
    BY <2>1, <2>2, <2>3 DEF Follows
<1>4. ASSUME r.number = Drivers[r.driver], r.driver = Len(Drivers), NEW s \in Rounds
      PROVE  Upto(s, r)
  BY <1>0, <1>1, <1>4 DEF Upto
<1> QED
  BY <1>2, <1>3, <1>4

\* A client begins a round when it has everything of the round before.
LEMMA RoundBegins ==
    ASSUME TypeInv, RoundInv, UNCHANGED job, NEW c \in Clients, Moves(c),
           NEW d \in Rounds, Follows(round[c], d), Dispatch(c, d),
           \A x \in Clients \ {c} : buffer'[x] = buffer[x],
           \A s \in Rounds :
               \/ buffer'[c][s.number] = 0
               \/ d.driver = round[c].driver /\ buffer'[c][s.number] = buffer[c][s.number],
           \A s \in Rounds : s = round[c] => Taken(c, s)' = Clients \ {c}
    PROVE  RoundInv'
<1>0. c \in Keys /\ phase \in [Keys -> Phases] /\ Clients \subseteq Keys
  BY JobFacts DEF TypeInv, ClientsOK
<1>1. CASE round' = [round EXCEPT ![c] = d] /\ phase' = [phase EXCEPT ![c] = "running"]
  <2>1. /\ round'[c] = d /\ phase'[c] = "running"
        /\ \A x \in Clients \ {c} : round'[x] = round[x] /\ phase'[x] = phase[x]
    BY <1>0, <1>1, RoundFields
  <2>2. ASSUME NEW s \in Rounds, Passed(c, s)'
        PROVE  Passed(c, s) \/ Taken(c, s)' = Clients \ {c}
    <3>1. Upto(s, d) /\ s # d
      BY <2>1, <2>2 DEF Passed, Reached, Over
    <3>2. Upto(s, round[c])
      BY <3>1 DEF Follows
    <3> QED
      BY <3>2 DEF Passed, Reached
  <2> QED
    BY <2>1, <2>2, RoundMove
<1>2. CASE Fail(c) /\ UNCHANGED round
  <2>1. /\ phase'[c] = "failed" /\ round'[c] = round[c]
        /\ \A x \in Clients \ {c} : round'[x] = round[x] /\ phase'[x] = phase[x]
    BY <1>0, <1>2 DEF Fail
  <2>2. ASSUME NEW s \in Rounds, Passed(c, s)' PROVE Passed(c, s)
    BY <1>2, <2>1, <2>2 DEF Passed, Reached, Over
  <2>3. \A s \in Rounds : s.driver = round'[c].driver =>
            \/ buffer'[c][s.number] = 0
            \/ s.driver = round[c].driver /\ buffer'[c][s.number] = buffer[c][s.number]
    BY <1>2
  <2> QED
    BY <2>1, <2>2, <2>3, RoundMove
<1> QED
  BY <1>1, <1>2 DEF Dispatch

\* Bridge::handle_event.
LEMMA RoundHandles ==
    ASSUME TypeInv, RoundInv, UNCHANGED job, NEW c \in Clients,
           toClient[c] # <<>>, toClient' = [toClient EXCEPT ![c] = Tail(@)],
           NEW p \in Clients, NEW r \in Rounds, Head(toClient[c]) = Msg("Round", p, r),
           phase[c] = "running", HandleEvent(c, r)
    PROVE  RoundInv'
<1> DEFINE messages == buffer[c][r.number] + 1
<1>0. /\ c \in Keys /\ phase \in [Keys -> Phases] /\ Clients \subseteq Keys
      /\ r.number \in 1..MaxRounds
      /\ buffer \in [Keys -> [1..MaxRounds -> 0..(Len(Parties) - 2)]]
      /\ \A s \in Rounds : s.number \in 1..MaxRounds
  BY JobFacts, RoundFields DEF TypeInv, ClientsOK, RoundsOK
<1>1. PICK msgs \in Seq(Messages) :
          /\ Requests(c, msgs)
          /\ \A n \in DOMAIN msgs : msgs[n].type \in {"Round", "CloseSession"}
  BY DriverSays
<1>2. ASSUME Moves(c)
      PROVE  /\ Cardinality(Taken(c, r)) \in Nat /\ Cardinality(Taken(c, r)') \in Nat
             /\ Cardinality(Taken(c, r)) + 1 <= Cardinality(Taken(c, r)')
             /\ r.driver = round[c].driver /\ is_ready(messages) =>
                    Taken(c, r)' = Clients \ {c}
  <2>1. /\ Cardinality(Taken(c, r)) \in Nat /\ Cardinality(Taken(c, r)') \in Nat
        /\ Cardinality(Taken(c, r)) + 1 <= Cardinality(Taken(c, r)')
    BY <1>1, <1>2, TakenNow
  <2> QED
    BY <2>1, ReadyMeansAll
<1>3. ASSUME UNCHANGED <<toServer, round>> PROVE Moves(c)
  <2>1. Requests(c, <<>>) /\ <<>> \in Seq(Messages)
    BY <1>3, NoRequests
  <2>2. \A n \in DOMAIN <<>> : <<>>[n].type # "Round"
    OBVIOUS
  <2> QED
    BY <1>3, <2>1, <2>2, QuietMoves
<1>4. ASSUME UNCHANGED <<toServer, round>>, Fail(c) \/ UNCHANGED phase,
             \A x \in Clients \ {c} : buffer'[x] = buffer[x],
             \A s \in Rounds : s.driver = round[c].driver =>
                 \/ buffer'[c][s.number] = 0
                 \/ buffer'[c][s.number] = buffer[c][s.number]
                 \/ buffer'[c][s.number] <= Cardinality(Taken(c, s)')
      PROVE  RoundInv'
  <2>1. /\ phase'[c] \in {"failed", "running"}
        /\ \A x \in Clients \ {c} : round'[x] = round[x] /\ phase'[x] = phase[x]
    BY <1>0, <1>4 DEF Fail
  <2>2. ASSUME NEW s \in Rounds, Passed(c, s)' PROVE Passed(c, s)
    BY <1>4, <2>1, <2>2 DEF Passed, Reached, Over
  <2>3. Moves(c)
    BY <1>3, <1>4
  <2>4. \A s \in Rounds : s.driver = round'[c].driver =>
            \/ buffer'[c][s.number] = 0
            \/ s.driver = round[c].driver /\ buffer'[c][s.number] = buffer[c][s.number]
            \/ buffer'[c][s.number] <= Cardinality(Taken(c, s)')
    BY <1>4
  <2> QED
    BY <1>4, <2>1, <2>2, <2>3, <2>4, RoundMove
<1>5. ASSUME buffer' = [buffer EXCEPT ![c][r.number] = 0]
      PROVE  /\ \A x \in Clients \ {c} : buffer'[x] = buffer[x]
             /\ \A s \in Rounds : \/ buffer'[c][s.number] = 0
                                  \/ buffer'[c][s.number] = buffer[c][s.number]
  BY <1>0, <1>5
<1>6. CASE r.driver # round[c].driver
  BY <1>4, <1>6 DEF HandleEvent
<1>7. CASE r.driver = round[c].driver /\ ~is_ready(messages)
  <2>1. /\ buffer' = [buffer EXCEPT ![c][r.number] = messages]
        /\ UNCHANGED <<toServer, phase, round>>
    BY <1>7 DEF HandleEvent
  <2>2. \A x \in Clients \ {c} : buffer'[x] = buffer[x]
    BY <1>0, <2>1
  <2>3. ASSUME NEW s \in Rounds, s.driver = round[c].driver
        PROVE  \/ buffer'[c][s.number] = buffer[c][s.number]
               \/ buffer'[c][s.number] <= Cardinality(Taken(c, s)')
    <3>1. CASE s.number # r.number
      BY <1>0, <2>1, <3>1
    <3>2. CASE s.number = r.number
      <4>1. s = r
        BY <1>7, <2>3, <3>2, RoundFields
      <4>2. buffer'[c][r.number] = messages
        <5> HIDE DEF messages
        <5> QED
          BY <1>0, <2>1
      <4>3. buffer[c][r.number] <= Cardinality(Taken(c, r)) /\ buffer[c][r.number] \in Nat
        BY <1>7, BufferTyped DEF RoundInv, CountInv
      <4>4. /\ Cardinality(Taken(c, r)) \in Nat /\ Cardinality(Taken(c, r)') \in Nat
            /\ Cardinality(Taken(c, r)) + 1 <= Cardinality(Taken(c, r)')
        BY <1>2, <1>3, <2>1
      <4>5. buffer'[c][r.number] <= Cardinality(Taken(c, r)')
        BY <4>2, <4>3, <4>4
      <4> QED
        BY <4>1, <4>5
    <3> QED
      BY <3>1, <3>2
  <2> QED
    BY <1>4, <2>1, <2>2, <2>3
<1>8. CASE r.driver = round[c].driver /\ is_ready(messages)
  <2>0. Proceed(c, r)
    BY <1>8 DEF HandleEvent
  <2>1. CASE r.number # round[c].number
    BY <1>4, <1>5, <2>0, <2>1 DEF Proceed
  <2>2. CASE r.number = round[c].number
    <3>0. r = round[c]
      <4>1. round[c] = [driver |-> round[c].driver, number |-> round[c].number]
        BY <1>0, RoundFields
      <4> QED
        BY <1>8, <2>2, <4>1, RoundFields
    <3>1. CASE /\ r.number < Drivers[r.driver]
               /\ buffer' = [buffer EXCEPT ![c][r.number] = 0]
               /\ Dispatch(c, [r EXCEPT !.number = @ + 1])
      <4>1. PICK d \in Rounds : /\ d = [r EXCEPT !.number = @ + 1]
                                /\ d.driver = r.driver /\ Follows(r, d)
        BY <3>1, NextRounds
      <4>2. Dispatch(c, d) /\ Follows(round[c], d) /\ d.driver = round[c].driver
        BY <3>0, <3>1, <4>1
      <4>3. Moves(c)
        BY <4>2, DispatchMoves
      <4>4. \A s \in Rounds : s = round[c] => Taken(c, s)' = Clients \ {c}
        BY <1>2, <1>8, <3>0, <4>3
      <4> QED
        BY <1>5, <3>1, <4>2, <4>3, <4>4, RoundBegins
    <3>2. CASE /\ r.number = Drivers[r.driver] /\ r.driver < Len(Drivers)
               /\ StartDriver(c, r.driver + 1)
      <4>1. PICK d \in Rounds : /\ d = [driver |-> r.driver + 1, number |-> 1]
                                /\ Follows(r, d)
        BY <3>2, NextRounds
      <4>2. Dispatch(c, d) /\ Follows(round[c], d)
        BY <3>0, <3>2, <4>1 DEF StartDriver
      <4>3. Moves(c)
        BY <4>2, DispatchMoves
      <4>4. \A s \in Rounds : s = round[c] => Taken(c, s)' = Clients \ {c}
        BY <1>2, <1>8, <3>0, <4>3
      <4>5. /\ \A x \in Clients \ {c} : buffer'[x] = buffer[x]
            /\ \A s \in Rounds : buffer'[c][s.number] = 0
        BY <1>0, <3>2 DEF StartDriver
      <4> QED
        BY <4>2, <4>3, <4>4, <4>5, RoundBegins
    <3>3. CASE /\ r.number = Drivers[r.driver] /\ r.driver = Len(Drivers)
               /\ buffer' = [buffer EXCEPT ![c][r.number] = 0]
               /\ Finish(c) /\ UNCHANGED round
      <4>1. Moves(c)
        <5>1. CASE UNCHANGED toServer
          BY <1>3, <3>3, <5>1
        <5>2. CASE Requests(c, <<Word("CloseSession")>>)
          <6>1. Word("CloseSession") \in Messages /\ Word("CloseSession").type = "CloseSession"
            BY WordMessage DEF TypeInv, MessageTypes
          <6>2. <<Word("CloseSession")>> \in Seq(Messages)
                /\ \A n \in DOMAIN <<Word("CloseSession")>> :
                       <<Word("CloseSession")>>[n].type # "Round"
            BY <6>1
          <6> QED
            BY <3>3, <5>2, <6>2, QuietMoves
        <5> QED
          BY <3>3, <5>1, <5>2 DEF Finish
      <4>2. Taken(c, r)' = Clients \ {c}
        BY <1>2, <1>8, <4>1
      <4>3. /\ phase'[c] \in Over /\ round'[c] = round[c]
            /\ \A x \in Clients \ {c} : round'[x] = round[x] /\ phase'[x] = phase[x]
        BY <1>0, <3>3 DEF Finish, Over
      <4>4. ASSUME NEW s \in Rounds PROVE Passed(c, s) \/ Taken(c, s)' = Clients \ {c}
        <5>1. Upto(s, r)
          BY <3>3, NextRounds
        <5> QED
          BY <3>0, <4>2, <5>1 DEF Passed, Reached
      <4>5. \A s \in Rounds : s.driver = round'[c].driver =>
                \/ buffer'[c][s.number] = 0
                \/ s.driver = round[c].driver /\ buffer'[c][s.number] = buffer[c][s.number]
        BY <1>5, <3>3
      <4>6. phase'[c] # "setup" /\ \A x \in Clients \ {c} : buffer'[x] = buffer[x]
        BY <1>5, <3>3, <4>3 DEF Over
      <4> QED
        BY <4>1, <4>3, <4>4, <4>5, <4>6, RoundMove
    <3> QED
      BY <2>0, <2>2, <3>1, <3>2, <3>3 DEF Proceed
  <2> QED
    BY <2>1, <2>2
<1> QED
  BY <1>6, <1>7, <1>8

\* What a handshake makes a client send is of no round and asks
\* for no session.
LEMMA HandshakeSays ==
    ASSUME TypeInv, NEW c \in Clients, NEW p \in Clients
    PROVE  LET reply == <<Msg("Responder", p, NoRound)>>
               register == RegisterConnection(c, p)
               dial == [i \in DOMAIN connections(Parties, c) |->
                           Msg("Initiator", connections(Parties, c)[i], NoRound)]
           IN \A msgs \in {register, reply \o register, dial} :
                  /\ msgs \in Seq(Messages)
                  /\ \A n \in DOMAIN msgs :
                         msgs[n].type \notin {"Round", "NewSession", "CloseSession"}
<1> DEFINE reply == <<Msg("Responder", p, NoRound)>>
           register == RegisterConnection(c, p)
           mine == connections(Parties, c)
           dial == [i \in DOMAIN mine |-> Msg("Initiator", mine[i], NoRound)]
           Other == {m \in Messages : m.type \notin {"Round", "NewSession", "CloseSession"}}
<1>1. \A x \in Clients : \A type \in {"Initiator", "Responder", "SessionConnection"} :
          Msg(type, x, NoRound) \in Other
  BY DEF Msg, Messages, MessageTypes, PeerSays
<1>2. reply \in Seq(Other)
  BY <1>1
<1>3. register \in Seq(Other)
  <2>1. <<Msg("SessionConnection", p, NoRound)>> \in Seq(Other) /\ <<>> \in Seq(Other)
    BY <1>1
  <2> QED
    BY <2>1 DEF RegisterConnection
<1>4. mine \in Seq(Clients)
  BY ConnectionsTyped DEF TypeInv
<1>5. dial \in Seq(Other)
  <2> HIDE DEF mine, Other
  <2>1. \A i \in DOMAIN mine : Msg("Initiator", mine[i], NoRound) \in Other
    BY <1>1, <1>4
  <2> QED
    BY <1>4, <2>1
<1> HIDE DEF reply, register, dial
<1>6. reply \o register \in Seq(Other)
  BY <1>2, <1>3
<1>7. ASSUME NEW msgs \in Seq(Other)
      PROVE  /\ msgs \in Seq(Messages)
             /\ \A n \in DOMAIN msgs :
                    msgs[n].type \notin {"Round", "NewSession", "CloseSession"}
  BY <1>7
<1> QED
  BY <1>3, <1>5, <1>6, <1>7 DEF reply, register, dial

LEMMA FirstRound ==
    ASSUME TypeInv, RoundInv, NEW c \in Clients, phase[c] = "setup"
    PROVE  LET d == [driver |-> 1, number |-> 1]
           IN d \in Rounds /\ Follows(round[c], d) /\ \A s \in Rounds : s # round[c]
<1> DEFINE d == [driver |-> 1, number |-> 1]
<1>1. round[c].driver = 0
  BY DEF RoundInv, SetupInv
<1>2. d \in Rounds
  <2>1. 1 \in 1..Len(Drivers) /\ Drivers[1] \in 1..MaxRounds
    BY DriverFacts DEF TypeInv
  <2> QED
    BY <2>1 DEF Rounds, MaxRounds
<1>3. Follows(round[c], d)
  <2>1. Upto(round[c], d) /\ ~Upto(d, round[c])
    BY <1>1 DEF Upto
  <2>2. ASSUME NEW s \in Rounds, Upto(s, d), s # d PROVE FALSE
    <3>1. s.driver \in Nat \ {0} /\ s.number \in Nat \ {0}
          /\ s = [driver |-> s.driver, number |-> s.number]
      BY RoundFields
    <3>2. s.driver = 1 /\ s.number = 1
      BY <2>2, <3>1 DEF Upto
    <3> QED
      BY <2>2, <3>1, <3>2
  <2> QED
    BY <2>1, <2>2 DEF Follows
<1>4. \A s \in Rounds : s # round[c]
  BY <1>1, RoundFields
<1> QED
  BY <1>2, <1>3, <1>4

LEMMA RoundClient ==
    ASSUME TypeInv, RoundInv, NEW c \in Keys, Client(c)
    PROVE  RoundInv'
<1>0. UNCHANGED job /\ phase \in [Keys -> Phases] /\ Clients \subseteq Keys
  BY JobFacts
     DEF Client, OnSessionCreated, OnSessionReady, OnSessionActive,
         OnInitiator, OnResponder, OnRound, OnSessionFinished, OnError, Close,
         relay, TypeInv, ClientsOK
<1>1. ASSUME NEW type, Incoming(c, type)
      PROVE  /\ c \in Clients /\ toClient[c] # <<>>
             /\ toClient' = [toClient EXCEPT ![c] = Tail(@)]
             /\ Head(toClient[c]) \in Messages /\ Head(toClient[c]).type = type
  BY <1>0, <1>1, TakeTyped DEF Incoming
<1>2. ASSUME NEW type, Incoming(c, type), NEW msgs \in Seq(Messages),
             Requests(c, msgs), \A n \in DOMAIN msgs : msgs[n].type # "Round",
             UNCHANGED <<round, buffer>>,
             Fail(c) \/ PeerConnected(c) \/ UNCHANGED phase
                \/ (phase[c] \in Over /\ phase' = [phase EXCEPT ![c] = "leaving"])
      PROVE  RoundInv'
  <2>1. \A x \in Clients : /\ phase'[x] \in Over => phase[x] \in Over
                           /\ phase'[x] = "setup" => phase[x] = "setup"
    BY <1>0, <1>2 DEF Fail, PeerConnected, Over
  <2>2. \A p, x \in Clients : \A r \in Rounds : NoneAdded("Round", r, p, x)
    BY <1>1, <1>2, QuietMoves
  <2> QED
    BY <1>0, <1>2, <2>1, <2>2, RoundFrame
<1>3. ASSUME NEW type, Incoming(c, type), UNCHANGED <<toServer, round, buffer>>,
             Fail(c) \/ UNCHANGED phase
                \/ (phase[c] \in Over /\ phase' = [phase EXCEPT ![c] = "leaving"])
      PROVE  RoundInv'
  <2>1. Requests(c, <<>>) /\ <<>> \in Seq(Messages)
    BY <1>1, <1>3, NoRequests
  <2>2. \A n \in DOMAIN <<>> : <<>>[n].type # "Round"
    OBVIOUS
  <2> QED
    BY <1>2, <1>3, <2>1, <2>2
<1>4. CASE OnSessionCreated(c)
  BY <1>3, <1>4 DEF OnSessionCreated
<1>5. CASE OnSessionReady(c)
  <2>1. Incoming(c, "SessionReady") /\ UNCHANGED <<round, buffer>>
    BY <1>5 DEF OnSessionReady
  <2>2. CASE Fail(c) /\ UNCHANGED toServer
    BY <1>3, <2>1, <2>2
  <2>3. CASE Dial(c) /\ UNCHANGED phase
    <3>1. PICK msgs : /\ Requests(c, msgs)
                      /\ msgs = [i \in DOMAIN connections(Parties, c) |->
                                 Msg("Initiator", connections(Parties, c)[i], NoRound)]
      BY <2>3 DEF Dial
    <3>2. /\ msgs \in Seq(Messages)
          /\ \A n \in DOMAIN msgs :
                 msgs[n].type \notin {"Round", "NewSession", "CloseSession"}
      BY <1>1, <2>1, <3>1, HandshakeSays
    <3>3. \A n \in DOMAIN msgs : msgs[n].type # "Round"
      BY <3>2
    <3> QED
      BY <1>2, <2>1, <2>3, <3>1, <3>2, <3>3
  <2> QED
    BY <1>5, <2>2, <2>3 DEF OnSessionReady
<1>6. CASE OnSessionActive(c)
  <2>0. /\ Incoming(c, "SessionActive") /\ phase[c] = "setup" /\ StartDriver(c, 1)
    BY <1>6 DEF OnSessionActive
  <2>1. /\ c \in Clients
        /\ buffer \in [Keys -> [1..MaxRounds -> 0..(Len(Parties) - 2)]]
        /\ \A s \in Rounds : s.number \in 1..MaxRounds
    BY <1>1, <2>0, RoundFields DEF TypeInv, ClientsOK, RoundsOK
  <2>2. PICK d \in Rounds : /\ d = [driver |-> 1, number |-> 1]
                            /\ Follows(round[c], d) /\ \A s \in Rounds : s # round[c]
    BY <2>0, <2>1, FirstRound
  <2>3. /\ \A x \in Clients \ {c} : buffer'[x] = buffer[x]
        /\ \A s \in Rounds : buffer'[c][s.number] = 0
    BY <1>0, <2>0, <2>1 DEF StartDriver
  <2>4. Dispatch(c, d)
    BY <2>0, <2>2 DEF StartDriver
  <2>5. Moves(c)
    BY <1>1, <2>0, <2>2, <2>4, DispatchMoves
  <2> QED
    BY <1>0, <2>1, <2>2, <2>3, <2>4, <2>5, RoundBegins
<1>7. CASE OnInitiator(c)
  <2>1. Incoming(c, "Initiator") /\ UNCHANGED <<round, buffer>>
    BY <1>7 DEF OnInitiator
  <2>2. PICK p \in Clients : p = Head(toClient[c]).peer
    BY <1>1, <2>1 DEF Messages
  <2>3. CASE Fail(c) /\ UNCHANGED toServer
    BY <1>3, <2>1, <2>3
  <2>4. CASE /\ PeerConnected(c)
             /\ Requests(c, <<Msg("Responder", p, NoRound)>> \o RegisterConnection(c, p))
    <3>1. PICK msgs : /\ Requests(c, msgs)
                      /\ msgs = <<Msg("Responder", p, NoRound)>> \o RegisterConnection(c, p)
      BY <2>4
    <3>2. /\ msgs \in Seq(Messages)
          /\ \A n \in DOMAIN msgs :
                 msgs[n].type \notin {"Round", "NewSession", "CloseSession"}
      BY <1>1, <2>1, <3>1, HandshakeSays
    <3>3. \A n \in DOMAIN msgs : msgs[n].type # "Round"
      BY <3>2
    <3> QED
      BY <1>2, <2>1, <2>4, <3>1, <3>2, <3>3
  <2> QED
    BY <1>7, <2>2, <2>3, <2>4 DEF OnInitiator
<1>8. CASE OnResponder(c)
  <2>1. Incoming(c, "Responder") /\ UNCHANGED <<round, buffer>>
    BY <1>8 DEF OnResponder
  <2>2. PICK p \in Clients : p = Head(toClient[c]).peer
    BY <1>1, <2>1 DEF Messages
  <2>3. CASE Fail(c) /\ UNCHANGED toServer
    BY <1>3, <2>1, <2>3
  <2>4. CASE PeerConnected(c) /\ Requests(c, RegisterConnection(c, p))
    <3>1. PICK msgs : Requests(c, msgs) /\ msgs = RegisterConnection(c, p)
      BY <2>4
    <3>2. /\ msgs \in Seq(Messages)
          /\ \A n \in DOMAIN msgs :
                 msgs[n].type \notin {"Round", "NewSession", "CloseSession"}
      BY <1>1, <2>1, <3>1, HandshakeSays
    <3>3. \A n \in DOMAIN msgs : msgs[n].type # "Round"
      BY <3>2
    <3> QED
      BY <1>2, <2>1, <2>4, <3>1, <3>2, <3>3
  <2> QED
    BY <1>8, <2>2, <2>3, <2>4 DEF OnResponder
<1>9. CASE OnRound(c)
  <2>1. Incoming(c, "Round")
    BY <1>9 DEF OnRound
  <2>2. CASE UNCHANGED <<toServer, round, buffer>> /\ (Fail(c) \/ UNCHANGED phase)
    BY <1>3, <2>1, <2>2
  <2>3. CASE phase[c] = "running" /\ HandleEvent(c, Head(toClient[c]).round)
    <3>1. PICK p \in Clients, r \in Rounds :
              Head(toClient[c]) = Msg("Round", p, r) /\ r = Head(toClient[c]).round
      BY <1>1, <2>1 DEF Messages, Msg
    <3> QED
      BY <1>0, <1>1, <2>1, <2>3, <3>1, RoundHandles
  <2> QED
    BY <1>9, <2>2, <2>3 DEF OnRound
<1>10. CASE OnSessionFinished(c)
  BY <1>3, <1>10 DEF OnSessionFinished, Over
<1>11. CASE OnError(c)
  BY <1>3, <1>11 DEF OnError
<1>12. CASE Close(c)
  <2>1. UNCHANGED <<toServer, toClient, round, buffer>>
    BY <1>12 DEF Close
  <2>2. \A x \in Clients : /\ phase'[x] \in Over => phase[x] \in Over
                           /\ phase'[x] = "setup" => phase[x] = "setup"
    BY <1>0, <1>12 DEF Close, Over
  <2>3. \A p, x \in Clients : \A r \in Rounds : NoneAdded("Round", r, p, x)
    BY <2>1 DEF NoneAdded, OnWay, Single
  <2> QED
    BY <1>0, <2>1, <2>2, <2>3, RoundFrame
<1> QED
  BY <1>4, <1>5, <1>6, <1>7, <1>8, <1>9, <1>10, <1>11, <1>12 DEF Client

LEMMA RoundNext == TypeInv /\ RoundInv /\ [Next]_vars => RoundInv'
<1> SUFFICES ASSUME TypeInv, RoundInv, [Next]_vars PROVE RoundInv'
  OBVIOUS
<1>1. CASE UNCHANGED vars
  <2>1. UNCHANGED <<job, toServer, toClient, round, buffer, phase>>
    BY <1>1 DEF vars, relay, clients
  <2>2. \A p, x \in Clients : \A r \in Rounds : NoneAdded("Round", r, p, x)
    BY <2>1 DEF NoneAdded, OnWay, Single
  <2> QED
    BY <2>1, <2>2, RoundFrame
<1>2. CASE Next
  BY <1>2, RoundRelay, RoundClient DEF Next
<1> QED
  BY <1>1, <1>2

LEMMA DriverCounts ==
    ASSUME job \in Jobs
    PROVE  \/ Len(Drivers) = 1
           \/ Len(Drivers) = 3 /\ Drivers[1] = 1 /\ Drivers[2] = 6 /\ Drivers[3] = 1
<1>1. CASE Drivers = <<4>>
  BY <1>1
<1>2. CASE Drivers = <<1, 6, 1>>
  BY <1>2
<1> QED
  BY <1>1, <1>2 DEF Drivers

\* The others have reached every round before that of c.
LEMMA RoundsApart ==
    ASSUME TypeInv, RoundInv, NEW c \in Clients, NEW d \in Clients
    PROVE  Progress(c) - Progress(d) <= 1
<1>0. /\ round[c].driver \in Nat /\ round[c].number \in Nat
      /\ round[d].driver \in Nat /\ round[d].number \in Nat
      /\ round[c].driver > 0 => round[c] \in Rounds
      /\ round[d].driver > 0 => round[d] \in Rounds
      /\ \A r \in Rounds : /\ r.driver \in 1..Len(Drivers) /\ r.number \in 1..MaxRounds
                           /\ r.number <= Drivers[r.driver]
  BY RoundFields
<1>1. /\ Len(Drivers) \in Nat
      /\ \A n \in 1..Len(Drivers) : Drivers[n] \in 1..MaxRounds
      /\ \/ Len(Drivers) = 1
         \/ Len(Drivers) = 3 /\ Drivers[1] = 1 /\ Drivers[2] = 6 /\ Drivers[3] = 1
  BY DriverFacts, DriverCounts DEF TypeInv
<1>2. ASSUME NEW s \in Rounds, Upto(s, round[c]), s # round[c], d # c
      PROVE  Upto(s, round[d])
  BY <1>2 DEF RoundInv, PassedInv, Passed, Reached, Taken
<1>3. \A x \in {c, d} :
          Progress(x) = round[x].number + (IF round[x].driver > 1 THEN Drivers[1] ELSE 0)
                                        + (IF round[x].driver > 2 THEN Drivers[2] ELSE 0)
  BY DEF Progress
<1>4. CASE c = d
  <2>1. Progress(c) \in Int
    BY <1>0, <1>1 DEF Progress, MaxRounds
  <2> QED
    BY <1>4, <2>1
<1>5. CASE round[c].driver = 0
  <2>1. round[c].number = 0
    BY <1>5 DEF RoundInv, SetupInv
  <2> QED
    BY <1>0, <1>1, <1>5, <2>1 DEF Progress, MaxRounds
<1>6. CASE d # c /\ round[c].driver > 0 /\ round[c].number > 1
  <2>1. PICK s : s = [driver |-> round[c].driver, number |-> round[c].number - 1]
    OBVIOUS
  <2>2. s \in Rounds
    BY <1>0, <1>1, <1>6, <2>1 DEF Rounds, MaxRounds
  <2>3. Upto(s, round[c]) /\ s # round[c]
    BY <1>0, <2>1 DEF Upto
  <2>4. Upto(s, round[d])
    BY <1>2, <1>6, <2>2, <2>3
  <2>5. /\ s.driver \in 1..Len(Drivers) /\ s.number \in 1..MaxRounds
        /\ s.number <= Drivers[s.driver]
        /\ \/ s.driver < round[d].driver
           \/ s.driver = round[d].driver /\ s.number <= round[d].number
    BY <1>0, <2>2, <2>4 DEF Upto
  <2>6. /\ round[c].driver \in 1..Len(Drivers) /\ round[d].driver \in 1..Len(Drivers)
        /\ round[c].number \in 1..MaxRounds /\ round[d].number \in 1..MaxRounds
        /\ round[d].number <= Drivers[round[d].driver]
    BY <1>0, <1>1, <1>6, <2>5
  <2>7. CASE Len(Drivers) = 1
    BY <1>3, <1>6, <2>1, <2>5, <2>6, <2>7 DEF MaxRounds
  <2>8. CASE Len(Drivers) = 3
    BY <1>1, <1>3, <1>6, <2>1, <2>5, <2>6, <2>8 DEF MaxRounds
  <2> QED
    BY <1>1, <2>7, <2>8
<1>7. CASE d # c /\ round[c].driver > 1 /\ round[c].number = 1
  <2>1. PICK s : s = [driver |-> round[c].driver - 1, number |-> Drivers[round[c].driver - 1]]
    OBVIOUS
  <2>2. s \in Rounds
    BY <1>0, <1>1, <1>7, <2>1 DEF Rounds, MaxRounds
  <2>3. Upto(s, round[c]) /\ s # round[c]
    BY <1>0, <2>1 DEF Upto
  <2>4. Upto(s, round[d])
    BY <1>2, <1>7, <2>2, <2>3
  <2>5. /\ s.driver \in 1..Len(Drivers) /\ s.number \in 1..MaxRounds
        /\ s.number <= Drivers[s.driver]
        /\ \/ s.driver < round[d].driver
           \/ s.driver = round[d].driver /\ s.number <= round[d].number
    BY <1>0, <2>2, <2>4 DEF Upto
  <2>6. /\ round[c].driver \in 1..Len(Drivers) /\ round[d].driver \in 1..Len(Drivers)
        /\ round[c].number \in 1..MaxRounds /\ round[d].number \in 1..MaxRounds
        /\ round[d].number <= Drivers[round[d].driver]
    BY <1>0, <1>1, <1>7, <2>5
  <2>7. CASE Len(Drivers) = 1
    BY <1>3, <1>7, <2>1, <2>5, <2>6, <2>7 DEF MaxRounds
  <2>8. CASE Len(Drivers) = 3
    BY <1>1, <1>3, <1>7, <2>1, <2>5, <2>6, <2>8 DEF MaxRounds
  <2> QED
    BY <1>1, <2>7, <2>8
<1>8. CASE round[c].driver = 1 /\ round[c].number = 1
  BY <1>0, <1>1, <1>8 DEF Progress, MaxRounds
<1>9. round[c].driver > 0 => round[c].number >= 1
  BY <1>0
<1> QED
  BY <1>0, <1>4, <1>5, <1>6, <1>7, <1>8, <1>9

\* No two clients are more than a round apart, across all drivers: a client
\* sends the message of a round once and when it begins the round, the buffer
\* never counts more messages than were sent to it, so a full one means that
\* all the others have begun that round too.
THEOREM InLockStep == Spec => []LockStep
<1>1. TypeInv /\ RoundInv => LockStep
  BY RoundsApart DEF LockStep
<1>2. Init => TypeInv /\ RoundInv
  BY TypeInit, RoundInit
<1>3. TypeInv /\ RoundInv /\ [Next]_vars => TypeInv' /\ RoundInv'
  BY TypeNext, RoundNext
<1> QED
  BY <1>1, <1>2, <1>3, PTL DEF Spec

-----------------------------------------------------------------------------
(* Two ways to number the signers                                          *)

Offline == [driver |-> 2, number |-> 2]

\* PreSignDriver knows c by another number than the session.
Misnumbered(c) == job.op = "sign" /\ Number(c, Offline) # party_number(Parties, c)

\* Every number belongs to somebody.
LEMMA NumberOnto ==
    ASSUME job \in Jobs, NEW n \in DOMAIN Parties, NEW r
    PROVE  \E p \in Clients : Number(p, r) = n
<1> DEFINE f == [p \in Clients |-> Number(p, r)]
<1>1. Len(Parties) \in Nat /\ DOMAIN Parties = 1..Len(Parties)
  BY JobFacts
<1>2. f \in Injection(Clients, DOMAIN Parties)
  <2>1. f \in [Clients -> DOMAIN Parties]
    BY NumberFacts
  <2>2. \A p, q \in Clients : f[p] = f[q] => p = q
    BY NumberInjective
  <2> HIDE DEF f
  <2> QED
    BY <2>1, <2>2 DEF Injection, IsInjective
<1>3. IsFiniteSet(DOMAIN Parties) /\ Cardinality(DOMAIN Parties) = Cardinality(Clients)
  <2>1. /\ IsFiniteSet(1..Len(Parties))
        /\ Cardinality(1..Len(Parties)) = IF 1 > Len(Parties) THEN 0 ELSE Len(Parties) - 1 + 1
    BY <1>1, FS_Interval
  <2> QED
    BY <1>1, <2>1, ClientsFinite
<1> HIDE DEF f
<1>4. f \in Surjection(Clients, DOMAIN Parties)
  BY <1>2, <1>3, FS_Injection
<1>5. \E p \in Clients : f[p] = n
  BY <1>4 DEF Surjection
<1> QED
  BY <1>5 DEF f

\* A client with two different numbers would send to itself.
LEMMA SendsToItself ==
    ASSUME job \in Jobs, NEW c \in Clients, Misnumbered(c)
    PROVE  \E i \in DOMAIN receivers(c, Offline) : receivers(c, Offline)[i] = c
<1> DEFINE others == recipients(Parties, c)
<1>0. /\ Parties \in Seq(Keys) /\ DistinctKeys(Parties)
      /\ Len(Parties) \in Nat /\ Len(Parties) > 1 /\ DOMAIN Parties = 1..Len(Parties)
  BY JobFacts
<1>1. PICK n \in DOMAIN Parties : Parties[n] = c
  BY DEF Clients
<1>2. party_number(Parties, c) = n
  BY <1>0, <1>1, PartyNumberOfIndex
<1>3. PICK p \in Clients : Number(p, Offline) = n
  BY NumberOnto
<1>4. p # c
  BY <1>2, <1>3 DEF Misnumbered
<1>5. PICK m \in DOMAIN Parties : Parties[m] = p /\ m # n
  BY <1>1, <1>4 DEF Clients
<1>6. others = [k \in 1..(Len(Parties) - 1) |->
                   IF k < n THEN Parties[k] ELSE Parties[k + 1]]
  BY <1>0, <1>1, RecipientsOfIndex
<1>7. PICK i \in DOMAIN others : others[i] = p
  <2>1. CASE m < n
    <3>1. m \in 1..(Len(Parties) - 1)
      BY <1>0, <2>1
    <3>2. m \in DOMAIN others /\ others[m] = p
      BY <1>5, <1>6, <2>1, <3>1
    <3> QED
      BY <3>2
  <2>2. CASE m > n
    <3>1. m - 1 \in 1..(Len(Parties) - 1) /\ ~(m - 1 < n) /\ (m - 1) + 1 = m
      BY <1>0, <2>2
    <3>2. m - 1 \in DOMAIN others /\ others[m - 1] = p
      BY <1>5, <1>6, <3>1
    <3> QED
      BY <3>2
  <2> QED
    BY <1>0, <1>5, <2>1, <2>2
<1> HIDE DEF others
<1>8. PeerToPeer(Offline)
  BY DEF Misnumbered, PeerToPeer, IsOffline, Offline
<1>9. receivers(c, Offline) = [k \in DOMAIN others |-> Parties[Number(others[k], Offline)]]
  BY <1>8 DEF receivers, others
<1> QED
  BY <1>1, <1>3, <1>7, <1>9

\* The two orders differ for some client.
LEMMA SomeoneMisnumbered ==
    ASSUME job \in Jobs, ~InKeyOrder
    PROVE  \E c \in Clients : Misnumbered(c)
<1> SUFFICES ASSUME \A c \in Clients : ~Misnumbered(c) PROVE FALSE
  OBVIOUS
<1> DEFINE T(x) == {q \in Clients : KeyIndex[q] <= KeyIndex[x]}
<1>0. /\ Parties \in Seq(Keys) /\ DistinctKeys(Parties) /\ DOMAIN Parties = 1..Len(Parties)
      /\ \A x \in Clients : KeyIndex[x] \in Nat
  BY JobFacts, KeyIndexAssumption
<1>1. job.op = "sign"
  BY DEF InKeyOrder
<1>2. PICK i \in DOMAIN Parties, j \in DOMAIN Parties :
          i < j /\ ~(KeyIndex[Parties[i]] < KeyIndex[Parties[j]])
  BY DEF InKeyOrder
<1>3. /\ Parties[i] \in Clients /\ Parties[j] \in Clients
      /\ party_number(Parties, Parties[i]) = i /\ party_number(Parties, Parties[j]) = j
  BY <1>0, PartyNumberOfIndex DEF Clients
<1>4. Cardinality(T(Parties[i])) = i /\ Cardinality(T(Parties[j])) = j
  BY <1>1, <1>3 DEF Misnumbered, Number, IsOffline, Offline
<1>5. T(Parties[j]) \subseteq T(Parties[i])
  BY <1>0, <1>2, <1>3
<1>6. T(Parties[i]) \subseteq Clients
  OBVIOUS
<1> HIDE DEF T
<1>7. Cardinality(T(Parties[j])) <= Cardinality(T(Parties[i]))
  BY <1>5, <1>6, CountGrows
<1> QED
  BY <1>0, <1>2, <1>4, <1>7

\* How a client moves: to the next round, which does not make it send to
\* itself, and out of the last one.
GoesOn(x) ==
    \/ /\ round'[x] = round[x]
       /\ phase'[x] \in Over => phase[x] \in Over \/ \A s \in Rounds : Upto(s, round[x])
    \/ \E d \in Rounds :
           /\ Follows(round[x], d) /\ round'[x] = d /\ phase'[x] = "running"
           /\ \A i \in DOMAIN receivers(x, d) : receivers(x, d)[i] # x

LEMMA DispatchGoesOn ==
    ASSUME TypeInv, NEW c \in Clients, NEW d \in Rounds, Follows(round[c], d),
           Dispatch(c, d), NEW x \in Clients
    PROVE  GoesOn(x)
<1>0. /\ c \in Keys /\ x \in Keys /\ DOMAIN phase = Keys /\ DOMAIN round = Keys
  BY RoundFields DEF TypeInv, ClientsOK
<1>1. CASE x # c
  BY <1>0, <1>1 DEF Dispatch, Fail, GoesOn
<1>2. CASE x = c /\ Fail(c) /\ UNCHANGED round
  BY <1>0, <1>2 DEF Fail, GoesOn, Over
<1>3. CASE /\ x = c /\ \A i \in DOMAIN receivers(c, d) : receivers(c, d)[i] # c
           /\ round' = [round EXCEPT ![c] = d] /\ phase' = [phase EXCEPT ![c] = "running"]
  BY <1>0, <1>3 DEF GoesOn
<1> QED
  BY <1>1, <1>2, <1>3 DEF Dispatch

LEMMA HandleGoesOn ==
    ASSUME TypeInv, NEW c \in Clients, NEW r \in Rounds, phase[c] = "running",
           HandleEvent(c, r), NEW x \in Clients
    PROVE  GoesOn(x)
<1>0. /\ c \in Keys /\ x \in Keys /\ DOMAIN phase = Keys /\ DOMAIN round = Keys
      /\ round[c] = [driver |-> round[c].driver, number |-> round[c].number]
      /\ r = [driver |-> r.driver, number |-> r.number]
  BY RoundFields DEF TypeInv, ClientsOK
<1>1. ASSUME UNCHANGED round, Fail(c) \/ UNCHANGED phase PROVE GoesOn(x)
  BY <1>0, <1>1 DEF Fail, GoesOn, Over
<1>2. CASE r.driver # round[c].driver \/ r.number # round[c].number \/ UNCHANGED <<phase, round>>
  BY <1>1, <1>2 DEF HandleEvent, Proceed
<1>3. CASE r.driver = round[c].driver /\ r.number = round[c].number /\ Proceed(c, r)
  <2>0. r = round[c]
    BY <1>0, <1>3
  <2>1. CASE r.number < Drivers[r.driver] /\ Dispatch(c, [r EXCEPT !.number = @ + 1])
    <3>1. PICK d \in Rounds : d = [r EXCEPT !.number = @ + 1] /\ Follows(r, d)
      BY <2>1, NextRounds
    <3> QED
      BY <2>0, <2>1, <3>1, DispatchGoesOn
  <2>2. CASE /\ r.number = Drivers[r.driver] /\ r.driver < Len(Drivers)
             /\ StartDriver(c, r.driver + 1)
    <3>1. PICK d \in Rounds : d = [driver |-> r.driver + 1, number |-> 1] /\ Follows(r, d)
      BY <2>2, NextRounds
    <3>2. Dispatch(c, d)
      BY <2>2, <3>1 DEF StartDriver
    <3> QED
      BY <2>0, <3>1, <3>2, DispatchGoesOn
  <2>3. CASE /\ r.number = Drivers[r.driver] /\ r.driver = Len(Drivers)
             /\ Finish(c) /\ UNCHANGED round
    <3>1. \A s \in Rounds : Upto(s, round[c])
      BY <2>0, <2>3, NextRounds
    <3> QED
      BY <1>0, <2>3, <3>1 DEF Finish, GoesOn
  <2> QED
    BY <1>3, <2>1, <2>2, <2>3 DEF Proceed
<1> QED
  BY <1>2, <1>3 DEF HandleEvent

LEMMA ClientGoesOn ==
    ASSUME TypeInv, RoundInv, NEW c \in Keys, Client(c), NEW x \in Clients
    PROVE  GoesOn(x)
<1>0. UNCHANGED job /\ x \in Keys /\ DOMAIN phase = Keys
  BY RoundFields
     DEF Client, OnSessionCreated, OnSessionReady, OnSessionActive,
         OnInitiator, OnResponder, OnRound, OnSessionFinished, OnError, Close,
         relay, TypeInv, ClientsOK
<1>1. ASSUME NEW type, Incoming(c, type)
      PROVE  c \in Clients /\ Head(toClient[c]) \in Messages /\ Head(toClient[c]).type = type
  BY <1>0, <1>1, TakeTyped DEF Incoming
<1>2. CASE UNCHANGED <<phase, round>>
  BY <1>2 DEF GoesOn
<1>3. CASE Fail(c) /\ UNCHANGED round
  BY <1>0, <1>3 DEF Fail, GoesOn, Over
<1>4. CASE PeerConnected(c) /\ UNCHANGED round
  BY <1>0, <1>4 DEF PeerConnected, GoesOn, Over
<1>5. CASE OnSessionFinished(c) \/ Close(c)
  BY <1>0, <1>5 DEF OnSessionFinished, Close, GoesOn, Over
<1>6. CASE OnSessionActive(c)
  <2>1. /\ Incoming(c, "SessionActive") /\ phase[c] = "setup"
        /\ Dispatch(c, [driver |-> 1, number |-> 1])
    BY <1>6 DEF OnSessionActive, StartDriver
  <2>2. PICK d \in Rounds : d = [driver |-> 1, number |-> 1] /\ Follows(round[c], d)
    BY <1>1, <2>1, FirstRound
  <2> QED
    BY <1>1, <2>1, <2>2, DispatchGoesOn
<1>7. CASE Incoming(c, "Round") /\ phase[c] = "running" /\ HandleEvent(c, Head(toClient[c]).round)
  <2>1. PICK r \in Rounds : r = Head(toClient[c]).round
    BY <1>1, <1>7 DEF Messages
  <2> QED
    BY <1>1, <1>7, <2>1, HandleGoesOn
<1> QED
  BY <1>2, <1>3, <1>4, <1>5, <1>6, <1>7
     DEF Client, OnSessionCreated, OnSessionReady, OnInitiator, OnResponder,
         OnRound, OnError

\* Whoever is through has begun every round, and whoever has two different
\* numbers never begins the second round of the offline stage.
KeyInv ==
    \A c \in Clients :
        /\ phase[c] \in Over => \A r \in Rounds : Reached(c, r)
        /\ Misnumbered(c) => ~Reached(c, Offline)

LEMMA OfflineIsRound ==
    ASSUME job \in Jobs, job.op = "sign"
    PROVE  Offline \in Rounds
<1>1. Drivers = <<1, 6, 1>>
  BY DEF Drivers
<1>2. Len(Drivers) = 3 /\ Drivers[2] = 6
  BY <1>1
<1> QED
  BY <1>2 DEF Offline, Rounds, MaxRounds

LEMMA KeyInit == Init => KeyInv
<1> SUFFICES ASSUME Init PROVE KeyInv
  OBVIOUS
<1>1. \A c \in Clients : phase[c] = "setup" /\ round[c] = NoRound
  BY JobFacts DEF Init
<1> QED
  BY <1>1 DEF KeyInv, Over, Reached, Upto, NoRound, Offline

LEMMA KeyNext == TypeInv /\ RoundInv /\ KeyInv /\ [Next]_vars => KeyInv'
<1> SUFFICES ASSUME TypeInv, RoundInv, KeyInv, [Next]_vars PROVE KeyInv'
  OBVIOUS
<1>0. UNCHANGED job
  BY DEF Next, Connect, Handle, NewSession, ReplySessionCreated,
         SessionConnection, PeerHandshake, Touch, RelayRound, CloseSession,
         RemoveSession, ReplySessionFinished, Waiter, Poll, NotifyPeers,
         NotifyPeer, NotifyReturn, Client, OnSessionCreated, OnSessionReady,
         OnSessionActive, OnInitiator, OnResponder, OnRound, OnSessionFinished,
         OnError, Close, vars, relay, clients
<1>1. /\ Clients' = Clients /\ Rounds' = Rounds /\ Parties' = Parties /\ Offline' = Offline
      /\ \A c : Misnumbered(c)' = Misnumbered(c)
  BY <1>0, SameTypes DEF Misnumbered, Number, IsOffline, Offline
<1>2. ASSUME NEW x \in Clients PROVE GoesOn(x)
  <2>1. CASE \E c \in Keys : Client(c)
    BY <2>1, ClientGoesOn
  <2>2. CASE ~ \E c \in Keys : Client(c)
    <3>1. UNCHANGED <<phase, round>>
      BY <2>2
         DEF Next, Connect, Handle, NewSession, ReplySessionCreated,
             SessionConnection, PeerHandshake, Touch, RelayRound, CloseSession,
             RemoveSession, ReplySessionFinished, Waiter, Poll, NotifyPeers,
             NotifyPeer, NotifyReturn, vars, clients
    <3> QED
      BY <3>1 DEF GoesOn
  <2> QED
    BY <2>1, <2>2
<1> SUFFICES ASSUME NEW c \in Clients
             PROVE  /\ phase'[c] \in Over => \A r \in Rounds : Reached(c, r)'
                    /\ Misnumbered(c) => ~Reached(c, Offline)'
  BY <1>1 DEF KeyInv
<1>3. CASE /\ round'[c] = round[c]
           /\ phase'[c] \in Over => phase[c] \in Over \/ \A s \in Rounds : Upto(s, round[c])
  BY <1>3 DEF KeyInv, Reached
<1>4. ASSUME NEW d \in Rounds, Follows(round[c], d), round'[c] = d, phase'[c] = "running",
             \A i \in DOMAIN receivers(c, d) : receivers(c, d)[i] # c
      PROVE  phase'[c] \notin Over /\ (Misnumbered(c) => ~Reached(c, Offline)')
  <2>1. phase'[c] \notin Over
    BY <1>4 DEF Over
  <2>2. ASSUME Misnumbered(c), Upto(Offline, d) PROVE FALSE
    <3>1. ~Upto(Offline, round[c])
      BY <2>2 DEF KeyInv, Reached
    <3>2. Offline \in Rounds
      BY <2>2, OfflineIsRound DEF Misnumbered, TypeInv
    <3>3. d = Offline
      BY <1>4, <2>2, <3>1, <3>2 DEF Follows
    <3> QED
      BY <1>4, <2>2, <3>3, SendsToItself DEF TypeInv
  <2> QED
    BY <1>1, <1>4, <2>1, <2>2 DEF Reached
<1> QED
  BY <1>2, <1>3, <1>4 DEF GoesOn

\* Signers that are not listed in the order of their key indices get nowhere:
\* one of them would send to itself in the second round of the offline stage
\* and never begins it, so nobody passes that round.
THEOREM KeyOrderNeeded == Spec => []OnlyKeyOrderFinishes
<1>1. TypeInv /\ RoundInv /\ KeyInv => OnlyKeyOrderFinishes
  <2> SUFFICES ASSUME TypeInv, RoundInv, KeyInv, ~InKeyOrder, NEW c \in Clients
               PROVE  /\ phase[c] \notin {"closing", "leaving", "done"}
                      /\ round[c].driver <= 2
                      /\ round[c].driver = 2 =>
                             IF Number(c, Offline) = party_number(Parties, c)
                             THEN round[c].number <= 2 ELSE round[c].number = 1
    BY DEF OnlyKeyOrderFinishes, Offline
  <2>1. PICK q \in Clients : Misnumbered(q)
    BY SomeoneMisnumbered DEF TypeInv
  <2>2. job.op = "sign" /\ Offline \in Rounds /\ ~Reached(q, Offline)
    BY <2>1, OfflineIsRound DEF KeyInv, Misnumbered, TypeInv
  <2>3. ~(Reached(c, Offline) /\ Passed(c, Offline))
    BY <2>2 DEF RoundInv, PassedInv, Taken
  <2>4. phase[c] \notin Over
    BY <2>2, <2>3 DEF KeyInv, Passed
  <2>5. ~Reached(c, Offline) \/ round[c] = Offline
    BY <2>3 DEF Passed
  <2>6. /\ round[c].driver \in Nat /\ round[c].number \in Nat
        /\ round[c].driver > 0 => round[c].number >= 1
    BY RoundFields
  <2>7. round[c].driver <= 2 /\ (round[c].driver = 2 => round[c].number <= 2)
    BY <2>5, <2>6 DEF Reached, Upto, Offline
  <2>8. Misnumbered(c) => ~Reached(c, Offline)
    BY DEF KeyInv
  <2>9. Misnumbered(c) /\ round[c].driver = 2 => round[c].number = 1
    BY <2>6, <2>8 DEF Reached, Upto, Offline
  <2> QED
    BY <2>2, <2>4, <2>7, <2>9 DEF Over, Misnumbered
<1>2. Init => TypeInv /\ RoundInv /\ KeyInv
  BY TypeInit, RoundInit, KeyInit
<1>3. TypeInv /\ RoundInv /\ KeyInv /\ [Next]_vars => TypeInv' /\ RoundInv' /\ KeyInv'
  BY TypeNext, RoundNext, KeyNext
<1> QED
  BY <1>1, <1>2, <1>3, PTL DEF Spec

-----------------------------------------------------------------------------
(* Nobody speaks before all have heard SessionActive                       *)

Told(c, type) == \E n \in DOMAIN toClient[c] : toClient[c][n].type = type

\* c has heard SessionActive, or will before it hears of any round.
HearsFirst(c) ==
    \E j \in DOMAIN toClient[c] :
        /\ toClient[c][j].type = "SessionActive"
        /\ \A i \in DOMAIN toClient[c] : toClient[c][i].type = "Round" => j < i

Warned(c) == phase[c] # "setup" \/ HearsFirst(c)

OutsideInv ==
    /\ \A c \in Clients \ active : toServer[c] = <<>> /\ toClient[c] = <<>>
    /\ Owner \notin active => waiter.pc = "unborn"

\* NewSession is handled once.
AskedInv ==
    \A c \in Clients : \A n \in DOMAIN toServer[c] :
        toServer[c][n].type = "NewSession" =>
            n = 1 /\ c = Owner /\ (stage[c] = "start" => waiter.pc = "unborn")

GatheredInv ==
    waiter.pc \in {"found", "notify"} \/ waiter.msg = "SessionActive" =>
        Clients \subseteq active

BegunInv ==
    \A c \in Clients : Told(c, "SessionActive") \/ round[c].driver > 0 =>
        waiter.msg = "SessionActive" /\ waiter.pc \in {"notify", "done"}

\* No round message passes the relay while notify_peers is under way.
RelayedInv ==
    \A c \in Clients : Told(c, "Round") \/ stage[c] = "relay" => waiter.pc = "done"

WarnedInv ==
    /\ waiter.pc = "done" =>
           waiter.msg = "SessionActive" /\ \A c \in Clients : Warned(c)
    /\ waiter.pc = "notify" /\ waiter.msg = "SessionActive" =>
           \A i \in DOMAIN Parties : i < waiter.next => Warned(Parties[i])

LobbyInv ==
    /\ OutsideInv /\ AskedInv /\ GatheredInv
    /\ BegunInv /\ RelayedInv /\ WarnedInv
    /\ ignored = {}

LEMMA QueuesTyped ==
    ASSUME TypeInv, NEW c \in Clients
    PROVE  /\ c \in Keys
           /\ toServer[c] \in Seq(Messages) /\ toClient[c] \in Seq(Messages)
  BY JobFacts DEF TypeInv, ServerQueuesOK, ClientQueuesOK

LEMMA TellStep ==
    ASSUME TypeInv, NEW d \in Clients, NEW x \in Messages, Send(d, x), NEW b \in Clients
    PROVE  /\ \A type : Told(b, type)' <=> Told(b, type) \/ (b = d /\ x.type = type)
           /\ HearsFirst(b) => HearsFirst(b)'
           /\ b = d /\ x.type = "SessionActive" /\ ~Told(b, "Round") => HearsFirst(b)'
<1> DEFINE q == toClient[b]
<1>1. toClient'[b] = IF b = d THEN Append(q, x) ELSE q
  BY QueuesTyped DEF Send, TypeInv, ClientQueuesOK
<1>2. q \in Seq(Messages)
  BY QueuesTyped
<1>3. CASE b # d
  BY <1>1, <1>3 DEF Told, HearsFirst
<1>4. CASE b = d
  <2>1. toClient'[b] = Append(q, x)
    BY <1>1, <1>4
  <2> HIDE DEF q
  <2>2. /\ Len(q) \in Nat /\ DOMAIN q = 1..Len(q)
        /\ DOMAIN Append(q, x) = 1..(Len(q) + 1)
        /\ Append(q, x)[Len(q) + 1] = x
        /\ \A n \in DOMAIN q : Append(q, x)[n] = q[n]
    BY <1>2
  <2>3. ASSUME NEW type PROVE Told(b, type)' <=> Told(b, type) \/ x.type = type
    <3>1. Told(b, type)' => Told(b, type) \/ x.type = type
      BY <2>1, <2>2 DEF Told, q
    <3>2. Told(b, type) => Told(b, type)'
      BY <2>1, <2>2 DEF Told, q
    <3>3. x.type = type => Told(b, type)'
      BY <2>1, <2>2 DEF Told
    <3> QED
      BY <3>1, <3>2, <3>3
  <2>4. ASSUME NEW j \in DOMAIN q, q[j].type = "SessionActive",
               \A i \in DOMAIN q : q[i].type = "Round" => j < i
        PROVE  HearsFirst(b)'
    BY <2>1, <2>2, <2>4 DEF HearsFirst
  <2>5. ASSUME x.type = "SessionActive", ~Told(b, "Round") PROVE HearsFirst(b)'
    <3>1. \A i \in DOMAIN q : q[i].type # "Round"
      BY <2>5 DEF Told, q
    <3>2. /\ Len(q) + 1 \in DOMAIN Append(q, x)
          /\ Append(q, x)[Len(q) + 1].type = "SessionActive"
          /\ \A i \in DOMAIN Append(q, x) : Append(q, x)[i].type # "Round"
      BY <2>2, <2>5, <3>1
    <3> QED
      BY <2>1, <3>2 DEF HearsFirst
  <2> QED
    BY <1>4, <2>3, <2>4, <2>5 DEF HearsFirst, q
<1> QED
  BY <1>3, <1>4

LEMMA HearStep ==
    ASSUME TypeInv, NEW c \in Clients,
           \/ toClient[c] # <<>> /\ toClient' = [toClient EXCEPT ![c] = Tail(@)]
           \/ UNCHANGED toClient,
           NEW b \in Clients
    PROVE  /\ \A type : Told(b, type)' => Told(b, type)
           /\ HearsFirst(b) => \/ HearsFirst(b)'
                               \/ b = c /\ Head(toClient[c]).type = "SessionActive"
                                        /\ ~UNCHANGED toClient
<1> DEFINE q == toClient[b]
<1>1. CASE toClient'[b] = q
  BY <1>1 DEF Told, HearsFirst
<1>2. CASE b = c /\ q # <<>> /\ toClient'[b] = Tail(q) /\ ~UNCHANGED toClient
  <2>0. q \in Seq(Messages)
    BY QueuesTyped
  <2> HIDE DEF q
  <2>1. /\ Len(q) \in Nat /\ DOMAIN q = 1..Len(q) /\ Len(q) >= 1
        /\ DOMAIN Tail(q) = 1..(Len(q) - 1) /\ Head(q) = q[1]
        /\ \A n \in DOMAIN Tail(q) : n + 1 \in DOMAIN q /\ Tail(q)[n] = q[n + 1]
    BY <1>2, <2>0
  <2>2. ASSUME NEW type, Told(b, type)' PROVE Told(b, type)
    BY <1>2, <2>1, <2>2 DEF Told, q
  <2>3. ASSUME NEW j \in DOMAIN q, q[j].type = "SessionActive",
               \A i \in DOMAIN q : q[i].type = "Round" => j < i
        PROVE  HearsFirst(b)' \/ Head(q).type = "SessionActive"
    <3>1. CASE j = 1
      BY <2>1, <2>3, <3>1
    <3>2. CASE j # 1
      <4>1. j - 1 \in DOMAIN Tail(q) /\ Tail(q)[j - 1] = q[j]
        BY <2>1, <3>2
      <4>2. \A i \in DOMAIN Tail(q) : Tail(q)[i].type = "Round" => j - 1 < i
        BY <2>1, <2>3
      <4> QED
        BY <1>2, <2>3, <4>1, <4>2 DEF HearsFirst
    <3> QED
      BY <3>1, <3>2
  <2> QED
    BY <1>2, <2>2, <2>3 DEF HearsFirst, q
<1>3. \/ toClient'[b] = q
      \/ b = c /\ q # <<>> /\ toClient'[b] = Tail(q)
  BY QueuesTyped DEF TypeInv, ClientQueuesOK
<1> QED
  BY <1>1, <1>2, <1>3

LEMMA HeadRound ==
    ASSUME TypeInv, NEW c \in Clients, toClient[c] # <<>>
    PROVE  /\ Told(c, Head(toClient[c]).type)
           /\ HearsFirst(c) => Head(toClient[c]).type # "Round"
<1>1. 1 \in DOMAIN toClient[c] /\ Head(toClient[c]) = toClient[c][1]
      /\ DOMAIN toClient[c] = 1..Len(toClient[c])
  BY QueuesTyped
<1> QED
  BY <1>1 DEF Told, HearsFirst

\* A handler returns, and may say something to a client.
LEMMA LobbyReturns ==
    ASSUME TypeInv, LobbyInv, NEW c \in Clients, toServer[c] # <<>>, Returned(c),
           UNCHANGED <<job, active, waiter, phase, round, ignored>>,
           \/ UNCHANGED toClient
           \/ \E d \in Clients : \E x \in Messages :
                  /\ Send(d, x) /\ d \in active /\ x.type # "SessionActive"
                  /\ x.type = "Round" => stage[c] = "relay",
           UNCHANGED stage \/ stage' = [stage EXCEPT ![c] = "start"]
    PROVE  LobbyInv'
<1>0. Clients' = Clients /\ Owner' = Owner /\ Parties' = Parties
  BY SameTypes
<1>1. c \in active
  BY DEF LobbyInv, OutsideInv
<1>2. ASSUME NEW b \in Clients
      PROVE  /\ toServer'[b] = IF b = c THEN Tail(toServer[b]) ELSE toServer[b]
             /\ stage'[b] \in {stage[b], "start"} /\ (b # c => stage'[b] = stage[b])
             /\ b \notin active => toClient'[b] = toClient[b]
             /\ Told(b, "SessionActive")' => Told(b, "SessionActive")
             /\ Told(b, "Round")' => Told(b, "Round") \/ stage[c] = "relay"
             /\ HearsFirst(b) => HearsFirst(b)'
  <2>1. b \in Keys /\ c \in Keys /\ Clients \subseteq Keys
    BY QueuesTyped
  <2>2. /\ toServer'[b] = IF b = c THEN Tail(toServer[b]) ELSE toServer[b]
        /\ stage'[b] \in {stage[b], "start"} /\ (b # c => stage'[b] = stage[b])
    BY <2>1 DEF Returned, TypeInv, ServerQueuesOK, RelayOK
  <2>3. CASE UNCHANGED toClient
    BY <2>2, <2>3 DEF Told, HearsFirst
  <2>4. ASSUME NEW d \in Clients, NEW x \in Messages, Send(d, x), d \in active,
               x.type # "SessionActive", x.type = "Round" => stage[c] = "relay"
        PROVE  /\ b \notin active => toClient'[b] = toClient[b]
               /\ Told(b, "SessionActive")' => Told(b, "SessionActive")
               /\ Told(b, "Round")' => Told(b, "Round") \/ stage[c] = "relay"
               /\ HearsFirst(b) => HearsFirst(b)'
    <3>1. b \notin active => toClient'[b] = toClient[b]
      BY <2>1, <2>4 DEF Send, TypeInv, ClientQueuesOK
    <3> QED
      BY <2>4, <3>1, TellStep
  <2> QED
    BY <2>2, <2>3, <2>4
<1>3. OutsideInv'
  BY <1>0, <1>1, <1>2 DEF LobbyInv, OutsideInv
<1>4. AskedInv'
  <2> SUFFICES ASSUME NEW b \in Clients, NEW n \in DOMAIN toServer'[b],
                      toServer'[b][n].type = "NewSession"
               PROVE  n = 1 /\ b = Owner /\ (stage'[b] = "start" => waiter.pc = "unborn")
    BY <1>0 DEF AskedInv
  <2>1. CASE b # c
    BY <1>2, <2>1 DEF LobbyInv, AskedInv
  <2>2. CASE b = c
    <3>1. toServer'[c] = Tail(toServer[c]) /\ toServer[c] \in Seq(Messages)
      BY <1>2, <2>2, QueuesTyped
    <3>2. n + 1 \in DOMAIN toServer[c] /\ toServer[c][n + 1].type = "NewSession"
          /\ n + 1 # 1
      BY <2>2, <3>1
    <3> QED
      BY <3>2 DEF LobbyInv, AskedInv
  <2> QED
    BY <2>1, <2>2
<1>5. GatheredInv' /\ BegunInv'
  BY <1>0, <1>2 DEF LobbyInv, GatheredInv, BegunInv
<1>6. RelayedInv'
  BY <1>0, <1>2 DEF LobbyInv, RelayedInv
<1>7. WarnedInv'
  <2>1. \A b \in Clients : Warned(b) => Warned(b)'
    BY <1>2 DEF Warned
  <2>2. \A i \in DOMAIN Parties : Parties[i] \in Clients
    BY DEF Clients
  <2> QED
    BY <1>0, <2>1, <2>2 DEF LobbyInv, WarnedInv
<1> QED
  BY <1>3, <1>4, <1>5, <1>6, <1>7 DEF LobbyInv

\* A handler goes on, or the session is created.
LEMMA LobbyHandler ==
    ASSUME TypeInv, LobbyInv, NEW c \in Clients, NEW step, step # "start",
           UNCHANGED <<job, active, toServer, toClient, phase, round, ignored>>,
           stage' = [stage EXCEPT ![c] = step],
           step = "relay" => waiter.pc = "done",
           \/ UNCHANGED waiter
           \/ /\ waiter.pc = "unborn" /\ Owner \in active
              /\ waiter' = [waiter EXCEPT !.pc = "poll"]
              /\ \A b \in Clients : \A n \in DOMAIN toServer[b] :
                     toServer[b][n].type = "NewSession" => b = c
    PROVE  LobbyInv'
<1>0. /\ Clients' = Clients /\ Owner' = Owner /\ Parties' = Parties
      /\ \A b \in Clients : stage'[b] = IF b = c THEN step ELSE stage[b]
  <2>1. \A b \in Clients : b \in Keys
    BY QueuesTyped
  <2> QED
    BY <2>1, SameTypes DEF TypeInv, RelayOK
<1>1. \A b \in Clients :
          /\ \A type : Told(b, type)' = Told(b, type)
          /\ Warned(b)' = Warned(b)
  BY DEF Told, HearsFirst, Warned
<1>2. \A i \in DOMAIN Parties : Parties[i] \in Clients
  BY DEF Clients
<1>3. CASE UNCHANGED waiter
  <2>1. OutsideInv' /\ AskedInv' /\ GatheredInv'
    BY <1>0, <1>3 DEF LobbyInv, OutsideInv, AskedInv, GatheredInv
  <2>2. BegunInv' /\ RelayedInv'
    BY <1>0, <1>1, <1>3 DEF LobbyInv, BegunInv, RelayedInv
  <2>3. WarnedInv'
    BY <1>0, <1>1, <1>2, <1>3 DEF LobbyInv, WarnedInv
  <2> QED
    BY <2>1, <2>2, <2>3 DEF LobbyInv
<1>4. CASE /\ waiter.pc = "unborn" /\ Owner \in active
           /\ waiter' = [waiter EXCEPT !.pc = "poll"]
           /\ \A b \in Clients : \A n \in DOMAIN toServer[b] :
                  toServer[b][n].type = "NewSession" => b = c
  <2>0. waiter'.pc = "poll" /\ waiter'.msg = waiter.msg
    BY <1>4 DEF TypeInv, RelayOK
  <2>1. OutsideInv' /\ AskedInv' /\ GatheredInv'
    BY <1>0, <1>4, <2>0 DEF LobbyInv, OutsideInv, AskedInv, GatheredInv
  <2>2. BegunInv' /\ RelayedInv'
    BY <1>0, <1>1, <1>4, <2>0 DEF LobbyInv, BegunInv, RelayedInv
  <2>3. WarnedInv'
    BY <2>0 DEF WarnedInv
  <2> QED
    BY <2>1, <2>2, <2>3 DEF LobbyInv
<1> QED
  BY <1>3, <1>4

\* A client takes up what it was sent, and says something.
LEMMA LobbySays ==
    ASSUME TypeInv, LobbyInv, NEW c \in Clients,
           \/ toClient[c] # <<>> /\ toClient' = [toClient EXCEPT ![c] = Tail(@)]
           \/ UNCHANGED toClient,
           NEW msgs \in Seq(Messages), Requests(c, msgs),
           \A n \in DOMAIN msgs : msgs[n].type # "NewSession",
           toClient[c] # <<>> \/ UNCHANGED toServer,
           UNCHANGED <<job, active, waiter, stage>>,
           \A x \in Clients : phase'[x] = "setup" => phase[x] = "setup",
           UNCHANGED toClient \/ Head(toClient[c]).type # "SessionActive"
              \/ phase'[c] # "setup",
           \A x \in Clients : round'[x].driver > 0 =>
               round[x].driver > 0 \/ Told(x, "SessionActive"),
           ignored' = {}
    PROVE  LobbyInv'
<1>0. Clients' = Clients /\ Owner' = Owner /\ Parties' = Parties
  BY SameTypes
<1>1. ASSUME NEW b \in Clients
      PROVE  /\ toServer'[b] = IF b = c THEN toServer[b] \o msgs ELSE toServer[b]
             /\ b \notin active => toServer'[b] = <<>> /\ toClient'[b] = <<>>
             /\ \A type : Told(b, type)' => Told(b, type)
             /\ Warned(b) => Warned(b)'
  <2>1. b \in Keys /\ c \in Keys
    BY QueuesTyped
  <2>2. toServer'[b] = IF b = c THEN toServer[b] \o msgs ELSE toServer[b]
    BY <2>1 DEF Requests, TypeInv, ServerQueuesOK
  <2>3. /\ \A type : Told(b, type)' => Told(b, type)
        /\ Warned(b) => Warned(b)'
    BY HearStep DEF Warned
  <2>4. b \notin active => toServer'[b] = <<>> /\ toClient'[b] = <<>>
    <3>1. CASE UNCHANGED toServer /\ UNCHANGED toClient
      BY <3>1 DEF LobbyInv, OutsideInv
    <3>2. CASE toClient[c] # <<>>
      <4>1. c \in active
        BY <3>2 DEF LobbyInv, OutsideInv
      <4>2. b # c => toClient'[b] = toClient[b]
        BY <2>1 DEF TypeInv, ClientQueuesOK
      <4> QED
        BY <2>2, <4>1, <4>2 DEF LobbyInv, OutsideInv
    <3> QED
      BY <3>1, <3>2
  <2> QED
    BY <2>2, <2>3, <2>4
<1>2. OutsideInv'
  BY <1>0, <1>1 DEF LobbyInv, OutsideInv
<1>3. AskedInv'
  <2> SUFFICES ASSUME NEW b \in Clients, NEW n \in DOMAIN toServer'[b],
                      toServer'[b][n].type = "NewSession"
               PROVE  n = 1 /\ b = Owner /\ (stage[b] = "start" => waiter.pc = "unborn")
    BY <1>0 DEF AskedInv
  <2>1. CASE b # c
    BY <1>1, <2>1 DEF LobbyInv, AskedInv
  <2>2. CASE b = c
    <3>1. toServer'[c] = toServer[c] \o msgs /\ toServer[c] \in Seq(Messages)
      BY <1>1, <2>2, QueuesTyped
    <3>2. \/ n \in DOMAIN toServer[c] /\ toServer'[c][n] = toServer[c][n]
          \/ n - Len(toServer[c]) \in DOMAIN msgs
             /\ toServer'[c][n] = msgs[n - Len(toServer[c])]
      BY <2>2, <3>1
    <3> QED
      BY <2>2, <3>2 DEF LobbyInv, AskedInv
  <2> QED
    BY <2>1, <2>2
<1>4. GatheredInv' /\ BegunInv'
  BY <1>0, <1>1 DEF LobbyInv, GatheredInv, BegunInv
<1>5. RelayedInv'
  BY <1>0, <1>1 DEF LobbyInv, RelayedInv
<1>6. WarnedInv'
  <2>1. \A i \in DOMAIN Parties : Parties[i] \in Clients
    BY DEF Clients
  <2> QED
    BY <1>0, <1>1, <2>1 DEF LobbyInv, WarnedInv
<1> QED
  BY <1>2, <1>3, <1>4, <1>5, <1>6 DEF LobbyInv

LEMMA LobbyConnect ==
    ASSUME TypeInv, LobbyInv, NEW c \in Keys, Connect(c)
    PROVE  LobbyInv'
<1>0. /\ c \in Clients \ active /\ active' = active \cup {c}
      /\ UNCHANGED <<job, session, waiter, stage, toClient, phase, round, ignored>>
  BY DEF Connect, clients
<1>1. /\ Clients' = Clients /\ Owner' = Owner /\ Parties' = Parties /\ Owner \in Clients
      /\ DOMAIN toServer = Keys /\ Clients \subseteq Keys
  BY <1>0, SameTypes, JobFacts DEF TypeInv, ServerQueuesOK
<1>2. ASSUME NEW b \in Clients
      PROVE  \/ toServer'[b] = toServer[b]
             \/ b = c /\ c = Owner /\ toServer'[b] = <<Word("NewSession")>>
  <2>1. toServer[c] = <<>>
    BY <1>0 DEF LobbyInv, OutsideInv
  <2>2. Append(<<>>, Word("NewSession")) = <<Word("NewSession")>>
    OBVIOUS
  <2> QED
    BY <1>1, <2>1, <2>2 DEF Connect
<1>3. OutsideInv'
  BY <1>0, <1>1, <1>2 DEF LobbyInv, OutsideInv
<1>4. AskedInv'
  <2> SUFFICES ASSUME NEW b \in Clients, NEW n \in DOMAIN toServer'[b],
                      toServer'[b][n].type = "NewSession"
               PROVE  n = 1 /\ b = Owner /\ (stage[b] = "start" => waiter.pc = "unborn")
    BY <1>0, <1>1 DEF AskedInv
  <2>1. CASE toServer'[b] = toServer[b]
    BY <2>1 DEF LobbyInv, AskedInv
  <2>2. CASE b = c /\ c = Owner /\ toServer'[b] = <<Word("NewSession")>>
    <3>1. n = 1
      BY <2>2
    <3> QED
      BY <1>0, <2>2, <3>1 DEF LobbyInv, OutsideInv
  <2> QED
    BY <1>2, <2>1, <2>2
<1>5. GatheredInv' /\ BegunInv' /\ RelayedInv' /\ WarnedInv'
  <2>1. \A b : /\ \A type : Told(b, type)' = Told(b, type)
               /\ Warned(b)' = Warned(b)
    BY <1>0 DEF Told, Warned, HearsFirst
  <2> QED
    BY <1>0, <1>1, <2>1 DEF LobbyInv, GatheredInv, BegunInv, RelayedInv, WarnedInv
<1> QED
  BY <1>0, <1>3, <1>4, <1>5 DEF LobbyInv

\* A request with a round message comes from a client that has begun.
LEMMA RoundRequest ==
    ASSUME TypeInv, RoundInv, NEW c \in Clients, Request(c, "Round")
    PROVE  round[c].driver > 0
<1>1. /\ toServer[c] # <<>> /\ toServer[c] \in Seq(Messages)
      /\ Head(toServer[c]) \in Messages /\ Head(toServer[c]).type = "Round"
  BY QueuesTyped DEF Request, First
<1>2. PICK p \in Clients, r \in Rounds : Head(toServer[c]) = Msg("Round", p, r)
  BY <1>1 DEF Messages, Msg
<1>3. OnWay("Round", r, c, p)
  BY <1>1, <1>2, QueueTail DEF OnWay
<1>4. Upto(r, round[c])
  BY <1>3 DEF RoundInv, SentInv, Reached
<1> QED
  BY <1>4, RoundFields DEF Upto

LEMMA LobbyRelay ==
    ASSUME TypeInv, RoundInv, LobbyInv, NEW c \in Keys, Handle(c)
    PROVE  LobbyInv'
<1>0. UNCHANGED <<job, active, phase, round, ignored>>
  BY DEF Handle, NewSession, ReplySessionCreated, SessionConnection,
         PeerHandshake, Touch, RelayRound, CloseSession, RemoveSession,
         ReplySessionFinished, clients, relay
<1>1. toServer[c] # <<>>
  BY DEF Handle, NewSession, ReplySessionCreated, SessionConnection,
         PeerHandshake, Touch, RelayRound, CloseSession, RemoveSession,
         ReplySessionFinished, Request, TypeInv, HandlerOK
<1>2. c \in Clients /\ First(c) \in Messages /\ c \in active
  <2>1. c \in Clients /\ First(c) \in Messages
    BY <1>1, FirstTyped
  <2> QED
    BY <1>1, <2>1 DEF LobbyInv, OutsideInv
<1>3. \A word \in {"SessionCreated", "SessionFinished", "Error"} :
          Word(word) \in Messages /\ Word(word).type = word
  BY WordMessage DEF TypeInv, MessageTypes
<1>4. ASSUME Returned(c), UNCHANGED waiter,
             UNCHANGED stage \/ stage' = [stage EXCEPT ![c] = "start"],
             \/ UNCHANGED toClient
             \/ \E word \in {"SessionCreated", "SessionFinished", "Error"} :
                    Send(c, Word(word))
      PROVE  LobbyInv'
  BY <1>0, <1>1, <1>2, <1>3, <1>4, LobbyReturns
<1>5. CASE NewSession(c)
  <2>1. /\ UNCHANGED <<toServer, toClient>> /\ stage' = [stage EXCEPT ![c] = "created"]
        /\ waiter' = [waiter EXCEPT !.pc = "poll"]
        /\ Request(c, "NewSession") /\ stage[c] = "start"
    BY <1>5 DEF NewSession
  <2>2. 1 \in DOMAIN toServer[c] /\ toServer[c][1].type = "NewSession"
    BY <1>2, <2>1, QueuesTyped DEF Request, First
  <2>3. c = Owner /\ waiter.pc = "unborn"
    BY <1>2, <2>1, <2>2 DEF LobbyInv, AskedInv
  <2>4. \A b \in Clients : \A n \in DOMAIN toServer[b] :
            toServer[b][n].type = "NewSession" => b = c
    BY <2>3 DEF LobbyInv, AskedInv
  <2> QED
    BY <1>0, <1>2, <2>1, <2>3, <2>4, LobbyHandler
<1>6. CASE ReplySessionCreated(c) \/ ReplySessionFinished(c) \/ SessionConnection(c)
  BY <1>4, <1>6 DEF ReplySessionCreated, ReplySessionFinished, SessionConnection, HandleError
<1>7. ASSUME RelayTo(c, First(c).peer), UNCHANGED waiter,
             UNCHANGED stage \/ stage' = [stage EXCEPT ![c] = "start"],
             First(c).type \in PeerSays \/ (First(c).type = "Round" /\ stage[c] = "relay")
      PROVE  LobbyInv'
  <2>1. CASE First(c).peer \notin active
    BY <1>4, <1>7, <2>1 DEF RelayTo, HandleError
  <2>2. CASE First(c).peer \in active
    <3>1. PICK d, x : /\ d = First(c).peer /\ x = [First(c) EXCEPT !.peer = c]
                      /\ Returned(c) /\ Send(d, x)
      BY <1>7, <2>2 DEF RelayTo
    <3>2. d \in Clients /\ d \in active /\ x \in Messages /\ x.type = First(c).type
      BY <1>2, <2>2, <3>1 DEF Messages
    <3>3. x.type # "SessionActive" /\ (x.type = "Round" => stage[c] = "relay")
      BY <1>7, <3>2 DEF PeerSays
    <3> QED
      BY <1>0, <1>1, <1>2, <1>7, <3>1, <3>2, <3>3, LobbyReturns
  <2> QED
    BY <2>1, <2>2
<1>8. CASE PeerHandshake(c)
  BY <1>7, <1>8 DEF PeerHandshake, Request, PeerSays, relay
<1>9. CASE Touch(c)
  <2>1. Request(c, "Round") /\ ~reading /\ UNCHANGED waiter
    BY <1>9 DEF Touch
  <2>2. CASE HandleError(c) /\ UNCHANGED stage
    BY <1>4, <2>1, <2>2 DEF HandleError
  <2>3. CASE stage' = [stage EXCEPT ![c] = "relay"] /\ UNCHANGED <<toServer, toClient>>
    <3>1. waiter.pc = "done"
      BY <1>2, <2>1, RoundRequest DEF reading, LobbyInv, BegunInv
    <3> QED
      BY <1>0, <1>2, <2>1, <2>3, <3>1, LobbyHandler
  <2> QED
    BY <1>9, <2>2, <2>3 DEF Touch
<1>10. CASE RelayRound(c)
  <2>1. First(c).type = "Round"
    BY <1>10 DEF RelayRound, TypeInv, HandlerOK, Request
  <2> QED
    BY <1>7, <1>10, <2>1 DEF RelayRound
<1>11. CASE CloseSession(c)
  <2>1. UNCHANGED waiter
    BY <1>11 DEF CloseSession
  <2>2. CASE HandleError(c) /\ UNCHANGED stage
    BY <1>4, <2>1, <2>2 DEF HandleError
  <2>3. CASE stage' = [stage EXCEPT ![c] = "close"] /\ UNCHANGED <<toServer, toClient>>
    BY <1>0, <1>2, <2>1, <2>3, LobbyHandler
  <2> QED
    BY <1>11, <2>2, <2>3 DEF CloseSession
<1>12. CASE RemoveSession(c)
  BY <1>0, <1>2, <1>12, LobbyHandler DEF RemoveSession
<1> QED
  BY <1>5, <1>6, <1>8, <1>9, <1>10, <1>11, <1>12 DEF Handle

\* notify_peers.
LEMMA LobbyWaiter ==
    ASSUME TypeInv, LobbyInv, Waiter
    PROVE  LobbyInv'
<1>0. /\ UNCHANGED <<job, active, stage, toServer, phase, round, ignored>>
      /\ Clients' = Clients /\ Owner' = Owner /\ Parties' = Parties
  BY SameTypes DEF Waiter, Poll, NotifyPeers, NotifyPeer, NotifyReturn, clients
<1>1. /\ waiter = [pc |-> waiter.pc, msg |-> waiter.msg, next |-> waiter.next]
      /\ waiter.next \in Nat /\ waiter.msg \in {"SessionReady", "SessionActive"}
  BY DEF TypeInv, RelayOK
<1>2. waiter.pc # "unborn" /\ waiter'.pc # "unborn"
  BY <1>1 DEF Waiter, Poll, NotifyPeers, NotifyPeer, NotifyReturn
<1>3. \A i \in DOMAIN Parties : Parties[i] \in Clients
  BY DEF Clients
<1>4. AskedInv'
  BY <1>0, <1>2 DEF LobbyInv, AskedInv
<1>5. ASSUME UNCHANGED toClient
      PROVE  /\ OutsideInv'
             /\ \A b \in Clients : /\ \A type : Told(b, type)' = Told(b, type)
                                   /\ Warned(b)' = Warned(b)
  BY <1>0, <1>2, <1>5 DEF LobbyInv, OutsideInv, Told, Warned, HearsFirst
<1>6. CASE Poll
  <2>1. /\ UNCHANGED toClient /\ waiter.pc = "poll" /\ waiter'.pc = "found"
        /\ waiter'.msg = waiter.msg
        /\ waiter.msg = "SessionReady" => Clients \subseteq active
    BY <1>1, <1>6 DEF Poll
  <2>2. GatheredInv'
    BY <1>0, <1>1, <2>1 DEF LobbyInv, GatheredInv
  <2>3. BegunInv' /\ RelayedInv' /\ WarnedInv'
    BY <1>0, <1>5, <2>1 DEF LobbyInv, BegunInv, RelayedInv, WarnedInv
  <2> QED
    BY <1>0, <1>4, <1>5, <2>1, <2>2, <2>3 DEF LobbyInv
<1>7. CASE NotifyPeers
  <2>1. UNCHANGED toClient /\ waiter.pc = "found" /\ waiter'.pc = "notify"
        /\ waiter'.msg = waiter.msg /\ waiter'.next = 1
    BY <1>1, <1>7 DEF NotifyPeers
  <2>2. GatheredInv' /\ BegunInv' /\ RelayedInv'
    BY <1>0, <1>5, <2>1 DEF LobbyInv, GatheredInv, BegunInv, RelayedInv
  <2>3. WarnedInv'
    <3>1. \A i \in DOMAIN Parties : ~(i < 1)
      BY JobFacts DEF TypeInv
    <3> QED
      BY <1>0, <2>1, <3>1 DEF WarnedInv
  <2> QED
    BY <1>0, <1>4, <1>5, <2>1, <2>2, <2>3 DEF LobbyInv
<1>8. CASE NotifyPeer
  <2>1. /\ waiter.pc = "notify" /\ waiter'.pc = "notify" /\ waiter'.msg = waiter.msg
        /\ waiter'.next = waiter.next + 1 /\ Clients \subseteq active
        /\ Send(Parties[waiter.next], Word(waiter.msg)) /\ waiter.next <= Len(Parties)
    BY <1>1, <1>8 DEF NotifyPeer, LobbyInv, GatheredInv
  <2>2. waiter.next \in DOMAIN Parties
    BY <2>1, JobFacts DEF TypeInv, RelayOK
  <2>3. PICK d \in Clients, x \in Messages :
            d = Parties[waiter.next] /\ Send(d, x) /\ x.type = waiter.msg
    <3>1. Word(waiter.msg) \in Messages /\ Word(waiter.msg).type = waiter.msg
      BY <1>1, WordMessage DEF TypeInv, MessageTypes
    <3> QED
      BY <1>3, <2>1, <2>2, <3>1
  <2>4. ASSUME NEW b \in Clients
        PROVE  /\ Told(b, "SessionActive")' =>
                      Told(b, "SessionActive") \/ waiter.msg = "SessionActive"
               /\ ~Told(b, "Round")' /\ stage[b] # "relay"
               /\ Warned(b) => Warned(b)'
               /\ b = d /\ waiter.msg = "SessionActive" => Warned(b)'
    <3>1. ~Told(b, "Round") /\ stage[b] # "relay"
      BY <2>1 DEF LobbyInv, RelayedInv
    <3>2. /\ \A type : Told(b, type)' <=> Told(b, type) \/ (b = d /\ x.type = type)
          /\ HearsFirst(b) => HearsFirst(b)'
          /\ b = d /\ x.type = "SessionActive" /\ ~Told(b, "Round") => HearsFirst(b)'
      BY <2>3, TellStep
    <3>3. x.type # "Round"
      BY <1>1, <2>3
    <3> QED
      BY <1>0, <2>3, <3>1, <3>2, <3>3 DEF Warned
  <2>5. OutsideInv' /\ GatheredInv'
    <3>1. Owner \in Clients
      BY JobFacts DEF TypeInv
    <3> QED
      BY <1>0, <2>1, <3>1 DEF OutsideInv, GatheredInv
  <2>6. BegunInv' /\ RelayedInv'
    BY <1>0, <2>1, <2>4 DEF LobbyInv, BegunInv, RelayedInv
  <2>7. WarnedInv'
    <3>1. ASSUME waiter.msg = "SessionActive", NEW i \in DOMAIN Parties, i < waiter.next + 1
          PROVE  Warned(Parties[i])'
      <4>1. CASE i = waiter.next
        BY <1>0, <1>3, <2>3, <2>4, <3>1, <4>1
      <4>2. CASE i < waiter.next
        BY <1>0, <1>3, <2>1, <2>4, <3>1, <4>2 DEF LobbyInv, WarnedInv
      <4>3. i \in Nat
        BY JobFacts DEF TypeInv
      <4> QED
        BY <1>1, <3>1, <4>1, <4>2, <4>3
    <3> QED
      BY <1>0, <2>1, <3>1 DEF WarnedInv
  <2> QED
    BY <1>0, <1>4, <2>5, <2>6, <2>7 DEF LobbyInv
<1>9. CASE NotifyReturn
  <2>1. /\ waiter.pc = "notify" /\ UNCHANGED toClient /\ waiter.next > Len(Parties)
        /\ waiter'.msg = "SessionActive" /\ Clients \subseteq active
        /\ waiter'.pc = IF waiter.msg = "SessionReady" THEN "poll" ELSE "done"
    BY <1>1, <1>9 DEF NotifyReturn, LobbyInv, GatheredInv
  <2>2. GatheredInv' /\ BegunInv' /\ RelayedInv'
    BY <1>0, <1>5, <2>1 DEF LobbyInv, GatheredInv, BegunInv, RelayedInv
  <2>3. WarnedInv'
    <3>1. \A i \in DOMAIN Parties : i < waiter.next
      BY <1>1, <2>1, JobFacts DEF TypeInv
    <3>2. waiter.msg = "SessionActive" => \A b \in Clients : Warned(b)
      BY <2>1, <3>1 DEF LobbyInv, WarnedInv, Clients
    <3> QED
      BY <1>0, <1>1, <1>5, <2>1, <3>2 DEF WarnedInv
  <2> QED
    BY <1>0, <1>4, <1>5, <2>1, <2>2, <2>3 DEF LobbyInv
<1> QED
  BY <1>6, <1>7, <1>8, <1>9 DEF Waiter

\* OnRound finds nothing to ignore: in setup SessionActive is still ahead of
\* every round message, and after the last round none is on its way.
LEMMA NoneToIgnore ==
    ASSUME TypeInv, RoundInv, LobbyInv, NEW c \in Clients, Incoming(c, "Round")
    PROVE  phase[c] = "running"
<1>0. toClient[c] # <<>> /\ Head(toClient[c]).type = "Round"
      /\ phase[c] \notin {"done", "failed", "panicked"} /\ phase[c] \in Phases
  BY QueuesTyped DEF Incoming, TypeInv, ClientsOK
<1>1. phase[c] # "setup"
  <2>1. waiter.pc = "done"
    BY <1>0, HeadRound DEF LobbyInv, RelayedInv
  <2>2. Warned(c)
    BY <2>1 DEF LobbyInv, WarnedInv
  <2> QED
    BY <1>0, <2>2, HeadRound DEF Warned
<1>2. phase[c] \notin Over
  <2>1. toClient[c] \in Seq(Messages) /\ Head(toClient[c]) \in Messages
    BY <1>0, QueuesTyped
  <2>2. PICK p \in Clients, r \in Rounds : Head(toClient[c]) = Msg("Round", p, r)
    BY <1>0, <2>1 DEF Messages, Msg
  <2>3. OnWay("Round", r, p, c)
    BY <1>0, <2>1, <2>2, QueueTail DEF OnWay
  <2>4. p # c /\ p \notin Taken(c, r)
    BY <2>3 DEF RoundInv, SentInv, Taken
  <2> QED
    BY <2>4 DEF RoundInv, PassedInv, Passed
<1> QED
  BY <1>0, <1>1, <1>2 DEF Phases, Over

LEMMA LobbyClient ==
    ASSUME TypeInv, RoundInv, LobbyInv, NEW c \in Keys, Client(c)
    PROVE  LobbyInv'
<1>0. /\ UNCHANGED <<job, active, waiter, stage>> /\ DOMAIN phase = Keys
      /\ ignored = {} /\ Clients \subseteq Keys
  BY JobFacts
     DEF Client, OnSessionCreated, OnSessionReady, OnSessionActive,
         OnInitiator, OnResponder, OnRound, OnSessionFinished, OnError, Close,
         relay, TypeInv, ClientsOK, LobbyInv
<1>1. ASSUME NEW type, Incoming(c, type)
      PROVE  /\ c \in Clients /\ toClient[c] # <<>>
             /\ toClient' = [toClient EXCEPT ![c] = Tail(@)]
             /\ Head(toClient[c]) \in Messages /\ Head(toClient[c]).type = type
  BY <1>0, <1>1, TakeTyped DEF Incoming
<1>2. ASSUME NEW type, Incoming(c, type), type # "SessionActive", UNCHANGED <<round, ignored>>,
             NEW msgs \in Seq(Messages), Requests(c, msgs),
             \A n \in DOMAIN msgs : msgs[n].type # "NewSession",
             \A x \in Clients : phase'[x] = "setup" => phase[x] = "setup"
      PROVE  LobbyInv'
  <2>1. /\ c \in Clients /\ toClient[c] # <<>>
        /\ toClient' = [toClient EXCEPT ![c] = Tail(@)]
        /\ Head(toClient[c]).type # "SessionActive"
    BY <1>1, <1>2
  <2>2. ignored' = {} /\ \A x \in Clients : round'[x].driver > 0 => round[x].driver > 0
    BY <1>0, <1>2
  <2> QED
    BY <1>0, <1>2, <2>1, <2>2, LobbySays
<1>3. ASSUME NEW type, Incoming(c, type), type # "SessionActive", UNCHANGED <<round, ignored>>,
             UNCHANGED toServer,
             \A x \in Clients : phase'[x] = "setup" => phase[x] = "setup"
      PROVE  LobbyInv'
  <2>1. Requests(c, <<>>) /\ <<>> \in Seq(Messages)
    BY <1>1, <1>3, NoRequests
  <2>2. \A n \in DOMAIN <<>> : <<>>[n].type # "NewSession"
    OBVIOUS
  <2> QED
    BY <1>2, <1>3, <2>1, <2>2
<1>4. ASSUME UNCHANGED phase \/ Fail(c) \/ PeerConnected(c)
      PROVE  \A x \in Clients : phase'[x] = "setup" => phase[x] = "setup"
  BY <1>0, <1>4 DEF Fail, PeerConnected
<1>5. ASSUME NEW type, Incoming(c, type), UNCHANGED ignored, NEW r \in Rounds,
             Dispatch(c, r) \/ HandleEvent(c, r),
             \A x \in Clients : phase'[x] = "setup" => phase[x] = "setup",
             type # "SessionActive" \/ phase'[c] # "setup",
             \A x \in Clients : round'[x].driver > 0 =>
                 round[x].driver > 0 \/ Told(x, "SessionActive")
      PROVE  LobbyInv'
  <2>1. PICK msgs \in Seq(Messages) :
            /\ Requests(c, msgs)
            /\ \A n \in DOMAIN msgs : msgs[n].type \in {"Round", "CloseSession"}
    BY <1>1, <1>5, DriverSays
  <2>2. \A n \in DOMAIN msgs : msgs[n].type # "NewSession"
    BY <2>1
  <2>3. /\ c \in Clients /\ toClient[c] # <<>>
        /\ toClient' = [toClient EXCEPT ![c] = Tail(@)]
        /\ Head(toClient[c]).type = type
    BY <1>1, <1>5
  <2>4. ignored' = {}
    BY <1>0, <1>5
  <2> QED
    BY <1>0, <1>5, <2>1, <2>2, <2>3, <2>4, LobbySays
<1>6. CASE OnSessionCreated(c)
  BY <1>3, <1>4, <1>6 DEF OnSessionCreated
<1>7. CASE OnSessionReady(c)
  <2>1. Incoming(c, "SessionReady") /\ UNCHANGED <<round, ignored>>
    BY <1>7 DEF OnSessionReady
  <2>2. CASE Fail(c) /\ UNCHANGED toServer
    BY <1>3, <1>4, <2>1, <2>2
  <2>3. CASE Dial(c) /\ UNCHANGED phase
    <3>1. PICK msgs : /\ Requests(c, msgs)
                      /\ msgs = [i \in DOMAIN connections(Parties, c) |->
                                 Msg("Initiator", connections(Parties, c)[i], NoRound)]
      BY <2>3 DEF Dial
    <3>2. /\ msgs \in Seq(Messages)
          /\ \A n \in DOMAIN msgs :
                 msgs[n].type \notin {"Round", "NewSession", "CloseSession"}
      BY <1>1, <2>1, <3>1, HandshakeSays
    <3>3. \A n \in DOMAIN msgs : msgs[n].type # "NewSession"
      BY <3>2
    <3> QED
      BY <1>2, <1>4, <2>1, <2>3, <3>1, <3>2, <3>3
  <2> QED
    BY <1>7, <2>2, <2>3 DEF OnSessionReady
<1>8. CASE OnSessionActive(c)
  <2>1. /\ Incoming(c, "SessionActive") /\ phase[c] = "setup" /\ UNCHANGED ignored
        /\ Dispatch(c, [driver |-> 1, number |-> 1])
    BY <1>8 DEF OnSessionActive, StartDriver
  <2>2. PICK d \in Rounds : d = [driver |-> 1, number |-> 1] /\ Dispatch(c, d)
    BY <1>1, <2>1, FirstRound
  <2>3. /\ phase'[c] # "setup"
        /\ \A x \in Clients : phase'[x] = "setup" => phase[x] = "setup"
        /\ \A x \in Clients : x # c => round'[x] = round[x]
    BY <1>0, <2>2, RoundFields DEF Dispatch, Fail
  <2>4. Told(c, "SessionActive")
    BY <1>1, <2>1, HeadRound
  <2>5. \A x \in Clients : round'[x].driver > 0 =>
            round[x].driver > 0 \/ Told(x, "SessionActive")
    BY <2>3, <2>4
  <2> QED
    BY <1>5, <2>1, <2>2, <2>3, <2>5
<1>9. CASE OnInitiator(c)
  <2>1. Incoming(c, "Initiator") /\ UNCHANGED <<round, ignored>>
    BY <1>9 DEF OnInitiator
  <2>2. PICK p \in Clients : p = Head(toClient[c]).peer
    BY <1>1, <2>1 DEF Messages
  <2>3. CASE Fail(c) /\ UNCHANGED toServer
    BY <1>3, <1>4, <2>1, <2>3
  <2>4. CASE /\ PeerConnected(c)
             /\ Requests(c, <<Msg("Responder", p, NoRound)>> \o RegisterConnection(c, p))
    <3>1. PICK msgs : /\ Requests(c, msgs)
                      /\ msgs = <<Msg("Responder", p, NoRound)>> \o RegisterConnection(c, p)
      BY <2>4
    <3>2. /\ msgs \in Seq(Messages)
          /\ \A n \in DOMAIN msgs :
                 msgs[n].type \notin {"Round", "NewSession", "CloseSession"}
      BY <1>1, <2>1, <3>1, HandshakeSays
    <3>3. \A n \in DOMAIN msgs : msgs[n].type # "NewSession"
      BY <3>2
    <3> QED
      BY <1>2, <1>4, <2>1, <2>4, <3>1, <3>2, <3>3
  <2> QED
    BY <1>9, <2>2, <2>3, <2>4 DEF OnInitiator
<1>10. CASE OnResponder(c)
  <2>1. Incoming(c, "Responder") /\ UNCHANGED <<round, ignored>>
    BY <1>10 DEF OnResponder
  <2>2. PICK p \in Clients : p = Head(toClient[c]).peer
    BY <1>1, <2>1 DEF Messages
  <2>3. CASE Fail(c) /\ UNCHANGED toServer
    BY <1>3, <1>4, <2>1, <2>3
  <2>4. CASE PeerConnected(c) /\ Requests(c, RegisterConnection(c, p))
    <3>1. PICK msgs : Requests(c, msgs) /\ msgs = RegisterConnection(c, p)
      BY <2>4
    <3>2. /\ msgs \in Seq(Messages)
          /\ \A n \in DOMAIN msgs :
                 msgs[n].type \notin {"Round", "NewSession", "CloseSession"}
      BY <1>1, <2>1, <3>1, HandshakeSays
    <3>3. \A n \in DOMAIN msgs : msgs[n].type # "NewSession"
      BY <3>2
    <3> QED
      BY <1>2, <1>4, <2>1, <2>4, <3>1, <3>2, <3>3
  <2> QED
    BY <1>10, <2>2, <2>3, <2>4 DEF OnResponder
<1>11. CASE OnRound(c)
  <2>1. Incoming(c, "Round")
    BY <1>11 DEF OnRound
  <2>2. CASE Fail(c) /\ UNCHANGED <<toServer, round, ignored>>
    BY <1>3, <1>4, <2>1, <2>2
  <2>3. CASE HandleEvent(c, Head(toClient[c]).round) /\ UNCHANGED ignored
    <3>1. PICK r \in Rounds : r = Head(toClient[c]).round
      BY <1>1, <2>1 DEF Messages
    <3>2. phase[c] = "running"
      BY <1>1, <2>1, NoneToIgnore
    <3>3. ASSUME NEW x \in Clients
          PROVE  /\ phase'[x] = "setup" => phase[x] = "setup"
                 /\ round'[x].driver > 0 => round[x].driver > 0
      <4>1. x \in Keys /\ c \in Keys /\ DOMAIN round = Keys
        BY <1>0, RoundFields
      <4>2. \/ UNCHANGED round /\ (UNCHANGED phase \/ Fail(c) \/ Finish(c))
            \/ r.driver = round[c].driver /\ \E d : Dispatch(c, d)
        BY <2>3, <3>1 DEF HandleEvent, Proceed, StartDriver
      <4>3. r.driver > 0
        BY RoundFields
      <4> QED
        BY <1>0, <4>1, <4>2, <4>3 DEF Dispatch, Fail, Finish
    <3> QED
      BY <1>5, <2>1, <2>3, <3>1, <3>3
  <2> QED
    BY <1>1, <1>11, <2>1, <2>2, <2>3, NoneToIgnore DEF OnRound
<1>12. CASE OnSessionFinished(c)
  <2>1. \A x \in Clients : phase'[x] = "setup" => phase[x] = "setup"
    BY <1>0, <1>12 DEF OnSessionFinished
  <2> QED
    BY <1>3, <1>12, <2>1 DEF OnSessionFinished
<1>13. CASE OnError(c)
  BY <1>3, <1>4, <1>13 DEF OnError
<1>14. CASE Close(c)
  <2>1. UNCHANGED <<toServer, toClient, round, ignored>>
    BY <1>14 DEF Close
  <2>2. PICK o \in Clients : o = Owner
    BY JobFacts DEF TypeInv
  <2>3. Requests(o, <<>>) /\ <<>> \in Seq(Messages)
        /\ \A n \in DOMAIN <<>> : <<>>[n].type # "NewSession"
    BY <2>1, NoRequests
  <2>4. \A x \in Clients : phase'[x] = "setup" => phase[x] = "setup"
    BY <1>0, <1>14 DEF Close
  <2>5. ignored' = {} /\ \A x \in Clients : round'[x].driver > 0 => round[x].driver > 0
    BY <1>0, <2>1
  <2> QED
    BY <1>0, <2>1, <2>3, <2>4, <2>5, LobbySays
<1> QED
  BY <1>6, <1>7, <1>8, <1>9, <1>10, <1>11, <1>12, <1>13, <1>14 DEF Client

LEMMA LobbyInit == Init => LobbyInv
<1> SUFFICES ASSUME Init PROVE LobbyInv
  OBVIOUS
<1>1. /\ \A c \in Clients : /\ c \in Keys /\ toServer[c] = <<>> /\ toClient[c] = <<>>
                            /\ round[c].driver = 0 /\ stage[c] = "start"
      /\ waiter.pc = "unborn" /\ waiter.msg = "SessionReady" /\ ignored = {}
  BY JobFacts DEF Init, NoRound
<1>2. OutsideInv /\ AskedInv /\ GatheredInv
  BY <1>1 DEF OutsideInv, AskedInv, GatheredInv
<1>3. BegunInv /\ RelayedInv /\ WarnedInv
  BY <1>1 DEF BegunInv, RelayedInv, WarnedInv, Told
<1> QED
  BY <1>1, <1>2, <1>3 DEF LobbyInv

LEMMA LobbyNext == TypeInv /\ RoundInv /\ LobbyInv /\ [Next]_vars => LobbyInv'
<1> SUFFICES ASSUME TypeInv, RoundInv, LobbyInv, [Next]_vars PROVE LobbyInv'
  OBVIOUS
<1>1. CASE UNCHANGED vars
  <2>1. UNCHANGED <<relay, toServer, toClient, clients>>
    BY <1>1 DEF vars
  <2>2. UNCHANGED <<job, active, waiter, stage, toServer, toClient, phase, round, ignored>>
    BY <2>1 DEF relay, clients
  <2>3. Clients' = Clients /\ Owner' = Owner /\ Parties' = Parties
    BY <2>2, SameTypes
  <2> QED
    BY <2>2, <2>3
       DEF LobbyInv, OutsideInv, AskedInv, GatheredInv, BegunInv, RelayedInv,
           WarnedInv, Told, Warned, HearsFirst
<1>2. CASE Next
  BY <1>2, LobbyConnect, LobbyRelay, LobbyWaiter, LobbyClient DEF Next
<1> QED
  BY <1>1, <1>2

\* No client is told of a round by a peer before it has heard SessionActive
\* itself, nor after it has its result: nothing is dropped.
THEOREM NothingDropped == Spec => []NothingIgnored
<1>1. LobbyInv => NothingIgnored
  BY DEF LobbyInv, NothingIgnored
<1>2. Init => TypeInv /\ RoundInv /\ LobbyInv
  BY TypeInit, RoundInit, LobbyInit
<1>3. TypeInv /\ RoundInv /\ LobbyInv /\ [Next]_vars => TypeInv' /\ RoundInv' /\ LobbyInv'
  BY TypeNext, RoundNext, LobbyNext
<1> QED
  BY <1>1, <1>2, <1>3, PTL DEF Spec

-----------------------------------------------------------------------------
(* The end of the session                                                  *)

\* The session is closed: it was there and is no more.
Closed == session = {} /\ waiter.pc # "unborn"

Ended(c) == phase[c] \in Over \cup {"failed"}

\* Only the owner closes its session, and after its last round.
ClosingInv ==
    /\ Closed => Ended(Owner)
    /\ \A c \in Clients : \A n \in DOMAIN toServer[c] :
           toServer[c][n].type = "CloseSession" => c = Owner /\ Ended(c)
    /\ \A s \in session : s.owner_key = Owner

\* No client knows of another before all are connected.
MetInv ==
    \A c \in Clients :
        Told(c, "SessionReady") \/ (\E p \in Clients \ {c} : peers[c][p] # "none") =>
            Clients \subseteq active /\ waiter.pc # "unborn"

\* c will be told that the session is ready.
Due(c) ==
    /\ waiter.msg = "SessionReady"
    /\ waiter.pc = "notify" =>
           \E i \in DOMAIN Parties : Parties[i] = c /\ waiter.next <= i

\* Nobody is told so twice, nor after it has dialled.
ReadyInv ==
    \A c \in Clients :
        /\ Told(c, "SessionReady") \/ Due(c) =>
               \A p \in Clients : Dials(c, p) => peers[c][p] = "none"
        /\ \A m, n \in DOMAIN toClient[c] :
               /\ toClient[c][m].type = "SessionReady"
               /\ toClient[c][n].type = "SessionReady"
               => m = n
        /\ Due(c) => ~Told(c, "SessionReady")

EndInv == ClosingInv /\ MetInv /\ ReadyInv

\* What a handler does to the queues: it goes on or answers its client, passes
\* a message on, or refuses the request.
LEMMA HandlerForms ==
    ASSUME TypeInv, NEW c \in Keys, Handle(c)
    PROVE  /\ c \in Clients /\ toServer[c] # <<>> /\ First(c) \in Messages
           /\ UNCHANGED <<job, active, clients>>
           /\ \/ /\ UNCHANGED toServer \/ (Returned(c) /\ First(c).type \notin Carried)
                 /\ \/ UNCHANGED toClient
                    \/ \E word \in {"SessionCreated", "SessionFinished"} : Send(c, Word(word))
              \/ /\ First(c).type \in Carried /\ First(c).peer \in active
                 /\ Returned(c) /\ Send(First(c).peer, [First(c) EXCEPT !.peer = c])
              \/ /\ HandleError(c)
                 /\ \/ First(c).type \in Carried /\ First(c).peer \notin active
                    \/ First(c).type \in {"SessionConnection", "Round"} /\ session = {}
                    \/ First(c).type = "CloseSession" /\ \A s \in session : s.owner_key # c
<1>0. UNCHANGED <<job, active, clients>>
  BY DEF Handle, NewSession, ReplySessionCreated, SessionConnection,
         PeerHandshake, Touch, RelayRound, CloseSession, RemoveSession,
         ReplySessionFinished, relay, clients
<1>1. toServer[c] # <<>>
  BY DEF Handle, NewSession, ReplySessionCreated, SessionConnection,
         PeerHandshake, Touch, RelayRound, CloseSession, RemoveSession,
         ReplySessionFinished, Request, TypeInv, HandlerOK
<1>2. c \in Clients /\ First(c) \in Messages
  BY <1>1, FirstTyped
<1>3. CASE NewSession(c) \/ RemoveSession(c)
  BY <1>0, <1>1, <1>2, <1>3 DEF NewSession, RemoveSession
<1>4. CASE ReplySessionCreated(c) \/ ReplySessionFinished(c)
  <2>1. First(c).type \in {"NewSession", "CloseSession"}
    BY <1>4 DEF ReplySessionCreated, ReplySessionFinished, TypeInv, HandlerOK, Request
  <2> QED
    BY <1>0, <1>1, <1>2, <1>4, <2>1
       DEF ReplySessionCreated, ReplySessionFinished, Carried, PeerSays
<1>5. CASE SessionConnection(c)
  BY <1>0, <1>1, <1>2, <1>5 DEF SessionConnection, Request, Carried, PeerSays
<1>6. CASE PeerHandshake(c) \/ RelayRound(c)
  <2>1. First(c).type \in Carried /\ RelayTo(c, First(c).peer)
    BY <1>6 DEF PeerHandshake, RelayRound, TypeInv, HandlerOK, Request, Carried, PeerSays
  <2> QED
    BY <1>0, <1>1, <1>2, <2>1 DEF RelayTo
<1>7. CASE Touch(c) \/ CloseSession(c)
  BY <1>0, <1>1, <1>2, <1>7 DEF Touch, CloseSession, Request
<1> QED
  BY <1>3, <1>4, <1>5, <1>6, <1>7 DEF Handle

\* What a handler does to the session and its waiting task.
LEMMA HandlerSession ==
    ASSUME TypeInv, LobbyInv, NEW c \in Keys, Handle(c)
    PROVE  \/ UNCHANGED <<session, waiter>>
           \/ /\ c = Owner /\ waiter.pc = "unborn"
              /\ session' = {Session(c, Clients \ {c})}
              /\ waiter' = [waiter EXCEPT !.pc = "poll"]
           \/ /\ \A t \in session' : \E s \in session : t = register_connection(s, c, First(c).peer)
              /\ session' = {} => session = {}
              /\ UNCHANGED waiter
           \/ /\ stage[c] = "close"
              /\ session' = {} /\ UNCHANGED waiter
<1>1. CASE NewSession(c)
  <2>1. Request(c, "NewSession") /\ stage[c] = "start"
    BY <1>1 DEF NewSession
  <2>2. c \in Clients /\ 1 \in DOMAIN toServer[c] /\ toServer[c][1].type = "NewSession"
    BY <2>1, FirstTyped, QueuesTyped DEF Request, First
  <2>3. c = Owner /\ waiter.pc = "unborn"
    BY <2>1, <2>2 DEF LobbyInv, AskedInv
  <2> QED
    BY <1>1, <2>3 DEF NewSession
<1>2. CASE SessionConnection(c)
  BY <1>2 DEF SessionConnection
<1>3. CASE RemoveSession(c)
  BY <1>3 DEF RemoveSession
<1>4. CASE \/ ReplySessionCreated(c) \/ PeerHandshake(c) \/ Touch(c) \/ RelayRound(c)
           \/ CloseSession(c) \/ ReplySessionFinished(c)
  BY <1>4 DEF ReplySessionCreated, PeerHandshake, Touch, RelayRound, CloseSession,
              ReplySessionFinished, relay
<1> QED
  BY <1>1, <1>2, <1>3, <1>4 DEF Handle

\* The queue of a client after one more message, which is not SessionReady.
LEMMA ReadyQueue ==
    ASSUME TypeInv, NEW d \in Clients, NEW x \in Messages, Send(d, x),
           NEW b \in Clients,
           \A m, n \in DOMAIN toClient[b] :
               toClient[b][m].type = "SessionReady" /\ toClient[b][n].type = "SessionReady"
               => m = n,
           b = d /\ x.type = "SessionReady" => ~Told(b, "SessionReady")
    PROVE  \A m, n \in DOMAIN toClient'[b] :
               toClient'[b][m].type = "SessionReady" /\ toClient'[b][n].type = "SessionReady"
               => m = n
<1>1. b \in Keys /\ toClient[b] \in Seq(Messages)
  BY QueuesTyped
<1>2. toClient'[b] = IF b = d THEN Append(toClient[b], x) ELSE toClient[b]
  BY <1>1 DEF Send, TypeInv, ClientQueuesOK
<1>3. CASE b # d
  BY <1>2, <1>3
<1>4. CASE b = d
  <2> DEFINE q == toClient[b]
  <2>1. /\ toClient'[b] = Append(q, x) /\ q \in Seq(Messages)
        /\ Len(q) \in Nat /\ DOMAIN q = 1..Len(q) /\ DOMAIN Append(q, x) = 1..(Len(q) + 1)
        /\ \A n \in 1..Len(q) : Append(q, x)[n] = q[n]
        /\ Append(q, x)[Len(q) + 1] = x
    BY <1>1, <1>2, <1>4
  <2>2. x.type = "SessionReady" => \A n \in 1..Len(q) : q[n].type # "SessionReady"
    BY <1>4, <2>1 DEF Told
  <2> HIDE DEF q
  <2>3. \A n \in 1..(Len(q) + 1) : n \in 1..Len(q) \/ n = Len(q) + 1
    BY <2>1
  <2> QED
    BY <2>1, <2>2, <2>3 DEF q
<1> QED
  BY <1>3, <1>4

LEMMA ReadyTail ==
    ASSUME TypeInv, NEW c \in Clients,
           \/ toClient[c] # <<>> /\ toClient' = [toClient EXCEPT ![c] = Tail(@)]
           \/ UNCHANGED toClient,
           NEW b \in Clients,
           \A m, n \in DOMAIN toClient[b] :
               toClient[b][m].type = "SessionReady" /\ toClient[b][n].type = "SessionReady"
               => m = n
    PROVE  /\ \A m, n \in DOMAIN toClient'[b] :
                  toClient'[b][m].type = "SessionReady" /\ toClient'[b][n].type = "SessionReady"
                  => m = n
           /\ /\ b = c /\ toClient[c] # <<>> /\ toClient' = [toClient EXCEPT ![c] = Tail(@)]
              /\ Head(toClient[c]).type = "SessionReady"
              => ~Told(b, "SessionReady")'
<1>1. b \in Keys /\ c \in Keys /\ toClient[b] \in Seq(Messages)
  BY QueuesTyped
<1>2. CASE ~(toClient[c] # <<>> /\ toClient' = [toClient EXCEPT ![c] = Tail(@)])
  BY <1>2
<1>3. CASE toClient[c] # <<>> /\ toClient' = [toClient EXCEPT ![c] = Tail(@)]
  <2>1. toClient'[b] = IF b = c THEN Tail(toClient[b]) ELSE toClient[b]
    BY <1>1, <1>3 DEF TypeInv, ClientQueuesOK
  <2>2. CASE b # c
    BY <2>1, <2>2
  <2>3. CASE b = c
    <3> DEFINE q == toClient[b]
    <3>1. /\ q \in Seq(Messages) /\ q # <<>> /\ toClient'[b] = Tail(q)
          /\ 1 \in DOMAIN q /\ Head(q) = q[1]
          /\ \A n \in DOMAIN Tail(q) : n \in Nat /\ n + 1 \in DOMAIN q
                                       /\ n + 1 # 1 /\ Tail(q)[n] = q[n + 1]
      BY <1>1, <1>3, <2>1, <2>3
    <3>2. \A m, n \in DOMAIN q : q[m].type = "SessionReady" /\ q[n].type = "SessionReady"
                                 => m = n
      OBVIOUS
    <3> HIDE DEF q
    <3>3. \A m, n \in DOMAIN Tail(q) :
              Tail(q)[m].type = "SessionReady" /\ Tail(q)[n].type = "SessionReady" => m = n
      <4> SUFFICES ASSUME NEW m \in DOMAIN Tail(q), NEW n \in DOMAIN Tail(q),
                          Tail(q)[m].type = "SessionReady", Tail(q)[n].type = "SessionReady"
                   PROVE  m = n
        OBVIOUS
      <4>1. m + 1 = n + 1 /\ m \in Nat /\ n \in Nat
        BY <3>1, <3>2
      <4> QED
        BY <4>1
    <3>4. Head(q).type = "SessionReady" =>
              ~\E n \in DOMAIN Tail(q) : Tail(q)[n].type = "SessionReady"
      BY <3>1, <3>2
    <3> QED
      BY <2>3, <3>1, <3>3, <3>4 DEF q, Told
  <2> QED
    BY <2>2, <2>3
<1> QED
  BY <1>2, <1>3

\* A request that is still there was there before.
LEMMA RequestsBefore ==
    ASSUME TypeInv, NEW c \in Clients, NEW msgs \in Seq(Messages),
           \/ toServer[c] # <<>> /\ Returned(c)
           \/ UNCHANGED toServer
           \/ Requests(c, msgs),
           NEW b \in Clients, NEW n \in DOMAIN toServer'[b]
    PROVE  \/ \E m \in DOMAIN toServer[b] : toServer[b][m] = toServer'[b][n]
           \/ b = c /\ Requests(c, msgs) /\ \E m \in DOMAIN msgs : msgs[m] = toServer'[b][n]
<1>0. b \in Keys /\ c \in Keys
  BY QueuesTyped
<1>1. Has(toServer'[b], toServer'[b][n])
  BY DEF Has
<1>2. CASE (toServer[c] # <<>> /\ Returned(c)) \/ UNCHANGED toServer
  <2>1. Has(toServer[b], toServer'[b][n])
    BY <1>0, <1>1, <1>2, ServerStep
  <2> QED
    BY <2>1 DEF Has
<1>3. CASE Requests(c, msgs)
  <2>1. Has(toServer[b], toServer'[b][n]) \/ (b = c /\ Has(msgs, toServer'[b][n]))
    BY <1>1, <1>3, RequestStep
  <2> QED
    BY <1>3, <2>1 DEF Has
<1> QED
  BY <1>2, <1>3

\* A step of the relay that tells nobody of the session's being ready.
LEMMA EndRelay ==
    ASSUME TypeInv, EndInv, UNCHANGED <<job, phase, peers>>, active \subseteq active',
           NEW c \in Clients, NEW msgs \in Seq(Messages),
           \/ toServer[c] # <<>> /\ Returned(c)
           \/ UNCHANGED toServer
           \/ Requests(c, msgs),
           \A n \in DOMAIN msgs : msgs[n].type # "CloseSession",
           \/ UNCHANGED toClient
           \/ \E d \in Clients : \E x \in Messages : Send(d, x) /\ x.type # "SessionReady",
           Closed' => Ended(Owner),
           \A s \in session' : s.owner_key = Owner,
           \/ UNCHANGED waiter
           \/ waiter.pc = "unborn" /\ waiter' = [waiter EXCEPT !.pc = "poll"]
    PROVE  EndInv'
<1>0. Owner' = Owner /\ Clients' = Clients /\ Parties' = Parties
  BY SameTypes
<1>1. \A b \in Clients : Ended(b)' = Ended(b)
  BY DEF Ended
<1>2. ClosingInv'
  <2>1. ASSUME NEW b \in Clients, NEW n \in DOMAIN toServer'[b],
               toServer'[b][n].type = "CloseSession"
        PROVE  b = Owner /\ Ended(b)
    <3>1. PICK m \in DOMAIN toServer[b] : toServer[b][m] = toServer'[b][n]
      BY <2>1, RequestsBefore
    <3> QED
      BY <2>1, <3>1 DEF EndInv, ClosingInv
  <2>2. Owner \in Clients
    BY JobFacts DEF TypeInv
  <2> QED
    BY <1>0, <1>1, <2>1, <2>2 DEF ClosingInv
<1>3. \A b \in Clients : Told(b, "SessionReady")' <=> Told(b, "SessionReady")
  <2> SUFFICES ASSUME NEW b \in Clients
               PROVE  Told(b, "SessionReady")' <=> Told(b, "SessionReady")
    OBVIOUS
  <2>1. CASE UNCHANGED toClient
    BY <2>1 DEF Told
  <2>2. ASSUME NEW d \in Clients, NEW x \in Messages, Send(d, x), x.type # "SessionReady"
        PROVE  Told(b, "SessionReady")' <=> Told(b, "SessionReady")
    BY <2>2, TellStep
  <2> QED
    BY <2>1, <2>2
<1>4. /\ waiter \in [pc : {"unborn", "poll", "found", "notify", "done"},
                     msg : {"SessionReady", "SessionActive"}, next : Nat \ {0}]
      /\ waiter.pc # "unborn" => waiter'.pc # "unborn"
      /\ \A b \in Clients : Due(b)' <=> Due(b)
  <2>1. waiter \in [pc : {"unborn", "poll", "found", "notify", "done"},
                    msg : {"SessionReady", "SessionActive"}, next : Nat \ {0}]
    BY DEF TypeInv, RelayOK
  <2>2. CASE UNCHANGED waiter
    BY <1>0, <2>1, <2>2 DEF Due
  <2>3. CASE waiter.pc = "unborn" /\ waiter' = [waiter EXCEPT !.pc = "poll"]
    <3>1. waiter'.pc = "poll" /\ waiter'.msg = waiter.msg
      BY <2>1, <2>3
    <3> QED
      BY <1>0, <2>1, <2>3, <3>1 DEF Due
  <2> QED
    BY <2>2, <2>3
<1>5. MetInv'
  BY <1>0, <1>3, <1>4 DEF EndInv, MetInv
<1>6. ReadyInv'
  <2> SUFFICES ASSUME NEW b \in Clients
               PROVE  /\ Told(b, "SessionReady")' \/ Due(b)' =>
                             \A p \in Clients : Dials(b, p)' => peers[b][p] = "none"
                      /\ \A m, n \in DOMAIN toClient'[b] :
                             /\ toClient'[b][m].type = "SessionReady"
                             /\ toClient'[b][n].type = "SessionReady"
                             => m = n
                      /\ Due(b)' => ~Told(b, "SessionReady")'
    BY <1>0 DEF ReadyInv
  <2>1. \A p \in Clients : Dials(b, p)' <=> Dials(b, p)
    BY <1>0 DEF Dials
  <2>2. \A m, n \in DOMAIN toClient[b] :
            toClient[b][m].type = "SessionReady" /\ toClient[b][n].type = "SessionReady"
            => m = n
    BY DEF EndInv, ReadyInv
  <2>3. \A m, n \in DOMAIN toClient'[b] :
            toClient'[b][m].type = "SessionReady" /\ toClient'[b][n].type = "SessionReady"
            => m = n
    <3>1. CASE UNCHANGED toClient
      BY <2>2, <3>1
    <3>2. ASSUME NEW d \in Clients, NEW x \in Messages, Send(d, x), x.type # "SessionReady"
          PROVE  \A m, n \in DOMAIN toClient'[b] :
                     toClient'[b][m].type = "SessionReady"
                     /\ toClient'[b][n].type = "SessionReady" => m = n
      BY <2>2, <3>2, ReadyQueue
    <3> QED
      BY <3>1, <3>2
  <2>4. /\ Told(b, "SessionReady") \/ Due(b) =>
               \A p \in Clients : Dials(b, p) => peers[b][p] = "none"
        /\ Due(b) => ~Told(b, "SessionReady")
    BY DEF EndInv, ReadyInv
  <2> QED
    BY <1>3, <1>4, <2>1, <2>3, <2>4
<1> QED
  BY <1>2, <1>5, <1>6 DEF EndInv

LEMMA EndHandler ==
    ASSUME TypeInv, LobbyInv, EndInv, NEW c \in Keys, Handle(c)
    PROVE  EndInv'
<1>1. /\ c \in Clients /\ toServer[c] # <<>> /\ First(c) \in Messages
      /\ UNCHANGED <<job, active, clients>>
  BY HandlerForms
<1>2. /\ UNCHANGED <<job, phase, peers>> /\ active \subseteq active'
      /\ <<>> \in Seq(Messages) /\ \A n \in DOMAIN <<>> : <<>>[n].type # "CloseSession"
  BY <1>1 DEF clients
<1>3. (toServer[c] # <<>> /\ Returned(c)) \/ UNCHANGED toServer
  BY <1>1, HandlerForms DEF HandleError
<1>4. \/ UNCHANGED toClient
      \/ \E d \in Clients : \E x \in Messages : Send(d, x) /\ x.type # "SessionReady"
  <2>1. \A word \in {"SessionCreated", "SessionFinished", "Error"} :
            Word(word) \in Messages /\ Word(word).type = word
    BY WordMessage DEF TypeInv, MessageTypes
  <2>2. CASE First(c).type \in Carried /\ Send(First(c).peer, [First(c) EXCEPT !.peer = c])
    <3>1. PICK d, x : /\ d = First(c).peer /\ x = [First(c) EXCEPT !.peer = c]
                      /\ Send(d, x)
      BY <2>2
    <3>2. d \in Clients /\ x \in Messages /\ x.type = First(c).type
      BY <1>1, <3>1 DEF Messages
    <3> QED
      BY <2>2, <3>1, <3>2 DEF Carried, PeerSays
  <2> QED
    BY <1>1, <2>1, <2>2, HandlerForms DEF HandleError
<1>5. stage[c] = "close" => Ended(Owner)
  <2>1. stage[c] = "close" => 1 \in DOMAIN toServer[c] /\ toServer[c][1].type = "CloseSession"
    BY <1>1, QueuesTyped DEF TypeInv, HandlerOK, Request, First
  <2> QED
    BY <1>1, <2>1 DEF EndInv, ClosingInv
<1>6. /\ Closed' => Ended(Owner)
      /\ \A s \in session' : s.owner_key = Owner
      /\ \/ UNCHANGED waiter
         \/ waiter.pc = "unborn" /\ waiter' = [waiter EXCEPT !.pc = "poll"]
  <2>1. Closed => Ended(Owner)
    BY DEF EndInv, ClosingInv
  <2>2. \A s \in session : s.owner_key = Owner
    BY DEF EndInv, ClosingInv
  <2>3. CASE UNCHANGED <<session, waiter>>
    BY <2>1, <2>2, <2>3 DEF Closed
  <2>4. CASE /\ c = Owner /\ waiter.pc = "unborn"
             /\ session' = {Session(c, Clients \ {c})}
             /\ waiter' = [waiter EXCEPT !.pc = "poll"]
    <3>1. session' # {} /\ Session(c, Clients \ {c}).owner_key = Owner
      BY <2>4 DEF Session
    <3> QED
      BY <2>4, <3>1 DEF Closed
  <2>5. CASE /\ \A t \in session' : \E s \in session :
                    t = register_connection(s, c, First(c).peer)
             /\ session' = {} => session = {}
             /\ UNCHANGED waiter
    <3>1. ASSUME NEW s \in session
          PROVE  register_connection(s, c, First(c).peer).owner_key = s.owner_key
      BY DEF register_connection
    <3> QED
      BY <2>1, <2>2, <2>5, <3>1 DEF Closed
  <2>6. CASE stage[c] = "close" /\ session' = {} /\ UNCHANGED waiter
    BY <1>5, <2>6
  <2> QED
    BY <2>3, <2>4, <2>5, <2>6, HandlerSession
<1> QED
  BY <1>1, <1>2, <1>3, <1>4, <1>6, EndRelay

LEMMA EndConnect ==
    ASSUME TypeInv, EndInv, NEW c \in Keys, Connect(c)
    PROVE  EndInv'
<1>1. /\ UNCHANGED <<job, phase, peers, session, waiter, toClient>>
      /\ active \subseteq active' /\ c \in Clients
  BY DEF Connect, clients
<1>2. PICK msgs \in Seq(Messages) :
          Requests(c, msgs) /\ \A n \in DOMAIN msgs : msgs[n].type = "NewSession"
  BY ConnectSays
<1>3. \A n \in DOMAIN msgs : msgs[n].type # "CloseSession"
  BY <1>2
<1>4. (Closed' => Ended(Owner)) /\ \A s \in session' : s.owner_key = Owner
  BY <1>1 DEF EndInv, ClosingInv, Closed
<1> QED
  BY <1>1, <1>2, <1>3, <1>4, EndRelay

LEMMA EndWaiter ==
    ASSUME TypeInv, LobbyInv, EndInv, Waiter
    PROVE  EndInv'
<1>0. /\ UNCHANGED <<job, active, session, stage, toServer, phase, peers>>
      /\ Clients' = Clients /\ Owner' = Owner /\ Parties' = Parties
  BY SameTypes DEF Waiter, Poll, NotifyPeers, NotifyPeer, NotifyReturn, clients
<1>1. /\ waiter = [pc |-> waiter.pc, msg |-> waiter.msg, next |-> waiter.next]
      /\ waiter.next \in Nat \ {0}
      /\ waiter.msg \in {"SessionReady", "SessionActive"}
  BY DEF TypeInv, RelayOK
<1>2. waiter.pc # "unborn" /\ waiter'.pc # "unborn"
  BY <1>1 DEF Waiter, Poll, NotifyPeers, NotifyPeer, NotifyReturn
<1>3. ClosingInv'
  BY <1>0, <1>2 DEF EndInv, ClosingInv, Closed, Ended
<1>4. \A b \in Clients : Dials(b, Owner)' <=> Dials(b, Owner)
  BY <1>0 DEF Dials
<1>5. ASSUME waiter.pc = "notify", waiter.next <= Len(Parties),
             Send(Parties[waiter.next], Word(waiter.msg)),
             waiter' = [waiter EXCEPT !.next = @ + 1]
      PROVE  MetInv' /\ ReadyInv'
  <2>1. PICK d \in Clients, x \in Messages :
            d = Parties[waiter.next] /\ x.type = waiter.msg /\ Send(d, x)
    <3>1. Word(waiter.msg) \in Messages /\ Word(waiter.msg).type = waiter.msg
      BY <1>1, WordMessage DEF TypeInv, MessageTypes
    <3>2. waiter.next \in DOMAIN Parties
      BY <1>1, <1>5, JobFacts DEF TypeInv
    <3> QED
      BY <1>5, <3>1, <3>2 DEF Clients
  <2>2. /\ waiter'.pc = "notify" /\ waiter'.msg = waiter.msg
        /\ waiter'.next = waiter.next + 1
    BY <1>1, <1>5
  <2>3. MetInv'
    <3>1. Clients \subseteq active
      BY <1>5 DEF LobbyInv, GatheredInv
    <3> QED
      BY <1>0, <1>2, <3>1 DEF MetInv
  <2>4. ASSUME NEW b \in Clients, Due(b)' PROVE Due(b) /\ b # d /\ Due(b)
    <3>1. PICK i \in DOMAIN Parties : Parties[i] = b /\ waiter.next + 1 <= i
      BY <1>0, <2>2, <2>4 DEF Due
    <3>2. i \in Nat /\ waiter.next \in DOMAIN Parties /\ Len(Parties) \in Nat
      BY <1>1, <1>5, JobFacts DEF TypeInv
    <3>3. waiter.next <= i /\ waiter.next # i
      BY <1>1, <3>1, <3>2
    <3>4. b # d
      BY <2>1, <3>1, <3>2, <3>3, JobFacts DEF TypeInv, DistinctKeys
    <3> QED
      BY <1>1, <1>5, <2>2, <2>4, <3>1, <3>3, <3>4 DEF Due
  <2>5. x.type = "SessionReady" => Due(d)
    <3>1. waiter.next \in DOMAIN Parties /\ waiter.next <= waiter.next
      BY <1>1, <1>5, JobFacts DEF TypeInv
    <3> QED
      BY <1>1, <2>1, <3>1 DEF Due
  <2>6. ReadyInv'
    <3> SUFFICES ASSUME NEW b \in Clients
                 PROVE  /\ Told(b, "SessionReady")' \/ Due(b)' =>
                               \A p \in Clients : Dials(b, p)' => peers[b][p] = "none"
                        /\ \A m, n \in DOMAIN toClient'[b] :
                               /\ toClient'[b][m].type = "SessionReady"
                               /\ toClient'[b][n].type = "SessionReady"
                               => m = n
                        /\ Due(b)' => ~Told(b, "SessionReady")'
      BY <1>0 DEF ReadyInv
    <3>1. \A p \in Clients : Dials(b, p)' <=> Dials(b, p)
      BY <1>0 DEF Dials
    <3>2. Told(b, "SessionReady")' <=>
              Told(b, "SessionReady") \/ (b = d /\ x.type = "SessionReady")
      BY <2>1, TellStep
    <3>3. /\ Told(b, "SessionReady") \/ Due(b) =>
                 \A p \in Clients : Dials(b, p) => peers[b][p] = "none"
          /\ \A m, n \in DOMAIN toClient[b] :
                 /\ toClient[b][m].type = "SessionReady"
                 /\ toClient[b][n].type = "SessionReady"
                 => m = n
          /\ Due(b) => ~Told(b, "SessionReady")
      BY DEF EndInv, ReadyInv
    <3>4. b = d /\ x.type = "SessionReady" => ~Told(b, "SessionReady")
      BY <2>5, <3>3
    <3>5. \A m, n \in DOMAIN toClient'[b] :
              /\ toClient'[b][m].type = "SessionReady"
              /\ toClient'[b][n].type = "SessionReady"
              => m = n
      BY <2>1, <3>3, <3>4, ReadyQueue
    <3> QED
      BY <2>4, <2>5, <3>1, <3>2, <3>3, <3>5
  <2> QED
    BY <2>3, <2>6
<1>6. ASSUME UNCHANGED toClient, \A b \in Clients : Due(b)' => Due(b)
      PROVE  MetInv' /\ ReadyInv'
  <2>1. \A b, p \in Clients : Dials(b, p)' <=> Dials(b, p)
    BY <1>0 DEF Dials
  <2>2. \A b \in Clients : Told(b, "SessionReady")' <=> Told(b, "SessionReady")
    BY <1>6 DEF Told
  <2>3. MetInv'
    BY <1>0, <1>2, <2>2 DEF EndInv, MetInv
  <2>4. ReadyInv'
    BY <1>0, <1>6, <2>1, <2>2 DEF EndInv, ReadyInv
  <2> QED
    BY <2>3, <2>4
<1>7. CASE Poll
  <2>1. UNCHANGED toClient /\ waiter.pc = "poll" /\ waiter'.pc = "found" /\ waiter'.msg = waiter.msg
    BY <1>1, <1>7 DEF Poll
  <2>2. \A b \in Clients : Due(b)' => Due(b)
    BY <2>1 DEF Due
  <2> QED
    BY <1>3, <1>6, <2>1, <2>2 DEF EndInv
<1>8. CASE NotifyPeers
  <2>1. UNCHANGED toClient /\ waiter.pc = "found" /\ waiter'.msg = waiter.msg
    BY <1>1, <1>8 DEF NotifyPeers
  <2>2. \A b \in Clients : Due(b)' => Due(b)
    BY <2>1 DEF Due
  <2> QED
    BY <1>3, <1>6, <2>1, <2>2 DEF EndInv
<1>9. CASE NotifyPeer
  BY <1>3, <1>5, <1>9 DEF NotifyPeer, EndInv
<1>10. CASE NotifyReturn
  <2>1. UNCHANGED toClient /\ waiter'.msg = "SessionActive"
    BY <1>1, <1>10 DEF NotifyReturn
  <2>2. \A b \in Clients : Due(b)' => Due(b)
    BY <2>1 DEF Due
  <2> QED
    BY <1>3, <1>6, <2>1, <2>2 DEF EndInv
<1> QED
  BY <1>7, <1>8, <1>9, <1>10 DEF Waiter

\* A client fails at an error of the relay only, and what is over stays so.
KeepsPhase(x) ==
    /\ phase'[x] = "failed" => phase[x] = "failed" \/ Told(x, "Error")
    /\ phase'[x] \in {"setup", "running"} => phase'[x] = phase[x]
    /\ Ended(x) => Ended(x)'

\* What a client does: something outside its rounds, or it begins its first
\* round, or it handles the message of a round.  Handshakes do not cross, and
\* SessionReady finds no peer that is already there.
LEMMA ClientForms ==
    ASSUME TypeInv, ChannelInv, RoundInv, LobbyInv, EndInv, NEW c \in Keys, Client(c)
    PROVE  \/ \E d \in Clients : \E msgs \in Seq(Messages) :
                  /\ \/ /\ toClient[d] # <<>> /\ toClient' = [toClient EXCEPT ![d] = Tail(@)]
                        /\ Head(toClient[d]).type # "Round"
                     \/ UNCHANGED toClient
                  /\ Requests(d, msgs)
                  /\ \A n \in DOMAIN msgs : msgs[n].type \notin {"Round", "CloseSession"}
                  /\ UNCHANGED <<round, buffer>>
                  /\ \A x \in Clients : KeepsPhase(x)
           \/ c \in Clients /\ OnSessionActive(c)
           \/ /\ c \in Clients /\ phase[c] = "running" /\ UNCHANGED peers
              /\ toClient[c] # <<>> /\ toClient' = [toClient EXCEPT ![c] = Tail(@)]
              /\ \E p \in Clients : \E r \in Rounds :
                     Head(toClient[c]) = Msg("Round", p, r) /\ HandleEvent(c, r)
<1>0. /\ UNCHANGED job /\ DOMAIN phase = Keys /\ Clients \subseteq Keys
  BY JobFacts
     DEF Client, OnSessionCreated, OnSessionReady, OnSessionActive,
         OnInitiator, OnResponder, OnRound, OnSessionFinished, OnError, Close,
         relay, TypeInv, ClientsOK
<1>1. ASSUME NEW type, Incoming(c, type)
      PROVE  /\ c \in Clients /\ toClient[c] # <<>>
             /\ toClient' = [toClient EXCEPT ![c] = Tail(@)]
             /\ Head(toClient[c]) \in Messages /\ Head(toClient[c]).type = type
             /\ Told(c, type)
  BY <1>0, <1>1, TakeTyped, HeadRound DEF Incoming
<1> DEFINE Form == \E d \in Clients : \E msgs \in Seq(Messages) :
                  /\ \/ /\ toClient[d] # <<>> /\ toClient' = [toClient EXCEPT ![d] = Tail(@)]
                        /\ Head(toClient[d]).type # "Round"
                     \/ UNCHANGED toClient
                  /\ Requests(d, msgs)
                  /\ \A n \in DOMAIN msgs : msgs[n].type \notin {"Round", "CloseSession"}
                  /\ UNCHANGED <<round, buffer>>
                  /\ \A x \in Clients : KeepsPhase(x)
<1>2. ASSUME NEW type, Incoming(c, type), type # "Round", UNCHANGED <<round, buffer>>,
             NEW msgs \in Seq(Messages), Requests(c, msgs),
             \A n \in DOMAIN msgs : msgs[n].type \notin {"Round", "CloseSession"},
             \A x \in Clients : KeepsPhase(x)
      PROVE  Form
  BY <1>1, <1>2
<1>3. ASSUME NEW type, Incoming(c, type), type # "Round", UNCHANGED <<round, buffer>>,
             UNCHANGED toServer, \A x \in Clients : KeepsPhase(x)
      PROVE  Form
  <2>1. Requests(c, <<>>) /\ <<>> \in Seq(Messages)
    BY <1>1, <1>3, NoRequests
  <2>2. \A n \in DOMAIN <<>> : <<>>[n].type \notin {"Round", "CloseSession"}
    OBVIOUS
  <2> HIDE DEF Form
  <2> QED
    BY <1>2, <1>3, <2>1, <2>2
<1>4. ASSUME UNCHANGED phase \/ PeerConnected(c)
      PROVE  \A x \in Clients : KeepsPhase(x)
  BY <1>0, <1>4 DEF PeerConnected, KeepsPhase, Ended, Over
<1> HIDE DEF Form
<1>5. CASE OnSessionCreated(c)
  BY <1>3, <1>4, <1>5 DEF OnSessionCreated, Form
<1>6. CASE OnSessionReady(c)
  <2>1. Incoming(c, "SessionReady") /\ UNCHANGED <<round, buffer>>
    BY <1>6 DEF OnSessionReady
  <2>2. ASSUME NEW i \in DOMAIN connections(Parties, c)
        PROVE  peers[c][connections(Parties, c)[i]] = "none"
    <3>1. connections(Parties, c)[i] \in Clients /\ Dials(c, connections(Parties, c)[i])
      BY ConnectionsTyped DEF Dials, TypeInv
    <3> QED
      BY <1>1, <2>1, <3>1 DEF EndInv, ReadyInv
  <2>3. Dial(c) /\ UNCHANGED phase
    BY <1>6, <2>2 DEF OnSessionReady
  <2>4. PICK msgs : /\ Requests(c, msgs)
                    /\ msgs = [i \in DOMAIN connections(Parties, c) |->
                               Msg("Initiator", connections(Parties, c)[i], NoRound)]
    BY <2>3 DEF Dial
  <2>5. msgs \in Seq(Messages)
        /\ \A n \in DOMAIN msgs : msgs[n].type \notin {"Round", "CloseSession"}
    <3>1. msgs \in Seq(Messages)
          /\ \A n \in DOMAIN msgs : msgs[n].type \notin {"Round", "NewSession", "CloseSession"}
      BY <1>1, <2>1, <2>4, HandshakeSays
    <3> QED
      BY <3>1
  <2> QED
    BY <1>2, <1>4, <2>1, <2>3, <2>4, <2>5 DEF Form
<1>7. CASE OnInitiator(c)
  <2>1. Incoming(c, "Initiator") /\ UNCHANGED <<round, buffer>>
    BY <1>7 DEF OnInitiator
  <2>2. PICK p \in Clients : Head(toClient[c]) = Msg("Initiator", p, NoRound)
                             /\ p = Head(toClient[c]).peer
    BY <1>1, <2>1 DEF Messages, Msg
  <2>3. peers[c][p] = "none"
    <3>1. Call(p, c)
      BY <1>1, <2>1, <2>2, QueuesTyped, QueueTail DEF Call, OnWay
    <3> QED
      BY <1>1, <2>1, <3>1 DEF ChannelInv, PairInv
  <2>4. /\ PeerConnected(c)
        /\ Requests(c, <<Msg("Responder", p, NoRound)>> \o RegisterConnection(c, p))
    BY <1>7, <2>2, <2>3 DEF OnInitiator
  <2>5. PICK msgs : /\ Requests(c, msgs)
                    /\ msgs = <<Msg("Responder", p, NoRound)>> \o RegisterConnection(c, p)
    BY <2>4
  <2>6. msgs \in Seq(Messages)
        /\ \A n \in DOMAIN msgs : msgs[n].type \notin {"Round", "CloseSession"}
    <3>1. msgs \in Seq(Messages)
          /\ \A n \in DOMAIN msgs : msgs[n].type \notin {"Round", "NewSession", "CloseSession"}
      BY <1>1, <2>1, <2>5, HandshakeSays
    <3> QED
      BY <3>1
  <2> QED
    BY <1>2, <1>4, <2>1, <2>4, <2>5, <2>6 DEF Form
<1>8. CASE OnResponder(c)
  <2>1. Incoming(c, "Responder") /\ UNCHANGED <<round, buffer>>
    BY <1>8 DEF OnResponder
  <2>2. PICK p \in Clients : Head(toClient[c]) = Msg("Responder", p, NoRound)
                             /\ p = Head(toClient[c]).peer
    BY <1>1, <2>1 DEF Messages, Msg
  <2>3. peers[c][p] = "handshake"
    BY <1>1, <2>1, <2>2, ReplyFound
  <2>4. PeerConnected(c) /\ Requests(c, RegisterConnection(c, p))
    BY <1>8, <2>2, <2>3 DEF OnResponder
  <2>5. PICK msgs : Requests(c, msgs) /\ msgs = RegisterConnection(c, p)
    BY <2>4
  <2>6. msgs \in Seq(Messages)
        /\ \A n \in DOMAIN msgs : msgs[n].type \notin {"Round", "CloseSession"}
    <3>1. msgs \in Seq(Messages)
          /\ \A n \in DOMAIN msgs : msgs[n].type \notin {"Round", "NewSession", "CloseSession"}
      BY <1>1, <2>1, <2>5, HandshakeSays
    <3> QED
      BY <3>1
  <2> QED
    BY <1>2, <1>4, <2>1, <2>4, <2>5, <2>6 DEF Form
<1>9. CASE OnRound(c)
  <2>1. Incoming(c, "Round")
    BY <1>9 DEF OnRound
  <2>2. PICK p \in Clients, r \in Rounds :
            Head(toClient[c]) = Msg("Round", p, r) /\ p = Head(toClient[c]).peer
            /\ r = Head(toClient[c]).round
    BY <1>1, <2>1 DEF Messages, Msg
  <2>3. OnWay("Round", r, p, c)
    BY <1>1, <2>1, <2>2, QueuesTyped, QueueTail DEF OnWay
  <2>4. p # c /\ round[p].driver > 0
    <3>1. p # c /\ Reached(p, r)
      BY <1>1, <2>1, <2>3 DEF RoundInv, SentInv
    <3>2. r.driver \in Nat /\ r.driver > 0 /\ round[p].driver \in Nat
      BY RoundFields
    <3> QED
      BY <3>1, <3>2 DEF Reached, Upto
  <2>5. peers[c][p] = "transport"
    BY <1>1, <2>1, <2>4 DEF ChannelInv, Announced, AllOpen, Open
  <2>6. phase[c] = "running"
    BY <1>1, <2>1, NoneToIgnore
  <2> QED
    BY <1>1, <1>9, <2>1, <2>2, <2>5, <2>6 DEF OnRound
<1>10. CASE OnSessionFinished(c)
  <2>1. \A x \in Clients : KeepsPhase(x)
    BY <1>0, <1>10 DEF OnSessionFinished, KeepsPhase, Ended, Over
  <2> QED
    BY <1>3, <1>10, <2>1 DEF OnSessionFinished, Form
<1>11. CASE OnError(c)
  <2>1. Incoming(c, "Error") /\ Fail(c)
    BY <1>11 DEF OnError
  <2>2. \A x \in Clients : KeepsPhase(x)
    BY <1>0, <1>1, <2>1 DEF Fail, KeepsPhase, Ended, Over
  <2> QED
    BY <1>3, <1>11, <2>2 DEF OnError, Form
<1>12. CASE Close(c)
  <2>1. UNCHANGED <<toServer, toClient, round, buffer>>
    BY <1>12 DEF Close
  <2>2. PICK o \in Clients : o = Owner
    BY JobFacts DEF TypeInv
  <2>3. Requests(o, <<>>) /\ <<>> \in Seq(Messages)
        /\ \A n \in DOMAIN <<>> : <<>>[n].type \notin {"Round", "CloseSession"}
    BY <2>1, NoRequests
  <2>4. \A x \in Clients : KeepsPhase(x)
    BY <1>0, <1>12 DEF Close, KeepsPhase, Ended, Over
  <2> QED
    BY <2>1, <2>3, <2>4 DEF Form
<1>13. CASE OnSessionActive(c)
  BY <1>1, <1>13 DEF OnSessionActive
<1> QED
  BY <1>5, <1>6, <1>7, <1>8, <1>9, <1>10, <1>11, <1>12, <1>13 DEF Client, Form

LEMMA JoinCancel ==
    ASSUME NEW S, NEW q \in Seq(S), NEW u \in Seq(S), NEW v \in Seq(S), q \o u = q \o v
    PROVE  u = v
<1>1. /\ Len(q \o u) = Len(q) + Len(u) /\ Len(q \o v) = Len(q) + Len(v)
      /\ Len(q) \in Nat /\ Len(u) \in Nat /\ Len(v) \in Nat
  OBVIOUS
<1>2. Len(u) = Len(v)
  BY <1>1
<1>3. ASSUME NEW n \in 1..Len(u) PROVE u[n] = v[n]
  <2>1. (q \o u)[Len(q) + n] = u[n] /\ (q \o v)[Len(q) + n] = v[n]
    BY <1>1, <1>2
  <2> QED
    BY <2>1
<1> QED
  BY <1>2, <1>3

\* The owner asks for the close of the session when it is through.
LEMMA DriverCloses ==
    ASSUME TypeInv, NEW c \in Clients, NEW r \in Rounds,
           Dispatch(c, r) \/ HandleEvent(c, r)
    PROVE  \E msgs \in Seq(Messages) :
               /\ Requests(c, msgs)
               /\ \A n \in DOMAIN msgs :
                      msgs[n].type = "CloseSession" => c = Owner /\ phase'[c] = "closing"
<1>0. c \in Keys /\ DOMAIN phase = Keys
  BY JobFacts DEF TypeInv, ClientsOK
<1>1. PICK msgs \in Seq(Messages) :
          /\ Requests(c, msgs)
          /\ \A n \in DOMAIN msgs : msgs[n].type \in {"Round", "CloseSession"}
  BY DriverSays
<1>2. CASE UNCHANGED toServer
  <2>1. Requests(c, <<>>) /\ <<>> \in Seq(Messages)
    BY <1>2, NoRequests
  <2>2. \A n \in DOMAIN <<>> : <<>>[n].type # "CloseSession"
    OBVIOUS
  <2> QED
    BY <2>1, <2>2
<1>3. ASSUME NEW d, Dispatch(c, d), ~UNCHANGED toServer
      PROVE  \E m \in Seq(Messages) :
                 Requests(c, m) /\ \A n \in DOMAIN m : m[n].type # "CloseSession"
  <2> DEFINE to == receivers(c, d)
             sent == [i \in DOMAIN to |-> Msg("Round", to[i], d)]
  <2>1. Requests(c, sent)
    BY <1>3 DEF Dispatch
  <2>2. \A n \in DOMAIN sent : sent[n].type # "CloseSession"
    BY DEF Msg
  <2>3. sent = msgs
    <3>1. /\ toServer[c] \in Seq(Messages) /\ to \in Seq(Clients)
          /\ toServer'[c] = toServer[c] \o msgs /\ toServer'[c] = toServer[c] \o sent
      BY <1>0, <1>1, <2>1, QueuesTyped, ReceiversFacts
         DEF Requests, TypeInv, ServerQueuesOK
    <3> DEFINE All == Messages \cup {Msg("Round", x, d) : x \in Clients}
    <3>2. sent \in Seq(All) /\ msgs \in Seq(All) /\ toServer[c] \in Seq(All)
      <4>1. \A n \in DOMAIN to : to[n] \in Clients
        BY <3>1
      <4>2. sent \in Seq(All)
        BY <3>1, <4>1
      <4>3. \A q \in Seq(Messages) : q \in Seq(All)
        OBVIOUS
      <4> QED
        BY <3>1, <4>2, <4>3
    <3> HIDE DEF sent, All
    <3>3. toServer[c] \o msgs = toServer[c] \o sent
      BY <3>1
    <3> QED
      BY <3>2, <3>3, JoinCancel
  <2> HIDE DEF sent
  <2> QED
    BY <1>1, <2>1, <2>2, <2>3
<1>4. CASE Finish(c) /\ c = Owner
  BY <1>0, <1>1, <1>4 DEF Finish
<1>5. CASE Finish(c) /\ c # Owner
  BY <1>2, <1>5 DEF Finish
<1> QED
  BY <1>2, <1>3, <1>4, <1>5 DEF HandleEvent, Proceed, StartDriver

\* How the map of peers of a client changes.
LEMMA ClientPeers ==
    ASSUME TypeInv, ChannelInv, NEW c \in Keys, Client(c),
           NEW x \in Clients, NEW p \in Clients, x # p
    PROVE  \/ peers'[x][p] = peers[x][p]
           \/ peers[x][p] # "none"
           \/ x = c /\ Incoming(c, "SessionReady")
           \/ Dials(p, x) /\ peers[p][x] # "none"
<1>0. /\ UNCHANGED job /\ x \in Keys /\ p \in Keys
      /\ DOMAIN peers = Keys
      /\ \A k \in Keys : DOMAIN peers[k] = Keys \ {k}
  BY JobFacts
     DEF Client, OnSessionCreated, OnSessionReady, OnSessionActive,
         OnInitiator, OnResponder, OnRound, OnSessionFinished, OnError, Close,
         relay, TypeInv, ClientsOK, PeersOK
<1>1. ASSUME NEW type, Incoming(c, type)
      PROVE  /\ c \in Clients /\ toClient[c] # <<>>
             /\ Head(toClient[c]) \in Messages /\ Head(toClient[c]).type = type
  BY <1>0, <1>1, TakeTyped DEF Incoming
<1>2. CASE OnSessionReady(c)
  <2>1. CASE x = c
    BY <1>2, <2>1 DEF OnSessionReady
  <2>2. CASE x # c
    BY <1>0, <1>2, <2>2 DEF OnSessionReady, Dial
  <2> QED
    BY <2>1, <2>2
<1>3. CASE OnInitiator(c)
  <2>1. Incoming(c, "Initiator")
    BY <1>3 DEF OnInitiator
  <2>2. PICK k \in Clients : Head(toClient[c]) = Msg("Initiator", k, NoRound)
                             /\ k = Head(toClient[c]).peer
    BY <1>1, <2>1 DEF Messages, Msg
  <2>3. Call(k, c)
    BY <1>1, <2>1, <2>2, QueuesTyped, QueueTail DEF Call, OnWay
  <2>4. Dials(k, c) /\ peers[k][c] # "none"
    BY <1>1, <2>1, <2>3 DEF ChannelInv, PairInv
  <2>5. UNCHANGED peers \/ peers' = [peers EXCEPT ![c][k] = "transport"]
    BY <1>3, <2>2 DEF OnInitiator
  <2>6. (x = c /\ p = k) \/ peers'[x][p] = peers[x][p]
    BY <1>0, <2>5
  <2> QED
    BY <2>4, <2>6
<1>4. CASE OnResponder(c)
  <2>1. Incoming(c, "Responder")
    BY <1>4 DEF OnResponder
  <2>2. PICK k \in Clients : Head(toClient[c]) = Msg("Responder", k, NoRound)
                             /\ k = Head(toClient[c]).peer
    BY <1>1, <2>1 DEF Messages, Msg
  <2>3. peers[c][k] = "handshake"
    BY <1>1, <2>1, <2>2, ReplyFound
  <2>4. peers' = [peers EXCEPT ![c][k] = "transport"]
    BY <1>4, <2>2, <2>3 DEF OnResponder
  <2>5. (x = c /\ p = k) \/ peers'[x][p] = peers[x][p]
    BY <1>0, <2>4
  <2> QED
    BY <2>3, <2>5
<1>5. CASE \/ OnSessionCreated(c) \/ OnSessionActive(c) \/ OnRound(c)
           \/ OnSessionFinished(c) \/ OnError(c) \/ Close(c)
  BY <1>5 DEF OnSessionCreated, OnSessionActive, OnRound, OnSessionFinished, OnError, Close
<1> QED
  BY <1>2, <1>3, <1>4, <1>5 DEF Client

\* What a client does to the queues, in short.
LEMMA ClientSays ==
    ASSUME TypeInv, ChannelInv, RoundInv, LobbyInv, EndInv, NEW c \in Keys, Client(c)
    PROVE  /\ \E d \in Clients : \E msgs \in Seq(Messages) :
                  /\ \/ toClient[d] # <<>> /\ toClient' = [toClient EXCEPT ![d] = Tail(@)]
                     \/ UNCHANGED toClient
                  /\ Requests(d, msgs)
                  /\ \A n \in DOMAIN msgs :
                         msgs[n].type = "CloseSession" => d = Owner /\ phase'[d] = "closing"
           /\ \A x \in Clients : Ended(x) => Ended(x)'
<1>0. DOMAIN phase = Keys /\ Clients \subseteq Keys
  BY JobFacts DEF TypeInv, ClientsOK
<1>1. CASE \E d \in Clients : \E msgs \in Seq(Messages) :
               /\ \/ /\ toClient[d] # <<>> /\ toClient' = [toClient EXCEPT ![d] = Tail(@)]
                     /\ Head(toClient[d]).type # "Round"
                  \/ UNCHANGED toClient
               /\ Requests(d, msgs)
               /\ \A n \in DOMAIN msgs : msgs[n].type \notin {"Round", "CloseSession"}
               /\ UNCHANGED <<round, buffer>>
               /\ \A x \in Clients : KeepsPhase(x)
  <2>1. \A x \in Clients : Ended(x) => Ended(x)'
    BY <1>1 DEF KeepsPhase
  <2>2. PICK d \in Clients, msgs \in Seq(Messages) :
               /\ \/ toClient[d] # <<>> /\ toClient' = [toClient EXCEPT ![d] = Tail(@)]
                  \/ UNCHANGED toClient
               /\ Requests(d, msgs)
               /\ \A n \in DOMAIN msgs : msgs[n].type \notin {"Round", "CloseSession"}
    BY <1>1
  <2>3. \A n \in DOMAIN msgs : msgs[n].type # "CloseSession"
    BY <2>2
  <2> QED
    BY <2>1, <2>2, <2>3
<1>2. CASE c \in Clients /\ OnSessionActive(c)
  <2>1. /\ Incoming(c, "SessionActive") /\ phase[c] = "setup"
        /\ Dispatch(c, [driver |-> 1, number |-> 1])
    BY <1>2 DEF OnSessionActive, StartDriver
  <2>2. PICK d \in Rounds : d = [driver |-> 1, number |-> 1] /\ Dispatch(c, d)
    BY <1>2, <2>1, FirstRound
  <2>3. \A x \in Clients : Ended(x) => Ended(x)'
    BY <1>0, <1>2, <2>1, <2>2 DEF Dispatch, Fail, Ended, Over
  <2>4. toClient[c] # <<>> /\ toClient' = [toClient EXCEPT ![c] = Tail(@)]
    BY <2>1 DEF Incoming
  <2> QED
    BY <1>2, <2>2, <2>3, <2>4, DriverCloses
<1>3. CASE /\ c \in Clients /\ phase[c] = "running"
           /\ toClient[c] # <<>> /\ toClient' = [toClient EXCEPT ![c] = Tail(@)]
           /\ \E p \in Clients : \E r \in Rounds :
                  Head(toClient[c]) = Msg("Round", p, r) /\ HandleEvent(c, r)
  <2>1. PICK r \in Rounds : HandleEvent(c, r)
    BY <1>3
  <2>2. \A x \in Clients : x # c => phase'[x] = phase[x]
    BY <1>0, <2>1 DEF HandleEvent, Proceed, StartDriver, Dispatch, Fail, Finish
  <2>3. \A x \in Clients : Ended(x) => Ended(x)'
    BY <1>3, <2>2 DEF Ended, Over
  <2> QED
    BY <1>3, <2>1, <2>3, DriverCloses
<1> QED
  BY <1>1, <1>2, <1>3, ClientForms

LEMMA EndClient ==
    ASSUME TypeInv, ChannelInv, RoundInv, LobbyInv, EndInv, NEW c \in Keys, Client(c)
    PROVE  EndInv'
<1>0. /\ UNCHANGED <<job, active, session, waiter, stage>>
      /\ Owner' = Owner /\ Clients' = Clients /\ Parties' = Parties
  <2>1. UNCHANGED <<job, active, session, waiter, stage>>
    BY DEF Client, OnSessionCreated, OnSessionReady, OnSessionActive,
           OnInitiator, OnResponder, OnRound, OnSessionFinished, OnError, Close,
           relay
  <2> QED
    BY <2>1, SameTypes
<1>1. PICK d \in Clients, msgs \in Seq(Messages) :
          /\ \/ toClient[d] # <<>> /\ toClient' = [toClient EXCEPT ![d] = Tail(@)]
             \/ UNCHANGED toClient
          /\ Requests(d, msgs)
          /\ \A n \in DOMAIN msgs :
                 msgs[n].type = "CloseSession" => d = Owner /\ phase'[d] = "closing"
  BY ClientSays
<1>2. \A x \in Clients : Ended(x) => Ended(x)'
  BY ClientSays
<1>3. ClosingInv'
  <2>1. ASSUME NEW b \in Clients, NEW n \in DOMAIN toServer'[b],
               toServer'[b][n].type = "CloseSession"
        PROVE  b = Owner /\ Ended(b)'
    <3>1. CASE \E m \in DOMAIN toServer[b] : toServer[b][m] = toServer'[b][n]
      BY <1>2, <2>1, <3>1 DEF EndInv, ClosingInv
    <3>2. CASE b = d /\ \E m \in DOMAIN msgs : msgs[m] = toServer'[b][n]
      BY <1>1, <2>1, <3>2 DEF Ended, Over
    <3> QED
      BY <1>1, <3>1, <3>2, RequestsBefore
  <2>2. Owner \in Clients
    BY JobFacts DEF TypeInv
  <2>3. Closed' => Ended(Owner)'
    BY <1>0, <1>2, <2>2 DEF EndInv, ClosingInv, Closed
  <2> QED
    BY <1>0, <2>1, <2>3 DEF EndInv, ClosingInv, Ended
<1>4. \A b \in Clients : Told(b, "SessionReady")' => Told(b, "SessionReady")
  BY <1>1, HearStep
<1>5. ASSUME Incoming(c, "SessionReady")
      PROVE  c \in Clients /\ Told(c, "SessionReady") /\ ~Told(c, "SessionReady")'
  <2>1. /\ c \in Clients /\ toClient[c] # <<>>
        /\ toClient' = [toClient EXCEPT ![c] = Tail(@)]
        /\ Head(toClient[c]).type = "SessionReady"
    BY <1>0, <1>5, TakeTyped DEF Incoming
  <2>2. Told(c, "SessionReady")
    BY <2>1, HeadRound
  <2>3. \A m, n \in DOMAIN toClient[c] :
            toClient[c][m].type = "SessionReady" /\ toClient[c][n].type = "SessionReady"
            => m = n
    BY <2>1 DEF EndInv, ReadyInv
  <2> QED
    BY <2>1, <2>2, <2>3, ReadyTail
<1>6. MetInv'
  <2> SUFFICES ASSUME NEW b \in Clients,
                      Told(b, "SessionReady")' \/ \E p \in Clients \ {b} : peers'[b][p] # "none"
               PROVE  Clients \subseteq active /\ waiter.pc # "unborn"
    BY <1>0 DEF MetInv
  <2>1. CASE Told(b, "SessionReady")'
    BY <1>4, <2>1 DEF EndInv, MetInv
  <2>2. ASSUME NEW p \in Clients \ {b}, peers'[b][p] # "none"
        PROVE  Clients \subseteq active /\ waiter.pc # "unborn"
    <3>1. \/ peers[b][p] # "none" \/ (b = c /\ Incoming(c, "SessionReady"))
          \/ peers[p][b] # "none"
      BY <2>2, ClientPeers
    <3> QED
      BY <1>5, <3>1 DEF EndInv, MetInv
  <2> QED
    BY <2>1, <2>2
<1>7. ReadyInv'
  <2> SUFFICES ASSUME NEW b \in Clients
               PROVE  /\ Told(b, "SessionReady")' \/ Due(b)' =>
                             \A p \in Clients : Dials(b, p)' => peers'[b][p] = "none"
                      /\ \A m, n \in DOMAIN toClient'[b] :
                             /\ toClient'[b][m].type = "SessionReady"
                             /\ toClient'[b][n].type = "SessionReady"
                             => m = n
                      /\ Due(b)' => ~Told(b, "SessionReady")'
    BY <1>0 DEF ReadyInv
  <2>1. \A p \in Clients : Dials(b, p)' <=> Dials(b, p)
    BY <1>0 DEF Dials
  <2>2. Due(b)' <=> Due(b)
    BY <1>0 DEF Due
  <2>3. /\ Told(b, "SessionReady") \/ Due(b) =>
               \A p \in Clients : Dials(b, p) => peers[b][p] = "none"
        /\ \A m, n \in DOMAIN toClient[b] :
               /\ toClient[b][m].type = "SessionReady"
               /\ toClient[b][n].type = "SessionReady"
               => m = n
        /\ Due(b) => ~Told(b, "SessionReady")
    BY DEF EndInv, ReadyInv
  <2>4. \A m, n \in DOMAIN toClient'[b] :
            /\ toClient'[b][m].type = "SessionReady"
            /\ toClient'[b][n].type = "SessionReady"
            => m = n
    BY <1>1, <2>3, ReadyTail
  <2>5. ASSUME Told(b, "SessionReady")' \/ Due(b), NEW p \in Clients, Dials(b, p)
        PROVE  peers'[b][p] = "none"
    <3>1. peers[b][p] = "none"
      BY <1>4, <2>3, <2>5
    <3>2. b # p /\ ~Dials(p, b)
      BY <2>5, DialFacts DEF TypeInv
    <3>3. ~(b = c /\ Incoming(c, "SessionReady"))
      BY <1>5, <2>3, <2>5
    <3> QED
      BY <3>1, <3>2, <3>3, ClientPeers
  <2> QED
    BY <1>4, <2>1, <2>2, <2>3, <2>4, <2>5
<1> QED
  BY <1>3, <1>6, <1>7 DEF EndInv

LEMMA EndInit == Init => EndInv
<1> SUFFICES ASSUME Init PROVE EndInv
  OBVIOUS
<1>1. /\ \A c \in Clients : /\ c \in Keys /\ toServer[c] = <<>> /\ toClient[c] = <<>>
                            /\ \A p \in Clients \ {c} : peers[c][p] = "none"
      /\ waiter.pc = "unborn" /\ session = {}
  BY JobFacts DEF Init
<1>2. ClosingInv /\ MetInv
  BY <1>1 DEF ClosingInv, MetInv, Closed, Told
<1>3. \A c, p \in Clients : Dials(c, p) => c # p
  BY DialFacts DEF Init
<1>4. ReadyInv
  BY <1>1, <1>3 DEF ReadyInv, Told
<1> QED
  BY <1>2, <1>4 DEF EndInv

LEMMA EndNext ==
    TypeInv /\ ChannelInv /\ RoundInv /\ LobbyInv /\ EndInv /\ [Next]_vars => EndInv'
<1> SUFFICES ASSUME TypeInv, ChannelInv, RoundInv, LobbyInv, EndInv, [Next]_vars
             PROVE  EndInv'
  OBVIOUS
<1>1. CASE UNCHANGED vars
  <2>1. UNCHANGED <<relay, toServer, toClient, clients>>
    BY <1>1 DEF vars
  <2>2. UNCHANGED <<job, active, session, waiter, toServer, toClient, phase, peers>>
    BY <2>1 DEF relay, clients
  <2>3. Clients' = Clients /\ Owner' = Owner /\ Parties' = Parties
    BY <2>2, SameTypes
  <2> QED
    BY <2>2, <2>3 DEF EndInv, ClosingInv, MetInv, ReadyInv, Closed, Ended, Told, Due, Dials
<1>2. CASE Next
  BY <1>2, EndConnect, EndHandler, EndWaiter, EndClient DEF Next
<1> QED
  BY <1>1, <1>2

-----------------------------------------------------------------------------
(* Nobody fails                                                            *)

\* Two signers, or a key generation: a session in which no message comes while
\* its recipient still runs another driver.
Sound == InKeyOrder /\ (job.op = "keygen" \/ Len(Parties) = 2)

InOrder(q, a, b) == \A m, n \in DOMAIN q : q[m] = a /\ q[n] = b => m < n

\* What p sends to c for round s is ahead of what it sends for round r.
Fifo(p, c, s, r) ==
    /\ InOrder(toServer[p], Msg("Round", c, s), Msg("Round", c, r))
    /\ InOrder(toClient[c], Msg("Round", p, s), Msg("Round", p, r))
    /\ Has(toClient[c], Msg("Round", p, r)) => ~Has(toServer[p], Msg("Round", c, s))

OrderInv ==
    \A p, c \in Clients : \A s, r \in Rounds :
        Upto(s, r) /\ s # r =>
            Fifo(p, c, s, r) /\ (p \in Taken(c, r) => p \in Taken(c, s))

\* Everything a client has taken up of its driver's rounds is in its buffer,
\* and it has taken up nothing of a later driver.
ExactInv ==
    \A c \in Clients :
        /\ phase[c] = "running" => round[c].driver > 0
        /\ phase[c] \in {"setup", "running"} =>
               \A r \in Rounds : Upto(round[c], r) =>
                   IF r.driver = round[c].driver
                   THEN Cardinality(Taken(c, r)) <= buffer[c][r.number]
                   ELSE Taken(c, r) = {}

NoErrors == \A c \in Clients : phase[c] # "failed" /\ ~Told(c, "Error")

CalmInv == Sound /\ ~Closed => NoErrors /\ OrderInv /\ ExactInv

LEMMA OrderTail ==
    ASSUME NEW S, NEW q \in Seq(S), q # <<>>, NEW a, NEW b, InOrder(q, a, b)
    PROVE  InOrder(Tail(q), a, b) /\ (Head(q) = b => ~Has(q, a))
<1>1. /\ 1 \in DOMAIN q /\ Head(q) = q[1]
      /\ \A n \in DOMAIN q : n \in Nat /\ n >= 1
      /\ \A n \in DOMAIN Tail(q) : n \in Nat /\ n + 1 \in DOMAIN q /\ Tail(q)[n] = q[n + 1]
  OBVIOUS
<1>2. ASSUME NEW m \in DOMAIN Tail(q), NEW n \in DOMAIN Tail(q),
             Tail(q)[m] = a, Tail(q)[n] = b
      PROVE  m < n
  <2>1. m + 1 < n + 1 /\ m \in Nat /\ n \in Nat
    BY <1>1, <1>2 DEF InOrder
  <2> QED
    BY <2>1
<1>3. ASSUME Head(q) = b, NEW m \in DOMAIN q, q[m] = a
      PROVE  FALSE
  <2>1. m < 1 /\ m \in Nat /\ m >= 1
    BY <1>1, <1>3 DEF InOrder
  <2> QED
    BY <2>1
<1> QED
  BY <1>2, <1>3 DEF InOrder, Has

LEMMA OrderJoin ==
    ASSUME NEW S, NEW q \in Seq(S), NEW u \in Seq(S), NEW a, NEW b,
           InOrder(q, a, b), InOrder(u, a, b), ~(Has(u, a) /\ Has(q, b))
    PROVE  InOrder(q \o u, a, b)
<1>1. /\ DOMAIN q = 1..Len(q) /\ DOMAIN u = 1..Len(u)
      /\ Len(q) \in Nat /\ Len(u) \in Nat
      /\ DOMAIN (q \o u) = 1..(Len(q) + Len(u))
      /\ \A n \in 1..(Len(q) + Len(u)) :
             (q \o u)[n] = IF n <= Len(q) THEN q[n] ELSE u[n - Len(q)]
  OBVIOUS
<1> SUFFICES ASSUME NEW m \in 1..(Len(q) + Len(u)), NEW n \in 1..(Len(q) + Len(u)),
                    (q \o u)[m] = a, (q \o u)[n] = b
             PROVE  m < n
  BY <1>1 DEF InOrder
<1>2. CASE m <= Len(q) /\ n <= Len(q)
  <2>1. m \in DOMAIN q /\ n \in DOMAIN q /\ q[m] = a /\ q[n] = b
    BY <1>1, <1>2
  <2> QED
    BY <2>1 DEF InOrder
<1>3. CASE m > Len(q) /\ n > Len(q)
  <2>1. /\ m - Len(q) \in DOMAIN u /\ n - Len(q) \in DOMAIN u
        /\ u[m - Len(q)] = a /\ u[n - Len(q)] = b
    BY <1>1, <1>3
  <2>2. m - Len(q) < n - Len(q)
    BY <2>1 DEF InOrder
  <2> QED
    BY <1>1, <2>2
<1>4. CASE m > Len(q) /\ n <= Len(q)
  <2>1. m - Len(q) \in DOMAIN u /\ n \in DOMAIN q /\ u[m - Len(q)] = a /\ q[n] = b
    BY <1>1, <1>4
  <2> QED
    BY <2>1 DEF Has
<1>5. CASE m <= Len(q) /\ n > Len(q)
  BY <1>1, <1>5
<1> QED
  BY <1>1, <1>2, <1>3, <1>4, <1>5

LEMMA OrderOne ==
    ASSUME NEW S, NEW q \in Seq(S), NEW x \in S, NEW a, NEW b, a # b,
           InOrder(q, a, b), x = a => ~Has(q, b)
    PROVE  InOrder(Append(q, x), a, b)
<1>1. /\ DOMAIN q = 1..Len(q) /\ Len(q) \in Nat
      /\ DOMAIN Append(q, x) = 1..(Len(q) + 1)
      /\ \A n \in 1..Len(q) : Append(q, x)[n] = q[n]
      /\ Append(q, x)[Len(q) + 1] = x
  OBVIOUS
<1> SUFFICES ASSUME NEW m \in 1..(Len(q) + 1), NEW n \in 1..(Len(q) + 1),
                    Append(q, x)[m] = a, Append(q, x)[n] = b
             PROVE  m < n
  BY <1>1 DEF InOrder
<1>2. CASE m <= Len(q) /\ n <= Len(q)
  <2>1. m \in DOMAIN q /\ n \in DOMAIN q /\ q[m] = a /\ q[n] = b
    BY <1>1, <1>2
  <2> QED
    BY <2>1 DEF InOrder
<1>3. CASE m = Len(q) + 1 /\ n <= Len(q)
  <2>1. n \in DOMAIN q /\ x = a /\ q[n] = b
    BY <1>1, <1>3
  <2> QED
    BY <2>1 DEF Has
<1>4. CASE m = Len(q) + 1 /\ n = Len(q) + 1
  BY <1>1, <1>4
<1> QED
  BY <1>1, <1>2, <1>3, <1>4

\* The order at one end of the line after a step.
LEMMA ServerOrder ==
    ASSUME TypeInv, NEW c \in Clients, NEW a \in Clients, NEW m, NEW n,
           InOrder(toServer[a], m, n)
    PROVE  /\ (toServer[c] # <<>> /\ Returned(c)) \/ UNCHANGED toServer =>
                  InOrder(toServer'[a], m, n)
           /\ \A msgs \in Seq(Messages) :
                  /\ Requests(c, msgs)
                  /\ a = c => InOrder(msgs, m, n) /\ ~(Has(msgs, m) /\ Has(toServer[a], n))
                  => InOrder(toServer'[a], m, n)
<1>0. a \in Keys /\ c \in Keys /\ toServer[a] \in Seq(Messages) /\ DOMAIN toServer = Keys
  BY QueuesTyped DEF TypeInv, ServerQueuesOK
<1>1. ASSUME toServer[c] # <<>>, Returned(c)
      PROVE  InOrder(toServer'[a], m, n)
  <2>1. toServer'[a] = IF a = c THEN Tail(toServer[a]) ELSE toServer[a]
    BY <1>0, <1>1 DEF Returned
  <2>2. CASE a # c
    BY <2>1, <2>2
  <2>3. CASE a = c
    BY <1>0, <1>1, <2>1, <2>3, OrderTail
  <2> QED
    BY <2>2, <2>3
<1>2. ASSUME NEW msgs \in Seq(Messages), Requests(c, msgs),
             a = c => InOrder(msgs, m, n) /\ ~(Has(msgs, m) /\ Has(toServer[a], n))
      PROVE  InOrder(toServer'[a], m, n)
  <2>1. toServer'[a] = IF a = c THEN toServer[a] \o msgs ELSE toServer[a]
    BY <1>0, <1>2 DEF Requests
  <2> QED
    BY <1>0, <1>2, <2>1, OrderJoin
<1> QED
  BY <1>1, <1>2

LEMMA ClientOrder ==
    ASSUME TypeInv, NEW c \in Clients, NEW b \in Clients, NEW m, NEW n, m # n,
           InOrder(toClient[b], m, n)
    PROVE  /\ toClient[c] # <<>> /\ toClient' = [toClient EXCEPT ![c] = Tail(@)] =>
                  InOrder(toClient'[b], m, n)
           /\ UNCHANGED toClient => InOrder(toClient'[b], m, n)
           /\ \A x \in Messages :
                  /\ Send(c, x)
                  /\ b = c /\ x = m => ~Has(toClient[b], n)
                  => InOrder(toClient'[b], m, n)
<1>0. b \in Keys /\ c \in Keys /\ toClient[b] \in Seq(Messages) /\ DOMAIN toClient = Keys
  BY QueuesTyped DEF TypeInv, ClientQueuesOK
<1>1. ASSUME toClient[c] # <<>>, toClient' = [toClient EXCEPT ![c] = Tail(@)]
      PROVE  InOrder(toClient'[b], m, n)
  <2>1. toClient'[b] = IF b = c THEN Tail(toClient[b]) ELSE toClient[b]
    BY <1>0, <1>1
  <2> QED
    BY <1>0, <1>1, <2>1, OrderTail
<1>2. ASSUME NEW x \in Messages, Send(c, x), b = c /\ x = m => ~Has(toClient[b], n)
      PROVE  InOrder(toClient'[b], m, n)
  <2>1. toClient'[b] = IF b = c THEN Append(toClient[b], x) ELSE toClient[b]
    BY <1>0, <1>2 DEF Send
  <2> QED
    BY <1>0, <1>2, <2>1, OrderOne
<1> QED
  BY <1>1, <1>2

LEMMA TakeLeaves ==
    ASSUME TypeInv, NEW c \in Clients, toClient[c] # <<>>,
           toClient' = [toClient EXCEPT ![c] = Tail(@)], NEW b \in Clients, NEW m,
           Has(toClient[b], m)
    PROVE  Has(toClient'[b], m) \/ (b = c /\ Head(toClient[c]) = m)
<1>0. b \in Keys /\ c \in Keys /\ toClient[b] \in Seq(Messages) /\ DOMAIN toClient = Keys
  BY QueuesTyped DEF TypeInv, ClientQueuesOK
<1>1. toClient'[b] = IF b = c THEN Tail(toClient[b]) ELSE toClient[b]
  BY <1>0
<1> QED
  BY <1>0, <1>1, QueueTail

\* In key order a client has one number.
LEMMA KeyOrderNumbers ==
    ASSUME job \in Jobs, InKeyOrder, NEW p \in Clients, NEW r
    PROVE  Number(p, r) = party_number(Parties, p)
<1>0. /\ Parties \in Seq(Keys) /\ DistinctKeys(Parties) /\ Len(Parties) \in Nat
      /\ DOMAIN Parties = 1..Len(Parties)
      /\ \A x \in Clients : KeyIndex[x] \in Nat
  BY JobFacts, KeyIndexAssumption
<1>1. PICK i \in 1..Len(Parties) : Parties[i] = p
  BY <1>0 DEF Clients
<1>2. party_number(Parties, p) = i
  BY <1>0, <1>1, PartyNumberOfIndex
<1>3. CASE ~IsOffline(r)
  BY <1>3 DEF Number
<1>4. CASE IsOffline(r)
  <2> DEFINE T == {q \in Clients : KeyIndex[q] <= KeyIndex[p]}
             f == [k \in 1..i |-> Parties[k]]
  <2>1. job.op = "sign"
    BY <1>4 DEF IsOffline
  <2>2. ASSUME NEW k \in 1..Len(Parties)
        PROVE  Parties[k] \in Clients /\ (Parties[k] \in T <=> k <= i)
    <3>1. Parties[k] \in Clients
      BY <1>0 DEF Clients
    <3>2. CASE k < i
      <4>1. KeyIndex[Parties[k]] < KeyIndex[p]
        BY <1>0, <1>1, <2>1, <3>2 DEF InKeyOrder
      <4> QED
        BY <1>0, <3>1, <3>2, <4>1
    <3>3. CASE k > i
      <4>1. KeyIndex[p] < KeyIndex[Parties[k]]
        BY <1>0, <1>1, <2>1, <3>3 DEF InKeyOrder
      <4> QED
        BY <1>0, <3>1, <3>3, <4>1
    <3>4. CASE k = i
      BY <1>0, <1>1, <3>1, <3>4
    <3> QED
      BY <3>1, <3>2, <3>3, <3>4
  <2>3. f \in Bijection(1..i, T)
    <3>1. f \in [1..i -> T]
      BY <1>0, <1>1, <2>2
    <3>2. \A j, k \in 1..i : f[j] = f[k] => j = k
      BY <1>0, <1>1 DEF DistinctKeys
    <3>3. \A x \in T : \E k \in 1..i : f[k] = x
      <4> SUFFICES ASSUME NEW x \in T PROVE \E k \in 1..i : f[k] = x
        OBVIOUS
      <4>1. PICK k \in 1..Len(Parties) : Parties[k] = x
        BY <1>0 DEF Clients
      <4>2. k \in 1..i
        BY <1>0, <2>2, <4>1
      <4> QED
        BY <4>1, <4>2
    <3> HIDE DEF f, T
    <3> QED
      BY <3>1, <3>2, <3>3 DEF Bijection, Injection, Surjection, IsInjective
  <2>4. IsFiniteSet(1..i) /\ Cardinality(1..i) = i
    <3>1. IsFiniteSet(1..i) /\ Cardinality(1..i) = IF 1 > i THEN 0 ELSE i - 1 + 1
      BY <1>0, FS_Interval
    <3> QED
      BY <1>0, <3>1
  <2> HIDE DEF f, T
  <2>5. ExistsBijection(1..i, T)
    BY <2>3 DEF ExistsBijection
  <2>6. Cardinality(T) = i
    BY <2>4, <2>5, FS_Bijection
  <2> QED
    BY <1>2, <1>4, <2>6 DEF Number, T
<1> QED
  BY <1>3, <1>4

\* In key order every round is sent to all the others, and to nobody else.
LEMMA ReceiversAll ==
    ASSUME job \in Jobs, InKeyOrder, NEW c \in Clients, NEW r
    PROVE  /\ \A i \in DOMAIN receivers(c, r) : receivers(c, r)[i] # c
           /\ \A x \in Clients \ {c} : \E i \in DOMAIN receivers(c, r) : receivers(c, r)[i] = x
<1> DEFINE others == recipients(Parties, c)
<1>0. /\ Parties \in Seq(Keys) /\ DistinctKeys(Parties)
      /\ Len(Parties) \in Nat /\ Len(Parties) > 1 /\ DOMAIN Parties = 1..Len(Parties)
  BY JobFacts
<1>1. PICK p \in 1..Len(Parties) : Parties[p] = c
  BY <1>0 DEF Clients
<1>2. others = [k \in 1..(Len(Parties) - 1) |->
                   IF k < p THEN Parties[k] ELSE Parties[k + 1]]
  BY <1>0, <1>1, RecipientsOfIndex
<1>3. \A i \in DOMAIN others : others[i] # c
  <2> SUFFICES ASSUME NEW i \in 1..(Len(Parties) - 1) PROVE others[i] # c
    BY <1>2
  <2>1. PICK k \in 1..Len(Parties) : k # p /\ others[i] = Parties[k]
    <3>1. CASE i < p
      BY <1>0, <1>2, <3>1
    <3>2. CASE ~(i < p)
      <4>1. i + 1 \in 1..Len(Parties) /\ i + 1 # p
        BY <1>0, <3>2
      <4> QED
        BY <1>2, <3>2, <4>1
    <3> QED
      BY <3>1, <3>2
  <2> QED
    BY <1>0, <1>1, <2>1 DEF DistinctKeys
<1>4. ASSUME NEW x \in Clients \ {c}
      PROVE  \E i \in DOMAIN others : others[i] = x
  <2>1. PICK m \in 1..Len(Parties) : Parties[m] = x /\ m # p
    BY <1>0, <1>1 DEF Clients
  <2>2. CASE m < p
    <3>1. m \in 1..(Len(Parties) - 1)
      BY <1>0, <2>2
    <3>2. m \in DOMAIN others /\ others[m] = x
      BY <1>2, <2>1, <2>2, <3>1
    <3> QED
      BY <3>2
  <2>3. CASE m > p
    <3>1. m - 1 \in 1..(Len(Parties) - 1) /\ ~(m - 1 < p) /\ (m - 1) + 1 = m
      BY <1>0, <2>3
    <3>2. m - 1 \in DOMAIN others /\ others[m - 1] = x
      BY <1>2, <2>1, <3>1
    <3> QED
      BY <3>2
  <2> QED
    BY <1>0, <2>1, <2>2, <2>3
<1>5. others \in Seq(Clients)
  BY ReceiversFacts
<1> HIDE DEF others
<1>6. ASSUME NEW i \in DOMAIN others PROVE Parties[Number(others[i], r)] = others[i]
  <2>1. others[i] \in Clients
    BY <1>5
  <2>2. PICK k \in 1..Len(Parties) : Parties[k] = others[i]
    BY <1>0, <2>1 DEF Clients
  <2>3. Number(others[i], r) = k
    BY <1>0, <2>1, <2>2, KeyOrderNumbers, PartyNumberOfIndex
  <2> QED
    BY <2>2, <2>3
<1>7. DOMAIN receivers(c, r) = DOMAIN others
      /\ \A i \in DOMAIN others : receivers(c, r)[i] = others[i]
  BY <1>6 DEF receivers, others
<1> QED
  BY <1>3, <1>4, <1>7

LEMMA ServerLeaves ==
    ASSUME TypeInv, NEW c \in Clients, toServer[c] # <<>>, Returned(c),
           NEW a \in Clients, NEW m, Has(toServer[a], m)
    PROVE  Has(toServer'[a], m) \/ (a = c /\ First(c) = m)
<1>0. a \in Keys /\ c \in Keys /\ toServer[a] \in Seq(Messages) /\ DOMAIN toServer = Keys
  BY QueuesTyped DEF TypeInv, ServerQueuesOK
<1>1. toServer'[a] = IF a = c THEN Tail(toServer[a]) ELSE toServer[a]
  BY <1>0 DEF Returned
<1> QED
  BY <1>0, <1>1, QueueTail DEF First

\* A session that is closed stays so.
LEMMA ClosedStays ==
    ASSUME TypeInv, LobbyInv, [Next]_vars
    PROVE  Closed => Closed'
<1>0. /\ waiter \in [pc : {"unborn", "poll", "found", "notify", "done"},
                     msg : {"SessionReady", "SessionActive"}, next : Nat \ {0}]
  BY DEF TypeInv, RelayOK
<1>1. CASE UNCHANGED vars
  BY <1>1 DEF vars, relay, Closed
<1>2. ASSUME NEW c \in Keys, Connect(c) PROVE Closed => Closed'
  BY <1>2 DEF Connect, Closed
<1>3. ASSUME NEW c \in Keys, Client(c) PROVE Closed => Closed'
  BY <1>3 DEF Client, OnSessionCreated, OnSessionReady, OnSessionActive,
         OnInitiator, OnResponder, OnRound, OnSessionFinished, OnError, Close,
         relay, Closed
<1>4. ASSUME NEW c \in Keys, Handle(c) PROVE Closed => Closed'
  <2>1. session = {} /\ waiter.pc # "unborn" => session' = {} /\ UNCHANGED waiter
    BY <1>4, HandlerSession
  <2> QED
    BY <2>1 DEF Closed
<1>5. CASE Waiter
  BY <1>0, <1>5 DEF Waiter, Poll, NotifyPeers, NotifyPeer, NotifyReturn, Closed
<1> QED
  BY <1>1, <1>2, <1>3, <1>4, <1>5 DEF Next

\* A client that has begun a round has been told of the session by a task
\* that found everybody there.
LEMMA BegunMeansMet ==
    ASSUME LobbyInv, NEW c \in Clients, round[c].driver > 0
    PROVE  Clients \subseteq active /\ waiter.pc # "unborn"
BY DEF LobbyInv, BegunInv, GatheredInv

\* As long as the session is open the relay refuses nothing.
LEMMA NoneRefused ==
    ASSUME TypeInv, ChannelInv, RoundInv, KeyInv, LobbyInv, EndInv, ~Closed, NoErrors,
           NEW c \in Clients, toServer[c] # <<>>
    PROVE  /\ First(c).type \in Carried => First(c).peer \in active
           /\ First(c).type \in {"SessionConnection", "Round"} => session # {}
           /\ First(c).type = "CloseSession" => \E s \in session : s.owner_key = c
<1>0. /\ toServer[c] \in Seq(Messages) /\ First(c) \in Messages /\ First(c).peer \in Clients
      /\ Has(toServer[c], First(c))
  <2>1. toServer[c] \in Seq(Messages) /\ First(c) \in Messages
    BY QueuesTyped, FirstTyped
  <2>2. First(c).peer \in Clients
    BY <2>1 DEF Messages
  <2> QED
    BY <2>1, <2>2, QueueTail DEF First
<1>1. PICK p \in Clients : p = First(c).peer
  BY <1>0
<1>2. First(c).type # "Round" => First(c) = Msg(First(c).type, p, NoRound)
  BY <1>0, <1>1 DEF Messages, Msg
<1>3. First(c).type = "Round" => round[c].driver > 0
  BY RoundRequest DEF Request
<1>4. ASSUME First(c).type = "Initiator" PROVE Clients \subseteq active
  <2>1. Call(c, p)
    BY <1>0, <1>2, <1>4 DEF Call, OnWay
  <2>2. c # p /\ peers[c][p] # "none"
    BY <2>1, DialFacts DEF ChannelInv, PairInv, TypeInv
  <2> QED
    BY <2>2 DEF EndInv, MetInv
<1>5. ASSUME First(c).type = "Responder" PROVE Clients \subseteq active
  <2>1. Reply(c, p)
    BY <1>0, <1>2, <1>5 DEF Reply, OnWay
  <2>2. c # p /\ peers[p][c] # "none"
    BY <2>1, DialFacts DEF ChannelInv, PairInv, TypeInv
  <2> QED
    BY <2>2 DEF EndInv, MetInv
<1>6. ASSUME First(c).type = "SessionConnection" PROVE session # {}
  <2>1. Registered(c, p)
    BY <1>0, <1>2, <1>6 DEF Registered
  <2>2. c # p /\ peers[c][p] # "none"
    BY <2>1, DialFacts DEF ChannelInv, PairInv, Open, TypeInv
  <2>3. waiter.pc # "unborn"
    BY <2>2 DEF EndInv, MetInv
  <2> QED
    BY <2>3 DEF Closed
<1>7. ASSUME First(c).type = "Round" PROVE Clients \subseteq active /\ session # {}
  BY <1>3, <1>7, BegunMeansMet DEF Closed
<1>8. ASSUME First(c).type = "CloseSession" PROVE \E s \in session : s.owner_key = c
  <2>1. 1 \in DOMAIN toServer[c] /\ toServer[c][1].type = "CloseSession"
    BY <1>0, <1>8 DEF First
  <2>2. c = Owner /\ phase[c] \in Over
    BY <2>1 DEF EndInv, ClosingInv, NoErrors, Ended
  <2>3. \A r \in Rounds : Reached(c, r)
    BY <2>2 DEF KeyInv
  <2>4. [driver |-> 1, number |-> 1] \in Rounds
    <3>1. 1 \in 1..Len(Drivers) /\ Drivers[1] \in 1..MaxRounds
      BY DriverFacts DEF TypeInv
    <3> QED
      BY <3>1 DEF Rounds, MaxRounds
  <2>5. round[c].driver > 0
    BY <2>3, <2>4, RoundFields DEF Reached, Upto
  <2>6. session # {}
    BY <2>5, BegunMeansMet DEF Closed
  <2> QED
    BY <2>2, <2>6 DEF EndInv, ClosingInv
<1> QED
  BY <1>1, <1>4, <1>5, <1>6, <1>7, <1>8 DEF Carried, PeerSays

\* The rounds on their way after a step of the relay that is not about them.
LEMMA FlowQuiet ==
    ASSUME TypeInv, NEW c \in Clients, NEW msgs \in Seq(Messages),
           \/ toServer[c] # <<>> /\ Returned(c) /\ First(c).type # "Round"
           \/ UNCHANGED toServer
           \/ Requests(c, msgs),
           \A n \in DOMAIN msgs : msgs[n].type # "Round",
           \/ UNCHANGED toClient
           \/ \E d \in Clients : \E x \in Messages : Send(d, x) /\ x.type # "Round",
           NEW p \in Clients, NEW b \in Clients
    PROVE  /\ \A r : OnWay("Round", r, p, b)' <=> OnWay("Round", r, p, b)
           /\ \A s, r : s # r /\ Fifo(p, b, s, r) => Fifo(p, b, s, r)'
<1>0. p \in Keys /\ b \in Keys /\ c \in Keys
  BY QueuesTyped
<1>1. \A x, r : Msg("Round", x, r).type = "Round"
  BY DEF Msg
<1>2. \A x, r : ~Has(msgs, Msg("Round", x, r))
  BY <1>1 DEF Has
<1>3. \A x, r : Has(toServer'[p], Msg("Round", x, r)) <=> Has(toServer[p], Msg("Round", x, r))
  <2> SUFFICES ASSUME NEW x, NEW r
               PROVE  Has(toServer'[p], Msg("Round", x, r)) <=> Has(toServer[p], Msg("Round", x, r))
    OBVIOUS
  <2> DEFINE m == Msg("Round", x, r)
  <2>1. CASE UNCHANGED toServer
    BY <2>1
  <2>2. CASE toServer[c] # <<>> /\ Returned(c) /\ First(c).type # "Round"
    <3>1. Has(toServer'[p], m) => Has(toServer[p], m)
      BY <1>0, <2>2, ServerStep
    <3>2. Has(toServer[p], m) => Has(toServer'[p], m) \/ (p = c /\ First(c) = m)
      BY <1>0, <2>2, ServerLeaves
    <3> QED
      BY <1>1, <2>2, <3>1, <3>2
  <2>3. CASE Requests(c, msgs)
    BY <1>2, <2>3, RequestStep
  <2> QED
    BY <2>1, <2>2, <2>3
<1>4. \A x, r : Has(toClient'[b], Msg("Round", x, r)) <=> Has(toClient[b], Msg("Round", x, r))
  <2> SUFFICES ASSUME NEW x, NEW r
               PROVE  Has(toClient'[b], Msg("Round", x, r)) <=> Has(toClient[b], Msg("Round", x, r))
    OBVIOUS
  <2>1. CASE UNCHANGED toClient
    BY <2>1
  <2>2. ASSUME NEW d \in Clients, NEW y \in Messages, Send(d, y), y.type # "Round"
        PROVE  Has(toClient'[b], Msg("Round", x, r)) <=> Has(toClient[b], Msg("Round", x, r))
    BY <1>0, <1>1, <2>2, SendStep
  <2> QED
    BY <2>1, <2>2
<1>5. ASSUME NEW s, NEW r, s # r, Fifo(p, b, s, r)
      PROVE  Fifo(p, b, s, r)'
  <2>1. /\ InOrder(toServer[p], Msg("Round", b, s), Msg("Round", b, r))
        /\ InOrder(toClient[b], Msg("Round", p, s), Msg("Round", p, r))
        /\ Msg("Round", p, s) # Msg("Round", p, r)
    BY <1>5 DEF Fifo, Msg
  <2>2. InOrder(toServer'[p], Msg("Round", b, s), Msg("Round", b, r))
    <3>1. InOrder(msgs, Msg("Round", b, s), Msg("Round", b, r))
      BY <1>2 DEF InOrder, Has
    <3> QED
      BY <1>2, <2>1, <3>1, ServerOrder
  <2>3. InOrder(toClient'[b], Msg("Round", p, s), Msg("Round", p, r))
    <3>1. CASE UNCHANGED toClient
      BY <2>1, <3>1
    <3>2. ASSUME NEW d \in Clients, NEW y \in Messages, Send(d, y), y.type # "Round"
          PROVE  InOrder(toClient'[b], Msg("Round", p, s), Msg("Round", p, r))
      <4>1. y # Msg("Round", p, s)
        BY <1>1, <3>2
      <4> QED
        BY <2>1, <3>2, <4>1, ClientOrder
    <3> QED
      BY <3>1, <3>2
  <2> QED
    BY <1>3, <1>4, <1>5, <2>2, <2>3 DEF Fifo
<1> QED
  BY <1>3, <1>4, <1>5 DEF OnWay

\* The relay passes a message on.
LEMMA FlowPassed ==
    ASSUME TypeInv, NEW c \in Clients, toServer[c] # <<>>, First(c).type \in Carried,
           Returned(c), Send(First(c).peer, [First(c) EXCEPT !.peer = c]),
           NEW p \in Clients, NEW b \in Clients
    PROVE  /\ \A r \in Rounds : OnWay("Round", r, p, b)' <=> OnWay("Round", r, p, b)
           /\ \A s, r \in Rounds : s # r /\ Fifo(p, b, s, r) => Fifo(p, b, s, r)'
<1>0. p \in Keys /\ b \in Keys /\ c \in Keys /\ First(c) \in Messages
      /\ toServer[c] \in Seq(Messages)
  BY QueuesTyped, FirstTyped
<1>1. PICK d \in Clients, x \in Messages :
          /\ d = First(c).peer /\ x = [First(c) EXCEPT !.peer = c] /\ Send(d, x)
  BY <1>0 DEF Messages
<1>2. \A r : /\ First(c) = Msg("Round", d, r) <=> x = Msg("Round", c, r)
             /\ \A k : First(c) = Msg("Round", k, r) => k = d
             /\ \A k : x = Msg("Round", k, r) => k = c
  BY <1>0, <1>1 DEF Msg, Messages
<1>3. \A m : /\ Has(toServer'[p], m) => Has(toServer[p], m)
             /\ Has(toServer[p], m) => Has(toServer'[p], m) \/ (p = c /\ First(c) = m)
             /\ Has(toClient'[b], m) <=> Has(toClient[b], m) \/ (b = d /\ x = m)
  <2> SUFFICES ASSUME NEW m
               PROVE  /\ Has(toServer'[p], m) => Has(toServer[p], m)
                      /\ Has(toServer[p], m) =>
                             Has(toServer'[p], m) \/ (p = c /\ First(c) = m)
                      /\ Has(toClient'[b], m) <=> Has(toClient[b], m) \/ (b = d /\ x = m)
    OBVIOUS
  <2>1. Has(toServer'[p], m) => Has(toServer[p], m)
    BY <1>0, ServerStep
  <2>2. Has(toServer[p], m) => Has(toServer'[p], m) \/ (p = c /\ First(c) = m)
    BY ServerLeaves
  <2>3. Has(toClient'[b], m) <=> Has(toClient[b], m) \/ (b = d /\ x = m)
    <3>1. Send(d, x) /\ b \in Keys
      BY <1>0, <1>1
    <3> QED
      BY ONLY TypeInv, <3>1, SendStep
  <2> QED
    BY <2>1, <2>2, <2>3
<1>4. ASSUME NEW r \in Rounds
      PROVE  OnWay("Round", r, p, b)' <=> OnWay("Round", r, p, b)
  <2>1. ASSUME b = d, x = Msg("Round", p, r) PROVE Has(toServer[p], Msg("Round", b, r))
    BY <1>0, <1>2, <2>1, QueueTail DEF First
  <2>2. ASSUME p = c, First(c) = Msg("Round", b, r) PROVE b = d /\ x = Msg("Round", p, r)
    BY <1>2, <2>2
  <2> QED
    BY <1>3, <2>1, <2>2 DEF OnWay
<1>5. ASSUME NEW s \in Rounds, NEW r \in Rounds, s # r, Fifo(p, b, s, r)
      PROVE  Fifo(p, b, s, r)'
  <2> DEFINE ms == Msg("Round", b, s)
             mr == Msg("Round", b, r)
             cs == Msg("Round", p, s)
             cr == Msg("Round", p, r)
  <2>1. /\ InOrder(toServer[p], ms, mr) /\ InOrder(toClient[b], cs, cr) /\ cs # cr
        /\ Has(toClient[b], cr) => ~Has(toServer[p], ms)
    BY <1>5 DEF Fifo, Msg
  <2>2. InOrder(toServer'[p], ms, mr)
    BY <2>1, ServerOrder
  <2>3. ASSUME b = d, x = cs PROVE ~Has(toClient[b], cr)
    <3>1. p = c /\ First(c) = ms
      BY <1>2, <2>3
    <3>2. Has(toServer[p], ms)
      BY <1>0, <3>1, QueueTail DEF First
    <3> QED
      BY <2>1, <3>2
  <2>4. InOrder(toClient'[b], cs, cr)
    BY <1>1, <2>1, <2>3, ClientOrder
  <2>5. ASSUME b = d, x = cr PROVE ~Has(toServer[p], ms)
    <3>1. p = c /\ First(c) = mr
      BY <1>2, <2>5
    <3> QED
      BY <1>0, <2>1, <3>1, OrderTail DEF First
  <2> QED
    BY <1>3, <2>1, <2>2, <2>4, <2>5 DEF Fifo
<1> QED
  BY <1>4, <1>5

\* A step of the relay that leaves the rounds on their way.
LEMMA CalmRelay ==
    ASSUME TypeInv, NoErrors, OrderInv, ExactInv,
           UNCHANGED <<job, phase, round, buffer>>,
           \A c \in Clients : ~Told(c, "Error")',
           \A p, b \in Clients :
               /\ \A r \in Rounds : OnWay("Round", r, p, b)' <=> OnWay("Round", r, p, b)
               /\ \A s, r \in Rounds : s # r /\ Fifo(p, b, s, r) => Fifo(p, b, s, r)'
    PROVE  NoErrors' /\ OrderInv' /\ ExactInv'
<1>0. Clients' = Clients /\ Rounds' = Rounds
  BY SameTypes
<1>1. \A p \in Clients : \A r \in Rounds : Reached(p, r)' <=> Reached(p, r)
  BY DEF Reached
<1>2. \A c \in Clients : \A r \in Rounds : Taken(c, r)' = Taken(c, r)
  BY <1>0, <1>1 DEF Taken
<1>3. NoErrors'
  BY <1>0 DEF NoErrors
<1>4. OrderInv'
  BY <1>0, <1>2 DEF OrderInv
<1>5. ExactInv'
  BY <1>0, <1>2 DEF ExactInv
<1> QED
  BY <1>3, <1>4, <1>5

LEMMA CalmHandler ==
    ASSUME TypeInv, ChannelInv, RoundInv, KeyInv, LobbyInv, EndInv, ~Closed,
           NoErrors, OrderInv, ExactInv, NEW c \in Keys, Handle(c)
    PROVE  NoErrors' /\ OrderInv' /\ ExactInv'
<1>1. /\ c \in Clients /\ toServer[c] # <<>> /\ First(c) \in Messages
      /\ UNCHANGED <<job, active, clients>>
  BY HandlerForms
<1>2. UNCHANGED <<job, phase, round, buffer>>
  BY <1>1 DEF clients
<1>3. \A word \in {"SessionCreated", "SessionFinished"} :
          Word(word) \in Messages /\ Word(word).type = word
  BY WordMessage DEF TypeInv, MessageTypes
<1>4. ASSUME UNCHANGED toClient \/
                 \E d \in Clients : \E x \in Messages : Send(d, x) /\ x.type # "Error"
      PROVE  \A b \in Clients : ~Told(b, "Error")'
  <2> SUFFICES ASSUME NEW b \in Clients PROVE ~Told(b, "Error")'
    OBVIOUS
  <2>1. ~Told(b, "Error")
    BY DEF NoErrors
  <2>2. CASE UNCHANGED toClient
    BY <2>1, <2>2 DEF Told
  <2>3. ASSUME NEW d \in Clients, NEW x \in Messages, Send(d, x), x.type # "Error"
        PROVE  ~Told(b, "Error")'
    BY <2>1, <2>3, TellStep
  <2> QED
    BY <1>4, <2>2, <2>3
<1>5. CASE /\ UNCHANGED toServer \/ (Returned(c) /\ First(c).type \notin Carried)
           /\ \/ UNCHANGED toClient
              \/ \E word \in {"SessionCreated", "SessionFinished"} : Send(c, Word(word))
  <2>1. \/ UNCHANGED toClient
        \/ \E d \in Clients : \E x \in Messages :
               Send(d, x) /\ x.type # "Round" /\ x.type # "Error"
    BY <1>1, <1>3, <1>5
  <2>2. \A b \in Clients : ~Told(b, "Error")'
    BY <1>4, <2>1
  <2>3. /\ \/ toServer[c] # <<>> /\ Returned(c) /\ First(c).type # "Round"
           \/ UNCHANGED toServer
        /\ <<>> \in Seq(Messages) /\ \A n \in DOMAIN <<>> : <<>>[n].type # "Round"
    BY <1>1, <1>5 DEF Carried
  <2>4. \A p, b \in Clients :
            /\ \A r \in Rounds : OnWay("Round", r, p, b)' <=> OnWay("Round", r, p, b)
            /\ \A s, r \in Rounds : s # r /\ Fifo(p, b, s, r) => Fifo(p, b, s, r)'
    BY <1>1, <2>1, <2>3, FlowQuiet
  <2> QED
    BY <1>2, <2>2, <2>4, CalmRelay
<1>6. CASE /\ First(c).type \in Carried
           /\ Returned(c) /\ Send(First(c).peer, [First(c) EXCEPT !.peer = c])
  <2>1. PICK d \in Clients, x \in Messages :
            d = First(c).peer /\ x = [First(c) EXCEPT !.peer = c] /\ Send(d, x)
            /\ x.type = First(c).type
    BY <1>1, <1>6 DEF Messages
  <2>2. \A b \in Clients : ~Told(b, "Error")'
    BY <1>4, <1>6, <2>1 DEF Carried, PeerSays
  <2>3. \A p, b \in Clients :
            /\ \A r \in Rounds : OnWay("Round", r, p, b)' <=> OnWay("Round", r, p, b)
            /\ \A s, r \in Rounds : s # r /\ Fifo(p, b, s, r) => Fifo(p, b, s, r)'
    BY <1>1, <1>6, FlowPassed
  <2> QED
    BY <1>2, <2>2, <2>3, CalmRelay
<1>7. /\ First(c).type \in Carried => First(c).peer \in active
      /\ First(c).type \in {"SessionConnection", "Round"} => session # {}
      /\ First(c).type = "CloseSession" => \E s \in session : s.owner_key = c
  BY <1>1, NoneRefused
<1> QED
  BY <1>1, <1>5, <1>6, <1>7, HandlerForms

LEMMA CalmQuietly ==
    ASSUME TypeInv, NoErrors, OrderInv, ExactInv, (\E c \in Keys : Connect(c)) \/ Waiter
    PROVE  NoErrors' /\ OrderInv' /\ ExactInv'
<1>1. UNCHANGED <<job, phase, round, buffer>>
  BY DEF Connect, Waiter, Poll, NotifyPeers, NotifyPeer, NotifyReturn, clients
<1>2. PICK o \in Clients : o = Owner
  BY JobFacts DEF TypeInv
<1>3. \/ UNCHANGED toClient
      \/ \E d \in Clients : \E x \in Messages :
             Send(d, x) /\ x.type # "Round" /\ x.type # "Error"
  <2>1. CASE \E c \in Keys : Connect(c)
    BY <2>1 DEF Connect
  <2>2. CASE Waiter
    BY <2>2, WaiterSays
  <2> QED
    BY <2>1, <2>2
<1>5. PICK c \in Clients, msgs \in Seq(Messages) :
          /\ UNCHANGED toServer \/ Requests(c, msgs)
          /\ \A n \in DOMAIN msgs : msgs[n].type # "Round"
  <2>1. CASE Waiter
    <3>1. UNCHANGED toServer /\ <<>> \in Seq(Messages)
          /\ \A n \in DOMAIN <<>> : <<>>[n].type # "Round"
      BY <2>1 DEF Waiter, Poll, NotifyPeers, NotifyPeer, NotifyReturn
    <3> QED
      BY <1>2, <3>1
  <2>2. ASSUME NEW d \in Keys, Connect(d)
        PROVE  \E k \in Clients : \E m \in Seq(Messages) :
                   Requests(k, m) /\ \A n \in DOMAIN m : m[n].type # "Round"
    <3>1. d \in Clients
      BY <2>2 DEF Connect
    <3>2. PICK m \in Seq(Messages) :
              Requests(d, m) /\ \A n \in DOMAIN m : m[n].type = "NewSession"
      BY <2>2, ConnectSays
    <3>3. \A n \in DOMAIN m : m[n].type # "Round"
      BY <3>2
    <3> QED
      BY <3>1, <3>2, <3>3
  <2> QED
    BY <2>1, <2>2
<1>6. \A b \in Clients : ~Told(b, "Error")'
  <2> SUFFICES ASSUME NEW b \in Clients PROVE ~Told(b, "Error")'
    OBVIOUS
  <2>1. ~Told(b, "Error")
    BY DEF NoErrors
  <2>2. CASE UNCHANGED toClient
    BY <2>1, <2>2 DEF Told
  <2>3. ASSUME NEW d \in Clients, NEW x \in Messages, Send(d, x), x.type # "Error"
        PROVE  ~Told(b, "Error")'
    BY <2>1, <2>3, TellStep
  <2> QED
    BY <1>3, <2>2, <2>3
<1>7. \A p, b \in Clients :
          /\ \A r \in Rounds : OnWay("Round", r, p, b)' <=> OnWay("Round", r, p, b)
          /\ \A s, r \in Rounds : s # r /\ Fifo(p, b, s, r) => Fifo(p, b, s, r)'
  BY <1>3, <1>5, FlowQuiet
<1> QED
  BY <1>1, <1>6, <1>7, CalmRelay

\* The step of a client c that takes up the head of its queue, if at all, and
\* sends the messages of the round it begins, if any, to all the others.
LEMMA FlowClient ==
    ASSUME TypeInv, RoundInv, OrderInv, UNCHANGED job, NEW c \in Clients,
           \/ toClient[c] # <<>> /\ toClient' = [toClient EXCEPT ![c] = Tail(@)]
           \/ UNCHANGED toClient,
           NEW msgs \in Seq(Messages), Requests(c, msgs), Moves(c),
           \A p \in Clients \ {c} : round'[p] = round[p],
           \A n \in DOMAIN msgs : msgs[n].type = "Round" => ~Reached(c, msgs[n].round),
           \A m, n \in DOMAIN msgs : msgs[m].type = "Round" /\ msgs[n].type = "Round" =>
               msgs[m].round = msgs[n].round,
           \A x \in Clients \ {c} : \A r \in Rounds :
               ~Reached(c, r) /\ Reached(c, r)' => Has(msgs, Msg("Round", x, r))
    PROVE  /\ OrderInv'
           /\ \A x, p \in Clients : \A r \in Rounds :
                  p \in Taken(x, r)' =>
                      \/ p \in Taken(x, r)
                      \/ x = c /\ toClient[c] # <<>> /\ ~UNCHANGED toClient
                               /\ Head(toClient[c]) = Msg("Round", p, r)
<1>0. Clients' = Clients /\ Rounds' = Rounds /\ c \in Keys /\ Clients \subseteq Keys
  BY SameTypes, QueuesTyped
<1>1. ASSUME NEW x \in Clients, NEW p \in Clients, NEW r \in Rounds, p \in Taken(x, r)'
      PROVE  \/ p \in Taken(x, r)
             \/ x = c /\ toClient[c] # <<>> /\ ~UNCHANGED toClient
                      /\ Head(toClient[c]) = Msg("Round", p, r)
  <2>1. p # x /\ Reached(p, r)' /\ ~OnWay("Round", r, p, x)'
    BY <1>0, <1>1 DEF Taken
  <2>2. Reached(p, r)
    <3>1. CASE p # c
      BY <2>1, <3>1 DEF Reached
    <3>2. CASE p = c /\ ~Reached(p, r)
      <4>1. Has(msgs, Msg("Round", x, r))
        BY <2>1, <3>2
      <4>2. Has(toServer'[c], Msg("Round", x, r))
        BY <4>1, RequestStep
      <4> QED
        BY <2>1, <3>2, <4>2 DEF OnWay
    <3> QED
      BY <3>1, <3>2
  <2>3. CASE ~OnWay("Round", r, p, x)
    BY <2>1, <2>2, <2>3 DEF Taken
  <2>4. CASE Has(toServer[p], Msg("Round", x, r))
    <3>1. Has(toServer'[p], Msg("Round", x, r))
      BY <2>4, RequestStep
    <3> QED
      BY <2>1, <3>1 DEF OnWay
  <2>5. CASE Has(toClient[x], Msg("Round", p, r))
    <3>1. ~Has(toClient'[x], Msg("Round", p, r))
      BY <2>1 DEF OnWay
    <3>2. ~UNCHANGED toClient
      BY <2>5, <3>1
    <3> QED
      BY <2>5, <3>1, <3>2, TakeLeaves
  <2> QED
    BY <2>3, <2>4, <2>5 DEF OnWay
<1>2. ASSUME NEW p \in Clients, NEW x \in Clients, NEW s \in Rounds, NEW r \in Rounds,
             Upto(s, r), s # r
      PROVE  Fifo(p, x, s, r)' /\ (p \in Taken(x, r)' => p \in Taken(x, s)')
  <2> DEFINE ms == Msg("Round", x, s)
             mr == Msg("Round", x, r)
             cs == Msg("Round", p, s)
             cr == Msg("Round", p, r)
  <2>1. /\ InOrder(toServer[p], ms, mr) /\ InOrder(toClient[x], cs, cr) /\ cs # cr
        /\ Has(toClient[x], cr) => ~Has(toServer[p], ms)
        /\ p \in Taken(x, r) => p \in Taken(x, s)
    BY <1>2 DEF OrderInv, Fifo, Msg
  <2>2. ms.type = "Round" /\ mr.type = "Round" /\ ms.round = s /\ mr.round = r
    BY DEF Msg
  <2>3. OnWay("Round", r, p, x) => p # x /\ Reached(p, r)
    BY DEF RoundInv, SentInv
  <2>4. Reached(p, r) => Reached(p, s)
    BY <1>2, RoundFields DEF Reached, Upto
  <2>5. ASSUME p = c, Has(msgs, ms) PROVE ~OnWay("Round", r, p, x)
    BY <2>2, <2>3, <2>4, <2>5 DEF Has
  <2>6. InOrder(toServer'[p], ms, mr)
    <3>1. InOrder(msgs, ms, mr)
      BY <1>2, <2>2 DEF InOrder
    <3>2. p = c => ~(Has(msgs, ms) /\ Has(toServer[p], mr))
      BY <2>5 DEF OnWay
    <3> HIDE DEF ms, mr
    <3> QED
      BY <2>1, <3>1, <3>2, ServerOrder
  <2>7. InOrder(toClient'[x], cs, cr)
    BY <2>1, ClientOrder
  <2>8. Has(toClient'[x], cr) => ~Has(toServer'[p], ms)
    <3>1. Has(toClient'[x], cr) => Has(toClient[x], cr)
      BY TakeStep
    <3>2. Has(toServer'[p], ms) => Has(toServer[p], ms) \/ (p = c /\ Has(msgs, ms))
      BY RequestStep
    <3> QED
      BY <2>1, <2>5, <3>1, <3>2 DEF OnWay
  <2>9. Taken(x, s) \subseteq Taken(x, s)'
    BY TakenGrows
  <2>10. ASSUME x = c, toClient[c] # <<>>, Head(toClient[c]) = cr
         PROVE  p \in Taken(x, s)
    <3>1. toClient[c] \in Seq(Messages)
      BY QueuesTyped
    <3>2. Has(toClient[x], cr) /\ ~Has(toClient[x], cs)
      BY <2>1, <2>10, <3>1, OrderTail, QueueTail
    <3>3. ~OnWay("Round", s, p, x) /\ OnWay("Round", r, p, x)
      BY <2>1, <3>2 DEF OnWay
    <3> QED
      BY <2>3, <2>4, <3>3 DEF Taken
  <2>11. p \in Taken(x, r)' => p \in Taken(x, s)'
    BY <1>1, <2>1, <2>9, <2>10
  <2> QED
    BY <2>6, <2>7, <2>8, <2>11 DEF Fifo
<1>3. OrderInv'
  BY <1>0, <1>2 DEF OrderInv
<1> QED
  BY <1>1, <1>3

\* What is ready is one message short of all.
LEMMA ReadyCount ==
    ASSUME TypeInv, NEW n \in Nat, is_ready(n + 1)
    PROVE  n = Len(Parties) - 2 /\ Len(Parties) \in Nat
<1>1. /\ job.op \in {"keygen", "sign"} /\ job.threshold \in Nat
      /\ job.op = "sign" => Len(Parties) = job.threshold + 1
      /\ Len(Parties) \in Nat
  BY SessionRunAssumption, JobFacts DEF TypeInv, Parties
<1>2. CASE job.op = "keygen"
  BY <1>1, <1>2 DEF is_ready
<1>3. CASE job.op = "sign"
  <2>1. n + 1 = job.threshold
    BY <1>3 DEF is_ready
  <2> QED
    BY <1>1, <1>3, <2>1
<1> QED
  BY <1>1, <1>2, <1>3

\* The message that a client in a round finds is of its own driver, and it does
\* not complete a later round than the client's.
LEMMA RightRound ==
    ASSUME TypeInv, RoundInv, OrderInv, ExactInv, Sound, NEW c \in Clients,
           phase[c] = "running", toClient[c] # <<>>,
           NEW p \in Clients, NEW r \in Rounds, Head(toClient[c]) = Msg("Round", p, r)
    PROVE  /\ r.driver = round[c].driver
           /\ is_ready(buffer[c][r.number] + 1) => r = round[c]
<1>0. toClient[c] \in Seq(Messages) /\ Len(Parties) \in Nat /\ Len(Parties) > 1
  BY QueuesTyped, JobFacts DEF TypeInv
<1>1. PICK s \in Rounds : s = round[c]
  BY RoundFields DEF ExactInv
<1>2. Has(toClient[c], Msg("Round", p, r)) /\ OnWay("Round", r, p, c)
  BY <1>0, QueueTail DEF OnWay
<1>3. p # c /\ Reached(p, r) /\ p \notin Taken(c, r)
  BY <1>2 DEF RoundInv, SentInv, Taken
<1>4. ~Passed(c, r)
  BY <1>3 DEF RoundInv, PassedInv
<1>5. Upto(s, r)
  BY <1>1, <1>4, RoundFields DEF Passed, Reached, Upto
<1>6. ASSUME s # r PROVE p \in Taken(c, s) /\ Taken(c, r) \subseteq Taken(c, s)
  <2>1. Fifo(p, c, s, r) /\ \A x \in Clients : x \in Taken(c, r) => x \in Taken(c, s)
    BY <1>5, <1>6 DEF OrderInv
  <2>2. ~Has(toClient[c], Msg("Round", p, s))
    BY <1>0, <2>1, OrderTail DEF Fifo
  <2>3. ~OnWay("Round", s, p, c)
    BY <1>2, <2>1, <2>2 DEF OnWay, Fifo
  <2>4. Reached(p, s)
    BY <1>3, <1>5, RoundFields DEF Reached, Upto
  <2> QED
    BY <1>3, <2>1, <2>3, <2>4 DEF Taken
<1>7. /\ Cardinality(Taken(c, s)) <= buffer[c][s.number]
      /\ buffer[c][s.number] \in Nat /\ buffer[c][s.number] <= Len(Parties) - 2
  <2>1. Upto(round[c], s) /\ s.driver = round[c].driver
    BY <1>1, RoundFields DEF Upto
  <2>2. c \in Keys /\ s.number \in 1..MaxRounds
    BY RoundFields
  <2>3. buffer[c][s.number] \in 0..(Len(Parties) - 2)
    BY <2>2 DEF TypeInv, ClientsOK, RoundsOK
  <2> QED
    BY <1>0, <2>1, <2>3 DEF ExactInv
<1>8. Taken(c, s) \subseteq Clients /\ job \in Jobs
  BY DEF Taken, TypeInv
<1>9. r.driver = s.driver
  <2> SUFFICES ASSUME r.driver # s.driver PROVE FALSE
    OBVIOUS
  <2>1. job.op # "keygen"
    <3>1. job.op = "keygen" => Len(Drivers) = 1
      BY DEF Drivers
    <3> QED
      BY <3>1, RoundFields
  <2>2. Len(Parties) = 2
    BY <2>1 DEF Sound
  <2>3. Cardinality(Taken(c, s)) <= 0 /\ Taken(c, s) # {}
    <3>1. Cardinality(Taken(c, s)) \in Nat
      BY <1>8, CountGrows
    <3> QED
      BY <1>6, <1>7, <2>2, <3>1
  <2>4. Cardinality({}) \in Nat /\ Cardinality({}) + 1 <= Cardinality(Taken(c, s))
        /\ Cardinality(Taken(c, s)) \in Nat
    BY <1>8, <2>3, CountGrows
  <2> QED
    BY <2>3, <2>4
<1>10. ASSUME is_ready(buffer[c][r.number] + 1), r # s PROVE FALSE
  <2>1. buffer[c][r.number] = Len(Parties) - 2
    BY <1>10, BufferTyped, ReadyCount
  <2>2. buffer[c][r.number] <= Cardinality(Taken(c, r))
    BY <1>1, <1>9 DEF RoundInv, CountInv
  <2>3. /\ Cardinality(Taken(c, r)) \in Nat /\ Cardinality(Taken(c, s)) \in Nat
        /\ Cardinality(Taken(c, r)) + 1 <= Cardinality(Taken(c, s))
    BY <1>3, <1>6, <1>8, <1>10, CountGrows
  <2> QED
    BY <1>0, <1>7, <2>1, <2>2, <2>3
<1> QED
  BY <1>1, <1>9, <1>10

LEMMA TakenStays ==
    ASSUME TypeInv, UNCHANGED job, NEW c \in Clients, Moves(c),
           NEW x \in Clients, NEW s \in Rounds,
           \A p \in Clients : p \in Taken(x, s)' => p \in Taken(x, s)
    PROVE  Taken(x, s)' = Taken(x, s)
<1>1. Taken(x, s) \subseteq Taken(x, s)' /\ Taken(x, s)' \subseteq Clients
  BY TakenGrows
<1> QED
  BY <1>1

\* What is left to show of a step of c.
LEMMA CalmMove ==
    ASSUME TypeInv, NoErrors, ExactInv, UNCHANGED job, NEW c \in Clients, Moves(c),
           \/ toClient[c] # <<>> /\ toClient' = [toClient EXCEPT ![c] = Tail(@)]
           \/ UNCHANGED toClient,
           OrderInv',
           \A x \in Clients \ {c} : \A p \in Clients : \A s \in Rounds :
               p \in Taken(x, s)' => p \in Taken(x, s),
           \A x \in Clients \ {c} :
               /\ round'[x] = round[x] /\ buffer'[x] = buffer[x]
               /\ phase'[x] \in {"setup", "running"} => phase'[x] = phase[x],
           \A x \in Clients : phase'[x] # "failed",
           phase'[c] = "running" => round'[c].driver > 0,
           phase'[c] \in {"setup", "running"} =>
               \A s \in Rounds : Upto(round'[c], s) =>
                   IF s.driver = round'[c].driver
                   THEN Cardinality(Taken(c, s)') <= buffer'[c][s.number]
                   ELSE Taken(c, s)' = {}
    PROVE  NoErrors' /\ OrderInv' /\ ExactInv'
<1>0. Clients' = Clients /\ Rounds' = Rounds
  BY SameTypes
<1>1. NoErrors'
  <2>1. \A x \in Clients : ~Told(x, "Error")'
    BY HearStep DEF NoErrors
  <2> QED
    BY <1>0, <2>1 DEF NoErrors
<1>2. ASSUME NEW x \in Clients \ {c}
      PROVE  /\ phase'[x] = "running" => round'[x].driver > 0
             /\ phase'[x] \in {"setup", "running"} =>
                    \A s \in Rounds : Upto(round'[x], s) =>
                        IF s.driver = round'[x].driver
                        THEN Cardinality(Taken(x, s)') <= buffer'[x][s.number]
                        ELSE Taken(x, s)' = {}
  <2>1. ASSUME NEW s \in Rounds PROVE Taken(x, s)' = Taken(x, s)
    BY TakenStays
  <2> QED
    BY <2>1 DEF ExactInv
<1>3. ExactInv'
  BY <1>0, <1>2 DEF ExactInv
<1> QED
  BY <1>1, <1>3

\* A step of c that begins no round.
LEMMA FlowStays ==
    ASSUME TypeInv, RoundInv, OrderInv, UNCHANGED <<job, round>>, NEW c \in Clients,
           \/ toClient[c] # <<>> /\ toClient' = [toClient EXCEPT ![c] = Tail(@)]
           \/ UNCHANGED toClient,
           NEW msgs \in Seq(Messages), Requests(c, msgs),
           \A n \in DOMAIN msgs : msgs[n].type # "Round"
    PROVE  /\ Moves(c) /\ OrderInv'
           /\ \A x, p \in Clients : \A r \in Rounds :
                  p \in Taken(x, r)' =>
                      \/ p \in Taken(x, r)
                      \/ x = c /\ toClient[c] # <<>> /\ ~UNCHANGED toClient
                               /\ Head(toClient[c]) = Msg("Round", p, r)
<1>1. Moves(c)
  BY QuietMoves
<1>2. \A x \in Clients \ {c} : \A r \in Rounds :
          ~Reached(c, r) /\ Reached(c, r)' => Has(msgs, Msg("Round", x, r))
  BY DEF Reached
<1> QED
  BY <1>1, <1>2, FlowClient

\* c begins the next round: its messages go to all the others, and what it has
\* of that round and of later ones is in its buffer.
LEMMA CalmBegins ==
    ASSUME TypeInv, RoundInv, Sound, NoErrors, OrderInv, ExactInv, UNCHANGED job,
           NEW c \in Clients, phase[c] \in {"setup", "running"},
           toClient[c] # <<>>, toClient' = [toClient EXCEPT ![c] = Tail(@)],
           NEW d \in Rounds, Follows(round[c], d), Dispatch(c, d),
           \A x \in Clients \ {c} : buffer'[x] = buffer[x],
           \A s \in Rounds : Upto(d, s) /\ s.driver = d.driver =>
               buffer'[c][s.number] =
                   IF d.driver = round[c].driver THEN buffer[c][s.number] ELSE 0,
           \A p \in Clients : \A s \in Rounds :
               Head(toClient[c]) = Msg("Round", p, s) => ~Upto(d, s)
    PROVE  NoErrors' /\ OrderInv' /\ ExactInv'
<1> DEFINE to == receivers(c, d)
           msgs == [i \in DOMAIN to |-> Msg("Round", to[i], d)]
<1>0. /\ to \in Seq(Clients) /\ c \in Keys /\ Clients \subseteq Keys /\ job \in Jobs
      /\ phase \in [Keys -> Phases] /\ DOMAIN round = Keys
  BY ReceiversFacts, JobFacts, RoundFields DEF TypeInv, ClientsOK
<1>1. /\ \A i \in DOMAIN to : to[i] # c
      /\ \A x \in Clients \ {c} : \E i \in DOMAIN to : to[i] = x
  BY <1>0, ReceiversAll DEF Sound
<1>2. /\ round' = [round EXCEPT ![c] = d]
      /\ Requests(c, msgs)
      /\ phase' = [phase EXCEPT ![c] = "running"]
  BY <1>1 DEF Dispatch
<1> HIDE DEF to
<1>3. msgs \in Seq(Messages) /\ DOMAIN msgs = DOMAIN to
  <2>1. ASSUME NEW i \in DOMAIN to PROVE Msg("Round", to[i], d) \in Messages
    <3>1. to[i] \in Clients
      BY <1>0
    <3> QED
      BY <3>1 DEF Msg, Messages, MessageTypes
  <2> QED
    BY <1>0, <2>1
<1>4. \A n \in DOMAIN msgs : msgs[n].type = "Round" /\ msgs[n].round = d
  BY DEF Msg
<1>5. \A x \in Clients \ {c} : Has(msgs, Msg("Round", x, d))
  BY <1>1, <1>3 DEF Has
<1>6. /\ round'[c] = d /\ phase'[c] = "running"
      /\ \A x \in Clients \ {c} : round'[x] = round[x] /\ phase'[x] = phase[x]
  BY <1>0, <1>2
<1>7. Moves(c)
  BY DispatchMoves
<1>8. ~Reached(c, d)
  BY DEF Reached, Follows
<1>9. ASSUME NEW x \in Clients \ {c}, NEW r \in Rounds, ~Reached(c, r), Reached(c, r)'
      PROVE  Has(msgs, Msg("Round", x, r))
  <2>1. r = d
    BY <1>6, <1>9 DEF Reached, Follows
  <2> HIDE DEF msgs
  <2> QED
    BY <1>5, <2>1
<1> HIDE DEF msgs
<1>10. /\ \A n \in DOMAIN msgs : msgs[n].type = "Round" => ~Reached(c, msgs[n].round)
       /\ \A m, n \in DOMAIN msgs : msgs[m].type = "Round" /\ msgs[n].type = "Round" =>
              msgs[m].round = msgs[n].round
  BY <1>4, <1>8
<1>11. /\ OrderInv'
       /\ \A x, p \in Clients : \A r \in Rounds :
              p \in Taken(x, r)' =>
                  \/ p \in Taken(x, r)
                  \/ x = c /\ toClient[c] # <<>> /\ ~UNCHANGED toClient
                           /\ Head(toClient[c]) = Msg("Round", p, r)
  BY <1>2, <1>3, <1>6, <1>7, <1>9, <1>10, FlowClient
<1>12. ASSUME NEW s \in Rounds, Upto(d, s)
       PROVE  IF s.driver = d.driver
              THEN Cardinality(Taken(c, s)') <= buffer'[c][s.number]
              ELSE Taken(c, s)' = {}
  <2>1. Taken(c, s)' = Taken(c, s)
    BY <1>7, <1>11, <1>12, TakenStays
  <2>2. /\ Upto(round[c], s)
        /\ s.driver # d.driver => s.driver # round[c].driver
    BY <1>12, RoundFields DEF Follows, Upto
  <2>3. IF s.driver = round[c].driver
        THEN Cardinality(Taken(c, s)) <= buffer[c][s.number]
        ELSE Taken(c, s) = {}
    BY <2>2 DEF ExactInv
  <2>4. CASE s.driver # d.driver
    BY <2>1, <2>2, <2>3, <2>4
  <2>5. CASE s.driver = d.driver /\ d.driver = round[c].driver
    BY <1>12, <2>1, <2>3, <2>5
  <2>6. CASE s.driver = d.driver /\ d.driver # round[c].driver
    <3>1. Taken(c, s)' = {} /\ buffer'[c][s.number] = 0
      BY <1>12, <2>1, <2>3, <2>6
    <3> QED
      BY <2>6, <3>1, FS_EmptySet
  <2> QED
    BY <2>4, <2>5, <2>6
<1>13. d.driver > 0
  BY RoundFields
<1>14. \A x \in Clients : phase'[x] # "failed"
  BY <1>6 DEF NoErrors
<1> QED
  BY <1>6, <1>7, <1>11, <1>12, <1>13, <1>14, CalmMove

\* Bridge::handle_event finds a message of its own driver, and the protocol is
\* in the round that is ready.
LEMMA CalmHandles ==
    ASSUME TypeInv, RoundInv, Sound, NoErrors, OrderInv, ExactInv, UNCHANGED job,
           NEW c \in Clients, phase[c] = "running",
           toClient[c] # <<>>, toClient' = [toClient EXCEPT ![c] = Tail(@)],
           NEW p \in Clients, NEW r \in Rounds, Head(toClient[c]) = Msg("Round", p, r),
           HandleEvent(c, r)
    PROVE  NoErrors' /\ OrderInv' /\ ExactInv'
<1> DEFINE messages == buffer[c][r.number] + 1
<1>0. /\ c \in Keys /\ phase \in [Keys -> Phases] /\ Clients \subseteq Keys
      /\ r.number \in 1..MaxRounds
      /\ buffer \in [Keys -> [1..MaxRounds -> 0..(Len(Parties) - 2)]]
      /\ \A s \in Rounds : s.number \in 1..MaxRounds
  BY JobFacts, RoundFields DEF TypeInv, ClientsOK, RoundsOK
<1>1. r.driver = round[c].driver /\ (is_ready(messages) => r = round[c])
  BY RightRound
<1>2. ASSUME NEW k \in Clients, NEW s \in Rounds, Head(toClient[c]) = Msg("Round", k, s)
      PROVE  k = p /\ s = r
  BY <1>2 DEF Msg
<1>3. CASE ~is_ready(messages)
  <2>1. /\ buffer' = [buffer EXCEPT ![c][r.number] = messages]
        /\ UNCHANGED <<toServer, phase, round>>
    BY <1>1, <1>3 DEF HandleEvent
  <2>2. /\ buffer'[c][r.number] = messages
        /\ \A n \in 1..MaxRounds : n # r.number => buffer'[c][n] = buffer[c][n]
        /\ \A x \in Clients \ {c} : buffer'[x] = buffer[x]
    <3> HIDE DEF messages
    <3> QED
      BY <1>0, <2>1
  <2>3. Requests(c, <<>>) /\ <<>> \in Seq(Messages)
        /\ \A n \in DOMAIN <<>> : <<>>[n].type # "Round"
    BY <2>1, NoRequests
  <2>4. /\ Moves(c) /\ OrderInv'
        /\ \A x, k \in Clients : \A s \in Rounds :
               k \in Taken(x, s)' =>
                   \/ k \in Taken(x, s)
                   \/ x = c /\ toClient[c] # <<>> /\ ~UNCHANGED toClient
                            /\ Head(toClient[c]) = Msg("Round", k, s)
    BY <2>1, <2>3, FlowStays
  <2>5. ASSUME NEW s \in Rounds, Upto(round[c], s)
        PROVE  IF s.driver = round[c].driver
               THEN Cardinality(Taken(c, s)') <= buffer'[c][s.number]
               ELSE Taken(c, s)' = {}
    <3>1. IF s.driver = round[c].driver
          THEN Cardinality(Taken(c, s)) <= buffer[c][s.number]
          ELSE Taken(c, s) = {}
      BY <2>5 DEF ExactInv
    <3>2. CASE s # r
      <4>1. Taken(c, s)' = Taken(c, s)
        BY <1>2, <2>4, <3>2, TakenStays
      <4>2. s.driver = round[c].driver => s.number # r.number
        BY <1>1, <3>2, RoundFields
      <4> QED
        BY <1>0, <2>2, <3>1, <4>1, <4>2
    <3>3. CASE s = r
      <4> DEFINE T == Taken(c, r)
                 U == Taken(c, r)'
      <4>1. U \subseteq T \cup {p} /\ T \cup {p} \subseteq Clients
        <5>1. U \subseteq Clients /\ T \subseteq Clients
          BY <2>4, TakenGrows
        <5>2. ASSUME NEW k \in U PROVE k \in T \cup {p}
          BY <1>2, <2>4, <5>1
        <5> QED
          BY <5>1, <5>2
      <4>2. Cardinality(T) <= buffer[c][r.number] /\ buffer[c][r.number] \in Nat
        BY <1>1, <3>1, <3>3, BufferTyped
      <4> HIDE DEF T, U
      <4>3. /\ Cardinality(U) \in Nat /\ Cardinality(T \cup {p}) \in Nat
            /\ Cardinality(U) <= Cardinality(T \cup {p})
        BY <4>1, CountGrows DEF TypeInv
      <4>4. Cardinality(T \cup {p}) <= Cardinality(T) + 1 /\ Cardinality(T) \in Nat
        <5>1. IsFiniteSet(T)
          BY <4>1, ClientsFinite, FS_Subset DEF TypeInv
        <5>2. Cardinality(T) \in Nat
          BY <5>1, FS_CardinalityType
        <5>3. Cardinality(T \cup {p}) = IF p \in T THEN Cardinality(T) ELSE Cardinality(T) + 1
          BY <5>1, FS_AddElement
        <5> QED
          BY <5>2, <5>3
      <4>5. Cardinality(U) <= messages
        BY <4>2, <4>3, <4>4
      <4> QED
        BY <1>1, <2>2, <3>3, <4>5 DEF U
    <3> QED
      BY <3>2, <3>3
  <2>6. /\ \A x \in Clients : phase'[x] # "failed" /\ phase'[x] = phase[x]
        /\ round' = round /\ (phase'[c] = "running" => round'[c].driver > 0)
    BY <2>1 DEF NoErrors, ExactInv
  <2>7. \A x \in Clients \ {c} : \A k \in Clients : \A s \in Rounds :
            k \in Taken(x, s)' => k \in Taken(x, s)
    BY <2>4
  <2> QED
    BY <2>2, <2>4, <2>5, <2>6, <2>7, CalmMove
<1>4. CASE is_ready(messages)
  <2>0. r = round[c] /\ Proceed(c, r)
    BY <1>1, <1>4 DEF HandleEvent
  <2>1. ASSUME buffer' = [buffer EXCEPT ![c][r.number] = 0]
        PROVE  /\ \A x \in Clients \ {c} : buffer'[x] = buffer[x]
               /\ \A n \in 1..MaxRounds : n # r.number => buffer'[c][n] = buffer[c][n]
    BY <1>0, <2>1
  <2>2. ASSUME NEW d \in Rounds, Follows(r, d), NEW k \in Clients, NEW s \in Rounds,
               Head(toClient[c]) = Msg("Round", k, s)
        PROVE  ~Upto(d, s)
    BY <1>2, <2>2 DEF Follows
  <2>3. CASE /\ r.number < Drivers[r.driver]
             /\ buffer' = [buffer EXCEPT ![c][r.number] = 0]
             /\ Dispatch(c, [r EXCEPT !.number = @ + 1])
    <3>1. PICK d \in Rounds : /\ d = [r EXCEPT !.number = @ + 1]
                              /\ d.driver = r.driver /\ Follows(r, d)
      BY <2>3, NextRounds
    <3>2. Dispatch(c, d) /\ Follows(round[c], d) /\ d.driver = round[c].driver
      BY <2>0, <2>3, <3>1
    <3>3. ASSUME NEW s \in Rounds, Upto(d, s), s.driver = d.driver
          PROVE  buffer'[c][s.number] = buffer[c][s.number]
      <4>1. s.number # r.number
        BY <3>1, <3>3, RoundFields DEF Follows, Upto
      <4> QED
        BY <1>0, <2>1, <2>3, <4>1
    <3>4. \A s \in Rounds : Upto(d, s) /\ s.driver = d.driver =>
              buffer'[c][s.number] =
                  IF d.driver = round[c].driver THEN buffer[c][s.number] ELSE 0
      BY <3>2, <3>3
    <3>5. /\ \A x \in Clients \ {c} : buffer'[x] = buffer[x]
          /\ \A k \in Clients : \A s \in Rounds :
                 Head(toClient[c]) = Msg("Round", k, s) => ~Upto(d, s)
      BY <2>1, <2>2, <2>3, <3>1
    <3> QED
      BY <3>2, <3>4, <3>5, CalmBegins
  <2>4. CASE /\ r.number = Drivers[r.driver] /\ r.driver < Len(Drivers)
             /\ StartDriver(c, r.driver + 1)
    <3>1. PICK d \in Rounds : /\ d = [driver |-> r.driver + 1, number |-> 1]
                              /\ Follows(r, d)
      BY <2>4, NextRounds
    <3>2. Dispatch(c, d) /\ Follows(round[c], d) /\ d.driver # round[c].driver
      BY <2>0, <2>4, <3>1, RoundFields DEF StartDriver
    <3>3. /\ \A x \in Clients \ {c} : buffer'[x] = buffer[x]
          /\ \A s \in Rounds : buffer'[c][s.number] = 0
      BY <1>0, <2>4 DEF StartDriver
    <3> QED
      BY <2>2, <3>1, <3>2, <3>3, CalmBegins
  <2>5. CASE /\ r.number = Drivers[r.driver] /\ r.driver = Len(Drivers)
             /\ buffer' = [buffer EXCEPT ![c][r.number] = 0]
             /\ Finish(c) /\ UNCHANGED round
    <3>1. PICK msgs \in Seq(Messages) :
              Requests(c, msgs) /\ \A n \in DOMAIN msgs : msgs[n].type # "Round"
      <4>1. CASE UNCHANGED toServer
        <5>1. Requests(c, <<>>) /\ <<>> \in Seq(Messages)
              /\ \A n \in DOMAIN <<>> : <<>>[n].type # "Round"
          BY <4>1, NoRequests
        <5> QED
          BY <5>1
      <4>2. CASE Requests(c, <<Word("CloseSession")>>)
        <5>1. Word("CloseSession") \in Messages /\ Word("CloseSession").type = "CloseSession"
          BY WordMessage DEF TypeInv, MessageTypes
        <5>2. <<Word("CloseSession")>> \in Seq(Messages)
              /\ \A n \in DOMAIN <<Word("CloseSession")>> :
                     <<Word("CloseSession")>>[n].type # "Round"
          BY <5>1
        <5> QED
          BY <4>2, <5>2
      <4> QED
        BY <2>5, <4>1, <4>2 DEF Finish
    <3>2. /\ phase'[c] \in Over
          /\ \A x \in Clients \ {c} : phase'[x] = phase[x]
      BY <1>0, <2>5 DEF Finish, Over
    <3>3. /\ Moves(c) /\ OrderInv'
          /\ \A x, k \in Clients : \A s \in Rounds :
                 k \in Taken(x, s)' =>
                     \/ k \in Taken(x, s)
                     \/ x = c /\ toClient[c] # <<>> /\ ~UNCHANGED toClient
                              /\ Head(toClient[c]) = Msg("Round", k, s)
      BY <2>5, <3>1, FlowStays
    <3>4. \A x \in Clients \ {c} : \A k \in Clients : \A s \in Rounds :
              k \in Taken(x, s)' => k \in Taken(x, s)
      BY <3>3
    <3>5. /\ \A x \in Clients : phase'[x] # "failed"
          /\ phase'[c] \notin {"setup", "running"}
          /\ \A x \in Clients \ {c} : round'[x] = round[x] /\ buffer'[x] = buffer[x]
      BY <2>1, <2>5, <3>2 DEF Over, NoErrors
    <3> QED
      BY <3>2, <3>3, <3>4, <3>5, CalmMove
  <2> QED
    BY <2>0, <2>3, <2>4, <2>5 DEF Proceed
<1> QED
  BY <1>3, <1>4

LEMMA CalmClient ==
    ASSUME TypeInv, ChannelInv, RoundInv, LobbyInv, EndInv, Sound,
           NoErrors, OrderInv, ExactInv, NEW c \in Keys, Client(c)
    PROVE  NoErrors' /\ OrderInv' /\ ExactInv'
<1>0. UNCHANGED job /\ Clients \subseteq Keys
  BY JobFacts
     DEF Client, OnSessionCreated, OnSessionReady, OnSessionActive, OnInitiator,
         OnResponder, OnRound, OnSessionFinished, OnError, Close, relay, TypeInv
<1>1. ASSUME NEW d \in Clients, NEW msgs \in Seq(Messages),
             \/ /\ toClient[d] # <<>> /\ toClient' = [toClient EXCEPT ![d] = Tail(@)]
                /\ Head(toClient[d]).type # "Round"
             \/ UNCHANGED toClient,
             Requests(d, msgs),
             \A n \in DOMAIN msgs : msgs[n].type \notin {"Round", "CloseSession"},
             UNCHANGED <<round, buffer>>,
             \A x \in Clients : KeepsPhase(x)
      PROVE  NoErrors' /\ OrderInv' /\ ExactInv'
  <2>1. /\ \/ toClient[d] # <<>> /\ toClient' = [toClient EXCEPT ![d] = Tail(@)]
           \/ UNCHANGED toClient
        /\ \A n \in DOMAIN msgs : msgs[n].type # "Round"
    BY <1>1
  <2>2. /\ Moves(d) /\ OrderInv'
        /\ \A x, p \in Clients : \A s \in Rounds :
               p \in Taken(x, s)' =>
                   \/ p \in Taken(x, s)
                   \/ x = d /\ toClient[d] # <<>> /\ ~UNCHANGED toClient
                            /\ Head(toClient[d]) = Msg("Round", p, s)
    BY <1>0, <1>1, <2>1, FlowStays
  <2>3. \A x, p \in Clients : \A s \in Rounds : p \in Taken(x, s)' => p \in Taken(x, s)
    <3>1. \A p, s : Msg("Round", p, s).type = "Round"
      BY DEF Msg
    <3>2. UNCHANGED toClient \/ Head(toClient[d]).type # "Round"
      BY <1>1
    <3> QED
      BY <2>2, <3>1, <3>2
  <2>4. \A s \in Rounds : Taken(d, s)' = Taken(d, s)
    BY <1>0, <2>2, <2>3, TakenStays
  <2>5. \A x \in Clients :
            /\ phase'[x] # "failed"
            /\ phase'[x] \in {"setup", "running"} => phase'[x] = phase[x]
    BY <1>1 DEF KeepsPhase, NoErrors
  <2>6. /\ phase'[d] = "running" => round'[d].driver > 0
        /\ phase'[d] \in {"setup", "running"} =>
               \A s \in Rounds : Upto(round'[d], s) =>
                   IF s.driver = round'[d].driver
                   THEN Cardinality(Taken(d, s)') <= buffer'[d][s.number]
                   ELSE Taken(d, s)' = {}
    BY <1>1, <2>4, <2>5 DEF ExactInv
  <2>7. \A x \in Clients \ {d} : round'[x] = round[x] /\ buffer'[x] = buffer[x]
    BY <1>1
  <2> QED
    BY <1>0, <2>1, <2>2, <2>3, <2>5, <2>6, <2>7, CalmMove
<1>2. ASSUME c \in Clients, OnSessionActive(c)
      PROVE  NoErrors' /\ OrderInv' /\ ExactInv'
  <2>1. /\ toClient[c] # <<>> /\ toClient' = [toClient EXCEPT ![c] = Tail(@)]
        /\ Head(toClient[c]).type = "SessionActive" /\ phase[c] = "setup"
        /\ StartDriver(c, 1)
    BY <1>2 DEF OnSessionActive, Incoming
  <2>2. PICK d \in Rounds : d = [driver |-> 1, number |-> 1] /\ Follows(round[c], d)
    BY <1>2, <2>1, FirstRound
  <2>3. Dispatch(c, d) /\ d.driver # round[c].driver
    BY <1>2, <2>1, <2>2 DEF StartDriver, RoundInv, SetupInv
  <2>4. /\ \A x \in Clients \ {c} : buffer'[x] = buffer[x]
        /\ \A s \in Rounds : buffer'[c][s.number] = 0
    <3>1. /\ buffer \in [Keys -> [1..MaxRounds -> 0..(Len(Parties) - 2)]]
          /\ \A s \in Rounds : s.number \in 1..MaxRounds
      BY RoundFields DEF TypeInv, ClientsOK, RoundsOK
    <3> QED
      BY <1>0, <2>1, <3>1 DEF StartDriver
  <2>5. \A p \in Clients : \A s \in Rounds : Head(toClient[c]) # Msg("Round", p, s)
    BY <2>1 DEF Msg
  <2> QED
    BY <1>0, <1>2, <2>1, <2>2, <2>3, <2>4, <2>5, CalmBegins
<1>3. ASSUME c \in Clients, phase[c] = "running", toClient[c] # <<>>,
             toClient' = [toClient EXCEPT ![c] = Tail(@)],
             NEW p \in Clients, NEW r \in Rounds,
             Head(toClient[c]) = Msg("Round", p, r), HandleEvent(c, r)
      PROVE  NoErrors' /\ OrderInv' /\ ExactInv'
  BY <1>0, <1>3, CalmHandles
<1> QED
  BY <1>1, <1>2, <1>3, ClientForms

LEMMA CalmInit == Init => CalmInv
<1> SUFFICES ASSUME Init PROVE NoErrors /\ OrderInv /\ ExactInv
  BY DEF CalmInv
<1>0. Clients \subseteq Keys
  BY JobFacts DEF Init
<1>1. \A c \in Clients : /\ toServer[c] = <<>> /\ toClient[c] = <<>>
                         /\ phase[c] = "setup" /\ round[c] = NoRound
  BY <1>0 DEF Init
<1>2. \A c \in Clients : \A r \in Rounds : ~Reached(c, r)
  <2>1. \A r \in Rounds : r.driver \in 1..Len(Drivers) /\ Len(Drivers) \in Nat
    BY DriverFacts DEF Rounds, Init
  <2> QED
    BY <1>1, <2>1 DEF Reached, Upto, NoRound
<1>3. \A c \in Clients : \A r \in Rounds : Taken(c, r) = {}
  BY <1>2 DEF Taken
<1>4. \A r \in Rounds : r.driver # 0
  BY DriverFacts DEF Rounds, Init
<1>5. NoErrors
  BY <1>1 DEF NoErrors, Told
<1>6. OrderInv
  BY <1>1, <1>3 DEF OrderInv, Fifo, InOrder, Has
<1>7. ExactInv
  BY <1>1, <1>3, <1>4 DEF ExactInv, NoRound
<1> QED
  BY <1>5, <1>6, <1>7

LEMMA CalmNext ==
    TypeInv /\ ChannelInv /\ RoundInv /\ KeyInv /\ LobbyInv /\ EndInv /\ CalmInv
        /\ [Next]_vars => CalmInv'
<1> SUFFICES ASSUME TypeInv, ChannelInv, RoundInv, KeyInv, LobbyInv, EndInv, CalmInv,
                    [Next]_vars, Sound', ~Closed'
             PROVE  NoErrors' /\ OrderInv' /\ ExactInv'
  BY DEF CalmInv
<1>0. UNCHANGED job
  BY DEF Next, Connect, Handle, NewSession, ReplySessionCreated,
         SessionConnection, PeerHandshake, Touch, RelayRound, CloseSession,
         RemoveSession, ReplySessionFinished, Waiter, Poll, NotifyPeers,
         NotifyPeer, NotifyReturn, Client, OnSessionCreated, OnSessionReady,
         OnSessionActive, OnInitiator, OnResponder, OnRound, OnSessionFinished,
         OnError, Close, vars, relay, clients
<1>1. Sound /\ ~Closed
  <2>1. ~Closed
    BY ClosedStays
  <2>2. Sound
    BY <1>0, SameTypes DEF Sound, InKeyOrder
  <2> QED
    BY <2>1, <2>2
<1>2. NoErrors /\ OrderInv /\ ExactInv
  BY <1>1 DEF CalmInv
<1>3. CASE UNCHANGED vars
  <2>1. UNCHANGED <<toServer, toClient, clients>>
    BY <1>3 DEF vars
  <2>2. UNCHANGED <<job, phase, round, buffer>>
    BY <2>1 DEF clients
  <2>3. /\ \A c \in Clients : ~Told(c, "Error")'
        /\ \A p, b \in Clients :
               /\ \A r \in Rounds : OnWay("Round", r, p, b)' <=> OnWay("Round", r, p, b)
               /\ \A s, r \in Rounds : s # r /\ Fifo(p, b, s, r) => Fifo(p, b, s, r)'
    BY <1>2, <2>1 DEF NoErrors, Told, OnWay, Fifo, InOrder, Has
  <2> QED
    BY <1>2, <2>2, <2>3, CalmRelay
<1>4. ASSUME NEW c \in Keys, Handle(c) PROVE NoErrors' /\ OrderInv' /\ ExactInv'
  BY <1>1, <1>2, <1>4, CalmHandler
<1>5. ASSUME NEW c \in Keys, Client(c) PROVE NoErrors' /\ OrderInv' /\ ExactInv'
  BY <1>1, <1>2, <1>5, CalmClient
<1>6. CASE (\E c \in Keys : Connect(c)) \/ Waiter
  BY <1>2, <1>6, CalmQuietly
<1> QED
  BY <1>3, <1>4, <1>5, <1>6 DEF Next

\* In a key generation of any size, and in a signature of two, no client gives
\* up before the owner has closed the session: nothing is refused, no
\* handshakes cross, and each message finds its recipient in its driver.  More
\* than two signers are left out: one that has all it needs of a driver goes on
\* to the next and speaks to others that are still in the one before.
THEOREM NobodyFails ==
    Spec => []((job.op = "keygen" \/ Len(Parties) = 2) => NobodyFailsBeforeClose)
<1> DEFINE Inv == /\ TypeInv /\ ChannelInv /\ RoundInv /\ KeyInv
                  /\ LobbyInv /\ EndInv /\ CalmInv
           Goal == (job.op = "keygen" \/ Len(Parties) = 2) => NobodyFailsBeforeClose
<1>1. Inv => Goal
  <2> SUFFICES ASSUME Inv, job.op = "keygen" \/ Len(Parties) = 2, InKeyOrder,
                      NEW c \in Clients, phase[c] = "failed"
               PROVE  phase[Owner] \in {"closing", "leaving", "done", "failed"} /\ session = {}
    BY DEF NobodyFailsBeforeClose
  <2>1. Closed
    BY DEF CalmInv, Sound, NoErrors
  <2> QED
    BY <2>1 DEF Closed, EndInv, ClosingInv, Ended, Over
<1>2. Init => Inv
  BY TypeInit, ChannelInit, RoundInit, KeyInit, LobbyInit, EndInit, CalmInit
<1>3. Inv /\ [Next]_vars => Inv'
  <2> SUFFICES ASSUME Inv, [Next]_vars PROVE Inv'
    OBVIOUS
  <2>1. TypeInv' /\ ChannelInv' /\ RoundInv' /\ KeyInv' /\ LobbyInv'
    BY TypeNext, ChannelNext, RoundNext, KeyNext, LobbyNext
  <2>2. EndInv' /\ CalmInv'
    BY EndNext, CalmNext
  <2> QED
    BY <2>1, <2>2
<1> HIDE DEF Inv, Goal
<1>4. Spec => []Goal
  BY <1>1, <1>2, <1>3, PTL DEF Spec
<1> QED
  BY <1>4 DEF Goal

=============================================================================
