------------------------------ MODULE Sessions ------------------------------
(***************************************************************************)
(* The life of a session on the relay (server/src/service.rs and the       *)
(* reaper of server/src/server.rs): NewSession, SessionConnection, the     *)
(* last-access stamp of PeerMessage, CloseSession, purge_expired, and the  *)
(* two background tasks wait_for_session_ready and wait_for_session_active *)
(* that poll the shared state and notify the participants.                 *)
(*                                                                         *)
(* Shared state sits behind one tokio RwLock.  A section under             *)
(* state.write() is one step, and so is a short section under              *)
(* state.read(); notify_peers keeps its read guard while it sends to one   *)
(* participant after the other, so `readers` holds back every writer       *)
(* meanwhile.                                                              *)
(*                                                                         *)
(* Time.  Stamps are kept as ages that stop growing once they have         *)
(* expired, so the clock needs no bound.  A poll or a purge may come at    *)
(* any time: every phase and every length of the two intervals.            *)
(*                                                                         *)
(* Requests that fail only send an error back to the caller; they change   *)
(* none of this state and are stuttering steps here.                       *)
(***************************************************************************)
EXTENDS Protocol, FiniteSets

CONSTANTS
    Keys,           \* public keys of clients
    Sids,           \* session identifiers (Uuid::new_v4)
    Requests,       \* the (sender, participant_keys) pairs of NewSession
    Registrations,  \* the (sender, peer_key) pairs of SessionConnection
    Timeout,        \* SessionConfig::timeout
    WaitTimeout,    \* SessionConfig::wait_timeout
    DeadPeers       \* may an active connection have a closed channel?

ASSUME ConfigAssumption ==
    /\ Timeout \in Nat
    /\ WaitTimeout \in Nat
    /\ DeadPeers \in BOOLEAN

ASSUME InputAssumption ==
    /\ Requests \subseteq Keys \X Seq(Keys)
    /\ Registrations \subseteq Keys \X Keys

VARIABLES
    active,     \* ServerState::active: the keys that have an entry
    dead,       \* the entries whose outgoing channel has no receiver
    sessions,   \* SessionManager::sessions
    waiter,     \* the background task of each session
    handler,    \* what the listen task of each client still has to do
    sent        \* the notifications queued so far, <<message, session, key>>

vars == <<active, dead, sessions, waiter, handler, sent>>

Messages == {"SessionCreated", "SessionReady", "SessionActive",
             "SessionTimeout", "SessionFinished"}

SessionType ==
    [owner_key        : Keys,
     participant_keys : SUBSET Keys,
     connections      : SUBSET (Keys \X Keys),
     idle             : 0..(Timeout + 1)]

(***************************************************************************)
(* pc of a waiter: "unborn" (no session yet), "poll" (awaits the interval),*)
(* "late" (polled in vain, looks at start_time.elapsed()), "found" (has    *)
(* something to tell, awaits state.read()), "notify" (inside notify_peers, *)
(* holding the read guard), "done".                                        *)
(***************************************************************************)
Vectors == Seq(Keys)

Positions == Nat \ {0}

WaiterType ==
    [pc      : {"unborn", "poll", "late", "found", "notify", "done"},
     stage   : {"ready", "active"},
     msg     : {"SessionReady", "SessionActive", "SessionTimeout"},
     all     : Vectors,
     next    : Positions,
     elapsed : 0..(WaitTimeout + 1)]

HandlerType == SUBSET [op : {"created", "closing", "finished"}, sid : Sids]

readers == {s \in Sids : waiter[s].pc = "notify"}

-----------------------------------------------------------------------------

Unborn == [pc |-> "unborn", stage |-> "ready", msg |-> "SessionReady",
           all |-> <<>>, next |-> 1, elapsed |-> 0]

Init ==
    /\ active = {}
    /\ dead = {}
    /\ sessions = [s \in {} |-> {}]
    /\ waiter = [s \in Sids |-> Unborn]
    /\ handler = [k \in Keys |-> {}]
    /\ sent = {}

-----------------------------------------------------------------------------
(* ServerState::active changes under state.write(): promote_connection     *)
(* and disconnect.                                                         *)

\* A slip: the new connection is stored without state.write().
PromoteConnectionNoLock(k) ==
    /\ active' = active \cup {k}
    /\ dead' = dead \ {k}
    /\ UNCHANGED <<sessions, waiter, handler, sent>>

PromoteConnection(k) ==
    /\ readers = {}
    /\ active' = active \cup {k}
    /\ dead' \in {dead \ {k}} \cup (IF DeadPeers THEN {dead \cup {k}} ELSE {})
    /\ UNCHANGED <<sessions, waiter, handler, sent>>

Disconnect(k) ==
    /\ readers = {}
    /\ active' = active \ {k}
    /\ dead' = dead \ {k}
    /\ UNCHANGED <<sessions, waiter, handler, sent>>

-----------------------------------------------------------------------------
(* Requests.  The listen task of a connection handles one at a time, and   *)
(* looks its own key up in `active` first.  A client whose channel is dead *)
(* never got the handshake reply, so it cannot send an encrypted request.  *)

Idle(k) == k \in active \ dead /\ handler[k] = {}

\* A reply to the caller's own connection.  It is queued unless the channel
\* is gone, which an entry in `active` may already show.
Reply(k, msg, s) ==
    \/ sent' = sent \cup {<<msg, s, k>>}
    \/ k \notin active \ dead /\ sent' = sent

\* A slip: the owner is not put in front of the keys the tasks wait for.
NewSessionWithoutOwner(k, s, participant_keys) ==
    /\ Idle(k)
    /\ readers = {}
    /\ waiter[s].pc = "unborn"
    /\ sessions' = [x \in DOMAIN sessions \cup {s} |->
           IF x = s
           THEN Session(k, {participant_keys[i] : i \in DOMAIN participant_keys})
           ELSE sessions[x]]
    /\ waiter' = [waiter EXCEPT ![s] =
           [Unborn EXCEPT !.pc = "poll", !.all = participant_keys]]
    /\ handler' = [handler EXCEPT ![k] = {[op |-> "created", sid |-> s]}]
    /\ UNCHANGED <<active, dead, sent>>

NewSession(k, s, participant_keys) ==
    /\ Idle(k)
    /\ readers = {}
    /\ waiter[s].pc = "unborn"
    /\ sessions' = [x \in DOMAIN sessions \cup {s} |->
           IF x = s
           THEN Session(k, {participant_keys[i] : i \in DOMAIN participant_keys})
           ELSE sessions[x]]
    /\ waiter' = [waiter EXCEPT ![s] =
           [Unborn EXCEPT !.pc = "poll", !.all = <<k>> \o participant_keys]]
    /\ handler' = [handler EXCEPT ![k] = {[op |-> "created", sid |-> s]}]
    /\ UNCHANGED <<active, dead, sent>>

\* The waiter is already running when the reply is sent.
SessionCreated(k, s) ==
    /\ handler[k] = {[op |-> "created", sid |-> s]}
    /\ Reply(k, "SessionCreated", s)
    /\ handler' = [handler EXCEPT ![k] = {}]
    /\ UNCHANGED <<active, dead, sessions, waiter>>

\* The session is not touched, and any client may register any pair that
\* starts with its own key.
SessionConnection(k, s, peer) ==
    /\ Idle(k)
    /\ readers = {}
    /\ <<k, peer>> \in Registrations
    /\ s \in DOMAIN sessions
    /\ sessions' = [sessions EXCEPT ![s] = register_connection(@, k, peer)]
    /\ UNCHANGED <<active, dead, waiter, handler, sent>>

\* PeerMessage with a session identifier, up to the end of its section under
\* state.write().  Only the target has to be a participant, and the stamp
\* is renewed even if it is not.
TouchSession(s) ==
    /\ readers = {}
    /\ s \in DOMAIN sessions
    /\ sessions' = [sessions EXCEPT ![s] = touch(@)]
    /\ UNCHANGED <<active, dead, waiter, handler, sent>>

\* A slip: the owner is not compared with the caller.
CloseSessionByAnyone(k, s) ==
    /\ Idle(k)
    /\ s \in DOMAIN sessions
    /\ handler' = [handler EXCEPT ![k] = {[op |-> "closing", sid |-> s]}]
    /\ UNCHANGED <<active, dead, sessions, waiter, sent>>

\* CloseSession checks under state.read(), lets go of the lock ...
CloseSession(k, s) ==
    /\ Idle(k)
    /\ s \in DOMAIN sessions
    /\ sessions[s].owner_key = k
    /\ handler' = [handler EXCEPT ![k] = {[op |-> "closing", sid |-> s]}]
    /\ UNCHANGED <<active, dead, sessions, waiter, sent>>

\* A slip: the session is not removed.
RemoveSessionLater(k, s) ==
    /\ handler[k] = {[op |-> "closing", sid |-> s]}
    /\ readers = {}
    /\ handler' = [handler EXCEPT ![k] = {[op |-> "finished", sid |-> s]}]
    /\ UNCHANGED <<active, dead, sessions, waiter, sent>>

\* ... removes the session under state.write(), if it is still there ...
RemoveSession(k, s) ==
    /\ handler[k] = {[op |-> "closing", sid |-> s]}
    /\ readers = {}
    /\ sessions' = [x \in DOMAIN sessions \ {s} |-> sessions[x]]
    /\ handler' = [handler EXCEPT ![k] = {[op |-> "finished", sid |-> s]}]
    /\ UNCHANGED <<active, dead, waiter, sent>>

\* ... and replies.
SessionFinished(k, s) ==
    /\ handler[k] = {[op |-> "finished", sid |-> s]}
    /\ Reply(k, "SessionFinished", s)
    /\ handler' = [handler EXCEPT ![k] = {}]
    /\ UNCHANGED <<active, dead, sessions, waiter>>

-----------------------------------------------------------------------------
(* wait_for_session_ready and wait_for_session_active                      *)

\* wait_for_session_ready does not ask whether the session still exists.
PollReady(s) ==
    /\ waiter[s].pc = "poll" /\ waiter[s].stage = "ready"
    /\ waiter' = [waiter EXCEPT ![s] =
           IF \A i \in DOMAIN @.all : @.all[i] \in active
           THEN [@ EXCEPT !.pc = "found", !.msg = "SessionReady"]
           ELSE [@ EXCEPT !.pc = "late"]]
    /\ UNCHANGED <<active, dead, sessions, handler, sent>>

\* wait_for_session_active ends without a word when the session is gone.
PollActive(s) ==
    /\ waiter[s].pc = "poll" /\ waiter[s].stage = "active"
    /\ waiter' = [waiter EXCEPT ![s] =
           IF s \notin DOMAIN sessions
           THEN [@ EXCEPT !.pc = "done"]
           ELSE IF is_active(sessions[s])
                THEN [@ EXCEPT !.pc = "found", !.msg = "SessionActive"]
                ELSE [@ EXCEPT !.pc = "late"]]
    /\ UNCHANGED <<active, dead, sessions, handler, sent>>

\* A slip: a task that has timed out keeps on polling.
CheckElapsedAndGoOn(s) ==
    /\ waiter[s].pc = "late"
    /\ waiter' = [waiter EXCEPT ![s].pc = "poll"]
    /\ UNCHANGED <<active, dead, sessions, handler, sent>>

\* start_time.elapsed() > wait_timeout, read after the lock is released.
CheckElapsed(s) ==
    /\ waiter[s].pc = "late"
    /\ waiter' = [waiter EXCEPT ![s] =
           IF @.elapsed > WaitTimeout
           THEN [@ EXCEPT !.pc = "found", !.msg = "SessionTimeout"]
           ELSE [@ EXCEPT !.pc = "poll"]]
    /\ UNCHANGED <<active, dead, sessions, handler, sent>>

\* notify_peers: the read guard is taken again, so what the poll saw may be
\* out of date.
NotifyPeers(s) ==
    /\ waiter[s].pc = "found"
    /\ waiter' = [waiter EXCEPT ![s].pc = "notify", ![s].next = 1]
    /\ UNCHANGED <<active, dead, sessions, handler, sent>>

\* conn.write() and room in the outgoing channel of a participant that has an
\* entry: the task has to wait for both, and may wait for ever (Connections).
WaitsForRoom(s) ==
    /\ waiter[s].pc = "notify"
    /\ waiter[s].next <= Len(waiter[s].all)
    /\ waiter[s].all[waiter[s].next] \in active \ dead

\* One iteration of its loop, when the wait is over; a participant without an
\* entry is skipped.
NotifyPeer(s) ==
    /\ waiter[s].pc = "notify"
    /\ waiter[s].next <= Len(waiter[s].all)
    /\ LET key == waiter[s].all[waiter[s].next]
       IN /\ key \notin dead
          /\ sent' = IF key \in active
                     THEN sent \cup {<<waiter[s].msg, s, key>>}
                     ELSE sent
    /\ waiter' = [waiter EXCEPT ![s].next = @ + 1]
    /\ UNCHANGED <<active, dead, sessions, handler>>

\* A slip: the task of a session that timed out starts over.
NextStageStartOver(w) ==
    IF w.msg = "SessionReady"
    THEN [w EXCEPT !.pc = "poll", !.stage = "active", !.elapsed = 0]
    ELSE [w EXCEPT !.pc = "poll", !.stage = "ready", !.elapsed = 0]

\* What follows notify_peers, an error included: SessionReady starts the
\* next task with a clock of its own, anything else ends the task.
NextStage(w) ==
    IF w.msg = "SessionReady"
    THEN [w EXCEPT !.pc = "poll", !.stage = "active", !.elapsed = 0]
    ELSE [w EXCEPT !.pc = "done"]

\* A slip: a participant without an entry ends the loop too.
NotifyReturnAtAbsent(s) ==
    /\ waiter[s].pc = "notify"
    /\ waiter[s].next <= Len(waiter[s].all) =>
           waiter[s].all[waiter[s].next] \notin active \ dead
    /\ waiter' = [waiter EXCEPT ![s] = NextStage(@)]
    /\ UNCHANGED <<active, dead, sessions, handler, sent>>

\* The loop is over, or send_message(..).await? left it at a closed channel.
NotifyReturn(s) ==
    /\ waiter[s].pc = "notify"
    /\ waiter[s].next <= Len(waiter[s].all) =>
           waiter[s].all[waiter[s].next] \in dead
    /\ waiter' = [waiter EXCEPT ![s] = NextStage(@)]
    /\ UNCHANGED <<active, dead, sessions, handler, sent>>

WaiterStep(s) ==
    \/ PollReady(s)
    \/ PollActive(s)
    \/ CheckElapsed(s)
    \/ NotifyPeers(s)
    \/ NotifyPeer(s)
    \/ NotifyReturn(s)

-----------------------------------------------------------------------------

\* A slip in the reaper: sessions whose peers are all connected are spared.
PurgeExpiredInactive ==
    /\ readers = {}
    /\ sessions' = [x \in {s \in DOMAIN sessions :
                           is_active(sessions[s]) \/ ~expired(sessions[s], Timeout)}
                    |-> sessions[x]]
    /\ UNCHANGED <<active, dead, waiter, handler, sent>>

PurgeExpired ==
    /\ readers = {}
    /\ sessions' = [x \in {s \in DOMAIN sessions :
                           ~expired(sessions[s], Timeout)} |-> sessions[x]]
    /\ UNCHANGED <<active, dead, waiter, handler, sent>>

\* Time passes for the stored sessions and for the waiting tasks.
Tick ==
    /\ sessions' = [s \in DOMAIN sessions |-> age(sessions[s], Timeout)]
    /\ waiter' = [s \in Sids |->
           IF waiter[s].pc \in {"unborn", "done"} \/ waiter[s].elapsed > WaitTimeout
           THEN waiter[s]
           ELSE [waiter[s] EXCEPT !.elapsed = @ + 1]]
    /\ UNCHANGED <<active, dead, handler, sent>>

Request(k) ==
    \E s \in Sids :
        \/ \E request \in Requests :
               request[1] = k /\ NewSession(k, s, request[2])
        \/ SessionCreated(k, s)
        \/ \E peer \in Keys : SessionConnection(k, s, peer)
        \/ CloseSession(k, s)
        \/ RemoveSession(k, s)
        \/ SessionFinished(k, s)

Next ==
    \/ \E k \in Keys : PromoteConnection(k)
    \/ \E k \in Keys : Disconnect(k)
    \/ \E k \in Keys : Request(k)
    \/ \E s \in Sids : TouchSession(s)
    \/ \E s \in Sids : WaiterStep(s)
    \/ PurgeExpired
    \/ Tick

Spec == Init /\ [][Next]_vars

\* tokio polls every task that can run and time goes on; what clients do is
\* up to them, and so is when there is room in the channel of one of them: a
\* task that waits for room need not go on.
Fairness ==
    /\ \A s \in Sids : WF_vars(WaiterStep(s) /\ ~WaitsForRoom(s))
    /\ WF_vars(PurgeExpired)
    /\ WF_vars(Tick)

FairSpec == Spec /\ Fairness

-----------------------------------------------------------------------------

Participants(s) == {waiter[s].all[i] : i \in DOMAIN waiter[s].all}

Typed ==
    /\ active \subseteq Keys
    /\ dead \subseteq active
    /\ DOMAIN sessions \subseteq Sids
    /\ sessions \in [DOMAIN sessions -> SessionType]
    /\ waiter \in [Sids -> WaiterType]
    /\ handler \in [Keys -> HandlerType]
    /\ sent \subseteq Messages \X Sids \X Keys

\* The variables have their types, and the background task of a stored
\* session waits for the members of that session and nobody else: the relay
\* keeps them twice, as a set in the session and as a vector in the task.
TypeOK ==
    /\ Typed
    /\ \A s \in DOMAIN sessions : public_keys(sessions[s]) = Participants(s)

Told(msg, s) == \E k \in Keys : <<msg, s, k>> \in sent

\* wait_for_session_active: once anyone has been told that a session is
\* active, and as long as the session exists, every two participants have
\* registered their connection.  The poll and the notification are separate
\* steps, so this needs registrations that are never taken back and
\* identifiers that are never used again.
ActiveMeansConnected ==
    \A s \in DOMAIN sessions :
        Told("SessionActive", s) =>
            \A j, k \in public_keys(sessions[s]) :
                j # k => \/ <<j, k>> \in sessions[s].connections
                         \/ <<k, j>> \in sessions[s].connections

\* No session is announced as active to one participant and as timed out to
\* another: the waiting task takes one decision and keeps to it, across the
\* two tasks and whatever happens to the session in between.
OneVerdict ==
    \A s \in Sids : ~(Told("SessionActive", s) /\ Told("SessionTimeout", s))

\* notify_peers runs under one read guard: every participant the loop has
\* passed and that is connected has the message.  A client that comes or
\* goes during the loop would break it.
NotifiedSoFar ==
    \A s \in readers : \A i \in 1..(waiter[s].next - 1) :
        waiter[s].all[i] \in active =>
            <<waiter[s].msg, s, waiter[s].all[i]>> \in sent

\* CloseSession: the reply SessionFinished goes to the owner only, and from
\* then on the session is gone for good, also when the purge removed it
\* between the owner check and the removal.
FinishedMeansGone ==
    \A s \in Sids : \A k \in Keys :
        <<"SessionFinished", s, k>> \in sent =>
            s \notin DOMAIN sessions /\ k = waiter[s].all[1]

\* A participant never hears SessionReady of a session after SessionActive
\* or SessionTimeout of it: the driver would dial its peers again.
ReadyComesFirst ==
    [][\A s \in Sids, k \in Keys :
          <<"SessionReady", s, k>> \in sent' \ sent =>
              ~Told("SessionActive", s) /\ ~Told("SessionTimeout", s)]_vars

\* A notification never gets past one participant.
Stuck == \E s \in Sids : <>[]WaitsForRoom(s)

\* wait_for_session_ready and wait_for_session_active: the background tasks
\* of a session end, whoever connects, registers, closes or leaves; the one
\* thing that can hold them for ever is notify_peers waiting for room in the
\* channel of a participant that has an entry.
WaitersEnd ==
    ~Stuck => \A s \in Sids : waiter[s].pc # "unborn" ~> waiter[s].pc = "done"

\* purge_expired: a session that is kept for ever is used again and again,
\* unless notify_peers keeps its guard on the state for ever.
UnusedSessionsGoAway ==
    ~Stuck => \A s \in Sids :
        <>[](s \in DOMAIN sessions) =>
            []<>(s \in DOMAIN sessions /\ sessions[s].idle = 0)

\* ServerMessage::SessionTimeout is documented as "Notification dispatched
\* to all participants in a session when the participants did not all
\* connect within the expected timeframe": a session that was not closed by
\* its owner ends its waiting with SessionActive or SessionTimeout.
VerdictIsGiven ==
    \A s \in Sids :
        waiter[s].pc = "done" =>
            \/ waiter[s].msg \in {"SessionActive", "SessionTimeout"}
            \/ Told("SessionFinished", s)
            \/ [op |-> "finished", sid |-> s] \in handler[waiter[s].all[1]]
            \/ waiter[s].all[1] \notin active \ dead

\* ServerMessage::SessionReady, SessionActive and SessionTimeout are documented
\* as "Notification dispatched to all participants in a session": when
\* notify_peers returns, every participant with a working connection has the
\* message.
EveryoneIsNotified ==
    [][\A s \in Sids :
          waiter[s].pc = "notify" /\ waiter'[s].pc # "notify" =>
              \A i \in DOMAIN waiter[s].all :
                  waiter[s].all[i] \in active \ dead =>
                      <<waiter[s].msg, s, waiter[s].all[i]>> \in sent]_vars

\* What notify_peers keeps of EveryoneIsNotified, which it breaks: it leaves
\* its loop at a participant whose channel is closed, and nothing else makes
\* it miss anyone.  When it returns, a participant with a working connection
\* has the message unless a dead one comes before it.
OnlyTheDeadCutOff ==
    [][\A s \in Sids :
          waiter[s].pc = "notify" /\ waiter'[s].pc # "notify" =>
              \A i \in DOMAIN waiter[s].all :
                  waiter[s].all[i] \in active \ dead =>
                      \/ <<waiter[s].msg, s, waiter[s].all[i]>> \in sent
                      \/ \E j \in 1..(i - 1) : waiter[s].all[j] \in dead]_vars

=============================================================================
