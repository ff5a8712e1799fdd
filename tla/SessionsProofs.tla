--------------------------- MODULE SessionsProofs ---------------------------
(***************************************************************************)
(* Proofs about Sessions, for every set of clients, every number of        *)
(* sessions and every timeout.                                             *)
(***************************************************************************)
EXTENDS Sessions, TLAPS

-----------------------------------------------------------------------------
(* Type correctness                                                        *)

LEMMA UnbornType == Unborn \in WaiterType
  BY ConfigAssumption DEF Unborn, WaiterType, Vectors, Positions

LEMMA RequestTypes ==
    ASSUME NEW r \in Requests
    PROVE  r[1] \in Keys /\ r[2] \in Vectors
  BY InputAssumption DEF Vectors

LEMMA TypeInit == Init => Typed
  BY UnbornType DEF Init, Typed, HandlerType

LEMMA TypeNewSession ==
    ASSUME Typed, NEW k \in Keys, NEW s \in Sids,
           NEW keys \in Vectors, NewSession(k, s, keys)
    PROVE  Typed'
<1> DEFINE new == Session(k, {keys[i] : i \in DOMAIN keys})
<1>1. new \in SessionType
  BY ConfigAssumption DEF Session, SessionType, Vectors
<1>2. /\ DOMAIN sessions' = DOMAIN sessions \cup {s}
      /\ \A x \in DOMAIN sessions' :
             sessions'[x] = IF x = s THEN new ELSE sessions[x]
      /\ sessions' \in [DOMAIN sessions \cup {s} -> SessionType]
  BY <1>1 DEF NewSession, Typed
<1>3. waiter' \in [Sids -> WaiterType]
  <2>1. <<k>> \o keys \in Vectors
    BY DEF Vectors
  <2>2. [Unborn EXCEPT !.pc = "poll", !.all = <<k>> \o keys] \in WaiterType
    BY <2>1, UnbornType DEF WaiterType
  <2> QED
    BY <2>2 DEF NewSession, Typed
<1>4. handler' \in [Keys -> HandlerType]
  BY DEF NewSession, Typed, HandlerType
<1> QED
  BY <1>2, <1>3, <1>4 DEF NewSession, Typed

LEMMA TypeRequest ==
    ASSUME Typed, NEW k \in Keys, NEW s \in Sids,
           \/ SessionCreated(k, s)
           \/ CloseSession(k, s)
           \/ RemoveSession(k, s)
           \/ SessionFinished(k, s)
    PROVE  Typed'
<1>1. CASE SessionCreated(k, s)
  BY <1>1 DEF SessionCreated, Reply, Typed, HandlerType, Messages
<1>2. CASE CloseSession(k, s)
  BY <1>2 DEF CloseSession, Typed, HandlerType
<1>3. CASE RemoveSession(k, s)
  BY <1>3 DEF RemoveSession, Typed, HandlerType
<1>4. CASE SessionFinished(k, s)
  BY <1>4 DEF SessionFinished, Reply, Typed, HandlerType, Messages
<1> QED
  BY <1>1, <1>2, <1>3, <1>4

LEMMA TypeStore ==
    ASSUME Typed,
           \/ \E k, peer \in Keys, s \in Sids : SessionConnection(k, s, peer)
           \/ \E s \in Sids : TouchSession(s)
           \/ PurgeExpired
    PROVE  Typed'
<1>1. ASSUME NEW k \in Keys, NEW peer \in Keys, NEW s \in Sids,
             SessionConnection(k, s, peer)
      PROVE  Typed'
  <2>1. register_connection(sessions[s], k, peer) \in SessionType
    <3>1. sessions[s] \in SessionType
      BY <1>1 DEF SessionConnection, Typed
    <3>2. sessions[s].connections \cup {<<k, peer>>} \in SUBSET (Keys \X Keys)
      BY <3>1 DEF SessionType
    <3> QED
      BY <3>1, <3>2 DEF register_connection, SessionType
  <2> QED
    BY <1>1, <2>1 DEF SessionConnection, Typed
<1>2. ASSUME NEW s \in Sids, TouchSession(s)
      PROVE  Typed'
  BY <1>2, ConfigAssumption DEF TouchSession, touch, Typed, SessionType
<1>3. CASE PurgeExpired
  BY <1>3 DEF PurgeExpired, Typed
<1> QED
  BY <1>1, <1>2, <1>3

LEMMA TypeWaiter ==
    ASSUME Typed, NEW s \in Sids, WaiterStep(s)
    PROVE  Typed'
<1>0. waiter[s] \in WaiterType
  BY DEF Typed
<1>1. CASE PollReady(s)
  BY <1>0, <1>1 DEF PollReady, Typed, WaiterType
<1>2. CASE PollActive(s)
  BY <1>0, <1>2 DEF PollActive, Typed, WaiterType
<1>3. CASE CheckElapsed(s)
  BY <1>0, <1>3 DEF CheckElapsed, Typed, WaiterType
<1>4. CASE NotifyPeers(s)
  <2>1. [waiter[s] EXCEPT !.pc = "notify", !.next = 1] \in WaiterType
    <3>1. 1 \in Positions
      BY DEF Positions
    <3> QED
      BY <1>0, <3>1 DEF WaiterType
  <2>2. waiter' \in [Sids -> WaiterType]
    BY <1>4, <2>1 DEF NotifyPeers, Typed
  <2> QED
    BY <1>4, <2>2 DEF NotifyPeers, Typed
<1>5. CASE NotifyPeer(s)
  <2>1. waiter' \in [Sids -> WaiterType]
    <3>1. waiter[s].next + 1 \in Positions
      BY <1>0 DEF WaiterType, Positions
    <3>2. [waiter[s] EXCEPT !.next = @ + 1] \in WaiterType
      BY <1>0, <3>1 DEF WaiterType
    <3> QED
      BY <1>5, <3>2 DEF NotifyPeer, Typed
  <2>2. /\ waiter[s].all[waiter[s].next] \in Keys
        /\ waiter[s].msg \in Messages
    BY <1>0, <1>5
       DEF NotifyPeer, WaiterType, Messages, Vectors, Positions
  <2>3. sent' \subseteq sent \cup
                 {<<waiter[s].msg, s, waiter[s].all[waiter[s].next]>>}
    BY <1>5 DEF NotifyPeer
  <2> QED
    BY <1>5, <2>1, <2>2, <2>3 DEF NotifyPeer, Typed
<1>6. CASE NotifyReturn(s)
  <2>1. [waiter[s] EXCEPT !.pc = "poll", !.stage = "active", !.elapsed = 0]
            \in WaiterType
    <3>1. 0 \in 0..(WaitTimeout + 1)
      BY ConfigAssumption
    <3> QED
      BY <1>0, <3>1 DEF WaiterType
  <2>2. [waiter[s] EXCEPT !.pc = "done"] \in WaiterType
    BY <1>0 DEF WaiterType
  <2>3. NextStage(waiter[s]) \in WaiterType
    BY <2>1, <2>2 DEF NextStage
  <2> QED
    BY <1>6, <2>3 DEF NotifyReturn, Typed
<1> QED
  BY <1>1, <1>2, <1>3, <1>4, <1>5, <1>6 DEF WaiterStep

LEMMA TypeTick == ASSUME Typed, Tick PROVE Typed'
<1>1. \A x \in DOMAIN sessions : age(sessions[x], Timeout) \in SessionType
  BY ConfigAssumption DEF Typed, SessionType, age, expired
<1>2. \A x \in Sids : waiter'[x] \in WaiterType
  <2> SUFFICES ASSUME NEW x \in Sids PROVE waiter'[x] \in WaiterType
    OBVIOUS
  <2>1. waiter[x] \in WaiterType
    BY DEF Typed
  <2>2. ASSUME ~(waiter[x].elapsed > WaitTimeout)
        PROVE  [waiter[x] EXCEPT !.elapsed = @ + 1] \in WaiterType
    BY <2>1, <2>2, ConfigAssumption DEF WaiterType
  <2> QED
    BY <2>1, <2>2 DEF Tick
<1> QED
  BY <1>1, <1>2 DEF Tick, Typed

LEMMA TypeNext == Typed /\ [Next]_vars => Typed'
<1> SUFFICES ASSUME Typed, [Next]_vars PROVE Typed'
  OBVIOUS
<1>1. ASSUME NEW k \in Keys, PromoteConnection(k) PROVE Typed'
  BY <1>1 DEF PromoteConnection, Typed
<1>2. ASSUME NEW k \in Keys, Disconnect(k) PROVE Typed'
  BY <1>2 DEF Disconnect, Typed
<1>3. ASSUME NEW k \in Keys, Request(k) PROVE Typed'
  BY <1>3, RequestTypes, TypeNewSession, TypeRequest, TypeStore DEF Request
<1>4. CASE UNCHANGED vars
  BY <1>4 DEF vars, Typed
<1> QED
  BY <1>1, <1>2, <1>3, <1>4, TypeStore, TypeWaiter, TypeTick DEF Next

LEMMA TypedCorrect == Spec => []Typed
  BY TypeInit, TypeNext, PTL DEF Spec

\* A session is stored together with the vector its task waits for, and
\* neither changes its keys afterwards.
MembersInv ==
    \A s \in DOMAIN sessions : public_keys(sessions[s]) = Participants(s)

LEMMA MembersNext == Typed /\ MembersInv /\ [Next]_vars => MembersInv'
<1> SUFFICES ASSUME Typed, MembersInv, [Next]_vars PROVE MembersInv'
  OBVIOUS
<1>0. /\ DOMAIN sessions \subseteq Sids
      /\ \A s \in DOMAIN sessions : sessions[s] \in SessionType
      /\ \A s \in Sids : waiter[s] \in WaiterType
  BY DEF Typed
<1>1. ASSUME DOMAIN sessions' \subseteq DOMAIN sessions,
             \A s \in DOMAIN sessions' :
                 /\ sessions'[s].owner_key = sessions[s].owner_key
                 /\ sessions'[s].participant_keys = sessions[s].participant_keys
                 /\ waiter'[s].all = waiter[s].all
      PROVE  MembersInv'
  BY <1>1 DEF MembersInv, public_keys, Participants
<1>2. ASSUME NEW k \in Keys, NEW s \in Sids, NEW keys \in Vectors,
             NewSession(k, s, keys)
      PROVE  MembersInv'
  <2>1. /\ sessions'[s] = Session(k, {keys[i] : i \in DOMAIN keys})
        /\ \A x \in DOMAIN sessions' \ {s} :
               x \in DOMAIN sessions /\ sessions'[x] = sessions[x]
    BY <1>2 DEF NewSession
  <2>2. /\ waiter'[s].all = <<k>> \o keys
        /\ \A x \in Sids \ {s} : waiter'[x] = waiter[x]
    BY <1>2, UnbornType DEF NewSession, Typed, WaiterType
  <2>3. {(<<k>> \o keys)[i] : i \in DOMAIN (<<k>> \o keys)}
            = {k} \cup {keys[i] : i \in DOMAIN keys}
    <3> DEFINE all == <<k>> \o keys
    <3>1. /\ Len(all) = Len(keys) + 1 /\ DOMAIN all = 1..Len(all)
          /\ DOMAIN keys = 1..Len(keys) /\ Len(keys) \in Nat
          /\ all[1] = k
          /\ \A i \in 1..Len(keys) : all[i + 1] = keys[i]
      BY DEF Vectors
    <3>2. \A i \in DOMAIN all : i = 1 \/ (i - 1 \in DOMAIN keys /\ all[i] = keys[i - 1])
      BY <3>1
    <3>3. \A i \in DOMAIN keys : i + 1 \in DOMAIN all /\ all[i + 1] = keys[i]
      BY <3>1
    <3>4. 1 \in DOMAIN all
      BY <3>1
    <3> HIDE DEF all
    <3> QED
      BY <3>1, <3>2, <3>3, <3>4 DEF all
  <2>4. (public_keys(sessions[s]) = Participants(s))'
    <3>1. public_keys(sessions[s])' = {k} \cup {keys[i] : i \in DOMAIN keys}
      BY <2>1 DEF public_keys, Session
    <3>2. Participants(s)' = {(<<k>> \o keys)[i] : i \in DOMAIN (<<k>> \o keys)}
      BY <2>2 DEF Participants
    <3> QED
      BY ONLY <2>3, <3>1, <3>2
  <2> SUFFICES ASSUME NEW x \in DOMAIN sessions', x # s
               PROVE  (public_keys(sessions[x]) = Participants(x))'
    BY <2>4 DEF MembersInv
  <2>5. /\ x \in DOMAIN sessions /\ sessions'[x] = sessions[x]
        /\ waiter'[x].all = waiter[x].all
    BY <1>0, <2>1, <2>2
  <2> QED
    BY <2>5 DEF MembersInv, public_keys, Participants
<1>3. ASSUME NEW k \in Keys, Request(k) PROVE MembersInv'
  <2>1. CASE \E s \in Sids, request \in Requests :
                 NewSession(k, s, request[2])
    BY <1>2, <2>1, RequestTypes
  <2>2. ASSUME NEW s \in Sids, NEW peer \in Keys, SessionConnection(k, s, peer)
        PROVE  MembersInv'
    BY <1>0, <1>1, <2>2 DEF SessionConnection, register_connection, SessionType
  <2>3. ASSUME NEW s \in Sids,
               \/ SessionCreated(k, s) \/ CloseSession(k, s)
               \/ RemoveSession(k, s) \/ SessionFinished(k, s)
        PROVE  MembersInv'
    BY <1>1, <2>3
       DEF SessionCreated, CloseSession, RemoveSession, SessionFinished
  <2> QED
    BY <1>3, <2>1, <2>2, <2>3 DEF Request
<1>4. ASSUME NEW s \in Sids, TouchSession(s) PROVE MembersInv'
  BY <1>0, <1>1, <1>4 DEF TouchSession, touch, SessionType
<1>5. ASSUME NEW s \in Sids, WaiterStep(s) PROVE MembersInv'
  <2>1. sessions' = sessions /\ waiter \in [Sids -> WaiterType]
    BY <1>5 DEF WaiterStep, PollReady, PollActive, CheckElapsed, NotifyPeers,
                NotifyPeer, NotifyReturn, Typed
  <2>2. \A x \in Sids \ {s} : waiter'[x] = waiter[x]
    BY <1>5, <2>1 DEF WaiterStep, PollReady, PollActive, CheckElapsed,
                      NotifyPeers, NotifyPeer, NotifyReturn
  <2>3. waiter'[s].all = waiter[s].all
    <3>1. waiter[s] \in WaiterType
      BY <2>1
    <3>2. CASE PollReady(s)
      BY <2>1, <3>1, <3>2 DEF PollReady, WaiterType
    <3>3. CASE PollActive(s)
      BY <2>1, <3>1, <3>3 DEF PollActive, WaiterType
    <3>4. CASE CheckElapsed(s)
      BY <2>1, <3>1, <3>4 DEF CheckElapsed, WaiterType
    <3>5. CASE NotifyPeers(s) \/ NotifyPeer(s)
      BY <2>1, <3>1, <3>5 DEF NotifyPeers, NotifyPeer, WaiterType
    <3>6. CASE NotifyReturn(s)
      BY <2>1, <3>1, <3>6 DEF NotifyReturn, NextStage, WaiterType
    <3> QED
      BY <1>5, <3>2, <3>3, <3>4, <3>5, <3>6 DEF WaiterStep
  <2> QED
    BY <1>0, <1>1, <2>1, <2>2, <2>3
<1>6. CASE PurgeExpired
  BY <1>1, <1>6 DEF PurgeExpired
<1>7. CASE Tick
  <2>1. /\ DOMAIN sessions' = DOMAIN sessions
        /\ \A s \in DOMAIN sessions : sessions'[s] = age(sessions[s], Timeout)
    BY <1>7 DEF Tick
  <2>2. \A s \in DOMAIN sessions :
            /\ sessions'[s].owner_key = sessions[s].owner_key
            /\ sessions'[s].participant_keys = sessions[s].participant_keys
    BY <1>0, <2>1 DEF age, SessionType
  <2>3. \A s \in Sids : waiter'[s].all = waiter[s].all
    BY <1>0, <1>7 DEF Tick, WaiterType
  <2> QED
    BY <1>0, <1>1, <2>1, <2>2, <2>3
<1>8. CASE \/ \E k \in Keys : PromoteConnection(k) \/ Disconnect(k)
           \/ UNCHANGED vars
  BY <1>1, <1>8 DEF PromoteConnection, Disconnect, vars
<1> QED
  BY <1>3, <1>4, <1>5, <1>6, <1>7, <1>8 DEF Next

\* The relay's session state is well typed at all times, and the background
\* task of a session waits for its members (handle_request, NewSession).
THEOREM TypeCorrect == Spec => []TypeOK
<1>1. Init => MembersInv
  BY DEF Init, MembersInv
<1>2. Typed /\ MembersInv => TypeOK
  BY DEF TypeOK, MembersInv
<1> QED
  BY <1>1, <1>2, TypedCorrect, MembersNext, PTL DEF Spec

-----------------------------------------------------------------------------
(* One verdict per session                                                 *)

\* The inductive strengthening of OneVerdict: who has been told what is tied
\* to where the session's task stands and to the message it carries.
VerdictInv ==
    \A s \in Sids :
        /\ Told("SessionActive", s) =>
               /\ waiter[s].pc \in {"notify", "done"}
               /\ waiter[s].msg = "SessionActive"
        /\ Told("SessionTimeout", s) =>
               /\ waiter[s].pc \in {"notify", "done"}
               /\ waiter[s].msg = "SessionTimeout"

LEMMA VerdictReply ==
    ASSUME VerdictInv, waiter' = waiter, NEW k, NEW s,
           \/ Reply(k, "SessionCreated", s)
           \/ Reply(k, "SessionFinished", s)
           \/ sent' = sent
    PROVE  VerdictInv'
<1>1. \A m \in {"SessionActive", "SessionTimeout"}, r \in Sids :
          Told(m, r)' => Told(m, r)
  BY DEF Reply, Told
<1> QED
  BY <1>1 DEF VerdictInv

LEMMA VerdictWaiter ==
    ASSUME Typed, VerdictInv, NEW s \in Sids, WaiterStep(s)
    PROVE  VerdictInv'
<1>0. /\ waiter \in [Sids -> WaiterType]
      /\ DOMAIN waiter[s] = DOMAIN Unborn
  BY DEF Typed, WaiterType, Unborn
<1>1. CASE PollReady(s)
  BY <1>0, <1>1 DEF PollReady, VerdictInv, Told, Unborn
<1>2. CASE PollActive(s)
  BY <1>0, <1>2 DEF PollActive, VerdictInv, Told, Unborn
<1>3. CASE CheckElapsed(s)
  BY <1>0, <1>3 DEF CheckElapsed, VerdictInv, Told, Unborn
<1>4. CASE NotifyPeers(s)
  BY <1>0, <1>4 DEF NotifyPeers, VerdictInv, Told, Unborn
<1>5. CASE NotifyPeer(s)
  <2>1. /\ \A r \in Sids : /\ waiter'[r].pc = waiter[r].pc
                           /\ waiter'[r].msg = waiter[r].msg
        /\ waiter[s].pc = "notify"
    BY <1>0, <1>5 DEF NotifyPeer, Unborn
  <2>2. \A m \in Messages, r \in Sids :
            Told(m, r)' => Told(m, r) \/ (r = s /\ m = waiter[s].msg)
    BY <1>5 DEF NotifyPeer, Told
  <2> QED
    BY <2>1, <2>2 DEF VerdictInv, Messages
<1>6. CASE NotifyReturn(s)
  <2>1. sent' = sent /\ waiter[s].pc = "notify"
    BY <1>6 DEF NotifyReturn
  <2>2. \A r \in Sids \ {s} : waiter'[r] = waiter[r]
    BY <1>0, <1>6 DEF NotifyReturn
  <2>3. waiter[s].msg # "SessionReady" =>
            waiter'[s].pc = "done" /\ waiter'[s].msg = waiter[s].msg
    BY <1>0, <1>6 DEF NotifyReturn, NextStage, Unborn
  <2> QED
    BY <2>1, <2>2, <2>3 DEF VerdictInv, Told
<1> QED
  BY <1>1, <1>2, <1>3, <1>4, <1>5, <1>6 DEF WaiterStep

LEMMA VerdictNext == Typed /\ VerdictInv /\ [Next]_vars => VerdictInv'
<1> SUFFICES ASSUME Typed, VerdictInv, [Next]_vars PROVE VerdictInv'
  OBVIOUS
<1>1. CASE waiter' = waiter /\ sent' = sent
  BY <1>1 DEF VerdictInv, Told
<1>2. ASSUME NEW k \in Keys, NEW s \in Sids, NEW keys,
             NewSession(k, s, keys)
      PROVE  VerdictInv'
  <2>1. /\ waiter[s].pc = "unborn" /\ sent' = sent
        /\ \A r \in Sids \ {s} : waiter'[r] = waiter[r]
    BY <1>2 DEF NewSession, Typed
  <2> QED
    BY <2>1 DEF VerdictInv, Told
<1>3. ASSUME NEW k \in Keys, Request(k) PROVE VerdictInv'
  BY <1>1, <1>2, <1>3, VerdictReply
     DEF Request, SessionCreated, SessionFinished, SessionConnection,
         CloseSession, RemoveSession
<1>4. CASE Tick
  <2>1. sent' = sent
    BY <1>4 DEF Tick
  <2>2. \A r \in Sids : /\ waiter'[r].pc = waiter[r].pc
                        /\ waiter'[r].msg = waiter[r].msg
    BY <1>4 DEF Tick, Typed, WaiterType
  <2> QED
    BY <2>1, <2>2 DEF VerdictInv, Told
<1> QED
  BY <1>1, <1>3, <1>4, VerdictWaiter
     DEF Next, PromoteConnection, Disconnect, TouchSession, PurgeExpired, vars

LEMMA VerdictInit == Init => VerdictInv
  BY DEF Init, VerdictInv, Told

LEMMA SpecVerdict == Spec => []VerdictInv
  BY TypedCorrect, VerdictInit, VerdictNext, PTL DEF Spec

\* No session is announced as active to one participant and as timed out to
\* another (wait_for_session_ready, wait_for_session_active).
THEOREM VerdictCorrect == Spec => []OneVerdict
<1>1. VerdictInv => OneVerdict
  BY DEF VerdictInv, OneVerdict
<1> QED
  BY <1>1, SpecVerdict, PTL

\* A SessionReady that is queued comes from the loop of a task whose message
\* is still SessionReady, so nothing else has been said before.
LEMMA ReadyStep ==
    Typed /\ VerdictInv /\ [Next]_vars =>
        [\A s \in Sids, k \in Keys :
            <<"SessionReady", s, k>> \in sent' \ sent =>
                ~Told("SessionActive", s) /\ ~Told("SessionTimeout", s)]_vars
<1> SUFFICES ASSUME Typed, VerdictInv, Next,
                    NEW s \in Sids, NEW k \in Keys,
                    <<"SessionReady", s, k>> \in sent' \ sent
             PROVE  ~Told("SessionActive", s) /\ ~Told("SessionTimeout", s)
  BY DEF vars
<1>1. sent' # sent
  OBVIOUS
<1>2. \A j, r : /\ Reply(j, "SessionCreated", r) =>
                       <<"SessionReady", s, k>> \notin sent' \ sent
                /\ Reply(j, "SessionFinished", r) =>
                       <<"SessionReady", s, k>> \notin sent' \ sent
  BY DEF Reply
<1>3. ASSUME NEW j \in Keys, Request(j) PROVE FALSE
  BY <1>1, <1>2, <1>3
     DEF Request, NewSession, SessionCreated, SessionFinished,
         SessionConnection, CloseSession, RemoveSession
<1>4. \E r \in Sids : WaiterStep(r)
  BY <1>1, <1>3
     DEF Next, PromoteConnection, Disconnect, TouchSession, PurgeExpired, Tick
<1>5. PICK r \in Sids : NotifyPeer(r)
  BY <1>1, <1>4
     DEF WaiterStep, PollReady, PollActive, CheckElapsed, NotifyPeers,
         NotifyReturn
<1>6. r = s /\ waiter[s].msg = "SessionReady"
  BY <1>5 DEF NotifyPeer
<1> QED
  BY <1>6 DEF VerdictInv

\* SessionReady of a session never follows SessionActive or SessionTimeout
\* of it, at any participant (wait_for_session_ready).
THEOREM ReadyFirst == Spec => ReadyComesFirst
  BY TypedCorrect, SpecVerdict, ReadyStep, PTL DEF Spec, ReadyComesFirst

-----------------------------------------------------------------------------
(* SessionActive is only said of connected sessions                        *)

Connected(session) ==
    \A j, k \in public_keys(session) :
        j # k => \/ <<j, k>> \in session.connections
                 \/ <<k, j>> \in session.connections

\* The poll that finds a session active and the notification are separate
\* steps: what the poll saw stays true, or the session is gone.
ConnectedInv ==
    \A s \in DOMAIN sessions :
        /\ waiter[s].pc \in {"found", "notify", "done"}
        /\ waiter[s].msg = "SessionActive"
        => Connected(sessions[s])

LEMMA ActiveIsConnected ==
    ASSUME NEW session PROVE is_active(session) => Connected(session)
  BY DEF is_active, check_connection, Connected

\* The steps of the store and of the clock leave the keys of a session alone
\* and never take a registration back.
LEMMA ConnectedGrows ==
    ASSUME NEW old, NEW new, Connected(old),
           new.owner_key = old.owner_key,
           new.participant_keys = old.participant_keys,
           old.connections \subseteq new.connections
    PROVE  Connected(new)
  BY DEF Connected, public_keys

LEMMA ConnectedStore ==
    ASSUME Typed, ConnectedInv,
           \A s \in Sids : /\ waiter'[s].pc = waiter[s].pc
                           /\ waiter'[s].msg = waiter[s].msg,
           DOMAIN sessions' \subseteq DOMAIN sessions,
           \A s \in DOMAIN sessions' :
               /\ sessions'[s].owner_key = sessions[s].owner_key
               /\ sessions'[s].participant_keys = sessions[s].participant_keys
               /\ sessions[s].connections \subseteq sessions'[s].connections
    PROVE  ConnectedInv'
  BY ConnectedGrows DEF ConnectedInv, Typed

LEMMA ConnectedWaiter ==
    ASSUME Typed, ConnectedInv, NEW s \in Sids, WaiterStep(s)
    PROVE  ConnectedInv'
<1>0. /\ waiter \in [Sids -> WaiterType]
      /\ DOMAIN waiter[s] = DOMAIN Unborn
      /\ DOMAIN sessions \subseteq Sids
  BY DEF Typed, WaiterType, Unborn
<1>1. sessions' = sessions /\ \A r \in Sids \ {s} : waiter'[r] = waiter[r]
  BY <1>0 DEF WaiterStep, PollReady, PollActive, CheckElapsed, NotifyPeers,
              NotifyPeer, NotifyReturn
<1>2. SUFFICES ASSUME s \in DOMAIN sessions,
                      waiter'[s].pc \in {"found", "notify", "done"},
                      waiter'[s].msg = "SessionActive"
               PROVE  Connected(sessions[s])
  BY <1>0, <1>1 DEF ConnectedInv
<1>3. CASE PollReady(s)
  BY <1>0, <1>2, <1>3 DEF PollReady, Unborn
<1>4. CASE PollActive(s)
  BY <1>0, <1>2, <1>4, ActiveIsConnected DEF PollActive, Unborn
<1>5. CASE CheckElapsed(s)
  BY <1>0, <1>2, <1>5 DEF CheckElapsed, Unborn
<1>6. CASE NotifyPeers(s)
  BY <1>0, <1>2, <1>6 DEF NotifyPeers, Unborn, ConnectedInv
<1>7. CASE NotifyPeer(s)
  BY <1>0, <1>2, <1>7 DEF NotifyPeer, Unborn, ConnectedInv
<1>8. CASE NotifyReturn(s)
  <2>1. waiter[s].pc = "notify"
    BY <1>8 DEF NotifyReturn
  <2>2. waiter'[s].msg = waiter[s].msg
    BY <1>0, <1>8 DEF NotifyReturn, NextStage, Unborn
  <2> QED
    BY <1>2, <2>1, <2>2 DEF ConnectedInv
<1> QED
  BY <1>3, <1>4, <1>5, <1>6, <1>7, <1>8 DEF WaiterStep

LEMMA ConnectedNext == Typed /\ ConnectedInv /\ [Next]_vars => ConnectedInv'
<1> SUFFICES ASSUME Typed, ConnectedInv, [Next]_vars PROVE ConnectedInv'
  OBVIOUS
<1>0. /\ DOMAIN sessions \subseteq Sids
      /\ \A s \in DOMAIN sessions : sessions[s] \in SessionType
  BY DEF Typed
<1>1. CASE waiter' = waiter /\ sessions' = sessions
  BY <1>1 DEF ConnectedInv
<1>2. ASSUME NEW k \in Keys, NEW s \in Sids, NEW keys,
             NewSession(k, s, keys)
      PROVE  ConnectedInv'
  <2>1. /\ DOMAIN sessions' = DOMAIN sessions \cup {s}
        /\ \A r \in DOMAIN sessions \ {s} :
               sessions'[r] = sessions[r] /\ waiter'[r] = waiter[r]
        /\ waiter'[s].pc = "poll"
    BY <1>0, <1>2 DEF NewSession, Typed, Unborn
  <2> QED
    BY <2>1 DEF ConnectedInv
<1>3. ASSUME NEW k \in Keys, NEW peer \in Keys, NEW s \in Sids,
             SessionConnection(k, s, peer)
      PROVE  ConnectedInv'
  BY <1>0, <1>3, ConnectedStore
     DEF SessionConnection, register_connection, SessionType
<1>4. ASSUME NEW k \in Keys, Request(k) PROVE ConnectedInv'
  <2>1. ASSUME NEW s \in Sids, RemoveSession(k, s) PROVE ConnectedInv'
    BY <2>1, ConnectedStore DEF RemoveSession
  <2> QED
    BY <1>1, <1>2, <1>3, <1>4, <2>1
       DEF Request, SessionCreated, SessionFinished, CloseSession
<1>5. ASSUME NEW s \in Sids, TouchSession(s) PROVE ConnectedInv'
  BY <1>0, <1>5, ConnectedStore DEF TouchSession, touch, SessionType
<1>6. CASE PurgeExpired
  BY <1>6, ConnectedStore DEF PurgeExpired
<1>7. CASE Tick
  <2>1. \A r \in Sids : /\ waiter'[r].pc = waiter[r].pc
                        /\ waiter'[r].msg = waiter[r].msg
    BY <1>7 DEF Tick, Typed, WaiterType
  <2>2. \A s \in DOMAIN sessions :
            /\ age(sessions[s], Timeout).owner_key = sessions[s].owner_key
            /\ age(sessions[s], Timeout).participant_keys
                   = sessions[s].participant_keys
            /\ age(sessions[s], Timeout).connections = sessions[s].connections
    BY <1>0 DEF age, SessionType
  <2> QED
    BY <1>7, <2>1, <2>2, ConnectedStore DEF Tick
<1> QED
  BY <1>1, <1>4, <1>5, <1>6, <1>7, ConnectedWaiter
     DEF Next, PromoteConnection, Disconnect, vars

LEMMA ConnectedInit == Init => ConnectedInv
  BY DEF Init, ConnectedInv

\* Whoever is told SessionActive can rely on every pair of participants
\* having registered its connection, as long as the session exists
\* (wait_for_session_active, Session::is_active).
THEOREM ActiveCorrect == Spec => []ActiveMeansConnected
<1>1. Typed /\ VerdictInv /\ ConnectedInv => ActiveMeansConnected
  BY DEF Typed, VerdictInv, ConnectedInv, Connected, ActiveMeansConnected
<1>2. Spec => []ConnectedInv
  BY TypedCorrect, ConnectedInit, ConnectedNext, PTL DEF Spec
<1> QED
  BY <1>1, <1>2, TypedCorrect, SpecVerdict, PTL

-----------------------------------------------------------------------------
(* The read guard of notify_peers                                          *)

LEMMA NotifiedNext == Typed /\ NotifiedSoFar /\ [Next]_vars => NotifiedSoFar'
<1> SUFFICES ASSUME Typed, NotifiedSoFar, [Next]_vars PROVE NotifiedSoFar'
  OBVIOUS
<1>1. ASSUME readers = {}, waiter' = waiter PROVE NotifiedSoFar'
  BY <1>1 DEF NotifiedSoFar, readers
<1>2. sent \subseteq sent'
  BY DEF Next, PromoteConnection, Disconnect, Request, NewSession,
         SessionCreated, SessionConnection, CloseSession, RemoveSession,
         SessionFinished, Reply, TouchSession, WaiterStep, PollReady,
         PollActive, CheckElapsed, NotifyPeers, NotifyPeer, NotifyReturn,
         PurgeExpired, Tick, vars
<1>3. ASSUME active' = active,
             \A s \in readers' :
                 /\ s \in readers
                 /\ waiter'[s].all = waiter[s].all
                 /\ waiter'[s].msg = waiter[s].msg
                 /\ waiter'[s].next = waiter[s].next
      PROVE  NotifiedSoFar'
  BY <1>2, <1>3 DEF NotifiedSoFar
<1>4. ASSUME NEW s \in Sids, active' = active,
             \A r \in Sids \ {s} : waiter'[r] = waiter[r],
             waiter'[s].pc # "notify"
      PROVE  NotifiedSoFar'
  BY <1>3, <1>4 DEF readers
<1>5. ASSUME NEW k \in Keys, Request(k) PROVE NotifiedSoFar'
  <2>1. ASSUME NEW s \in Sids, NEW keys, NewSession(k, s, keys)
        PROVE  NotifiedSoFar'
    BY <1>4, <2>1 DEF NewSession, Typed, Unborn
  <2> QED
    BY <1>3, <1>5, <2>1
       DEF Request, SessionCreated, SessionConnection, CloseSession,
           RemoveSession, SessionFinished, readers
<1>6. ASSUME NEW s \in Sids, WaiterStep(s) PROVE NotifiedSoFar'
  <2>0. /\ waiter \in [Sids -> WaiterType]
        /\ DOMAIN waiter[s] = DOMAIN Unborn
    BY DEF Typed, WaiterType, Unborn
  <2>1. CASE PollReady(s) \/ PollActive(s) \/ CheckElapsed(s)
    BY <1>4, <2>0, <2>1 DEF PollReady, PollActive, CheckElapsed, Unborn
  <2>2. CASE NotifyPeers(s)
    <3>1. /\ active' = active
          /\ \A r \in Sids \ {s} : waiter'[r] = waiter[r]
          /\ waiter'[s].next = 1
      BY <2>0, <2>2 DEF NotifyPeers, Unborn
    <3> QED
      BY <1>2, <3>1 DEF NotifiedSoFar, readers
  <2>3. CASE NotifyPeer(s)
    <3>1. /\ active' = active
          /\ \A r \in Sids \ {s} : waiter'[r] = waiter[r]
          /\ waiter'[s].next = waiter[s].next + 1
          /\ waiter'[s].all = waiter[s].all
          /\ waiter'[s].msg = waiter[s].msg
          /\ waiter[s].pc = "notify"
          /\ waiter[s].next \in Nat
      BY <2>0, <2>3 DEF NotifyPeer, Unborn, WaiterType, Positions
    <3>2. waiter[s].all[waiter[s].next] \in active =>
              <<waiter[s].msg, s, waiter[s].all[waiter[s].next]>> \in sent'
      BY <2>3 DEF NotifyPeer
    <3>3. \A r \in readers' \ {s} : \A i \in 1..(waiter'[r].next - 1) :
              waiter'[r].all[i] \in active' =>
                  <<waiter'[r].msg, r, waiter'[r].all[i]>> \in sent'
      BY <1>2, <3>1 DEF NotifiedSoFar, readers
    <3>4. \A i \in 1..waiter[s].next : waiter[s].all[i] \in active =>
              <<waiter[s].msg, s, waiter[s].all[i]>> \in sent'
      <4> SUFFICES ASSUME NEW i \in 1..waiter[s].next,
                          waiter[s].all[i] \in active
                   PROVE  <<waiter[s].msg, s, waiter[s].all[i]>> \in sent'
        OBVIOUS
      <4>1. CASE i = waiter[s].next
        BY <3>2, <4>1
      <4>2. CASE i # waiter[s].next
        <5>1. i \in 1..(waiter[s].next - 1) /\ s \in readers
          BY <3>1, <4>2 DEF readers
        <5> QED
          BY <1>2, <5>1 DEF NotifiedSoFar
      <4> QED
        BY <4>1, <4>2
    <3> QED
      BY <3>1, <3>3, <3>4 DEF NotifiedSoFar
  <2>4. CASE NotifyReturn(s)
    <3>1. waiter'[s].pc # "notify"
      BY <2>0, <2>4 DEF NotifyReturn, NextStage, Unborn
    <3> QED
      BY <1>4, <2>0, <2>4, <3>1 DEF NotifyReturn
  <2> QED
    BY <1>6, <2>1, <2>2, <2>3, <2>4 DEF WaiterStep
<1>7. CASE Tick
  <2>1. \A r \in Sids : /\ waiter'[r].pc = waiter[r].pc
                        /\ waiter'[r].all = waiter[r].all
                        /\ waiter'[r].msg = waiter[r].msg
                        /\ waiter'[r].next = waiter[r].next
    BY <1>7 DEF Tick, Typed, WaiterType
  <2> QED
    BY <1>3, <1>7, <2>1 DEF Tick, readers
<1>8. CASE UNCHANGED vars
  BY <1>3, <1>8 DEF vars, readers
<1> QED
  BY <1>1, <1>3, <1>5, <1>6, <1>7, <1>8
     DEF Next, PromoteConnection, Disconnect, TouchSession, PurgeExpired,
         readers

\* notify_peers reaches every connected participant it has passed, because
\* its read guard keeps the table of connections still.
THEOREM NotifiedCorrect == Spec => []NotifiedSoFar
<1>1. Init => NotifiedSoFar
  BY DEF Init, NotifiedSoFar, readers, Unborn
<1> QED
  BY <1>1, TypedCorrect, NotifiedNext, PTL DEF Spec

\* Only its own NotifyReturn takes a task out of the loop.
LEMMA NotifyEnds ==
    ASSUME Typed, [Next]_vars, NEW s \in Sids,
           waiter[s].pc = "notify", waiter'[s].pc # "notify"
    PROVE  NotifyReturn(s)
<1>0. waiter \in [Sids -> WaiterType]
  BY DEF Typed
<1>1. waiter' # waiter
  OBVIOUS
<1>2. ASSUME NEW k \in Keys, Request(k) PROVE FALSE
  <2>1. ASSUME NEW r \in Sids, NEW keys, NewSession(k, r, keys) PROVE FALSE
    BY <1>0, <2>1 DEF NewSession
  <2> QED
    BY <1>1, <1>2, <2>1
       DEF Request, SessionCreated, SessionConnection, CloseSession,
           RemoveSession, SessionFinished
<1>3. CASE Tick
  BY <1>0, <1>3 DEF Tick, WaiterType
<1>4. ASSUME NEW r \in Sids, WaiterStep(r) PROVE NotifyReturn(s)
  <2>1. r = s
    BY <1>0, <1>4
       DEF WaiterStep, PollReady, PollActive, CheckElapsed, NotifyPeers,
           NotifyPeer, NotifyReturn
  <2>2. ~NotifyPeer(s)
    BY <1>0 DEF NotifyPeer, WaiterType
  <2> QED
    BY <1>4, <2>1, <2>2
       DEF WaiterStep, PollReady, PollActive, CheckElapsed, NotifyPeers
<1> QED
  BY <1>1, <1>2, <1>3, <1>4
     DEF Next, PromoteConnection, Disconnect, TouchSession, PurgeExpired, vars

\* When notify_peers returns, a participant with a working connection has the
\* message, unless one with a closed channel comes before it.
THEOREM CutOffCorrect == Spec => OnlyTheDeadCutOff
<1>1. ASSUME Typed, NotifiedSoFar, [Next]_vars, NEW s \in Sids,
             waiter[s].pc = "notify", waiter'[s].pc # "notify",
             NEW i \in DOMAIN waiter[s].all,
             waiter[s].all[i] \in active \ dead
      PROVE  \/ <<waiter[s].msg, s, waiter[s].all[i]>> \in sent
             \/ \E j \in 1..(i - 1) : waiter[s].all[j] \in dead
  <2>1. NotifyReturn(s)
    BY <1>1, NotifyEnds
  <2>2. /\ waiter[s].next \in Nat \ {0}
        /\ waiter[s].all \in Seq(Keys)
        /\ i \in 1..Len(waiter[s].all)
    BY <1>1 DEF Typed, WaiterType, Vectors, Positions
  <2>3. CASE i < waiter[s].next
    <3>1. i \in 1..(waiter[s].next - 1) /\ s \in readers
      BY <1>1, <2>2, <2>3 DEF readers
    <3> QED
      BY <1>1, <3>1 DEF NotifiedSoFar
  <2>4. CASE ~(i < waiter[s].next)
    <3>1. waiter[s].all[waiter[s].next] \in dead
      BY <2>1, <2>2, <2>4 DEF NotifyReturn
    <3>2. waiter[s].next \in 1..(i - 1)
      BY <1>1, <2>2, <2>4, <3>1
    <3> QED
      BY <3>1, <3>2
  <2> QED
    BY <2>3, <2>4
<1> DEFINE CutOff ==
        \A s \in Sids :
          waiter[s].pc = "notify" /\ waiter'[s].pc # "notify" =>
              \A i \in DOMAIN waiter[s].all :
                  waiter[s].all[i] \in active \ dead =>
                      \/ <<waiter[s].msg, s, waiter[s].all[i]>> \in sent
                      \/ \E j \in 1..(i - 1) : waiter[s].all[j] \in dead
<1>2. Typed /\ NotifiedSoFar /\ [Next]_vars => [CutOff]_vars
  BY <1>1
<1> QED
  BY <1>2, TypedCorrect, NotifiedCorrect, PTL DEF Spec, OnlyTheDeadCutOff

-----------------------------------------------------------------------------
(* CloseSession                                                            *)

Born(s) == waiter[s].pc # "unborn"
Owns(k, s) == Born(s) /\ k = waiter[s].all[1]

\* The inductive strengthening of FinishedMeansGone: the owner the store has
\* for a session is the first key its task notifies, only the owner has a
\* request about its own session under way, and once that request is to be
\* answered with SessionFinished the session is not there any more.
OwnerInv ==
    \A s \in Sids :
        /\ s \in DOMAIN sessions => Owns(sessions[s].owner_key, s)
        /\ \A k \in Keys :
               /\ \A r \in handler[k] : r.sid = s =>
                      /\ Owns(k, s)
                      /\ r.op = "finished" => s \notin DOMAIN sessions
               /\ <<"SessionFinished", s, k>> \in sent =>
                      Owns(k, s) /\ s \notin DOMAIN sessions

\* Steps that let the requests under way be, and neither add a session nor
\* say SessionFinished.
LEMMA OwnerFrame ==
    ASSUME Typed, OwnerInv, handler' = handler,
           \A s \in Sids : Born(s) => Born(s)' /\ waiter'[s].all = waiter[s].all,
           DOMAIN sessions' \subseteq DOMAIN sessions,
           \A s \in DOMAIN sessions' :
               sessions'[s].owner_key = sessions[s].owner_key,
           \A s \in Sids, k \in Keys :
               <<"SessionFinished", s, k>> \in sent' =>
                   <<"SessionFinished", s, k>> \in sent
    PROVE  OwnerInv'
  BY DEF OwnerInv, Owns, Typed

LEMMA OwnerNewSession ==
    ASSUME Typed, OwnerInv, NEW k \in Keys, NEW s \in Sids,
           NEW keys \in Vectors, NewSession(k, s, keys)
    PROVE  OwnerInv'
<1>1. /\ ~Born(s) /\ sent' = sent
      /\ DOMAIN sessions' = DOMAIN sessions \cup {s}
      /\ \A r \in Sids \ {s} : waiter'[r] = waiter[r]
      /\ \A r \in DOMAIN sessions' \ {s} : sessions'[r] = sessions[r]
      /\ handler' = [handler EXCEPT ![k] = {[op |-> "created", sid |-> s]}]
  BY DEF NewSession, Typed, Born
<1>2. Owns(k, s)'
  <2>1. (<<k>> \o keys)[1] = k
    BY DEF Vectors
  <2> QED
    BY <2>1 DEF NewSession, Typed, Owns, Born, Unborn
<1>3. sessions'[s].owner_key = k
  BY DEF NewSession, Session
<1>4. \A j \in Keys : \A r \in handler'[j] :
          r \in handler[j] \/ (j = k /\ r = [op |-> "created", sid |-> s])
  BY <1>1 DEF Typed
<1>5. \A r \in Sids \ {s} : \A j : Owns(j, r)' <=> Owns(j, r)
  BY <1>1 DEF Owns, Born
<1>6. \A j \in Keys : /\ \A r \in handler[j] : r.sid # s
                      /\ <<"SessionFinished", s, j>> \notin sent
  BY <1>1 DEF OwnerInv, Owns
<1> QED
  BY <1>1, <1>2, <1>3, <1>4, <1>5, <1>6 DEF OwnerInv

LEMMA OwnerRequest ==
    ASSUME Typed, OwnerInv, NEW k \in Keys, NEW s \in Sids,
           \/ SessionCreated(k, s)
           \/ CloseSession(k, s)
           \/ RemoveSession(k, s)
           \/ SessionFinished(k, s)
    PROVE  OwnerInv'
<1>0. waiter' = waiter /\ \A j, r : Owns(j, r)' <=> Owns(j, r)
  BY DEF SessionCreated, CloseSession, RemoveSession, SessionFinished, Owns, Born
<1>1. CASE SessionCreated(k, s)
  <2>1. /\ sessions' = sessions
        /\ \A j \in Keys : handler'[j] \subseteq handler[j]
    BY <1>1 DEF SessionCreated, Typed
  <2>2. \A r \in Sids, j \in Keys : <<"SessionFinished", r, j>> \in sent' =>
                                        <<"SessionFinished", r, j>> \in sent
    BY <1>1 DEF SessionCreated, Reply
  <2> QED
    BY <1>0, <2>1, <2>2 DEF OwnerInv
<1>2. CASE CloseSession(k, s)
  <2>1. /\ sessions' = sessions /\ sent' = sent
        /\ s \in DOMAIN sessions /\ sessions[s].owner_key = k
        /\ \A j \in Keys : \A r \in handler'[j] :
               r \in handler[j] \/ (j = k /\ r = [op |-> "closing", sid |-> s])
    BY <1>2 DEF CloseSession, Typed
  <2> QED
    BY <1>0, <2>1 DEF OwnerInv
<1>3. CASE RemoveSession(k, s)
  <2>1. /\ DOMAIN sessions' = DOMAIN sessions \ {s} /\ sent' = sent
        /\ \A r \in DOMAIN sessions' : sessions'[r] = sessions[r]
        /\ [op |-> "closing", sid |-> s] \in handler[k]
        /\ \A j \in Keys : \A r \in handler'[j] :
               r \in handler[j] \/ (j = k /\ r = [op |-> "finished", sid |-> s])
    BY <1>3 DEF RemoveSession, Typed
  <2> QED
    BY <1>0, <2>1 DEF OwnerInv
<1>4. CASE SessionFinished(k, s)
  <2>1. /\ sessions' = sessions
        /\ [op |-> "finished", sid |-> s] \in handler[k]
        /\ \A j \in Keys : handler'[j] \subseteq handler[j]
    BY <1>4 DEF SessionFinished, Typed
  <2>2. \A r \in Sids, j \in Keys : <<"SessionFinished", r, j>> \in sent' =>
            <<"SessionFinished", r, j>> \in sent \/ (r = s /\ j = k)
    BY <1>4 DEF SessionFinished, Reply
  <2> QED
    BY <1>0, <2>1, <2>2 DEF OwnerInv
<1> QED
  BY <1>1, <1>2, <1>3, <1>4

LEMMA OwnerWaiter ==
    ASSUME Typed, OwnerInv, NEW s \in Sids, WaiterStep(s)
    PROVE  OwnerInv'
<1>0. /\ waiter \in [Sids -> WaiterType]
      /\ DOMAIN waiter[s] = DOMAIN Unborn
  BY DEF Typed, WaiterType, Unborn
<1>1. sessions' = sessions /\ handler' = handler
  BY DEF WaiterStep, PollReady, PollActive, CheckElapsed, NotifyPeers,
         NotifyPeer, NotifyReturn
<1>2. \A r \in Sids : Born(r) => Born(r)' /\ waiter'[r].all = waiter[r].all
  <2>1. CASE PollReady(s)
    BY <1>0, <2>1 DEF PollReady, Unborn, Born
  <2>2. CASE PollActive(s)
    BY <1>0, <2>2 DEF PollActive, Unborn, Born
  <2>3. CASE CheckElapsed(s)
    BY <1>0, <2>3 DEF CheckElapsed, Unborn, Born
  <2>4. CASE NotifyPeers(s)
    BY <1>0, <2>4 DEF NotifyPeers, Unborn, Born
  <2>5. CASE NotifyPeer(s)
    BY <1>0, <2>5 DEF NotifyPeer, Unborn, Born
  <2>6. CASE NotifyReturn(s)
    BY <1>0, <2>6 DEF NotifyReturn, NextStage, Unborn, Born
  <2> QED
    BY <2>1, <2>2, <2>3, <2>4, <2>5, <2>6 DEF WaiterStep
<1>3. \A r \in Sids, k \in Keys : <<"SessionFinished", r, k>> \in sent' =>
                                      <<"SessionFinished", r, k>> \in sent
  <2>1. waiter[s].msg # "SessionFinished"
    BY <1>0 DEF WaiterType
  <2> QED
    BY <2>1 DEF WaiterStep, PollReady, PollActive, CheckElapsed, NotifyPeers,
                NotifyPeer, NotifyReturn
<1> QED
  BY <1>1, <1>2, <1>3, OwnerFrame

LEMMA OwnerNext == Typed /\ OwnerInv /\ [Next]_vars => OwnerInv'
<1> SUFFICES ASSUME Typed, OwnerInv, [Next]_vars PROVE OwnerInv'
  OBVIOUS
<1>0. /\ DOMAIN sessions \subseteq Sids
      /\ \A s \in DOMAIN sessions : sessions[s] \in SessionType
  BY DEF Typed
<1>1. ASSUME waiter' = waiter, handler' = handler, sent' = sent,
             DOMAIN sessions' \subseteq DOMAIN sessions,
             \A s \in DOMAIN sessions' :
                 sessions'[s].owner_key = sessions[s].owner_key
      PROVE  OwnerInv'
  BY <1>1, OwnerFrame DEF Born
<1>2. ASSUME NEW k \in Keys, Request(k) PROVE OwnerInv'
  <2>1. ASSUME NEW s \in Sids, NEW peer \in Keys, SessionConnection(k, s, peer)
        PROVE  OwnerInv'
    BY <1>0, <1>1, <2>1
       DEF SessionConnection, register_connection, SessionType
  <2> QED
    BY <1>2, <2>1, RequestTypes, OwnerNewSession, OwnerRequest DEF Request
<1>3. ASSUME NEW s \in Sids, TouchSession(s) PROVE OwnerInv'
  BY <1>0, <1>1, <1>3 DEF TouchSession, touch, SessionType
<1>4. CASE PurgeExpired
  BY <1>1, <1>4 DEF PurgeExpired
<1>5. CASE Tick
  <2>1. \A r \in Sids : Born(r) => Born(r)' /\ waiter'[r].all = waiter[r].all
    BY <1>5 DEF Tick, Typed, WaiterType, Born
  <2>2. \A s \in DOMAIN sessions :
            age(sessions[s], Timeout).owner_key = sessions[s].owner_key
    BY <1>0 DEF age, SessionType
  <2> QED
    BY <1>5, <2>1, <2>2, OwnerFrame DEF Tick
<1>6. CASE waiter' = waiter /\ handler' = handler /\ sent' = sent
               /\ sessions' = sessions
  BY <1>1, <1>6
<1> QED
  BY <1>2, <1>3, <1>4, <1>5, <1>6, OwnerWaiter
     DEF Next, PromoteConnection, Disconnect, vars

LEMMA SpecOwner == Spec => []OwnerInv
<1>1. Init => OwnerInv
  BY DEF Init, OwnerInv
<1> QED
  BY <1>1, TypedCorrect, OwnerNext, PTL DEF Spec

\* SessionFinished goes to the owner of the session only, and from then on
\* the session is gone for good (service, CloseSession), although the owner
\* is checked under one lock and the session removed under another.
THEOREM FinishedCorrect == Spec => []FinishedMeansGone
<1>1. OwnerInv => FinishedMeansGone
  BY DEF OwnerInv, FinishedMeansGone, Owns
<1> QED
  BY <1>1, SpecOwner, PTL

=============================================================================
