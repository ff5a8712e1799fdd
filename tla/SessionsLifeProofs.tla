------------------------- MODULE SessionsLifeProofs -------------------------
(***************************************************************************)
(* Sessions implements SessionLife, for every set of clients, every number *)
(* of sessions and every timeout: the initial states map to the initial    *)
(* state, and every step to a step of SessionLife or to none.              *)
(***************************************************************************)
EXTENDS SessionsLife, SessionsProofs

\* The verdict is read off the message of the task.  That is sound because a
\* task that polls carries the message it was made with.
PollingInv ==
    \A s \in Sids :
        waiter[s].pc \in {"unborn", "poll", "late"} =>
            waiter[s].msg = "SessionReady"

LEMMA PollingNext == Typed /\ PollingInv /\ [Next]_vars => PollingInv'
<1> SUFFICES ASSUME Typed, PollingInv, [Next]_vars PROVE PollingInv'
  OBVIOUS
<1>0. waiter \in [Sids -> WaiterType]
  BY DEF Typed
<1>1. CASE waiter' = waiter
  BY <1>1 DEF PollingInv
<1>2. ASSUME NEW k \in Keys, NEW s \in Sids, NEW keys, NewSession(k, s, keys)
      PROVE  PollingInv'
  BY <1>0, <1>2 DEF NewSession, PollingInv, Unborn
<1>3. CASE Tick
  BY <1>0, <1>3 DEF Tick, PollingInv, WaiterType
<1>4. ASSUME NEW s \in Sids, WaiterStep(s) PROVE PollingInv'
  <2>0. DOMAIN waiter[s] = DOMAIN Unborn
    BY <1>0 DEF WaiterType, Unborn
  <2>1. CASE PollReady(s)
    BY <1>0, <2>0, <2>1 DEF PollReady, PollingInv, Unborn
  <2>2. CASE PollActive(s)
    BY <1>0, <2>0, <2>2 DEF PollActive, PollingInv, Unborn
  <2>3. CASE CheckElapsed(s)
    BY <1>0, <2>0, <2>3 DEF CheckElapsed, PollingInv, Unborn
  <2>4. CASE NotifyPeers(s)
    BY <1>0, <2>0, <2>4 DEF NotifyPeers, PollingInv, Unborn
  <2>5. CASE NotifyPeer(s)
    BY <1>0, <2>0, <2>5 DEF NotifyPeer, PollingInv, Unborn
  <2>6. CASE NotifyReturn(s)
    BY <1>0, <2>0, <2>6 DEF NotifyReturn, NextStage, PollingInv, Unborn
  <2> QED
    BY <1>4, <2>1, <2>2, <2>3, <2>4, <2>5, <2>6 DEF WaiterStep
<1> QED
  BY <1>1, <1>2, <1>3, <1>4
     DEF Next, Request, PromoteConnection, Disconnect, SessionCreated,
         SessionConnection, CloseSession, RemoveSession, SessionFinished,
         TouchSession, PurgeExpired, vars

-----------------------------------------------------------------------------
(* The refinement mapping                                                  *)

\* A step that keeps what the mapping looks at is no step of SessionLife.
LEMMA LifeStutter ==
    ASSUME \A s \in Sids : /\ waiter'[s].pc = waiter[s].pc
                           /\ waiter'[s].all = waiter[s].all
                           /\ waiter'[s].msg = waiter[s].msg,
           DOMAIN sessions' = DOMAIN sessions, sent' = sent
    PROVE  UNCHANGED Life!vars
<1>1. members' = members
  BY DEF members, Participants
<1>2. owner' = owner
  BY DEF owner
<1>3. status' = status
  BY DEF status
<1>4. verdict' = verdict
  BY DEF verdict, Verdict
<1> QED
  BY <1>1, <1>2, <1>3, <1>4 DEF Life!vars

\* Told members: the loop of notify_peers and the replies to the owner.
LEMMA LifeTell ==
    ASSUME NEW message \in Life!Messages, NEW s \in Sids, NEW k \in Keys,
           \A r \in Sids : /\ waiter'[r].pc = waiter[r].pc
                           /\ waiter'[r].all = waiter[r].all
                           /\ waiter'[r].msg = waiter[r].msg,
           DOMAIN sessions' = DOMAIN sessions,
           sent' = sent \cup {<<message, s, k>>},
           Life!May(message, s, k)
    PROVE  Life!Next
<1>1. members' = members
  BY DEF members, Participants
<1>2. owner' = owner
  BY DEF owner
<1>3. status' = status
  BY DEF status
<1>4. verdict' = verdict
  BY DEF verdict, Verdict
<1>5. Life!Tell(message, s, k)
  BY <1>1, <1>2, <1>3, <1>4 DEF Life!Tell
<1> QED
  BY <1>5 DEF Life!Next

\* Sessions that are removed end, also when there are none.
LEMMA LifeEnd ==
    ASSUME Typed, OwnerInv, waiter' = waiter, sent' = sent,
           DOMAIN sessions' \subseteq DOMAIN sessions
    PROVE  Life!Next
<1> DEFINE ended == DOMAIN sessions \ DOMAIN sessions'
<1>1. members' = members /\ owner' = owner /\ verdict' = verdict
  BY DEF members, Participants, owner, verdict
<1>2. ended \subseteq Sids /\ \A s \in ended : Born(s)
  BY DEF Typed, OwnerInv, Owns
<1>3. \A s \in ended : status[s] = "live"
  BY <1>2 DEF status, Born
<1>4. status' = [s \in Sids |-> IF s \in ended THEN "gone" ELSE status[s]]
  <2>1. \A s \in Sids :
            (IF waiter[s].pc = "unborn" THEN "none"
             ELSE IF s \in DOMAIN sessions' THEN "live" ELSE "gone")
            = IF s \in ended THEN "gone" ELSE status[s]
    BY <1>2 DEF status, Born
  <2> QED
    BY <2>1 DEF status
<1>5. Life!End(ended)
  BY <1>1, <1>3, <1>4 DEF Life!End
<1> QED
  BY <1>2, <1>5 DEF Life!Next

LEMMA LifeCreate ==
    ASSUME Typed, OwnerInv, NEW k \in Keys, NEW s \in Sids,
           NEW keys \in Vectors, NewSession(k, s, keys)
    PROVE  Life!Next
<1> DEFINE new == <<k>> \o keys
           others == {keys[i] : i \in DOMAIN keys}
<1>1. /\ waiter \in [Sids -> WaiterType]
      /\ waiter[s].pc = "unborn" /\ sent' = sent
      /\ DOMAIN sessions' = DOMAIN sessions \cup {s}
      /\ s \notin DOMAIN sessions
  BY DEF NewSession, Typed, OwnerInv, Owns, Born
<1>2. waiter' = [waiter EXCEPT ![s] =
                    [Unborn EXCEPT !.pc = "poll", !.all = new]]
  BY DEF NewSession
<1>3. /\ \A r \in Sids \ {s} : waiter'[r] = waiter[r]
      /\ waiter'[s].pc = "poll" /\ waiter'[s].all = new
  BY <1>1, <1>2 DEF Unborn
<1>4. others \subseteq Keys /\ new[1] = k
      /\ {new[i] : i \in DOMAIN new} = {k} \cup others
  <2>1. /\ new \in Seq(Keys) /\ Len(new) = Len(keys) + 1
        /\ DOMAIN new = 1..(Len(keys) + 1) /\ DOMAIN keys = 1..Len(keys)
        /\ new[1] = k /\ \A i \in 1..Len(keys) : new[i + 1] = keys[i]
        /\ Len(keys) \in Nat /\ others \subseteq Keys
    BY DEF Vectors
  <2>2. \A i \in DOMAIN new : i = 1 \/ (i - 1 \in DOMAIN keys /\ (i - 1) + 1 = i)
    BY <2>1
  <2>3. \A i \in DOMAIN keys : i + 1 \in DOMAIN new
    BY <2>1
  <2>4. 1 \in DOMAIN new
    BY <2>1
  <2>5. \A i \in DOMAIN new : new[i] \in {k} \cup others
    BY <2>1, <2>2
  <2>6. \A i \in DOMAIN keys : keys[i] \in {new[j] : j \in DOMAIN new}
    BY <2>1, <2>3
  <2> QED
    BY <2>1, <2>4, <2>5, <2>6
<1>5. members' = [members EXCEPT ![s] = {k} \cup others]
  <2>1. Participants(s)' = {k} \cup others
    BY <1>3, <1>4 DEF Participants
  <2>2. \A r \in Sids \ {s} : Participants(r)' = Participants(r)
    BY <1>3 DEF Participants
  <2> QED
    BY <2>1, <2>2 DEF members
<1>6. owner' = [owner EXCEPT ![s] = {k}]
  BY <1>3, <1>4 DEF owner
<1>7. status[s] = "none" /\ status' = [status EXCEPT ![s] = "live"]
  BY <1>1, <1>3 DEF status
<1>8. verdict' = verdict
  <2>1. \A r \in Sids : Verdict(waiter'[r]) = Verdict(waiter[r])
    BY <1>1, <1>3 DEF Verdict
  <2> QED
    BY <2>1 DEF verdict
<1>9. Life!Create(s)
  BY <1>1, <1>4, <1>5, <1>6, <1>7, <1>8 DEF Life!Create
<1> QED
  BY <1>9 DEF Life!Next

\* A task that moves on, about whose session a verdict is reached or not.
LEMMA LifeVerdict ==
    ASSUME NEW s \in Sids, Born(s), Born(s)',
           \A r \in Sids \ {s} : waiter'[r] = waiter[r],
           waiter'[s].all = waiter[s].all,
           sessions' = sessions, sent' = sent,
           \/ Verdict(waiter'[s]) = Verdict(waiter[s])
           \/ /\ Verdict(waiter[s]) = "none"
              /\ \/ Verdict(waiter'[s]) = "timeout"
                 \/ Verdict(waiter'[s]) = "active" /\ s \in DOMAIN sessions
                 \/ Verdict(waiter'[s]) = "silent" /\ s \notin DOMAIN sessions
    PROVE  Life!Next \/ UNCHANGED Life!vars
<1>1. members' = members
  BY DEF members, Participants
<1>2. owner' = owner
  BY DEF owner, Born
<1>3. status' = status
  BY DEF status, Born
<1>4. verdict' = [verdict EXCEPT ![s] = Verdict(waiter'[s])]
  BY DEF verdict
<1>5. CASE Verdict(waiter'[s]) = Verdict(waiter[s])
  <2>1. verdict' = verdict
    BY <1>4, <1>5 DEF verdict
  <2> QED
    BY <1>1, <1>2, <1>3, <2>1 DEF Life!vars
<1>6. CASE Verdict(waiter'[s]) # Verdict(waiter[s])
  <2>1. /\ status[s] = IF s \in DOMAIN sessions THEN "live" ELSE "gone"
        /\ verdict[s] = Verdict(waiter[s])
    BY DEF status, verdict, Born
  <2>2. Life!Decide(s)
    BY <1>1, <1>2, <1>3, <1>4, <1>6, <2>1 DEF Life!Decide
  <2> QED
    BY <2>2 DEF Life!Next
<1> QED
  BY <1>5, <1>6

LEMMA LifeWaiter ==
    ASSUME Typed, PollingInv, NEW s \in Sids, WaiterStep(s)
    PROVE  Life!Next \/ UNCHANGED Life!vars
<1>0. /\ waiter \in [Sids -> WaiterType]
      /\ waiter[s] \in WaiterType
      /\ DOMAIN waiter[s] = DOMAIN Unborn
  BY DEF Typed, WaiterType, Unborn
<1>1. CASE PollReady(s)
  <2>1. /\ Born(s) /\ Born(s)' /\ waiter'[s].all = waiter[s].all
        /\ \A r \in Sids \ {s} : waiter'[r] = waiter[r]
        /\ sessions' = sessions /\ sent' = sent
    BY <1>0, <1>1 DEF PollReady, Unborn, Born
  <2>2. Verdict(waiter'[s]) = Verdict(waiter[s])
    BY <1>0, <1>1 DEF PollReady, Unborn, Verdict
  <2> QED
    BY <2>1, <2>2, LifeVerdict
<1>2. CASE PollActive(s)
  <2>1. /\ Born(s) /\ Born(s)' /\ waiter'[s].all = waiter[s].all
        /\ \A r \in Sids \ {s} : waiter'[r] = waiter[r]
        /\ sessions' = sessions /\ sent' = sent
    BY <1>0, <1>2 DEF PollActive, Unborn, Born
  <2>2. waiter[s].pc = "poll" /\ waiter[s].msg = "SessionReady"
    BY <1>2 DEF PollActive, PollingInv
  <2>3. \/ Verdict(waiter'[s]) = "none"
        \/ Verdict(waiter'[s]) = "active" /\ s \in DOMAIN sessions
        \/ Verdict(waiter'[s]) = "silent" /\ s \notin DOMAIN sessions
    BY <1>0, <1>2, <2>2 DEF PollActive, Unborn, Verdict
  <2>4. Verdict(waiter[s]) = "none"
    BY <2>2 DEF Verdict
  <2> QED
    BY <2>1, <2>3, <2>4, LifeVerdict
<1>3. CASE CheckElapsed(s)
  <2>1. /\ Born(s) /\ Born(s)' /\ waiter'[s].all = waiter[s].all
        /\ \A r \in Sids \ {s} : waiter'[r] = waiter[r]
        /\ sessions' = sessions /\ sent' = sent
    BY <1>0, <1>3 DEF CheckElapsed, Unborn, Born
  <2>2. /\ Verdict(waiter[s]) = "none"
        /\ Verdict(waiter'[s]) \in {"none", "timeout"}
    BY <1>0, <1>3 DEF CheckElapsed, Unborn, Verdict
  <2> QED
    BY <2>1, <2>2, LifeVerdict
<1>4. CASE NotifyPeers(s)
  <2>1. /\ Born(s) /\ Born(s)' /\ waiter'[s].all = waiter[s].all
        /\ \A r \in Sids \ {s} : waiter'[r] = waiter[r]
        /\ sessions' = sessions /\ sent' = sent
    BY <1>0, <1>4 DEF NotifyPeers, Unborn, Born
  <2>2. Verdict(waiter'[s]) = Verdict(waiter[s])
    BY <1>0, <1>4 DEF NotifyPeers, Unborn, Verdict
  <2> QED
    BY <2>1, <2>2, LifeVerdict
<1>5. CASE NotifyPeer(s)
  <2> DEFINE key == waiter[s].all[waiter[s].next]
  <2>1. \A r \in Sids : /\ waiter'[r].pc = waiter[r].pc
                        /\ waiter'[r].all = waiter[r].all
                        /\ waiter'[r].msg = waiter[r].msg
    BY <1>0, <1>5 DEF NotifyPeer, Unborn
  <2>2. /\ waiter[s].pc = "notify" /\ sessions' = sessions
        /\ waiter[s].next \in DOMAIN waiter[s].all /\ key \in Keys
        /\ waiter[s].msg \in {"SessionReady", "SessionActive", "SessionTimeout"}
    BY <1>0, <1>5 DEF NotifyPeer, WaiterType, Vectors, Positions
  <2>3. \/ sent' = sent
        \/ sent' = sent \cup {<<waiter[s].msg, s, key>>}
    BY <1>5 DEF NotifyPeer
  <2>4. key \in members[s] /\ verdict[s] = Verdict(waiter[s])
    BY <2>2 DEF members, Participants, verdict
  <2>5. Life!May(waiter[s].msg, s, key)
    BY <2>2, <2>4 DEF Life!May, Verdict
  <2>6. waiter[s].msg \in Life!Messages
    BY <2>2 DEF Life!Messages
  <2>7. CASE sent' = sent
    BY <2>1, <2>2, <2>7, LifeStutter
  <2>8. CASE sent' = sent \cup {<<waiter[s].msg, s, key>>}
    BY <2>1, <2>2, <2>5, <2>6, <2>8, LifeTell
  <2> QED
    BY <2>3, <2>7, <2>8
<1>6. CASE NotifyReturn(s)
  <2>1. /\ Born(s) /\ Born(s)' /\ waiter'[s].all = waiter[s].all
        /\ \A r \in Sids \ {s} : waiter'[r] = waiter[r]
        /\ sessions' = sessions /\ sent' = sent
    BY <1>0, <1>6 DEF NotifyReturn, NextStage, Unborn, Born
  <2>2. Verdict(waiter'[s]) = Verdict(waiter[s])
    BY <1>0, <1>6 DEF NotifyReturn, NextStage, Unborn, Verdict, WaiterType
  <2> QED
    BY <2>1, <2>2, LifeVerdict
<1> QED
  BY <1>1, <1>2, <1>3, <1>4, <1>5, <1>6 DEF WaiterStep

\* The replies of the relay to the owner of a session.
LEMMA LifeReply ==
    ASSUME Typed, OwnerInv, NEW k \in Keys, NEW s \in Sids,
           SessionCreated(k, s) \/ SessionFinished(k, s)
    PROVE  Life!Next \/ UNCHANGED Life!vars
<1>1. waiter' = waiter /\ sessions' = sessions
  BY DEF SessionCreated, SessionFinished
<1>2. CASE sent' = sent
  BY <1>1, <1>2, LifeStutter
<1>3. ASSUME NEW op \in {"created", "finished"},
             [op |-> op, sid |-> s] \in handler[k]
      PROVE  /\ owner[s] = {k}
             /\ op = "finished" => status[s] = "gone"
  BY <1>3 DEF OwnerInv, Owns, Born, owner, status
<1>4. CASE SessionCreated(k, s) /\ sent' = sent \cup {<<"SessionCreated", s, k>>}
  <2>1. Life!May("SessionCreated", s, k)
    BY <1>3, <1>4 DEF SessionCreated, Life!May
  <2> QED
    BY <1>1, <1>4, <2>1, LifeTell DEF Life!Messages
<1>5. CASE SessionFinished(k, s) /\ sent' = sent \cup {<<"SessionFinished", s, k>>}
  <2>1. Life!May("SessionFinished", s, k)
    BY <1>3, <1>5 DEF SessionFinished, Life!May
  <2> QED
    BY <1>1, <1>5, <2>1, LifeTell DEF Life!Messages
<1> QED
  BY <1>2, <1>4, <1>5 DEF SessionCreated, SessionFinished, Reply

LEMMA LifeNext ==
    Typed /\ OwnerInv /\ PollingInv /\ [Next]_vars => [Life!Next]_(Life!vars)
<1> SUFFICES ASSUME Typed, OwnerInv, PollingInv, [Next]_vars
             PROVE  Life!Next \/ UNCHANGED Life!vars
  OBVIOUS
<1>1. ASSUME waiter' = waiter, DOMAIN sessions' = DOMAIN sessions, sent' = sent
      PROVE  UNCHANGED Life!vars
  BY <1>1, LifeStutter
<1>2. ASSUME NEW k \in Keys, Request(k)
      PROVE  Life!Next \/ UNCHANGED Life!vars
  <2>1. ASSUME NEW s \in Sids, NEW peer \in Keys, SessionConnection(k, s, peer)
        PROVE  UNCHANGED Life!vars
    BY <1>1, <2>1 DEF SessionConnection
  <2>2. ASSUME NEW s \in Sids, CloseSession(k, s) PROVE UNCHANGED Life!vars
    BY <1>1, <2>2 DEF CloseSession
  <2>3. ASSUME NEW s \in Sids, RemoveSession(k, s) PROVE Life!Next
    BY <2>3, LifeEnd DEF RemoveSession
  <2>4. ASSUME NEW s \in Sids, NEW r \in Requests, NewSession(k, s, r[2])
        PROVE  Life!Next
    BY <2>4, RequestTypes, LifeCreate
  <2> QED
    BY <1>2, <2>1, <2>2, <2>3, <2>4, LifeReply DEF Request
<1>3. ASSUME NEW s \in Sids, TouchSession(s) PROVE UNCHANGED Life!vars
  BY <1>1, <1>3 DEF TouchSession
<1>4. CASE PurgeExpired
  BY <1>4, LifeEnd DEF PurgeExpired
<1>5. CASE Tick
  <2>1. \A r \in Sids : /\ waiter'[r].pc = waiter[r].pc
                        /\ waiter'[r].all = waiter[r].all
                        /\ waiter'[r].msg = waiter[r].msg
    BY <1>5 DEF Tick, Typed, WaiterType
  <2> QED
    BY <1>5, <2>1, LifeStutter DEF Tick
<1>6. CASE waiter' = waiter /\ sent' = sent /\ sessions' = sessions
  BY <1>1, <1>6
<1> QED
  BY <1>2, <1>3, <1>4, <1>5, <1>6, LifeWaiter
     DEF Next, PromoteConnection, Disconnect, vars

LEMMA LifeInit == Init => Life!Init
<1> SUFFICES ASSUME Init PROVE Life!Init
  OBVIOUS
<1>1. \A s \in Sids : waiter[s].pc = "unborn" /\ waiter[s].all = <<>>
  BY DEF Init, Unborn
<1>2. members = [s \in Sids |-> {}]
  BY <1>1 DEF members, Participants
<1> QED
  BY <1>1, <1>2 DEF Init, Life!Init, owner, status, verdict, Verdict

\* The relay does what SessionLife allows and nothing else: however requests,
\* background tasks and the reaper interleave between their locks, a session
\* is created once and ends once, one verdict is reached about it, and its
\* members are told nothing that contradicts it (service.rs).
THEOREM LifeImplemented == Spec => ImplementsLife
<1>1. Init => PollingInv
  BY DEF Init, PollingInv, Unborn
<1>2. Spec => []PollingInv
  BY <1>1, TypedCorrect, PollingNext, PTL DEF Spec
<1> QED
  BY <1>2, TypedCorrect, SpecOwner, LifeInit, LifeNext, PTL
     DEF Spec, ImplementsLife, Life!Spec

=============================================================================
