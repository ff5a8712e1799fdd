---------------------------- MODULE MeetingPoint ----------------------------
(***************************************************************************)
(* Meeting points on the relay (protocol/src/protocol.rs, Meeting and      *)
(* MeetingManager; server/src/service.rs, NewMeeting, JoinMeeting and      *)
(* wait_for_meeting_ready; the reaper of server/src/server.rs).            *)
(*                                                                         *)
(* A meeting lets clients that only know each other's user identifiers     *)
(* learn each other's public keys: the owner asks for one slot per user,   *)
(* clients join, and when no slot is free everyone is sent the keys.       *)
(*                                                                         *)
(* Every section under the state lock is one step.  The table of           *)
(* connections is left to Connections: a notification reaches some of the  *)
(* participants.  Requests that fail change nothing.                       *)
(***************************************************************************)
EXTENDS Protocol

CONSTANTS
    Keys,       \* public keys of clients
    Users,      \* user identifiers
    Mids,       \* meeting identifiers
    Requests,   \* the (owner_id, slots) pairs of NewMeeting
    Timeout     \* SessionConfig::timeout, used for meetings as well

ASSUME MeetingAssumption ==
    /\ Timeout \in Nat
    /\ Requests \subseteq Users \X SUBSET Users

VARIABLES
    meetings,   \* MeetingManager::meetings
    waiter,     \* wait_for_meeting_ready of each meeting
    told        \* the MeetingReady messages queued, <<meeting, key>>

vars == <<meetings, waiter, told>>

\* The task polls until it finds the meeting full or gone; `target` is the
\* MeetingState it then sends.  `requested` is not stored by the program: it
\* records the slots of the request for the properties.
Unborn == [pc |-> "unborn", target |-> <<>>, requested |-> {}]

Init ==
    /\ meetings = [m \in {} |-> {}]
    /\ waiter = [m \in Mids |-> Unborn]
    /\ told = {}

NewMeetingRequest(key, m, owner_id, slots) ==
    /\ waiter[m].pc = "unborn"
    /\ meetings' = [x \in DOMAIN meetings \cup {m} |->
           IF x = m THEN Meeting(key, owner_id, slots) ELSE meetings[x]]
    /\ waiter' = [waiter EXCEPT ![m] =
           [Unborn EXCEPT !.pc = "poll", !.requested = slots]]
    /\ UNCHANGED told

\* A slip: a full meeting can still be joined.
JoinAlways(key, m, user_id) ==
    /\ m \in DOMAIN meetings
    /\ meetings' = [meetings EXCEPT ![m] = join(@, user_id, key)]
    /\ UNCHANGED <<waiter, told>>

\* Neither the user identifier nor the slot it has is looked at.
JoinMeeting(key, m, user_id) ==
    /\ m \in DOMAIN meetings
    /\ ~is_full(meetings[m])
    /\ meetings' = [meetings EXCEPT ![m] = join(@, user_id, key)]
    /\ UNCHANGED <<waiter, told>>

\* A slip: the task goes on when the meeting is gone.
PollMeetingForever(m) ==
    /\ waiter[m].pc = "poll"
    /\ m \in DOMAIN meetings
    /\ is_full(meetings[m])
    /\ waiter' = [waiter EXCEPT
           ![m].pc = "found", ![m].target = participants(meetings[m])]
    /\ UNCHANGED <<meetings, told>>

PollMeeting(m) ==
    /\ waiter[m].pc = "poll"
    /\ \/ /\ m \notin DOMAIN meetings
          /\ waiter' = [waiter EXCEPT ![m].pc = "done"]
       \/ /\ m \in DOMAIN meetings
          /\ is_full(meetings[m])
          /\ waiter' = [waiter EXCEPT
                 ![m].pc = "found", ![m].target = participants(meetings[m])]
    /\ UNCHANGED <<meetings, told>>

\* notify_meeting_ready; the task ends after it, also on an error.
NotifyMeetingReady(m) ==
    /\ waiter[m].pc = "found"
    /\ \E reached \in SUBSET {waiter[m].target[u] : u \in DOMAIN waiter[m].target} :
           told' = told \cup {<<m, key>> : key \in reached}
    /\ waiter' = [waiter EXCEPT ![m].pc = "done"]
    /\ UNCHANGED meetings

PurgeExpired ==
    /\ meetings' = [m \in {x \in DOMAIN meetings :
                           ~expired(meetings[x], Timeout)} |-> meetings[m]]
    /\ UNCHANGED <<waiter, told>>

Tick ==
    /\ meetings' = [m \in DOMAIN meetings |-> age(meetings[m], Timeout)]
    /\ UNCHANGED <<waiter, told>>

Next ==
    \/ \E key \in Keys, m \in Mids, request \in Requests :
           NewMeetingRequest(key, m, request[1], request[2])
    \/ \E key \in Keys, m \in Mids, user_id \in Users :
           JoinMeeting(key, m, user_id)
    \/ \E m \in Mids : PollMeeting(m)
    \/ \E m \in Mids : NotifyMeetingReady(m)
    \/ PurgeExpired
    \/ Tick

Spec == Init /\ [][Next]_vars

\* The interval task, the reaper and the clock go on; clients need not act.
\* This takes the state lock to become free again and again, and room in the
\* channels of the participants (see Connections for when they do).
Fairness ==
    /\ \A m \in Mids : WF_vars(PollMeeting(m)) /\ WF_vars(NotifyMeetingReady(m))
    /\ WF_vars(PurgeExpired)
    /\ WF_vars(Tick)

FairSpec == Spec /\ Fairness

-----------------------------------------------------------------------------

TypeOK ==
    /\ DOMAIN meetings \subseteq Mids
    /\ \A m \in DOMAIN meetings :
           /\ DOMAIN meetings[m].slots \subseteq Users
           /\ \A u \in DOMAIN meetings[m].slots :
                  /\ meetings[m].slots[u] \subseteq Keys
                  /\ \A j, k \in meetings[m].slots[u] : j = k
           /\ meetings[m].idle \in 0..(Timeout + 1)
    /\ told \subseteq Mids \X Keys

\* MeetingReady announces a list that stays right: the meeting was full when
\* the task looked, nobody can join a full meeting, so as long as the meeting
\* exists its participants are the ones announced.
AnnouncedListIsFinal ==
    \A m \in DOMAIN meetings :
        waiter[m].pc \in {"found", "done"} =>
            waiter[m].target = participants(meetings[m])

\* Nobody hears MeetingReady before every user the owner asked for has
\* joined, and nobody hears it who is not on the list.  More users than that
\* may be on it: Meeting::join takes any identifier and knows no limit.
ReadyMeansEveryoneJoined ==
    \A m \in Mids : \A k \in Keys :
        <<m, k>> \in told =>
            /\ waiter[m].requested \subseteq DOMAIN waiter[m].target
            /\ \E u \in DOMAIN waiter[m].target : waiter[m].target[u] = k

\* wait_for_meeting_ready has no timeout of its own: it relies on the reaper
\* to end it.  As long as the reaper gets the state lock, a task that polls
\* for ever polls a meeting that is joined again and again.
WaitersEnd ==
    \A m \in Mids :
        <>[](waiter[m].pc = "poll") =>
            []<>(m \in DOMAIN meetings /\ meetings[m].idle = 0)

=============================================================================
