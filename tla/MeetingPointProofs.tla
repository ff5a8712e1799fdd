------------------------- MODULE MeetingPointProofs -------------------------
(***************************************************************************)
(* Proofs about MeetingPoint, for every set of clients and users, every    *)
(* number of meetings and every timeout.                                   *)
(***************************************************************************)
EXTENDS MeetingPoint, TLAPS

-----------------------------------------------------------------------------
(* Type correctness                                                        *)

Slot == {{}} \cup {{k} : k \in Keys}

Slots == UNION {[users -> Slot] : users \in SUBSET Users}

MeetingType == [slots : Slots, idle : 0..(Timeout + 1)]

Lists == UNION {[users -> Keys] : users \in SUBSET Users}

WaiterType ==
    [pc        : {"unborn", "poll", "found", "done"},
     target    : Lists,
     requested : SUBSET Users]

\* TypeOK says what the properties need; this is the whole shape.
ShapeInv ==
    /\ DOMAIN meetings \subseteq Mids
    /\ meetings \in [DOMAIN meetings -> MeetingType]
    /\ waiter \in [Mids -> WaiterType]
    /\ told \subseteq Mids \X Keys

LEMMA SlotsShape ==
    ASSUME NEW slots \in Slots
    PROVE  /\ DOMAIN slots \subseteq Users
           /\ slots \in [DOMAIN slots -> Slot]
           /\ \A u \in DOMAIN slots : slots[u] \in Slot
  BY DEF Slots

\* Meeting::join enters one key for one user and leaves the others alone.
LEMMA JoinShape ==
    ASSUME NEW meeting \in MeetingType, NEW u \in Users, NEW k \in Keys
    PROVE  /\ join(meeting, u, k) \in MeetingType
           /\ DOMAIN join(meeting, u, k).slots = DOMAIN meeting.slots \cup {u}
<1> DEFINE new == join(meeting, u, k).slots
<1>1. /\ DOMAIN meeting.slots \subseteq Users
      /\ \A v \in DOMAIN meeting.slots : meeting.slots[v] \in Slot
  BY SlotsShape DEF MeetingType
<1>2. new = [v \in DOMAIN meeting.slots \cup {u} |->
                IF v = u THEN {k} ELSE meeting.slots[v]]
  BY DEF join
<1>3. new \in [DOMAIN meeting.slots \cup {u} -> Slot]
  BY <1>1, <1>2 DEF Slot
<1>4. new \in Slots
  BY <1>1, <1>3 DEF Slots
<1> QED
  BY <1>2, <1>4, MeetingAssumption DEF join, MeetingType

\* A new meeting has the slots that were asked for, and its owner's.
LEMMA MeetingShape ==
    ASSUME NEW k \in Keys, NEW u \in Users, NEW slots \in SUBSET Users
    PROVE  /\ Meeting(k, u, slots) \in MeetingType
           /\ DOMAIN Meeting(k, u, slots).slots = slots \cup {u}
<1> DEFINE empty == [slots |-> [v \in slots |-> {}], idle |-> 0]
<1>1. [v \in slots |-> {}] \in [slots -> Slot]
  BY DEF Slot
<1>2. empty \in MeetingType
  BY <1>1, MeetingAssumption DEF MeetingType, Slots
<1> QED
  BY <1>2, JoinShape DEF Meeting

\* The list of a meeting; for a full one, it names every user with a slot.
LEMMA ParticipantsShape ==
    ASSUME NEW meeting \in MeetingType
    PROVE  /\ participants(meeting) \in Lists
           /\ is_full(meeting) =>
                  DOMAIN participants(meeting) = DOMAIN meeting.slots
<1> DEFINE taken == {u \in DOMAIN meeting.slots : meeting.slots[u] # {}}
<1>1. /\ DOMAIN meeting.slots \subseteq Users
      /\ \A u \in DOMAIN meeting.slots : meeting.slots[u] \in Slot
  BY SlotsShape DEF MeetingType
<1>2. \A u \in taken : (CHOOSE k \in meeting.slots[u] : TRUE) \in Keys
  BY <1>1 DEF Slot
<1>3. participants(meeting) \in [taken -> Keys]
  BY <1>2 DEF participants
<1>4. participants(meeting) \in Lists
  BY <1>1, <1>3 DEF Lists
<1> QED
  BY <1>3, <1>4 DEF is_full

LEMMA ShapeInit == Init => ShapeInv
<1>1. <<>> \in [{} -> Keys]
  OBVIOUS
<1>2. Unborn \in WaiterType
  BY <1>1 DEF Unborn, WaiterType, Lists
<1> QED
  BY <1>2 DEF Init, ShapeInv

LEMMA ShapeNext == ShapeInv /\ [Next]_vars => ShapeInv'
<1> SUFFICES ASSUME ShapeInv, [Next]_vars PROVE ShapeInv'
  OBVIOUS
<1>1. ASSUME NEW k \in Keys, NEW m \in Mids, NEW r \in Requests,
             NewMeetingRequest(k, m, r[1], r[2])
      PROVE  ShapeInv'
  <2>1. r[1] \in Users /\ r[2] \in SUBSET Users
    BY MeetingAssumption
  <2>2. meetings' \in [DOMAIN meetings \cup {m} -> MeetingType]
    BY <1>1, <2>1, MeetingShape DEF NewMeetingRequest, ShapeInv
  <2>3. [Unborn EXCEPT !.pc = "poll", !.requested = r[2]] \in WaiterType
    <3>1. <<>> \in [{} -> Keys]
      OBVIOUS
    <3> QED
      BY <2>1, <3>1 DEF Unborn, WaiterType, Lists
  <2> QED
    BY <1>1, <2>2, <2>3 DEF NewMeetingRequest, ShapeInv
<1>2. ASSUME NEW k \in Keys, NEW m \in Mids, NEW u \in Users,
             JoinMeeting(k, m, u)
      PROVE  ShapeInv'
  BY <1>2, JoinShape DEF JoinMeeting, ShapeInv
<1>3. ASSUME NEW m \in Mids, PollMeeting(m) PROVE ShapeInv'
  <2>0. waiter[m] \in WaiterType
    BY DEF ShapeInv
  <2>1. CASE waiter' = [waiter EXCEPT ![m].pc = "done"]
    BY <1>3, <2>0, <2>1 DEF PollMeeting, ShapeInv, WaiterType
  <2>2. CASE /\ m \in DOMAIN meetings
             /\ waiter' = [waiter EXCEPT ![m].pc = "found",
                               ![m].target = participants(meetings[m])]
    <3>1. participants(meetings[m]) \in Lists
      BY <2>2, ParticipantsShape DEF ShapeInv
    <3>2. [waiter[m] EXCEPT !.pc = "found",
                            !.target = participants(meetings[m])] \in WaiterType
      BY <2>0, <3>1 DEF WaiterType
    <3>3. waiter' \in [Mids -> WaiterType]
      BY <2>2, <3>2 DEF ShapeInv
    <3> QED
      BY <1>3, <3>3 DEF PollMeeting, ShapeInv
  <2> QED
    BY <1>3, <2>1, <2>2 DEF PollMeeting
<1>4. ASSUME NEW m \in Mids, NotifyMeetingReady(m) PROVE ShapeInv'
  <2>1. waiter[m] \in WaiterType
    BY DEF ShapeInv
  <2>2. waiter' \in [Mids -> WaiterType]
    BY <1>4, <2>1 DEF NotifyMeetingReady, ShapeInv, WaiterType
  <2>3. \A u \in DOMAIN waiter[m].target : waiter[m].target[u] \in Keys
    BY <2>1 DEF WaiterType, Lists
  <2>4. told' \subseteq Mids \X Keys
    BY <1>4, <2>3 DEF NotifyMeetingReady, ShapeInv
  <2> QED
    BY <1>4, <2>2, <2>4 DEF NotifyMeetingReady, ShapeInv
<1>5. CASE PurgeExpired
  BY <1>5 DEF PurgeExpired, ShapeInv
<1>6. CASE Tick
  <2>1. \A m \in DOMAIN meetings : age(meetings[m], Timeout) \in MeetingType
    BY MeetingAssumption DEF ShapeInv, MeetingType, age, expired
  <2> QED
    BY <1>6, <2>1 DEF Tick, ShapeInv
<1>7. CASE UNCHANGED vars
  BY <1>7 DEF vars, ShapeInv
<1> QED
  BY <1>1, <1>2, <1>3, <1>4, <1>5, <1>6, <1>7 DEF Next

LEMMA SpecShape == Spec => []ShapeInv
  BY ShapeInit, ShapeNext, PTL DEF Spec

\* A slot of a meeting is free or has one key, and only clients are told of
\* a meeting (protocol.rs, Meeting).
THEOREM TypeCorrect == Spec => []TypeOK
<1>1. ShapeInv => TypeOK
  <2> SUFFICES ASSUME ShapeInv PROVE TypeOK
    OBVIOUS
  <2>1. \A m \in DOMAIN meetings :
            /\ DOMAIN meetings[m].slots \subseteq Users
            /\ \A u \in DOMAIN meetings[m].slots : meetings[m].slots[u] \in Slot
            /\ meetings[m].idle \in 0..(Timeout + 1)
    BY SlotsShape DEF ShapeInv, MeetingType
  <2> QED
    BY <2>1 DEF ShapeInv, TypeOK, Slot
<1> QED
  BY <1>1, SpecShape, PTL

-----------------------------------------------------------------------------
(* MeetingReady                                                            *)

\* The inductive strengthening of AnnouncedListIsFinal and of
\* ReadyMeansEveryoneJoined: a meeting keeps the slots that were asked for,
\* and one whose list has been read is full, so that nobody joins it.
ReadyInv ==
    \A m \in Mids :
        /\ waiter[m].pc = "unborn" => m \notin DOMAIN meetings
        /\ m \in DOMAIN meetings =>
               /\ waiter[m].requested \subseteq DOMAIN meetings[m].slots
               /\ waiter[m].pc \in {"found", "done"} =>
                      /\ is_full(meetings[m])
                      /\ waiter[m].target = participants(meetings[m])
        /\ waiter[m].pc = "found" =>
               waiter[m].requested \subseteq DOMAIN waiter[m].target
        /\ \A k \in Keys : <<m, k>> \in told =>
               /\ waiter[m].pc = "done"
               /\ waiter[m].requested \subseteq DOMAIN waiter[m].target
               /\ \E u \in DOMAIN waiter[m].target : waiter[m].target[u] = k

\* Steps that only take meetings away or let time pass.
LEMMA ReadyFrame ==
    ASSUME ReadyInv, waiter' = waiter, told' = told,
           DOMAIN meetings' \subseteq DOMAIN meetings,
           \A m \in DOMAIN meetings' : meetings'[m].slots = meetings[m].slots
    PROVE  ReadyInv'
<1>1. \A m \in DOMAIN meetings' :
          /\ is_full(meetings[m]) => is_full(meetings'[m])
          /\ participants(meetings'[m]) = participants(meetings[m])
  BY DEF is_full, participants
<1> QED
  BY <1>1 DEF ReadyInv

LEMMA ReadyNext == ShapeInv /\ ReadyInv /\ [Next]_vars => ReadyInv'
<1> SUFFICES ASSUME ShapeInv, ReadyInv, [Next]_vars PROVE ReadyInv'
  OBVIOUS
<1>0. /\ waiter \in [Mids -> WaiterType]
      /\ \A m \in Mids : DOMAIN waiter[m] = DOMAIN Unborn
      /\ \A m \in DOMAIN meetings : meetings[m] \in MeetingType
      /\ DOMAIN meetings \subseteq Mids
  BY DEF ShapeInv, WaiterType, Unborn
<1>1. ASSUME NEW k \in Keys, NEW m \in Mids, NEW r \in Requests,
             NewMeetingRequest(k, m, r[1], r[2])
      PROVE  ReadyInv'
  <2>1. r[1] \in Users /\ r[2] \in SUBSET Users
    BY MeetingAssumption
  <2>2. /\ told' = told /\ waiter[m].pc = "unborn"
        /\ DOMAIN meetings' = DOMAIN meetings \cup {m}
        /\ meetings'[m] = Meeting(k, r[1], r[2])
        /\ \A x \in DOMAIN meetings \ {m} : meetings'[x] = meetings[x]
        /\ \A x \in Mids \ {m} : waiter'[x] = waiter[x]
        /\ waiter'[m].pc = "poll" /\ waiter'[m].requested = r[2]
    BY <1>0, <1>1 DEF NewMeetingRequest, Unborn
  <2>3. r[2] \subseteq DOMAIN meetings'[m].slots
    BY <2>1, <2>2, MeetingShape
  <2> QED
    BY <2>2, <2>3 DEF ReadyInv
<1>2. ASSUME NEW k \in Keys, NEW m \in Mids, NEW u \in Users,
             JoinMeeting(k, m, u)
      PROVE  ReadyInv'
  <2>1. /\ waiter' = waiter /\ told' = told
        /\ m \in DOMAIN meetings /\ ~is_full(meetings[m])
        /\ DOMAIN meetings' = DOMAIN meetings
        /\ meetings'[m] = join(meetings[m], u, k)
        /\ \A x \in DOMAIN meetings \ {m} : meetings'[x] = meetings[x]
    BY <1>0, <1>2 DEF JoinMeeting
  <2>2. DOMAIN meetings[m].slots \subseteq DOMAIN meetings'[m].slots
    BY <1>0, <2>1, JoinShape
  <2> QED
    BY <2>1, <2>2 DEF ReadyInv
<1>3. ASSUME NEW m \in Mids, PollMeeting(m) PROVE ReadyInv'
  <2>1. /\ meetings' = meetings /\ told' = told /\ waiter[m].pc = "poll"
        /\ \A x \in Mids \ {m} : waiter'[x] = waiter[x]
        /\ waiter'[m].requested = waiter[m].requested
    BY <1>0, <1>3 DEF PollMeeting, Unborn
  <2>2. \/ waiter'[m].pc = "done" /\ m \notin DOMAIN meetings
        \/ /\ waiter'[m].pc = "found"
           /\ waiter'[m].target = participants(meetings[m])
           /\ is_full(meetings[m]) /\ m \in DOMAIN meetings
    BY <1>0, <1>3 DEF PollMeeting, Unborn
  <2>3. m \in DOMAIN meetings /\ is_full(meetings[m]) =>
            waiter[m].requested \subseteq DOMAIN participants(meetings[m])
    BY <1>0, ParticipantsShape DEF ReadyInv
  <2> QED
    BY <2>1, <2>2, <2>3 DEF ReadyInv
<1>4. ASSUME NEW m \in Mids, NotifyMeetingReady(m) PROVE ReadyInv'
  <2>1. /\ meetings' = meetings /\ waiter[m].pc = "found"
        /\ \A x \in Mids \ {m} : waiter'[x] = waiter[x]
        /\ waiter'[m].pc = "done"
        /\ waiter'[m].requested = waiter[m].requested
        /\ waiter'[m].target = waiter[m].target
    BY <1>0, <1>4 DEF NotifyMeetingReady, Unborn
  <2>2. \A x \in Mids, k \in Keys : <<x, k>> \in told' =>
            \/ <<x, k>> \in told
            \/ x = m /\ \E u \in DOMAIN waiter[m].target : waiter[m].target[u] = k
    BY <1>4 DEF NotifyMeetingReady
  <2> QED
    BY <2>1, <2>2 DEF ReadyInv
<1>5. CASE PurgeExpired
  BY <1>5, ReadyFrame DEF PurgeExpired
<1>6. CASE Tick
  <2>1. \A m \in DOMAIN meetings :
            age(meetings[m], Timeout).slots = meetings[m].slots
    BY <1>0 DEF age, MeetingType
  <2> QED
    BY <1>6, <2>1, ReadyFrame DEF Tick
<1>7. CASE UNCHANGED vars
  BY <1>7, ReadyFrame DEF vars
<1> QED
  BY <1>1, <1>2, <1>3, <1>4, <1>5, <1>6, <1>7 DEF Next

LEMMA SpecReady == Spec => []ReadyInv
<1>1. Init => ReadyInv
  BY DEF Init, ReadyInv, Unborn
<1> QED
  BY <1>1, SpecShape, ReadyNext, PTL DEF Spec

\* The list that MeetingReady announces stays the list of the meeting
\* (wait_for_meeting_ready, JoinMeeting): the poll and the notification are
\* separate steps, and nothing that happens in between changes it.
THEOREM ListIsFinal == Spec => []AnnouncedListIsFinal
<1>1. ShapeInv /\ ReadyInv => AnnouncedListIsFinal
  BY DEF ShapeInv, ReadyInv, AnnouncedListIsFinal
<1> QED
  BY <1>1, SpecShape, SpecReady, PTL

\* MeetingReady is only heard once every user the owner asked for has
\* joined, and only by those on the list (notify_meeting_ready).
THEOREM EveryoneJoined == Spec => []ReadyMeansEveryoneJoined
<1>1. ReadyInv => ReadyMeansEveryoneJoined
  BY DEF ReadyInv, ReadyMeansEveryoneJoined
<1> QED
  BY <1>1, SpecReady, PTL

=============================================================================
