------------------------------ MODULE Protocol ------------------------------
(***************************************************************************)
(* The data structures of protocol/src/protocol.rs that the relay and the  *)
(* clients share: SessionState (what a client is told about a session),    *)
(* Session (what the relay stores about it) and Meeting (a meeting point). *)
(*                                                                         *)
(* A public key is any value.  Vec<Vec<u8>> is a sequence of keys,         *)
(* HashSet a set, and Option<T> a set with at most one element.            *)
(*                                                                         *)
(* A time stamp such as last_access only matters by its distance from the  *)
(* present, so it is kept as that distance: `idle` is the time since       *)
(* last_access, counted up to the first value at which the entry has       *)
(* expired.                                                                *)
(***************************************************************************)
EXTENDS Integers, Sequences

-----------------------------------------------------------------------------
(* SessionState: `all` is the field all_participants, owner first.         *)

\* A participant vector without repeated keys.  The documentation of
\* SessionRequest asks the initiator for it.
DistinctKeys(all) ==
    \A i, j \in DOMAIN all : i # j => all[i] # all[j]

\* A slip: the position counts from 0 as in the vector.
party_number_from_zero(all, own_key) ==
    IF \E i \in DOMAIN all : all[i] = own_key
    THEN (CHOOSE i \in DOMAIN all : all[i] = own_key) - 1
    ELSE 0

\* Position of the first occurrence of own_key, counted from 1; 0 is None.
party_number(all, own_key) ==
    IF \E i \in DOMAIN all : all[i] = own_key
    THEN CHOOSE i \in DOMAIN all :
            /\ all[i] = own_key
            /\ \A j \in DOMAIN all : all[j] = own_key => i <= j
    ELSE 0

peer_key(all, number) ==
    {all[i] : i \in {j \in DOMAIN all : j = number}}

\* A slip: every peer is dialled, not only the later ones.
connections_to_everyone(all, own_key) ==
    SelectSeq(all, LAMBDA key : key # own_key)

\* A slip: the peers before own_key are dialled.
connections_to_earlier(all, own_key) ==
    SubSeq(all, 1, party_number(all, own_key) - 1)

\* A slip: the first of the later peers is left out.
connections_off_by_one(all, own_key) ==
    SubSeq(all, party_number(all, own_key) + 2, Len(all))

\* The peers that own_key must dial: the ones after it in the vector.
connections(all, own_key) ==
    LET own == party_number(all, own_key)
    IN IF own = 0 THEN <<>> ELSE SubSeq(all, own + 1, Len(all))

\* The recipients of a broadcast of own_key: the others, in their order.
recipients(all, own_key) ==
    LET kept[i \in 0..Len(all)] ==
            IF i = 0 THEN <<>>
            ELSE IF all[i] = own_key THEN kept[i - 1]
            ELSE Append(kept[i - 1], all[i])
    IN kept[Len(all)]

-----------------------------------------------------------------------------
(* Session                                                                 *)

Session(owner_key, participant_keys) ==
    [owner_key        |-> owner_key,
     participant_keys |-> participant_keys,
     connections      |-> {},
     idle             |-> 0]

public_keys(session) == {session.owner_key} \cup session.participant_keys

register_connection(session, peer, other) ==
    [session EXCEPT !.connections = @ \cup {<<peer, other>>}]

check_connection(connected, peer, all) ==
    \A key \in all \ {peer} :
        <<peer, key>> \in connected \/ <<key, peer>> \in connected

\* A slip: only the owner's connections are looked at.
is_active_owner_only(session) ==
    check_connection(session.connections, session.owner_key,
                     public_keys(session))

is_active(session) ==
    \A key \in public_keys(session) :
        check_connection(session.connections, key, public_keys(session))

touch(session) == [session EXCEPT !.idle = 0]

\* expired_keys: last_access + timeout < now.
expired(entry, timeout) == entry.idle > timeout

\* One unit of time passes for a stored session or meeting.
age(entry, timeout) ==
    IF expired(entry, timeout) THEN entry ELSE [entry EXCEPT !.idle = @ + 1]

-----------------------------------------------------------------------------
(* Meeting: slots maps user identifiers to Option<public key>.             *)

\* A slip: the key is added to the slot, not put in place of the old one.
join_keeps_old(meeting, user_id, public_key) ==
    [slots |-> [user \in DOMAIN meeting.slots \cup {user_id} |->
                   (IF user = user_id THEN {public_key} ELSE {}) \cup
                   (IF user \in DOMAIN meeting.slots
                    THEN meeting.slots[user] ELSE {})],
     idle  |-> 0]

join(meeting, user_id, public_key) ==
    [slots |-> [user \in DOMAIN meeting.slots \cup {user_id} |->
                   IF user = user_id THEN {public_key}
                   ELSE meeting.slots[user]],
     idle  |-> 0]

Meeting(owner_key, owner_id, slots) ==
    join([slots |-> [user \in slots |-> {}], idle |-> 0], owner_id, owner_key)

\* A slip: one taken slot is enough.
is_full_any(meeting) ==
    \E user \in DOMAIN meeting.slots : meeting.slots[user] # {}

is_full(meeting) ==
    \A user \in DOMAIN meeting.slots : meeting.slots[user] # {}

\* The vector of registered keys: one entry per user whose slot is taken,
\* in the unspecified order of the hash map.
participants(meeting) ==
    [user \in {u \in DOMAIN meeting.slots : meeting.slots[u] # {}} |->
        CHOOSE key \in meeting.slots[user] : TRUE]

=============================================================================
