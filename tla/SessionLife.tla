---------------------------- MODULE SessionLife -----------------------------
(***************************************************************************)
(* What the relay promises about a session, without its locks, tasks and   *)
(* clocks (ServerMessage in protocol/src/protocol.rs): a session is        *)
(* created once and ends once; one verdict is reached about it, or none    *)
(* because it has ended; and members are told nothing that contradicts the *)
(* verdict.                                                                *)
(***************************************************************************)
CONSTANTS
    Keys,       \* clients
    Sids        \* session identifiers

VARIABLES
    members,    \* the members of each session
    owner,      \* its owner, an Option
    status,     \* "none", "live" or "gone"
    verdict,    \* "none", "active", "timeout", or "silent"
    told        \* <<message, session, member>>

vars == <<members, owner, status, verdict, told>>

Init ==
    /\ members = [s \in Sids |-> {}]
    /\ owner = [s \in Sids |-> {}]
    /\ status = [s \in Sids |-> "none"]
    /\ verdict = [s \in Sids |-> "none"]
    /\ told = {}

Create(s) ==
    /\ status[s] = "none"
    /\ \E k \in Keys, others \in SUBSET Keys :
           /\ owner' = [owner EXCEPT ![s] = {k}]
           /\ members' = [members EXCEPT ![s] = {k} \cup others]
    /\ status' = [status EXCEPT ![s] = "live"]
    /\ UNCHANGED <<verdict, told>>

\* Closed by its owner, or unused for too long.
End(ended) ==
    /\ \A s \in ended : status[s] = "live"
    /\ status' = [s \in Sids |-> IF s \in ended THEN "gone" ELSE status[s]]
    /\ UNCHANGED <<members, owner, verdict, told>>

\* A session that has ended is never found active, and no other session is
\* left without an answer.
Decide(s) ==
    /\ status[s] # "none" /\ verdict[s] = "none"
    /\ \/ verdict' = [verdict EXCEPT ![s] = "timeout"]
       \/ status[s] = "live" /\ verdict' = [verdict EXCEPT ![s] = "active"]
       \/ status[s] = "gone" /\ verdict' = [verdict EXCEPT ![s] = "silent"]
    /\ UNCHANGED <<members, owner, status, told>>

May(message, s, k) ==
    \/ message = "SessionCreated" /\ owner[s] = {k}
    \/ message = "SessionReady" /\ k \in members[s] /\ verdict[s] = "none"
    \/ message = "SessionActive" /\ k \in members[s] /\ verdict[s] = "active"
    \/ message = "SessionTimeout" /\ k \in members[s] /\ verdict[s] = "timeout"
    \/ message = "SessionFinished" /\ owner[s] = {k} /\ status[s] = "gone"

Tell(message, s, k) ==
    /\ May(message, s, k)
    /\ told' = told \cup {<<message, s, k>>}
    /\ UNCHANGED <<members, owner, status, verdict>>

Messages == {"SessionCreated", "SessionReady", "SessionActive",
             "SessionTimeout", "SessionFinished"}

Next ==
    \/ \E s \in Sids : Create(s) \/ Decide(s)
    \/ \E ended \in SUBSET Sids : End(ended)
    \/ \E message \in Messages, s \in Sids, k \in Keys : Tell(message, s, k)

Spec == Init /\ [][Next]_vars

=============================================================================
