---------------------------- MODULE SessionsLife ----------------------------
(* Sessions implements SessionLife.                                        *)
EXTENDS Sessions

\* A verdict is reached when the waiting task stops polling for it.
Verdict(w) ==
    IF w.pc \notin {"found", "notify", "done"} THEN "none"
    ELSE IF w.msg = "SessionActive" THEN "active"
    ELSE IF w.msg = "SessionTimeout" THEN "timeout"
    ELSE IF w.pc = "done" THEN "silent" ELSE "none"

members == [s \in Sids |-> Participants(s)]

owner == [s \in Sids |-> IF waiter[s].pc = "unborn" THEN {}
                         ELSE {waiter[s].all[1]}]

status == [s \in Sids |-> IF waiter[s].pc = "unborn" THEN "none"
                          ELSE IF s \in DOMAIN sessions THEN "live"
                          ELSE "gone"]

verdict == [s \in Sids |-> Verdict(waiter[s])]

Life == INSTANCE SessionLife WITH
    members <- members, owner <- owner, status <- status,
    verdict <- verdict, told <- sent

\* The requests, the background tasks and the reaper of the relay, in any
\* order, do what SessionLife allows and nothing else: in particular a session
\* found active still exists at that moment, SessionReady is never told once
\* the verdict is reached, and SessionFinished never before the session is gone.
ImplementsLife == Life!Spec

=============================================================================
