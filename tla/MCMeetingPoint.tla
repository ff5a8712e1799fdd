--------------------------- MODULE MCMeetingPoint ---------------------------
(* MeetingPoint for three clients, four users and up to three slots.       *)
EXTENDS MeetingPoint

CONSTANTS u1, u2, u3, u4

\* As the documentation of NewMeeting asks, the owner is one of the users.
MCRequests == {<<u1, {u1}>>, <<u1, {u1, u2}>>, <<u2, {u1, u2, u3}>>}

=============================================================================
