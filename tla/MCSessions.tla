----------------------------- MODULE MCSessions -----------------------------
(* Sessions for small sets of clients and sessions.                        *)
EXTENDS SessionsLife

CONSTANTS A, B, C

\* A asks for a session with B and C.
MCThreeParties == {<<A, <<B, C>>>>}

\* The pairs the three drivers register.
MCThreePairs == {<<A, B>>, <<A, C>>, <<B, C>>}

\* Either client asks for a session with the other.
MCTwoParties == {<<A, <<B>>>>, <<B, <<A>>>>}

MCTwoPairs == {<<A, B>>, <<B, A>>}

=============================================================================
