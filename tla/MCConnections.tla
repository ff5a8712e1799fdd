--------------------------- MODULE MCConnections ---------------------------
(* Connections for two or three websockets.                                *)
EXTENDS Connections, TLC

CONSTANTS C1, C2, C3, A, B

\* Two clients.
MCTwoClients == (C1 :> A) @@ (C2 :> B)

\* One client that connects twice.
MCOneClient == (C1 :> A) @@ (C2 :> A)

\* The same, and a client that is denied.
MCOneDenied == (C1 :> A) @@ (C2 :> A) @@ (C3 :> B)

\* One client with one connection.
MCSingle == (C1 :> A)

\* The two connections of one client are interchangeable.
MCSymmetry == Permutations({C1, C2})

============================================================================
