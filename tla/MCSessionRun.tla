---------------------------- MODULE MCSessionRun ----------------------------
(* SessionRun for up to three participants.  The key shares A, B and C have *)
(* are the first, second and third.                                        *)
EXTENDS SessionRun, TLC

CONSTANTS A, B, C

MCKeys == {A, B, C}
MCIndex == A :> 1 @@ B :> 2 @@ C :> 3

Keygen(parties) == [op |-> "keygen", parties |-> parties, threshold |-> 1]
Sign(parties) ==
    [op |-> "sign", parties |-> parties, threshold |-> Len(parties) - 1]

\* Three clients make a key, and two of them sign.  The last two sessions list
\* the signers against the order of their shares, one of them with a signer
\* that has the same number in both orders.
MCJobs == {Keygen(<<A, B, C>>), Sign(<<A, C>>), Sign(<<C, B>>),
           Sign(<<A, C, B>>)}
MCKeygenThree == {Keygen(<<A, B, C>>)}
MCSignThree == {Sign(<<A, B, C>>)}

=============================================================================
