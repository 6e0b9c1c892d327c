---------------------------- MODULE MCSessionsV2 ----------------------------
(* A small instance of SessionsV2 for TLC.                                 *)
EXTENDS SessionsV2, TLC

CONSTANTS c1, c2

TwoClients == {c1, c2}
MCNames      == {"no_name", "n"}
MCMembers    == [g \in {} |-> {}]
AllTexts     == {Hi, Null, Empty}

ASSUME SessionsV2Assumption

=============================================================================
