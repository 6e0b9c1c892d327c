----------------------------- MODULE MCSessions -----------------------------
(* Small instances of Sessions for TLC.                                    *)
EXTENDS SessionsProperties, TLC

CONSTANTS c1, c2, c3

TwoClients   == {c1, c2}
ThreeClients == {c1, c2, c3}
Symmetric2   == Permutations(TwoClients)
Symmetric3   == Permutations(ThreeClients)

OneName    == {"n"}
TwoNames   == {"n", "m"}
MCGroups  == {"g"}
MCMembers == [g \in MCGroups |-> {"n"}]

JustHi   == {Hi}
AllTexts == {Hi, Null, Empty}

=============================================================================
