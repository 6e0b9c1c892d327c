------------------------------ MODULE MCGroups ------------------------------
(* Small instances of Groups for TLC.                                      *)
EXTENDS Groups, TLC

CONSTANTS p1, p2, p3

ThreeChildren == {p1, p2, p3}
Sessions      == (p1 :> "a") @@ (p2 :> "b") @@ (p3 :> "c")
MCNames       == {"a", "b", "c", "g"}
MCRank        == ("a" :> 1) @@ ("b" :> 2) @@ ("c" :> 3) @@ ("g" :> 4)
OneGroup      == {"g"}
SomeMembers   == {<<"b">>, <<"c">>, <<"b", "c">>, <<"c", "a">>}
All           == {"createGroup", "delGroup", "addTo", "leaveGroup", "remove"}

=============================================================================
