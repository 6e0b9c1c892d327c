----------------------------- MODULE MCAccounts -----------------------------
(* A small instance of Accounts for TLC: a and b are in, c comes.          *)
EXTENDS Accounts, TLC

CONSTANTS ca, cb, cc

MCClient  == {ca, cb, cc}
MCAccount == {"", "a", "b", "abox", "list", "1"}
MCBox     == ("a" :> "abox") @@ ("b" :> "bbox") @@ ("abox" :> "aboxbox")
               @@ ("list" :> "listbox") @@ ("1" :> "1box") @@ ("" :> "box")
MCKey     == MCAccount \cup {MCBox[n] : n \in MCAccount}
MCAccounts0 == ("a" :> "1") @@ ("b" :> "1")
MCSession0  == (ca :> "a") @@ (cb :> "b")
MCLines   == {"", "a", "abox", "list", "1"}

=============================================================================
