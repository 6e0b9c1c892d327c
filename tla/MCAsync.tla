------------------------------ MODULE MCAsync ------------------------------
(***************************************************************************)
(* Values for Async: two channels whose hashes collide in a table of two   *)
(* and a pattern, and programs that use the library in different ways.     *)
(***************************************************************************)
EXTENDS Async

MCHash == [name \in {"a", "b", "p", "none"} |->
             CASE name = "a" -> 1 [] name = "b" -> 3 [] OTHER -> 2]

Op(kind, v, names) == [kind |-> kind, v |-> v, names |-> names, big |-> FALSE, first |-> "STRING"]
Get == Op("regular", "none", <<>>)
Range3 == [Get EXCEPT !.big = TRUE, !.first = "INTEGER"]
Sub(v, names) == Op("subscribe", v, names)
Unsub(v, names) == Op("unsubscribe", v, names)

Plain == [ops |-> {Get}, commands |-> 2, extras |-> 0, resp3 |-> FALSE, noautofree |-> FALSE,
          separate |-> FALSE, breaks |-> TRUE, ends |-> TRUE, freeInPush |-> FALSE,
          ticksOn |-> FALSE,
          connect_timeout |-> FALSE, command_timeout |-> FALSE]

MCOptions == {
    [Plain EXCEPT !.connect_timeout = TRUE, !.command_timeout = TRUE],
    [Plain EXCEPT !.connect_timeout = TRUE, !.noautofree = TRUE],
    [Plain EXCEPT !.ops = {Get, Sub("channel", <<"a">>), Unsub("channel", <<"a">>)},
                  !.extras = 1, !.commands = 4, !.breaks = FALSE, !.ends = FALSE],
    [Plain EXCEPT !.ops = {Get, Sub("channel", <<"a", "b">>), Sub("pattern", <<"p">>),
                           Unsub("channel", <<>>)},
                  !.resp3 = TRUE, !.extras = 1, !.commands = 3, !.breaks = FALSE,
                  !.ends = FALSE],
    [Plain EXCEPT !.ops = {Sub("channel", <<"a", "b">>), Unsub("channel", <<"b">>)},
                  !.resp3 = TRUE, !.extras = 1, !.commands = 2],
    [Plain EXCEPT !.ops = {Get, Range3, Sub("channel", <<"a">>), Unsub("channel", <<"a">>)},
                  !.separate = TRUE, !.commands = 3, !.breaks = FALSE],
    [Plain EXCEPT !.ops = {Op("monitor", "none", <<>>)}, !.extras = 2, !.commands = 1]}
=============================================================================
