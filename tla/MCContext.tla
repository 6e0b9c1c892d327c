----------------------------- MODULE MCContext -----------------------------
(***************************************************************************)
(* Values for Context: commands that need quoting, an empty argument, one  *)
(* of ten bytes and an invalid format; replies of each kind, with \r\n in  *)
(* them and inside of each other.                                          *)
(***************************************************************************)
EXTENDS Context

Ten == <<"a", "b", "c", "d", "e", "f", "g", "h", "i", "j">>

MCCalls == {
    [api |-> "format", fmt |-> <<"G", " ", "%", "s">>, args |-> <<<<"a", " ">>>>,
     argv |-> <<<<"G">>, <<"a", " ">>>>],
    [api |-> "format", fmt |-> <<"%", "l", "d", "%", "%", " ", "%", "s">>, args |-> <<<<"7">>, <<>>>>,
     argv |-> <<<<"7", "%">>, <<>>>>],
    [api |-> "argv", fmt |-> <<>>, args |-> <<>>, argv |-> <<Ten>>],
    [api |-> "invalid", fmt |-> <<"G", " ", "%", "h">>, args |-> <<>>, argv |-> <<>>]}

\* The hypothesis of ServerReadsCommands (ContextProofs).
ASSUME CallsMean

Status == [type |-> "STATUS", str |-> <<"K">>]
Lines == [type |-> "STRING", str |-> <<"\r", "\n">>]
Integer == [type |-> "INTEGER", integer |-> -8]
Others == <<[type |-> "BOOL", bool |-> TRUE],
            [type |-> "VERB", vtype |-> <<"t", "x", "t">>, str |-> <<"v">>],
            [type |-> "DOUBLE", str |-> <<"1">>],
            [type |-> "BIGNUM", str |-> <<"9", "9", "9">>]>>
Array(type, items) == [type |-> type, element |-> items]
Pair == Array("MAP", <<Status, Nil>>)

MCAnswers == {Lines, Nil, Array("ARRAY", <<Pair, Integer>>), Array("SET", <<>>),
              Array("ARRAY", Others)}
MCPushes == {Array("PUSH", <<Status>>)}
MCReplies == MCAnswers \cup MCPushes \cup {Status, Integer, Pair} \cup Range(Others)

TCP == [type |-> "TCP", bits |-> {}, callback |-> FALSE, source |-> FALSE, timeout |-> FALSE,
        commands |-> 1, connects |-> 1, extras |-> 0, answers |-> {Status, Lines}]

MCOptions == {
    [TCP EXCEPT !.answers = MCAnswers, !.connects = 2],
    [TCP EXCEPT !.commands = 2],
    [TCP EXCEPT !.extras = 1],
    [TCP EXCEPT !.type = "UNIX", !.timeout = TRUE, !.bits = {NO_PUSH_AUTOFREE}, !.extras = 1],
    [TCP EXCEPT !.bits = {NONBLOCK, REUSEADDR}, !.source = TRUE, !.callback = TRUE,
                !.commands = 2],
    [TCP EXCEPT !.type = "USERFD", !.connects = 2]}

MCMalformed == {<<"?">>, <<":", "9">> \o CRLF, <<"*", "7">> \o CRLF, <<"_", "x">> \o CRLF,
                <<"=", "3", "\r", "\n", "t", "x", "t">> \o CRLF}

\* The hypothesis of RepliesStayInOrder and NothingIsWithheld (ContextProofs).
ASSUME RepliesParse

MCDoubles == {<<"1">>, <<"i", "n", "f">>}
MCLimits == <<2, 8, 32, 128>>
=============================================================================
