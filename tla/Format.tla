------------------------------- MODULE Format -------------------------------
(***************************************************************************)
(* The commands hiredis sends: redisvFormatCommand(), which reads a        *)
(* printf-like format, and redisFormatSdsCommandArgv().  A format is a     *)
(* sequence of characters; an argument is the text its conversion yields.  *)
(***************************************************************************)
EXTENDS Sds, Integers, SequencesExt

CONSTANTS
    FormatSize,   \* the size of _format, the copy of one conversion
    StaticBuf     \* the size of sdscatvprintf()'s first buffer

CRLF == <<"\r", "\n">>

\* Bug: ten has one digit.
countDigitsOff(v) == IF v <= 10 THEN 1 ELSE Len(Decimal[v])

countDigits(v) == Len(Decimal[v])

bulklen(len) == 1 + countDigits(len) + 2 + len + 2

\* What is computed, before the command is built, as its length.
TotalLength(argv) ==
    LET n[i \in 0..Len(argv)] ==
          IF i = 0 THEN 1 + countDigits(Len(argv)) + 2 ELSE n[i - 1] + bulklen(Len(argv[i]))
    IN n[Len(argv)]

BulkOf(arg) == <<"$">> \o Decimal[Len(arg)] \o CRLF \o arg \o CRLF

\* The command at protocol level.
Command(argv) ==
    LET cmd[i \in 0..Len(argv)] ==
          IF i = 0 THEN <<"*">> \o Decimal[Len(argv)] \o CRLF ELSE cmd[i - 1] \o BulkOf(argv[i])
    IN cmd[Len(argv)]

Flags == {"#", "0", "-", "+", " "}
IntConversions == {"d", "i", "o", "u", "x", "X"}
Conversions == IntConversions \cup {"e", "E", "f", "F", "g", "G", "a", "A"}

\* The first place from i on whose character is not in set, past the end if
\* there is none.
Skip(fmt, i, set) ==
    CHOOSE k \in i..(Len(fmt) + 1) :
        /\ k <= Len(fmt) => fmt[k] \notin set
        /\ \A j \in i..(k - 1) : fmt[j] \in set

\* Where the conversion that starts at i, after its '%', ends; 0 if it is none.
SpecEnd(fmt, i) ==
    LET At(k) == IF k <= Len(fmt) THEN fmt[k] ELSE "end"
        width == Skip(fmt, Skip(fmt, i, Flags), Range(Digit))
        p == IF At(width) = "." THEN Skip(fmt, width + 1, Range(Digit)) ELSE width
        size == CASE At(p) \in {"h", "l"} /\ At(p + 1) = At(p) -> 2
                  [] At(p) \in {"h", "l"} /\ At(p + 1) # At(p) -> 1
                  [] OTHER -> 0
    IN IF At(p + size) \in (IF size = 0 THEN Conversions ELSE IntConversions)
       THEN p + size ELSE 0

(***************************************************************************)
(* An iteration of the loop over the format: w is the state of its         *)
(* variables, the next character's place, the arguments left, the finished *)
(* words, the one in progress and whether anything touched it.             *)
(***************************************************************************)
Iteration(fmt, w) ==
    LET Arg == Head(w.args)
        \* An interpolation counts as part of the word, even an empty one.
        Word(s, at, args) == [w EXCEPT !.at = at, !.args = args, !.cur = s, !.touched = TRUE]
    IN IF w.bad \/ w.at > Len(fmt) THEN w
       ELSE IF fmt[w.at] # "%" \/ w.at = Len(fmt)
       THEN IF fmt[w.at] # " "
            THEN [w EXCEPT !.at = @ + 1, !.touched = TRUE,
                           !.cur = sdscatlen(@, <<fmt[w.at]>>)]
            ELSE IF w.touched
            THEN [w EXCEPT !.at = @ + 1, !.touched = FALSE, !.cur = sdsempty,
                           !.argv = Append(@, w.cur.data)]
            ELSE [w EXCEPT !.at = @ + 1]
       ELSE LET end == SpecEnd(fmt, w.at + 1)
            IN CASE fmt[w.at + 1] \in {"s", "b"} ->
                        Word(IF Arg # <<>> THEN sdscatlen(w.cur, Arg) ELSE w.cur,
                             w.at + 2, Tail(w.args))
                 [] fmt[w.at + 1] = "%" ->
                        [w EXCEPT !.at = @ + 2, !.touched = TRUE,
                                  !.cur = sdscatlen(@, <<"%">>)]
                 [] fmt[w.at + 1] \notin {"s", "b", "%"} /\ end = 0 ->
                        [w EXCEPT !.bad = TRUE]
                 [] fmt[w.at + 1] \notin {"s", "b", "%"} /\ end > 0 ->
                        IF end + 1 - w.at < FormatSize - 2
                        THEN Word(sdscatvprintf(w.cur, Arg, StaticBuf), end + 1, Tail(w.args))
                        ELSE Word(w.cur, w.at + 2, Tail(w.args))

\* The loop, which takes a character at least each time.
Words(fmt, args) ==
    LET w[i \in 0..Len(fmt)] ==
          IF i = 0 THEN [at |-> 1, args |-> args, argv |-> <<>>, cur |-> sdsempty,
                         touched |-> FALSE, bad |-> FALSE]
          ELSE Iteration(fmt, w[i - 1])
    IN w[Len(fmt)]

\* The argument vector, the last word included; bad if the format is not one.
Parsed(fmt, args) ==
    LET w == Words(fmt, args)
    IN [bad |-> w.bad, argv |-> IF w.touched THEN Append(w.argv, w.cur.data) ELSE w.argv]

\* The command's bytes and the length computed for them; -2 if the format
\* is not one.
Built(p) ==
    IF p.bad THEN [len |-> -2, cmd |-> <<>>]
    ELSE [len |-> TotalLength(p.argv), cmd |-> Command(p.argv)]
redisvFormatCommand(fmt, args) == Built(Parsed(fmt, args))

\* The same from an argument vector, built in a string that has room for all.
redisFormatSdsCommandArgv(argv) ==
    LET Counted(s, b, n) == CatPiece(CatPiece(CatPiece(CatPiece(s, <<b>>), Decimal[n]),
                                              <<"\r">>), <<"\n">>)
        Cat(s, arg) == sdscatlen(sdscatlen(Counted(s, "$", Len(arg)), arg), CRLF)
        cmd[i \in 0..Len(argv)] ==
          IF i = 0 THEN Counted(sdsMakeRoomFor(sdsempty, TotalLength(argv)), "*", Len(argv))
          ELSE Cat(cmd[i - 1], argv[i])
    IN [len |-> TotalLength(argv), cmd |-> cmd[Len(argv)].data]
=============================================================================
