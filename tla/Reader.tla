------------------------------- MODULE Reader -------------------------------
(***************************************************************************)
(* read.c and the reply objects of hiredis.c: the parser that takes the    *)
(* server's bytes as they come, in pieces of any size, and hands out one   *)
(* reply at a time.  A reader r holds the bytes fed (buf), the place of    *)
(* the next unread one (pos), a stack of tasks, one for each level of      *)
(* nesting it is inside of, of the tasks allocated for it, and the reply   *)
(* under construction.  After an error the buffer is freed and the stack   *)
(* is empty.                                                               *)
(***************************************************************************)
EXTENDS Sds, Integers, SequencesExt

CONSTANTS
    LLongMax,      \* LLONG_MAX; ULLONG_MAX is one more than twice that
    MaxElements,   \* REDIS_READER_MAX_ARRAY_ELEMENTS
    MaxBuf,        \* REDIS_READER_MAX_BUF
    Discard,       \* the consumed bytes from which the buffer is cut, 1024
    StackSize,     \* REDIS_READER_STACK_SIZE
    DoubleBuf,     \* processLineItem()'s buffer for a double, 326
    Doubles        \* the lines strtod() and the three names take as doubles

ASSUME ReaderAssumption ==
    /\ {LLongMax, MaxElements, MaxBuf, Discard, DoubleBuf} \subseteq Nat \ {0}
    /\ StackSize \in Nat \ {0}

TypeOf == [b \in {"-", "+", ":", ",", "_", "$", "*", "%", "~", "#", "=", ">", "("} |->
    CASE b = "-" -> "ERROR"  [] b = "+" -> "STATUS" [] b = ":" -> "INTEGER"
      [] b = "," -> "DOUBLE" [] b = "_" -> "NIL"    [] b = "$" -> "STRING"
      [] b = "*" -> "ARRAY"  [] b = "%" -> "MAP"    [] b = "~" -> "SET"
      [] b = "#" -> "BOOL"   [] b = "=" -> "VERB"   [] b = ">" -> "PUSH"
      [] b = "(" -> "BIGNUM"]

Aggregates == {"ARRAY", "MAP", "SET", "PUSH"}
NoReply == [type |-> "none"]   \* NULL
Nil == [type |-> "NIL"]
EmptyTask == [type |-> "unknown", elements |-> -1, idx |-> 0]

redisReaderCreate ==
    [buf |-> sdsempty, pos |-> 0, err |-> "none", stack |-> <<>>, tasks |-> StackSize,
     reply |-> NoReply]

SetReaderError(r, type) ==
    [r EXCEPT !.buf = sdsempty, !.pos = 0, !.err = type, !.stack = <<>>, !.reply = NoReply]

OK(r) == [ok |-> TRUE, r |-> r]
ERR(r) == [ok |-> FALSE, r |-> r]
ProtocolError(r) == ERR(SetReaderError(r, "PROTOCOL"))

Unread(r) == SubSeq(r.buf.data, r.pos + 1, Len(r.buf.data))

\* Bug: a \r with nothing behind it yet ends a line.
seekNewlineAtEnd(s) ==
    LET at == {i \in 1..Len(s) : s[i] = "\r" /\ (i = Len(s) \/ s[i + 1] = "\n")}
    IN IF at = {} THEN 0 ELSE CHOOSE i \in at : \A j \in at : i <= j

\* The place of the first \r that a \n follows, 0 if there is none yet.
seekNewline(s) ==
    LET at == {i \in 1..(Len(s) - 1) : s[i] = "\r" /\ s[i + 1] = "\n"}
    IN IF at = {} THEN 0 ELSE CHOOSE i \in at : \A j \in at : i <= j

NotANumber == -1

\* One digit more in string2ll()'s unsigned accumulator, which must not wrap.
Accumulate(v, c) ==
    LET d == CHOOSE k \in 0..9 : Digit[k + 1] = c
        max == 2 * LLongMax + 1
    IN IF v = NotANumber \/ c \notin Range(Digit) \/ v > max \div 10 \/ v * 10 > max - d
       THEN NotANumber ELSE v * 10 + d

Number(bad, value) == [ok |-> ~bad, value |-> IF bad THEN 0 ELSE value]

\* What string2ll() makes of a sign, digits and the accumulator after them.
Signed(negative, digits, v) ==
    Number(\/ digits = <<>>
           \/ digits[1] = "0" /\ (negative \/ Len(digits) > 1)
           \/ v = NotANumber
           \/ v > (IF negative THEN LLongMax + 1 ELSE LLongMax),
           IF negative THEN -v ELSE v)

\* The value of some digits, if they are digits and it does not wrap.
Value(digits) ==
    LET v[i \in 0..Len(digits)] == IF i = 0 THEN 0 ELSE Accumulate(v[i - 1], digits[i])
    IN v[Len(digits)]

\* The number that line is, strictly; ok is FALSE if it is none.
string2ll(line) ==
    IF line # <<>> /\ line[1] = "-"
    THEN Signed(TRUE, Tail(line), Value(Tail(line)))
    ELSE Signed(FALSE, line, Value(line))

\* The tree with obj where path, a sequence of indexes, leads: the objects
\* on the path, from the root, and what becomes of them, from obj.
Put(tree, path, obj) ==
    LET on[i \in 0..Len(path)] ==
          IF i = 0 THEN tree ELSE on[i - 1].element[path[i] + 1]
        with[i \in 0..Len(path)] ==
          IF i = Len(path) THEN obj ELSE [on[i] EXCEPT !.element[path[i + 1] + 1] = with[i + 1]]
    IN with[0]

\* The create functions put an object in its parent's element[idx]; without
\* a parent it is the reply.
Place(r, obj) ==
    [r EXCEPT !.reply = Put(@, [i \in 1..(Len(r.stack) - 1) |-> r.stack[i + 1].idx], obj)]

\* The stack after the item on top of it: the tasks that were their parents'
\* last are gone, the one below them goes on to its next element.
moveToNextTask(stack) ==
    LET more == {i \in 2..Len(stack) : stack[i].idx # stack[i - 1].elements - 1}
    IN IF more = {} THEN <<>>
       ELSE LET i == CHOOSE k \in more : \A j \in more : j <= k
            IN Append(SubSeq(stack, 1, i - 1), [EmptyTask EXCEPT !.idx = stack[i].idx + 1])

Finish(r, obj, pos) ==
    OK([Place(r, obj) EXCEPT !.pos = pos, !.stack = moveToNextTask(@)])

(***************************************************************************)
(* The three kinds of items.  Each takes a reader whose top task has its   *)
(* type and the place s of the next line's end, or 0, among the unread     *)
(* bytes, and changes nothing if the bytes it needs are not all there.     *)
(***************************************************************************)
BoolObject(value) == [type |-> "BOOL", bool |-> value]
IntegerObject(value) == [type |-> "INTEGER", integer |-> value]
TextObject(type, str) == [type |-> type, str |-> str]

\* The byte '\0'.  strchr("tTfF", c) finds it too, at the end of "tTfF".
Nul == "NUL"

LineObject(type, line) ==
    CASE type = "NIL" -> IF line = <<>> THEN Nil ELSE NoReply
      [] type = "BOOL" ->
            IF line \in {<<b>> : b \in {"t", "T", "f", "F", Nul}}
            THEN BoolObject(line[1] \in {"t", "T"}) ELSE NoReply
      [] type = "INTEGER" ->
            IF string2ll(line).ok THEN IntegerObject(string2ll(line).value) ELSE NoReply
      [] type \in {"DOUBLE", "BIGNUM", "ERROR", "STATUS"} ->
            IF \/ type = "DOUBLE" /\ line \in Doubles /\ Len(line) < DoubleBuf
               \/ type = "BIGNUM" /\ \A i \in DOMAIN line :
                                        line[i] \in Range(Digit) \/ (i = 1 /\ line[i] = "-")
               \/ type \in {"ERROR", "STATUS"} /\ Range(line) \cap {"\r", "\n"} = {}
            THEN TextObject(type, line) ELSE NoReply

FinishLine(r, obj, s) ==
    IF obj = NoReply THEN ProtocolError(r) ELSE Finish(r, obj, r.pos + s + 1)

processLineItem(r, s) ==
    IF s = 0 THEN ERR(r)
    ELSE FinishLine(r, LineObject(Last(r.stack).type, SubSeq(Unread(r), 1, s - 1)), s)

\* A verbatim string starts with three characters of type and a ':'.
BulkObject(type, str) ==
    IF type = "VERB"
    THEN [type |-> type, vtype |-> SubSeq(str, 1, 3), str |-> SubSeq(str, 5, Len(str))]
    ELSE TextObject(type, str)

\* The place of the last byte of a bulk of len bytes, the \r\n included.
BulkEnd(pos, s, len) == pos + s + 1 + len + 2

FinishBulk(r, type, str, end) ==
    IF type = "VERB" /\ (Len(str) < 4 \/ str[4] # ":") THEN ProtocolError(r)
    ELSE Finish(r, BulkObject(type, str), end)

Bulk(r, s, n) ==
    IF ~n.ok \/ n.value < -1 THEN ProtocolError(r)
    ELSE IF n.value = -1 THEN Finish(r, Nil, r.pos + s + 1)
    ELSE IF BulkEnd(r.pos, s, n.value) > Len(r.buf.data) THEN ERR(r)
    ELSE FinishBulk(r, Last(r.stack).type, SubSeq(Unread(r), s + 2, s + 1 + n.value),
                    BulkEnd(r.pos, s, n.value))

processBulkItem(r, s) ==
    IF s = 0 THEN ERR(r) ELSE Bulk(r, s, string2ll(SubSeq(Unread(r), 1, s - 1)))

redisReaderGrow(r) == IF Len(r.stack) = r.tasks THEN [r EXCEPT !.tasks = @ + StackSize] ELSE r

ArrayObject(type, elements) == [type |-> type, element |-> [i \in 1..elements |-> NoReply]]

\* An array of elements items: the first of them is next.
Enter(r, obj, elements, pos) ==
    IF elements = 0 THEN Finish(r, obj, pos)
    ELSE OK([Place(r, obj) EXCEPT
              !.pos = pos,
              !.stack = Append([@ EXCEPT ![Len(@)].elements = elements], EmptyTask)])

Aggregate(r, type, n, pos) ==
    LET elements == IF type = "MAP" THEN 2 * n.value ELSE n.value
    IN IF ~n.ok \/ n.value < -1 \/ n.value > MaxElements THEN ProtocolError(r)
       ELSE IF n.value = -1 THEN Finish(r, Nil, pos)
       ELSE Enter(r, ArrayObject(type, elements), elements, pos)

processAggregateItem(r, s) ==
    IF s = 0 THEN ERR(r)
    ELSE Aggregate(r, Last(r.stack).type, string2ll(SubSeq(Unread(r), 1, s - 1)), r.pos + s + 1)

ProcessTyped(r, s) ==
    CASE Last(r.stack).type \in Aggregates -> processAggregateItem(redisReaderGrow(r), s)
      [] Last(r.stack).type \in {"STRING", "VERB"} -> processBulkItem(r, s)
      [] Last(r.stack).type \notin Aggregates \cup {"STRING", "VERB"} -> processLineItem(r, s)

\* The item's type byte, if it has not been read.
ReadType(r) ==
    IF Last(r.stack).type # "unknown" THEN OK(r)
    ELSE IF Unread(r) = <<>> THEN ERR(r)
    ELSE IF Head(Unread(r)) \notin DOMAIN TypeOf THEN ProtocolError(r)
    ELSE OK([r EXCEPT !.pos = @ + 1, !.stack[Len(r.stack)].type = TypeOf[Head(Unread(r))]])

Typed(p) == IF p.ok THEN ProcessTyped(p.r, seekNewline(Unread(p.r))) ELSE p
processItem(r) == Typed(ReadType(r))

\* One item after another, each of which takes a byte at least.
NextItem(p) == IF p.ok /\ p.r.stack # <<>> THEN processItem(p.r) ELSE p
ProcessItems(r) ==
    LET items[i \in 0..(Len(Unread(r)) + 1)] ==
          IF i = 0 THEN OK(r) ELSE NextItem(items[i - 1])
    IN items[Len(Unread(r)) + 1].r

\* Bug: the cursor is left where it was when the buffer is cut.
CutKeepsCursor(r) ==
    IF r.pos >= Discard THEN [r EXCEPT !.buf = DropFirst(@, r.pos)] ELSE r

\* The consumed part of the buffer goes when there is enough of it.
Cut(r) ==
    IF r.pos >= Discard THEN [r EXCEPT !.buf = DropFirst(@, r.pos), !.pos = 0] ELSE r

\* A call's result: whether it failed, the reader, the reply if there is one.
Emit(r) ==
    [ok |-> r.err = "none",
     r |-> IF r.stack = <<>> THEN [r EXCEPT !.reply = NoReply] ELSE r,
     reply |-> IF r.stack = <<>> THEN r.reply ELSE NoReply]

redisReaderGetReply(r) ==
    IF r.err # "none" \/ r.buf.data = <<>>
    THEN [ok |-> r.err = "none", r |-> r, reply |-> NoReply]
    ELSE Emit(Cut(ProcessItems(IF r.stack # <<>> THEN r
                               ELSE [r EXCEPT !.stack = <<[EmptyTask EXCEPT !.idx = -1]>>])))

redisReaderFeed(r, bytes) ==
    LET idle == r.buf.data = <<>> /\ sdsavail(r.buf) > MaxBuf
        buf == IF idle THEN sdsempty ELSE r.buf
    IN IF r.err # "none" THEN r ELSE [r EXCEPT !.buf = sdscatlen(buf, bytes)]

ReaderOK(r) ==
    /\ SdsOK(r.buf)
    /\ r.pos \in 0..Len(r.buf.data)
    /\ Len(r.stack) <= r.tasks
=============================================================================
