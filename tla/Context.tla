------------------------------ MODULE Context ------------------------------
(***************************************************************************)
(* A hiredis context, from redisConnectWithOptions() to redisFree():       *)
(* hiredis.c and net.c, over the parser of Reader and the formatter of     *)
(* Format, against a server that reads commands and answers them in order, *)
(* may push, close, send what is not the protocol, or reset.  The sockets  *)
(* carry bytes; send() and recv() take and give as many as they like, and  *)
(* may be interrupted, time out or fail.  malloc() does not fail.          *)
(*                                                                         *)
(* pc is where the library is in the call the program made; "idle" is      *)
(* between calls.  ret is what the last call returned.                     *)
(***************************************************************************)
EXTENDS Format, Reader

CONSTANTS
    Options,       \* the ways the program connects, each with its bounds: the
                   \* commands it appends, the connections it makes and the
                   \* pushes, malformed replies and signals of a run, and the
                   \* server's answers
    Calls,         \* its commands: a format, its arguments, the meaning
    Replies,       \* what it may send, and the parts of that
    Pushes,        \* what it may push
    Malformed,     \* bytes that are no reply
    Addresses,     \* how many addresses the host name has
    Retries,       \* REDIS_CONNECT_RETRIES
    Sent, Read     \* bound: the sizes of pieces send() and recv() move, or all

redisOptions ==
    [type : {"TCP", "UNIX", "USERFD"}, bits : SUBSET Nat, callback : BOOLEAN, source : BOOLEAN,
     timeout : BOOLEAN, commands : Nat, connects : Nat, extras : Nat, answers : SUBSET Replies]

ASSUME ContextAssumption ==
    /\ Options \subseteq redisOptions
    /\ Calls \subseteq [api : {"format", "argv", "invalid"}, fmt : Seq(STRING),
                        args : Seq(Seq(STRING)), argv : Seq(Seq(STRING))]
    /\ Pushes \subseteq Replies
    /\ Addresses \in Nat /\ Retries \in Nat /\ Sent \subseteq Nat /\ Read \subseteq Nat

VARIABLES
    c,          \* the redisContext
    options,    \* the redisOptions it was made with
    pc, ret,
    try,        \* the address tried, from 1, and reuses
    net,        \* by descriptor, the socket and both directions of its bytes
    appended,   \* the commands appended since the connection was made
    served,     \* how many of them the server has read
    answered,   \* what it has sent, as replies
    handed,     \* what the library gave out, and to whom
    extras, connects

vars == <<c, options, pc, ret, try, net, appended, served, answered, handed, extras, connects>>
wire == <<net, served, answered>>
talk == <<appended, served, answered, handed>>

Fds == 1..2
NoFd == 0
Free == [peer |-> "free", up |-> <<>>, down |-> <<>>]

\* The option bits, of which two pairs are the same.
NONBLOCK == 1
REUSEADDR == 2
PREFER_IPV6 == 8
NO_PUSH_AUTOFREE == 8

Block == NONBLOCK \notin options.bits
Reuse == REUSEADDR \in options.bits
HasPushCallback == options.callback \/ NO_PUSH_AUTOFREE \notin options.bits

(***************************************************************************)
(* The protocol on the wire, as the server speaks it.                      *)
(***************************************************************************)
Wire(argv) ==
    <<"*">> \o Decimal[Len(argv)] \o CRLF \o
      FlattenSeq([i \in 1..Len(argv) |->
                    <<"$">> \o Decimal[Len(argv[i])] \o CRLF \o argv[i] \o CRLF])

ByteOf(type) == CHOOSE b \in DOMAIN TypeOf : TypeOf[b] = type

Encode[reply \in Replies] ==
    LET t == <<ByteOf(reply.type)>>
    IN CASE reply.type \in Aggregates ->
                t \o Decimal[Len(reply.element) \div (IF reply.type = "MAP" THEN 2 ELSE 1)] \o CRLF
                  \o FlattenSeq([i \in 1..Len(reply.element) |-> Encode[reply.element[i]]])
         [] reply.type = "STRING" -> t \o Decimal[Len(reply.str)] \o CRLF \o reply.str \o CRLF
         [] reply.type = "VERB" -> t \o Decimal[4 + Len(reply.str)] \o CRLF
                                     \o reply.vtype \o <<":">> \o reply.str \o CRLF
         [] reply.type = "INTEGER" ->
                t \o (IF reply.integer < 0 THEN <<"-">> \o Decimal[-reply.integer]
                      ELSE Decimal[reply.integer]) \o CRLF
         [] reply.type = "BOOL" -> t \o (IF reply.bool THEN <<"t">> ELSE <<"f">>) \o CRLF
         [] reply.type = "NIL" -> t \o CRLF
         [] OTHER -> t \o reply.str \o CRLF

\* RESP2's two ways to say nil.
OldNil == {<<"$", "-", "1">> \o CRLF, <<"*", "-", "1">> \o CRLF}

\* The ways a server spells a reply.
Spelled(reply) == {Encode[reply]} \cup (IF reply = Nil THEN OldNil ELSE {})

\* What the server sends is bytes.
ASSUME ServerAssumption ==
    /\ Malformed \subseteq Seq(STRING)
    /\ \A reply \in Replies : Encode[reply] \in Seq(STRING)
Bad == [type |-> "malformed"]

\* The parser undoes what the server does to a single reply: its bytes alone,
\* in one piece, give that reply and nothing is left of them.  Of bytes that
\* are no reply it makes none.
Alone(bytes) == redisReaderGetReply(redisReaderFeed(redisReaderCreate, bytes))
Gives(bytes, reply) ==
    Alone(bytes).ok /\ Alone(bytes).reply = reply /\ Unread(Alone(bytes).r) = <<>>
RepliesParse ==
    /\ NoReply \notin Replies
    /\ \A reply \in Replies : \A bytes \in Spelled(reply) : Gives(bytes, reply)
    /\ \A bytes \in Malformed : ~Alone(bytes).ok

(***************************************************************************)
(* Results of the library's steps.                                         *)
(***************************************************************************)
Return(result) == pc' = "idle" /\ ret' = result
Go(step) == pc' = step /\ ret' = IF step = "idle" THEN "OK" ELSE ret
SetError(e) == c' = [c EXCEPT !.err = e]
Close(fd) == [net EXCEPT ![fd] = Free]

redisContextInit ==
    [fd |-> NoFd, err |-> "none", connected |-> FALSE, obuf |-> sdsempty,
     reader |-> redisReaderCreate]

Init ==
    /\ c = redisContextInit
    /\ options \in Options
    /\ pc = "new" /\ ret = "none"
    /\ try = [addr |-> 1, reuses |-> 0]
    /\ net = [fd \in Fds |-> Free]
    /\ appended = <<>> /\ served = 0 /\ answered = <<>> /\ handed = <<>>
    /\ extras = 0 /\ connects = 0

\* The start of a connection attempt; what was said on the last is forgotten.
Begin(step) ==
    /\ Go(step)
    /\ connects' = connects + 1
    /\ try' = [addr |-> 1, reuses |-> 0]
    /\ appended' = <<>> /\ served' = 0 /\ answered' = <<>> /\ handed' = <<>>
    /\ UNCHANGED <<options, extras>>

redisConnectWithOptions ==
    /\ pc = "new"
    /\ IF options.type = "USERFD"
       THEN /\ c' = [c EXCEPT !.fd = 1, !.connected = TRUE]
            /\ net' = [net EXCEPT ![1].peer = "open"]
            /\ Begin("timeout")
       ELSE Begin(options.type) /\ UNCHANGED <<c, net>>

\* connection_type is REDIS_CONN_TCP, zero, in a context made from a
\* descriptor; the name looked up is then NULL.
ConnectionType == IF options.type = "UNIX" THEN "UNIX" ELSE "TCP"

\* Bug: the parser keeps what it was in the middle of.
ReconnectedKeepsReader == [c EXCEPT !.err = "none", !.fd = NoFd, !.obuf = sdsempty]

\* The context with its buffers made anew.
Reconnected == [c EXCEPT !.err = "none", !.fd = NoFd, !.obuf = sdsempty,
                         !.reader = redisReaderCreate]

redisReconnect ==
    /\ pc = "idle" /\ connects < options.connects
    /\ c' = Reconnected
    /\ net' = IF c.fd = NoFd THEN net ELSE Close(c.fd)
    /\ Begin(ConnectionType)

redisFree ==
    /\ pc = "idle"
    /\ pc' = "freed" /\ ret' = "none"
    /\ net' = IF c.fd = NoFd THEN net ELSE Close(c.fd)
    /\ c' = [redisContextInit EXCEPT !.err = "freed"]
    /\ UNCHANGED <<options, try, extras, connects>>
    /\ appended' = <<>> /\ served' = 0 /\ answered' = <<>> /\ handed' = <<>>

(***************************************************************************)
(* net.c: a connection attempt.  Every step but the last may fail.         *)
(***************************************************************************)
NewFd == CHOOSE fd \in Fds : net[fd].peer = "free" /\ \A f \in Fds : net[f].peer = "free" => fd <= f
HasFd == \E fd \in Fds : net[fd].peer = "free"

Attempt(fd, peer) == [net EXCEPT ![fd].peer = peer]
unsaid == <<options, appended, served, answered, handed, extras, connects>>

\* An attempt that ends with error e: with the socket closed, or left in
\* the context, connected to nothing.
Closing(e) ==
    /\ c' = [c EXCEPT !.err = e, !.fd = NoFd]
    /\ net' = IF c.fd = NoFd THEN net ELSE Close(c.fd)
    /\ Go("failed") /\ UNCHANGED <<try, unsaid>>
Keeping(e, fd) ==
    /\ c' = [c EXCEPT !.err = e, !.fd = fd]
    /\ net' = Attempt(fd, "unconnected")
    /\ Go("failed") /\ UNCHANGED <<try, unsaid>>

\* No address to try, or none left; a timeout that is none.
NoAddress ==
    /\ pc = "TCP"
    /\ \/ try.addr = 1 /\ try.reuses = 0 /\ Closing("IO")
       \/ try.addr = 1 /\ try.reuses = 0 /\ Closing("OTHER")
       \/ try.addr > Addresses /\ Closing("OTHER")

SocketFails ==
    /\ pc = "TCP" /\ try.addr <= Addresses
    /\ try' = [try EXCEPT !.addr = @ + 1]
    /\ UNCHANGED <<c, net, pc, ret, unsaid>>

\* What may go wrong with a new socket before connect().
SocketUnusable ==
    /\ pc = "TCP" /\ try.addr <= Addresses /\ HasFd
    /\ \/ Closing("IO")
       \/ options.source /\ Keeping("OTHER", NewFd)
       \/ options.source /\ Reuse /\ Keeping("none", NewFd)

\* Bug: the socket of an unreachable address is not closed.
UnreachableLeft(fd) == Attempt(fd, "unconnected")

Unreachable(fd) == net

Connectable == options.type # "USERFD"

\* connect(), and what is done for each of its results.
TcpConnect ==
    /\ pc = "TCP" /\ try.addr <= Addresses /\ HasFd
    /\ UNCHANGED unsaid
    /\ \/ /\ Connectable
          /\ c' = [c EXCEPT !.fd = NewFd]
          /\ net' = Attempt(NewFd, "open")
          /\ Go("established") /\ UNCHANGED try
       \/ /\ Connectable \* EINPROGRESS
          /\ c' = [c EXCEPT !.fd = NewFd]
          /\ net' = Attempt(NewFd, "pending")
          /\ Go(IF Block THEN "wait" ELSE "established") /\ UNCHANGED try
       \/ /\ Connectable \* EHOSTUNREACH
          /\ net' = Unreachable(NewFd)
          /\ try' = [try EXCEPT !.addr = @ + 1]
          /\ UNCHANGED <<c, pc, ret>>
       \/ /\ Connectable /\ Reuse /\ try.reuses + 1 < Retries \* EADDRNOTAVAIL
          /\ try' = [try EXCEPT !.reuses = @ + 1]
          /\ UNCHANGED <<c, net, pc, ret>>
       \/ Connectable /\ Reuse /\ try.reuses + 1 >= Retries /\ Keeping("none", NewFd)
       \/ Closing("IO")

UnixConnect ==
    /\ pc = "UNIX"
    /\ UNCHANGED unsaid
    /\ \/ Closing("IO")
       \/ HasFd /\ Keeping("IO", NewFd) \* the timeout is none
       \/ /\ HasFd
          /\ c' = [c EXCEPT !.fd = NewFd]
          /\ \E peer \in {"open", "pending"} :
                /\ net' = Attempt(NewFd, peer)
                /\ Go(IF peer = "pending" /\ Block THEN "wait" ELSE "established")
          /\ UNCHANGED try

\* poll(), then redisCheckConnectDone() and, if it is not done,
\* redisCheckSocketError(), which does not close.
redisContextWaitReady ==
    /\ pc = "wait"
    /\ \/ Closing("IO")
       \/ Keeping("IO", c.fd)
       \/ /\ net' = Attempt(c.fd, "open")
          /\ Go(IF options.type = "TCP" THEN "nodelay" ELSE "established")
          /\ UNCHANGED <<c, try, unsaid>>

redisSetTcpNoDelay ==
    /\ pc = "nodelay"
    /\ \/ Closing("IO")
       \/ Go("established") /\ UNCHANGED <<c, net, try, unsaid>>

Established ==
    /\ pc = "established"
    /\ \/ Block /\ Closing("IO")
       \/ c' = [c EXCEPT !.connected = TRUE] /\ Go("timeout") /\ UNCHANGED <<net, try, unsaid>>

\* Then the command timeout is set, if the context has a descriptor,
\* whatever became of the connection; whether that fails is not returned.
redisContextSetTimeout ==
    /\ pc \in {"timeout", "failed"}
    /\ Return(IF pc = "failed" THEN "ERR" ELSE "OK")
    /\ UNCHANGED <<net, try, unsaid>>
    /\ \/ UNCHANGED c
       \/ options.timeout /\ Block /\ c.fd # NoFd /\ SetError("IO")

redisSetTimeout ==
    /\ pc = "idle" /\ Block /\ ~options.timeout
    /\ UNCHANGED <<net, pc, try, appended, served, answered, handed, extras, connects>>
    /\ \/ c.fd # NoFd /\ options' = [options EXCEPT !.timeout = TRUE] /\ ret' = "OK" /\ UNCHANGED c
       \/ options' = [options EXCEPT !.timeout = TRUE] /\ SetError("IO") /\ ret' = "ERR"

(***************************************************************************)
(* Appending commands.                                                     *)
(***************************************************************************)
\* What a call puts into the output buffer: a format, or an argument vector.
Formatted(call) ==
    IF call.api = "argv" THEN redisFormatSdsCommandArgv(call.argv)
    ELSE redisvFormatCommand(call.fmt, call.args)

\* A call means the vector that its format and arguments spell: that is what
\* the program wrote it for.  An invalid format spells none.
Means(call) ==
    LET p == Parsed(call.fmt, call.args)
    IN  /\ call.api = "format" => p = [bad |-> FALSE, argv |-> call.argv]
        /\ call.api = "invalid" => p.bad
CallsMean == \A call \in Calls : Means(call)

\* The call, which leaves the library for good, or goes on waiting for the
\* reply (redisCommand() in a blocking context).
redisAppendCommand(call, wait) ==
    \E f \in {Formatted(call)} :
       /\ pc = "idle" /\ Len(appended) < options.commands
       /\ IF f.len = -2
          THEN /\ c' = [c EXCEPT !.err = "OTHER"]
               /\ Return("ERR") /\ UNCHANGED appended
          ELSE /\ c' = [c EXCEPT !.obuf = sdscatlen(@, SubSeq(f.cmd, 1, f.len))]
               /\ appended' = Append(appended, call.argv)
               /\ IF wait /\ Block THEN Go("get") ELSE Return("OK")
       /\ UNCHANGED <<options, try, net, served, answered, handed, extras, connects>>

\* redisGetReply().  A blocking program calls it when a reply is due: it
\* would wait for ever otherwise.
Due == Len(SelectSeq(handed, LAMBDA h : h.to = "program")) < Len(appended)
redisGetReply ==
    /\ pc = "idle"
    /\ Block => Due \/ c.err # "none"
    /\ Go("get")
    /\ UNCHANGED <<c, options, try, wire, appended, handed, extras, connects>>

(***************************************************************************)
(* Reading and writing.                                                    *)
(***************************************************************************)
\* Nothing comes of send() and recv() for now.
Signal == extras < options.extras /\ extras' = extras + 1
Usable == c.fd # NoFd /\ net[c.fd].peer \in {"open", "shut"}
Pieces(sizes, bytes) == {n \in sizes \cup {Len(bytes)} : n \in 1..Len(bytes)}
Unsent == UNCHANGED <<c, net>>
IoError == options.timeout \/ c.fd = NoFd \/ (c.fd # NoFd /\ net[c.fd].peer = "unconnected")

\* Bug: what was not sent is taken for sent.
AfterWriteAll(n) == sdsempty

AfterWrite(n) == IF n = Len(c.obuf.data) THEN sdsempty ELSE DropFirst(c.obuf, n)

\* redisBufferWrite(): goes to step done when the buffer is empty, to step
\* more when there is something left.
BufferWrite(done, more) ==
    /\ UNCHANGED <<options, try, talk, connects>>
    /\ \/ /\ c.err # "none"
          /\ Return("ERR") /\ UNCHANGED <<c, net, extras>>
       \/ /\ c.err = "none" /\ c.obuf.data = <<>>
          /\ Go(done) /\ UNCHANGED <<c, net, extras>>
       \/ /\ c.err = "none" /\ c.obuf.data # <<>>
          /\ \/ /\ Usable
                /\ \E n \in Pieces(Sent, c.obuf.data) :
                      /\ net' = [net EXCEPT ![c.fd].up = @ \o SubSeq(c.obuf.data, 1, n)]
                      /\ c' = [c EXCEPT !.obuf = AfterWrite(n)]
                      /\ Go(IF n = Len(c.obuf.data) THEN done ELSE more)
                /\ UNCHANGED extras
             \/ Signal /\ Go(more) /\ Unsent
             \/ ~Block /\ Go(more) /\ Unsent /\ UNCHANGED extras
             \/ IoError /\ SetError("IO") /\ Return("ERR") /\ UNCHANGED <<net, extras>>

\* redisBufferRead(): goes to step next after what was read was fed.
BufferRead(next) ==
    LET down == net[c.fd].down
        Fails(e) == SetError(e) /\ Return("ERR") /\ UNCHANGED <<net, extras>>
    IN /\ UNCHANGED <<options, try, talk, connects>>
       /\ \/ c.err # "none" /\ Return("ERR") /\ UNCHANGED <<c, net, extras>>
          \/ /\ c.err = "none" /\ Usable
             /\ \E n \in Pieces(Read, down) :
                   /\ c' = [c EXCEPT !.reader = redisReaderFeed(@, SubSeq(down, 1, n))]
                   /\ net' = [net EXCEPT ![c.fd].down = SubSeq(down, n + 1, Len(down))]
             /\ Go(next) /\ UNCHANGED extras
          \/ c.err = "none" /\ Signal /\ Go(next) /\ Unsent
          \/ c.err = "none" /\ ~Block /\ Go(next) /\ Unsent /\ UNCHANGED extras
          \/ c.err = "none" /\ Usable /\ down = <<>> /\ net[c.fd].peer = "shut" /\ Fails("EOF")
          \/ c.err = "none" /\ IoError /\ (Usable => down = <<>>) /\ Fails("IO")

\* A RESP3 push goes to the callback, everything else to the program.
IsPush(reply) == reply.type = "PUSH" /\ HasPushCallback

\* redisNextInBandReplyFromReader(): a reply, an error, or, at step none,
\* nothing yet.
NextInBandReply(none) ==
    \E got \in {redisReaderGetReply(c.reader)} :
        /\ c' = [c EXCEPT !.reader = got.r, !.err = IF got.ok THEN @ ELSE got.r.err]
        /\ UNCHANGED <<options, try, wire, appended, extras, connects>>
        /\ IF ~got.ok THEN Return("ERR") /\ UNCHANGED handed
           ELSE IF got.reply = NoReply
           THEN (IF Block THEN Go(none) ELSE Return("OK")) /\ UNCHANGED handed
           ELSE IF IsPush(got.reply)
           THEN /\ handed' = Append(handed, [to |-> "callback", reply |-> got.reply])
                /\ UNCHANGED <<pc, ret>>
           ELSE /\ handed' = Append(handed, [to |-> "program", reply |-> got.reply])
                /\ Return("OK")

\* The steps of redisGetReply(); and a non-blocking program's own calls.
GetFirst == pc = "get" /\ NextInBandReply("write")
WriteAll == pc = "write" /\ BufferWrite("read", "write")
ReadMore == pc = "read" /\ BufferRead("next")
GetNext == pc = "next" /\ NextInBandReply("read")
redisBufferWrite == pc = "idle" /\ ~Block /\ BufferWrite("idle", "idle")
redisBufferRead == pc = "idle" /\ ~Block /\ BufferRead("idle")

(***************************************************************************)
(* The server and the network.                                             *)
(***************************************************************************)
local == <<c, options, pc, ret, try, appended, handed, connects>>
Live(fd) == c.fd = fd /\ net[fd].peer = "open"

\* The next command is read and answered.
ServerAnswers(fd) ==
    /\ Live(fd)
    /\ \E call \in Calls, reply \in options.answers :
          LET cmd == Wire(call.argv)
          IN /\ call.api # "invalid"
             /\ IsPrefix(cmd, net[fd].up)
             /\ served' = served + 1
             /\ answered' = Append(answered, reply)
             /\ \E bytes \in Spelled(reply) :
                   net' = [net EXCEPT ![fd].up = SubSeq(@, Len(cmd) + 1, Len(@)),
                                      ![fd].down = @ \o bytes]
    /\ UNCHANGED <<local, extras>>

ServerPushes(fd) ==
    /\ Live(fd) /\ Signal
    /\ \E push \in Pushes :
          /\ answered' = Append(answered, push)
          /\ net' = [net EXCEPT ![fd].down = @ \o Encode[push]]
    /\ UNCHANGED <<local, served>>

ServerMalformed(fd) ==
    /\ Live(fd) /\ Signal
    /\ \E bytes \in Malformed : net' = [net EXCEPT ![fd].down = @ \o bytes]
    /\ answered' = Append(answered, Bad)
    /\ UNCHANGED <<local, served>>

\* It closes the connection, or resets it.
ServerCloses(fd) ==
    /\ Live(fd)
    /\ \E peer \in {"shut", "unconnected"} : net' = [net EXCEPT ![fd].peer = peer]
    /\ UNCHANGED <<local, served, answered, extras>>

\* A connection under way is made, or refused.
Connects(fd) ==
    /\ net[fd].peer = "pending" /\ c.fd = fd /\ pc # "wait"
    /\ \E peer \in {"open", "unconnected"} : net' = [net EXCEPT ![fd].peer = peer]
    /\ UNCHANGED <<local, served, answered, extras>>

Library ==
    \/ NoAddress \/ SocketFails \/ SocketUnusable \/ TcpConnect \/ UnixConnect
    \/ redisContextWaitReady \/ redisSetTcpNoDelay \/ Established \/ redisContextSetTimeout
    \/ GetFirst \/ WriteAll \/ ReadMore \/ GetNext

Program ==
    \/ redisConnectWithOptions \/ redisReconnect \/ redisFree \/ redisSetTimeout
    \/ redisGetReply \/ redisBufferWrite \/ redisBufferRead
    \/ \E call \in Calls, wait \in BOOLEAN : redisAppendCommand(call, wait)

Environment ==
    \E fd \in Fds : \/ ServerAnswers(fd) \/ ServerPushes(fd) \/ ServerMalformed(fd)
                    \/ ServerCloses(fd) \/ Connects(fd)

Done == pc = "freed" /\ UNCHANGED vars

Next == Library \/ Program \/ Environment \/ Done

Spec == Init /\ [][Next]_vars

-----------------------------------------------------------------------------
\* The bytes a connection has carried up, with those still in the output
\* buffer, are the commands appended, each once and in order: the server
\* reads what the program meant, however send() divides it.  Each command is
\* as long as was computed before it was built (the assertions of
\* hiredis.c:524 and 627).
CommandsArrive ==
    /\ SdsOK(c.obuf)
    /\ pc = "new" => \A call \in Calls : Formatted(call).len \in {-2, Len(Formatted(call).cmd)}
    /\ c.fd # NoFd =>
         net[c.fd].up \o c.obuf.data =
            FlattenSeq([i \in 1..(Len(appended) - served) |-> Wire(appended[served + i])])

\* What the library gives out, to the program and to the push callback, is
\* what the server sent on this connection, in that order, whatever pieces
\* it came in; nothing after a malformed reply, nothing of an earlier
\* connection; and no push is the answer to a command, unless the program
\* asked for no callback.  Only what is no reply is a protocol error, and the
\* parser keeps within its buffer and its stack.
RepliesInOrder ==
    /\ ReaderOK(c.reader)
    /\ Len(handed) <= Len(answered)
    /\ c.err = "PROTOCOL" => Bad \in Range(answered)
    /\ \A i \in DOMAIN handed :
          /\ handed[i].reply = answered[i]
          /\ (handed[i].to = "callback") = IsPush(answered[i])

\* The library never has a socket open that the context does not name.
SocketsOwned == {fd \in Fds : net[fd].peer # "free"} = {c.fd} \ {NoFd}

\* A program that waits, with nothing more on its way to it, has been given
\* every reply and push the server has sent: none is kept back in the parser
\* because a piece ended at the wrong place.
NothingWithheld ==
    pc = "read" /\ Usable /\ net[c.fd].down = <<>> /\ Bad \notin Range(answered)
        => Len(handed) = Len(answered)
=============================================================================
