---------------------------- MODULE SharedRedis ----------------------------
(***************************************************************************)
(* The Redis connection of homework3.  initRedis() (src/redis.c) opens it  *)
(* once, before any fork, and every process calls redisCommand(rc, ...) on *)
(* its copy of the context rc.  The socket is one and the same: requests   *)
(* of all processes queue up in it, and a reply is read by whichever       *)
(* process reads first.  What is private is the context's output buffer    *)
(* and its reader, both copied by fork().                                  *)
(*                                                                         *)
(* A command is a pair <<process, number>>; the reply to it is represented *)
(* by the command itself.                                                  *)
(***************************************************************************)
EXTENDS Integers, Sequences, FiniteSets

CONSTANTS
  Main,      \* the main process
  Child,     \* the child servers it forks
  None,      \* no command
  MaxCalls   \* bound: the commands one process issues

Proc     == Child \cup {Main}
Commands == Proc \X Nat

ASSUME SharedRedisAssumption ==
  /\ Main \notin Child
  /\ None \notin Commands
  /\ MaxCalls \in Nat

VARIABLES
  overlap,  \* in this execution calls of two processes may overlap in time
  pc,       \* "unborn", "idle", "read" (in recv of redisBufferRead) or "gone"
  obuf,     \* the commands in the output buffer of a process's rc
  rbuf,     \* the replies in the reader of a process's rc
  requests, \* the socket, towards Redis
  replies,  \* the socket, from Redis
  issued,   \* the commands a process has issued
  asked,    \* the command of the call a process is in, None between calls
  answered  \* the reply its last call returned

vars == <<overlap, pc, obuf, rbuf, requests, replies, issued, asked, answered>>

Init ==
  /\ overlap \in BOOLEAN
  /\ pc = [p \in Proc |-> IF p = Main THEN "idle" ELSE "unborn"]
  /\ obuf = [p \in Proc |-> <<>>] /\ rbuf = [p \in Proc |-> <<>>]
  /\ requests = <<>> /\ replies = <<>>
  /\ issued = [p \in Proc |-> 0]
  /\ asked = [p \in Proc |-> None] /\ answered = [p \in Proc |-> None]

(* fork() copies the context as it stands.                                 *)
Fork(c) ==
  /\ pc[c] = "unborn" /\ pc[Main] = "idle"
  /\ pc' = [pc EXCEPT ![c] = "idle"]
  /\ obuf' = [obuf EXCEPT ![c] = obuf[Main]]
  /\ rbuf' = [rbuf EXCEPT ![c] = rbuf[Main]]
  /\ UNCHANGED <<overlap, requests, replies, issued, asked, answered>>

(* A child whose client quits takes its context with it.                   *)
Exit(c) ==
  /\ pc[c] = "idle"
  /\ pc' = [pc EXCEPT ![c] = "gone"]
  /\ UNCHANGED <<overlap, obuf, rbuf, requests, replies, issued, asked, answered>>

(* redisCommand() appends to the output buffer; redisGetReply() returns a  *)
(* reply the reader has already, before it writes anything, and otherwise  *)
(* writes the whole output buffer and reads the socket.                    *)
Command(p)  == <<p, issued[p]>>
FlushOld(p) == obuf[p]
Flush(p)    == Append(obuf[p], Command(p))
Alone(p)    == overlap \/ \A q \in Proc : pc[q] # "read"

Call(p) ==
  /\ pc[p] = "idle" /\ Alone(p)
  /\ issued[p] < MaxCalls
  /\ issued' = [issued EXCEPT ![p] = @ + 1]
  /\ asked' = [asked EXCEPT ![p] = Command(p)]
  /\ pc' = [pc EXCEPT ![p] = "read"]
  /\ IF rbuf[p] # <<>>
     THEN /\ obuf' = [obuf EXCEPT ![p] = Append(@, Command(p))]
          /\ UNCHANGED requests
     ELSE /\ requests' = requests \o Flush(p)
          /\ obuf' = [obuf EXCEPT ![p] = <<>>]
  /\ UNCHANGED <<overlap, rbuf, replies, answered>>

(* Redis answers the commands in the order in which they arrive.           *)
Serve ==
  /\ requests # <<>>
  /\ requests' = Tail(requests)
  /\ replies' = Append(replies, Head(requests))
  /\ UNCHANGED <<overlap, pc, obuf, rbuf, issued, asked, answered>>

(* redisBufferRead() takes all the socket has (16 kB) into the reader; the *)
(* first reply in the reader is what the call returns.                     *)
KeepAll(s) == s
Keep(s)    == Tail(s)

Return(p) ==
  LET got == IF rbuf[p] # <<>> THEN rbuf[p] ELSE replies IN
  /\ pc[p] = "read"
  /\ got # <<>>
  /\ answered' = [answered EXCEPT ![p] = Head(got)]
  /\ rbuf' = [rbuf EXCEPT ![p] = Keep(got)]
  /\ replies' = IF rbuf[p] # <<>> THEN replies ELSE <<>>
  /\ asked' = [asked EXCEPT ![p] = None]
  /\ pc' = [pc EXCEPT ![p] = "idle"]
  /\ UNCHANGED <<overlap, obuf, requests, issued>>

Next ==
  \/ \E p \in Proc : Call(p) \/ Return(p)
  \/ \E c \in Child : Fork(c) \/ Exit(c)
  \/ Serve

(* Redis goes on serving, and a process goes on reading.                   *)
Fairness == WF_vars(Serve) /\ \A p \in Proc : WF_vars(Return(p))

Spec == Init /\ [][Next]_vars /\ Fairness

-----------------------------------------------------------------------------
(* Every variable keeps its type.                                          *)
TypeOK ==
  /\ overlap \in BOOLEAN
  /\ pc \in [Proc -> {"unborn", "idle", "read", "gone"}]
  /\ obuf \in [Proc -> Seq(Commands)] /\ rbuf \in [Proc -> Seq(Commands)]
  /\ requests \in Seq(Commands) /\ replies \in Seq(Commands)
  /\ issued \in [Proc -> Nat]
  /\ asked \in [Proc -> Commands \cup {None}]
  /\ answered \in [Proc -> Commands \cup {None}]

(* What group.c, mailBox.c, login.c and main.c take redisCommand() to do;  *)
(* it does as long as calls do not overlap (an execution in which they may *)
(* is mapped to none at all).                                              *)
Unlapped(f) == [p \in Proc |-> IF overlap THEN None ELSE f[p]]

Calls == INSTANCE RedisCalls WITH asked <- Unlapped(asked), answered <- Unlapped(answered)
CallsSpec == Calls!Spec

(* Without overlap nothing is left in any buffer when no call is under     *)
(* way, so that the contexts fork() copies are clean, and the call that is *)
(* under way has its own command or its reply in the socket and no other.  *)
InFlight(s) ==
  \/ requests = s /\ replies = <<>>
  \/ requests = <<>> /\ replies = s
CleanContexts ==
  ~overlap =>
    /\ \A p \in Proc : obuf[p] = <<>> /\ rbuf[p] = <<>>
    /\ \A p \in Proc : pc[p] = "read" => asked[p] # None /\ InFlight(<<asked[p]>>)
    /\ (\A p \in Proc : pc[p] # "read") => InFlight(<<>>)
    /\ \A p, q \in Proc : pc[p] = "read" /\ pc[q] = "read" => p = q
    /\ \A p \in Proc : pc[p] # "read" => asked[p] = None

(* A call returns, without overlap, if Redis answers.                      *)
Returns == \A p \in Proc : pc[p] = "read" /\ ~overlap ~> pc[p] # "read"

(* With overlap a call may wait for ever, but only because some other      *)
(* process has its reply in its reader, or has taken a reply and left a    *)
(* command unsent.                                                         *)
Empty(s) == s = <<>>
AnswerElsewhere ==
  \A p \in Proc :
    pc[p] = "read" /\ Empty(rbuf[p]) /\ Empty(requests) /\ Empty(replies) =>
      \E q \in Proc \ {p} : ~Empty(rbuf[q]) \/ ~Empty(obuf[q])

(* A call returns the reply to its own command.                            *)
OwnReply == [][\A p \in Proc : asked[p] # None /\ asked'[p] = None => answered'[p] = asked[p]]_vars

=============================================================================
