------------------------------ MODULE Sessions ------------------------------
(***************************************************************************)
(* The chat server of homework3: one main process that accepts clients and *)
(* serves their requests from a select loop (src/main.c), and one child    *)
(* server per client (subServer in src/strProcess.c).  Main and the child  *)
(* of slot i talk through two named pipes, /tmp/server.i (main writes) and *)
(* /tmp/client.i (the child writes).  The pipes are byte streams without   *)
(* framing: a read takes whatever is there, however many writes it spans.  *)
(*                                                                         *)
(* A string in /tmp/client.i is a sequence of words, one per write, and a  *)
(* read of the pipe returns them joined.  /tmp/server.i is a sequence of   *)
(* units, a unit being the size of the int an acknowledgement takes: an    *)
(* acknowledgement is one unit, every other message is longer (two units). *)
(***************************************************************************)
EXTENDS Integers, Sequences, FiniteSets

CONSTANTS
  Client,      \* the TCP clients; each one has at most one session
  NoClient,    \* the occupant of a slot nobody has had yet
  MaxClient,   \* MAX_CLIENT: the slots of list[] are 0 .. MaxClient-1
  Names,       \* the accounts clients log in with and rename to
  Groups,      \* the chat groups that exist in Redis ...
  Members,     \* ... and the members of each (storage is not modelled here)
  Texts,       \* what clients type as the argument of a command
  Commands,    \* the commands clients use
  Departures,  \* the ways in which clients leave
  MaxReq,      \* bound: the requests clients make altogether
  Cap,         \* the capacity of a pipe, in units
  Handler,     \* set_signal_action() is called: SIGCHLD interrupts main
  PromptExit   \* a child that sent "quit" has closed its pipes before
               \* main seats another client

Slots    == 0 .. MaxClient - 1
CmdNames == {"who", "tell", "yell", "name", "gyell"}

(* Words.  Null is a missing argument (a NULL pointer), Empty an empty one. *)
Cmd(k) == <<"cmd", k>>
Id(i)  == <<"id", i>>
Null   == <<"null", "">>
Empty  == <<"empty", "">>
Hi     == <<"text", "hi">>
ArgWord == ({"id"} \X Slots) \cup ({"name"} \X Names) \cup ({"group"} \X Groups)
             \cup {Hi, Null, Empty}
Word   == ArgWord \cup {Cmd(k) : k \in CmdNames \cup {"quit"}}
Text   == Seq(Word)

ASSUME SessionsAssumption ==
  /\ MaxClient \in Nat \ {0}
  /\ MaxReq \in Nat
  /\ Cap \in Nat
  /\ NoClient \notin Client
  /\ Members \in [Groups -> SUBSET Names]
  /\ Texts \subseteq {Hi, Null, Empty}
  /\ Commands \subseteq CmdNames \cup {"shell"}
  /\ Departures \subseteq {"quit", "abrupt", "hangup"}
  /\ Handler \in BOOLEAN
  /\ PromptExit \in BOOLEAN

(* What a client can type after a command.  A command line that stops      *)
(* short leaves the remaining arguments Null.                              *)
Args(k) ==
  CASE k = "who"   -> {<<>>}
    [] k = "tell"  -> {<<Id(i), t>> : i \in Slots, t \in Texts}
                        \cup (IF Null \in Texts THEN {<<Null, Null>>} ELSE {})
    [] k = "yell"  -> {<<t>> : t \in Texts}
    [] k = "name"  -> {<<<<"name", n>>>> : n \in Names}
                        \cup {<<t>> : t \in Texts \cap {Null, Empty}}
    [] k = "gyell" -> {<<Hi, <<"group", g>>>> : g \in Groups}

Arity == [k \in CmdNames |-> CASE k = "who" -> 0
                               [] k \in {"tell", "gyell"} -> 2
                               [] OTHER -> 1]

(* The commands whose child ends by reading a reply from main.             *)
RepliedYell == {"who", "tell", "yell", "name", "gyell"}
RepliedNoName == {"who", "tell"}
Replied == {"who", "tell", "name"}

VARIABLES
  mpc,      \* main: where it is in its loop
  cand,     \* main: the client being accepted (connectfd)
  cur,      \* main: the slot being opened or served
  ready,    \* main: the slots of read_fds the scan has not reached yet
  mcmd,     \* main: the command it is serving, "none" between commands
  got,      \* main: the arguments read so far
  todo,     \* main: the slots a tell, yell or gyell is still to be written to
  intr,     \* main: its blocking call has been interrupted by SIGCHLD
  userId,   \* list[i].user_id
  userName, \* list[i].user_name
  sfd,      \* s_fifofd[i] # -1
  cfd,      \* c_fifofd[i] # -1, which is in all_fds exactly then
  lost,     \* main has an open write end of /tmp/server.i that no variable names
  sq,       \* the contents of /tmp/server.i
  cq,       \* the contents of /tmp/client.i
  pc,       \* child: where it is
  slot,     \* child: its id, -1 before fork
  snap,     \* child: FD_ISSET(s_fifofd) of the current round of its loop
  req,      \* child: the command it is executing, "none" between commands
  pend,     \* child: the arguments it has still to send
  nreq,     \* the requests clients have made
  holder,   \* history: the last client seated in a slot
  mixed,    \* history: the clients whose exchange with main met a stray write,
            \* or a read of main's that SIGCHLD interrupted
  bare      \* history: the clients that left out an argument: it was empty, so
            \* that nothing was written, or missing, and the child has died

mainVars  == <<cand, cur, ready, mcmd, got, todo>>
tableVars == <<userId, userName, sfd, cfd, lost, holder>>
childVars == <<pc, slot, snap, req, pend, nreq>>
vars == <<mpc, mainVars, intr, tableVars, sq, cq, childVars, mixed, bare>>

(* The states in which a child server holds its ends of the pipes.         *)
Serving  == {"loop", "busy", "drain", "ack", "reply", "leaving"}
Attached == Serving \cup {"openingW"}

ReadersClosedToo(i) == {c \in Client : slot[c] = i /\ pc[c] = "openingW"}
Readers(i) == {c \in Client : slot[c] = i /\ pc[c] \in Attached}
Writers(i) == {c \in Client : slot[c] = i /\ pc[c] \in Serving}

MainUp       == mpc \notin {"dead", "undefined"}
MainReads(i) == MainUp /\ cfd[i]

Unit(m, i) == [m |-> m, to |-> holder[i], zero |-> FALSE]
Msg(m, i)  == <<Unit(m, i), Unit(m, i)>>
Ack(i)     == <<Unit("ack", i)>>
(* The table begins with list[0].user_id, which read as an int may be 0.   *)
Table(i)   == <<[Unit("table", i) EXCEPT !.zero = (userId[0] = 0)], Unit("table", i)>>
MsgKind    == {"ack", "table", "accept", "renamed", "exists", "tell", "yell", "gyell"}
UnitSet    == [m : MsgKind, to : Client \cup {NoClient}, zero : BOOLEAN]

Init ==
  /\ mpc = "select" /\ cand = NoClient /\ cur = 0 /\ ready = {}
  /\ mcmd = "none" /\ got = <<>> /\ todo = {} /\ intr = FALSE
  /\ userId = [i \in Slots |-> -1] /\ userName = [i \in Slots |-> <<>>]
  /\ sfd = [i \in Slots |-> FALSE] /\ cfd = [i \in Slots |-> FALSE]
  /\ lost = [i \in Slots |-> FALSE] /\ holder = [i \in Slots |-> NoClient]
  /\ sq = [i \in Slots |-> <<>>] /\ cq = [i \in Slots |-> <<>>]
  /\ pc = [c \in Client |-> "new"] /\ slot = [c \in Client |-> -1]
  /\ snap = [c \in Client |-> FALSE] /\ req = [c \in Client |-> "none"]
  /\ pend = [c \in Client |-> <<>>] /\ nreq = 0
  /\ mixed = {} /\ bare = {}

-----------------------------------------------------------------------------
(* Main: accepting a client.                                               *)

(* After the scan of read_fds main returns to select.                      *)
Resume(rest) == IF rest = {} THEN "select" ELSE "scan"

(* One write(s_fifofd[i], msg): it waits for room in the pipe, and kills   *)
(* main with SIGPIPE when nobody has the pipe open for reading.            *)
Write(i, msg, next) ==
  \/ /\ Readers(i) # {}
     /\ Len(sq[i]) + Len(msg) <= Cap
     /\ sq' = [sq EXCEPT ![i] = @ \o msg]
     /\ mpc' = next
  \/ /\ Readers(i) = {}
     /\ mpc' = "dead"
     /\ UNCHANGED sq

(* select(): a pipe is ready when it holds data or has lost its writers.   *)
Readable == {i \in Slots : cfd[i] /\ (cq[i] # <<>> \/ Writers(i) = {})}

Select ==
  /\ mpc = "select"
  /\ ready' = Readable
  /\ \/ \E c \in Client :
          /\ pc[c] = "pending"
          /\ cand' = c
          /\ pc' = [pc EXCEPT ![c] = "login"]
          /\ mpc' = "login"
     \/ /\ \A c \in Client : pc[c] # "pending"
        /\ Readable # {}
        /\ mpc' = "scan"
        /\ UNCHANGED <<cand, pc>>
  /\ UNCHANGED <<cur, mcmd, got, todo, intr, tableVars, sq, cq, slot, snap, req,
                 pend, nreq, mixed, bare>>

Free == {i \in Slots : userId[i] = -1}
getNumC_ID == Cardinality(Slots \ Free)
getMinC_ID == CHOOSE i \in Free : \A j \in Free : i <= j

(* login() has returned: addClient(), the two mkfifo() and fork().         *)
Login(n) ==
  /\ mpc = "login"
  /\ Free # {}
  /\ mpc' = "openS"
  /\ LET i == getMinC_ID IN
     /\ cur' = i
     /\ userId' = [userId EXCEPT ![i] = i]
     /\ userName' = [userName EXCEPT ![i] = <<<<"name", n>>>>]
     /\ holder' = [holder EXCEPT ![i] = cand]
     /\ slot' = [slot EXCEPT ![cand] = i]
  /\ pc' = [pc EXCEPT ![cand] = "opening"]
  /\ UNCHANGED <<cand, ready, mcmd, got, todo, intr, sfd, cfd, lost, sq, cq, snap,
                 req, pend, nreq, mixed, bare>>

(* getMinC_ID() returned -1 and is used as an index of list[]: undefined   *)
(* behaviour, from here on nothing is known of main.                       *)
LoginWhenFull ==
  /\ mpc = "login"
  /\ Free = {}
  /\ mpc' = "undefined"
  /\ UNCHANGED <<mainVars, intr, tableVars, sq, cq, childVars, mixed, bare>>

(* The client disconnects while main is in login(), which ignores what     *)
(* read() returns and goes on prompting until SIGPIPE ends the process.    *)
LoginHangup ==
  /\ mpc = "login"
  /\ "hangup" \in Departures
  /\ mpc' = "dead"
  /\ pc' = [pc EXCEPT ![cand] = "gone"]
  /\ UNCHANGED <<mainVars, intr, tableVars, sq, cq, slot, snap, req, pend, nreq, mixed, bare>>

(* Opening an end of a pipe waits for the other end.  A child blocked in   *)
(* its own open() is that other end, and both calls return.                *)
Meet(others, from, to) ==
  \/ others # {} /\ UNCHANGED pc
  \/ \E c \in Client : /\ slot[c] = cur
                       /\ pc[c] = from
                       /\ pc' = [pc EXCEPT ![c] = to]

(* open(server_fifo, O_WRONLY).  A descriptor that the slot still held is  *)
(* overwritten without being closed.                                       *)
OpenServerFifo ==
  /\ mpc = "openS" /\ ~intr
  /\ Meet(Readers(cur), "opening", "openingW")
  /\ sfd' = [sfd EXCEPT ![cur] = TRUE]
  /\ lost' = [lost EXCEPT ![cur] = @ \/ sfd[cur]]
  /\ mpc' = "openC"
  /\ UNCHANGED <<mainVars, intr, userId, userName, cfd, holder, sq, cq, slot, snap, req,
                 pend, nreq, mixed, bare>>

(* open(client_fifo, O_RDONLY); then FD_SET and close(connectfd).          *)
OpenClientFifo ==
  /\ mpc = "openC" /\ ~intr
  /\ Meet(Writers(cur), "openingW", "loop")
  /\ cfd' = [cfd EXCEPT ![cur] = TRUE]
  /\ cand' = NoClient
  /\ mpc' = Resume(ready)
  /\ UNCHANGED <<cur, ready, mcmd, got, todo, intr, userId, userName, sfd, lost, holder,
                 sq, cq, slot, snap, req, pend, nreq, mixed, bare>>

(* Either open() returns EINTR: main reports it and exits.                 *)
OpenInterrupted ==
  /\ mpc \in {"openS", "openC"} /\ intr
  /\ mpc' = "dead"
  /\ intr' = FALSE
  /\ UNCHANGED <<mainVars, tableVars, sq, cq, childVars, mixed, bare>>

-----------------------------------------------------------------------------
(* Main: the scan of read_fds, slot by slot.                               *)

AtSlot(i) == mpc = "scan" /\ i \in ready /\ \A j \in ready : i <= j

(* list[i].user_id = -1.                                                   *)
FreeSlotForgotten(i) == UNCHANGED userId
FreeSlot(i) == userId' = [userId EXCEPT ![i] = -1]

(* close(s_fifofd[i]); a pipe that nobody has open loses its contents.     *)
CloseServerFifo(i) ==
  /\ sfd' = [sfd EXCEPT ![i] = FALSE]
  /\ sq' = IF Readers(i) = {} /\ ~lost[i] THEN [sq EXCEPT ![i] = <<>>] ELSE sq

(* read() returned 0: the child has ended without a "quit".  s_fifofd[i]   *)
(* is neither closed nor forgotten.                                        *)
ServeEof(i) ==
  /\ AtSlot(i)
  /\ cq[i] = <<>> /\ Writers(i) = {}
  /\ cfd' = [cfd EXCEPT ![i] = FALSE]
  /\ FreeSlot(i)
  /\ ready' = ready \ {i}
  /\ mpc' = Resume(ready')
  /\ UNCHANGED <<cand, cur, mcmd, got, todo, intr, userName, sfd, lost, holder, sq, cq,
                 childVars, mixed, bare>>

ServeWho(i) ==
  /\ AtSlot(i)
  /\ cq[i] = <<Cmd("who")>>
  /\ cq' = [cq EXCEPT ![i] = <<>>]
  /\ ready' = ready \ {i}
  /\ Write(i, Table(i), Resume(ready'))
  /\ UNCHANGED <<cand, cur, mcmd, got, todo, intr, tableVars, childVars, mixed, bare>>

(* tell, yell, name, gyell: acknowledge the command, then read arguments.  *)
ServeCommand(i, k) ==
  /\ AtSlot(i)
  /\ k # "who"
  /\ cq[i] = <<Cmd(k)>>
  /\ cq' = [cq EXCEPT ![i] = <<>>]
  /\ ready' = ready \ {i}
  /\ cur' = i /\ mcmd' = k /\ got' = <<>>
  /\ Write(i, Ack(i), "arg")
  /\ UNCHANGED <<cand, todo, intr, tableVars, childVars, mixed, bare>>

ServeQuit(i) ==
  /\ AtSlot(i)
  /\ cq[i] = <<Cmd("quit")>>
  /\ cq' = [cq EXCEPT ![i] = <<>>]
  /\ cfd' = [cfd EXCEPT ![i] = FALSE]
  /\ CloseServerFifo(i)
  /\ FreeSlot(i)
  /\ ready' = ready \ {i}
  /\ mpc' = Resume(ready')
  /\ UNCHANGED <<cand, cur, mcmd, got, todo, intr, userName, lost, holder, childVars,
                 mixed, bare>>

(* Anything that is not exactly one command is dropped.                    *)
ServeUnknown(i) ==
  /\ AtSlot(i)
  /\ cq[i] # <<>>
  /\ cq[i] \notin {<<Cmd(k)>> : k \in CmdNames \cup {"quit"}}
  /\ cq' = [cq EXCEPT ![i] = <<>>]
  /\ ready' = ready \ {i}
  /\ mpc' = Resume(ready')
  /\ UNCHANGED <<cand, cur, mcmd, got, todo, intr, tableVars, sq, childVars, mixed, bare>>

-----------------------------------------------------------------------------
(* Main: the arguments of a command.                                       *)

(* A blocking read(c_fifofd[i], ...).  Its result is not checked: when it  *)
(* is interrupted, or the child is gone, the zeroed buffer stands.         *)
ReadString(str) ==
  \/ /\ intr
     /\ str = <<>>
     /\ intr' = FALSE
     /\ mixed' = mixed \cup {holder[cur]}
     /\ UNCHANGED cq
  \/ /\ ~intr
     /\ cq[cur] # <<>> \/ Writers(cur) = {}
     /\ str = cq[cur]
     /\ cq' = [cq EXCEPT ![cur] = <<>>]
     /\ UNCHANGED <<intr, mixed>>

LastArgOff == Len(got) = Arity[mcmd]
LastArg == Len(got) + 1 = Arity[mcmd]

ReadArgument ==
  /\ mpc = "arg" /\ ~LastArg
  /\ \E str \in {<<>>, cq[cur]} : ReadString(str) /\ got' = Append(got, str)
  /\ Write(cur, Ack(cur), "arg")
  /\ UNCHANGED <<cand, cur, ready, mcmd, todo, tableVars, childVars, bare>>

atoi(str) == IF str # <<>> /\ str[1][1] = "id" THEN str[1][2] ELSE 0

(* The end of a command: its buffers are block-scoped.                     *)
Served == mcmd' = "none" /\ got' = <<>>

(* The addressees of what main has read, which are then written to.        *)
Address(targets) ==
  /\ todo' = targets
  /\ IF targets = {} THEN Served ELSE UNCHANGED <<mcmd, got>>
AfterArgs(targets) == IF targets = {} THEN Resume(ready) ELSE "deliver"

(* "send accept!" goes back whether or not there is anyone to write to.    *)
FinishTell ==
  /\ mpc = "arg" /\ mcmd = "tell" /\ LastArg
  /\ \E str \in {<<>>, cq[cur]} : ReadString(str)
  /\ Address({i \in Slots : i = atoi(got[1]) /\ sfd[i]})
  /\ Write(cur, Msg("accept", cur), AfterArgs(todo'))
  /\ UNCHANGED <<cand, cur, ready, tableVars, childVars, bare>>

FinishYell ==
  /\ mpc = "arg" /\ mcmd = "yell" /\ LastArg
  /\ \E str \in {<<>>, cq[cur]} : ReadString(str)
  /\ Address({i \in Slots : sfd[i]})
  /\ mpc' = AfterArgs(todo')
  /\ UNCHANGED <<cand, cur, ready, tableVars, sq, childVars, bare>>

(* The name is refused when any slot in use has it.                        *)
changeC_NameOfFree(i, newName) ==
  IF \E j \in Slots : userId[j] = -1 /\ userName[j] = newName
  THEN userName
  ELSE [userName EXCEPT ![i] = newName]
changeC_Name(i, newName) ==
  IF \E j \in Slots : userId[j] # -1 /\ userName[j] = newName
  THEN userName
  ELSE [userName EXCEPT ![i] = newName]

FinishName ==
  /\ mpc = "arg" /\ mcmd = "name" /\ LastArg
  /\ \E str \in {<<>>, cq[cur]} : ReadString(str) /\ userName' = changeC_Name(cur, str)
  /\ Write(cur, Msg(IF userName' = userName THEN "exists" ELSE "renamed", cur),
           Resume(ready))
  /\ Served
  /\ UNCHANGED <<cand, cur, ready, todo, userId, sfd, cfd, lost, holder,
                 childVars, bare>>

(* For each member of the group, the first slot with a pipe and that name: *)
(* list[k].user_name is compared whether or not slot k is in use.          *)
NamedSlots(n) == {k \in Slots : sfd[k] /\ userName[k] = <<<<"name", n>>>>}
GroupTargets(str) ==
  UNION {{k \in NamedSlots(n) : \A j \in NamedSlots(n) : k <= j} :
           n \in UNION {Members[g] : g \in {h \in Groups : str = <<<<"group", h>>>>}}}

FinishGyell ==
  /\ mpc = "arg" /\ mcmd = "gyell" /\ LastArg
  /\ \E str \in {<<>>, cq[cur]} : ReadString(str) /\ Address(GroupTargets(str))
  /\ mpc' = AfterArgs(todo')
  /\ UNCHANGED <<cand, cur, ready, tableVars, sq, childVars, bare>>

(* The write of the message to one addressee.  yell goes through the slots *)
(* in order, gyell through the members of the group.  History: a message   *)
(* that reaches a child in the middle of an exchange is a stray write.     *)
Deliver(i) ==
  /\ mpc = "deliver"
  /\ i \in todo
  /\ mcmd = "yell" => \A j \in todo : i <= j
  /\ Address(todo \ {i})
  /\ Write(i, Msg(mcmd, i), AfterArgs(todo'))
  /\ mixed' = IF \A c \in Readers(i) : pc[c] \notin {"ack", "reply"}
              THEN mixed ELSE mixed \cup {holder[i]}
  /\ UNCHANGED <<cand, cur, ready, intr, tableVars, cq, childVars, bare>>

-----------------------------------------------------------------------------
(* A client and its child server.                                          *)

Connect(c) ==
  /\ pc[c] = "new"
  /\ MainUp
  /\ pc' = [pc EXCEPT ![c] = "pending"]
  /\ UNCHANGED <<mpc, mainVars, intr, tableVars, sq, cq, slot, snap, req, pend, nreq, mixed,
                 bare>>

(* open(server_fifo, O_RDONLY) when main holds its end already.            *)
ChildOpenServerFifo(c) ==
  /\ pc[c] = "opening"
  /\ MainUp /\ (sfd[slot[c]] \/ lost[slot[c]])
  /\ pc' = [pc EXCEPT ![c] = "openingW"]
  /\ UNCHANGED <<mpc, mainVars, intr, tableVars, sq, cq, slot, snap, req, pend, nreq, mixed,
                 bare>>

(* open(client_fifo, O_WRONLY) likewise.                                   *)
ChildOpenClientFifo(c) ==
  /\ pc[c] = "openingW"
  /\ MainReads(slot[c])
  /\ pc' = [pc EXCEPT ![c] = "loop"]
  /\ UNCHANGED <<mpc, mainVars, intr, tableVars, sq, cq, slot, snap, req, pend, nreq, mixed,
                 bare>>

(* Main is in a call that SIGCHLD can interrupt.                           *)
Blocked == mpc \in {"openS", "openC"} \/ (mpc = "arg" /\ cq[cur] = <<>>)

TakeUnit(i) == [sq EXCEPT ![i] = IF @ = <<>> THEN @ ELSE Tail(@)]

(* The process ends, by exit() or by a signal: its pipe ends close, a pipe *)
(* that nobody has open loses its contents, and SIGCHLD goes to main,      *)
(* which may be in its call already or only about to make it.  A child     *)
(* that dies in an exchange has read the acknowledgement.                  *)
Exit(c, newcq) ==
  LET i == slot[c] IN
  /\ pc' = [pc EXCEPT ![c] = "gone"]
  /\ snap' = [snap EXCEPT ![c] = FALSE]
  /\ req' = [req EXCEPT ![c] = "none"]
  /\ pend' = [pend EXCEPT ![c] = <<>>]
  /\ sq' = IF Readers(i) = {c} /\ ~sfd[i] /\ ~lost[i] THEN [sq EXCEPT ![i] = <<>>]
           ELSE IF pc[c] = "ack" THEN TakeUnit(i) ELSE sq
  /\ cq' = IF Writers(i) = {c} /\ ~cfd[i] THEN [cq EXCEPT ![i] = <<>>] ELSE newcq
  /\ intr' \in IF Blocked /\ Handler THEN {intr, TRUE} ELSE {intr}

(* The client types a command.  The child samples s_fifofd in the same     *)
(* select() and, once the command is done, reads it if it was ready.       *)
(* Without a reader on the pipe the write of the command kills the child.  *)
(* History: starting while a pipe still holds data is a stray write.       *)
Request(c, k, args) ==
  LET i == slot[c] IN
  /\ pc[c] = "loop"
  /\ nreq < MaxReq
  /\ nreq' = nreq + 1
  /\ mixed' = IF sq[i] = <<>> /\ cq[i] = <<>> THEN mixed ELSE mixed \cup {c}
  /\ \/ /\ MainReads(i)
        /\ snap' = [snap EXCEPT ![c] = (sq[i] # <<>>)]
        /\ req' = [req EXCEPT ![c] = k]
        /\ pend' = [pend EXCEPT ![c] = args]
        /\ cq' = [cq EXCEPT ![i] = Append(@, Cmd(k))]
        /\ pc' = [pc EXCEPT ![c] = IF args = <<>> THEN "reply" ELSE "ack"]
        /\ UNCHANGED <<sq, intr>>
     \/ ~MainReads(i) /\ Exit(c, cq)
  /\ UNCHANGED <<mpc, mainVars, tableVars, slot, bare>>

(* After a command the child goes on to read s_fifofd if it was sampled    *)
(* ready; what made it ready may be gone by then.                          *)
Done(c) ==
  /\ pc' = [pc EXCEPT ![c] = IF snap[c] THEN "drain" ELSE "loop"]
  /\ req' = [req EXCEPT ![c] = "none"]

(* read(s_fifofd, &ack, sizeof(int)) takes one unit, or nothing once main  *)
(* is gone; any value but 0 counts as the acknowledgement.                 *)
AckArrived(c) == sq[slot[c]] # <<>> /\ ~sq[slot[c]][1].zero
AckReadable(c) == sq[slot[c]] # <<>> \/ ~MainUp

(* Acknowledged: send the next argument.  An empty argument is a write of  *)
(* no bytes, and main goes on waiting for it.  Not acknowledged, because   *)
(* something else was in the pipe or main is gone: tell the client, and go *)
(* on all the same.                                                        *)
SendArgument(c) ==
  LET i == slot[c]
      w == Head(pend[c])
      rest == Tail(pend[c]) IN
  /\ pc[c] = "ack"
  /\ AckReadable(c)
  /\ AckArrived(c) => w # Null /\ MainReads(i)
  /\ sq' = TakeUnit(i)
  /\ cq' = IF AckArrived(c) /\ w # Empty THEN [cq EXCEPT ![i] = Append(@, w)] ELSE cq
  /\ mixed' = IF AckArrived(c) \/ sq[i] = <<>> THEN mixed ELSE mixed \cup {c}
  /\ bare' = IF AckArrived(c) /\ w = Empty THEN bare \cup {c} ELSE bare
  /\ pend' = [pend EXCEPT ![c] = rest]
  /\ \/ rest # <<>> /\ UNCHANGED <<pc, req>>
     \/ rest = <<>> /\ req[c] \in Replied /\ pc' = [pc EXCEPT ![c] = "reply"] /\ UNCHANGED req
     \/ rest = <<>> /\ req[c] \notin Replied /\ Done(c)
  /\ UNCHANGED <<mpc, mainVars, intr, tableVars, slot, snap, nreq>>

(* The argument is NULL, and the child dies in strlen(); or nobody reads   *)
(* the pipe any more, and it dies of SIGPIPE.                              *)
DieSending(c) ==
  LET i == slot[c] IN
  /\ pc[c] = "ack"
  /\ AckArrived(c)
  /\ Head(pend[c]) = Null \/ ~MainReads(i)
  /\ bare' = IF Head(pend[c]) = Null THEN bare \cup {c} ELSE bare
  /\ Exit(c, cq)
  /\ UNCHANGED <<mpc, mainVars, tableVars, slot, nreq, mixed>>

(* The reply to who, tell and name: a read of all that is in the pipe.     *)
ReadReply(c) ==
  /\ pc[c] = "reply"
  /\ sq[slot[c]] # <<>> \/ ~MainUp
  /\ sq' = [sq EXCEPT ![slot[c]] = <<>>]
  /\ Done(c)
  /\ UNCHANGED <<mpc, mainVars, intr, tableVars, cq, slot, snap, pend, nreq, mixed, bare>>

(* Messages for the client: read all there is and print it.  From "loop"   *)
(* the child has just sampled the pipe; from "drain" the sample is old.    *)
ReadMessages(c) ==
  /\ pc[c] \in {"loop", "drain"}
  /\ sq[slot[c]] # <<>>
  /\ sq' = [sq EXCEPT ![slot[c]] = <<>>]
  /\ pc' = [pc EXCEPT ![c] = "loop"]
  /\ snap' = [snap EXCEPT ![c] = FALSE]
  /\ UNCHANGED <<mpc, mainVars, intr, tableVars, cq, slot, req, pend, nreq, mixed, bare>>

(* Any other line: a shell command (or a mail or group command) that the   *)
(* child carries out on its own, deaf to its pipe until it is done.        *)
Shell(c) ==
  /\ pc[c] = "loop"
  /\ "shell" \in Commands
  /\ nreq < MaxReq
  /\ nreq' = nreq + 1
  /\ snap' = [snap EXCEPT ![c] = (sq[slot[c]] # <<>>)]
  /\ pc' = [pc EXCEPT ![c] = "busy"]
  /\ UNCHANGED <<mpc, mainVars, intr, tableVars, sq, cq, slot, req, pend, mixed, bare>>

ShellDone(c) ==
  /\ pc[c] = "busy"
  /\ Done(c)
  /\ UNCHANGED <<mpc, mainVars, intr, tableVars, sq, cq, slot, snap, pend, nreq, mixed, bare>>

(* quit: the word is written, then the descriptors are closed.  Under      *)
(* PromptExit the two are one step.                                        *)
Quit(c) ==
  LET i == slot[c]
      sent == [cq EXCEPT ![i] = Append(@, Cmd("quit"))] IN
  /\ pc[c] = "loop"
  /\ "quit" \in Departures
  /\ IF MainReads(i)
     THEN IF PromptExit THEN Exit(c, sent)
          ELSE /\ pc' = [pc EXCEPT ![c] = "leaving"]
               /\ cq' = sent
               /\ UNCHANGED <<sq, intr, snap, req, pend>>
     ELSE Exit(c, cq)
  /\ mixed' = IF cq[i] = <<>> THEN mixed ELSE mixed \cup {c}
  /\ UNCHANGED <<mpc, mainVars, tableVars, slot, nreq, bare>>

(* exit() after quit.                                                      *)
Leave(c) ==
  /\ pc[c] = "leaving"
  /\ Exit(c, cq)
  /\ UNCHANGED <<mpc, mainVars, tableVars, slot, nreq, mixed, bare>>

(* The client disconnects, or sends an empty line: read() leaves buf empty *)
(* and the shell, handed an empty command, dereferences a null pointer.    *)
Abrupt(c) ==
  /\ pc[c] = "loop"
  /\ "abrupt" \in Departures
  /\ Exit(c, cq)
  /\ UNCHANGED <<mpc, mainVars, tableVars, slot, nreq, mixed, bare>>

-----------------------------------------------------------------------------
MainStep ==
  \/ Select
  \/ OpenServerFifo
  \/ OpenClientFifo
  \/ OpenInterrupted
  \/ \E i \in Slots :
       \/ ServeEof(i)
       \/ ServeWho(i)
       \/ \E k \in CmdNames : ServeCommand(i, k)
       \/ ServeQuit(i)
       \/ ServeUnknown(i)
       \/ Deliver(i)
  \/ ReadArgument
  \/ FinishTell
  \/ FinishYell
  \/ FinishName
  \/ FinishGyell

ChildStep(c) ==
  \/ ChildOpenServerFifo(c)
  \/ ChildOpenClientFifo(c)
  \/ SendArgument(c)
  \/ DieSending(c)
  \/ ReadReply(c)
  \/ ReadMessages(c)
  \/ Leave(c)

ClientStep(c) ==
  \/ Connect(c)
  \/ \E k \in Commands \cap CmdNames : \E args \in Args(k) : Request(c, k, args)
  \/ Shell(c)
  \/ ShellDone(c)
  \/ Quit(c)
  \/ Abrupt(c)

LoginStep ==
  \/ \E n \in Names : Login(n)
  \/ LoginWhenFull
  \/ LoginHangup

Next ==
  \/ MainStep
  \/ LoginStep
  \/ \E c \in Client : ChildStep(c) \/ ClientStep(c)

Spec == Init /\ [][Next]_vars

(* Main and the child servers keep running.  What clients type, and when,  *)
(* is up to them, and so is whether a shell command ever ends.             *)
FairSpec == Spec /\ WF_vars(MainStep) /\ \A c \in Client : WF_vars(ChildStep(c))

-----------------------------------------------------------------------------
TypeOK ==
  /\ mpc \in {"select", "login", "openS", "openC", "scan", "arg", "deliver", "dead",
              "undefined"}
  /\ cand \in Client \cup {NoClient}
  /\ mpc = "login" => cand \in Client
  /\ cur \in Slots
  /\ ready \in SUBSET Slots
  /\ mcmd \in CmdNames \cup {"none"}
  /\ mpc = "arg" => mcmd \in CmdNames \ {"who"}
  /\ mpc = "deliver" => mcmd \in {"tell", "yell", "gyell"}
  /\ got \in Seq(Text)
  /\ todo \in SUBSET Slots
  /\ intr \in BOOLEAN
  /\ userId \in [Slots -> Slots \cup {-1}]
  /\ userName \in [Slots -> Text]
  /\ sfd \in [Slots -> BOOLEAN]
  /\ cfd \in [Slots -> BOOLEAN]
  /\ lost \in [Slots -> BOOLEAN]
  /\ sq \in [Slots -> Seq(UnitSet)]
  /\ cq \in [Slots -> Seq(Word)]
  /\ pc \in [Client -> {"new", "pending", "login", "opening", "gone"} \cup Attached]
  /\ slot \in [Client -> Slots \cup {-1}]
  /\ \A c \in Client : pc[c] \in Attached \cup {"opening"} => slot[c] \in Slots
  /\ snap \in [Client -> BOOLEAN]
  /\ req \in [Client -> CmdNames \cup {"none"}]
  /\ pend \in [Client -> Seq(ArgWord)]
  /\ \A c \in Client : pc[c] = "ack" => pend[c] # <<>>
  /\ nreq \in 0 .. MaxReq
  /\ holder \in [Slots -> Client \cup {NoClient}]
  /\ mixed \in SUBSET (Client \cup {NoClient})
  /\ bare \in SUBSET Client

=============================================================================
