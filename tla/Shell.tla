------------------------------- MODULE Shell -------------------------------
(***************************************************************************)
(* The shell of a child server (src/shell.c, processingStr.c, parse.c,     *)
(* npfunc.c, exec.c, ownCmdHandler.c, my_signal.c), the same files in      *)
(* homework2_V2, and the pipe by which "mailto n < line" takes the output  *)
(* of a line (mailBox.c:73-84).                                            *)
(*                                                                         *)
(* A line is the sequence of its parts between bars; a part is its words,  *)
(* and whether it is bare (holds no blank).  What a command writes is a    *)
(* number of bytes.  Undefined behaviour that is not a question of these   *)
(* is left out: the copy of a part into malloc(8), the appending of        *)
(* setenv behind a value in place, more parts or words than arrays hold.   *)
(***************************************************************************)
EXTENDS Integers, Sequences, FiniteSets, SequencesExt, FiniteSetsExt

CONSTANTS
  Lines,     \* the lines a client may type
  Numeral,   \* the words made of digits
  Writes,    \* the commands that can be run, and how many bytes each writes (or Echo)
  Failing,   \* the commands that exit with EXIT_FAILURE
  Typed,     \* the length of the text typed behind mailto
  Cap,       \* what a pipe holds
  MsgSize,   \* what mailto reads of it
  Base,      \* the descriptors a child server holds
  Limit,     \* the descriptors a process may hold
  MaxLines   \* bound: the lines typed

Own == {"quit", "cd", "clear", "setenv", "printenv"}

Echo == -1  \* as many bytes as it reads from its standard input
Msg  == -1  \* a message of the shell, in what a line's receiver gets

ASSUME ShellAssumption ==
  /\ Lines \subseteq Seq([words : Seq(STRING), bare : BOOLEAN]) \ {<<>>}
  /\ \A c \in DOMAIN Writes : Writes[c] \in Nat \cup {Echo}
  /\ Typed \in Nat /\ Cap \in Nat \ {0} /\ MsgSize \in Nat \ {0} /\ Base \in Nat /\ MaxLines \in Nat
  /\ Limit \in Nat /\ Base + 2 <= Limit

VARIABLES
  pc,      \* the child server: idle, parse, own, pipe, fork, wait, mail, or how it ended
  list,    \* the numbered commands, as subServer() holds them
  local,   \*   and as shell() does, in the parameter it got by value
  line, dest, \* the line, and where its output goes: "client" or "mail"
  todo,    \* the parts still to run
  in,      \* fdd: the bytes in the pipe the next command reads, -1: stdin of the server
  buf,     \* the bytes in the pipe of the running command, -1: there is none
  child,   \* the running command: none, new, runs, stuck, zombie; its exit status
  used,    \* the descriptors in use
  env,     \* the environment: a sequence of values for each name
  got,     \* what dest has received for this line: bytes, or Msg for a message
  body,    \* the mail sent: the output of its line, and how much of what was typed follows
  nlines,  \* the lines typed
  run,     \* history: the pipes made
  unforked,\* history: the pipes made for a command that was not started
  short    \* history: a pipe or a process for this line could not be made

vars == <<pc, list, local, line, dest, todo, in, buf, child, used, env, got, body,
          nlines, run, unforked, short>>

(* A message of the shell counts as one byte.                              *)
Bytes(s) == FoldLeft(LAMBDA n, x : n + (IF x = Msg THEN 1 ELSE x), 0, s)
NoChild == [state |-> "none", fails |-> FALSE]

Init ==
  /\ pc = "idle" /\ list = <<>> /\ local = <<>> /\ line = <<>> /\ dest = "client"
  /\ todo = <<>> /\ in = -1 /\ buf = 0 /\ child = NoChild
  /\ used = Base /\ env = [n \in {"PATH", "V"} |-> <<>>] /\ got = <<>>
  /\ body = <<>> /\ nlines = 0 /\ run = 0 /\ unforked = 0 /\ short = FALSE

-----------------------------------------------------------------------------
(* The line.                                                               *)

isNum(part) == part.bare /\ \A i \in DOMAIN part.words : part.words[i] \in Numeral
Word(i, k)  == line[i].words[k]
Blank(i)    == line[i].words = <<>>

(* What shell() is given, by value: the head of the list, which is NULL    *)
(* before the first node is added and still is afterwards.                 *)
AfterReturnByReference(l) == local'  \* bug: list is passed by reference
AfterReturn(l) == l

subNum(l) == [i \in DOMAIN l |-> [l[i] EXCEPT !.num = IF @ # 0 THEN @ - 1 ELSE 0]]
addNum(l) == [i \in DOMAIN l |-> [l[i] EXCEPT !.num = @ + 1]]
checkNumPipe(l) == \E i \in DOMAIN l : l[i].num = 0

(* A client types a line for the shell, or "mailto n < line".              *)
TypeLine(l, d) ==
  /\ pc = "idle" /\ nlines < MaxLines
  /\ nlines' = nlines + 1
  /\ line' = l /\ dest' = d /\ got' = <<>> /\ short' = FALSE
  /\ local' = list
  /\ IF d = "mail" /\ used + 2 > Limit
     THEN pc' = "undefined" /\ UNCHANGED used
     ELSE pc' = "parse" /\ used' = used + IF d = "mail" THEN 2 ELSE 0
  /\ UNCHANGED <<list, todo, in, buf, child, env, body, run, unforked>>

Leave == pc' = IF dest = "mail" THEN "mail" ELSE "idle"

(* With a number as its last part a line is remembered under its second    *)
(* part, and is not run; strdup() and strcmp() of no word end the process. *)
Numbered == isNum(Last(line))
Crash    == Blank(1) \/ (Numbered /\ (Len(line) = 1 \/ Blank(2)))

(* shell() up to ExecArgsPipe() or an own command.                         *)
PathValue == <<"bin:.:/bin">>

ParseLine ==
  /\ pc = "parse"
  /\ LET counted == subNum(local)
         added == IF Numbered /\ ~Crash
                  THEN Append(counted, [cmd |-> Word(1, 1),
                                        num |-> IF Word(2, 1) \in Numeral THEN 1 ELSE 0])
                  ELSE counted IN
     /\ local' = added
     /\ env' = [env EXCEPT !["PATH"] = PathValue]
     /\ IF Crash THEN pc' = "crashed" /\ UNCHANGED <<todo, in>>
        ELSE IF Word(1, 1) \in Own THEN pc' = "own" /\ UNCHANGED <<todo, in>>
        ELSE IF Numbered THEN Leave /\ UNCHANGED <<todo, in>>
        ELSE /\ pc' = IF checkNumPipe(added) THEN "numbered" ELSE "pipe"
             /\ todo' = line /\ in' = -1
  /\ list' = AfterReturn(list)
  /\ UNCHANGED <<line, dest, buf, child, used, got, body, nlines, run, unforked, short>>

(* ownCmdHandler().                                                        *)
Arg(k) == IF Len(line[1].words) > k THEN Word(1, k + 1) ELSE "NULL"

OwnQuit ==
  /\ Word(1, 1) = "quit"
  /\ pc' = "exited"
  /\ UNCHANGED <<env, got>>

OwnSetenv ==
  /\ Word(1, 1) = "setenv"
  /\ IF Arg(1) = "NULL" THEN Leave /\ got' = <<Msg>> /\ UNCHANGED env
     ELSE IF Arg(2) = "NULL" THEN pc' = "crashed" /\ UNCHANGED <<env, got>>
     ELSE /\ env' = [env EXCEPT ![Arg(1)] = Append(@, Arg(2))]
          /\ Leave
          /\ UNCHANGED got

OwnOther ==
  /\ Word(1, 1) \in {"cd", "clear", "printenv"}
  /\ Leave
  /\ got' = IF Word(1, 1) = "cd" THEN <<>> ELSE <<Msg>>
  /\ UNCHANGED env

OwnCommand ==
  /\ pc = "own"
  /\ OwnQuit \/ OwnSetenv \/ OwnOther
  /\ UNCHANGED <<list, local, line, dest, todo, in, buf, child, used, body, nlines, run, unforked, short>>

-----------------------------------------------------------------------------
(* ExecArgsPipe().                                                         *)

(* pipe() is not checked: when it fails the first time fd[] was never      *)
(* written, and later it holds the numbers of the pipe before, of which    *)
(* fd[1] is closed, so that the command keeps the server's own output.     *)
Room == used + 2 <= Limit

Pipe ==
  /\ pc = "pipe"
  /\ IF Room
     THEN /\ pc' = "fork" /\ used' = used + 2 /\ buf' = 0 /\ run' = run + 1
          /\ UNCHANGED short
     ELSE /\ pc' = IF Len(todo) = Len(line) THEN "undefined" ELSE "fork"
          /\ buf' = -1 /\ short' = TRUE
          /\ UNCHANGED <<used, run>>
  /\ UNCHANGED <<list, local, line, dest, todo, in, child, env, got, body, nlines, unforked>>

Fork ==
  /\ pc = "fork"
  /\ \/ /\ pc' = "wait"
        /\ child' = [state |-> "new", fails |-> FALSE]
        /\ UNCHANGED <<unforked, short>>
     \/ /\ Leave  \* fork error
        /\ short' = TRUE
        /\ unforked' = IF buf = -1 THEN unforked ELSE unforked + 1
        /\ UNCHANGED child
  /\ UNCHANGED <<list, local, line, dest, todo, in, buf, used, env, got, body, nlines, run>>

(* The command: execvp(), or a message to dest and exit(EXIT_FAILURE).     *)
Name(part)  == IF part.words = <<>> THEN "(null)" ELSE part.words[1]
Known(part) == Name(part) \in DOMAIN Writes
Reads(part) == Known(part) /\ Writes[Name(part)] = Echo
Sink == IF Len(todo) = 1 THEN dest ELSE IF buf = -1 THEN "server" ELSE "pipe"

(* A write to a pipe that is or becomes full waits for a reader, and there *)
(* is none before the command has ended.                                   *)
Fits(target, n) ==
  /\ target = "pipe" => n <= Cap
  /\ target = "mail" => Bytes(got) + n <= Cap

Exec ==
  /\ child.state = "new"
  /\ IF Known(Head(todo)) THEN child' = [child EXCEPT !.state = "runs"] /\ UNCHANGED got
     ELSE IF Fits(dest, 1)
          THEN child' = [state |-> "zombie", fails |-> TRUE] /\ got' = Append(got, Msg)
          ELSE child' = [child EXCEPT !.state = "stuck"] /\ UNCHANGED got
  /\ UNCHANGED <<pc, list, local, line, dest, todo, in, buf, used, env, body, nlines, run, unforked, short>>

(* The command writes n bytes and ends.                                    *)
Ends(n) ==
  IF Fits(Sink, n)
  THEN /\ child' = [state |-> "zombie", fails |-> Name(Head(todo)) \in Failing]
       /\ buf' = IF Sink = "pipe" THEN n ELSE buf
       /\ got' = IF Sink = dest THEN Append(got, n) ELSE got
  ELSE /\ child' = [child EXCEPT !.state = "stuck"]
       /\ UNCHANGED <<buf, got>>

CommandEnds ==
  /\ child.state = "runs"
  /\ IF Reads(Head(todo)) THEN in # -1 /\ Ends(in) /\ in' = 0
                          ELSE Ends(Writes[Name(Head(todo))]) /\ UNCHANGED in
  /\ UNCHANGED <<pc, list, local, line, dest, todo, used, env, body, nlines, run, unforked, short>>

(* The first command of a line has the server's own standard input, which  *)
(* may be at its end.                                                      *)
ServerInputEnds ==
  /\ child.state = "runs"
  /\ Reads(Head(todo)) /\ in = -1
  /\ Ends(0)
  /\ UNCHANGED <<pc, list, local, line, dest, todo, in, used, env, body, nlines, run, unforked, short>>

(* sigchld_handler() reaps every child that has ended, and may come before *)
(* waitpid(), which then fails and leaves status as it was.                *)
sigchld_handler ==
  /\ child.state = "zombie"
  /\ child' = [child EXCEPT !.state = "reaped"]
  /\ UNCHANGED <<pc, list, local, line, dest, todo, in, buf, used, env, got, body,
                 nlines, run, unforked, short>>

WaitsForStatus == child.state = "zombie"  \* bug: a reaped child is waited for
WaitReturns == child.state \in {"zombie", "reaped"}

ClosedNone == 0  \* bug: fd[1] is left open too
Closed == 1  \* close(fd[1])

InputKept == in  \* bug: fdd is not moved on
Input == IF buf = -1 THEN in ELSE buf  \* fdd = fd[0]

Wait ==
  /\ pc = "wait" /\ WaitReturns
  /\ \/ child.state = "zombie" /\ local' = IF child.fails THEN addNum(local) ELSE local
     \/ child.state = "reaped" /\ local' \in {local, addNum(local)}
  /\ child' = NoChild
  /\ used' = IF buf = -1 THEN used ELSE used - Closed
  /\ in' = Input
  /\ todo' = Tail(todo)
  /\ IF Len(todo) = 1 THEN Leave ELSE pc' = "pipe"
  /\ UNCHANGED <<list, line, dest, buf, env, got, body, nlines, run, unforked, short>>

(* Mailto() closes its pipe's writing end and reads, once; no output       *)
(* leaves what was typed, a short one the end of it.                       *)
ReadOutput ==
  /\ pc = "mail"
  /\ LET n == Bytes(got) IN
     body' = [out |-> Min({n, MsgSize}), tail |-> Max({Typed - n, 0})]
  /\ used' = used - 2
  /\ pc' = "idle"
  /\ UNCHANGED <<list, local, line, dest, todo, in, buf, child, env, got, nlines, run, unforked, short>>

-----------------------------------------------------------------------------
Serve == \/ ParseLine \/ OwnCommand \/ Pipe \/ Fork \/ Wait \/ ReadOutput
Command == Exec \/ CommandEnds

Next ==
  \/ \E l \in Lines, d \in {"client", "mail"} : TypeLine(l, d)
  \/ Serve \/ Command \/ ServerInputEnds \/ sigchld_handler

Spec == Init /\ [][Next]_vars

(* The processes go on while they can; nothing ends the server's standard  *)
(* input and nobody has to type.                                           *)
FairSpec == Spec /\ WF_vars(Serve) /\ WF_vars(Command)

-----------------------------------------------------------------------------
(* Every variable keeps its type.                                          *)
TypeOK ==
  /\ pc \in {"idle", "parse", "own", "pipe", "fork", "wait", "mail",
             "exited", "crashed", "undefined", "numbered"}
  /\ local \in Seq([cmd : STRING, num : Nat])
  /\ dest \in {"client", "mail"}
  /\ in \in -1 .. Cap /\ buf \in -1 .. Cap
  /\ child \in [state : {"none", "new", "runs", "stuck", "zombie", "reaped"}, fails : BOOLEAN]
  /\ child.state # "none" <=> pc = "wait"
  /\ used \in Base .. Limit
  /\ Bytes(got) \in Nat
  /\ pc \in {"pipe", "fork", "wait"} => todo # <<>>

(* What the parts of a line should do, one after another: the input of the *)
(* next command, what the receiver gets, and the most that a command but   *)
(* the last writes.                                                        *)
PartDone(s, part, last) ==
  LET n == IF Reads(part) THEN s.in ELSE Writes[Name(part)] IN
  IF ~Known(part) THEN [s EXCEPT !.got = Append(@, Msg), !.in = 0]
  ELSE IF ~last THEN [s EXCEPT !.in = n, !.most = Max({@, n})]
  ELSE [s EXCEPT !.got = Append(@, n)]
After(l) ==
  LET s[i \in 0 .. Len(l)] ==
        IF i = 0 THEN [in |-> 0, got |-> <<>>, most |-> 0]
        ELSE PartDone(s[i - 1], l[i], i = Len(l))
  IN s
Expected(l) == After(l)[Len(l)]

Runs == line # <<>> /\ ~Crash /\ ~Numbered /\ Word(1, 1) \notin Own

(* Whoever a line's output is for gets what its commands, run one after    *)
(* another, produce, and a mail carries it, up to what mailto() reads of   *)
(* it: unless a pipe or a process could not be made (exec.c:5-44,          *)
(* mailBox.c:80-83).                                                       *)
Delivered ==
  pc = "idle" /\ Runs /\ ~short =>
    /\ got = Expected(line).got
    /\ dest = "mail" => body.out = Min({Bytes(Expected(line).got), MsgSize})

(* Numbered pipes never run: whatever was typed before, no line starts a   *)
(* command that was remembered from an earlier one (shell.c:13, :24).      *)
NumberedNeverRun == pc # "numbered"

(* Each command leaves one descriptor behind for good, and each fork that  *)
(* failed two; nothing else does (exec.c:11-43).                            *)
LeaksOnePerCommand == pc = "idle" => used = Base + run + unforked

(* A line that fits, none of its commands but the last writing more than a *)
(* pipe holds (for mail, the last and the messages neither) or reading the *)
(* server's standard input, is dealt with, and the client can type the     *)
(* next one, whether or not the signal handler reaps the commands first    *)
(* (exec.c:35).                                                            *)
LineFits ==
  \/ ~Runs
  \/ /\ ~Reads(line[1])
     /\ Expected(line).most <= Cap
     /\ dest = "mail" => Bytes(Expected(line).got) <= Cap
Finishes ==
  pc = "parse" /\ LineFits ~> pc \in {"idle", "exited", "crashed", "undefined"}

=============================================================================
