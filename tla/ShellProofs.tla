---------------------------- MODULE ShellProofs ----------------------------
(***************************************************************************)
(* Proofs about Shell, for any lines, commands, pipes and numbers of       *)
(* descriptors: numbered commands never run, how many descriptors a child  *)
(* server has lost, and that the receiver of a line's output gets what its *)
(* commands produce.                                                       *)
(***************************************************************************)
EXTENDS Shell, FiniteSetTheorems, TLAPS

-----------------------------------------------------------------------------
(* Numbered pipes.  subServer()'s list stays empty because shell() adds to *)
(* its own copy, so that every line begins with an empty list, and only a  *)
(* line that is not run puts a node into it.                               *)
NumInv == list = <<>> /\ (pc = "parse" => local = <<>>) /\ pc # "numbered"

LEMMA NumInit == Init => NumInv
BY DEF Init, NumInv

LEMMA EmptyList ==
  /\ subNum(<<>>) = <<>>
  /\ ~checkNumPipe(<<>>)
<1>1. DOMAIN <<>> = {}
  OBVIOUS
<1>2. subNum(<<>>) = [i \in {} |-> [<<>>[i] EXCEPT !.num = IF @ # 0 THEN @ - 1 ELSE 0]]
  BY <1>1 DEF subNum
<1>3. subNum(<<>>) = <<>>
  BY <1>2
<1> QED BY <1>1, <1>3 DEF checkNumPipe

LEMMA NumParse == ASSUME NumInv, ParseLine PROVE NumInv'
<1>1. subNum(local) = <<>>
  BY EmptyList DEF NumInv, ParseLine
<1>2. list' = <<>>
  BY DEF NumInv, ParseLine, AfterReturn
<1>3. CASE Crash
  BY <1>2, <1>3 DEF ParseLine, NumInv
<1>4. CASE ~Crash /\ Word(1, 1) \in Own
  BY <1>2, <1>4 DEF ParseLine, NumInv
<1>5. CASE ~Crash /\ Word(1, 1) \notin Own /\ Numbered
  BY <1>2, <1>5 DEF ParseLine, NumInv, Leave
<1>6. CASE ~Crash /\ Word(1, 1) \notin Own /\ ~Numbered
  <2>1. pc' = IF checkNumPipe(<<>>) THEN "numbered" ELSE "pipe"
    BY <1>1, <1>6 DEF ParseLine
  <2> QED BY <1>2, <2>1, EmptyList DEF NumInv
<1> QED BY <1>3, <1>4, <1>5, <1>6

LEMMA NumStep == ASSUME NumInv, [Next]_vars PROVE NumInv'
<1>1. CASE ParseLine
  BY <1>1, NumParse
<1>2. ASSUME NEW l \in Lines, NEW d \in {"client", "mail"}, TypeLine(l, d)
      PROVE  NumInv'
  BY <1>2 DEF TypeLine, NumInv
<1>3. CASE OwnCommand \/ Pipe \/ Fork \/ Wait \/ ReadOutput
  BY <1>3 DEF OwnCommand, OwnQuit, OwnSetenv, OwnOther, Pipe, Fork, Wait, ReadOutput, Leave,
       NumInv
<1>4. CASE Command \/ ServerInputEnds \/ sigchld_handler
  BY <1>4 DEF Command, Exec, CommandEnds, ServerInputEnds, sigchld_handler, NumInv
<1>5. CASE UNCHANGED vars
  BY <1>5 DEF vars, NumInv
<1> QED BY <1>1, <1>2, <1>3, <1>4, <1>5 DEF Next, Serve

(* Whatever is typed, no line starts a command remembered from an earlier  *)
(* one (shell.c:13, :24).                                                  *)
THEOREM NeverRun == Spec => []NumberedNeverRun
<1>1. NumInv => NumberedNeverRun
  BY DEF NumInv, NumberedNeverRun
<1> QED BY NumInit, NumStep, <1>1, PTL DEF Spec

-----------------------------------------------------------------------------
(* Descriptors.  While a line is dealt with the server also holds the pipe *)
(* of a mail, and fd[1] of the running command's pipe.                     *)
Dealing == {"parse", "own", "pipe", "fork", "wait", "mail"}

LineHolds ==
  (IF dest = "mail" /\ pc \in Dealing THEN 2 ELSE 0)
    + (IF pc \in {"fork", "wait"} /\ buf # -1 THEN 1 ELSE 0)

FdInv ==
  /\ pc \in Dealing \cup {"idle"} => used = Base + run + unforked + LineHolds
  /\ used \in Int /\ run \in Int /\ unforked \in Int
  /\ in \in Nat \cup {-1} /\ buf \in Nat \cup {-1}
  /\ child.state = "runs" => Known(Head(todo))
  /\ DOMAIN child = {"state", "fails"}
  /\ pc = "wait" \/ child.state = "none"
  /\ dest \in {"client", "mail"}
  /\ pc = "mail" => dest = "mail"
  /\ NumInv

LEMMA FdInit == Init => FdInv
BY ShellAssumption, NumInit DEF Init, FdInv, LineHolds, Dealing, NoChild

LEMMA FdType ==
  ASSUME FdInv, NEW l \in Lines, NEW d \in {"client", "mail"}, TypeLine(l, d)
  PROVE  FdInv'
<1>1. NumInv'
  BY NumStep DEF Next, FdInv
<1>2. UNCHANGED <<todo, in, buf, child, run, unforked>> /\ pc = "idle" /\ dest' = d
  BY DEF TypeLine
<1>3. LineHolds = 0
  BY <1>2 DEF LineHolds, Dealing
<1>4. \/ pc' = "undefined" /\ used' = used
      \/ pc' = "parse" /\ used' = used + (IF d = "mail" THEN 2 ELSE 0)
  BY DEF TypeLine
<1>5. LineHolds' = IF pc' = "parse" /\ d = "mail" THEN 2 ELSE 0
  BY <1>2, <1>4 DEF LineHolds, Dealing
<1> QED BY <1>1, <1>2, <1>3, <1>4, <1>5, ShellAssumption DEF FdInv, Dealing

LEMMA FdParse == ASSUME FdInv, ParseLine PROVE FdInv'
<1>1. /\ UNCHANGED <<dest, buf, child, used, run, unforked>>
      /\ pc = "parse" /\ pc' \in {"crashed", "own", "mail", "idle", "numbered", "pipe"}
      /\ pc' = "idle" => dest # "mail"
      /\ pc' = "mail" => dest = "mail"
      /\ in' = in \/ in' = -1
  BY DEF ParseLine, Leave
<1>2. NumInv'
  BY NumParse DEF FdInv
<1> QED BY <1>1, <1>2 DEF FdInv, LineHolds, Dealing, NumInv

LEMMA FdOwn == ASSUME FdInv, OwnCommand PROVE FdInv'
<1>1. /\ UNCHANGED <<dest, in, buf, child, todo, used, run, unforked>>
      /\ pc = "own" /\ pc' \in {"exited", "crashed", "mail", "idle"}
      /\ pc' = "idle" => dest # "mail"
      /\ pc' = "mail" => dest = "mail"
  BY DEF OwnCommand, OwnQuit, OwnSetenv, OwnOther, Leave
<1>2. NumInv'
  BY NumStep DEF FdInv, Next, Serve
<1> QED BY <1>1, <1>2 DEF FdInv, LineHolds, Dealing

LEMMA FdPipe == ASSUME FdInv, Pipe PROVE FdInv'
<1>1. NumInv'
  BY NumStep DEF FdInv, Next, Serve
<1>2. UNCHANGED <<dest, in, todo, child, unforked>> /\ pc = "pipe"
  BY DEF Pipe
<1>3. CASE Room
  <2>1. pc' = "fork" /\ used' = used + 2 /\ buf' = 0 /\ run' = run + 1
    BY <1>3 DEF Pipe
  <2>2. LineHolds' = LineHolds + 1
    BY <1>2, <2>1 DEF LineHolds, Dealing
  <2>3. LineHolds \in Int
    BY DEF LineHolds
  <2> QED BY <1>1, <1>2, <2>1, <2>2, <2>3, ShellAssumption DEF FdInv, Dealing
<1>4. CASE ~Room
  <2>1. pc' \in {"undefined", "fork"} /\ used' = used /\ buf' = -1 /\ run' = run
    BY <1>4 DEF Pipe
  <2>2. pc' = "fork" => LineHolds' = LineHolds
    BY <1>2, <2>1 DEF LineHolds, Dealing
  <2> QED BY <1>1, <1>2, <2>1, <2>2 DEF FdInv, Dealing
<1> QED BY <1>3, <1>4

LEMMA FdFork == ASSUME FdInv, Fork PROVE FdInv'
<1>1. NumInv'
  BY NumStep DEF FdInv, Next, Serve
<1>2. UNCHANGED <<dest, in, buf, todo, used, run>> /\ pc = "fork"
  BY DEF Fork
<1>3. CASE pc' = "wait" /\ child' = [state |-> "new", fails |-> FALSE] /\ UNCHANGED unforked
  BY <1>1, <1>2, <1>3 DEF FdInv, LineHolds, Dealing
<1>4. CASE Leave /\ UNCHANGED child
           /\ unforked' = IF buf = -1 THEN unforked ELSE unforked + 1
  <2>1. /\ pc' \in {"mail", "idle"}
        /\ pc' = "idle" => dest # "mail"
        /\ pc' = "mail" => dest = "mail"
    BY <1>4 DEF Leave
  <2>2. LineHolds = LineHolds' + (IF buf = -1 THEN 0 ELSE 1) /\ LineHolds' \in Int
    BY <1>2, <2>1 DEF LineHolds, Dealing
  <2> QED BY <1>1, <1>2, <1>4, <2>1, <2>2, ShellAssumption DEF FdInv, Dealing
<1> QED BY <1>3, <1>4 DEF Fork

LEMMA FdWait == ASSUME FdInv, Wait PROVE FdInv'
<1>1. NumInv'
  BY NumStep DEF FdInv, Next, Serve
<1>2. /\ UNCHANGED <<dest, buf, run, unforked>> /\ pc = "wait" /\ child' = NoChild
      /\ used' = IF buf = -1 THEN used ELSE used - 1
      /\ in' = IF buf = -1 THEN in ELSE buf
      /\ pc' \in {"mail", "idle", "pipe"}
      /\ pc' = "idle" => dest # "mail"
      /\ pc' = "mail" => dest = "mail"
  BY DEF Wait, Closed, Input, Leave
<1>3. LineHolds = LineHolds' + (IF buf = -1 THEN 0 ELSE 1) /\ LineHolds' \in Int
  BY <1>2 DEF LineHolds, Dealing
<1> QED BY <1>1, <1>2, <1>3, ShellAssumption DEF FdInv, Dealing, NoChild

LEMMA FdRead == ASSUME FdInv, ReadOutput PROVE FdInv'
<1>1. NumInv'
  BY NumStep DEF FdInv, Next, Serve
<1>2. UNCHANGED <<dest, in, buf, child, todo, run, unforked>> /\ pc = "mail" /\ pc' = "idle"
      /\ used' = used - 2
  BY DEF ReadOutput
<1>3. LineHolds = 2 /\ LineHolds' = 0
  BY <1>2 DEF FdInv, LineHolds, Dealing
<1> QED BY <1>1, <1>2, <1>3, ShellAssumption DEF FdInv, Dealing

LEMMA FdCommand ==
  ASSUME FdInv, Command \/ ServerInputEnds \/ sigchld_handler
  PROVE  FdInv'
<1>1. NumInv'
  BY NumStep DEF FdInv, Next, Serve
<1>2. UNCHANGED <<pc, dest, todo, used, run, unforked>>
  BY DEF Command, Exec, CommandEnds, ServerInputEnds, sigchld_handler
<1>3. /\ in' \in Nat \cup {-1} /\ buf' \in Nat \cup {-1}
      /\ buf' = -1 <=> buf = -1
  <2>1. ASSUME NEW n \in Nat, Ends(n)
        PROVE  buf' \in Nat \cup {-1} /\ (buf' = -1 <=> buf = -1)
    BY <2>1 DEF Ends, Sink, FdInv
  <2>2. CASE CommandEnds
    <3>1. CASE Reads(Head(todo))
      BY <2>1, <2>2, <3>1 DEF CommandEnds, FdInv
    <3>2. CASE ~Reads(Head(todo))
      <4>1. Writes[Name(Head(todo))] \in Nat
        BY <2>2, <3>2, ShellAssumption DEF CommandEnds, FdInv, Reads, Known
      <4> QED BY <2>1, <2>2, <3>2, <4>1 DEF CommandEnds, FdInv
    <3> QED BY <3>1, <3>2
  <2>3. CASE ServerInputEnds
    BY <2>1, <2>3 DEF ServerInputEnds, FdInv
  <2>4. CASE Exec \/ sigchld_handler
    BY <2>4 DEF Exec, sigchld_handler, FdInv
  <2> QED BY <2>2, <2>3, <2>4 DEF Command
<1>4. /\ DOMAIN child' = {"state", "fails"}
      /\ child'.state = "runs" => Known(Head(todo))
      /\ pc = "wait" \/ child'.state = "none"
  <2>1. CASE Exec
    BY <2>1 DEF Exec, FdInv
  <2>2. CASE CommandEnds \/ ServerInputEnds
    BY <2>2 DEF CommandEnds, ServerInputEnds, Ends, FdInv
  <2>3. CASE sigchld_handler
    BY <2>3 DEF sigchld_handler, FdInv
  <2> QED BY <2>1, <2>2, <2>3 DEF Command
<1>5. LineHolds' = LineHolds
  BY <1>2, <1>3 DEF LineHolds
<1> QED BY <1>1, <1>2, <1>3, <1>4, <1>5 DEF FdInv, Known, Name

LEMMA FdStep == ASSUME FdInv, [Next]_vars PROVE FdInv'
<1>1. CASE UNCHANGED vars
  BY <1>1 DEF vars, FdInv, NumInv, LineHolds, Known, Name
<1> QED BY <1>1, FdType, FdParse, FdOwn, FdPipe, FdFork, FdWait, FdRead, FdCommand
     DEF Next, Serve

(* Each command leaves one descriptor behind, each fork that failed two,   *)
(* and nothing else does (exec.c:11-43).                                   *)
THEOREM LeakCounted == Spec => []LeaksOnePerCommand
<1>1. FdInv => LeaksOnePerCommand
  BY ShellAssumption DEF FdInv, LeaksOnePerCommand, LineHolds, Dealing
<1> QED BY FdInit, FdStep, <1>1, PTL DEF Spec

-----------------------------------------------------------------------------
(* What a line should do.  Induction over the naturals, stated with a set: *)
(* were there a least number outside S, adding one would map the finitely  *)
(* many below it onto themselves without ever giving 0.                    *)
LEMMA Induction ==
  ASSUME NEW S, 0 \in S, \A n \in Nat : n \in S => n + 1 \in S
  PROVE  Nat \subseteq S
<1> SUFFICES ASSUME NEW m \in Nat, m \notin S PROVE FALSE
  OBVIOUS
<1> DEFINE T == {k \in 0 .. m : k \in S}
           up == [k \in T |-> k + 1]
<1>1. IsFiniteSet(T)
  <2>1. IsFiniteSet(0 .. m) /\ T \in SUBSET (0 .. m)
    BY FS_Interval
  <2> QED BY <2>1, FS_Subset
<1>2. \A k \in T : k + 1 \in T
  OBVIOUS
<1>3. up \in Injection(T, T)
  BY <1>2 DEF Injection, IsInjective
<1>4. up \in Surjection(T, T)
  BY <1>1, <1>3, FS_Injection
<1>5. 0 \in T
  OBVIOUS
<1>6. PICK k \in T : up[k] = 0
  BY <1>4, <1>5 DEF Surjection
<1> QED BY <1>6

(* The first n parts of a line, done one after another.                    *)
Start == [in |-> 0, got |-> <<>>, most |-> 0]
DoneNext(s, i, l) == IF i = 0 THEN Start ELSE PartDone(s[i - 1], l[i], i = Len(l))
IsDone(s, n, l) == s = [i \in 0 .. n |-> DoneNext(s, i, l)]

LEMMA DoneExists ==
  ASSUME NEW l, NEW n \in Nat
  PROVE  \E s : IsDone(s, n, l)
<1> DEFINE S == {k \in Nat : \E s : IsDone(s, k, l)}
<1>1. 0 \in S
  <2>1. IsDone([i \in 0 .. 0 |-> Start], 0, l)
    BY DEF IsDone, DoneNext
  <2> QED BY <2>1
<1>2. ASSUME NEW k \in Nat, k \in S PROVE k + 1 \in S
  <2>1. PICK s : IsDone(s, k, l)
    BY <1>2
  <2> DEFINE more == [i \in 0 .. k + 1 |->
                        IF i <= k THEN s[i] ELSE PartDone(s[k], l[k + 1], k + 1 = Len(l))]
  <2>2. \A i \in 0 .. k : more[i] = s[i] /\ i + 1 \in 0 .. k + 1
    OBVIOUS
  <2>3. more[k + 1] = PartDone(s[k], l[k + 1], k + 1 = Len(l))
    OBVIOUS
  <2>4. more = [i \in 0 .. k + 1 |-> more[i]]
    OBVIOUS
  <2> HIDE DEF more
  <2>5. \A i \in 0 .. k : s[i] = DoneNext(s, i, l)
    BY <2>1 DEF IsDone
  <2>6. \A i \in 0 .. k + 1 : more[i] = DoneNext(more, i, l)
    BY <2>2, <2>3, <2>5 DEF DoneNext
  <2>7. IsDone(more, k + 1, l)
    BY <2>4, <2>6, Zenon DEF IsDone
  <2> QED BY <2>7
<1> QED BY <1>1, <1>2, Induction

(* After(l) has the parts of l done one after another.                     *)
LEMMA AfterIs ==
  ASSUME NEW S, NEW l \in Seq(S)
  PROVE  /\ After(l)[0] = Start
         /\ \A i \in 1 .. Len(l) : After(l)[i] = PartDone(After(l)[i - 1], l[i], i = Len(l))
<1>1. Len(l) \in Nat
  OBVIOUS
<1>2. \E s : IsDone(s, Len(l), l)
  BY <1>1, DoneExists
<1>3. After(l) = CHOOSE s : IsDone(s, Len(l), l)
  BY DEF After, IsDone, DoneNext, Start
<1>4. IsDone(After(l), Len(l), l)
  BY <1>2, <1>3
<1>5. \A i \in 0 .. Len(l) : After(l)[i] = DoneNext(After(l), i, l)
  BY <1>4 DEF IsDone
<1> QED BY <1>1, <1>5 DEF DoneNext

(* Each of its values is such a record.                                    *)
Fields == {"in", "got", "most"}
LEMMA PartFields ==
  ASSUME NEW s, DOMAIN s = Fields, NEW part, NEW last
  PROVE  DOMAIN PartDone(s, part, last) = Fields
BY DEF PartDone, Fields

LEMMA AfterFields ==
  ASSUME NEW S, NEW l \in Seq(S)
  PROVE  \A i \in 0 .. Len(l) : DOMAIN After(l)[i] = Fields
<1> DEFINE Good == {i \in Nat : i <= Len(l) => DOMAIN After(l)[i] = Fields}
<1>1. Len(l) \in Nat
  OBVIOUS
<1>2. 0 \in Good
  <2>1. DOMAIN Start = Fields
    BY DEF Start, Fields
  <2> QED BY <2>1, AfterIs
<1>3. ASSUME NEW i \in Nat, i \in Good PROVE i + 1 \in Good
  <2> SUFFICES ASSUME i + 1 <= Len(l) PROVE DOMAIN After(l)[i + 1] = Fields
    OBVIOUS
  <2>1. DOMAIN After(l)[i] = Fields
    BY <1>1, <1>3
  <2>2. After(l)[i + 1] = PartDone(After(l)[i], l[i + 1], i + 1 = Len(l))
    <3>1. i + 1 \in 1 .. Len(l) /\ (i + 1) - 1 = i
      BY <1>1
    <3> QED BY <3>1, AfterIs
  <2> QED BY <2>1, <2>2, PartFields
<1>4. Nat \subseteq Good
  <2> HIDE DEF Good
  <2> QED BY <1>2, <1>3, Induction
<1> QED BY <1>1, <1>4

-----------------------------------------------------------------------------
(* What a line has done: the parts that are done gave its receiver what    *)
(* they should, and the next part reads what the last one left it.         *)
Parts == [words : Seq(STRING), bare : BOOLEAN]

Done == Len(line) - Len(todo)

Reached(i) ==
  /\ got = After(line)[i].got
  /\ IF i = 0 THEN in = -1 ELSE in = After(line)[i].in /\ in # -1

Left(i) ==
  /\ got = After(line)[i].got
  /\ Len(todo) # 1 => buf = After(line)[i].in

Ready == pc = "fork" \/ (pc = "wait" /\ child.state \in {"new", "runs"})

Progress ==
  /\ pc \in {"pipe", "fork", "wait"} =>
       /\ todo \in Seq(Parts) /\ Len(todo) \in 1 .. Len(line)
       /\ \A i \in 1 .. Len(todo) : todo[i] = line[Done + i]
  /\ pc = "pipe" \/ Ready => Reached(Done)
  /\ Ready => buf = 0
  /\ pc = "wait" => buf # -1
  /\ pc = "wait" /\ child.state \in {"zombie", "reaped"} => Left(Done + 1)
  /\ pc = "mail" => got = Expected(line).got
  /\ pc = "idle" => /\ got = Expected(line).got
                    /\ dest = "mail" => body.out = Min({Bytes(Expected(line).got), MsgSize})

DeliverInv ==
  /\ line \in Seq(Parts)
  /\ pc = "parse" => got = <<>>
  /\ pc = "own" => Word(1, 1) \in Own
  /\ Runs /\ ~short => Progress

(* What a line is does not change while it is dealt with.                  *)
LEMMA SameLine == ASSUME line' = line PROVE Runs' = Runs
BY DEF Runs, Crash, Numbered, Blank, Word

LEMMA DeliverInit == Init => DeliverInv
BY DEF Init, DeliverInv, Runs

LEMMA DeliverType ==
  ASSUME FdInv, DeliverInv, NEW l \in Lines, NEW d \in {"client", "mail"}, TypeLine(l, d)
  PROVE  DeliverInv'
<1>1. l \in Seq(Parts)
  BY ShellAssumption DEF Parts
<1> QED BY <1>1 DEF TypeLine, DeliverInv, Progress, Ready

(* A line that is run starts with all of its parts to do.                  *)
LEMMA DeliverParse == ASSUME FdInv, DeliverInv, ParseLine PROVE DeliverInv'
<1>1. NumInv' /\ UNCHANGED <<line, dest, buf, child, got, body, short>> /\ pc = "parse"
  BY NumParse DEF ParseLine, FdInv
<1>2. Runs' = Runs
  BY <1>1, SameLine
<1>3. CASE Runs
  <2>1. pc' = "pipe" /\ todo' = line /\ in' = -1
    BY <1>1, <1>3 DEF ParseLine, Runs, NumInv
  <2>2. got = Start.got
    BY <1>1 DEF DeliverInv, Start
  <2>3. After(line)[0] = Start
    BY AfterIs DEF DeliverInv
  <2>4. Len(line) \in Nat \ {0} /\ Done' = 0
    BY <1>1, <1>3, <2>1 DEF DeliverInv, Runs, Done
  <2>5. \A i \in 1 .. Len(todo)' : todo'[i] = line'[Done' + i]
    BY <1>1, <2>1, <2>4
  <2>6. Reached(0)'
    BY <1>1, <2>1, <2>2, <2>3 DEF Reached
  <2>7. Progress'
    BY <1>1, <2>1, <2>4, <2>5, <2>6 DEF Progress, Ready, DeliverInv
  <2> QED BY <1>1, <2>1, <2>7 DEF DeliverInv
<1>4. CASE ~Runs
  <2>1. pc' = "own" => Word(1, 1)' \in Own
    BY <1>1 DEF ParseLine, Leave, Word
  <2>2. pc' # "parse"
    BY DEF ParseLine, Leave
  <2> QED BY <1>1, <1>2, <1>4, <2>1, <2>2 DEF DeliverInv
<1> QED BY <1>3, <1>4

LEMMA DeliverOwn == ASSUME FdInv, DeliverInv, OwnCommand PROVE DeliverInv'
<1>1. UNCHANGED <<line, todo>> /\ pc = "own" /\ pc' \notin {"parse", "own"}
  BY DEF OwnCommand, OwnQuit, OwnSetenv, OwnOther, Leave
<1>2. ~Runs /\ Runs' = Runs
  BY <1>1, SameLine DEF DeliverInv, Runs
<1> QED BY <1>1, <1>2 DEF DeliverInv

LEMMA DeliverPipe == ASSUME FdInv, DeliverInv, Pipe PROVE DeliverInv'
<1>1. /\ UNCHANGED <<line, todo, in, child, got, dest>> /\ pc = "pipe"
      /\ pc' \in {"fork", "undefined"}
      /\ ~short' => pc' = "fork" /\ buf' = 0 /\ ~short
  BY DEF Pipe
<1>2. Runs' = Runs
  BY <1>1, SameLine
<1>3. ASSUME Runs, ~short' PROVE Progress'
  <2>1. Progress /\ Done' = Done
    BY <1>1, <1>3 DEF DeliverInv, Done
  <2>2. Reached(Done)'
    BY <1>1, <2>1 DEF Progress, Reached
  <2> QED BY <1>1, <1>3, <2>1, <2>2 DEF Progress, Ready
<1> QED BY <1>1, <1>2, <1>3 DEF DeliverInv

LEMMA DeliverFork == ASSUME FdInv, DeliverInv, Fork PROVE DeliverInv'
<1>1. /\ UNCHANGED <<line, todo, in, buf, got, dest>> /\ pc = "fork"
      /\ pc' \in {"wait", "mail", "idle"}
      /\ ~short' => pc' = "wait" /\ child'.state = "new" /\ ~short
  BY DEF Fork, Leave
<1>2. Runs' = Runs
  BY <1>1, SameLine
<1>3. ASSUME Runs, ~short' PROVE Progress'
  <2>1. Progress /\ Done' = Done
    BY <1>1, <1>3 DEF DeliverInv, Done
  <2>2. Reached(Done)' /\ buf = 0
    BY <1>1, <2>1 DEF Progress, Reached, Ready
  <2> QED BY <1>1, <1>3, <2>1, <2>2 DEF Progress, Ready
<1> QED BY <1>1, <1>2, <1>3 DEF DeliverInv

-----------------------------------------------------------------------------
(* The running command: what the next value of After(line) says of it.     *)
LEMMA NextPart ==
  ASSUME DeliverInv, Progress, pc = "wait"
  PROVE  /\ Done \in Nat /\ Done + 1 \in 1 .. Len(line)
         /\ todo # <<>> /\ Head(todo) = line[Done + 1]
         /\ (Done + 1 = Len(line)) <=> (Len(todo) = 1)
         /\ DOMAIN After(line)[Done] = Fields
         /\ After(line)[Done + 1] = PartDone(After(line)[Done], Head(todo), Len(todo) = 1)
<1>1. Len(line) \in Nat /\ Len(todo) \in Nat /\ Len(todo) \in 1 .. Len(line)
  BY DEF DeliverInv, Progress
<1>2. Done \in Nat /\ Done + 1 \in 1 .. Len(line) /\ Done \in 0 .. Len(line)
      /\ (Done + 1) - 1 = Done
  BY <1>1 DEF Done
<1>3. (Done + 1 = Len(line)) <=> (Len(todo) = 1)
  <2>1. \A a, b \in Int : (a - b + 1 = a) <=> (b = 1)
    OBVIOUS
  <2>2. Len(line) \in Int /\ Len(todo) \in Int
    BY <1>1
  <2> QED BY <2>1, <2>2, Zenon DEF Done
<1>4. todo # <<>> /\ Head(todo) = line[Done + 1]
  <2>1. todo # <<>> /\ Head(todo) = todo[1]
    BY <1>1 DEF Progress
  <2>2. 1 \in 1 .. Len(todo)
    BY <1>1
  <2>3. todo[1] = line[Done + 1]
    BY <2>2 DEF Progress
  <2> QED BY <2>1, <2>3
<1>5. DOMAIN After(line)[Done] = Fields
  BY <1>2, AfterFields DEF DeliverInv
<1>6. After(line)[Done + 1] = PartDone(After(line)[Done], line[Done + 1], Done + 1 = Len(line))
  <2>1. After(line)[Done + 1]
          = PartDone(After(line)[(Done + 1) - 1], line[Done + 1], Done + 1 = Len(line))
    BY <1>2, AfterIs DEF DeliverInv
  <2> QED BY <1>2, <2>1
<1>7. (Done + 1 = Len(line)) = (Len(todo) = 1)
  BY <1>3
<1> QED BY <1>2, <1>3, <1>4, <1>5, <1>6, <1>7

LEMMA NextSays ==
  ASSUME DeliverInv, Progress, pc = "wait"
  PROVE  /\ ~Known(Head(todo)) =>
               /\ After(line)[Done + 1].got = Append(After(line)[Done].got, Msg)
               /\ After(line)[Done + 1].in = 0
         /\ Known(Head(todo)) =>
              LET n == IF Reads(Head(todo)) THEN After(line)[Done].in
                                            ELSE Writes[Name(Head(todo))] IN
              IF Len(todo) = 1
              THEN After(line)[Done + 1].got = Append(After(line)[Done].got, n)
              ELSE /\ After(line)[Done + 1].got = After(line)[Done].got
                   /\ After(line)[Done + 1].in = n
<1>1. /\ DOMAIN After(line)[Done] = Fields
      /\ After(line)[Done + 1] = PartDone(After(line)[Done], Head(todo), Len(todo) = 1)
  BY NextPart
<1> QED BY <1>1 DEF PartDone, Fields

LEMMA DeliverExec == ASSUME FdInv, DeliverInv, Exec PROVE DeliverInv'
<1>1. /\ UNCHANGED <<line, todo, in, buf, dest, pc, short>>
      /\ child.state = "new" /\ pc = "wait"
  BY DEF Exec, FdInv
<1>2. Runs' = Runs
  BY <1>1, SameLine
<1>3. ASSUME Runs, ~short PROVE Progress'
  <2>1. Progress /\ Done' = Done
    BY <1>1, <1>3 DEF DeliverInv, Done
  <2>2. Reached(Done) /\ buf = 0
    BY <1>1, <2>1 DEF Progress, Ready
  <2>3. CASE Known(Head(todo))
    <3>1. child'.state = "runs" /\ got' = got
      BY <2>3 DEF Exec, FdInv
    <3>2. Reached(Done)'
      BY <1>1, <2>1, <2>2, <3>1 DEF Reached
    <3> QED BY <1>1, <2>1, <2>2, <3>1, <3>2 DEF Progress, Ready
  <2>4. CASE ~Known(Head(todo)) /\ child'.state = "zombie" /\ got' = Append(got, Msg)
    <3>1. /\ After(line)[Done + 1].got = Append(After(line)[Done].got, Msg)
          /\ After(line)[Done + 1].in = 0
      BY <1>1, <2>1, <2>4, NextSays
    <3>2. Left(Done + 1)'
      BY <1>1, <2>1, <2>2, <2>4, <3>1 DEF Reached, Left
    <3> QED BY <1>1, <2>1, <2>2, <2>4, <3>2 DEF Progress, Ready
  <2>5. CASE child'.state = "stuck"
    BY <1>1, <2>1, <2>2, <2>5 DEF Progress, Ready
  <2> QED BY <2>3, <2>4, <2>5 DEF Exec, FdInv
<1> QED BY <1>1, <1>2, <1>3 DEF DeliverInv

(* A command that ends has written what it should, where it should.        *)
LEMMA DeliverEnds ==
  ASSUME FdInv, DeliverInv, NEW n \in Nat, Ends(n), child.state = "runs",
         UNCHANGED <<line, todo, dest, pc, short>>,
         Runs /\ ~short =>
           n = IF Reads(Head(todo)) THEN After(line)[Done].in ELSE Writes[Name(Head(todo))]
  PROVE  DeliverInv'
<1>1. pc = "wait" /\ Known(Head(todo))
  BY DEF FdInv
<1>2. Runs' = Runs
  BY SameLine
<1>3. ASSUME Runs, ~short PROVE Progress'
  <2>1. Progress /\ Done' = Done
    BY <1>3 DEF DeliverInv, Done
  <2>2. Reached(Done) /\ buf = 0
    BY <1>1, <2>1 DEF Progress, Ready
  <2>3. CASE Fits(Sink, n)
    <3>1. /\ child'.state = "zombie"
          /\ buf' = IF Sink = "pipe" THEN n ELSE buf
          /\ got' = IF Sink = dest THEN Append(got, n) ELSE got
      BY <2>3 DEF Ends
    <3>2. CASE Len(todo) = 1
      <4>1. After(line)[Done + 1].got = Append(After(line)[Done].got, n)
        BY <1>1, <1>3, <2>1, <3>2, NextSays
      <4>2. got' = Append(got, n) /\ buf' = buf
        BY <3>1, <3>2 DEF Sink, FdInv
      <4>3. Left(Done + 1)'
        BY <2>1, <2>2, <3>2, <4>1, <4>2 DEF Reached, Left
      <4> QED BY <1>1, <2>1, <2>2, <3>1, <4>2, <4>3 DEF Progress, Ready
    <3>3. CASE Len(todo) # 1
      <4>1. /\ After(line)[Done + 1].got = After(line)[Done].got
            /\ After(line)[Done + 1].in = n
        BY <1>1, <1>3, <2>1, <3>3, NextSays
      <4>2. got' = got /\ buf' = n
        BY <2>2, <3>1, <3>3 DEF Sink, FdInv
      <4>3. Left(Done + 1)'
        BY <2>1, <2>2, <4>1, <4>2 DEF Reached, Left
      <4> QED BY <1>1, <2>1, <2>2, <3>1, <4>2, <4>3 DEF Progress, Ready
    <3> QED BY <3>2, <3>3
  <2>4. CASE ~Fits(Sink, n)
    <3>1. child'.state = "stuck" /\ UNCHANGED <<buf, got>>
      BY <2>4 DEF Ends, FdInv
    <3> QED BY <1>1, <2>1, <2>2, <3>1 DEF Progress, Ready
  <2> QED BY <2>3, <2>4
<1> QED BY <1>1, <1>2, <1>3 DEF DeliverInv

LEMMA DeliverCommandEnds == ASSUME FdInv, DeliverInv, CommandEnds PROVE DeliverInv'
<1>1. /\ UNCHANGED <<line, todo, dest, pc, short>> /\ child.state = "runs" /\ pc = "wait"
      /\ Known(Head(todo))
  BY DEF CommandEnds, FdInv
<1>2. CASE Reads(Head(todo))
  <2>1. in \in Nat /\ Ends(in)
    BY <1>2 DEF CommandEnds, FdInv
  <2>2. Runs /\ ~short => in = After(line)[Done].in
    BY <1>1, <2>1 DEF DeliverInv, Progress, Ready, Reached
  <2> QED BY <1>1, <1>2, <2>1, <2>2, DeliverEnds
<1>3. CASE ~Reads(Head(todo))
  <2>1. Writes[Name(Head(todo))] \in Nat /\ Ends(Writes[Name(Head(todo))])
    BY <1>1, <1>3, ShellAssumption DEF CommandEnds, Reads, Known
  <2> QED BY <1>1, <1>3, <2>1, DeliverEnds
<1> QED BY <1>2, <1>3

(* Only the first command of a line has the server's standard input.       *)
LEMMA DeliverServerInputEnds == ASSUME FdInv, DeliverInv, ServerInputEnds PROVE DeliverInv'
<1>1. /\ UNCHANGED <<line, todo, dest, pc, short>> /\ child.state = "runs" /\ pc = "wait"
      /\ Reads(Head(todo)) /\ in = -1 /\ Ends(0)
  BY DEF ServerInputEnds, FdInv
<1>2. ASSUME Runs, ~short PROVE After(line)[Done].in = 0
  <2>1. Reached(Done)
    BY <1>1, <1>2 DEF DeliverInv, Progress, Ready
  <2>2. Done = 0
    BY <1>1, <2>1 DEF Reached
  <2>3. After(line)[0].in = 0
    BY AfterIs DEF DeliverInv, Start
  <2> QED BY <2>2, <2>3
<1> QED BY <1>1, <1>2, DeliverEnds

LEMMA DeliverReaped == ASSUME FdInv, DeliverInv, sigchld_handler PROVE DeliverInv'
<1>1. /\ UNCHANGED <<line, todo, in, buf, got, dest, pc, short>>
      /\ child.state = "zombie" /\ child'.state = "reaped" /\ pc = "wait"
  BY DEF sigchld_handler, FdInv
<1>2. Runs' = Runs
  BY <1>1, SameLine
<1>3. ASSUME Runs, ~short PROVE Progress'
  <2>1. Progress /\ Done' = Done
    BY <1>1, <1>3 DEF DeliverInv, Done
  <2>2. Left(Done + 1)'
    BY <1>1, <2>1 DEF Progress, Left
  <2> QED BY <1>1, <2>1, <2>2 DEF Progress, Ready
<1> QED BY <1>1, <1>2, <1>3 DEF DeliverInv

(* A command that has been waited for leaves the next one its pipe, and    *)
(* the last one leaves the line done.                                      *)
LEMMA DeliverWait == ASSUME FdInv, DeliverInv, Wait PROVE DeliverInv'
<1>1. /\ UNCHANGED <<line, dest, buf, got, short>> /\ pc = "wait"
      /\ child.state \in {"zombie", "reaped"}
      /\ todo' = Tail(todo) /\ in' = Input
      /\ IF Len(todo) = 1 THEN Leave ELSE pc' = "pipe"
  BY DEF Wait, WaitReturns
<1>2. Runs' = Runs
  BY <1>1, SameLine
<1>3. ASSUME Runs, ~short PROVE Progress'
  <2>1. Progress
    BY <1>3 DEF DeliverInv
  <2>2. /\ Done \in Nat /\ Done + 1 \in 1 .. Len(line)
        /\ todo # <<>>
        /\ (Done + 1 = Len(line)) <=> (Len(todo) = 1)
    BY <1>1, <2>1, NextPart
  <2>3. /\ todo' \in Seq(Parts) /\ Len(todo') = Len(todo) - 1
        /\ \A i \in 1 .. Len(todo') : todo'[i] = todo[i + 1]
        /\ Len(todo) \in Nat /\ Len(line) \in Nat
    BY <1>1, <2>1, <2>2 DEF DeliverInv, Progress
  <2>4. Left(Done + 1) /\ buf # -1 /\ in' = buf
    BY <1>1, <2>1 DEF Progress, Input
  <2>5. CASE Len(todo) = 1
    <3>1. pc' \in {"mail", "idle"} /\ (pc' = "idle" => dest # "mail")
      BY <1>1, <2>5 DEF Leave
    <3>2. got = Expected(line).got
      BY <2>2, <2>4, <2>5 DEF Left, Expected
    <3> QED BY <1>1, <2>3, <3>1, <3>2 DEF Progress, Ready
  <2>6. CASE Len(todo) # 1
    <3>1. pc' = "pipe" /\ Done' = Done + 1
      BY <1>1, <2>3, <2>6 DEF Done
    <3>2. Reached(Done)'
      BY <1>1, <2>2, <2>4, <2>6, <3>1 DEF Left, Reached
    <3>3. Len(todo') \in 1 .. Len(line)
      BY <2>1, <2>3, <2>6, <1>1 DEF Progress
    <3>4. ASSUME NEW i \in 1 .. Len(todo') PROVE todo'[i] = line[Done' + i]
      <4>1. i + 1 \in 1 .. Len(todo) /\ todo'[i] = todo[i + 1]
        BY <2>3
      <4>2. todo[i + 1] = line[Done + (i + 1)]
        BY <1>1, <2>1, <4>1 DEF Progress
      <4>3. Done + (i + 1) = Done' + i
        BY <2>2, <3>1
      <4> QED BY <4>1, <4>2, <4>3
    <3> QED BY <1>1, <2>3, <3>1, <3>2, <3>3, <3>4 DEF Progress, Ready
  <2> QED BY <2>5, <2>6
<1> QED BY <1>1, <1>2, <1>3 DEF DeliverInv, Leave

LEMMA DeliverRead == ASSUME FdInv, DeliverInv, ReadOutput PROVE DeliverInv'
<1>1. /\ UNCHANGED <<line, todo, got, dest, short>> /\ pc = "mail" /\ pc' = "idle"
      /\ body'.out = Min({Bytes(got), MsgSize})
  BY DEF ReadOutput
<1>2. Runs' = Runs
  BY <1>1, SameLine
<1>3. ASSUME Runs, ~short PROVE Progress'
  <2>1. got = Expected(line).got
    BY <1>1, <1>3 DEF DeliverInv, Progress
  <2>2. body'.out = Min({Bytes(Expected(line).got), MsgSize})
    BY <1>1, <2>1
  <2> QED BY <1>1, <2>1, <2>2 DEF Progress, Ready
<1> QED BY <1>1, <1>2, <1>3 DEF DeliverInv

LEMMA DeliverStep == ASSUME FdInv, DeliverInv, [Next]_vars PROVE DeliverInv'
<1>1. CASE UNCHANGED vars
  <2>1. Runs' = Runs /\ Done' = Done
    BY <1>1, SameLine DEF vars, Done
  <2>2. Progress' = Progress
    BY <1>1, <2>1 DEF vars, Progress, Ready, Reached, Left
  <2>3. Word(1, 1)' = Word(1, 1)
    BY <1>1 DEF vars, Word
  <2> QED BY <1>1, <2>1, <2>2, <2>3 DEF vars, DeliverInv
<1> QED BY <1>1, DeliverType, DeliverParse, DeliverOwn, DeliverPipe, DeliverFork, DeliverWait,
          DeliverRead, DeliverExec, DeliverCommandEnds, DeliverServerInputEnds, DeliverReaped
     DEF Next, Serve, Command

(* Whoever a line's output is for gets what its commands, run one after    *)
(* another, produce, and a mail carries it, up to what mailto() reads of   *)
(* it: unless a pipe or a process could not be made (exec.c:5-44,          *)
(* mailBox.c:80-83).                                                       *)
THEOREM OutputDelivered == Spec => []Delivered
<1>1. DeliverInv => Delivered
  BY DEF DeliverInv, Progress, Delivered
<1> QED BY FdInit, FdStep, DeliverInit, DeliverStep, <1>1, PTL DEF Spec
=============================================================================
