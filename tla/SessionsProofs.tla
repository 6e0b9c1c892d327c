--------------------------- MODULE SessionsProofs ---------------------------
(***************************************************************************)
(* Proofs about Sessions, for any number of clients, slots, names, groups  *)
(* and requests.                                                           *)
(***************************************************************************)
EXTENDS SessionsV2, SequenceTheorems, WellFoundedInduction, TLAPS

(* A non-empty set of naturals has a least element.                        *)
LEMMA MinExists ==
  ASSUME NEW S \in SUBSET Nat, S # {}
  PROVE  \E m \in S : \A j \in S : m <= j
<1>1. PICK x \in S : \A y \in S : ~(<<y, x>> \in OpToRel(<, Nat))
  BY NatLessThanWellFounded, WFMin
<1>2. \A y \in S : ~ (y < x)
  BY <1>1 DEF OpToRel
<1> QED BY <1>2

(* getMinC_ID() returns a free slot, whenever there is one.                *)
LEMMA MinIsFree ==
  ASSUME Free # {}
  PROVE  /\ getMinC_ID \in Free
         /\ getMinC_ID \in Slots
         /\ \A j \in Free : getMinC_ID <= j
<1>1. Free \in SUBSET Nat /\ Free \in SUBSET Slots
  BY SessionsAssumption DEF Free, Slots
<1>2. \E i \in Free : \A j \in Free : i <= j
  BY <1>1, MinExists
<1> QED BY <1>1, <1>2 DEF getMinC_ID

-----------------------------------------------------------------------------
(* What the operators of the actions return.                               *)

LEMMA MessagesTyped ==
  ASSUME TypeOK, NEW i \in Slots
  PROVE  /\ Ack(i) \in Seq(UnitSet)
         /\ Table(i) \in Seq(UnitSet)
         /\ \A m \in MsgKind : Msg(m, i) \in Seq(UnitSet)
<1>1. \A m \in MsgKind : Unit(m, i) \in UnitSet
  BY DEF TypeOK, Unit, UnitSet
<1>2. [Unit("table", i) EXCEPT !.zero = (userId[0] = 0)] \in UnitSet
  BY DEF TypeOK, Unit, UnitSet, MsgKind
<1> QED BY <1>1, <1>2 DEF Ack, Table, Msg, MsgKind

LEMMA ArgsTyped ==
  ASSUME NEW k \in CmdNames, NEW args \in Args(k)
  PROVE  args \in Seq(ArgWord)
<1>1. /\ \A i \in Slots : Id(i) \in ArgWord
      /\ \A n \in Names : <<"name", n>> \in ArgWord
      /\ \A g \in Groups : <<"group", g>> \in ArgWord
      /\ Hi \in ArgWord
      /\ Null \in ArgWord
      /\ \A t \in Texts : t \in ArgWord
  BY SessionsAssumption DEF ArgWord, Id, Null, Empty
<1>2. CASE k = "who"
  BY <1>2 DEF Args
<1>3. CASE k = "tell"
  <2>1. \/ args = <<Null, Null>>
        \/ \E i \in Slots, t \in Texts : args = <<Id(i), t>>
    BY <1>3 DEF Args
  <2>2. ASSUME NEW i \in Slots, NEW t \in Texts, args = <<Id(i), t>>
        PROVE  args \in Seq(ArgWord)
    BY <1>1, <2>2
  <2>3. <<Null, Null>> \in Seq(ArgWord)
    BY <1>1
  <2> QED BY <2>1, <2>2, <2>3
<1>4. CASE k = "yell"
  <2>1. PICK t \in Texts : args = <<t>>
    BY <1>4 DEF Args
  <2> QED BY <1>1, <2>1
<1>5. CASE k = "name"
  BY <1>1, <1>5 DEF Args
<1>6. CASE k = "gyell"
  <2>1. PICK g \in Groups : args = <<Hi, <<"group", g>>>>
    BY <1>6 DEF Args
  <2> QED BY <1>1, <2>1
<1> QED BY <1>2, <1>3, <1>4, <1>5, <1>6 DEF CmdNames

LEMMA CommandsTyped == \A k \in CmdNames \cup {"quit"} : Cmd(k) \in Word
BY DEF Cmd, Word, CmdNames

LEMMA WriteTyped ==
  ASSUME TypeOK, NEW i \in Slots, NEW msg \in Seq(UnitSet), NEW next,
         Write(i, msg, next)
  PROVE  sq' \in [Slots -> Seq(UnitSet)] /\ mpc' \in {next, "dead"}
<1>1. sq[i] \o msg \in Seq(UnitSet)
  BY DEF TypeOK
<1>2. sq \in [Slots -> Seq(UnitSet)]
  BY DEF TypeOK
<1> QED BY <1>1, <1>2 DEF Write

LEMMA ReadStringTyped ==
  ASSUME TypeOK, NEW str \in {<<>>, cq[cur]}, ReadString(str)
  PROVE  /\ str \in Text
         /\ intr' \in BOOLEAN
         /\ cq' \in [Slots -> Seq(Word)]
         /\ mixed' \in SUBSET (Client \cup {NoClient})
<1>1. <<>> \in Seq(Word) /\ cur \in Slots /\ cq \in [Slots -> Seq(Word)]
  BY DEF TypeOK
<1>2. holder[cur] \in Client \cup {NoClient}
  BY DEF TypeOK
<1>3. intr' \in BOOLEAN
  BY DEF TypeOK, ReadString
<1>4. cq' \in [Slots -> Seq(Word)]
  BY <1>1 DEF ReadString
<1>5. mixed' \in SUBSET (Client \cup {NoClient})
  BY <1>2 DEF TypeOK, ReadString
<1> QED BY <1>1, <1>3, <1>4, <1>5 DEF Text

LEMMA AddressTyped ==
  ASSUME TypeOK, NEW targets \in SUBSET Slots, Address(targets)
  PROVE  /\ todo' \in SUBSET Slots
         /\ mcmd' \in CmdNames \cup {"none"}
         /\ got' \in Seq(Text)
         /\ targets # {} => mcmd' = mcmd
<1>1. got \in Seq(Text) /\ <<>> \in Seq(Text) /\ mcmd \in CmdNames \cup {"none"}
  BY DEF TypeOK
<1> QED BY <1>1 DEF Address, Served

(* A unit taken from a pipe leaves units in it.                            *)
LEMMA TakeUnitTyped ==
  ASSUME TypeOK, NEW i
  PROVE  TakeUnit(i) \in [Slots -> Seq(UnitSet)]
<1>1. \A q \in Seq(UnitSet) : (IF q = <<>> THEN q ELSE Tail(q)) \in Seq(UnitSet)
  OBVIOUS
<1>2. sq \in [Slots -> Seq(UnitSet)]
  BY DEF TypeOK
<1> QED BY <1>1, <1>2 DEF TakeUnit

(* What a child's exit leaves behind.                                      *)
ExitTyped ==
  /\ pc' \in [Client -> {"new", "pending", "login", "opening", "gone"} \cup Attached]
  /\ snap' \in [Client -> BOOLEAN]
  /\ req' \in [Client -> CmdNames \cup {"none"}]
  /\ pend' \in [Client -> Seq(ArgWord)]
  /\ sq' \in [Slots -> Seq(UnitSet)]
  /\ cq' \in [Slots -> Seq(Word)]
  /\ intr' \in BOOLEAN

LEMMA ExitIsTyped ==
  ASSUME TypeOK, NEW c \in Client, NEW newcq \in [Slots -> Seq(Word)],
         Exit(c, newcq)
  PROVE  ExitTyped
<1>0. /\ sq \in [Slots -> Seq(UnitSet)] /\ cq \in [Slots -> Seq(Word)]
      /\ <<>> \in Seq(UnitSet) /\ <<>> \in Seq(Word)
  BY DEF TypeOK
<1>1. sq' \in [Slots -> Seq(UnitSet)]
  BY <1>0, TakeUnitTyped DEF Exit
<1>2. cq' \in [Slots -> Seq(Word)]
  BY <1>0 DEF Exit
<1>3. intr' \in BOOLEAN
  BY DEF TypeOK, Exit
<1> QED BY <1>1, <1>2, <1>3 DEF TypeOK, Exit, ExitTyped

-----------------------------------------------------------------------------
(* Every step keeps the variables in their ranges.                         *)
LEMMA TypeStep ==
  ASSUME TypeOK, [Next]_vars
  PROVE  TypeOK'
<1>1. CASE Select
  <2>1. /\ ready' \in SUBSET Slots
        /\ mpc' \in {"login", "scan"}
        /\ cand' \in Client \cup {NoClient}
        /\ mpc' = "login" => cand' \in Client
        /\ pc' \in [Client -> {"new", "pending", "login", "opening", "gone"} \cup Attached]
        /\ \A c \in Client : pc'[c] = pc[c] \/ pc'[c] = "login"
    <3>1. ready' = Readable /\ Readable \in SUBSET Slots
      BY <1>1 DEF Select, Readable
    <3>2. \/ \E c \in Client : cand' = c /\ pc' = [pc EXCEPT ![c] = "login"] /\ mpc' = "login"
          \/ mpc' = "scan" /\ UNCHANGED <<cand, pc>>
      BY <1>1 DEF Select
    <3>3. /\ pc \in [Client -> {"new", "pending", "login", "opening", "gone"} \cup Attached]
          /\ cand \in Client \cup {NoClient}
      BY DEF TypeOK
    <3> QED BY <3>1, <3>2, <3>3
  <2> QED BY <1>1, <2>1 DEF TypeOK, Select, tableVars, Attached, Serving
<1>2. CASE OpenServerFifo
  BY <1>2 DEF TypeOK, OpenServerFifo, Meet, mainVars, Attached, Serving
<1>3. CASE OpenClientFifo
  BY <1>3 DEF TypeOK, OpenClientFifo, Meet, Resume, Attached, Serving
<1>4. CASE OpenInterrupted
  BY <1>4 DEF TypeOK, OpenInterrupted, mainVars, tableVars, childVars
<1>5. ASSUME NEW i \in Slots, ServeEof(i) PROVE TypeOK'
  BY <1>5 DEF TypeOK, ServeEof, FreeSlot, Resume, childVars
<1>6. ASSUME NEW i \in Slots, ServeWho(i) PROVE TypeOK'
  <2>1. sq' \in [Slots -> Seq(UnitSet)] /\ mpc' \in {"select", "scan", "dead"}
    BY <1>6, MessagesTyped, WriteTyped DEF ServeWho, Resume
  <2>2. cq' \in [Slots -> Seq(Word)] /\ ready' \in SUBSET Slots
    BY <1>6 DEF TypeOK, ServeWho
  <2>3. UNCHANGED <<cand, cur, mcmd, got, todo, intr, tableVars, childVars, mixed, bare>>
    BY <1>6 DEF ServeWho
  <2> QED BY <2>1, <2>2, <2>3 DEF TypeOK, tableVars, childVars
<1>7. ASSUME NEW i \in Slots, NEW k \in CmdNames, ServeCommand(i, k) PROVE TypeOK'
  <2>1. sq' \in [Slots -> Seq(UnitSet)] /\ mpc' \in {"arg", "dead"}
    BY <1>7, MessagesTyped, WriteTyped DEF ServeCommand
  <2>2. cq' \in [Slots -> Seq(Word)] /\ ready' \in SUBSET Slots
    BY <1>7 DEF TypeOK, ServeCommand
  <2>3. /\ UNCHANGED <<cand, todo, intr, tableVars, childVars, mixed, bare>>
        /\ cur' = i /\ mcmd' = k /\ got' = <<>> /\ k # "who"
    BY <1>7 DEF ServeCommand
  <2>4. <<>> \in Seq(Text)
    OBVIOUS
  <2> QED BY <2>1, <2>2, <2>3, <2>4 DEF TypeOK, tableVars, childVars
<1>8. ASSUME NEW i \in Slots, ServeQuit(i) PROVE TypeOK'
  <2>1. sq' \in [Slots -> Seq(UnitSet)]
    BY <1>8 DEF TypeOK, ServeQuit, CloseServerFifo
  <2>2. /\ cq' = [cq EXCEPT ![i] = <<>>] /\ cfd' = [cfd EXCEPT ![i] = FALSE]
        /\ sfd' = [sfd EXCEPT ![i] = FALSE] /\ userId' = [userId EXCEPT ![i] = -1]
        /\ ready' = ready \ {i} /\ mpc' \in {"select", "scan"}
        /\ UNCHANGED <<cand, cur, mcmd, got, todo, intr, userName, lost, holder, childVars,
                       mixed, bare>>
    BY <1>8 DEF ServeQuit, CloseServerFifo, FreeSlot, Resume
  <2> QED BY <2>1, <2>2 DEF TypeOK, childVars
<1>9. ASSUME NEW i \in Slots, ServeUnknown(i) PROVE TypeOK'
  BY <1>9 DEF TypeOK, ServeUnknown, Resume, tableVars, childVars
<1>10. ASSUME NEW i \in Slots, Deliver(i) PROVE TypeOK'
  <2>1. sq' \in [Slots -> Seq(UnitSet)] /\ mpc' \in {"select", "scan", "deliver", "dead"}
    <3>1. Msg(mcmd, i) \in Seq(UnitSet)
      BY <1>10, MessagesTyped DEF Deliver, TypeOK, MsgKind
    <3> QED BY <1>10, <3>1, WriteTyped DEF Deliver, AfterArgs, Resume
  <2>2. mixed' \in SUBSET (Client \cup {NoClient})
    BY <1>10 DEF TypeOK, Deliver
  <2>3. /\ todo' \in SUBSET Slots /\ mcmd' \in CmdNames \cup {"none"} /\ got' \in Seq(Text)
        /\ todo \ {i} # {} => mcmd' = mcmd
    <3>1. todo \ {i} \in SUBSET Slots /\ Address(todo \ {i})
      BY <1>10 DEF TypeOK, Deliver
    <3> QED BY <3>1, AddressTyped
  <2>4. mpc' = "deliver" => mcmd' \in {"tell", "yell", "gyell"}
    BY <1>10, <2>3 DEF TypeOK, Deliver, Address, AfterArgs, Resume, Write
  <2>5. UNCHANGED <<cand, cur, ready, intr, tableVars, cq, childVars, bare>>
    BY <1>10 DEF Deliver
  <2> QED BY <2>1, <2>2, <2>3, <2>4, <2>5 DEF TypeOK, tableVars, childVars
<1>11. CASE ReadArgument
  <2>1. PICK str \in {<<>>, cq[cur]} : ReadString(str) /\ got' = Append(got, str)
    BY <1>11 DEF ReadArgument
  <2>2. sq' \in [Slots -> Seq(UnitSet)] /\ mpc' \in {"arg", "dead"}
    BY <1>11, MessagesTyped, WriteTyped DEF ReadArgument, TypeOK
  <2>3. got' \in Seq(Text)
    BY <2>1, ReadStringTyped DEF TypeOK
  <2> QED BY <1>11, <2>1, <2>2, <2>3, ReadStringTyped
          DEF TypeOK, ReadArgument, tableVars, childVars
<1>12. CASE FinishTell
  <2>1. PICK str \in {<<>>, cq[cur]} : ReadString(str)
    BY <1>12 DEF FinishTell
  <2>2. sq' \in [Slots -> Seq(UnitSet)] /\ mpc' \in {"select", "scan", "deliver", "dead"}
    BY <1>12, MessagesTyped, WriteTyped DEF FinishTell, TypeOK, MsgKind, AfterArgs, Resume
  <2>3. /\ todo' \in SUBSET Slots
        /\ mcmd' \in CmdNames \cup {"none"}
        /\ got' \in Seq(Text)
        /\ mpc' = "deliver" => mcmd' \in {"tell", "yell", "gyell"}
    BY <1>12, AddressTyped DEF TypeOK, FinishTell, Address, AfterArgs, Resume, Write
  <2> QED BY <1>12, <2>1, <2>2, <2>3, ReadStringTyped
          DEF TypeOK, FinishTell, tableVars, childVars
<1>13. CASE FinishYell
  <2>1. PICK str \in {<<>>, cq[cur]} : ReadString(str)
    BY <1>13 DEF FinishYell
  <2>3. /\ todo' \in SUBSET Slots
        /\ mcmd' \in CmdNames \cup {"none"}
        /\ got' \in Seq(Text)
        /\ mpc' \in {"select", "scan", "deliver"}
        /\ mpc' = "deliver" => mcmd' \in {"tell", "yell", "gyell"}
    BY <1>13, AddressTyped DEF TypeOK, FinishYell, Address, AfterArgs, Resume
  <2> QED BY <1>13, <2>1, <2>3, ReadStringTyped
          DEF TypeOK, FinishYell, tableVars, childVars
<1>14. CASE FinishName
  <2>1. PICK str \in {<<>>, cq[cur]} : ReadString(str) /\ userName' = changeC_Name(cur, str)
    BY <1>14 DEF FinishName
  <2>2. sq' \in [Slots -> Seq(UnitSet)] /\ mpc' \in {"select", "scan", "dead"}
    BY <1>14, MessagesTyped, WriteTyped DEF FinishName, TypeOK, MsgKind, Resume
  <2>3. userName' \in [Slots -> Text]
    BY <2>1, ReadStringTyped DEF changeC_Name, TypeOK
  <2>4. /\ UNCHANGED <<cand, cur, ready, todo, userId, sfd, cfd, lost, holder, childVars, bare>>
        /\ mcmd' = "none" /\ got' = <<>>
    BY <1>14 DEF FinishName, Served
  <2>5. <<>> \in Seq(Text)
    OBVIOUS
  <2> QED BY <2>1, <2>2, <2>3, <2>4, <2>5, ReadStringTyped DEF TypeOK, childVars
<1>15. CASE FinishGyell
  <2>1. PICK str \in {<<>>, cq[cur]} : ReadString(str) /\ Address(GroupTargets(str))
    BY <1>15 DEF FinishGyell
  <2>2. GroupTargets(str) \in SUBSET Slots
    BY DEF GroupTargets, NamedSlots
  <2>3. /\ todo' \in SUBSET Slots
        /\ mcmd' \in CmdNames \cup {"none"}
        /\ got' \in Seq(Text)
        /\ mpc' \in {"select", "scan", "deliver"}
        /\ mpc' = "deliver" => mcmd' \in {"tell", "yell", "gyell"}
    BY <1>15, <2>1, <2>2, AddressTyped DEF TypeOK, FinishGyell, Address, AfterArgs, Resume
  <2> QED BY <1>15, <2>1, <2>3, ReadStringTyped
          DEF TypeOK, FinishGyell, tableVars, childVars
<1>16. ASSUME NEW n \in Names, Login(n) PROVE TypeOK'
  <2>1. getMinC_ID \in Slots
    BY <1>16, MinIsFree DEF Login
  <2>2. <<<<"name", n>>>> \in Text
    BY DEF Text, Word, ArgWord
  <2>3. cand \in Client
    BY <1>16 DEF Login, TypeOK
  <2> QED BY <1>16, <2>1, <2>2, <2>3 DEF TypeOK, Login, Attached, Serving
<1>17. CASE LoginWhenFull
  BY <1>17 DEF TypeOK, LoginWhenFull, mainVars, tableVars, childVars
<1>18. CASE LoginHangup
  BY <1>18 DEF TypeOK, LoginHangup, mainVars, tableVars, Attached, Serving
<1>19. ASSUME NEW c \in Client, ChildOpenServerFifo(c) PROVE TypeOK'
  BY <1>19 DEF TypeOK, ChildOpenServerFifo, mainVars, tableVars, Attached, Serving
<1>20. ASSUME NEW c \in Client, ChildOpenClientFifo(c) PROVE TypeOK'
  BY <1>20 DEF TypeOK, ChildOpenClientFifo, mainVars, tableVars, Attached, Serving
<1>21. ASSUME NEW c \in Client, SendArgument(c) PROVE TypeOK'
  <2>1. pend[c] \in Seq(ArgWord) /\ pend[c] # <<>> /\ slot[c] \in Slots
    BY <1>21 DEF TypeOK, SendArgument, Attached, Serving
  <2>2. Head(pend[c]) \in ArgWord /\ Tail(pend[c]) \in Seq(ArgWord)
    BY <2>1
  <2>3. sq' \in [Slots -> Seq(UnitSet)]
    BY <1>21, TakeUnitTyped DEF SendArgument
  <2>4. cq' \in [Slots -> Seq(Word)]
    <3>1. cq \in [Slots -> Seq(Word)] /\ Append(cq[slot[c]], Head(pend[c])) \in Seq(Word)
      <4>1. cq \in [Slots -> Seq(Word)]
        BY DEF TypeOK
      <4>2. Head(pend[c]) \in Word
        BY <2>2 DEF Word
      <4> QED BY <2>1, <4>1, <4>2
    <3>2. \/ cq' = cq
          \/ cq' = [cq EXCEPT ![slot[c]] = Append(@, Head(pend[c]))]
      BY <1>21 DEF SendArgument
    <3> QED BY <2>1, <3>1, <3>2
  <2>5. pend' \in [Client -> Seq(ArgWord)]
    BY <1>21, <2>2 DEF TypeOK, SendArgument
  <2>6. /\ pc' \in [Client -> {"new", "pending", "login", "opening", "gone"} \cup Attached]
        /\ req' \in [Client -> CmdNames \cup {"none"}]
        /\ \A d \in Client : pc'[d] = pc[d] \/ d = c
        /\ pc'[c] = "ack" => pend'[c] # <<>>
    <3>1. /\ pend' = [pend EXCEPT ![c] = Tail(pend[c])]
          /\ \/ Tail(pend[c]) # <<>> /\ UNCHANGED <<pc, req>>
             \/ \E p \in {"reply", "drain", "loop"} : pc' = [pc EXCEPT ![c] = p]
          /\ req' \in {req, [req EXCEPT ![c] = "none"]}
      BY <1>21 DEF SendArgument, Done
    <3>2. /\ pc \in [Client -> {"new", "pending", "login", "opening", "gone"} \cup Attached]
          /\ req \in [Client -> CmdNames \cup {"none"}]
          /\ pend \in [Client -> Seq(ArgWord)]
      BY DEF TypeOK
    <3>3. pend'[c] = Tail(pend[c])
      BY <3>1, <3>2
    <3> QED BY ZenonT(30), <3>1, <3>2, <3>3 DEF Attached, Serving
  <2>7. mixed' \in SUBSET (Client \cup {NoClient}) /\ bare' \in SUBSET Client
    BY <1>21 DEF TypeOK, SendArgument
  <2>8. \A d \in Client : pc'[d] = "ack" => pend'[d] # <<>>
    BY <1>21, <2>6 DEF TypeOK, SendArgument
  <2> QED BY <1>21, <2>1, <2>3, <2>4, <2>5, <2>6, <2>7, <2>8
          DEF TypeOK, SendArgument, mainVars, tableVars
<1>22. ASSUME NEW c \in Client, ReadReply(c) PROVE TypeOK'
  <2>1. /\ sq' = [sq EXCEPT ![slot[c]] = <<>>]
        /\ \E p \in {"drain", "loop"} : pc' = [pc EXCEPT ![c] = p]
        /\ req' = [req EXCEPT ![c] = "none"]
        /\ pc[c] \in Attached
        /\ UNCHANGED <<mpc, mainVars, intr, tableVars, cq, slot, snap, pend, nreq, mixed, bare>>
    BY <1>22 DEF ReadReply, Done, Attached, Serving
  <2>2. sq' \in [Slots -> Seq(UnitSet)] /\ req' \in [Client -> CmdNames \cup {"none"}]
    BY <2>1 DEF TypeOK
  <2>3. /\ pc' \in [Client -> {"new", "pending", "login", "opening", "gone"} \cup Attached]
        /\ \A d \in Client : pc'[d] \in Attached \cup {"opening"} => slot'[d] \in Slots
        /\ \A d \in Client : pc'[d] = "ack" => pend'[d] # <<>>
    BY <2>1 DEF TypeOK, Attached, Serving
  <2> QED BY <2>1, <2>2, <2>3 DEF TypeOK, mainVars, tableVars
<1>23. ASSUME NEW c \in Client, ReadMessages(c) PROVE TypeOK'
  BY <1>23 DEF TypeOK, ReadMessages, mainVars, tableVars, Attached, Serving
<1>24. ASSUME NEW c \in Client, Shell(c) \/ ShellDone(c) PROVE TypeOK'
  <2>1. /\ nreq' \in 0 .. MaxReq
        /\ snap' \in [Client -> BOOLEAN]
        /\ req' \in [Client -> CmdNames \cup {"none"}]
    <3>1. /\ nreq \in 0 .. MaxReq
          /\ snap \in [Client -> BOOLEAN]
          /\ req \in [Client -> CmdNames \cup {"none"}]
      BY DEF TypeOK
    <3>2. /\ \/ nreq' = nreq
             \/ nreq < MaxReq /\ nreq' = nreq + 1
          /\ snap' \in {snap, [snap EXCEPT ![c] = (sq[slot[c]] # <<>>)]}
          /\ req' \in {req, [req EXCEPT ![c] = "none"]}
      BY <1>24 DEF Shell, ShellDone, Done
    <3>3. nreq' \in 0 .. MaxReq
      BY <3>1, <3>2, SessionsAssumption
    <3> QED BY <3>1, <3>2, <3>3
  <2>2. \E p \in {"busy", "drain", "loop"} : pc' = [pc EXCEPT ![c] = p]
    BY <1>24 DEF Shell, ShellDone, Done
  <2>3. pc[c] \in Attached
    BY <1>24 DEF Shell, ShellDone, Attached, Serving
  <2>4. UNCHANGED <<mpc, mainVars, intr, tableVars, sq, cq, slot, pend, mixed, bare>>
    BY <1>24 DEF Shell, ShellDone
  <2> QED BY SMTT(30), <2>1, <2>2, <2>3, <2>4 DEF TypeOK, mainVars, tableVars, Attached, Serving
<1>25. ASSUME NEW c \in Client, Connect(c) PROVE TypeOK'
  BY <1>25 DEF TypeOK, Connect, mainVars, tableVars, Attached, Serving
<1>26. ASSUME NEW c \in Client, NEW newcq \in [Slots -> Seq(Word)], Exit(c, newcq),
              UNCHANGED <<mpc, mainVars, tableVars, slot>>,
              mixed' \in SUBSET (Client \cup {NoClient}), bare' \in SUBSET Client,
              nreq' \in 0 .. MaxReq
       PROVE  TypeOK'
  <2>1. ExitTyped
    BY <1>26, ExitIsTyped
  <2>2. pc' = [pc EXCEPT ![c] = "gone"] /\ pend' = [pend EXCEPT ![c] = <<>>]
    BY <1>26 DEF Exit
  <2> QED BY <1>26, <2>1, <2>2 DEF TypeOK, ExitTyped, mainVars, tableVars, Attached, Serving
<1>27. ASSUME NEW c \in Client, DieSending(c) \/ Leave(c) \/ Abrupt(c) PROVE TypeOK'
  <2>1. mixed' \in SUBSET (Client \cup {NoClient}) /\ bare' \in SUBSET Client
    BY <1>27 DEF DieSending, Leave, Abrupt, TypeOK
  <2> QED BY <1>26, <1>27, <2>1 DEF DieSending, Leave, Abrupt, TypeOK
<1>28. ASSUME NEW c \in Client, NEW k \in CmdNames, NEW args \in Args(k),
              Request(c, k, args)
       PROVE  TypeOK'
  <2>1. /\ nreq' \in 0 .. MaxReq
        /\ mixed' \in SUBSET (Client \cup {NoClient})
        /\ bare' \in SUBSET Client
    BY <1>28, SessionsAssumption DEF Request, TypeOK
  <2>2. CASE MainReads(slot[c])
    <3>1. args \in Seq(ArgWord) /\ Cmd(k) \in Word
      BY ArgsTyped, CommandsTyped
    <3>2. cq' \in [Slots -> Seq(Word)]
      <4>1. cq' = [cq EXCEPT ![slot[c]] = Append(@, Cmd(k))]
        BY <1>28, <2>2 DEF Request
      <4>2. \A q \in Seq(Word) : Append(q, Cmd(k)) \in Seq(Word)
        BY <3>1
      <4> QED BY <4>1, <4>2 DEF TypeOK
    <3>3. pend' \in [Client -> Seq(ArgWord)]
      <4>1. pend' = [pend EXCEPT ![c] = args]
        BY <1>28, <2>2 DEF Request
      <4>2. pend \in [Client -> Seq(ArgWord)]
        BY DEF TypeOK
      <4> QED BY <3>1, <4>1, <4>2
    <3>4. /\ pc[c] = "loop"
          /\ pc' = [pc EXCEPT ![c] = IF args = <<>> THEN "reply" ELSE "ack"]
          /\ pend' = [pend EXCEPT ![c] = args]
          /\ snap' = [snap EXCEPT ![c] = (sq[slot[c]] # <<>>)]
          /\ req' = [req EXCEPT ![c] = k]
          /\ UNCHANGED <<mpc, mainVars, intr, tableVars, slot, sq, bare>>
      BY <1>28, <2>2 DEF Request
    <3>5. /\ snap' \in [Client -> BOOLEAN]
          /\ req' \in [Client -> CmdNames \cup {"none"}]
          /\ \A d \in Client : pc'[d] = "ack" => pend'[d] # <<>>
      BY <3>4 DEF TypeOK
    <3>6. /\ pc' \in [Client -> {"new", "pending", "login", "opening", "gone"} \cup Attached]
          /\ \A d \in Client : pc'[d] \in Attached \cup {"opening"} => slot'[d] \in Slots
      BY <3>4 DEF TypeOK, Attached, Serving
    <3> QED BY <2>1, <3>2, <3>3, <3>4, <3>5, <3>6
            DEF TypeOK, mainVars, tableVars
  <2>3. CASE ~MainReads(slot[c])
    BY <1>26, <1>28, <2>1, <2>3 DEF Request, TypeOK
  <2> QED BY <2>2, <2>3
<1>29. ASSUME NEW c \in Client, Quit(c) PROVE TypeOK'
  <2> DEFINE sent == [cq EXCEPT ![slot[c]] = Append(@, Cmd("quit"))]
  <2>1. sent \in [Slots -> Seq(Word)]
    <3>1. \A q \in Seq(Word) : Append(q, Cmd("quit")) \in Seq(Word)
      BY CommandsTyped
    <3> QED BY <3>1 DEF TypeOK
  <2>2. /\ mixed' \in SUBSET (Client \cup {NoClient}) /\ nreq' \in 0 .. MaxReq
        /\ bare' \in SUBSET Client
    BY <1>29 DEF TypeOK, Quit
  <2>3. CASE Exit(c, sent) \/ Exit(c, cq)
    BY <1>26, <1>29, <2>1, <2>2, <2>3 DEF Quit, TypeOK
  <2>4. CASE pc' = [pc EXCEPT ![c] = "leaving"] /\ cq' = sent
             /\ UNCHANGED <<sq, intr, snap, req, pend>>
    BY ZenonT(30), <1>29, <2>1, <2>2, <2>4 DEF Quit, TypeOK, mainVars, tableVars, Attached, Serving
  <2> QED BY <1>29, <2>3, <2>4 DEF Quit
<1>30. CASE UNCHANGED vars
  BY <1>30 DEF TypeOK, vars, mainVars, tableVars, childVars
<1> QED
  BY <1>1, <1>2, <1>3, <1>4, <1>5, <1>6, <1>7, <1>8, <1>9, <1>10, <1>11, <1>12, <1>13,
     <1>14, <1>15, <1>16, <1>17, <1>18, <1>19, <1>20, <1>21, <1>22, <1>23, <1>24, <1>25,
     <1>27, <1>28, <1>29, <1>30
     DEF Next, MainStep, LoginStep, ChildStep, ClientStep

LEMMA TypeInit ==
  ASSUME Init
  PROVE  TypeOK
<1>1. 0 \in Slots
  BY SessionsAssumption DEF Slots
<1>2. <<>> \in Seq(Word) /\ <<>> \in Seq(ArgWord) /\ <<>> \in Seq(Text) /\ <<>> \in Text /\ <<>> \in Seq(UnitSet)
  BY DEF Text
<1>3. /\ userId \in [Slots -> Slots \cup {-1}] /\ userName \in [Slots -> Text]
      /\ sfd \in [Slots -> BOOLEAN] /\ cfd \in [Slots -> BOOLEAN]
      /\ lost \in [Slots -> BOOLEAN] /\ holder \in [Slots -> Client \cup {NoClient}]
      /\ sq \in [Slots -> Seq(UnitSet)] /\ cq \in [Slots -> Seq(Word)]
  BY <1>2 DEF Init
<1>4. /\ pc \in [Client -> {"new"}] /\ slot \in [Client -> {-1}]
      /\ snap \in [Client -> BOOLEAN] /\ req \in [Client -> {"none"}]
      /\ pend \in [Client -> Seq(ArgWord)] /\ nreq \in 0 .. MaxReq
  BY <1>2, SessionsAssumption DEF Init
<1>5. /\ mpc = "select" /\ cand = NoClient /\ cur \in Slots /\ ready = {}
      /\ mcmd = "none" /\ got = <<>> /\ todo = {} /\ intr = FALSE /\ mixed = {}
      /\ bare = {}
  BY <1>1 DEF Init
<1> QED BY <1>2, <1>3, <1>4, <1>5 DEF TypeOK, Attached, Serving

(* Sessions is type-correct: no step of main or of a child takes a         *)
(* variable out of its range, main is never between the arguments of a     *)
(* command that has none, and a child waits for an acknowledgement only    *)
(* while it has an argument to send.                                       *)
THEOREM TypeCorrect == Spec => []TypeOK
<1>1. Init => TypeOK
  BY TypeInit
<1>2. TypeOK /\ [Next]_vars => TypeOK'
  BY TypeStep
<1> QED BY <1>1, <1>2, PTL DEF Spec

-----------------------------------------------------------------------------
(* Every step of main or of a child keeps the arrays in agreement.         *)
LEMMA TableStep ==
  ASSUME TypeOK, TableInv, [Next]_vars
  PROVE  TableInv'
<1>1. ASSUME UNCHANGED <<cur, userId, sfd, cfd>>,
             \/ mpc' = mpc
             \/ mpc' = "dead"
             \/ mpc \notin {"openS", "openC", "dead", "undefined"}
                  /\ mpc' \notin {"openS", "openC"}
      PROVE  TableInv'
  BY <1>1 DEF TableInv, Opening, MainUp
<1>2. CASE Select
  BY <1>1, <1>2 DEF Select, tableVars
<1>3. CASE OpenServerFifo
  <2>1. /\ mpc = "openS" /\ mpc' = "openC" /\ UNCHANGED <<cur, userId, cfd>>
        /\ sfd' = [sfd EXCEPT ![cur] = TRUE]
    BY <1>3 DEF OpenServerFifo, mainVars
  <2> QED BY <2>1 DEF TypeOK, TableInv, Opening, MainUp
<1>4. CASE OpenClientFifo
  <2>1. /\ mpc = "openC" /\ mpc' \in {"select", "scan"} /\ UNCHANGED <<cur, userId, sfd>>
        /\ cfd' = [cfd EXCEPT ![cur] = TRUE]
    BY <1>4 DEF OpenClientFifo, Resume
  <2> QED BY <2>1 DEF TypeOK, TableInv, Opening, MainUp
<1>5. CASE OpenInterrupted
  BY <1>1, <1>5 DEF OpenInterrupted, mainVars, tableVars
<1>6. ASSUME NEW i \in Slots, ServeEof(i) PROVE TableInv'
  <2>1. /\ mpc = "scan" /\ mpc' \in {"select", "scan"} /\ UNCHANGED <<cur, sfd>>
        /\ cfd' = [cfd EXCEPT ![i] = FALSE]
        /\ userId' = [userId EXCEPT ![i] = -1]
    BY <1>6 DEF ServeEof, AtSlot, FreeSlot, Resume
  <2> QED BY <2>1 DEF TypeOK, TableInv, Opening, MainUp, Slots
<1>7. ASSUME NEW i \in Slots, ServeQuit(i) PROVE TableInv'
  <2>1. /\ mpc = "scan" /\ mpc' \in {"select", "scan"} /\ UNCHANGED cur
        /\ cfd' = [cfd EXCEPT ![i] = FALSE]
        /\ sfd' = [sfd EXCEPT ![i] = FALSE]
        /\ userId' = [userId EXCEPT ![i] = -1]
    BY <1>7 DEF ServeQuit, AtSlot, CloseServerFifo, FreeSlot, Resume
  <2> QED BY <2>1 DEF TypeOK, TableInv, Opening, MainUp, Slots
<1>8. ASSUME NEW i \in Slots, ServeWho(i) PROVE TableInv'
  BY <1>1, <1>8 DEF ServeWho, AtSlot, Write, Resume, tableVars
<1>9. ASSUME NEW i \in Slots, NEW k \in CmdNames, ServeCommand(i, k) PROVE TableInv'
  <2>1. /\ mpc = "scan" /\ mpc' \in {"arg", "dead"} /\ UNCHANGED <<userId, sfd, cfd>>
    BY <1>9 DEF ServeCommand, AtSlot, Write, tableVars
  <2> QED BY <2>1 DEF TableInv, Opening, MainUp
<1>10. ASSUME NEW i \in Slots, ServeUnknown(i) \/ Deliver(i) PROVE TableInv'
  BY <1>1, <1>10 DEF ServeUnknown, Deliver, AtSlot, Write, Resume, AfterArgs, tableVars
<1>11. CASE ReadArgument
  BY <1>1, <1>11 DEF ReadArgument, Write, tableVars
<1>12. CASE FinishTell
  BY <1>1, <1>12 DEF FinishTell, Write, AfterArgs, Resume, tableVars
<1>13. CASE FinishYell \/ FinishGyell
  BY <1>1, <1>13 DEF FinishYell, FinishGyell, AfterArgs, Resume, tableVars
<1>14. CASE FinishName
  BY <1>1, <1>14 DEF FinishName, Write, Resume
<1>15. ASSUME NEW n \in Names, Login(n) PROVE TableInv'
  <2>1. /\ mpc = "login" /\ mpc' = "openS" /\ cur' = getMinC_ID /\ UNCHANGED <<sfd, cfd>>
        /\ userId' = [userId EXCEPT ![getMinC_ID] = getMinC_ID]
        /\ Free # {}
    BY <1>15 DEF Login
  <2>2. getMinC_ID \in Slots /\ userId[getMinC_ID] = -1
    BY <2>1, MinIsFree DEF Free
  <2> QED BY <2>1, <2>2 DEF TypeOK, TableInv, Opening, MainUp, Slots
<1>16. CASE LoginWhenFull \/ LoginHangup
  BY <1>16 DEF LoginWhenFull, LoginHangup, TableInv, MainUp
<1>17. ASSUME NEW c \in Client, ChildStep(c) \/ ClientStep(c) PROVE TableInv'
  <2>1. UNCHANGED <<mpc, cur, userId, sfd, cfd>>
    BY <1>17 DEF ChildStep, ClientStep, ChildOpenServerFifo, ChildOpenClientFifo,
       SendArgument, DieSending, ReadReply, ReadMessages, Leave, Connect, Request, Shell,
       ShellDone, Quit, Abrupt, mainVars, tableVars
  <2> QED BY <1>1, <2>1
<1>18. CASE UNCHANGED vars
  BY <1>1, <1>18 DEF vars, mainVars, tableVars
<1> QED
  BY <1>2, <1>3, <1>4, <1>5, <1>6, <1>7, <1>8, <1>9, <1>10, <1>11, <1>12, <1>13, <1>14,
     <1>15, <1>16, <1>17, <1>18
     DEF Next, MainStep, LoginStep

(* The three arrays of main.c that describe a slot agree: an open          *)
(* c_fifofd[i] means a slot in use with a pipe to its client, through      *)
(* accept, EOF and quit alike.                                             *)
THEOREM TableCorrect == Spec => []TableInv
<1>1. Init => TableInv
  BY SessionsAssumption DEF Init, TableInv, Opening, Slots
<1>2. TypeOK /\ TableInv /\ [Next]_vars => TableInv'
  BY TableStep
<1> QED BY TypeCorrect, <1>1, <1>2, PTL DEF Spec

-----------------------------------------------------------------------------
(* Seating.  PromptExit is what makes a child's end of the pipes vanish    *)
(* with its "quit"; without it the next client may be seated too early.    *)

LEMMA LastWord ==
  ASSUME NEW s \in Seq(Word), NEW w \in Word, NEW x, Append(s, w) = <<x>>
  PROVE  w = x
<1>1. Append(s, w)[Len(s) + 1] = w /\ Len(Append(s, w)) = Len(s) + 1
  BY AppendProperties
<1>2. Len(<<x>>) = 1 /\ <<x>>[1] = x
  OBVIOUS
<1> QED BY <1>1, <1>2

(* A step that leaves every child and the table alone, and from which main *)
(* is not left opening the pipes of another slot.                          *)
LEMMA SeatFrame ==
  ASSUME TypeOK, ChildSeats,
         UNCHANGED <<pc, slot, userId, holder, cfd>>,
         \A i \in Slots : cq'[i] \in {cq[i], <<>>},
         \/ mpc' \in {"dead", "undefined"}
         \/ /\ mpc \notin {"login", "openS", "openC", "dead", "undefined"}
            /\ mpc' \notin {"login", "openS", "openC"}
         \/ UNCHANGED <<mpc, cur, cand>>
  PROVE  ChildSeats'
BY DEF ChildSeats, MainUp, Opening, Started

(* A step of the child of c, which at most writes one word.                *)
LEMMA SeatChild ==
  ASSUME TypeOK, ChildSeats, NEW c \in Client, NEW p, NEW w \in Word,
         UNCHANGED <<mpc, cur, cand, slot, userId, holder, cfd>>,
         pc[c] \in Started,
         pc' = [pc EXCEPT ![c] = p],
         \/ p \in Serving \cup {"gone"}
         \/ p = "openingW" /\ Opening(slot[c]),
         \/ cq' = cq
         \/ cq' = [cq EXCEPT ![slot[c]] = <<>>]
         \/ /\ cq' = [cq EXCEPT ![slot[c]] = Append(@, w)]
            /\ cfd[slot[c]]
            /\ w = Cmd("quit") => p = "gone"
  PROVE  ChildSeats'
<1> SUFFICES ASSUME MainUp, MainUp' PROVE ChildSeats'
  BY DEF ChildSeats, MainUp
<1>1. /\ pc \in [Client -> {"new", "pending", "login", "opening", "gone"} \cup Attached]
      /\ slot[c] \in Slots /\ cq \in [Slots -> Seq(Word)]
  BY DEF TypeOK, Started
<1>2. p \notin {"new", "pending", "login", "opening"} /\ pc'[c] = p
  BY <1>1 DEF Serving
<1>3. \A d \in Client : d # c => pc'[d] = pc[d]
  BY <1>1
<1>4. \A d \in Client :
        /\ pc'[d] \in Started => userId'[slot'[d]] = slot'[d] /\ holder'[slot'[d]] = d
        /\ pc'[d] = "opening" => mpc' = "openS" /\ cur' = slot'[d]
        /\ pc'[d] = "openingW" => Opening(slot[d])'
        /\ pc'[d] \in {"new", "pending", "login"} => slot'[d] = -1
  BY <1>2, <1>3 DEF ChildSeats, Opening, Serving
<1>5. mpc' = "login" => pc'[cand'] = "login"
  BY <1>2, <1>3 DEF ChildSeats, TypeOK, Started, Attached, Serving
<1>7. \A i \in Slots : cq'[i] = <<Cmd("quit")>> => holder'[i] \in Client /\ pc'[holder'[i]] = "gone"
  <2> SUFFICES ASSUME NEW i \in Slots, cq'[i] = <<Cmd("quit")>>
               PROVE  holder'[i] \in Client /\ pc'[holder'[i]] = "gone"
    OBVIOUS
  <2>1. CASE cq'[i] = cq[i]
    <3>1. holder[i] \in Client /\ pc[holder[i]] = "gone"
      BY <2>1 DEF ChildSeats
    <3>2. holder[i] # c
      BY <3>1 DEF Started, Attached, Serving
    <3> QED BY <1>1, <3>1, <3>2 DEF TypeOK
  <2>2. CASE cq'[i] = Append(cq[i], w) /\ i = slot[c]
    <3>1. w = Cmd("quit")
      BY <1>1, <2>2, LastWord
    <3>2. p = "gone" \/ cq'[i] \in {cq[i], <<>>}
      BY <1>1, <2>2, <3>1
    <3>3. holder[i] = c
      BY <2>2 DEF ChildSeats
    <3> QED BY <1>2, <2>1, <3>2, <3>3
  <2>3. cq'[i] # <<>>
    OBVIOUS
  <2>4. \/ cq'[i] = cq[i]
        \/ cq'[i] = <<>>
        \/ cq'[i] = Append(cq[i], w) /\ i = slot[c]
    BY <1>1
  <2> QED BY <2>1, <2>2, <2>3, <2>4
<1>8. \A i \in Slots : cq'[i] # <<>> => cfd'[i]
  BY <1>1 DEF ChildSeats
<1> QED BY <1>4, <1>5, <1>7, <1>8 DEF ChildSeats

LEMMA ExitSeats ==
  ASSUME TypeOK, ChildSeats, NEW c \in Client, Exit(c, cq), pc[c] \in Serving,
         UNCHANGED <<mpc, mainVars, tableVars, slot>>
  PROVE  ChildSeats'
<1>1. Cmd("quit") \in Word
  BY CommandsTyped
<1>2. /\ pc' = [pc EXCEPT ![c] = "gone"]
      /\ cq' = cq \/ cq' = [cq EXCEPT ![slot[c]] = <<>>]
  BY DEF Exit
<1> QED BY <1>1, <1>2, SeatChild DEF mainVars, tableVars, Started, Attached

(* Client c takes the free slot m; the fork() for it may fail.             *)
LEMMA SeatTaken ==
  ASSUME TypeOK, TableInv, ChildSeats, NEW c \in Client, NEW m \in Slots,
         mpc \in {"select", "login"}, mpc' = "openS", cur' = m, UNCHANGED <<cfd, cq>>,
         pc[c] \in {"pending", "login"}, userId[m] = -1,
         userId' = [userId EXCEPT ![m] = m],
         holder' = [holder EXCEPT ![m] = c],
         \/ slot' = [slot EXCEPT ![c] = m] /\ pc' = [pc EXCEPT ![c] = "opening"]
         \/ slot' = slot /\ pc' = [pc EXCEPT ![c] = "login"]
  PROVE  ChildSeats'
<1>1. cfd[m] = FALSE /\ cq[m] = <<>>
  BY DEF TypeOK, TableInv, ChildSeats, MainUp, Slots
<1>2. \A d \in Client : pc[d] \in Started => slot[d] # m /\ slot[d] \in Slots
  BY DEF TypeOK, ChildSeats, MainUp, Slots, Started
<1>3. \A d \in Client : pc[d] \notin {"opening", "openingW"}
  BY DEF ChildSeats, MainUp, Opening
<1>4. slot[c] = -1
  BY DEF ChildSeats, MainUp
<1>5. \A d \in Client \ {c} : pc'[d] = pc[d] /\ slot'[d] = slot[d]
  BY DEF TypeOK
<1>6. \/ pc'[c] = "opening" /\ slot'[c] = m
      \/ pc'[c] = "login" /\ slot'[c] = -1
  BY <1>4 DEF TypeOK
<1>7. holder'[m] = c /\ userId'[m] = m
  BY DEF TypeOK
<1>8. \A i \in Slots \ {m} : holder'[i] = holder[i] /\ userId'[i] = userId[i]
  BY DEF TypeOK
<1>9. \A d \in Client :
        /\ pc'[d] \in Started => userId'[slot'[d]] = slot'[d] /\ holder'[slot'[d]] = d
        /\ pc'[d] = "opening" => mpc' = "openS" /\ cur' = slot'[d]
        /\ pc'[d] # "openingW"
        /\ pc'[d] \in {"new", "pending", "login"} => slot'[d] = -1
  <2>1. "login" \notin Started
    BY DEF Started, Attached, Serving
  <2> QED BY <1>2, <1>3, <1>5, <1>6, <1>7, <1>8, <2>1 DEF ChildSeats, MainUp
<1>10. \A i \in Slots :
         /\ cq'[i] = <<Cmd("quit")>> => holder'[i] \in Client /\ pc'[holder'[i]] = "gone"
         /\ cq'[i] # <<>> => cfd'[i]
  <2> SUFFICES ASSUME NEW i \in Slots
               PROVE  /\ cq'[i] = <<Cmd("quit")>> => holder'[i] \in Client /\ pc'[holder'[i]] = "gone"
                      /\ cq'[i] # <<>> => cfd'[i]
    OBVIOUS
  <2>1. CASE i = m
    BY <1>1, <2>1
  <2>2. CASE i # m
    <3>1. holder[i] = c => pc[holder[i]] # "gone"
      OBVIOUS
    <3>2. holder[i] \in Client /\ holder[i] # c => pc'[holder[i]] = pc[holder[i]]
      BY <1>5
    <3> QED BY <1>8, <2>2, <3>1, <3>2 DEF ChildSeats, MainUp
  <2> QED BY <2>1, <2>2
<1> QED BY <1>9, <1>10 DEF ChildSeats

LEMMA SeatStep ==
  ASSUME PromptExit, TypeOK, TableInv, ChildSeats, [Next]_vars
  PROVE  ChildSeats'
<1>1. CASE Select
  <2>1. CASE UNCHANGED <<cand, pc>> /\ mpc' = "scan" /\ mpc = "select"
    BY <1>1, <2>1, SeatFrame DEF Select, tableVars
  <2>2. ASSUME NEW c \in Client, pc[c] = "pending", cand' = c, mpc' = "login",
               pc' = [pc EXCEPT ![c] = "login"]
        PROVE  ChildSeats'
    <3>1. UNCHANGED <<cur, userId, holder, cfd, cq, slot>> /\ mpc = "select"
      BY <1>1 DEF Select, tableVars
    <3> QED BY <2>2, <3>1 DEF TypeOK, ChildSeats, MainUp, Opening, Started, Attached, Serving
  <2> QED BY <1>1, <2>1, <2>2 DEF Select
<1>2. CASE OpenServerFifo
  <2>1. /\ mpc = "openS" /\ mpc' = "openC" /\ UNCHANGED <<cur, cand, userId, holder, cfd, cq, slot>>
        /\ Meet(Readers(cur), "opening", "openingW")
    BY <1>2 DEF OpenServerFifo, mainVars
  <2>2. CASE UNCHANGED pc /\ Readers(cur) # {}
    <3>1. PICK d \in Client : slot[d] = cur /\ pc[d] \in Attached
      BY <2>2 DEF Readers
    <3>2. \A e \in Client : pc[e] # "opening"
      BY <2>1, <3>1 DEF ChildSeats, MainUp, Started, Attached, Serving
    <3> QED BY <2>1, <2>2, <3>2 DEF ChildSeats, MainUp, Opening
  <2>3. ASSUME NEW c \in Client, slot[c] = cur, pc[c] = "opening",
               pc' = [pc EXCEPT ![c] = "openingW"]
        PROVE  ChildSeats'
    <3>1. \A e \in Client \ {c} : pc[e] # "opening"
      BY <2>1, <2>3 DEF ChildSeats, MainUp, Started
    <3> QED BY <2>1, <2>3, <3>1 DEF TypeOK, ChildSeats, MainUp, Opening, Started, Attached, Serving
  <2> QED BY <2>1, <2>2, <2>3 DEF Meet
<1>3. CASE OpenClientFifo
  <2>1. /\ mpc = "openC" /\ mpc' \in {"select", "scan"}
        /\ UNCHANGED <<cur, userId, holder, cq, slot>>
        /\ cfd' = [cfd EXCEPT ![cur] = TRUE]
        /\ Meet(Writers(cur), "openingW", "loop")
    BY <1>3 DEF OpenClientFifo, Resume
  <2>2. \A e \in Client : pc[e] # "opening" /\ (pc[e] = "openingW" => slot[e] = cur)
    BY <2>1 DEF ChildSeats, MainUp, Opening
  <2>3. CASE UNCHANGED pc /\ Writers(cur) # {}
    <3>1. PICK d \in Client : slot[d] = cur /\ pc[d] \in Serving
      BY <2>3 DEF Writers
    <3>2. \A e \in Client : pc[e] # "openingW"
      BY <2>1, <2>2, <3>1 DEF ChildSeats, MainUp, Started, Attached, Serving
    <3> QED BY <2>1, <2>2, <2>3, <3>2 DEF TypeOK, ChildSeats, MainUp, Opening
  <2>4. ASSUME NEW c \in Client, slot[c] = cur, pc[c] = "openingW",
               pc' = [pc EXCEPT ![c] = "loop"]
        PROVE  ChildSeats'
    <3>1. \A e \in Client \ {c} : pc[e] # "openingW"
      BY <2>1, <2>2, <2>4 DEF ChildSeats, MainUp, Started, Attached
    <3> QED BY <2>1, <2>2, <2>4, <3>1
            DEF TypeOK, ChildSeats, MainUp, Opening, Started, Attached, Serving
  <2> QED BY <2>1, <2>3, <2>4 DEF Meet
<1>4. CASE OpenInterrupted
  BY <1>4 DEF OpenInterrupted, ChildSeats, MainUp
<1>5. ASSUME NEW i \in Slots, ServeEof(i) \/ ServeQuit(i) PROVE ChildSeats'
  <2>1. /\ mpc = "scan" /\ mpc' \in {"select", "scan"}
        /\ UNCHANGED <<pc, slot, holder>>
        /\ userId' = [userId EXCEPT ![i] = -1]
        /\ cfd' = [cfd EXCEPT ![i] = FALSE]
        /\ \/ cq[i] = <<>> /\ Writers(i) = {} /\ cq' = cq
           \/ cq[i] = <<Cmd("quit")>> /\ cq' = [cq EXCEPT ![i] = <<>>]
    BY <1>5 DEF ServeEof, ServeQuit, AtSlot, FreeSlot, Resume, childVars
  <2>2. \A c \in Client : pc[c] \in Started => slot[c] # i
    BY <2>1 DEF ChildSeats, MainUp, Opening, Writers, Started, Attached, Serving
  <2>3. cq'[i] = <<>> /\ \A j \in Slots \ {i} : cq'[j] = cq[j]
    BY <2>1 DEF TypeOK
  <2>4. userId'[i] = -1 /\ cfd'[i] = FALSE
        /\ \A j \in Slots \ {i} : userId'[j] = userId[j] /\ cfd'[j] = cfd[j]
    BY <2>1 DEF TypeOK
  <2>5. \A c \in Client :
          /\ pc[c] \in Started => userId'[slot[c]] = slot[c] /\ holder[slot[c]] = c
          /\ pc[c] # "opening" /\ pc[c] # "openingW"
          /\ pc[c] \in {"new", "pending", "login"} => slot[c] = -1
    BY <2>1, <2>2, <2>4 DEF TypeOK, ChildSeats, MainUp, Opening, Started
  <2>6. \A j \in Slots :
          /\ cq'[j] = <<Cmd("quit")>> => holder[j] \in Client /\ pc[holder[j]] = "gone"
          /\ cq'[j] # <<>> => cfd'[j]
    <3>1. -1 # i /\ <<Cmd("quit")>> # <<>>
      BY DEF Slots
    <3> QED BY <2>1, <2>3, <2>4, <3>1 DEF ChildSeats, MainUp
  <2> QED BY <2>1, <2>5, <2>6 DEF ChildSeats
<1>6. ASSUME NEW i \in Slots,
             ServeWho(i) \/ ServeUnknown(i) \/ \E k \in CmdNames : ServeCommand(i, k)
      PROVE  ChildSeats'
  <2>1. /\ mpc = "scan" /\ mpc' \in {"select", "scan", "arg", "dead"}
        /\ cq' = [cq EXCEPT ![i] = <<>>]
        /\ UNCHANGED <<pc, slot, userId, holder, cfd>>
    BY <1>6 DEF ServeWho, ServeCommand, ServeUnknown, AtSlot, Write, Resume, tableVars, childVars
  <2> QED BY <2>1, SeatFrame DEF TypeOK
<1>7. ASSUME NEW i \in Slots, Deliver(i) PROVE ChildSeats'
  BY <1>7, SeatFrame DEF Deliver, Write, AfterArgs, Resume, tableVars, childVars
<1>8. CASE ReadArgument \/ FinishTell \/ FinishYell \/ FinishName \/ FinishGyell
  <2>1. /\ mpc = "arg" /\ mpc' \in {"arg", "select", "scan", "deliver", "dead"}
        /\ UNCHANGED <<pc, slot, userId, holder, cfd>>
    BY <1>8 DEF ReadArgument, FinishTell, FinishYell, FinishName, FinishGyell, Write, Resume,
       AfterArgs, tableVars, childVars
  <2>2. cq' = cq \/ cq' = [cq EXCEPT ![cur] = <<>>]
    BY <1>8 DEF ReadArgument, FinishTell, FinishYell, FinishName, FinishGyell, ReadString
  <2> QED BY <2>1, <2>2, SeatFrame DEF TypeOK
<1>9. ASSUME NEW n \in Names, Login(n) PROVE ChildSeats'
  <2>1. /\ mpc = "login" /\ mpc' = "openS" /\ cur' = getMinC_ID /\ UNCHANGED <<cfd, cq>>
        /\ userId' = [userId EXCEPT ![getMinC_ID] = getMinC_ID]
        /\ holder' = [holder EXCEPT ![getMinC_ID] = cand]
        /\ slot' = [slot EXCEPT ![cand] = getMinC_ID]
        /\ pc' = [pc EXCEPT ![cand] = "opening"]
        /\ Free # {}
    BY <1>9 DEF Login
  <2>2. getMinC_ID \in Slots /\ userId[getMinC_ID] = -1
    BY <2>1, MinIsFree DEF Free
  <2>3. cand \in Client /\ pc[cand] = "login"
    BY <2>1 DEF TypeOK, ChildSeats, MainUp
  <2> QED BY <2>1, <2>2, <2>3, SeatTaken
<1>10. CASE LoginWhenFull \/ LoginHangup
  BY <1>10 DEF LoginWhenFull, LoginHangup, ChildSeats, MainUp
<1>11. ASSUME NEW c \in Client, ChildOpenServerFifo(c) PROVE ChildSeats'
  <2>1. pc[c] \in Started /\ (MainUp => Opening(slot[c]))
    BY <1>11 DEF ChildOpenServerFifo, ChildSeats, Started, Opening
  <2> QED BY <1>11, <2>1, CommandsTyped, SeatChild
          DEF ChildOpenServerFifo, mainVars, tableVars
<1>12. ASSUME NEW c \in Client,
              ChildOpenClientFifo(c) \/ ReadReply(c) \/ ReadMessages(c) \/ Shell(c) \/ ShellDone(c)
       PROVE  ChildSeats'
  <2>1. /\ pc[c] \in Started
        /\ \E p \in Serving : pc' = [pc EXCEPT ![c] = p]
        /\ UNCHANGED <<mpc, cur, cand, slot, userId, holder, cfd, cq>>
    BY <1>12 DEF ChildOpenClientFifo, ReadReply, ReadMessages, Shell, ShellDone, Done, mainVars,
       tableVars, Started, Attached, Serving
  <2> QED BY <2>1, CommandsTyped, SeatChild
<1>13. ASSUME NEW c \in Client, SendArgument(c) PROVE ChildSeats'
  <2> DEFINE w == Head(pend[c])
  <2>1. pend[c] \in Seq(ArgWord) /\ pend[c] # <<>>
    BY <1>13 DEF TypeOK, SendArgument
  <2>2. w \in Word /\ w # Cmd("quit")
    <3>1. Head(pend[c]) \in ArgWord
      BY <2>1
    <3>2. \A v \in ArgWord : v # Cmd("quit")
      <4>1. \A v \in ArgWord : v[1] # "cmd"
        <5> SUFFICES ASSUME NEW v \in ArgWord PROVE v[1] # "cmd"
          OBVIOUS
        <5>1. v \in {"id"} \X Slots => v[1] = "id"
          OBVIOUS
        <5>2. v \in {"name"} \X Names => v[1] = "name"
          OBVIOUS
        <5>3. v \in {"group"} \X Groups => v[1] = "group"
          OBVIOUS
        <5>4. Hi[1] = "text" /\ Null[1] = "null" /\ Empty[1] = "empty"
          BY DEF Hi, Null, Empty
        <5> QED BY <5>1, <5>2, <5>3, <5>4 DEF ArgWord
      <4>2. Cmd("quit")[1] = "cmd"
        BY DEF Cmd
      <4> QED BY <4>1, <4>2
    <3> QED BY <3>1, <3>2 DEF Word
  <2>3. /\ pc[c] = "ack"
        /\ cq' = cq \/ (cq' = [cq EXCEPT ![slot[c]] = Append(@, w)] /\ cfd[slot[c]])
        /\ UNCHANGED <<mpc, cur, cand, slot, userId, holder, cfd>>
    BY <1>13 DEF SendArgument, MainReads, mainVars, tableVars
  <2>4. \E p \in Serving : pc' = [pc EXCEPT ![c] = p]
    BY <1>13 DEF SendArgument, Done, Serving, TypeOK
  <2>5. pc[c] \in Started
    BY <2>3 DEF Started, Attached, Serving
  <2> HIDE DEF w
  <2>6. PICK p \in Serving : pc' = [pc EXCEPT ![c] = p]
    BY <2>4
  <2> QED BY <2>2, <2>3, <2>5, <2>6, SeatChild
<1>14. ASSUME NEW c \in Client, DieSending(c) \/ Leave(c) \/ Abrupt(c) PROVE ChildSeats'
  BY <1>14, ExitSeats DEF DieSending, Leave, Abrupt, Serving
<1>15. ASSUME NEW c \in Client, Connect(c) PROVE ChildSeats'
  <2>1. /\ pc[c] = "new" /\ pc' = [pc EXCEPT ![c] = "pending"]
        /\ UNCHANGED <<mpc, cur, cand, slot, userId, holder, cfd, cq>>
    BY <1>15 DEF Connect, mainVars, tableVars
  <2> QED BY <2>1 DEF TypeOK, ChildSeats, MainUp, Opening, Started, Attached, Serving
<1>16. ASSUME NEW c \in Client, NEW k \in CmdNames, NEW args \in Args(k), Request(c, k, args)
       PROVE  ChildSeats'
  <2>1. CASE MainReads(slot[c])
    <3>1. /\ pc[c] = "loop"
          /\ pc' = [pc EXCEPT ![c] = IF args = <<>> THEN "reply" ELSE "ack"]
          /\ cq' = [cq EXCEPT ![slot[c]] = Append(@, Cmd(k))]
          /\ UNCHANGED <<mpc, cur, cand, slot, userId, holder, cfd>>
      BY <1>16, <2>1 DEF Request, mainVars, tableVars
    <3>2. Cmd(k) \in Word /\ Cmd(k) # Cmd("quit")
      BY CommandsTyped DEF Cmd, CmdNames
    <3>3. PICK p \in Serving : pc' = [pc EXCEPT ![c] = p]
      BY <3>1 DEF Serving
    <3> QED BY <2>1, <3>1, <3>2, <3>3, SeatChild DEF MainReads, Started, Attached, Serving
  <2>2. CASE ~MainReads(slot[c])
    BY <1>16, <2>2, ExitSeats DEF Request, Serving
  <2> QED BY <2>1, <2>2
<1>17. ASSUME NEW c \in Client, Quit(c) PROVE ChildSeats'
  <2> DEFINE sent == [cq EXCEPT ![slot[c]] = Append(@, Cmd("quit"))]
  <2>1. CASE MainReads(slot[c])
    <3>1. /\ pc[c] = "loop"
          /\ Exit(c, sent)
          /\ UNCHANGED <<mpc, cur, cand, slot, userId, holder, cfd>>
      BY <1>17, <2>1 DEF Quit, mainVars, tableVars
    <3>2. /\ pc' = [pc EXCEPT ![c] = "gone"]
          /\ cq' = sent
      BY <2>1, <3>1 DEF Exit, MainReads
    <3> QED BY <2>1, <3>1, <3>2, CommandsTyped, SeatChild
            DEF MainReads, Started, Attached, Serving
  <2>2. CASE ~MainReads(slot[c])
    BY <1>17, <2>2, ExitSeats DEF Quit, Serving
  <2> QED BY <2>1, <2>2
<1>18. CASE UNCHANGED vars
  BY <1>18, SeatFrame DEF vars, mainVars, tableVars, childVars
<1>19. CASE MainStep
  BY <1>1, <1>2, <1>3, <1>4, <1>5, <1>6, <1>7, <1>8, <1>19 DEF MainStep
<1>20. CASE LoginStep
  BY <1>9, <1>10, <1>20 DEF LoginStep
<1>21. ASSUME NEW c \in Client, ChildStep(c) PROVE ChildSeats'
  BY <1>11, <1>12, <1>13, <1>14, <1>21 DEF ChildStep
<1>22. ASSUME NEW c \in Client, ClientStep(c) PROVE ChildSeats'
  BY <1>12, <1>14, <1>15, <1>16, <1>17, <1>22 DEF ClientStep
<1> QED BY <1>18, <1>19, <1>20, <1>21, <1>22 DEF Next

(* A slot stays with its last child, which once started has either ended   *)
(* or not.                                                                 *)
Begun(c) == pc[c] \in Started \cup {"gone"}

LEMMA HolderStep ==
  ASSUME TypeOK, ChildSeats, HolderSeats, [Next]_vars
  PROVE  HolderSeats'
<1>1. ASSUME UNCHANGED <<slot, holder>>,
             \A i \in Slots : userId'[i] \in {userId[i], -1},
             MainUp' => MainUp,
             MainUp' => \A c \in Client : Begun(c) => Begun(c)'
      PROVE  HolderSeats'
  <2>1. \A i \in Slots : i # -1
    BY DEF Slots
  <2> QED BY <1>1, <2>1 DEF HolderSeats, Begun
<1>2. ASSUME UNCHANGED <<slot, holder>>, userId' = userId,
             MainUp' => MainUp,
             \/ pc' = pc
             \/ \E c \in Client : \E p :
                  /\ pc' = [pc EXCEPT ![c] = p]
                  /\ pc[c] \in {"new", "pending"} \/ p \in Started \cup {"gone"}
      PROVE  HolderSeats'
  <2>1. \A c \in Client : Begun(c) => Begun(c)'
    BY <1>2 DEF Begun, TypeOK, Started, Attached, Serving
  <2> QED BY <1>1, <1>2, <2>1
<1>3. CASE Select
  BY <1>2, <1>3 DEF Select, tableVars, MainUp
<1>4. CASE OpenServerFifo \/ OpenClientFifo
  BY <1>2, <1>4 DEF OpenServerFifo, OpenClientFifo, Meet, MainUp, Started, Attached, Serving
<1>5. CASE OpenInterrupted \/ LoginWhenFull \/ LoginHangup
  BY <1>5 DEF OpenInterrupted, LoginWhenFull, LoginHangup, HolderSeats, MainUp
<1>6. ASSUME NEW i \in Slots, ServeEof(i) \/ ServeQuit(i) PROVE HolderSeats'
  <2>1. /\ mpc = "scan" /\ UNCHANGED <<pc, slot, holder>> /\ userId' = [userId EXCEPT ![i] = -1]
    BY <1>6 DEF ServeEof, ServeQuit, AtSlot, FreeSlot, childVars
  <2> QED BY <1>1, <2>1 DEF TypeOK, MainUp, Begun
<1>7. ASSUME NEW i \in Slots,
             ServeWho(i) \/ ServeUnknown(i) \/ Deliver(i) \/ \E k \in CmdNames : ServeCommand(i, k)
      PROVE  HolderSeats'
  BY <1>2, <1>7 DEF ServeWho, ServeCommand, ServeUnknown, Deliver, AtSlot, MainUp, tableVars, childVars
<1>8. CASE ReadArgument \/ FinishTell \/ FinishYell \/ FinishName \/ FinishGyell
  BY <1>2, <1>8 DEF ReadArgument, FinishTell, FinishYell, FinishName, FinishGyell, MainUp,
     tableVars, childVars
<1>9. ASSUME NEW n \in Names, Login(n) PROVE HolderSeats'
  <2> DEFINE m == getMinC_ID
  <2>1. /\ mpc = "login" /\ cand \in Client
        /\ userId' = [userId EXCEPT ![m] = m]
        /\ holder' = [holder EXCEPT ![m] = cand]
        /\ slot' = [slot EXCEPT ![cand] = m]
        /\ pc' = [pc EXCEPT ![cand] = "opening"]
    BY <1>9 DEF Login, TypeOK
  <2>2. m \in Slots
    BY <1>9, MinIsFree DEF Login
  <2>3. ~Begun(cand)
    BY <2>1 DEF ChildSeats, MainUp, Begun, Started, Attached, Serving
  <2> HIDE DEF m
  <2> SUFFICES ASSUME NEW i \in Slots, userId'[i] = i
               PROVE  holder'[i] \in Client /\ slot'[holder'[i]] = i /\ Begun(holder[i])'
    BY DEF HolderSeats, Begun
  <2>4. CASE i = m
    BY <2>1, <2>2, <2>4 DEF TypeOK, Begun, Started
  <2>5. CASE i # m
    <3>1. userId[i] = i /\ holder'[i] = holder[i]
      BY <2>1, <2>5 DEF TypeOK
    <3>2. holder[i] \in Client /\ slot[holder[i]] = i /\ Begun(holder[i])
      BY <2>1, <3>1 DEF HolderSeats, MainUp, Begun
    <3>3. holder[i] # cand
      BY <2>3, <3>2
    <3> QED BY <2>1, <3>1, <3>2, <3>3 DEF TypeOK, Begun
  <2> QED BY <2>4, <2>5
<1>10. ASSUME NEW c \in Client, ChildStep(c) \/ ClientStep(c) PROVE HolderSeats'
  <2>1. UNCHANGED <<mpc, slot, holder, userId>>
    BY <1>10 DEF ChildStep, ClientStep, ChildOpenServerFifo, ChildOpenClientFifo, SendArgument,
       DieSending, ReadReply, ReadMessages, Leave, Connect, Request, Shell, ShellDone, Quit,
       Abrupt, mainVars, tableVars
  <2>2. \/ pc' = pc
        \/ pc[c] = "new" /\ \E p : pc' = [pc EXCEPT ![c] = p]
        \/ \E p \in Started \cup {"gone"} : pc' = [pc EXCEPT ![c] = p]
    BY <1>10 DEF ChildStep, ClientStep, ChildOpenServerFifo, ChildOpenClientFifo, SendArgument,
       DieSending, ReadReply, ReadMessages, Leave, Connect, Request, Shell, ShellDone, Quit,
       Abrupt, Exit, Done, Started, Attached, Serving
  <2> QED BY <1>2, <2>1, <2>2 DEF MainUp
<1>11. CASE UNCHANGED vars
  BY <1>2, <1>11 DEF vars, tableVars, childVars, MainUp
<1> QED BY <1>3, <1>4, <1>5, <1>6, <1>7, <1>8, <1>9, <1>10, <1>11 DEF Next, MainStep, LoginStep

(* Wherever a child is at work, the table has its client in its slot, and  *)
(* a slot is given up only for a "quit" that its last child sent.          *)
THEOREM SeatsCorrect ==
  ASSUME PromptExit
  PROVE  Spec => []SeatInv
<1>1. Init => SeatInv
  BY DEF Init, SeatInv, ChildSeats, HolderSeats, Started, Attached, Serving, Slots
<1>2. TypeOK /\ TableInv /\ SeatInv /\ [Next]_vars => SeatInv'
  BY SeatStep, HolderStep DEF SeatInv
<1> QED BY <1>1, <1>2, TypeCorrect, TableCorrect, PTL DEF Spec

(* No two child servers are at work on the pipes of one slot.              *)
THEOREM OneChild ==
  ASSUME PromptExit
  PROVE  Spec => []OneChildPerSlot
<1>1. TypeOK /\ SeatInv => OneChildPerSlot
  BY DEF TypeOK, SeatInv, ChildSeats, HolderSeats, OneChildPerSlot, Readers, Started
<1> QED BY TypeCorrect, SeatsCorrect, <1>1, PTL

-----------------------------------------------------------------------------
(* The client table implements Seating: a client is seated once, in the    *)
(* lowest free slot, and the slot is vacated only when its session is over.*)

(* A step that leaves the table alone and ends at most one session.        *)
LEMMA SeatingStutter ==
  ASSUME TypeOK, UNCHANGED <<userId, holder, slot>>,
         \/ Over' = Over
         \/ \E c \in Client \ Over : Over' = Over \cup {c}
  PROVE  Seats!Next \/ UNCHANGED Seats!seatVars
<1>1. SeatOf' = SeatOf /\ Seated' = Seated
  BY DEF SeatOf, Seated
<1> QED BY <1>1 DEF Seats!Next, Seats!End, Seats!seatVars

(* A step of one child or client.                                          *)
LEMMA SeatingChild ==
  ASSUME TypeOK, NEW c \in Client, UNCHANGED <<userId, holder, slot>>,
         pc[c] \notin {"leaving", "gone"} \/ pc'[c] \in {"leaving", "gone"},
         \A d \in Client \ {c} : pc'[d] = pc[d]
  PROVE  Seats!Next \/ UNCHANGED Seats!seatVars
<1>1. CASE c \in Over \/ pc'[c] \notin {"leaving", "gone"}
  <2>1. Over' = Over
    BY <1>1 DEF Over
  <2> QED BY <2>1, SeatingStutter
<1>2. CASE c \notin Over /\ pc'[c] \in {"leaving", "gone"}
  <2>1. Over' = Over \cup {c}
    BY <1>2 DEF Over
  <2> QED BY <1>2, <2>1, SeatingStutter
<1> QED BY <1>1, <1>2

LEMMA SeatingStep ==
  ASSUME TypeOK, TableInv, SeatInv, [Next]_vars
  PROVE  Seats!Next \/ UNCHANGED Seats!seatVars
<1>1. ASSUME NEW n \in Names, Login(n) PROVE Seats!Next
  <2> DEFINE m == getMinC_ID
  <2>1. /\ mpc = "login"
        /\ userId' = [userId EXCEPT ![m] = m]
        /\ holder' = [holder EXCEPT ![m] = cand]
        /\ slot' = [slot EXCEPT ![cand] = m]
        /\ pc' = [pc EXCEPT ![cand] = "opening"]
        /\ Free # {}
    BY <1>1 DEF Login
  <2>2. m \in Slots /\ userId[m] = -1 /\ \A j \in Free : m <= j
    BY <2>1, MinIsFree DEF Free
  <2>3. cand \in Client /\ pc[cand] = "login" /\ slot[cand] = -1
    BY <2>1 DEF TypeOK, SeatInv, ChildSeats, HolderSeats, MainUp
  <2>4. m # -1 /\ NoClient \notin Client
    BY <2>2, SessionsAssumption DEF Slots
  <2> HIDE DEF m
  <2>5. cand \notin Seated /\ Seated' = Seated \cup {cand}
    BY <2>1, <2>2, <2>3, <2>4 DEF Seated, TypeOK
  <2>6. Over' = Over
    BY <2>1, <2>3 DEF Over, TypeOK
  <2>7. SeatOf[m] = NoClient /\ SeatOf' = [SeatOf EXCEPT ![m] = cand]
    <3>1. \A i \in Slots \ {m} : userId'[i] = userId[i] /\ holder'[i] = holder[i]
      BY <2>1 DEF TypeOK
    <3>2. userId'[m] = m /\ holder'[m] = cand
      BY <2>1, <2>2 DEF TypeOK
    <3> QED BY <2>2, <2>4, <3>1, <3>2 DEF SeatOf
  <2>8. \A j \in Slots : SeatOf[j] = NoClient => j \in Free
    <3> SUFFICES ASSUME NEW j \in Slots, userId[j] # -1 PROVE SeatOf[j] # NoClient
      BY DEF Free
    <3>1. userId[j] = j
      BY <2>1 DEF TableInv, MainUp
    <3>2. holder[j] \in Client
      BY <2>1, <3>1 DEF SeatInv, ChildSeats, HolderSeats, MainUp
    <3> QED BY <2>4, <3>2 DEF SeatOf
  <2>9. Seats!Seat(cand, m)
    BY <2>2, <2>5, <2>6, <2>7, <2>8 DEF Seats!Seat, Seats!Numbers, Slots
  <2> QED BY <2>2, <2>3, <2>9 DEF Seats!Next, Seats!Numbers, Slots
<1>2. ASSUME NEW i \in Slots, ServeEof(i) \/ ServeQuit(i)
      PROVE  Seats!Next \/ UNCHANGED Seats!seatVars
  <2>1. /\ mpc = "scan"
        /\ UNCHANGED <<pc, slot, holder>>
        /\ userId' = [userId EXCEPT ![i] = -1]
        /\ \/ cq[i] = <<>> /\ Writers(i) = {}
           \/ cq[i] = <<Cmd("quit")>>
    BY <1>2 DEF ServeEof, ServeQuit, AtSlot, FreeSlot, childVars
  <2>2. Over' = Over /\ Seated' = Seated
    BY <2>1 DEF Over, Seated
  <2>3. CASE userId[i] = -1
    <3>1. userId' = userId
      BY <2>1, <2>3 DEF TypeOK
    <3> QED BY <2>1, <2>2, <3>1, SeatingStutter
  <2>4. CASE userId[i] = i
    <3>1. holder[i] \in Client /\ pc[holder[i]] \in Started \cup {"gone"}
      BY <2>1, <2>4 DEF SeatInv, ChildSeats, HolderSeats, MainUp
    <3>2. cq[i] = <<Cmd("quit")>> => pc[holder[i]] = "gone"
      BY <2>1 DEF SeatInv, ChildSeats, HolderSeats, MainUp
    <3>3. Writers(i) = {} => pc[holder[i]] = "gone"
      <4> SUFFICES ASSUME Writers(i) = {}, pc[holder[i]] \in Started PROVE FALSE
        BY <3>1
      <4>1. pc[holder[i]] \in Serving
        BY <2>1, <3>1 DEF SeatInv, ChildSeats, HolderSeats, MainUp, Opening, Started, Attached
      <4>2. slot[holder[i]] = i
        BY <2>1, <2>4, <3>1 DEF SeatInv, ChildSeats, HolderSeats, MainUp
      <4> QED BY <3>1, <4>1, <4>2 DEF Writers
    <3>4. holder[i] \in Over
      BY <2>1, <3>1, <3>2, <3>3 DEF Over
    <3>5. SeatOf[i] = holder[i] /\ SeatOf' = [SeatOf EXCEPT ![i] = NoClient]
      <4>1. -1 # i
        BY DEF Slots
      <4>2. userId'[i] = -1 /\ \A j \in Slots \ {i} : userId'[j] = userId[j]
        BY <2>1 DEF TypeOK
      <4> QED BY <2>1, <2>4, <4>1, <4>2 DEF SeatOf
    <3>6. Seats!Vacate(i)
      BY <2>2, <3>4, <3>5 DEF Seats!Vacate
    <3> QED BY <3>6 DEF Seats!Next, Seats!Numbers, Slots
  <2> QED BY <2>1, <2>3, <2>4 DEF TableInv, MainUp
<1>3. CASE Select
  <2>1. UNCHANGED <<userId, holder, slot>>
    BY <1>3 DEF Select, tableVars
  <2>2. CASE UNCHANGED pc
    BY <2>1, <2>2, SeatingStutter DEF Over
  <2>3. ASSUME NEW c \in Client, pc[c] = "pending", pc' = [pc EXCEPT ![c] = "login"]
        PROVE  Seats!Next \/ UNCHANGED Seats!seatVars
    BY <2>1, <2>3, SeatingChild DEF TypeOK
  <2> QED BY <1>3, <2>2, <2>3 DEF Select
<1>4. CASE OpenServerFifo \/ OpenClientFifo
  <2>1. UNCHANGED <<userId, holder, slot>>
    BY <1>4 DEF OpenServerFifo, OpenClientFifo
  <2>2. \/ UNCHANGED pc
        \/ \E c \in Client, p \in {"openingW", "loop"} :
              pc[c] \in {"opening", "openingW"} /\ pc' = [pc EXCEPT ![c] = p]
    BY <1>4 DEF OpenServerFifo, OpenClientFifo, Meet
  <2>3. CASE UNCHANGED pc
    BY <2>1, <2>3, SeatingStutter DEF Over
  <2>4. ASSUME NEW c \in Client, NEW p \in {"openingW", "loop"},
               pc[c] \in {"opening", "openingW"}, pc' = [pc EXCEPT ![c] = p]
        PROVE  Seats!Next \/ UNCHANGED Seats!seatVars
    BY <2>1, <2>4, SeatingChild DEF TypeOK
  <2> QED BY <2>2, <2>3, <2>4
<1>5. ASSUME UNCHANGED <<userId, holder, slot, pc>>
      PROVE  Seats!Next \/ UNCHANGED Seats!seatVars
  BY <1>5, SeatingStutter DEF Over
<1>6. CASE OpenInterrupted \/ LoginWhenFull \/ UNCHANGED vars
  BY <1>5, <1>6 DEF OpenInterrupted, LoginWhenFull, vars, tableVars, childVars
<1>7. ASSUME NEW i \in Slots,
             \/ ServeWho(i) \/ ServeUnknown(i) \/ Deliver(i)
             \/ \E k \in CmdNames : ServeCommand(i, k)
      PROVE  Seats!Next \/ UNCHANGED Seats!seatVars
  BY <1>5, <1>7 DEF ServeWho, ServeUnknown, Deliver, ServeCommand, tableVars, childVars
<1>8. CASE ReadArgument \/ FinishTell \/ FinishYell \/ FinishName \/ FinishGyell
  BY <1>5, <1>8 DEF ReadArgument, FinishTell, FinishYell, FinishName, FinishGyell,
     tableVars, childVars
<1>9. CASE LoginHangup
  <2>1. /\ mpc = "login" /\ pc' = [pc EXCEPT ![cand] = "gone"]
        /\ UNCHANGED <<userId, holder, slot>>
    BY <1>9 DEF LoginHangup, tableVars
  <2>2. cand \in Client
    BY <2>1 DEF TypeOK
  <2> QED BY <2>1, <2>2, SeatingChild DEF TypeOK
<1>10. ASSUME NEW c \in Client, ChildStep(c) \/ ClientStep(c)
       PROVE  Seats!Next \/ UNCHANGED Seats!seatVars
  <2>1. UNCHANGED <<userId, holder, slot>>
    BY <1>10 DEF ChildStep, ClientStep, ChildOpenServerFifo, ChildOpenClientFifo, SendArgument,
       DieSending, ReadReply, ReadMessages, Leave, Connect, Request, Shell, ShellDone, Quit,
       Abrupt, tableVars
  <2>2. pc' = pc \/ \E p : pc' = [pc EXCEPT ![c] = p]
    BY <1>10 DEF ChildStep, ClientStep, ChildOpenServerFifo, ChildOpenClientFifo, SendArgument,
       DieSending, ReadReply, ReadMessages, Leave, Connect, Request, Shell, ShellDone, Quit,
       Abrupt, Exit, Done
  <2>3. pc[c] \notin {"leaving", "gone"} \/ pc'[c] \in {"leaving", "gone"}
    BY <1>10 DEF ChildStep, ClientStep, ChildOpenServerFifo, ChildOpenClientFifo, SendArgument,
       DieSending, ReadReply, ReadMessages, Leave, Connect, Request, Shell, ShellDone, Quit,
       Abrupt, Exit, TypeOK
  <2>4. \A d \in Client \ {c} : pc'[d] = pc[d]
    BY <2>2 DEF TypeOK
  <2> QED BY <2>1, <2>3, <2>4, SeatingChild
<1>11. CASE MainStep
  BY <1>2, <1>3, <1>4, <1>6, <1>7, <1>8, <1>11 DEF MainStep
<1>12. CASE LoginStep
  BY <1>1, <1>6, <1>9, <1>12 DEF LoginStep
<1> QED BY <1>6, <1>10, <1>11, <1>12 DEF Next

THEOREM SeatingImplemented ==
  ASSUME PromptExit
  PROVE  Spec => SeatsSpec
<1>1. Init => Seats!Init
  <2> SUFFICES ASSUME Init PROVE Seats!Init
    OBVIOUS
  <2>1. SeatOf = [i \in Slots |-> NoClient]
    BY DEF Init, SeatOf
  <2>2. Seated = {} /\ Over = {}
    BY DEF Init, Seated, Over
  <2> QED BY <2>1, <2>2 DEF Seats!Init, Seats!Numbers, Slots
<1>2. TypeOK /\ TableInv /\ SeatInv /\ [Next]_vars => [Seats!Next]_(Seats!seatVars)
  BY SeatingStep
<1> QED BY TypeCorrect, TableCorrect, SeatsCorrect, <1>1, <1>2, PTL DEF Spec, SeatsSpec, Seats!Spec

-----------------------------------------------------------------------------
(* What main dies of.  A pipe main writes to has had a reader: the slot's  *)
(* child opened it.  If nobody reads it any more that child has gone.      *)

HadReader(i) == \E c \in Client : slot[c] = i /\ pc[c] \in Attached \cup {"gone"}
Departed     == \E c \in Client : pc[c] = "gone"

DeathInv ==
  /\ mpc = "dead" \/ intr => Departed
  /\ mpc = "login" => pc[cand] = "login"
  /\ \A i \in Slots : sfd[i] \/ cq[i] # <<>> => HadReader(i)
  /\ mpc = "arg" => HadReader(cur)
  /\ mpc = "deliver" => \A i \in todo : HadReader(i)

(* A step that leaves the children alone, and after which main waits only  *)
(* for those who had a reader.                                             *)
LEMMA DeathFrame ==
  ASSUME TypeOK, DeathInv, UNCHANGED <<pc, slot>>,
         \A i \in Slots : sfd'[i] => sfd[i],
         \A i \in Slots : cq'[i] # <<>> => cq[i] # <<>>,
         intr' => intr,
         mpc' = "dead" => Departed,
         mpc' = "login" => mpc = "login" /\ cand' = cand,
         mpc' = "arg" => HadReader(cur'),
         mpc' = "deliver" => \A i \in todo' : HadReader(i)
  PROVE  DeathInv'
BY DEF DeathInv, HadReader, Departed

LEMMA WriteToReader ==
  ASSUME NEW i, NEW msg, NEW next, Write(i, msg, next), HadReader(i)
  PROVE  mpc' = next \/ (mpc' = "dead" /\ Departed)
BY DEF Write, HadReader, Departed, Readers

LEMMA ReadStringKeeps ==
  ASSUME TypeOK, NEW str, ReadString(str)
  PROVE  /\ intr' => intr
         /\ \A i \in Slots : cq'[i] # <<>> => cq[i] # <<>>
BY DEF ReadString, TypeOK

(* A step of the child of c: it stays or goes, and writes to its own slot. *)
LEMMA DeathChild ==
  ASSUME TypeOK, DeathInv, NEW c \in Client, NEW p,
         UNCHANGED <<mpc, cand, cur, todo, sfd, slot>>,
         pc' = [pc EXCEPT ![c] = p],
         pc[c] # "login" /\ pc[c] # "gone",
         pc[c] \in Attached => p \in Attached \cup {"gone"},
         intr' => intr \/ p = "gone",
         \A i \in Slots : cq'[i] # <<>> => cq[i] # <<>> \/ (i = slot[c] /\ pc[c] \in Attached)
  PROVE  DeathInv'
<1>1. pc'[c] = p /\ \A d \in Client : d # c => pc'[d] = pc[d]
  BY DEF TypeOK
<1>2. \A i : HadReader(i) => HadReader(i)'
  BY <1>1 DEF HadReader
<1>3. (Departed \/ p = "gone") => Departed'
  BY <1>1 DEF Departed
<1>4. \A i \in Slots : i = slot[c] /\ pc[c] \in Attached => HadReader(i)
  BY DEF HadReader
<1> QED BY <1>1, <1>2, <1>3, <1>4 DEF DeathInv

LEMMA ExitDeath ==
  ASSUME TypeOK, DeathInv, NEW c \in Client, NEW newcq, Exit(c, newcq), pc[c] \in Serving,
         \A i \in Slots : newcq[i] # <<>> => cq[i] # <<>> \/ i = slot[c],
         UNCHANGED <<mpc, mainVars, tableVars, slot>>
  PROVE  DeathInv'
<1>1. pc' = [pc EXCEPT ![c] = "gone"]
  BY DEF Exit
<1>2. cq' = newcq \/ cq' = [cq EXCEPT ![slot[c]] = <<>>]
  BY DEF Exit
<1>3. \A i \in Slots : cq'[i] # <<>> => cq[i] # <<>> \/ i = slot[c]
  BY <1>2 DEF TypeOK
<1>4. pc[c] \in Attached /\ pc[c] # "login" /\ pc[c] # "gone"
  BY DEF Attached, Serving
<1> QED BY <1>1, <1>3, <1>4, DeathChild DEF mainVars, tableVars

(* The addressees of a message are slots main has a pipe to.               *)
LEMMA Addressees ==
  /\ \A i \in {j \in Slots : j = atoi(got[1]) /\ sfd[j]} : sfd[i]
  /\ \A i \in {j \in Slots : sfd[j]} : sfd[i]
  /\ \A str : \A i \in GroupTargets(str) : i \in Slots /\ sfd[i]
<1>1. \A str : \A i \in GroupTargets(str) : \E n : i \in NamedSlots(n)
  BY DEF GroupTargets
<1> QED BY <1>1 DEF NamedSlots

LEMMA DeathStep == ASSUME TypeOK, DeathInv, [Next]_vars PROVE DeathInv'
<1>1. CASE Select
  <2>1. CASE UNCHANGED <<cand, pc>> /\ mpc' = "scan"
    BY <1>1, <2>1, DeathFrame DEF Select, tableVars
  <2>2. ASSUME NEW c \in Client, pc[c] = "pending", cand' = c, mpc' = "login",
               pc' = [pc EXCEPT ![c] = "login"]
        PROVE  DeathInv'
    <3>1. UNCHANGED <<intr, sfd, cq, slot>>
      BY <1>1 DEF Select, tableVars
    <3>2. pc'[c] = "login" /\ \A d \in Client : d # c => pc'[d] = pc[d]
      BY <2>2 DEF TypeOK
    <3>3. pc[c] \notin Attached \cup {"gone"}
      BY <2>2 DEF Attached, Serving
    <3>4. (\A i : HadReader(i) => HadReader(i)') /\ (Departed => Departed')
      BY <2>2, <3>1, <3>2, <3>3 DEF HadReader, Departed
    <3> QED BY <2>2, <3>1, <3>2, <3>4 DEF DeathInv
  <2> QED BY <1>1, <2>1, <2>2 DEF Select
<1>2. CASE OpenServerFifo
  <2>1. /\ mpc = "openS" /\ mpc' = "openC" /\ UNCHANGED <<intr, cq, slot>>
        /\ sfd' = [sfd EXCEPT ![cur] = TRUE]
        /\ Meet(Readers(cur), "opening", "openingW")
    BY <1>2 DEF OpenServerFifo
  <2>2. HadReader(cur)' /\ (\A i : HadReader(i) => HadReader(i)') /\ (Departed => Departed')
    <3>1. CASE UNCHANGED pc /\ Readers(cur) # {}
      BY <2>1, <3>1, <1>2 DEF HadReader, Departed, Readers, OpenServerFifo, mainVars
    <3>2. ASSUME NEW c \in Client, slot[c] = cur, pc[c] = "opening",
                 pc' = [pc EXCEPT ![c] = "openingW"]
          PROVE  HadReader(cur)' /\ (\A i : HadReader(i) => HadReader(i)') /\ (Departed => Departed')
      <4>1. pc'[c] = "openingW" /\ \A d \in Client : d # c => pc'[d] = pc[d]
        BY <3>2 DEF TypeOK
      <4>2. cur' = cur
        BY <1>2 DEF OpenServerFifo, mainVars
      <4>3. HadReader(cur)'
        BY <2>1, <3>2, <4>1, <4>2 DEF HadReader, Attached
      <4>4. \A i : HadReader(i) => HadReader(i)'
        BY <2>1, <3>2, <4>1 DEF HadReader, Attached, Serving
      <4>5. Departed => Departed'
        BY <3>2, <4>1 DEF Departed
      <4> QED BY <4>3, <4>4, <4>5
    <3> QED BY <2>1, <3>1, <3>2 DEF Meet
  <2>3. cur' = cur
    BY <1>2 DEF OpenServerFifo, mainVars
  <2>4. \A i \in Slots : sfd'[i] => sfd[i] \/ i = cur
    BY <2>1 DEF TypeOK
  <2> QED BY <2>1, <2>2, <2>3, <2>4 DEF DeathInv, HadReader
<1>3. CASE OpenClientFifo
  <2>1. /\ mpc' \in {"select", "scan"} /\ UNCHANGED <<intr, sfd, cq, slot>>
        /\ Meet(Writers(cur), "openingW", "loop")
    BY <1>3 DEF OpenClientFifo, Resume
  <2>2. (\A i : HadReader(i) => HadReader(i)') /\ (Departed => Departed')
    <3>1. CASE UNCHANGED pc
      BY <2>1, <3>1 DEF HadReader, Departed
    <3>2. ASSUME NEW c \in Client, pc[c] = "openingW", pc' = [pc EXCEPT ![c] = "loop"]
          PROVE  (\A i : HadReader(i) => HadReader(i)') /\ (Departed => Departed')
      <4>1. pc'[c] = "loop" /\ \A d \in Client : d # c => pc'[d] = pc[d]
        BY <3>2 DEF TypeOK
      <4> QED BY <2>1, <3>2, <4>1 DEF HadReader, Departed, Attached, Serving
    <3> QED BY <2>1, <3>1, <3>2 DEF Meet
  <2> QED BY <2>1, <2>2 DEF DeathInv
<1>4. CASE OpenInterrupted
  BY <1>4, DeathFrame DEF OpenInterrupted, tableVars, childVars, DeathInv
<1>5. ASSUME NEW i \in Slots, ServeEof(i) \/ ServeQuit(i) PROVE DeathInv'
  <2>1. /\ mpc' \in {"select", "scan"} /\ UNCHANGED <<intr, pc, slot>>
        /\ sfd' = sfd \/ sfd' = [sfd EXCEPT ![i] = FALSE]
        /\ cq' = cq \/ cq' = [cq EXCEPT ![i] = <<>>]
    BY <1>5 DEF ServeEof, ServeQuit, CloseServerFifo, Resume, childVars
  <2> QED BY <2>1, DeathFrame DEF TypeOK
<1>6. ASSUME NEW i \in Slots,
             ServeWho(i) \/ ServeUnknown(i) \/ \E k \in CmdNames : ServeCommand(i, k)
      PROVE  DeathInv'
  <2>1. /\ cq[i] # <<>> /\ cq' = [cq EXCEPT ![i] = <<>>]
        /\ UNCHANGED <<intr, pc, slot, sfd>>
    BY <1>6 DEF ServeWho, ServeCommand, ServeUnknown, tableVars, childVars
  <2>2. HadReader(i)
    BY <2>1 DEF DeathInv
  <2>3. mpc' = "dead" => Departed
    BY <1>6, <2>2, WriteToReader DEF ServeWho, ServeCommand, ServeUnknown, Resume
  <2>4. /\ mpc' \in {"select", "scan", "arg", "dead"}
        /\ mpc' = "arg" => cur' = i
    BY <1>6 DEF ServeWho, ServeCommand, ServeUnknown, Write, Resume
  <2> QED BY <2>1, <2>2, <2>3, <2>4, DeathFrame DEF TypeOK
<1>7. ASSUME NEW i \in Slots, Deliver(i) PROVE DeathInv'
  <2>1. /\ mpc = "deliver" /\ i \in todo /\ todo' = todo \ {i}
        /\ Write(i, Msg(mcmd, i), AfterArgs(todo'))
        /\ UNCHANGED <<intr, cq, sfd, pc, slot>>
    BY <1>7 DEF Deliver, Address, tableVars, childVars
  <2>2. \A j \in todo : HadReader(j)
    BY <2>1 DEF DeathInv
  <2>3. /\ mpc' \in {"select", "scan", "deliver", "dead"}
        /\ mpc' = "dead" => Departed
    BY <2>1, <2>2, WriteToReader DEF AfterArgs, Resume
  <2> QED BY <2>1, <2>2, <2>3, DeathFrame
<1>8. CASE ReadArgument \/ FinishTell \/ FinishYell \/ FinishName \/ FinishGyell
  <2>1. mpc = "arg" /\ UNCHANGED <<cur, sfd, pc, slot>> /\ \E str : ReadString(str)
    BY <1>8 DEF ReadArgument, FinishTell, FinishYell, FinishName, FinishGyell, tableVars, childVars
  <2>2. HadReader(cur)
    BY <2>1 DEF DeathInv
  <2>3. /\ intr' => intr
        /\ \A i \in Slots : cq'[i] # <<>> => cq[i] # <<>>
    BY <2>1, ReadStringKeeps
  <2>4. CASE FinishTell \/ FinishYell \/ FinishGyell
    <3>1. \A i \in todo' : i \in Slots /\ sfd[i]
      BY <2>4, Addressees DEF FinishTell, FinishYell, FinishGyell, Address
    <3>2. \A i \in todo' : HadReader(i)
      BY <3>1 DEF DeathInv
    <3>3. /\ mpc' \in {"select", "scan", "deliver", "dead"}
          /\ mpc' = "dead" => Departed
      BY <2>2, <2>4, WriteToReader DEF FinishTell, FinishYell, FinishGyell, AfterArgs, Resume
    <3> QED BY <2>1, <2>3, <3>2, <3>3, DeathFrame
  <2>5. CASE ReadArgument \/ FinishName
    <3>1. /\ mpc' \in {"arg", "select", "scan", "dead"}
          /\ mpc' = "dead" => Departed
      BY <2>2, <2>5, WriteToReader DEF ReadArgument, FinishName, Resume
    <3> QED BY <2>1, <2>2, <2>3, <3>1, DeathFrame
  <2> QED BY <1>8, <2>4, <2>5
<1>9. ASSUME NEW n \in Names, Login(n) PROVE DeathInv'
  <2>1. /\ mpc = "login" /\ mpc' = "openS" /\ UNCHANGED <<intr, sfd, cq>>
        /\ slot' = [slot EXCEPT ![cand] = getMinC_ID]
        /\ pc' = [pc EXCEPT ![cand] = "opening"]
    BY <1>9 DEF Login
  <2>2. pc[cand] = "login" /\ pc[cand] \notin Attached \cup {"gone"}
    BY <2>1 DEF DeathInv, Attached, Serving
  <2>3. \A d \in Client : d # cand => pc'[d] = pc[d] /\ slot'[d] = slot[d]
    BY <2>1 DEF TypeOK
  <2>4. (\A i : HadReader(i) => HadReader(i)') /\ (Departed => Departed')
    BY <2>2, <2>3 DEF HadReader, Departed
  <2> QED BY <2>1, <2>4 DEF DeathInv
<1>10. CASE LoginWhenFull
  BY <1>10, DeathFrame DEF LoginWhenFull, tableVars, childVars
<1>11. CASE LoginHangup
  <2>1. /\ mpc = "login" /\ mpc' = "dead" /\ UNCHANGED <<intr, sfd, cq, slot>>
        /\ pc' = [pc EXCEPT ![cand] = "gone"]
    BY <1>11 DEF LoginHangup, tableVars
  <2>2. cand \in Client
    BY <2>1 DEF TypeOK
  <2>3. pc'[cand] = "gone" /\ \A d \in Client : d # cand => pc'[d] = pc[d]
    BY <2>1, <2>2 DEF TypeOK
  <2>4. Departed' /\ \A i : HadReader(i) => HadReader(i)'
    BY <2>1, <2>2, <2>3 DEF HadReader, Departed
  <2> QED BY <2>1, <2>4 DEF DeathInv
<1>12. ASSUME NEW c \in Client,
              ChildOpenServerFifo(c) \/ ChildOpenClientFifo(c) \/ ReadReply(c)
              \/ ReadMessages(c) \/ Shell(c) \/ ShellDone(c) \/ Connect(c)
       PROVE  DeathInv'
  <2>1. /\ UNCHANGED <<mpc, cand, cur, todo, sfd, slot, intr, cq>>
        /\ pc[c] # "login" /\ pc[c] # "gone"
    BY <1>12 DEF ChildOpenServerFifo, ChildOpenClientFifo, ReadReply, ReadMessages, Shell,
       ShellDone, Connect, Done, mainVars, tableVars
  <2>2. CASE Connect(c)
    <3>1. pc' = [pc EXCEPT ![c] = "pending"] /\ pc[c] \notin Attached
      BY <2>2 DEF Connect, Attached, Serving
    <3> QED BY <2>1, <3>1, DeathChild
  <2>3. CASE ~Connect(c)
    <3>1. \E p \in Attached : pc' = [pc EXCEPT ![c] = p]
      BY <1>12, <2>3 DEF ChildOpenServerFifo, ChildOpenClientFifo, ReadReply, ReadMessages, Shell,
         ShellDone, Done, Attached, Serving
    <3> QED BY <2>1, <3>1, DeathChild
  <2> QED BY <2>2, <2>3
<1>13. ASSUME NEW c \in Client, SendArgument(c) PROVE DeathInv'
  <2>1. /\ pc[c] = "ack" /\ UNCHANGED <<mpc, cand, cur, todo, sfd, slot, intr>>
        /\ cq' = cq \/ cq' = [cq EXCEPT ![slot[c]] = Append(@, Head(pend[c]))]
    BY <1>13 DEF SendArgument, mainVars, tableVars
  <2>2. \E p \in Attached : pc' = [pc EXCEPT ![c] = p]
    BY <1>13 DEF SendArgument, Done, Attached, Serving, TypeOK
  <2>3. \A i \in Slots : cq'[i] # <<>> => cq[i] # <<>> \/ i = slot[c]
    BY <2>1 DEF TypeOK
  <2>4. pc[c] \in Attached
    BY <2>1 DEF Attached, Serving
  <2> QED BY <2>1, <2>2, <2>3, <2>4, DeathChild
<1>14. ASSUME NEW c \in Client, DieSending(c) \/ Leave(c) \/ Abrupt(c) PROVE DeathInv'
  <2>1. Exit(c, cq) /\ pc[c] \in Serving /\ UNCHANGED <<mpc, mainVars, tableVars, slot>>
    BY <1>14 DEF DieSending, Leave, Abrupt, Serving
  <2> QED BY <2>1, ExitDeath
<1>15. ASSUME NEW c \in Client, NEW k \in CmdNames, NEW args \in Args(k), Request(c, k, args)
       PROVE  DeathInv'
  <2>1. pc[c] = "loop" /\ UNCHANGED <<mpc, mainVars, tableVars, slot>>
    BY <1>15 DEF Request
  <2>2. CASE ~MainReads(slot[c])
    <3>1. Exit(c, cq)
      BY <1>15, <2>2 DEF Request
    <3> QED BY <2>1, <3>1, ExitDeath DEF Serving
  <2>3. CASE MainReads(slot[c])
    <3>1. /\ pc' = [pc EXCEPT ![c] = IF args = <<>> THEN "reply" ELSE "ack"]
          /\ cq' = [cq EXCEPT ![slot[c]] = Append(@, Cmd(k))] /\ UNCHANGED intr
      BY <1>15, <2>3 DEF Request
    <3>2. PICK p \in Attached : pc' = [pc EXCEPT ![c] = p]
      BY <3>1 DEF Attached, Serving
    <3>3. \A i \in Slots : cq'[i] # <<>> => cq[i] # <<>> \/ i = slot[c]
      BY <3>1 DEF TypeOK
    <3>4. pc[c] \in Attached
      BY <2>1 DEF Attached, Serving
    <3> QED BY <2>1, <3>1, <3>2, <3>3, <3>4, DeathChild DEF mainVars, tableVars
  <2> QED BY <2>2, <2>3
<1>16. ASSUME NEW c \in Client, Quit(c) PROVE DeathInv'
  <2> DEFINE sent == [cq EXCEPT ![slot[c]] = Append(@, Cmd("quit"))]
  <2>1. pc[c] = "loop" /\ UNCHANGED <<mpc, mainVars, tableVars, slot>>
    BY <1>16 DEF Quit
  <2>2. \A i \in Slots : sent[i] # <<>> => cq[i] # <<>> \/ i = slot[c]
    BY DEF TypeOK
  <2>3. CASE Exit(c, sent) \/ Exit(c, cq)
    BY <2>1, <2>2, <2>3, ExitDeath DEF Serving
  <2>4. CASE pc' = [pc EXCEPT ![c] = "leaving"] /\ cq' = sent /\ UNCHANGED intr
    <3>1. "leaving" \in Attached /\ pc[c] \in Attached
      BY <2>1 DEF Attached, Serving
    <3> QED BY <2>1, <2>2, <2>4, <3>1, DeathChild DEF mainVars, tableVars
  <2> QED BY <1>16, <2>3, <2>4 DEF Quit
<1>17. CASE UNCHANGED vars
  BY <1>17, DeathFrame DEF vars, mainVars, tableVars, childVars, DeathInv
<1>18. CASE MainStep
  BY <1>1, <1>2, <1>3, <1>4, <1>5, <1>6, <1>7, <1>8, <1>18 DEF MainStep
<1>19. CASE LoginStep
  BY <1>9, <1>10, <1>11, <1>19 DEF LoginStep
<1>20. ASSUME NEW c \in Client, ChildStep(c) PROVE DeathInv'
  BY <1>12, <1>13, <1>14, <1>20 DEF ChildStep
<1>21. ASSUME NEW c \in Client, ClientStep(c) PROVE DeathInv'
  BY <1>12, <1>14, <1>15, <1>16, <1>21 DEF ClientStep
<1> QED BY <1>17, <1>18, <1>19, <1>20, <1>21 DEF Next

(* Main is never brought down while every session is intact: the pipe it   *)
(* writes to without a reader, and the SIGCHLD that interrupts its open()  *)
(* (main.c:126, 130), take a child that has ended, and the other way to end  *)
(* is a client that hangs up at the login prompts.                         *)
THEOREM DiesAfterDeparture == Spec => []DiesOnlyAfterDeparture
<1>1. Init => DeathInv
  BY DEF Init, DeathInv
<1>2. DeathInv => DiesOnlyAfterDeparture
  BY DEF DeathInv, Departed, DiesOnlyAfterDeparture
<1> QED BY TypeCorrect, DeathStep, <1>1, <1>2, PTL DEF Spec

-----------------------------------------------------------------------------
(* Messages.  A slot is given up with its pipe closed and empty, or with a *)
(* write end still open.                                                   *)

AllTo(s, c) == \A n \in 1 .. Len(s) : s[n].to = c

PipeInv ==
  MainUp => \A i \in Slots :
    /\ LeftOpen(i) \/ AllTo(sq[i], holder[i])
    /\ ~sfd[i] /\ ~lost[i] => sq[i] = <<>>

LEMMA AllToWritten ==
  ASSUME NEW s \in Seq(UnitSet), NEW m \in Seq(UnitSet), NEW c, AllTo(s, c), AllTo(m, c)
  PROVE  AllTo(s \o m, c)
<1>1. Len(s \o m) = Len(s) + Len(m)
  OBVIOUS
<1>2. \A n \in 1 .. Len(s \o m) : (s \o m)[n] = IF n <= Len(s) THEN s[n] ELSE m[n - Len(s)]
  OBVIOUS
<1>3. \A n \in 1 .. Len(s \o m) : n > Len(s) => n - Len(s) \in 1 .. Len(m)
  BY <1>1
<1>4. \A n \in 1 .. Len(s \o m) : n <= Len(s) => n \in 1 .. Len(s)
  BY <1>1
<1> QED BY <1>2, <1>3, <1>4 DEF AllTo

LEMMA AllToTail ==
  ASSUME NEW s \in Seq(UnitSet), s # <<>>, NEW c, AllTo(s, c)
  PROVE  AllTo(Tail(s), c)
<1>1. Len(Tail(s)) = Len(s) - 1 /\ \A n \in 1 .. Len(Tail(s)) : Tail(s)[n] = s[n + 1]
  OBVIOUS
<1>2. \A n \in 1 .. Len(Tail(s)) : n + 1 \in 1 .. Len(s)
  BY <1>1
<1> QED BY <1>1, <1>2 DEF AllTo

LEMMA MessagesTo ==
  ASSUME TypeOK, NEW i \in Slots
  PROVE  /\ AllTo(Ack(i), holder[i]) /\ AllTo(Table(i), holder[i])
         /\ \A m \in MsgKind : AllTo(Msg(m, i), holder[i])
<1>1. /\ Unit("ack", i).to = holder[i]
      /\ \A m : Unit(m, i).to = holder[i]
      /\ [Unit("table", i) EXCEPT !.zero = (userId[0] = 0)].to = holder[i]
  BY DEF Unit
<1>2. Len(Ack(i)) = 1 /\ Ack(i)[1] = Unit("ack", i)
  BY DEF Ack
<1>3. /\ Len(Table(i)) = 2 /\ Table(i)[2] = Unit("table", i)
      /\ Table(i)[1] = [Unit("table", i) EXCEPT !.zero = (userId[0] = 0)]
  BY DEF Table
<1>4. \A m : Len(Msg(m, i)) = 2 /\ Msg(m, i)[1] = Unit(m, i) /\ Msg(m, i)[2] = Unit(m, i)
  BY DEF Msg
<1>5. \A n \in 1 .. 1 : n = 1
  OBVIOUS
<1>6. \A n \in 1 .. 2 : n = 1 \/ n = 2
  OBVIOUS
<1>7. AllTo(Ack(i), holder[i])
  BY <1>1, <1>2, <1>5 DEF AllTo
<1>8. AllTo(Table(i), holder[i])
  <2>1. Table(i)[1].to = holder[i]
    BY <1>1, <1>3
  <2>2. Table(i)[2].to = holder[i]
    BY <1>1, <1>3
  <2>3. Len(Table(i)) = 2
    BY <1>3
  <2>4. ASSUME NEW t, Len(t) = 2, t[1].to = holder[i], t[2].to = holder[i]
        PROVE  AllTo(t, holder[i])
    BY <2>4, <1>6 DEF AllTo
  <2> QED BY <2>1, <2>2, <2>3, <2>4
<1>9. \A m : AllTo(Msg(m, i), holder[i])
  BY <1>1, <1>4, <1>6 DEF AllTo
<1> QED BY <1>7, <1>8, <1>9

(* A step that leaves main's pipe ends alone and only takes from pipes.    *)
LEMMA PipeFrame ==
  ASSUME TypeOK, PipeInv, UNCHANGED <<sfd, cfd, lost, holder>>,
         MainUp' => MainUp, Opening(cur)' \/ Opening(cur) => UNCHANGED <<mpc, cur>>,
         \A i \in Slots : \/ sq'[i] \in {sq[i], <<>>}
                          \/ sq[i] # <<>> /\ sq'[i] = Tail(sq[i])
  PROVE  PipeInv'
<1> SUFFICES ASSUME MainUp', NEW i \in Slots
             PROVE  /\ LeftOpen(i)' \/ AllTo(sq'[i], holder[i])
                    /\ ~sfd[i] /\ ~lost[i] => sq'[i] = <<>>
  BY DEF PipeInv
<1>1. LeftOpen(i) => LeftOpen(i)'
  BY DEF LeftOpen, Opening
<1>2. AllTo(<<>>, holder[i])
  BY DEF AllTo
<1>3. sq[i] \in Seq(UnitSet)
  BY DEF TypeOK
<1>4. AllTo(sq[i], holder[i]) => AllTo(sq'[i], holder[i])
  BY <1>2, <1>3, AllToTail
<1> QED BY <1>1, <1>4 DEF PipeInv

(* Main writes to a slot whose child reads, and which is in use.           *)
LEMMA PipeWrite ==
  ASSUME TypeOK, TableInv, SeatInv, PipeInv, NEW i \in Slots, NEW msg \in Seq(UnitSet),
         NEW next, Write(i, msg, next), AllTo(msg, holder[i]),
         mpc \in {"scan", "arg", "deliver"}, next \notin {"openS", "openC"},
         UNCHANGED <<sfd, cfd, lost, holder>>
  PROVE  PipeInv'
<1>1. CASE mpc' = "dead"
  BY <1>1 DEF PipeInv, MainUp
<1>2. CASE Readers(i) # {} /\ mpc' = next /\ sq' = [sq EXCEPT ![i] = @ \o msg]
  <2> SUFFICES ASSUME NEW j \in Slots
               PROVE  /\ LeftOpen(j)' \/ AllTo(sq'[j], holder[j])
                      /\ ~sfd[j] /\ ~lost[j] => sq'[j] = <<>>
    BY DEF PipeInv
  <2>1. MainUp /\ ~Opening(j) /\ ~Opening(i)
    BY DEF MainUp, Opening
  <2>2. LeftOpen(j) => LeftOpen(j)'
    BY <2>1, <1>2 DEF LeftOpen, Opening
  <2>3. CASE j # i
    BY <1>2, <2>1, <2>2, <2>3 DEF PipeInv, TypeOK
  <2>4. CASE j = i
    <3>1. sq'[i] = sq[i] \o msg /\ sq[i] \in Seq(UnitSet)
      BY <1>2 DEF TypeOK
    <3>2. sfd[i]
      <4>1. PICK c \in Client : slot[c] = i /\ pc[c] \in Started
        BY <1>2 DEF Readers, Started
      <4> QED BY <2>1, <4>1 DEF SeatInv, ChildSeats, HolderSeats, TableInv
    <3>3. AllTo(sq[i], holder[i]) => AllTo(sq'[i], holder[i])
      BY <3>1, AllToWritten
    <3> QED BY <2>1, <2>2, <2>4, <3>2, <3>3 DEF PipeInv
  <2> QED BY <2>3, <2>4
<1> QED BY <1>1, <1>2 DEF Write

LEMMA PipeStep ==
  ASSUME PromptExit, TypeOK, TableInv, SeatInv, PipeInv, [Next]_vars
  PROVE  PipeInv'
<1>1. CASE Select
  BY <1>1, PipeFrame DEF Select, tableVars, Opening, MainUp
<1>2. CASE OpenServerFifo
  <2>1. /\ mpc = "openS" /\ mpc' = "openC" /\ UNCHANGED <<cur, cfd, holder, sq>>
        /\ sfd' = [sfd EXCEPT ![cur] = TRUE]
        /\ lost' = [lost EXCEPT ![cur] = @ \/ sfd[cur]]
    BY <1>2 DEF OpenServerFifo, mainVars
  <2> SUFFICES ASSUME NEW i \in Slots
               PROVE  /\ LeftOpen(i)' \/ AllTo(sq[i], holder[i])
                      /\ ~sfd'[i] /\ ~lost'[i] => sq[i] = <<>>
    BY <2>1 DEF PipeInv
  <2>2. CASE i = cur
    <3>1. sfd'[i] /\ (lost[i] \/ sfd[i] => lost'[i])
      BY <2>1, <2>2 DEF TypeOK
    <3> QED BY <2>1, <2>2, <3>1 DEF PipeInv, MainUp, LeftOpen
  <2>3. CASE i # cur
    <3>1. sfd'[i] = sfd[i] /\ lost'[i] = lost[i]
      BY <2>1, <2>3 DEF TypeOK
    <3> QED BY <2>1, <2>3, <3>1 DEF PipeInv, MainUp, LeftOpen, Opening
  <2> QED BY <2>2, <2>3
<1>3. CASE OpenClientFifo
  <2>1. /\ mpc = "openC" /\ mpc' \in {"select", "scan"}
        /\ UNCHANGED <<cur, sfd, lost, holder, sq>>
        /\ cfd' = [cfd EXCEPT ![cur] = TRUE]
    BY <1>3 DEF OpenClientFifo, Resume
  <2> SUFFICES ASSUME NEW i \in Slots
               PROVE  /\ LeftOpen(i)' \/ AllTo(sq[i], holder[i])
                      /\ ~sfd[i] /\ ~lost[i] => sq[i] = <<>>
    BY <2>1 DEF PipeInv
  <2>2. LeftOpen(i) => LeftOpen(i)'
    <3>1. i # cur => cfd'[i] = cfd[i]
      BY <2>1 DEF TypeOK
    <3> QED BY <2>1, <3>1 DEF LeftOpen, Opening
  <2> QED BY <2>1, <2>2 DEF PipeInv, MainUp
<1>4. CASE OpenInterrupted \/ LoginWhenFull \/ LoginHangup
  BY <1>4 DEF OpenInterrupted, LoginWhenFull, LoginHangup, PipeInv, MainUp
<1>5. ASSUME NEW i \in Slots, ServeEof(i) PROVE PipeInv'
  <2>1. /\ mpc = "scan" /\ mpc' \in {"select", "scan"} /\ UNCHANGED <<sfd, lost, holder, sq>>
        /\ cfd' = [cfd EXCEPT ![i] = FALSE]
    BY <1>5 DEF ServeEof, AtSlot, Resume
  <2>2. \A j \in Slots : cfd'[j] => cfd[j]
    BY <2>1 DEF TypeOK
  <2> QED BY <2>1, <2>2 DEF PipeInv, MainUp, LeftOpen, Opening
<1>6. ASSUME NEW i \in Slots, ServeQuit(i) PROVE PipeInv'
  <2>1. /\ mpc = "scan" /\ mpc' \in {"select", "scan"} /\ UNCHANGED <<lost, holder>>
        /\ cq[i] = <<Cmd("quit")>>
        /\ cfd' = [cfd EXCEPT ![i] = FALSE]
        /\ sfd' = [sfd EXCEPT ![i] = FALSE]
        /\ sq' = IF Readers(i) = {} /\ ~lost[i] THEN [sq EXCEPT ![i] = <<>>] ELSE sq
    BY <1>6 DEF ServeQuit, AtSlot, CloseServerFifo, Resume
  <2>2. Readers(i) = {}
    BY <2>1 DEF SeatInv, ChildSeats, HolderSeats, MainUp, Readers, Started, Attached, Serving
  <2> SUFFICES ASSUME NEW j \in Slots
               PROVE  /\ LeftOpen(j)' \/ AllTo(sq'[j], holder[j])
                      /\ ~sfd'[j] /\ ~lost[j] => sq'[j] = <<>>
    BY <2>1 DEF PipeInv
  <2>3. CASE j = i
    <3>1. lost[i] \/ sq'[i] = <<>>
      BY <2>1, <2>2 DEF TypeOK
    <3> QED BY <2>1, <2>3, <3>1 DEF LeftOpen, AllTo
  <2>4. CASE j # i
    <3>1. sq'[j] = sq[j] /\ sfd'[j] = sfd[j] /\ cfd'[j] = cfd[j]
      BY <2>1, <2>4 DEF TypeOK
    <3> QED BY <2>1, <3>1 DEF PipeInv, MainUp, LeftOpen, Opening
  <2> QED BY <2>3, <2>4
<1>7. ASSUME NEW i \in Slots, ServeWho(i) PROVE PipeInv'
  BY <1>7, MessagesTyped, MessagesTo, PipeWrite DEF ServeWho, AtSlot, Resume, tableVars
<1>8. ASSUME NEW i \in Slots, NEW k \in CmdNames, ServeCommand(i, k) PROVE PipeInv'
  BY <1>8, MessagesTyped, MessagesTo, PipeWrite DEF ServeCommand, AtSlot, tableVars
<1>9. ASSUME NEW i \in Slots, ServeUnknown(i) PROVE PipeInv'
  BY <1>9, PipeFrame DEF ServeUnknown, AtSlot, Resume, tableVars, Opening, MainUp
<1>10. ASSUME NEW i \in Slots, Deliver(i) PROVE PipeInv'
  <2>1. mcmd \in MsgKind
    BY <1>10 DEF Deliver, TypeOK, MsgKind
  <2> QED BY <1>10, <2>1, MessagesTyped, MessagesTo, PipeWrite
          DEF Deliver, AfterArgs, Resume, tableVars
<1>11. CASE ReadArgument
  <2>1. cur \in Slots
    BY DEF TypeOK
  <2> QED BY <1>11, <2>1, MessagesTyped, MessagesTo, PipeWrite DEF ReadArgument, tableVars
<1>12. CASE FinishTell
  <2>1. cur \in Slots /\ "accept" \in MsgKind
    BY DEF TypeOK, MsgKind
  <2> QED BY <1>12, <2>1, MessagesTyped, MessagesTo, PipeWrite
          DEF FinishTell, AfterArgs, Resume, tableVars
<1>13. CASE FinishName
  <2>1. cur \in Slots /\ "exists" \in MsgKind /\ "renamed" \in MsgKind
    BY DEF TypeOK, MsgKind
  <2> QED BY <1>13, <2>1, MessagesTyped, MessagesTo, PipeWrite DEF FinishName, Resume
<1>14. CASE FinishYell \/ FinishGyell
  BY <1>14, PipeFrame DEF FinishYell, FinishGyell, AfterArgs, Resume, tableVars, Opening, MainUp
<1>15. ASSUME NEW n \in Names, Login(n) PROVE PipeInv'
  <2> DEFINE m == getMinC_ID
  <2>1. /\ mpc = "login" /\ mpc' = "openS" /\ cur' = m /\ UNCHANGED <<sfd, cfd, lost, sq>>
        /\ holder' = [holder EXCEPT ![m] = cand] /\ Free # {}
    BY <1>15 DEF Login
  <2>2. m \in Slots /\ userId[m] = -1
    BY <2>1, MinIsFree DEF Free
  <2> HIDE DEF m
  <2>3. ~cfd[m]
    BY <2>1, <2>2 DEF TableInv, MainUp, Slots
  <2> SUFFICES ASSUME NEW i \in Slots
               PROVE  /\ LeftOpen(i)' \/ AllTo(sq[i], holder'[i])
                      /\ ~sfd[i] /\ ~lost[i] => sq[i] = <<>>
    BY <2>1 DEF PipeInv
  <2>4. CASE i = m
    BY <2>1, <2>3, <2>4 DEF PipeInv, MainUp, LeftOpen, AllTo
  <2>5. CASE i # m
    <3>1. holder'[i] = holder[i]
      BY <2>1, <2>5 DEF TypeOK
    <3> QED BY <2>1, <3>1 DEF PipeInv, MainUp, LeftOpen, Opening
  <2> QED BY <2>4, <2>5
<1>16. ASSUME NEW c \in Client, ChildStep(c) \/ ClientStep(c) PROVE PipeInv'
  <2>1. UNCHANGED <<mpc, cur, sfd, cfd, lost, holder>>
    BY <1>16 DEF ChildStep, ClientStep, ChildOpenServerFifo, ChildOpenClientFifo,
       SendArgument, DieSending, ReadReply, ReadMessages, Leave, Connect, Request, Shell,
       ShellDone, Quit, Abrupt, mainVars, tableVars
  <2>2. \/ sq' = sq
        \/ sq' = TakeUnit(slot[c])
        \/ sq' = [sq EXCEPT ![slot[c]] = <<>>]
    BY <1>16 DEF ChildStep, ClientStep, ChildOpenServerFifo, ChildOpenClientFifo,
       SendArgument, DieSending, ReadReply, ReadMessages, Leave, Connect, Request, Shell,
       ShellDone, Quit, Abrupt, Exit
  <2>3. \A i \in Slots : \/ sq'[i] \in {sq[i], <<>>}
                         \/ sq[i] # <<>> /\ sq'[i] = Tail(sq[i])
    BY <2>2 DEF TypeOK, TakeUnit
  <2> QED BY <2>1, <2>3, PipeFrame DEF MainUp
<1>17. CASE UNCHANGED vars
  BY <1>17, PipeFrame DEF vars, mainVars, tableVars, MainUp
<1> QED BY <1>1, <1>2, <1>3, <1>4, <1>5, <1>6, <1>7, <1>8, <1>9, <1>10, <1>11, <1>12, <1>13,
     <1>14, <1>15, <1>16, <1>17 DEF Next, MainStep, LoginStep

(* The next client of a slot is not sent what main wrote for the last one: *)
(* quit closes s_fifofd when nobody has the pipe open any more, so that it *)
(* comes up empty, and only the EOF path (main.c:144) leaves an end open.  *)
THEOREM OwnMessages ==
  ASSUME PromptExit
  PROVE  Spec => []OwnMessagesOnly
<1>1. ASSUME Init PROVE PipeInv
  <2>1. \A i \in Slots : sq[i] = <<>>
    BY <1>1 DEF Init
  <2>2. \A c : AllTo(<<>>, c)
    BY DEF AllTo
  <2> QED BY <2>1, <2>2 DEF PipeInv
<1>2. PipeInv => OwnMessagesOnly
  BY DEF PipeInv, OwnMessagesOnly, AllTo
<1> QED BY TypeCorrect, TableCorrect, SeatsCorrect, PipeStep, <1>1, <1>2, PTL DEF Spec
-----------------------------------------------------------------------------
(* Exchanges.  What InStep says of a client that waits is inductive        *)
(* together with what it leaves out: that the client knows which command   *)
(* it is in and has no more arguments than it has, and that a client which *)
(* waits for nothing has left nothing in its pipe, but for the last        *)
(* argument of a command that nobody answers, on which main is at work.    *)

Apart(c) == mpc = "arg" => cur # slot[c]

ExchangeOf(c) ==
  /\ pc[c] = "ack" => /\ AwaitsAck(c)
                      /\ req[c] \in CmdNames \ {"who"}
                      /\ Len(pend[c]) <= Arity[req[c]]
  /\ pc[c] = "reply" => /\ AwaitsReply(c)
                        /\ req[c] \in Replied
                        /\ req[c] = "who" => Apart(c)
  /\ pc[c] \in {"loop", "busy", "drain"} =>
       IF Apart(c) THEN cq[slot[c]] = <<>> ELSE Len(cq[slot[c]]) = 1 /\ LastArg
  /\ pc[c] # "leaving"

ExchangeInv == MainUp => \A c \in Client \ Astray : ExchangeOf(c)

(* Nothing has happened to c and its slot.                                 *)
Untouched(c) ==
  /\ UNCHANGED <<pc[c], slot[c], req[c], pend[c]>>
  /\ UNCHANGED <<sq[slot[c]], cq[slot[c]], holder[slot[c]]>>
  /\ Apart(c)' <=> Apart(c)
  /\ ~Apart(c) => UNCHANGED <<mcmd, got>>

LEMMA ExchangeFrame ==
  ASSUME NEW c \in Client, ExchangeOf(c), Untouched(c)
  PROVE  ExchangeOf(c)'
<1> USE DEF Untouched, Apart
<1>1. pc[c] = "ack" /\ AwaitsAck(c) => AwaitsAck(c)'
  BY DEF AwaitsAck, AtMain, NumSent, Ack, Unit
<1>2. pc[c] = "reply" /\ AwaitsReply(c) => AwaitsReply(c)'
  BY DEF AwaitsReply, AtMain, LastArg
<1> QED BY <1>1, <1>2 DEF ExchangeOf, LastArg

(* A step that touches no slot but i.                                      *)
LEMMA ExchangeStep ==
  ASSUME ExchangeInv, MainUp' => MainUp, Astray \subseteq Astray', NEW i,
         MainUp' => \A c \in Client \ Astray' :
           pc'[c] \in Serving => IF slot'[c] = i THEN ExchangeOf(c)' ELSE Untouched(c)
  PROVE  ExchangeInv'
<1> SUFFICES ASSUME MainUp', NEW c \in Client, c \notin Astray'
             PROVE  ExchangeOf(c)'
  BY DEF ExchangeInv
<1>1. CASE pc'[c] \in Serving /\ slot'[c] # i
  BY <1>1, ExchangeFrame DEF ExchangeInv
<1>2. CASE pc'[c] \notin Serving
  BY <1>2 DEF ExchangeOf, Serving
<1> QED BY <1>1, <1>2

(* A step of main at slot i, in which only one child can be at work.       *)
LEMMA ExchangeMain ==
  ASSUME TypeOK, ChildSeats, ExchangeInv, MainUp, Astray \subseteq Astray', NEW i \in Slots,
         UNCHANGED <<pc, slot, req, pend, holder>>,
         \A j \in Slots : j # i => UNCHANGED <<sq[j], cq[j]>>,
         mpc = "arg" => cur = i, mpc' = "arg" => cur' = i,
         MainUp' => \A c \in Client \ Astray' :
           /\ pc[c] \in Serving
           /\ slot[c] = i
           /\ ExchangeOf(c)
           /\ c \in Readers(i)
           /\ c \in Writers(i)
           /\ holder[i] = c
           => ExchangeOf(c)'
  PROVE  ExchangeInv'
<1>1. ASSUME MainUp', NEW c \in Client, c \notin Astray', pc[c] \in Serving
      PROVE  IF slot[c] = i THEN ExchangeOf(c)' ELSE Untouched(c)
  <2>1. slot[c] \in Slots /\ holder[slot[c]] = c
    BY <1>1 DEF TypeOK, ChildSeats, Started, Attached
  <2>2. CASE slot[c] = i
    <3>1. c \in Readers(i) /\ c \in Writers(i) /\ ExchangeOf(c)
      BY <1>1, <2>2 DEF Readers, Writers, Attached, ExchangeInv
    <3> QED BY <1>1, <2>1, <2>2, <3>1
  <2>3. CASE slot[c] # i
    BY <2>1, <2>3 DEF Untouched, Apart
  <2> QED BY <2>2, <2>3
<1> QED BY <1>1, ExchangeStep

(* A step of the child of c.                                               *)
LEMMA ExchangeChild ==
  ASSUME TypeOK, ChildSeats, ExchangeInv, NEW c \in Client, NEW p,
         UNCHANGED <<mpc, mainVars, slot, holder>>, Astray \subseteq Astray',
         pc[c] \in Started,
         pc' = [pc EXCEPT ![c] = p],
         \A d \in Client : d # c => UNCHANGED <<req[d], pend[d]>>,
         \A j \in Slots : j # slot[c] => UNCHANGED <<sq[j], cq[j]>>,
         MainUp /\ c \notin Astray' /\ p \in Serving => ExchangeOf(c)'
  PROVE  ExchangeInv'
<1>1. ASSUME MainUp', NEW d \in Client, d \notin Astray', pc'[d] \in Serving
      PROVE  IF slot'[d] = slot[c] THEN ExchangeOf(d)' ELSE Untouched(d)
  <2>1. MainUp /\ pc'[c] = p
    BY <1>1 DEF MainUp, TypeOK
  <2>2. CASE d = c
    BY <1>1, <2>1, <2>2
  <2>3. CASE d # c
    <3>1. pc'[d] = pc[d]
      BY <2>3 DEF TypeOK
    <3>2. slot[d] \in Slots /\ slot[d] # slot[c]
      BY <1>1, <2>1, <2>3, <3>1 DEF TypeOK, ChildSeats, Started, Attached
    <3> QED BY <2>3, <3>1, <3>2 DEF Untouched, Apart, mainVars
  <2> QED BY <2>2, <2>3
<1>2. MainUp' => MainUp
  BY DEF MainUp
<1> QED BY <1>1, <1>2, ExchangeStep

(* What main writes, and what is left of it and of a word once it is read. *)
LEMMA ArgsLength ==
  ASSUME NEW k \in CmdNames, NEW args \in Args(k)
  PROVE  Len(args) = Arity[k]
<1>1. CASE k = "tell"
  BY <1>1 DEF Args, Arity, CmdNames
<1>2. CASE k = "name"
  BY <1>2 DEF Args, Arity, CmdNames
<1> QED BY <1>1, <1>2 DEF Args, Arity, CmdNames

LEMMA Units ==
  ASSUME TypeOK, NEW i \in Slots
  PROVE  /\ Ack(i) # <<>> /\ ~Ack(i)[1].zero /\ Tail(Ack(i)) = <<>> /\ <<>> \o Ack(i) = Ack(i)
         /\ <<>> \o Table(i) = Table(i) /\ Len(Table(i)) = 2
         /\ \A n \in 1 .. 2 : Table(i)[n].m = "table"
         /\ \A m \in MsgKind : /\ <<>> \o Msg(m, i) = Msg(m, i) /\ Len(Msg(m, i)) = 2
                               /\ \A n \in 1 .. 2 : Msg(m, i)[n].m = m
<1>1. /\ Ack(i) \in Seq(UnitSet) /\ Table(i) \in Seq(UnitSet)
      /\ \A m \in MsgKind : Msg(m, i) \in Seq(UnitSet)
  BY MessagesTyped
<1>2. \A s \in Seq(UnitSet) : <<>> \o s = s
  OBVIOUS
<1>3. Ack(i) # <<>> /\ Tail(Ack(i)) = <<>> /\ ~Ack(i)[1].zero
  BY DEF Ack, Unit
<1>4. Len(Table(i)) = 2 /\ Table(i)[1].m = "table" /\ Table(i)[2].m = "table"
  BY DEF Table, Unit
<1>5. \A m : Len(Msg(m, i)) = 2 /\ Msg(m, i)[1].m = m /\ Msg(m, i)[2].m = m
  BY DEF Msg, Unit
<1>6. \A n \in 1 .. 2 : n = 1 \/ n = 2
  OBVIOUS
<1> HIDE DEF Ack, Table, Msg
<1> QED BY <1>1, <1>2, <1>3, <1>4, <1>5, <1>6

(* A write to the slot of a child that reads it succeeds.                  *)
LEMMA Written ==
  ASSUME TypeOK, NEW i \in Slots, NEW msg, NEW next, Write(i, msg, next),
         MainUp', Readers(i) # {}
  PROVE  mpc' = next /\ sq' = [sq EXCEPT ![i] = @ \o msg] /\ sq'[i] = sq[i] \o msg
BY DEF Write, MainUp, TypeOK

LEMMA WriteElsewhere ==
  ASSUME TypeOK, NEW i \in Slots, NEW msg, NEW next, Write(i, msg, next)
  PROVE  /\ \A j \in Slots : j # i => UNCHANGED sq[j]
         /\ mpc' \in {next, "dead"}
BY DEF Write, TypeOK

(* A child between its commands has left nothing for the scan to find.     *)
LEMMA ScanFinds ==
  ASSUME TypeOK, NEW c \in Client, ExchangeOf(c), pc[c] \in Serving, mpc = "scan",
         cq[slot[c]] # <<>>
  PROVE  /\ sq[slot[c]] = <<>> /\ cq[slot[c]] = <<Cmd(req[c])>>
         /\ \/ pc[c] = "reply" /\ req[c] = "who"
            \/ pc[c] = "ack" /\ req[c] \in CmdNames \ {"who"} /\ NumSent(c) = 0
BY DEF ExchangeOf, Serving, Apart, AwaitsAck, AwaitsReply, AtMain

LEMMA ExchangeWho ==
  ASSUME TypeOK, ChildSeats, ExchangeInv, NEW i \in Slots, ServeWho(i)
  PROVE  ExchangeInv'
<1>1. /\ mpc = "scan" /\ cq[i] = <<Cmd("who")>> /\ cq' = [cq EXCEPT ![i] = <<>>]
      /\ Write(i, Table(i), Resume(ready'))
      /\ UNCHANGED <<pc, slot, req, pend, holder, mixed, bare>>
  BY DEF ServeWho, AtSlot, tableVars, childVars
<1>2. /\ \A j \in Slots : j # i => UNCHANGED <<sq[j], cq[j]>>
      /\ mpc' # "arg" /\ MainUp
  <2>1. Resume(ready') \in {"select", "scan"}
    BY DEF Resume
  <2>2. (\A j \in Slots : j # i => UNCHANGED sq[j]) /\ mpc' \in {Resume(ready'), "dead"}
    BY <1>1, WriteElsewhere
  <2>3. \A j \in Slots : j # i => UNCHANGED cq[j]
    BY <1>1 DEF TypeOK
  <2> QED BY <1>1, <2>1, <2>2, <2>3 DEF MainUp
<1>3. ASSUME MainUp', NEW c \in Client, pc[c] \in Serving, slot[c] = i, ExchangeOf(c),
             c \in Readers(i)
      PROVE  ExchangeOf(c)'
  <2>1. sq[i] = <<>> /\ pc[c] = "reply" /\ req[c] = "who"
    BY <1>1, <1>3, ScanFinds DEF Cmd
  <2>2. sq'[i] = Table(i) /\ cq'[i] = <<>>
    <3>1. Readers(i) # {}
      BY <1>3
    <3>2. sq'[i] = sq[i] \o Table(i)
      BY <1>1, <1>3, <3>1, Written
    <3>3. cq'[i] = <<>>
      BY <1>1 DEF TypeOK
    <3> QED BY <2>1, <3>2, <3>3, Units
  <2>3. Len(sq'[i]) = 2 /\ \A n \in 1 .. 2 : sq'[i][n].m = "table"
    BY <2>2, Units
  <2>4. AwaitsReply(c)'
    BY <1>1, <1>2, <1>3, <2>1, <2>2, <2>3 DEF AwaitsReply, Answers
  <2> QED BY <1>1, <1>2, <2>1, <2>4 DEF ExchangeOf, Replied, Apart
<1> QED BY <1>1, <1>2, <1>3, ExchangeMain DEF Astray

LEMMA ExchangeCommand ==
  ASSUME TypeOK, ChildSeats, ExchangeInv, NEW i \in Slots, NEW k \in CmdNames, ServeCommand(i, k)
  PROVE  ExchangeInv'
<1>1. /\ mpc = "scan" /\ k # "who" /\ cq[i] = <<Cmd(k)>> /\ cq' = [cq EXCEPT ![i] = <<>>]
      /\ Write(i, Ack(i), "arg") /\ cur' = i /\ mcmd' = k /\ got' = <<>>
      /\ UNCHANGED <<pc, slot, req, pend, holder, mixed, bare>>
  BY DEF ServeCommand, AtSlot, tableVars, childVars
<1>2. /\ \A j \in Slots : j # i => UNCHANGED <<sq[j], cq[j]>>
      /\ MainUp
  <2>1. \A j \in Slots : j # i => UNCHANGED sq[j]
    BY <1>1, WriteElsewhere
  <2>2. \A j \in Slots : j # i => UNCHANGED cq[j]
    BY <1>1 DEF TypeOK
  <2> QED BY <1>1, <2>1, <2>2 DEF MainUp
<1>3. ASSUME MainUp', NEW c \in Client, pc[c] \in Serving, slot[c] = i, ExchangeOf(c),
             c \in Readers(i)
      PROVE  ExchangeOf(c)'
  <2>1. sq[i] = <<>> /\ pc[c] = "ack" /\ req[c] = k /\ NumSent(c) = 0
    <3>1. <<Cmd(k)>> # <<>> /\ (<<Cmd(k)>> = <<Cmd(req[c])>> => req[c] = k)
      BY DEF Cmd
    <3> QED BY <1>1, <1>3, <3>1, ScanFinds
  <2>2. mpc' = "arg" /\ sq'[i] = Ack(i) /\ cq'[i] = <<>>
    <3>1. Readers(i) # {}
      BY <1>3
    <3>2. mpc' = "arg" /\ sq'[i] = sq[i] \o Ack(i)
      BY <1>1, <1>3, <3>1, Written
    <3>3. cq'[i] = <<>>
      BY <1>1 DEF TypeOK
    <3> QED BY <2>1, <3>2, <3>3, Units
  <2>3. Ack(i)' = Ack(i) /\ NumSent(c)' = 0 /\ Len(got') = 0 /\ Ack(i) # <<>>
    BY <1>1, <2>1, Units DEF Ack, Unit, NumSent
  <2>4. AwaitsAck(c)'
    BY <1>1, <1>3, <2>1, <2>2, <2>3 DEF AwaitsAck, AtMain
  <2> QED BY <1>1, <1>3, <2>1, <2>4 DEF ExchangeOf
<1> QED BY <1>1, <1>2, <1>3, ExchangeMain DEF Astray

LEMMA ExchangeQuit ==
  ASSUME TypeOK, ChildSeats, ExchangeInv, NEW i \in Slots, ServeQuit(i) \/ ServeUnknown(i)
  PROVE  ExchangeInv'
<1>1. /\ mpc = "scan" /\ cq[i] # <<>> /\ \A k \in CmdNames : cq[i] # <<Cmd(k)>>
      /\ mpc' \in {"select", "scan"} /\ cq' = [cq EXCEPT ![i] = <<>>]
      /\ sq' = sq \/ sq' = [sq EXCEPT ![i] = <<>>]
      /\ UNCHANGED <<pc, slot, req, pend, holder, mixed, bare>>
  <2>1. \A k \in CmdNames : <<Cmd("quit")>> # <<Cmd(k)>> /\ <<Cmd("quit")>> # <<>>
    BY DEF Cmd, CmdNames
  <2>2. CASE ServeQuit(i)
    BY <2>1, <2>2 DEF ServeQuit, AtSlot, Resume, CloseServerFifo, childVars
  <2>3. CASE ServeUnknown(i)
    BY <2>3 DEF ServeUnknown, AtSlot, Resume, tableVars, childVars
  <2> QED BY <2>2, <2>3
<1>2. /\ \A j \in Slots : j # i => UNCHANGED <<sq[j], cq[j]>>
      /\ MainUp
  BY <1>1 DEF MainUp, TypeOK
<1>3. ASSUME NEW c \in Client, pc[c] \in Serving, slot[c] = i, ExchangeOf(c)
      PROVE  FALSE
  BY <1>1, <1>3, ScanFinds DEF CmdNames
<1> QED BY <1>1, <1>2, <1>3, ExchangeMain DEF Astray

-----------------------------------------------------------------------------
(* Main waits for an argument: of the child whose turn it is in the        *)
(* exchange, or of one that has sent it and gone on.                       *)
LEMMA ArgumentOf ==
  ASSUME TypeOK, NEW c \in Client, ExchangeOf(c), pc[c] \in Serving, mpc = "arg", cur = slot[c],
         cq[cur] # <<>>
  PROVE  /\ Len(cq[cur]) = 1
         /\ \/ pc[c] = "ack" /\ sq[cur] = <<>> /\ mcmd = req[c] /\ ~LastArg
               /\ Len(got) = NumSent(c) - 1 /\ NumSent(c) # 0
            \/ pc[c] = "reply" /\ sq[cur] = <<>> /\ mcmd = req[c] /\ LastArg /\ req[c] # "who"
            \/ pc[c] \in {"loop", "busy", "drain"} /\ LastArg
<1>1. CASE pc[c] = "ack"
  <2>1. AwaitsAck(c) /\ pend[c] \in Seq(ArgWord) /\ pend[c] # <<>> /\ req[c] \in CmdNames
    BY <1>1 DEF ExchangeOf, TypeOK
  <2>2. Len(pend[c]) \in Nat \ {0} /\ Arity[req[c]] \in Nat /\ Len(got) \in Nat
    BY <2>1 DEF Arity, TypeOK
  <2>3. /\ sq[cur] = <<>> /\ NumSent(c) # 0 /\ Len(cq[cur]) = 1 /\ mcmd = req[c]
        /\ Len(got) = NumSent(c) - 1
    BY <2>1 DEF AwaitsAck, AtMain
  <2>4. ~LastArg
    BY <2>2, <2>3 DEF LastArg, NumSent
  <2> QED BY <1>1, <2>3, <2>4
<1>2. CASE pc[c] = "reply"
  BY <1>2 DEF ExchangeOf, AwaitsReply, AtMain, Apart
<1>3. CASE pc[c] \in {"loop", "busy", "drain"}
  BY <1>3 DEF ExchangeOf, Apart
<1>4. pc[c] # "leaving"
  BY DEF ExchangeOf
<1> QED BY <1>1, <1>2, <1>3, <1>4 DEF Serving

(* The read returns what the child sent, or the exchange is lost.          *)
LEMMA ReadOf ==
  ASSUME TypeOK, NEW c \in Client \ Astray', holder[cur] = c, c \in Writers(cur),
         NEW str, ReadString(str)
  PROVE  cq[cur] # <<>> /\ cq' = [cq EXCEPT ![cur] = <<>>] /\ cq'[cur] = <<>>
BY DEF ReadString, TypeOK, Astray

LEMMA ReadElsewhere ==
  ASSUME TypeOK, NEW str, ReadString(str), UNCHANGED bare
  PROVE  /\ \A j \in Slots : j # cur => UNCHANGED cq[j]
         /\ Astray \subseteq Astray'
BY DEF ReadString, TypeOK, Astray

LEMMA ExchangeArgument ==
  ASSUME TypeOK, ChildSeats, ExchangeInv, ReadArgument
  PROVE  ExchangeInv'
<1> DEFINE i == cur
<1>1. /\ mpc = "arg" /\ ~LastArg /\ Write(i, Ack(i), "arg") /\ i \in Slots
      /\ UNCHANGED <<pc, slot, req, pend, holder, cur, mcmd, bare>>
  BY DEF ReadArgument, tableVars, childVars, TypeOK
<1>2. PICK str \in {<<>>, cq[cur]} : ReadString(str) /\ got' = Append(got, str)
  BY DEF ReadArgument
<1>3. /\ \A j \in Slots : j # i => UNCHANGED <<sq[j], cq[j]>>
      /\ MainUp /\ Astray \subseteq Astray'
  BY <1>1, <1>2, ReadElsewhere, WriteElsewhere DEF MainUp, TypeOK
<1>4. Len(got') = Len(got) + 1
  <2>1. str \in Text /\ got \in Seq(Text)
    BY <1>2, ReadStringTyped DEF TypeOK
  <2> QED BY <1>2, <2>1
<1>5. ASSUME MainUp', NEW c \in Client \ Astray', pc[c] \in Serving, slot[c] = i, ExchangeOf(c),
             c \in Readers(i), c \in Writers(i), holder[i] = c
      PROVE  ExchangeOf(c)'
  <2>1. cq[i] # <<>> /\ cq'[i] = <<>>
    BY <1>2, <1>5, ReadOf
  <2>2. /\ pc[c] = "ack" /\ sq[i] = <<>> /\ mcmd = req[c]
        /\ Len(got) = NumSent(c) - 1
    BY <1>1, <1>5, <2>1, ArgumentOf
  <2>3. mpc' = "arg" /\ sq'[i] = Ack(i)
    <3>1. Readers(i) # {}
      BY <1>5
    <3>2. mpc' = "arg" /\ sq'[i] = sq[i] \o Ack(i)
      BY ZenonT(30), <1>1, <1>5, <3>1, Written
    <3> QED BY <1>1, <2>2, <3>2, Units
  <2>4. Ack(i)' = Ack(i) /\ NumSent(c)' = NumSent(c) /\ Ack(i) # <<>>
    BY <1>1, Units DEF Ack, Unit, NumSent
  <2>5. NumSent(c) \in Int
    BY <1>5, <2>2 DEF NumSent, Arity, ExchangeOf, TypeOK
  <2>6. AwaitsAck(c)'
    BY <1>1, <1>4, <1>5, <2>1, <2>2, <2>3, <2>4, <2>5 DEF AwaitsAck, AtMain
  <2> QED BY <1>1, <1>5, <2>2, <2>6 DEF ExchangeOf
<1> QED BY <1>1, <1>3, <1>5, ExchangeMain

(* Main has the last argument of a command and answers it.                 *)
LEMMA ExchangeReplied ==
  ASSUME TypeOK, ChildSeats, ExchangeInv, mpc = "arg", LastArg,
         NEW str, ReadString(str), NEW m \in Answers(mcmd), m \in MsgKind,
         NEW next, next # "arg", Write(cur, Msg(m, cur), next),
         UNCHANGED <<pc, slot, req, pend, holder, bare>>
  PROVE  ExchangeInv'
<1> DEFINE i == cur
<1>1. i \in Slots /\ MainUp
  BY DEF TypeOK, MainUp
<1>2. /\ \A j \in Slots : j # i => UNCHANGED <<sq[j], cq[j]>>
      /\ mpc' # "arg" /\ Astray \subseteq Astray'
  BY <1>1, ReadElsewhere, WriteElsewhere
<1>3. ASSUME MainUp', NEW c \in Client \ Astray', pc[c] \in Serving, slot[c] = i, ExchangeOf(c),
             c \in Readers(i), c \in Writers(i), holder[i] = c
      PROVE  ExchangeOf(c)'
  <2>1. cq[i] # <<>> /\ cq'[i] = <<>>
    BY <1>3, ReadOf
  <2>2. \/ pc[c] = "reply" /\ sq[i] = <<>> /\ mcmd = req[c] /\ req[c] # "who"
        \/ pc[c] \in {"loop", "busy", "drain"}
    BY <1>3, <2>1, ArgumentOf
  <2>3. CASE pc[c] = "reply"
    <3>1. sq'[i] = Msg(m, i)
      <4>1. Readers(i) # {}
        BY <1>3
      <4>2. sq'[i] = sq[i] \o Msg(m, i)
        BY <1>1, <1>3, <4>1, Written
      <4>3. <<>> \o Msg(m, i) = Msg(m, i)
        BY <1>1, Units
      <4> QED BY <2>2, <2>3, <4>2, <4>3
    <3>2. Len(sq'[i]) = 2 /\ \A n \in 1 .. 2 : sq'[i][n].m = m
      BY <1>1, <3>1, Units
    <3>3. AwaitsReply(c)'
      BY <1>2, <1>3, <2>1, <2>2, <2>3, <3>2 DEF AwaitsReply
    <3>4. req[c] \in Replied
      BY <1>3, <2>3 DEF ExchangeOf
    <3> QED BY <1>3, <2>2, <2>3, <3>3, <3>4 DEF ExchangeOf
  <2>4. CASE pc[c] \in {"loop", "busy", "drain"}
    BY <1>2, <1>3, <2>1, <2>4 DEF ExchangeOf, Apart
  <2> QED BY <2>2, <2>3, <2>4
<1> QED BY <1>1, <1>2, <1>3, ExchangeMain

LEMMA ExchangeTell ==
  ASSUME TypeOK, ChildSeats, ExchangeInv, FinishTell
  PROVE  ExchangeInv'
<1>1. /\ mpc = "arg" /\ LastArg /\ mcmd = "tell"
      /\ Write(cur, Msg("accept", cur), AfterArgs(todo'))
      /\ UNCHANGED <<pc, slot, req, pend, holder, bare>>
      /\ \E str \in {<<>>, cq[cur]} : ReadString(str)
  BY DEF FinishTell, tableVars, childVars
<1>2. AfterArgs(todo') # "arg" /\ "accept" \in Answers(mcmd) /\ "accept" \in MsgKind
  BY <1>1 DEF AfterArgs, Resume, Answers, MsgKind
<1> QED BY <1>1, <1>2, ExchangeReplied

LEMMA ExchangeName ==
  ASSUME TypeOK, ChildSeats, ExchangeInv, FinishName
  PROVE  ExchangeInv'
<1>1. /\ mpc = "arg" /\ LastArg /\ mcmd = "name"
      /\ \E m \in {"exists", "renamed"} : Write(cur, Msg(m, cur), Resume(ready))
      /\ UNCHANGED <<pc, slot, req, pend, holder, bare>>
      /\ \E str \in {<<>>, cq[cur]} : ReadString(str)
  BY DEF FinishName, childVars
<1>2. /\ Resume(ready) # "arg"
      /\ \A m \in {"exists", "renamed"} : m \in Answers(mcmd) /\ m \in MsgKind
  BY <1>1 DEF Resume, Answers, MsgKind
<1> QED BY <1>1, <1>2, ExchangeReplied

(* The commands nobody answers: whoever sent the argument has gone on.     *)
LEMMA ExchangeYell ==
  ASSUME TypeOK, ChildSeats, ExchangeInv, FinishYell \/ FinishGyell
  PROVE  ExchangeInv'
<1> DEFINE i == cur
<1>1. /\ mpc = "arg" /\ LastArg /\ mcmd \in {"yell", "gyell"} /\ mpc' = AfterArgs(todo')
      /\ UNCHANGED <<sq, pc, slot, req, pend, holder, bare>>
      /\ \E str \in {<<>>, cq[cur]} : ReadString(str)
  BY DEF FinishYell, FinishGyell, tableVars, childVars
<1>2. PICK str : ReadString(str)
  BY <1>1
<1>3. i \in Slots /\ MainUp /\ mpc' # "arg"
  BY <1>1 DEF TypeOK, MainUp, AfterArgs, Resume
<1>4. /\ \A j \in Slots : j # i => UNCHANGED <<sq[j], cq[j]>>
      /\ Astray \subseteq Astray'
  BY <1>1, <1>2, ReadElsewhere
<1>5. ASSUME NEW c \in Client \ Astray', pc[c] \in Serving, slot[c] = i, ExchangeOf(c),
             c \in Writers(i), holder[i] = c
      PROVE  ExchangeOf(c)'
  <2>1. cq[i] # <<>> /\ cq'[i] = <<>>
    BY <1>2, <1>5, ReadOf
  <2>2. \/ pc[c] = "reply" /\ mcmd = req[c]
        \/ pc[c] \in {"loop", "busy", "drain"}
    BY <1>1, <1>5, <2>1, ArgumentOf
  <2>3. pc[c] # "reply"
    BY <1>1, <1>5, <2>2 DEF ExchangeOf, Replied
  <2> QED BY <1>1, <1>3, <1>5, <2>1, <2>2, <2>3 DEF ExchangeOf, Apart
<1> QED BY <1>1, <1>3, <1>4, <1>5, ExchangeMain

(* A message from another client is for a child between its commands.      *)
LEMMA ExchangeDeliver ==
  ASSUME TypeOK, ChildSeats, ExchangeInv, NEW i \in Slots, Deliver(i)
  PROVE  ExchangeInv'
<1>1. /\ mpc = "deliver" /\ Write(i, Msg(mcmd, i), AfterArgs(todo'))
      /\ UNCHANGED <<cq, pc, slot, req, pend, holder, bare>>
      /\ mixed' = IF \A c \in Readers(i) : pc[c] \notin {"ack", "reply"}
                  THEN mixed ELSE mixed \cup {holder[i]}
  BY DEF Deliver, tableVars, childVars
<1>2. AfterArgs(todo') # "arg"
  BY DEF AfterArgs, Resume
<1>3. (\A j \in Slots : j # i => UNCHANGED <<sq[j], cq[j]>>) /\ mpc' # "arg"
  BY <1>1, <1>2, WriteElsewhere
<1>4. MainUp /\ Astray \subseteq Astray'
  BY <1>1 DEF MainUp, Astray
<1>5. ASSUME NEW c \in Client \ Astray', pc[c] \in Serving, slot[c] = i, ExchangeOf(c),
             c \in Readers(i), holder[i] = c
      PROVE  ExchangeOf(c)'
  <2>1. pc[c] \in {"loop", "busy", "drain"}
    BY <1>1, <1>5 DEF ExchangeOf, Serving, Astray
  <2> QED BY <1>1, <1>3, <1>5, <2>1 DEF ExchangeOf, Apart
<1> QED BY <1>1, <1>3, <1>4, <1>5, ExchangeMain

LEMMA ExchangeEof ==
  ASSUME TypeOK, ChildSeats, ExchangeInv, NEW i \in Slots, ServeEof(i)
  PROVE  ExchangeInv'
<1>1. /\ mpc = "scan" /\ Writers(i) = {} /\ mpc' # "arg" /\ MainUp
      /\ UNCHANGED <<sq, cq, pc, slot, req, pend, holder, mixed, bare>>
  BY DEF ServeEof, AtSlot, Resume, childVars, MainUp
<1> QED BY <1>1, ExchangeMain DEF Astray

-----------------------------------------------------------------------------
(* A step in which no child gets an exchange it did not have.              *)
LEMMA ExchangeIdle ==
  ASSUME ExchangeInv, MainUp' => MainUp, Astray \subseteq Astray',
         \A c \in Client : pc'[c] \in Serving => Untouched(c) \/ ExchangeOf(c)'
  PROVE  ExchangeInv'
<1> SUFFICES ASSUME MainUp', NEW c \in Client, c \notin Astray'
             PROVE  ExchangeOf(c)'
  BY DEF ExchangeInv
<1>1. CASE pc'[c] \in Serving
  BY <1>1, ExchangeFrame DEF ExchangeInv
<1>2. CASE pc'[c] \notin Serving
  BY <1>2 DEF ExchangeOf, Serving
<1> QED BY <1>1, <1>2

LEMMA ExchangeSelect ==
  ASSUME TypeOK, ExchangeInv, Select
  PROVE  ExchangeInv'
<1>1. /\ mpc = "select" /\ mpc' \in {"login", "scan"}
      /\ pc' = pc \/ \E c \in Client : pc' = [pc EXCEPT ![c] = "login"]
      /\ UNCHANGED <<slot, req, pend, sq, cq, holder, mixed, bare>>
  BY DEF Select, tableVars
<1>2. \A c \in Client : pc'[c] \in Serving => pc'[c] = pc[c]
  BY <1>1 DEF TypeOK, Serving
<1> QED BY <1>1, <1>2, ExchangeIdle DEF Untouched, Apart, MainUp, Astray

LEMMA ExchangeOpen ==
  ASSUME TypeOK, TableInv, ChildSeats, ExchangeInv, OpenServerFifo \/ OpenClientFifo
  PROVE  ExchangeInv'
<1>1. /\ mpc \in {"openS", "openC"} /\ mpc' \in {"openC", "select", "scan"}
      /\ UNCHANGED <<slot, req, pend, sq, cq, holder, mixed, bare>>
  BY DEF OpenServerFifo, OpenClientFifo, Resume, mainVars
<1>2. \/ pc' = pc
      \/ \E c \in Client : pc' = [pc EXCEPT ![c] = "openingW"]
      \/ \E c \in Client : pc[c] = "openingW" /\ pc' = [pc EXCEPT ![c] = "loop"]
  BY DEF OpenServerFifo, OpenClientFifo, Meet
<1>3. \A c \in Client : pc'[c] \in Serving => pc'[c] = pc[c] \/ (pc[c] = "openingW" /\ pc'[c] = "loop")
  BY <1>2 DEF TypeOK, Serving
<1>4. ASSUME NEW c \in Client, pc[c] = "openingW", pc'[c] = "loop"
      PROVE  ExchangeOf(c)'
  <2>1. slot[c] \in Slots /\ cq[slot[c]] = <<>>
    BY <1>1, <1>4 DEF TypeOK, TableInv, ChildSeats, MainUp, Attached
  <2> QED BY <1>1, <1>4, <2>1 DEF ExchangeOf, Apart
<1> QED BY <1>1, <1>3, <1>4, ExchangeIdle DEF Untouched, Apart, MainUp, Astray

LEMMA ExchangeDown ==
  ASSUME OpenInterrupted \/ LoginWhenFull \/ LoginHangup
  PROVE  ExchangeInv'
BY DEF OpenInterrupted, LoginWhenFull, LoginHangup, ExchangeInv, MainUp

(* A new child has its slot to itself.                                     *)
LEMMA ExchangeSeat ==
  ASSUME TypeOK, ChildSeats, ExchangeInv, mpc \in {"select", "login"}, mpc' = "openS",
         NEW c \in Client, NEW i \in Slots, userId[i] = -1, NEW p, p \notin Serving,
         pc' = [pc EXCEPT ![c] = p],
         \A d \in Client : d # c => UNCHANGED slot[d],
         holder' = [holder EXCEPT ![i] = c],
         UNCHANGED <<req, pend, sq, cq, mixed, bare>>
  PROVE  ExchangeInv'
<1>1. ASSUME NEW d \in Client, pc'[d] \in Serving
      PROVE  Untouched(d)
  <2>1. d # c /\ pc'[d] = pc[d]
    BY <1>1 DEF TypeOK
  <2>2. slot[d] \in Slots /\ slot[d] # -1 /\ userId[slot[d]] = slot[d]
    BY <1>1, <2>1, SessionsAssumption DEF TypeOK, ChildSeats, Started, Attached, MainUp, Slots
  <2> QED BY <2>1, <2>2 DEF Untouched, Apart, TypeOK
<1> QED BY <1>1, ExchangeIdle DEF MainUp, Astray

LEMMA ExchangeLogin ==
  ASSUME TypeOK, ChildSeats, ExchangeInv, NEW n \in Names, Login(n)
  PROVE  ExchangeInv'
<1>1. getMinC_ID \in Slots /\ userId[getMinC_ID] = -1
  BY MinIsFree DEF Login, Free
<1>2. /\ mpc = "login" /\ mpc' = "openS" /\ cand \in Client
      /\ pc' = [pc EXCEPT ![cand] = "opening"]
      /\ slot' = [slot EXCEPT ![cand] = getMinC_ID]
      /\ holder' = [holder EXCEPT ![getMinC_ID] = cand]
      /\ UNCHANGED <<req, pend, sq, cq, mixed, bare>>
  BY DEF Login, TypeOK
<1>3. \A c \in Client : c # cand => UNCHANGED slot[c]
  BY <1>2 DEF TypeOK
<1>4. "opening" \notin Serving
  BY DEF Serving
<1> QED BY <1>1, <1>2, <1>3, <1>4, ExchangeSeat

LEMMA ExchangeConnect ==
  ASSUME TypeOK, ExchangeInv, NEW c \in Client, Connect(c)
  PROVE  ExchangeInv'
<1>1. \A d \in Client : pc'[d] \in Serving => pc'[d] = pc[d]
  BY DEF Connect, TypeOK, Serving
<1> QED BY <1>1, ExchangeIdle
        DEF Untouched, Apart, MainUp, Connect, mainVars, tableVars, Astray

-----------------------------------------------------------------------------
(* The steps of a child.  One that ends takes its exchange with it.        *)
LEMMA ExchangeExit ==
  ASSUME TypeOK, ChildSeats, ExchangeInv, NEW c \in Client, pc[c] \in Started,
         NEW newcq \in [Slots -> Seq(Word)], Exit(c, newcq),
         \A j \in Slots : j # slot[c] => newcq[j] = cq[j],
         UNCHANGED <<mpc, mainVars, slot, holder>>, Astray \subseteq Astray'
  PROVE  ExchangeInv'
<1>1. /\ pc' = [pc EXCEPT ![c] = "gone"] /\ "gone" \notin Serving
      /\ \A d \in Client : d # c => UNCHANGED <<req[d], pend[d]>>
  BY DEF Exit, TypeOK, Serving
<1>2. \A j \in Slots : j # slot[c] => UNCHANGED <<sq[j], cq[j]>>
  BY DEF Exit, TypeOK, TakeUnit
<1> QED BY <1>1, <1>2, ExchangeChild

LEMMA ExchangeEnd ==
  ASSUME TypeOK, ChildSeats, ExchangeInv, PromptExit, NEW c \in Client,
         DieSending(c) \/ Leave(c) \/ Abrupt(c) \/ Quit(c)
  PROVE  ExchangeInv'
<1>1. /\ pc[c] \in Started /\ UNCHANGED <<mpc, mainVars, slot, holder>>
      /\ Astray \subseteq Astray'
      /\ Exit(c, cq) \/ Exit(c, [cq EXCEPT ![slot[c]] = Append(@, Cmd("quit"))])
  BY DEF DieSending, Leave, Abrupt, Quit, tableVars, Started, Attached, Serving, Astray
<1>2. cq \in [Slots -> Seq(Word)]
  BY DEF TypeOK
<1>3. [cq EXCEPT ![slot[c]] = Append(@, Cmd("quit"))] \in [Slots -> Seq(Word)]
  BY <1>1, <1>2, CommandsTyped DEF TypeOK, Started
<1>4. \A j \in Slots : j # slot[c] => [cq EXCEPT ![slot[c]] = Append(@, Cmd("quit"))][j] = cq[j]
  BY <1>2
<1> QED BY <1>1, <1>2, <1>3, <1>4, ExchangeExit

(* A request starts an exchange on empty pipes, or a stray write.          *)
LEMMA ExchangeRequest ==
  ASSUME TypeOK, ChildSeats, ExchangeInv, NEW c \in Client, NEW k \in CmdNames,
         NEW args \in Args(k), Request(c, k, args)
  PROVE  ExchangeInv'
<1> DEFINE i == slot[c]
<1>1. /\ pc[c] = "loop" /\ pc[c] \in Started /\ i \in Slots
      /\ UNCHANGED <<mpc, mainVars, slot, holder>>
      /\ mixed' = IF sq[i] = <<>> /\ cq[i] = <<>> THEN mixed ELSE mixed \cup {c}
      /\ Astray \subseteq Astray'
  BY DEF Request, tableVars, Started, Attached, Serving, TypeOK, Astray
<1>2. CASE ~MainReads(i)
  <2>1. Exit(c, cq) /\ cq \in [Slots -> Seq(Word)]
    BY <1>2 DEF Request, TypeOK
  <2> QED BY <1>1, <2>1, ExchangeExit
<1>3. CASE MainReads(i)
  <2> DEFINE p == IF args = <<>> THEN "reply" ELSE "ack"
  <2>1. /\ req' = [req EXCEPT ![c] = k] /\ pend' = [pend EXCEPT ![c] = args]
        /\ cq' = [cq EXCEPT ![i] = Append(@, Cmd(k))] /\ pc' = [pc EXCEPT ![c] = p]
        /\ UNCHANGED sq
    BY <1>3 DEF Request
  <2>2. /\ \A d \in Client : d # c => UNCHANGED <<req[d], pend[d]>>
        /\ \A j \in Slots : j # i => UNCHANGED <<sq[j], cq[j]>>
        /\ req'[c] = k /\ pend'[c] = args /\ pc'[c] = p
    BY <2>1 DEF TypeOK
  <2>3. ASSUME MainUp, c \notin Astray'
        PROVE  ExchangeOf(c)'
    <3>1. sq[i] = <<>> /\ cq[i] = <<>> /\ c \notin Astray
      BY <1>1, <2>3 DEF Astray
    <3>2. Apart(c)
      <4>1. ExchangeOf(c)
        BY <2>3, <3>1 DEF ExchangeInv
      <4>2. Len(<<>>) # 1
        OBVIOUS
      <4> QED BY <1>1, <3>1, <4>1, <4>2 DEF ExchangeOf
    <3>3. sq'[i] = <<>> /\ cq'[i] = <<Cmd(k)>>
      BY <1>1, <2>1, <3>1 DEF TypeOK
    <3>4. Len(args) = Arity[k] /\ Arity[k] \in Nat /\ (Arity[k] = 0 <=> k = "who")
      BY ArgsLength DEF Arity, CmdNames
    <3>5. CASE args = <<>>
      BY <1>1, <2>2, <3>2, <3>3, <3>4, <3>5 DEF ExchangeOf, AwaitsReply, Replied, Apart, mainVars
    <3>6. CASE args # <<>>
      <4>1. NumSent(c)' = 0 /\ k # "who"
        <5>1. args \in Seq(ArgWord)
          BY ArgsTyped
        <5> QED BY <2>2, <3>4, <3>6, <5>1 DEF NumSent
      <4>2. AwaitsAck(c)'
        BY <1>1, <2>2, <3>2, <3>3, <4>1 DEF AwaitsAck, Apart, mainVars
      <4> QED BY <2>2, <3>4, <3>6, <4>1, <4>2 DEF ExchangeOf
    <3> QED BY <3>5, <3>6
  <2> HIDE DEF p
  <2> QED BY <1>1, <2>1, <2>2, <2>3, ExchangeChild
<1> QED BY <1>2, <1>3

LEMMA Rest ==
  ASSUME NEW S, NEW s \in Seq(S), s # <<>>
  PROVE  /\ Tail(s) \in Seq(S) /\ Len(Tail(s)) = Len(s) - 1 /\ Len(s) \in Nat \ {0}
         /\ Tail(s) = <<>> <=> Len(s) = 1
<1>1. Tail(s) \in Seq(S) /\ Len(Tail(s)) = Len(s) - 1 /\ Len(s) \in Nat \ {0}
  BY HeadTailProperties, EmptySeq, LenProperties
<1>2. Tail(s) = <<>> <=> Len(Tail(s)) = 0
  BY <1>1, EmptySeq
<1> QED BY <1>1, <1>2

(* The acknowledgement is read and the next argument written.              *)
LEMMA ExchangeSend ==
  ASSUME TypeOK, ChildSeats, ExchangeInv, NEW c \in Client, SendArgument(c)
  PROVE  ExchangeInv'
<1> DEFINE i == slot[c]
           w == Head(pend[c])
           rest == Tail(pend[c])
           sent == AckArrived(c) /\ w # Empty
<1>1. /\ pc[c] = "ack" /\ pc[c] \in Started /\ i \in Slots
      /\ UNCHANGED <<mpc, mainVars, slot, holder>>
      /\ sq' = TakeUnit(i)
      /\ cq' = IF sent THEN [cq EXCEPT ![i] = Append(@, w)] ELSE cq
      /\ Astray \subseteq Astray' /\ (sent \/ sq[i] = <<>> \/ c \in Astray')
      /\ pend' = [pend EXCEPT ![c] = rest]
  BY DEF SendArgument, tableVars, Started, Attached, Serving, TypeOK, Astray
<1>2. PICK p \in {"ack", "reply", "drain", "loop"} :
        /\ pc' = [pc EXCEPT ![c] = p]
        /\ p = "ack" => rest # <<>> /\ UNCHANGED req
        /\ p = "reply" => rest = <<>> /\ req[c] \in Replied /\ UNCHANGED req
        /\ p \in {"drain", "loop"} => rest = <<>> /\ req' = [req EXCEPT ![c] = "none"]
  <2>1. CASE rest # <<>>
    <3>1. pc' = [pc EXCEPT ![c] = "ack"]
      BY <1>1, <2>1 DEF SendArgument, TypeOK
    <3> QED BY <2>1, <3>1 DEF SendArgument
  <2>2. CASE rest = <<>>
    BY <2>2 DEF SendArgument, Done
  <2> QED BY <2>1, <2>2
<1>3. /\ \A d \in Client : d # c => UNCHANGED <<req[d], pend[d]>>
      /\ pend'[c] = rest /\ pc'[c] = p
      /\ p \in {"ack", "reply"} => req'[c] = req[c]
  BY <1>1, <1>2 DEF TypeOK
<1>4. \A j \in Slots : j # i => UNCHANGED <<sq[j], cq[j]>>
  BY <1>1 DEF TypeOK, TakeUnit
<1>5. ASSUME MainUp, c \notin Astray'
      PROVE  ExchangeOf(c)'
  <2>1. c \notin Astray /\ sent /\ sq[i] # <<>>
    <3>1. sq[i] # <<>>
      BY <1>5 DEF SendArgument, AckReadable
    <3> QED BY <1>1, <1>5, <3>1
  <2>2. /\ sq[i] = Ack(i) /\ cq[i] = <<>> /\ AtMain(c) /\ Len(got) = NumSent(c)
        /\ req[c] \in CmdNames \ {"who"} /\ Len(pend[c]) <= Arity[req[c]]
    BY <1>1, <1>5, <2>1 DEF ExchangeInv, ExchangeOf, AwaitsAck
  <2>3. sq'[i] = <<>>
    <3>1. sq'[i] = Tail(Ack(i))
      BY <1>1, <2>1, <2>2 DEF TypeOK, TakeUnit
    <3> QED BY <1>1, <3>1, Units
  <2>4. cq'[i] = <<w>> /\ Len(cq'[i]) = 1
    BY <1>1, <2>1, <2>2 DEF TypeOK
  <2>5. /\ pend[c] \in Seq(ArgWord) /\ pend[c] # <<>> /\ rest \in Seq(ArgWord)
        /\ Len(rest) = Len(pend[c]) - 1 /\ Len(pend[c]) \in Nat \ {0}
        /\ Arity[req[c]] \in Nat /\ Len(got) \in Nat /\ (rest = <<>> <=> Len(pend[c]) = 1)
    <3>1. pend[c] \in Seq(ArgWord) /\ pend[c] # <<>> /\ got \in Seq(Text)
      BY <1>1 DEF TypeOK
    <3>2. Arity[req[c]] \in Nat
      BY <2>2 DEF Arity
    <3>3. Len(got) \in Nat
      BY <3>1
    <3> QED BY <3>1, <3>2, <3>3, Rest
  <2>6. CASE p = "ack"
    <3>1. NumSent(c)' = NumSent(c) + 1 /\ NumSent(c) \in Nat /\ Len(rest) <= Arity[req[c]]
      BY <1>3, <2>2, <2>5, <2>6 DEF NumSent
    <3>2. AwaitsAck(c)'
      BY <1>1, <1>3, <2>2, <2>3, <2>4, <2>5, <2>6, <3>1 DEF AwaitsAck, AtMain, mainVars
    <3> QED BY <1>3, <2>2, <2>6, <3>1, <3>2 DEF ExchangeOf
  <2>7. Len(got) + 1 = Arity[mcmd] <=> rest = <<>>
    <3>1. mcmd = req[c]
      BY <2>2 DEF AtMain
    <3>2. Len(got) = Arity[req[c]] - Len(pend[c])
      BY <2>2 DEF NumSent
    <3>3. \A a, n, g \in Int : g = a - n => (g + 1 = a <=> n = 1)
      OBVIOUS
    <3>4. Len(got) \in Int /\ Len(pend[c]) \in Int /\ Arity[req[c]] \in Int
      BY <2>5
    <3>5. Len(got) + 1 = Arity[req[c]] <=> Len(pend[c]) = 1
      BY <3>2, <3>3, <3>4
    <3> QED BY <2>5, <3>1, <3>5
  <2>8. CASE p = "reply"
    <3>1. AwaitsReply(c)'
      BY <1>1, <1>2, <1>3, <2>2, <2>3, <2>4, <2>5, <2>7, <2>8
      DEF AwaitsReply, AtMain, mainVars, LastArg
    <3> QED BY <1>2, <1>3, <2>2, <2>8, <3>1 DEF ExchangeOf
  <2>9. CASE p \in {"drain", "loop"}
    BY <1>1, <1>2, <1>3, <2>2, <2>4, <2>5, <2>7, <2>9
    DEF ExchangeOf, Apart, AtMain, mainVars, LastArg
  <2> QED BY <2>6, <2>8, <2>9
<1> QED BY <1>1, <1>2, <1>3, <1>4, <1>5, ExchangeChild

LEMMA ExchangeReply ==
  ASSUME TypeOK, ChildSeats, ExchangeInv, NEW c \in Client, ReadReply(c)
  PROVE  ExchangeInv'
<1>1. /\ pc[c] = "reply" /\ pc[c] \in Started /\ slot[c] \in Slots
      /\ UNCHANGED <<mpc, mainVars, slot, holder, mixed, bare, cq, pend>>
      /\ sq' = [sq EXCEPT ![slot[c]] = <<>>]
      /\ MainUp => sq[slot[c]] # <<>>
  BY DEF ReadReply, tableVars, Started, Attached, Serving, TypeOK
<1>2. PICK p \in {"drain", "loop"} : pc' = [pc EXCEPT ![c] = p]
  BY DEF ReadReply, Done
<1>3. /\ \A d \in Client : d # c => UNCHANGED <<req[d], pend[d]>>
      /\ \A j \in Slots : j # slot[c] => UNCHANGED <<sq[j], cq[j]>>
      /\ pc'[c] = p
  BY <1>1, <1>2 DEF TypeOK, ReadReply, Done
<1>4. ASSUME MainUp, c \notin Astray
      PROVE  ExchangeOf(c)'
  BY <1>1, <1>2, <1>3, <1>4 DEF ExchangeInv, ExchangeOf, AwaitsReply, Apart, mainVars
<1> QED BY <1>1, <1>2, <1>3, <1>4, ExchangeChild DEF Astray

(* Between its commands.                                                   *)
LEMMA ExchangeBetween ==
  ASSUME TypeOK, ChildSeats, ExchangeInv, NEW c \in Client,
         ReadMessages(c) \/ Shell(c) \/ ShellDone(c)
  PROVE  ExchangeInv'
<1>1. /\ pc[c] \in {"loop", "busy", "drain"} /\ pc[c] \in Started
      /\ UNCHANGED <<mpc, mainVars, slot, holder, mixed, bare, cq, pend>>
      /\ sq' = sq \/ sq' = [sq EXCEPT ![slot[c]] = <<>>]
      /\ req' = req \/ req' = [req EXCEPT ![c] = "none"]
  BY DEF ReadMessages, Shell, ShellDone, Done, tableVars, Started, Attached, Serving
<1>2. PICK p \in {"loop", "busy", "drain"} : pc' = [pc EXCEPT ![c] = p]
  BY DEF ReadMessages, Shell, ShellDone, Done
<1>3. /\ \A d \in Client : d # c => UNCHANGED <<req[d], pend[d]>>
      /\ \A j \in Slots : j # slot[c] => UNCHANGED <<sq[j], cq[j]>>
      /\ pc'[c] = p
  BY <1>1, <1>2 DEF TypeOK
<1>4. ASSUME MainUp, c \notin Astray
      PROVE  ExchangeOf(c)'
  BY <1>1, <1>2, <1>3, <1>4 DEF ExchangeInv, ExchangeOf, Apart, LastArg, mainVars
<1> QED BY <1>1, <1>2, <1>3, <1>4, ExchangeChild DEF Astray

LEMMA ExchangeChildOpens ==
  ASSUME TypeOK, TableInv, ChildSeats, ExchangeInv, NEW c \in Client,
         ChildOpenServerFifo(c) \/ ChildOpenClientFifo(c)
  PROVE  ExchangeInv'
<1>1. /\ pc[c] \in Started /\ slot[c] \in Slots
      /\ UNCHANGED <<mpc, mainVars, slot, holder, mixed, bare, sq, cq, req, pend>>
      /\ \E p \in {"openingW", "loop"} : pc' = [pc EXCEPT ![c] = p]
  BY DEF ChildOpenServerFifo, ChildOpenClientFifo, tableVars, Started, Attached, TypeOK
<1>2. CASE ChildOpenServerFifo(c)
  <2>1. pc' = [pc EXCEPT ![c] = "openingW"] /\ "openingW" \notin Serving
    BY <1>2 DEF ChildOpenServerFifo, Serving
  <2> QED BY <1>1, <2>1, ExchangeChild DEF Astray
<1>3. ~ChildOpenClientFifo(c)
  BY <1>1 DEF ChildOpenClientFifo, MainReads, TableInv, ChildSeats
<1> QED BY <1>2, <1>3

-----------------------------------------------------------------------------
LEMMA ExchangeMainStep ==
  ASSUME TypeOK, TableInv, ChildSeats, ExchangeInv, MainStep
  PROVE  ExchangeInv'
BY ExchangeSelect, ExchangeOpen, ExchangeDown, ExchangeEof, ExchangeWho, ExchangeCommand,
   ExchangeQuit, ExchangeDeliver, ExchangeArgument, ExchangeTell, ExchangeYell, ExchangeName
DEF MainStep

LEMMA ExchangeClientStep ==
  ASSUME TypeOK, TableInv, ChildSeats, ExchangeInv, PromptExit, NEW c \in Client,
         ChildStep(c) \/ ClientStep(c)
  PROVE  ExchangeInv'
<1>1. CASE ChildStep(c)
  BY <1>1, ExchangeChildOpens, ExchangeSend, ExchangeEnd, ExchangeReply, ExchangeBetween
  DEF ChildStep
<1>2. CASE ClientStep(c)
  BY <1>2, ExchangeConnect, ExchangeRequest, ExchangeEnd, ExchangeBetween DEF ClientStep
<1> QED BY <1>1, <1>2

LEMMA ExchangeNext ==
  ASSUME TypeOK, TableInv, ChildSeats, ExchangeInv, PromptExit, [Next]_vars
  PROVE  ExchangeInv'
<1>1. CASE MainStep
  BY <1>1, ExchangeMainStep
<1>2. CASE LoginStep
  BY <1>2, ExchangeLogin, ExchangeDown DEF LoginStep
<1>3. ASSUME NEW c \in Client, ChildStep(c) \/ ClientStep(c)
      PROVE  ExchangeInv'
  BY <1>3, ExchangeClientStep
<1>4. CASE UNCHANGED vars
  BY <1>4, ExchangeIdle
     DEF vars, mainVars, tableVars, childVars, MainUp, Untouched, Apart, Astray
<1> QED BY <1>1, <1>2, <1>3, <1>4 DEF Next

(* What the agreement of the two ends means for main's nested read.        *)
LEMMA ExchangesAgree ==
  ASSUME TypeOK, ChildSeats, ExchangeInv
  PROVE  InStep
<1>1. Lockstep
  BY DEF Lockstep, ExchangeInv, ExchangeOf
<1>2. ASSUME mpc = "arg", holder[cur] \notin Astray, NEW c \in Writers(cur), cq[cur] = <<>>
      PROVE  pc[c] = "ack" /\ sq[cur] # <<>>
  <2>1. /\ MainUp /\ c \in Client /\ pc[c] \in Serving /\ slot[c] = cur /\ holder[cur] = c
    BY <1>2 DEF MainUp, Writers, SeatInv, ChildSeats, HolderSeats, Started, Attached
  <2>2. ExchangeOf(c) /\ ~Apart(c)
    BY <1>2, <2>1 DEF ExchangeInv, Apart
  <2>3. pc[c] \notin {"reply", "loop", "busy", "drain", "leaving"}
    <3>1. pc[c] # "leaving"
      BY <2>2 DEF ExchangeOf
    <3>2. ~(Len(cq[cur]) = 1)
      BY <1>2
    <3>3. pc[c] \notin {"loop", "busy", "drain"}
      BY <2>1, <2>2, <3>2 DEF ExchangeOf
    <3>4. ASSUME pc[c] = "reply" PROVE FALSE
      <4>1. AwaitsReply(c)
        BY <2>2, <3>4 DEF ExchangeOf
      <4>2. <<Cmd("who")>> # <<>>
        OBVIOUS
      <4> QED BY <1>2, <2>1, <3>2, <4>1, <4>2 DEF AwaitsReply
    <3> QED BY <3>1, <3>3, <3>4
  <2>4. pc[c] = "ack"
    BY <2>1, <2>3 DEF Serving
  <2>5. Len(<<>>) # 1 /\ <<Cmd(req[c])>> # <<>>
    OBVIOUS
  <2>6. AwaitsAck(c)
    BY <2>2, <2>4 DEF ExchangeOf
  <2> QED BY <1>2, <2>1, <2>4, <2>5, <2>6 DEF AwaitsAck
<1>3. NotStranded
  BY <1>2 DEF NotStranded
<1> QED BY <1>1, <1>3 DEF InStep

(* A child that quits closes its pipes at once.  Then the two ends of an   *)
(* exchange agree on the command, on how far it has got and on whose turn  *)
(* it is; and main never waits for an argument of a child that will not    *)
(* send it.  There are three exceptions: a stray write has met the         *)
(* exchange, SIGCHLD has interrupted main's read, or the client has left   *)
(* an argument empty, in which case the child writes nothing and main      *)
(* waits for ever, all clients with it.                                    *)
THEOREM ExchangesInStep == ASSUME PromptExit PROVE Spec => []InStep
<1>1. Init => ExchangeInv
  BY DEF Init, ExchangeInv, ExchangeOf
<1>2. TypeOK /\ TableInv /\ SeatInv /\ ExchangeInv /\ [Next]_vars => ExchangeInv'
  BY ExchangeNext DEF SeatInv
<1>3. TypeOK /\ SeatInv /\ ExchangeInv => InStep
  BY ExchangesAgree DEF SeatInv
<1> QED BY <1>1, <1>2, <1>3, TypeCorrect, TableCorrect, SeatsCorrect, PTL DEF Spec

-----------------------------------------------------------------------------
(* homework2_V2.  Its steps are those of Sessions, but for the way a       *)
(* client comes in.                                                        *)

LEMMA StepsV2 ==
  ASSUME NextV2
  PROVE  Next \/ Accept
<1>1. OpenFifos \/ Scan \/ ServeArguments => MainStep
  BY DEF OpenFifos, Scan, ServeArguments, MainStep
<1>2. ASSUME NEW i \in Slots, ServeSlot(i) \/ Deliver(i) PROVE MainStep
  <2>1. {"tell", "yell", "name"} \subseteq CmdNames
    BY DEF CmdNames
  <2> QED BY <1>2, <2>1 DEF ServeSlot, MainStep
<1>3. ASSUME NEW c \in Client, Connect(c) \/ OpenEnds(c) \/ subServer(c) \/ TypeLine(c)
      PROVE  ChildStep(c) \/ ClientStep(c)
  BY <1>3 DEF OpenEnds, subServer, TypeLine, ChildStep, ClientStep
<1> QED BY <1>1, <1>2, <1>3 DEF NextV2, MainV2, Next

(* Client c is accepted, into slot i; the fork() for it has failed if it   *)
(* does not begin to open its pipes.                                       *)
Accepts(c, i) ==
  /\ mpc' = "openS" /\ cur' = i
  /\ pc[c] = "pending" /\ userId[i] = -1
  /\ userId' = [userId EXCEPT ![i] = i]
  /\ userName' = [userName EXCEPT ![i] = no_name]
  /\ holder' = [holder EXCEPT ![i] = c]
  /\ \/ slot' = [slot EXCEPT ![c] = i] /\ pc' = [pc EXCEPT ![c] = "opening"]
     \/ slot' = slot /\ pc' = [pc EXCEPT ![c] = "login"]

LEMMA AcceptCases ==
  ASSUME Accept
  PROVE  /\ mpc = "select" /\ ready' = Readable /\ cand' \in Client
         /\ UNCHANGED <<mcmd, got, todo, intr, sfd, cfd, lost, sq, cq, snap, req, pend, nreq, mixed, bare>>
         /\ \/ mpc' = "undefined" /\ UNCHANGED <<cur, userId, userName, holder, slot, pc>>
            \/ \E c \in Client, i \in Slots : Accepts(c, i)
<1>1. PICK c \in Client :
        /\ mpc = "select" /\ pc[c] = "pending" /\ ready' = Readable /\ cand' = c
        /\ \/ /\ mpc' = "undefined" /\ UNCHANGED <<cur, userId, userName, holder, slot, pc>>
           \/ /\ Free # {} /\ mpc' = "openS" /\ cur' = getMinC_ID
              /\ userId' = [userId EXCEPT ![getMinC_ID] = getMinC_ID]
              /\ userName' = [userName EXCEPT ![getMinC_ID] = no_name]
              /\ holder' = [holder EXCEPT ![getMinC_ID] = c]
              /\ \/ slot' = [slot EXCEPT ![c] = getMinC_ID] /\ pc' = [pc EXCEPT ![c] = "opening"]
                 \/ pc' = [pc EXCEPT ![c] = "login"] /\ UNCHANGED slot
        /\ UNCHANGED <<mcmd, got, todo, intr, sfd, cfd, lost, sq, cq, snap, req, pend, nreq, mixed, bare>>
  BY DEF Accept
<1>2. Free # {} => getMinC_ID \in Slots /\ userId[getMinC_ID] = -1
  BY MinIsFree DEF Free
<1> QED BY <1>1, <1>2 DEF Accepts

LEMMA TypeAccept ==
  ASSUME SessionsV2Assumption, TypeOK, Accept
  PROVE  TypeOK'
<1>1. Readable \in SUBSET Slots
  BY DEF Readable
<1>2. CASE mpc' = "undefined" /\ UNCHANGED <<cur, userId, userName, holder, slot, pc>>
  BY <1>1, <1>2, AcceptCases DEF TypeOK
<1>3. ASSUME NEW c \in Client, NEW i \in Slots, Accepts(c, i) PROVE TypeOK'
  <2>1. no_name \in Text
    BY DEF SessionsV2Assumption, no_name, Text, Word, ArgWord
  <2>2. /\ cur' \in Slots /\ userId' \in [Slots -> Slots \cup {-1}]
        /\ userName' \in [Slots -> Text] /\ holder' \in [Slots -> Client \cup {NoClient}]
    BY <1>3, <2>1 DEF Accepts, TypeOK
  <2>3. /\ pc' \in [Client -> {"new", "pending", "login", "opening", "gone"} \cup Attached]
        /\ slot' \in [Client -> Slots \cup {-1}]
        /\ \A d \in Client : pc'[d] \in Attached \cup {"opening"} => slot'[d] \in Slots
        /\ \A d \in Client : pc'[d] = "ack" => pc[d] = "ack"
    <3>1. CASE slot' = [slot EXCEPT ![c] = i] /\ pc' = [pc EXCEPT ![c] = "opening"]
      BY <3>1 DEF TypeOK
    <3>2. CASE slot' = slot /\ pc' = [pc EXCEPT ![c] = "login"]
      BY <3>2 DEF TypeOK, Attached, Serving
    <3> QED BY <1>3, <3>1, <3>2 DEF Accepts
  <2>4. mpc' = "openS"
    BY <1>3 DEF Accepts
  <2> QED BY <1>1, <2>2, <2>3, <2>4, AcceptCases DEF TypeOK
<1> QED BY <1>2, <1>3, AcceptCases

LEMMA TableAccept ==
  ASSUME TypeOK, TableInv, Accept
  PROVE  TableInv'
<1>1. CASE mpc' = "undefined"
  BY <1>1 DEF TableInv, MainUp
<1>2. ASSUME NEW c \in Client, NEW i \in Slots, Accepts(c, i) PROVE TableInv'
  <2>1. /\ mpc = "select" /\ mpc' = "openS" /\ cur' = i /\ UNCHANGED <<sfd, cfd>>
        /\ userId' = [userId EXCEPT ![i] = i] /\ userId[i] = -1
    BY <1>2, AcceptCases DEF Accepts
  <2> QED BY <2>1 DEF TypeOK, TableInv, Opening, MainUp, Slots
<1> QED BY <1>1, <1>2, AcceptCases

LEMMA SeatsAccept ==
  ASSUME TypeOK, TableInv, ChildSeats, Accept
  PROVE  ChildSeats'
<1>1. CASE mpc' = "undefined"
  BY <1>1 DEF ChildSeats, MainUp
<1>2. ASSUME NEW c \in Client, NEW i \in Slots, Accepts(c, i) PROVE ChildSeats'
  BY <1>2, AcceptCases, SeatTaken DEF Accepts
<1> QED BY <1>1, <1>2, AcceptCases

LEMMA ExchangeAccept ==
  ASSUME TypeOK, ChildSeats, ExchangeInv, Accept
  PROVE  ExchangeInv'
<1>1. CASE mpc' = "undefined"
  BY <1>1 DEF ExchangeInv, MainUp
<1>2. ASSUME NEW c \in Client, NEW i \in Slots, Accepts(c, i) PROVE ExchangeInv'
  <2>1. PICK p \in {"opening", "login"} : pc' = [pc EXCEPT ![c] = p]
    BY <1>2 DEF Accepts
  <2>2. \A d \in Client : d # c => UNCHANGED slot[d]
    BY <1>2 DEF Accepts, TypeOK
  <2>3. p \notin Serving
    BY DEF Serving
  <2>4. /\ mpc \in {"select", "login"} /\ mpc' = "openS" /\ userId[i] = -1
        /\ holder' = [holder EXCEPT ![i] = c] /\ UNCHANGED <<req, pend, sq, cq, mixed, bare>>
    BY <1>2, AcceptCases DEF Accepts
  <2> QED BY <2>1, <2>2, <2>3, <2>4, ExchangeSeat
<1> QED BY <1>1, <1>2, AcceptCases

LEMMA TypeStepV2 ==
  ASSUME SessionsV2Assumption, TypeOK, [NextV2]_vars
  PROVE  TypeOK'
BY StepsV2, TypeStep, TypeAccept

LEMMA AgreeStepV2 ==
  ASSUME PromptExit, TypeOK, TableInv, ChildSeats, ExchangeInv, [NextV2]_vars
  PROVE  TableInv' /\ ChildSeats' /\ ExchangeInv'
BY StepsV2, TableStep, SeatStep, ExchangeNext, TableAccept, SeatsAccept, ExchangeAccept

(* Names.  A step that gives no slot a name.                               *)
LEMMA NamesFrame ==
  ASSUME NamesDistinct, MainUp' => MainUp, UNCHANGED userName,
         \A i \in Slots : userId'[i] \in {userId[i], -1}
  PROVE  NamesDistinct'
BY DEF NamesDistinct

LEMMA NamesStep ==
  ASSUME TypeOK, NamesDistinct, [NextV2]_vars
  PROVE  NamesDistinct'
<1>1. CASE Accept
  <2>1. CASE mpc' = "undefined"
    BY <2>1 DEF NamesDistinct, MainUp
  <2>2. ASSUME NEW c \in Client, NEW i \in Slots, Accepts(c, i) PROVE NamesDistinct'
    <3>1. /\ userName'[i] = no_name
          /\ \A j \in Slots : j # i => userName'[j] = userName[j] /\ userId'[j] = userId[j]
      BY <2>2 DEF Accepts, TypeOK
    <3>2. MainUp
      BY <1>1, AcceptCases DEF MainUp
    <3> QED BY <3>1, <3>2 DEF NamesDistinct
  <2> QED BY <1>1, <2>1, <2>2, AcceptCases
<1>2. CASE FinishName
  <2>1. /\ UNCHANGED userId /\ cur \in Slots /\ MainUp
        /\ \E str : userName' = changeC_Name(cur, str)
    BY <1>2 DEF FinishName, TypeOK, MainUp
  <2>2. PICK str : userName' = changeC_Name(cur, str)
    BY <2>1
  <2>3. CASE userName' = userName
    BY <2>1, <2>3 DEF NamesDistinct
  <2>4. CASE /\ \A j \in Slots : userId[j] # -1 => userName[j] # str
             /\ userName' = [userName EXCEPT ![cur] = str]
    BY <2>1, <2>4 DEF NamesDistinct, TypeOK
  <2> QED BY <2>2, <2>3, <2>4 DEF changeC_Name
<1>3. ASSUME NEW i \in Slots, ServeEof(i) \/ ServeQuit(i) PROVE NamesDistinct'
  <2>1. UNCHANGED userName /\ userId' = [userId EXCEPT ![i] = -1] /\ MainUp
    BY <1>3 DEF ServeEof, ServeQuit, AtSlot, FreeSlot, MainUp
  <2> QED BY <2>1, NamesFrame DEF TypeOK
<1>4. ASSUME NEW i \in Slots,
             ServeWho(i) \/ ServeUnknown(i) \/ Deliver(i) \/ \E k \in CmdNames : ServeCommand(i, k)
      PROVE  NamesDistinct'
  BY <1>4, NamesFrame DEF ServeWho, ServeCommand, ServeUnknown, Deliver, AtSlot, MainUp, tableVars
<1>5. CASE ReadArgument \/ FinishTell \/ FinishYell
  BY <1>5, NamesFrame DEF ReadArgument, FinishTell, FinishYell, MainUp, tableVars
<1>6. CASE OpenFifos \/ Scan
  BY <1>6, NamesFrame DEF OpenFifos, OpenServerFifo, OpenClientFifo, Scan, Select, MainUp, tableVars
<1>7. ASSUME NEW c \in Client, Connect(c) \/ OpenEnds(c) \/ subServer(c) \/ TypeLine(c)
      PROVE  NamesDistinct'
  <2>1. UNCHANGED <<mpc, userId, userName>>
    BY <1>7 DEF Connect, OpenEnds, subServer, TypeLine, ChildOpenServerFifo, ChildOpenClientFifo,
       SendArgument, DieSending, ReadReply, ReadMessages, Leave, Request, Shell, ShellDone, Quit,
       Abrupt, tableVars
  <2> QED BY <2>1, NamesFrame DEF MainUp
<1>8. CASE UNCHANGED vars
  BY <1>8, NamesFrame DEF vars, tableVars, MainUp
<1>9. {"tell", "yell", "name"} \subseteq CmdNames
  BY DEF CmdNames
<1> QED
  BY <1>1, <1>2, <1>3, <1>4, <1>5, <1>6, <1>7, <1>8, <1>9
  DEF NextV2, MainV2, ServeSlot, ServeArguments

(* No two clients of homework2_V2 get one name but the one they came with, *)
(* whatever main has read as the name: stale, joined, or cut short.        *)
THEOREM NamesStayDistinct ==
  ASSUME SessionsV2Assumption
  PROVE  SpecV2 => []NamesDistinct
<1>1. Init => NamesDistinct
  BY DEF Init, NamesDistinct
<1>2. Init => TypeOK
  BY TypeInit
<1>3. TypeOK /\ [NextV2]_vars => TypeOK'
  BY TypeStepV2
<1>4. TypeOK /\ NamesDistinct /\ [NextV2]_vars => NamesDistinct'
  BY NamesStep
<1> QED BY <1>1, <1>2, <1>3, <1>4, PTL DEF SpecV2

-----------------------------------------------------------------------------
(* Quiet clients: they ask for nothing but answers to themselves, and      *)
(* their children end at once.  What InStep says of them then holds with   *)
(* the one exception of a `name` whose argument the client has left out,   *)
(* and for every slot: whatever is in its pipes, but for a "quit", belongs *)
(* to an exchange, whose child is there.                                   *)
QuietClients ==
  /\ Commands \subseteq {"who", "name", "shell"}
  /\ PromptExit

Exchanging(i) == \E c \in Client : pc[c] \in {"ack", "reply"} /\ slot[c] = i

Leftover(i) == sq[i] # <<>> \/ cq[i] \notin {<<>>, <<Cmd("quit")>>}

(* Main waits for the name that c has left out.                            *)
Stranded(c) ==
  /\ mpc = "arg" /\ mcmd = "name"
  /\ cur = slot[c] /\ holder[cur] = c
  /\ pc[c] \in {"reply", "gone"}
  /\ sq[cur] = <<>> /\ cq[cur] = <<>>

QuietInv ==
  /\ mpc = "dead" => Bereft
  /\ MainUp =>
       /\ mixed = {} /\ ~intr /\ mpc # "deliver"
       /\ \A c \in Client : pc[c] \in {"ack", "reply"} => req[c] \in {"who", "name"}
       /\ \A i \in Slots : Leftover(i) => Exchanging(i)
       /\ mpc = "arg" => Exchanging(cur) \/ Bereft
       /\ \A c \in bare : Stranded(c)

(* A step of main at slot i, no argument having been left out.             *)
LEMMA QuietMain ==
  ASSUME QuietInv, MainUp, bare = {}, NEW i \in Slots,
         UNCHANGED <<pc, slot, req, mixed, bare, intr>>,
         \A j \in Slots : j # i => UNCHANGED <<sq[j], cq[j]>>,
         mpc' \notin {"dead", "deliver"}, mpc' = "arg" => cur' = i /\ Exchanging(i),
         Leftover(i)' => Leftover(i) \/ Exchanging(i)
  PROVE  QuietInv'
<1>1. \A j : Exchanging(j)' <=> Exchanging(j)
  BY DEF Exchanging
<1>2. \A j \in Slots : j # i => (Leftover(j)' <=> Leftover(j))
  BY DEF Leftover
<1> QED BY <1>1, <1>2 DEF QuietInv, MainUp

(* A step of the child of c, in whose slot nobody else is at work, and     *)
(* which leaves out an argument at most.                                   *)
LEMMA QuietChild ==
  ASSUME TypeOK, ChildSeats, QuietInv, MainUp, NEW c \in Client, NEW p,
         pc[c] \in Started, c \notin bare,
         UNCHANGED <<mpc, mainVars, slot, holder, mixed, intr>>,
         pc' = [pc EXCEPT ![c] = p],
         \A d \in Client : d # c => UNCHANGED req[d],
         \A j \in Slots : j # slot[c] => UNCHANGED <<sq[j], cq[j]>>,
         bare' \in {bare, bare \cup {c}}, c \in bare' => Stranded(c)',
         p \in {"ack", "reply"} => req'[c] \in {"who", "name"},
         p \notin {"ack", "reply"} =>
           ~Leftover(slot[c])' /\ (Apart(c) \/ (p = "gone" /\ c \in bare'))
  PROVE  QuietInv'
<1>1. pc'[c] = p /\ (\A d \in Client : d # c => pc'[d] = pc[d]) /\ slot[c] \in Slots
  BY DEF TypeOK, Started
<1>2. \A j \in Slots :
        j # slot[c] => (Leftover(j)' <=> Leftover(j)) /\ (Exchanging(j) => Exchanging(j)')
  BY <1>1 DEF Leftover, Exchanging
<1>3. p \in {"ack", "reply"} => Exchanging(slot[c])'
  BY <1>1 DEF Exchanging
<1>4. \A d \in Client : pc'[d] \in {"ack", "reply"} => req'[d] \in {"who", "name"}
  BY <1>1 DEF QuietInv
<1>5. MainUp' /\ UNCHANGED <<mpc, cur, mcmd>> /\ cur \in Slots
  BY DEF TypeOK, MainUp, mainVars
<1>6. Bereft \/ (p = "gone" /\ c \in bare') => Bereft'
  BY <1>1 DEF Bereft
<1>7. mpc' = "arg" => Exchanging(cur)' \/ Bereft'
  <2>1. CASE cur = slot[c]
    BY <1>3, <1>5, <1>6, <2>1 DEF QuietInv, Apart
  <2>2. CASE cur # slot[c]
    BY <1>2, <1>5, <1>6, <2>2 DEF QuietInv
  <2> QED BY <2>1, <2>2
<1>8. ASSUME NEW d \in bare PROVE Stranded(d)'
  <2>1. Stranded(d) /\ d \in Client /\ d # c
    BY DEF QuietInv, TypeOK
  <2>2. cur # slot[c]
    BY <2>1 DEF ChildSeats, Stranded
  <2> QED BY <1>1, <1>5, <2>1, <2>2 DEF Stranded
<1>9. \A d \in bare' : Stranded(d)'
  BY <1>8
<1>10. mixed' = {} /\ ~intr' /\ mpc' # "deliver"
  BY DEF QuietInv
<1>11. \A j \in Slots : Leftover(j)' => Exchanging(j)'
  BY <1>1, <1>2, <1>3 DEF QuietInv
<1> QED BY <1>4, <1>5, <1>7, <1>9, <1>10, <1>11 DEF QuietInv, MainUp

(* A step in which no exchange takes part.                                 *)
LEMMA QuietFrame ==
  ASSUME QuietInv, MainUp, UNCHANGED <<slot, req, sq, cq, mixed, bare, intr>>,
         \A c \in Client : pc'[c] = pc[c] \/ {pc[c], pc'[c]} \cap {"ack", "reply", "gone"} = {},
         mpc' \notin {"dead", "deliver"}, mpc' = "arg" => mpc = "arg" /\ cur' = cur,
         bare = {} \/ (UNCHANGED <<mpc, cur, mcmd, holder>> /\ bare \subseteq Client)
  PROVE  QuietInv'
<1>1. (\A j : Exchanging(j)' <=> Exchanging(j)) /\ (Bereft => Bereft')
  BY DEF Exchanging, Bereft
<1>2. \A j \in Slots : Leftover(j)' <=> Leftover(j)
  BY DEF Leftover
<1>3. ASSUME NEW c \in bare PROVE Stranded(c)'
  BY DEF QuietInv, Stranded
<1> QED BY <1>1, <1>2, <1>3 DEF QuietInv, MainUp

(* Unless main waits for an argument, nobody has left one out.             *)
LEMMA NoneBare ==
  ASSUME QuietInv, MainUp, mpc # "arg"
  PROVE  bare = {}
BY DEF QuietInv, Stranded

(* Between its commands a child has nothing in its pipes.                  *)
LEMMA QuietRest ==
  ASSUME TypeOK, ChildSeats, QuietInv, MainUp, NEW c \in Client,
         pc[c] \in Started, pc[c] \notin {"ack", "reply"}
  PROVE  /\ slot[c] \in Slots /\ sq[slot[c]] = <<>> /\ cq[slot[c]] = <<>>
         /\ Apart(c) /\ c \notin bare
<1>1. slot[c] \in Slots /\ holder[slot[c]] = c /\ pc[c] # "gone"
  BY DEF TypeOK, ChildSeats, Started, Attached, Serving
<1>2. ~Exchanging(slot[c])
  BY <1>1 DEF Exchanging, ChildSeats, Started, Attached, Serving
<1>3. cq[slot[c]] # <<Cmd("quit")>>
  BY <1>1 DEF ChildSeats
<1>4. c \notin bare
  BY <1>1 DEF QuietInv, Stranded
<1>5. Apart(c)
  <2>1. ASSUME Bereft, cur = slot[c] PROVE FALSE
    <3>1. PICK d \in Client : d \in bare
      BY <2>1 DEF Bereft
    <3>2. holder[cur] = d
      BY <3>1 DEF QuietInv, Stranded
    <3> QED BY <1>1, <1>4, <2>1, <3>1, <3>2
  <2> QED BY <1>2, <2>1 DEF QuietInv, Apart
<1> QED BY <1>1, <1>2, <1>3, <1>4, <1>5 DEF QuietInv, Leftover

LEMMA Attended ==
  ASSUME NEW i \in Slots, Exchanging(i)
  PROVE  Readers(i) # {} /\ Writers(i) # {}
BY DEF Exchanging, Readers, Writers, Attached, Serving

(* Main reads an argument only if nobody has left it out, and never of a   *)
(* command but name, with the child that has sent it waiting.              *)
LEMMA QuietArgument ==
  ASSUME TypeOK, ChildSeats, QuietInv, ExchangeInv, mpc = "arg", Exchanging(cur),
         NEW str, ReadString(str)
  PROVE  mcmd = "name" /\ bare = {}
<1>1. MainUp /\ cur \in Slots
  BY DEF TypeOK, MainUp
<1>2. mixed = {} /\ ~intr
  BY <1>1 DEF QuietInv
<1>3. PICK c \in Client : pc[c] \in {"ack", "reply"} /\ slot[c] = cur
  BY DEF Exchanging
<1>4. holder[cur] = c
  BY <1>1, <1>3 DEF ChildSeats, Started, Attached, Serving
<1>5. cq[cur] # <<>>
  BY <1>1, <1>2, Attended DEF ReadString
<1>6. bare = {}
  BY <1>1, <1>5 DEF QuietInv, Stranded
<1>7. ExchangeOf(c) /\ req[c] \in {"who", "name"} /\ ~Apart(c)
  BY <1>1, <1>2, <1>3, <1>6 DEF ExchangeInv, QuietInv, Apart, Astray
<1>8. mcmd = req[c]
  <2>1. CASE pc[c] = "ack"
    BY <1>3, <1>7, <2>1 DEF ExchangeOf, AwaitsAck, AtMain
  <2>2. CASE pc[c] = "reply"
    BY <1>3, <1>7, <2>2 DEF ExchangeOf, AwaitsReply, AtMain, Apart
  <2> QED BY <1>3, <2>1, <2>2
<1> QED BY <1>6, <1>7, <1>8 DEF TypeOK

(* The steps.                                                              *)
LEMMA QuietScan ==
  ASSUME TypeOK, QuietInv, NEW i \in Slots, ServeSlot(i)
  PROVE  QuietInv'
<1>1. /\ mpc = "scan" /\ MainUp /\ UNCHANGED <<pc, slot, req, mixed, bare, intr>>
      /\ \A next : next = Resume(ready') => next \in {"select", "scan"}
  BY DEF ServeSlot, ServeEof, ServeWho, ServeCommand, ServeQuit, ServeUnknown, AtSlot, Resume,
     childVars, MainUp
<1>2. bare = {}
  BY <1>1, NoneBare
<1>3. CASE ServeEof(i) \/ ServeQuit(i) \/ ServeUnknown(i)
  <2>1. /\ mpc' \in {"select", "scan"}
        /\ sq' = sq \/ sq' = [sq EXCEPT ![i] = <<>>]
        /\ cq' = cq \/ cq' = [cq EXCEPT ![i] = <<>>]
    BY <1>3 DEF ServeEof, ServeQuit, ServeUnknown, AtSlot, Resume, CloseServerFifo
  <2>2. /\ \A j \in Slots : j # i => UNCHANGED <<sq[j], cq[j]>>
        /\ Leftover(i)' => Leftover(i)
    BY <2>1 DEF TypeOK, Leftover
  <2> QED BY <1>1, <1>2, <2>1, <2>2, QuietMain
<1>4. ASSUME NEW k \in {"who", "tell", "yell", "name"}, cq[i] = <<Cmd(k)>>
      PROVE  Exchanging(i) /\ Readers(i) # {}
  <2>1. <<Cmd(k)>> # <<>> /\ <<Cmd(k)>> # <<Cmd("quit")>>
    BY DEF Cmd
  <2> QED BY <1>1, <1>4, <2>1, Attended DEF QuietInv, Leftover
<1>5. CASE ServeWho(i)
  <2>1. /\ cq[i] = <<Cmd("who")>> /\ cq' = [cq EXCEPT ![i] = <<>>]
        /\ Write(i, Table(i), Resume(ready'))
    BY <1>5 DEF ServeWho
  <2>2. Exchanging(i) /\ mpc' = Resume(ready')
    BY <1>4, <2>1 DEF Write
  <2>3. \A j \in Slots : j # i => UNCHANGED <<sq[j], cq[j]>>
    BY <2>1, WriteElsewhere DEF TypeOK
  <2> QED BY <1>1, <1>2, <2>2, <2>3, QuietMain
<1>6. ASSUME NEW k \in {"tell", "yell", "name"}, ServeCommand(i, k)
      PROVE  QuietInv'
  <2>1. /\ cq[i] = <<Cmd(k)>> /\ cq' = [cq EXCEPT ![i] = <<>>]
        /\ Write(i, Ack(i), "arg") /\ cur' = i
    BY <1>6 DEF ServeCommand
  <2>2. Exchanging(i) /\ mpc' = "arg"
    BY <1>4, <2>1 DEF Write
  <2>3. \A j \in Slots : j # i => UNCHANGED <<sq[j], cq[j]>>
    BY <2>1, WriteElsewhere DEF TypeOK
  <2> QED BY <1>1, <1>2, <2>1, <2>2, <2>3, QuietMain
<1> QED BY <1>3, <1>5, <1>6 DEF ServeSlot

(* The child that main serves has died for want of an argument: the answer *)
(* finds nobody, and main ends.                                            *)
LEMMA QuietBereft ==
  ASSUME TypeOK, ChildSeats, QuietInv, MainUp, ServeArguments, mpc = "arg", ~Exchanging(cur)
  PROVE  QuietInv'
<1>1. PICK c \in Client : c \in bare /\ pc[c] = "gone"
  BY DEF QuietInv, Bereft
<1>2. Stranded(c)
  BY <1>1 DEF QuietInv
<1>3. Readers(cur) = {}
  <2> SUFFICES ASSUME NEW d \in Readers(cur) PROVE FALSE
    OBVIOUS
  <2>1. d \in Client /\ pc[d] \in Attached /\ slot[d] = cur /\ holder[cur] = d
    BY DEF Readers, ChildSeats, Started
  <2> QED BY <1>1, <1>2, <2>1 DEF Stranded, Attached, Serving
<1>4. ReadArgument \/ FinishName
  BY <1>2 DEF ServeArguments, FinishTell, FinishYell, Stranded
<1>5. mpc' = "dead" /\ UNCHANGED <<pc, bare>>
  BY <1>3, <1>4 DEF ReadArgument, FinishName, Write, childVars
<1> QED BY <1>1, <1>5 DEF QuietInv, MainUp, Bereft

LEMMA QuietArguments ==
  ASSUME TypeOK, ChildSeats, QuietInv, ExchangeInv, ServeArguments
  PROVE  QuietInv'
<1>1. /\ mpc = "arg" /\ MainUp /\ cur \in Slots /\ UNCHANGED <<pc, slot, req, bare>>
      /\ \E str : ReadString(str)
  BY DEF ServeArguments, ReadArgument, FinishTell, FinishYell, FinishName, childVars, MainUp, TypeOK
<1>2. CASE ~Exchanging(cur)
  BY <1>1, <1>2, QuietBereft
<1>3. CASE Exchanging(cur)
  <2>1. mcmd = "name" /\ bare = {} /\ Readers(cur) # {} /\ ~intr
    BY <1>1, <1>3, QuietArgument, Attended DEF QuietInv
  <2>2. ReadArgument \/ FinishName
    BY <2>1 DEF ServeArguments, FinishTell, FinishYell
  <2>3. /\ \E msg, next : Write(cur, msg, next) /\ next \in {"arg", "select", "scan"}
        /\ cur' = cur
    BY <2>2 DEF ReadArgument, FinishName, Resume
  <2>4. UNCHANGED <<mixed, intr>> /\ mpc' \in {"arg", "select", "scan"}
    BY <1>1, <2>1, <2>3 DEF ReadString, Write
  <2>5. \A j \in Slots : j # cur => UNCHANGED <<sq[j], cq[j]>>
    BY <1>1, <2>3, ReadElsewhere, WriteElsewhere
  <2> QED BY <1>1, <1>3, <2>1, <2>3, <2>4, <2>5, QuietMain
<1> QED BY <1>2, <1>3

LEMMA QuietOpen ==
  ASSUME TypeOK, QuietInv, MainUp, OpenFifos \/ Scan \/ Accept
  PROVE  QuietInv'
<1>1. bare = {}
  BY NoneBare DEF OpenFifos, OpenServerFifo, OpenClientFifo, Scan, Select, Accept
<1>2. CASE OpenFifos \/ Scan
  <2>1. /\ mpc' \in {"openC", "select", "scan"}
        /\ UNCHANGED <<slot, req, sq, cq, mixed, bare, intr>>
    BY <1>2 DEF OpenFifos, OpenServerFifo, OpenClientFifo, Scan, Select, Resume, mainVars
  <2>2. \/ pc' = pc
        \/ \E c \in Client : \E p \in {"openingW", "loop"} :
             pc[c] \in {"opening", "openingW"} /\ pc' = [pc EXCEPT ![c] = p]
    BY <1>2 DEF OpenFifos, OpenServerFifo, OpenClientFifo, Meet, Scan, Select
  <2>3. \A c \in Client : pc'[c] = pc[c] \/ {pc[c], pc'[c]} \cap {"ack", "reply", "gone"} = {}
    BY <2>2 DEF TypeOK
  <2> QED BY <1>1, <2>1, <2>3, QuietFrame
<1>3. CASE Accept /\ mpc' = "undefined"
  BY <1>3 DEF QuietInv, MainUp
<1>4. ASSUME Accept, NEW c \in Client, NEW i \in Slots, Accepts(c, i) PROVE QuietInv'
  <2>1. mpc' = "openS" /\ UNCHANGED <<req, sq, cq, mixed, bare, intr>>
    BY <1>4, AcceptCases DEF Accepts
  <2>2. /\ pc[c] = "pending" /\ pc'[c] \in {"opening", "login"}
        /\ \A d \in Client : d # c => pc'[d] = pc[d] /\ slot'[d] = slot[d]
    BY <1>4 DEF Accepts, TypeOK
  <2>3. \A j : Exchanging(j)' <=> Exchanging(j)
    BY <2>2 DEF Exchanging
  <2>4. \A j \in Slots : Leftover(j)' <=> Leftover(j)
    BY <2>1 DEF Leftover
  <2>5. \A d \in Client : pc'[d] \in {"ack", "reply"} => pc[d] \in {"ack", "reply"}
    BY <2>2
  <2> QED BY <1>1, <2>1, <2>3, <2>4, <2>5 DEF QuietInv, MainUp
<1> QED BY <1>2, <1>3, <1>4, AcceptCases

(* An acknowledgement finds main waiting for the name.  If the client has  *)
(* left it out, main goes on waiting, or has lost the child.               *)
LEMMA QuietSend ==
  ASSUME TypeOK, TableInv, ChildSeats, ExchangeInv, QuietInv, MainUp, ~Handler, NEW c \in Client,
         SendArgument(c) \/ DieSending(c)
  PROVE  QuietInv'
<1> DEFINE i == slot[c]
           w == Head(pend[c])
           rest == Tail(pend[c])
<1>1. /\ pc[c] = "ack" /\ pc[c] \in Started /\ i \in Slots /\ mixed = {} /\ ~intr
      /\ pend[c] \in Seq(ArgWord) /\ pend[c] # <<>> /\ sq[i] # <<>>
      /\ req[c] \in {"who", "name"}
  BY DEF SendArgument, DieSending, AckReadable, AckArrived, TypeOK, Started, Attached, Serving,
     QuietInv
<1>2. c \notin bare
  BY <1>1 DEF QuietInv, Stranded
<1>3. ExchangeOf(c)
  BY <1>1, <1>2 DEF ExchangeInv, Astray
<1>4. sq[i] = Ack(i) /\ cq[i] = <<>> /\ AtMain(c) /\ req[c] = "name"
  BY <1>1, <1>3 DEF ExchangeOf, AwaitsAck
<1>5. AckArrived(c) /\ holder[i] = c
  BY <1>1, <1>4, Units DEF AckArrived, ChildSeats
<1>6. bare = {}
  BY <1>2, <1>4, <1>5 DEF QuietInv, Stranded, AtMain
<1>7. MainReads(i)
  <2>1. ~Opening(i)
    BY <1>4 DEF AtMain, Opening
  <2>2. userId[i] = i
    BY <1>1 DEF ChildSeats
  <2> QED BY <1>1, <2>1, <2>2 DEF TableInv, MainReads
<1>8. rest = <<>>
  <2>1. Len(pend[c]) <= 1
    BY <1>1, <1>3, <1>4 DEF ExchangeOf, Arity, CmdNames
  <2>2. Len(pend[c]) \in Nat \ {0} /\ (Tail(pend[c]) = <<>> <=> Len(pend[c]) = 1)
    BY <1>1, Rest
  <2> QED BY <2>1, <2>2
<1>9. TakeUnit(i)[i] = <<>> /\ \A j \in Slots : j # i => TakeUnit(i)[j] = sq[j]
  BY <1>1, <1>4, Units DEF TakeUnit, TypeOK
<1>10. CASE SendArgument(c)
  <2>1. /\ pc' = [pc EXCEPT ![c] = "reply"] /\ req' = req /\ sq' = TakeUnit(i)
        /\ UNCHANGED <<mpc, mainVars, slot, holder, mixed, intr>>
        /\ cq' = IF w # Empty THEN [cq EXCEPT ![i] = Append(@, w)] ELSE cq
        /\ bare' = IF w = Empty THEN bare \cup {c} ELSE bare
    BY <1>4, <1>5, <1>8, <1>10 DEF SendArgument, Replied, Done, tableVars
  <2>2. /\ \A d \in Client : d # c => UNCHANGED req[d]
        /\ \A j \in Slots : j # i => UNCHANGED <<sq[j], cq[j]>>
    BY <1>9, <2>1 DEF TypeOK
  <2>3. c \in bare' => Stranded(c)'
    <3>1. c \in bare' => cq' = cq
      BY <1>2, <2>1
    <3> QED BY <1>1, <1>4, <1>5, <1>9, <2>1, <3>1 DEF Stranded, AtMain, mainVars, TypeOK
  <2> QED BY <1>1, <1>2, <2>1, <2>2, <2>3, QuietChild
<1>11. CASE DieSending(c)
  <2>1. w = Null
    BY <1>7, <1>11 DEF DieSending
  <2>2. /\ bare' = bare \cup {c} /\ Exit(c, cq)
        /\ UNCHANGED <<mpc, mainVars, slot, holder, mixed>>
    BY <1>11, <2>1 DEF DieSending, tableVars
  <2>3. /\ pc' = [pc EXCEPT ![c] = "gone"]
        /\ sq' = [sq EXCEPT ![i] = <<>>] \/ sq' = TakeUnit(i)
        /\ cq' = [cq EXCEPT ![i] = <<>>] \/ cq' = cq
        /\ req' = [req EXCEPT ![c] = "none"]
    BY <1>1, <2>2 DEF Exit
  <2>4. sq'[i] = <<>> /\ cq'[i] = <<>> /\ \A j \in Slots : j # i => UNCHANGED <<sq[j], cq[j]>>
    BY <1>1, <1>4, <1>9, <2>3 DEF TypeOK
  <2>5. Stranded(c)'
    BY <1>1, <1>4, <1>5, <2>2, <2>3, <2>4 DEF Stranded, AtMain, mainVars, TypeOK
  <2>6. UNCHANGED intr
    BY <1>1, <1>4, <2>2 DEF Exit, AtMain
  <2> QED BY <1>1, <1>2, <2>2, <2>3, <2>4, <2>5, <2>6, QuietChild DEF Leftover, TypeOK
<1> QED BY <1>10, <1>11

(* A child that ends between its commands leaves nothing but its "quit".   *)
LEMMA QuietExit ==
  ASSUME TypeOK, ChildSeats, QuietInv, MainUp, ~Handler, NEW c \in Client, pc[c] = "loop",
         NEW newcq, Exit(c, newcq), UNCHANGED <<mpc, mainVars, slot, holder, mixed, bare>>,
         newcq = cq \/ newcq = [cq EXCEPT ![slot[c]] = Append(@, Cmd("quit"))]
  PROVE  QuietInv'
<1> DEFINE i == slot[c]
<1>1. /\ i \in Slots /\ sq[i] = <<>> /\ cq[i] = <<>> /\ Apart(c) /\ c \notin bare
      /\ pc[c] \in Started
  BY QuietRest DEF Started, Attached, Serving
<1>2. /\ pc' = [pc EXCEPT ![c] = "gone"]
      /\ \A d \in Client : d # c => UNCHANGED req[d]
      /\ UNCHANGED intr
      /\ sq' = sq \/ sq' = [sq EXCEPT ![i] = <<>>]
      /\ cq' = [cq EXCEPT ![i] = <<>>] \/ cq' = newcq
  BY DEF Exit, TypeOK
<1>3. \A j \in Slots : j # i => UNCHANGED <<sq[j], cq[j]>>
  BY <1>2 DEF TypeOK
<1>4. sq'[i] = <<>> /\ cq'[i] \in {<<>>, <<Cmd("quit")>>}
  <2>1. newcq[i] \in {<<>>, <<Cmd("quit")>>}
    <3>1. Append(<<>>, Cmd("quit")) = <<Cmd("quit")>>
      OBVIOUS
    <3> QED BY ZenonT(30), <1>1, <3>1 DEF TypeOK
  <2>2. sq'[i] = <<>> /\ cq'[i] \in {<<>>, newcq[i]}
    BY <1>1, <1>2 DEF TypeOK
  <2> QED BY <2>1, <2>2
<1> QED BY <1>1, <1>2, <1>3, <1>4, QuietChild DEF Leftover

LEMMA QuietEnd ==
  ASSUME QuietClients, SessionsV2Assumption, TypeOK, ChildSeats, ExchangeInv, QuietInv, MainUp,
         NEW c \in Client, Quit(c) \/ Abrupt(c) \/ Leave(c)
  PROVE  QuietInv'
<1>1. ~Leave(c)
  BY DEF Leave, ExchangeInv, ExchangeOf, QuietInv, Stranded, Astray
<1>2. /\ pc[c] = "loop" /\ UNCHANGED <<mpc, mainVars, slot, holder, bare>>
      /\ Exit(c, cq) \/ Exit(c, [cq EXCEPT ![slot[c]] = Append(@, Cmd("quit"))])
  BY <1>1 DEF Quit, Abrupt, QuietClients, tableVars
<1>3. cq[slot[c]] = <<>>
  BY <1>2, QuietRest DEF Started, Attached, Serving
<1>4. UNCHANGED mixed
  BY <1>1, <1>3 DEF Quit, Abrupt
<1> QED BY <1>2, <1>4, QuietExit DEF SessionsV2Assumption

LEMMA QuietRequests ==
  ASSUME QuietClients, SessionsV2Assumption, TypeOK, ChildSeats, QuietInv, MainUp,
         NEW c \in Client, NEW k \in Commands \cap CmdNames, NEW args \in Args(k),
         Request(c, k, args)
  PROVE  QuietInv'
<1> DEFINE i == slot[c]
<1>1. /\ pc[c] = "loop" /\ pc[c] \in Started /\ c \notin bare
      /\ UNCHANGED <<mpc, mainVars, slot, holder, bare>>
      /\ i \in Slots /\ sq[i] = <<>> /\ cq[i] = <<>>
  BY QuietRest DEF Request, Started, Attached, Serving, tableVars
<1>2. UNCHANGED mixed
  BY <1>1 DEF Request
<1>3. CASE ~MainReads(i)
  BY <1>1, <1>2, <1>3, QuietExit DEF Request, SessionsV2Assumption
<1>4. CASE MainReads(i)
  <2>1. PICK p \in {"ack", "reply"} : pc' = [pc EXCEPT ![c] = p]
    BY <1>4 DEF Request
  <2>2. /\ req' = [req EXCEPT ![c] = k]
        /\ cq' = [cq EXCEPT ![i] = Append(@, Cmd(k))] /\ UNCHANGED <<sq, intr>>
    BY <1>4 DEF Request
  <2>3. /\ \A d \in Client : d # c => UNCHANGED req[d]
        /\ \A j \in Slots : j # i => UNCHANGED <<sq[j], cq[j]>>
        /\ req'[c] = k
    BY <2>2 DEF TypeOK
  <2>4. k \in {"who", "name"}
    BY DEF QuietClients, CmdNames
  <2> QED BY <1>1, <1>2, <2>1, <2>2, <2>3, <2>4, QuietChild
<1> QED BY <1>3, <1>4

LEMMA QuietReads ==
  ASSUME TypeOK, ChildSeats, ExchangeInv, QuietInv, MainUp, NEW c \in Client,
         ReadReply(c) \/ ReadMessages(c) \/ Shell(c) \/ ShellDone(c)
  PROVE  QuietInv'
<1> DEFINE i == slot[c]
<1>1. PICK p \in {"loop", "busy", "drain"} : pc' = [pc EXCEPT ![c] = p]
  BY DEF ReadReply, ReadMessages, Shell, ShellDone, Done
<1>2. /\ pc[c] \in {"reply", "loop", "drain", "busy"} /\ pc[c] \in Started /\ i \in Slots
      /\ UNCHANGED <<mpc, mainVars, slot, holder, mixed, bare, intr, cq>>
      /\ sq' = sq \/ sq' = [sq EXCEPT ![i] = <<>>]
      /\ req' = req \/ req' = [req EXCEPT ![c] = "none"]
  BY DEF ReadReply, ReadMessages, Shell, ShellDone, Done, tableVars, TypeOK, Started, Attached,
     Serving
<1>3. sq'[i] = <<>> /\ cq[i] = <<>> /\ Apart(c) /\ c \notin bare
  <2>1. CASE pc[c] = "reply"
    <3>1. ReadReply(c)
      BY <2>1 DEF ReadMessages, Shell, ShellDone
    <3>2. sq[i] # <<>> /\ sq' = [sq EXCEPT ![i] = <<>>]
      BY <3>1 DEF ReadReply
    <3>3. c \notin bare
      BY <3>2 DEF QuietInv, Stranded
    <3>4. ExchangeOf(c)
      BY <3>3 DEF ExchangeInv, QuietInv, Astray
    <3>5. cq[i] = <<>> /\ Apart(c)
      BY <2>1, <3>2, <3>4 DEF ExchangeOf, AwaitsReply, Apart
    <3> QED BY <1>2, <3>2, <3>3, <3>5 DEF TypeOK
  <2>2. CASE pc[c] # "reply"
    <3>1. sq[i] = <<>> /\ cq[i] = <<>> /\ Apart(c) /\ c \notin bare
      BY <1>2, <2>2, QuietRest
    <3> QED BY <1>2, <3>1 DEF TypeOK
  <2> QED BY <2>1, <2>2
<1>4. /\ \A d \in Client : d # c => UNCHANGED req[d]
      /\ \A j \in Slots : j # i => UNCHANGED <<sq[j], cq[j]>>
  BY <1>2 DEF TypeOK
<1> QED BY <1>1, <1>2, <1>3, <1>4, QuietChild DEF Leftover

LEMMA QuietOpens ==
  ASSUME TypeOK, QuietInv, MainUp, NEW c \in Client, Connect(c) \/ OpenEnds(c)
  PROVE  QuietInv'
<1>1. /\ UNCHANGED <<mpc, cur, mcmd, holder, slot, req, sq, cq, mixed, bare, intr>>
      /\ \E p \in {"pending", "openingW", "loop"} :
           pc[c] \in {"new", "opening", "openingW"} /\ pc' = [pc EXCEPT ![c] = p]
  BY DEF Connect, OpenEnds, ChildOpenServerFifo, ChildOpenClientFifo, mainVars, tableVars
<1>2. \A d \in Client : pc'[d] = pc[d] \/ {pc[d], pc'[d]} \cap {"ack", "reply", "gone"} = {}
  BY <1>1 DEF TypeOK
<1>3. mpc' \notin {"dead", "deliver"} /\ bare \subseteq Client
  BY <1>1 DEF QuietInv, MainUp, TypeOK
<1> QED BY <1>1, <1>2, <1>3, QuietFrame

(* Once main has ended nothing brings back the child it has lost.          *)
LEMMA QuietDown ==
  ASSUME TypeOK, QuietInv, ~MainUp, [NextV2]_vars
  PROVE  QuietInv'
<1>1. ~MainV2
  BY DEF MainUp, MainV2, Accept, OpenFifos, OpenServerFifo, OpenClientFifo, Scan, Select,
     ServeSlot, ServeEof, ServeWho, ServeCommand, ServeQuit, ServeUnknown, AtSlot, Deliver,
     ServeArguments, ReadArgument, FinishTell, FinishYell, FinishName
<1>2. ASSUME NEW c \in Client, Connect(c) \/ OpenEnds(c) \/ subServer(c) \/ TypeLine(c)
      PROVE  UNCHANGED mpc /\ (Bereft => Bereft')
  <2> USE DEF OpenEnds, subServer, TypeLine
  <2>1. UNCHANGED mpc /\ bare \subseteq bare' /\ pc[c] # "gone"
    BY <1>2 DEF Connect, ChildOpenServerFifo, ChildOpenClientFifo, SendArgument, DieSending,
       ReadReply, ReadMessages, Leave, Request, Shell, ShellDone, Quit, Abrupt
  <2>2. pc' = pc \/ \E p : pc' = [pc EXCEPT ![c] = p]
    <3>1. CASE SendArgument(c) \/ ReadReply(c) \/ ShellDone(c)
      BY <3>1 DEF SendArgument, ReadReply, ShellDone, Done
    <3>2. CASE \E k, args : Request(c, k, args)
      BY <3>2 DEF Request, Exit
    <3>3. CASE Quit(c) \/ Abrupt(c) \/ Leave(c) \/ DieSending(c)
      BY <3>3 DEF Quit, Abrupt, Leave, DieSending, Exit
    <3>4. CASE Connect(c) \/ OpenEnds(c) \/ ReadMessages(c) \/ Shell(c)
      BY <3>4 DEF Connect, ChildOpenServerFifo, ChildOpenClientFifo, ReadMessages, Shell
    <3> QED BY <1>2, <3>1, <3>2, <3>3, <3>4
  <2>3. \A d \in Client : d # c => UNCHANGED pc[d]
    BY <2>2 DEF TypeOK
  <2> QED BY <2>1, <2>3 DEF Bereft
<1>3. UNCHANGED mpc /\ (Bereft => Bereft')
  BY <1>1, <1>2 DEF NextV2, vars, childVars, Bereft
<1> QED BY <1>3 DEF QuietInv, MainUp

LEMMA QuietStep ==
  ASSUME QuietClients, SessionsV2Assumption, TypeOK, TableInv, ChildSeats, ExchangeInv, QuietInv,
         [NextV2]_vars
  PROVE  QuietInv'
<1>1. CASE ~MainUp
  BY <1>1, QuietDown
<1>2. CASE MainUp
  <2>1. mpc # "deliver" /\ ~Handler
    BY <1>2 DEF QuietInv, SessionsV2Assumption
  <2>2. CASE MainV2
    <3>1. \A i \in Slots : ~Deliver(i)
      BY <2>1 DEF Deliver
    <3> QED BY <1>2, <2>2, <3>1, QuietOpen, QuietScan, QuietArguments DEF MainV2
  <2>3. ASSUME NEW c \in Client, Connect(c) \/ OpenEnds(c) \/ subServer(c) \/ TypeLine(c)
        PROVE  QuietInv'
    BY <1>2, <2>1, <2>3, QuietOpens, QuietSend, QuietEnd, QuietRequests, QuietReads
    DEF subServer, TypeLine
  <2>4. CASE UNCHANGED vars
    <3>1. bare \subseteq Client /\ mpc' \notin {"dead", "deliver"}
      BY <1>2, <2>1, <2>4 DEF TypeOK, MainUp, vars
    <3> QED BY <1>2, <2>4, <3>1, QuietFrame DEF vars, mainVars, childVars, tableVars
  <2> QED BY <2>2, <2>3, <2>4 DEF NextV2
<1> QED BY <1>1, <1>2

(* Clients that only ask who is there, take a name and use the shell never *)
(* meet each other in the server's pipes, whenever they come and leave.    *)
(* Unless the table was full, main ends for one reason only: a client has  *)
(* typed `name` alone, and its child has died of the missing argument.     *)
THEOREM QuietClientsUndisturbed ==
  ASSUME SessionsV2Assumption, QuietClients
  PROVE  SpecV2 => []Undisturbed
<1>1. Init => TypeOK /\ TableInv /\ ChildSeats /\ ExchangeInv /\ QuietInv
  <2>1. Init => TypeOK
    BY TypeInit
  <2>2. Init => TableInv /\ ChildSeats
    BY DEF Init, TableInv, ChildSeats, Started, Attached, Serving, Opening, Slots
  <2>3. Init => ExchangeInv
    BY DEF Init, ExchangeInv, ExchangeOf
  <2>4. Init => QuietInv
    BY DEF Init, QuietInv, Leftover
  <2> QED BY <2>1, <2>2, <2>3, <2>4
<1>2. TypeOK /\ [NextV2]_vars => TypeOK'
  BY TypeStepV2
<1>3. TypeOK /\ TableInv /\ ChildSeats /\ ExchangeInv /\ [NextV2]_vars
        => TableInv' /\ ChildSeats' /\ ExchangeInv'
  BY AgreeStepV2 DEF QuietClients
<1>4. TypeOK /\ TableInv /\ ChildSeats /\ ExchangeInv /\ QuietInv /\ [NextV2]_vars => QuietInv'
  BY QuietStep
<1>5. QuietInv => Undisturbed
  BY DEF QuietInv, Undisturbed
<1> QED BY <1>1, <1>2, <1>3, <1>4, <1>5, PTL DEF SpecV2
=============================================================================
