------------------------- MODULE SharedRedisProofs -------------------------
(***************************************************************************)
(* Proofs about SharedRedis, for any number of processes and calls.        *)
(***************************************************************************)
EXTENDS SharedRedis, SequenceTheorems, FiniteSetTheorems, TLAPS

LEMMA InitTyped == Init => TypeOK
BY SharedRedisAssumption DEF Init, TypeOK, Proc

LEMMA CallTyped ==
  ASSUME TypeOK, NEW p \in Proc, Call(p)
  PROVE  TypeOK'
<1>1. Command(p) \in Commands /\ issued[p] + 1 \in Nat
  BY DEF TypeOK, Command, Commands
<1>2. Append(obuf[p], Command(p)) \in Seq(Commands)
  BY <1>1 DEF TypeOK
<1>3. CASE rbuf[p] # <<>>
  BY <1>1, <1>2, <1>3 DEF TypeOK, Call
<1>4. CASE rbuf[p] = <<>>
  <2>1. requests \o Append(obuf[p], Command(p)) \in Seq(Commands) /\ <<>> \in Seq(Commands)
    BY <1>2 DEF TypeOK
  <2> QED BY <1>1, <1>4, <2>1 DEF TypeOK, Call, Flush
<1> QED BY <1>3, <1>4

LEMMA ReturnTyped ==
  ASSUME TypeOK, NEW p \in Proc, Return(p)
  PROVE  TypeOK'
<1> DEFINE got == IF rbuf[p] # <<>> THEN rbuf[p] ELSE replies
<1>1. got \in Seq(Commands) /\ got # <<>> /\ <<>> \in Seq(Commands)
  BY DEF TypeOK, Return
<1>2. Head(got) \in Commands /\ Tail(got) \in Seq(Commands)
  BY <1>1, HeadTailProperties
<1> HIDE DEF got
<1>3. /\ pc' = [pc EXCEPT ![p] = "idle"]
      /\ rbuf' = [rbuf EXCEPT ![p] = Tail(got)]
      /\ answered' = [answered EXCEPT ![p] = Head(got)]
      /\ asked' = [asked EXCEPT ![p] = None]
      /\ replies' \in {replies, <<>>}
      /\ UNCHANGED <<overlap, obuf, requests, issued>>
  BY DEF Return, Keep, got
<1> QED BY <1>1, <1>2, <1>3 DEF TypeOK

LEMMA ServeTyped ==
  ASSUME TypeOK, Serve
  PROVE  TypeOK'
<1>1. Head(requests) \in Commands /\ Tail(requests) \in Seq(Commands)
  BY HeadTailProperties DEF TypeOK, Serve
<1>2. Append(replies, Head(requests)) \in Seq(Commands)
  BY <1>1 DEF TypeOK
<1> QED BY <1>1, <1>2 DEF TypeOK, Serve

LEMMA NextTyped == TypeOK /\ [Next]_vars => TypeOK'
<1> SUFFICES ASSUME TypeOK, [Next]_vars PROVE TypeOK'
  OBVIOUS
<1>1. CASE UNCHANGED vars
  BY <1>1 DEF TypeOK, vars
<1>2. ASSUME NEW c \in Child, Fork(c) \/ Exit(c) PROVE TypeOK'
  <2>1. Main \in Proc /\ c \in Proc
    BY DEF Proc
  <2> QED BY <1>2, <2>1 DEF TypeOK, Fork, Exit
<1> QED BY <1>1, <1>2, CallTyped, ReturnTyped, ServeTyped DEF Next

THEOREM TypeCorrect == Spec => []TypeOK
BY InitTyped, NextTyped, PTL DEF Spec

-----------------------------------------------------------------------------
(* Calls that do not overlap.  The socket holds the command or the reply   *)
(* of the one call under way; everything else is empty.                    *)

LEMMA InitClean == Init => CleanContexts
BY DEF Init, CleanContexts, InFlight

LEMMA CallClean ==
  ASSUME TypeOK, CleanContexts, ~overlap, NEW p \in Proc, Call(p)
  PROVE  CleanContexts'
<1>1. /\ \A q \in Proc : pc[q] # "read"
      /\ rbuf[p] = <<>> /\ obuf[p] = <<>> /\ requests = <<>> /\ replies = <<>>
  BY DEF Call, Alone, CleanContexts, InFlight
<1>2. /\ \A q \in Proc : obuf'[q] = <<>> /\ rbuf'[q] = <<>>
      /\ \A q \in Proc : q # p => pc'[q] = pc[q] /\ asked'[q] = asked[q]
      /\ pc'[p] = "read" /\ asked'[p] = Command(p)
      /\ replies' = <<>> /\ requests' = <<Command(p)>>
  BY <1>1 DEF Call, Flush, TypeOK, CleanContexts
<1>3. Command(p) # None
  BY SharedRedisAssumption DEF Command, Commands, TypeOK
<1> QED BY <1>1, <1>2, <1>3 DEF CleanContexts, InFlight

LEMMA ReturnClean ==
  ASSUME TypeOK, CleanContexts, ~overlap, NEW p \in Proc, Return(p)
  PROVE  CleanContexts' /\ replies = <<asked[p]>>
<1>1. rbuf[p] = <<>> /\ replies # <<>> /\ pc[p] = "read"
  BY DEF Return, CleanContexts
<1>2. /\ requests = <<>> /\ replies = <<asked[p]>>
      /\ \A q \in Proc : pc[q] = "read" => p = q
  BY <1>1 DEF CleanContexts, InFlight
<1>3. Keep(replies) = <<>>
  BY <1>2 DEF Keep
<1>4. /\ \A q \in Proc : q # p => pc'[q] = pc[q] /\ asked'[q] = asked[q]
      /\ pc'[p] = "idle" /\ asked'[p] = None
      /\ replies' = <<>> /\ requests' = <<>>
      /\ \A q \in Proc : obuf'[q] = <<>> /\ rbuf'[q] = <<>>
  BY <1>1, <1>2, <1>3 DEF Return, TypeOK, CleanContexts
<1> QED BY <1>2, <1>4 DEF CleanContexts, InFlight

LEMMA ServeClean ==
  ASSUME TypeOK, CleanContexts, Serve
  PROVE  CleanContexts'
<1> SUFFICES ASSUME ~overlap PROVE CleanContexts'
  BY DEF CleanContexts, Serve
<1>1. PICK p \in Proc : pc[p] = "read"
  BY DEF CleanContexts, InFlight, Serve
<1>2. requests = <<asked[p]>> /\ replies = <<>>
  BY <1>1 DEF CleanContexts, InFlight, Serve
<1>3. requests' = <<>> /\ replies' = <<asked[p]>>
  BY <1>2 DEF Serve
<1> QED BY <1>1, <1>3 DEF CleanContexts, InFlight, Serve

LEMMA NextClean == TypeOK /\ CleanContexts /\ [Next]_vars => CleanContexts'
<1> SUFFICES ASSUME TypeOK, CleanContexts, [Next]_vars, ~overlap PROVE CleanContexts'
  <2>1. [Next]_vars => overlap' = overlap
    BY DEF Next, vars, Call, Return, Fork, Exit, Serve
  <2> QED BY <2>1 DEF CleanContexts
<1>1. CASE UNCHANGED vars
  BY <1>1 DEF CleanContexts, InFlight, vars
<1>2. ASSUME NEW c \in Child, Fork(c) \/ Exit(c) PROVE CleanContexts'
  <2>1. Main \in Proc /\ c \in Proc /\ pc[c] # "read" /\ pc'[c] # "read"
    BY <1>2 DEF Proc, Fork, Exit, TypeOK
  <2>2. \A q \in Proc : q # c => pc'[q] = pc[q]
    BY <1>2 DEF Fork, Exit, TypeOK
  <2>3. \A q \in Proc : obuf'[q] = <<>> /\ rbuf'[q] = <<>>
    BY <1>2, <2>1 DEF Fork, Exit, TypeOK, CleanContexts
  <2>4. UNCHANGED <<asked, requests, replies>>
    BY <1>2 DEF Fork, Exit
  <2> QED BY <2>1, <2>2, <2>3, <2>4 DEF CleanContexts, InFlight
<1> QED BY <1>1, <1>2, CallClean, ReturnClean, ServeClean DEF Next

(* No call, no reply in any buffer or in the socket.                       *)
THEOREM ContextsClean == Spec => []CleanContexts
BY InitClean, NextClean, TypeCorrect, PTL DEF Spec

(* Calls that do not overlap return the reply to their own command:        *)
(* SharedRedis implements RedisCalls.                                      *)
THEOREM CallsImplemented == Spec => CallsSpec
<1>1. Init => Calls!Init
  BY DEF Init, Calls!Init, Unlapped
<1>2. ASSUME TypeOK, CleanContexts, [Next]_vars
      PROVE  [Calls!Next]_Calls!callVars
  <2> USE DEF Calls!callVars
  <2>1. overlap' = overlap
    BY <1>2 DEF Next, vars, Call, Return, Fork, Exit, Serve
  <2>2. CASE overlap
    BY <2>1, <2>2 DEF Unlapped
  <2>3. CASE ~overlap
    <3>1. TypeOK'
      BY <1>2, NextTyped
    <3>2. /\ Unlapped(asked) = asked /\ Unlapped(answered) = answered
          /\ Unlapped(asked)' = asked' /\ Unlapped(answered)' = answered'
      BY <1>2, <2>1, <2>3, <3>1 DEF TypeOK, Unlapped
    <3>3. CASE UNCHANGED vars
      BY <3>2, <3>3 DEF vars
    <3>4. ASSUME NEW p \in Proc, Call(p) PROVE [Calls!Next]_Calls!callVars
      <4>1. asked[p] = None
        BY <1>2, <2>3, <3>4 DEF Call, CleanContexts
      <4>2. Command(p) \in {p} \X (0 .. MaxCalls)
        BY <1>2, <3>4, SharedRedisAssumption DEF Command, Call, TypeOK
      <4>3. Calls!Call(p, Command(p))
        BY <3>2, <3>4, <4>1 DEF Calls!Call, Call
      <4> QED BY <4>2, <4>3 DEF Calls!Next
    <3>5. ASSUME NEW p \in Proc, Return(p) PROVE [Calls!Next]_Calls!callVars
      <4>1. replies = <<asked[p]>> /\ rbuf[p] = <<>> /\ asked[p] # None
        BY <1>2, <2>3, <3>5, ReturnClean DEF CleanContexts, Return
      <4>2. Calls!Return(p)
        BY <3>2, <3>5, <4>1 DEF Calls!Return, Return
      <4> QED BY <4>2 DEF Calls!Next
    <3>6. CASE Serve \/ \E c \in Child : Fork(c) \/ Exit(c)
      BY <3>2, <3>6 DEF Serve, Fork, Exit
    <3> QED BY <1>2, <3>3, <3>4, <3>5, <3>6 DEF Next
  <2> QED BY <2>2, <2>3
<1> QED BY <1>1, <1>2, TypeCorrect, ContextsClean, PTL DEF Spec, CallsSpec, Calls!Spec

-----------------------------------------------------------------------------
(* Calls that do overlap.  There are never more calls under way than       *)
(* commands and replies about: in the socket, or kept in the buffers of    *)
(* some context, where they are numbered here.  What is kept may be more,  *)
(* since fork() copies it.                                                 *)
Reading == {p \in Proc : pc[p] = "read"}
Stock(p) == Len(obuf[p]) + Len(rbuf[p])
Kept == {t \in Proc \X Nat : t[2] \in 1 .. Stock(t[1])}

Covered ==
  /\ IsFiniteSet(Reading)
  /\ \E T \in SUBSET Kept :
       /\ IsFiniteSet(T)
       /\ Cardinality(Reading) <= Len(requests) + Len(replies) + Cardinality(T)

(* A call that waits for the socket has sent all that it had.              *)
AllSent == \A p \in Proc : pc[p] = "read" => rbuf[p] # <<>> \/ obuf[p] = <<>>

LEMMA Row ==
  ASSUME NEW p, NEW k \in Nat
  PROVE  IsFiniteSet({p} \X (1 .. k)) /\ Cardinality({p} \X (1 .. k)) = k
<1>1. IsFiniteSet({p}) /\ Cardinality({p}) = 1
  BY FS_Singleton
<1>2. IsFiniteSet(1 .. k) /\ Cardinality(1 .. k) = k
  BY FS_Interval
<1>3. /\ IsFiniteSet({p} \X (1 .. k))
      /\ Cardinality({p} \X (1 .. k)) = Cardinality({p}) * Cardinality(1 .. k)
  BY <1>1, <1>2, FS_Product
<1> QED BY <1>1, <1>2, <1>3

LEMMA Lengths ==
  ASSUME TypeOK
  PROVE  /\ Len(requests) \in Nat /\ Len(replies) \in Nat
         /\ \A p \in Proc : Stock(p) \in Nat /\ Len(obuf[p]) \in Nat /\ Len(rbuf[p]) \in Nat
BY DEF TypeOK, Stock

LEMMA SentStep == TypeOK /\ AllSent /\ [Next]_vars => AllSent'
<1> SUFFICES ASSUME TypeOK, AllSent, [Next]_vars PROVE AllSent'
  OBVIOUS
<1>1. ASSUME NEW p \in Proc, Call(p) \/ Return(p) PROVE AllSent'
  BY <1>1 DEF Call, Return, AllSent, TypeOK
<1>2. ASSUME NEW c \in Child, Fork(c) \/ Exit(c) PROVE AllSent'
  BY <1>2 DEF Fork, Exit, AllSent, TypeOK, Proc
<1>3. CASE Serve \/ UNCHANGED vars
  BY <1>3 DEF Serve, vars, AllSent
<1> QED BY <1>1, <1>2, <1>3 DEF Next

(* Nothing taken away, and no call begun.                                  *)
LEMMA CoveredFrame ==
  ASSUME Covered, Reading' = Reading, Kept \subseteq Kept',
         Len(requests') + Len(replies') = Len(requests) + Len(replies)
  PROVE  Covered'
BY DEF Covered

LEMMA CallReads ==
  ASSUME TypeOK, Covered, NEW p \in Proc, Call(p)
  PROVE  IsFiniteSet(Reading') /\ Cardinality(Reading') = Cardinality(Reading) + 1
<1>1. Reading' = Reading \cup {p} /\ p \notin Reading
  BY DEF Call, Reading, TypeOK
<1> QED BY <1>1, FS_AddElement DEF Covered

LEMMA ReturnReads ==
  ASSUME TypeOK, Covered, NEW p \in Proc, Return(p)
  PROVE  IsFiniteSet(Reading') /\ Cardinality(Reading') = Cardinality(Reading) - 1
<1>1. Reading' = Reading \ {p} /\ p \in Reading
  BY DEF Return, Reading, TypeOK
<1> QED BY <1>1, FS_RemoveElement DEF Covered

LEMMA ReadingCounted == Covered => Cardinality(Reading) \in Nat
BY FS_CardinalityType DEF Covered

(* A call that finds a reply keeps its command; one that does not sends    *)
(* what it has kept, and its command.                                      *)
LEMMA CallCovered ==
  ASSUME TypeOK, Covered, NEW p \in Proc, Call(p)
  PROVE  Covered'
<1>1. PICK T \in SUBSET Kept :
        /\ IsFiniteSet(T)
        /\ Cardinality(Reading) <= Len(requests) + Len(replies) + Cardinality(T)
  BY DEF Covered
<1>2. Cardinality(T) \in Nat /\ Cardinality(Reading) \in Nat
  BY <1>1, ReadingCounted, FS_CardinalityType
<1>3. /\ Command(p) \in Commands /\ UNCHANGED <<rbuf, replies>>
      /\ obuf[p] \in Seq(Commands) /\ requests \in Seq(Commands) /\ replies \in Seq(Commands)
  BY DEF TypeOK, Command, Commands, Call
<1>4. Len(Append(obuf[p], Command(p))) = Len(obuf[p]) + 1
  BY <1>3
<1>5. CASE rbuf[p] # <<>>
  <2> DEFINE x == <<p, Stock(p) + 1>>
  <2>1. /\ obuf' = [obuf EXCEPT ![p] = Append(@, Command(p))] /\ UNCHANGED requests
    BY <1>5 DEF Call
  <2>2. Stock(p)' = Stock(p) + 1 /\ \A q \in Proc : q # p => Stock(q)' = Stock(q)
    BY <1>3, <1>4, <2>1, Lengths DEF Stock, TypeOK
  <2>3. x \notin Kept /\ x \in Kept' /\ Kept \subseteq Kept'
    BY <2>2, Lengths DEF Kept
  <2>4. /\ T \cup {x} \in SUBSET Kept' /\ IsFiniteSet(T \cup {x})
        /\ Cardinality(T \cup {x}) = Cardinality(T) + 1
    BY <1>1, <2>3, FS_AddElement
  <2> HIDE DEF x
  <2>5. Cardinality(Reading') <= Len(requests') + Len(replies') + Cardinality(T \cup {x})
    BY <1>1, <1>2, <1>3, <2>1, <2>4, CallReads, Lengths
  <2> QED BY <2>4, <2>5, CallReads DEF Covered
<1>6. CASE rbuf[p] = <<>>
  <2> DEFINE row == {p} \X (1 .. Len(obuf[p]))
  <2>1. /\ requests' = requests \o Append(obuf[p], Command(p))
        /\ obuf' = [obuf EXCEPT ![p] = <<>>]
    BY <1>6 DEF Call, Flush
  <2>2. Len(requests') = Len(requests) + Len(obuf[p]) + 1
    BY <1>3, <1>4, <2>1
  <2>3. /\ Stock(p) = Len(obuf[p])
        /\ \A q \in Proc : q # p => Stock(q)' = Stock(q)
    BY <1>3, <1>6, <2>1, Lengths DEF Stock, TypeOK
  <2>4. T \ row \in SUBSET Kept' /\ T \cap row \subseteq row
    <3>1. \A t \in Kept : t \in row \/ t \in Kept'
      BY <2>3 DEF Kept
    <3> QED BY <3>1
  <2>5. IsFiniteSet(row) /\ Cardinality(row) = Len(obuf[p])
    BY Row, Lengths
  <2>6. /\ IsFiniteSet(T \ row) /\ Cardinality(T \ row) \in Nat
        /\ Cardinality(T) <= Cardinality(T \ row) + Len(obuf[p])
    <3>1. /\ IsFiniteSet(T \ row)
          /\ Cardinality(T \ row) = Cardinality(T) - Cardinality(T \cap row)
      BY <1>1, FS_Difference
    <3>2. /\ IsFiniteSet(T \cap row) /\ Cardinality(T \cap row) \in Nat
          /\ Cardinality(T \cap row) <= Cardinality(row)
      BY <2>4, <2>5, FS_Subset, FS_CardinalityType
    <3>3. Cardinality(T \ row) \in Nat
      BY <3>1, FS_CardinalityType
    <3> QED BY <1>2, <2>5, <3>1, <3>2, <3>3, Lengths
  <2> HIDE DEF row
  <2>7. Cardinality(Reading') <= Len(requests') + Len(replies') + Cardinality(T \ row)
    BY SMTT(30), <1>1, <1>2, <1>3, <2>2, <2>6, CallReads, Lengths
  <2> QED BY <2>4, <2>6, <2>7, CallReads DEF Covered
<1> QED BY <1>5, <1>6

(* A call that returns takes one reply, and leaves the others.             *)
LEMMA ReturnCovered ==
  ASSUME TypeOK, AllSent, Covered, NEW p \in Proc, Return(p)
  PROVE  Covered'
<1>1. PICK T \in SUBSET Kept :
        /\ IsFiniteSet(T)
        /\ Cardinality(Reading) <= Len(requests) + Len(replies) + Cardinality(T)
  BY DEF Covered
<1>2. Cardinality(T) \in Nat /\ Cardinality(Reading) \in Nat
  BY <1>1, ReadingCounted, FS_CardinalityType
<1>3. /\ rbuf[p] \in Seq(Commands) /\ replies \in Seq(Commands)
      /\ UNCHANGED <<obuf, requests>>
  BY DEF TypeOK, Return
<1>4. CASE rbuf[p] # <<>>
  <2> DEFINE x == <<p, Stock(p)>>
  <2>1. rbuf' = [rbuf EXCEPT ![p] = Tail(rbuf[p])] /\ UNCHANGED replies
    BY <1>4 DEF Return, Keep
  <2>2. Len(Tail(rbuf[p])) = Len(rbuf[p]) - 1
    BY <1>3, <1>4, HeadTailProperties, EmptySeq, LenProperties
  <2>3. Stock(p)' = Stock(p) - 1 /\ \A q \in Proc : q # p => Stock(q)' = Stock(q)
    <3>1. rbuf'[p] = Tail(rbuf[p]) /\ \A q \in Proc : q # p => rbuf'[q] = rbuf[q]
      BY <2>1 DEF TypeOK
    <3>2. Len(rbuf'[p]) = Len(rbuf[p]) - 1
      BY <2>2, <3>1
    <3>3. Len(obuf[p]) \in Nat /\ Len(rbuf[p]) \in Nat /\ obuf' = obuf
      BY <1>3, Lengths
    <3>4. Stock(p)' = Stock(p) - 1
      BY <3>2, <3>3 DEF Stock
    <3>5. \A q \in Proc : q # p => Stock(q)' = Stock(q)
      BY <3>1, <3>3 DEF Stock
    <3> QED BY <3>4, <3>5
  <2>4. T \ {x} \in SUBSET Kept'
    <3>1. \A t \in Kept : t = x \/ t \in Kept'
      BY <2>3, Lengths DEF Kept
    <3> QED BY <3>1
  <2>5. IsFiniteSet(T \ {x}) /\ Cardinality(T \ {x}) >= Cardinality(T) - 1
        /\ Cardinality(T \ {x}) \in Nat
    <3>1. /\ IsFiniteSet(T \ {x})
          /\ Cardinality(T \ {x}) = IF x \in T THEN Cardinality(T) - 1 ELSE Cardinality(T)
      BY <1>1, FS_RemoveElement
    <3>2. Cardinality(T \ {x}) \in Nat
      BY <3>1, FS_CardinalityType
    <3> HIDE DEF x
    <3> QED BY <1>2, <3>1, <3>2
  <2> HIDE DEF x
  <2>6. Cardinality(Reading') <= Len(requests') + Len(replies') + Cardinality(T \ {x})
    BY <1>1, <1>2, <1>3, <2>1, <2>5, ReturnReads, Lengths
  <2> QED BY <2>4, <2>5, <2>6, ReturnReads DEF Covered
<1>5. CASE rbuf[p] = <<>>
  <2> DEFINE k == Len(replies) - 1
             row == {p} \X (1 .. k)
  <2>1. /\ replies # <<>> /\ replies' = <<>> /\ rbuf' = [rbuf EXCEPT ![p] = Tail(replies)]
        /\ obuf[p] = <<>>
    BY <1>5 DEF Return, Keep, AllSent
  <2>2. Len(Tail(replies)) = k /\ k \in Nat
    BY <1>3, <2>1, HeadTailProperties, EmptySeq, LenProperties
  <2>3. /\ Stock(p) = 0 /\ Stock(p)' = k
        /\ \A q \in Proc : q # p => Stock(q)' = Stock(q)
    BY <1>3, <1>5, <2>1, <2>2, Lengths DEF Stock, TypeOK
  <2> HIDE DEF k
  <2>4. T \cup row \in SUBSET Kept' /\ T \cap row = {}
    <3>1. \A t \in Kept : t \in Kept' /\ t \notin row
      BY <2>3, Lengths DEF Kept
    <3>2. \A t \in row : t \in Kept'
      BY <2>2, <2>3 DEF Kept
    <3> QED BY <3>1, <3>2
  <2>5. IsFiniteSet(row) /\ Cardinality(row) = k
    BY <2>2, Row
  <2>6. IsFiniteSet(T \cup row) /\ Cardinality(T \cup row) = Cardinality(T) + k
    <3>1. /\ IsFiniteSet(T \cup row)
          /\ Cardinality(T \cup row) = Cardinality(T) + Cardinality(row) - Cardinality(T \cap row)
      BY <1>1, <2>5, FS_Union
    <3>2. Cardinality(T \cap row) = 0
      BY <2>4, FS_EmptySet
    <3> QED BY <1>2, <2>2, <2>5, <3>1, <3>2
  <2> HIDE DEF row
  <2>7. Len(replies) = k + 1 /\ Len(replies') = 0
    BY <2>1, Lengths DEF k
  <2>8. Cardinality(Reading') <= Len(requests') + Len(replies') + Cardinality(T \cup row)
    BY <1>1, <1>2, <1>3, <2>2, <2>6, <2>7, ReturnReads, Lengths
  <2> QED BY <2>4, <2>6, <2>8, ReturnReads DEF Covered
<1> QED BY <1>4, <1>5

(* A child that has not been forked keeps nothing.                         *)
Unborn == \A c \in Child : pc[c] = "unborn" => obuf[c] = <<>> /\ rbuf[c] = <<>>

LEMMA UnbornStep == TypeOK /\ Unborn /\ [Next]_vars => Unborn'
<1> SUFFICES ASSUME TypeOK, Unborn, [Next]_vars PROVE Unborn'
  OBVIOUS
<1>1. ASSUME NEW p \in Proc, Call(p) \/ Return(p) PROVE Unborn'
  BY <1>1 DEF Call, Return, Unborn, TypeOK, Proc
<1>2. ASSUME NEW c \in Child, Fork(c) \/ Exit(c) PROVE Unborn'
  BY <1>2 DEF Fork, Exit, Unborn, TypeOK, Proc
<1>3. CASE Serve \/ UNCHANGED vars
  BY <1>3 DEF Serve, vars, Unborn
<1> QED BY <1>1, <1>2, <1>3 DEF Next

LEMMA CoveredStep ==
  ASSUME TypeOK, AllSent, Unborn, Covered, [Next]_vars
  PROVE  Covered'
<1>1. ASSUME NEW c \in Child, Fork(c) PROVE Covered'
  <2>1. /\ c \in Proc /\ Main \in Proc /\ pc[c] = "unborn" /\ pc' = [pc EXCEPT ![c] = "idle"]
        /\ \A q \in Proc : q # c => obuf'[q] = obuf[q] /\ rbuf'[q] = rbuf[q]
    BY <1>1 DEF Fork, Proc, TypeOK
  <2>2. Reading' = Reading
    BY <2>1 DEF Reading, TypeOK
  <2>3. Stock(c) = 0 /\ \A q \in Proc : q # c => Stock(q)' = Stock(q)
    <3>1. obuf[c] = <<>> /\ rbuf[c] = <<>> /\ Len(<<>>) = 0
      BY <2>1 DEF Unborn
    <3>2. Stock(c) = 0
      BY <3>1 DEF Stock
    <3>3. \A q \in Proc : q # c => Stock(q)' = Stock(q)
      BY <2>1 DEF Stock
    <3> QED BY <3>2, <3>3
  <2>4. Kept \subseteq Kept'
    BY <2>3 DEF Kept
  <2> QED BY <1>1, <2>2, <2>4, CoveredFrame DEF Fork
<1>2. ASSUME NEW c \in Child, Exit(c) PROVE Covered'
  <2>1. Reading' = Reading
    BY <1>2 DEF Exit, Reading, TypeOK, Proc
  <2> QED BY <1>2, <2>1, CoveredFrame DEF Exit, Kept, Stock
<1>3. CASE Serve
  <2>1. /\ requests \in Seq(Commands) /\ requests # <<>> /\ replies \in Seq(Commands)
        /\ requests' = Tail(requests) /\ replies' = Append(replies, Head(requests))
    BY <1>3 DEF Serve, TypeOK
  <2>2. Len(Tail(requests)) = Len(requests) - 1 /\ Head(requests) \in Commands
    BY <2>1, HeadTailProperties
  <2>3. Len(Append(replies, Head(requests))) = Len(replies) + 1
    BY <2>1, <2>2
  <2>4. Len(requests') + Len(replies') = Len(requests) + Len(replies)
    BY <2>1, <2>2, <2>3, Lengths
  <2> QED BY <1>3, <2>4, CoveredFrame DEF Serve, Reading, Kept, Stock
<1>4. CASE UNCHANGED vars
  BY <1>4, CoveredFrame DEF vars, Reading, Kept, Stock
<1> QED BY <1>1, <1>2, <1>3, <1>4, CallCovered, ReturnCovered DEF Next

(* Calls that overlap.  A call that finds nothing to read, with Redis and  *)
(* the socket idle, waits for a reply that another process has taken, or   *)
(* for one to a command that another process has kept back: nothing is     *)
(* ever lost, though it may be in the wrong hands for good.                *)
THEOREM AnswersAccountedFor == Spec => []AnswerElsewhere
<1>1. Init => AllSent /\ Unborn /\ Covered
  <2>1. Init => AllSent /\ Unborn
    BY DEF Init, AllSent, Unborn, Proc
  <2>2. ASSUME Init PROVE Covered
    <3>1. Reading = {}
      BY <2>2 DEF Init, Reading
    <3>2. {} \in SUBSET Kept /\ IsFiniteSet({}) /\ Cardinality({}) = 0
      BY FS_EmptySet
    <3>3. Len(requests) = 0 /\ Len(replies) = 0
      BY <2>2 DEF Init
    <3>4. Cardinality(Reading) <= Len(requests) + Len(replies) + Cardinality({})
      BY <3>1, <3>2, <3>3
    <3> QED BY <3>1, <3>2, <3>4 DEF Covered
  <2> QED BY <2>1, <2>2
<1>2. ASSUME TypeOK, AllSent, Covered PROVE AnswerElsewhere
  <2> SUFFICES ASSUME NEW p \in Proc, pc[p] = "read", rbuf[p] = <<>>, requests = <<>>, replies = <<>>
               PROVE  \E q \in Proc \ {p} : rbuf[q] # <<>> \/ obuf[q] # <<>>
    BY DEF AnswerElsewhere, Empty
  <2>1. PICK T \in SUBSET Kept :
          /\ IsFiniteSet(T)
          /\ Cardinality(Reading) <= Len(requests) + Len(replies) + Cardinality(T)
    BY <1>2 DEF Covered
  <2>2. Cardinality(Reading) \in Nat \ {0}
    <3>1. IsFiniteSet(Reading) /\ Reading # {}
      BY <1>2 DEF Covered, Reading
    <3> QED BY <3>1, FS_EmptySet, FS_CardinalityType
  <2>3. T # {}
    <3>1. Cardinality({}) = 0 /\ Len(<<>>) = 0
      BY FS_EmptySet
    <3>2. Len(requests) = 0 /\ Len(replies) = 0
      BY <3>1
    <3>3. T = {} => Cardinality(T) = 0
      BY <3>1
    <3> QED BY <2>1, <2>2, <3>2, <3>3
  <2>4. PICK t \in T : t[1] \in Proc /\ t[2] \in 1 .. Stock(t[1])
    BY <2>3 DEF Kept
  <2>5. t[1] # p
    <3>1. obuf[p] = <<>>
      BY <1>2 DEF AllSent
    <3>2. Stock(p) = 0
      BY <3>1 DEF Stock
    <3> QED BY <2>4, <3>2
  <2>6. rbuf[t[1]] # <<>> \/ obuf[t[1]] # <<>>
    <3>1. Len(<<>>) = 0
      OBVIOUS
    <3>2. rbuf[t[1]] = <<>> /\ obuf[t[1]] = <<>> => Stock(t[1]) = 0
      BY <3>1 DEF Stock
    <3> QED BY <2>4, <3>2
  <2> QED BY <2>4, <2>5, <2>6
<1> QED BY <1>1, <1>2, SentStep, UnbornStep, CoveredStep, TypeCorrect, PTL DEF Spec
=============================================================================
