--------------------------- MODULE ContextProofs ---------------------------
(***************************************************************************)
(* Proofs about Context and the modules it is built from.  For any limits  *)
(* and any content a string's length never outgrows the header field that  *)
(* holds it, so that nothing is lost when it grows, is cut or changes its  *)
(* type.  For any arguments the command that is built has the length that  *)
(* was computed for it, and no command is the beginning of another.  For   *)
(* any options, calls, pieces and failures no socket is lost, and the      *)
(* server reads the commands that the program gave.  The parser hands out  *)
(* the same replies and errors however its bytes are cut into pieces, and  *)
(* whatever it is sent keeps within its buffer and its stack.              *)
(***************************************************************************)
EXTENDS Context, SequenceTheorems, FiniteSetTheorems, TLAPS

-----------------------------------------------------------------------------
(* Strings of sds.c.                                                       *)

(* SdsOK, and what type 1, whose field is a bit narrower, holds at most.   *)
Sound(s, Byte) ==
  /\ s = [type |-> s.type, alloc |-> s.alloc, data |-> s.data]
  /\ s.type \in 1..5 /\ s.alloc \in Nat /\ s.data \in Seq(Byte)
  /\ Len(s.data) <= s.alloc
  /\ s.type = 1 => s.alloc < Limits[1]
  /\ s.type \in 2..4 => s.alloc <= Limits[s.type]

LEMMA LimitsGrow ==
  /\ \A t \in 1..4 : Limits[t] \in Nat \ {0}
  /\ Limits[1] < Limits[2] /\ Limits[2] < Limits[3] /\ Limits[3] < Limits[4]
BY SdsAssumption

LEMMA Mod == ASSUME NEW n \in Nat, NEW m \in Nat \ {0}, n < m PROVE n % m = n
OBVIOUS

(* The type for a size is one whose limit is beyond it.                    *)
LEMMA ReqType ==
  ASSUME NEW size \in Nat
  PROVE  /\ sdsReqType(size) \in 1..5
         /\ sdsReqType(size) < 5 => size < Limits[sdsReqType(size)]
<1> DEFINE Fits(t) == /\ t < 5 => size < Limits[t]
                      /\ \A u \in 1..4 : u < t => size >= Limits[u]
<1>1. \E t \in 1..5 : Fits(t)
  <2>1. CASE size < Limits[1]
    BY <2>1, LimitsGrow
  <2>2. CASE size >= Limits[1] /\ size < Limits[2]
    BY <2>2, LimitsGrow
  <2>3. CASE size >= Limits[2] /\ size < Limits[3]
    BY <2>3, LimitsGrow
  <2>4. CASE size >= Limits[3] /\ size < Limits[4]
    BY <2>4, LimitsGrow
  <2>5. CASE size >= Limits[4]
    BY <2>5, LimitsGrow
  <2> QED BY <2>1, <2>2, <2>3, <2>4, <2>5, LimitsGrow
<1>2. sdsReqType(size) = CHOOSE t \in 1..5 : Fits(t)
  BY DEF sdsReqType
<1> QED BY <1>1, <1>2

(* A length that is allocated for is a length that the field can hold.     *)
LEMMA FieldHolds ==
  ASSUME NEW t \in 1..5, NEW n \in Nat,
         t = 1 => n < Limits[1],
         t \in 2..4 => n <= Limits[t]
  PROVE  Field(t, n) = n
<1>1. CASE t = 5
  BY <1>1 DEF Field
<1>2. CASE t = 1
  BY <1>2, Mod, LimitsGrow DEF Field
<1>3. CASE t \in 2..4
  <2>1. Limits[t] + 1 \in Nat \ {0} /\ n < Limits[t] + 1
    BY <1>3, LimitsGrow
  <2>2. n % (Limits[t] + 1) = n
    BY <2>1, Mod
  <2> QED BY <1>3, <2>2 DEF Field
<1> QED BY <1>1, <1>2, <1>3

(* A new string is its initial content.                                    *)
LEMMA NewLen ==
  ASSUME NEW Byte, NEW init \in Seq(Byte)
  PROVE  Sound(sdsnewlen(init), Byte) /\ sdsnewlen(init).data = init
<1> DEFINE t == sdsReqType(Len(init))
           type == IF t = 1 /\ init = <<>> THEN 2 ELSE t
<1>1. Len(init) \in Nat
  OBVIOUS
<1>2. t \in 1..5 /\ (t < 5 => Len(init) < Limits[t])
  BY <1>1, ReqType
<1>3. sdsnewlen(init) = [type |-> type, alloc |-> Len(init), data |-> init]
  BY DEF sdsnewlen
<1> HIDE DEF t
<1> QED BY <1>1, <1>2, <1>3, LimitsGrow DEF Sound

(* sdsMakeRoomFor() makes the room, whatever type the string then needs,   *)
(* and keeps the content; with new memory comes a field for its size.      *)
LEMMA MakeRoom ==
  ASSUME NEW Byte, NEW s, Sound(s, Byte), NEW n \in Nat
  PROVE  LET r == sdsMakeRoomFor(s, n)
         IN  /\ Sound(r, Byte) /\ r.data = s.data
             /\ Len(s.data) + n <= r.alloc
             /\ sdsavail(s) < n => r.type # 1
             /\ s.type # 1 => r.type # 1
<1>1. CASE sdsavail(s) >= n
  <2>1. sdsMakeRoomFor(s, n) = s
    BY <1>1 DEF sdsMakeRoomFor
  <2>2. Len(s.data) + n <= s.alloc /\ ~(sdsavail(s) < n)
    BY <1>1 DEF Sound, sdsavail
  <2> QED BY <2>1, <2>2
<1>2. CASE ~(sdsavail(s) >= n)
  <2> DEFINE reqlen == Len(s.data) + n
             newlen == IF reqlen < MaxPrealloc THEN 2 * reqlen ELSE reqlen + MaxPrealloc
             t == sdsReqType(newlen)
             type == IF t = 1 THEN 2 ELSE t
  <2>1. Len(s.data) \in Nat /\ reqlen \in Nat /\ newlen \in Nat /\ reqlen <= newlen
    BY SMTT(30), SdsAssumption DEF Sound
  <2>2. t \in 1..5 /\ (t < 5 => newlen < Limits[t])
    BY <2>1, ReqType
  <2>3. sdsMakeRoomFor(s, n) = [type |-> type, alloc |-> Field(type, newlen),
                                data |-> SubSeq(s.data, 1, Field(type, Len(s.data)))]
    BY <1>2 DEF sdsMakeRoomFor
  <2> HIDE DEF newlen, t
  <2>4. type \in 2..5 /\ (type \in 2..4 => newlen <= Limits[type])
    BY <2>1, <2>2, LimitsGrow
  <2>5. Len(s.data) <= newlen
    BY <2>1
  <2> HIDE DEF type
  <2>6. Field(type, newlen) = newlen
    BY <2>1, <2>4, FieldHolds
  <2>7. Field(type, Len(s.data)) = Len(s.data)
    <3>1. type \in 2..4 => Len(s.data) <= Limits[type]
      BY <2>1, <2>4, <2>5, LimitsGrow
    <3> QED BY <2>1, <2>4, <3>1, FieldHolds
  <2>8. SubSeq(s.data, 1, Len(s.data)) = s.data
    BY SubSeqFull DEF Sound
  <2>9. sdsMakeRoomFor(s, n) = [type |-> type, alloc |-> newlen, data |-> s.data]
    BY <2>3, <2>6, <2>7, <2>8
  <2> QED BY <2>1, <2>4, <2>5, <2>9 DEF Sound
<1> QED BY <1>1, <1>2

(* Setting the length of a string whose memory was enlarged keeps all.     *)
LEMMA SetLenHolds ==
  ASSUME NEW Byte, NEW s, Sound(s, Byte), NEW data \in Seq(Byte), Len(data) <= s.alloc
  PROVE  Sound(SetLen(s, data), Byte) /\ SetLen(s, data).data = data
<1>1. Len(data) \in Nat
  OBVIOUS
<1>2. Field(s.type, Len(data)) = Len(data)
  <2>1. s.type \in 1..5 /\ (s.type = 1 => Len(data) < Limits[1])
        /\ (s.type \in 2..4 => Len(data) <= Limits[s.type])
    BY <1>1, LimitsGrow DEF Sound
  <2> QED BY <1>1, <2>1, FieldHolds
<1>3. SetLen(s, data) = [s EXCEPT !.data = data]
  BY <1>2, SubSeqFull DEF SetLen
<1>4. SetLen(s, data) = [type |-> s.type, alloc |-> s.alloc, data |-> data]
  BY <1>3 DEF Sound
<1> QED BY <1>4 DEF Sound

(* sdscatlen() appends, exactly, whatever the two lengths (sds.c:381).     *)
THEOREM CatLenExact ==
  ASSUME NEW Byte, NEW s, Sound(s, Byte), NEW t \in Seq(Byte)
  PROVE  Sound(sdscatlen(s, t), Byte) /\ sdscatlen(s, t).data = s.data \o t
<1> DEFINE r == sdsMakeRoomFor(s, Len(t))
<1>1. Len(t) \in Nat /\ s.data \in Seq(Byte)
  BY DEF Sound
<1>2. Sound(r, Byte) /\ Len(s.data) + Len(t) <= r.alloc
  BY <1>1, MakeRoom
<1>3. s.data \o t \in Seq(Byte) /\ Len(s.data \o t) = Len(s.data) + Len(t)
  BY <1>1
<1>4. sdscatlen(s, t) = SetLen(r, s.data \o t)
  BY DEF sdscatlen
<1> HIDE DEF r
<1> QED BY <1>2, <1>3, <1>4, SetLenHolds

(* A step of sdscatfmt() does the same, in room it makes in one or two     *)
(* goes; a string without a field for its allocation gets one first        *)
(* (sds.c:584).                                                            *)
THEOREM CatPieceExact ==
  ASSUME NEW Byte, NEW s, Sound(s, Byte), NEW t \in Seq(Byte)
  PROVE  Sound(CatPiece(s, t), Byte) /\ CatPiece(s, t).data = s.data \o t
<1> DEFINE one == IF sdsavail(s) = 0 THEN sdsMakeRoomFor(s, 1) ELSE s
           room == RoomForPiece(s, Len(t))
<1>1. Len(t) \in Nat /\ s.data \in Seq(Byte)
  BY DEF Sound
<1>2. Sound(one, Byte) /\ one.data = s.data /\ one.type # 1
  <2>1. CASE sdsavail(s) = 0
    BY <2>1, MakeRoom
  <2>2. CASE sdsavail(s) # 0
    BY <2>2 DEF sdsavail
  <2> QED BY <2>1, <2>2
<1> HIDE DEF one
<1>3. Sound(room, Byte) /\ room.data = s.data /\ Len(s.data) + Len(t) <= room.alloc
  <2>1. CASE sdsavail(one) < Len(t)
    <3>1. room = sdsMakeRoomFor(one, Len(t))
      BY <2>1 DEF RoomForPiece, one
    <3> HIDE DEF room
    <3> QED BY <1>1, <1>2, <3>1, MakeRoom
  <2>2. CASE ~(sdsavail(one) < Len(t))
    <3>1. one.alloc \in Nat /\ Len(s.data) \in Nat /\ sdsavail(one) = one.alloc - Len(s.data)
      BY <1>1, <1>2 DEF sdsavail, Sound
    <3>2. room = one
      BY <2>2 DEF RoomForPiece, one
    <3> HIDE DEF room
    <3> QED BY <1>1, <1>2, <2>2, <3>1, <3>2
  <2> HIDE DEF room
  <2> QED BY <2>1, <2>2
<1>4. CatPiece(s, t) = SetLen(room, room.data \o t)
  BY DEF CatPiece
<1>5. s.data \o t \in Seq(Byte) /\ Len(s.data \o t) = Len(s.data) + Len(t)
  BY <1>1
<1> DEFINE data == s.data \o t
<1> HIDE DEF room, data
<1>6. data \in Seq(Byte) /\ Len(data) <= room.alloc
  BY <1>3, <1>5 DEF data
<1>7. Sound(SetLen(room, data), Byte) /\ SetLen(room, data).data = data
  BY <1>3, <1>6, SetLenHolds
<1>8. CatPiece(s, t) = SetLen(room, data)
  BY <1>3, <1>4, Zenon DEF data
<1> QED BY <1>7, <1>8, Zenon DEF data

(* Dropping bytes from the front, as redisBufferWrite() and the reader do, *)
(* leaves the rest (sds.c:729; hiredis.c:1009, read.c:772).                *)
THEOREM DropFirstExact ==
  ASSUME NEW Byte, NEW s, Sound(s, Byte), NEW n \in Nat
  PROVE  /\ Sound(DropFirst(s, n), Byte)
         /\ DropFirst(s, n).data = IF n >= Len(s.data) THEN <<>>
                                   ELSE SubSeq(s.data, n + 1, Len(s.data))
<1>1. s.data \in Seq(Byte) /\ Len(s.data) <= s.alloc /\ s.alloc \in Nat
  BY DEF Sound
<1>2. CASE n >= Len(s.data)
  <2>1. <<>> \in Seq(Byte) /\ Len(<<>>) <= s.alloc
    BY <1>1
  <2> QED BY <1>2, <2>1, SetLenHolds DEF DropFirst
<1>3. CASE n < Len(s.data)
  <2> DEFINE rest == SubSeq(s.data, n + 1, Len(s.data))
  <2>1. rest \in Seq(Byte) /\ Len(rest) <= s.alloc
    BY <1>1, <1>3
  <2>2. DropFirst(s, n) = SetLen(s, rest)
    BY <1>1, <1>3 DEF DropFirst
  <2> HIDE DEF rest
  <2>3. Sound(SetLen(s, rest), Byte) /\ SetLen(s, rest).data = rest
    BY <2>1, SetLenHolds
  <2>4. ~(n >= Len(s.data))
    BY <1>1, <1>3
  <2> QED BY <2>2, <2>3, <2>4 DEF rest
<1> QED BY <1>1, <1>2, <1>3
-----------------------------------------------------------------------------
(* Induction over the naturals, stated with a set: were there a least      *)
(* number outside S, adding one would map the finitely many below it onto  *)
(* themselves without ever giving 0.                                       *)
LEMMA Induction ==
  ASSUME NEW S, 0 \in S, \A n \in Nat : n \in S => n + 1 \in S
  PROVE  Nat \subseteq S
<1> SUFFICES ASSUME NEW m \in Nat, m \notin S PROVE FALSE
  OBVIOUS
<1> DEFINE T == {k \in 0 .. m : k \in S}
           up == [k \in T |-> k + 1]
<1>1. IsFiniteSet(T)
  <2>1. IsFiniteSet(0 .. m) /\ T \in SUBSET (0 .. m)
    BY FS_Interval
  <2> QED BY <2>1, FS_Subset
<1>2. \A k \in T : k + 1 \in T
  OBVIOUS
<1>3. up \in Injection(T, T)
  BY <1>2 DEF Injection, IsInjective
<1>4. up \in Surjection(T, T)
  BY <1>1, <1>3, FS_Injection
<1>5. 0 \in T
  OBVIOUS
<1>6. PICK k \in T : up[k] = 0
  BY <1>4, <1>5 DEF Surjection
<1> QED BY <1>6

(* A sequence of sequences, joined: Joined(s)[i] is the first i of them.   *)
JoinNext(f, i, s) == IF i = 0 THEN <<>> ELSE f[i - 1] \o s[i]
IsJoined(f, n, s) == f = [i \in 0 .. n |-> JoinNext(f, i, s)]
Joined(s) == CHOOSE f : IsJoined(f, Len(s), s)

LEMMA JoinedExists == ASSUME NEW s, NEW n \in Nat PROVE \E f : IsJoined(f, n, s)
<1> DEFINE S == {k \in Nat : \E f : IsJoined(f, k, s)}
<1>1. 0 \in S
  <2>1. IsJoined([i \in 0 .. 0 |-> <<>>], 0, s)
    BY DEF IsJoined, JoinNext
  <2> QED BY <2>1
<1>2. ASSUME NEW k \in Nat, k \in S PROVE k + 1 \in S
  <2>1. PICK f : IsJoined(f, k, s)
    BY <1>2
  <2> DEFINE more == [i \in 0 .. k + 1 |-> IF i <= k THEN f[i] ELSE JoinNext(f, k + 1, s)]
  <2>2. \A i \in 0 .. k : more[i] = f[i]
    OBVIOUS
  <2>3. more[k + 1] = JoinNext(f, k + 1, s)
    OBVIOUS
  <2>4. more = [i \in 0 .. k + 1 |-> more[i]]
    OBVIOUS
  <2> HIDE DEF more
  <2>5. \A i \in 0 .. k : f[i] = JoinNext(f, i, s)
    BY <2>1 DEF IsJoined
  <2>6. \A i \in 0 .. k + 1 : more[i] = JoinNext(more, i, s)
    BY <2>2, <2>3, <2>5 DEF JoinNext
  <2>7. IsJoined(more, k + 1, s)
    BY <2>4, <2>6, Zenon DEF IsJoined
  <2> QED BY <2>7
<1>3. Nat \subseteq S
  <2> HIDE DEF S
  <2> QED BY <1>1, <1>2, Induction
<1> QED BY <1>3

LEMMA JoinedIs ==
  ASSUME NEW S, NEW s \in Seq(S)
  PROVE  /\ Joined(s)[0] = <<>>
         /\ \A i \in 1 .. Len(s) : Joined(s)[i] = Joined(s)[i - 1] \o s[i]
<1>1. Len(s) \in Nat
  OBVIOUS
<1>2. IsJoined(Joined(s), Len(s), s)
  BY <1>1, JoinedExists DEF Joined
<1>3. \A i \in 0 .. Len(s) : Joined(s)[i] = JoinNext(Joined(s), i, s)
  BY <1>2 DEF IsJoined
<1>4. Joined(s)[0] = <<>>
  BY <1>1, <1>3 DEF JoinNext
<1>5. ASSUME NEW i \in 1 .. Len(s) PROVE Joined(s)[i] = Joined(s)[i - 1] \o s[i]
  <2>1. i \in 0 .. Len(s) /\ i # 0
    BY <1>1
  <2> QED BY <1>3, <2>1 DEF JoinNext
<1> QED BY <1>4, <1>5

LEMMA JoinedTyped ==
  ASSUME NEW B, NEW s \in Seq(Seq(B))
  PROVE  \A i \in 0 .. Len(s) : Joined(s)[i] \in Seq(B)
<1> DEFINE S == {k \in Nat : k <= Len(s) => Joined(s)[k] \in Seq(B)}
<1>1. 0 \in S
  <2>1. Joined(s)[0] = <<>>
    BY JoinedIs
  <2>2. <<>> \in Seq(B)
    OBVIOUS
  <2> QED BY <2>1, <2>2
<1>2. ASSUME NEW k \in Nat, k \in S PROVE k + 1 \in S
  <2> SUFFICES ASSUME k + 1 <= Len(s) PROVE Joined(s)[k + 1] \in Seq(B)
    OBVIOUS
  <2>1. Joined(s)[k] \in Seq(B) /\ s[k + 1] \in Seq(B) /\ k + 1 \in 1 .. Len(s)
    BY <1>2
  <2>2. Joined(s)[k + 1] = Joined(s)[(k + 1) - 1] \o s[k + 1]
    BY <2>1, JoinedIs
  <2>3. (k + 1) - 1 = k
    OBVIOUS
  <2> QED BY <2>1, <2>2, <2>3
<1>3. Nat \subseteq S
  <2> HIDE DEF S
  <2> QED BY <1>1, <1>2, Induction
<1> QED BY <1>3

\* Joining is associative.
Assoc(p, q, r) == (p \o q) \o r = p \o (q \o r)
LEMMA RegroupAll ==
  ASSUME NEW B
  PROVE  \A p, q, r \in Seq(B) : Assoc(p, q, r)
<1> SUFFICES ASSUME NEW p \in Seq(B), NEW q \in Seq(B), NEW r \in Seq(B)
             PROVE  (p \o q) \o r = p \o (q \o r)
  BY Zenon DEF Assoc
<1> QED BY ConcatAssociative

(* It is the same for what begins the same.                                *)
LEMMA JoinedAgree ==
  ASSUME NEW S, NEW s \in Seq(S), NEW t \in Seq(S), NEW n \in Nat, n <= Len(s), n <= Len(t),
         \A i \in 1 .. n : s[i] = t[i]
  PROVE  Joined(s)[n] = Joined(t)[n]
<1> DEFINE Q == {k \in Nat : k <= n => Joined(s)[k] = Joined(t)[k]}
<1>0. Len(s) \in Nat /\ Len(t) \in Nat
  OBVIOUS
<1>1. 0 \in Q
  BY JoinedIs
<1>2. ASSUME NEW k \in Nat, k \in Q PROVE k + 1 \in Q
  <2> SUFFICES ASSUME k + 1 <= n PROVE Joined(s)[k + 1] = Joined(t)[k + 1]
    OBVIOUS
  <2>1. /\ k + 1 \in 1 .. n /\ k + 1 \in 1 .. Len(s) /\ k + 1 \in 1 .. Len(t)
        /\ (k + 1) - 1 = k
    OBVIOUS
  <2>2. Joined(s)[k + 1] = Joined(s)[k] \o s[k + 1] /\ Joined(t)[k + 1] = Joined(t)[k] \o t[k + 1]
    BY <2>1, JoinedIs
  <2>3. Joined(s)[k] = Joined(t)[k] /\ s[k + 1] = t[k + 1]
    BY <1>2, <2>1
  <2> QED BY <2>2, <2>3
<1>3. Nat \subseteq Q
  <2> HIDE DEF Q
  <2> QED BY <1>1, <1>2, Induction
<1> QED BY <1>3

(* FlattenSeq() joins all.                                                 *)
LEMMA Flat ==
  ASSUME NEW B, NEW s \in Seq(Seq(B))
  PROVE  FlattenSeq(s) = Joined(s)[Len(s)]
<1>1. CASE s = <<>>
  BY <1>1, JoinedIs DEF FlattenSeq
<1>2. CASE s # <<>>
  <2> DEFINE Body(f) == [i \in 1 .. Len(s) |-> IF i = 1 THEN s[i] ELSE f[i - 1] \o s[i]]
             all == CHOOSE f : f = Body(f)
             part == [i \in 1 .. Len(s) |-> Joined(s)[i]]
  <2>1. FlattenSeq(s) = all[Len(s)] /\ Len(s) \in Nat /\ Len(s) > 0
    BY <1>2 DEF FlattenSeq
  <2>2. part = Body(part)
    <3>1. ASSUME NEW i \in 1 .. Len(s)
          PROVE  part[i] = IF i = 1 THEN s[i] ELSE part[i - 1] \o s[i]
      <4>1. part[i] = Joined(s)[i - 1] \o s[i]
        BY JoinedIs
      <4>2. CASE i = 1
        <5>1. s[1] \in Seq(B) /\ 1 - 1 = 0
          BY <2>1
        <5>2. Joined(s)[0] = <<>>
          BY JoinedIs
        <5>3. <<>> \o s[1] = s[1]
          BY <5>1
        <5> QED BY <4>1, <4>2, <5>1, <5>2, <5>3
      <4>3. CASE i # 1
        <5>1. i - 1 \in 1 .. Len(s)
          BY <2>1, <4>3
        <5>2. part[i - 1] = Joined(s)[i - 1]
          BY <5>1
        <5> HIDE DEF part
        <5> QED BY <4>1, <4>3, <5>2
      <4> QED BY <4>2, <4>3
    <3>2. part = [i \in 1 .. Len(s) |-> part[i]]
      OBVIOUS
    <3> HIDE DEF part
    <3> QED BY <3>1, <3>2, Zenon
  <2>3. all = Body(all)
    <3> HIDE DEF part, Body
    <3> QED BY <2>2
  <2> HIDE DEF all
  <2>4. \A i \in 1 .. Len(s) : all[i] = IF i = 1 THEN s[i] ELSE all[i - 1] \o s[i]
    BY <2>3
  <2> DEFINE Q == {k \in Nat : k \in 1 .. Len(s) => all[k] = Joined(s)[k]}
  <2>5. 0 \in Q
    OBVIOUS
  <2>6. ASSUME NEW k \in Nat, k \in Q PROVE k + 1 \in Q
    <3> SUFFICES ASSUME k + 1 \in 1 .. Len(s) PROVE all[k + 1] = Joined(s)[k + 1]
      OBVIOUS
    <3>1. Joined(s)[k + 1] = Joined(s)[k] \o s[k + 1]
      <4>1. (k + 1) - 1 = k
        OBVIOUS
      <4> QED BY <4>1, JoinedIs
    <3>2. CASE k = 0
      <4>1. s[1] \in Seq(B) /\ all[1] = s[1] /\ 0 + 1 = 1
        BY <2>1, <2>4
      <4>2. Joined(s)[0] = <<>>
        BY JoinedIs
      <4>3. <<>> \o s[1] = s[1]
        BY <4>1
      <4> QED BY <3>1, <3>2, <4>1, <4>2, <4>3
    <3>3. CASE k # 0
      <4>1. k \in 1 .. Len(s) /\ (k + 1) - 1 = k /\ k + 1 # 1
        BY <3>3
      <4>2. all[k + 1] = all[k] \o s[k + 1]
        BY <2>4, <4>1
      <4> QED BY <2>6, <3>1, <4>1, <4>2
    <3> QED BY <3>2, <3>3
  <2>7. Nat \subseteq Q
    <3> HIDE DEF Q
    <3> QED BY <2>5, <2>6, Induction
  <2> QED BY <2>1, <2>7
<1> QED BY <1>1, <1>2

(* One more at the end, and one more at the front.                         *)
LEMMA FlatAppend ==
  ASSUME NEW B, NEW s \in Seq(Seq(B)), NEW w \in Seq(B)
  PROVE  FlattenSeq(Append(s, w)) = FlattenSeq(s) \o w
<1> DEFINE t == Append(s, w)
<1>1. /\ t \in Seq(Seq(B)) /\ Len(s) \in Nat /\ Len(t) = Len(s) + 1 /\ t[Len(s) + 1] = w
      /\ \A i \in 1 .. Len(s) : s[i] = t[i]
  OBVIOUS
<1> HIDE DEF t
<1>2. Joined(t)[Len(s) + 1] = Joined(t)[(Len(s) + 1) - 1] \o t[Len(s) + 1]
  <2>1. Len(s) + 1 \in 1 .. Len(t)
    BY <1>1
  <2> QED BY <1>1, <2>1, JoinedIs
<1>3. Joined(t)[Len(s)] = Joined(s)[Len(s)]
  <2>1. Len(s) <= Len(s) /\ Len(s) <= Len(t)
    BY <1>1
  <2> QED BY <1>1, <2>1, JoinedAgree
<1>4. FlattenSeq(t) = Joined(t)[Len(t)] /\ FlattenSeq(s) = Joined(s)[Len(s)]
  BY <1>1, Flat
<1>5. (Len(s) + 1) - 1 = Len(s)
  BY <1>1
<1>6. FlattenSeq(t) = FlattenSeq(s) \o w
  BY <1>1, <1>2, <1>3, <1>4, <1>5
<1> QED BY <1>6 DEF t

LEMMA FlatTyped ==
  ASSUME NEW B, NEW s \in Seq(Seq(B))
  PROVE  FlattenSeq(s) \in Seq(B)
<1>1. Len(s) \in 0 .. Len(s)
  OBVIOUS
<1> QED BY <1>1, Flat, JoinedTyped

LEMMA FlatCons ==
  ASSUME NEW B, NEW s \in Seq(Seq(B)), NEW w \in Seq(B)
  PROVE  FlattenSeq(<<w>> \o s) = w \o FlattenSeq(s)
<1> DEFINE t == <<w>> \o s
           Q == {k \in Nat : k <= Len(s) => Joined(t)[k + 1] = w \o Joined(s)[k]}
<1>1. /\ t \in Seq(Seq(B)) /\ Len(s) \in Nat /\ Len(t) = Len(s) + 1 /\ t[1] = w
  OBVIOUS
<1>2. \A i \in 1 .. Len(s) : t[i + 1] = s[i]
  OBVIOUS
<1> HIDE DEF t
<1>3. 0 \in Q
  <2>1. Joined(t)[1] = Joined(t)[1 - 1] \o t[1]
    <3>1. 1 \in 1 .. Len(t)
      BY <1>1
    <3> QED BY <1>1, <3>1, JoinedIs
  <2>2. Joined(t)[0] = <<>> /\ Joined(s)[0] = <<>>
    BY <1>1, JoinedIs
  <2>3. <<>> \o w = w /\ w \o <<>> = w /\ 1 - 1 = 0 /\ 0 + 1 = 1
    OBVIOUS
  <2> QED BY <1>1, <2>1, <2>2, <2>3
<1>4. ASSUME NEW k \in Nat, k \in Q PROVE k + 1 \in Q
  <2> SUFFICES ASSUME k + 1 <= Len(s) PROVE Joined(t)[(k + 1) + 1] = w \o Joined(s)[k + 1]
    OBVIOUS
  <2>1. /\ k + 1 \in 1 .. Len(s) /\ (k + 1) + 1 \in 1 .. Len(t)
        /\ (k + 1) - 1 = k /\ ((k + 1) + 1) - 1 = k + 1 /\ k \in 0 .. Len(s)
    BY <1>1
  <2>2. Joined(s)[k + 1] = Joined(s)[k] \o s[k + 1]
    BY <2>1, JoinedIs
  <2>3. Joined(t)[(k + 1) + 1] = Joined(t)[k + 1] \o t[(k + 1) + 1]
    BY <1>1, <2>1, JoinedIs
  <2>4. Joined(t)[k + 1] = w \o Joined(s)[k] /\ t[(k + 1) + 1] = s[k + 1]
    BY <1>2, <1>4, <2>1
  <2>5. Joined(s)[k] \in Seq(B) /\ s[k + 1] \in Seq(B)
    BY <2>1, JoinedTyped
  <2> DEFINE a == Joined(s)[k]  b == s[k + 1]
  <2>6. (w \o Joined(s)[k]) \o s[k + 1] = w \o (Joined(s)[k] \o s[k + 1])
    <3>1. a \in Seq(B) /\ b \in Seq(B)
      BY <2>5
    <3> HIDE DEF a, b
    <3>2. Assoc(w, a, b)
      BY <3>1, RegroupAll, Zenon
    <3> QED BY <3>2, Zenon DEF a, b, Assoc
  <2> QED BY <2>2, <2>3, <2>4, <2>6
<1>5. Nat \subseteq Q
  <2> HIDE DEF Q
  <2> QED BY <1>3, <1>4, Induction
<1>6. Joined(t)[Len(s) + 1] = w \o Joined(s)[Len(s)]
  BY <1>1, <1>5
<1>7. FlattenSeq(t) = Joined(t)[Len(t)] /\ FlattenSeq(s) = Joined(s)[Len(s)]
  BY <1>1, Flat
<1>8. FlattenSeq(t) = w \o FlattenSeq(s)
  BY <1>1, <1>6, <1>7
<1> QED BY <1>8 DEF t

(* Whatever is joined first is followed by the rest.                       *)
LEMMA JoinedRest ==
  ASSUME NEW B, NEW s \in Seq(Seq(B)), NEW k \in 0 .. Len(s)
  PROVE  \E rest \in Seq(B) : Joined(s)[Len(s)] = Joined(s)[k] \o rest
<1> DEFINE Rest(j) == \E rest \in Seq(B) : Joined(s)[k + j] = Joined(s)[k] \o rest
           Q == {j \in Nat : k + j <= Len(s) => Rest(j)}
<1>1. Len(s) \in Nat /\ k \in Nat /\ Joined(s)[k] \in Seq(B)
  BY JoinedTyped
<1>2. 0 \in Q
  <2>1. Joined(s)[k] = Joined(s)[k] \o <<>> /\ <<>> \in Seq(B) /\ k + 0 = k
    BY <1>1
  <2> QED BY <2>1
<1>3. ASSUME NEW j \in Nat, j \in Q PROVE j + 1 \in Q
  <2>1. ASSUME k + (j + 1) <= Len(s) PROVE Rest(j + 1)
    <3>1. k + j <= Len(s) /\ k + (j + 1) \in 1 .. Len(s) /\ (k + (j + 1)) - 1 = k + j
      BY <1>1, <2>1
    <3>2. PICK rest \in Seq(B) : Joined(s)[k + j] = Joined(s)[k] \o rest
      BY <1>3, <3>1
    <3> DEFINE a == Joined(s)[k]  w == s[k + (j + 1)]
    <3>3. a \in Seq(B) /\ w \in Seq(B)
      BY <1>1, <3>1
    <3>4. Joined(s)[k + (j + 1)] = (a \o rest) \o w
      BY <3>1, <3>2, JoinedIs
    <3> HIDE DEF a, w
    <3>5. (a \o rest) \o w = a \o (rest \o w) /\ rest \o w \in Seq(B)
      BY <3>3, ConcatAssociative
    <3> QED BY <3>4, <3>5, Zenon DEF a
  <2> HIDE DEF Rest
  <2> QED BY <2>1
<1>4. Nat \subseteq Q
  <2> HIDE DEF Q
  <2> QED BY <1>2, <1>3, Induction
<1>5. Len(s) - k \in Nat /\ k + (Len(s) - k) = Len(s)
  BY <1>1
<1>6. Len(s) - k \in Q
  BY <1>4, <1>5
<1> QED BY <1>5, <1>6

(* Decimal numbers: sdsull2str() is well defined.                          *)
DecimalNext(f, v) ==
  IF v < 10 THEN <<Digit[v + 1]>> ELSE Append(f[v \div 10], Digit[(v % 10) + 1])
IsDecimal(f, n) == f = [v \in 0 .. n |-> DecimalNext(f, v)]

LEMMA Tenth == \A v \in Nat : v >= 10 => v \div 10 \in 0 .. v - 1
OBVIOUS

LEMMA DecimalExists == ASSUME NEW n \in Nat PROVE \E f : IsDecimal(f, n)
<1> DEFINE S == {k \in Nat : \E f : IsDecimal(f, k)}
<1>1. 0 \in S
  <2>1. IsDecimal([v \in 0 .. 0 |-> <<Digit[v + 1]>>], 0)
    BY DEF IsDecimal, DecimalNext
  <2> QED BY <2>1
<1>2. ASSUME NEW k \in Nat, k \in S PROVE k + 1 \in S
  <2>1. PICK f : IsDecimal(f, k)
    BY <1>2
  <2> DEFINE more == [v \in 0 .. k + 1 |-> IF v <= k THEN f[v] ELSE DecimalNext(f, k + 1)]
  <2>2. \A v \in 0 .. k : more[v] = f[v]
    OBVIOUS
  <2>3. more[k + 1] = DecimalNext(f, k + 1)
    OBVIOUS
  <2>4. more = [v \in 0 .. k + 1 |-> more[v]]
    OBVIOUS
  <2> HIDE DEF more
  <2>5. \A v \in 0 .. k : f[v] = DecimalNext(f, v)
    BY <2>1 DEF IsDecimal
  <2>6. \A v \in 0 .. k + 1 : v >= 10 => v \div 10 \in 0 .. k
    BY Tenth
  <2>7. \A v \in 0 .. k + 1 : more[v] = DecimalNext(more, v)
    BY <2>2, <2>3, <2>5, <2>6 DEF DecimalNext
  <2>8. IsDecimal(more, k + 1)
    BY <2>4, <2>7, Zenon DEF IsDecimal
  <2> QED BY <2>8
<1> QED BY <1>1, <1>2, Induction

LEMMA DecimalAgree ==
  ASSUME NEW f, NEW n \in Nat, IsDecimal(f, n), NEW g, NEW m \in Nat, IsDecimal(g, m)
  PROVE  \A v \in Nat : v <= n /\ v <= m => f[v] = g[v]
<1> DEFINE S == {k \in Nat : \A v \in 0 .. k : v <= n /\ v <= m => f[v] = g[v]}
<1>1. \A v \in 0 .. n : f[v] = DecimalNext(f, v)
  BY DEF IsDecimal
<1>2. \A v \in 0 .. m : g[v] = DecimalNext(g, v)
  BY DEF IsDecimal
<1>3. 0 \in S
  <2>1. f[0] = DecimalNext(f, 0) /\ g[0] = DecimalNext(g, 0)
    BY <1>1, <1>2
  <2>2. DecimalNext(f, 0) = <<Digit[0 + 1]>> /\ DecimalNext(g, 0) = <<Digit[0 + 1]>>
    BY DEF DecimalNext
  <2>3. f[0] = g[0]
    BY <2>1, <2>2
  <2> QED BY <2>3
<1>4. ASSUME NEW k \in Nat, k \in S PROVE k + 1 \in S
  <2> SUFFICES ASSUME k + 1 <= n, k + 1 <= m PROVE f[k + 1] = g[k + 1]
    BY <1>4
  <2>1. f[k + 1] = DecimalNext(f, k + 1) /\ g[k + 1] = DecimalNext(g, k + 1)
    BY <1>1, <1>2
  <2>2. k + 1 >= 10 => f[(k + 1) \div 10] = g[(k + 1) \div 10]
    BY <1>4, Tenth
  <2> QED BY <2>1, <2>2 DEF DecimalNext
<1>5. Nat \subseteq S
  <2> HIDE DEF S
  <2> QED BY <1>3, <1>4, Induction
<1> QED BY <1>5

LEMMA DecimalIs == \A v \in Nat : Decimal[v] = DecimalNext(Decimal, v)
<1> DEFINE part(v) == CHOOSE f : IsDecimal(f, v)
           all == [v \in Nat |-> part(v)[v]]
<1>1. \A v \in Nat : IsDecimal(part(v), v)
  BY DecimalExists
<1> HIDE DEF part
<1>2. ASSUME NEW v \in Nat PROVE all[v] = DecimalNext(all, v)
  <2>1. part(v)[v] = DecimalNext(part(v), v)
    BY <1>1 DEF IsDecimal
  <2>2. v >= 10 => part(v)[v \div 10] = part(v \div 10)[v \div 10]
    BY <1>1, Tenth, DecimalAgree
  <2> QED BY <2>1, <2>2, Tenth DEF DecimalNext
<1>3. all = [v \in Nat |-> DecimalNext(all, v)]
  <2>1. all = [v \in Nat |-> all[v]]
    OBVIOUS
  <2> HIDE DEF all
  <2> QED BY <1>2, <2>1, Zenon
<1> HIDE DEF all
<1>4. Decimal = CHOOSE f : f = [v \in Nat |-> DecimalNext(f, v)]
  BY DEF Decimal, DecimalNext
<1>5. Decimal = [v \in Nat |-> DecimalNext(Decimal, v)]
  BY <1>3, <1>4
<1> QED BY <1>5

LEMMA DecimalCases ==
  ASSUME NEW v \in Nat
  PROVE  /\ v < 10 => Decimal[v] = <<Digit[v + 1]>>
         /\ v >= 10 => Decimal[v] = Append(Decimal[v \div 10], Digit[(v % 10) + 1])
<1>1. Decimal[v] = DecimalNext(Decimal, v)
  BY DecimalIs
<1>2. v < 10 => DecimalNext(Decimal, v) = <<Digit[v + 1]>>
  BY Zenon DEF DecimalNext
<1>3. v >= 10 => DecimalNext(Decimal, v) = Append(Decimal[v \div 10], Digit[(v % 10) + 1])
  <2>1. v >= 10 => ~(v < 10)
    OBVIOUS
  <2> QED BY <2>1, Zenon DEF DecimalNext
<1> QED BY <1>1, <1>2, <1>3, Zenon

(* Its digits are digits, and the digits say which number it is.           *)
Digits == {"0", "1", "2", "3", "4", "5", "6", "7", "8", "9"}

LEMMA DigitIs ==
  /\ \A d \in 1 .. 10 : Digit[d] \in Digits
  /\ \A d, e \in 1 .. 10 : Digit[d] = Digit[e] => d = e
  /\ "\r" \notin Digits
<1>1. Digit[1] = "0" /\ Digit[2] = "1" /\ Digit[3] = "2" /\ Digit[4] = "3" /\ Digit[5] = "4"
  BY DEF Digit
<1>2. Digit[6] = "5" /\ Digit[7] = "6" /\ Digit[8] = "7" /\ Digit[9] = "8" /\ Digit[10] = "9"
  BY DEF Digit
<1>3. \A d \in 1 .. 10 : d \in {1, 2, 3, 4, 5, 6, 7, 8, 9, 10}
  OBVIOUS
<1> QED BY <1>1, <1>2, <1>3 DEF Digits

LEMMA Tens ==
  ASSUME NEW v \in Nat
  PROVE  /\ v \div 10 \in Nat /\ v % 10 \in 0 .. 9 /\ v = 10 * (v \div 10) + (v % 10)
         /\ v >= 10 => v \div 10 < v /\ v \div 10 >= 1
OBVIOUS

LEMMA DecimalTyped ==
  \A v \in Nat : Decimal[v] \in Seq(Digits) /\ Len(Decimal[v]) > 0
<1> DEFINE Good(v) == Decimal[v] \in Seq(Digits) /\ Len(Decimal[v]) > 0
           S == {k \in Nat : \A v \in 0 .. k : Good(v)}
<1>1. ASSUME NEW v \in Nat, v < 10 PROVE Good(v)
  <2>1. v + 1 \in 1 .. 10
    BY <1>1
  <2>2. Decimal[v] = <<Digit[v + 1]>>
    BY <1>1, DecimalCases
  <2>3. Digit[v + 1] \in Digits
    BY <2>1, DigitIs
  <2> QED BY <2>2, <2>3
<1>2. ASSUME NEW v \in Nat, v >= 10, Good(v \div 10) PROVE Good(v)
  <2>1. (v % 10) + 1 \in 1 .. 10
    BY Tens
  <2>2. Digit[(v % 10) + 1] \in Digits
    BY <2>1, DigitIs
  <2>3. Decimal[v] = Append(Decimal[v \div 10], Digit[(v % 10) + 1])
    BY <1>2, DecimalCases
  <2> DEFINE most == Decimal[v \div 10]  last == Digit[(v % 10) + 1]
  <2>4. most \in Seq(Digits) /\ last \in Digits /\ Decimal[v] = Append(most, last)
    BY <1>2, <2>2, <2>3
  <2> HIDE DEF most, last
  <2> QED BY <2>4
<1> HIDE DEF Good
<1>3. 0 \in S
  BY <1>1
<1>4. ASSUME NEW k \in Nat, k \in S PROVE k + 1 \in S
  <2>1. k + 1 >= 10 => (k + 1) \div 10 \in 0 .. k
    BY Tenth
  <2>2. Good(k + 1)
    BY <1>1, <1>2, <1>4, <2>1
  <2> QED BY <1>4, <2>2
<1>5. Nat \subseteq S
  <2> HIDE DEF S
  <2> QED BY <1>3, <1>4, Induction
<1> QED BY <1>5 DEF Good

LEMMA AppendEqual ==
  ASSUME NEW S, NEW s \in Seq(S), NEW t \in Seq(S), NEW x \in S, NEW y \in S,
         Append(s, x) = Append(t, y)
  PROVE  s = t /\ x = y
BY AppendInjective

LEMMA DecimalTells ==
  \A u, v \in Nat : Decimal[u] = Decimal[v] => u = v
<1> DEFINE Tells(u) == \A v \in Nat : Decimal[u] = Decimal[v] => u = v
           S == {k \in Nat : \A u \in 0 .. k : Tells(u)}
<1>1. ASSUME NEW v \in Nat
      PROVE  /\ v < 10 => Len(Decimal[v]) = 1 /\ Decimal[v][1] = Digit[v + 1]
             /\ v >= 10 => /\ Decimal[v] = Append(Decimal[v \div 10], Digit[(v % 10) + 1])
                           /\ Decimal[v \div 10] \in Seq(Digits) /\ Len(Decimal[v]) > 1
                           /\ Digit[(v % 10) + 1] \in Digits
  <2>1. CASE v < 10
    <3>1. Decimal[v] = <<Digit[v + 1]>>
      BY <2>1, DecimalCases
    <3> QED BY <2>1, <3>1
  <2>2. CASE v >= 10
    <3>1. Decimal[v] = Append(Decimal[v \div 10], Digit[(v % 10) + 1])
      BY <2>2, DecimalCases
    <3>2. Decimal[v \div 10] \in Seq(Digits) /\ Len(Decimal[v \div 10]) > 0
      BY Tens, DecimalTyped
    <3>3. Digit[(v % 10) + 1] \in Digits
      <4>1. (v % 10) + 1 \in 1 .. 10
        BY Tens
      <4> QED BY <4>1, DigitIs
    <3> DEFINE most == Decimal[v \div 10]  last == Digit[(v % 10) + 1]
    <3>4. most \in Seq(Digits) /\ Len(most) > 0 /\ Decimal[v] = Append(most, last)
      BY <3>1, <3>2
    <3>5. Len(Decimal[v]) > 1
      <4> HIDE DEF most, last
      <4> QED BY <3>4
    <3> QED BY <2>2, <3>1, <3>2, <3>3, <3>5
  <2> QED BY <2>1, <2>2
<1>2. ASSUME NEW u \in Nat, u < 10 PROVE Tells(u)
  <2> SUFFICES ASSUME NEW v \in Nat, Decimal[u] = Decimal[v] PROVE u = v
    OBVIOUS
  <2>1. v < 10
    <3>1. Len(Decimal[u]) = 1
      BY <1>1, <1>2
    <3>2. v >= 10 => Len(Decimal[v]) > 1
      BY <1>1
    <3> QED BY <3>1, <3>2
  <2>2. Digit[u + 1] = Digit[v + 1]
    BY <1>1, <1>2, <2>1
  <2>3. u + 1 \in 1 .. 10 /\ v + 1 \in 1 .. 10
    BY <1>2, <2>1
  <2> QED BY <2>2, <2>3, DigitIs
<1>3. ASSUME NEW u \in Nat, u >= 10, Tells(u \div 10) PROVE Tells(u)
  <2> SUFFICES ASSUME NEW v \in Nat, Decimal[u] = Decimal[v] PROVE u = v
    OBVIOUS
  <2>1. v >= 10
    <3>1. Len(Decimal[u]) > 1
      BY <1>1, <1>3
    <3>2. ASSUME v < 10 PROVE FALSE
      <4>1. Len(Decimal[v]) = 1
        BY <1>1, <3>2
      <4>2. Len(Decimal[u]) = Len(Decimal[v])
        OBVIOUS
      <4>3. Len(Decimal[u]) = 1
        BY <4>1, <4>2, Zenon
      <4> HIDE DEF Tells
      <4> QED BY <3>1, <4>3
    <3> HIDE DEF Tells
    <3> QED BY <3>2
  <2>2. /\ Append(Decimal[u \div 10], Digit[(u % 10) + 1])
              = Append(Decimal[v \div 10], Digit[(v % 10) + 1])
        /\ Decimal[u \div 10] \in Seq(Digits) /\ Decimal[v \div 10] \in Seq(Digits)
        /\ Digit[(u % 10) + 1] \in Digits /\ Digit[(v % 10) + 1] \in Digits
    BY <1>1, <1>3, <2>1
  <2>3. Decimal[u \div 10] = Decimal[v \div 10] /\ Digit[(u % 10) + 1] = Digit[(v % 10) + 1]
    <3> DEFINE a == Decimal[u \div 10]  x == Digit[(u % 10) + 1]
               b == Decimal[v \div 10]  y == Digit[(v % 10) + 1]
    <3>1. /\ a \in Seq(Digits) /\ b \in Seq(Digits) /\ x \in Digits /\ y \in Digits
          /\ Append(a, x) = Append(b, y)
      BY <2>2
    <3> HIDE DEF a, b, x, y
    <3>2. a = b /\ x = y
      BY <3>1, AppendEqual
    <3> QED BY <3>2 DEF a, b, x, y
  <2>4. u \div 10 = v \div 10
    <3>1. v \div 10 \in Nat
      BY Tens
    <3> QED BY <1>3, <2>3, <3>1, Zenon
  <2>5. (u % 10) + 1 \in 1 .. 10 /\ (v % 10) + 1 \in 1 .. 10
    BY Tens
  <2>6. (u % 10) + 1 = (v % 10) + 1
    BY <2>3, <2>5, DigitIs, Zenon
  <2>7. u = 10 * (u \div 10) + (u % 10) /\ v = 10 * (v \div 10) + (v % 10)
    BY Tens
  <2> QED BY <2>4, <2>5, <2>6, <2>7
<1> HIDE DEF Tells
<1>4. 0 \in S
  BY <1>2
<1>5. ASSUME NEW k \in Nat, k \in S PROVE k + 1 \in S
  <2>1. k + 1 >= 10 => (k + 1) \div 10 \in 0 .. k
    BY Tenth
  <2>2. Tells(k + 1)
    BY <1>2, <1>3, <1>5, <2>1
  <2> QED BY <1>5, <2>2
<1>6. Nat \subseteq S
  <2> HIDE DEF S
  <2> QED BY <1>4, <1>5, Induction
<1> QED BY <1>6 DEF Tells

-----------------------------------------------------------------------------
(* Commands on the wire.                                                   *)
Bytes == STRING \cup Digits \cup {"\r", "\n", "$", "*", "%", " ", "-"}
Text == Seq(Bytes)

LEMMA CRLFIs == CRLF \in Seq(Bytes) /\ Len(CRLF) = 2 /\ CRLF[1] = "\r"
<1>1. "\r" \in Bytes /\ "\n" \in Bytes
  BY DEF Bytes
<1> QED BY <1>1 DEF CRLF

LEMMA CRLFText == CRLF \in Text /\ "$" \in Bytes /\ "*" \in Bytes
BY CRLFIs DEF Text, Bytes

LEMMA TextIs == \A p \in Text : p \in Seq(Bytes) /\ Len(p) \in Nat
BY DEF Text

LEMMA Joins == \A p, q \in Text : p \o q \in Text /\ Len(p \o q) = Len(p) + Len(q)
BY DEF Text

LEMMA Regroup == \A p, q, r \in Text : Assoc(p, q, r)
BY RegroupAll DEF Text

Assoc4(p, q, r, s) == ((p \o q) \o r) \o s = p \o (q \o (r \o s))
LEMMA RegroupFour ==
  ASSUME NEW p \in Text, NEW q \in Text, NEW r \in Text, NEW s \in Text
  PROVE  Assoc4(p, q, r, s)
<1> DEFINE pq == p \o q  rs == r \o s
<1>1. pq \in Text /\ rs \in Text
  BY Joins
<1> HIDE DEF pq, rs
<1>2. Assoc(pq, r, s) /\ Assoc(p, q, rs)
  BY <1>1, Regroup
<1>3. (pq \o r) \o s = pq \o rs
  BY <1>2, Zenon DEF Assoc, rs
<1>4. pq \o rs = p \o (q \o rs)
  BY <1>2, Zenon DEF Assoc, pq
<1> QED BY <1>3, <1>4, Zenon DEF Assoc4, pq, rs

LEMMA DecimalText ==
  \A v \in Nat : /\ Decimal[v] \in Text /\ Len(Decimal[v]) \in Nat
                /\ \A i \in 1 .. Len(Decimal[v]) : Decimal[v][i] # "\r"
<1> SUFFICES ASSUME NEW v \in Nat
             PROVE  /\ Decimal[v] \in Text /\ Len(Decimal[v]) \in Nat
                    /\ \A i \in 1 .. Len(Decimal[v]) : Decimal[v][i] # "\r"
  OBVIOUS
<1> DEFINE d == Decimal[v]
<1>1. d \in Seq(Digits)
  BY DecimalTyped
<1> HIDE DEF d
<1>2. \A i \in 1 .. Len(d) : d[i] \in Digits
  BY <1>1
<1>3. Digits \subseteq Bytes /\ "\r" \notin Digits
  BY DigitIs DEF Bytes
<1>4. d \in Seq(Bytes)
  BY <1>1, <1>3, SeqMonotonic
<1>5. Len(d) \in Nat /\ \A i \in 1 .. Len(d) : d[i] # "\r"
  BY <1>1, <1>2, <1>3
<1> QED BY <1>4, <1>5 DEF d, Text

LEMMA SplitEqual ==
  ASSUME NEW S, NEW s \in Seq(S), NEW t \in Seq(S), NEW u \in Seq(S), NEW v \in Seq(S),
         s \o t = u \o v, Len(s) = Len(u)
  PROVE  s = u /\ t = v
<1>1. Len(s) \in Nat /\ Len(t) \in Nat /\ Len(v) \in Nat
  OBVIOUS
<1>2. ASSUME NEW i \in 1 .. Len(s) PROVE s[i] = u[i]
  <2>1. (s \o t)[i] = s[i]
    BY <1>1
  <2>2. (u \o v)[i] = u[i]
    BY <1>1
  <2> QED BY <2>1, <2>2
<1>3. s = u
  BY <1>2, SeqEqual
<1> QED BY <1>3, ConcatSimplifications

Header(b, n) == <<b>> \o Decimal[n] \o CRLF

LEMMA HeaderTyped ==
  ASSUME NEW b \in Bytes, NEW n \in Nat
  PROVE  /\ Header(b, n) \in Text /\ Len(Header(b, n)) = Len(Decimal[n]) + 3
         /\ \A i \in 1 .. Len(Decimal[n]) : Header(b, n)[i + 1] = Decimal[n][i]
         /\ Header(b, n)[Len(Decimal[n]) + 2] = "\r"
<1> DEFINE d == Decimal[n]  e == CRLF
<1>1. d \in Seq(Bytes) /\ e \in Seq(Bytes) /\ Len(e) = 2 /\ e[1] = "\r"
  BY DecimalText, CRLFIs DEF Text
<1>2. Header(b, n) = (<<b>> \o d) \o e
  BY DEF Header
<1> HIDE DEF d, e
<1> DEFINE w == <<b>> \o d
<1>3. /\ w \in Seq(Bytes) /\ Len(w) = Len(d) + 1 /\ Len(d) \in Nat
      /\ \A i \in 1 .. Len(d) : w[i + 1] = d[i]
  BY <1>1
<1> HIDE DEF w
<1>4. /\ w \o e \in Seq(Bytes) /\ Len(w \o e) = Len(d) + 3
      /\ \A i \in 1 .. Len(w) : (w \o e)[i] = w[i]
      /\ (w \o e)[Len(w) + 1] = e[1]
  <2>1. w \o e \in Seq(Bytes) /\ Len(w \o e) = Len(w) + Len(e)
    BY <1>1, <1>3, ConcatProperties
  <2>2. \A i \in 1 .. Len(w) : (w \o e)[i] = w[i]
    BY <1>1, <1>3
  <2>3. (w \o e)[Len(w) + 1] = e[1]
    <3>1. Len(w) \in Nat /\ Len(w) + 1 \in Len(w) + 1 .. Len(w) + Len(e)
      BY <1>1, <1>3
    <3>2. (w \o e)[Len(w) + 1] = e[(Len(w) + 1) - Len(w)]
      <4>1. Len(w) + 1 \in 1 .. Len(w) + Len(e) /\ ~(Len(w) + 1 <= Len(w))
        BY <1>1, <3>1
      <4> QED BY <1>1, <1>3, <4>1, ConcatProperties
    <3>3. (Len(w) + 1) - Len(w) = 1
      BY <3>1
    <3> QED BY <3>2, <3>3
  <2> QED BY <1>1, <1>3, <2>1, <2>2, <2>3
<1>5. /\ \A i \in 1 .. Len(d) : (w \o e)[i + 1] = d[i]
      /\ (w \o e)[Len(d) + 2] = "\r"
  <2>1. \A i \in 1 .. Len(d) : i + 1 \in 1 .. Len(w)
    BY <1>3
  <2>2. Len(w) + 1 = Len(d) + 2
    BY <1>3
  <2> QED BY <1>1, <1>3, <1>4, <2>1, <2>2
<1>6. Header(b, n) = w \o e
  BY <1>2 DEF w
<1> QED BY <1>4, <1>5, <1>6 DEF d, Text

(* The line that starts a command or a bulk says what it counts.           *)
Same(b, m, p, n, q) == Header(b, m) \o p = Header(b, n) \o q

LEMMA HeaderTells ==
  ASSUME NEW b \in Bytes, NEW m \in Nat, NEW n \in Nat, NEW p \in Text, NEW q \in Text,
         Same(b, m, p, n, q)
  PROVE  m = n /\ p = q
<1> DEFINE x == Decimal[m]  y == Decimal[n]  u == Header(b, m)  v == Header(b, n)
<1>1. /\ x \in Text /\ y \in Text /\ Len(x) \in Nat /\ Len(y) \in Nat
      /\ \A i \in 1 .. Len(x) : x[i] # "\r"
      /\ \A i \in 1 .. Len(y) : y[i] # "\r"
  BY DecimalText
<1>2. /\ u \in Text /\ Len(u) = Len(x) + 3 /\ u[Len(x) + 2] = "\r"
      /\ \A i \in 1 .. Len(x) : u[i + 1] = x[i]
  BY HeaderTyped
<1>3. /\ v \in Text /\ Len(v) = Len(y) + 3 /\ v[Len(y) + 2] = "\r"
      /\ \A i \in 1 .. Len(y) : v[i + 1] = y[i]
  BY HeaderTyped
<1>4. u \o p = v \o q
  BY DEF Same
<1> HIDE DEF x, y, u, v
<1>5. /\ \A i \in 1 .. Len(u) : (u \o p)[i] = u[i]
      /\ \A i \in 1 .. Len(v) : (v \o q)[i] = v[i]
  BY <1>2, <1>3 DEF Text
<1>6. \A i \in Nat : i \in 1 .. Len(u) /\ i \in 1 .. Len(v) => u[i] = v[i]
  BY <1>4, <1>5
<1>7. ~(Len(x) < Len(y))
  <2> SUFFICES ASSUME Len(x) < Len(y) PROVE FALSE
    OBVIOUS
  <2>1. Len(x) + 2 \in 1 .. Len(u) /\ Len(x) + 2 \in 1 .. Len(v) /\ Len(x) + 1 \in 1 .. Len(y)
        /\ (Len(x) + 1) + 1 = Len(x) + 2
    BY <1>1, <1>2, <1>3
  <2>2. v[Len(x) + 2] = y[Len(x) + 1]
    BY <1>3, <2>1
  <2>3. v[Len(x) + 2] = "\r"
    BY <1>2, <1>6, <2>1
  <2> QED BY <1>1, <2>1, <2>2, <2>3
<1>8. ~(Len(y) < Len(x))
  <2> SUFFICES ASSUME Len(y) < Len(x) PROVE FALSE
    OBVIOUS
  <2>1. Len(y) + 2 \in 1 .. Len(u) /\ Len(y) + 2 \in 1 .. Len(v) /\ Len(y) + 1 \in 1 .. Len(x)
        /\ (Len(y) + 1) + 1 = Len(y) + 2
    BY <1>1, <1>2, <1>3
  <2>2. u[Len(y) + 2] = x[Len(y) + 1]
    BY <1>2, <2>1
  <2>3. u[Len(y) + 2] = "\r"
    BY <1>3, <1>6, <2>1
  <2> QED BY <1>1, <2>1, <2>2, <2>3
<1>9. Len(x) = Len(y)
  BY <1>1, <1>7, <1>8
<1>10. ASSUME NEW i \in 1 .. Len(x) PROVE x[i] = y[i]
  <2>1. i \in 1 .. Len(y) /\ i + 1 \in 1 .. Len(u) /\ i + 1 \in 1 .. Len(v)
    BY <1>1, <1>2, <1>3, <1>9
  <2>2. u[i + 1] = x[i] /\ v[i + 1] = y[i] /\ u[i + 1] = v[i + 1]
    BY <1>2, <1>3, <1>6, <2>1
  <2> QED BY <2>2
<1>11. x = y
  BY <1>1, <1>9, <1>10, SeqEqual DEF Text
<1>12. m = n
  BY <1>11, DecimalTells DEF x, y
<1>13. p = q
  BY <1>2, <1>3, <1>4, <1>9, SplitEqual DEF Text
<1> QED BY <1>12, <1>13

LEMMA BulkTyped ==
  ASSUME NEW a \in Text
  PROVE  /\ BulkOf(a) \in Text /\ Len(BulkOf(a)) = bulklen(Len(a))
         /\ \A p \in Text : BulkOf(a) \o p = Header("$", Len(a)) \o (a \o (CRLF \o p))
<1> DEFINE h == Header("$", Len(a))  e == CRLF
<1>1. Len(a) \in Nat /\ e \in Text /\ Len(e) = 2
  BY TextIs, CRLFText, CRLFIs
<1>2. h \in Text /\ Len(h) = Len(Decimal[Len(a)]) + 3 /\ Len(Decimal[Len(a)]) \in Nat
  BY <1>1, CRLFText, HeaderTyped, DecimalText
<1>3. BulkOf(a) = (h \o a) \o e
  BY DEF BulkOf, Header
<1>4. Len(h) + Len(a) + 2 = bulklen(Len(a))
  BY <1>1, <1>2 DEF bulklen, countDigits
<1> HIDE DEF h, e
<1>5. h \o a \in Text /\ Len(h \o a) = Len(h) + Len(a)
  BY <1>2, Joins
<1>6. (h \o a) \o e \in Text /\ Len((h \o a) \o e) = Len(h \o a) + Len(e)
  BY <1>1, <1>5, Joins
<1>7. Len(BulkOf(a)) = bulklen(Len(a))
  BY <1>1, <1>2, <1>3, <1>4, <1>5, <1>6
<1>8. ASSUME NEW p \in Text PROVE BulkOf(a) \o p = h \o (a \o (e \o p))
  <2>1. Assoc4(h, a, e, p)
    BY <1>1, <1>2, RegroupFour
  <2> QED BY <1>3, <2>1, Zenon DEF Assoc4
<1> QED BY <1>3, <1>6, <1>7, <1>8 DEF h, e

(* A bulk is followed by what comes after it, whatever the bytes in it.    *)
LEMMA BulkTells ==
  ASSUME NEW a \in Text, NEW b \in Text, NEW p \in Text, NEW q \in Text,
         BulkOf(a) \o p = BulkOf(b) \o q
  PROVE  a = b
<1> DEFINE u == CRLF \o p  v == CRLF \o q
<1>1. u \in Text /\ v \in Text /\ Len(a) \in Nat /\ Len(b) \in Nat
  BY CRLFText, Joins, TextIs
<1>2. Header("$", Len(a)) \o (a \o u) = Header("$", Len(b)) \o (b \o v)
  BY BulkTyped
<1> DEFINE dollar == "$"
<1>3. dollar \in Bytes /\ Header(dollar, Len(a)) \o (a \o u) = Header(dollar, Len(b)) \o (b \o v)
  BY <1>2, CRLFText, Zenon
<1> HIDE DEF u, v, dollar
<1>4. a \o u \in Text /\ b \o v \in Text
  BY <1>1, Joins
<1>5. Len(a) = Len(b) /\ a \o u = b \o v
  <2> DEFINE au == a \o u  bv == b \o v  la == Len(a)  lb == Len(b)
  <2>1. /\ au \in Text /\ bv \in Text /\ la \in Nat /\ lb \in Nat /\ dollar \in Bytes
        /\ Same(dollar, la, au, lb, bv)
    BY <1>1, <1>3, <1>4 DEF Same
  <2> HIDE DEF au, bv, la, lb
  <2>2. la = lb /\ au = bv
    BY <2>1, HeaderTells
  <2> QED BY <2>2 DEF au, bv, la, lb
<1> QED BY <1>1, <1>5, SplitEqual DEF Text

LEMMA CancelLeft ==
  ASSUME NEW s \in Text, NEW p \in Text, NEW q \in Text, s \o p = s \o q
  PROVE  p = q
BY ConcatSimplifications DEF Text

LEMMA TextRest ==
  ASSUME NEW s \in Seq(Text), NEW k \in 0 .. Len(s)
  PROVE  \E rest \in Text : Joined(s)[Len(s)] = Joined(s)[k] \o rest
BY JoinedRest DEF Text

(* A command is its header and its bulks.                                  *)
Bulks(argv) == [i \in 1 .. Len(argv) |-> BulkOf(argv[i])]

LEMMA BulksTyped ==
  ASSUME NEW argv \in Seq(Text)
  PROVE  /\ Len(argv) \in Nat /\ Bulks(argv) \in Seq(Text) /\ Len(Bulks(argv)) = Len(argv)
         /\ \A i \in 1 .. Len(argv) : argv[i] \in Text /\ Bulks(argv)[i] = BulkOf(argv[i])
         /\ FlattenSeq(Bulks(argv)) \in Text
<1>1. Len(argv) \in Nat /\ \A i \in 1 .. Len(argv) : argv[i] \in Text
  OBVIOUS
<1>2. \A i \in 1 .. Len(argv) : BulkOf(argv[i]) \in Text
  BY <1>1, BulkTyped
<1>3. Bulks(argv) \in Seq(Text) /\ Len(Bulks(argv)) = Len(argv)
  BY <1>1, <1>2 DEF Bulks
<1>4. \A i \in 1 .. Len(argv) : Bulks(argv)[i] = BulkOf(argv[i])
  BY DEF Bulks
<1>5. FlattenSeq(Bulks(argv)) \in Text
  BY <1>3, FlatTyped DEF Text
<1> QED BY <1>1, <1>3, <1>4, <1>5

LEMMA WireIs ==
  ASSUME NEW argv \in Seq(Text)
  PROVE  /\ Wire(argv) = Header("*", Len(argv)) \o FlattenSeq(Bulks(argv))
         /\ Header("*", Len(argv)) \in Text /\ Wire(argv) \in Text
<1>1. Wire(argv) = Header("*", Len(argv)) \o FlattenSeq(Bulks(argv))
  BY Zenon DEF Wire, Header, Bulks, BulkOf
<1>2. Header("*", Len(argv)) \in Text
  BY BulksTyped, CRLFText, HeaderTyped
<1> DEFINE h == Header("*", Len(argv))
<1> HIDE DEF h
<1>3. h \o FlattenSeq(Bulks(argv)) \in Text
  BY <1>2, BulksTyped, Joins DEF h
<1> QED BY <1>1, <1>2, <1>3, Zenon DEF h

SameBytes(x, p, y, q) == Wire(x) \o p = Wire(y) \o q

(* No command is the beginning of another: a server that has read one      *)
(* command knows which, and where the next begins.                         *)
THEOREM WireTells ==
  ASSUME NEW x \in Seq(Text), NEW y \in Seq(Text), NEW p \in Text, NEW q \in Text,
         SameBytes(x, p, y, q)
  PROVE  x = y /\ p = q
<1> DEFINE s == Bulks(x)  t == Bulks(y)  n == Len(x)  star == "*"  fs == FlattenSeq(s)
           ft == FlattenSeq(t)  J(k) == Joined(s)[k]  K(k) == Joined(t)[k]
<1>1. /\ n \in Nat /\ s \in Seq(Text) /\ Len(s) = n /\ fs \in Text
      /\ \A i \in 1 .. n : x[i] \in Text /\ s[i] = BulkOf(x[i])
  BY BulksTyped
<1>2. /\ Len(y) \in Nat /\ t \in Seq(Text) /\ Len(t) = Len(y) /\ ft \in Text
      /\ \A i \in 1 .. Len(y) : y[i] \in Text /\ t[i] = BulkOf(y[i])
  BY BulksTyped
<1>3. fs = J(n) /\ ft = K(Len(y))
  BY <1>1, <1>2, Flat DEF Text
<1>4. Len(y) = n /\ fs \o p = ft \o q
  <2> DEFINE a == fs \o p  b == ft \o q  hx == Header(star, n)  hy == Header(star, Len(y))
             ly == Len(y)
  <2>1. a \in Text /\ b \in Text
    BY <1>1, <1>2, Joins
  <2>2. Wire(x) = hx \o fs /\ Wire(y) = hy \o ft /\ hx \in Text /\ hy \in Text
    BY WireIs, Zenon
  <2>3. (hx \o fs) \o p = hx \o a /\ (hy \o ft) \o q = hy \o b
    <3> HIDE DEF hx, hy, fs, ft
    <3>1. Assoc(hx, fs, p) /\ Assoc(hy, ft, q)
      BY <1>1, <1>2, <2>2, Regroup
    <3> QED BY <3>1, Zenon DEF Assoc
  <2>4. star \in Bytes
    BY CRLFText
  <2>5. Same(star, n, a, ly, b)
    <3>1. hx \o a = hy \o b
      BY <2>2, <2>3, Zenon DEF SameBytes
    <3> QED BY <3>1, Zenon DEF Same
  <2>6. n \in Nat /\ ly \in Nat
    BY <1>1, <1>2
  <2> HIDE DEF a, b, star, n, ly
  <2>7. n = ly /\ a = b
    BY <2>1, <2>4, <2>5, <2>6, HeaderTells
  <2> QED BY <2>7 DEF a, b, ly
<1> HIDE DEF s, t, n, star, fs, ft
<1>5. ASSUME NEW k \in Nat, k + 1 <= n, \A i \in 1 .. k : x[i] = y[i]
      PROVE  x[k + 1] = y[k + 1]
  <2> DEFINE v == x[k + 1]  w == y[k + 1]  a == BulkOf(v)  b == BulkOf(w)  jk == J(k)
  <2>1. k + 1 \in 1 .. n /\ (k + 1) - 1 = k /\ k \in 0 .. n /\ k + 1 \in 0 .. n /\ k <= n
    BY <1>1, <1>5
  <2>2. v \in Text /\ w \in Text /\ s[k + 1] = a /\ t[k + 1] = b
    BY <1>1, <1>2, <1>4, <2>1
  <2>3. a \in Text /\ b \in Text
    BY <2>2, BulkTyped
  <2>4. \A i \in 1 .. k : s[i] = t[i]
    <3> SUFFICES ASSUME NEW i \in 1 .. k PROVE s[i] = t[i]
      OBVIOUS
    <3>1. i \in 1 .. n
      BY <1>1, <2>1
    <3>2. x[i] = y[i]
      BY <1>5
    <3>3. s[i] = BulkOf(x[i]) /\ t[i] = BulkOf(y[i])
      BY <1>1, <1>2, <1>4, <3>1
    <3> QED BY <3>2, <3>3, Zenon
  <2>5. jk = K(k)
    <3>1. k <= Len(s) /\ k <= Len(t)
      BY <1>1, <1>2, <1>4, <2>1
    <3>2. s \in Seq(Text) /\ t \in Seq(Text) /\ k \in Nat
      BY <1>1, <1>2
    <3>3. Joined(s)[k] = Joined(t)[k]
      BY <2>4, <3>1, <3>2, JoinedAgree
    <3> QED BY <3>3
  <2>6. J(k + 1) = jk \o a /\ K(k + 1) = jk \o b
    <3>1. k + 1 \in 1 .. Len(s) /\ k + 1 \in 1 .. Len(t)
      BY <1>1, <1>2, <1>4, <2>1
    <3>2. J(k + 1) = J((k + 1) - 1) \o s[k + 1]
      BY <1>1, <3>1, JoinedIs
    <3>3. K(k + 1) = K((k + 1) - 1) \o t[k + 1]
      BY <1>2, <3>1, JoinedIs
    <3>4. J((k + 1) - 1) = jk /\ K((k + 1) - 1) = jk
      BY <2>1, <2>5
    <3> QED BY <2>2, <3>2, <3>3, <3>4, Zenon
  <2>7. jk \in Text
    BY <1>1, <2>1, JoinedTyped DEF Text
  <2>8. PICK u \in Text : fs = J(k + 1) \o u
    <3>1. k + 1 \in 0 .. Len(s) /\ fs = J(Len(s))
      BY <1>1, <1>3, <2>1
    <3> QED BY <1>1, <3>1, TextRest
  <2>9. PICK z \in Text : ft = K(k + 1) \o z
    <3>1. k + 1 \in 0 .. Len(t) /\ ft = K(Len(t))
      BY <1>2, <1>3, <1>4, <2>1
    <3> QED BY <1>2, <3>1, TextRest
  <2> HIDE DEF jk, a, b
  <2>10. u \o p \in Text /\ z \o q \in Text
    BY Joins
  <2>11. ((jk \o a) \o u) \o p = jk \o (a \o (u \o p))
    <3>1. Assoc4(jk, a, u, p)
      BY <2>3, <2>7, RegroupFour
    <3> QED BY <3>1, Zenon DEF Assoc4
  <2>12. ((jk \o b) \o z) \o q = jk \o (b \o (z \o q))
    <3>1. Assoc4(jk, b, z, q)
      BY <2>3, <2>7, RegroupFour
    <3> QED BY <3>1, Zenon DEF Assoc4
  <2>13. jk \o (a \o (u \o p)) = jk \o (b \o (z \o q))
    BY <1>4, <2>6, <2>8, <2>9, <2>11, <2>12, Zenon
  <2>14. a \o (u \o p) \in Text /\ b \o (z \o q) \in Text
    BY <2>3, <2>10, Joins
  <2>15. a \o (u \o p) = b \o (z \o q)
    BY <2>7, <2>13, <2>14, CancelLeft
  <2>16. v = w
    <3> DEFINE up == u \o p  zq == z \o q
    <3>1. up \in Text /\ zq \in Text /\ BulkOf(v) \o up = BulkOf(w) \o zq
      BY <2>10, <2>15 DEF a, b
    <3> HIDE DEF up, zq, v, w
    <3> QED BY <2>2, <3>1, BulkTells
  <2> QED BY <2>16
<1> DEFINE Q == {k \in Nat : k <= n => \A i \in 1 .. k : x[i] = y[i]}
<1>6. 0 \in Q
  OBVIOUS
<1>7. ASSUME NEW k \in Nat, k \in Q PROVE k + 1 \in Q
  <2> SUFFICES ASSUME k + 1 <= n PROVE \A i \in 1 .. k + 1 : x[i] = y[i]
    OBVIOUS
  <2>1. \A i \in 1 .. k : x[i] = y[i]
    BY <1>1, <1>7
  <2>2. x[k + 1] = y[k + 1]
    BY <1>5, <2>1
  <2>3. \A i \in 1 .. k + 1 : i \in 1 .. k \/ i = k + 1
    OBVIOUS
  <2> QED BY <2>1, <2>2, <2>3
<1>8. n \in Q
  <2> HIDE DEF Q
  <2> QED BY <1>1, <1>6, <1>7, Induction
<1>9. x = y
  <2>1. \A i \in 1 .. n : x[i] = y[i]
    BY <1>1, <1>8
  <2> QED BY <1>4, <2>1, SeqEqual DEF n
<1>10. p = q
  <2>1. fs = ft
    BY <1>9 DEF fs, ft, s, t
  <2> QED BY <1>1, <1>4, <2>1, CancelLeft
<1> QED BY <1>9, <1>10

-----------------------------------------------------------------------------
(* What the formatters build.                                              *)

(* A command up to and with its i-th argument.                             *)
Part(argv, i) == Header("*", Len(argv)) \o Joined(Bulks(argv))[i]

LEMMA PartIs ==
  ASSUME NEW argv \in Seq(Text)
  PROVE  /\ Len(argv) \in Nat
         /\ Part(argv, 0) = Header("*", Len(argv))
         /\ \A i \in 1 .. Len(argv) : Part(argv, i) = Part(argv, i - 1) \o BulkOf(argv[i])
         /\ \A i \in 0 .. Len(argv) : Part(argv, i) \in Text
         /\ Part(argv, Len(argv)) = Wire(argv)
<1> DEFINE h == Header("*", Len(argv))  s == Bulks(argv)  n == Len(argv)  j == Joined(s)
<1>1. h \in Text
  BY WireIs
<1>2. /\ n \in Nat /\ s \in Seq(Text) /\ Len(s) = n
      /\ \A i \in 1 .. n : argv[i] \in Text /\ s[i] = BulkOf(argv[i])
  BY BulksTyped
<1>3. Wire(argv) = h \o FlattenSeq(s)
  BY WireIs, Zenon
<1>4. \A i : Part(argv, i) = h \o j[i]
  BY DEF Part
<1> HIDE DEF h, s, n, j
<1>5. j[0] = <<>> /\ \A i \in 1 .. n : j[i] = j[i - 1] \o s[i]
  BY <1>2, JoinedIs DEF j
<1>6. \A i \in 0 .. n : j[i] \in Text
  BY <1>2, JoinedTyped DEF j, Text
<1>7. FlattenSeq(s) = j[n]
  BY <1>2, Flat DEF j, Text
<1>8. Part(argv, 0) = h
  <2>1. h \o <<>> = h
    BY <1>1, ConcatEmptySeq DEF Text
  <2> QED BY <1>4, <1>5, <2>1, Zenon
<1>9. ASSUME NEW i \in 1 .. n PROVE Part(argv, i) = Part(argv, i - 1) \o BulkOf(argv[i])
  <2> DEFINE before == j[i - 1]  b == BulkOf(argv[i])
  <2>1. before \in Text /\ b \in Text
    <3>1. i - 1 \in 0 .. n
      BY <1>2
    <3>2. argv[i] \in Text
      BY <1>2
    <3> QED BY <1>6, <3>1, <3>2, BulkTyped
  <2>2. j[i] = before \o b
    BY <1>2, <1>5
  <2> HIDE DEF before, b
  <2>3. Assoc(h, before, b)
    BY <1>1, <2>1, Regroup
  <2>4. Part(argv, i - 1) = h \o before /\ Part(argv, i) = h \o j[i]
    BY <1>4, Zenon DEF before
  <2> QED BY <2>2, <2>3, <2>4, Zenon DEF b, Assoc
<1>10. \A i \in 0 .. n : Part(argv, i) \in Text
  BY <1>1, <1>4, <1>6, Joins
<1>11. Part(argv, n) = Wire(argv)
  BY <1>3, <1>4, <1>7, Zenon
<1> QED BY <1>2, <1>8, <1>9, <1>10, <1>11 DEF h, n

(* redisvFormatCommand() builds that command.                              *)
LEMMA CommandIs == \A argv \in Seq(Text) : Command(argv) = Wire(argv)
<1> SUFFICES ASSUME NEW argv \in Seq(Text) PROVE Command(argv) = Wire(argv)
  OBVIOUS
<1> DEFINE n == Len(argv)  h == Header("*", n)
           Next1(f, i) == IF i = 0 THEN h ELSE f[i - 1] \o BulkOf(argv[i])
           Body(f) == [i \in 0 .. n |-> Next1(f, i)]
           cmd == CHOOSE f : f = Body(f)
           part == [i \in 0 .. n |-> Part(argv, i)]
<1>1. Command(argv) = cmd[n]
  BY Zenon DEF Command, Header
<1>2. /\ n \in Nat /\ Part(argv, 0) = h /\ Part(argv, n) = Wire(argv)
      /\ \A i \in 1 .. n : Part(argv, i) = Part(argv, i - 1) \o BulkOf(argv[i])
  BY PartIs
<1> HIDE DEF n, h
<1>3. part = Body(part)
  <2>1. \A i \in 0 .. n : part[i] = Part(argv, i)
    OBVIOUS
  <2>2. part = [i \in 0 .. n |-> part[i]]
    OBVIOUS
  <2> HIDE DEF part
  <2>3. ASSUME NEW i \in 0 .. n PROVE part[i] = Next1(part, i)
    <3>1. CASE i = 0
      BY <1>2, <2>1, <3>1
    <3>2. CASE i # 0
      <4>1. i \in 1 .. n /\ i - 1 \in 0 .. n
        BY <1>2, <3>2
      <4> QED BY <1>2, <2>1, <3>2, <4>1
    <3> QED BY <3>1, <3>2
  <2> HIDE DEF Next1
  <2> QED BY <2>2, <2>3, Zenon
<1>4. cmd = Body(cmd)
  <2> HIDE DEF part, Body
  <2> QED BY <1>3
<1> HIDE DEF cmd
<1>5. \A i \in 0 .. n : cmd[i] = Next1(cmd, i)
  BY <1>4
<1> DEFINE Q == {k \in Nat : k <= n => cmd[k] = Part(argv, k)}
<1>6. 0 \in Q
  BY <1>2, <1>5
<1>7. ASSUME NEW k \in Nat, k \in Q PROVE k + 1 \in Q
  <2> SUFFICES ASSUME k + 1 <= n PROVE cmd[k + 1] = Part(argv, k + 1)
    OBVIOUS
  <2>1. k + 1 \in 1 .. n /\ k + 1 \in 0 .. n /\ (k + 1) - 1 = k /\ k + 1 # 0 /\ k <= n
    BY <1>2
  <2>2. cmd[k + 1] = cmd[k] \o BulkOf(argv[k + 1])
    BY <1>5, <2>1
  <2>3. Part(argv, k + 1) = Part(argv, k) \o BulkOf(argv[k + 1])
    BY <1>2, <2>1
  <2> QED BY <1>7, <2>1, <2>2, <2>3
<1>8. n \in Q
  <2> HIDE DEF Q
  <2> QED BY <1>2, <1>6, <1>7, Induction
<1> QED BY <1>1, <1>2, <1>8

(* The length computed before it is built is the command's.                *)
LEMMA TotalLengthIs == \A argv \in Seq(Text) : TotalLength(argv) = Len(Wire(argv))
<1> SUFFICES ASSUME NEW argv \in Seq(Text) PROVE TotalLength(argv) = Len(Wire(argv))
  OBVIOUS
<1> DEFINE n == Len(argv)  first == 1 + countDigits(n) + 2
           Next1(f, i) == IF i = 0 THEN first ELSE f[i - 1] + bulklen(Len(argv[i]))
           Body(f) == [i \in 0 .. n |-> Next1(f, i)]
           tot == CHOOSE f : f = Body(f)
           L(i) == Len(Part(argv, i))
           part == [i \in 0 .. n |-> L(i)]
<1>1. TotalLength(argv) = tot[n]
  BY Zenon DEF TotalLength
<1>2. n \in Nat /\ L(n) = Len(Wire(argv))
  BY PartIs
<1>3. L(0) = first
  <2>1. Len(Header("*", n)) = Len(Decimal[n]) + 3
    BY <1>2, CRLFText, HeaderTyped
  <2>2. Part(argv, 0) = Header("*", n)
    BY PartIs
  <2>3. Len(Decimal[n]) \in Nat
    BY <1>2, DecimalText
  <2> DEFINE l == Len(Decimal[n])
  <2>4. L(0) = l + 3 /\ first = 1 + l + 2 /\ l \in Nat
    BY <2>1, <2>2, <2>3, Zenon DEF countDigits
  <2> HIDE DEF l
  <2> QED BY <2>4
<1>4. ASSUME NEW i \in 1 .. n PROVE L(i) = L(i - 1) + bulklen(Len(argv[i]))
  <2>1. i - 1 \in 0 .. n
    BY <1>2
  <2>2. argv[i] \in Text
    OBVIOUS
  <2>3. Part(argv, i - 1) \in Text
    BY <2>1, PartIs
  <2>4. BulkOf(argv[i]) \in Text /\ Len(BulkOf(argv[i])) = bulklen(Len(argv[i]))
    BY <2>2, BulkTyped
  <2>5. Part(argv, i) = Part(argv, i - 1) \o BulkOf(argv[i])
    BY PartIs
  <2> QED BY <2>3, <2>4, <2>5, Joins
<1> HIDE DEF n, first, L
<1>5. part = Body(part)
  <2>1. \A i \in 0 .. n : part[i] = L(i)
    OBVIOUS
  <2>2. part = [i \in 0 .. n |-> part[i]]
    OBVIOUS
  <2> HIDE DEF part
  <2>3. ASSUME NEW i \in 0 .. n PROVE part[i] = Next1(part, i)
    <3>1. CASE i = 0
      BY <1>3, <2>1, <3>1
    <3>2. CASE i # 0
      <4>1. i \in 1 .. n /\ i - 1 \in 0 .. n
        BY <1>2, <3>2
      <4> QED BY <1>4, <2>1, <3>2, <4>1
    <3> QED BY <3>1, <3>2
  <2> HIDE DEF Next1
  <2> QED BY <2>2, <2>3, Zenon
<1>6. tot = Body(tot)
  <2> HIDE DEF part, Body
  <2> QED BY <1>5
<1> HIDE DEF tot
<1>7. \A i \in 0 .. n : tot[i] = Next1(tot, i)
  BY <1>6
<1> DEFINE Q == {k \in Nat : k <= n => tot[k] = L(k)}
<1>8. 0 \in Q
  BY <1>2, <1>3, <1>7
<1>9. ASSUME NEW k \in Nat, k \in Q PROVE k + 1 \in Q
  <2> SUFFICES ASSUME k + 1 <= n PROVE tot[k + 1] = L(k + 1)
    OBVIOUS
  <2>1. k + 1 \in 1 .. n /\ k + 1 \in 0 .. n /\ (k + 1) - 1 = k /\ k + 1 # 0 /\ k <= n
    BY <1>2
  <2>2. tot[k + 1] = tot[k] + bulklen(Len(argv[k + 1]))
    BY <1>7, <2>1
  <2>3. L(k + 1) = L(k) + bulklen(Len(argv[k + 1]))
    BY <1>4, <2>1
  <2> QED BY <1>9, <2>1, <2>2, <2>3
<1>10. n \in Q
  <2> HIDE DEF Q
  <2> QED BY <1>2, <1>8, <1>9, Induction
<1> QED BY <1>1, <1>2, <1>10

(* The steps of redisFormatSdsCommandArgv().                               *)
Counted(s, b, n) ==
  CatPiece(CatPiece(CatPiece(CatPiece(s, <<b>>), Decimal[n]), <<"\r">>), <<"\n">>)
CatBulk(s, arg) == sdscatlen(sdscatlen(Counted(s, "$", Len(arg)), arg), CRLF)

Holds(s, data) == Sound(s, Bytes) /\ s.data = data

LEMMA Pair == ASSUME NEW x, NEW y PROVE <<x, y>> = <<x>> \o <<y>>
<1> DEFINE S == {x, y}  u == <<x>>  v == <<y>>  w == <<x, y>>
<1>1. /\ w \in Seq(S) /\ Len(w) = 2 /\ w[1] = x /\ w[2] = y
      /\ u \in Seq(S) /\ Len(u) = 1 /\ u[1] = x
      /\ v \in Seq(S) /\ Len(v) = 1 /\ v[1] = y
  OBVIOUS
<1> HIDE DEF u, v, w
<1>2. /\ u \o v \in Seq(S) /\ Len(u \o v) = 2
      /\ (u \o v)[1] = x /\ (u \o v)[2] = y
  <2>1. /\ u \o v \in Seq(S) /\ Len(u \o v) = Len(u) + Len(v)
        /\ \A i \in 1 .. Len(u) + Len(v) :
              (u \o v)[i] = IF i <= Len(u) THEN u[i] ELSE v[i - Len(u)]
    BY <1>1, ConcatProperties
  <2> HIDE DEF S
  <2>2. Len(u) + Len(v) = 2 /\ 1 \in 1 .. 2 /\ 2 \in 1 .. 2
    BY <1>1
  <2>3. (u \o v)[1] = u[1] /\ (u \o v)[2] = v[2 - 1]
    BY <1>1, <2>1, <2>2
  <2> QED BY <1>1, <2>1, <2>2, <2>3
<1>3. \A i \in 1 .. 2 : w[i] = (u \o v)[i]
  BY <1>1, <1>2
<1>4. w = u \o v
  BY <1>1, <1>2, <1>3, SeqEqual
<1> QED BY <1>4 DEF u, v, w

Assoc5(p, x, d, r, l) == (((p \o x) \o d) \o r) \o l = p \o ((x \o d) \o (r \o l))
LEMMA RegroupFive ==
  ASSUME NEW p \in Text, NEW x \in Text, NEW d \in Text, NEW r \in Text, NEW l \in Text
  PROVE  Assoc5(p, x, d, r, l)
<1> DEFINE a == (p \o x) \o d  b == x \o d  e == r \o l
<1>1. a \in Text /\ b \in Text /\ e \in Text
  BY Joins
<1>2. a = p \o b
  <2>1. Assoc(p, x, d)
    BY Regroup
  <2> QED BY <2>1, Zenon DEF Assoc
<1> HIDE DEF a, b
<1>3. Assoc(a, r, l)
  BY <1>1, Regroup
<1>4. (a \o r) \o l = a \o e
  BY <1>3, Zenon DEF Assoc
<1> HIDE DEF e
<1>5. Assoc(p, b, e)
  BY <1>1, Regroup
<1>6. (p \o b) \o e = p \o (b \o e)
  BY <1>5, Zenon DEF Assoc
<1> QED BY <1>2, <1>4, <1>6, Zenon DEF a, b, e, Assoc5

LEMMA CountedHolds ==
  ASSUME NEW s, NEW data \in Text, Holds(s, data), NEW b \in Bytes, NEW n \in Nat
  PROVE  Holds(Counted(s, b, n), data \o Header(b, n))
<1> DEFINE d == Decimal[n]  r == <<"\r">>  l == <<"\n">>  e == CRLF  x == <<b>>
           s1 == CatPiece(s, x)  s2 == CatPiece(s1, d)  s3 == CatPiece(s2, r)
           s4 == CatPiece(s3, l)
<1>1. d \in Seq(Bytes) /\ x \in Seq(Bytes) /\ e \in Seq(Bytes)
  BY DecimalText, CRLFIs DEF Text
<1>2. r \in Seq(Bytes) /\ l \in Seq(Bytes) /\ e = r \o l
  <2>1. "\r" \in Bytes /\ "\n" \in Bytes
    BY Zenon DEF Bytes
  <2>2. e = r \o l
    BY Pair, Zenon DEF CRLF
  <2>3. \A y \in Bytes : <<y>> \in Seq(Bytes)
    OBVIOUS
  <2> QED BY <2>1, <2>2, <2>3, Zenon
<1>3. Counted(s, b, n) = s4 /\ Header(b, n) = (x \o d) \o e
  BY Zenon DEF Counted, Header
<1>4. data \in Seq(Bytes)
  BY DEF Text
<1> HIDE DEF d, r, l, e, x
<1>5. Sound(s1, Bytes) /\ s1.data = data \o x
  BY <1>1, CatPieceExact DEF Holds
<1> HIDE DEF s1
<1>6. Sound(s2, Bytes) /\ s2.data = (data \o x) \o d
  BY <1>1, <1>5, CatPieceExact
<1> HIDE DEF s2
<1>7. Sound(s3, Bytes) /\ s3.data = ((data \o x) \o d) \o r
  BY <1>2, <1>6, CatPieceExact
<1> HIDE DEF s3
<1>8. Sound(s4, Bytes) /\ s4.data = (((data \o x) \o d) \o r) \o l
  BY <1>2, <1>7, CatPieceExact
<1> HIDE DEF s4
<1>9. (((data \o x) \o d) \o r) \o l = data \o ((x \o d) \o e)
  <2>1. x \in Text /\ d \in Text /\ r \in Text /\ l \in Text
    BY <1>1, <1>2 DEF Text
  <2>2. Assoc5(data, x, d, r, l)
    BY <2>1, RegroupFive
  <2> QED BY <1>2, <2>2, Zenon DEF Assoc5
<1> QED BY <1>3, <1>8, <1>9, Zenon DEF Holds

LEMMA CatBulkHolds ==
  ASSUME NEW s, NEW data \in Text, Holds(s, data), NEW arg \in Text
  PROVE  Holds(CatBulk(s, arg), data \o BulkOf(arg))
<1> DEFINE h == Header("$", Len(arg))  e == CRLF  s1 == Counted(s, "$", Len(arg))
           s2 == sdscatlen(s1, arg)  s3 == sdscatlen(s2, e)
<1>1. Len(arg) \in Nat /\ e \in Text /\ "$" \in Bytes
  BY TextIs, CRLFText
<1>2. h \in Text
  BY <1>1, HeaderTyped
<1>3. Holds(s1, data \o h)
  BY <1>1, CountedHolds
<1>4. CatBulk(s, arg) = s3 /\ BulkOf(arg) = (h \o arg) \o e
  BY Zenon DEF CatBulk, BulkOf, Header
<1> HIDE DEF h, e, s1
<1>5. Sound(s2, Bytes) /\ s2.data = (data \o h) \o arg
  BY <1>3, CatLenExact DEF Holds, Text
<1> HIDE DEF s2
<1>6. Sound(s3, Bytes) /\ s3.data = ((data \o h) \o arg) \o e
  BY <1>1, <1>5, CatLenExact DEF Text
<1>7. ((data \o h) \o arg) \o e = data \o ((h \o arg) \o e)
  <2>1. h \o arg \in Text
    BY <1>2, Joins
  <2>2. Assoc(data, h, arg) /\ Assoc(data, h \o arg, e)
    BY <1>1, <1>2, <2>1, Regroup
  <2> QED BY <2>2, Zenon DEF Assoc
<1> HIDE DEF s3
<1> QED BY <1>4, <1>6, <1>7, Zenon DEF Holds

(* What is built so far, in a string that starts as base.                  *)
GrowNext(f, i, base, argv) == IF i = 0 THEN base ELSE CatBulk(f[i - 1], argv[i])
IsGrown(f, n, base, argv) == f = [i \in 0 .. n |-> GrowNext(f, i, base, argv)]

LEMMA GrownExists ==
  ASSUME NEW base, NEW argv, NEW n \in Nat PROVE \E f : IsGrown(f, n, base, argv)
<1> DEFINE S == {k \in Nat : \E f : IsGrown(f, k, base, argv)}
<1>1. 0 \in S
  <2>1. IsGrown([i \in 0 .. 0 |-> base], 0, base, argv)
    BY DEF IsGrown, GrowNext
  <2> QED BY <2>1
<1>2. ASSUME NEW k \in Nat, k \in S PROVE k + 1 \in S
  <2>1. PICK f : IsGrown(f, k, base, argv)
    BY <1>2
  <2> DEFINE more == [i \in 0 .. k + 1 |-> IF i <= k THEN f[i]
                                          ELSE GrowNext(f, k + 1, base, argv)]
  <2>2. \A i \in 0 .. k : more[i] = f[i]
    OBVIOUS
  <2>3. more[k + 1] = GrowNext(f, k + 1, base, argv)
    OBVIOUS
  <2>4. more = [i \in 0 .. k + 1 |-> more[i]]
    OBVIOUS
  <2> HIDE DEF more
  <2>5. \A i \in 0 .. k : f[i] = GrowNext(f, i, base, argv)
    BY <2>1 DEF IsGrown
  <2>6. \A i \in 0 .. k + 1 : more[i] = GrowNext(more, i, base, argv)
    BY <2>2, <2>3, <2>5 DEF GrowNext
  <2>7. IsGrown(more, k + 1, base, argv)
    BY <2>4, <2>6, Zenon DEF IsGrown
  <2> QED BY <2>7
<1>3. Nat \subseteq S
  <2> HIDE DEF S
  <2> QED BY <1>1, <1>2, Induction
<1> QED BY <1>3

(* redisFormatSdsCommandArgv() returns the command and its length, however *)
(* the string that holds it grows, and so the assertion after it holds     *)
(* (hiredis.c:593).                                                        *)
THEOREM FormatArgvExact ==
  ASSUME NEW argv \in Seq(Text)
  PROVE  redisFormatSdsCommandArgv(argv) = [len |-> Len(Wire(argv)), cmd |-> Wire(argv)]
<1> DEFINE n == Len(argv)
           base == Counted(sdsMakeRoomFor(sdsempty, TotalLength(argv)), "*", n)
           cmd == CHOOSE f : IsGrown(f, n, base, argv)
<1>1. redisFormatSdsCommandArgv(argv) = [len |-> TotalLength(argv), cmd |-> cmd[n].data]
  BY Zenon DEF redisFormatSdsCommandArgv, IsGrown, GrowNext, CatBulk, Counted
<1>2. /\ n \in Nat /\ Part(argv, 0) = Header("*", n) /\ Part(argv, n) = Wire(argv)
      /\ \A i \in 1 .. n : Part(argv, i) = Part(argv, i - 1) \o BulkOf(argv[i])
      /\ \A i \in 0 .. n : Part(argv, i) \in Text
  BY PartIs
<1>3. TotalLength(argv) = Len(Wire(argv)) /\ TotalLength(argv) \in Nat
  BY TotalLengthIs, WireIs, TextIs
<1>4. Holds(base, Part(argv, 0))
  <2> DEFINE room == sdsMakeRoomFor(sdsempty, TotalLength(argv))
  <2>1. Sound(sdsempty, Bytes) /\ sdsempty.data = <<>>
    <3>1. <<>> \in Seq(Bytes)
      OBVIOUS
    <3> QED BY <3>1, NewLen DEF sdsempty
  <2>2. Sound(room, Bytes) /\ room.data = <<>>
    BY <1>3, <2>1, MakeRoom
  <2>3. <<>> \in Text /\ "*" \in Bytes
    BY CRLFText DEF Text
  <2> HIDE DEF room
  <2>4. Holds(Counted(room, "*", n), <<>> \o Header("*", n))
    BY <1>2, <2>2, <2>3, CountedHolds DEF Holds
  <2>5. <<>> \o Header("*", n) = Header("*", n)
    BY WireIs, ConcatEmptySeq DEF Text
  <2> QED BY <1>2, <2>4, <2>5, Zenon DEF room
<1> HIDE DEF n, base
<1>5. IsGrown(cmd, n, base, argv)
  BY <1>2, GrownExists
<1> HIDE DEF cmd
<1>6. \A i \in 0 .. n : cmd[i] = GrowNext(cmd, i, base, argv)
  BY <1>5 DEF IsGrown
<1> DEFINE Q == {k \in Nat : k <= n => Holds(cmd[k], Part(argv, k))}
<1>7. 0 \in Q
  <2>1. cmd[0] = base
    BY <1>2, <1>6 DEF GrowNext
  <2> QED BY <1>4, <2>1
<1>8. ASSUME NEW k \in Nat, k \in Q PROVE k + 1 \in Q
  <2> SUFFICES ASSUME k + 1 <= n PROVE Holds(cmd[k + 1], Part(argv, k + 1))
    OBVIOUS
  <2>1. /\ k + 1 \in 1 .. n /\ k + 1 \in 0 .. n /\ (k + 1) - 1 = k /\ k + 1 # 0 /\ k <= n
        /\ k \in 0 .. n
    BY <1>2
  <2>2. cmd[k + 1] = CatBulk(cmd[k], argv[k + 1])
    BY <1>6, <2>1 DEF GrowNext
  <2>3. Part(argv, k + 1) = Part(argv, k) \o BulkOf(argv[k + 1])
    BY <1>2, <2>1
  <2>4. Holds(cmd[k], Part(argv, k)) /\ Part(argv, k) \in Text /\ argv[k + 1] \in Text
    BY <1>2, <1>8, <2>1 DEF n
  <2>5. Holds(CatBulk(cmd[k], argv[k + 1]), Part(argv, k) \o BulkOf(argv[k + 1]))
    BY <2>4, CatBulkHolds
  <2> QED BY <2>2, <2>3, <2>5, Zenon
<1>9. n \in Q
  <2> HIDE DEF Q
  <2> QED BY <1>2, <1>7, <1>8, Induction
<1> QED BY <1>1, <1>2, <1>3, <1>9 DEF Holds

(* Both ways to give a command put the same bytes in the output buffer,    *)
(* of the length that was computed before (the assertions at               *)
(* hiredis.c:524 and 627), and a format that is none puts nothing.         *)
THEOREM FormattedExact ==
  ASSUME NEW call \in Calls, Means(call)
  PROVE  /\ call.argv \in Seq(Text) /\ Wire(call.argv) \in Text
         /\ call.api # "invalid" =>
              Formatted(call) = [len |-> Len(Wire(call.argv)), cmd |-> Wire(call.argv)]
         /\ call.api = "invalid" => Formatted(call).len = -2
         /\ Len(Wire(call.argv)) # -2
<1>1. call.api \in {"format", "argv", "invalid"} /\ call.argv \in Seq(Seq(STRING))
  BY ContextAssumption
<1>2. call.argv \in Seq(Text)
  <2>1. Seq(STRING) \subseteq Text
    <3>1. STRING \subseteq Bytes
      BY Zenon DEF Bytes
    <3> DEFINE S == STRING
    <3>2. S \subseteq Bytes
      BY <3>1
    <3> HIDE DEF S
    <3>3. Seq(S) \subseteq Seq(Bytes)
      BY <3>2, SeqMonotonic
    <3> QED BY <3>3 DEF Text, S
  <2> DEFINE SS == Seq(STRING)
  <2>2. SS \subseteq Text /\ call.argv \in Seq(SS)
    BY <1>1, <2>1
  <2> HIDE DEF SS
  <2> QED BY <2>2, SeqMonotonic
<1>3. Wire(call.argv) \in Text /\ Len(Wire(call.argv)) \in Nat
  BY <1>2, WireIs, TextIs
<1>4. Len(Wire(call.argv)) # -2
  BY <1>3
<1>5. CASE call.api = "argv"
  <2>1. Formatted(call) = redisFormatSdsCommandArgv(call.argv)
    BY <1>5 DEF Formatted
  <2>2. Formatted(call) = [len |-> Len(Wire(call.argv)), cmd |-> Wire(call.argv)]
    BY <1>2, <2>1, FormatArgvExact
  <2> QED BY <1>2, <1>3, <1>4, <1>5, <2>2
<1>6. CASE call.api = "format"
  <2> DEFINE p == Parsed(call.fmt, call.args)
  <2>1. Formatted(call) = Built(p)
    BY <1>6, Zenon DEF Formatted, redisvFormatCommand
  <2>2. p = [bad |-> FALSE, argv |-> call.argv]
    BY <1>6 DEF Means
  <2> HIDE DEF p
  <2>3. Built(p) = [len |-> TotalLength(call.argv), cmd |-> Command(call.argv)]
    BY <2>2 DEF Built
  <2>4. TotalLength(call.argv) = Len(Wire(call.argv)) /\ Command(call.argv) = Wire(call.argv)
    BY <1>2, TotalLengthIs, CommandIs
  <2> QED BY <1>2, <1>3, <1>4, <1>6, <2>1, <2>3, <2>4
<1>7. CASE call.api = "invalid"
  <2> DEFINE p == Parsed(call.fmt, call.args)
  <2>1. Formatted(call) = Built(p)
    BY <1>7, Zenon DEF Formatted, redisvFormatCommand
  <2>2. p.bad
    BY <1>7 DEF Means
  <2> HIDE DEF p
  <2>3. Built(p).len = -2
    BY <2>2 DEF Built
  <2> QED BY <1>2, <1>3, <1>4, <1>7, <2>1, <2>3
<1> QED BY <1>1, <1>5, <1>6, <1>7

(* A text in two parts.                                                    *)
LEMMA TextSplit ==
  ASSUME NEW t \in Text, NEW n \in 0 .. Len(t)
  PROVE  /\ SubSeq(t, 1, n) \in Text /\ SubSeq(t, n + 1, Len(t)) \in Text
         /\ SubSeq(t, 1, n) \o SubSeq(t, n + 1, Len(t)) = t
<1>1. t \in Seq(Bytes) /\ Len(t) \in Nat
  BY TextIs
<1>2. SubSeq(t, 1, n) \in Seq(Bytes) /\ SubSeq(t, n + 1, Len(t)) \in Seq(Bytes)
  BY <1>1
<1>3. 1 \in 1 .. Len(t) + 1 /\ n \in 1 - 1 .. Len(t) /\ Len(t) \in n .. Len(t)
  BY <1>1
<1>4. SubSeq(t, 1, n) \o SubSeq(t, n + 1, Len(t)) = SubSeq(t, 1, Len(t))
  BY <1>1, <1>3, ConcatAdjacentSubSeq
<1> QED BY <1>1, <1>2, <1>4, SubSeqFull DEF Text

(* The commands a server has yet to read.                                  *)
OwedOf(app, sv) == [i \in 1 .. (Len(app) - sv) |-> Wire(app[sv + i])]

LEMMA OwedTyped ==
  ASSUME NEW app \in Seq(Seq(Text)), NEW sv \in Nat, sv <= Len(app)
  PROVE  /\ Len(app) \in Nat /\ OwedOf(app, sv) \in Seq(Text)
         /\ Len(OwedOf(app, sv)) = Len(app) - sv
         /\ FlattenSeq(OwedOf(app, sv)) \in Text
<1>1. Len(app) \in Nat
  OBVIOUS
<1>2. \A i \in 1 .. (Len(app) - sv) : Wire(app[sv + i]) \in Text
  <2> SUFFICES ASSUME NEW i \in 1 .. (Len(app) - sv) PROVE Wire(app[sv + i]) \in Text
    OBVIOUS
  <2>1. sv + i \in 1 .. Len(app)
    BY <1>1
  <2>2. app[sv + i] \in Seq(Text)
    BY <2>1
  <2> QED BY <2>2, WireIs
<1>3. OwedOf(app, sv) \in Seq(Text) /\ Len(OwedOf(app, sv)) = Len(app) - sv
  BY <1>1, <1>2 DEF OwedOf
<1> QED BY <1>1, <1>3, FlatTyped DEF Text

LEMMA OwedNone == FlattenSeq(OwedOf(<<>>, 0)) = <<>>
<1>1. OwedOf(<<>>, 0) = <<>>
  BY DEF OwedOf
<1>2. <<>> \in Seq(Seq(Bytes)) /\ Len(<<>>) = 0
  OBVIOUS
<1>3. FlattenSeq(<<>>) = Joined(<<>>)[0]
  BY <1>2, Flat
<1> QED BY <1>1, <1>2, <1>3, JoinedIs

LEMMA OwedAppend ==
  ASSUME NEW app \in Seq(Seq(Text)), NEW sv \in Nat, sv <= Len(app), NEW argv \in Seq(Text)
  PROVE  FlattenSeq(OwedOf(Append(app, argv), sv)) = FlattenSeq(OwedOf(app, sv)) \o Wire(argv)
<1> DEFINE more == Append(app, argv)  s == OwedOf(app, sv)  t == OwedOf(more, sv)
           w == Wire(argv)  n == Len(app) - sv
<1>1. /\ Len(app) \in Nat /\ more \in Seq(Seq(Text)) /\ Len(more) = Len(app) + 1
      /\ more[Len(app) + 1] = argv /\ \A i \in 1 .. Len(app) : more[i] = app[i]
  BY AppendProperties
<1>2. s \in Seq(Text) /\ Len(s) = n /\ w \in Text
  BY OwedTyped, WireIs
<1>3. n \in Nat /\ Len(more) - sv = n + 1
  BY <1>1
<1> HIDE DEF more
<1>4. t \in Seq(Text) /\ Len(t) = n + 1
  BY <1>1, <1>3, OwedTyped
<1>5. ASSUME NEW i \in 1 .. n PROVE t[i] = s[i]
  <2>1. sv + i \in 1 .. Len(app) /\ i \in 1 .. Len(more) - sv
    BY <1>1, <1>3
  <2>2. t[i] = Wire(more[sv + i]) /\ s[i] = Wire(app[sv + i])
    BY <2>1 DEF OwedOf
  <2> QED BY <1>1, <2>1, <2>2
<1>6. t[n + 1] = w
  <2>1. n + 1 \in 1 .. Len(more) - sv /\ sv + (n + 1) = Len(app) + 1
    BY <1>1, <1>3
  <2>2. t[n + 1] = Wire(more[sv + (n + 1)])
    BY <2>1 DEF OwedOf
  <2> QED BY <1>1, <2>1, <2>2
<1> HIDE DEF s, t, w, n
<1>7. t = Append(s, w)
  <2> DEFINE a == Append(s, w)
  <2>1. a \in Seq(Text) /\ Len(a) = n + 1 /\ (\A i \in 1 .. n : a[i] = s[i]) /\ a[n + 1] = w
    BY <1>2, AppendProperties
  <2> HIDE DEF a
  <2>2. \A i \in 1 .. n + 1 : i \in 1 .. n \/ i = n + 1
    BY <1>3
  <2>3. \A i \in 1 .. n + 1 : t[i] = a[i]
    BY <1>5, <1>6, <2>1, <2>2
  <2>4. t = a
    BY <1>4, <2>1, <2>3, SeqEqual
  <2> QED BY <2>4 DEF a
<1>8. FlattenSeq(Append(s, w)) = FlattenSeq(s) \o w
  BY <1>2, FlatAppend DEF Text
<1> QED BY <1>7, <1>8, Zenon DEF s, t, w, more

LEMMA OwedFirst ==
  ASSUME NEW app \in Seq(Seq(Text)), NEW sv \in Nat, sv < Len(app)
  PROVE  /\ app[sv + 1] \in Seq(Text)
         /\ FlattenSeq(OwedOf(app, sv)) = Wire(app[sv + 1]) \o FlattenSeq(OwedOf(app, sv + 1))
<1> DEFINE s == OwedOf(app, sv + 1)  t == OwedOf(app, sv)  w == Wire(app[sv + 1])
           n == Len(app) - (sv + 1)
<1>1. Len(app) \in Nat /\ sv + 1 \in 1 .. Len(app) /\ sv + 1 \in Nat
  OBVIOUS
<1>2. app[sv + 1] \in Seq(Text)
  BY <1>1
<1>3. n \in Nat /\ Len(app) - sv = n + 1
  BY <1>1
<1>4. s \in Seq(Text) /\ Len(s) = n /\ t \in Seq(Text) /\ Len(t) = n + 1 /\ w \in Text
  <2>1. sv + 1 <= Len(app) /\ sv <= Len(app)
    BY <1>1
  <2>2. s \in Seq(Text) /\ Len(s) = n
    BY <1>1, <2>1, OwedTyped
  <2>3. t \in Seq(Text) /\ Len(t) = Len(app) - sv
    BY <2>1, OwedTyped
  <2>4. w \in Text
    BY <1>2, WireIs
  <2> QED BY <1>3, <2>2, <2>3, <2>4
<1>5. t[1] = w
  BY <1>3 DEF OwedOf
<1>6. ASSUME NEW i \in 1 .. n PROVE t[i + 1] = s[i]
  <2>1. i + 1 \in 1 .. Len(app) - sv /\ sv + (i + 1) = (sv + 1) + i
    BY <1>3
  <2>2. t[i + 1] = Wire(app[sv + (i + 1)])
    BY <2>1 DEF OwedOf
  <2>3. s[i] = Wire(app[(sv + 1) + i])
    BY DEF OwedOf
  <2> QED BY <2>1, <2>2, <2>3
<1> HIDE DEF s, t, w, n
<1>7. t = <<w>> \o s
  <2> DEFINE a == <<w>> \o s
  <2>1. a \in Seq(Text) /\ Len(a) = n + 1 /\ a[1] = w /\ \A i \in 1 .. n : a[i + 1] = s[i]
    BY <1>3, <1>4
  <2> HIDE DEF a
  <2>2. ASSUME NEW i \in 1 .. n + 1 PROVE t[i] = a[i]
    <3>1. CASE i = 1
      BY <1>5, <2>1, <3>1
    <3>2. CASE i # 1
      <4>1. i - 1 \in 1 .. n /\ (i - 1) + 1 = i
        BY <1>3, <3>2
      <4> QED BY <1>6, <2>1, <4>1
    <3> QED BY <3>1, <3>2
  <2>3. t = a
    BY <1>4, <2>1, <2>2, SeqEqual
  <2> QED BY <2>3 DEF a
<1>8. FlattenSeq(<<w>> \o s) = w \o FlattenSeq(s)
  BY <1>4, FlatCons DEF Text
<1> QED BY <1>2, <1>7, <1>8, Zenon DEF s, t, w

-----------------------------------------------------------------------------
(* The context and its sockets.                                            *)

(* A socket whose bytes, or whose peer, change.                            *)
Sockets(n) ==
  n = [fd \in Fds |-> [peer |-> n[fd].peer, up |-> n[fd].up, down |-> n[fd].down]]
Upped(n, fd, v) == [n EXCEPT ![fd].up = v]
Downed(n, fd, v) == [n EXCEPT ![fd].down = v]
Peered(n, fd, v) == [n EXCEPT ![fd].peer = v]

LEMMA SocketsAre ==
  ASSUME NEW n, n = [f \in Fds |-> n[f]],
         \A f \in Fds : n[f] = [peer |-> n[f].peer, up |-> n[f].up, down |-> n[f].down]
  PROVE  Sockets(n)
BY DEF Sockets

LEMMA UppedDoes ==
  ASSUME NEW n, Sockets(n), NEW fd, NEW v, NEW m, m = Upped(n, fd, v)
  PROVE  /\ Sockets(m)
         /\ \A f \in Fds : /\ m[f].peer = n[f].peer
                           /\ m[f].up = IF f = fd THEN v ELSE n[f].up
                           /\ m[f].down = n[f].down
<1>1. n = [f \in Fds |-> n[f]] /\ m = [f \in Fds |-> m[f]]
  BY DEF Sockets, Upped
<1>2. ASSUME NEW f \in Fds
      PROVE  /\ m[f] = [peer |-> m[f].peer, up |-> m[f].up, down |-> m[f].down]
             /\ m[f].peer = n[f].peer
             /\ m[f].up = IF f = fd THEN v ELSE n[f].up
             /\ m[f].down = n[f].down
  <2>1. n[f] = [peer |-> n[f].peer, up |-> n[f].up, down |-> n[f].down]
    BY DEF Sockets
  <2>2. m[f] = IF f = fd THEN [n[f] EXCEPT !.up = v] ELSE n[f]
    BY <1>1 DEF Upped
  <2> DEFINE r == n[f]  s == m[f]
  <2> HIDE DEF r, s
  <2>3. CASE f = fd
    <3>1. s = [r EXCEPT !.up = v] /\ r = [peer |-> r.peer, up |-> r.up, down |-> r.down]
      BY <2>1, <2>2, <2>3, Zenon DEF r, s
    <3>2. /\ s = [peer |-> s.peer, up |-> s.up, down |-> s.down]
          /\ s.peer = r.peer /\ s.up = v /\ s.down = r.down
      BY ONLY <3>1
    <3> QED BY <2>3, <3>2, Zenon DEF r, s
  <2>4. CASE f # fd
    BY <2>1, <2>2, <2>4
  <2> QED BY <2>3, <2>4
<1>3. Sockets(m)
  BY <1>1, <1>2, SocketsAre, Zenon
<1>4. ASSUME NEW f \in Fds
      PROVE  /\ m[f].peer = n[f].peer
             /\ m[f].up = IF f = fd THEN v ELSE n[f].up
             /\ m[f].down = n[f].down
  BY <1>2
<1> QED BY <1>3, <1>4, Zenon

LEMMA DownedDoes ==
  ASSUME NEW n, Sockets(n), NEW fd, NEW v, NEW m, m = Downed(n, fd, v)
  PROVE  /\ Sockets(m)
         /\ \A f \in Fds : /\ m[f].peer = n[f].peer
                           /\ m[f].up = n[f].up
                           /\ m[f].down = IF f = fd THEN v ELSE n[f].down
<1>1. n = [f \in Fds |-> n[f]] /\ m = [f \in Fds |-> m[f]]
  BY DEF Sockets, Downed
<1>2. ASSUME NEW f \in Fds
      PROVE  /\ m[f] = [peer |-> m[f].peer, up |-> m[f].up, down |-> m[f].down]
             /\ m[f].peer = n[f].peer
             /\ m[f].up = n[f].up
             /\ m[f].down = IF f = fd THEN v ELSE n[f].down
  <2>1. n[f] = [peer |-> n[f].peer, up |-> n[f].up, down |-> n[f].down]
    BY DEF Sockets
  <2>2. m[f] = IF f = fd THEN [n[f] EXCEPT !.down = v] ELSE n[f]
    BY <1>1 DEF Downed
  <2> DEFINE r == n[f]  s == m[f]
  <2> HIDE DEF r, s
  <2>3. CASE f = fd
    <3>1. s = [r EXCEPT !.down = v] /\ r = [peer |-> r.peer, up |-> r.up, down |-> r.down]
      BY <2>1, <2>2, <2>3, Zenon DEF r, s
    <3>2. /\ s = [peer |-> s.peer, up |-> s.up, down |-> s.down]
          /\ s.peer = r.peer /\ s.up = r.up /\ s.down = v
      BY ONLY <3>1
    <3> QED BY <2>3, <3>2, Zenon DEF r, s
  <2>4. CASE f # fd
    BY <2>1, <2>2, <2>4
  <2> QED BY <2>3, <2>4
<1>3. Sockets(m)
  BY <1>1, <1>2, SocketsAre, Zenon
<1>4. ASSUME NEW f \in Fds
      PROVE  /\ m[f].peer = n[f].peer
             /\ m[f].up = n[f].up
             /\ m[f].down = IF f = fd THEN v ELSE n[f].down
  BY <1>2
<1> QED BY <1>3, <1>4, Zenon

LEMMA PeeredDoes ==
  ASSUME NEW n, Sockets(n), NEW fd, NEW v, NEW m, m = Peered(n, fd, v)
  PROVE  /\ Sockets(m)
         /\ \A f \in Fds : /\ m[f].peer = IF f = fd THEN v ELSE n[f].peer
                           /\ m[f].up = n[f].up
                           /\ m[f].down = n[f].down
<1>1. n = [f \in Fds |-> n[f]] /\ m = [f \in Fds |-> m[f]]
  BY DEF Sockets, Peered
<1>2. ASSUME NEW f \in Fds
      PROVE  /\ m[f] = [peer |-> m[f].peer, up |-> m[f].up, down |-> m[f].down]
             /\ m[f].peer = IF f = fd THEN v ELSE n[f].peer
             /\ m[f].up = n[f].up
             /\ m[f].down = n[f].down
  <2>1. n[f] = [peer |-> n[f].peer, up |-> n[f].up, down |-> n[f].down]
    BY DEF Sockets
  <2>2. m[f] = IF f = fd THEN [n[f] EXCEPT !.peer = v] ELSE n[f]
    BY <1>1 DEF Peered
  <2> DEFINE r == n[f]  s == m[f]
  <2> HIDE DEF r, s
  <2>3. CASE f = fd
    <3>1. s = [r EXCEPT !.peer = v] /\ r = [peer |-> r.peer, up |-> r.up, down |-> r.down]
      BY <2>1, <2>2, <2>3, Zenon DEF r, s
    <3>2. /\ s = [peer |-> s.peer, up |-> s.up, down |-> s.down]
          /\ s.peer = v /\ s.up = r.up /\ s.down = r.down
      BY ONLY <3>1
    <3> QED BY <2>3, <3>2, Zenon DEF r, s
  <2>4. CASE f # fd
    BY <2>1, <2>2, <2>4
  <2> QED BY <2>3, <2>4
<1>3. Sockets(m)
  BY <1>1, <1>2, SocketsAre, Zenon
<1>4. ASSUME NEW f \in Fds
      PROVE  /\ m[f].peer = IF f = fd THEN v ELSE n[f].peer
             /\ m[f].up = n[f].up
             /\ m[f].down = n[f].down
  BY <1>2
<1> QED BY <1>3, <1>4, Zenon

Shape ==
  /\ options \in redisOptions
  /\ c = [fd |-> c.fd, err |-> c.err, connected |-> c.connected, obuf |-> c.obuf,
          reader |-> c.reader]
  /\ c.fd \in {NoFd} \cup Fds
  /\ Sockets(net)

Owned == \A fd \in Fds : net[fd].peer # "free" <=> fd = c.fd

(* The open socket is the context's, none before an attempt and one after. *)
SockInv ==
  /\ Shape /\ Owned
  /\ pc \in {"new", "TCP", "UNIX"} => c.fd = NoFd
  /\ pc = "wait" => c.fd # NoFd

LEMMA OwnedIs == SockInv => SocketsOwned
BY DEF SockInv, Shape, Owned, SocketsOwned, Fds, NoFd

(* How a step leaves the context and the sockets.                          *)
ContextWith(fd) ==
  c' = [fd |-> fd, err |-> c'.err, connected |-> c'.connected, obuf |-> c'.obuf,
        reader |-> c'.reader]

LEMMA Closed ==
  ASSUME SockInv, ContextWith(NoFd), options' = options,
         net' = IF c.fd = NoFd THEN net ELSE Close(c.fd), pc' # "wait"
  PROVE  SockInv'
<1>1. c'.fd = NoFd /\ c'.fd \in {NoFd} \cup Fds
  BY DEF ContextWith
<1>2. net = [fd \in Fds |-> net[fd]]
  BY DEF SockInv, Shape, Sockets
<1>3. \A fd \in Fds : net[fd] = [peer |-> net[fd].peer, up |-> net[fd].up, down |-> net[fd].down]
  BY DEF SockInv, Shape, Sockets
<1>4. \A fd \in Fds : /\ net'[fd] = IF fd = c.fd THEN Free ELSE net[fd]
                      /\ net'[fd].peer = "free"
  BY <1>2 DEF SockInv, Shape, Owned, Close, Free, Fds, NoFd
<1>5. net' = [fd \in Fds |-> net'[fd]]
  BY <1>2 DEF Close
<1>6. \A fd \in Fds : net'[fd] = [peer |-> net'[fd].peer, up |-> net'[fd].up,
                                  down |-> net'[fd].down]
  BY <1>3, <1>4 DEF Free
<1>7. Sockets(net')
  BY <1>5, <1>6, SocketsAre
<1>8. Shape'
  BY <1>1, <1>7 DEF SockInv, Shape, ContextWith
<1> QED BY <1>1, <1>4, <1>8 DEF SockInv, Owned, Fds, NoFd

LEMMA Opened ==
  ASSUME SockInv, NEW fd \in Fds, c.fd \in {NoFd, fd}, ContextWith(fd), options' = options,
         NEW peer, peer # "free", net' = Attempt(fd, peer),
         pc' \notin {"new", "TCP", "UNIX"}
  PROVE  SockInv'
<1>1. c'.fd = fd
  BY DEF ContextWith
<1>2. /\ Sockets(net')
      /\ \A f \in Fds : net'[f].peer = IF f = fd THEN peer ELSE net[f].peer
  <2>1. net' = Peered(net, fd, peer)
    BY DEF Attempt, Peered
  <2> QED BY <2>1, PeeredDoes DEF SockInv, Shape
<1>3. \A f \in Fds : net'[f].peer # "free" <=> f = fd
  BY <1>2 DEF SockInv, Owned, Fds, NoFd
<1>4. Shape'
  BY <1>1, <1>2 DEF SockInv, Shape, ContextWith
<1> QED BY <1>1, <1>3, <1>4 DEF SockInv, Owned, Fds, NoFd

(* A step that opens and closes nothing.                                   *)
LEMMA Kept ==
  ASSUME SockInv, ContextWith(c.fd), options' \in redisOptions,
         Sockets(net'),
         \A fd \in Fds : net'[fd].peer = "free" <=> net[fd].peer = "free",
         pc' \in {"new", "TCP", "UNIX", "wait"} => pc' = pc
  PROVE  SockInv'
<1>1. c'.fd = c.fd
  BY DEF ContextWith
<1>2. Shape'
  BY <1>1 DEF SockInv, Shape, ContextWith
<1> QED BY <1>1, <1>2 DEF SockInv, Owned

LEMMA SockInit == Init => SockInv
BY ContextAssumption
   DEF Init, SockInv, Shape, Sockets, Owned, redisContextInit, Free, Fds, NoFd

(* Before an attempt every descriptor is free, and the next is one of them. *)
LEMMA NextFd ==
  ASSUME SockInv, c.fd = NoFd
  PROVE  NewFd \in Fds /\ \A fd \in Fds : net[fd].peer = "free"
<1>1. net[1].peer = "free" /\ net[2].peer = "free"
  BY DEF SockInv, Owned, Fds, NoFd
<1>2. NewFd = 1
  BY <1>1 DEF NewFd, Fds
<1> QED BY <1>1, <1>2 DEF Fds

LEMMA CloseKeeps ==
  ASSUME SockInv, NEW e, Closing(e)
  PROVE  SockInv'
BY Closed DEF Closing, Go, ContextWith, SockInv, Shape, unsaid

LEMMA KeepKeeps ==
  ASSUME SockInv, NEW e, NEW fd \in Fds, c.fd \in {NoFd, fd}, Keeping(e, fd)
  PROVE  SockInv'
<1>1. ContextWith(fd) /\ options' = options
  BY DEF Keeping, ContextWith, SockInv, Shape, unsaid
<1>2. pc' \notin {"new", "TCP", "UNIX"} /\ net' = Attempt(fd, "unconnected")
  BY DEF Keeping, Go
<1> QED BY <1>1, <1>2, Opened

(* What neither opens nor closes changes at most the bytes and the error.  *)
LEMMA SameSockets ==
  ASSUME SockInv, ContextWith(c.fd), UNCHANGED <<options, net>>,
         pc' \in {"new", "TCP", "UNIX", "wait"} => pc' = pc
  PROVE  SockInv'
BY Kept DEF SockInv, Shape

(* The steps of a connection attempt.                                      *)
LEMMA AttemptKeeps ==
  ASSUME SockInv,
         NoAddress \/ SocketFails \/ SocketUnusable \/ TcpConnect \/ UnixConnect
         \/ redisContextWaitReady \/ redisSetTcpNoDelay \/ Established
  PROVE  SockInv'
<1> USE DEF unsaid
<1>1. pc \in {"TCP", "UNIX"} => c.fd = NoFd /\ NewFd \in Fds
  BY NextFd DEF SockInv
<1>2. ASSUME NEW peer \in {"open", "pending"}, NEW fd \in Fds, c.fd \in {NoFd, fd},
             c' = [c EXCEPT !.fd = fd] \/ (c.fd = fd /\ UNCHANGED c),
             net' = Attempt(fd, peer), UNCHANGED options,
             NEW step \in {"wait", "nodelay", "established"}, Go(step)
      PROVE  SockInv'
  <2>1. ContextWith(fd)
    BY <1>2 DEF ContextWith, SockInv, Shape
  <2> QED BY <1>2, <2>1, Opened DEF Go
<1>3. CASE NoAddress
  BY <1>3, CloseKeeps DEF NoAddress
<1>4. CASE SocketFails
  BY <1>4, SameSockets DEF SocketFails, ContextWith, SockInv, Shape
<1>5. CASE SocketUnusable
  BY <1>1, <1>5, CloseKeeps, KeepKeeps DEF SocketUnusable
<1>6. CASE TcpConnect
  <2>1. pc = "TCP" /\ c.fd = NoFd /\ NewFd \in Fds
    BY <1>1, <1>6 DEF TcpConnect
  <2>2. CASE c' = [c EXCEPT !.fd = NewFd] /\ net' = Attempt(NewFd, "open") /\ Go("established")
    BY <1>2, <1>6, <2>1, <2>2 DEF TcpConnect
  <2>3. CASE c' = [c EXCEPT !.fd = NewFd] /\ net' = Attempt(NewFd, "pending")
             /\ Go(IF Block THEN "wait" ELSE "established")
    BY <1>2, <1>6, <2>1, <2>3 DEF TcpConnect
  <2>4. CASE UNCHANGED <<c, net, pc>>
    BY <1>6, <2>4, SameSockets DEF TcpConnect, ContextWith, SockInv, Shape
  <2>5. CASE Keeping("none", NewFd) \/ Closing("IO")
    BY <2>1, <2>5, CloseKeeps, KeepKeeps
  <2> QED BY <1>6, <2>2, <2>3, <2>4, <2>5 DEF TcpConnect, Unreachable
<1>7. CASE UnixConnect
  <2>1. pc = "UNIX" /\ c.fd = NoFd /\ NewFd \in Fds
    BY <1>1, <1>7 DEF UnixConnect
  <2>2. ASSUME c' = [c EXCEPT !.fd = NewFd], NEW peer \in {"open", "pending"},
               net' = Attempt(NewFd, peer),
               Go(IF peer = "pending" /\ Block THEN "wait" ELSE "established")
        PROVE  SockInv'
    BY <1>2, <1>7, <2>1, <2>2 DEF UnixConnect
  <2>3. CASE Closing("IO") \/ Keeping("IO", NewFd)
    BY <2>1, <2>3, CloseKeeps, KeepKeeps
  <2> QED BY <1>7, <2>2, <2>3 DEF UnixConnect
<1>8. CASE redisContextWaitReady
  <2> c.fd \in Fds
    BY <1>8 DEF redisContextWaitReady, SockInv, Shape
  <2>1. CASE Closing("IO")
    BY <2>1, CloseKeeps
  <2>2. CASE Keeping("IO", c.fd)
    BY <2>2, KeepKeeps
  <2>3. CASE /\ net' = Attempt(c.fd, "open")
             /\ Go(IF options.type = "TCP" THEN "nodelay" ELSE "established")
             /\ UNCHANGED <<c, try, unsaid>>
    BY <1>2, <2>3
  <2> QED BY <1>8, <2>1, <2>2, <2>3 DEF redisContextWaitReady
<1>9. CASE redisSetTcpNoDelay
  BY <1>9, CloseKeeps, SameSockets DEF redisSetTcpNoDelay, ContextWith, SockInv, Shape, Go
<1>10. CASE Established
  BY <1>10, CloseKeeps, SameSockets DEF Established, ContextWith, SockInv, Shape, Go
<1> QED BY <1>3, <1>4, <1>5, <1>6, <1>7, <1>8, <1>9, <1>10

(* Writing, and reading, and what comes of what was read.                  *)
LEMMA TransferKeeps ==
  ASSUME SockInv, NEW done \in {"read", "idle"}, NEW more \in {"write", "idle"},
         BufferWrite(done, more)
  PROVE  SockInv'
<1>1. UNCHANGED options /\ pc' \notin {"new", "TCP", "UNIX", "wait"}
  BY ZenonT(30) DEF BufferWrite, Go, Return
<1>2. ContextWith(c.fd)
  BY DEF BufferWrite, SetError, ContextWith, Unsent, AfterWrite, SockInv, Shape
<1>3. CASE UNCHANGED net
  BY <1>1, <1>2, <1>3, SameSockets
<1>4. CASE \E bytes : net' = [net EXCEPT ![c.fd].up = bytes]
  <2>1. PICK bytes : net' = [net EXCEPT ![c.fd].up = bytes]
    BY <1>4
  <2>2. net' = Upped(net, c.fd, bytes)
    BY <2>1 DEF Upped
  <2>3. Sockets(net') /\ \A fd \in Fds : net'[fd].peer = net[fd].peer
    BY <2>2, UppedDoes DEF SockInv, Shape
  <2> QED BY <1>1, <1>2, <2>3, Kept DEF SockInv, Shape
<1> QED BY <1>3, <1>4 DEF BufferWrite, Unsent

LEMMA ReceiptKeeps ==
  ASSUME SockInv, NEW next \in {"next", "idle"}, BufferRead(next)
  PROVE  SockInv'
<1>1. UNCHANGED options /\ pc' \notin {"new", "TCP", "UNIX", "wait"}
  BY DEF BufferRead, Go, Return
<1>2. ContextWith(c.fd)
  BY DEF BufferRead, SetError, ContextWith, Unsent, SockInv, Shape
<1>3. CASE UNCHANGED net
  BY <1>1, <1>2, <1>3, SameSockets
<1>4. CASE \E bytes : net' = [net EXCEPT ![c.fd].down = bytes]
  <2>1. PICK bytes : net' = [net EXCEPT ![c.fd].down = bytes]
    BY <1>4
  <2>2. net' = Downed(net, c.fd, bytes)
    BY <2>1 DEF Downed
  <2>3. Sockets(net') /\ \A fd \in Fds : net'[fd].peer = net[fd].peer
    BY <2>2, DownedDoes DEF SockInv, Shape
  <2> QED BY <1>1, <1>2, <2>3, Kept DEF SockInv, Shape
<1> QED BY <1>3, <1>4 DEF BufferRead, Unsent

LEMMA ReplyKeeps ==
  ASSUME SockInv, NEW none, none \in {"write", "read"}, pc \in {"get", "next"},
         NextInBandReply(none)
  PROVE  SockInv'
<1>1. UNCHANGED <<options, net>> /\ pc' \notin {"new", "TCP", "UNIX", "wait"}
  BY DEF NextInBandReply, Go, Return, wire
<1>2. ContextWith(c.fd)
  BY DEF NextInBandReply, ContextWith, SockInv, Shape
<1> QED BY <1>1, <1>2, SameSockets

(* The program's calls.                                                    *)
LEMMA ProgramKeeps ==
  ASSUME SockInv, Program
  PROVE  SockInv'
<1>1. CASE redisConnectWithOptions
  <2>1. pc = "new" /\ c.fd = NoFd /\ UNCHANGED options
    BY <1>1 DEF redisConnectWithOptions, Begin, SockInv
  <2>2. CASE options.type = "USERFD"
    <3>1. ContextWith(1) /\ net' = Attempt(1, "open") /\ pc' = "timeout"
      BY <1>1, <2>2 DEF redisConnectWithOptions, Begin, Go, ContextWith, Attempt, SockInv, Shape
    <3> QED BY <2>1, <3>1, Opened DEF Fds
  <2>3. CASE options.type # "USERFD"
    <3>1. UNCHANGED <<c, net>> /\ pc' \in {"TCP", "UNIX"}
      BY <1>1, <2>3 DEF redisConnectWithOptions, Begin, Go, SockInv, Shape, redisOptions
    <3> QED BY <2>1, <3>1 DEF SockInv, Shape, Owned
  <2> QED BY <2>2, <2>3
<1>2. CASE redisReconnect
  <2>1. ContextWith(NoFd) /\ UNCHANGED options /\ pc' # "wait"
    BY <1>2 DEF redisReconnect, Reconnected, ContextWith, Begin, Go, ConnectionType, SockInv, Shape
  <2> QED BY <1>2, <2>1, Closed DEF redisReconnect
<1>3. CASE redisFree
  <2>1. ContextWith(NoFd) /\ UNCHANGED options /\ pc' # "wait"
    BY <1>3 DEF redisFree, redisContextInit, ContextWith
  <2> QED BY <1>3, <2>1, Closed DEF redisFree
<1>4. CASE redisSetTimeout
  <2>1. ContextWith(c.fd) /\ UNCHANGED <<pc, net>>
    BY <1>4 DEF redisSetTimeout, SetError, ContextWith, wire, SockInv, Shape
  <2>2. options' = [options EXCEPT !.timeout = TRUE]
    BY <1>4 DEF redisSetTimeout
  <2>3. options' \in redisOptions
    BY <2>2 DEF SockInv, Shape, redisOptions
  <2> QED BY <2>1, <2>3, Kept DEF SockInv, Shape
<1>5. CASE redisGetReply
  BY <1>5, SameSockets DEF redisGetReply, Go, ContextWith, wire, SockInv, Shape
<1>6. CASE redisBufferWrite \/ redisBufferRead
  BY <1>6, TransferKeeps, ReceiptKeeps DEF redisBufferWrite, redisBufferRead
<1>7. ASSUME NEW call \in Calls, NEW wait \in BOOLEAN, redisAppendCommand(call, wait)
      PROVE  SockInv'
  <2>1. UNCHANGED <<options, net>> /\ pc' \notin {"new", "TCP", "UNIX", "wait"}
    BY <1>7 DEF redisAppendCommand, Return, Go
  <2>2. ContextWith(c.fd)
    BY <1>7 DEF redisAppendCommand, ContextWith, SockInv, Shape
  <2> QED BY <2>1, <2>2, SameSockets
<1> QED BY <1>1, <1>2, <1>3, <1>4, <1>5, <1>6, <1>7 DEF Program

(* The server's, and the network's.                                        *)
LEMMA EnvironmentKeeps ==
  ASSUME SockInv, Environment
  PROVE  SockInv'
<1>1. PICK fd \in Fds : \/ ServerAnswers(fd) \/ ServerPushes(fd) \/ ServerMalformed(fd)
                       \/ ServerCloses(fd) \/ Connects(fd)
  BY DEF Environment
<1>2. UNCHANGED <<c, options, pc>> /\ c.fd = fd
  BY <1>1 DEF ServerAnswers, ServerPushes, ServerMalformed, ServerCloses, Connects, Live, local
<1>3. net[fd].peer # "free"
  BY <1>1 DEF ServerAnswers, ServerPushes, ServerMalformed, ServerCloses, Connects, Live
<1>4. Sockets(net') /\ \A f \in Fds : net'[f].peer = "free" <=> net[f].peer = "free"
  <2>1. CASE ServerAnswers(fd)
    <3>1. PICK up, bytes : net' = [net EXCEPT ![fd].up = up, ![fd].down = @ \o bytes]
      BY <2>1 DEF ServerAnswers
    <3> DEFINE n == Upped(net, fd, up)
    <3>2. net' = Downed(n, fd, n[fd].down \o bytes)
      BY <3>1 DEF Upped, Downed
    <3>3. Sockets(n) /\ \A f \in Fds : n[f].peer = net[f].peer
      BY UppedDoes DEF SockInv, Shape
    <3> HIDE DEF n
    <3> QED BY <3>2, <3>3, DownedDoes
  <2>2. CASE ServerPushes(fd) \/ ServerMalformed(fd)
    <3>1. PICK bytes : net' = [net EXCEPT ![fd].down = @ \o bytes]
      BY <2>2 DEF ServerPushes, ServerMalformed
    <3>2. net' = Downed(net, fd, net[fd].down \o bytes)
      BY <3>1 DEF Downed
    <3> QED BY <3>2, DownedDoes DEF SockInv, Shape
  <2>3. CASE ServerCloses(fd) \/ Connects(fd)
    <3>1. PICK peer \in {"shut", "unconnected", "open"} : net' = Peered(net, fd, peer)
      BY <2>3 DEF ServerCloses, Connects, Peered
    <3> QED BY <1>3, <3>1, PeeredDoes DEF SockInv, Shape
  <2> QED BY <1>1, <2>1, <2>2, <2>3
<1>6. ContextWith(c.fd)
  BY <1>2 DEF ContextWith, SockInv, Shape
<1> QED BY <1>2, <1>4, <1>6, Kept DEF SockInv, Shape

LEMMA SockStep == SockInv /\ [Next]_vars => SockInv'
<1> SUFFICES ASSUME SockInv, [Next]_vars PROVE SockInv'
  OBVIOUS
<1>1. CASE Library
  <2>1. CASE redisContextSetTimeout
    BY <2>1, SameSockets
       DEF redisContextSetTimeout, Return, SetError, ContextWith, unsaid, SockInv, Shape
  <2>2. CASE GetFirst \/ GetNext
    BY <2>2, ReplyKeeps DEF GetFirst, GetNext
  <2>3. CASE WriteAll \/ ReadMore
    BY <2>3, TransferKeeps, ReceiptKeeps DEF WriteAll, ReadMore
  <2> QED BY <1>1, <2>1, <2>2, <2>3, AttemptKeeps DEF Library
<1>2. CASE Program
  BY <1>2, ProgramKeeps
<1>3. CASE Environment
  BY <1>3, EnvironmentKeeps
<1>4. CASE Done \/ UNCHANGED vars
  BY <1>4 DEF Done, vars, SockInv, Shape, Owned
<1> QED BY <1>1, <1>2, <1>3, <1>4 DEF Next

(* The library never has a socket open that the context does not name: an  *)
(* address that does not answer, a timeout that is none, an option that is *)
(* not set, and freeing and reconnecting lose no descriptor (net.c:528;    *)
(* hiredis.c:730, 764).                                                    *)
THEOREM NoSocketLost == Spec => []SocketsOwned
<1>1. SockInv /\ [Next]_vars => SockInv'
  BY SockStep
<1> QED BY <1>1, SockInit, OwnedIs, PTL DEF Spec
-----------------------------------------------------------------------------
(* What the server reads.                                                  *)

Early == {"new", "TCP", "UNIX"}
Unsaid == appended = <<>> /\ served = 0 /\ c.obuf.data = <<>>

(* The bytes that a connection carries up, with those of the buffer, are   *)
(* the commands the server has yet to read; there is nothing to be sent    *)
(* before there is a socket, nor anything in one that is free.             *)
Talk ==
  /\ Sound(c.obuf, Bytes)
  /\ appended \in Seq(Seq(Text)) /\ served \in Nat /\ served <= Len(appended)
  /\ \A fd \in Fds : net[fd].up \in Text /\ (net[fd].peer = "free" => net[fd].up = <<>>)
  /\ pc \in Early => Unsaid
  /\ c.fd # NoFd => net[c.fd].up \o c.obuf.data = FlattenSeq(OwedOf(appended, served))

TalkInv == SockInv /\ Talk

LEMMA EmptyIs == Sound(sdsempty, Bytes) /\ sdsempty.data = <<>>
<1>1. <<>> \in Seq(Bytes)
  OBVIOUS
<1> QED BY <1>1, NewLen DEF sdsempty

LEMMA TalkInit == Init => TalkInv
<1> SUFFICES ASSUME Init PROVE TalkInv
  OBVIOUS
<1>1. SockInv
  BY SockInit
<1>2. Sound(c.obuf, Bytes) /\ c.obuf.data = <<>> /\ c.fd = NoFd
  BY EmptyIs DEF Init, redisContextInit
<1>3. appended = <<>> /\ served = 0
  BY DEF Init
<1>4. appended \in Seq(Seq(Text)) /\ served \in Nat /\ served <= Len(appended)
  BY <1>3
<1>5. \A fd \in Fds : net[fd].up = <<>>
  BY DEF Init, Free
<1>6. <<>> \in Text
  BY DEF Text
<1> QED BY <1>1, <1>2, <1>3, <1>4, <1>5, <1>6 DEF TalkInv, Talk, Unsaid

LEMMA ArriveIs == CallsMean /\ TalkInv => CommandsArrive
<1> SUFFICES ASSUME CallsMean, TalkInv PROVE CommandsArrive
  OBVIOUS
<1>1. SdsOK(c.obuf)
  <2> DEFINE s == c.obuf
  <2>1. Sound(s, Bytes)
    BY DEF TalkInv, Talk
  <2> HIDE DEF s
  <2>2. SdsOK(s)
    BY <2>1, LimitsGrow DEF Sound, SdsOK
  <2> QED BY <2>2 DEF s
<1>2. ASSUME NEW call \in Calls PROVE Formatted(call).len \in {-2, Len(Formatted(call).cmd)}
  <2>1. Means(call)
    BY DEF CallsMean
  <2>2. CASE call.api = "invalid"
    BY <2>1, <2>2, FormattedExact
  <2>3. CASE call.api # "invalid"
    <3>1. Formatted(call) = [len |-> Len(Wire(call.argv)), cmd |-> Wire(call.argv)]
      BY <2>1, <2>3, FormattedExact
    <3> QED BY <3>1
  <2> QED BY <2>2, <2>3
<1>3. c.fd # NoFd => net[c.fd].up \o c.obuf.data
                       = FlattenSeq([i \in 1..(Len(appended) - served) |-> Wire(appended[served + i])])
  BY DEF TalkInv, Talk, OwedOf
<1> QED BY <1>1, <1>2, <1>3 DEF CommandsArrive

(* A step that says nothing and hangs nothing up.                          *)
LEMMA Quiet ==
  ASSUME TalkInv, SockInv', c'.fd = c.fd, c'.obuf = c.obuf, UNCHANGED <<appended, served>>,
         \A fd \in Fds : /\ net'[fd].up = net[fd].up
                         /\ net'[fd].peer = "free" => net[fd].peer = "free",
         pc' \in Early => pc \in Early
  PROVE  TalkInv'
<1>1. c.fd # NoFd => net'[c'.fd].up = net[c.fd].up
  BY DEF TalkInv, SockInv, Shape
<1>2. (pc' \in Early => Unsaid') /\ Sound(c'.obuf, Bytes)
  BY DEF TalkInv, Talk, Unsaid
<1>3. \A fd \in Fds : net'[fd].up \in Text /\ (net'[fd].peer = "free" => net'[fd].up = <<>>)
  BY DEF TalkInv, Talk
<1>4. c'.fd # NoFd =>
        net'[c'.fd].up \o c'.obuf.data = FlattenSeq(OwedOf(appended', served'))
  BY <1>1 DEF TalkInv, Talk
<1> QED BY <1>2, <1>3, <1>4 DEF TalkInv, Talk

(* A step after which there is no connection.                              *)
LEMMA HungUp ==
  ASSUME TalkInv, SockInv', c'.fd = NoFd, Sound(c'.obuf, Bytes),
         Unsaid' \/ (UNCHANGED <<appended, served>> /\ pc' \notin Early),
         net' = IF c.fd = NoFd THEN net ELSE Close(c.fd)
  PROVE  TalkInv'
<1>1. \A fd \in Fds : net'[fd] = net[fd] \/ net'[fd] = Free
  BY DEF TalkInv, SockInv, Shape, Sockets, Close
<1>2. <<>> \in Text
  BY DEF Text
<1>3. \A fd \in Fds : net'[fd].up \in Text /\ (net'[fd].peer = "free" => net'[fd].up = <<>>)
  BY <1>1, <1>2 DEF TalkInv, Talk, Free
<1>4. appended' \in Seq(Seq(Text)) /\ served' \in Nat /\ served' <= Len(appended')
  <2>1. CASE Unsaid'
    BY <2>1 DEF Unsaid
  <2>2. CASE UNCHANGED <<appended, served>>
    BY <2>2 DEF TalkInv, Talk
  <2> QED BY <2>1, <2>2
<1> QED BY <1>3, <1>4 DEF TalkInv, Talk

(* A step that opens a socket for a new connection.                        *)
LEMMA HookedUp ==
  ASSUME TalkInv, SockInv', pc \in Early, NEW fd \in Fds, c'.fd = fd, c'.obuf = c.obuf,
         appended' = <<>>, served' = 0,
         NEW peer, net' = Attempt(fd, peer), peer # "free"
  PROVE  TalkInv'
<1>1. c.fd = NoFd /\ Unsaid /\ \A f \in Fds : net[f].peer = "free"
  <2>1. c.fd = NoFd
    BY DEF TalkInv, SockInv, Early
  <2> QED BY <2>1, NextFd DEF TalkInv, Talk
<1>2. \A f \in Fds : net'[f].up = net[f].up /\ net[f].up = <<>>
  <2>1. net' = Peered(net, fd, peer)
    BY DEF Attempt, Peered
  <2> QED BY <1>1, <2>1, PeeredDoes DEF TalkInv, Talk, SockInv, Shape
<1>3. <<>> \in Text /\ <<>> \o <<>> = <<>>
  BY DEF Text
<1>4. Unsaid' /\ Sound(c'.obuf, Bytes)
  BY <1>1 DEF TalkInv, Talk, Unsaid
<1>5. net'[fd].up \o c'.obuf.data = FlattenSeq(OwedOf(<<>>, 0))
  BY <1>2, <1>3, <1>4, OwedNone DEF Unsaid
<1>6. appended' \in Seq(Seq(Text)) /\ served' \in Nat /\ served' <= Len(appended')
  OBVIOUS
<1> QED BY <1>2, <1>3, <1>4, <1>5, <1>6 DEF TalkInv, Talk

(* A socket whose peer changes carries what it carried.                    *)
LEMMA PeerOnly ==
  ASSUME SockInv, NEW fd, NEW peer, peer # "free", net' = Attempt(fd, peer)
  PROVE  \A f \in Fds : /\ net'[f].up = net[f].up
                        /\ net'[f].peer = "free" => net[f].peer = "free"
<1>1. net' = Peered(net, fd, peer)
  BY DEF Attempt, Peered
<1> QED BY <1>1, PeeredDoes DEF SockInv, Shape

LEMMA CloseTalks ==
  ASSUME TalkInv, SockInv', NEW e, Closing(e)
  PROVE  TalkInv'
<1>1. /\ c'.fd = NoFd /\ c'.obuf = c.obuf /\ UNCHANGED <<appended, served>> /\ pc' = "failed"
      /\ net' = IF c.fd = NoFd THEN net ELSE Close(c.fd)
  BY DEF Closing, Go, unsaid, TalkInv, SockInv, Shape
<1>2. Sound(c'.obuf, Bytes) /\ pc' \notin Early
  BY <1>1 DEF TalkInv, Talk, Early
<1> QED BY <1>1, <1>2, HungUp

LEMMA KeepTalks ==
  ASSUME TalkInv, SockInv', NEW e, NEW fd \in Fds, pc \in Early \/ fd = c.fd, Keeping(e, fd)
  PROVE  TalkInv'
<1>1. /\ c'.fd = fd /\ c'.obuf = c.obuf /\ UNCHANGED <<appended, served>> /\ pc' = "failed"
      /\ net' = Attempt(fd, "unconnected")
  BY DEF Keeping, Go, unsaid, TalkInv, SockInv, Shape
<1>2. pc' \notin Early
  BY <1>1 DEF Early
<1>3. CASE pc \in Early
  <2>1. appended' = <<>> /\ served' = 0
    BY <1>1, <1>3 DEF TalkInv, Talk, Unsaid
  <2> QED BY <1>1, <1>3, <2>1, HookedUp
<1>4. CASE fd = c.fd
  <2>1. \A f \in Fds : /\ net'[f].up = net[f].up
                       /\ net'[f].peer = "free" => net[f].peer = "free"
    BY <1>1, PeerOnly DEF TalkInv
  <2> QED BY <1>1, <1>2, <1>4, <2>1, Quiet
<1> QED BY <1>3, <1>4

(* A step that neither says anything nor touches a socket.                 *)
LEMMA QuietHere ==
  ASSUME TalkInv, SockInv', c'.fd = c.fd, c'.obuf = c.obuf, UNCHANGED <<appended, served, net>>,
         pc' \in Early => pc \in Early
  PROVE  TalkInv'
<1>1. \A fd \in Fds : /\ net'[fd].up = net[fd].up
                      /\ net'[fd].peer = "free" => net[fd].peer = "free"
  OBVIOUS
<1> QED BY <1>1, Quiet

LEMMA AttemptTalks ==
  ASSUME TalkInv, SockInv',
         NoAddress \/ SocketFails \/ SocketUnusable \/ TcpConnect \/ UnixConnect
         \/ redisContextWaitReady \/ redisSetTcpNoDelay \/ Established
  PROVE  TalkInv'
<1> USE DEF unsaid
<1>1. pc \in {"TCP", "UNIX"} => pc \in Early /\ c.fd = NoFd /\ NewFd \in Fds
  BY NextFd DEF TalkInv, SockInv, Early
<1>2. ASSUME pc \in Early, NEW peer \in {"open", "pending"}, NEW fd \in Fds,
             c' = [c EXCEPT !.fd = fd], net' = Attempt(fd, peer), UNCHANGED <<appended, served>>
      PROVE  TalkInv'
  <2>1. c'.fd = fd /\ c'.obuf = c.obuf
    BY <1>2 DEF TalkInv, SockInv, Shape
  <2>2. appended' = <<>> /\ served' = 0
    BY <1>2 DEF TalkInv, Talk, Unsaid
  <2>3. peer # "free"
    OBVIOUS
  <2> QED BY <1>2, <2>1, <2>2, <2>3, HookedUp
<1>3. CASE NoAddress
  BY <1>3, CloseTalks DEF NoAddress
<1>4. CASE SocketFails
  BY <1>4, QuietHere DEF SocketFails
<1>5. CASE SocketUnusable
  BY <1>1, <1>5, CloseTalks, KeepTalks DEF SocketUnusable
<1>6. CASE TcpConnect
  <2>1. pc \in Early /\ c.fd = NoFd /\ NewFd \in Fds /\ UNCHANGED <<appended, served>>
    BY <1>1, <1>6 DEF TcpConnect
  <2>2. CASE c' = [c EXCEPT !.fd = NewFd] /\ net' = Attempt(NewFd, "open")
    BY <1>2, <2>1, <2>2
  <2>3. CASE c' = [c EXCEPT !.fd = NewFd] /\ net' = Attempt(NewFd, "pending")
    BY <1>2, <2>1, <2>3
  <2>4. CASE UNCHANGED <<c, net, pc>>
    BY <2>1, <2>4, QuietHere
  <2>5. CASE Keeping("none", NewFd) \/ Closing("IO")
    BY <2>1, <2>5, CloseTalks, KeepTalks
  <2> QED BY <1>6, <2>2, <2>3, <2>4, <2>5 DEF TcpConnect, Unreachable
<1>7. CASE UnixConnect
  <2>1. pc \in Early /\ c.fd = NoFd /\ NewFd \in Fds /\ UNCHANGED <<appended, served>>
    BY <1>1, <1>7 DEF UnixConnect
  <2>2. ASSUME c' = [c EXCEPT !.fd = NewFd], NEW peer \in {"open", "pending"},
               net' = Attempt(NewFd, peer)
        PROVE  TalkInv'
    BY <1>2, <2>1, <2>2
  <2>3. CASE Closing("IO") \/ Keeping("IO", NewFd)
    BY <2>1, <2>3, CloseTalks, KeepTalks
  <2> QED BY <1>7, <2>2, <2>3 DEF UnixConnect
<1>8. CASE redisContextWaitReady
  <2>1. c.fd \in Fds
    BY <1>8 DEF redisContextWaitReady, TalkInv, SockInv, Shape
  <2>2. CASE Closing("IO")
    BY <2>2, CloseTalks
  <2>3. CASE Keeping("IO", c.fd)
    BY <2>1, <2>3, KeepTalks
  <2>4. CASE /\ net' = Attempt(c.fd, "open")
             /\ Go(IF options.type = "TCP" THEN "nodelay" ELSE "established")
             /\ UNCHANGED <<c, try, unsaid>>
    <3>1. \A f \in Fds : /\ net'[f].up = net[f].up
                         /\ net'[f].peer = "free" => net[f].peer = "free"
      BY <2>4, PeerOnly DEF TalkInv
    <3>2. pc' \notin Early /\ UNCHANGED <<c, appended, served>>
      BY <2>4 DEF Go, Early
    <3> QED BY <3>1, <3>2, Quiet
  <2> QED BY <1>8, <2>2, <2>3, <2>4 DEF redisContextWaitReady
<1>9. CASE redisSetTcpNoDelay
  <2>1. CASE Closing("IO")
    BY <2>1, CloseTalks
  <2>2. CASE Go("established") /\ UNCHANGED <<c, net, try, unsaid>>
    BY <2>2, QuietHere DEF Go, Early
  <2> QED BY <1>9, <2>1, <2>2 DEF redisSetTcpNoDelay
<1>10. CASE Established
  <2>1. CASE Closing("IO")
    BY <2>1, CloseTalks
  <2>2. CASE c' = [c EXCEPT !.connected = TRUE] /\ Go("timeout") /\ UNCHANGED <<net, try, unsaid>>
    <3>1. c'.fd = c.fd /\ c'.obuf = c.obuf
      BY <2>2 DEF TalkInv, SockInv, Shape
    <3> QED BY <2>2, <3>1, QuietHere DEF Go, Early
  <2> QED BY <1>10, <2>1, <2>2 DEF Established
<1> QED BY <1>3, <1>4, <1>5, <1>6, <1>7, <1>8, <1>9, <1>10

(* What send() takes leaves the buffer, from the front.                    *)
LEMMA SendTalks ==
  ASSUME TalkInv, SockInv', c.fd # NoFd, NEW n \in 1 .. Len(c.obuf.data),
         net' = [net EXCEPT ![c.fd].up = @ \o SubSeq(c.obuf.data, 1, n)],
         c' = [c EXCEPT !.obuf = AfterWrite(n)], UNCHANGED <<appended, served>>,
         pc' \notin Early
  PROVE  TalkInv'
<1> DEFINE data == c.obuf.data  first == SubSeq(data, 1, n)  rest == SubSeq(data, n + 1, Len(data))
           up == net[c.fd].up  owed == FlattenSeq(OwedOf(appended, served))
<1>1. /\ Sound(c.obuf, Bytes) /\ data \in Text /\ Len(data) \in Nat /\ up \in Text
      /\ up \o data = owed /\ c.fd \in Fds
  <2>1. c.fd \in Fds
    BY DEF TalkInv, SockInv, Shape
  <2>2. Sound(c.obuf, Bytes) /\ up \in Text /\ up \o data = owed
    BY <2>1 DEF TalkInv, Talk
  <2>3. data \in Text
    BY <2>2 DEF Sound, Text
  <2> QED BY <2>1, <2>2, <2>3, TextIs
<1>2. first \in Text /\ rest \in Text /\ first \o rest = data
  <2>1. n \in 0 .. Len(data)
    BY <1>1
  <2> QED BY <1>1, <2>1, TextSplit
<1>3. c'.fd = c.fd /\ c'.obuf = AfterWrite(n)
  BY DEF TalkInv, SockInv, Shape
<1>4. Sound(c'.obuf, Bytes) /\ c'.obuf.data = rest
  <2>1. CASE n = Len(data)
    <3>1. rest = <<>>
      BY <1>1, <2>1
    <3> QED BY <1>3, <2>1, <3>1, EmptyIs DEF AfterWrite
  <2>2. CASE n # Len(data)
    <3>1. n \in Nat /\ ~(n >= Len(data))
      BY <1>1, <2>2
    <3>2. c'.obuf = DropFirst(c.obuf, n)
      BY <1>3, <2>2 DEF AfterWrite
    <3> QED BY <1>1, <3>1, <3>2, DropFirstExact
  <2> QED BY <2>1, <2>2
<1> HIDE DEF data, first, rest, up, owed
<1>5. /\ net'[c.fd].up = up \o first
      /\ \A f \in Fds : /\ f # c.fd => net'[f].up = net[f].up
                        /\ net'[f].peer = net[f].peer
  <2> DEFINE v == up \o first  fd == c.fd  m == net'
  <2>1. m = Upped(net, fd, v)
    BY DEF Upped, up, first, data
  <2>2. Sockets(net) /\ fd \in Fds
    BY <1>1 DEF TalkInv, SockInv, Shape
  <2> HIDE DEF v, fd, m
  <2>3. \A f \in Fds : /\ m[f].peer = net[f].peer
                      /\ m[f].up = (IF f = fd THEN v ELSE net[f].up)
                      /\ m[f].down = net[f].down
    BY <2>1, <2>2, UppedDoes
  <2> QED BY <2>2, <2>3 DEF v, fd, m
<1>6. up \o first \in Text /\ (up \o first) \o rest = owed
  <2>1. up \o first \in Text
    BY <1>1, <1>2, Joins
  <2>2. Assoc(up, first, rest)
    BY <1>1, <1>2, Regroup
  <2> QED BY <1>1, <1>2, <2>1, <2>2 DEF Assoc
<1>7. \A f \in Fds : net'[f].up \in Text /\ (net'[f].peer = "free" => net'[f].up = <<>>)
  <2>1. net[c.fd].peer # "free"
    BY <1>1 DEF TalkInv, SockInv, Owned
  <2> QED BY <1>5, <1>6, <2>1 DEF TalkInv, Talk
<1>8. net'[c'.fd].up \o c'.obuf.data = FlattenSeq(OwedOf(appended', served'))
  BY <1>3, <1>4, <1>5, <1>6 DEF owed
<1> QED BY <1>4, <1>7, <1>8 DEF TalkInv, Talk

LEMMA TransferTalks ==
  ASSUME TalkInv, SockInv', NEW done \in {"read", "idle"}, NEW more \in {"write", "idle"},
         BufferWrite(done, more)
  PROVE  TalkInv'
<1>1. UNCHANGED <<appended, served>> /\ pc' \notin Early
  <2>1. UNCHANGED <<appended, served>>
    BY DEF BufferWrite, talk
  <2>2. pc' \in {done, more, "idle"}
    BY ZenonT(30) DEF BufferWrite, Go, Return
  <2> QED BY <2>1, <2>2 DEF Early
<1>2. CASE UNCHANGED net /\ (UNCHANGED c \/ SetError("IO"))
  <2>1. c'.fd = c.fd /\ c'.obuf = c.obuf
    BY <1>2 DEF SetError, TalkInv, SockInv, Shape
  <2> QED BY <1>1, <1>2, <2>1, QuietHere
<1>3. CASE c.err = "none" /\ c.obuf.data # <<>> /\ Usable
           /\ \E n \in Pieces(Sent, c.obuf.data) :
                 /\ net' = [net EXCEPT ![c.fd].up = @ \o SubSeq(c.obuf.data, 1, n)]
                 /\ c' = [c EXCEPT !.obuf = AfterWrite(n)]
  BY <1>1, <1>3, SendTalks DEF Usable, Pieces
<1> QED BY <1>2, <1>3 DEF BufferWrite, Unsent

LEMMA ReceiptTalks ==
  ASSUME TalkInv, SockInv', NEW next \in {"next", "idle"}, BufferRead(next)
  PROVE  TalkInv'
<1>1. UNCHANGED <<appended, served>> /\ pc' \notin Early
  BY DEF BufferRead, talk, Go, Return, Early
<1>2. c'.fd = c.fd /\ c'.obuf = c.obuf
  BY DEF BufferRead, SetError, Unsent, TalkInv, SockInv, Shape
<1>3. CASE UNCHANGED net
  BY <1>1, <1>2, <1>3, QuietHere
<1>4. CASE \E bytes : net' = [net EXCEPT ![c.fd].down = bytes]
  <2>1. PICK bytes : net' = [net EXCEPT ![c.fd].down = bytes]
    BY <1>4
  <2>2. net' = Downed(net, c.fd, bytes)
    BY <2>1 DEF Downed
  <2>3. \A fd \in Fds : net'[fd].peer = net[fd].peer /\ net'[fd].up = net[fd].up
    BY <2>2, DownedDoes DEF TalkInv, SockInv, Shape
  <2> QED BY <1>1, <1>2, <2>3, Quiet
<1> QED BY <1>3, <1>4 DEF BufferRead, Unsent

LEMMA ReplyTalks ==
  ASSUME TalkInv, SockInv', NEW none, none \in {"write", "read"}, pc \in {"get", "next"},
         NextInBandReply(none)
  PROVE  TalkInv'
<1>1. UNCHANGED <<net, appended, served>> /\ pc' \notin Early
  BY DEF NextInBandReply, Go, Return, wire, Early
<1>2. c'.fd = c.fd /\ c'.obuf = c.obuf
  BY DEF NextInBandReply, TalkInv, SockInv, Shape
<1> QED BY <1>1, <1>2, QuietHere

(* A command that is appended is put behind the others.                    *)
LEMMA AppendTalks ==
  ASSUME CallsMean, TalkInv, SockInv', NEW call \in Calls, NEW wait \in BOOLEAN,
         redisAppendCommand(call, wait)
  PROVE  TalkInv'
<1> DEFINE w == Wire(call.argv)  f == Formatted(call)
<1>1. UNCHANGED <<net, served>> /\ pc' \notin Early
  BY DEF redisAppendCommand, Return, Go, Early
<1>2. /\ call.argv \in Seq(Text) /\ w \in Text
      /\ call.api # "invalid" => f = [len |-> Len(w), cmd |-> w]
      /\ call.api = "invalid" => f.len = -2
      /\ Len(w) # -2
  BY FormattedExact DEF CallsMean
<1>3. CASE call.api = "invalid"
  <2>1. c' = [c EXCEPT !.err = "OTHER"] /\ UNCHANGED appended
    BY <1>2, <1>3 DEF redisAppendCommand
  <2>2. c'.fd = c.fd /\ c'.obuf = c.obuf
    BY <2>1 DEF TalkInv, SockInv, Shape
  <2> QED BY <1>1, <2>1, <2>2, QuietHere
<1>4. CASE call.api # "invalid"
  <2>1. f.len = Len(w) /\ f.cmd = w /\ f.len # -2
    BY <1>2, <1>4
  <2>2. /\ c' = [c EXCEPT !.obuf = sdscatlen(@, SubSeq(f.cmd, 1, f.len))]
        /\ appended' = Append(appended, call.argv)
    BY <2>1 DEF redisAppendCommand
  <2>3. SubSeq(f.cmd, 1, f.len) = w
    BY <1>2, <2>1, SubSeqFull DEF Text
  <2> HIDE DEF f, w
  <2>4. c'.fd = c.fd /\ c'.obuf = sdscatlen(c.obuf, w)
    BY <2>2, <2>3 DEF TalkInv, SockInv, Shape
  <2>5. Sound(c'.obuf, Bytes) /\ c'.obuf.data = c.obuf.data \o w
    BY <1>2, <2>4, CatLenExact DEF TalkInv, Talk, Text
  <2>6. /\ appended \in Seq(Seq(Text)) /\ served \in Nat /\ served <= Len(appended)
        /\ c.obuf.data \in Text
    BY DEF TalkInv, Talk, Sound, Text
  <2>7. appended' \in Seq(Seq(Text)) /\ served' \in Nat /\ served' <= Len(appended')
    <3>1. appended' \in Seq(Seq(Text)) /\ Len(appended') = Len(appended) + 1
      BY <1>2, <2>2, <2>6, AppendProperties
    <3>2. Len(appended) \in Nat /\ served' = served
      BY <1>1, <2>6
    <3> QED BY <2>6, <3>1, <3>2
  <2>8. ASSUME c.fd # NoFd
        PROVE  net'[c'.fd].up \o c'.obuf.data = FlattenSeq(OwedOf(appended', served'))
    <3> DEFINE up == net[c.fd].up  data == c.obuf.data  owed == FlattenSeq(OwedOf(appended, served))
    <3>1. up \in Text /\ up \o data = owed
      BY <2>8 DEF TalkInv, Talk, SockInv, Shape
    <3>2. FlattenSeq(OwedOf(Append(appended, call.argv), served)) = owed \o w
      BY <1>2, <2>6, OwedAppend DEF w
    <3>3. Assoc(up, data, w)
      BY <1>2, <2>6, <3>1, Regroup
    <3>4. net'[c'.fd].up = up /\ served' = served
      BY <1>1, <2>4
    <3> HIDE DEF up, data, owed
    <3>5. c'.obuf.data = data \o w
      BY <2>5 DEF data
    <3> QED BY <2>2, <3>1, <3>2, <3>3, <3>4, <3>5, Zenon DEF Assoc
  <2>9. \A fd \in Fds : net'[fd].up \in Text /\ (net'[fd].peer = "free" => net'[fd].up = <<>>)
    BY <1>1 DEF TalkInv, Talk
  <2>10. c'.fd = NoFd \/ c.fd # NoFd
    BY <2>4
  <2> QED BY <1>1, <2>5, <2>7, <2>8, <2>9, <2>10 DEF TalkInv, Talk
<1> QED BY <1>3, <1>4

LEMMA ProgramTalks ==
  ASSUME CallsMean, TalkInv, SockInv', Program
  PROVE  TalkInv'
<1>1. CASE redisConnectWithOptions
  <2>1. pc = "new" /\ c.fd = NoFd /\ pc \in Early /\ appended' = <<>> /\ served' = 0
    BY <1>1 DEF redisConnectWithOptions, Begin, TalkInv, SockInv, Early
  <2>2. CASE options.type = "USERFD"
    <3>1. c' = [c EXCEPT !.fd = 1, !.connected = TRUE] /\ net' = Attempt(1, "open")
      BY <1>1, <2>2 DEF redisConnectWithOptions, Attempt
    <3>2. c'.fd = 1 /\ c'.obuf = c.obuf
      BY <3>1 DEF TalkInv, SockInv, Shape
    <3>3. 1 \in Fds /\ "open" # "free"
      BY DEF Fds
    <3> QED BY <2>1, <3>1, <3>2, <3>3, HookedUp
  <2>3. CASE options.type # "USERFD"
    <3>1. UNCHANGED <<c, net>>
      BY <1>1, <2>3 DEF redisConnectWithOptions
    <3>2. UNCHANGED <<appended, served>>
      BY <2>1 DEF TalkInv, Talk, Unsaid
    <3> QED BY <2>1, <3>1, <3>2, QuietHere
  <2> QED BY <2>2, <2>3
<1>2. CASE redisReconnect
  <2>1. c'.fd = NoFd /\ c'.obuf = sdsempty /\ appended' = <<>> /\ served' = 0
    BY <1>2 DEF redisReconnect, Reconnected, Begin, TalkInv, SockInv, Shape
  <2>2. Unsaid' /\ Sound(c'.obuf, Bytes)
    BY <2>1, EmptyIs DEF Unsaid
  <2>3. net' = IF c.fd = NoFd THEN net ELSE Close(c.fd)
    BY <1>2 DEF redisReconnect
  <2> QED BY <2>1, <2>2, <2>3, HungUp
<1>3. CASE redisFree
  <2>1. c'.fd = NoFd /\ c'.obuf = sdsempty /\ appended' = <<>> /\ served' = 0
    BY <1>3 DEF redisFree, redisContextInit
  <2>2. Unsaid' /\ Sound(c'.obuf, Bytes)
    BY <2>1, EmptyIs DEF Unsaid
  <2>3. net' = IF c.fd = NoFd THEN net ELSE Close(c.fd)
    BY <1>3 DEF redisFree
  <2> QED BY <2>1, <2>2, <2>3, HungUp
<1>4. CASE redisSetTimeout
  <2>1. c'.fd = c.fd /\ c'.obuf = c.obuf /\ UNCHANGED <<pc, net, appended, served>>
    BY <1>4 DEF redisSetTimeout, SetError, TalkInv, SockInv, Shape
  <2> QED BY <2>1, QuietHere
<1>5. CASE redisGetReply
  <2>1. UNCHANGED <<c, net, appended, served>> /\ pc' \notin Early
    BY <1>5 DEF redisGetReply, Go, wire, Early
  <2> QED BY <2>1, QuietHere
<1>6. CASE redisBufferWrite
  BY <1>6, TransferTalks DEF redisBufferWrite
<1>7. CASE redisBufferRead
  BY <1>7, ReceiptTalks DEF redisBufferRead
<1>8. CASE \E call \in Calls, wait \in BOOLEAN : redisAppendCommand(call, wait)
  BY <1>8, AppendTalks
<1> QED BY <1>1, <1>2, <1>3, <1>4, <1>5, <1>6, <1>7, <1>8 DEF Program

(* The server reads the command that was given first: no other begins the  *)
(* same bytes.                                                             *)
LEMMA AnswerTalks ==
  ASSUME CallsMean, TalkInv, SockInv', NEW fd \in Fds, ServerAnswers(fd)
  PROVE  TalkInv'
<1>1. PICK call \in Calls :
        /\ call.api # "invalid" /\ IsPrefix(Wire(call.argv), net[fd].up) /\ served' = served + 1
        /\ \E bytes : net' = [net EXCEPT
                 ![fd].up = SubSeq(@, Len(Wire(call.argv)) + 1, Len(@)), ![fd].down = @ \o bytes]
  BY DEF ServerAnswers
<1> DEFINE cmd == Wire(call.argv)  up == net[fd].up  data == c.obuf.data
           rest == SubSeq(up, Len(cmd) + 1, Len(up))
           owed == FlattenSeq(OwedOf(appended, served))
<1>2. fd = c.fd /\ fd # NoFd /\ net[fd].peer = "open" /\ UNCHANGED <<c, appended, pc>>
  BY DEF ServerAnswers, Live, local, Fds, NoFd
<1>3. /\ Sound(c.obuf, Bytes) /\ data \in Text /\ up \in Text /\ up \o data = owed
      /\ appended \in Seq(Seq(Text)) /\ served \in Nat /\ served <= Len(appended)
  BY <1>2 DEF TalkInv, Talk, Sound, Text
<1>4. call.argv \in Seq(Text) /\ cmd \in Text
  BY FormattedExact DEF CallsMean
<1>5. rest \in Text /\ cmd \o rest = up
  <2> DEFINE l == Len(cmd)
  <2>1. l \in 0 .. Len(up) /\ SubSeq(cmd, 1, l) = SubSeq(up, 1, l)
    BY <1>1, <1>3, <1>4, TextIs DEF IsPrefix
  <2>2. SubSeq(cmd, 1, l) = cmd
    BY <1>4, SubSeqFull DEF Text
  <2>3. SubSeq(up, l + 1, Len(up)) \in Text /\ SubSeq(up, 1, l) \o SubSeq(up, l + 1, Len(up)) = up
    BY <1>3, <2>1, TextSplit
  <2> QED BY <2>1, <2>2, <2>3
<1>6. /\ \A f \in Fds : /\ net'[f].up = IF f = fd THEN rest ELSE net[f].up
                        /\ net'[f].peer = net[f].peer
  <2>1. PICK bytes : net' = [net EXCEPT
              ![fd].up = SubSeq(@, Len(Wire(call.argv)) + 1, Len(@)), ![fd].down = @ \o bytes]
    BY <1>1
  <2> DEFINE m == Upped(net, fd, rest)
  <2>2. net' = Downed(m, fd, m[fd].down \o bytes)
    BY <2>1 DEF Upped, Downed
  <2> HIDE DEF rest
  <2>3. Sockets(m) /\ \A f \in Fds : /\ m[f].peer = net[f].peer
                                    /\ m[f].up = IF f = fd THEN rest ELSE net[f].up
    BY UppedDoes DEF TalkInv, SockInv, Shape
  <2> HIDE DEF m
  <2>4. \A f \in Fds : net'[f].up = m[f].up /\ net'[f].peer = m[f].peer
    BY <2>2, <2>3, DownedDoes
  <2> QED BY <2>3, <2>4
<1> HIDE DEF cmd, up, data, rest, owed
<1>7. cmd \o (rest \o data) = owed /\ rest \o data \in Text
  <2>1. Assoc(cmd, rest, data)
    BY <1>3, <1>4, <1>5, Regroup
  <2>2. rest \o data \in Text
    BY <1>3, <1>5, Joins
  <2> QED BY <1>3, <1>5, <2>1, <2>2 DEF Assoc
<1>8. cmd # <<>>
  <2>1. cmd = Header("*", Len(call.argv)) \o FlattenSeq(Bulks(call.argv))
    BY <1>4, WireIs, Zenon DEF cmd
  <2> DEFINE h == Header("*", Len(call.argv))  b == FlattenSeq(Bulks(call.argv))
  <2>2. h \in Text /\ b \in Text /\ cmd = h \o b
    BY <1>4, <2>1, WireIs, BulksTyped
  <2>3. Len(call.argv) \in Nat /\ "*" \in Bytes
    BY <1>4, BulksTyped, CRLFText
  <2>4. Len(h) = Len(Decimal[Len(call.argv)]) + 3
    BY <2>3, HeaderTyped
  <2>5. Len(Decimal[Len(call.argv)]) \in Nat
    BY <2>3, DecimalText
  <2> DEFINE d == Len(Decimal[Len(call.argv)])
  <2>6. Len(h) = d + 3 /\ d \in Nat
    BY <2>4, <2>5
  <2> HIDE DEF h, b, d
  <2>7. Len(cmd) = Len(h) + Len(b) /\ Len(b) \in Nat
    BY <2>2, Joins, TextIs
  <2>8. Len(cmd) > 0
    BY <2>6, <2>7
  <2>9. Len(<<>>) = 0
    OBVIOUS
  <2> QED BY <2>8, <2>9
<1>9. served < Len(appended)
  <2>1. SUFFICES ASSUME served = Len(appended) PROVE FALSE
    BY <1>3
  <2>2. owed = <<>>
    <3>1. OwedOf(appended, served) = OwedOf(<<>>, 0)
      BY <1>3, <2>1 DEF OwedOf
    <3> QED BY <3>1, OwedNone DEF owed
  <2> DEFINE r == rest \o data
  <2>3. cmd \o r = <<>> /\ r \in Seq(Bytes) /\ cmd \in Seq(Bytes)
    BY <1>4, <1>7, <2>2 DEF Text
  <2> HIDE DEF r
  <2>4. cmd = <<>>
    BY <2>3, ConcatSimplifications
  <2> QED BY <1>8, <2>4
<1>10. rest \o data = FlattenSeq(OwedOf(appended, served + 1))
  <2> DEFINE first == appended[served + 1]  r == rest \o data  x == call.argv
             more == FlattenSeq(OwedOf(appended, served + 1))
  <2>1. first \in Seq(Text) /\ owed = Wire(first) \o more
    BY <1>3, <1>9, OwedFirst DEF owed
  <2>2. more \in Text
    <3>1. served + 1 \in Nat /\ served + 1 <= Len(appended)
      BY <1>3, <1>9
    <3> QED BY <1>3, <3>1, OwedTyped
  <2>3. x \in Seq(Text) /\ r \in Text /\ Wire(x) \o r = Wire(first) \o more
    BY <1>4, <1>7, <2>1 DEF cmd
  <2> HIDE DEF first, r, x, more
  <2>4. r = more
    <3>1. SameBytes(x, r, first, more)
      BY <2>3 DEF SameBytes
    <3> QED BY <2>1, <2>2, <2>3, <3>1, WireTells
  <2> QED BY <2>4 DEF r, more
<1>11. net'[c'.fd].up \o c'.obuf.data = FlattenSeq(OwedOf(appended', served'))
  <2>1. net'[c'.fd].up = rest /\ c'.obuf.data = data
    BY <1>2, <1>6 DEF data
  <2> QED BY <1>1, <1>2, <1>10, <2>1
<1>12. served' \in Nat /\ served' <= Len(appended') /\ appended' \in Seq(Seq(Text))
  BY <1>1, <1>2, <1>3, <1>9
<1>13. \A f \in Fds : net'[f].up \in Text /\ (net'[f].peer = "free" => net'[f].up = <<>>)
  BY <1>2, <1>5, <1>6 DEF TalkInv, Talk
<1>14. pc' \notin Early
  BY <1>2 DEF TalkInv, SockInv, Early
<1> QED BY <1>2, <1>3, <1>11, <1>12, <1>13, <1>14 DEF TalkInv, Talk

LEMMA EnvironmentTalks ==
  ASSUME CallsMean, TalkInv, SockInv', Environment
  PROVE  TalkInv'
<1>1. PICK fd \in Fds : \/ ServerAnswers(fd) \/ ServerPushes(fd) \/ ServerMalformed(fd)
                       \/ ServerCloses(fd) \/ Connects(fd)
  BY DEF Environment
<1>2. CASE ServerAnswers(fd)
  BY <1>2, AnswerTalks
<1>3. CASE ServerPushes(fd) \/ ServerMalformed(fd)
  <2>1. UNCHANGED <<c, pc, appended, served>>
    BY <1>3 DEF ServerPushes, ServerMalformed, local
  <2>2. PICK bytes : net' = [net EXCEPT ![fd].down = @ \o bytes]
    BY <1>3 DEF ServerPushes, ServerMalformed
  <2>3. net' = Downed(net, fd, net[fd].down \o bytes)
    BY <2>2 DEF Downed
  <2>4. \A f \in Fds : net'[f].peer = net[f].peer /\ net'[f].up = net[f].up
    BY <2>3, DownedDoes DEF TalkInv, SockInv, Shape
  <2> QED BY <2>1, <2>4, Quiet
<1>4. CASE ServerCloses(fd) \/ Connects(fd)
  <2>1. UNCHANGED <<c, pc, appended, served>>
    BY <1>4 DEF ServerCloses, Connects, local
  <2>2. PICK peer \in {"shut", "unconnected", "open"} : net' = Attempt(fd, peer)
    BY <1>4 DEF ServerCloses, Connects, Attempt
  <2>3. \A f \in Fds : /\ net'[f].up = net[f].up
                       /\ net'[f].peer = "free" => net[f].peer = "free"
    BY <2>2, PeerOnly DEF TalkInv
  <2> QED BY <2>1, <2>3, Quiet
<1> QED BY <1>1, <1>2, <1>3, <1>4

LEMMA TalkStep == CallsMean /\ TalkInv /\ [Next]_vars => TalkInv'
<1> SUFFICES ASSUME CallsMean, TalkInv, [Next]_vars PROVE TalkInv'
  OBVIOUS
<1>0. SockInv'
  BY SockStep DEF TalkInv
<1>1. CASE Library
  <2>1. CASE redisContextSetTimeout
    <3>1. UNCHANGED <<net, appended, served>> /\ pc' \notin Early
      BY <2>1 DEF redisContextSetTimeout, Return, unsaid, Early
    <3>2. c'.fd = c.fd /\ c'.obuf = c.obuf
      BY <2>1 DEF redisContextSetTimeout, SetError, TalkInv, SockInv, Shape
    <3> QED BY <1>0, <3>1, <3>2, QuietHere
  <2>2. CASE GetFirst \/ GetNext
    BY <1>0, <2>2, ReplyTalks DEF GetFirst, GetNext
  <2>3. CASE WriteAll \/ ReadMore
    BY <1>0, <2>3, TransferTalks, ReceiptTalks DEF WriteAll, ReadMore
  <2> QED BY <1>0, <1>1, <2>1, <2>2, <2>3, AttemptTalks DEF Library
<1>2. CASE Program
  BY <1>0, <1>2, ProgramTalks
<1>3. CASE Environment
  BY <1>0, <1>3, EnvironmentTalks
<1>4. CASE Done \/ UNCHANGED vars
  <2>1. UNCHANGED <<c, pc, net, appended, served>>
    BY <1>4 DEF Done, vars
  <2> QED BY <1>0, <2>1, QuietHere
<1> QED BY <1>1, <1>2, <1>3, <1>4 DEF Next

(* If the calls mean what the program wrote them for, the server reads     *)
(* them, each once and in order, whatever pieces send() takes and however  *)
(* often it is interrupted or fails, and each is as long as was computed   *)
(* before it was built (hiredis.c:992; net.c:84; the assertions at         *)
(* hiredis.c:524 and 627).                                                 *)
THEOREM ServerReadsCommands ==
  ASSUME CallsMean
  PROVE  Spec => []CommandsArrive
<1>1. TalkInv /\ [Next]_vars => TalkInv'
  BY TalkStep
<1>2. TalkInv => CommandsArrive
  BY ArriveIs
<1> QED BY <1>1, <1>2, TalkInit, PTL DEF Spec

-----------------------------------------------------------------------------
(* The parser: numbers and line ends.                                      *)
LEMMA AccumulateTyped ==
  ASSUME NEW v \in Int, NEW d
  PROVE  Accumulate(v, d) \in Int
<1> DEFINE k == CHOOSE k \in 0..9 : Digit[k + 1] = d
<1>1. Accumulate(v, d) = NotANumber \/ (d \in Range(Digit) /\ Accumulate(v, d) = v * 10 + k)
  BY DEF Accumulate
<1>2. ASSUME d \in Range(Digit) PROVE k \in 0 .. 9
  <2>1. DOMAIN Digit = 1 .. 10
    BY DEF Digit
  <2>2. PICK i \in 1 .. 10 : Digit[i] = d
    BY <1>2, <2>1, Zenon DEF Range
  <2>3. i - 1 \in 0 .. 9 /\ (i - 1) + 1 = i
    OBVIOUS
  <2> QED BY <2>2, <2>3
<1> HIDE DEF k
<1> QED BY <1>1, <1>2 DEF NotANumber

ValueNext(f, i, s) == IF i = 0 THEN 0 ELSE Accumulate(f[i - 1], s[i])
IsValue(f, n, s) == f = [i \in 0 .. n |-> ValueNext(f, i, s)]

LEMMA ValueExists == ASSUME NEW s, NEW n \in Nat PROVE \E f : IsValue(f, n, s)
<1> DEFINE S == {k \in Nat : \E f : IsValue(f, k, s)}
<1>1. 0 \in S
  <2>1. IsValue([i \in 0 .. 0 |-> 0], 0, s)
    BY DEF IsValue, ValueNext
  <2> QED BY <2>1
<1>2. ASSUME NEW k \in Nat, k \in S PROVE k + 1 \in S
  <2>1. PICK f : IsValue(f, k, s)
    BY <1>2
  <2> DEFINE more == [i \in 0 .. k + 1 |-> IF i <= k THEN f[i] ELSE ValueNext(f, k + 1, s)]
  <2>2. \A i \in 0 .. k : more[i] = f[i]
    OBVIOUS
  <2>3. more[k + 1] = ValueNext(f, k + 1, s)
    OBVIOUS
  <2>4. more = [i \in 0 .. k + 1 |-> more[i]]
    OBVIOUS
  <2> HIDE DEF more
  <2>5. \A i \in 0 .. k : f[i] = ValueNext(f, i, s)
    BY <2>1 DEF IsValue
  <2>6. \A i \in 0 .. k + 1 : more[i] = ValueNext(more, i, s)
    BY <2>2, <2>3, <2>5 DEF ValueNext
  <2>7. IsValue(more, k + 1, s)
    BY <2>4, <2>6, Zenon DEF IsValue
  <2> QED BY <2>7
<1>3. Nat \subseteq S
  <2> HIDE DEF S
  <2> QED BY <1>1, <1>2, Induction
<1> QED BY <1>3

LEMMA ValueTyped == ASSUME NEW S, NEW s \in Seq(S) PROVE Value(s) \in Int
<1> DEFINE n == Len(s)  f == CHOOSE f : IsValue(f, n, s)
<1>1. n \in Nat
  OBVIOUS
<1>2. IsValue(f, n, s)
  BY <1>1, ValueExists
<1>3. Value(s) = f[n]
  BY DEF Value, IsValue, ValueNext
<1> HIDE DEF f, n
<1>4. \A i \in 0 .. n : f[i] = ValueNext(f, i, s)
  BY <1>2 DEF IsValue
<1> DEFINE S1 == {k \in Nat : k <= n => f[k] \in Int}
<1>5. 0 \in S1
  BY <1>1, <1>4 DEF ValueNext
<1>6. ASSUME NEW k \in Nat, k \in S1 PROVE k + 1 \in S1
  <2> SUFFICES ASSUME k + 1 <= n PROVE f[k + 1] \in Int
    OBVIOUS
  <2>1. k + 1 \in 0 .. n /\ k + 1 # 0 /\ (k + 1) - 1 = k
    BY <1>1
  <2>2. f[k + 1] = Accumulate(f[k], s[k + 1])
    BY <1>4, <2>1 DEF ValueNext
  <2> QED BY <1>1, <1>6, <2>2, AccumulateTyped
<1>7. Nat \subseteq S1
  <2> HIDE DEF S1
  <2> QED BY <1>5, <1>6, Induction
<1> QED BY <1>1, <1>3, <1>7

LEMMA NumberTyped ==
  ASSUME NEW p \in Text
  PROVE  string2ll(p).value \in Int
<1>1. ASSUME NEW q \in Text, NEW negative \in BOOLEAN
      PROVE  Signed(negative, q, Value(q)).value \in Int
  <2>1. Value(q) \in Int
    BY ValueTyped DEF Text
  <2> QED BY <2>1 DEF Signed, Number
<1>2. p # <<>> => Tail(p) \in Text
  BY DEF Text
<1> QED BY <1>1, <1>2, Zenon DEF string2ll

(* The least of some numbers.                                              *)
LEMMA Least ==
  ASSUME NEW S \in SUBSET Nat, S # {}
  PROVE  \E i \in S : \A j \in S : i <= j
<1> SUFFICES ASSUME \A i \in S : \E j \in S : j < i PROVE FALSE
  OBVIOUS
<1> DEFINE Q == {n \in Nat : \A i \in S : i > n}
<1>1. 0 \in Q
  OBVIOUS
<1>2. ASSUME NEW n \in Nat, n \in Q PROVE n + 1 \in Q
  BY <1>2
<1>3. Nat \subseteq Q
  <2> HIDE DEF Q
  <2> QED BY <1>1, <1>2, Induction
<1>4. PICK i \in S : TRUE
  OBVIOUS
<1>5. i \in Nat /\ i \in Q
  BY <1>3
<1>6. i > i
  BY <1>4, <1>5
<1> QED BY <1>5, <1>6

Ends(s, i) == s[i] = "\r" /\ s[i + 1] = "\n"
EndsOf(s) == {i \in 1 .. Len(s) - 1 : Ends(s, i)}

LEMMA NewlineIs ==
  ASSUME NEW s \in Text, NEW k, k = seekNewline(s)
  PROVE  /\ k \in 0 .. Len(s) /\ (k # 0 => k + 1 <= Len(s))
         /\ EndsOf(s) = {} => k = 0
         /\ EndsOf(s) # {} => k \in EndsOf(s) /\ \A j \in EndsOf(s) : k <= j
<1>1. seekNewline(s) = IF EndsOf(s) = {} THEN 0
                       ELSE CHOOSE i \in EndsOf(s) : \A j \in EndsOf(s) : i <= j
  BY Zenon DEF seekNewline, EndsOf, Ends
<1> DEFINE e == EndsOf(s)  n == Len(s)
<1>2. e \in SUBSET Nat /\ n \in Nat /\ \A i \in e : i \in Nat /\ i >= 1 /\ i + 1 <= n
  BY DEF EndsOf, Text
<1>3. e # {} => \E i \in e : \A j \in e : i <= j
  BY <1>2, Least
<1> HIDE DEF e, n
<1>4. k = IF e = {} THEN 0 ELSE CHOOSE i \in e : \A j \in e : i <= j
  BY <1>1, Zenon DEF e
<1>5. e # {} => k \in e /\ \A j \in e : k <= j
  BY <1>3, <1>4, Zenon
<1>6. e = {} => k = 0
  BY <1>4, Zenon
<1>7. k \in 0 .. n /\ (k # 0 => k + 1 <= n)
  <2>1. CASE e = {}
    BY <1>2, <1>6, <2>1
  <2>2. CASE e # {}
    <3>1. k \in e
      BY <1>5, <2>2
    <3>2. k \in Nat /\ k >= 1 /\ k + 1 <= n
      BY <1>2, <3>1
    <3> QED BY <1>2, <3>2
  <2> QED BY <2>1, <2>2
<1> QED BY <1>5, <1>6, <1>7 DEF e, n

(* More bytes do not move the end of a line that has one.                  *)
LEMMA NewlineStays ==
  ASSUME NEW s \in Text, NEW x \in Text, seekNewline(s) # 0
  PROVE  seekNewline(s \o x) = seekNewline(s)
<1> DEFINE t == s \o x  k == seekNewline(s)  m == seekNewline(t)  n == Len(s)
<1>1. t \in Text /\ Len(t) = n + Len(x) /\ n \in Nat /\ Len(x) \in Nat
  BY Joins, TextIs
<1>2. \A i \in 1 .. n : t[i] = s[i]
  BY DEF Text
<1>3. k \in EndsOf(s) /\ \A j \in EndsOf(s) : k <= j
  BY NewlineIs
<1>4. EndsOf(t) # {} => m \in EndsOf(t) /\ \A j \in EndsOf(t) : m <= j
  BY <1>1, NewlineIs
<1> HIDE DEF t, k, m
<1>5. \A i \in 1 .. n - 1 : Ends(t, i) = Ends(s, i)
  <2> SUFFICES ASSUME NEW i \in 1 .. n - 1 PROVE Ends(t, i) = Ends(s, i)
    OBVIOUS
  <2>1. i \in 1 .. n /\ i + 1 \in 1 .. n
    BY <1>1
  <2>2. t[i] = s[i] /\ t[i + 1] = s[i + 1]
    BY <1>2, <2>1
  <2> QED BY <2>2, Zenon DEF Ends
<1>6. k \in EndsOf(t)
  BY <1>1, <1>3, <1>5 DEF EndsOf
<1>7. m <= k /\ m \in 1 .. Len(t) - 1 /\ Ends(t, m) /\ k \in 1 .. n - 1
  BY <1>3, <1>4, <1>6 DEF EndsOf
<1>8. m \in EndsOf(s)
  BY <1>1, <1>5, <1>7 DEF EndsOf
<1>9. k <= m
  BY <1>3, <1>8
<1> QED BY <1>1, <1>7, <1>9 DEF t, k, m

-----------------------------------------------------------------------------
(* What is left of a text.                                                 *)
Rest(t, n) == SubSeq(t, n + 1, Len(t))

LEMMA PartOf ==
  ASSUME NEW s \in Text, NEW x \in Text, NEW m \in Nat \ {0}, NEW n \in Int, n <= Len(s)
  PROVE  SubSeq(s, m, n) \in Text /\ SubSeq(s \o x, m, n) = SubSeq(s, m, n)
<1> DEFINE t == s \o x
<1>1. s \in Seq(Bytes) /\ t \in Seq(Bytes) /\ Len(s) \in Nat /\ n <= Len(t)
  BY DEF Text
<1>2. \A i \in 1 .. Len(s) : t[i] = s[i] /\ s[i] \in Bytes
  BY DEF Text
<1> HIDE DEF t
<1> DEFINE a == SubSeq(s, m, n)  b == SubSeq(t, m, n)
<1>3. \A i \in m .. n : i \in 1 .. Len(s)
  BY <1>1
<1>4. \A i \in m .. n : s[i] \in Bytes /\ t[i] \in Bytes
  BY <1>2, <1>3
<1>5. /\ a \in Seq(Bytes) /\ Len(a) = IF m <= n THEN n - m + 1 ELSE 0
      /\ \A i \in 1 .. n - m + 1 : a[i] = s[m + i - 1]
  BY <1>4, SubSeqProperties
<1>6. /\ b \in Seq(Bytes) /\ Len(b) = IF m <= n THEN n - m + 1 ELSE 0
      /\ \A i \in 1 .. n - m + 1 : b[i] = t[m + i - 1]
  BY <1>4, SubSeqProperties
<1> HIDE DEF a, b
<1>7. ASSUME NEW i \in 1 .. Len(a) PROVE a[i] = b[i]
  <2>1. i \in 1 .. n - m + 1
    BY <1>5
  <2>2. m + i - 1 \in 1 .. Len(s)
    BY <1>1, <2>1
  <2> QED BY <1>2, <1>5, <1>6, <2>1, <2>2
<1>8. a = b
  BY <1>5, <1>6, <1>7, SeqEqual
<1> QED BY <1>5, <1>8 DEF a, b, t, Text

LEMMA RestTyped ==
  ASSUME NEW t \in Text, NEW n \in 0 .. Len(t)
  PROVE  Rest(t, n) \in Text /\ Len(Rest(t, n)) = Len(t) - n
BY DEF Rest, Text

LEMMA RestOf ==
  ASSUME NEW s \in Text, NEW x \in Text, NEW n \in 0 .. Len(s)
  PROVE  Rest(s \o x, n) = Rest(s, n) \o x
<1> DEFINE t == s \o x  a == SubSeq(s, 1, n)  r == Rest(s, n)
<1>1. t \in Text /\ Len(t) = Len(s) + Len(x) /\ Len(s) \in Nat /\ Len(x) \in Nat
  BY Joins, TextIs
<1>2. n \in 0 .. Len(t)
  BY <1>1
<1>3. a \in Text /\ r \in Text /\ a \o r = s
  BY TextSplit DEF Rest
<1>4. Rest(t, n) \in Text /\ SubSeq(t, 1, n) \o Rest(t, n) = t
  BY <1>1, <1>2, TextSplit DEF Rest
<1>5. SubSeq(t, 1, n) = a
  BY <1>1, PartOf
<1> HIDE DEF a, r
<1>6. Assoc(a, r, x)
  BY <1>3, Regroup
<1>7. t = a \o (r \o x)
  BY <1>3, <1>6, Zenon DEF Assoc
<1> HIDE DEF t
<1>8. a \o Rest(t, n) = a \o (r \o x) /\ r \o x \in Text
  BY <1>3, <1>4, <1>5, <1>7, Joins
<1>9. Rest(t, n) = r \o x
  BY <1>3, <1>4, <1>8, CancelLeft
<1> QED BY <1>9 DEF t, r

LEMMA RestRest ==
  ASSUME NEW t \in Text, NEW m \in 0 .. Len(t), NEW n \in 0 .. Len(t) - m
  PROVE  Rest(Rest(t, m), n) = Rest(t, m + n)
<1> DEFINE a == Rest(t, m)  b == Rest(a, n)  d == Rest(t, m + n)  l == Len(t)
<1>1. l \in Nat /\ m + n \in 0 .. l
  BY TextIs
<1>2. a \in Seq(Bytes) /\ Len(a) = l - m /\ \A i \in 1 .. l - m : a[i] = t[m + i]
  BY DEF Rest, Text
<1>3. d \in Seq(Bytes) /\ Len(d) = l - (m + n) /\ \A i \in 1 .. l - (m + n) : d[i] = t[(m + n) + i]
  BY <1>1 DEF Rest, Text
<1> HIDE DEF a, d
<1>4. b \in Seq(Bytes) /\ Len(b) = l - (m + n) /\ \A i \in 1 .. l - (m + n) : b[i] = a[n + i]
  BY <1>1, <1>2 DEF Rest
<1> HIDE DEF b, l
<1>5. ASSUME NEW i \in 1 .. Len(b) PROVE b[i] = d[i]
  <2>1. i \in 1 .. l - (m + n) /\ n + i \in 1 .. l - m /\ m + (n + i) = (m + n) + i
    BY <1>1, <1>4
  <2> QED BY <1>2, <1>3, <1>4, <2>1
<1>6. b = d
  BY <1>3, <1>4, <1>5, SeqEqual
<1> QED BY <1>6 DEF a, b, d

-----------------------------------------------------------------------------
(* Readers.                                                                *)
Kinds == {"unknown"} \cup {TypeOf[b] : b \in DOMAIN TypeOf}
Task == [type : Kinds, elements : Int, idx : Int]

(* ReaderOK, and the types of a reader's parts.                            *)
Reads(r) ==
  /\ r = [buf |-> r.buf, pos |-> r.pos, err |-> r.err, stack |-> r.stack,
          tasks |-> r.tasks, reply |-> r.reply]
  /\ Sound(r.buf, Bytes) /\ r.pos \in 0 .. Len(r.buf.data)
  /\ r.stack \in Seq(Task) /\ r.tasks \in Nat \ {0} /\ Len(r.stack) <= r.tasks

(* A reader of these parts, and one with another of them.                  *)
Parts(b, p, e, s, t, y) ==
  [buf |-> b, pos |-> p, err |-> e, stack |-> s, tasks |-> t, reply |-> y]

LEMMA Sets ==
  \A b, p, e, s, t, y, v :
     /\ [Parts(b, p, e, s, t, y) EXCEPT !.buf = v] = Parts(v, p, e, s, t, y)
     /\ [Parts(b, p, e, s, t, y) EXCEPT !.pos = v] = Parts(b, v, e, s, t, y)
     /\ [Parts(b, p, e, s, t, y) EXCEPT !.err = v] = Parts(b, p, v, s, t, y)
     /\ [Parts(b, p, e, s, t, y) EXCEPT !.stack = v] = Parts(b, p, e, v, t, y)
     /\ [Parts(b, p, e, s, t, y) EXCEPT !.tasks = v] = Parts(b, p, e, s, v, y)
     /\ [Parts(b, p, e, s, t, y) EXCEPT !.reply = v] = Parts(b, p, e, s, t, v)
BY DEF Parts

LEMMA PartsAre ==
  ASSUME NEW r, Reads(r)
  PROVE  r = Parts(r.buf, r.pos, r.err, r.stack, r.tasks, r.reply)
BY DEF Reads, Parts

LEMMA ErrorParts ==
  ASSUME NEW b, NEW p, NEW e, NEW s, NEW t, NEW y
  PROVE  SetReaderError(Parts(b, p, e, s, t, y), "PROTOCOL")
           = Parts(sdsempty, 0, "PROTOCOL", <<>>, t, NoReply)
<1> DEFINE r0 == Parts(b, p, e, s, t, y)  r1 == Parts(sdsempty, p, e, s, t, y)
           r2 == Parts(sdsempty, 0, e, s, t, y)  r3 == Parts(sdsempty, 0, "PROTOCOL", s, t, y)
           r4 == Parts(sdsempty, 0, "PROTOCOL", <<>>, t, y)
           r5 == Parts(sdsempty, 0, "PROTOCOL", <<>>, t, NoReply)
<1>1. [r0 EXCEPT !.buf = sdsempty] = r1 /\ [r1 EXCEPT !.pos = 0] = r2
  BY DEF Parts
<1>2. [r2 EXCEPT !.err = "PROTOCOL"] = r3 /\ [r3 EXCEPT !.stack = <<>>] = r4
  BY DEF Parts
<1>3. [r4 EXCEPT !.reply = NoReply] = r5
  BY DEF Parts
<1> HIDE DEF r0, r1, r2, r3, r4, r5
<1>4. SetReaderError(r0, "PROTOCOL") = r5
  BY <1>1, <1>2, <1>3, Zenon DEF SetReaderError
<1> QED BY <1>4 DEF r0, r5

LEMMA OnwardParts ==
  ASSUME NEW b, NEW p, NEW e, NEW s, NEW t, NEW y, NEW pos, NEW stack, NEW reply
  PROVE  /\ [Parts(b, p, e, s, t, y) EXCEPT !.pos = pos, !.stack = stack, !.reply = reply]
              = Parts(b, pos, e, stack, t, reply)
         /\ [[Parts(b, p, e, s, t, y) EXCEPT !.reply = reply] EXCEPT !.pos = pos, !.stack = stack]
              = Parts(b, pos, e, stack, t, reply)
<1> DEFINE r0 == Parts(b, p, e, s, t, y)  r1 == Parts(b, pos, e, s, t, y)
           r2 == Parts(b, pos, e, stack, t, y)  r3 == Parts(b, pos, e, stack, t, reply)
           q1 == Parts(b, p, e, s, t, reply)  q2 == Parts(b, pos, e, s, t, reply)
<1>1. [r0 EXCEPT !.pos = pos] = r1 /\ [r1 EXCEPT !.stack = stack] = r2
  BY DEF Parts
<1>2. [r2 EXCEPT !.reply = reply] = r3 /\ [r0 EXCEPT !.reply = reply] = q1
  BY DEF Parts
<1>3. [q1 EXCEPT !.pos = pos] = q2 /\ [q2 EXCEPT !.stack = stack] = r3
  BY DEF Parts
<1> HIDE DEF r0, r1, r2, r3, q1, q2
<1>4. [r0 EXCEPT !.pos = pos, !.stack = stack, !.reply = reply] = r3
  BY <1>1, <1>2, Zenon
<1>5. [[r0 EXCEPT !.reply = reply] EXCEPT !.pos = pos, !.stack = stack] = r3
  BY <1>2, <1>3, Zenon
<1> QED BY <1>4, <1>5 DEF r0, r3

(* q is the reader r, but for x, which it has been fed in addition, and    *)
(* the tasks that are allocated, more than are used.                       *)
Ahead(q, r, x) ==
  /\ q.stack = r.stack /\ q.err = r.err /\ q.reply = r.reply
  /\ Unread(q) = Unread(r) \o x

(* The reader r n bytes on.                                                *)
Onward(r, n, stack, reply) == [r EXCEPT !.pos = r.pos + n, !.stack = stack, !.reply = reply]

LEMMA UnreadIs ==
  ASSUME NEW r, Reads(r)
  PROVE  /\ Unread(r) = Rest(r.buf.data, r.pos) /\ Unread(r) \in Text
         /\ Len(Unread(r)) = Len(r.buf.data) - r.pos
         /\ r.buf.data \in Text /\ r.pos \in Nat
<1>1. Unread(r) = Rest(r.buf.data, r.pos)
  BY DEF Unread, Rest
<1>2. r.buf.data \in Text /\ r.pos \in 0 .. Len(r.buf.data)
  BY DEF Reads, Sound, Text
<1> QED BY <1>1, <1>2, RestTyped

LEMMA OnwardIs ==
  ASSUME NEW r, Reads(r), NEW n \in 0 .. Len(Unread(r)), NEW stack \in Seq(Task),
         Len(stack) <= r.tasks, NEW reply, NEW m, m = Onward(r, n, stack, reply)
  PROVE  /\ Reads(m) /\ Unread(m) = Rest(Unread(r), n)
         /\ m.buf = r.buf /\ m.pos = r.pos + n /\ m.err = r.err /\ m.stack = stack
         /\ m.tasks = r.tasks /\ m.reply = reply
<1>1. m = [buf |-> r.buf, pos |-> r.pos + n, err |-> r.err, stack |-> stack,
           tasks |-> r.tasks, reply |-> reply]
  BY DEF Reads, Onward
<1>2. /\ m.buf = r.buf /\ m.pos = r.pos + n /\ m.err = r.err /\ m.stack = stack
      /\ m.tasks = r.tasks /\ m.reply = reply
  BY <1>1
<1> DEFINE d == r.buf.data  p == r.pos
<1>3. d \in Text /\ p \in 0 .. Len(d) /\ n \in 0 .. Len(d) - p /\ Len(d) \in Nat
  BY UnreadIs, TextIs DEF Reads
<1> HIDE DEF d, p
<1>4. p + n \in 0 .. Len(d)
  BY <1>3
<1>5. Reads(m)
  BY <1>1, <1>2, <1>4 DEF Reads, d, p
<1>6. Unread(m) = Rest(d, p + n) /\ Unread(r) = Rest(d, p)
  BY <1>2, <1>5, UnreadIs DEF d, p
<1>7. Rest(Rest(d, p), n) = Rest(d, p + n)
  BY <1>3, RestRest
<1> QED BY <1>2, <1>5, <1>6, <1>7

LEMMA OnwardAhead ==
  ASSUME NEW r, Reads(r), NEW q, Reads(q), NEW x \in Text, Ahead(q, r, x),
         NEW n \in 0 .. Len(Unread(r)), NEW stack \in Seq(Task), Len(stack) <= r.tasks,
         Len(stack) <= q.tasks, NEW reply
  PROVE  Ahead(Onward(q, n, stack, reply), Onward(r, n, stack, reply), x)
<1> DEFINE u == Unread(r)  v == Unread(q)  m == Onward(r, n, stack, reply)
           w == Onward(q, n, stack, reply)
<1>1. u \in Text /\ v \in Text /\ v = u \o x
  BY UnreadIs DEF Ahead
<1>2. n \in 0 .. Len(v)
  BY <1>1, Joins, TextIs
<1>3. Rest(v, n) = Rest(u, n) \o x
  BY <1>1, RestOf
<1> HIDE DEF u, v, m, w
<1>4. /\ Unread(m) = Rest(u, n) /\ m.err = r.err /\ m.stack = stack
      /\ m.tasks = r.tasks /\ m.reply = reply
  BY OnwardIs DEF m, u
<1>5. /\ Unread(w) = Rest(v, n) /\ w.err = q.err /\ w.stack = stack
      /\ w.tasks = q.tasks /\ w.reply = reply
  <2>1. Len(stack) <= q.tasks /\ n \in 0 .. Len(Unread(q)) /\ w = Onward(q, n, stack, reply)
    BY <1>2 DEF Ahead, v, w
  <2> QED BY <2>1, OnwardIs DEF v
<1>6. Ahead(w, m, x)
  BY <1>3, <1>4, <1>5 DEF Ahead
<1> QED BY <1>6 DEF w, m

(* Readers that differ in nothing but where their unread bytes lie, and    *)
(* the tasks allocated.                                                    *)
SameReader(q, r) ==
  /\ q.stack = r.stack /\ q.err = r.err /\ q.reply = r.reply
  /\ Unread(q) = Unread(r)

(* What p, the result for a reader, has to do with pq, that for the same   *)
(* reader fed x in addition: done or failed, the result is the same; and   *)
(* nothing more makes no difference.                                       *)
Agrees(p, pq, x) ==
  /\ p.ok => pq.ok /\ Ahead(pq.r, p.r, x)
  /\ ~p.ok /\ p.r.err # "none" => ~pq.ok /\ SameReader(pq.r, p.r)
  /\ ~p.ok /\ p.r.err = "none" /\ x = <<>> => ~pq.ok /\ Ahead(pq.r, p.r, x)

(* A result is sound.                                                      *)
Yields(p) == Reads(p.r) /\ p = [ok |-> p.ok, r |-> p.r] /\ p.ok \in BOOLEAN

LEMMA ErrorAgrees ==
  ASSUME NEW r, Reads(r), NEW q, Reads(q), NEW x, Ahead(q, r, x)
  PROVE  /\ Agrees(ProtocolError(r), ProtocolError(q), x) /\ Yields(ProtocolError(r))
         /\ ~ProtocolError(r).ok /\ ProtocolError(r).r.err # "none"
<1> DEFINE e(t) == [buf |-> sdsempty, pos |-> 0, err |-> "PROTOCOL", stack |-> <<>>,
                    tasks |-> t.tasks, reply |-> NoReply]
<1>1. ASSUME NEW t, Reads(t) PROVE SetReaderError(t, "PROTOCOL") = e(t)
  <2> DEFINE b == t.buf  p == t.pos  f == t.err  s == t.stack  n == t.tasks  y == t.reply
  <2>1. t = Parts(b, p, f, s, n, y)
    BY <1>1, PartsAre
  <2> HIDE DEF b, p, f, s, n, y
  <2>2. SetReaderError(Parts(b, p, f, s, n, y), "PROTOCOL")
          = Parts(sdsempty, 0, "PROTOCOL", <<>>, n, NoReply)
    BY ErrorParts
  <2> DEFINE w == Parts(b, p, f, s, n, y)
  <2>3. t = w /\ SetReaderError(w, "PROTOCOL")
                  = Parts(sdsempty, 0, "PROTOCOL", <<>>, n, NoReply)
    BY <2>1, <2>2
  <2> HIDE DEF w
  <2>4. SetReaderError(t, "PROTOCOL") = Parts(sdsempty, 0, "PROTOCOL", <<>>, n, NoReply)
    BY <2>3, Zenon
  <2> QED BY <2>4, Zenon DEF Parts, n
<1>2. SameReader(e(q), e(r))
  BY DEF SameReader, Unread
<1>3. Reads(e(r))
  <2>1. Sound(sdsempty, Bytes) /\ sdsempty.data = <<>>
    BY EmptyIs
  <2>2. <<>> \in Seq(Task) /\ Len(<<>>) = 0
    OBVIOUS
  <2>3. r.tasks \in Nat \ {0} /\ 0 <= r.tasks /\ 0 \in 0 .. 0
    BY DEF Reads
  <2> HIDE DEF sdsempty
  <2> QED BY <2>1, <2>2, <2>3 DEF Reads
<1>4. ProtocolError(r) = [ok |-> FALSE, r |-> e(r)] /\ ProtocolError(q) = [ok |-> FALSE, r |-> e(q)]
  BY <1>1 DEF ProtocolError, ERR
<1>5. "PROTOCOL" # "none"
  OBVIOUS
<1>6. e(r).err # "none"
  BY <1>5
<1> HIDE DEF e
<1> QED BY <1>2, <1>3, <1>4, <1>6 DEF Agrees, Yields

LEMMA WaitAgrees ==
  ASSUME NEW r, Reads(r), NEW q, Reads(q), NEW x, Ahead(q, r, x), r.err = "none"
  PROVE  Yields(ERR(r)) /\ (x = <<>> => Agrees(ERR(r), ERR(q), x))
BY DEF ERR, Agrees, Yields

-----------------------------------------------------------------------------
(* What an item leaves.                                                    *)
LEMMA Greatest ==
  ASSUME NEW S \in SUBSET Nat, S # {}, NEW n \in Nat, \A i \in S : i <= n
  PROVE  \E i \in S : \A j \in S : j <= i
<1> DEFINE T == {n - i : i \in S}
<1>0. \A i \in S : i \in Nat /\ n - i \in Nat
  OBVIOUS
<1>1. T \in SUBSET Nat /\ T # {}
  BY <1>0
<1>2. PICK k \in T : \A j \in T : k <= j
  BY <1>1, Least
<1>3. PICK i \in S : k = n - i
  OBVIOUS
<1>4. ASSUME NEW j \in S PROVE j <= i
  <2>1. n - j \in T
    OBVIOUS
  <2>2. n - i <= n - j /\ i \in Nat /\ j \in Nat
    BY <1>2, <1>3, <2>1
  <2> QED BY <2>2
<1> QED BY <1>4

LEMMA EmptyTaskTyped ==
  /\ EmptyTask \in Task
  /\ \A i \in Int : [EmptyTask EXCEPT !.idx = i] \in Task
BY DEF EmptyTask, Task, Kinds

LEMMA NextTask ==
  ASSUME NEW stack \in Seq(Task)
  PROVE  moveToNextTask(stack) \in Seq(Task) /\ Len(moveToNextTask(stack)) <= Len(stack)
<1> DEFINE more == {i \in 2..Len(stack) : stack[i].idx # stack[i - 1].elements - 1}
           i == CHOOSE k \in more : \A j \in more : j <= k
           top == [EmptyTask EXCEPT !.idx = stack[i].idx + 1]
           next == moveToNextTask(stack)
<1>1. next = IF more = {} THEN <<>> ELSE Append(SubSeq(stack, 1, i - 1), top)
  BY Zenon DEF moveToNextTask
<1>2. Len(stack) \in Nat /\ more \in SUBSET Nat /\ \A j \in more : j \in 2 .. Len(stack)
  OBVIOUS
<1> HIDE DEF next, more
<1>3. CASE more = {}
  <2>1. next = <<>>
    BY <1>1, <1>3, Zenon
  <2> QED BY <1>2, <2>1 DEF next
<1>4. CASE more # {}
  <2>1. \E k \in more : \A j \in more : j <= k
    <3>1. \A j \in more : j <= Len(stack)
      BY <1>2
    <3> QED BY <1>2, <1>4, <3>1, Greatest
  <2>2. i \in more
    BY <2>1
  <2> HIDE DEF i
  <2>3. i \in 2 .. Len(stack)
    BY <1>2, <2>2
  <2>4. stack[i] \in Task
    BY <1>2, <2>3
  <2>5. stack[i].idx \in Int
    BY <2>4 DEF Task
  <2>6. top \in Task
    <3>1. stack[i].idx + 1 \in Int
      BY <2>5
    <3> QED BY <3>1, EmptyTaskTyped, Zenon
  <2> HIDE DEF top
  <2>7. SubSeq(stack, 1, i - 1) \in Seq(Task) /\ Len(SubSeq(stack, 1, i - 1)) = i - 1
    BY <1>2, <2>3
  <2>8. next = Append(SubSeq(stack, 1, i - 1), top)
    BY <1>1, <1>4, Zenon DEF top
  <2>9. next \in Seq(Task) /\ Len(next) = (i - 1) + 1
    BY <2>6, <2>7, <2>8
  <2> QED BY <1>2, <2>3, <2>9 DEF next
<1> QED BY <1>3, <1>4

(* The reply with obj where the stack leads.                               *)
Placed(reply, stack, obj) == Put(reply, [i \in 1..(Len(stack) - 1) |-> stack[i + 1].idx], obj)

LEMMA PlaceIs ==
  ASSUME NEW r, Reads(r), NEW obj, NEW stack, NEW n \in Nat
  PROVE  [Place(r, obj) EXCEPT !.pos = r.pos + n, !.stack = stack]
           = Onward(r, n, stack, Placed(r.reply, r.stack, obj))
<1> DEFINE pos == r.pos + n
<1> DEFINE p == Placed(r.reply, r.stack, obj)
<1>1. Place(r, obj) = [r EXCEPT !.reply = p]
  BY DEF Place, Placed
<1> HIDE DEF p
<1> DEFINE b == r.buf  f == r.pos  e == r.err  s == r.stack  t == r.tasks  y == r.reply
<1>2. r = Parts(b, f, e, s, t, y)
  BY PartsAre
<1> HIDE DEF b, e, s, t, y, f, pos
<1>3. [[r EXCEPT !.reply = p] EXCEPT !.pos = pos, !.stack = stack]
        = [r EXCEPT !.pos = pos, !.stack = stack, !.reply = p]
  BY <1>2, OnwardParts, Zenon
<1>4. Onward(r, n, stack, p) = [r EXCEPT !.pos = pos, !.stack = stack, !.reply = p]
  BY Zenon DEF Onward, pos
<1> QED BY <1>1, <1>3, <1>4, Zenon DEF p, pos

(* p is the reader r, which went on n bytes without an error.              *)
Took(p, r, n) == p.ok /\ p.r.err = "none" /\ Unread(p.r) = Rest(Unread(r), n)

(* r and q do the same when both go n bytes on.                            *)
LEMMA StepAgrees ==
  ASSUME NEW r, Reads(r), NEW q, Reads(q), NEW x \in Text, Ahead(q, r, x), r.err = "none",
         NEW n \in 0 .. Len(Unread(r)), NEW stack \in Seq(Task), Len(stack) <= r.tasks,
         Len(stack) <= q.tasks, NEW reply
  PROVE  /\ Agrees(OK(Onward(r, n, stack, reply)), OK(Onward(q, n, stack, reply)), x)
         /\ Yields(OK(Onward(r, n, stack, reply)))
         /\ Took(OK(Onward(r, n, stack, reply)), r, n)
<1> DEFINE m == Onward(r, n, stack, reply)  w == Onward(q, n, stack, reply)
<1>1. Ahead(w, m, x)
  BY OnwardAhead
<1>2. Reads(m) /\ m.err = r.err /\ Unread(m) = Rest(Unread(r), n)
  BY OnwardIs
<1> HIDE DEF m, w
<1>3. Agrees(OK(m), OK(w), x) /\ Yields(OK(m)) /\ Took(OK(m), r, n)
  BY <1>1, <1>2 DEF Agrees, Yields, OK, Took
<1> QED BY <1>3 DEF m, w

LEMMA FinishAgrees ==
  ASSUME NEW r, Reads(r), NEW q, Reads(q), NEW x \in Text, Ahead(q, r, x), r.err = "none",
         NEW obj, NEW n \in 0 .. Len(Unread(r)), NEW pr, pr = r.pos + n, NEW pq, pq = q.pos + n
  PROVE  /\ Agrees(Finish(r, obj, pr), Finish(q, obj, pq), x)
         /\ Yields(Finish(r, obj, pr)) /\ Took(Finish(r, obj, pr), r, n)
<1> DEFINE stack == moveToNextTask(r.stack)  reply == Placed(r.reply, r.stack, obj)
<1>1. stack \in Seq(Task) /\ Len(stack) <= r.tasks /\ Len(stack) <= q.tasks
  <2>1. /\ r.stack \in Seq(Task) /\ Len(r.stack) <= r.tasks /\ r.tasks \in Nat
        /\ Len(r.stack) <= q.tasks /\ q.tasks \in Nat
    BY DEF Reads, Ahead
  <2>2. stack \in Seq(Task) /\ Len(stack) <= Len(r.stack)
    BY <2>1, NextTask
  <2> HIDE DEF stack
  <2>3. Len(stack) \in Nat /\ Len(r.stack) \in Nat
    BY <2>1, <2>2
  <2> QED BY <2>1, <2>2, <2>3
<1>2. ASSUME NEW t, Reads(t), NEW pt, pt = t.pos + n
      PROVE  Finish(t, obj, pt) = OK(Onward(t, n, moveToNextTask(t.stack),
                                            Placed(t.reply, t.stack, obj)))
  <2>1. Place(t, obj).stack = t.stack
    <3>1. t = [buf |-> t.buf, pos |-> t.pos, err |-> t.err, stack |-> t.stack,
               tasks |-> t.tasks, reply |-> t.reply]
      BY <1>2 DEF Reads
    <3> DEFINE p == Placed(t.reply, t.stack, obj)
    <3>2. Place(t, obj) = [t EXCEPT !.reply = p]
      BY DEF Place, Placed
    <3> HIDE DEF p
    <3> QED BY <3>1, <3>2
  <2>2. Finish(t, obj, pt) = OK([Place(t, obj) EXCEPT !.pos = pt, !.stack = moveToNextTask(Place(t, obj).stack)])
    BY Zenon DEF Finish
  <2>3. Finish(t, obj, pt) = OK([Place(t, obj) EXCEPT !.pos = pt, !.stack = moveToNextTask(t.stack)])
    BY <2>1, <2>2, Zenon
  <2>4. n \in Nat
    BY UnreadIs, TextIs
  <2> DEFINE st == moveToNextTask(t.stack)
  <2> HIDE DEF st
  <2>5. [Place(t, obj) EXCEPT !.pos = pt, !.stack = st]
          = Onward(t, n, st, Placed(t.reply, t.stack, obj))
    <3>1. [Place(t, obj) EXCEPT !.pos = t.pos + n, !.stack = st]
            = Onward(t, n, st, Placed(t.reply, t.stack, obj))
      BY <1>2, <2>4, PlaceIs, Zenon
    <3> QED BY <1>2, <3>1, Zenon
  <2> QED BY <2>3, <2>5, Zenon DEF st
<1>3. Finish(r, obj, pr) = OK(Onward(r, n, stack, reply))
  BY <1>2
<1>4. Finish(q, obj, pq) = OK(Onward(q, n, stack, reply))
  <2>1. q.stack = r.stack /\ q.reply = r.reply
    BY DEF Ahead
  <2> QED BY <1>2, <2>1
<1> HIDE DEF stack, reply
<1> QED BY <1>1, <1>3, <1>4, StepAgrees

Deeper(stack, n) == Append([stack EXCEPT ![Len(stack)].elements = n], EmptyTask)

LEMMA EnterIs ==
  ASSUME NEW r, Reads(r), NEW obj, NEW elements, elements # 0, NEW n \in Nat,
         NEW pos, pos = r.pos + n
  PROVE  Enter(r, obj, elements, pos)
           = OK(Onward(r, n, Deeper(r.stack, elements), Placed(r.reply, r.stack, obj)))
<1> DEFINE stack == Deeper(r.stack, elements)
<1>1. Place(r, obj).stack = r.stack
  <2>1. r = [buf |-> r.buf, pos |-> r.pos, err |-> r.err, stack |-> r.stack,
             tasks |-> r.tasks, reply |-> r.reply]
    BY DEF Reads
  <2> DEFINE p == Placed(r.reply, r.stack, obj)
  <2>2. Place(r, obj) = [r EXCEPT !.reply = p]
    BY DEF Place, Placed
  <2> HIDE DEF p
  <2> QED BY <2>1, <2>2
<1>2. Enter(r, obj, elements, pos)
        = OK([Place(r, obj) EXCEPT !.pos = pos, !.stack = Deeper(Place(r, obj).stack, elements)])
  BY Zenon DEF Enter, Deeper
<1>3. Enter(r, obj, elements, pos) = OK([Place(r, obj) EXCEPT !.pos = pos, !.stack = stack])
  BY <1>1, <1>2, Zenon
<1> HIDE DEF stack
<1>4. [Place(r, obj) EXCEPT !.pos = r.pos + n, !.stack = stack]
        = Onward(r, n, stack, Placed(r.reply, r.stack, obj))
  BY PlaceIs, Zenon
<1>5. [Place(r, obj) EXCEPT !.pos = pos, !.stack = stack]
        = Onward(r, n, stack, Placed(r.reply, r.stack, obj))
  BY <1>4, Zenon
<1> QED BY <1>3, <1>5, Zenon DEF stack

LEMMA EnterAgrees ==
  ASSUME NEW r, Reads(r), NEW q, Reads(q), NEW x \in Text, Ahead(q, r, x), r.err = "none",
         r.stack # <<>>, Len(r.stack) < r.tasks, Len(q.stack) < q.tasks,
         NEW obj, NEW elements \in Int,
         NEW n \in 0 .. Len(Unread(r)), NEW pr, pr = r.pos + n, NEW pq, pq = q.pos + n
  PROVE  /\ Agrees(Enter(r, obj, elements, pr), Enter(q, obj, elements, pq), x)
         /\ Yields(Enter(r, obj, elements, pr)) /\ Took(Enter(r, obj, elements, pr), r, n)
<1> DEFINE stack == Deeper(r.stack, elements)  reply == Placed(r.reply, r.stack, obj)
<1>1. stack \in Seq(Task) /\ Len(stack) <= r.tasks /\ Len(stack) <= q.tasks
  <2> DEFINE s == r.stack  top == [s[Len(s)] EXCEPT !.elements = elements]
  <2>1. /\ s \in Seq(Task) /\ Len(s) \in Nat /\ Len(s) \in 1 .. Len(s)
        /\ Len(s) + 1 <= r.tasks /\ Len(s) + 1 <= q.tasks
    BY DEF Reads, Ahead
  <2> HIDE DEF s
  <2>2. s[Len(s)] \in Task
    BY <2>1
  <2>3. top \in Task
    BY <2>2 DEF Task
  <2>4. [s EXCEPT ![Len(s)].elements = elements] = [s EXCEPT ![Len(s)] = top]
    OBVIOUS
  <2> HIDE DEF top
  <2>5. [s EXCEPT ![Len(s)] = top] \in Seq(Task) /\ Len([s EXCEPT ![Len(s)] = top]) = Len(s)
    BY <2>1, <2>3, ExceptSeq
  <2> DEFINE s1 == [s EXCEPT ![Len(s)] = top]
  <2> HIDE DEF s1
  <2>6. s1 \in Seq(Task) /\ Len(s1) = Len(s) /\ EmptyTask \in Task
    BY <2>5, EmptyTaskTyped DEF s1
  <2>7. Append(s1, EmptyTask) \in Seq(Task) /\ Len(Append(s1, EmptyTask)) = Len(s) + 1
    BY <2>6
  <2>8. stack = Append(s1, EmptyTask)
    BY <2>4, Zenon DEF s1, s, Deeper
  <2> QED BY <2>1, <2>7, <2>8
<1>2. CASE elements = 0
  <2>1. Enter(r, obj, elements, pr) = Finish(r, obj, pr)
        /\ Enter(q, obj, elements, pq) = Finish(q, obj, pq)
    BY <1>2, Zenon DEF Enter
  <2> QED BY <2>1, FinishAgrees
<1>3. CASE elements # 0
  <2>1. ASSUME NEW t, Reads(t), NEW pt, pt = t.pos + n
        PROVE  Enter(t, obj, elements, pt)
                 = OK(Onward(t, n, Deeper(t.stack, elements), Placed(t.reply, t.stack, obj)))
    <3>1. n \in Nat
      BY UnreadIs, TextIs
    <3> QED BY <1>3, <2>1, <3>1, EnterIs, Zenon
  <2>2. Enter(r, obj, elements, pr) = OK(Onward(r, n, stack, reply))
    BY <2>1
  <2>3. Enter(q, obj, elements, pq) = OK(Onward(q, n, stack, reply))
    <3>1. q.stack = r.stack /\ q.reply = r.reply
      BY DEF Ahead
    <3> QED BY <2>1, <3>1, Zenon
  <2> HIDE DEF stack, reply
  <2> QED BY <1>1, <2>2, <2>3, StepAgrees
<1> QED BY <1>2, <1>3

(* A reader that may grow its stack.                                       *)
LEMMA GrowIs ==
  ASSUME NEW r, Reads(r), NEW g, g = redisReaderGrow(r)
  PROVE  /\ Reads(g) /\ Len(g.stack) < g.tasks /\ Unread(g) = Unread(r)
         /\ g.buf = r.buf /\ g.pos = r.pos /\ g.err = r.err /\ g.stack = r.stack
         /\ g.reply = r.reply
         /\ Len(r.stack) < r.tasks => g = r
<1>1. StackSize \in Nat \ {0}
  BY ReaderAssumption
<1>2. r.tasks \in Nat \ {0} /\ Len(r.stack) \in Nat /\ Len(r.stack) <= r.tasks
  BY DEF Reads
<1>3. CASE Len(r.stack) = r.tasks
  <2> DEFINE k == r.tasks + StackSize
  <2>1. g = [r EXCEPT !.tasks = k]
    BY <1>3 DEF redisReaderGrow
  <2>2. k \in Nat \ {0} /\ Len(r.stack) < k
    BY <1>1, <1>2, <1>3
  <2> HIDE DEF k
  <2>3. r = [buf |-> r.buf, pos |-> r.pos, err |-> r.err, stack |-> r.stack,
             tasks |-> r.tasks, reply |-> r.reply]
    BY DEF Reads
  <2>4. /\ g = [buf |-> r.buf, pos |-> r.pos, err |-> r.err, stack |-> r.stack,
               tasks |-> k, reply |-> r.reply]
        /\ g.buf = r.buf /\ g.pos = r.pos /\ g.err = r.err /\ g.stack = r.stack
        /\ g.reply = r.reply /\ g.tasks = k
    BY <2>1, <2>3
  <2>5. Unread(g) = Unread(r)
    BY <2>4, Zenon DEF Unread
  <2>6. /\ Sound(r.buf, Bytes) /\ r.pos \in 0 .. Len(r.buf.data) /\ r.stack \in Seq(Task)
        /\ k \in Nat \ {0} /\ Len(r.stack) <= k
    BY <1>2, <2>2 DEF Reads
  <2>7. /\ Sound(g.buf, Bytes) /\ g.pos \in 0 .. Len(g.buf.data) /\ g.stack \in Seq(Task)
        /\ g.tasks \in Nat \ {0} /\ Len(g.stack) <= g.tasks
    BY <2>4, <2>6, Zenon
  <2>8. g = [buf |-> g.buf, pos |-> g.pos, err |-> g.err, stack |-> g.stack,
             tasks |-> g.tasks, reply |-> g.reply]
    BY <2>4, Zenon
  <2>9. Reads(g)
    BY <2>7, <2>8, Zenon DEF Reads
  <2>10. Len(g.stack) < g.tasks /\ ~(Len(r.stack) < r.tasks)
    <3>1. ~(Len(r.stack) < r.tasks)
      BY <1>2, <1>3
    <3> QED BY <2>2, <2>4, <3>1, Zenon
  <2> QED BY <2>4, <2>5, <2>9, <2>10, Zenon
<1>4. CASE Len(r.stack) # r.tasks
  <2>1. g = r
    BY <1>4 DEF redisReaderGrow
  <2> QED BY <1>2, <1>4, <2>1
<1> QED BY <1>3, <1>4

LEMMA GrowAhead ==
  ASSUME NEW r, Reads(r), NEW q, Reads(q), NEW x, Ahead(q, r, x)
  PROVE  Ahead(redisReaderGrow(q), redisReaderGrow(r), x)
<1> DEFINE g == redisReaderGrow(r)  h == redisReaderGrow(q)
<1>1. /\ Unread(g) = Unread(r) /\ g.err = r.err /\ g.stack = r.stack /\ g.reply = r.reply
  BY GrowIs
<1>2. Unread(h) = Unread(q) /\ h.err = q.err /\ h.stack = q.stack /\ h.reply = q.reply
  BY GrowIs
<1> HIDE DEF g, h
<1>3. Ahead(h, g, x)
  BY <1>1, <1>2 DEF Ahead
<1> QED BY <1>3 DEF g, h

-----------------------------------------------------------------------------
(* The three kinds of items.                                               *)
(* A line that is there is the same line when more bytes are.              *)
LineStays(r, q, x, s, z) ==
  /\ s \in Nat
  /\ s = 0 /\ x = <<>> => z = 0
  /\ s # 0 => /\ z = s /\ s + 1 \in 0 .. Len(Unread(r)) /\ s + 1 > 0
              /\ SubSeq(Unread(q), 1, z - 1) = SubSeq(Unread(r), 1, s - 1)
              /\ SubSeq(Unread(r), 1, s - 1) \in Text

LEMMA LineIs ==
  ASSUME NEW r, Reads(r), NEW q, Reads(q), NEW x \in Text, Ahead(q, r, x),
         NEW s, s = seekNewline(Unread(r)), NEW z, z = seekNewline(Unread(q))
  PROVE  LineStays(r, q, x, s, z)
<1> DEFINE u == Unread(r)  v == Unread(q)
<1>1. u \in Text /\ v = u \o x /\ Len(u) \in Nat
  BY UnreadIs, TextIs DEF Ahead
<1>2. s = seekNewline(u) /\ z = seekNewline(v)
  OBVIOUS
<1> HIDE DEF u, v
<1>3. s \in 0 .. Len(u) /\ (s # 0 => s + 1 <= Len(u))
  BY <1>1, <1>2, NewlineIs
<1>4. ASSUME x = <<>> PROVE z = s
  <2>1. u \o <<>> = u
    BY <1>1 DEF Text
  <2> QED BY <1>1, <1>2, <1>4, <2>1
<1>5. ASSUME s # 0 PROVE z = s
  BY <1>1, <1>2, <1>5, NewlineStays
<1>6. ASSUME s # 0
      PROVE  SubSeq(v, 1, s - 1) = SubSeq(u, 1, s - 1) /\ SubSeq(u, 1, s - 1) \in Text
  <2>1. 1 \in Nat \ {0} /\ s - 1 \in Int /\ s - 1 <= Len(u)
    BY <1>1, <1>3
  <2> QED BY <1>1, <2>1, PartOf
<1>7. s # 0 => s + 1 \in 0 .. Len(u) /\ s + 1 > 0
  BY <1>1, <1>3
<1>8. s \in Nat
  BY <1>3
<1> QED BY <1>4, <1>5, <1>6, <1>7, <1>8, Zenon DEF u, v, LineStays

(* What processing an item of r, p, has to do with the same for q; it      *)
(* takes a byte at least, fails, or waits, leaving the reader w.           *)
Processed(p, pq, r, x, w) ==
  /\ Agrees(p, pq, x) /\ Yields(p)
  /\ p.ok => \E n \in 0 .. Len(Unread(r)) : n > 0 /\ Took(p, r, n)
  /\ ~p.ok /\ p.r.err = "none" => p = ERR(w)

LEMMA FinishProcessed ==
  ASSUME NEW r, Reads(r), NEW q, Reads(q), NEW x \in Text, Ahead(q, r, x), r.err = "none",
         NEW obj, NEW n \in 0 .. Len(Unread(r)), n > 0, NEW pr, pr = r.pos + n,
         NEW pq, pq = q.pos + n, NEW w
  PROVE  Processed(Finish(r, obj, pr), Finish(q, obj, pq), r, x, w)
<1> DEFINE p == Finish(r, obj, pr)  k == Finish(q, obj, pq)
<1>1. Agrees(p, k, x) /\ Yields(p) /\ Took(p, r, n)
  BY FinishAgrees
<1> HIDE DEF p, k
<1>2. Processed(p, k, r, x, w)
  BY <1>1, Zenon DEF Processed, Took
<1> QED BY <1>2 DEF p, k

LEMMA ErrorProcessed ==
  ASSUME NEW r, Reads(r), NEW q, Reads(q), NEW x, Ahead(q, r, x), NEW w
  PROVE  Processed(ProtocolError(r), ProtocolError(q), r, x, w)
<1> DEFINE p == ProtocolError(r)  k == ProtocolError(q)
<1>1. Agrees(p, k, x) /\ Yields(p) /\ ~p.ok /\ p.r.err # "none"
  BY ErrorAgrees
<1> HIDE DEF p, k
<1>2. Processed(p, k, r, x, w)
  BY <1>1, Zenon DEF Processed
<1> QED BY <1>2 DEF p, k

LEMMA WaitProcessed ==
  ASSUME NEW r, Reads(r), NEW q, Reads(q), NEW x, Ahead(q, r, x), r.err = "none",
         NEW p, x = <<>> => p = ERR(q)
  PROVE  Processed(ERR(r), p, r, x, r)
<1>1. ERR(r).ok = FALSE /\ ERR(r).r = r /\ ERR(r) = [ok |-> ERR(r).ok, r |-> ERR(r).r]
  BY DEF ERR
<1>2. ERR(q).ok = FALSE /\ ERR(q).r = q
  BY DEF ERR
<1>3. Agrees(ERR(r), p, x)
  BY <1>1, <1>2, Zenon DEF Agrees
<1>4. Yields(ERR(r))
  BY <1>1, Zenon DEF Yields
<1> QED BY <1>1, <1>3, <1>4, Zenon DEF Processed

LEMMA LineProcessed ==
  ASSUME NEW r, Reads(r), NEW q, Reads(q), NEW x \in Text, Ahead(q, r, x), r.err = "none",
         NEW s, s = seekNewline(Unread(r)), NEW z, z = seekNewline(Unread(q))
  PROVE  Processed(processLineItem(r, s), processLineItem(q, z), r, x, r)
<1> DEFINE line == SubSeq(Unread(r), 1, s - 1)  obj == LineObject(Last(r.stack).type, line)
<1>0. LineStays(r, q, x, s, z)
  BY LineIs, Zenon
<1>1. CASE s = 0
  <2>1. processLineItem(r, s) = ERR(r)
    BY <1>1, Zenon DEF processLineItem
  <2>2. x = <<>> => processLineItem(q, z) = ERR(q)
    <3>1. x = <<>> => z = 0
      BY <1>0, <1>1, Zenon DEF LineStays
    <3> QED BY <3>1, Zenon DEF processLineItem
  <2> QED BY <2>1, <2>2, WaitProcessed
<1>2. CASE s # 0
  <2>1. /\ z = s /\ s + 1 \in 0 .. Len(Unread(r)) /\ s + 1 > 0 /\ s \in Nat
        /\ SubSeq(Unread(q), 1, z - 1) = line
    BY <1>0, <1>2, Zenon DEF LineStays
  <2>2. q.stack = r.stack
    BY DEF Ahead
  <2>3. processLineItem(r, s) = FinishLine(r, obj, s)
    BY <1>2, Zenon DEF processLineItem
  <2>4. processLineItem(q, z) = FinishLine(q, obj, s)
    BY <1>2, <2>1, <2>2, Zenon DEF processLineItem
  <2> HIDE DEF line, obj
  <2>5. CASE obj = NoReply
    <3>1. FinishLine(r, obj, s) = ProtocolError(r) /\ FinishLine(q, obj, s) = ProtocolError(q)
      BY <2>5, Zenon DEF FinishLine
    <3> QED BY <2>3, <2>4, <3>1, ErrorProcessed
  <2>6. CASE obj # NoReply
    <3>1. /\ FinishLine(r, obj, s) = Finish(r, obj, r.pos + s + 1)
          /\ FinishLine(q, obj, s) = Finish(q, obj, q.pos + s + 1)
      BY <2>6, Zenon DEF FinishLine
    <3>2. r.pos + s + 1 = r.pos + (s + 1) /\ q.pos + s + 1 = q.pos + (s + 1)
      <4>1. r.pos \in Nat /\ q.pos \in Nat
        BY UnreadIs
      <4>2. \A a, b \in Nat : a + b + 1 = a + (b + 1)
        OBVIOUS
      <4> QED BY <2>1, <4>1, <4>2, Zenon
    <3>3. Processed(Finish(r, obj, r.pos + s + 1), Finish(q, obj, q.pos + s + 1), r, x, r)
      BY <2>1, <3>2, FinishProcessed
    <3> QED BY <2>3, <2>4, <3>1, <3>3, Zenon
  <2> QED BY <2>5, <2>6
<1> QED BY <1>1, <1>2

LEMMA BulkFits ==
  ASSUME NEW r, Reads(r), NEW s \in Nat, NEW v \in Nat
  PROVE  /\ BulkEnd(r.pos, s, v) > Len(r.buf.data) <=> s + v + 3 > Len(Unread(r))
         /\ BulkEnd(r.pos, s, v) = r.pos + (s + v + 3)
<1> DEFINE l == Len(r.buf.data)  k == Len(Unread(r))  p == r.pos
<1>1. l \in Nat /\ p \in Nat /\ k = l - p
  <2>1. k = l - p /\ p \in Nat /\ r.buf.data \in Text
    BY UnreadIs
  <2>2. l \in Nat
    BY <2>1, TextIs
  <2> QED BY <2>1, <2>2
<1> HIDE DEF l, k, p
<1>2. BulkEnd(p, s, v) > l <=> s + v + 3 > k
  BY <1>1 DEF BulkEnd
<1>3. BulkEnd(p, s, v) = p + (s + v + 3)
  BY <1>1 DEF BulkEnd
<1> QED BY <1>2, <1>3 DEF l, k, p

LEMMA BulkProcessed ==
  ASSUME NEW r, Reads(r), NEW q, Reads(q), NEW x \in Text, Ahead(q, r, x), r.err = "none",
         NEW s, s = seekNewline(Unread(r)), NEW z, z = seekNewline(Unread(q))
  PROVE  Processed(processBulkItem(r, s), processBulkItem(q, z), r, x, r)
<1> DEFINE line == SubSeq(Unread(r), 1, s - 1)  n == string2ll(line)
<1>0. LineStays(r, q, x, s, z)
  BY LineIs, Zenon
<1>1. CASE s = 0
  <2>1. processBulkItem(r, s) = ERR(r)
    BY <1>1, Zenon DEF processBulkItem
  <2>2. x = <<>> => processBulkItem(q, z) = ERR(q)
    <3>1. x = <<>> => z = 0
      BY <1>0, <1>1, Zenon DEF LineStays
    <3> QED BY <3>1, Zenon DEF processBulkItem
  <2> QED BY <2>1, <2>2, WaitProcessed
<1>2. CASE s # 0
  <2>1. /\ z = s /\ s + 1 \in 0 .. Len(Unread(r)) /\ s + 1 > 0 /\ s \in Nat
        /\ SubSeq(Unread(q), 1, z - 1) = line /\ line \in Text
    BY <1>0, <1>2, Zenon DEF LineStays
  <2>2. processBulkItem(r, s) = Bulk(r, s, n)
    BY <1>2, Zenon DEF processBulkItem
  <2>3. processBulkItem(q, z) = Bulk(q, s, n)
    BY <1>2, <2>1, Zenon DEF processBulkItem
  <2>4. n.value \in Int
    BY <2>1, NumberTyped, Zenon
  <2> DEFINE v == n.value
  <2> HIDE DEF n, v
  <2>5. CASE ~n.ok \/ v < -1
    <3>1. Bulk(r, s, n) = ProtocolError(r) /\ Bulk(q, s, n) = ProtocolError(q)
      BY <2>5, Zenon DEF Bulk, v
    <3> QED BY <2>2, <2>3, <3>1, ErrorProcessed
  <2>6. CASE n.ok /\ v = -1
    <3>1. ~(v < -1)
      BY <2>6
    <3>2. /\ Bulk(r, s, n) = Finish(r, Nil, r.pos + s + 1)
          /\ Bulk(q, s, n) = Finish(q, Nil, q.pos + s + 1)
      BY <2>6, <3>1, Zenon DEF Bulk, v
    <3>3. r.pos + s + 1 = r.pos + (s + 1) /\ q.pos + s + 1 = q.pos + (s + 1)
      <4>1. r.pos \in Nat /\ q.pos \in Nat
        BY UnreadIs
      <4>2. \A a, b \in Nat : a + b + 1 = a + (b + 1)
        OBVIOUS
      <4> QED BY <2>1, <4>1, <4>2, Zenon
    <3>4. Processed(Finish(r, Nil, r.pos + s + 1), Finish(q, Nil, q.pos + s + 1), r, x, r)
      BY <2>1, <3>3, FinishProcessed
    <3> QED BY <2>2, <2>3, <3>2, <3>4, Zenon
  <2>7. CASE n.ok /\ ~(v < -1) /\ v # -1
    <3> DEFINE e == s + v + 3  k == Len(Unread(r))  m == Len(Unread(q))
               str == SubSeq(Unread(r), s + 2, s + 1 + v)  type == Last(r.stack).type
               er == BulkEnd(r.pos, s, v)  eq == BulkEnd(q.pos, s, v)
    <3>1. v \in Nat
      BY <2>4, <2>7 DEF v
    <3>2. k \in Nat /\ m \in Nat /\ Len(x) \in Nat /\ m = k + Len(x)
      <4>1. Unread(r) \in Text /\ Unread(q) = Unread(r) \o x
        BY UnreadIs DEF Ahead
      <4>2. m = k + Len(x)
        BY <4>1, Joins
      <4>3. k \in Nat /\ Len(x) \in Nat
        BY <4>1, TextIs
      <4> QED BY <4>2, <4>3
    <3>3. /\ er > Len(r.buf.data) <=> e > k
          /\ eq > Len(q.buf.data) <=> e > m
          /\ er = r.pos + e /\ eq = q.pos + e
      BY <2>1, <3>1, BulkFits
    <3>4. /\ Bulk(r, s, n) = IF er > Len(r.buf.data) THEN ERR(r)
                             ELSE FinishBulk(r, type, str, er)
          /\ Bulk(q, s, n) = IF eq > Len(q.buf.data) THEN ERR(q)
                             ELSE FinishBulk(q, Last(q.stack).type,
                                             SubSeq(Unread(q), s + 2, s + 1 + v), eq)
      BY <2>7, Zenon DEF Bulk, v
    <3>5. Last(q.stack).type = type
      BY Zenon DEF Ahead
    <3>6. CASE e > k
      <4>1. x = <<>> => e > m
        <5>1. x = <<>> => Len(x) = 0
          OBVIOUS
        <5> QED BY <3>2, <3>6, <5>1
      <4> HIDE DEF er, eq, e, k, m, str, type
      <4>2. Bulk(r, s, n) = ERR(r)
        BY <3>3, <3>4, <3>6, Zenon
      <4>3. x = <<>> => Bulk(q, s, n) = ERR(q)
        BY <3>3, <3>4, <4>1, Zenon
      <4> QED BY <2>2, <2>3, <4>2, <4>3, WaitProcessed
    <3>7. CASE ~(e > k)
      <4>0. \A a, b, i, j, l \in Nat : l = i + j /\ ~(a + b + 3 > i) =>
               /\ ~(a + b + 3 > l) /\ a + b + 3 \in 0 .. i /\ a + b + 3 > 0
               /\ a + 2 \in Nat \ {0} /\ a + 1 + b \in Int /\ a + 1 + b <= i
        OBVIOUS
      <4>1. /\ ~(e > m) /\ e \in 0 .. k /\ e > 0
            /\ s + 2 \in Nat \ {0} /\ s + 1 + v \in Int /\ s + 1 + v <= k
        BY <2>1, <3>1, <3>2, <3>7, <4>0, Zenon
      <4>2. SubSeq(Unread(q), s + 2, s + 1 + v) = str
        <5>1. Unread(r) \in Text /\ Unread(q) = Unread(r) \o x
          BY UnreadIs DEF Ahead
        <5>2. SubSeq(Unread(r) \o x, s + 2, s + 1 + v) = str
          BY <4>1, <5>1, PartOf, Zenon
        <5> QED BY <5>1, <5>2, Zenon
      <4> HIDE DEF er, eq, e, m, str, type
      <4>3. /\ Bulk(r, s, n) = FinishBulk(r, type, str, er)
            /\ Bulk(q, s, n) = FinishBulk(q, type, str, eq)
        BY <3>3, <3>4, <3>5, <3>7, <4>1, <4>2, Zenon
      <4>4. CASE type = "VERB" /\ (Len(str) < 4 \/ str[4] # ":")
        <5>1. /\ FinishBulk(r, type, str, er) = ProtocolError(r)
              /\ FinishBulk(q, type, str, eq) = ProtocolError(q)
          BY <4>4, Zenon DEF FinishBulk
        <5> QED BY <2>2, <2>3, <4>3, <5>1, ErrorProcessed
      <4>5. CASE ~(type = "VERB" /\ (Len(str) < 4 \/ str[4] # ":"))
        <5>1. /\ FinishBulk(r, type, str, er) = Finish(r, BulkObject(type, str), er)
              /\ FinishBulk(q, type, str, eq) = Finish(q, BulkObject(type, str), eq)
          BY <4>5, Zenon DEF FinishBulk
        <5>2. Processed(Finish(r, BulkObject(type, str), er),
                        Finish(q, BulkObject(type, str), eq), r, x, r)
          BY <3>3, <4>1, FinishProcessed
        <5> QED BY <2>2, <2>3, <4>3, <5>1, <5>2, Zenon
      <4> QED BY <4>4, <4>5
    <3> QED BY <3>6, <3>7
  <2> QED BY <2>5, <2>6, <2>7, Zenon
<1> QED BY <1>1, <1>2

LEMMA AggregateProcessed ==
  ASSUME NEW r, Reads(r), NEW q, Reads(q), NEW x \in Text, Ahead(q, r, x), r.err = "none",
         r.stack # <<>>, Len(r.stack) < r.tasks, Len(q.stack) < q.tasks,
         NEW s, s = seekNewline(Unread(r)), NEW z, z = seekNewline(Unread(q))
  PROVE  Processed(processAggregateItem(r, s), processAggregateItem(q, z), r, x, r)
<1> DEFINE line == SubSeq(Unread(r), 1, s - 1)  n == string2ll(line)
           type == Last(r.stack).type  pr == r.pos + s + 1  pq == q.pos + s + 1
<1>0. LineStays(r, q, x, s, z)
  BY LineIs, Zenon
<1>1. CASE s = 0
  <2>1. processAggregateItem(r, s) = ERR(r)
    BY <1>1, Zenon DEF processAggregateItem
  <2>2. x = <<>> => processAggregateItem(q, z) = ERR(q)
    <3>1. x = <<>> => z = 0
      BY <1>0, <1>1, Zenon DEF LineStays
    <3> QED BY <3>1, Zenon DEF processAggregateItem
  <2> QED BY <2>1, <2>2, WaitProcessed
<1>2. CASE s # 0
  <2>1. /\ z = s /\ s + 1 \in 0 .. Len(Unread(r)) /\ s + 1 > 0 /\ s \in Nat
        /\ SubSeq(Unread(q), 1, z - 1) = line /\ line \in Text
    BY <1>0, <1>2, Zenon DEF LineStays
  <2>2. processAggregateItem(r, s) = Aggregate(r, type, n, pr)
    BY <1>2, Zenon DEF processAggregateItem
  <2>3. processAggregateItem(q, z) = Aggregate(q, type, n, pq)
    <3>1. q.stack = r.stack
      BY DEF Ahead
    <3> QED BY <1>2, <2>1, <3>1, Zenon DEF processAggregateItem
  <2>4. n.value \in Int
    BY <2>1, NumberTyped, Zenon
  <2>5. pr = r.pos + (s + 1) /\ pq = q.pos + (s + 1)
    <3>1. r.pos \in Nat /\ q.pos \in Nat
      BY UnreadIs
    <3>2. \A a, b \in Nat : a + b + 1 = a + (b + 1)
      OBVIOUS
    <3> QED BY <2>1, <3>1, <3>2, Zenon
  <2> DEFINE v == n.value  bad == ~n.ok \/ v < -1 \/ v > MaxElements
             elements == IF type = "MAP" THEN 2 * v ELSE v
             obj == ArrayObject(type, elements)
  <2> HIDE DEF n, v, pr, pq, type
  <2>6. elements \in Int
    BY <2>4 DEF v
  <2>7. /\ Aggregate(r, type, n, pr) = IF bad THEN ProtocolError(r)
                                       ELSE IF v = -1 THEN Finish(r, Nil, pr)
                                       ELSE Enter(r, obj, elements, pr)
        /\ Aggregate(q, type, n, pq) = IF bad THEN ProtocolError(q)
                                       ELSE IF v = -1 THEN Finish(q, Nil, pq)
                                       ELSE Enter(q, obj, elements, pq)
    BY Zenon DEF Aggregate, v
  <2> HIDE DEF elements, obj, bad
  <2>8. CASE bad
    <3>1. /\ Aggregate(r, type, n, pr) = ProtocolError(r)
          /\ Aggregate(q, type, n, pq) = ProtocolError(q)
      BY <2>7, <2>8, Zenon
    <3> QED BY <2>2, <2>3, <3>1, ErrorProcessed
  <2>9. CASE ~bad /\ v = -1
    <3>1. /\ Aggregate(r, type, n, pr) = Finish(r, Nil, pr)
          /\ Aggregate(q, type, n, pq) = Finish(q, Nil, pq)
      BY <2>7, <2>9, Zenon
    <3>2. Processed(Finish(r, Nil, pr), Finish(q, Nil, pq), r, x, r)
      BY <2>1, <2>5, FinishProcessed
    <3> QED BY <2>2, <2>3, <3>1, <3>2, Zenon
  <2>10. CASE ~bad /\ v # -1
    <3>1. /\ Aggregate(r, type, n, pr) = Enter(r, obj, elements, pr)
          /\ Aggregate(q, type, n, pq) = Enter(q, obj, elements, pq)
      BY <2>7, <2>10, Zenon
    <3> DEFINE p == Enter(r, obj, elements, pr)  k == Enter(q, obj, elements, pq)
    <3>2. Agrees(p, k, x) /\ Yields(p) /\ Took(p, r, s + 1)
      BY <2>1, <2>5, <2>6, EnterAgrees
    <3> HIDE DEF p, k
    <3>3. Processed(p, k, r, x, r)
      BY <2>1, <3>2, Zenon DEF Processed, Took
    <3> QED BY <2>2, <2>3, <3>1, <3>3, Zenon DEF p, k
  <2> QED BY <2>8, <2>9, <2>10, Zenon
<1> QED BY <1>1, <1>2

(* The reader that waits for the rest of an item it has the type of.       *)
Waits(r) == IF Last(r.stack).type \in Aggregates THEN redisReaderGrow(r) ELSE r

LEMMA TypedProcessed ==
  ASSUME NEW r, Reads(r), NEW q, Reads(q), NEW x \in Text, Ahead(q, r, x), r.err = "none",
         r.stack # <<>>,
         NEW s, s = seekNewline(Unread(r)), NEW z, z = seekNewline(Unread(q))
  PROVE  Processed(ProcessTyped(r, s), ProcessTyped(q, z), r, x, Waits(r))
<1> DEFINE type == Last(r.stack).type
<1>0. Last(q.stack).type = type
  BY Zenon DEF Ahead
<1>1. CASE type \in Aggregates
  <2> DEFINE g == redisReaderGrow(r)  h == redisReaderGrow(q)
             p == processAggregateItem(g, s)  k == processAggregateItem(h, z)
  <2>1. /\ Reads(g) /\ Len(g.stack) < g.tasks /\ Unread(g) = Unread(r)
        /\ g.err = r.err /\ g.stack = r.stack
    BY GrowIs
  <2>2. Reads(h) /\ Unread(h) = Unread(q) /\ Len(h.stack) < h.tasks
    BY GrowIs
  <2>3. Ahead(h, g, x)
    BY GrowAhead
  <2>4. ProcessTyped(r, s) = p /\ ProcessTyped(q, z) = k /\ Waits(r) = g
    <3>1. type \notin {"STRING", "VERB"}
      BY <1>1 DEF Aggregates
    <3> QED BY <1>0, <1>1, <3>1, Zenon DEF ProcessTyped, Waits
  <2> HIDE DEF g, h
  <2>5. Processed(p, k, g, x, g)
    <3>1. s = seekNewline(Unread(g)) /\ z = seekNewline(Unread(h))
      BY <2>1, <2>2, Zenon
    <3>2. g.err = "none" /\ g.stack # <<>>
      BY <2>1, Zenon
    <3> QED BY <2>1, <2>2, <2>3, <3>1, <3>2, AggregateProcessed
  <2> HIDE DEF p, k
  <2>6. Processed(p, k, r, x, g)
    BY <2>1, <2>5, Zenon DEF Processed, Took
  <2> QED BY <2>4, <2>6, Zenon
<1>2. CASE type \notin Aggregates
  <2>1. Waits(r) = r
    BY <1>2, Zenon DEF Waits
  <2>2. CASE type \in {"STRING", "VERB"}
    <3>1. ProcessTyped(r, s) = processBulkItem(r, s) /\ ProcessTyped(q, z) = processBulkItem(q, z)
      BY <1>0, <1>2, <2>2, Zenon DEF ProcessTyped
    <3>2. Processed(processBulkItem(r, s), processBulkItem(q, z), r, x, r)
      BY BulkProcessed
    <3> QED BY <2>1, <3>1, <3>2, Zenon
  <2>3. CASE type \notin {"STRING", "VERB"}
    <3>1. ProcessTyped(r, s) = processLineItem(r, s) /\ ProcessTyped(q, z) = processLineItem(q, z)
      <4>1. type \notin Aggregates \cup {"STRING", "VERB"}
        BY <1>2, <2>3, Zenon
      <4> QED BY <1>0, <1>2, <2>3, <4>1, Zenon DEF ProcessTyped
    <3>2. Processed(processLineItem(r, s), processLineItem(q, z), r, x, r)
      BY LineProcessed
    <3> QED BY <2>1, <3>1, <3>2, Zenon
  <2> QED BY <2>2, <2>3, Zenon
<1> QED BY <1>1, <1>2, Zenon

-----------------------------------------------------------------------------
(* The type byte.                                                          *)
Kinded(stack, k) == [stack EXCEPT ![Len(stack)].type = k]

LEMMA KindsKnown == \A b \in DOMAIN TypeOf : TypeOf[b] # "unknown" /\ TypeOf[b] \in Kinds
<1>1. \A b \in DOMAIN TypeOf : TypeOf[b] # "unknown"
  BY Zenon DEF TypeOf
<1> QED BY <1>1, Zenon DEF Kinds

LEMMA KindedIs ==
  ASSUME NEW stack \in Seq(Task), stack # <<>>, NEW k \in Kinds
  PROVE  /\ Kinded(stack, k) \in Seq(Task) /\ Len(Kinded(stack, k)) = Len(stack)
         /\ Kinded(stack, k) # <<>> /\ Last(Kinded(stack, k)).type = k
<1> DEFINE n == Len(stack)  top == [stack[n] EXCEPT !.type = k]  s == [stack EXCEPT ![n] = top]
<1>1. n \in Nat /\ n \in 1 .. n
  OBVIOUS
<1>2. stack[n] \in Task
  BY <1>1
<1>3. top \in Task /\ top.type = k
  BY <1>2 DEF Task
<1>4. Kinded(stack, k) = s
  BY DEF Kinded
<1> HIDE DEF top, n
<1>5. s \in Seq(Task) /\ Len(s) = Len(stack)
  BY <1>1, <1>3, ExceptSeq DEF n
<1>6. s[n] = top
  BY <1>1 DEF n
<1> HIDE DEF s
<1>7. Last(s).type = k /\ s # <<>>
  <2>1. Last(s) = s[n]
    BY <1>5, Zenon DEF Last, n
  <2>2. Len(s) # 0
    BY <1>1, <1>5 DEF n
  <2>3. s # <<>>
    BY <2>2
  <2> QED BY <1>3, <1>6, <2>1, <2>3, Zenon
<1> QED BY <1>4, <1>5, <1>7, Zenon

LEMMA TypeOnward ==
  ASSUME NEW r, Reads(r), NEW k
  PROVE  [r EXCEPT !.pos = @ + 1, !.stack[Len(r.stack)].type = k]
           = Onward(r, 1, Kinded(r.stack, k), r.reply)
<1> DEFINE p == r.pos + 1  st == Kinded(r.stack, k)
           r1 == [r EXCEPT !.pos = p]  r2 == [r1 EXCEPT !.stack = st]
<1>1. r1.stack = r.stack
  BY DEF Reads
<1>2. [r1 EXCEPT !.stack[Len(r.stack)].type = k] = r2
  <2> HIDE DEF r1
  <2> QED BY <1>1, Zenon DEF Kinded
<1>3. [r EXCEPT !.pos = @ + 1, !.stack[Len(r.stack)].type = k] = r2
  BY <1>2, Zenon
<1>4. [r2 EXCEPT !.reply = r.reply] = r2
  <2>1. r1 = [buf |-> r.buf, pos |-> p, err |-> r.err, stack |-> r.stack,
              tasks |-> r.tasks, reply |-> r.reply]
    <3> HIDE DEF p
    <3> QED BY DEF Reads
  <2> HIDE DEF r1, p, st
  <2>2. r2 = [buf |-> r.buf, pos |-> p, err |-> r.err, stack |-> st,
              tasks |-> r.tasks, reply |-> r.reply]
    BY <2>1
  <2> HIDE DEF r2
  <2> QED BY <2>2
<1>5. Onward(r, 1, st, r.reply) = [r2 EXCEPT !.reply = r.reply]
  BY Zenon DEF Onward
<1> QED BY <1>3, <1>4, <1>5, Zenon

LEMMA ReadIs ==
  ASSUME NEW r, Reads(r), NEW u, u = Unread(r), NEW old, old = Last(r.stack).type
  PROVE  /\ old # "unknown" => ReadType(r) = OK(r)
         /\ old = "unknown" /\ u = <<>> => ReadType(r) = ERR(r)
         /\ old = "unknown" /\ u # <<>> /\ Head(u) \notin DOMAIN TypeOf
              => ReadType(r) = ProtocolError(r)
         /\ old = "unknown" /\ u # <<>> /\ Head(u) \in DOMAIN TypeOf
              => ReadType(r) = OK(Onward(r, 1, Kinded(r.stack, TypeOf[Head(u)]), r.reply))
<1> DEFINE k == TypeOf[Head(u)]
<1> HIDE DEF k
<1>1. [r EXCEPT !.pos = @ + 1, !.stack[Len(r.stack)].type = k]
        = Onward(r, 1, Kinded(r.stack, k), r.reply)
  BY TypeOnward, Zenon
<1> QED BY <1>1, Zenon DEF ReadType, k

(* What reading the type byte of r, p, has to do with the same for q.      *)
Begun(p, k, r, x) ==
  /\ Agrees(p, k, x) /\ Yields(p)
  /\ p.ok => /\ p.r.err = "none" /\ p.r.stack # <<>> /\ Last(p.r.stack).type # "unknown"
             /\ Len(Unread(p.r)) <= Len(Unread(r))
  /\ ~p.ok /\ p.r.err = "none" => p = ERR(r)

LEMMA ReadBegun ==
  ASSUME NEW r, Reads(r), NEW q, Reads(q), NEW x \in Text, Ahead(q, r, x), r.err = "none",
         r.stack # <<>>, NEW p, p = ReadType(r), NEW k, k = ReadType(q)
  PROVE  Begun(p, k, r, x)
<1> DEFINE u == Unread(r)  v == Unread(q)  old == Last(r.stack).type
<1>1. Last(q.stack).type = old /\ q.stack = r.stack /\ q.reply = r.reply
  BY Zenon DEF Ahead
<1>2. u \in Text /\ v = u \o x /\ Len(u) \in Nat
  BY UnreadIs, TextIs DEF Ahead
<1>3. CASE old # "unknown"
  <2>1. p = OK(r) /\ k = OK(q)
    BY <1>1, <1>3, ReadIs, Zenon
  <2>2. p.ok = TRUE /\ p.r = r /\ k.ok = TRUE /\ k.r = q /\ p = [ok |-> p.ok, r |-> p.r]
    BY <2>1 DEF OK
  <2>3. Agrees(p, k, x)
    BY <2>2, Zenon DEF Agrees
  <2>4. Yields(p)
    BY <2>2, Zenon DEF Yields
  <2>5. Len(u) <= Len(u)
    BY <1>2
  <2> HIDE DEF old
  <2>6. Last(r.stack).type # "unknown"
    BY <1>3, Zenon DEF old
  <2> QED BY <2>2, <2>3, <2>4, <2>5, <2>6, Zenon DEF Begun
<1>4. CASE old = "unknown" /\ u = <<>>
  <2>1. p = ERR(r)
    BY <1>4, ReadIs, Zenon
  <2>2. p.ok = FALSE /\ p.r = r /\ p = [ok |-> p.ok, r |-> p.r]
    BY <2>1 DEF ERR
  <2>3. x = <<>> => k.ok = FALSE /\ k.r = q
    <3> SUFFICES ASSUME x = <<>> PROVE k.ok = FALSE /\ k.r = q
      OBVIOUS
    <3>1. v = <<>>
      BY <1>2, <1>4
    <3>2. k = ERR(q)
      BY <1>1, <1>4, <3>1, ReadIs, Zenon
    <3> QED BY <3>2 DEF ERR
  <2>4. Agrees(p, k, x)
    BY <2>2, <2>3, Zenon DEF Agrees
  <2>5. Yields(p)
    BY <2>2, Zenon DEF Yields
  <2> QED BY <2>1, <2>2, <2>4, <2>5, Zenon DEF Begun
<1>5. CASE old = "unknown" /\ u # <<>>
  <2>1. v # <<>> /\ Head(v) = Head(u) /\ 1 \in 0 .. Len(u)
    BY <1>2, <1>5 DEF Text
  <2> DEFINE b == Head(u)  stack == Kinded(r.stack, TypeOf[b])
  <2>2. CASE b \notin DOMAIN TypeOf
    <3>1. p = ProtocolError(r) /\ k = ProtocolError(q)
      BY <1>1, <1>5, <2>1, <2>2, ReadIs, Zenon
    <3>2. Agrees(p, k, x) /\ Yields(p) /\ ~p.ok /\ p.r.err # "none"
      BY <3>1, ErrorAgrees
    <3> QED BY <3>2, Zenon DEF Begun
  <2>3. CASE b \in DOMAIN TypeOf
    <3>1. p = OK(Onward(r, 1, stack, r.reply)) /\ k = OK(Onward(q, 1, stack, r.reply))
      <4>1. p = OK(Onward(r, 1, stack, r.reply))
        BY <1>5, <2>3, ReadIs, ZenonT(30)
      <4>2. Last(q.stack).type = "unknown" /\ v # <<>> /\ Head(v) = b
        BY <1>1, <1>5, <2>1, Zenon
      <4>3. q.stack = r.stack /\ q.reply = r.reply
        BY <1>1, Zenon
      <4>4. k = OK(Onward(q, 1, Kinded(q.stack, TypeOf[b]), q.reply))
        BY <2>3, <4>2, ReadIs, ZenonT(30)
      <4> QED BY <4>1, <4>3, <4>4, Zenon
    <3> HIDE DEF b
    <3>2. TypeOf[b] \in Kinds /\ TypeOf[b] # "unknown"
      BY <2>3, KindsKnown, Zenon
    <3>3. r.stack \in Seq(Task) /\ Len(r.stack) <= r.tasks /\ Len(r.stack) <= q.tasks
      BY <1>1, Zenon DEF Reads
    <3>4. /\ stack \in Seq(Task) /\ Len(stack) <= r.tasks /\ Len(stack) <= q.tasks
          /\ stack # <<>> /\ Last(stack).type # "unknown"
      BY <3>2, <3>3, KindedIs, Zenon
    <3> HIDE DEF stack
    <3> DEFINE m == Onward(r, 1, stack, r.reply)  w == Onward(q, 1, stack, r.reply)
    <3>5. m.stack = stack
      BY <2>1, <3>4, OnwardIs
    <3>6. Agrees(OK(m), OK(w), x) /\ Yields(OK(m)) /\ Took(OK(m), r, 1)
      BY <2>1, <3>4, StepAgrees
    <3> HIDE DEF m, w
    <3>7. p = OK(m) /\ k = OK(w)
      BY <3>1, Zenon DEF m, w
    <3>8. OK(m).r = m
      BY DEF OK
    <3>9. Len(Rest(u, 1)) <= Len(u)
      <4>1. Len(Rest(u, 1)) = Len(u) - 1
        BY <1>2, <2>1, RestTyped
      <4> QED BY <1>2, <4>1
    <3>10. Last(m.stack).type # "unknown" /\ m.stack # <<>>
      BY <3>4, <3>5, Zenon
    <3> QED BY <3>6, <3>7, <3>8, <3>9, <3>10, Zenon DEF Begun, Took
  <2> QED BY <2>2, <2>3, Zenon
<1> QED BY <1>3, <1>4, <1>5, Zenon

-----------------------------------------------------------------------------
(* One item.                                                               *)
(* A result that can be gone on from, or is final.                         *)
Proper(p) == Yields(p) /\ (p.ok => p.r.err = "none")

LEMMA AheadNone ==
  ASSUME NEW r, Reads(r)
  PROVE  Ahead(r, r, <<>>) /\ <<>> \in Text
<1>1. Unread(r) \in Text
  BY UnreadIs
<1>2. Unread(r) \o <<>> = Unread(r) /\ <<>> \in Text
  BY <1>1 DEF Text
<1> QED BY <1>2, Zenon DEF Ahead

(* p, the result of an item of r, is proper, agrees with the same for q,   *)
(* and took a byte at least, if it was there.                              *)
Handled(p, k, r, x) ==
  /\ Agrees(p, k, x) /\ Proper(p)
  /\ p.ok => Len(Unread(p.r)) < Len(Unread(r))
  /\ ~p.ok /\ p.r.err = "none" => p.r.stack # <<>>

LEMMA ItemHandled ==
  ASSUME NEW r, Reads(r), NEW q, Reads(q), NEW x \in Text, Ahead(q, r, x), r.err = "none",
         r.stack # <<>>
  PROVE  Handled(processItem(r), processItem(q), r, x)
<1> DEFINE b == ReadType(r)  d == ReadType(q)  p == processItem(r)  k == processItem(q)
<1>1. Begun(b, d, r, x)
  BY ReadBegun, Zenon
<1>2. Yields(d)
  <2>1. q.err = "none" /\ q.stack # <<>> /\ Ahead(q, q, <<>>) /\ <<>> \in Text
    BY AheadNone, Zenon DEF Ahead
  <2>2. Begun(d, d, q, <<>>)
    BY <2>1, ReadBegun, Zenon
  <2> QED BY <2>2, Zenon DEF Begun
<1>3. p = Typed(b) /\ k = Typed(d)
  BY Zenon DEF processItem
<1> HIDE DEF b, d, p, k
<1>4. ASSUME ~b.ok PROVE Handled(p, k, r, x)
  <2>1. p = b
    BY <1>3, <1>4, Zenon DEF Typed
  <2>2. Agrees(p, k, x)
    <3>1. CASE b.r.err # "none"
      <4>1. ~d.ok /\ SameReader(d.r, b.r)
        BY <1>1, <1>4, <3>1, Zenon DEF Begun, Agrees
      <4>2. k = d
        BY <1>3, <4>1, Zenon DEF Typed
      <4> QED BY <1>4, <2>1, <3>1, <4>1, <4>2, Zenon DEF Agrees
    <3>2. CASE b.r.err = "none"
      <4>1. x = <<>> => ~d.ok
        BY <1>1, <1>4, <3>2, Zenon DEF Begun, Agrees
      <4>2. x = <<>> => k = d
        BY <1>3, <4>1, Zenon DEF Typed
      <4>3. Agrees(b, d, x)
        BY <1>1, Zenon DEF Begun
      <4> QED BY <1>4, <2>1, <3>2, <4>2, <4>3, Zenon DEF Agrees
    <3> QED BY <3>1, <3>2, Zenon
  <2>3. Proper(p)
    BY <1>1, <1>4, <2>1, Zenon DEF Begun, Proper
  <2>4. ~p.ok /\ p.r.err = "none" => p.r.stack # <<>>
    <3> SUFFICES ASSUME p.r.err = "none" PROVE p.r.stack # <<>>
      BY Zenon
    <3>1. p = ERR(r)
      BY <1>1, <1>4, <2>1, Zenon DEF Begun
    <3>2. p.r = r
      BY <3>1 DEF ERR
    <3> QED BY <3>2, Zenon
  <2> QED BY <1>4, <2>1, <2>2, <2>3, <2>4, Zenon DEF Handled
<1>5. ASSUME b.ok PROVE Handled(p, k, r, x)
  <2> DEFINE m == b.r  w == d.r  s == seekNewline(Unread(m))  z == seekNewline(Unread(w))
  <2>1. /\ d.ok /\ Ahead(w, m, x) /\ Reads(m) /\ m.err = "none" /\ m.stack # <<>>
        /\ Len(Unread(m)) <= Len(Unread(r))
    BY <1>1, <1>5, Zenon DEF Begun, Agrees, Yields
  <2>2. Reads(w)
    BY <1>2, Zenon DEF Yields
  <2>3. p = ProcessTyped(m, s) /\ k = ProcessTyped(w, z)
    BY <1>3, <1>5, <2>1, Zenon DEF Typed
  <2> HIDE DEF m, w
  <2>4. Processed(p, k, m, x, Waits(m))
    <3> DEFINE pm == ProcessTyped(m, s)  kw == ProcessTyped(w, z)
    <3>1. Processed(pm, kw, m, x, Waits(m))
      BY <2>1, <2>2, TypedProcessed
    <3> QED BY <2>3, <3>1, Zenon
  <2>5. p.ok => p.r.err = "none" /\ Len(Unread(p.r)) < Len(Unread(r))
    <3> SUFFICES ASSUME p.ok PROVE p.r.err = "none" /\ Len(Unread(p.r)) < Len(Unread(r))
      BY Zenon
    <3>1. PICK n \in 0 .. Len(Unread(m)) : n > 0 /\ Took(p, m, n)
      BY <2>4, Zenon DEF Processed
    <3>2. p.r.err = "none" /\ Unread(p.r) = Rest(Unread(m), n)
      BY <3>1, Zenon DEF Took
    <3>3. Unread(m) \in Text /\ Unread(r) \in Text
      BY <2>1, UnreadIs
    <3>4. Len(Unread(m)) \in Nat /\ Len(Unread(r)) \in Nat
      BY <3>3, TextIs
    <3>5. Len(Rest(Unread(m), n)) = Len(Unread(m)) - n
      BY <3>3, RestTyped
    <3>6. \A i, j \in Nat : \A h \in 0 .. i : h > 0 /\ i <= j => i - h < j
      OBVIOUS
    <3>7. Len(Unread(m)) - n < Len(Unread(r))
      BY <2>1, <3>1, <3>4, <3>6, Zenon
    <3> QED BY <3>2, <3>5, <3>7, Zenon
  <2>6. ~p.ok /\ p.r.err = "none" => p.r.stack # <<>>
    <3> SUFFICES ASSUME ~p.ok, p.r.err = "none" PROVE p.r.stack # <<>>
      BY Zenon
    <3>1. p = ERR(Waits(m))
      BY <2>4, Zenon DEF Processed
    <3>2. p.r = Waits(m)
      BY <3>1 DEF ERR
    <3>3. Waits(m).stack = m.stack
      <4>1. redisReaderGrow(m).stack = m.stack
        BY <2>1, GrowIs
      <4> QED BY <4>1, Zenon DEF Waits
    <3> QED BY <2>1, <3>2, <3>3, Zenon
  <2> QED BY <2>4, <2>5, <2>6, Zenon DEF Handled, Proper, Processed
<1> QED BY <1>4, <1>5, Zenon DEF p, k

-----------------------------------------------------------------------------
(* Readers and results that are alike.                                     *)
Alike(a, b) == a.ok = b.ok /\ SameReader(a.r, b.r)

LEMMA SameAhead ==
  ASSUME NEW q, NEW r, Reads(r)
  PROVE  Ahead(q, r, <<>>) <=> SameReader(q, r)
<1>1. Unread(r) \in Text
  BY UnreadIs
<1>2. Unread(r) \o <<>> = Unread(r)
  BY <1>1 DEF Text
<1> QED BY <1>2, Zenon DEF Ahead, SameReader

LEMMA AgreesAlike ==
  ASSUME NEW p, NEW k, Proper(p), Proper(k), Agrees(p, k, <<>>)
  PROVE  Alike(k, p)
<1>1. Reads(p.r) /\ p.ok \in BOOLEAN /\ k.ok \in BOOLEAN
  BY Zenon DEF Proper, Yields
<1>2. CASE p.ok
  BY <1>1, <1>2, SameAhead, Zenon DEF Agrees, Alike
<1>3. CASE ~p.ok /\ p.r.err # "none"
  BY <1>1, <1>3, Zenon DEF Agrees, Alike
<1>4. CASE ~p.ok /\ p.r.err = "none"
  BY <1>1, <1>4, SameAhead, Zenon DEF Agrees, Alike
<1> QED BY <1>2, <1>3, <1>4, Zenon

LEMMA ItemProper ==
  ASSUME NEW r, Reads(r), r.err = "none", r.stack # <<>>
  PROVE  /\ Proper(processItem(r))
         /\ processItem(r).ok => Len(Unread(processItem(r).r)) < Len(Unread(r))
         /\ ~processItem(r).ok /\ processItem(r).r.err = "none" => processItem(r).r.stack # <<>>
<1>1. Handled(processItem(r), processItem(r), r, <<>>)
  BY AheadNone, ItemHandled, Zenon
<1> QED BY <1>1, Zenon DEF Handled

LEMMA ItemAlike ==
  ASSUME NEW q, Reads(q), NEW r, Reads(r), SameReader(q, r), r.err = "none", r.stack # <<>>
  PROVE  Alike(processItem(q), processItem(r))
<1> DEFINE p == processItem(r)  k == processItem(q)
<1>1. Ahead(q, r, <<>>) /\ <<>> \in Text
  BY SameAhead, AheadNone, Zenon
<1>2. q.err = "none" /\ q.stack # <<>>
  BY Zenon DEF SameReader
<1>3. Handled(p, k, r, <<>>)
  BY <1>1, ItemHandled, Zenon
<1>4. Proper(k)
  BY <1>2, ItemProper, Zenon
<1> HIDE DEF p, k
<1>5. Alike(k, p)
  BY <1>3, <1>4, AgreesAlike, Zenon DEF Handled
<1> QED BY <1>5, Zenon DEF p, k

LEMMA TypedAlike ==
  ASSUME NEW q, Reads(q), NEW r, Reads(r), SameReader(q, r), r.err = "none", r.stack # <<>>,
         NEW s, s = seekNewline(Unread(r)), NEW z, z = seekNewline(Unread(q))
  PROVE  Alike(ProcessTyped(q, z), ProcessTyped(r, s))
<1> DEFINE p == ProcessTyped(r, s)  k == ProcessTyped(q, z)
<1>1. Ahead(q, r, <<>>) /\ Ahead(q, q, <<>>) /\ <<>> \in Text
  BY SameAhead, AheadNone, Zenon
<1>2. q.err = "none" /\ q.stack # <<>>
  BY Zenon DEF SameReader
<1>3. Processed(p, k, r, <<>>, Waits(r)) /\ Processed(k, k, q, <<>>, Waits(q))
  BY <1>1, <1>2, TypedProcessed
<1> HIDE DEF p, k
<1>4. Proper(p) /\ Proper(k) /\ Agrees(p, k, <<>>)
  BY <1>3, Zenon DEF Processed, Proper, Took
<1>5. Alike(k, p)
  BY <1>4, AgreesAlike, Zenon
<1> QED BY <1>5, Zenon DEF p, k

(* The reader that waits processes its item as the one that came to wait.  *)
LEMMA WaitsIs ==
  ASSUME NEW r, Reads(r)
  PROVE  /\ Reads(Waits(r)) /\ Waits(r).err = r.err /\ Waits(r).stack = r.stack
         /\ Unread(Waits(r)) = Unread(r)
         /\ \A s : ProcessTyped(Waits(r), s) = ProcessTyped(r, s)
<1> DEFINE g == redisReaderGrow(r)  h == redisReaderGrow(g)  w == Waits(r)
<1>1. /\ Reads(g) /\ Len(g.stack) < g.tasks /\ Unread(g) = Unread(r)
      /\ g.err = r.err /\ g.stack = r.stack
  BY GrowIs
<1>2. h = g
  BY <1>1, GrowIs
<1>3. w = IF Last(r.stack).type \in Aggregates THEN g ELSE r
  BY Zenon DEF Waits
<1>4. ASSUME Last(r.stack).type \in Aggregates, NEW s
      PROVE  ProcessTyped(g, s) = ProcessTyped(r, s)
  <2>1. Last(r.stack).type \notin {"STRING", "VERB"}
    BY <1>4 DEF Aggregates
  <2>2. Last(g.stack).type = Last(r.stack).type
    BY <1>1, Zenon
  <2>3. ProcessTyped(r, s) = processAggregateItem(g, s)
    BY <1>4, <2>1, Zenon DEF ProcessTyped
  <2>4. ProcessTyped(g, s) = processAggregateItem(h, s)
    BY <1>4, <2>1, <2>2, Zenon DEF ProcessTyped
  <2> QED BY <1>2, <2>3, <2>4, Zenon
<1> HIDE DEF g, w
<1>5. CASE Last(r.stack).type \in Aggregates
  <2>1. w = g
    BY <1>3, <1>5, Zenon
  <2> QED BY <1>1, <1>4, <1>5, <2>1, Zenon DEF w
<1>6. CASE Last(r.stack).type \notin Aggregates
  <2>1. w = r
    BY <1>3, <1>6, Zenon
  <2> QED BY <2>1, Zenon DEF w
<1> QED BY <1>5, <1>6, Zenon

LEMMA WaitsAhead ==
  ASSUME NEW r, Reads(r), NEW q, Reads(q), NEW x, Ahead(q, r, x)
  PROVE  Ahead(Waits(q), Waits(r), x)
<1>1. Ahead(redisReaderGrow(q), redisReaderGrow(r), x)
  BY GrowAhead
<1>2. q.stack = r.stack
  BY Zenon DEF Ahead
<1>3. CASE Last(r.stack).type \in Aggregates
  BY <1>1, <1>2, <1>3, Zenon DEF Waits
<1>4. CASE Last(r.stack).type \notin Aggregates
  BY <1>2, <1>4, Zenon DEF Waits
<1> QED BY <1>3, <1>4, Zenon

LEMMA ItemResumed ==
  ASSUME NEW r, Reads(r), NEW q, Reads(q), NEW x \in Text, Ahead(q, r, x), r.err = "none",
         r.stack # <<>>, NEW p, p = processItem(r), ~p.ok, p.r.err = "none",
         NEW t, Reads(t), Ahead(t, p.r, x)
  PROVE  Alike(processItem(t), processItem(q))
<1> DEFINE b == ReadType(r)  d == ReadType(q)
<1>1. Begun(b, d, r, x)
  BY ReadBegun, Zenon
<1>2. q.err = "none" /\ q.stack # <<>>
  BY Zenon DEF Ahead
<1>3. Yields(d)
  <2>1. Ahead(q, q, <<>>) /\ <<>> \in Text
    BY AheadNone, Zenon
  <2>2. Begun(d, d, q, <<>>)
    BY <1>2, <2>1, ReadBegun, Zenon
  <2> QED BY <2>2, Zenon DEF Begun
<1>4. p = Typed(b) /\ processItem(q) = Typed(d)
  BY Zenon DEF processItem
<1> HIDE DEF b, d
<1>5. CASE ~b.ok
  <2>1. p = ERR(r)
    BY <1>1, <1>4, <1>5, Zenon DEF Typed, Begun
  <2>2. p.r = r
    BY <2>1 DEF ERR
  <2>3. SameReader(t, q)
    BY <2>2, Zenon DEF SameReader, Ahead
  <2> QED BY <1>2, <2>3, ItemAlike, Zenon
<1>6. CASE b.ok
  <2> DEFINE m == b.r  w == d.r
  <2>1. /\ d.ok /\ Ahead(w, m, x) /\ Reads(m) /\ m.err = "none" /\ m.stack # <<>>
        /\ Last(m.stack).type # "unknown"
    BY <1>1, <1>6, Zenon DEF Begun, Agrees, Yields
  <2>2. Reads(w) /\ w.err = "none" /\ w.stack = m.stack
    BY <1>3, <2>1, Zenon DEF Yields, Ahead
  <2>3. /\ p = ProcessTyped(m, seekNewline(Unread(m)))
        /\ processItem(q) = ProcessTyped(w, seekNewline(Unread(w)))
    BY <1>4, <1>6, <2>1, Zenon DEF Typed
  <2> HIDE DEF m, w
  <2>4. Ahead(t, Waits(m), x)
    <3> DEFINE k == ProcessTyped(w, seekNewline(Unread(w)))
    <3>1. Processed(ProcessTyped(m, seekNewline(Unread(m))), k, m, x, Waits(m))
      BY <2>1, <2>2, TypedProcessed
    <3> HIDE DEF k
    <3>2. p = ERR(Waits(m))
      BY <2>3, <3>1, Zenon DEF Processed
    <3>3. p.r = Waits(m)
      BY <3>2 DEF ERR
    <3> QED BY <3>3, Zenon
  <2>5. SameReader(t, Waits(w))
    <3>1. Ahead(Waits(w), Waits(m), x)
      BY <2>1, <2>2, WaitsAhead
    <3> QED BY <2>4, <3>1, Zenon DEF SameReader, Ahead
  <2>6. /\ Reads(Waits(w)) /\ Waits(w).err = "none" /\ Waits(w).stack = m.stack
        /\ Unread(Waits(w)) = Unread(w)
        /\ \A s : ProcessTyped(Waits(w), s) = ProcessTyped(w, s)
    BY <2>2, WaitsIs, Zenon
  <2>7. processItem(t) = ProcessTyped(t, seekNewline(Unread(t)))
    <3>1. t.stack = m.stack
      BY <2>5, <2>6, Zenon DEF SameReader
    <3>2. ReadType(t) = OK(t)
      <4>1. Last(t.stack).type # "unknown"
        BY <2>1, <3>1, Zenon
      <4> QED BY <4>1, ReadIs, Zenon
    <3>3. OK(t).ok = TRUE /\ OK(t).r = t
      BY DEF OK
    <3>4. processItem(t) = Typed(OK(t))
      BY <3>2, Zenon DEF processItem
    <3> QED BY <3>3, <3>4, Zenon DEF Typed
  <2> DEFINE v == Waits(w)  s == seekNewline(Unread(v))
  <2>8. Alike(ProcessTyped(t, seekNewline(Unread(t))), ProcessTyped(v, s))
    BY <2>1, <2>5, <2>6, TypedAlike, Zenon
  <2> QED BY <2>3, <2>6, <2>7, <2>8, Zenon
<1> QED BY <1>5, <1>6, Zenon

-----------------------------------------------------------------------------
(* Items in a row.                                                         *)
ItemsNext(f, i, r) == IF i = 0 THEN OK(r) ELSE NextItem(f[i - 1])
AreItems(f, n, r) == f = [i \in 0 .. n |-> ItemsNext(f, i, r)]

LEMMA ItemsExist == ASSUME NEW r, NEW n \in Nat PROVE \E f : AreItems(f, n, r)
<1> DEFINE S == {k \in Nat : \E f : AreItems(f, k, r)}
<1>1. 0 \in S
  <2> DEFINE none == [i \in 0 .. 0 |-> OK(r)]
  <2>1. none = [i \in 0 .. 0 |-> ItemsNext(none, i, r)]
    BY DEF ItemsNext
  <2> HIDE DEF none
  <2>2. AreItems(none, 0, r)
    BY <2>1, Zenon DEF AreItems
  <2> QED BY <2>2
<1>2. ASSUME NEW k \in Nat, k \in S PROVE k + 1 \in S
  <2>1. PICK f : AreItems(f, k, r)
    BY <1>2
  <2> DEFINE more == [i \in 0 .. k + 1 |-> IF i <= k THEN f[i] ELSE ItemsNext(f, k + 1, r)]
  <2>2. \A i \in 0 .. k : more[i] = f[i]
    OBVIOUS
  <2>3. more[k + 1] = ItemsNext(f, k + 1, r)
    OBVIOUS
  <2>4. more = [i \in 0 .. k + 1 |-> more[i]]
    OBVIOUS
  <2> HIDE DEF more
  <2>5. \A i \in 0 .. k : f[i] = ItemsNext(f, i, r)
    BY <2>1 DEF AreItems
  <2>6. \A i \in 0 .. k + 1 : more[i] = ItemsNext(more, i, r)
    BY <2>2, <2>3, <2>5 DEF ItemsNext
  <2>7. AreItems(more, k + 1, r)
    BY <2>4, <2>6, Zenon DEF AreItems
  <2> QED BY <2>7
<1>3. Nat \subseteq S
  <2> HIDE DEF S
  <2> QED BY <1>1, <1>2, Induction
<1> QED BY <1>3

(* What n items of r come to.                                              *)
Items(r, n) == (CHOOSE f : AreItems(f, n, r))[n]

LEMMA ItemsUnique ==
  ASSUME NEW r, NEW n \in Nat, NEW f, AreItems(f, n, r), NEW m \in Nat, NEW g, AreItems(g, m, r)
  PROVE  \A i \in 0 .. n : i \in 0 .. m => f[i] = g[i]
<1> DEFINE S == {k \in Nat : k <= n /\ k <= m => f[k] = g[k]}
<1>1. \A i \in 0 .. n : f[i] = ItemsNext(f, i, r)
  BY DEF AreItems
<1>2. \A i \in 0 .. m : g[i] = ItemsNext(g, i, r)
  BY DEF AreItems
<1>3. 0 \in S
  BY <1>1, <1>2 DEF ItemsNext
<1>4. ASSUME NEW k \in Nat, k \in S PROVE k + 1 \in S
  <2> SUFFICES ASSUME k + 1 <= n, k + 1 <= m PROVE f[k + 1] = g[k + 1]
    OBVIOUS
  <2>1. f[k] = g[k] /\ k + 1 \in 0 .. n /\ k + 1 \in 0 .. m /\ k + 1 # 0 /\ (k + 1) - 1 = k
    BY <1>4
  <2>2. f[k + 1] = NextItem(f[k]) /\ g[k + 1] = NextItem(g[k])
    BY <1>1, <1>2, <2>1 DEF ItemsNext
  <2> QED BY <2>1, <2>2, Zenon
<1>5. Nat \subseteq S
  <2> HIDE DEF S
  <2> QED BY <1>3, <1>4, Induction
<1> QED BY <1>5

LEMMA ItemsAre ==
  ASSUME NEW r
  PROVE  /\ Items(r, 0) = OK(r)
         /\ \A n \in Nat : Items(r, n + 1) = NextItem(Items(r, n))
         /\ ProcessItems(r) = Items(r, Len(Unread(r)) + 1).r
<1> DEFINE f(n) == CHOOSE f : AreItems(f, n, r)
<1>1. \A n \in Nat : AreItems(f(n), n, r)
  BY ItemsExist
<1>2. \A n : Items(r, n) = f(n)[n]
  BY DEF Items
<1>3. ProcessItems(r) = f(Len(Unread(r)) + 1)[Len(Unread(r)) + 1].r
  BY Zenon DEF ProcessItems, AreItems, ItemsNext
<1> HIDE DEF f
<1>4. Items(r, 0) = OK(r)
  <2>1. f(0) = [i \in 0 .. 0 |-> ItemsNext(f(0), i, r)]
    BY <1>1 DEF AreItems
  <2>2. f(0)[0] = ItemsNext(f(0), 0, r)
    BY <2>1
  <2> QED BY <1>2, <2>2 DEF ItemsNext
<1>5. ASSUME NEW n \in Nat PROVE Items(r, n + 1) = NextItem(Items(r, n))
  <2> DEFINE g == f(n)  h == f(n + 1)
  <2>1. AreItems(g, n, r) /\ AreItems(h, n + 1, r) /\ n + 1 \in Nat
    BY <1>1
  <2> HIDE DEF g, h
  <2>2. h = [i \in 0 .. n + 1 |-> ItemsNext(h, i, r)]
    BY <2>1 DEF AreItems
  <2>3. h[n + 1] = ItemsNext(h, n + 1, r)
    BY <2>2
  <2>4. h[n + 1] = NextItem(h[n])
    BY <2>3 DEF ItemsNext
  <2>5. n \in 0 .. n /\ n \in 0 .. n + 1
    OBVIOUS
  <2>6. h[n] = g[n]
    BY <2>1, <2>5, ItemsUnique
  <2> QED BY <1>2, <2>4, <2>6, Zenon DEF g, h
<1> QED BY <1>2, <1>3, <1>4, <1>5, Zenon

Halted(p) == ~(p.ok /\ p.r.stack # <<>>)

LEMMA HaltedStays ==
  ASSUME NEW r, NEW n \in Nat, Halted(Items(r, n)), NEW m \in Nat, n <= m
  PROVE  Items(r, m) = Items(r, n)
<1> DEFINE S == {k \in Nat : Items(r, n + k) = Items(r, n)}
<1>1. 0 \in S
  OBVIOUS
<1>2. ASSUME NEW k \in Nat, k \in S PROVE k + 1 \in S
  <2>1. Items(r, (n + k) + 1) = NextItem(Items(r, n + k))
    <3>1. n + k \in Nat
      OBVIOUS
    <3> QED BY <3>1, ItemsAre, Zenon
  <2>2. NextItem(Items(r, n)) = Items(r, n)
    BY Zenon DEF NextItem, Halted
  <2>3. n + (k + 1) = (n + k) + 1
    OBVIOUS
  <2>4. Items(r, n + (k + 1)) = Items(r, n)
    BY <1>2, <2>1, <2>2, <2>3
  <2> QED BY <2>4
<1>3. Nat \subseteq S
  <2> HIDE DEF S
  <2> QED BY <1>1, <1>2, Induction
<1>4. m - n \in Nat /\ n + (m - n) = m
  OBVIOUS
<1> QED BY <1>3, <1>4

(* n items of r, p, leave p proper, and took n bytes at least if there can *)
(* be more.                                                                *)
Advanced(p, n, r) ==
  /\ Proper(p)
  /\ ~Halted(p) => n + Len(Unread(p.r)) <= Len(Unread(r))
  /\ ~p.ok /\ p.r.err = "none" => p.r.stack # <<>>

LEMMA ItemsAdvance ==
  ASSUME NEW r, Reads(r), r.err = "none", NEW n \in Nat
  PROVE  Advanced(Items(r, n), n, r)
<1> DEFINE S == {k \in Nat : Advanced(Items(r, k), k, r)}
<1>1. 0 \in S
  <2>1. Items(r, 0) = OK(r)
    BY ItemsAre
  <2>2. OK(r).ok = TRUE /\ OK(r).r = r /\ OK(r) = [ok |-> OK(r).ok, r |-> OK(r).r]
    BY DEF OK
  <2>3. Proper(OK(r))
    BY <2>2, Zenon DEF Proper, Yields
  <2>4. 0 + Len(Unread(r)) <= Len(Unread(r))
    <3>1. Unread(r) \in Text
      BY UnreadIs
    <3>2. Len(Unread(r)) \in Nat
      BY <3>1, TextIs
    <3> QED BY <3>2
  <2>5. Advanced(OK(r), 0, r)
    BY <2>2, <2>3, <2>4, Zenon DEF Advanced
  <2> QED BY <2>1, <2>5
<1>2. ASSUME NEW k \in Nat, k \in S PROVE k + 1 \in S
  <2> DEFINE p == Items(r, k)  h == NextItem(p)
  <2>1. Items(r, k + 1) = h
    BY ItemsAre
  <2>2. Advanced(p, k, r)
    BY <1>2
  <2> HIDE DEF p
  <2>3. CASE Halted(p)
    <3>1. h = p
      BY <2>3, Zenon DEF NextItem, Halted
    <3>2. Advanced(h, k + 1, r)
      BY <2>2, <2>3, <3>1, Zenon DEF Advanced
    <3> QED BY <2>1, <3>2
  <2>4. CASE ~Halted(p)
    <3>1. h = processItem(p.r)
      BY <2>4, Zenon DEF NextItem, Halted
    <3>2. Reads(p.r) /\ p.r.err = "none" /\ p.r.stack # <<>>
      BY <2>2, <2>4, Zenon DEF Advanced, Halted, Proper, Yields
    <3> HIDE DEF h
    <3>3. /\ Proper(h)
          /\ h.ok => Len(Unread(h.r)) < Len(Unread(p.r))
          /\ ~h.ok /\ h.r.err = "none" => h.r.stack # <<>>
      BY <3>1, <3>2, ItemProper, Zenon
    <3>4. ASSUME ~Halted(h) PROVE (k + 1) + Len(Unread(h.r)) <= Len(Unread(r))
      <4>1. h.ok /\ Reads(h.r)
        BY <3>3, <3>4, Zenon DEF Halted, Proper, Yields
      <4>2. Unread(h.r) \in Text /\ Unread(p.r) \in Text /\ Unread(r) \in Text
        BY <3>2, <4>1, UnreadIs
      <4>3. Len(Unread(h.r)) \in Nat /\ Len(Unread(p.r)) \in Nat /\ Len(Unread(r)) \in Nat
        BY <4>2, TextIs
      <4>4. k + Len(Unread(p.r)) <= Len(Unread(r)) /\ Len(Unread(h.r)) < Len(Unread(p.r))
        BY <2>2, <2>4, <3>3, <4>1, Zenon DEF Advanced
      <4>5. \A a, b, d \in Nat : k + b <= d /\ a < b => (k + 1) + a <= d
        OBVIOUS
      <4> QED BY <4>3, <4>4, <4>5, Zenon
    <3>5. Advanced(h, k + 1, r)
      BY <3>3, <3>4, Zenon DEF Advanced
    <3> QED BY <2>1, <3>5
  <2> QED BY <2>3, <2>4, Zenon
<1>3. Nat \subseteq S
  <2> HIDE DEF S
  <2> QED BY <1>1, <1>2, Induction
<1> QED BY <1>3

(* There are no more items than bytes.                                     *)
LEMMA ItemsHalt ==
  ASSUME NEW r, Reads(r), r.err = "none", NEW n \in Nat, n >= Len(Unread(r)) + 1
  PROVE  /\ Len(Unread(r)) \in Nat
         /\ Halted(Items(r, n)) /\ Items(r, n).r = ProcessItems(r)
         /\ Items(r, n) = Items(r, Len(Unread(r)) + 1)
<1> DEFINE l == Len(Unread(r))  p == Items(r, l + 1)
<1>1. l \in Nat
  <2>1. Unread(r) \in Text
    BY UnreadIs
  <2> QED BY <2>1, TextIs
<1>2. Advanced(p, l + 1, r)
  BY <1>1, ItemsAdvance
<1>3. Halted(p)
  <2> SUFFICES ASSUME ~Halted(p) PROVE FALSE
    OBVIOUS
  <2> HIDE DEF p
  <2>1. (l + 1) + Len(Unread(p.r)) <= l /\ Reads(p.r)
    BY <1>2, Zenon DEF Advanced, Proper, Yields
  <2>2. Unread(p.r) \in Text
    BY <2>1, UnreadIs
  <2>3. Len(Unread(p.r)) \in Nat
    BY <2>2, TextIs
  <2> HIDE DEF l
  <2> QED BY <1>1, <2>1, <2>3
<1>4. Items(r, n) = p
  <2>1. l + 1 \in Nat /\ l + 1 <= n
    BY <1>1
  <2> QED BY <1>3, <2>1, HaltedStays
<1>5. ProcessItems(r) = p.r
  BY ItemsAre
<1> QED BY <1>1, <1>3, <1>4, <1>5, Zenon

LEMMA NextAlike ==
  ASSUME NEW a, NEW b, Proper(a), Proper(b), Alike(a, b)
  PROVE  Alike(NextItem(a), NextItem(b))
<1>1. a.ok = b.ok /\ a.r.stack = b.r.stack /\ SameReader(a.r, b.r)
  BY Zenon DEF Alike, SameReader
<1>2. CASE Halted(b)
  <2>1. NextItem(a) = a /\ NextItem(b) = b
    BY <1>1, <1>2, Zenon DEF NextItem, Halted
  <2> QED BY <2>1, Zenon
<1>3. CASE ~Halted(b)
  <2>1. NextItem(a) = processItem(a.r) /\ NextItem(b) = processItem(b.r)
    BY <1>1, <1>3, Zenon DEF NextItem, Halted
  <2>2. Reads(a.r) /\ Reads(b.r) /\ b.r.err = "none" /\ b.r.stack # <<>>
    BY <1>3, Zenon DEF Halted, Proper, Yields
  <2>3. Alike(processItem(a.r), processItem(b.r))
    BY <1>1, <2>2, ItemAlike, Zenon
  <2> QED BY <2>1, <2>3, Zenon
<1> QED BY <1>2, <1>3, Zenon

LEMMA ItemsAlike ==
  ASSUME NEW t, Reads(t), t.err = "none", NEW q, Reads(q), q.err = "none",
         NEW m \in Nat, NEW k \in Nat, Alike(Items(t, m), Items(q, k)), NEW j \in Nat
  PROVE  Alike(Items(t, m + j), Items(q, k + j))
<1> DEFINE S == {i \in Nat : Alike(Items(t, m + i), Items(q, k + i))}
<1>1. 0 \in S
  BY m + 0 = m, k + 0 = k
<1>2. ASSUME NEW i \in Nat, i \in S PROVE i + 1 \in S
  <2> DEFINE m1 == m + i  k1 == k + i
  <2>1. m1 \in Nat /\ k1 \in Nat /\ m + (i + 1) = m1 + 1 /\ k + (i + 1) = k1 + 1
    OBVIOUS
  <2>2. Alike(Items(t, m1), Items(q, k1))
    BY <1>2
  <2> HIDE DEF m1, k1
  <2>3. Proper(Items(t, m1)) /\ Proper(Items(q, k1))
    BY <2>1, ItemsAdvance, Zenon DEF Advanced
  <2>4. Items(t, m1 + 1) = NextItem(Items(t, m1)) /\ Items(q, k1 + 1) = NextItem(Items(q, k1))
    BY <2>1, ItemsAre, Zenon
  <2>5. Alike(Items(t, m1 + 1), Items(q, k1 + 1))
    BY <2>2, <2>3, <2>4, NextAlike, Zenon
  <2> QED BY <2>1, <2>5
<1>3. Nat \subseteq S
  <2> HIDE DEF S
  <2> QED BY <1>1, <1>2, Induction
<1> QED BY <1>3

(* What n items of r, p, have to do with the same for q.                   *)
Went(p, k, q, x) ==
  /\ p.ok => k.ok /\ Ahead(k.r, p.r, x)
  /\ ~p.ok /\ p.r.err # "none" => ~k.ok /\ SameReader(k.r, p.r)
  /\ ~p.ok /\ p.r.err = "none"
       => \E n \in Nat : \A t : Reads(t) /\ Ahead(t, p.r, x) => Alike(Items(t, 1), Items(q, n))

LEMMA ItemsGo ==
  ASSUME NEW r, Reads(r), NEW q, Reads(q), NEW x \in Text, Ahead(q, r, x), r.err = "none",
         NEW n \in Nat
  PROVE  Went(Items(r, n), Items(q, n), q, x)
<1> DEFINE S == {i \in Nat : Went(Items(r, i), Items(q, i), q, x)}
<1>0. q.err = "none"
  BY Zenon DEF Ahead
<1>1. 0 \in S
  <2>1. Items(r, 0) = OK(r) /\ Items(q, 0) = OK(q)
    BY ItemsAre, Zenon
  <2>2. OK(r).ok = TRUE /\ OK(r).r = r /\ OK(q).ok = TRUE /\ OK(q).r = q
    BY DEF OK
  <2>3. Went(OK(r), OK(q), q, x)
    BY <2>2, Zenon DEF Went
  <2> QED BY <2>1, <2>3
<1>2. ASSUME NEW i \in Nat, i \in S PROVE i + 1 \in S
  <2> DEFINE p == Items(r, i)  k == Items(q, i)  np == Items(r, i + 1)  nk == Items(q, i + 1)
  <2>1. np = NextItem(p) /\ nk = NextItem(k)
    BY ItemsAre, Zenon
  <2>2. Went(p, k, q, x)
    BY <1>2
  <2>3. Proper(p) /\ Proper(k)
    BY <1>0, ItemsAdvance, Zenon DEF Advanced
  <2>4. i + 1 \in Nat
    OBVIOUS
  <2> HIDE DEF p, k
  <2>5. ASSUME Halted(p) PROVE Went(np, nk, q, x)
    <3> HIDE DEF np, nk
    <3>1. np = p
      BY <2>1, <2>5, Zenon DEF NextItem, Halted
    <3>2. p.ok => nk = k
      <4>1. p.ok => k.r.stack = p.r.stack
        BY <2>2, Zenon DEF Went, Ahead
      <4> QED BY <2>1, <2>5, <4>1, Zenon DEF NextItem, Halted
    <3>3. ~p.ok /\ p.r.err # "none" => nk = k
      <4> SUFFICES ASSUME ~p.ok, p.r.err # "none" PROVE nk = k
        BY Zenon
      <4>1. ~k.ok
        BY <2>2, Zenon DEF Went
      <4> QED BY <2>1, <2>5, <4>1, Zenon DEF NextItem, Halted
    <3> QED BY <2>2, <3>1, <3>2, <3>3, Zenon DEF Went
  <2>6. ASSUME ~Halted(p) PROVE Went(np, nk, q, x)
    <3> DEFINE a == p.r  b == k.r
    <3>1. /\ p.ok /\ k.ok /\ Ahead(b, a, x) /\ Reads(a) /\ Reads(b)
          /\ a.err = "none" /\ a.stack # <<>> /\ b.stack # <<>>
      BY <2>2, <2>3, <2>6, Zenon DEF Halted, Went, Proper, Yields, Ahead
    <3>2. np = processItem(a) /\ nk = processItem(b)
      BY <2>1, <3>1, Zenon DEF NextItem
    <3> HIDE DEF a, b
    <3>3. Handled(processItem(a), processItem(b), a, x)
      BY <3>1, ItemHandled, Zenon
    <3>4. ASSUME ~np.ok, np.r.err = "none", NEW t, Reads(t), Ahead(t, np.r, x)
          PROVE  Alike(Items(t, 1), nk)
      <4> DEFINE w == processItem(a)
      <4>1. np = w
        BY <3>2, Zenon
      <4> HIDE DEF w
      <4>2. ~w.ok /\ w.r.err = "none" /\ Ahead(t, w.r, x)
        BY <3>4, <4>1, Zenon
      <4>3. w.r.stack # <<>>
        BY <3>3, <4>2, Zenon DEF w, Handled
      <4>4. Alike(processItem(t), processItem(b))
        BY <3>1, <3>4, <4>2, ItemResumed, Zenon DEF w
      <4>5. t.stack # <<>>
        BY <4>2, <4>3, Zenon DEF Ahead
      <4>6. Items(t, 0) = OK(t) /\ Items(t, 0 + 1) = NextItem(Items(t, 0))
        <5>1. 0 \in Nat
          OBVIOUS
        <5> QED BY <5>1, ItemsAre, Zenon
      <4>7. 0 + 1 = 1 /\ OK(t).ok = TRUE /\ OK(t).r = t
        BY DEF OK
      <4>8. Items(t, 1) = NextItem(OK(t))
        BY <4>6, <4>7, Zenon
      <4>9. Items(t, 1) = processItem(t)
        BY <4>5, <4>7, <4>8, Zenon DEF NextItem
      <4> QED BY <3>2, <4>4, <4>9, Zenon
    <3>5. np.ok => nk.ok /\ Ahead(nk.r, np.r, x)
      BY <3>2, <3>3, Zenon DEF Handled, Agrees
    <3>6. ~np.ok /\ np.r.err # "none" => ~nk.ok /\ SameReader(nk.r, np.r)
      BY <3>2, <3>3, Zenon DEF Handled, Agrees
    <3>7. ~np.ok /\ np.r.err = "none"
            => \E n1 \in Nat : \A t : Reads(t) /\ Ahead(t, np.r, x) => Alike(Items(t, 1), Items(q, n1))
      <4> HIDE DEF np
      <4> QED BY <2>4, <3>4, Zenon DEF nk
    <3> HIDE DEF np, nk
    <3> QED BY <3>5, <3>6, <3>7, Zenon DEF Went
  <2>7. Went(np, nk, q, x)
    BY <2>5, <2>6, Zenon
  <2> HIDE DEF np, nk
  <2>8. np = Items(r, i + 1) /\ nk = Items(q, i + 1)
    BY DEF np, nk
  <2> QED BY <2>4, <2>7, <2>8
<1>3. Nat \subseteq S
  <2> HIDE DEF S
  <2> QED BY <1>1, <1>2, Induction
<1> QED BY <1>3

(* Where the bytes are cut makes no difference to the items.               *)
LEMMA ProcessUnsplit ==
  ASSUME NEW r, Reads(r), NEW q, Reads(q), NEW x \in Text, Ahead(q, r, x), r.err = "none",
         NEW p, p = ProcessItems(r), NEW w, w = ProcessItems(q)
  PROVE  /\ Reads(p) /\ Reads(w)
         /\ p.err # "none" => SameReader(w, p)
         /\ p.err = "none" /\ p.stack = <<>> => Ahead(w, p, x)
         /\ p.err = "none" /\ p.stack # <<>>
              => \A t : Reads(t) /\ Ahead(t, p, x) => SameReader(ProcessItems(t), w)
<1> DEFINE n == Len(Unread(r)) + 1  m == Len(Unread(q)) + 1
           a == Items(r, n)  b == Items(q, n)  d == Items(q, m)
<1>1. q.err = "none"
  BY Zenon DEF Ahead
<1>2. n \in Nat /\ m \in Nat /\ n <= m
  <2>1. Unread(r) \in Text /\ Unread(q) = Unread(r) \o x
    BY UnreadIs DEF Ahead
  <2>2. Len(Unread(r)) \in Nat /\ Len(x) \in Nat /\ Len(Unread(q)) = Len(Unread(r)) + Len(x)
    BY <2>1, Joins, TextIs
  <2> QED BY <2>2
<1>3. a.r = p /\ Halted(a)
  <2>1. n \in Nat /\ n >= Len(Unread(r)) + 1
    BY <1>2
  <2> QED BY <2>1, ItemsHalt
<1>4. d.r = w /\ Halted(d)
  <2>1. m \in Nat /\ m >= Len(Unread(q)) + 1
    BY <1>2
  <2> QED BY <1>1, <2>1, ItemsHalt
<1>5. Halted(b) => d = b
  BY <1>2, HaltedStays
<1>6. Went(a, b, q, x)
  BY <1>2, ItemsGo
<1>7. Advanced(a, n, r) /\ Advanced(d, m, q)
  BY <1>1, <1>2, ItemsAdvance
<1> HIDE DEF n, m, a, b, d
<1>8. Reads(p) /\ Reads(w)
  BY <1>3, <1>4, <1>7, Zenon DEF Advanced, Proper, Yields
<1>9. ASSUME p.err # "none" PROVE SameReader(w, p)
  <2>1. ~a.ok /\ a.r.err # "none"
    BY <1>3, <1>7, <1>9, Zenon DEF Advanced, Proper
  <2>2. ~b.ok /\ SameReader(b.r, a.r)
    BY <1>6, <2>1, Zenon DEF Went
  <2>3. d = b
    BY <1>5, <2>2, Zenon DEF Halted
  <2> QED BY <1>3, <1>4, <2>2, <2>3, Zenon
<1>10. ASSUME p.err = "none", p.stack = <<>> PROVE Ahead(w, p, x)
  <2>1. a.ok
    BY <1>3, <1>7, <1>10, Zenon DEF Advanced
  <2>2. Ahead(b.r, p, x)
    BY <1>3, <1>6, <2>1, Zenon DEF Went
  <2>3. Halted(b)
    BY <1>10, <2>2, Zenon DEF Halted, Ahead
  <2> QED BY <1>4, <1>5, <2>2, <2>3, Zenon
<1>11. ASSUME p.err = "none", p.stack # <<>>, NEW t, Reads(t), Ahead(t, p, x)
       PROVE  SameReader(ProcessItems(t), w)
  <2>1. ~a.ok /\ a.r.err = "none"
    BY <1>3, <1>11, Zenon DEF Halted
  <2>2. PICK k \in Nat : \A t1 : Reads(t1) /\ Ahead(t1, p, x) => Alike(Items(t1, 1), Items(q, k))
    BY <1>3, <1>6, <2>1, Zenon DEF Went
  <2>3. Alike(Items(t, 1), Items(q, k))
    BY <1>11, <2>2, Zenon
  <2>4. t.err = "none"
    BY <1>11, Zenon DEF Ahead
  <2> DEFINE l == Len(Unread(t)) + 1  j == l + m
  <2>5. l \in Nat
    <3>1. Unread(t) \in Text
      BY <1>11, UnreadIs
    <3>2. Len(Unread(t)) \in Nat
      BY <3>1, TextIs
    <3> QED BY <3>2
  <2>6. j \in Nat /\ 1 + j \in Nat /\ k + j \in Nat /\ 1 + j >= l /\ k + j >= m /\ 1 \in Nat
    <3> HIDE DEF l
    <3> QED BY <1>2, <2>5
  <2>7. Items(t, 1 + j).r = ProcessItems(t)
    BY <1>11, <2>4, <2>6, ItemsHalt
  <2>8. Items(q, k + j).r = w
    <3>1. k + j >= Len(Unread(q)) + 1
      BY <2>6 DEF m
    <3>2. Items(q, k + j) = Items(q, Len(Unread(q)) + 1)
      BY <1>1, <2>6, <3>1, ItemsHalt
    <3> QED BY <1>4, <3>2, Zenon DEF d, m
  <2> HIDE DEF j
  <2>9. Alike(Items(t, 1 + j), Items(q, k + j))
    BY <1>1, <1>11, <2>3, <2>4, <2>6, ItemsAlike, Zenon
  <2> QED BY <2>7, <2>8, <2>9, Zenon DEF Alike
<1> QED BY <1>8, <1>9, <1>10, <1>11, Zenon

-----------------------------------------------------------------------------
(* Feeding a reader, and asking it for a reply.                            *)
LEMMA BufParts ==
  ASSUME NEW r, Reads(r), NEW b
  PROVE  [r EXCEPT !.buf = b] = Parts(b, r.pos, r.err, r.stack, r.tasks, r.reply)
BY DEF Reads, Parts

LEMMA PartsRead ==
  ASSUME NEW r, NEW b, NEW p, NEW e, NEW s, NEW t, NEW y, r = Parts(b, p, e, s, t, y),
         Sound(b, Bytes), p \in 0 .. Len(b.data), s \in Seq(Task), t \in Nat \ {0}, Len(s) <= t
  PROVE  /\ Reads(r) /\ r.buf = b /\ r.pos = p /\ r.err = e /\ r.stack = s /\ r.tasks = t
         /\ r.reply = y
<1>1. /\ r.buf = b /\ r.pos = p /\ r.err = e /\ r.stack = s /\ r.tasks = t /\ r.reply = y
  BY DEF Parts
<1>2. r = [buf |-> r.buf, pos |-> r.pos, err |-> r.err, stack |-> r.stack,
           tasks |-> r.tasks, reply |-> r.reply]
  BY <1>1, Zenon DEF Parts
<1>3. Reads(r)
  BY <1>1, <1>2, Zenon DEF Reads
<1> QED BY <1>1, <1>3, Zenon

LEMMA FeedIs ==
  ASSUME NEW r, Reads(r), NEW x \in Text, NEW f, f = redisReaderFeed(r, x)
  PROVE  /\ Reads(f)
         /\ r.err = "none" => Ahead(f, r, x) /\ f.buf.data = r.buf.data \o x
         /\ r.err # "none" => f = r
<1> DEFINE b == IF r.buf.data = <<>> /\ sdsavail(r.buf) > MaxBuf THEN sdsempty ELSE r.buf
           m == sdscatlen(b, x)  d == r.buf.data
<1>1. Sound(r.buf, Bytes) /\ r.pos \in 0 .. Len(d) /\ d \in Text /\ x \in Seq(Bytes)
  BY Zenon DEF Reads, Sound, Text
<1>2. Sound(b, Bytes) /\ b.data = d
  BY <1>1, EmptyIs, Zenon
<1>3. Sound(m, Bytes) /\ m.data = d \o x
  <2> HIDE DEF b
  <2>1. Sound(m, Bytes) /\ m.data = b.data \o x
    BY <1>1, <1>2, CatLenExact
  <2> QED BY <1>2, <2>1, Zenon
<1>4. f = IF r.err # "none" THEN r ELSE [r EXCEPT !.buf = m]
  BY Zenon DEF redisReaderFeed
<1> HIDE DEF b, m
<1>5. CASE r.err # "none"
  BY <1>4, <1>5, Zenon
<1>6. CASE r.err = "none"
  <2> DEFINE p == r.pos  s == r.stack  t == r.tasks
  <2>1. f = Parts(m, p, r.err, s, t, r.reply)
    BY <1>4, <1>6, BufParts, Zenon
  <2>2. s \in Seq(Task) /\ t \in Nat \ {0} /\ Len(s) <= t
    BY Zenon DEF Reads
  <2> HIDE DEF d
  <2>3. p \in 0 .. Len(m.data)
    <3>1. Len(d \o x) = Len(d) + Len(x)
      BY <1>1, Joins
    <3>2. Len(d) \in Nat /\ Len(x) \in Nat
      BY <1>1, TextIs
    <3> QED BY <1>1, <1>3, <3>1, <3>2
  <2>4. /\ Reads(f) /\ f.buf = m /\ f.pos = p /\ f.err = r.err /\ f.stack = s /\ f.tasks = t
        /\ f.reply = r.reply
    BY <1>3, <2>1, <2>2, <2>3, PartsRead
  <2>5. Unread(f) = Rest(d \o x, p) /\ Unread(r) = Rest(d, p)
    BY <1>3, <2>4, UnreadIs DEF d
  <2>6. Rest(d \o x, p) = Rest(d, p) \o x
    BY <1>1, RestOf
  <2>7. Ahead(f, r, x)
    BY <2>4, <2>5, <2>6, Zenon DEF Ahead
  <2> QED BY <1>3, <1>6, <2>4, <2>7, Zenon DEF d
<1> QED BY <1>5, <1>6, Zenon

LEMMA CutIs ==
  ASSUME NEW r, Reads(r)
  PROVE  Reads(Cut(r)) /\ SameReader(Cut(r), r)
<1> DEFINE b == DropFirst(r.buf, r.pos)  d == r.buf.data  p == r.pos
<1>1. Sound(r.buf, Bytes) /\ p \in 0 .. Len(d) /\ d \in Text
  BY Zenon DEF Reads, Sound, Text
<1>2. Len(d) \in Nat /\ p \in Nat
  BY <1>1, TextIs
<1>3. Sound(b, Bytes) /\ b.data = IF p >= Len(d) THEN <<>> ELSE Rest(d, p)
  BY <1>1, <1>2, DropFirstExact DEF Rest
<1> HIDE DEF b, d, p
<1>4. b.data = Rest(d, p)
  <2>1. p >= Len(d) => p = Len(d)
    BY <1>1, <1>2
  <2>2. Rest(d, Len(d)) = <<>>
    BY <1>1, <1>2 DEF Rest, Text
  <2> QED BY <1>3, <2>1, <2>2, Zenon
<1>5. CASE p >= Discard
  <2> DEFINE c1 == [r EXCEPT !.buf = b, !.pos = 0]
  <2>1. Cut(r) = c1
    BY <1>5, Zenon DEF Cut, b, p
  <2>2. c1 = Parts(b, 0, r.err, r.stack, r.tasks, r.reply)
    <3> DEFINE c0 == [r EXCEPT !.buf = b]
    <3>1. c0 = Parts(b, r.pos, r.err, r.stack, r.tasks, r.reply)
      BY BufParts, Zenon
    <3> HIDE DEF c0
    <3>2. [c0 EXCEPT !.pos = 0] = Parts(b, 0, r.err, r.stack, r.tasks, r.reply)
      BY <3>1 DEF Parts
    <3> QED BY <3>2 DEF c0
  <2>3. r.stack \in Seq(Task) /\ r.tasks \in Nat \ {0} /\ Len(r.stack) <= r.tasks
    BY Zenon DEF Reads
  <2>4. Rest(d, p) \in Text /\ Len(Rest(d, p)) \in Nat
    <3>1. Rest(d, p) \in Text
      BY <1>1, RestTyped
    <3> QED BY <3>1, TextIs
  <2>5. 0 \in 0 .. Len(b.data)
    BY <1>4, <2>4
  <2> HIDE DEF c1
  <2>6. /\ Reads(c1) /\ c1.buf = b /\ c1.pos = 0 /\ c1.err = r.err /\ c1.stack = r.stack
        /\ c1.tasks = r.tasks /\ c1.reply = r.reply
    BY <1>3, <2>2, <2>3, <2>5, PartsRead
  <2>7. Unread(c1) = Rest(Rest(d, p), 0) /\ Unread(r) = Rest(d, p)
    BY <1>4, <2>6, UnreadIs DEF d, p
  <2>8. Rest(Rest(d, p), 0) = Rest(d, p)
    BY <2>4 DEF Rest, Text
  <2> QED BY <2>1, <2>6, <2>7, <2>8, Zenon DEF SameReader
<1>6. CASE ~(p >= Discard)
  <2>1. Cut(r) = r
    BY <1>6, Zenon DEF Cut, p
  <2> QED BY <2>1, Zenon DEF SameReader
<1> QED BY <1>5, <1>6, Zenon

LEMMA EmitIs ==
  ASSUME NEW r, Reads(r), NEW e, e = Emit(r)
  PROVE  /\ Reads(e.r) /\ e.r.stack = r.stack /\ e.r.err = r.err
         /\ Unread(e.r) = Unread(r) /\ e.ok = (r.err = "none")
         /\ e.r.reply = (IF r.stack = <<>> THEN NoReply ELSE r.reply)
         /\ e.reply = (IF r.stack = <<>> THEN r.reply ELSE NoReply)
<1> DEFINE d == [r EXCEPT !.reply = NoReply]
<1>1. /\ e.ok = (r.err = "none") /\ e.reply = (IF r.stack = <<>> THEN r.reply ELSE NoReply)
      /\ e.r = IF r.stack = <<>> THEN d ELSE r
  BY Zenon DEF Emit
<1>2. d = Parts(r.buf, r.pos, r.err, r.stack, r.tasks, NoReply)
  BY DEF Reads, Parts
<1>3. /\ Sound(r.buf, Bytes) /\ r.pos \in 0 .. Len(r.buf.data)
      /\ r.stack \in Seq(Task) /\ r.tasks \in Nat \ {0} /\ Len(r.stack) <= r.tasks
  BY Zenon DEF Reads
<1> HIDE DEF d
<1>4. /\ Reads(d) /\ d.buf = r.buf /\ d.pos = r.pos /\ d.err = r.err /\ d.stack = r.stack
      /\ d.tasks = r.tasks /\ d.reply = NoReply
  <2> DEFINE n == NoReply
  <2> HIDE DEF n
  <2>1. d = Parts(r.buf, r.pos, r.err, r.stack, r.tasks, n)
    BY <1>2, Zenon DEF n
  <2>2. /\ Reads(d) /\ d.buf = r.buf /\ d.pos = r.pos /\ d.err = r.err /\ d.stack = r.stack
        /\ d.tasks = r.tasks /\ d.reply = n
    BY <1>3, <2>1, PartsRead
  <2> QED BY <2>2, Zenon DEF n
<1>5. Unread(d) = Unread(r)
  BY <1>4, Zenon DEF Unread
<1> QED BY <1>1, <1>4, <1>5, Zenon

(* A reader that has started on a reply.                                   *)
Started(r) == IF r.stack # <<>> THEN r ELSE [r EXCEPT !.stack = <<[EmptyTask EXCEPT !.idx = -1]>>]

LEMMA StartedIs ==
  ASSUME NEW r, Reads(r), NEW s, s = Started(r)
  PROVE  /\ Reads(s) /\ s.buf = r.buf /\ s.pos = r.pos /\ s.err = r.err
         /\ s.reply = r.reply /\ Unread(s) = Unread(r) /\ s.stack # <<>>
         /\ s.stack = IF r.stack # <<>> THEN r.stack ELSE <<[EmptyTask EXCEPT !.idx = -1]>>
<1> DEFINE top == [EmptyTask EXCEPT !.idx = -1]  st == <<top>>
<1>1. top \in Task
  BY EmptyTaskTyped
<1> HIDE DEF top
<1>2. st \in Seq(Task) /\ Len(st) = 1 /\ st # <<>>
  BY <1>1
<1> HIDE DEF st
<1>3. s = IF r.stack # <<>> THEN r ELSE [r EXCEPT !.stack = st]
  BY Zenon DEF Started, st, top
<1>4. CASE r.stack # <<>>
  <2>1. s = r
    BY <1>3, <1>4, Zenon
  <2> QED BY <1>4, <2>1, Zenon
<1>5. CASE r.stack = <<>>
  <2>1. s = Parts(r.buf, r.pos, r.err, st, r.tasks, r.reply)
    <3>1. s = [r EXCEPT !.stack = st]
      BY <1>3, <1>5, Zenon
    <3> QED BY <3>1 DEF Reads, Parts
  <2>2. /\ Sound(r.buf, Bytes) /\ r.pos \in 0 .. Len(r.buf.data) /\ r.tasks \in Nat \ {0}
    BY Zenon DEF Reads
  <2>3. Len(st) <= r.tasks
    BY <1>2, <2>2
  <2>4. /\ Reads(s) /\ s.buf = r.buf /\ s.pos = r.pos /\ s.err = r.err /\ s.stack = st
        /\ s.tasks = r.tasks /\ s.reply = r.reply
    <3> DEFINE b == r.buf  p == r.pos  e == r.err  t == r.tasks  y == r.reply
    <3>1. s = Parts(b, p, e, st, t, y) /\ Sound(b, Bytes) /\ p \in 0 .. Len(b.data)
      BY <2>1, <2>2, Zenon
    <3>2. st \in Seq(Task) /\ t \in Nat \ {0} /\ Len(st) <= t
      BY <1>2, <2>2, <2>3, Zenon
    <3> HIDE DEF b, p, e, t, y
    <3>3. /\ Reads(s) /\ s.buf = b /\ s.pos = p /\ s.err = e /\ s.stack = st
          /\ s.tasks = t /\ s.reply = y
      BY <3>1, <3>2, PartsRead
    <3> QED BY <3>3, Zenon DEF b, p, e, t, y
  <2>5. Unread(s) = Unread(r)
    BY <2>4, Zenon DEF Unread
  <2> QED BY <1>2, <1>5, <2>4, <2>5, Zenon DEF st, top
<1> QED BY <1>4, <1>5, Zenon

LEMMA GetReplyIs ==
  ASSUME NEW r
  PROVE  /\ r.err # "none" \/ r.buf.data = <<>>
              => redisReaderGetReply(r) = [ok |-> r.err = "none", r |-> r, reply |-> NoReply]
         /\ r.err = "none" /\ r.buf.data # <<>>
              => redisReaderGetReply(r) = Emit(Cut(ProcessItems(Started(r))))
BY Zenon DEF redisReaderGetReply, Started

(* A reader that has been fed, and asked, stays sound.                     *)
LEMMA GetReplyReads ==
  ASSUME NEW r, Reads(r)
  PROVE  Reads(redisReaderGetReply(r).r)
<1>1. CASE r.err # "none" \/ r.buf.data = <<>>
  <2>1. redisReaderGetReply(r) = [ok |-> r.err = "none", r |-> r, reply |-> NoReply]
    BY <1>1, GetReplyIs, Zenon
  <2>2. redisReaderGetReply(r).r = r
    BY <2>1
  <2> QED BY <2>2, Zenon
<1>2. CASE r.err = "none" /\ r.buf.data # <<>>
  <2> DEFINE s == Started(r)  p == ProcessItems(s)
  <2>1. redisReaderGetReply(r) = Emit(Cut(p))
    BY <1>2, GetReplyIs, Zenon
  <2>2. Reads(s) /\ s.err = "none"
    BY <1>2, StartedIs
  <2> HIDE DEF s
  <2>3. Ahead(s, s, <<>>) /\ <<>> \in Text
    BY <2>2, AheadNone, Zenon
  <2>4. Reads(p)
    BY <2>2, <2>3, ProcessUnsplit
  <2> HIDE DEF p
  <2>5. Reads(Cut(p))
    BY <2>4, CutIs
  <2>6. Reads(Emit(Cut(p)).r)
    BY <2>5, EmitIs
  <2> QED BY <2>1, <2>6, Zenon
<1> QED BY <1>1, <1>2, Zenon

(* The reply a reader hands out, and the reader it leaves, are the same    *)
(* whatever pieces the bytes came in: g is what asking r gives, and w what *)
(* it would have been with the bytes x as well.  An error is the same      *)
(* error; a reply is the same reply, and leaves x to be read; and a reader *)
(* that has none yet gives, fed x, what it would have given then.  So an   *)
(* item whose bytes are not all there changes nothing that the next try    *)
(* does not make up for (read.c:225, 405, 572, 723, 761).                  *)
THEOREM RepliesUnsplit ==
  ASSUME NEW r, Reads(r), r.err = "none", NEW x \in Text, x # <<>>,
         NEW g, g = redisReaderGetReply(r),
         NEW w, w = redisReaderGetReply(redisReaderFeed(r, x)),
         NEW t, t = redisReaderGetReply(redisReaderFeed(g.r, x))
  PROVE  /\ ~g.ok => ~w.ok /\ w.reply = g.reply /\ SameReader(w.r, g.r)
         /\ g.ok /\ r.buf.data # <<>> /\ g.r.stack = <<>>
              => w.ok /\ w.reply = g.reply /\ Ahead(w.r, g.r, x)
         /\ g.ok /\ (r.buf.data = <<>> \/ g.r.stack # <<>>)
              => t.ok = w.ok /\ t.reply = w.reply /\ SameReader(t.r, w.r)
<1> DEFINE f == redisReaderFeed(r, x)
<1>0. \A d \in Text : d \o x # <<>>
  BY DEF Text
<1>1. Reads(f) /\ Ahead(f, r, x) /\ f.buf.data # <<>>
  <2>1. Reads(f) /\ Ahead(f, r, x) /\ f.buf.data = r.buf.data \o x
    BY FeedIs
  <2>2. r.buf.data \in Text
    BY UnreadIs
  <2> QED BY <1>0, <2>1, <2>2, Zenon
<1>2. CASE r.buf.data = <<>>
  <2>1. g = [ok |-> r.err = "none", r |-> r, reply |-> NoReply]
    BY <1>2, GetReplyIs, Zenon
  <2>2. g.ok /\ g.r = r
    <3> DEFINE b == r.err = "none"  n == NoReply
    <3> HIDE DEF b, n
    <3>1. g = [ok |-> b, r |-> r, reply |-> n]
      BY <2>1, Zenon DEF b, n
    <3>2. g.ok = b /\ g.r = r
      BY <3>1
    <3> QED BY <3>2, Zenon DEF b
  <2>3. t = w
    BY <2>2, Zenon
  <2> QED BY <1>2, <2>2, <2>3, Zenon DEF SameReader
<1>3. CASE r.buf.data # <<>>
  <2> DEFINE s == Started(r)  q == Started(f)  p == ProcessItems(s)  v == ProcessItems(q)
  <2>1. /\ Reads(s) /\ s.err = r.err /\ s.reply = r.reply
        /\ Unread(s) = Unread(r) /\ s.stack # <<>>
        /\ s.stack = IF r.stack # <<>> THEN r.stack ELSE <<[EmptyTask EXCEPT !.idx = -1]>>
    BY StartedIs
  <2>2. /\ Reads(q) /\ q.err = f.err /\ q.reply = f.reply
        /\ Unread(q) = Unread(f)
        /\ q.stack = IF f.stack # <<>> THEN f.stack ELSE <<[EmptyTask EXCEPT !.idx = -1]>>
    BY <1>1, StartedIs
  <2>3. g = Emit(Cut(p)) /\ w = Emit(Cut(v))
    <3>1. f.err = "none"
      BY <1>1, Zenon DEF Ahead
    <3> QED BY <1>1, <1>3, <3>1, GetReplyIs, Zenon
  <2> HIDE DEF s, q
  <2>4. Ahead(q, s, x)
    <3> DEFINE one == <<[EmptyTask EXCEPT !.idx = -1]>>
    <3> HIDE DEF one
    <3>1. f.stack = r.stack
      BY <1>1, Zenon DEF Ahead
    <3>2. q.stack = s.stack
      BY <2>1, <2>2, <3>1, Zenon
    <3> QED BY <1>1, <2>1, <2>2, <3>2, Zenon DEF Ahead
  <2>5. /\ Reads(p) /\ Reads(v)
        /\ p.err # "none" => SameReader(v, p)
        /\ p.err = "none" /\ p.stack = <<>> => Ahead(v, p, x)
        /\ p.err = "none" /\ p.stack # <<>>
             => \A t1 : Reads(t1) /\ Ahead(t1, p, x) => SameReader(ProcessItems(t1), v)
    <3>1. s.err = "none" /\ p = ProcessItems(s) /\ v = ProcessItems(q)
      BY <2>1, Zenon
    <3> HIDE DEF p, v
    <3> QED BY <2>1, <2>2, <2>4, <3>1, ProcessUnsplit
  <2> DEFINE cp == Cut(p)  cv == Cut(v)
  <2>6. Reads(cp) /\ Reads(cv) /\ SameReader(cp, p) /\ SameReader(cv, v)
    BY <2>5, CutIs
  <2> HIDE DEF p, v, cp, cv
  <2>7. /\ Reads(g.r) /\ g.r.stack = cp.stack /\ g.r.err = cp.err
        /\ Unread(g.r) = Unread(cp) /\ g.ok = (cp.err = "none")
        /\ g.r.reply = (IF cp.stack = <<>> THEN NoReply ELSE cp.reply)
        /\ g.reply = (IF cp.stack = <<>> THEN cp.reply ELSE NoReply)
    <3>1. g = Emit(cp)
      BY <2>3, Zenon DEF cp
    <3> QED BY <2>6, <3>1, EmitIs
  <2>8. /\ w.r.stack = cv.stack /\ w.r.err = cv.err
        /\ Unread(w.r) = Unread(cv) /\ w.ok = (cv.err = "none")
        /\ w.r.reply = (IF cv.stack = <<>> THEN NoReply ELSE cv.reply)
        /\ w.reply = (IF cv.stack = <<>> THEN cv.reply ELSE NoReply)
    <3>1. w = Emit(cv)
      BY <2>3, Zenon DEF cv
    <3> QED BY <2>6, <3>1, EmitIs
  <2>9. ASSUME ~g.ok PROVE ~w.ok /\ w.reply = g.reply /\ SameReader(w.r, g.r)
    <3>1. p.err # "none"
      BY <2>6, <2>7, <2>9, Zenon DEF SameReader
    <3>2. SameReader(cv, cp)
      BY <2>5, <2>6, <3>1, Zenon DEF SameReader
    <3>3. ~w.ok /\ w.reply = g.reply /\ w.r.reply = g.r.reply
      BY <2>7, <2>8, <2>9, <3>2, Zenon DEF SameReader
    <3> QED BY <2>7, <2>8, <3>2, <3>3, Zenon DEF SameReader
  <2>10. ASSUME g.ok, g.r.stack = <<>>
         PROVE  w.ok /\ w.reply = g.reply /\ Ahead(w.r, g.r, x)
    <3>1. cp.err = "none" /\ cp.stack = <<>>
      BY <2>7, <2>10, Zenon
    <3>2. Ahead(v, p, x)
      BY <2>5, <2>6, <3>1, Zenon DEF SameReader
    <3>3. Ahead(cv, cp, x)
      BY <2>6, <3>2, Zenon DEF Ahead, SameReader
    <3>4. cv.err = "none" /\ cv.stack = <<>> /\ cv.reply = cp.reply
      BY <3>1, <3>3, Zenon DEF Ahead
    <3>5. w.ok /\ w.reply = g.reply /\ w.r.reply = g.r.reply
      BY <2>7, <2>8, <3>1, <3>4, Zenon
    <3>6. Ahead(w.r, g.r, x)
      BY <2>7, <2>8, <3>3, <3>5, Zenon DEF Ahead
    <3> QED BY <3>5, <3>6, Zenon
  <2>11. ASSUME g.ok, g.r.stack # <<>>
         PROVE  t.ok = w.ok /\ t.reply = w.reply /\ SameReader(t.r, w.r)
    <3> DEFINE h == redisReaderFeed(g.r, x)  z == ProcessItems(h)  cz == Cut(z)
    <3>1. cp.err = "none" /\ cp.stack # <<>> /\ g.r.reply = cp.reply /\ g.r.err = "none"
      BY <2>7, <2>11, Zenon
    <3>2. Reads(h) /\ Ahead(h, g.r, x) /\ h.buf.data # <<>>
      <4> DEFINE gr == g.r  fed == redisReaderFeed(gr, x)
      <4>1. Reads(gr) /\ gr.err = "none"
        BY <2>7, <3>1, Zenon
      <4> HIDE DEF gr
      <4>2. Reads(fed) /\ Ahead(fed, gr, x) /\ fed.buf.data = gr.buf.data \o x
        BY <4>1, FeedIs
      <4>3. gr.buf.data \in Text
        BY <4>1, UnreadIs
      <4> HIDE DEF fed
      <4>4. fed.buf.data # <<>>
        BY <1>0, <4>2, <4>3, Zenon
      <4> QED BY <4>2, <4>4, Zenon DEF h, fed, gr
    <3>3. t = Emit(Cut(ProcessItems(Started(h))))
      <4>1. h.err = "none"
        BY <3>1, <3>2, Zenon DEF Ahead
      <4> QED BY <3>2, <4>1, GetReplyIs, Zenon
    <3> HIDE DEF h
    <3>4. Ahead(h, p, x) /\ h.stack # <<>>
      BY <2>6, <2>7, <3>1, <3>2, Zenon DEF Ahead, SameReader
    <3>5. Started(h) = h
      BY <3>4, Zenon DEF Started
    <3>6. SameReader(z, v)
      <4>1. p.err = "none" /\ p.stack # <<>>
        BY <2>6, <3>1, Zenon DEF SameReader
      <4> QED BY <2>5, <3>2, <3>4, <4>1, Zenon
    <3>7. Reads(z)
      <4>1. Ahead(h, h, <<>>) /\ <<>> \in Text /\ h.err = "none"
        BY <3>1, <3>2, AheadNone, Zenon DEF Ahead
      <4> QED BY <3>2, <4>1, ProcessUnsplit
    <3>8. t = Emit(cz)
      BY <3>3, <3>5, Zenon
    <3> HIDE DEF z
    <3>9. Reads(cz) /\ SameReader(cz, z)
      BY <3>7, CutIs
    <3> HIDE DEF cz
    <3>10. SameReader(cz, cv)
      BY <2>6, <3>6, <3>9, Zenon DEF SameReader
    <3>11. /\ t.r.stack = cz.stack /\ t.r.err = cz.err
           /\ Unread(t.r) = Unread(cz) /\ t.ok = (cz.err = "none")
           /\ t.r.reply = (IF cz.stack = <<>> THEN NoReply ELSE cz.reply)
           /\ t.reply = (IF cz.stack = <<>> THEN cz.reply ELSE NoReply)
      BY <3>8, <3>9, EmitIs
    <3>12. cz.stack = cv.stack /\ cz.reply = cv.reply /\ cz.err = cv.err
      BY <3>10, Zenon DEF SameReader
    <3>13. t.ok = w.ok /\ t.reply = w.reply /\ t.r.reply = w.r.reply
      BY <2>8, <3>11, <3>12, Zenon
    <3>14. SameReader(t.r, w.r)
      BY <2>8, <3>10, <3>11, <3>13, Zenon DEF SameReader
    <3> QED BY <3>13, <3>14, Zenon
  <2> QED BY <1>3, <2>9, <2>10, <2>11, Zenon
<1> QED BY <1>2, <1>3, Zenon

-----------------------------------------------------------------------------
(* The context's reader.                                                   *)
ReadInv == Reads(c.reader) /\ \A fd \in Fds : net[fd].down \in Text

LEMMA ReadIsOK == ReadInv => ReaderOK(c.reader)
<1> SUFFICES ASSUME ReadInv PROVE ReaderOK(c.reader)
  OBVIOUS
<1> DEFINE r == c.reader
<1>1. Reads(r)
  BY DEF ReadInv
<1> HIDE DEF r
<1>2. Sound(r.buf, Bytes) /\ r.pos \in 0 .. Len(r.buf.data) /\ Len(r.stack) <= r.tasks
  BY <1>1, Zenon DEF Reads
<1>3. SdsOK(r.buf)
  <2> DEFINE s == r.buf
  <2>1. Sound(s, Bytes)
    BY <1>2, Zenon
  <2> HIDE DEF s
  <2>2. SdsOK(s)
    BY <2>1, LimitsGrow DEF Sound, SdsOK
  <2> QED BY <2>2, Zenon DEF s
<1>4. ReaderOK(r)
  BY <1>2, <1>3, Zenon DEF ReaderOK
<1> QED BY <1>4, Zenon DEF r

LEMMA CreateReads == Reads(redisReaderCreate)
<1> DEFINE k == StackSize  s == <<>>
<1>1. k \in Nat \ {0}
  BY ReaderAssumption
<1>2. s \in Seq(Task) /\ Len(s) = 0
  OBVIOUS
<1>3. Sound(sdsempty, Bytes) /\ Len(sdsempty.data) = 0
  BY EmptyIs
<1>4. redisReaderCreate = Parts(sdsempty, 0, "none", s, k, NoReply)
  BY DEF redisReaderCreate, Parts
<1> HIDE DEF k, s
<1>5. 0 \in 0 .. Len(sdsempty.data) /\ Len(s) <= k
  BY <1>1, <1>2, <1>3
<1> DEFINE b == sdsempty  e == "none"  y == NoReply  r == redisReaderCreate
<1>6. Sound(b, Bytes) /\ r = Parts(b, 0, e, s, k, y) /\ 0 \in 0 .. Len(b.data)
  BY <1>3, <1>4, <1>5, Zenon
<1> HIDE DEF b, e, y, r
<1>7. Reads(r)
  BY <1>1, <1>2, <1>5, <1>6, PartsRead
<1> QED BY <1>7, Zenon DEF r

LEMMA ReadInit == Init => ReadInv
<1> SUFFICES ASSUME Init PROVE ReadInv
  OBVIOUS
<1>1. c.reader = redisReaderCreate
  BY DEF Init, redisContextInit
<1>2. \A fd \in Fds : net[fd].down = <<>>
  BY DEF Init, Free
<1>3. <<>> \in Text
  BY DEF Text
<1> QED BY <1>1, <1>2, <1>3, CreateReads, Zenon DEF ReadInv

(* A step that reads nothing and hears nothing.                            *)
Deaf == \A fd \in Fds : net'[fd].down \in {net[fd].down, <<>>}

LEMMA Unheard ==
  ASSUME ReadInv, Deaf, c'.reader = c.reader \/ c'.reader = redisReaderCreate
  PROVE  ReadInv'
<1>1. <<>> \in Text
  BY DEF Text
<1>2. \A fd \in Fds : net'[fd].down \in Text
  BY <1>1 DEF ReadInv, Deaf
<1>3. Reads(c'.reader)
  BY CreateReads, Zenon DEF ReadInv
<1> QED BY <1>2, <1>3, Zenon DEF ReadInv

LEMMA DeafHere == ASSUME UNCHANGED net PROVE Deaf
BY DEF Deaf

LEMMA DeafPeer ==
  ASSUME SockInv, NEW fd, NEW peer, net' = Attempt(fd, peer)
  PROVE  Deaf
<1>1. net' = Peered(net, fd, peer)
  BY DEF Attempt, Peered
<1>2. \A f \in Fds : net'[f].down = net[f].down
  BY <1>1, PeeredDoes DEF SockInv, Shape
<1> QED BY <1>2, Zenon DEF Deaf

LEMMA DeafClosed ==
  ASSUME SockInv, net' = IF c.fd = NoFd THEN net ELSE Close(c.fd)
  PROVE  Deaf
<1>1. \A fd \in Fds : net'[fd] = net[fd] \/ net'[fd] = Free
  BY DEF SockInv, Shape, Sockets, Close
<1> QED BY <1>1 DEF Deaf, Free

LEMMA DeafUpped ==
  ASSUME SockInv, NEW fd, NEW v, net' = [net EXCEPT ![fd].up = v]
  PROVE  Deaf
<1>1. net' = Upped(net, fd, v)
  BY DEF Upped
<1>2. \A f \in Fds : net'[f].down = net[f].down
  BY <1>1, UppedDoes DEF SockInv, Shape
<1> QED BY <1>2, Zenon DEF Deaf

LEMMA CloseUnheard ==
  ASSUME SockInv, ReadInv, NEW e, Closing(e)
  PROVE  ReadInv'
<1>1. c'.reader = c.reader
  BY DEF Closing, SockInv, Shape
<1>2. Deaf
  BY DeafClosed DEF Closing
<1> QED BY <1>1, <1>2, Unheard

LEMMA KeepUnheard ==
  ASSUME SockInv, ReadInv, NEW e, NEW fd, Keeping(e, fd)
  PROVE  ReadInv'
<1>1. c'.reader = c.reader
  BY DEF Keeping, SockInv, Shape
<1>2. Deaf
  BY DeafPeer DEF Keeping
<1> QED BY <1>1, <1>2, Unheard

LEMMA AttemptUnheard ==
  ASSUME SockInv, ReadInv,
         NoAddress \/ SocketFails \/ SocketUnusable \/ TcpConnect \/ UnixConnect
         \/ redisContextWaitReady \/ redisSetTcpNoDelay \/ Established
  PROVE  ReadInv'
<1> USE DEF unsaid
<1>1. ASSUME NEW peer, NEW fd, c' = [c EXCEPT !.fd = fd] \/ UNCHANGED c, net' = Attempt(fd, peer)
      PROVE  ReadInv'
  <2>1. c'.reader = c.reader
    BY <1>1 DEF SockInv, Shape
  <2> QED BY <1>1, <2>1, DeafPeer, Unheard
<1>2. ASSUME UNCHANGED net, c' = [c EXCEPT !.connected = TRUE] \/ UNCHANGED c
      PROVE  ReadInv'
  <2>1. c'.reader = c.reader
    BY <1>2 DEF SockInv, Shape
  <2> QED BY <1>2, <2>1, DeafHere, Unheard
<1>3. CASE NoAddress
  BY <1>3, CloseUnheard DEF NoAddress
<1>4. CASE SocketFails
  BY <1>2, <1>4 DEF SocketFails
<1>5. CASE SocketUnusable
  BY <1>5, CloseUnheard, KeepUnheard DEF SocketUnusable
<1>6. CASE TcpConnect
  <2>1. CASE c' = [c EXCEPT !.fd = NewFd] /\ net' = Attempt(NewFd, "open")
    BY <1>1, <2>1
  <2>2. CASE c' = [c EXCEPT !.fd = NewFd] /\ net' = Attempt(NewFd, "pending")
    BY <1>1, <2>2
  <2>3. CASE UNCHANGED <<c, net>>
    BY <1>2, <2>3
  <2>4. CASE Keeping("none", NewFd) \/ Closing("IO")
    BY <2>4, CloseUnheard, KeepUnheard
  <2> QED BY <1>6, <2>1, <2>2, <2>3, <2>4 DEF TcpConnect, Unreachable
<1>7. CASE UnixConnect
  <2>1. CASE c' = [c EXCEPT !.fd = NewFd] /\ \E peer : net' = Attempt(NewFd, peer)
    BY <1>1, <2>1
  <2>2. CASE Closing("IO") \/ Keeping("IO", NewFd)
    BY <2>2, CloseUnheard, KeepUnheard
  <2> QED BY <1>7, <2>1, <2>2 DEF UnixConnect
<1>8. CASE redisContextWaitReady
  <2>1. CASE UNCHANGED c /\ net' = Attempt(c.fd, "open")
    BY <1>1, <2>1
  <2>2. CASE Closing("IO") \/ Keeping("IO", c.fd)
    BY <2>2, CloseUnheard, KeepUnheard
  <2> QED BY <1>8, <2>1, <2>2 DEF redisContextWaitReady
<1>9. CASE redisSetTcpNoDelay
  BY <1>2, <1>9, CloseUnheard DEF redisSetTcpNoDelay
<1>10. CASE Established
  BY <1>2, <1>10, CloseUnheard DEF Established
<1> QED BY <1>3, <1>4, <1>5, <1>6, <1>7, <1>8, <1>9, <1>10

LEMMA TransferUnheard ==
  ASSUME SockInv, ReadInv, NEW done, NEW more, BufferWrite(done, more)
  PROVE  ReadInv'
<1>1. c'.reader = c.reader
  BY DEF BufferWrite, SetError, Unsent, SockInv, Shape
<1>2. CASE UNCHANGED net
  BY <1>1, <1>2, DeafHere, Unheard
<1>3. CASE \E n : net' = [net EXCEPT ![c.fd].up = @ \o SubSeq(c.obuf.data, 1, n)]
  BY <1>1, <1>3, DeafUpped, Unheard
<1> QED BY <1>2, <1>3 DEF BufferWrite, Unsent

(* What was read from the socket is fed to the reader.                     *)
LEMMA ReceiptHeard ==
  ASSUME SockInv, ReadInv, NEW next, BufferRead(next)
  PROVE  ReadInv'
<1> DEFINE down == net[c.fd].down
<1>1. CASE UNCHANGED net /\ (UNCHANGED c \/ \E e : SetError(e))
  <2>1. c'.reader = c.reader
    BY <1>1 DEF SetError, SockInv, Shape
  <2> QED BY <1>1, <2>1, DeafHere, Unheard
<1>2. CASE Usable /\ \E n \in Pieces(Read, down) :
                   /\ c' = [c EXCEPT !.reader = redisReaderFeed(@, SubSeq(down, 1, n))]
                   /\ net' = [net EXCEPT ![c.fd].down = SubSeq(down, n + 1, Len(down))]
  <2>1. PICK n \in 1 .. Len(down) :
                   /\ c' = [c EXCEPT !.reader = redisReaderFeed(@, SubSeq(down, 1, n))]
                   /\ net' = [net EXCEPT ![c.fd].down = SubSeq(down, n + 1, Len(down))]
    BY <1>2 DEF Pieces
  <2>2. c.fd \in Fds
    BY <1>2 DEF Usable, SockInv, Shape
  <2>3. down \in Text
    BY <2>2 DEF ReadInv
  <2> DEFINE first == SubSeq(down, 1, n)  rest == SubSeq(down, n + 1, Len(down))
  <2>4. first \in Text /\ rest \in Text
    <3>1. n \in 0 .. Len(down)
      BY <2>3, TextIs
    <3> QED BY <2>3, <3>1, TextSplit
  <2>5. c'.reader = redisReaderFeed(c.reader, first)
    BY <2>1 DEF SockInv, Shape
  <2>6. net' = Downed(net, c.fd, rest)
    BY <2>1 DEF Downed
  <2> HIDE DEF first, rest, down
  <2>7. \A f \in Fds : net'[f].down = IF f = c.fd THEN rest ELSE net[f].down
    BY <2>6, DownedDoes DEF SockInv, Shape
  <2>8. Reads(c'.reader)
    BY <2>4, <2>5, FeedIs DEF ReadInv
  <2>9. \A f \in Fds : net'[f].down \in Text
    BY <2>4, <2>7, Zenon DEF ReadInv
  <2> QED BY <2>8, <2>9, Zenon DEF ReadInv
<1> QED BY <1>1, <1>2 DEF BufferRead, Unsent

LEMMA ReplyRead ==
  ASSUME SockInv, ReadInv, NEW none, NextInBandReply(none)
  PROVE  ReadInv'
<1>1. c'.reader = redisReaderGetReply(c.reader).r /\ UNCHANGED net
  BY DEF NextInBandReply, wire, SockInv, Shape
<1>2. Reads(c'.reader)
  BY <1>1, GetReplyReads, Zenon DEF ReadInv
<1> QED BY <1>1, <1>2, Zenon DEF ReadInv

LEMMA ProgramUnheard ==
  ASSUME SockInv, ReadInv, Program
  PROVE  ReadInv'
<1>1. CASE redisConnectWithOptions
  <2>1. c'.reader = c.reader
    BY <1>1 DEF redisConnectWithOptions, SockInv, Shape
  <2>2. Deaf
    <3>1. CASE net' = [net EXCEPT ![1].peer = "open"]
      BY <3>1, DeafPeer DEF Attempt
    <3>2. CASE UNCHANGED net
      BY <3>2, DeafHere
    <3> QED BY <1>1, <3>1, <3>2 DEF redisConnectWithOptions
  <2> QED BY <2>1, <2>2, Unheard
<1>2. CASE redisReconnect \/ redisFree
  <2>1. c'.reader = redisReaderCreate
    BY <1>2 DEF redisReconnect, Reconnected, redisFree, redisContextInit, SockInv, Shape
  <2>2. Deaf
    BY <1>2, DeafClosed DEF redisReconnect, redisFree
  <2> QED BY <2>1, <2>2, Unheard
<1>3. CASE redisSetTimeout \/ redisGetReply
  <2>1. c'.reader = c.reader /\ UNCHANGED net
    BY <1>3 DEF redisSetTimeout, redisGetReply, SetError, wire, SockInv, Shape
  <2> QED BY <2>1, DeafHere, Unheard
<1>4. CASE redisBufferWrite
  BY <1>4, TransferUnheard DEF redisBufferWrite
<1>5. CASE redisBufferRead
  BY <1>5, ReceiptHeard DEF redisBufferRead
<1>6. CASE \E call \in Calls, wait \in BOOLEAN : redisAppendCommand(call, wait)
  <2>1. c'.reader = c.reader /\ UNCHANGED net
    BY <1>6 DEF redisAppendCommand, SockInv, Shape
  <2> QED BY <2>1, DeafHere, Unheard
<1> QED BY <1>1, <1>2, <1>3, <1>4, <1>5, <1>6 DEF Program

(* What the server sends is bytes, and goes behind what it has sent.       *)
LEMMA SentText ==
  /\ \A reply \in Replies : Encode[reply] \in Text
  /\ OldNil \subseteq Text /\ Malformed \subseteq Text
<1>1. \A x \in Seq(STRING) : x \in Text
  <2>1. \A S, T : S \subseteq T => Seq(S) \subseteq Seq(T)
    OBVIOUS
  <2>2. STRING \subseteq Bytes
    BY Zenon DEF Bytes
  <2> QED BY <2>1, <2>2, Zenon DEF Text
<1>2. \A x, y, z \in Bytes : <<x, y, z>> \in Text
  BY DEF Text
<1>3. "$" \in Bytes /\ "*" \in Bytes /\ "-" \in Bytes /\ "1" \in Bytes
  <2>1. "1" \in Digits
    BY DEF Digits
  <2> QED BY <2>1, CRLFText DEF Bytes
<1>4. CRLF \in Text
  BY CRLFText
<1>5. <<"$", "-", "1">> \in Text /\ <<"*", "-", "1">> \in Text
  BY <1>2, <1>3, Zenon
<1>6. <<"$", "-", "1">> \o CRLF \in Text /\ <<"*", "-", "1">> \o CRLF \in Text
  BY <1>4, <1>5, Joins, Zenon
<1>7. OldNil \subseteq Text
  BY <1>6, Zenon DEF OldNil
<1> QED BY <1>1, <1>7, ServerAssumption, Zenon

LEMMA EnvironmentHeard ==
  ASSUME SockInv, ReadInv, Environment
  PROVE  ReadInv'
<1>1. PICK fd \in Fds : \/ ServerAnswers(fd) \/ ServerPushes(fd) \/ ServerMalformed(fd)
                       \/ ServerCloses(fd) \/ Connects(fd)
  BY DEF Environment
<1>2. UNCHANGED c
  BY <1>1 DEF ServerAnswers, ServerPushes, ServerMalformed, ServerCloses, Connects, local
<1>3. ASSUME NEW n, Sockets(n), \A f \in Fds : n[f].down = net[f].down,
             NEW bytes \in Text, net' = Downed(n, fd, n[fd].down \o bytes)
      PROVE  ReadInv'
  <2>1. \A f \in Fds : net'[f].down = IF f = fd THEN n[fd].down \o bytes ELSE n[f].down
    BY <1>3, DownedDoes
  <2>2. n[fd].down \o bytes \in Text
    BY <1>3, Joins DEF ReadInv
  <2>3. \A f \in Fds : net'[f].down \in Text
    BY <1>3, <2>1, <2>2, Zenon DEF ReadInv
  <2> QED BY <1>2, <2>3, Zenon DEF ReadInv
<1>4. CASE ServerAnswers(fd)
  <2>1. PICK v : \E b \in Text : net' = [net EXCEPT ![fd].up = v, ![fd].down = @ \o b]
    <3>1. PICK call \in Calls, reply \in options.answers :
             \E bytes \in Spelled(reply) :
                net' = [net EXCEPT ![fd].up = SubSeq(@, Len(Wire(call.argv)) + 1, Len(@)),
                                   ![fd].down = @ \o bytes]
      BY <1>4 DEF ServerAnswers
    <3>2. reply \in Replies
      BY DEF SockInv, Shape, redisOptions
    <3>3. Spelled(reply) \subseteq Text
      BY <3>2, SentText, Zenon DEF Spelled
    <3> QED BY <3>1, <3>3
  <2> PICK bytes \in Text : net' = [net EXCEPT ![fd].up = v, ![fd].down = @ \o bytes]
    BY <2>1
  <2> DEFINE m == Upped(net, fd, v)
  <2>2. net' = Downed(m, fd, m[fd].down \o bytes)
    BY DEF Upped, Downed
  <2>3. Sockets(m) /\ \A f \in Fds : m[f].down = net[f].down
    BY UppedDoes DEF SockInv, Shape
  <2> HIDE DEF m
  <2> QED BY <1>3, <2>2, <2>3
<1>5. CASE ServerPushes(fd) \/ ServerMalformed(fd)
  <2>1. PICK bytes \in Text : net' = [net EXCEPT ![fd].down = @ \o bytes]
    BY <1>5, SentText, ContextAssumption DEF ServerPushes, ServerMalformed
  <2>2. net' = Downed(net, fd, net[fd].down \o bytes)
    BY <2>1 DEF Downed
  <2> QED BY <1>3, <2>2 DEF SockInv, Shape
<1>6. CASE ServerCloses(fd) \/ Connects(fd)
  <2>1. PICK peer \in {"shut", "unconnected", "open"} : net' = Attempt(fd, peer)
    BY <1>6 DEF ServerCloses, Connects, Attempt
  <2> QED BY <1>2, <2>1, DeafPeer, Unheard
<1> QED BY <1>1, <1>4, <1>5, <1>6

LEMMA ReadStep == SockInv /\ ReadInv /\ [Next]_vars => ReadInv'
<1> SUFFICES ASSUME SockInv, ReadInv, [Next]_vars PROVE ReadInv'
  OBVIOUS
<1>1. CASE Library
  <2>1. CASE redisContextSetTimeout
    <3>1. c'.reader = c.reader /\ UNCHANGED net
      BY <2>1 DEF redisContextSetTimeout, SetError, SockInv, Shape
    <3> QED BY <3>1, DeafHere, Unheard
  <2>2. CASE GetFirst \/ GetNext
    BY <2>2, ReplyRead DEF GetFirst, GetNext
  <2>3. CASE WriteAll \/ ReadMore
    BY <2>3, TransferUnheard, ReceiptHeard DEF WriteAll, ReadMore
  <2> QED BY <1>1, <2>1, <2>2, <2>3, AttemptUnheard DEF Library
<1>2. CASE Program
  BY <1>2, ProgramUnheard
<1>3. CASE Environment
  BY <1>3, EnvironmentHeard
<1>4. CASE Done \/ UNCHANGED vars
  <2>1. UNCHANGED <<c, net>>
    BY <1>4 DEF Done, vars
  <2> QED BY <2>1, DeafHere, Unheard
<1> QED BY <1>1, <1>2, <1>3, <1>4 DEF Next

(* Whatever the server sends, malformed or not, and whatever pieces it     *)
(* comes in, the parser's cursor stays within its buffer, its buffer       *)
(* within what was allocated, and its stack within the tasks there are     *)
(* (read.c:456, 501, 717, 771).                                            *)
THEOREM ReaderStaysSound == Spec => []ReaderOK(c.reader)
<1>1. SockInv /\ ReadInv /\ [Next]_vars => SockInv' /\ ReadInv'
  BY SockStep, ReadStep
<1> QED BY <1>1, SockInit, ReadInit, ReadIsOK, PTL DEF Spec

-----------------------------------------------------------------------------
(* A reader that goes on where another stopped.                            *)
One == <<[EmptyTask EXCEPT !.idx = -1]>>

(* A reader at the beginning of a reply, before it the bytes u.            *)
Fresh(f, u) ==
  /\ Reads(f) /\ f.stack = One /\ f.err = "none" /\ f.reply = NoReply /\ Unread(f) = u

LEMMA CreateIs ==
  LET r == redisReaderCreate IN
  /\ Reads(r) /\ r.err = "none" /\ r.stack = <<>> /\ r.reply = NoReply /\ Unread(r) = <<>>
  /\ r.buf.data = <<>>
<1> DEFINE r == redisReaderCreate
<1>1. r.buf = sdsempty /\ r.pos = 0 /\ r.err = "none" /\ r.stack = <<>> /\ r.reply = NoReply
  BY DEF redisReaderCreate
<1>2. Reads(r) /\ r.buf.data = <<>>
  BY <1>1, CreateReads, EmptyIs, Zenon
<1> HIDE DEF r
<1>3. Unread(r) = <<>>
  <2>1. Unread(r) = Rest(<<>>, 0)
    BY <1>1, <1>2, UnreadIs, Zenon
  <2>2. Rest(<<>>, 0) = <<>>
    BY DEF Rest
  <2> QED BY <2>1, <2>2, Zenon
<1> QED BY <1>1, <1>2, <1>3, Zenon DEF r

LEMMA StartedFresh ==
  ASSUME NEW r, Reads(r), r.err = "none", r.stack = <<>>, r.reply = NoReply
  PROVE  Fresh(Started(r), Unread(r))
<1> DEFINE s == Started(r)
<1>1. Reads(s) /\ s.err = r.err /\ s.reply = r.reply /\ Unread(s) = Unread(r)
  BY StartedIs, Zenon
<1>2. s.stack = One
  BY StartedIs, Zenon DEF One
<1> QED BY <1>1, <1>2, Zenon DEF Fresh

LEMMA FreshExists == ASSUME NEW u \in Text PROVE \E f : Fresh(f, u)
<1> DEFINE r == redisReaderCreate  q == redisReaderFeed(r, u)
<1>1. Reads(r) /\ r.err = "none" /\ r.stack = <<>> /\ r.reply = NoReply /\ Unread(r) = <<>>
  BY CreateIs, Zenon
<1> HIDE DEF r
<1>2. Reads(q) /\ Ahead(q, r, u)
  BY <1>1, FeedIs
<1> HIDE DEF q
<1>3. <<>> \o u = u
  BY DEF Text
<1>4. q.err = "none" /\ q.stack = <<>> /\ q.reply = NoReply /\ Unread(q) = u
  BY <1>1, <1>2, <1>3, Zenon DEF Ahead
<1>5. Fresh(Started(q), u)
  BY <1>2, <1>4, StartedFresh, Zenon
<1> QED BY <1>5, Zenon

LEMMA AheadExists ==
  ASSUME NEW r, Reads(r), r.err = "none", NEW y \in Text
  PROVE  \E t : Reads(t) /\ Ahead(t, r, y)
<1> DEFINE f == redisReaderFeed(r, y)
<1>1. Reads(f) /\ Ahead(f, r, y)
  BY FeedIs
<1> QED BY <1>1, Zenon

LEMMA AheadMore ==
  ASSUME NEW r, Reads(r), NEW t, NEW v, NEW y \in Text, NEW x \in Text, Ahead(t, r, y)
  PROVE  Ahead(v, t, x) <=> Ahead(v, r, y \o x)
<1>1. Unread(r) \in Text
  BY UnreadIs
<1>2. (Unread(r) \o y) \o x = Unread(r) \o (y \o x)
  BY <1>1, Regroup DEF Assoc
<1> QED BY <1>2, Zenon DEF Ahead

LEMMA SameBack ==
  /\ \A a, b : SameReader(a, b) => SameReader(b, a)
  /\ \A a, b, d : SameReader(a, b) /\ SameReader(b, d) => SameReader(a, d)
  /\ \A a, b, d, x : Ahead(a, b, x) /\ SameReader(b, d) => Ahead(a, d, x)
  /\ \A a, b, d, x : SameReader(a, b) /\ Ahead(b, d, x) => Ahead(a, d, x)
  /\ \A a, b, d, x : Ahead(a, b, x) /\ Ahead(d, b, x) => SameReader(a, d)
<1>1. \A a, b : SameReader(a, b) => SameReader(b, a)
  BY Zenon DEF SameReader
<1>2. \A a, b, d : SameReader(a, b) /\ SameReader(b, d) => SameReader(a, d)
  BY Zenon DEF SameReader
<1>3. \A a, b, d, x : Ahead(a, b, x) /\ SameReader(b, d) => Ahead(a, d, x)
  BY Zenon DEF SameReader, Ahead
<1>4. \A a, b, d, x : SameReader(a, b) /\ Ahead(b, d, x) => Ahead(a, d, x)
  BY Zenon DEF SameReader, Ahead
<1>5. \A a, b, d, x : Ahead(a, b, x) /\ Ahead(d, b, x) => SameReader(a, d)
  BY Zenon DEF SameReader, Ahead
<1> QED BY <1>1, <1>2, <1>3, <1>4, <1>5, Zenon

(* A reader that stopped for want of bytes stops again without any.        *)
LEMMA Stays ==
  ASSUME NEW r, Reads(r), r.err = "none", NEW p, p = ProcessItems(r),
         p.err = "none", p.stack # <<>>
  PROVE  SameReader(ProcessItems(p), p)
<1>1. Ahead(r, r, <<>>) /\ <<>> \in Text
  BY AheadNone, Zenon
<1>2. Reads(p) /\ \A t : Reads(t) /\ Ahead(t, p, <<>>) => SameReader(ProcessItems(t), p)
  BY <1>1, ProcessUnsplit
<1>3. Ahead(p, p, <<>>)
  BY <1>2, AheadNone, Zenon
<1> QED BY <1>2, <1>3, Zenon

LEMMA ProcessAlike ==
  ASSUME NEW r, Reads(r), r.err = "none", NEW q, Reads(q), SameReader(q, r)
  PROVE  SameReader(ProcessItems(q), ProcessItems(r))
<1> DEFINE p == ProcessItems(r)  w == ProcessItems(q)
<1>1. Ahead(q, r, <<>>) /\ <<>> \in Text
  BY SameAhead, AheadNone, Zenon
<1>2. /\ Reads(p) /\ Reads(w)
      /\ p.err # "none" => SameReader(w, p)
      /\ p.err = "none" /\ p.stack = <<>> => Ahead(w, p, <<>>)
      /\ p.err = "none" /\ p.stack # <<>>
           => \A t : Reads(t) /\ Ahead(t, p, <<>>) => SameReader(ProcessItems(t), w)
  BY <1>1, ProcessUnsplit
<1>3. p.err = "none" /\ p.stack # <<>> => SameReader(ProcessItems(p), p)
  BY Stays, Zenon
<1> HIDE DEF p, w
<1>4. Ahead(p, p, <<>>)
  BY <1>2, AheadNone, Zenon
<1>5. Ahead(w, p, <<>>) => SameReader(w, p)
  BY <1>2, SameAhead, Zenon
<1>6. p.err = "none" /\ p.stack # <<>> => SameReader(w, p)
  BY <1>2, <1>3, <1>4, SameBack, Zenon
<1> QED BY <1>2, <1>5, <1>6, Zenon DEF p, w

LEMMA NoNewline == seekNewline(<<>>) = 0
<1> DEFINE at == {i \in 1..(Len(<<>>) - 1) : <<>>[i] = "\r" /\ <<>>[i + 1] = "\n"}
<1>1. at = {}
  OBVIOUS
<1>2. seekNewline(<<>>) = IF at = {} THEN 0 ELSE CHOOSE i \in at : \A j \in at : i <= j
  BY Zenon DEF seekNewline
<1> QED BY <1>1, <1>2, Zenon

(* Without any byte an item is waited for.                                 *)
LEMMA EmptyItem ==
  ASSUME NEW r, Reads(r), r.err = "none", r.stack # <<>>, Unread(r) = <<>>,
         NEW p, p = processItem(r)
  PROVE  ~p.ok /\ p.r.err = "none" /\ p.r.stack # <<>>
<1> DEFINE old == Last(r.stack).type  g == redisReaderGrow(r)
<1>1. CASE old = "unknown"
  <2>1. ReadType(r) = ERR(r)
    BY <1>1, ReadIs, Zenon
  <2>2. ERR(r).ok = FALSE /\ ERR(r).r = r
    BY DEF ERR
  <2>3. p = Typed(ERR(r))
    BY <2>1, Zenon DEF processItem
  <2>4. p = ERR(r)
    BY <2>2, <2>3, Zenon DEF Typed
  <2> QED BY <2>2, <2>4, Zenon
<1>2. CASE old # "unknown"
  <2>1. ReadType(r) = OK(r)
    BY <1>2, ReadIs, Zenon
  <2>2. OK(r).ok = TRUE /\ OK(r).r = r
    BY DEF OK
  <2>3. p = Typed(OK(r))
    BY <2>1, Zenon DEF processItem
  <2>4. p = ProcessTyped(r, 0)
    <3>1. p = ProcessTyped(r, seekNewline(Unread(r)))
      BY <2>2, <2>3, Zenon DEF Typed
    <3> QED BY <3>1, NoNewline, Zenon
  <2>5. g.err = "none" /\ g.stack # <<>>
    BY GrowIs
  <2> HIDE DEF g
  <2>6. p = ERR(r) \/ p = ERR(g)
    <3>1. CASE old \in Aggregates
      <4>1. old \notin {"STRING", "VERB"}
        BY <3>1 DEF Aggregates
      <4>2. ProcessTyped(r, 0) = processAggregateItem(g, 0)
        BY <3>1, <4>1, Zenon DEF ProcessTyped, g
      <4>3. processAggregateItem(g, 0) = ERR(g)
        BY Zenon DEF processAggregateItem
      <4> QED BY <2>4, <4>2, <4>3, Zenon
    <3>2. CASE old \notin Aggregates /\ old \in {"STRING", "VERB"}
      <4>1. ProcessTyped(r, 0) = processBulkItem(r, 0)
        BY <3>2, Zenon DEF ProcessTyped
      <4>2. processBulkItem(r, 0) = ERR(r)
        BY Zenon DEF processBulkItem
      <4> QED BY <2>4, <4>1, <4>2, Zenon
    <3>3. CASE old \notin Aggregates /\ old \notin {"STRING", "VERB"}
      <4>1. old \notin Aggregates \cup {"STRING", "VERB"}
        BY <3>3, Zenon
      <4>2. ProcessTyped(r, 0) = processLineItem(r, 0)
        BY <3>3, <4>1, Zenon DEF ProcessTyped
      <4>3. processLineItem(r, 0) = ERR(r)
        BY Zenon DEF processLineItem
      <4> QED BY <2>4, <4>2, <4>3, Zenon
    <3> QED BY <3>1, <3>2, <3>3, Zenon
  <2>7. \A q : ERR(q).ok = FALSE /\ ERR(q).r = q
    BY DEF ERR
  <2> QED BY <2>5, <2>6, <2>7, Zenon
<1> QED BY <1>1, <1>2, Zenon

LEMMA EmptyWaits ==
  ASSUME NEW r, Reads(r), r.err = "none", r.stack # <<>>, Unread(r) = <<>>,
         NEW p, p = ProcessItems(r)
  PROVE  p.err = "none" /\ p.stack # <<>>
<1>1. Len(Unread(r)) = 0
  OBVIOUS
<1>2. p = Items(r, 0 + 1).r
  BY <1>1, ItemsAre, Zenon
<1>3. 0 \in Nat
  OBVIOUS
<1>4. Items(r, 0 + 1) = NextItem(Items(r, 0)) /\ Items(r, 0) = OK(r)
  BY <1>3, ItemsAre, Zenon
<1>5. OK(r).ok = TRUE /\ OK(r).r = r
  BY DEF OK
<1>6. Items(r, 0 + 1) = NextItem(OK(r))
  BY <1>4, Zenon
<1>7. Items(r, 0 + 1) = processItem(r)
  BY <1>5, <1>6, Zenon DEF NextItem
<1>8. processItem(r).r.err = "none" /\ processItem(r).r.stack # <<>>
  BY EmptyItem, Zenon
<1> QED BY <1>2, <1>7, <1>8, Zenon

-----------------------------------------------------------------------------
(* What the server says, a piece for each reply.                           *)
(* The bytes b say the reply a, or nothing that is one.                    *)
Says(b, a) == \/ Gives(b, a) /\ a # NoReply
              \/ ~Alone(b).ok /\ a = Bad

(* What a reader makes of the bytes u, of which the first say a and rest   *)
(* is what follows.                                                        *)
Made(p, a, rest) ==
  \/ p.err = "none" /\ p.stack = <<>> /\ p.reply = a /\ a # NoReply /\ Unread(p) = rest
  \/ p.err # "none" /\ a = Bad

LEMMA SaysFirst ==
  ASSUME NEW b \in Text, NEW a, Says(b, a), NEW rest \in Text, NEW f, Fresh(f, b \o rest)
  PROVE  Made(ProcessItems(f), a, rest)
<1> DEFINE n == redisReaderCreate  q == redisReaderFeed(n, b)  s == Started(q)
           p == ProcessItems(s)  w == ProcessItems(f)  g == Alone(b)
<1>1. Reads(n) /\ n.err = "none" /\ n.stack = <<>> /\ n.reply = NoReply /\ Unread(n) = <<>>
      /\ n.buf.data = <<>>
  BY CreateIs, Zenon
<1>2. g = redisReaderGetReply(q)
  BY Zenon DEF Alone
<1> HIDE DEF n, g
<1>3. Reads(q) /\ Ahead(q, n, b)
  BY <1>1, FeedIs
<1> HIDE DEF q
<1>4. <<>> \o b = b
  BY DEF Text
<1>5. q.err = "none" /\ q.stack = <<>> /\ q.reply = NoReply /\ Unread(q) = b
  BY <1>1, <1>3, <1>4, Zenon DEF Ahead
<1>6. Fresh(s, b)
  BY <1>3, <1>5, StartedFresh, Zenon
<1>7. q.buf.data # <<>>
  <2> SUFFICES ASSUME q.buf.data = <<>> PROVE FALSE
    BY Zenon
  <2>1. g = [ok |-> q.err = "none", r |-> q, reply |-> NoReply]
    BY <1>2, GetReplyIs, Zenon
  <2> DEFINE e == q.err = "none"  y == NoReply
  <2>2. g = [ok |-> e, r |-> q, reply |-> y]
    BY <2>1, Zenon
  <2> HIDE DEF e, y
  <2>3. g.ok = e /\ g.reply = y
    BY <2>2
  <2>4. g.ok /\ g.reply = NoReply
    BY <1>5, <2>3, Zenon DEF e, y
  <2> QED BY <2>4, Zenon DEF Says, Gives, g
<1>8. g = Emit(Cut(p))
  BY <1>2, <1>5, <1>7, GetReplyIs, Zenon
<1>9. Reads(f) /\ Reads(s) /\ s.err = "none" /\ Ahead(f, s, rest)
  BY <1>6, Zenon DEF Fresh, Ahead
<1> HIDE DEF s
<1>10. /\ Reads(p)
       /\ p.err # "none" => SameReader(w, p)
       /\ p.err = "none" /\ p.stack = <<>> => Ahead(w, p, rest)
  BY <1>9, ProcessUnsplit
<1> HIDE DEF p, w
<1> DEFINE d == Cut(p)
<1>11. Reads(d) /\ SameReader(d, p)
  BY <1>10, CutIs
<1>12. g = Emit(d)
  BY <1>8, Zenon
<1> HIDE DEF d
<1>13. /\ Unread(g.r) = Unread(d) /\ g.ok = (d.err = "none")
       /\ g.reply = (IF d.stack = <<>> THEN d.reply ELSE NoReply)
  BY <1>11, <1>12, EmitIs
<1>14. CASE Gives(b, a) /\ a # NoReply
  <2>1. g.ok /\ g.reply = a /\ Unread(g.r) = <<>> /\ a # NoReply
    BY <1>14, Zenon DEF Gives, g
  <2>2. d.err = "none" /\ d.stack = <<>> /\ d.reply = a /\ Unread(d) = <<>>
    BY <1>13, <2>1, Zenon
  <2>3. p.err = "none" /\ p.stack = <<>> /\ p.reply = a /\ Unread(p) = <<>>
    BY <1>11, <2>2, Zenon DEF SameReader
  <2>4. Ahead(w, p, rest) /\ <<>> \o rest = rest
    BY <1>10, <2>3 DEF Text
  <2>5. w.err = "none" /\ w.stack = <<>> /\ w.reply = a /\ Unread(w) = rest
    BY <2>3, <2>4, Zenon DEF Ahead
  <2> QED BY <2>1, <2>5, Zenon DEF Made, w
<1>15. CASE ~Alone(b).ok /\ a = Bad
  <2>1. d.err # "none"
    BY <1>13, <1>15, Zenon DEF g
  <2>2. p.err # "none"
    BY <1>11, <2>1, Zenon DEF SameReader
  <2>3. w.err # "none"
    BY <1>10, <2>2, Zenon DEF SameReader
  <2> QED BY <1>15, <2>3, Zenon DEF Made, w
<1> QED BY <1>14, <1>15, Zenon DEF Says

(* r goes on, through the bytes y that are on their way to it, as a fresh  *)
(* reader does through todo, what the server says and r has not given.     *)
Resumes(r, y, todo) ==
  \A t, f : Reads(t) /\ Ahead(t, Started(r), y) /\ Fresh(f, todo)
              => SameReader(ProcessItems(t), ProcessItems(f))

LEMMA ResumesAnew ==
  ASSUME NEW r, Reads(r), r.err = "none", r.stack = <<>>, r.reply = NoReply,
         NEW y, NEW todo, Unread(r) \o y = todo
  PROVE  Resumes(r, y, todo)
<1> SUFFICES ASSUME NEW t, NEW f, Reads(t), Ahead(t, Started(r), y), Fresh(f, todo)
             PROVE  SameReader(ProcessItems(t), ProcessItems(f))
  BY Zenon DEF Resumes
<1>1. Fresh(Started(r), Unread(r))
  BY StartedFresh, Zenon
<1>2. Reads(f) /\ f.err = "none" /\ SameReader(t, f)
  BY <1>1, Zenon DEF Fresh, Ahead, SameReader
<1> QED BY <1>2, ProcessAlike, Zenon

LEMMA StartedAhead ==
  ASSUME NEW r, Reads(r), NEW f, Reads(f), NEW x, Ahead(f, r, x)
  PROVE  Ahead(Started(f), Started(r), x)
<1> DEFINE s == Started(r)  q == Started(f)
<1>1. /\ s.err = r.err /\ s.reply = r.reply /\ Unread(s) = Unread(r)
      /\ s.stack = IF r.stack # <<>> THEN r.stack ELSE One
  BY StartedIs, Zenon DEF One
<1>2. /\ q.err = f.err /\ q.reply = f.reply /\ Unread(q) = Unread(f)
      /\ q.stack = IF f.stack # <<>> THEN f.stack ELSE One
  BY StartedIs, Zenon DEF One
<1> HIDE DEF s, q
<1>3. f.stack = r.stack
  BY Zenon DEF Ahead
<1>4. q.stack = s.stack
  BY <1>1, <1>2, <1>3, Zenon
<1>5. Ahead(q, s, x)
  BY <1>1, <1>2, <1>4, Zenon DEF Ahead
<1> QED BY <1>5, Zenon DEF s, q

(* Bytes that were on their way have been read.                            *)
LEMMA ResumesFed ==
  ASSUME NEW r, Reads(r), r.err = "none", NEW x \in Text, NEW y \in Text, NEW todo,
         Resumes(r, x \o y, todo), NEW q, q = redisReaderFeed(r, x)
  PROVE  Resumes(q, y, todo)
<1>1. Reads(q) /\ Ahead(q, r, x)
  BY FeedIs
<1>2. Ahead(Started(q), Started(r), x) /\ Reads(Started(r))
  BY <1>1, StartedAhead, StartedIs, Zenon
<1> SUFFICES ASSUME NEW t, NEW f, Reads(t), Ahead(t, Started(q), y), Fresh(f, todo)
             PROVE  SameReader(ProcessItems(t), ProcessItems(f))
  BY Zenon DEF Resumes
<1>3. Ahead(t, Started(r), x \o y)
  BY <1>2, AheadMore, Zenon
<1> QED BY <1>3, Zenon DEF Resumes

LEMMA StartedReads ==
  ASSUME NEW r, Reads(r), r.err = "none"
  PROVE  Reads(Started(r)) /\ Started(r).err = "none" /\ Started(r).stack # <<>>
BY StartedIs

(* The server has said more.                                               *)
LEMMA ResumesSaid ==
  ASSUME NEW r, Reads(r), r.err = "none", NEW y \in Text, NEW todo \in Text, NEW b \in Text,
         Resumes(r, y, todo)
  PROVE  Resumes(r, y \o b, todo \o b)
<1> DEFINE s == Started(r)
<1>0. Reads(s) /\ s.err = "none"
  BY StartedReads, Zenon
<1> SUFFICES ASSUME NEW t1, NEW f1, Reads(t1), Ahead(t1, s, y \o b), Fresh(f1, todo \o b)
             PROVE  SameReader(ProcessItems(t1), ProcessItems(f1))
  BY Zenon DEF Resumes
<1> HIDE DEF s
<1>1. PICK t : Reads(t) /\ Ahead(t, s, y)
  BY <1>0, AheadExists, Zenon
<1>2. PICK f : Fresh(f, todo)
  BY FreshExists, Zenon
<1>3. Ahead(t1, t, b) /\ t.err = "none"
  <2>1. \A v : Ahead(v, t, b) <=> Ahead(v, s, y \o b)
    BY <1>0, <1>1, AheadMore
  <2>2. t.err = "none"
    BY <1>0, <1>1, Zenon DEF Ahead
  <2> QED BY <2>1, <2>2, Zenon
<1>4. Ahead(f1, f, b) /\ f.err = "none" /\ Reads(f) /\ Reads(f1)
  <2>1. /\ Reads(f) /\ f.stack = One /\ f.err = "none" /\ f.reply = NoReply
        /\ Unread(f) = todo
    BY <1>2, Zenon DEF Fresh
  <2>2. /\ Reads(f1) /\ f1.stack = One /\ f1.err = "none" /\ f1.reply = NoReply
        /\ Unread(f1) = todo \o b
    BY Zenon DEF Fresh
  <2> QED BY <2>1, <2>2, Zenon DEF Ahead
<1> DEFINE u == ProcessItems(t)  u1 == ProcessItems(t1)  v == ProcessItems(f)  v1 == ProcessItems(f1)
<1>5. SameReader(u, v)
  BY <1>1, <1>2, Zenon DEF Resumes, s
<1>6. /\ Reads(u) /\ Reads(u1)
      /\ u.err # "none" => SameReader(u1, u)
      /\ u.err = "none" /\ u.stack = <<>> => Ahead(u1, u, b)
      /\ u.err = "none" /\ u.stack # <<>>
           => \A w : Reads(w) /\ Ahead(w, u, b) => SameReader(ProcessItems(w), u1)
  BY <1>1, <1>3, ProcessUnsplit
<1>7. /\ Reads(v) /\ Reads(v1)
      /\ v.err # "none" => SameReader(v1, v)
      /\ v.err = "none" /\ v.stack = <<>> => Ahead(v1, v, b)
      /\ v.err = "none" /\ v.stack # <<>>
           => \A w : Reads(w) /\ Ahead(w, v, b) => SameReader(ProcessItems(w), v1)
  BY <1>4, ProcessUnsplit
<1> HIDE DEF u, u1, v, v1
<1>8. u.err = v.err /\ u.stack = v.stack
  BY <1>5, Zenon DEF SameReader
<1>9. CASE u.err # "none"
  <2>1. SameReader(u1, u) /\ SameReader(v1, v)
    BY <1>6, <1>7, <1>8, <1>9, Zenon
  <2>2. SameReader(u1, v)
    BY <1>5, <2>1, SameBack, Zenon
  <2>3. SameReader(v, v1)
    BY <2>1, SameBack, Zenon
  <2>4. SameReader(u1, v1)
    BY <2>2, <2>3, SameBack, Zenon
  <2> QED BY <2>4, Zenon DEF u1, v1
<1>10. CASE u.err = "none" /\ u.stack = <<>>
  <2>1. Ahead(u1, u, b) /\ Ahead(v1, v, b)
    BY <1>6, <1>7, <1>8, <1>10, Zenon
  <2>2. Ahead(u1, v, b)
    BY <1>5, <2>1, SameBack, Zenon
  <2>3. SameReader(u1, v1)
    BY <2>1, <2>2, SameBack, Zenon
  <2> QED BY <2>3, Zenon DEF u1, v1
<1>11. CASE u.err = "none" /\ u.stack # <<>>
  <2>1. PICK w : Reads(w) /\ Ahead(w, u, b)
    BY <1>6, <1>11, AheadExists, Zenon
  <2>2. Ahead(w, v, b)
    BY <1>5, <2>1, SameBack, Zenon
  <2>3. SameReader(ProcessItems(w), u1)
    BY <1>6, <1>11, <2>1, Zenon
  <2>4. SameReader(ProcessItems(w), v1)
    BY <1>7, <1>8, <1>11, <2>1, <2>2, Zenon
  <2>5. SameReader(u1, ProcessItems(w))
    BY <2>3, SameBack, Zenon
  <2>6. SameReader(u1, v1)
    BY <2>4, <2>5, SameBack, Zenon
  <2> QED BY <2>6, Zenon DEF u1, v1
<1> QED BY <1>9, <1>10, <1>11, Zenon

(* A reader that was asked, and stopped for want of bytes: d is what is    *)
(* left of it.                                                             *)
LEMMA ResumesNext ==
  ASSUME NEW r, Reads(r), r.err = "none", NEW y \in Text, NEW todo, Resumes(r, y, todo),
         NEW p, p = ProcessItems(Started(r)), p.err = "none", p.stack # <<>>,
         NEW d, SameReader(d, p)
  PROVE  Resumes(d, y, todo)
<1> DEFINE s == Started(r)
<1>1. Reads(s) /\ s.err = "none" /\ p = ProcessItems(s)
  BY StartedReads, Zenon
<1>2. Started(d) = d
  BY Zenon DEF Started, SameReader
<1> SUFFICES ASSUME NEW t1, NEW f, Reads(t1), Ahead(t1, d, y), Fresh(f, todo)
             PROVE  SameReader(ProcessItems(t1), ProcessItems(f))
  BY <1>2, Zenon DEF Resumes
<1> HIDE DEF s
<1>3. PICK t : Reads(t) /\ Ahead(t, s, y)
  BY <1>1, AheadExists, Zenon
<1>4. \A w : Reads(w) /\ Ahead(w, p, y) => SameReader(ProcessItems(w), ProcessItems(t))
  BY <1>1, <1>3, ProcessUnsplit
<1>5. Ahead(t1, p, y)
  BY SameBack, Zenon
<1>6. SameReader(ProcessItems(t1), ProcessItems(t))
  BY <1>4, <1>5, Zenon
<1>7. SameReader(ProcessItems(t), ProcessItems(f))
  BY <1>3, Zenon DEF Resumes, s
<1> QED BY <1>6, <1>7, SameBack, Zenon

(* What a reader makes of the bytes it has, if the server has said a       *)
(* first: a, or nothing yet, but an error only if a is no reply.           *)
Gained(p, y, a, rest) ==
  /\ p.err # "none" => a = Bad
  /\ p.err = "none" /\ p.stack = <<>> => p.reply = a /\ a # NoReply /\ Unread(p) \o y = rest
  /\ p.err = "none" /\ p.stack # <<>> => y # <<>>

LEMMA ResumesMade ==
  ASSUME NEW r, Reads(r), r.err = "none", NEW y \in Text,
         NEW b \in Text, NEW a, Says(b, a), NEW rest \in Text, Resumes(r, y, b \o rest),
         NEW p, p = ProcessItems(Started(r))
  PROVE  Gained(p, y, a, rest)
<1> DEFINE s == Started(r)
<1>1. Reads(s) /\ s.err = "none" /\ p = ProcessItems(s)
  BY StartedReads, Zenon
<1>2. b \o rest \in Text
  BY Joins
<1>3. PICK f : Fresh(f, b \o rest)
  BY <1>2, FreshExists, Zenon
<1>4. Made(ProcessItems(f), a, rest)
  BY <1>3, SaysFirst
<1>5. \A t : Reads(t) /\ Ahead(t, s, y) => SameReader(ProcessItems(t), ProcessItems(f))
  BY <1>3, Zenon DEF Resumes
<1> HIDE DEF s
<1>6. PICK t : Reads(t) /\ Ahead(t, s, y)
  BY <1>1, AheadExists, Zenon
<1> DEFINE w == ProcessItems(t)
<1>7. Made(w, a, rest)
  BY <1>4, <1>5, <1>6, Zenon DEF SameReader, Made
<1>8. /\ Reads(p) /\ (p.err # "none" => SameReader(w, p))
      /\ p.err = "none" /\ p.stack = <<>> => Ahead(w, p, y)
  BY <1>1, <1>6, ProcessUnsplit
<1> HIDE DEF w
<1>9. p.err # "none" => a = Bad
  BY <1>7, <1>8, Zenon DEF SameReader, Made
<1>10. p.err = "none" /\ p.stack = <<>>
         => p.reply = a /\ a # NoReply /\ Unread(p) \o y = rest
  BY <1>7, <1>8, Zenon DEF Ahead, Made
<1>11. ASSUME p.err = "none", p.stack # <<>>, y = <<>> PROVE FALSE
  <2>1. Ahead(s, s, <<>>)
    BY <1>1, AheadNone, Zenon
  <2>2. SameReader(p, ProcessItems(f))
    BY <1>1, <1>5, <1>11, <2>1, Zenon
  <2> QED BY <1>4, <1>11, <2>2, Zenon DEF SameReader, Made
<1> QED BY <1>9, <1>10, <1>11, Zenon DEF Gained

(* If the server has said no more, it waits.                               *)
LEMMA ResumesNone ==
  ASSUME NEW r, Reads(r), r.err = "none", NEW y \in Text, Resumes(r, y, <<>>),
         NEW p, p = ProcessItems(Started(r))
  PROVE  Reads(p) /\ p.err = "none" /\ p.stack # <<>>
<1> DEFINE s == Started(r)
<1>1. Reads(s) /\ s.err = "none" /\ p = ProcessItems(s)
  BY StartedReads, Zenon
<1>2. <<>> \in Text
  BY DEF Text
<1>3. PICK f : Fresh(f, <<>>)
  BY <1>2, FreshExists, Zenon
<1>4. ProcessItems(f).err = "none" /\ ProcessItems(f).stack # <<>>
  <2>1. One # <<>>
    BY DEF One
  <2>2. Reads(f) /\ f.err = "none" /\ f.stack # <<>> /\ Unread(f) = <<>>
    BY <1>3, <2>1, Zenon DEF Fresh
  <2> QED BY <2>2, EmptyWaits, Zenon
<1>5. \A t : Reads(t) /\ Ahead(t, s, y) => SameReader(ProcessItems(t), ProcessItems(f))
  BY <1>3, Zenon DEF Resumes
<1> HIDE DEF s
<1>6. PICK t : Reads(t) /\ Ahead(t, s, y)
  BY <1>1, AheadExists, Zenon
<1> DEFINE w == ProcessItems(t)
<1>7. w.err = "none" /\ w.stack # <<>>
  BY <1>4, <1>5, <1>6, Zenon DEF SameReader
<1>8. /\ Reads(p) /\ (p.err # "none" => SameReader(w, p))
      /\ p.err = "none" /\ p.stack = <<>> => Ahead(w, p, y)
  BY <1>1, <1>6, ProcessUnsplit
<1> QED BY <1>7, <1>8, Zenon DEF SameReader, Ahead

-----------------------------------------------------------------------------
(* What the server has said, and the library has yet to give.              *)

(* Of the replies said n have been given; the pieces s say the others.     *)
Owing(s, said, n) ==
  /\ s \in Seq(Text) /\ n + Len(s) = Len(said)
  /\ \A i \in 1 .. Len(s) : Says(s[i], said[n + i])

(* The reader r goes on with them through y, the bytes on their way.       *)
Unbroken(r, y, said, n) == \E s : Owing(s, said, n) /\ Resumes(r, y, FlattenSeq(s))

(* r stopped for want of bytes, and has had none since.                    *)
Asked(r) ==
  ProcessItems(Started(r)).err = "none" /\ ProcessItems(Started(r)).stack # <<>>

LEMMA NoneFlat == FlattenSeq(<<>>) = <<>> /\ <<>> \in Seq(Text) /\ <<>> \in Text
<1>1. <<>> \in Seq(Seq(Bytes)) /\ Len(<<>>) = 0
  OBVIOUS
<1>2. FlattenSeq(<<>>) = Joined(<<>>)[0]
  BY <1>1, Flat
<1>3. FlattenSeq(<<>>) = <<>>
  BY <1>1, <1>2, JoinedIs
<1>4. <<>> \in Seq(Text) /\ <<>> \in Text
  BY DEF Text
<1> QED BY <1>3, <1>4, Zenon

LEMMA UnbrokenAnew == Unbroken(redisReaderCreate, <<>>, <<>>, 0)
<1> DEFINE r == redisReaderCreate  e == <<>>
<1>1. /\ Reads(r) /\ r.err = "none" /\ r.stack = <<>> /\ r.reply = NoReply
      /\ Unread(r) = <<>>
  BY CreateIs, Zenon
<1>2. Owing(<<>>, <<>>, 0)
  BY DEF Owing
<1>3. FlattenSeq(e) = <<>>
  BY NoneFlat, Zenon
<1> HIDE DEF r
<1>4. Unread(r) \o e = <<>>
  <2>1. <<>> \o <<>> = <<>>
    OBVIOUS
  <2> QED BY <1>1, <2>1, Zenon
<1>5. Resumes(r, e, <<>>)
  BY <1>1, <1>4, ResumesAnew, Zenon
<1>6. Resumes(r, e, FlattenSeq(e))
  BY <1>3, <1>5, Zenon
<1> QED BY <1>2, <1>6, Zenon DEF Unbroken, r

LEMMA OwingFirst ==
  ASSUME NEW S, NEW said \in Seq(S), NEW n \in Nat, n < Len(said), NEW s, Owing(s, said, n)
  PROVE  /\ s[1] \in Text /\ Says(s[1], said[n + 1]) /\ n + 1 \in 1 .. Len(said)
         /\ \E t : /\ Owing(t, said, n + 1) /\ FlattenSeq(t) \in Text
                   /\ FlattenSeq(s) = s[1] \o FlattenSeq(t)
<1>1. /\ s \in Seq(Text) /\ n + Len(s) = Len(said)
      /\ \A i \in 1 .. Len(s) : Says(s[i], said[n + i])
  BY Zenon DEF Owing
<1>2. Len(s) \in Nat /\ Len(said) \in Nat
  BY <1>1
<1>3. 1 \in 1 .. Len(s) /\ n + 1 \in 1 .. Len(said)
  BY <1>1, <1>2
<1>4. s[1] \in Text
  BY <1>1, <1>3
<1> DEFINE t == Tail(s)  w == s[1]  a == <<w>> \o t
<1>5. /\ t \in Seq(Text) /\ Len(t) = Len(s) - 1
      /\ \A i \in 1 .. Len(s) - 1 : t[i] = s[i + 1]
  BY <1>1, <1>2, <1>3
<1>6. s = a
  <2>1. /\ a \in Seq(Text) /\ Len(a) = Len(s) /\ a[1] = s[1]
        /\ \A i \in 1 .. Len(t) : a[i + 1] = t[i]
    <3> HIDE DEF t, w
    <3>1. w \in Text
      BY <1>4 DEF w
    <3>2. /\ a \in Seq(Text) /\ Len(a) = 1 + Len(t) /\ a[1] = w
          /\ \A i \in 1 .. Len(t) : a[i + 1] = t[i]
      BY <1>5, <3>1
    <3>3. 1 + Len(t) = Len(s)
      BY <1>2, <1>5
    <3> QED BY <3>2, <3>3, Zenon DEF w
  <2> HIDE DEF a, t
  <2>2. ASSUME NEW i \in 1 .. Len(s) PROVE s[i] = a[i]
    <3>1. CASE i = 1
      BY <2>1, <3>1
    <3>2. CASE i # 1
      <4>1. i - 1 \in 1 .. Len(s) - 1 /\ i - 1 \in 1 .. Len(t) /\ (i - 1) + 1 = i
        BY <1>2, <1>5, <3>2
      <4> QED BY <1>5, <2>1, <4>1
    <3> QED BY <3>1, <3>2
  <2> QED BY <1>1, <2>1, <2>2, SeqEqual
<1>7. FlattenSeq(t) \in Text /\ FlattenSeq(a) = w \o FlattenSeq(t)
  <2> HIDE DEF t, w
  <2>1. t \in Seq(Seq(Bytes)) /\ w \in Seq(Bytes)
    BY <1>4, <1>5 DEF Text, w
  <2> QED BY <2>1, FlatTyped, FlatCons DEF Text
<1>8. Owing(t, said, n + 1)
  <2>1. (n + 1) + Len(t) = Len(said)
    BY <1>1, <1>2, <1>5
  <2>2. ASSUME NEW i \in 1 .. Len(t) PROVE Says(t[i], said[(n + 1) + i])
    <3>1. i \in 1 .. Len(s) - 1 /\ i + 1 \in 1 .. Len(s) /\ n + (i + 1) = (n + 1) + i
      BY <1>2, <1>5
    <3>2. Says(s[i + 1], said[n + (i + 1)]) /\ t[i] = s[i + 1]
      BY <1>1, <1>5, <3>1, Zenon
    <3> HIDE DEF t
    <3> QED BY <3>1, <3>2, Zenon
  <2> HIDE DEF t
  <2> QED BY <1>5, <2>1, <2>2, Zenon DEF Owing
<1>9. Says(s[1], said[n + 1])
  BY <1>1, <1>3, Zenon
<1> HIDE DEF t, a
<1>10. FlattenSeq(s) = s[1] \o FlattenSeq(t)
  BY <1>6, <1>7, Zenon DEF w
<1> QED BY <1>3, <1>4, <1>7, <1>8, <1>9, <1>10, Zenon

LEMMA OwingMore ==
  ASSUME NEW S, NEW said \in Seq(S), NEW n \in Nat, NEW s, Owing(s, said, n),
         NEW a \in S, NEW b \in Text, Says(b, a)
  PROVE  /\ Owing(Append(s, b), Append(said, a), n) /\ FlattenSeq(s) \in Text
         /\ FlattenSeq(Append(s, b)) = FlattenSeq(s) \o b
<1> DEFINE t == Append(s, b)  more == Append(said, a)
<1>1. /\ s \in Seq(Text) /\ n + Len(s) = Len(said)
      /\ \A i \in 1 .. Len(s) : Says(s[i], said[n + i])
  BY Zenon DEF Owing
<1>2. /\ t \in Seq(Text) /\ Len(t) = Len(s) + 1 /\ t[Len(s) + 1] = b
      /\ \A i \in 1 .. Len(s) : t[i] = s[i]
  BY <1>1, AppendProperties
<1>3. /\ more \in Seq(S) /\ Len(more) = Len(said) + 1 /\ more[Len(said) + 1] = a
      /\ \A i \in 1 .. Len(said) : more[i] = said[i]
  BY AppendProperties
<1>4. Len(s) \in Nat /\ Len(said) \in Nat
  BY <1>1
<1>5. FlattenSeq(s) \in Text /\ FlattenSeq(t) = FlattenSeq(s) \o b
  BY <1>1, FlatTyped, FlatAppend DEF Text
<1> HIDE DEF t, more
<1>6. ASSUME NEW i \in 1 .. Len(t) PROVE Says(t[i], more[n + i])
  <2>1. CASE i \in 1 .. Len(s)
    <3>1. n + i \in 1 .. Len(said)
      BY <1>1, <1>4, <2>1
    <3>2. t[i] = s[i] /\ more[n + i] = said[n + i] /\ Says(s[i], said[n + i])
      BY <1>1, <1>2, <1>3, <2>1, <3>1, Zenon
    <3> QED BY <3>2, Zenon
  <2>2. CASE i = Len(s) + 1
    <3>1. n + i = Len(said) + 1
      BY <1>1, <1>4, <2>2
    <3> QED BY <1>2, <1>3, <2>2, <3>1, Zenon
  <2> QED BY <1>2, <1>4, <2>1, <2>2
<1>7. n + Len(t) = Len(more)
  BY <1>1, <1>2, <1>3, <1>4
<1>8. Owing(t, more, n)
  BY <1>2, <1>6, <1>7, Zenon DEF Owing
<1> QED BY <1>5, <1>8, Zenon DEF t, more

LEMMA UnbrokenSaid ==
  ASSUME NEW r, Reads(r), r.err = "none", NEW y \in Text,
         NEW S, NEW said \in Seq(S), NEW n \in Nat, Unbroken(r, y, said, n),
         NEW a \in S, NEW b \in Text, Says(b, a)
  PROVE  Unbroken(r, y \o b, Append(said, a), n)
<1>1. PICK s : Owing(s, said, n) /\ Resumes(r, y, FlattenSeq(s))
  BY Zenon DEF Unbroken
<1> DEFINE t == Append(s, b)  more == Append(said, a)
<1>2. Owing(t, more, n) /\ FlattenSeq(s) \in Text /\ FlattenSeq(t) = FlattenSeq(s) \o b
  BY <1>1, OwingMore
<1>3. Resumes(r, y \o b, FlattenSeq(s) \o b)
  BY <1>1, <1>2, ResumesSaid
<1> HIDE DEF t, more
<1>4. Unbroken(r, y \o b, more, n)
  BY <1>2, <1>3, Zenon DEF Unbroken
<1> QED BY <1>4, Zenon DEF more

LEMMA UnbrokenFed ==
  ASSUME NEW r, Reads(r), r.err = "none", NEW x \in Text, NEW y \in Text,
         NEW said, NEW n, Unbroken(r, x \o y, said, n),
         NEW q, q = redisReaderFeed(r, x)
  PROVE  Unbroken(q, y, said, n)
<1>1. PICK s : Owing(s, said, n) /\ Resumes(r, x \o y, FlattenSeq(s))
  BY Zenon DEF Unbroken
<1> DEFINE todo == FlattenSeq(s)
<1>2. Resumes(r, x \o y, todo)
  BY <1>1, Zenon
<1> HIDE DEF todo
<1>3. Resumes(q, y, todo)
  BY <1>2, ResumesFed
<1> QED BY <1>1, <1>3, Zenon DEF Unbroken, todo

(* A reader that was asked and had too few bytes.                          *)
LEMMA Waited ==
  ASSUME NEW r, Reads(r), r.err = "none", NEW p, p = ProcessItems(Started(r)),
         p.err = "none", p.stack # <<>>, NEW q, Reads(q), SameReader(q, p),
         NEW y \in Text, NEW todo, Resumes(r, y, todo)
  PROVE  Resumes(q, y, todo) /\ Asked(q) /\ q.err = "none"
<1> DEFINE s == Started(r)
<1>1. Reads(s) /\ s.err = "none" /\ p = ProcessItems(s)
  BY StartedReads, Zenon
<1>2. Resumes(q, y, todo)
  BY ResumesNext
<1> HIDE DEF s
<1>3. SameReader(ProcessItems(p), p)
  BY <1>1, Stays, Zenon
<1>4. Reads(p)
  <2>1. Ahead(s, s, <<>>) /\ <<>> \in Text
    BY <1>1, AheadNone, Zenon
  <2> QED BY <1>1, <2>1, ProcessUnsplit
<1>5. SameReader(ProcessItems(q), ProcessItems(p))
  BY <1>4, ProcessAlike, Zenon
<1>6. SameReader(ProcessItems(q), p)
  BY <1>3, <1>5, SameBack, Zenon
<1>7. Started(q) = q /\ q.err = "none"
  BY Zenon DEF Started, SameReader
<1>8. Asked(q)
  BY <1>6, <1>7, Zenon DEF Asked, SameReader
<1> QED BY <1>2, <1>7, <1>8, Zenon

(* What asking a reader does to what is owed.                              *)
LEMMA UnbrokenAsked ==
  ASSUME NEW r, Reads(r), r.err = "none", NEW y \in Text,
         NEW S, NEW said \in Seq(S), NEW n \in Nat, n <= Len(said), Unbroken(r, y, said, n),
         NEW g, g = redisReaderGetReply(r)
  PROVE  /\ ~g.ok => Bad \in Range(said) /\ g.r.err # "none"
         /\ g.ok => g.r.err = "none"
         /\ g.ok /\ g.reply = NoReply => Unbroken(g.r, y, said, n) /\ Asked(g.r)
         /\ g.ok /\ g.reply # NoReply
              => /\ n < Len(said) /\ g.reply = said[n + 1]
                 /\ Unbroken(g.r, y, said, n + 1)
<1>1. PICK s : Owing(s, said, n) /\ Resumes(r, y, FlattenSeq(s))
  BY Zenon DEF Unbroken
<1> DEFINE p == ProcessItems(Started(r))  todo == FlattenSeq(s)
<1>2. Len(said) \in Nat /\ Len(s) \in Nat /\ n + Len(s) = Len(said) /\ s \in Seq(Text)
  <2>1. s \in Seq(Text) /\ n + Len(s) = Len(said)
    BY <1>1, Zenon DEF Owing
  <2> QED BY <2>1
<1>3. CASE r.buf.data = <<>>
  <2>1. g = [ok |-> r.err = "none", r |-> r, reply |-> NoReply]
    BY <1>3, GetReplyIs, Zenon
  <2> DEFINE e == r.err = "none"  no == NoReply
  <2>2. g = [ok |-> e, r |-> r, reply |-> no]
    BY <2>1, Zenon
  <2> HIDE DEF e, no
  <2>3. g.ok = e /\ g.r = r /\ g.reply = no
    BY <2>2
  <2>4. g.ok /\ g.r = r /\ g.reply = NoReply
    BY <2>3, Zenon DEF e, no
  <2>5. Unread(r) = <<>>
    <3>1. Unread(r) = Rest(r.buf.data, r.pos) /\ r.pos \in 0 .. Len(r.buf.data)
      BY UnreadIs, Zenon DEF Reads
    <3>2. \A k \in 0 .. Len(<<>>) : Rest(<<>>, k) = <<>>
      BY DEF Rest
    <3> QED BY <1>3, <3>1, <3>2, Zenon
  <2> DEFINE q == Started(r)
  <2>6. Reads(q) /\ q.err = "none" /\ q.stack # <<>> /\ Unread(q) = <<>>
    <3>1. Reads(q) /\ q.err = r.err /\ q.stack # <<>> /\ Unread(q) = Unread(r)
      BY StartedIs, Zenon
    <3> HIDE DEF q
    <3> QED BY <2>5, <3>1, Zenon
  <2> HIDE DEF q
  <2>7. ProcessItems(q).err = "none" /\ ProcessItems(q).stack # <<>>
    BY <2>6, EmptyWaits, Zenon
  <2>8. Asked(r)
    BY <2>7, Zenon DEF Asked, q
  <2> QED BY <2>4, <2>8, Zenon
<1>4. CASE r.buf.data # <<>>
  <2>1. g = Emit(Cut(p))
    BY <1>4, GetReplyIs, Zenon
  <2>2. Reads(p)
    <3> DEFINE q == Started(r)
    <3>1. Reads(q) /\ q.err = "none"
      BY StartedReads, Zenon
    <3> HIDE DEF q
    <3>2. Ahead(q, q, <<>>) /\ <<>> \in Text
      BY <3>1, AheadNone, Zenon
    <3>3. Reads(ProcessItems(q))
      BY <3>1, <3>2, ProcessUnsplit
    <3> QED BY <3>3, Zenon DEF q
  <2> DEFINE d == Cut(p)
  <2>3. Reads(d) /\ SameReader(d, p)
    <3> HIDE DEF p
    <3> QED BY <2>2, CutIs
  <2>4. g = Emit(d)
    BY <2>1, Zenon
  <2> HIDE DEF d
  <2>5. /\ Reads(g.r) /\ g.r.stack = d.stack /\ g.r.err = d.err /\ Unread(g.r) = Unread(d)
        /\ g.ok = (d.err = "none")
        /\ g.r.reply = (IF d.stack = <<>> THEN NoReply ELSE d.reply)
        /\ g.reply = (IF d.stack = <<>> THEN d.reply ELSE NoReply)
    BY <2>3, <2>4, EmitIs
  <2> HIDE DEF p
  <2>6. /\ g.r.stack = p.stack /\ g.r.err = p.err /\ Unread(g.r) = Unread(p)
        /\ g.ok = (p.err = "none")
        /\ g.r.reply = (IF p.stack = <<>> THEN NoReply ELSE p.reply)
        /\ g.reply = (IF p.stack = <<>> THEN p.reply ELSE NoReply)
    BY <2>3, <2>5, Zenon DEF SameReader
  <2>7. ASSUME p.err = "none", p.stack # <<>>
        PROVE  g.ok /\ g.r.err = "none" /\ g.reply = NoReply
               /\ Unbroken(g.r, y, said, n) /\ Asked(g.r)
    <3>1. SameReader(g.r, p)
      BY <2>6, <2>7, Zenon DEF SameReader
    <3>2. Resumes(r, y, todo)
      BY <1>1, Zenon
    <3> HIDE DEF todo
    <3>3. Resumes(g.r, y, todo) /\ Asked(g.r) /\ g.r.err = "none"
      <4> DEFINE q == g.r
      <4>1. Reads(q) /\ SameReader(q, p)
        BY <2>5, <3>1, Zenon
      <4> HIDE DEF q
      <4>2. Resumes(q, y, todo) /\ Asked(q) /\ q.err = "none"
        BY <2>7, <3>2, <4>1, Waited, Zenon DEF p
      <4> QED BY <4>2, Zenon DEF q
    <3>4. Unbroken(g.r, y, said, n)
      BY <1>1, <3>3, Zenon DEF Unbroken, todo
    <3> QED BY <2>6, <2>7, <3>3, <3>4, Zenon
  <2>8. CASE n = Len(said)
    <3>1. Len(s) = 0
      BY <1>2, <2>8
    <3>2. s = <<>>
      BY <1>2, <3>1
    <3>3. todo = <<>>
      BY <3>2, NoneFlat, Zenon
    <3>4. Resumes(r, y, <<>>)
      BY <1>1, <3>3, Zenon
    <3>5. p.err = "none" /\ p.stack # <<>>
      BY <3>4, ResumesNone, Zenon DEF p
    <3> QED BY <2>7, <3>5, Zenon
  <2>9. CASE n < Len(said)
    <3>1. s[1] \in Text /\ Says(s[1], said[n + 1]) /\ n + 1 \in 1 .. Len(said)
      BY <1>1, <2>9, OwingFirst
    <3>2. PICK t : /\ Owing(t, said, n + 1) /\ FlattenSeq(t) \in Text
                   /\ FlattenSeq(s) = s[1] \o FlattenSeq(t)
      BY <1>1, <2>9, OwingFirst
    <3> DEFINE a == said[n + 1]  b == s[1]  rest == FlattenSeq(t)
    <3>3. b \in Text /\ Says(b, a) /\ rest \in Text /\ Resumes(r, y, b \o rest)
      BY <1>1, <3>1, <3>2, Zenon
    <3>4. a \in Range(said)
      BY <3>1 DEF Range
    <3> HIDE DEF a, b, rest
    <3>5. /\ p.err # "none" => a = Bad
          /\ p.err = "none" /\ p.stack = <<>>
               => p.reply = a /\ a # NoReply /\ Unread(p) \o y = rest
      <4>1. p = ProcessItems(Started(r))
        BY Zenon DEF p
      <4>2. Gained(p, y, a, rest)
        BY <3>3, <4>1, ResumesMade
      <4> QED BY <4>2, Zenon DEF Gained
    <3>6. CASE p.err # "none"
      BY <2>6, <3>4, <3>5, <3>6, Zenon
    <3>7. CASE p.err = "none" /\ p.stack # <<>>
      BY <2>7, <3>7, Zenon
    <3>8. CASE p.err = "none" /\ p.stack = <<>>
      <4>1. /\ Reads(g.r) /\ g.r.err = "none" /\ g.r.stack = <<>> /\ g.r.reply = NoReply
            /\ Unread(g.r) \o y = rest
        BY <2>5, <2>6, <3>5, <3>8, Zenon
      <4>2. Resumes(g.r, y, rest)
        <5> DEFINE q == g.r
        <5>1. /\ Reads(q) /\ q.err = "none" /\ q.stack = <<>> /\ q.reply = NoReply
              /\ Unread(q) \o y = rest
          BY <4>1, Zenon
        <5> HIDE DEF q
        <5>2. Resumes(q, y, rest)
          BY <5>1, ResumesAnew, Zenon
        <5> QED BY <5>2, Zenon DEF q
      <4>3. Unbroken(g.r, y, said, n + 1)
        BY <3>2, <4>2, Zenon DEF Unbroken, rest
      <4>4. g.reply = a /\ a # NoReply /\ g.ok
        BY <2>6, <3>5, <3>8, Zenon
      <4> QED BY <2>9, <4>1, <4>3, <4>4, Zenon DEF a
    <3> QED BY <3>6, <3>7, <3>8, Zenon
  <2>10. n = Len(said) \/ n < Len(said)
    BY <1>2
  <2> QED BY <2>8, <2>9, <2>10, Zenon
<1> QED BY <1>3, <1>4, Zenon

(* A reader that waits with nothing on its way to it has given everything. *)
LEMMA UnbrokenNone ==
  ASSUME NEW r, Reads(r), r.err = "none", NEW S, NEW said \in Seq(S), NEW n \in Nat,
         n <= Len(said), Unbroken(r, <<>>, said, n), Asked(r)
  PROVE  n = Len(said)
<1> SUFFICES ASSUME n < Len(said) PROVE FALSE
  OBVIOUS
<1>1. PICK s : Owing(s, said, n) /\ Resumes(r, <<>>, FlattenSeq(s))
  BY Zenon DEF Unbroken
<1>2. s[1] \in Text /\ Says(s[1], said[n + 1])
  BY <1>1, OwingFirst
<1>3. PICK t : FlattenSeq(t) \in Text /\ FlattenSeq(s) = s[1] \o FlattenSeq(t)
  BY <1>1, OwingFirst
<1> DEFINE a == said[n + 1]  b == s[1]  rest == FlattenSeq(t)  p == ProcessItems(Started(r))
           y == <<>>
<1>4. b \in Text /\ Says(b, a) /\ rest \in Text /\ Resumes(r, y, b \o rest) /\ y \in Text
  BY <1>1, <1>2, <1>3, NoneFlat, Zenon
<1>5. p.err = "none" /\ p.stack # <<>>
  BY Zenon DEF Asked
<1>6. p = ProcessItems(Started(r))
  BY Zenon
<1> HIDE DEF a, b, rest, y, p
<1>7. Gained(p, y, a, rest)
  BY <1>4, <1>6, ResumesMade
<1> QED BY <1>5, <1>7, Zenon DEF Gained, y

-----------------------------------------------------------------------------
(* What the library gives out.                                             *)
Said == Replies \cup {Bad}
Suits(h, a) == h.reply = a /\ (h.to = "callback") = IsPush(a)

(* What was handed out is what was said first.                             *)
Given ==
  /\ answered \in Seq(Said)
  /\ handed \in Seq([to : {"callback", "program"}, reply : Said])
  /\ Len(handed) <= Len(answered)
  /\ \A i \in 1 .. Len(handed) : Suits(handed[i], answered[i])

(* Only what is no reply is an error of the parser.                        *)
Blamed == c.err = "PROTOCOL" \/ c.reader.err # "none" => Bad \in Range(answered)

(* What was said and not given is in the parser and on its way; once the   *)
(* socket is closed what was on its way no longer matters.                 *)
Owed ==
  c.reader.err = "none" =>
     \E y \in Text : /\ c.fd # NoFd => y = net[c.fd].down
                     /\ Unbroken(c.reader, y, answered, Len(handed))

(* Nothing is said before there is a connection, or on another.            *)
Silent ==
  /\ pc \in Early => /\ answered = <<>> /\ handed = <<>> /\ c.reader = redisReaderCreate
                     /\ c.err # "PROTOCOL"
  /\ \A fd \in Fds : fd # c.fd => net[fd].down = <<>>

(* A program waits only if the parser, asked, had no reply.                *)
Idle == pc \in {"write", "read"} /\ c.reader.err = "none" => Asked(c.reader)

Order == Given /\ Blamed /\ Owed /\ Silent /\ Idle

LEMMA NothingGiven ==
  ASSUME answered = <<>>, handed = <<>>
  PROVE  Given /\ Len(handed) = 0
BY DEF Given

(* Where a connection starts, or there is none.                            *)
Anew ==
  /\ c.reader = redisReaderCreate /\ answered = <<>> /\ handed = <<>> /\ c.err # "PROTOCOL"
  /\ c.fd \in {NoFd} \cup Fds /\ \A fd \in Fds : net[fd].down = <<>>
  /\ pc \notin {"write", "read"}

LEMMA OrderAnew == Anew => Order
<1> SUFFICES ASSUME Anew PROVE Order
  OBVIOUS
<1> USE DEF Anew
<1>1. Given /\ Len(handed) = 0
  BY NothingGiven
<1>2. c.reader.err = "none"
  BY CreateIs, Zenon
<1>3. Blamed
  BY <1>2, Zenon DEF Blamed
<1>4. Unbroken(c.reader, <<>>, answered, Len(handed))
  BY <1>1, UnbrokenAnew, Zenon
<1>5. c.fd # NoFd => <<>> = net[c.fd].down
  BY DEF NoFd
<1>6. Owed
  BY <1>4, <1>5, NoneFlat, Zenon DEF Owed
<1>7. Silent /\ Idle
  BY Zenon DEF Silent, Idle
<1> QED BY <1>1, <1>3, <1>6, <1>7, Zenon DEF Order

LEMMA OrderInit == Init => Order
<1> SUFFICES ASSUME Init PROVE Order
  OBVIOUS
<1>1. /\ c.reader = redisReaderCreate /\ c.err = "none" /\ c.fd = NoFd
      /\ answered = <<>> /\ handed = <<>> /\ pc = "new"
  BY DEF Init, redisContextInit
<1>2. \A fd \in Fds : net[fd].down = <<>>
  BY DEF Init, Free
<1>3. Anew
  BY <1>1, <1>2 DEF Anew
<1> QED BY <1>3, OrderAnew

LEMMA AnewStep ==
  ASSUME c'.reader = redisReaderCreate, answered' = <<>>, handed' = <<>>,
         c'.err # "PROTOCOL", SockInv', \A fd \in Fds : net'[fd].down = <<>>,
         pc' \notin {"write", "read"}
  PROVE  Order'
<1>1. c'.fd \in {NoFd} \cup Fds
  BY DEF SockInv, Shape
<1>2. Anew'
  BY <1>1, Zenon DEF Anew
<1> QED BY <1>2, OrderAnew, PTL

(* A step between connections, or of the attempt at one.                   *)
Hushed == \A fd \in Fds : net'[fd].down = IF fd = c'.fd THEN net[fd].down ELSE <<>>

LEMMA HushHere ==
  ASSUME Order, c'.fd = c.fd, \A fd \in Fds : net'[fd].down = net[fd].down
  PROVE  Hushed
BY Zenon DEF Order, Silent, Hushed

LEMMA HushClosed ==
  ASSUME SockInv, Order, c'.fd = NoFd, net' = IF c.fd = NoFd THEN net ELSE Close(c.fd)
  PROVE  Hushed /\ \A fd \in Fds : net'[fd].down = <<>>
<1>1. \A fd \in Fds : net'[fd] = IF fd = c.fd THEN Free ELSE net[fd]
  BY DEF SockInv, Shape, Sockets, Close, Fds, NoFd
<1>2. \A fd \in Fds : net'[fd].down = <<>>
  BY <1>1 DEF Free, Order, Silent
<1>3. \A fd \in Fds : fd # c'.fd
  BY DEF Fds, NoFd
<1> QED BY <1>2, <1>3, Zenon DEF Hushed

LEMMA PeerDown ==
  ASSUME SockInv, NEW fd, NEW peer, net' = Attempt(fd, peer)
  PROVE  \A f \in Fds : net'[f].down = net[f].down
<1>1. net' = Peered(net, fd, peer)
  BY DEF Attempt, Peered
<1> QED BY <1>1, PeeredDoes DEF SockInv, Shape

(* A step in which nothing is said, read or given.                         *)
LEMMA Mute ==
  ASSUME SockInv, Order, SockInv', UNCHANGED <<answered, handed>>, c'.reader = c.reader,
         c'.err = "PROTOCOL" => c.err = "PROTOCOL",
         options'.callback = options.callback, options'.bits = options.bits,
         c'.fd \in {NoFd, c.fd}, Hushed, pc' \notin Early,
         pc' \in {"write", "read"} => pc \in {"write", "read"}
  PROVE  Order'
<1>1. \A h, a : Suits(h, a)' = Suits(h, a)
  BY DEF Suits, IsPush, HasPushCallback
<1>2. Given'
  BY <1>1 DEF Order, Given, Suits, IsPush, HasPushCallback
<1>3. Blamed'
  BY Zenon DEF Order, Blamed
<1>4. ASSUME c'.reader.err = "none"
      PROVE  \E y \in Text : /\ c'.fd # NoFd => y = net'[c'.fd].down
                             /\ Unbroken(c'.reader, y, answered', Len(handed'))
  <2>1. PICK y \in Text : /\ c.fd # NoFd => y = net[c.fd].down
                          /\ Unbroken(c.reader, y, answered, Len(handed))
    BY <1>4, Zenon DEF Order, Owed
  <2>2. c'.fd # NoFd => c'.fd = c.fd /\ c.fd \in Fds
    BY DEF SockInv, Shape
  <2>3. c'.fd # NoFd => net'[c'.fd].down = net[c.fd].down
    BY <2>2, Zenon DEF Hushed
  <2>4. c'.fd # NoFd => y = net'[c'.fd].down
    BY <2>1, <2>2, <2>3, Zenon
  <2>5. Unbroken(c'.reader, y, answered', Len(handed'))
    BY <2>1, Zenon
  <2> QED BY <2>4, <2>5, Zenon
<1>5. Owed'
  BY <1>4, Zenon DEF Owed
<1>6. Silent'
  <2>1. \A fd \in Fds : fd # c'.fd => net'[fd].down = <<>>
    BY Zenon DEF Hushed
  <2> QED BY <2>1, Zenon DEF Silent
<1>7. Idle'
  <2>1. pc' \in {"write", "read"} /\ c'.reader.err = "none" => Asked(c'.reader)
    BY Zenon DEF Order, Idle
  <2> QED BY <2>1, Zenon DEF Idle
<1> QED BY <1>2, <1>3, <1>5, <1>6, <1>7, Zenon DEF Order

(* Before there is a connection.                                           *)
LEMMA EarlyStep ==
  ASSUME SockInv, Order, SockInv', pc \in Early, UNCHANGED <<answered, handed>>,
         c'.reader = c.reader, c'.err = c.err \/ c'.err # "PROTOCOL",
         \A fd \in Fds : net'[fd].down = net[fd].down, pc' \notin {"write", "read"}
  PROVE  Order'
<1>1. /\ answered = <<>> /\ handed = <<>> /\ c.reader = redisReaderCreate
      /\ c.err # "PROTOCOL" /\ \A fd \in Fds : fd # c.fd => net[fd].down = <<>>
  BY Zenon DEF Order, Silent
<1>2. \A fd \in Fds : fd # c.fd
  BY DEF SockInv, Early, Fds, NoFd
<1>3. \A fd \in Fds : net'[fd].down = <<>>
  BY <1>1, <1>2, Zenon
<1>4. c'.err # "PROTOCOL" /\ c'.reader = redisReaderCreate /\ answered' = <<>> /\ handed' = <<>>
  BY <1>1, Zenon
<1> QED BY <1>3, <1>4, AnewStep

LEMMA CloseOrdered ==
  ASSUME SockInv, Order, SockInv', NEW e, e # "PROTOCOL", Closing(e), pc \notin Early
  PROVE  Order'
<1>1. /\ c'.reader = c.reader /\ c'.err = e /\ c'.fd = NoFd
      /\ net' = IF c.fd = NoFd THEN net ELSE Close(c.fd)
      /\ UNCHANGED <<answered, handed, options>> /\ pc' = "failed"
  BY DEF Closing, SockInv, Shape, unsaid, Go
<1>2. Hushed
  BY <1>1, HushClosed
<1>3. pc' \notin Early /\ pc' \notin {"write", "read"}
  BY <1>1 DEF Early
<1> QED BY <1>1, <1>2, <1>3, Mute

LEMMA CloseEarly ==
  ASSUME SockInv, Order, SockInv', NEW e, e # "PROTOCOL", Closing(e), pc \in Early
  PROVE  Order'
<1>1. /\ c'.reader = c.reader /\ c'.err = e /\ net' = net
      /\ UNCHANGED <<answered, handed>> /\ pc' = "failed"
  BY DEF Closing, SockInv, Shape, Early, unsaid, Go
<1> QED BY <1>1, EarlyStep

LEMMA KeepOrdered ==
  ASSUME SockInv, Order, SockInv', NEW e, e # "PROTOCOL", NEW fd, Keeping(e, fd),
         pc \in Early \/ c.fd = fd
  PROVE  Order'
<1>1. /\ c'.reader = c.reader /\ c'.err = e /\ c'.fd = fd
      /\ UNCHANGED <<answered, handed, options>> /\ pc' = "failed"
      /\ net' = Attempt(fd, "unconnected")
  BY DEF Keeping, SockInv, Shape, unsaid, Go
<1>2. \A f \in Fds : net'[f].down = net[f].down
  BY <1>1, PeerDown
<1>3. pc' \notin Early /\ pc' \notin {"write", "read"}
  BY <1>1 DEF Early
<1>4. CASE pc \in Early
  BY <1>1, <1>2, <1>3, <1>4, EarlyStep
<1>5. CASE c.fd = fd
  <2>1. c'.fd = c.fd
    BY <1>1, <1>5
  <2>2. Hushed
    BY <1>2, <2>1, HushHere
  <2> QED BY <1>1, <1>3, <2>1, <2>2, Mute
<1> QED BY <1>4, <1>5

LEMMA AttemptOrdered ==
  ASSUME SockInv, Order, SockInv',
         NoAddress \/ SocketFails \/ SocketUnusable \/ TcpConnect \/ UnixConnect
         \/ redisContextWaitReady \/ redisSetTcpNoDelay \/ Established
  PROVE  Order'
<1> USE DEF unsaid
<1>1. ASSUME pc \in Early, NEW peer, NEW fd, c' = [c EXCEPT !.fd = fd] \/ UNCHANGED c,
             net' = Attempt(fd, peer), UNCHANGED <<answered, handed>>,
             pc' \notin {"write", "read"}
      PROVE  Order'
  <2>1. c'.reader = c.reader /\ c'.err = c.err
    BY <1>1 DEF SockInv, Shape
  <2> QED BY <1>1, <2>1, PeerDown, EarlyStep
<1>2. ASSUME pc \in Early, UNCHANGED <<c, net, answered, handed>>, pc' \notin {"write", "read"}
      PROVE  Order'
  BY <1>2, EarlyStep
<1>3. ASSUME UNCHANGED <<net, answered, handed, options>>,
             c' = [c EXCEPT !.connected = TRUE] \/ UNCHANGED c,
             pc' \notin Early, pc' \notin {"write", "read"}
      PROVE  Order'
  <2>1. c'.reader = c.reader /\ c'.err = c.err /\ c'.fd = c.fd
    BY <1>3 DEF SockInv, Shape
  <2>2. Hushed
    BY <1>3, <2>1, HushHere
  <2> QED BY <1>3, <2>1, <2>2, Mute
<1>4. "TCP" \in Early /\ "UNIX" \in Early /\ {"wait", "nodelay", "established"} \cap Early = {}
  BY DEF Early
<1>5. CASE NoAddress
  <2>1. pc \in Early /\ (Closing("IO") \/ Closing("OTHER"))
    BY <1>4, <1>5 DEF NoAddress
  <2> QED BY <2>1, CloseEarly
<1>6. CASE SocketFails
  BY <1>2, <1>4, <1>6 DEF SocketFails
<1>7. CASE SocketUnusable
  <2>1. pc \in Early /\ (Closing("IO") \/ Keeping("OTHER", NewFd) \/ Keeping("none", NewFd))
    BY <1>4, <1>7 DEF SocketUnusable
  <2> QED BY <2>1, CloseEarly, KeepOrdered
<1>8. CASE TcpConnect
  <2>1. pc \in Early /\ UNCHANGED <<answered, handed>> /\ pc = "TCP"
    BY <1>4, <1>8 DEF TcpConnect
  <2>2. CASE c' = [c EXCEPT !.fd = NewFd] /\ net' = Attempt(NewFd, "open") /\ Go("established")
    BY <1>1, <2>1, <2>2 DEF Go
  <2>3. CASE c' = [c EXCEPT !.fd = NewFd] /\ net' = Attempt(NewFd, "pending")
             /\ Go(IF Block THEN "wait" ELSE "established")
    BY <1>1, <2>1, <2>3 DEF Go
  <2>4. CASE UNCHANGED <<c, net, pc>>
    BY <1>2, <2>1, <2>4
  <2>5. CASE Keeping("none", NewFd) \/ Closing("IO")
    BY <2>1, <2>5, CloseEarly, KeepOrdered
  <2> QED BY <1>8, <2>2, <2>3, <2>4, <2>5 DEF TcpConnect, Unreachable
<1>9. CASE UnixConnect
  <2>1. pc \in Early /\ UNCHANGED <<answered, handed>>
    BY <1>4, <1>9 DEF UnixConnect
  <2>2. ASSUME c' = [c EXCEPT !.fd = NewFd], NEW peer, net' = Attempt(NewFd, peer),
               Go(IF peer = "pending" /\ Block THEN "wait" ELSE "established")
        PROVE  Order'
    BY <1>1, <2>1, <2>2 DEF Go
  <2>3. CASE Closing("IO") \/ Keeping("IO", NewFd)
    BY <2>1, <2>3, CloseEarly, KeepOrdered
  <2> QED BY <1>9, <2>2, <2>3 DEF UnixConnect
<1>10. CASE redisContextWaitReady
  <2>1. pc \notin Early
    BY <1>4, <1>10 DEF redisContextWaitReady
  <2>2. CASE Closing("IO")
    BY <2>1, <2>2, CloseOrdered
  <2>3. CASE Keeping("IO", c.fd)
    BY <2>3, KeepOrdered
  <2>4. CASE /\ net' = Attempt(c.fd, "open")
             /\ Go(IF options.type = "TCP" THEN "nodelay" ELSE "established")
             /\ UNCHANGED <<c, try, unsaid>>
    <3>1. \A f \in Fds : net'[f].down = net[f].down
      BY <2>4, PeerDown
    <3>2. Hushed
      BY <2>4, <3>1, HushHere
    <3>3. pc' \notin Early /\ pc' \notin {"write", "read"}
      BY <2>4 DEF Go, Early
    <3> QED BY <2>4, <3>2, <3>3, Mute
  <2> QED BY <1>10, <2>2, <2>3, <2>4 DEF redisContextWaitReady
<1>11. CASE redisSetTcpNoDelay
  <2>1. pc \notin Early
    BY <1>4, <1>11 DEF redisSetTcpNoDelay
  <2>2. CASE Closing("IO")
    BY <2>1, <2>2, CloseOrdered
  <2>3. CASE Go("established") /\ UNCHANGED <<c, net, try, unsaid>>
    BY <1>3, <1>4, <2>3 DEF Go
  <2> QED BY <1>11, <2>2, <2>3 DEF redisSetTcpNoDelay
<1>12. CASE Established
  <2>1. pc \notin Early
    BY <1>4, <1>12 DEF Established
  <2>2. CASE Closing("IO")
    BY <2>1, <2>2, CloseOrdered
  <2>3. CASE c' = [c EXCEPT !.connected = TRUE] /\ Go("timeout") /\ UNCHANGED <<net, try, unsaid>>
    BY <1>3, <2>3 DEF Go, Early
  <2> QED BY <1>12, <2>2, <2>3 DEF Established
<1> QED BY <1>5, <1>6, <1>7, <1>8, <1>9, <1>10, <1>11, <1>12

(* Writing; the program's steps that read nothing.                         *)
LEMMA StillOrdered ==
  ASSUME SockInv, Order, SockInv', UNCHANGED <<answered, handed, net>>,
         options'.callback = options.callback, options'.bits = options.bits,
         c'.reader = c.reader, c'.fd = c.fd, c'.err = "PROTOCOL" => c.err = "PROTOCOL",
         pc' \notin Early, pc' \in {"write", "read"} => pc \in {"write", "read"}
  PROVE  Order'
<1>1. Hushed
  BY HushHere
<1> QED BY <1>1, Mute

LEMMA TransferOrdered ==
  ASSUME SockInv, Order, SockInv', NEW done \in {"read", "idle"}, NEW more \in {"write", "idle"},
         pc = "write" \/ (done = "idle" /\ more = "idle"), BufferWrite(done, more)
  PROVE  Order'
<1>1. /\ UNCHANGED <<answered, handed, options>>
      /\ c'.reader = c.reader /\ c'.fd = c.fd
      /\ c'.err = "PROTOCOL" => c.err = "PROTOCOL"
  BY DEF BufferWrite, SetError, Unsent, talk, SockInv, Shape
<1>2. /\ pc' \notin Early
      /\ pc' \in {"write", "read"} => pc \in {"write", "read"}
  <2>1. pc' \in {"idle", done, more}
    BY ZenonT(30) DEF BufferWrite, Go, Return
  <2> QED BY <2>1 DEF Early
<1>3. Hushed
  <2>1. CASE UNCHANGED net
    BY <1>1, <2>1, HushHere
  <2>2. CASE \E n : net' = [net EXCEPT ![c.fd].up = @ \o SubSeq(c.obuf.data, 1, n)]
    <3>1. PICK v : net' = Upped(net, c.fd, v)
      BY <2>2 DEF Upped
    <3>2. \A f \in Fds : net'[f].down = net[f].down
      BY <3>1, UppedDoes DEF SockInv, Shape
    <3> QED BY <1>1, <3>2, HushHere
  <2> QED BY <2>1, <2>2 DEF BufferWrite, Unsent
<1> QED BY <1>1, <1>2, <1>3, Mute

(* What was read is in the parser.                                         *)
LEMMA FedOrdered ==
  ASSUME SockInv, ReadInv, Order, SockInv', UNCHANGED <<answered, handed, options>>,
         c'.fd = c.fd, c'.err = c.err, c.fd # NoFd,
         NEW x \in Text, NEW rest \in Text, net[c.fd].down = x \o rest,
         c'.reader = redisReaderFeed(c.reader, x),
         \A fd \in Fds : net'[fd].down = IF fd = c.fd THEN rest ELSE net[fd].down,
         pc' \notin Early, pc' \notin {"write", "read"}
  PROVE  Order'
<1> DEFINE r == c.reader  q == c'.reader
<1>1. Reads(r)
  BY DEF ReadInv
<1>2. Given'
  BY DEF Order, Given, Suits, IsPush, HasPushCallback
<1>3. q.err = r.err
  <2> DEFINE f == redisReaderFeed(r, x)
  <2> HIDE DEF r
  <2>1. (r.err = "none" => Ahead(f, r, x)) /\ (r.err # "none" => f = r)
    BY <1>1, FeedIs
  <2>2. f.err = r.err
    BY <2>1, Zenon DEF Ahead
  <2> QED BY <2>2, Zenon DEF r
<1>4. Blamed'
  BY <1>3, Zenon DEF Order, Blamed
<1>5. Owed'
  <2>1. SUFFICES ASSUME q.err = "none"
                 PROVE  Unbroken(q, rest, answered, Len(handed))
    <3>1. c.fd \in Fds
      BY DEF SockInv, Shape
    <3>2. net'[c'.fd].down = rest
      BY <3>1, Zenon
    <3> QED BY <2>1, <3>2, Zenon DEF Owed
  <2>2. r.err = "none"
    BY <1>3, <2>1, Zenon
  <2>3. Unbroken(r, x \o rest, answered, Len(handed))
    BY <2>2, Zenon DEF Order, Owed
  <2>4. q = redisReaderFeed(r, x)
    BY Zenon
  <2> HIDE DEF q, r
  <2> QED BY <1>1, <2>2, <2>3, <2>4, UnbrokenFed
<1>6. Silent' /\ Idle'
  BY Zenon DEF Order, Silent, Idle
<1> QED BY <1>2, <1>4, <1>5, <1>6, Zenon DEF Order

LEMMA ReceiptOrdered ==
  ASSUME SockInv, ReadInv, Order, SockInv', NEW next \in {"next", "idle"}, BufferRead(next)
  PROVE  Order'
<1> DEFINE down == net[c.fd].down
<1>1. /\ UNCHANGED <<answered, handed, options>>
      /\ pc' \notin Early /\ pc' \notin {"write", "read"}
  BY DEF BufferRead, Go, Return, talk, Early
<1>2. CASE UNCHANGED net /\ (UNCHANGED c \/ SetError("EOF") \/ SetError("IO"))
  <2>1. /\ c'.reader = c.reader /\ c'.fd = c.fd
        /\ c'.err = "PROTOCOL" => c.err = "PROTOCOL"
    BY <1>2 DEF SetError, SockInv, Shape
  <2> QED BY <1>1, <1>2, <2>1, StillOrdered
<1>3. CASE Usable /\ \E n \in Pieces(Read, down) :
                   /\ c' = [c EXCEPT !.reader = redisReaderFeed(@, SubSeq(down, 1, n))]
                   /\ net' = [net EXCEPT ![c.fd].down = SubSeq(down, n + 1, Len(down))]
  <2>1. PICK n \in 1 .. Len(down) :
                   /\ c' = [c EXCEPT !.reader = redisReaderFeed(@, SubSeq(down, 1, n))]
                   /\ net' = [net EXCEPT ![c.fd].down = SubSeq(down, n + 1, Len(down))]
    BY <1>3 DEF Pieces
  <2>2. c.fd \in Fds /\ c.fd # NoFd
    BY <1>3 DEF Usable, SockInv, Shape
  <2>3. down \in Text
    BY <2>2 DEF ReadInv
  <2> DEFINE first == SubSeq(down, 1, n)  rest == SubSeq(down, n + 1, Len(down))
  <2>4. first \in Text /\ rest \in Text /\ first \o rest = down
    <3>1. n \in 0 .. Len(down)
      BY <2>3, TextIs
    <3> QED BY <2>3, <3>1, TextSplit
  <2>5. c'.reader = redisReaderFeed(c.reader, first) /\ c'.fd = c.fd /\ c'.err = c.err
    BY <2>1 DEF SockInv, Shape
  <2>6. net' = Downed(net, c.fd, rest)
    BY <2>1 DEF Downed
  <2>7. net[c.fd].down = first \o rest
    BY <2>4, Zenon
  <2> HIDE DEF first, rest, down
  <2>8. \A f \in Fds : net'[f].down = IF f = c.fd THEN rest ELSE net[f].down
    BY <2>6, DownedDoes DEF SockInv, Shape
  <2> QED BY <1>1, <2>2, <2>4, <2>5, <2>7, <2>8, FedOrdered
<1> QED BY <1>2, <1>3 DEF BufferRead, Unsent

(* A reply is given out, or an error, or there is none yet.                *)
LEMMA GivenMore ==
  ASSUME Given, answered' = answered, options' = options, Len(handed) < Len(answered),
         NEW h, handed' = Append(handed, h),
         h.to \in {"callback", "program"}, h = [to |-> h.to, reply |-> h.reply],
         h.reply = answered[Len(handed) + 1],
         (h.to = "callback") = IsPush(h.reply)
  PROVE  Given' /\ Len(handed') = Len(handed) + 1
<1> DEFINE n == Len(handed)  Gift == [to : {"callback", "program"}, reply : Said]
<1>1. answered \in Seq(Said) /\ handed \in Seq(Gift) /\ n \in Nat /\ Len(answered) \in Nat
  BY DEF Given
<1>2. n + 1 \in 1 .. Len(answered)
  BY <1>1
<1>3. h.reply \in Said
  BY <1>1, <1>2
<1>4. h \in Gift
  BY <1>3
<1>5. /\ handed' \in Seq(Gift) /\ Len(handed') = n + 1 /\ handed'[n + 1] = h
      /\ \A i \in 1 .. n : handed'[i] = handed[i]
  BY <1>1, <1>4, AppendProperties
<1>6. \A x, a : Suits(x, a)' = Suits(x, a)
  BY DEF Suits, IsPush, HasPushCallback
<1>7. Suits(h, h.reply)
  BY Zenon DEF Suits
<1>8. ASSUME NEW i \in 1 .. n + 1 PROVE Suits(handed'[i], answered[i])
  <2>1. CASE i \in 1 .. n
    <3>1. Suits(handed[i], answered[i])
      BY <2>1 DEF Given
    <3> QED BY <1>5, <2>1, <3>1, Zenon
  <2>2. CASE i = n + 1
    BY <1>5, <1>7, <2>2, Zenon
  <2> QED BY <1>1, <2>1, <2>2
<1>9. Len(handed') <= Len(answered')
  BY <1>1, <1>5
<1>10. \A i \in 1 .. Len(handed') : Suits(handed[i], answered[i])'
  <2> HIDE DEF n
  <2> QED BY <1>5, <1>6, <1>8, Zenon DEF Suits, IsPush, HasPushCallback
<1> HIDE DEF n
<1> QED BY <1>1, <1>5, <1>9, <1>10, Zenon DEF Given, n

LEMMA ReplyOrdered ==
  ASSUME SockInv, ReadInv, Order, SockInv', NEW none \in {"write", "read"},
         pc \in {"get", "next"}, NextInBandReply(none)
  PROVE  Order'
<1> DEFINE r == c.reader  g == redisReaderGetReply(r)  n == Len(handed)
<1>1. /\ UNCHANGED <<net, answered, options>> /\ c'.reader = g.r /\ c'.fd = c.fd
      /\ c'.err = IF g.ok THEN c.err ELSE g.r.err
  <2>1. c' = [c EXCEPT !.reader = g.r, !.err = IF g.ok THEN @ ELSE g.r.err]
    BY DEF NextInBandReply
  <2>2. UNCHANGED <<net, answered, options>>
    BY DEF NextInBandReply, wire
  <2> HIDE DEF g
  <2> QED BY <2>1, <2>2 DEF SockInv, Shape
<1>2. /\ ~g.ok => handed' = handed /\ pc' = "idle"
      /\ g.ok /\ g.reply = NoReply => handed' = handed
      /\ g.ok /\ g.reply # NoReply =>
           /\ pc' \in {"get", "next", "idle"}
           /\ \E to \in {"callback", "program"} :
                 /\ handed' = Append(handed, [to |-> to, reply |-> g.reply])
                 /\ (to = "callback") = IsPush(g.reply)
      /\ pc' \notin Early
  <2>1. IF ~g.ok THEN Return("ERR") /\ UNCHANGED handed
        ELSE IF g.reply = NoReply
        THEN (IF Block THEN Go(none) ELSE Return("OK")) /\ UNCHANGED handed
        ELSE IF IsPush(g.reply)
        THEN /\ handed' = Append(handed, [to |-> "callback", reply |-> g.reply])
             /\ UNCHANGED <<pc, ret>>
        ELSE /\ handed' = Append(handed, [to |-> "program", reply |-> g.reply])
             /\ Return("OK")
    BY DEF NextInBandReply
  <2> HIDE DEF g
  <2>2. CASE ~g.ok
    BY <2>1, <2>2 DEF Return, Early
  <2>3. CASE g.ok /\ g.reply = NoReply
    BY <2>1, <2>3 DEF Return, Go, Early
  <2>4. CASE g.ok /\ g.reply # NoReply /\ IsPush(g.reply)
    <3>1. handed' = Append(handed, [to |-> "callback", reply |-> g.reply]) /\ pc' = pc
      BY <2>1, <2>4, Zenon
    <3>2. ("callback" = "callback") = IsPush(g.reply)
      BY <2>4, Zenon
    <3>3. pc \notin Early
      BY DEF Early
    <3> QED BY <2>4, <3>1, <3>2, <3>3, Zenon
  <2>5. CASE g.ok /\ g.reply # NoReply /\ ~IsPush(g.reply)
    <3>1. handed' = Append(handed, [to |-> "program", reply |-> g.reply]) /\ pc' = "idle"
      BY <2>1, <2>5, Zenon DEF Return
    <3>2. "program" # "callback" /\ "idle" \notin Early
      BY DEF Early
    <3>3. ("program" = "callback") = IsPush(g.reply)
      BY <2>5, <3>2, Zenon DEF IsPush
    <3> QED BY <2>5, <3>1, <3>2, <3>3, Zenon
  <2> QED BY <2>2, <2>3, <2>4, <2>5, Zenon
<1>3. Reads(r) /\ answered \in Seq(Said) /\ n \in Nat /\ Len(answered) \in Nat /\ n <= Len(answered)
  <2>1. Reads(r)
    BY DEF ReadInv
  <2>2. answered \in Seq(Said) /\ handed \in Seq([to : {"callback", "program"}, reply : Said])
        /\ Len(handed) <= Len(answered)
    BY Zenon DEF Order, Given
  <2> HIDE DEF r
  <2> QED BY <2>1, <2>2
<1>4. Silent'
  BY <1>1, <1>2, Zenon DEF Order, Silent
<1>5. handed' = handed => Given'
  BY <1>1 DEF Order, Given, Suits, IsPush, HasPushCallback
<1>6. CASE r.err # "none"
  <2>1. g = [ok |-> r.err = "none", r |-> r, reply |-> NoReply]
    BY <1>6, GetReplyIs, Zenon
  <2> DEFINE e == r.err = "none"  no == NoReply
  <2>2. g = [ok |-> e, r |-> r, reply |-> no]
    BY <2>1, Zenon
  <2> HIDE DEF e, no, g, r
  <2>3. g.ok = e /\ g.r = r
    BY <2>2
  <2>4. ~g.ok /\ g.r = r
    BY <1>6, <2>3, Zenon DEF e
  <2>5. Bad \in Range(answered)
    BY <1>6, Zenon DEF Order, Blamed, r
  <2>6. Given' /\ Blamed'
    BY <1>1, <1>2, <1>5, <2>4, <2>5, Zenon DEF Blamed
  <2>7. Owed' /\ Idle'
    BY <1>1, <1>6, <2>4, Zenon DEF Owed, Idle
  <2> QED BY <1>4, <2>6, <2>7, Zenon DEF Order
<1>7. CASE r.err = "none"
  <2>1. PICK y \in Text : (c.fd # NoFd => y = net[c.fd].down) /\ Unbroken(r, y, answered, n)
    BY <1>7, Zenon DEF Order, Owed
  <2>2. g = redisReaderGetReply(r)
    BY Zenon
  <2> HIDE DEF g, r, n
  <2>3. /\ ~g.ok => Bad \in Range(answered) /\ g.r.err # "none"
        /\ g.ok => g.r.err = "none"
        /\ g.ok /\ g.reply = NoReply => Unbroken(g.r, y, answered, n) /\ Asked(g.r)
        /\ g.ok /\ g.reply # NoReply
             => /\ n < Len(answered) /\ g.reply = answered[n + 1]
                /\ Unbroken(g.r, y, answered, n + 1)
    BY <1>3, <1>7, <2>1, <2>2, UnbrokenAsked
  <2>4. c'.fd # NoFd => y = net'[c'.fd].down
    BY <1>1, <2>1, Zenon
  <2>5. CASE ~g.ok
    <3>1. Given' /\ Blamed'
      BY <1>1, <1>2, <1>5, <2>3, <2>5, Zenon DEF Blamed
    <3>2. Owed' /\ Idle'
      BY <1>1, <2>3, <2>5, Zenon DEF Owed, Idle
    <3> QED BY <1>4, <3>1, <3>2, Zenon DEF Order
  <2>6. CASE g.ok /\ g.reply = NoReply
    <3>1. Given' /\ Blamed'
      BY <1>1, <1>2, <1>5, <2>3, <2>6, Zenon DEF Order, Blamed
    <3>2. Unbroken(c'.reader, y, answered', Len(handed')) /\ Asked(c'.reader)
      BY <1>1, <1>2, <2>3, <2>6, Zenon DEF n
    <3>3. Owed' /\ Idle'
      BY <2>4, <3>2, Zenon DEF Owed, Idle
    <3> QED BY <1>4, <3>1, <3>3, Zenon DEF Order
  <2>7. CASE g.ok /\ g.reply # NoReply
    <3>1. PICK to \in {"callback", "program"} :
             /\ handed' = Append(handed, [to |-> to, reply |-> g.reply])
             /\ (to = "callback") = IsPush(g.reply)
      BY <1>2, <2>7, Zenon
    <3> DEFINE h == [to |-> to, reply |-> g.reply]
    <3>2. h.to = to /\ h.reply = g.reply
      OBVIOUS
    <3>3. handed' = Append(handed, h) /\ h = [to |-> h.to, reply |-> h.reply]
      BY <3>1, <3>2, Zenon
    <3> HIDE DEF h
    <3>4. Given' /\ Len(handed') = n + 1
      <4>1. Given /\ answered' = answered /\ options' = options /\ Len(handed) < Len(answered)
        BY <1>1, <2>3, <2>7, Zenon DEF Order, n
      <4>2. h.reply = answered[Len(handed) + 1] /\ h.to \in {"callback", "program"}
            /\ (h.to = "callback") = IsPush(h.reply)
        BY <2>3, <2>7, <3>1, <3>2, Zenon DEF n
      <4>3. Given' /\ Len(handed') = Len(handed) + 1
        BY <3>3, <4>1, <4>2, GivenMore
      <4> QED BY <4>3, Zenon DEF n
    <3>5. Blamed'
      BY <1>1, <2>3, <2>7, Zenon DEF Order, Blamed
    <3>6. Unbroken(c'.reader, y, answered', Len(handed'))
      BY <1>1, <2>3, <2>7, <3>4, Zenon
    <3>7. Owed'
      BY <2>4, <3>6, Zenon DEF Owed
    <3>8. Idle'
      <4>1. pc' \notin {"write", "read"}
        <5>1. pc' \in {"get", "next", "idle"}
          BY <1>2, <2>7, Zenon
        <5> QED BY <5>1
      <4> QED BY <4>1, Zenon DEF Idle
    <3> QED BY <1>4, <3>4, <3>5, <3>7, <3>8, Zenon DEF Order
  <2> QED BY <2>5, <2>6, <2>7, Zenon
<1> QED BY <1>6, <1>7, Zenon

(* The program's calls.                                                    *)
LEMMA ProgramOrdered ==
  ASSUME SockInv, ReadInv, Order, SockInv', Program
  PROVE  Order'
<1>1. CASE redisConnectWithOptions
  <2>1. pc \in Early /\ c.fd = NoFd
    BY <1>1 DEF redisConnectWithOptions, Early, SockInv
  <2>2. answered' = <<>> /\ handed' = <<>> /\ pc' \notin {"write", "read"}
    BY <1>1 DEF redisConnectWithOptions, Begin, Go, SockInv, Shape, redisOptions
  <2>3. c'.reader = c.reader /\ c'.err = c.err
    BY <1>1 DEF redisConnectWithOptions, SockInv, Shape
  <2>4. \A fd \in Fds : net'[fd].down = net[fd].down
    <3>1. CASE net' = [net EXCEPT ![1].peer = "open"]
      BY <3>1, PeerDown DEF Attempt
    <3>2. CASE UNCHANGED net
      BY <3>2
    <3> QED BY <1>1, <3>1, <3>2 DEF redisConnectWithOptions
  <2>5. UNCHANGED <<answered, handed>>
    BY <2>1, <2>2 DEF Order, Silent
  <2> QED BY <2>1, <2>2, <2>3, <2>4, <2>5, EarlyStep
<1>2. CASE redisReconnect \/ redisFree
  <2>1. /\ c'.reader = redisReaderCreate /\ c'.fd = NoFd /\ c'.err # "PROTOCOL"
        /\ answered' = <<>> /\ handed' = <<>> /\ pc' \notin {"write", "read"}
        /\ net' = IF c.fd = NoFd THEN net ELSE Close(c.fd)
    BY <1>2 DEF redisReconnect, Reconnected, redisFree, redisContextInit, Begin, Go,
                ConnectionType, SockInv, Shape
  <2>2. \A fd \in Fds : net'[fd].down = <<>>
    BY <2>1, HushClosed
  <2> QED BY <2>1, <2>2, AnewStep
<1>3. CASE redisSetTimeout
  <2>1. /\ UNCHANGED <<answered, handed, net, pc>> /\ c'.reader = c.reader /\ c'.fd = c.fd
        /\ c'.err = "PROTOCOL" => c.err = "PROTOCOL"
    BY <1>3 DEF redisSetTimeout, SetError, SockInv, Shape
  <2>2. options'.callback = options.callback /\ options'.bits = options.bits
    BY <1>3 DEF redisSetTimeout, SockInv, Shape, redisOptions
  <2>3. pc' \notin Early
    BY <1>3, <2>1 DEF redisSetTimeout, Early
  <2> QED BY <2>1, <2>2, <2>3, StillOrdered
<1>4. CASE redisGetReply
  BY <1>4, StillOrdered DEF redisGetReply, Go, wire, Early
<1>5. CASE redisBufferWrite
  BY <1>5, TransferOrdered DEF redisBufferWrite
<1>6. CASE redisBufferRead
  BY <1>6, ReceiptOrdered DEF redisBufferRead
<1>7. CASE \E call \in Calls, wait \in BOOLEAN : redisAppendCommand(call, wait)
  <2>1. /\ UNCHANGED <<answered, handed, net, options>> /\ c'.reader = c.reader /\ c'.fd = c.fd
        /\ c'.err = "PROTOCOL" => c.err = "PROTOCOL"
    BY <1>7 DEF redisAppendCommand, SockInv, Shape
  <2>2. pc' \in {"idle", "get"}
    BY <1>7 DEF redisAppendCommand, Return, Go
  <2> QED BY <2>1, <2>2, StillOrdered DEF Early
<1> QED BY <1>1, <1>2, <1>3, <1>4, <1>5, <1>6, <1>7 DEF Program

(* The server speaks.                                                      *)
LEMMA Speaks ==
  ASSUME SockInv, ReadInv, Order, UNCHANGED <<c, options, pc, handed>>, c.fd \in Fds,
         NEW a \in Said, NEW b \in Text, Says(b, a), answered' = Append(answered, a),
         \A f \in Fds : net'[f].down = IF f = c.fd THEN net[f].down \o b ELSE net[f].down
  PROVE  Order'
<1> DEFINE n == Len(handed)  more == Append(answered, a)
<1>1. /\ answered \in Seq(Said) /\ handed \in Seq([to : {"callback", "program"}, reply : Said])
      /\ n <= Len(answered) /\ \A i \in 1 .. n : Suits(handed[i], answered[i])
  BY Zenon DEF Order, Given
<1>2. n \in Nat /\ Len(answered) \in Nat
  BY <1>1
<1>3. /\ more \in Seq(Said) /\ Len(more) = Len(answered) + 1
      /\ \A i \in 1 .. Len(answered) : more[i] = answered[i]
  BY <1>1, AppendProperties
<1> HIDE DEF more
<1>4. answered' = more
  BY Zenon DEF more
<1> HIDE DEF n
<1>5. n <= Len(more) /\ \A i \in 1 .. n : i \in 1 .. Len(answered)
  BY <1>1, <1>2, <1>3
<1>6. \A i \in 1 .. n : Suits(handed[i], more[i])
  BY <1>1, <1>3, <1>5, Zenon
<1>7. Given'
  <2>1. \A i \in 1 .. Len(handed') : Suits(handed[i], answered[i])'
    BY <1>4, <1>6, Zenon DEF Suits, IsPush, HasPushCallback, n
  <2>2. answered' \in Seq(Said) /\ Len(handed') <= Len(answered')
    BY <1>3, <1>4, <1>5, Zenon DEF n
  <2>3. handed' \in Seq([to : {"callback", "program"}, reply : Said])
    BY <1>1, Zenon
  <2> QED BY <2>1, <2>2, <2>3, Zenon DEF Given
<1>8. Bad \in Range(answered) => Bad \in Range(answered')
  <2> SUFFICES ASSUME Bad \in Range(answered) PROVE Bad \in Range(more)
    BY <1>4, Zenon
  <2>1. PICK i \in 1 .. Len(answered) : answered[i] = Bad
    BY <1>1 DEF Range
  <2>2. i \in DOMAIN more /\ more[i] = Bad
    BY <1>2, <1>3, <2>1
  <2> QED BY <2>2 DEF Range
<1>9. Blamed'
  BY <1>8, Zenon DEF Order, Blamed
<1>10. Silent'
  <2>1. \A fd \in Fds : fd # c'.fd => net'[fd].down = <<>>
    BY Zenon DEF Order, Silent
  <2>2. pc' \notin Early
    BY DEF SockInv, Early, Fds, NoFd
  <2> QED BY <2>1, <2>2, Zenon DEF Silent
<1>11. Idle'
  BY Zenon DEF Order, Idle
<1>12. ASSUME c.reader.err = "none"
       PROVE  Unbroken(c.reader, net[c.fd].down \o b, more, n)
  <2> DEFINE r == c.reader  y == net[c.fd].down
  <2>1. Reads(r) /\ r.err = "none" /\ y \in Text
    BY <1>12, Zenon DEF ReadInv
  <2>2. c.fd # NoFd
    BY DEF Fds, NoFd
  <2>3. Unbroken(r, y, answered, n)
    BY <1>12, <2>2, Zenon DEF Order, Owed, n
  <2> HIDE DEF r, y
  <2>4. Unbroken(r, y \o b, Append(answered, a), n)
    BY <1>1, <1>2, <2>1, <2>3, UnbrokenSaid
  <2> QED BY <2>4, Zenon DEF r, y, more
<1>13. Owed'
  <2> SUFFICES ASSUME c.reader.err = "none"
               PROVE  \E y \in Text : /\ c'.fd # NoFd => y = net'[c'.fd].down
                                      /\ Unbroken(c.reader, y, more, n)
    BY <1>4, Zenon DEF Owed, n
  <2>1. net'[c'.fd].down = net[c.fd].down \o b
    BY Zenon
  <2>2. net[c.fd].down \o b \in Text
    <3>1. net[c.fd].down \in Text
      BY Zenon DEF ReadInv
    <3> QED BY <3>1, Joins
  <2> QED BY <1>12, <2>1, <2>2, Zenon
<1> QED BY <1>7, <1>9, <1>10, <1>11, <1>13, Zenon DEF Order

(* What it says, if the parser undoes what a server does to one reply.     *)
LEMMA SaysReply ==
  ASSUME RepliesParse, NEW a \in Replies, NEW b \in Spelled(a)
  PROVE  Says(b, a) /\ b \in Text /\ a \in Said
<1>1. Gives(b, a) /\ a # NoReply
  BY Zenon DEF RepliesParse
<1>2. b \in Text
  BY SentText, Zenon DEF Spelled
<1> QED BY <1>1, <1>2, Zenon DEF Says, Said

LEMMA SaysMalformed ==
  ASSUME RepliesParse, NEW b \in Malformed
  PROVE  Says(b, Bad) /\ b \in Text /\ Bad \in Said
BY SentText, Zenon DEF RepliesParse, Says, Said

LEMMA EnvironmentOrdered ==
  ASSUME RepliesParse, SockInv, ReadInv, Order, SockInv', Environment
  PROVE  Order'
<1>1. PICK fd \in Fds : \/ ServerAnswers(fd) \/ ServerPushes(fd) \/ ServerMalformed(fd)
                       \/ ServerCloses(fd) \/ Connects(fd)
  BY DEF Environment
<1>2. UNCHANGED <<c, options, pc, handed>> /\ c.fd = fd
  BY <1>1 DEF ServerAnswers, ServerPushes, ServerMalformed, ServerCloses, Connects, Live, local
<1>3. ASSUME NEW a, NEW b, Says(b, a) /\ b \in Text /\ a \in Said,
             answered' = Append(answered, a),
             NEW n, Sockets(n), \A f \in Fds : n[f].down = net[f].down,
             net' = Downed(n, fd, n[fd].down \o b)
      PROVE  Order'
  <2>1. \A f \in Fds : net'[f].down = IF f = fd THEN n[fd].down \o b ELSE n[f].down
    BY <1>3, DownedDoes
  <2>2. \A f \in Fds : net'[f].down = IF f = c.fd THEN net[f].down \o b ELSE net[f].down
    BY <1>2, <1>3, <2>1, Zenon
  <2> QED BY <1>2, <1>3, <2>2, Speaks
<1>4. CASE ServerAnswers(fd)
  <2>1. PICK reply \in options.answers :
           /\ answered' = Append(answered, reply)
           /\ \E v : \E b \in Spelled(reply) :
                 net' = [net EXCEPT ![fd].up = v, ![fd].down = @ \o b]
    BY <1>4 DEF ServerAnswers
  <2>2. reply \in Replies
    BY DEF SockInv, Shape, redisOptions
  <2> PICK v : \E b \in Spelled(reply) :
                  net' = [net EXCEPT ![fd].up = v, ![fd].down = @ \o b]
    BY <2>1
  <2>3. PICK b \in Spelled(reply) : net' = [net EXCEPT ![fd].up = v, ![fd].down = @ \o b]
    OBVIOUS
  <2>4. Says(b, reply) /\ b \in Text /\ reply \in Said
    BY <2>2, SaysReply
  <2> DEFINE m == Upped(net, fd, v)
  <2>5. Sockets(m) /\ \A f \in Fds : m[f].down = net[f].down
    BY UppedDoes DEF SockInv, Shape
  <2>6. net' = Downed(m, fd, net[fd].down \o b)
    BY <2>3, Zenon DEF Upped, Downed
  <2> HIDE DEF m
  <2>7. net' = Downed(m, fd, m[fd].down \o b)
    BY <2>5, <2>6, Zenon
  <2> QED BY <1>3, <2>1, <2>4, <2>5, <2>7
<1>5. ASSUME NEW a, NEW b, Says(b, a) /\ b \in Text /\ a \in Said,
             answered' = Append(answered, a), net' = [net EXCEPT ![fd].down = @ \o b]
      PROVE  Order'
  <2>1. net' = Downed(net, fd, net[fd].down \o b)
    BY <1>5 DEF Downed
  <2>2. Sockets(net)
    BY DEF SockInv, Shape
  <2> QED BY <1>3, <1>5, <2>1, <2>2, Zenon
<1>6. CASE ServerPushes(fd)
  <2>1. PICK push \in Pushes : /\ answered' = Append(answered, push)
                               /\ net' = [net EXCEPT ![fd].down = @ \o Encode[push]]
    BY <1>6 DEF ServerPushes
  <2>2. push \in Replies
    BY ContextAssumption
  <2>3. Encode[push] \in Spelled(push)
    BY Zenon DEF Spelled
  <2>4. Says(Encode[push], push) /\ Encode[push] \in Text /\ push \in Said
    BY <2>2, <2>3, SaysReply
  <2> QED BY <1>5, <2>1, <2>4, Zenon
<1>7. CASE ServerMalformed(fd)
  <2>1. PICK b \in Malformed : net' = [net EXCEPT ![fd].down = @ \o b]
    BY <1>7 DEF ServerMalformed
  <2>2. answered' = Append(answered, Bad)
    BY <1>7 DEF ServerMalformed
  <2>3. Says(b, Bad) /\ b \in Text /\ Bad \in Said
    BY SaysMalformed
  <2> QED BY <1>5, <2>1, <2>2, <2>3, Zenon
<1>8. CASE ServerCloses(fd) \/ Connects(fd)
  <2>1. UNCHANGED answered
    BY <1>8 DEF ServerCloses, Connects
  <2>2. PICK peer \in {"shut", "unconnected", "open"} : net' = Attempt(fd, peer)
    BY <1>8 DEF ServerCloses, Connects, Attempt
  <2>3. \A f \in Fds : net'[f].down = net[f].down
    BY <2>2, PeerDown
  <2>4. Hushed
    BY <1>2, <2>3, HushHere
  <2>5. pc' \notin Early
    BY <1>2 DEF SockInv, Early, Fds, NoFd
  <2> QED BY <1>2, <2>1, <2>4, <2>5, Mute
<1> QED BY <1>1, <1>4, <1>6, <1>7, <1>8

LEMMA OrderStep ==
  RepliesParse /\ SockInv /\ ReadInv /\ Order /\ [Next]_vars => Order'
<1> SUFFICES ASSUME RepliesParse, SockInv, ReadInv, Order, [Next]_vars PROVE Order'
  OBVIOUS
<1>1. SockInv'
  BY SockStep
<1>2. CASE Library
  <2>1. CASE redisContextSetTimeout
    <3>1. /\ UNCHANGED <<answered, handed, net, options>> /\ c'.reader = c.reader
          /\ c'.fd = c.fd /\ (c'.err = "PROTOCOL" => c.err = "PROTOCOL") /\ pc' = "idle"
      BY <2>1 DEF redisContextSetTimeout, SetError, Return, unsaid, SockInv, Shape
    <3> QED BY <1>1, <3>1, StillOrdered DEF Early
  <2>2. CASE GetFirst \/ GetNext
    BY <1>1, <2>2, ReplyOrdered DEF GetFirst, GetNext
  <2>3. CASE WriteAll \/ ReadMore
    BY <1>1, <2>3, TransferOrdered, ReceiptOrdered DEF WriteAll, ReadMore
  <2> QED BY <1>1, <1>2, <2>1, <2>2, <2>3, AttemptOrdered DEF Library
<1>3. CASE Program
  BY <1>1, <1>3, ProgramOrdered
<1>4. CASE Environment
  BY <1>1, <1>4, EnvironmentOrdered
<1>5. CASE Done \/ UNCHANGED vars
  <2>1. UNCHANGED <<c, net, answered, handed, options, pc>>
    BY <1>5 DEF Done, vars
  <2> QED BY <2>1 DEF Order, Given, Suits, IsPush, HasPushCallback, Blamed, Owed, Silent, Idle
<1> QED BY <1>2, <1>3, <1>4, <1>5 DEF Next

LEMMA OrderIs == ReadInv /\ Order => RepliesInOrder
<1> SUFFICES ASSUME ReadInv, Order PROVE RepliesInOrder
  OBVIOUS
<1>1. ReaderOK(c.reader)
  BY ReadIsOK
<1>2. /\ handed \in Seq([to : {"callback", "program"}, reply : Said])
      /\ Len(handed) <= Len(answered)
      /\ \A i \in 1 .. Len(handed) : Suits(handed[i], answered[i])
  BY Zenon DEF Order, Given
<1>3. DOMAIN handed = 1 .. Len(handed)
  BY <1>2
<1>4. c.err = "PROTOCOL" => Bad \in Range(answered)
  BY Zenon DEF Order, Blamed
<1>5. \A i \in DOMAIN handed : /\ handed[i].reply = answered[i]
                               /\ (handed[i].to = "callback") = IsPush(answered[i])
  BY <1>2, <1>3, Zenon DEF Suits
<1> QED BY <1>1, <1>2, <1>4, <1>5, Zenon DEF RepliesInOrder

LEMMA NoneWithheld == SockInv /\ ReadInv /\ Order => NothingWithheld
<1> SUFFICES ASSUME SockInv, ReadInv, Order, pc = "read", Usable, net[c.fd].down = <<>>,
                    Bad \notin Range(answered)
             PROVE  Len(handed) = Len(answered)
  BY Zenon DEF NothingWithheld
<1> DEFINE r == c.reader  n == Len(handed)
<1>1. Reads(r) /\ r.err = "none"
  BY Zenon DEF ReadInv, Order, Blamed
<1>2. Asked(r)
  BY <1>1 DEF Order, Idle
<1>3. c.fd # NoFd
  BY Zenon DEF Usable
<1>4. Unbroken(r, <<>>, answered, n)
  BY <1>1, <1>3, Zenon DEF Order, Owed
<1>5. /\ answered \in Seq(Said) /\ n <= Len(answered)
      /\ handed \in Seq([to : {"callback", "program"}, reply : Said])
  BY Zenon DEF Order, Given
<1>6. n \in Nat
  BY <1>5
<1> HIDE DEF r, n
<1>7. n = Len(answered)
  BY <1>1, <1>2, <1>4, <1>5, <1>6, UnbrokenNone
<1> QED BY <1>7, Zenon DEF n

(* What redisGetReply() and the push callback are given is what the server *)
(* said on this connection, in that order and once, however recv() divides *)
(* it and whenever the program writes, reads, fails, frees or reconnects   *)
(* in between: a push goes to the callback and everything else answers a   *)
(* command, nothing is left over from an earlier connection, and the       *)
(* protocol is broken only if the server broke it (hiredis.c:764, 976,     *)
(* 1023, 1045; read.c:736).  The hypothesis says what one reply's bytes    *)
(* alone give, which is a value of a function: TLC computes it.            *)
THEOREM RepliesStayInOrder == ASSUME RepliesParse PROVE Spec => []RepliesInOrder
<1>1. SockInv /\ ReadInv /\ Order /\ [Next]_vars => SockInv' /\ ReadInv' /\ Order'
  BY SockStep, ReadStep, OrderStep
<1>2. ReadInv /\ Order => RepliesInOrder
  BY OrderIs
<1> QED BY <1>1, <1>2, SockInit, ReadInit, OrderInit, PTL DEF Spec

(* A program that blocks in recv() with nothing on its way to it has been  *)
(* given everything the server said: the parser keeps no whole reply back, *)
(* wherever the pieces end (hiredis.c:1070; read.c:761).                   *)
THEOREM NothingIsWithheld == ASSUME RepliesParse PROVE Spec => []NothingWithheld
<1>1. SockInv /\ ReadInv /\ Order /\ [Next]_vars => SockInv' /\ ReadInv' /\ Order'
  BY SockStep, ReadStep, OrderStep
<1>2. SockInv /\ ReadInv /\ Order => NothingWithheld
  BY NoneWithheld
<1> QED BY <1>1, <1>2, SockInit, ReadInit, OrderInit, PTL DEF Spec
=============================================================================
