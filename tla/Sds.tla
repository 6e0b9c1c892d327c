-------------------------------- MODULE Sds --------------------------------
(***************************************************************************)
(* sds.c, the byte strings hiredis builds commands and collects replies    *)
(* in.  A string has one of five header types, 1 to 5 for SDS_TYPE_5, 8,   *)
(* 16, 32 and 64, whose fields hold the length and the allocation only up  *)
(* to the type's width.  Limits are the lengths at which sdsReqType() goes *)
(* to the next type (32, 0xff, 0xffff, 0xffffffff), scaled down for TLC.   *)
(* Memory never runs out: no operation returns NULL.                       *)
(***************************************************************************)
EXTENDS Naturals, Sequences

CONSTANTS
    Limits,       \* the first length types 1 to 4 are too small for
    MaxPrealloc   \* SDS_MAX_PREALLOC

ASSUME SdsAssumption ==
    /\ Limits \in [1..4 -> Nat \ {0}]
    /\ \A t \in 1..3 : Limits[t] < Limits[t + 1]
    /\ MaxPrealloc \in Nat

sdsReqType(size) ==
    CHOOSE t \in 1..5 :
        /\ t < 5 => size < Limits[t]
        /\ \A u \in 1..4 : u < t => size >= Limits[u]

\* What a length field of type t holds of n: five bits for type 1, and
\* for the others a width whose largest value is the limit.
Field(t, n) ==
    IF t = 5 THEN n ELSE IF t = 1 THEN n % Limits[1] ELSE n % (Limits[t] + 1)

\* The content s has after sdssetlen(s, Len(data)), when its memory holds data.
SetLen(s, data) ==
    [s EXCEPT !.data = SubSeq(data, 1, Field(s.type, Len(data)))]

sdsnewlen(init) ==
    LET t == sdsReqType(Len(init))
        type == IF t = 1 /\ init = <<>> THEN 2 ELSE t
    IN [type |-> type, alloc |-> Len(init), data |-> init]

sdsempty == sdsnewlen(<<>>)

\* A string of type 1 has no field for its allocation.
sdsavail(s) == IF s.type = 1 THEN 0 ELSE s.alloc - Len(s.data)

sdsMakeRoomFor(s, addlen) ==
    LET reqlen == Len(s.data) + addlen
        newlen == IF reqlen < MaxPrealloc THEN 2 * reqlen ELSE reqlen + MaxPrealloc
        t == sdsReqType(newlen)
        type == IF t = 1 THEN 2 ELSE t
    IN IF sdsavail(s) >= addlen
       THEN s
       ELSE [type |-> type, alloc |-> Field(type, newlen),
             data |-> SubSeq(s.data, 1, Field(type, Len(s.data)))]

sdscatlen(s, t) == SetLen(sdsMakeRoomFor(s, Len(t)), s.data \o t)

\* sdsrange(s, n, -1): what is left after the first n bytes.
DropFirst(s, n) ==
    IF n >= Len(s.data) THEN SetLen(s, <<>>)
    ELSE SetLen(s, SubSeq(s.data, n + 1, Len(s.data)))

\* sdscatvprintf() formats into a buffer of buflen bytes, and into one twice
\* as large while the last byte but one is written to; the text and its
\* terminator are cut to the buffer.
sdscatvprintf(s, text, buflen) ==
    LET Full(n) == Len(text) >= n - 1
        size == CHOOSE n \in {buflen * 2^k : k \in 0..Len(text)} :
                    ~Full(n) /\ \A k \in 0..Len(text) : buflen * 2^k < n => Full(buflen * 2^k)
        cut == IF Len(text) < size THEN Len(text) ELSE size - 1
    IN sdscatlen(s, SubSeq(text, 1, cut))

\* What one step of sdscatfmt() has room in: for a byte, then for all of the
\* piece; and the step.
RoomForPiece(s, n) ==
    LET one == IF sdsavail(s) = 0 THEN sdsMakeRoomFor(s, 1) ELSE s
    IN IF sdsavail(one) < n THEN sdsMakeRoomFor(one, n) ELSE one

CatPiece(s, piece) ==
    LET room == RoomForPiece(s, Len(piece)) IN SetLen(room, room.data \o piece)

Digit == <<"0", "1", "2", "3", "4", "5", "6", "7", "8", "9">>

\* sdsull2str(): the decimal digits of v, and countDigits() of them.
Decimal[v \in Nat] ==
    IF v < 10 THEN <<Digit[v + 1]>> ELSE Append(Decimal[v \div 10], Digit[(v % 10) + 1])

\* A string's fields agree with its content and its memory holds it.
SdsOK(s) ==
    /\ s.type \in 1..5
    /\ Len(s.data) <= s.alloc
    /\ s.type < 5 => s.alloc <= Limits[s.type]
=============================================================================
