------------------------- MODULE DescriptorsProofs -------------------------
(***************************************************************************)
(* Proofs about Descriptors, for any number of slots and any limits.       *)
(***************************************************************************)
EXTENDS Descriptors, FiniteSetTheorems, TLAPS

-----------------------------------------------------------------------------
(* The descriptors the kernel gives out.                                   *)

LEMMA FiniteParts ==
  ASSUME NEW B, B \subseteq Numbers
  PROVE  IsFiniteSet(B) /\ Cardinality(B) \in Nat
<1>1. IsFiniteSet(Numbers)
  BY DescriptorsAssumption, FS_Interval DEF Numbers
<1>2. IsFiniteSet(B)
  BY <1>1, FS_Subset
<1> QED BY <1>2, FS_CardinalityType

LEMMA FiniteSlots ==
  ASSUME NEW U, U \subseteq Slots
  PROVE  IsFiniteSet(U) /\ Cardinality(U) \in Nat
<1>1. IsFiniteSet(Slots)
  BY DescriptorsAssumption, FS_Interval DEF Slots
<1>2. IsFiniteSet(U)
  BY <1>1, FS_Subset
<1> QED BY <1>2, FS_CardinalityType

(* The lowest free number is no further from First than there are busy     *)
(* ones: those below it are all busy.                                      *)
LEMMA LowestIsLow ==
  ASSUME NEW B, B \subseteq Numbers, NEW f \in Lowest(B)
  PROVE  /\ f \in Numbers /\ f \notin B
         /\ f <= First + Cardinality(B)
<1>1. f \in Numbers /\ f \notin B /\ \A g \in Numbers \ B : f <= g
  BY DEF Lowest
<1>2. f \in Int /\ First \in Int /\ First <= f /\ f <= Limit - 1 /\ Limit \in Int
  BY <1>1, DescriptorsAssumption DEF Numbers
<1>3. First .. f - 1 \subseteq B
  <2> SUFFICES ASSUME NEW g \in First .. f - 1 PROVE g \in B
    OBVIOUS
  <2>1. g \in Numbers /\ ~(f <= g)
    BY <1>2 DEF Numbers
  <2> QED BY <1>1, <2>1
<1>4. Cardinality(First .. f - 1) = f - First
  <2>1. f - 1 \in Int
    BY <1>2
  <2>2. Cardinality(First .. f - 1) = IF First > f - 1 THEN 0 ELSE (f - 1) - First + 1
    BY <1>2, <2>1, FS_Interval
  <2> QED BY <1>2, <2>2
<1>5. Cardinality(First .. f - 1) <= Cardinality(B)
  BY <1>3, FiniteParts, FS_Subset
<1>6. Cardinality(B) \in Nat
  BY FiniteParts
<1> QED BY <1>1, <1>2, <1>4, <1>5, <1>6

(* The two numbers a new client gets, the socket's having come first.      *)
LEMMA TwoNumbers ==
  ASSUME NEW B, B \subseteq Numbers, NEW k \in Lowest(B),
         NEW s \in Lowest(B \cup {k}), NEW c \in Lowest(B \cup {k, s})
  PROVE  /\ s \in Numbers \ B /\ c \in Numbers \ B /\ s # c
         /\ s <= First + Cardinality(B) + 2 /\ c <= First + Cardinality(B) + 2
         /\ Cardinality(B \cup {s, c}) = Cardinality(B) + 2
<1>1. k \in Numbers /\ k \notin B
  BY LowestIsLow
<1>2. IsFiniteSet(B) /\ Cardinality(B) \in Nat
  BY FiniteParts
<1>3. Cardinality(B \cup {k}) = Cardinality(B) + 1 /\ IsFiniteSet(B \cup {k})
  BY <1>1, <1>2, FS_AddElement
<1>4. s \in Numbers /\ s \notin B \cup {k} /\ s <= First + Cardinality(B \cup {k})
  BY <1>1, LowestIsLow
<1>5. B \cup {k, s} = (B \cup {k}) \cup {s}
  OBVIOUS
<1>6. Cardinality(B \cup {k, s}) = Cardinality(B) + 2
  <2>1. Cardinality((B \cup {k}) \cup {s}) = Cardinality(B \cup {k}) + 1
    BY <1>3, <1>4, FS_AddElement
  <2>2. Cardinality(B \cup {k, s}) = Cardinality((B \cup {k}) \cup {s})
    BY <1>5
  <2>3. Cardinality(B \cup {k}) + 1 = Cardinality(B) + 2
    BY <1>2, <1>3
  <2> QED BY <2>1, <2>2, <2>3
<1>7. c \in Numbers /\ c \notin B \cup {k, s} /\ c <= First + Cardinality(B \cup {k, s})
  BY <1>1, <1>4, LowestIsLow
<1>8. Cardinality(B \cup {s, c}) = Cardinality(B) + 2
  <2>1. Cardinality(B \cup {s}) = Cardinality(B) + 1 /\ IsFiniteSet(B \cup {s})
    BY <1>2, <1>4, FS_AddElement
  <2>2. B \cup {s, c} = (B \cup {s}) \cup {c} /\ c \notin B \cup {s}
    BY <1>7
  <2>3. Cardinality((B \cup {s}) \cup {c}) = Cardinality(B \cup {s}) + 1
    BY <2>1, <2>2, FS_AddElement
  <2> QED BY <1>2, <2>1, <2>2, <2>3
<1>9. s \in Int /\ c \in Int /\ First \in Int
  BY <1>4, <1>7, DescriptorsAssumption DEF Numbers
<1> QED BY <1>2, <1>3, <1>4, <1>6, <1>7, <1>8, <1>9

(* -1 is no descriptor.                                                    *)
LEMMA MinusOne == -1 \notin Numbers
BY DescriptorsAssumption DEF Numbers

-----------------------------------------------------------------------------
(* The invariant: types, the tables, and the accounts they are kept by.    *)

MostSeated == Cardinality(used) <= most
IInv == TypeOK /\ NoAliasing /\ Accounted /\ MostSeated /\ DiesLate

LEMMA InitInv == Init => IInv
<1> SUFFICES ASSUME Init PROVE IInv
  OBVIOUS
<1>1. Cardinality({}) = 0
  BY FS_EmptySet
<1>2. TypeOK
  BY DEF Init, TypeOK
<1>3. NoAliasing
  BY DEF Init, NoAliasing, HeldOpen, HeldOnce, Watched
<1>4. Accounted /\ MostSeated /\ DiesLate
  BY <1>1 DEF Init, Accounted, MostSeated, DiesLate
<1> QED BY <1>2, <1>3, <1>4 DEF IInv

LEMMA SeatInv ==
  ASSUME IInv, NEW i \in Slots, Seat(i)
  PROVE  IInv'
<1> USE DEF IInv
<1>1. PICK k \in Lowest(open) : \E s \in Lowest(open \cup {k}) :
        \E c \in Lowest(open \cup {k, s}) :
          /\ s_fifofd' = [s_fifofd EXCEPT ![i] = s]
          /\ c_fifofd' = [c_fifofd EXCEPT ![i] = c]
          /\ all_fds' = all_fds \cup {c}
          /\ open' = open \cup {s, c}
  BY DEF Seat
<1>2. PICK s \in Lowest(open \cup {k}) : \E c \in Lowest(open \cup {k, s}) :
          /\ s_fifofd' = [s_fifofd EXCEPT ![i] = s]
          /\ c_fifofd' = [c_fifofd EXCEPT ![i] = c]
          /\ all_fds' = all_fds \cup {c}
          /\ open' = open \cup {s, c}
  BY <1>1
<1>3. PICK c \in Lowest(open \cup {k, s}) :
          /\ s_fifofd' = [s_fifofd EXCEPT ![i] = s]
          /\ c_fifofd' = [c_fifofd EXCEPT ![i] = c]
          /\ all_fds' = all_fds \cup {c}
          /\ open' = open \cup {s, c}
  BY <1>2
<1>4. open \subseteq Numbers
  BY DEF TypeOK
<1>5. /\ s \in Numbers \ open /\ c \in Numbers \ open /\ s # c
      /\ s <= First + Cardinality(open) + 2 /\ c <= First + Cardinality(open) + 2
      /\ Cardinality(open') = Cardinality(open) + 2
  BY <1>3, <1>4, TwoNumbers
<1>6. /\ i \notin used /\ used' = used \cup {i}
      /\ most' = Larger(most, Cardinality(used'))
      /\ state' = state /\ hangups' = hangups /\ state = "up"
  BY DEF Seat
<1>7. /\ used \subseteq Slots /\ most \in Nat /\ hangups \in Nat
      /\ s_fifofd \in [Slots -> Numbers \cup {-1}]
      /\ c_fifofd \in [Slots -> Numbers \cup {-1}]
      /\ all_fds \subseteq Numbers
  BY DEF TypeOK
<1>8. /\ Cardinality(used) \in Nat /\ Cardinality(open) \in Nat
      /\ Cardinality(used') = Cardinality(used) + 1
  BY <1>4, <1>6, <1>7, FiniteParts, FiniteSlots, FS_AddElement
<1>9. most' \in Nat /\ most <= most' /\ Cardinality(used') <= most'
  BY <1>6, <1>7, <1>8 DEF Larger
<1>10. TypeOK'
  BY <1>3, <1>4, <1>5, <1>6, <1>7, <1>9 DEF TypeOK
<1>11. NoAliasing'
  <2>1. /\ s_fifofd'[i] = s /\ c_fifofd'[i] = c
        /\ \A j \in Slots \ {i} : s_fifofd'[j] = s_fifofd[j] /\ c_fifofd'[j] = c_fifofd[j]
    BY <1>3, <1>7
  <2>2. s # -1 /\ c # -1
    BY <1>5, MinusOne
  <2>3. HeldOpen'
    BY <1>3, <2>1 DEF HeldOpen, NoAliasing
  <2>4. HeldOnce'
    BY <1>5, <2>1, <2>2 DEF HeldOnce, HeldOpen, NoAliasing
  <2>5. Watched'
    BY <1>3, <1>6, <1>7, <2>1, <2>2 DEF Watched, NoAliasing
  <2> QED BY <2>3, <2>4, <2>5 DEF NoAliasing
<1>12. Accounted' /\ MostSeated'
  BY <1>5, <1>6, <1>7, <1>8, <1>9 DEF Accounted, MostSeated
<1>13. DiesLate'
  <2>1. Reach \in Int /\ Reach' \in Int /\ Reach <= Reach' /\ First \in Nat
    BY <1>6, <1>7, <1>9, DescriptorsAssumption DEF Reach
  <2>2. First + Cardinality(open) + 2 <= Reach'
    BY <1>6, <1>7, <1>8, <1>9, <2>1 DEF Accounted, Reach
  <2>3. s \in Int /\ c \in Int /\ \A f \in open : f \in Int
    BY <1>4, <1>5, DescriptorsAssumption DEF Numbers
  <2>4. s <= Reach' /\ c <= Reach'
    BY <1>5, <1>8, <2>1, <2>2, <2>3
  <2>5. \A f \in open : f <= Reach'
    BY <2>1, <2>3 DEF DiesLate
  <2> QED BY <1>3, <1>6, <2>4, <2>5 DEF DiesLate
<1> QED BY <1>10, <1>11, <1>12, <1>13

LEMMA ExhaustedInv ==
  ASSUME IInv, Exhausted
  PROVE  IInv'
<1> USE DEF IInv
<1>1. UNCHANGED <<used, s_fifofd, c_fifofd, all_fds, open, most, hangups>>
      /\ state' \in {"stuck", "dead"}
  BY DEF Exhausted
<1>2. TypeOK' /\ NoAliasing' /\ Accounted' /\ MostSeated'
  BY <1>1 DEF TypeOK, NoAliasing, HeldOpen, HeldOnce, Watched, Accounted, MostSeated
<1>3. Limit <= Reach + 2
  <2>1. IsFiniteSet(Numbers) /\ open \subseteq Numbers /\ Cardinality(open) \in Nat
    BY FiniteParts DEF TypeOK
  <2>2. Cardinality(Numbers \ open) = Cardinality(Numbers) - Cardinality(open)
    <3>1. Numbers \cap open = open
      BY <2>1
    <3> QED BY <2>1, <3>1, FS_Difference
  <2>3. Cardinality(Numbers) >= Limit - First
    BY DescriptorsAssumption, FS_Interval DEF Numbers
  <2>4. Cardinality(Numbers \ open) < 3 /\ Cardinality(Numbers) \in Nat
    BY <2>1, FiniteParts DEF Exhausted
  <2>5. Cardinality(open) >= Limit - First - 2
    BY <2>1, <2>2, <2>3, <2>4, DescriptorsAssumption
  <2>6. Cardinality(used) \in Nat /\ most \in Nat /\ hangups \in Nat
    BY FiniteSlots DEF TypeOK
  <2>7. Cardinality(open) <= 2 * most + hangups
    BY <2>6 DEF Accounted, MostSeated
  <2> QED BY <2>1, <2>5, <2>6, <2>7, DescriptorsAssumption DEF Reach
<1>4. DiesLate'
  BY <1>1, <1>3 DEF DiesLate, Reach
<1> QED BY <1>2, <1>4

(* What the scan does to state, whatever the command is.                   *)
LEMMA ScanDies ==
  ASSUME IInv, NEW i \in Slots, Scan(i)
  PROVE  /\ c_fifofd[i] \in open /\ c_fifofd[i] # -1 /\ i \in used
         /\ state' \in {"up", "dead"}
         /\ state' = "dead" => AliasBit <= Reach
<1>1. c_fifofd[i] \in all_fds /\ all_fds \subseteq Numbers
  BY DEF Scan, IInv, TypeOK
<1>2. c_fifofd[i] # -1 /\ i \in used
  BY <1>1, MinusOne DEF IInv, NoAliasing, Watched
<1>3. c_fifofd[i] \in open
  BY <1>2 DEF IInv, NoAliasing, HeldOpen
<1>4. state' = "dead" => AliasBit = c_fifofd[i]
  BY DEF Scan, ReadsMinusOne
<1>5. state' \in {"up", "dead"}
  BY DEF Scan
<1> QED BY <1>2, <1>3, <1>4, <1>5 DEF IInv, DiesLate

LEMMA ServeInv ==
  ASSUME IInv, NEW i \in Slots, Serve(i)
  PROVE  IInv'
<1>1. UNCHANGED <<used, s_fifofd, c_fifofd, all_fds, open, most, hangups>> /\ Scan(i)
  BY DEF Serve
<1>2. state' \in {"up", "dead"} /\ (state' = "dead" => AliasBit <= Reach)
  BY <1>1, ScanDies
<1>3. TypeOK' /\ NoAliasing' /\ Accounted' /\ MostSeated'
  BY <1>1, <1>2 DEF IInv, TypeOK, NoAliasing, HeldOpen, HeldOnce, Watched, Accounted, MostSeated
<1>4. DiesLate'
  BY <1>1, <1>2 DEF IInv, DiesLate, Reach
<1> QED BY <1>3, <1>4 DEF IInv

LEMMA EofInv ==
  ASSUME IInv, NEW i \in Slots, ServeEof(i)
  PROVE  IInv'
<1>1. /\ Scan(i) /\ open' = open \ {c_fifofd[i]}
      /\ all_fds' = all_fds \ {c_fifofd[i]}
      /\ c_fifofd' = [c_fifofd EXCEPT ![i] = -1]
      /\ used' = used \ {i} /\ hangups' = hangups + 1
      /\ UNCHANGED <<s_fifofd, most>>
  BY DEF ServeEof, ClosedAtEof
<1>2. /\ c_fifofd[i] \in open /\ c_fifofd[i] # -1 /\ i \in used
      /\ state' \in {"up", "dead"} /\ (state' = "dead" => AliasBit <= Reach)
  BY <1>1, ScanDies
<1>3. /\ used \subseteq Slots /\ open \subseteq Numbers /\ all_fds \subseteq Numbers
      /\ most \in Nat /\ hangups \in Nat
      /\ s_fifofd \in [Slots -> Numbers \cup {-1}]
      /\ c_fifofd \in [Slots -> Numbers \cup {-1}]
  BY DEF IInv, TypeOK
<1>4. TypeOK'
  BY <1>1, <1>2, <1>3 DEF TypeOK
<1>5. NoAliasing'
  <2>1. c_fifofd'[i] = -1 /\ \A j \in Slots \ {i} : c_fifofd'[j] = c_fifofd[j]
    BY <1>1, <1>3
  <2>2. HeldOpen'
    BY <1>1, <1>2, <2>1 DEF IInv, NoAliasing, HeldOpen, HeldOnce
  <2>3. HeldOnce'
    BY <1>1, <2>1 DEF IInv, NoAliasing, HeldOnce
  <2>4. Watched'
    BY <1>1, <1>2, <1>3, <2>1 DEF IInv, NoAliasing, HeldOnce, Watched
  <2> QED BY <2>2, <2>3, <2>4 DEF NoAliasing
<1>6. /\ Cardinality(used') = Cardinality(used) - 1 /\ Cardinality(used) \in Nat
      /\ Cardinality(open') = Cardinality(open) - 1 /\ Cardinality(open) \in Nat
  BY <1>1, <1>2, <1>3, FiniteParts, FiniteSlots, FS_RemoveElement
<1>7. Accounted' /\ MostSeated'
  BY <1>1, <1>3, <1>6 DEF IInv, Accounted, MostSeated
<1>8. DiesLate'
  <2>1. Reach \in Int /\ Reach' = Reach + 1 /\ \A f \in open : f \in Int
    BY <1>1, <1>3, DescriptorsAssumption DEF Reach, Numbers
  <2> QED BY <1>1, <1>2, <2>1, DescriptorsAssumption DEF IInv, DiesLate
<1> QED BY <1>4, <1>5, <1>7, <1>8 DEF IInv

LEMMA QuitInv ==
  ASSUME IInv, NEW i \in Slots, ServeQuit(i)
  PROVE  IInv'
<1>1. /\ Scan(i) /\ open' = open \ {c_fifofd[i], s_fifofd[i]}
      /\ all_fds' = all_fds \ {c_fifofd[i]}
      /\ c_fifofd' = [c_fifofd EXCEPT ![i] = -1]
      /\ s_fifofd' = [s_fifofd EXCEPT ![i] = -1]
      /\ used' = used \ {i}
      /\ UNCHANGED <<most, hangups>>
  BY DEF ServeQuit, ClosedAtQuit
<1>2. /\ c_fifofd[i] \in open /\ c_fifofd[i] # -1 /\ i \in used
      /\ state' \in {"up", "dead"} /\ (state' = "dead" => AliasBit <= Reach)
  BY <1>1, ScanDies
<1>3. /\ used \subseteq Slots /\ open \subseteq Numbers /\ all_fds \subseteq Numbers
      /\ most \in Nat /\ hangups \in Nat
      /\ s_fifofd \in [Slots -> Numbers \cup {-1}]
      /\ c_fifofd \in [Slots -> Numbers \cup {-1}]
  BY DEF IInv, TypeOK
<1>4. s_fifofd[i] # -1 /\ s_fifofd[i] \in open /\ s_fifofd[i] # c_fifofd[i]
  BY <1>2 DEF IInv, NoAliasing, Watched, HeldOpen, HeldOnce
<1>5. TypeOK'
  BY <1>1, <1>2, <1>3 DEF TypeOK
<1>6. NoAliasing'
  <2>1. /\ c_fifofd'[i] = -1 /\ \A j \in Slots \ {i} : c_fifofd'[j] = c_fifofd[j]
        /\ s_fifofd'[i] = -1 /\ \A j \in Slots \ {i} : s_fifofd'[j] = s_fifofd[j]
    BY <1>1, <1>3
  <2>2. HeldOpen'
    BY <1>1, <1>2, <1>4, <2>1 DEF IInv, NoAliasing, HeldOpen, HeldOnce
  <2>3. HeldOnce'
    BY <2>1 DEF IInv, NoAliasing, HeldOnce
  <2>4. Watched'
    BY <1>1, <1>2, <1>3, <2>1 DEF IInv, NoAliasing, HeldOnce, Watched
  <2> QED BY <2>2, <2>3, <2>4 DEF NoAliasing
<1>7. Cardinality(used') = Cardinality(used) - 1 /\ Cardinality(used) \in Nat
  BY <1>1, <1>2, <1>3, FiniteSlots, FS_RemoveElement
<1>8. Cardinality(open') = Cardinality(open) - 2
  <2>1. /\ IsFiniteSet(open) /\ Cardinality(open) \in Nat
        /\ IsFiniteSet(open \ {c_fifofd[i]})
        /\ Cardinality(open \ {c_fifofd[i]}) = Cardinality(open) - 1
    BY <1>2, <1>3, FiniteParts, FS_RemoveElement
  <2> DEFINE rest == open \ {c_fifofd[i]}
  <2>2. open' = rest \ {s_fifofd[i]} /\ s_fifofd[i] \in rest
    BY <1>1, <1>4
  <2>3. IsFiniteSet(rest) /\ Cardinality(rest) = Cardinality(open) - 1
    BY <2>1
  <2> HIDE DEF rest
  <2>4. Cardinality(rest \ {s_fifofd[i]}) = Cardinality(rest) - 1
    BY <2>2, <2>3, FS_RemoveElement
  <2> QED BY <2>1, <2>2, <2>3, <2>4
<1>9. Accounted' /\ MostSeated'
  BY <1>1, <1>3, <1>7, <1>8, FiniteParts DEF IInv, Accounted, MostSeated
<1>10. DiesLate'
  BY <1>1, <1>2 DEF IInv, DiesLate, Reach
<1> QED BY <1>5, <1>6, <1>9, <1>10 DEF IInv

LEMMA NextInv == IInv /\ [Next]_vars => IInv'
<1> SUFFICES ASSUME IInv, [Next]_vars PROVE IInv'
  OBVIOUS
<1>1. CASE UNCHANGED vars
  BY <1>1 DEF vars, IInv, TypeOK, NoAliasing, HeldOpen, HeldOnce, Watched,
              Accounted, MostSeated, DiesLate, Reach
<1>2. CASE Next
  BY <1>2, SeatInv, ExhaustedInv, ServeInv, EofInv, QuitInv DEF Next
<1> QED BY <1>1, <1>2

LEMMA Invariant == Spec => []IInv
BY InitInv, NextInv, PTL DEF Spec

-----------------------------------------------------------------------------
(* Every variable keeps its type, whatever the limits are.                 *)
THEOREM TypeCorrect == Spec => []TypeOK
<1>1. IInv => TypeOK
  BY DEF IInv
<1> QED BY <1>1, Invariant, PTL

(* main never uses a descriptor whose number has gone to another file: the *)
(* entries of s_fifofd and c_fifofd are open and distinct, those the EOF   *)
(* path leaves behind (main.c:153-158) included.                           *)
THEOREM TablesTrue == Spec => []NoAliasing
<1>1. IInv => NoAliasing
  BY DEF IInv
<1> QED BY <1>1, Invariant, PTL

(* The EOF path loses one descriptor each time (main.c:154), and nothing   *)
(* else loses any.                                                         *)
THEOREM LeakCounted == Spec => []Accounted
<1>1. IInv => Accounted
  BY DEF IInv
<1> QED BY <1>1, Invariant, PTL

(* How many clients and hang-ups it takes for FD_ISSET(-1) (main.c:144) or *)
(* the limit to end main.                                                  *)
THEOREM LifeBounded == Spec => []DiesLate
<1>1. IInv => DiesLate
  BY DEF IInv
<1> QED BY <1>1, Invariant, PTL

=============================================================================
