---------------------------- MODULE GroupsProofs ----------------------------
(***************************************************************************)
(* Proofs about Groups, for any number of child servers, accounts, groups  *)
(* and commands.                                                           *)
(***************************************************************************)
EXTENDS Groups, SequenceTheorems, FiniteSetTheorems, TLAPS

-----------------------------------------------------------------------------
(* Types.                                                                  *)

(* The number of members of a group is a natural number.                   *)
LEMMA CountTyped ==
  ASSUME NEW S \in SUBSET Names
  PROVE  Cardinality(S) \in Nat
BY GroupsAssumption, FS_Subset, FS_CardinalityType

LEMMA InitTyped == Init => TypeOK
<1> SUFFICES ASSUME Init PROVE TypeOK
  OBVIOUS
<1>1. strings \subseteq Names \cup Typed
  BY GroupsAssumption DEF Init
<1>2. score \in [Typed -> [Names -> Nat]]
  BY DEF Init, Nobody
<1> QED BY <1>1, <1>2, GroupsAssumption DEF Init, TypeOK, Steps

(* A command, once typed, names a group; the refusals leave no trace.      *)
LEMMA CommandsTyped ==
  ASSUME TypeOK, NEW c \in Child, NEW g \in Typed,
         CreateGroup(c, g) \/ DelGroup(c, g) \/ LeaveGroup(c, g)
  PROVE  TypeOK'
<1> USE DEF TypeOK, Type, Goto, Steps, store
<1>1. CASE CreateGroup(c, g)
  BY <1>1 DEF CreateGroup
<1>2. CASE DelGroup(c, g)
  BY <1>2 DEF DelGroup
<1>3. CASE LeaveGroup(c, g)
  BY <1>3 DEF LeaveGroup
<1> QED BY <1>1, <1>2, <1>3

LEMMA StartTyped ==
  ASSUME TypeOK, NEW c \in Child, NEW g \in Typed, NEW l \in Lists,
         AddTo(c, g, l) \/ Remove(c, g, l)
  PROVE  TypeOK'
<1> USE DEF TypeOK, Type, Goto, Steps, store
<1>1. ASSUME NEW k, NEW p \in {"lookAdd", "lookDrop"}, Start(c, k, g, l, p)
      PROVE  TypeOK'
  <2>1. l \in Seq(Names) /\ <<>> \in Seq(Names)
    BY GroupsAssumption
  <2>2. snap' \in [Child -> SUBSET Names]
    BY <1>1 DEF Start, MembersOf
  <2> QED BY <1>1, <2>1, <2>2 DEF Start
<1> QED BY <1>1 DEF AddTo, Remove

(* Storing a score keeps the sets well-typed.                              *)
LEMMA ScoreTyped ==
  ASSUME NEW g \in Typed, NEW n \in Names, NEW k \in Nat,
         score \in [Typed -> [Names -> Nat]]
  PROVE  [score EXCEPT ![g][n] = k] \in [Typed -> [Names -> Nat]]
<1>1. [score[g] EXCEPT ![n] = k] \in [Names -> Nat]
  OBVIOUS
<1>2. [score EXCEPT ![g][n] = k] = [score EXCEPT ![g] = [score[g] EXCEPT ![n] = k]]
  OBVIOUS
<1> QED BY <1>1, <1>2

LEMMA StepsTyped ==
  ASSUME TypeOK, NEW c \in Child,
         \/ AddCreator(c) \/ DeleteKey(c) \/ DieReporting(c) \/ Unlist(c)
         \/ Count(c) \/ LeaveMember(c)
  PROVE  TypeOK'
<1> USE DEF TypeOK, Goto, Steps, store
<1>0. Account[c] \in Names /\ Nobody \in [Names -> Nat]
  BY GroupsAssumption DEF Nobody
<1>1. CASE AddCreator(c)
  <2>1. grp[c] \in Typed
    BY <1>1 DEF AddCreator
  <2>2. score' \in [Typed -> [Names -> Nat]] /\ upset' \subseteq Typed
    <3>1. CASE grp[c] \in strings
      BY <1>1, <2>1, <3>1 DEF AddCreator
    <3>2. CASE grp[c] \notin strings
      <4>1. score' = [score EXCEPT ![grp[c]][Account[c]] = 1] /\ upset' = upset
        BY <1>1, <3>2 DEF AddCreator
      <4> QED BY <1>0, <2>1, <4>1, ScoreTyped
    <3> QED BY <3>1, <3>2
  <2> QED BY <1>1, <2>2 DEF AddCreator
<1>2. CASE DeleteKey(c)
  BY <1>0, <1>2 DEF DeleteKey
<1>3. CASE DieReporting(c)
  BY <1>3 DEF DieReporting
<1>4. CASE Unlist(c)
  BY <1>4 DEF Unlist
<1>5. CASE Count(c)
  <2>1. Cardinality(MembersOf(grp[c])) \in Nat
    BY CountTyped DEF MembersOf
  <2> QED BY <1>5, <2>1 DEF Count
<1>6. CASE LeaveMember(c)
  <2>1. grp[c] \in Typed
    BY <1>6 DEF LeaveMember
  <2>2. score' \in [Typed -> [Names -> Nat]] /\ upset' \subseteq Typed
    <3>1. score' = score \/ score' = [score EXCEPT ![grp[c]][Account[c]] = 0]
      BY <1>6 DEF LeaveMember
    <3>2. upset' = upset \/ upset' = upset \cup {grp[c]}
      BY <1>6 DEF LeaveMember
    <3>3. [score EXCEPT ![grp[c]][Account[c]] = 0] \in [Typed -> [Names -> Nat]]
      BY <1>0, <2>1, ScoreTyped
    <3> QED BY <2>1, <3>1, <3>2, <3>3
  <2>3. pc' \in [Child -> Steps] /\ \A d \in Child : pc'[d] # "idle" => grp[d] \in Typed
    BY <1>6, <2>1 DEF LeaveMember
  <2>4. \A d \in Child : /\ pc'[d] \in {"lookAdd", "lookDrop", "add", "drop"} => todo[d] # <<>>
                         /\ pc'[d] = "add" => num[d] # 0
    BY <1>6 DEF LeaveMember
  <2> QED BY <1>6, <2>2, <2>3, <2>4 DEF LeaveMember
<1> QED BY <1>1, <1>2, <1>3, <1>4, <1>5, <1>6

(* What the next name of a list is, and what is left after it.             *)
LEMMA ListTyped ==
  ASSUME NEW s \in Seq(Names), s # <<>>
  PROVE  /\ Head(s) \in Names
         /\ Tail(s) \in Seq(Names)
         /\ Tail(s) # s
         /\ Len(s) \in Nat \ {0}
         /\ Len(s) # 1 => Tail(s) # <<>>
<1>1. /\ Head(s) \in Names
      /\ Tail(s) \in Seq(Names)
      /\ Len(Tail(s)) = Len(s) - 1
  BY HeadTailProperties
<1>2. Len(s) \in Nat \ {0}
  BY EmptySeq, LenProperties
<1>3. Len(s) # 1 => Len(Tail(s)) # 0
  BY <1>1, <1>2
<1>4. Len(<<>>) = 0
  BY EmptySeq
<1>5. Tail(s) # s
  <2>1. Len(s) - 1 # Len(s)
    BY <1>2
  <2> QED BY <1>1, <2>1, Zenon
<1> QED BY <1>1, <1>2, <1>3, <1>4, <1>5

LEMMA ListsTyped ==
  ASSUME TypeOK, NEW c \in Child, LookUp(c) \/ AddMember(c) \/ DropMember(c)
  PROVE  TypeOK'
<1> DEFINE n == Head(todo[c])
<1>1. /\ n \in Names /\ Tail(todo[c]) \in Seq(Names)
      /\ Len(todo[c]) \in Nat \ {0}
      /\ Len(todo[c]) # 1 => Tail(todo[c]) # <<>>
      /\ grp[c] \in Typed
  BY ListTyped DEF TypeOK, LookUp, AddMember, DropMember
<1> USE DEF TypeOK, Goto, Steps, store
<1>2. CASE LookUp(c)
  <2> DEFINE k == IF Wanted(c, n) THEN Append(keep[c], n) ELSE keep[c]
  <2>1. k \in Seq(Names)
    BY <1>1
  <2>2. Cardinality(snap[c]) + 1 \in Nat \ {0}
    <3>1. snap[c] \in SUBSET Names
      OBVIOUS
    <3>2. Cardinality(snap[c]) \in Nat
      BY <3>1, CountTyped
    <3> QED BY <3>2
  <2>3. keep' = [keep EXCEPT ![c] = k]
    BY <1>2 DEF LookUp
  <2>4. CASE /\ Len(todo[c]) > 1
             /\ todo' = [todo EXCEPT ![c] = Tail(@)]
             /\ UNCHANGED <<pc, num>>
    <3>1. UNCHANGED <<strings, score, listed, grp, snap, nops, reg, upset>>
      BY <1>2 DEF LookUp
    <3>2. Len(todo[c]) # 1
      <4>1. Len(todo[c]) \in Nat /\ Len(todo[c]) > 1
        BY <1>1, <2>4
      <4>2. \A m \in Nat : m > 1 => m # 1
        OBVIOUS
      <4> QED BY <4>1, <4>2, Zenon
    <3>3. todo' \in [Child -> Seq(Names)] /\ keep' \in [Child -> Seq(Names)]
      BY <1>1, <2>1, <2>3, <2>4
    <3>4. \A d \in Child : pc'[d] \in {"lookAdd", "lookDrop", "add", "drop"} => todo'[d] # <<>>
      BY <1>1, <2>4, <3>2
    <3> QED BY <2>4, <3>1, <3>3, <3>4
  <2>5. CASE /\ Len(todo[c]) = 1
             /\ todo' = [todo EXCEPT ![c] = k]
             /\ num' = [num EXCEPT ![c] = Cardinality(snap[c]) + 1]
             /\ Goto(c, IF k = <<>> THEN "idle"
                        ELSE IF pc[c] = "lookAdd" THEN "add" ELSE "drop")
    BY SMTT(30), <1>1, <1>2, <2>1, <2>2, <2>3, <2>5 DEF LookUp
  <2> QED BY <1>2, <2>4, <2>5 DEF LookUp
<1>3. ASSUME Advance(c), pc[c] \in {"add", "drop"}
      PROVE  /\ todo' \in [Child -> Seq(Names)]
             /\ pc' \in [Child -> Steps]
             /\ \A d \in Child : pc'[d] \in {"lookAdd", "lookDrop", "add", "drop"} => todo'[d] # <<>>
             /\ \A d \in Child : pc'[d] # "idle" => grp[d] \in Typed
             /\ \A d \in Child : pc'[d] = "add" => pc[d] = "add"
  BY <1>1, <1>3 DEF Advance
<1>4. CASE AddMember(c)
  <2>1. score' \in [Typed -> [Names -> Nat]] /\ upset' \subseteq Typed
    BY <1>1, <1>4, ScoreTyped DEF AddMember
  <2>2. num' \in [Child -> Nat] /\ \A d \in Child : num'[d] = 0 => num[d] = 0
    BY <1>4 DEF AddMember
  <2> QED BY <1>3, <1>4, <2>1, <2>2 DEF AddMember
<1>5. CASE DropMember(c)
  <2>1. score' \in [Typed -> [Names -> Nat]] /\ upset' \subseteq Typed
    BY <1>1, <1>5, ScoreTyped DEF DropMember
  <2> QED BY <1>3, <1>5, <2>1 DEF DropMember
<1> QED BY <1>2, <1>4, <1>5

LEMMA RegisterTyped ==
  ASSUME TypeOK, RegisterSet \/ \E n \in Newcomers : RegisterGet(n)
  PROVE  TypeOK'
<1>1. Nobody \in [Names -> Nat] /\ Newcomers \subseteq Names
  BY GroupsAssumption DEF Nobody
<1>2. CASE RegisterSet
  <2>1. score' \in [Typed -> [Names -> Nat]] /\ upset' \subseteq Typed
    BY <1>1, <1>2 DEF RegisterSet, TypeOK
  <2> QED BY <1>1, <1>2, <2>1 DEF RegisterSet, TypeOK, childVars
<1>3. CASE \E n \in Newcomers : RegisterGet(n)
  BY <1>3 DEF RegisterGet, TypeOK, store, childVars
<1> QED BY <1>2, <1>3

LEMMA NextTyped == TypeOK /\ [Next]_vars => TypeOK'
<1> SUFFICES ASSUME TypeOK, [Next]_vars PROVE TypeOK'
  OBVIOUS
<1>1. CASE UNCHANGED vars
  BY <1>1 DEF vars, store, childVars, TypeOK
<1>2. ASSUME NEW c \in Child, ChildStep(c) PROVE TypeOK'
  <2>1. CASE \E g \in Typed : CreateGroup(c, g) \/ DelGroup(c, g) \/ LeaveGroup(c, g)
    BY <2>1, CommandsTyped
  <2>2. CASE \E g \in Typed, l \in Lists : AddTo(c, g, l) \/ Remove(c, g, l)
    BY <2>2, StartTyped
  <2> QED BY <1>2, <2>1, <2>2, StepsTyped, ListsTyped DEF ChildStep
<1> QED BY <1>1, <1>2, RegisterTyped DEF Next

(* Groups is type-correct.                                                 *)
THEOREM TypeCorrect == Spec => []TypeOK
BY InitTyped, NextTyped, PTL DEF Spec

-----------------------------------------------------------------------------
(* Ownership.                                                              *)

(* A group has one owner.                                                  *)
LEMMA OneOwner ==
  ASSUME TypeOK, NEW g \in Typed, NEW m \in Names, NEW n \in Names,
         Owns(m, g), Owns(n, g)
  PROVE  m = n
<1>1. Before(g, m, n) /\ Before(g, n, m)
  BY DEF Owns
<1>2. /\ score[g][m] \in Nat /\ score[g][n] \in Nat
      /\ Rank[m] \in Nat /\ Rank[n] \in Nat
  BY GroupsAssumption DEF TypeOK
<1>3. Rank[m] = Rank[n]
  BY <1>1, <1>2 DEF Before
<1> QED BY <1>3, GroupsAssumption

(* With one session for each account, one child acts for the owner.        *)
LEMMA OneActs ==
  ASSUME TypeOK, OneSession, NEW g \in Typed, NEW c \in Child, NEW d \in Child,
         Owns(Account[c], g), Owns(Account[d], g)
  PROVE  c = d
<1>1. Account[c] \in Names /\ Account[d] \in Names
  BY GroupsAssumption
<1> QED BY <1>1, OneOwner DEF OneSession

(* An owner is a member.                                                   *)
LEMMA OwnerIsMember ==
  ASSUME NEW c \in Child, NEW g, Owns(Account[c], g)
  PROVE  MembersOf(g) # {}
BY GroupsAssumption DEF Owns, MembersOf

(* What happens to one group leaves the others alone.                      *)
LEMMA SameScore ==
  ASSUME NEW g, score'[g] = score[g]
  PROVE  /\ MembersOf(g)' = MembersOf(g)
         /\ \A n \in Names : Owns(n, g)' = Owns(n, g)
BY DEF MembersOf, Owns, In, Before

(* A group keeps its owner when somebody else is taken out of it.          *)
LEMMA OwnerStays ==
  ASSUME TypeOK, NEW g \in Typed, NEW m \in Names, NEW n \in Names, m # n,
         Owns(m, g), score' = [score EXCEPT ![g][n] = 0]
  PROVE  Owns(m, g)'
<1>1. \A x \in Names : score'[g][x] = IF x = n THEN 0 ELSE score[g][x]
  BY DEF TypeOK
<1> QED BY <1>1 DEF Owns, In, Before

(* Taking somebody out of a group.                                         *)
LEMMA Removal ==
  ASSUME TypeOK, NEW g \in Typed, NEW n \in Names,
         score' = [score EXCEPT ![g][n] = 0]
  PROVE  /\ MembersOf(g)' = MembersOf(g) \ {n}
         /\ \A h \in Typed : h # g => score'[h] = score[h]
<1>1. \A x \in Names : score'[g][x] = IF x = n THEN 0 ELSE score[g][x]
  BY DEF TypeOK
<1>2. \A h \in Typed : h # g => score'[h] = score[h]
  BY DEF TypeOK
<1> QED BY <1>1, <1>2 DEF MembersOf, In

-----------------------------------------------------------------------------
(* The invariant.                                                          *)

Facts == TypeOK /\ OneSession /\ GroupInv

LEMMA InitInv == Init => GroupInv
<1> SUFFICES ASSUME Init PROVE GroupInv
  OBVIOUS
<1>1. \A g \in Typed : MembersOf(g) = {}
  BY DEF Init, MembersOf, In, Nobody
<1>2. listed = {} /\ \A c \in Child : pc[c] = "idle"
  BY DEF Init
<1> QED BY <1>1, <1>2 DEF GroupInv, StillOwner, Agreement, OneUpdate, OneKind, Sound, Acting, Ending

(* The invariant is a matter of each group alone.                          *)
GroupOK(g) ==
  /\ g \in strings => MembersOf(g) = {}
  /\ g \notin upset =>
       /\ \A c \in Child : pc[c] \in Acting /\ grp[c] = g => Owns(Account[c], g)
       /\ MembersOf(g) # {} => g \in listed
       /\ g \in listed /\ MembersOf(g) = {} =>
            \E c \in Child : grp[c] = g /\ pc[c] \in Ending
       /\ \A c \in Child : pc[c] \in Ending /\ grp[c] = g =>
            /\ g \in listed
            /\ MembersOf(g) = {}
            /\ \A d \in Child : pc[d] \in Ending /\ grp[d] = g => c = d

LEMMA GroupByGroup ==
  ASSUME TypeOK, OneSession
  PROVE  GroupInv <=> \A g \in Typed : GroupOK(g)
<1>1. GroupInv => \A g \in Typed : GroupOK(g)
  BY DEF GroupInv, StillOwner, Agreement, OneUpdate, OneKind, GroupOK, Sound
<1>2. ASSUME \A g \in Typed : GroupOK(g) PROVE GroupInv
  <2>1. \A c \in Child : pc[c] \in Acting \cup Ending => grp[c] \in Typed
    BY DEF TypeOK, Acting, Ending
  <2> QED BY <1>2, <2>1 DEF GroupInv, StillOwner, Agreement, OneUpdate, OneKind, GroupOK, Sound
<1> QED BY <1>1, <1>2

(* A step that changes neither the data of group h nor who is at work on   *)
(* it keeps h as it is.                                                    *)
LEMMA Elsewhere ==
  ASSUME NEW h, GroupOK(h),
         score'[h] = score[h],
         h \in listed' <=> h \in listed,
         h \in strings' => h \in strings,
         h \in upset => h \in upset',
         \A d \in Child : \/ pc'[d] = pc[d] /\ grp'[d] = grp[d]
                          \/ /\ pc'[d] \in Ending => grp'[d] # h
                             /\ pc'[d] \in Acting /\ grp'[d] = h =>
                                  (pc[d] \in Acting /\ grp[d] = h) \/ Owns(Account[d], h)
                             /\ pc[d] \in Ending => grp[d] # h
  PROVE  GroupOK(h)'
<1>1. MembersOf(h)' = MembersOf(h) /\ \A n \in Names : Owns(n, h)' = Owns(n, h)
  BY SameScore
<1>2. \A d \in Child : Owns(Account[d], h)' = Owns(Account[d], h)
  BY <1>1, GroupsAssumption
<1>3. \A d \in Child : /\ pc'[d] \in Ending /\ grp'[d] = h => pc[d] \in Ending /\ grp[d] = h
                       /\ pc[d] \in Ending /\ grp[d] = h => pc'[d] \in Ending /\ grp'[d] = h
  OBVIOUS
<1>4. \A d \in Child : pc'[d] \in Acting /\ grp'[d] = h =>
                         (pc[d] \in Acting /\ grp[d] = h) \/ Owns(Account[d], h)
  OBVIOUS
<1> QED BY <1>1, <1>2, <1>3, <1>4 DEF GroupOK

AllOK == TypeOK /\ OneSession /\ \A g \in Typed : GroupOK(g)

(* The steps that read only, and the ones that begin a command.            *)
LEMMA ReadersKeep ==
  ASSUME AllOK, NEW c \in Child, NEW h \in Typed,
         \/ \E g \in Typed : DelGroup(c, g) \/ LeaveGroup(c, g)
         \/ \E g \in Typed, l \in Lists : AddTo(c, g, l) \/ Remove(c, g, l)
         \/ Count(c) \/ LookUp(c)
  PROVE  GroupOK(h)'
<1> USE DEF AllOK, store, Type, Goto
<1>1. UNCHANGED <<strings, score, listed, upset>>
  BY DEF DelGroup, LeaveGroup, AddTo, Remove, Start, Count, LookUp
<1>2. \A d \in Child \ {c} : pc'[d] = pc[d] /\ grp'[d] = grp[d]
  BY DEF DelGroup, LeaveGroup, AddTo, Remove, Start, Count, LookUp, TypeOK
<1>3. /\ pc'[c] \notin Ending /\ pc[c] \notin Ending
      /\ pc'[c] \in Acting => \/ pc[c] \in Acting /\ grp'[c] = grp[c]
                              \/ Owns(Account[c], grp'[c])
  <2> USE DEF TypeOK, Acting, Ending
  <2>1. ASSUME NEW g \in Typed, DelGroup(c, g) \/ LeaveGroup(c, g)
        PROVE  <1>3!1 /\ <1>3!2
    BY <2>1 DEF DelGroup, LeaveGroup, Permitted
  <2>2. ASSUME NEW g \in Typed, NEW l \in Lists, AddTo(c, g, l) \/ Remove(c, g, l)
        PROVE  <1>3!1 /\ <1>3!2
    BY <2>2 DEF AddTo, Remove, Start, Permitted
  <2>3. CASE Count(c)
    BY <2>3 DEF Count
  <2>4. CASE LookUp(c)
    BY <2>4 DEF LookUp
  <2> QED BY <2>1, <2>2, <2>3, <2>4
<1>4. GroupOK(h)
  OBVIOUS
<1> QED BY ONLY <1>1, <1>2, <1>3, <1>4, Elsewhere

(* createGroup lists a group that has no members.                          *)
LEMMA CreateKeeps ==
  ASSUME AllOK, NEW c \in Child, NEW g \in Typed, CreateGroup(c, g), NEW h \in Typed
  PROVE  GroupOK(h)'
<1> USE DEF AllOK, store, Type, Goto
<1>1. /\ listed' = listed \cup {g}
      /\ UNCHANGED <<strings, score, upset>>
      /\ \A d \in Child \ {c} : pc'[d] = pc[d] /\ grp'[d] = grp[d]
      /\ pc[c] = "idle" /\ grp'[c] = g
      /\ pc'[c] = IF g \in listed THEN "idle" ELSE "creator"
  BY DEF CreateGroup, TypeOK
<1>2. CASE h # g \/ g \in listed
  BY <1>1, <1>2, Elsewhere DEF Acting, Ending
<1>3. CASE h = g /\ g \notin listed
  <2>1. g \notin upset => /\ MembersOf(g) = {}
                          /\ \A d \in Child : grp[d] = g => pc[d] \notin Ending
                          /\ \A d \in Child : grp[d] = g => pc[d] \notin Acting
    BY <1>3, OwnerIsMember DEF GroupOK
  <2>2. MembersOf(g)' = MembersOf(g)
    BY <1>1, SameScore
  <2>3. /\ g \in strings' => MembersOf(g)' = {}
        /\ g \in listed'
        /\ pc'[c] = "creator"
    BY <1>1, <1>3, <2>2 DEF GroupOK
  <2>4. g \notin upset => \A d \in Child : /\ pc'[d] \notin Acting \/ grp'[d] # g
                                           /\ pc'[d] \in Ending /\ grp'[d] = g => d = c
    BY <1>1, <2>1, <2>3 DEF Acting
  <2> QED BY <1>1, <1>3, <2>1, <2>2, <2>3, <2>4 DEF GroupOK, Ending
<1> QED BY <1>2, <1>3

(* A step of child c that goes on with its command keeps the other groups. *)
LEMMA OthersKeep ==
  ASSUME AllOK, NEW c \in Child, NEW h \in Typed, h # grp[c],
         grp' = grp, pc' = [pc EXCEPT ![c] = pc'[c]],
         \A g \in Typed : g # grp[c] => /\ score'[g] = score[g]
                                        /\ g \in listed' <=> g \in listed
                                        /\ g \in strings' <=> g \in strings
                                        /\ g \in upset' <=> g \in upset
  PROVE  GroupOK(h)'
<1>1. \A d \in Child : d # c => pc'[d] = pc[d]
  BY DEF AllOK, TypeOK
<1>2. GroupOK(h)
  BY DEF AllOK
<1> QED BY <1>1, <1>2, Elsewhere

LEMMA AddCreatorKeeps ==
  ASSUME AllOK, NEW c \in Child, AddCreator(c), NEW h \in Typed
  PROVE  GroupOK(h)'
<1> DEFINE g == grp[c]
<1>1. /\ g \in Typed /\ Account[c] \in Names
      /\ pc' = [pc EXCEPT ![c] = "idle"] /\ pc[c] = "creator"
      /\ UNCHANGED <<grp, strings, listed>>
  BY GroupsAssumption DEF AllOK, TypeOK, AddCreator, Goto
<1>2. pc'[c] = "idle" /\ \A d \in Child : d # c => pc'[d] = pc[d]
  BY <1>1 DEF AllOK, TypeOK
<1>3. CASE g \in strings
  <2>1. upset' = upset \cup {g} /\ score' = score
    BY <1>3 DEF AddCreator
  <2>2. CASE h # g
    BY <1>1, <1>2, <2>1, <2>2, OthersKeep
  <2>3. CASE h = g
    BY <1>1, <2>1, <2>3, SameScore DEF GroupOK, AllOK
  <2> QED BY <2>2, <2>3
<1>4. CASE g \notin strings
  <2>1. upset' = upset /\ score' = [score EXCEPT ![g][Account[c]] = 1]
    BY <1>4 DEF AddCreator
  <2>2. \A x \in Typed : x # g => score'[x] = score[x]
    BY <2>1 DEF AllOK, TypeOK
  <2>3. CASE h # g
    BY <1>1, <1>2, <2>1, <2>2, <2>3, OthersKeep
  <2>4. CASE h = g
    <3>1. MembersOf(g)' # {}
      BY <1>1, <2>1 DEF MembersOf, In, AllOK, TypeOK
    <3>2. g \notin upset => /\ g \in listed
                            /\ \A d \in Child : pc[d] \in Acting => grp[d] # g
                            /\ \A d \in Child : d # c /\ pc[d] \in Ending => grp[d] # g
      BY <1>1, OwnerIsMember DEF GroupOK, AllOK, Ending
    <3> QED BY <1>1, <1>2, <1>4, <2>1, <2>4, <3>1, <3>2 DEF GroupOK, Acting, Ending
  <2> QED BY <2>3, <2>4
<1> QED BY <1>3, <1>4

(* DEL by the owner empties the group and leaves the owner's child alone   *)
(* at work on it.                                                          *)
LEMMA DeleteKeyKeeps ==
  ASSUME AllOK, NEW c \in Child, DeleteKey(c), NEW h \in Typed
  PROVE  GroupOK(h)'
<1> DEFINE g == grp[c]
<1>1. /\ g \in Typed
      /\ pc' = [pc EXCEPT ![c] = "report"] /\ pc[c] = "delete"
      /\ score' = [score EXCEPT ![g] = Nobody] /\ strings' = strings \ {g}
      /\ UNCHANGED <<grp, listed, upset>>
  BY DEF AllOK, TypeOK, DeleteKey, Goto
<1>2. /\ pc'[c] = "report" /\ \A d \in Child : d # c => pc'[d] = pc[d]
      /\ score'[g] = Nobody /\ \A x \in Typed : x # g => score'[x] = score[x]
  BY <1>1 DEF AllOK, TypeOK
<1>3. CASE h # g
  BY <1>1, <1>2, <1>3, OthersKeep
<1>4. CASE h = g
  <2>1. MembersOf(g)' = {}
    BY <1>1, <1>2 DEF MembersOf, In, Nobody
  <2>2. g \notin upset =>
          /\ Owns(Account[c], g) /\ MembersOf(g) # {} /\ g \in listed
          /\ \A d \in Child : pc[d] \in Acting /\ grp[d] = g => d = c
          /\ \A d \in Child : pc[d] \in Ending => grp[d] # g
    BY <1>1, OwnerIsMember, OneActs DEF GroupOK, AllOK, Acting
  <2> QED BY <1>1, <1>2, <1>4, <2>1, <2>2 DEF GroupOK, Acting, Ending
<1> QED BY <1>3, <1>4

LEMMA DieKeeps ==
  ASSUME AllOK, NEW c \in Child, DieReporting(c), NEW h \in Typed
  PROVE  GroupOK(h)'
<1>1. /\ grp[c] \in Typed
      /\ pc' = [pc EXCEPT ![c] = "gone"]
      /\ upset' = upset \cup {grp[c]}
      /\ UNCHANGED <<grp, listed, strings, score>>
  BY DEF AllOK, TypeOK, DieReporting, Goto, store
<1>2. pc'[c] = "gone"
  BY <1>1 DEF AllOK, TypeOK, DieReporting
<1>3. CASE h # grp[c]
  BY <1>1, <1>2, <1>3, OthersKeep
<1>4. CASE h = grp[c]
  BY <1>1, <1>4, SameScore DEF GroupOK, AllOK
<1> QED BY <1>3, <1>4

(* The end of a group: it has no members, so nobody acts on it, and no     *)
(* other child is between two updates of it.                               *)
LEMMA UnlistKeeps ==
  ASSUME AllOK, NEW c \in Child, Unlist(c), NEW h \in Typed
  PROVE  GroupOK(h)'
<1> DEFINE g == grp[c]
<1>1. /\ g \in Typed /\ pc[c] \in Ending
      /\ pc' = [pc EXCEPT ![c] = "idle"]
      /\ listed' = listed \ {g}
      /\ UNCHANGED <<grp, strings, score, upset>>
  BY DEF AllOK, TypeOK, Unlist, Goto, Ending
<1>2. pc'[c] = "idle" /\ \A d \in Child : d # c => pc'[d] = pc[d]
  BY <1>1 DEF AllOK, TypeOK
<1>3. CASE h # g
  BY <1>1, <1>2, <1>3, OthersKeep
<1>4. CASE h = g
  <2>1. MembersOf(g)' = MembersOf(g)
    BY <1>1, SameScore
  <2>2. g \notin upset => /\ MembersOf(g) = {}
                          /\ \A d \in Child : pc[d] \in Acting => grp[d] # g
                          /\ \A d \in Child : d # c /\ pc[d] \in Ending => grp[d] # g
    BY <1>1, OwnerIsMember DEF GroupOK, AllOK
  <2> QED BY <1>1, <1>2, <1>4, <2>1, <2>2 DEF GroupOK, Acting, Ending, AllOK
<1> QED BY <1>3, <1>4

(* ZADD by the owner, who remains it unless the group is upset.            *)
LEMMA AddMemberKeeps ==
  ASSUME AllOK, NEW c \in Child, AddMember(c), NEW h \in Typed
  PROVE  GroupOK(h)'
<1> DEFINE g == grp[c]  n == Head(todo[c])
<1>1. /\ g \in Typed /\ pc[c] = "add"
      /\ pc' = [pc EXCEPT ![c] = IF Len(todo[c]) = 1 THEN "idle" ELSE @]
      /\ score' = IF g \in strings THEN score ELSE [score EXCEPT ![g][n] = num[c]]
      /\ upset' = IF Owns(Account[c], g)' THEN upset ELSE upset \cup {g}
      /\ UNCHANGED <<grp, strings, listed>>
  BY DEF AllOK, TypeOK, AddMember, Advance
<1>2. /\ pc'[c] \in {"idle", "add"} /\ \A d \in Child : d # c => pc'[d] = pc[d]
      /\ \A x \in Typed : x # g => score'[x] = score[x]
  BY <1>1 DEF AllOK, TypeOK
<1>3. CASE h # g
  BY <1>1, <1>2, <1>3, OthersKeep
<1>4. CASE h = g
  <2>1. g \notin upset' => Owns(Account[c], g)' /\ MembersOf(g)' # {} /\ g \notin upset
    BY <1>1, OwnerIsMember, GroupsAssumption DEF Owns, MembersOf
  <2>2. g \notin upset => /\ g \in listed
                          /\ \A d \in Child : pc[d] \in Acting /\ grp[d] = g => d = c
                          /\ \A d \in Child : pc[d] \in Ending => grp[d] # g
    BY <1>1, OwnerIsMember, OneActs DEF GroupOK, AllOK, Acting
  <2>3. g \in strings => MembersOf(g)' = {}
    BY <1>1, SameScore DEF GroupOK, AllOK
  <2> QED BY <1>1, <1>2, <1>4, <2>1, <2>2, <2>3 DEF GroupOK, Acting, Ending
<1> QED BY <1>3, <1>4

(* ZREM by the owner of somebody else.                                     *)
LEMMA DropMemberKeeps ==
  ASSUME AllOK, NEW c \in Child, DropMember(c), NEW h \in Typed
  PROVE  GroupOK(h)'
<1> DEFINE g == grp[c]  n == Head(todo[c])
<1>1. /\ g \in Typed /\ pc[c] = "drop" /\ n \in Names
      /\ pc' = [pc EXCEPT ![c] = IF Len(todo[c]) = 1 THEN "idle" ELSE @]
      /\ score' = [score EXCEPT ![g][n] = 0]
      /\ upset' = IF n = Account[c] THEN upset \cup {g} ELSE upset
      /\ UNCHANGED <<grp, strings, listed>>
  BY ListTyped DEF AllOK, TypeOK, DropMember, Advance
<1>2. /\ pc'[c] \in {"idle", "drop"} /\ \A d \in Child : d # c => pc'[d] = pc[d]
      /\ \A x \in Typed : x # g => score'[x] = score[x]
      /\ MembersOf(g)' = MembersOf(g) \ {n}
  BY <1>1, Removal DEF AllOK, TypeOK
<1>3. CASE h # g
  BY ZenonT(30), <1>1, <1>2, <1>3, OthersKeep
<1>4. CASE h = g
  <2>1. ASSUME g \notin upset'
        PROVE  /\ Owns(Account[c], g)' /\ MembersOf(g)' # {} /\ g \notin upset
    <3>1. Owns(Account[c], g) /\ n # Account[c] /\ Account[c] \in Names
      BY <1>1, <1>4, <2>1, GroupsAssumption DEF GroupOK, AllOK, Acting
    <3>2. Owns(Account[c], g)'
      BY <1>1, <3>1, OwnerStays DEF AllOK
    <3> QED BY <1>1, <2>1, <3>1, <3>2 DEF Owns, MembersOf
  <2>2. g \notin upset => /\ g \in listed
                          /\ \A d \in Child : pc[d] \in Acting /\ grp[d] = g => d = c
                          /\ \A d \in Child : pc[d] \in Ending => grp[d] # g
    BY <1>1, OwnerIsMember, OneActs DEF GroupOK, AllOK, Acting
  <2>3. g \in strings => MembersOf(g)' = {}
    BY <1>1, <1>2 DEF GroupOK, AllOK
  <2> QED BY <1>1, <1>2, <1>4, <2>1, <2>2, <2>3 DEF GroupOK, Acting, Ending
<1> QED BY <1>3, <1>4

(* A member that leaves: the owner, if it is another, stays the owner; the *)
(* last one to leave ends the group.                                       *)
LEMMA LeaveMemberKeeps ==
  ASSUME AllOK, NEW c \in Child, LeaveMember(c), NEW h \in Typed
  PROVE  GroupOK(h)'
<1> DEFINE g == grp[c]  n == Account[c]
<1>1. g \in Typed /\ pc[c] = "leave" /\ n \in Names /\ UNCHANGED <<grp, strings, listed>>
  BY GroupsAssumption DEF AllOK, TypeOK, LeaveMember
<1>2. CASE pc' = [pc EXCEPT ![c] = "idle"] /\ UNCHANGED <<score, upset>>
  <2>1. pc'[c] = "idle" /\ \A d \in Child : d # c => pc'[d] = pc[d]
    BY <1>2 DEF AllOK, TypeOK
  <2> QED BY <1>1, <1>2, <2>1, Elsewhere DEF AllOK, Acting, Ending
<1>3. CASE /\ In(g, n)
           /\ score' = [score EXCEPT ![g][n] = 0]
           /\ pc' = [pc EXCEPT ![c] = IF EmptyAfter(num[c]) THEN "unlist" ELSE "idle"]
           /\ upset' = IF (num[c] = 1) = (MembersOf(g) = {n}) THEN upset ELSE upset \cup {g}
  <2>1. /\ pc'[c] \in {"idle", "unlist"}
        /\ pc'[c] = "unlist" <=> num[c] = 1
        /\ \A d \in Child : d # c => pc'[d] = pc[d]
    BY <1>3 DEF AllOK, TypeOK, EmptyAfter
  <2>4. /\ \A x \in Typed : x # g => score'[x] = score[x]
        /\ MembersOf(g)' = MembersOf(g) \ {n}
        /\ n \in MembersOf(g)
    BY ZenonT(30), <1>1, <1>3, Removal DEF AllOK, MembersOf
  <2>2. CASE h # g
    BY ZenonT(30), <1>1, <1>3, <2>1, <2>4, <2>2, OthersKeep
  <2>3. CASE h = g
    <3>1. g \in strings => MembersOf(g)' = {}
      BY <1>1, <2>4 DEF GroupOK, AllOK
    <3>2. ASSUME g \notin upset'
          PROVE  /\ g \notin upset /\ g \in listed
                 /\ pc'[c] = "unlist" <=> MembersOf(g)' = {}
                 /\ \A d \in Child : pc[d] \in Ending => grp[d] # g
                 /\ \A d \in Child : pc[d] \in Acting /\ grp[d] = g =>
                      d # c /\ Owns(Account[d], g)'
      <4>1. g \notin upset /\ (num[c] = 1 <=> MembersOf(g) = {n})
        BY <1>3, <3>2
      <4>2. g \in listed /\ \A d \in Child : pc[d] \in Ending => grp[d] # g
        BY <1>1, <2>4, <4>1 DEF GroupOK, AllOK
      <4>3. ASSUME NEW d \in Child, pc[d] \in Acting, grp[d] = g
            PROVE  d # c /\ Owns(Account[d], g)'
        <5>1. d # c /\ Owns(Account[d], g) /\ Account[d] \in Names /\ Account[d] # n
          BY <1>1, <4>1, <4>3, GroupsAssumption DEF GroupOK, AllOK, Acting, OneSession
        <5> QED BY <1>1, <1>3, <5>1, OwnerStays DEF AllOK
      <4> QED BY <2>1, <2>4, <4>1, <4>2, <4>3
    <3> QED BY <1>1, <2>1, <2>3, <3>1, <3>2 DEF GroupOK, Acting, Ending
  <2> QED BY <2>2, <2>3
<1> QED BY <1>2, <1>3 DEF LeaveMember, Goto

(* An account that takes a key over empties the group that was there.      *)
LEMMA RegisterKeeps ==
  ASSUME AllOK, RegisterSet \/ \E n \in Newcomers : RegisterGet(n), NEW h \in Typed
  PROVE  GroupOK(h)'
<1>1. UNCHANGED <<pc, grp, listed>>
  BY DEF RegisterSet, RegisterGet, childVars, store
<1>2. CASE UNCHANGED <<score, strings, upset>> \/ (RegisterSet /\ reg # h)
  BY <1>1, <1>2, Elsewhere DEF AllOK, TypeOK, RegisterSet
<1>3. CASE RegisterSet /\ reg = h
  <2>1. /\ score' = [score EXCEPT ![h] = Nobody]
        /\ upset' = IF MembersOf(h) # {} THEN upset \cup {h} ELSE upset
    BY <1>3 DEF RegisterSet
  <2>2. MembersOf(h)' = {}
    BY <2>1 DEF MembersOf, In, Nobody, AllOK, TypeOK
  <2>3. h \notin upset' => /\ MembersOf(h) = {} /\ h \notin upset
                           /\ \A d \in Child : pc[d] \in Acting => grp[d] # h
    BY <2>1, OwnerIsMember DEF GroupOK, AllOK
  <2> QED BY <1>1, <2>2, <2>3 DEF GroupOK, AllOK
<1> QED BY <1>2, <1>3 DEF RegisterGet, store

-----------------------------------------------------------------------------
LEMMA NextKeeps ==
  ASSUME AllOK, [Next]_vars, NEW h \in Typed
  PROVE  GroupOK(h)'
<1>1. CASE UNCHANGED vars
  BY <1>1, Elsewhere DEF vars, store, childVars, AllOK
<1>2. ASSUME NEW c \in Child, ChildStep(c) PROVE GroupOK(h)'
  BY <1>2, ReadersKeep, CreateKeeps, AddCreatorKeeps, DeleteKeyKeeps, DieKeeps,
     UnlistKeeps, AddMemberKeeps, DropMemberKeeps, LeaveMemberKeeps DEF ChildStep
<1> QED BY <1>1, <1>2, RegisterKeeps DEF Next

(* What the steps of a command leave of the groups: owners keep their      *)
(* right while they use it, and groupList agrees with the sets.            *)
LEMMA InvInductive ==
  ASSUME TypeOK, OneSession, GroupInv, [Next]_vars
  PROVE  GroupInv'
<1>1. AllOK
  BY GroupByGroup DEF AllOK
<1>2. TypeOK' /\ OneSession'
  BY NextTyped DEF OneSession
<1>3. (\A g \in Typed : GroupOK(g))'
  BY <1>1, NextKeeps
<1>4. GroupInv' <=> (\A g \in Typed : GroupOK(g))'
  BY <1>2, GroupByGroup, PTL
<1> QED BY <1>3, <1>4

THEOREM GroupsCorrect == Spec => [](OneSession => GroupInv)
<1>1. Init => (OneSession => GroupInv)
  BY InitInv
<1>2. TypeOK /\ (OneSession => GroupInv) /\ [Next]_vars => (OneSession => GroupInv)'
  BY InvInductive DEF OneSession
<1> QED BY <1>1, <1>2, TypeCorrect, PTL DEF Spec

(* The right that was checked still holds when it is used.                 *)
THEOREM OwnersAct == Spec => []StillOwner
<1>1. (OneSession => GroupInv) => StillOwner
  BY DEF GroupInv, StillOwner
<1> QED BY <1>1, GroupsCorrect, PTL

(* groupList and the sets of members agree.                                *)
THEOREM ListAgrees == Spec => []Agreement
<1>1. (OneSession => GroupInv) => Agreement
  BY DEF GroupInv, Agreement
<1> QED BY <1>1, GroupsCorrect, PTL

-----------------------------------------------------------------------------
(* The action properties.                                                  *)

(* A step that leaves the score of n in g alone changes nothing for him.   *)
LEMMA OneScore ==
  ASSUME TypeOK, NEW g \in Typed, NEW n \in Names, NEW k \in Nat,
         score' = [score EXCEPT ![g][n] = k]
  PROVE  \A h \in Typed, m \in Names : In(h, m) # In(h, m)' => h = g /\ m = n
<1>1. \A h \in Typed, m \in Names :
        score'[h][m] = IF h = g /\ m = n THEN k ELSE score[h][m]
  BY DEF TypeOK
<1> QED BY <1>1 DEF In

(* Members come and go by their own commands and by their owner's.         *)
LEMMA StepByOwner ==
  ASSUME TypeOK, OneSession, StillOwner, Next
  PROVE  ByOwner
<1> SUFFICES ASSUME NEW g \in Typed, g \notin upset', NEW n \in Names, In(g, n) # In(g, n)'
             PROVE  \E c \in Child : /\ pc[c] # pc'[c] \/ todo[c] # todo'[c]
                                     /\ grp[c] = g
                                     /\ Account[c] = n \/ Owns(Account[c], g)
  BY DEF ByOwner
<1>0. score' # score
  BY DEF In
<1>1. ASSUME RegisterSet \/ \E m \in Newcomers : RegisterGet(m) PROVE FALSE
  <2>1. RegisterSet /\ reg \in Typed /\ score' = [score EXCEPT ![reg] = Nobody]
    BY <1>0, <1>1 DEF RegisterSet, RegisterGet, store
  <2>2. reg = g /\ In(g, n)
    BY <2>1 DEF In, Nobody, TypeOK
  <2> QED BY <2>1, <2>2 DEF RegisterSet, MembersOf
<1>2. PICK c \in Child : ChildStep(c)
  BY <1>1 DEF Next
<1>3. AddCreator(c) \/ DeleteKey(c) \/ AddMember(c) \/ DropMember(c) \/ LeaveMember(c)
  BY <1>0, <1>2 DEF ChildStep, CreateGroup, DelGroup, LeaveGroup, AddTo, Remove, Start,
     DieReporting, Unlist, LookUp, Count, store
<1>4. grp[c] \in Typed /\ Account[c] \in Names /\ pc[c] \in Steps
  BY <1>3, GroupsAssumption DEF TypeOK, AddCreator, DeleteKey, AddMember, DropMember, LeaveMember
<1>5. CASE AddCreator(c)
  <2>1. score' = [score EXCEPT ![grp[c]][Account[c]] = 1]
    BY <1>0, <1>5 DEF AddCreator
  <2>2. grp[c] = g /\ Account[c] = n
    BY <1>4, <2>1, OneScore DEF In
  <2>3. pc'[c] # pc[c]
    BY <1>5 DEF AddCreator, Goto, TypeOK
  <2> QED BY <2>2, <2>3
<1>6. CASE DeleteKey(c)
  <2>1. grp[c] = g
    BY <1>4, <1>6 DEF DeleteKey, In, Nobody, TypeOK
  <2>2. g \notin upset /\ pc'[c] # pc[c] /\ pc[c] = "delete"
    BY <1>6 DEF DeleteKey, Goto, TypeOK
  <2> QED BY <2>1, <2>2 DEF StillOwner, Acting, Sound
<1>7. ASSUME pc[c] \in {"add", "drop"}, Advance(c)
      PROVE  todo'[c] # todo[c] /\ Head(todo[c]) \in Names
  BY <1>7, ListTyped DEF TypeOK, Advance
<1>8. CASE AddMember(c)
  <2>1. score' = [score EXCEPT ![grp[c]][Head(todo[c])] = num[c]] /\ num[c] \in Nat
    BY <1>0, <1>8 DEF AddMember, TypeOK
  <2>2. grp[c] = g /\ todo'[c] # todo[c]
    BY <1>4, <1>7, <1>8, <2>1, OneScore DEF In, AddMember
  <2>3. g \notin upset /\ pc[c] = "add"
    BY <1>8 DEF AddMember
  <2> QED BY <2>2, <2>3 DEF StillOwner, Acting, Sound
<1>9. CASE DropMember(c)
  <2>1. score' = [score EXCEPT ![grp[c]][Head(todo[c])] = 0]
    BY <1>9 DEF DropMember
  <2>2. grp[c] = g /\ todo'[c] # todo[c]
    BY <1>4, <1>7, <1>9, <2>1, OneScore DEF In, DropMember
  <2>3. g \notin upset /\ pc[c] = "drop"
    BY <1>9 DEF DropMember
  <2> QED BY <2>2, <2>3 DEF StillOwner, Acting, Sound
<1>10. CASE LeaveMember(c)
  <2>1. score' = [score EXCEPT ![grp[c]][Account[c]] = 0]
    BY <1>0, <1>10 DEF LeaveMember
  <2>2. grp[c] = g /\ Account[c] = n
    BY <1>4, <2>1, OneScore DEF In
  <2>3. pc'[c] # pc[c]
    BY <1>10 DEF LeaveMember, Goto, TypeOK
  <2> QED BY <2>2, <2>3
<1> QED BY <1>3, <1>5, <1>6, <1>8, <1>9, <1>10

THEOREM MembershipByOwner == Spec => ChangedByOwner
<1>1. TypeOK /\ StillOwner /\ [Next]_vars => [OneSession => ByOwner]_vars
  BY StepByOwner
<1> QED BY <1>1, TypeCorrect, OwnersAct, PTL DEF Spec, ChangedByOwner

(* The DEL of a group meets the string of an account only where an account *)
(* has replaced the group.                                                 *)
LEMMA StepKeepsAccounts ==
  ASSUME TypeOK, OneSession, GroupInv, Next
  PROVE  strings \ strings' \subseteq upset
<1>1. CASE \E c \in Child : DeleteKey(c)
  <2>1. PICK c \in Child : DeleteKey(c)
    BY <1>1
  <2>2. grp[c] \in Typed /\ strings' = strings \ {grp[c]} /\ pc[c] = "delete"
    BY <2>1 DEF DeleteKey, TypeOK
  <2>3. grp[c] \notin upset => grp[c] \notin strings
    BY <2>2, OwnerIsMember DEF GroupInv, StillOwner, OneKind, Acting, Sound
  <2> QED BY <2>2, <2>3
<1>2. CASE ~ \E c \in Child : DeleteKey(c)
  BY ZenonT(30), <1>2 DEF Next, ChildStep, CreateGroup, DelGroup, LeaveGroup, AddTo, Remove, Start,
     AddCreator, DieReporting, Unlist, LookUp, AddMember, DropMember, Count, LeaveMember,
     RegisterGet, RegisterSet, store
<1> QED BY <1>1, <1>2

THEOREM AccountsKept == Spec => AccountsStay
<1>1. TypeOK /\ (OneSession => GroupInv) /\ [Next]_vars
        => [OneSession => strings \ strings' \subseteq upset]_vars
  BY StepKeepsAccounts
<1> QED BY <1>1, TypeCorrect, GroupsCorrect, PTL DEF Spec, AccountsStay

=============================================================================
