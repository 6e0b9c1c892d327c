--------------------------- MODULE AccountsProofs ---------------------------
(***************************************************************************)
(* Proofs about Accounts, for any accounts, clients, lines and mails: an   *)
(* account's password stays what it was registered with, and user_list     *)
(* names the accounts: of mail that needs only that it never touches a     *)
(* string or user_list.  Then mailboxes: how mails are numbered, and that  *)
(* only their owners delete them.                                          *)
(***************************************************************************)
EXTENDS Accounts, SequenceTheorems, FiniteSetTheorems, TLAPS

-----------------------------------------------------------------------------
(* The inductive invariant, by parts.                                      *)

(* A key holds nothing, a string or a list.                                *)
Held(v) == \/ v = None
           \/ \E s : v = Str(s)
           \/ \E s : v = List(s)

DbInv ==
  /\ DOMAIN db = Key
  /\ \A k \in Key : Held(db[k])
  /\ Items(user_list) \in Seq(Account)

(* What the processes carry from one Redis command to the next.            *)
LocalInv ==
  /\ name \in Typed
  /\ DOMAIN user = Client /\ DOMAIN pc = Client /\ DOMAIN arg = Client
  /\ \A c \in Client :
       /\ pc[c] \in {"ready", "llen", "lpush", "lrem"} => user[c] \in Account
       /\ pc[c] \in {"llen", "lpush"} => arg[c][1] \in Account

(* Main has seen that the name is free, and it is main that takes names.   *)
NameFree == mpc = "set" => ~IsStr(name)

(* AccountsListed, whose excuses only grow until the entry is pushed.      *)
Excused == unlisted \cup (IF mpc = "lpush" THEN {name} ELSE {})
ListInv ==
  \/ IsStr(user_list)
  \/ \A k \in Account : IsStr(k) => k \in Listed \cup Excused

IInv == DbInv /\ LocalInv /\ NameFree /\ ListInv

-----------------------------------------------------------------------------
(* What kind of value a key holds is plain to see.                         *)
LEMMA Kinds ==
  /\ None.type = "none"
  /\ \A s : Str(s).type = "string" /\ Str(s).val = s
  /\ \A s : List(s).type = "list" /\ List(s).val = s
  /\ \A s : Held(Str(s)) /\ Held(List(s))
  /\ Held(None)
BY DEF None, Str, List, Held

(* Accounts, mailboxes and user_list are keys.                             *)
LEMMA Keys ==
  /\ Account \subseteq Key /\ Typed \subseteq Account
  /\ user_list \in Key
  /\ \A n \in Account : Box[n] \in Key /\ Box[n] # user_list
BY AccountsAssumption DEF Account, Typed

(* The parts of the invariant a step that leaves the database alone keeps. *)
LEMMA SameDb ==
  ASSUME IInv, UNCHANGED db
  PROVE  /\ DbInv'
         /\ \A k : IsStr(k)' = IsStr(k)
         /\ Items(user_list)' = Items(user_list)
         /\ Listed' = Listed
<1>1. Items(user_list)' = Items(user_list)
  BY DEF Items
<1> QED BY <1>1 DEF IInv, DbInv, IsStr, Listed

(* A list command on a mailbox changes no string and not user_list.        *)
LEMMA BoxStep ==
  ASSUME IInv, NEW n \in Account, NEW v, v = None \/ (\E s : v = List(s)),
         \/ UNCHANGED db
         \/ ~IsStr(Box[n]) /\ db' = [db EXCEPT ![Box[n]] = v]
  PROVE  /\ DbInv'
         /\ \A k \in Key : IsStr(k)' = IsStr(k)
         /\ \A k \in Key : IsStr(k) => db'[k] = db[k]
         /\ Listed' = Listed
<1>1. CASE UNCHANGED db
  BY <1>1, SameDb
<1>2. CASE ~IsStr(Box[n]) /\ db' = [db EXCEPT ![Box[n]] = v]
  <2>1. DOMAIN db = Key /\ Box[n] \in Key /\ Box[n] # user_list
    BY Keys DEF IInv, DbInv
  <2>2. DOMAIN db' = Key /\ \A k \in Key : db'[k] = IF k = Box[n] THEN v ELSE db[k]
    BY <1>2, <2>1
  <2>3. v.type # "string" /\ Held(v)
    BY Kinds DEF Held
  <2>4. db'[user_list] = db[user_list]
    BY <2>1, <2>2, Keys
  <2>5. Items(user_list)' = Items(user_list)
    BY <2>4 DEF Items
  <2>6. DbInv'
    BY <2>2, <2>3, <2>5 DEF IInv, DbInv
  <2>7. \A k \in Key : IsStr(k)' = IsStr(k)
    BY <1>2, <2>2, <2>3 DEF IsStr
  <2>8. \A k \in Key : IsStr(k) => db'[k] = db[k]
    BY <1>2, <2>2
  <2> QED BY <2>5, <2>6, <2>7, <2>8 DEF Listed
<1> QED BY <1>1, <1>2

(* A step that disturbs neither the strings, nor user_list, nor a          *)
(* registration that is past its GET, keeps the invariant.                 *)
LEMMA Quiet ==
  ASSUME IInv, DbInv', LocalInv',
         \A k \in Key : IsStr(k)' = IsStr(k),
         Listed' = Listed,
         unlisted \subseteq unlisted',
         mpc = "lpush" => mpc' = "lpush" /\ name' = name,
         mpc' = "set" => \/ mpc = "set" /\ name' = name
                         \/ ~IsStr(name)'
  PROVE  IInv'
<1>1. NameFree'
  <2>1. CASE mpc' = "set" /\ mpc = "set" /\ name' = name
    <3>1. name \in Key
      BY <2>1, Keys DEF IInv, LocalInv
    <3>2. IsStr(name)' = IsStr(name)
      BY <2>1, <3>1 DEF IsStr
    <3> QED BY <2>1, <3>2 DEF IInv, NameFree
  <2> QED BY <2>1 DEF NameFree
<1>2. Excused \subseteq Excused'
  BY DEF Excused
<1>3. ListInv'
  BY <1>2, Keys DEF IInv, ListInv
<1> QED BY <1>1, <1>3 DEF IInv

-----------------------------------------------------------------------------
(* The dialogue.                                                           *)

LEMMA InitInv == Init => IInv
<1> SUFFICES ASSUME Init PROVE IInv
  OBVIOUS
<1>1. DOMAIN db = Key /\ \A k \in Key :
        db[k] = IF k \in DOMAIN Accounts0 THEN Str(Accounts0[k]) ELSE None
  BY DEF Init
<1>2. \A k \in Key : IsStr(k) <=> k \in DOMAIN Accounts0
  BY <1>1, Kinds DEF IsStr
<1>3. Items(user_list) = <<>>
  BY <1>1, Kinds, Keys DEF Items
<1>4. DbInv
  BY <1>1, <1>3, Kinds DEF DbInv
<1>5. LocalInv
  <2>1. /\ DOMAIN user = Client /\ DOMAIN pc = Client /\ DOMAIN arg = Client
        /\ \A c \in Client : /\ c \in DOMAIN Session0 => user[c] = Session0[c]
                             /\ pc[c] = IF c \in DOMAIN Session0 THEN "ready" ELSE "new"
    BY DEF Init
  <2>2. \A c \in DOMAIN Session0 : Session0[c] \in Account
    BY AccountsAssumption DEF Account
  <2> QED BY <2>1, <2>2 DEF LocalInv, Init, Typed
<1>6. ListInv
  BY <1>2, Keys DEF ListInv, Excused, Init
<1> QED BY <1>4, <1>5, <1>6 DEF IInv, NameFree, Init

LEMMA AcceptKeeps == ASSUME IInv, NEW c \in Client, Accept(c) PROVE IInv'
<1>1. LocalInv'
  BY DEF IInv, LocalInv, Accept
<1> QED BY <1>1, SameDb, Quiet DEF Accept

LEMMA LineKeeps == ASSUME IInv, HangUp \/ (\E line \in Lines : TypeLine(line)) PROVE IInv'
<1>1. UNCHANGED <<db, mpc, name, unlisted, user, pc, arg>>
  BY DEF HangUp, TypeLine, childVars, sessionVars
<1>2. LocalInv'
  BY <1>1 DEF IInv, LocalInv
<1> QED BY <1>1, <1>2, SameDb, Quiet

(* A prompt's read: main is at the prompt after it, or dead, and knows at  *)
(* most another name.                                                      *)
LEMMA ReadKeeps == ASSUME IInv, Choose \/ ReadName \/ ReadPwd PROVE IInv'
<1>1. UNCHANGED <<db, user, arg>> /\ mpc \notin {"set", "lpush"}
  BY DEF Choose, ReadName, ReadPwd, sessionVars
<1>2. mpc' \notin {"set", "lpush"} /\ unlisted \subseteq unlisted'
  BY DEF Choose, ReadName, ReadPwd, Prompt
<1>3. name' \in Typed
  BY DEF IInv, LocalInv, Choose, ReadName, ReadPwd, Typed
<1>4. pc' = pc \/ \E c \in Client : pc' = [pc EXCEPT ![c] = "gone"]
  BY DEF Choose, ReadName, ReadPwd, ReadLine
<1>5. LocalInv'
  BY <1>1, <1>3, <1>4 DEF IInv, LocalInv
<1> QED BY <1>1, <1>2, <1>5, SameDb, Quiet

LEMMA GetKeeps == ASSUME IInv, RegisterGet PROVE IInv'
<1>1. /\ UNCHANGED <<db, user, pc, arg>> /\ mpc = "get"
      /\ unlisted \subseteq unlisted'
      /\ name' \in {name, ""}
      /\ mpc' = "set" => name' = name /\ ~IsStr(name)
  BY DEF RegisterGet, Prompt, NewCall, Taken, childVars, sessionVars
<1>2. LocalInv'
  BY <1>1 DEF IInv, LocalInv, Typed
<1>3. mpc' = "set" => ~IsStr(name)'
  BY <1>1 DEF IsStr
<1> QED BY <1>1, <1>2, <1>3, SameDb, Quiet

(* SET takes a name that is free, and owes it an entry in user_list.       *)
LEMMA SetStep ==
  ASSUME IInv, RegisterSet
  PROVE  IInv' /\ \A k \in Key : IsStr(k) => db'[k] = db[k]
<1>1. /\ UNCHANGED <<name, user, pc, arg>> /\ mpc = "set"
      /\ \/ mpc' = "lpush" /\ unlisted' = unlisted
         \/ mpc' = "dead" /\ unlisted' = unlisted \cup {name}
  BY DEF RegisterSet, Prompt
<1>2. LocalInv'
  BY <1>1 DEF IInv, LocalInv
<1>3. NameFree'
  BY <1>1 DEF NameFree
<1>4. Excused' = unlisted \cup {name}
  BY <1>1 DEF Excused
<1>5. unlisted = Excused
  BY <1>1 DEF Excused
<1>6. name \in Account /\ name \in Key /\ ~IsStr(name)
  BY <1>1, Keys DEF IInv, LocalInv, NameFree
<1>7. DOMAIN db' = Key /\ \A k \in Key : db'[k] = IF k = name THEN Str(pwd) ELSE db[k]
  BY <1>6 DEF RegisterSet, IInv, DbInv
<1>8. \A k \in Key : IsStr(k) => db'[k] = db[k]
  BY <1>6, <1>7
<1>9. \A k \in Key : IsStr(k)' <=> IsStr(k) \/ k = name
  BY <1>6, <1>7, Kinds DEF IsStr
<1>10. CASE name = user_list
  <2>1. Items(user_list)' = <<>>
    BY <1>7, <1>10, Keys, Kinds DEF Items
  <2>2. DbInv'
    BY <1>7, <2>1, Kinds DEF IInv, DbInv
  <2>3. ListInv'
    BY <1>9, <1>10, Keys DEF ListInv
  <2> QED BY <2>2, <2>3, <1>8, <1>2, <1>3 DEF IInv
<1>11. CASE name # user_list
  <2>1. db'[user_list] = db[user_list]
    BY <1>7, <1>11, Keys
  <2>2. Items(user_list)' = Items(user_list)
    BY <2>1 DEF Items
  <2>3. DbInv'
    BY <1>7, <2>2, Kinds DEF IInv, DbInv
  <2>4. ListInv'
    BY <1>9, <1>11, <2>2, <1>4, <1>5, Keys DEF IInv, ListInv, Listed
  <2> QED BY <2>3, <2>4, <1>8, <1>2, <1>3 DEF IInv
<1> QED BY <1>10, <1>11

(* LPUSH pays the debt: the name is an element of the longer list.         *)
LEMMA PushedNameStep ==
  ASSUME IInv, RegisterPush
  PROVE  IInv' /\ \A k \in Key : IsStr(k) => db'[k] = db[k]
<1>1. UNCHANGED <<user, pc, arg>> /\ mpc = "lpush" /\ mpc' \in {"name", "dead"}
      /\ name' = "" /\ unlisted' = unlisted
  BY DEF RegisterPush, Prompt, NewCall, childVars, sessionVars
<1>2. LocalInv'
  BY <1>1 DEF IInv, LocalInv, Typed
<1>3. NameFree'
  BY <1>1 DEF NameFree
<1>4. Excused = Excused' \cup {name}
  BY <1>1 DEF Excused
<1>5. CASE IsStr(user_list)
  <2>1. UNCHANGED db
    BY <1>5 DEF RegisterPush, Lpush
  <2>2. ListInv'
    BY <2>1, <1>5, SameDb DEF ListInv
  <2> QED BY <2>1, <2>2, <1>2, <1>3, SameDb DEF IInv
<1>6. CASE ~IsStr(user_list)
  <2> DEFINE s == <<Entry>> \o Items(user_list)
  <2>1. name \in Account
    BY Keys DEF IInv, LocalInv
  <2>2. s \in Seq(Account) /\ \A i \in DOMAIN Items(user_list) : s[i + 1] = Items(user_list)[i]
    BY <2>1 DEF IInv, DbInv, Entry
  <2>3. 1 \in DOMAIN s /\ s[1] = name /\ \A i \in DOMAIN Items(user_list) : i + 1 \in DOMAIN s
    BY <2>1 DEF IInv, DbInv, Entry
  <2>4. DOMAIN db' = Key
        /\ \A k \in Key : db'[k] = IF k = user_list THEN List(s) ELSE db[k]
    BY <1>6, Keys DEF RegisterPush, Lpush, IInv, DbInv
  <2>5. \A k \in Key : IsStr(k)' = IsStr(k)
    BY <1>6, <2>4, Kinds DEF IsStr
  <2>6. Items(user_list)' = s
    BY ZenonT(30), <2>4, Keys, Kinds DEF Items
  <2>7. DbInv'
    BY <2>2, <2>4, <2>6, Kinds DEF IInv, DbInv
  <2>8. name \in Listed' /\ Listed \subseteq Listed'
    BY <2>2, <2>3, <2>6 DEF Listed
  <2>9. ListInv'
    BY <2>5, <2>8, <1>4, <1>6, Keys DEF IInv, ListInv
  <2>10. \A k \in Key : IsStr(k) => db'[k] = db[k]
    BY <1>6, <2>4
  <2> QED BY <2>7, <2>9, <2>10, <1>2, <1>3 DEF IInv
<1> QED BY <1>5, <1>6

LEMMA CheckKeeps == ASSUME IInv, Check PROVE IInv'
<1>1. UNCHANGED <<db, arg>> /\ mpc = "check"
  BY DEF Check
<1>2. mpc' \notin {"set", "lpush"} /\ unlisted \subseteq unlisted'
  BY DEF Check, Prompt
<1>3. LocalInv'
  <2>1. CASE Known /\ Right
    <3>1. name \in Account
      BY Keys DEF IInv, LocalInv
    <3>2. /\ name' = "" /\ user' = [user EXCEPT ![cand] = name]
          /\ pc' = [pc EXCEPT ![cand] = IF hung THEN "gone" ELSE "ready"]
      BY <2>1 DEF Check, NewCall
    <3> QED BY <1>1, <3>1, <3>2 DEF IInv, LocalInv, Typed
  <2>2. CASE ~(Known /\ Right)
    BY <1>1, <2>2 DEF Check, NewCall, IInv, LocalInv, Typed
  <2> QED BY <2>1, <2>2
<1> QED BY <1>1, <1>2, <1>3, SameDb, Quiet

-----------------------------------------------------------------------------
(* Mail.                                                                   *)

LEMMA MailLocal == ASSUME IInv, NEW c \in Client, Mail(c) PROVE LocalInv'
<1>1. UNCHANGED <<name, user>>
  BY DEF Mail, Mailto, Llen, Push, DelMail, Lrem, mainVars
<1>2. CASE \E n \in Account, text \in Texts : Mailto(c, n, text)
  BY <1>1, <1>2 DEF Mailto, Begin, IInv, LocalInv
<1>3. CASE Llen(c)
  BY <1>1, <1>3 DEF Llen, IInv, LocalInv
<1>4. CASE Push(c)
  BY <1>1, <1>4 DEF Push, IInv, LocalInv
<1>5. CASE \E id \in 0 .. MaxOps : DelMail(c, id)
  BY <1>1, <1>5 DEF DelMail, Begin, IInv, LocalInv
<1>6. CASE Lrem(c)
  BY <1>1, <1>6 DEF Lrem, IInv, LocalInv
<1> QED BY <1>2, <1>3, <1>4, <1>5, <1>6 DEF Mail

LEMMA MailStep ==
  ASSUME IInv, NEW c \in Client, Mail(c)
  PROVE  IInv' /\ \A k \in Key : IsStr(k) => db'[k] = db[k]
<1>1. UNCHANGED mainVars
  BY DEF Mail, Mailto, Llen, Push, DelMail, Lrem
<1>2. /\ DbInv' /\ \A k \in Key : IsStr(k)' = IsStr(k)
      /\ \A k \in Key : IsStr(k) => db'[k] = db[k]
      /\ Listed' = Listed
  <2>1. CASE UNCHANGED db
    BY <2>1, SameDb
  <2>2. CASE Push(c)
    <3>1. arg[c][1] \in Account
      BY <2>2 DEF Push, IInv, LocalInv
    <3> DEFINE v == List(<<arg[c][2]>> \o Items(Box[arg[c][1]]))
    <3>2. \/ UNCHANGED db
          \/ ~IsStr(Box[arg[c][1]]) /\ db' = [db EXCEPT ![Box[arg[c][1]]] = v]
      BY <2>2 DEF Push, Lpush
    <3>3. \E s : v = List(s)
      OBVIOUS
    <3> HIDE DEF v
    <3> QED BY <3>1, <3>2, <3>3, BoxStep
  <2>3. CASE Lrem(c)
    <3>1. user[c] \in Account
      BY <2>3 DEF Lrem, IInv, LocalInv
    <3> DEFINE v == ListOrNone(Without(Items(Box[user[c]]), delMsg[c]))
    <3>2. \/ UNCHANGED db
          \/ ~IsStr(Box[user[c]]) /\ db' = [db EXCEPT ![Box[user[c]]] = v]
      BY <2>3 DEF Lrem
    <3>3. v = None \/ \E s : v = List(s)
      BY DEF ListOrNone
    <3> HIDE DEF v
    <3> QED BY <3>1, <3>2, <3>3, BoxStep
  <2> QED BY <2>1, <2>2, <2>3 DEF Mail, Mailto, Llen, DelMail
<1> QED BY <1>1, <1>2, MailLocal, Quiet DEF mainVars

-----------------------------------------------------------------------------
(* Every step.                                                             *)

LEMMA Step ==
  ASSUME IInv, [Next]_vars
  PROVE  IInv' /\ \A k \in Key : IsStr(k) => db'[k] = db[k]
<1>1. CASE UNCHANGED vars
  <2>1. UNCHANGED <<db, mpc, name, unlisted, user, pc, arg>>
    BY <1>1 DEF vars, mainVars, childVars, sessionVars
  <2>2. LocalInv'
    BY <2>1 DEF IInv, LocalInv
  <2> QED BY <2>1, <2>2, SameDb, Quiet
<1>2. CASE \E c \in Client : Accept(c)
  BY <1>2, AcceptKeeps DEF Accept
<1>3. CASE HangUp \/ \E line \in Lines : TypeLine(line)
  BY <1>3, LineKeeps DEF HangUp, TypeLine
<1>4. CASE Choose \/ ReadName \/ ReadPwd
  BY <1>4, ReadKeeps DEF Choose, ReadName, ReadPwd
<1>5. CASE RegisterGet
  BY <1>5, GetKeeps DEF RegisterGet
<1>6. CASE RegisterSet
  BY <1>6, SetStep
<1>7. CASE RegisterPush
  BY <1>7, PushedNameStep
<1>8. CASE Check
  BY <1>8, CheckKeeps DEF Check
<1>9. CASE \E c \in Client : Mail(c)
  BY <1>9, MailStep
<1> QED BY <1>1, <1>2, <1>3, <1>4, <1>5, <1>6, <1>7, <1>8, <1>9 DEF Next, Dialogue

LEMMA Inductive == Spec => []IInv
<1>1. IInv /\ [Next]_vars => IInv'
  BY Step
<1> QED BY InitInv, <1>1, PTL DEF Spec

(* Whatever clients type, empty lines included, whenever main's reads are  *)
(* cut short, and in whatever order the processes' commands reach the      *)
(* database: an account that is there is never replaced, and no list       *)
(* command changes it (login.c:52-66, mailBox.c:82-128).                   *)
THEOREM PasswordsKept == Spec => PasswordsStay
<1>1. IInv /\ [Next]_vars => [\A k \in Key : IsStr(k) => db'[k] = db[k]]_vars
  BY Step
<1> QED BY Inductive, <1>1, PTL DEF Spec, PasswordsStay

(* Every account is in user_list, but for those whose registration main    *)
(* is in the middle of or did not survive (login.c:66-77).                 *)
THEOREM ListComplete == Spec => []AccountsListed
<1>1. IInv => AccountsListed
  BY DEF IInv, ListInv, Excused, AccountsListed
<1> QED BY Inductive, <1>1, PTL

-----------------------------------------------------------------------------
(* What LREM leaves.  Induction over the naturals, stated with a set: a    *)
(* set with 0 that is closed under successors has them all, since below an *)
(* m that it lacks adding 1 would be one-to-one, but miss 0.               *)
LEMMA Induction ==
  ASSUME NEW S, 0 \in S, \A n \in Nat : n \in S => n + 1 \in S
  PROVE  Nat \subseteq S
<1> SUFFICES ASSUME NEW m \in Nat, m \notin S PROVE FALSE
  OBVIOUS
<1> DEFINE T == {k \in 0 .. m : k \in S}
           up == [k \in T |-> k + 1]
<1>1. IsFiniteSet(T)
  <2>1. IsFiniteSet(0 .. m) /\ T \in SUBSET (0 .. m)
    BY FS_Interval
  <2> QED BY <2>1, FS_Subset
<1>2. \A k \in T : k + 1 \in T
  OBVIOUS
<1>3. up \in Injection(T, T)
  BY <1>2 DEF Injection, IsInjective
<1>4. up \in Surjection(T, T)
  BY <1>1, <1>3, FS_Injection
<1>5. 0 \in T
  OBVIOUS
<1>6. PICK k \in T : up[k] = 0
  BY <1>4, <1>5 DEF Surjection
<1> QED BY <1>6

(* What is left of the first i elements of s, for each i up to n.          *)
LeftNext(left, i, s, msg) ==
  IF i = 0 THEN <<>>
  ELSE IF s[i] = msg THEN left[i - 1] ELSE Append(left[i - 1], s[i])

IsLeft(left, n, s, msg) == left = [i \in 0 .. n |-> LeftNext(left, i, s, msg)]

LEMMA LeftExists ==
  ASSUME NEW s, NEW msg, NEW n \in Nat
  PROVE  \E left : IsLeft(left, n, s, msg)
<1> DEFINE S == {k \in Nat : \E left : IsLeft(left, k, s, msg)}
<1>1. 0 \in S
  <2>1. IsLeft([i \in 0 .. 0 |-> <<>>], 0, s, msg)
    BY DEF IsLeft, LeftNext
  <2> QED BY <2>1
<1>2. ASSUME NEW k \in Nat, k \in S PROVE k + 1 \in S
  <2>1. PICK left : IsLeft(left, k, s, msg)
    BY <1>2
  <2> DEFINE more == [i \in 0 .. k + 1 |->
                        IF i <= k THEN left[i]
                        ELSE IF s[i] = msg THEN left[k] ELSE Append(left[k], s[i])]
  <2>2. \A i \in 0 .. k : more[i] = left[i] /\ i + 1 \in 0 .. k + 1
    OBVIOUS
  <2>3. more[k + 1] = IF s[k + 1] = msg THEN left[k] ELSE Append(left[k], s[k + 1])
    OBVIOUS
  <2>4. more = [i \in 0 .. k + 1 |-> more[i]]
    OBVIOUS
  <2> HIDE DEF more
  <2>5. \A i \in 0 .. k : left[i] = LeftNext(left, i, s, msg)
    BY <2>1 DEF IsLeft
  <2>6. \A i \in 0 .. k + 1 : more[i] = LeftNext(more, i, s, msg)
    BY <2>2, <2>3, <2>5 DEF LeftNext
  <2>7. IsLeft(more, k + 1, s, msg)
    BY <2>4, <2>6, Zenon DEF IsLeft
  <2> QED BY <2>7
<1> QED BY <1>1, <1>2, Induction

LEMMA WithoutIs ==
  ASSUME NEW S, NEW s \in Seq(S), NEW msg
  PROVE  \E left : IsLeft(left, Len(s), s, msg) /\ Without(s, msg) = left[Len(s)]
<1>1. \E left : IsLeft(left, Len(s), s, msg)
  <2>1. Len(s) \in Nat
    OBVIOUS
  <2> QED BY <2>1, LeftExists
<1> DEFINE left == CHOOSE f : IsLeft(f, Len(s), s, msg)
<1>2. IsLeft(left, Len(s), s, msg)
  BY <1>1
<1>3. Without(s, msg) = left[Len(s)]
  BY DEF Without, IsLeft, LeftNext
<1> QED BY <1>2, <1>3

(* A list of the same kind, in which all elements but msg still are.       *)
LEMMA WithoutKeeps ==
  ASSUME NEW S, NEW s \in Seq(S), NEW msg
  PROVE  /\ Without(s, msg) \in Seq(S)
         /\ \A i \in DOMAIN s : s[i] # msg =>
              \E j \in DOMAIN Without(s, msg) : Without(s, msg)[j] = s[i]
<1>1. PICK left : IsLeft(left, Len(s), s, msg) /\ Without(s, msg) = left[Len(s)]
  BY WithoutIs
<1> DEFINE Sound(k) == /\ left[k] \in Seq(S)
                       /\ \A i \in 1 .. k : s[i] # msg =>
                            \E j \in DOMAIN left[k] : left[k][j] = s[i]
           T == {k \in Nat : k <= Len(s) => Sound(k)}
<1>2. \A i \in 0 .. Len(s) : left[i] = LeftNext(left, i, s, msg)
  BY <1>1 DEF IsLeft
<1>3. 0 \in T
  <2>1. left[0] = <<>>
    BY <1>2 DEF LeftNext
  <2>2. Sound(0)
    BY <2>1
  <2> QED BY <2>2
<1>4. ASSUME NEW k \in Nat, k \in T PROVE k + 1 \in T
  <2> SUFFICES ASSUME k + 1 <= Len(s) PROVE Sound(k + 1)
    OBVIOUS
  <2>1. left[k] \in Seq(S) /\ s[k + 1] \in S
    BY <1>4
  <2>2. left[k + 1] = IF s[k + 1] = msg THEN left[k] ELSE Append(left[k], s[k + 1])
    BY <1>2 DEF LeftNext
  <2>3. \A i \in 1 .. k : s[i] # msg => \E j \in DOMAIN left[k] : left[k][j] = s[i]
    BY <1>4
  <2>4. \A i \in 1 .. k + 1 : i = k + 1 \/ i \in 1 .. k
    OBVIOUS
  <2>5. CASE s[k + 1] = msg
    BY <2>1, <2>2, <2>3, <2>4, <2>5
  <2>6. CASE s[k + 1] # msg
    <3>1. /\ left[k + 1] \in Seq(S) /\ Len(left[k + 1]) = Len(left[k]) + 1
          /\ left[k + 1][Len(left[k]) + 1] = s[k + 1]
          /\ \A j \in DOMAIN left[k] : j \in DOMAIN left[k + 1] /\ left[k + 1][j] = left[k][j]
      BY <2>1, <2>2, <2>6
    <3>2. Len(left[k]) + 1 \in DOMAIN left[k + 1]
      BY <2>1, <3>1
    <3> QED BY <2>3, <2>4, <3>1, <3>2
  <2> QED BY <2>5, <2>6
<1>5. Nat \subseteq T
  <2> HIDE DEF T
  <2> QED BY <1>3, <1>4, Induction
<1>6. Sound(Len(s)) /\ DOMAIN s = 1 .. Len(s)
  <2>1. Len(s) \in Nat /\ DOMAIN s = 1 .. Len(s)
    OBVIOUS
  <2>2. Len(s) \in T
    BY <1>5, <2>1
  <2> QED BY <2>1, <2>2
<1> HIDE DEF Sound
<1> QED BY <1>1, <1>6 DEF Sound

-----------------------------------------------------------------------------
(* What mailboxes hold, and what children carry between two commands.      *)
MailTyped ==
  /\ DOMAIN delMsg = Client
  /\ \A n \in Account : Mailbox(n) \in Seq(MailSet)
  /\ \A c \in Client : pc[c] = "llen" => arg[c] \in Account \X Texts
  /\ \A c \in Client : pc[c] = "lpush" => arg[c] \in Account \X MailSet

(* Numbered is inductive together with the number that the one sender who  *)
(* is past LLEN will push; under an account's key nothing is pushed.       *)
InOrder(n) ==
  /\ \A i \in DOMAIN Mailbox(n) : Mailbox(n)[i].id = Len(Mailbox(n)) - i
  /\ \A c \in Sending(n) : arg[c][2].id = Len(Mailbox(n))
  /\ \A c, d \in Sending(n) : c = d

NumInv == \A n \in Account \ blurred : IsStr(Box[n]) \/ InOrder(n)

(* What a child is about to delete is what it has looked for.              *)
DeleteInv ==
  \A c \in Client :
    pc[c] = "lrem" /\ FirstWith(arg[c][2], arg[c][1]) # {} =>
      delMsg[c] \in FirstWith(arg[c][2], arg[c][1])

MailInv == MailTyped /\ NumInv /\ DeleteInv

(* A command on the mailbox of n changes no other mailbox.                 *)
LEMMA OneBox ==
  ASSUME IInv, NEW n \in Account, NEW s, NEW v,
         v = List(s) \/ (v = None /\ s = <<>>),
         db' = [db EXCEPT ![Box[n]] = v]
  PROVE  /\ Mailbox(n)' = s
         /\ \A m \in Account : m # n => Mailbox(m)' = Mailbox(m) /\ IsStr(Box[m])' = IsStr(Box[m])
<1>1. DOMAIN db = Key /\ Box[n] \in Key
  BY Keys DEF IInv, DbInv
<1>2. db'[Box[n]] = v /\ \A k \in Key : k # Box[n] => db'[k] = db[k]
  BY <1>1
<1>3. \A m \in Account : m # n => Box[m] \in Key /\ Box[m] # Box[n]
  BY AccountsAssumption, Keys DEF Account
<1> QED BY <1>2, <1>3, Kinds DEF Mailbox, Items, IsStr

(* LPUSH changes the mailbox the mail is for only.                         *)
LEMMA BoxPushed ==
  ASSUME IInv, NEW c \in Client, Push(c)
  PROVE  \A m \in Account :
           /\ IsStr(Box[m])' = IsStr(Box[m])
           /\ Mailbox(m)' = IF m = arg[c][1] /\ ~IsStr(Box[m])
                            THEN <<arg[c][2]>> \o Mailbox(m) ELSE Mailbox(m)
<1>0. PICK n \in Account : arg[c][1] = n
  BY DEF Push, IInv, LocalInv
<1>1. PICK s : arg[c][1] = n /\ s = <<arg[c][2]>> \o Mailbox(n)
  BY <1>0
<1>2. CASE IsStr(Box[n])
  <2>1. UNCHANGED db
    BY <1>1, <1>2 DEF Push, Lpush
  <2> QED BY <1>1, <1>2, <2>1 DEF Mailbox, Items, IsStr
<1>3. CASE ~IsStr(Box[n])
  <2>1. PICK v : v = List(s) /\ db' = [db EXCEPT ![Box[n]] = v]
    BY <1>1, <1>3 DEF Push, Lpush, Mailbox
  <2>2. /\ Mailbox(n)' = s
        /\ \A m \in Account : m # n => Mailbox(m)' = Mailbox(m) /\ IsStr(Box[m])' = IsStr(Box[m])
    BY <2>1, OneBox
  <2>3. \A k \in Key : IsStr(k)' = IsStr(k)
    BY <1>3, <2>1, BoxStep
  <2>4. IsStr(Box[n])' = IsStr(Box[n])
    BY <2>3, Keys
  <2> QED BY <1>1, <1>3, <2>2, <2>4
<1> QED BY <1>2, <1>3

(* LREM changes the mailbox of the child's own account only.               *)
LEMMA BoxDeleted ==
  ASSUME IInv, NEW c \in Client, Lrem(c)
  PROVE  \A m \in Account :
           /\ IsStr(Box[m])' = IsStr(Box[m])
           /\ Mailbox(m)' = IF m = user[c] /\ ~IsStr(Box[m])
                            THEN Without(Mailbox(m), delMsg[c]) ELSE Mailbox(m)
<1>0. PICK n \in Account : user[c] = n
  BY DEF Lrem, IInv, LocalInv
<1>1. PICK s : user[c] = n /\ s = Without(Mailbox(n), delMsg[c])
  BY <1>0
<1>2. CASE IsStr(Box[n])
  <2>1. UNCHANGED db
    BY <1>1, <1>2 DEF Lrem
  <2> QED BY <1>1, <1>2, <2>1 DEF Mailbox, Items, IsStr
<1>3. CASE ~IsStr(Box[n])
  <2>1. PICK v : v = ListOrNone(s) /\ db' = [db EXCEPT ![Box[n]] = v]
    BY <1>1, <1>3 DEF Lrem, Mailbox
  <2>2. v = List(s) \/ (v = None /\ s = <<>>)
    BY <2>1 DEF ListOrNone
  <2>3. /\ Mailbox(n)' = s
        /\ \A m \in Account : m # n => Mailbox(m)' = Mailbox(m) /\ IsStr(Box[m])' = IsStr(Box[m])
    BY <2>1, <2>2, OneBox
  <2>4. \A k \in Key : IsStr(k)' = IsStr(k)
    BY <1>3, <2>1, <2>2, BoxStep
  <2>5. IsStr(Box[n])' = IsStr(Box[n])
    BY <2>4, Keys
  <2> QED BY <1>1, <1>3, <2>3, <2>5
<1> QED BY <1>2, <1>3

(* A step that leaves the mailboxes alone, or puts an account in the place *)
(* of one, and in which nobody comes closer to a mailbox.                  *)
LEMMA MailAlone ==
  ASSUME MailInv, UNCHANGED <<arg, delMsg>>, blurred \subseteq blurred',
         \A c \in Client : pc'[c] = pc[c] \/ pc'[c] \notin {"llen", "lpush", "lrem"},
         \A n \in Account :
           \/ Mailbox(n)' = Mailbox(n) /\ (IsStr(Box[n]) => IsStr(Box[n])')
           \/ Mailbox(n)' = <<>> /\ n \in blurred'
  PROVE  MailInv'
<1>1. MailTyped'
  <2>1. \A n \in Account : Mailbox(n)' \in Seq(MailSet)
    <3>1. \A n \in Account : Mailbox(n) \in Seq(MailSet)
      BY DEF MailInv, MailTyped
    <3>2. <<>> \in Seq(MailSet)
      OBVIOUS
    <3> QED BY <3>1, <3>2
  <2>2. \A c \in Client : pc'[c] = "llen" => arg'[c] \in Account \X Texts
    BY DEF MailInv, MailTyped
  <2>3. \A c \in Client : pc'[c] = "lpush" => arg'[c] \in Account \X MailSet
    BY DEF MailInv, MailTyped
  <2> QED BY <2>1, <2>2, <2>3 DEF MailInv, MailTyped
<1>2. DeleteInv'
  BY DEF MailInv, DeleteInv
<1>3. ASSUME NEW n \in Account, n \notin blurred' PROVE IsStr(Box[n])' \/ InOrder(n)'
  <2>1. /\ Mailbox(n)' = Mailbox(n) /\ (IsStr(Box[n]) => IsStr(Box[n])')
        /\ Sending(n)' \subseteq Sending(n)
    BY <1>3 DEF Sending
  <2> QED BY <1>3, <2>1 DEF MailInv, NumInv, InOrder
<1> QED BY <1>1, <1>2, <1>3 DEF MailInv, NumInv

LEMMA MailDialogue ==
  ASSUME IInv, MailInv, Dialogue
  PROVE  MailInv'
<1>1. UNCHANGED <<arg, delMsg>> /\ blurred \subseteq blurred'
  BY DEF Dialogue, Accept, TypeLine, HangUp, Choose, ReadName, ReadPwd, RegisterGet, RegisterSet,
     RegisterPush, Check, childVars, sessionVars
<1>2. \/ pc' = pc
      \/ \E c \in Client, p \in {"login", "gone", "ready"} : pc' = [pc EXCEPT ![c] = p]
      \/ pc' = [pc EXCEPT ![cand] = "gone"]
      \/ pc' = [pc EXCEPT ![cand] = "ready"]
  BY DEF Dialogue, Accept, TypeLine, HangUp, Choose, ReadName, ReadPwd, ReadLine, RegisterGet,
     RegisterSet, RegisterPush, Check, childVars
<1>3. \A c \in Client : pc'[c] = pc[c] \/ pc'[c] \notin {"llen", "lpush", "lrem"}
  BY <1>2 DEF IInv, LocalInv
<1>4. ASSUME NEW n \in Account
      PROVE  \/ Mailbox(n)' = Mailbox(n) /\ (IsStr(Box[n]) => IsStr(Box[n])')
             \/ Mailbox(n)' = <<>> /\ n \in blurred'
  <2>1. Box[n] \in Key /\ Box[n] # user_list /\ DOMAIN db = Key
    BY Keys DEF IInv, DbInv
  <2>2. CASE db'[Box[n]] = db[Box[n]]
    BY <2>2 DEF Mailbox, Items, IsStr
  <2>3. CASE RegisterSet /\ db'[Box[n]] # db[Box[n]]
    <3>1. db' = [db EXCEPT ![name] = Str(pwd)] /\ n \in blurred' /\ name = Box[n]
      BY <2>1, <2>3 DEF RegisterSet
    <3> QED BY <2>1, <3>1, Kinds DEF Mailbox, Items
  <2>4. CASE RegisterPush
    BY <2>1, <2>2, <2>4 DEF RegisterPush, Lpush
  <2>5. CASE ~RegisterSet /\ ~RegisterPush
    BY <2>2, <2>5 DEF Dialogue, Accept, TypeLine, HangUp, Choose, ReadName, ReadPwd, RegisterGet, Check
  <2> QED BY <2>2, <2>3, <2>4, <2>5
<1> QED BY <1>1, <1>3, <1>4, MailAlone

LEMMA MailBegins ==
  ASSUME IInv, MailInv, NEW c \in Client, NEW n \in Account, NEW text \in Texts, Mailto(c, n, text)
  PROVE  MailInv'
<1>1. CASE UNCHANGED <<pc, arg>>
  BY <1>1, MailAlone DEF Mailto, Mailbox, Items, IsStr
<1>2. CASE pc' = [pc EXCEPT ![c] = "llen"] /\ arg' = [arg EXCEPT ![c] = <<n, text>>]
  <2>1. /\ UNCHANGED <<db, delMsg, blurred>> /\ pc'[c] = "llen" /\ arg'[c] = <<n, text>>
        /\ \A d \in Client : d # c => pc'[d] = pc[d] /\ arg'[d] = arg[d]
    BY <1>2 DEF Mailto, IInv, LocalInv
  <2>2. \A m \in Account : Mailbox(m)' = Mailbox(m) /\ IsStr(Box[m])' = IsStr(Box[m])
    BY <2>1 DEF Mailbox, Items, IsStr
  <2>3. MailTyped'
    <3>1. \A m \in Account : Mailbox(m)' \in Seq(MailSet)
      BY <2>2 DEF MailInv, MailTyped
    <3>2. \A d \in Client : pc'[d] = "llen" => arg'[d] \in Account \X Texts
      <4>1. arg'[c] \in Account \X Texts
        BY <2>1
      <4>2. \A d \in Client : pc[d] = "llen" => arg[d] \in Account \X Texts
        BY DEF MailInv, MailTyped
      <4> QED BY <2>1, <4>1, <4>2, Zenon
    <3>3. \A d \in Client : pc'[d] = "lpush" => arg'[d] \in Account \X MailSet
      BY <2>1 DEF MailInv, MailTyped
    <3> QED BY <2>1, <3>1, <3>2, <3>3 DEF MailInv, MailTyped
  <2>4. DeleteInv'
    BY <2>1 DEF MailInv, DeleteInv
  <2>5. \A m \in Account : /\ Sending(m)' \subseteq Sending(m)
                          /\ \A d \in Sending(m)' : arg'[d] = arg[d]
    BY <2>1 DEF Sending
  <2>6. NumInv'
    BY <2>1, <2>2, <2>5 DEF MailInv, NumInv, InOrder
  <2> QED BY <2>3, <2>4, <2>6 DEF MailInv
<1> QED BY <1>1, <1>2 DEF Mailto

(* The number asked of LLEN is that of the mail which is then pushed, as   *)
(* long as nobody else is about to push one.                               *)
LEMMA MailNumber == ASSUME IInv, MailInv, NEW c \in Client, Llen(c) PROVE MailInv'
<1>0. PICK n \in Account : arg[c][1] = n
  BY DEF Llen, IInv, LocalInv
<1>1. PICK mail : /\ arg[c][1] = n
                  /\ mail = [id |-> Number(n), from |-> user[c], text |-> arg[c][2]]
  BY <1>0
<1>2. /\ UNCHANGED <<db, delMsg>> /\ pc'[c] = "lpush" /\ arg'[c] = <<n, mail>>
      /\ \A d \in Client : d # c => pc'[d] = pc[d] /\ arg'[d] = arg[d]
      /\ blurred' = IF Sending(n) # {} THEN blurred \cup {n} ELSE blurred
  BY <1>1 DEF Llen, IInv, LocalInv
<1>3. \A m \in Account : Mailbox(m)' = Mailbox(m) /\ IsStr(Box[m])' = IsStr(Box[m])
  BY <1>2 DEF Mailbox, Items, IsStr
<1>4. \A m \in Account : Mailbox(m) \in Seq(MailSet)
  BY DEF MailInv, MailTyped
<1>5. arg'[c] \in Account \X MailSet
  <2>1. Number(n) \in Nat
    BY <1>4 DEF Number
  <2>2. user[c] \in Account /\ arg[c][2] \in Texts
    BY DEF Llen, IInv, LocalInv, MailInv, MailTyped
  <2>3. mail \in MailSet
    BY <1>1, <2>1, <2>2 DEF MailSet
  <2> QED BY <1>2, <2>3
<1>6. MailTyped'
  <2>1. \A m \in Account : Mailbox(m)' \in Seq(MailSet)
    BY <1>3, <1>4
  <2>2. \A d \in Client : pc'[d] = "llen" => arg'[d] \in Account \X Texts
    BY <1>2 DEF MailInv, MailTyped
  <2>3. \A d \in Client : pc'[d] = "lpush" => arg'[d] \in Account \X MailSet
    <3>1. \A d \in Client : pc[d] = "lpush" => arg[d] \in Account \X MailSet
      BY DEF MailInv, MailTyped
    <3> QED BY <1>2, <1>5, <3>1, Zenon
  <2> QED BY <1>2, <2>1, <2>2, <2>3 DEF MailInv, MailTyped
<1>7. DeleteInv'
  BY <1>2 DEF MailInv, DeleteInv
<1>8. ASSUME NEW m \in Account, m \notin blurred' PROVE IsStr(Box[m])' \/ InOrder(m)'
  <2>1. m \notin blurred
    BY <1>2, <1>8
  <2> SUFFICES ASSUME ~IsStr(Box[m])' PROVE InOrder(m)'
    OBVIOUS
  <2>2. ~IsStr(Box[m]) /\ InOrder(m)
    BY <1>3, <2>1 DEF MailInv, NumInv
  <2>3. CASE m = n
    <3>1. Sending(n) = {}
      BY <1>2, <1>8, <2>3
    <3>2. Sending(n)' = {c}
      BY <1>2, <3>1 DEF Sending
    <3>3. arg'[c][2].id = Len(Mailbox(n))
      BY <1>1, <1>2, <2>2, <2>3 DEF Number
    <3> QED BY <1>3, <2>2, <2>3, <3>2, <3>3 DEF InOrder
  <2>4. CASE m # n
    <3>1. Sending(m)' = Sending(m) /\ \A d \in Sending(m) : arg'[d] = arg[d]
      BY <1>1, <1>2, <2>4 DEF Llen, Sending
    <3> QED BY <1>3, <2>2, <3>1 DEF InOrder
  <2> QED BY <2>3, <2>4
<1> QED BY <1>6, <1>7, <1>8 DEF MailInv, NumInv

(* The one mail under way arrives, with the next number, before the others.*)
LEMMA MailArrives == ASSUME IInv, MailInv, NEW c \in Client, Push(c) PROVE MailInv'
<1>1. /\ UNCHANGED <<delMsg, blurred>> /\ pc[c] = "lpush" /\ pc'[c] = "ready"
      /\ \A d \in Client : d # c => pc'[d] = pc[d] /\ arg'[d] = arg[d]
  BY DEF Push, IInv, LocalInv
<1>0. PICK n \in Account, mail \in MailSet : arg[c] = <<n, mail>>
  BY <1>1 DEF MailInv, MailTyped
<1>2. PICK s : arg[c] = <<n, mail>> /\ s = <<mail>> \o Mailbox(n)
  BY <1>0
<1>3. \A m \in Account : Mailbox(m) \in Seq(MailSet)
  BY DEF MailInv, MailTyped
<1>4. s \in Seq(MailSet)
  BY <1>2, <1>3
<1>5. s = <<arg[c][2]>> \o Mailbox(n) /\ arg[c][1] = n
  BY <1>2
<1>6. \A m \in Account :
        /\ IsStr(Box[m])' = IsStr(Box[m])
        /\ Mailbox(m)' = IF m = n /\ ~IsStr(Box[n]) THEN s ELSE Mailbox(m)
  BY <1>5, BoxPushed
<1>7. MailTyped'
  <2>1. \A m \in Account : Mailbox(m)' \in Seq(MailSet)
    <3> QED BY <1>3, <1>4, <1>6
  <2>2. \A d \in Client : pc'[d] = "llen" => arg'[d] \in Account \X Texts
    BY <1>1 DEF MailInv, MailTyped
  <2>3. \A d \in Client : pc'[d] = "lpush" => arg'[d] \in Account \X MailSet
    BY <1>1 DEF MailInv, MailTyped
  <2> QED BY <1>1, <2>1, <2>2, <2>3 DEF MailInv, MailTyped
<1>8. DeleteInv'
  BY <1>1 DEF MailInv, DeleteInv
<1>9. \A m \in Account : /\ Sending(m)' = Sending(m) \ {c}
                          /\ \A d \in Sending(m)' : arg'[d] = arg[d]
  BY <1>1 DEF Sending
<1>10. ASSUME NEW m \in Account, m \notin blurred' PROVE IsStr(Box[m])' \/ InOrder(m)'
  <2> SUFFICES ASSUME ~IsStr(Box[m])' PROVE InOrder(m)'
    OBVIOUS
  <2>1. InOrder(m) /\ ~IsStr(Box[m])
    BY <1>1, <1>6, <1>10 DEF MailInv, NumInv
  <2>2. CASE m = n
    <3>1. c \in Sending(n)
      BY <1>1, <1>2 DEF Sending
    <3>2. Sending(n)' = {} /\ mail.id = Len(Mailbox(n))
      BY <1>2, <1>9, <2>1, <2>2, <3>1 DEF InOrder
    <3>3. Mailbox(n)' = s
      BY <1>6, <2>1, <2>2
    <3>4. \A i \in DOMAIN s : s[i].id = Len(s) - i
      <4> DEFINE t == Mailbox(n)
      <4>1. t \in Seq(MailSet) /\ \A i \in DOMAIN t : t[i].id = Len(t) - i
        BY <1>3, <2>1, <2>2 DEF InOrder
      <4>2. s = <<mail>> \o t /\ mail.id = Len(t)
        BY <1>2, <3>2
      <4> HIDE DEF t
      <4>3. /\ Len(s) = Len(t) + 1 /\ s[1] = mail
            /\ \A i \in 1 .. Len(t) : s[i + 1] = t[i]
            /\ DOMAIN s = 1 .. Len(t) + 1 /\ DOMAIN t = 1 .. Len(t) /\ Len(t) \in Nat
        BY <4>1, <4>2
      <4>4. \A i \in 2 .. Len(t) + 1 : s[i] = t[i - 1] /\ t[i - 1].id = Len(t) - (i - 1)
        <5> SUFFICES ASSUME NEW i \in 2 .. Len(t) + 1
                     PROVE  s[i] = t[i - 1] /\ t[i - 1].id = Len(t) - (i - 1)
          OBVIOUS
        <5>1. i - 1 \in 1 .. Len(t) /\ (i - 1) + 1 = i
          BY <4>3
        <5> QED BY <4>1, <4>3, <5>1
      <4> QED BY <4>2, <4>3, <4>4
    <3> QED BY <2>2, <3>2, <3>3, <3>4 DEF InOrder
  <2>3. CASE m # n
    <3>1. Mailbox(m)' = Mailbox(m)
      BY <1>6, <2>3
    <3> QED BY <1>9, <2>1, <3>1 DEF InOrder
  <2> QED BY <2>2, <2>3
<1> QED BY <1>7, <1>8, <1>10 DEF MailInv, NumInv

(* What delMail looks for is an element of the list it has read.           *)
LEMMA MailChosen ==
  ASSUME IInv, MailInv, NEW c \in Client, NEW id, DelMail(c, id)
  PROVE  MailInv'
<1> DOMAIN pc = Client /\ DOMAIN arg = Client /\ DOMAIN delMsg = Client
  BY DEF IInv, LocalInv, MailInv, MailTyped
<1>1. /\ UNCHANGED <<db, blurred>> /\ pc'[c] \in {"ready", "lrem"} /\ pc[c] = "ready"
      /\ \A d \in Client : d # c => pc'[d] = pc[d] /\ arg'[d] = arg[d] /\ delMsg'[d] = delMsg[d]
  BY DEF DelMail, Begin
<1>2. \A m \in Account : Mailbox(m)' = Mailbox(m) /\ IsStr(Box[m])' = IsStr(Box[m])
  BY <1>1 DEF Mailbox, Items, IsStr
<1>3. MailTyped'
  <2>1. \A m \in Account : Mailbox(m)' \in Seq(MailSet)
    BY <1>2 DEF MailInv, MailTyped
  <2>2. \A d \in Client : pc'[d] = "llen" => arg'[d] \in Account \X Texts
    BY <1>1 DEF MailInv, MailTyped
  <2>3. \A d \in Client : pc'[d] = "lpush" => arg'[d] \in Account \X MailSet
    BY <1>1 DEF MailInv, MailTyped
  <2> QED BY <2>1, <2>2, <2>3 DEF DelMail, MailTyped
<1>4. \A m \in Account : /\ Sending(m)' = Sending(m)
                          /\ \A d \in Sending(m) : arg'[d] = arg[d]
  BY <1>1 DEF Sending
<1>5. NumInv'
  BY <1>1, <1>2, <1>4 DEF MailInv, NumInv, InOrder
<1>6. pc'[c] = "lrem" /\ FirstWith(arg'[c][2], arg'[c][1]) # {}
        => delMsg'[c] \in FirstWith(arg'[c][2], arg'[c][1])
  <2> HAVE pc'[c] = "lrem" /\ FirstWith(arg'[c][2], arg'[c][1]) # {}
  <2> DEFINE s == Mailbox(user[c])
  <2>1. ~IsStr(Box[user[c]])
    BY <1>1 DEF DelMail
  <2>2. /\ arg' = [arg EXCEPT ![c] = <<id, s>>]
        /\ \E msg \in IF FirstWith(s, id) # {} THEN FirstWith(s, id) ELSE {NoMail, delMsg[c]} :
             delMsg' = [delMsg EXCEPT ![c] = msg]
    BY <2>1 DEF DelMail
  <2>3. arg'[c] = <<id, s>>
    BY <2>2
  <2>4. PICK msg \in FirstWith(s, id) : delMsg' = [delMsg EXCEPT ![c] = msg]
    BY <2>2, <2>3
  <2> QED BY <2>3, <2>4
<1>7. DeleteInv'
  BY <1>1, <1>6 DEF MailInv, DeleteInv
<1> QED BY <1>3, <1>5, <1>7 DEF MailInv

(* A deletion that finds nothing to delete disturbs no numbering.          *)
LEMMA MailDeleted == ASSUME IInv, MailInv, NEW c \in Client, Lrem(c) PROVE MailInv'
<1>0. PICK n \in Account : user[c] = n
  BY DEF Lrem, IInv, LocalInv
<1>1. PICK s : user[c] = n /\ s = Without(Mailbox(n), delMsg[c])
  BY <1>0
<1>2. /\ UNCHANGED delMsg /\ pc[c] = "lrem" /\ pc'[c] = "ready"
      /\ \A d \in Client : d # c => pc'[d] = pc[d] /\ arg'[d] = arg[d]
      /\ blurred' = IF s # Mailbox(n) THEN blurred \cup {n} ELSE blurred
  BY <1>1 DEF Lrem, Mailbox, IInv, LocalInv
<1>3. \A m \in Account : Mailbox(m) \in Seq(MailSet)
  BY DEF MailInv, MailTyped
<1>4. s \in Seq(MailSet)
  BY <1>1, <1>3, WithoutKeeps
<1>5. \A m \in Account :
        /\ IsStr(Box[m])' = IsStr(Box[m])
        /\ Mailbox(m)' = IF m = n /\ ~IsStr(Box[n]) THEN s ELSE Mailbox(m)
  BY <1>1, BoxDeleted
<1>6. MailTyped'
  <2>1. \A m \in Account : Mailbox(m)' \in Seq(MailSet)
    BY <1>3, <1>4, <1>5
  <2>2. \A d \in Client : pc'[d] = "llen" => arg'[d] \in Account \X Texts
    BY <1>2 DEF MailInv, MailTyped
  <2>3. \A d \in Client : pc'[d] = "lpush" => arg'[d] \in Account \X MailSet
    BY <1>2 DEF MailInv, MailTyped
  <2> QED BY <1>2, <2>1, <2>2, <2>3 DEF MailInv, MailTyped
<1>7. DeleteInv'
  BY <1>2 DEF MailInv, DeleteInv
<1>8. \A m \in Account : /\ Sending(m)' = Sending(m)
                          /\ \A d \in Sending(m) : arg'[d] = arg[d]
  BY <1>2 DEF Sending
<1>9. \A m \in Account \ blurred' : m \notin blurred /\ Mailbox(m)' = Mailbox(m)
  BY <1>2, <1>5
<1>10. NumInv'
  BY <1>5, <1>8, <1>9 DEF MailInv, NumInv, InOrder
<1> QED BY <1>6, <1>7, <1>10 DEF MailInv

LEMMA MailInit == Init => MailInv
<1> SUFFICES ASSUME Init PROVE MailInv
  OBVIOUS
<1>1. \A n \in Account : Mailbox(n) = <<>>
  BY Keys, Kinds DEF Init, Mailbox, Items
<1>2. \A c \in Client : pc[c] \in {"ready", "new"}
  BY DEF Init
<1>3. MailTyped
  <2>1. <<>> \in Seq(MailSet)
    OBVIOUS
  <2>2. \A n \in Account : Mailbox(n) \in Seq(MailSet)
    BY <1>1, <2>1, Zenon
  <2>3. DOMAIN delMsg = Client
    BY DEF Init
  <2> QED BY <1>2, <2>2, <2>3 DEF MailTyped
<1>4. NumInv
  BY <1>1, <1>2 DEF NumInv, InOrder, Sending
<1> QED BY <1>2, <1>3, <1>4 DEF MailInv, DeleteInv

LEMMA MailNext == ASSUME IInv, MailInv, [Next]_vars PROVE MailInv'
<1>1. CASE UNCHANGED vars
  BY <1>1, MailAlone DEF vars, childVars, sessionVars, Mailbox, Items, IsStr
<1>2. CASE Dialogue
  BY <1>2, MailDialogue
<1>3. CASE \E c \in Client : Mail(c)
  BY <1>3, MailBegins, MailNumber, MailArrives, MailChosen, MailDeleted DEF Mail
<1> QED BY <1>1, <1>2, <1>3 DEF Next

LEMMA MailInductive == Spec => [](IInv /\ MailInv)
<1>1. Init => IInv /\ MailInv
  BY InitInv, MailInit
<1>2. IInv /\ MailInv /\ [Next]_vars => (IInv /\ MailInv)'
  BY Step, MailNext
<1> QED BY <1>1, <1>2, PTL DEF Spec

(* The numbers of mails tell how many were there before, in every mailbox  *)
(* that no deletion, no second sender and no account has disturbed.        *)
THEOREM MailNumbered == Spec => []Numbered
<1>1. MailInv => Numbered
  <2> SUFFICES ASSUME MailInv, NEW n \in Account \ blurred
               PROVE  \A i \in DOMAIN Mailbox(n) : Mailbox(n)[i].id = Len(Mailbox(n)) - i
    BY DEF Numbered
  <2>1. CASE IsStr(Box[n])
    BY <2>1 DEF Mailbox, Items, IsStr
  <2>2. CASE InOrder(n)
    BY <2>2 DEF InOrder
  <2> QED BY <2>1, <2>2 DEF MailInv, NumInv
<1> QED BY MailInductive, <1>1, PTL

(* What a step takes out of a mailbox other than by an account under its   *)
(* key is what a child deletes.                                            *)
LEMMA Deleted ==
  ASSUME IInv, MailInv, [Next]_vars, NEW n \in Account, Gone(Box[n]) # {}, ~IsStr(Box[n])'
  PROVE  \E c \in Client : Lrem(c) /\ user[c] = n /\ Gone(Box[n]) = {delMsg[c]}
<1>1. db'[Box[n]] # db[Box[n]]
  BY DEF Gone, Items
<1>2. DOMAIN db = Key /\ Box[n] \in Key /\ Box[n] # user_list
  BY Keys DEF IInv, DbInv
<1>3. CASE Dialogue
  <2>1. CASE RegisterSet
    <3>1. db'[Box[n]] = Str(pwd)
      BY <1>1, <1>2, <2>1 DEF RegisterSet
    <3> QED BY <3>1, Kinds DEF IsStr
  <2>2. CASE RegisterPush
    BY <1>1, <1>2, <2>2 DEF RegisterPush, Lpush
  <2>3. CASE ~RegisterSet /\ ~RegisterPush
    BY <1>1, <1>3, <2>3 DEF Dialogue, Accept, TypeLine, HangUp, Choose, ReadName, ReadPwd,
       RegisterGet, Check
  <2> QED BY <2>1, <2>2, <2>3
<1>4. ASSUME NEW c \in Client, Push(c) PROVE FALSE
  <2>1. PICK s, e : s = Mailbox(n) /\ e = arg[c][2]
    OBVIOUS
  <2>2. s \in Seq(MailSet)
    BY <2>1 DEF MailInv, MailTyped
  <2>3. Mailbox(n)' = s \/ (Mailbox(n)' = <<e>> \o s /\ e \in MailSet)
    <3>1. arg[c][2] \in MailSet
      BY <1>4 DEF Push, MailInv, MailTyped
    <3> QED BY <1>4, <2>1, <3>1, BoxPushed
  <2>4. \A i \in DOMAIN s : \E j \in DOMAIN Mailbox(n)' : Mailbox(n)'[j] = s[i]
    <3>1. CASE Mailbox(n)' = <<e>> \o s /\ e \in MailSet
      <4>1. \A i \in DOMAIN s : i + 1 \in DOMAIN (<<e>> \o s) /\ (<<e>> \o s)[i + 1] = s[i]
        BY <2>2, <3>1
      <4> QED BY <3>1, <4>1
    <3> QED BY <2>3, <3>1
  <2> QED BY <2>1, <2>4 DEF Gone, Mailbox
<1>5. ASSUME NEW c \in Client, Lrem(c)
      PROVE  user[c] = n /\ Gone(Box[n]) = {delMsg[c]}
  <2>1. Mailbox(n)' # Mailbox(n)
    BY DEF Gone, Mailbox
  <2>2. user[c] = n /\ Mailbox(n)' = Without(Mailbox(n), delMsg[c])
    BY <1>5, <2>1, BoxDeleted
  <2>3. Mailbox(n) \in Seq(MailSet)
    BY DEF MailInv, MailTyped
  <2>4. \A i \in DOMAIN Mailbox(n) : Mailbox(n)[i] # delMsg[c] =>
          \E j \in DOMAIN Mailbox(n)' : Mailbox(n)'[j] = Mailbox(n)[i]
    BY <2>2, <2>3, WithoutKeeps
  <2>5. Gone(Box[n]) \subseteq {delMsg[c]}
    BY <2>4 DEF Gone, Mailbox
  <2> QED BY <2>2, <2>5
<1>6. CASE \E c \in Client : Mail(c)
  BY <1>1, <1>4, <1>5, <1>6 DEF Mail, Mailto, Llen, DelMail
<1>7. CASE UNCHANGED vars
  BY <1>1, <1>7 DEF vars
<1> QED BY <1>3, <1>6, <1>7 DEF Next

(* Mail only goes away at its owner's delMail, which takes one mail and    *)
(* its copies, of the number that was asked for if there is one.           *)
THEOREM OnlyOwnersDelete == Spec => MailKept
<1>1. ASSUME IInv, MailInv, [Next]_vars, NEW n \in Account, Gone(Box[n]) # {}, ~IsStr(Box[n])'
      PROVE  /\ Cardinality(Gone(Box[n])) = 1
             /\ \E c \in Client :
                  /\ pc[c] = "lrem" /\ pc'[c] = "ready" /\ user[c] = n
                  /\ FirstWith(arg[c][2], arg[c][1]) # {} =>
                       \A m \in Gone(Box[n]) : m.id = arg[c][1]
  <2>1. PICK c \in Client : Lrem(c) /\ user[c] = n /\ Gone(Box[n]) = {delMsg[c]}
    BY <1>1, Deleted
  <2>2. Cardinality(Gone(Box[n])) = 1
    BY <2>1, FS_Singleton
  <2>3. pc[c] = "lrem" /\ pc'[c] = "ready"
    BY <1>1, <2>1 DEF Lrem, IInv, LocalInv
  <2>4. FirstWith(arg[c][2], arg[c][1]) # {} => delMsg[c].id = arg[c][1]
    BY <1>1, <2>3 DEF MailInv, DeleteInv, FirstWith
  <2> QED BY <2>1, <2>2, <2>3, <2>4
<1>2. IInv /\ MailInv /\ [Next]_vars =>
        [\A n \in Account :
           Gone(Box[n]) # {} =>
             \/ IsStr(Box[n])'
             \/ /\ Cardinality(Gone(Box[n])) = 1
                /\ \E c \in Client :
                     /\ pc[c] = "lrem" /\ pc'[c] = "ready" /\ user[c] = n
                     /\ FirstWith(arg[c][2], arg[c][1]) # {} =>
                          \A m \in Gone(Box[n]) : m.id = arg[c][1]]_vars
  BY <1>1
<1> QED BY MailInductive, <1>2, PTL DEF Spec, MailKept
=============================================================================
