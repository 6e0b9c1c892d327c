------------------------------- MODULE Groups -------------------------------
(***************************************************************************)
(* The chat groups of homework3 (src/group.c).  A group is a Redis sorted  *)
(* set of its members by score under the group's own name; its owner is    *)
(* the first member in Redis order.  The sorted set groupList holds the    *)
(* names of the groups.  A command is a handful of Redis commands, each    *)
(* atomic, and the child servers of all clients run theirs concurrently:   *)
(* every step below is one Redis command and the code up to the next one.  *)
(*                                                                         *)
(* Accounts are strings in the same keyspace (register_user in             *)
(* src/login.c), so an account and a group of one name share a key.  Each  *)
(* process is taken to read the replies to its own commands.               *)
(***************************************************************************)
EXTENDS Integers, Sequences, FiniteSets

CONSTANTS
  Child,    \* the child servers
  Names,    \* the account names
  Account,  \* the account each child's client has logged in with
  Newcomers,\* the accounts that may be registered while the server runs
  Rank,     \* the lexicographic order of names, which breaks ties of scores
  Typed,    \* the group names clients type
  Lists,    \* the lists of names clients type after addTo and remove
  Commands, \* the commands clients use
  NoName,   \* no name: no registration under way, no command typed yet
  MaxOps    \* bound: the commands all clients type

ASSUME GroupsAssumption ==
  /\ IsFiniteSet(Names)
  /\ NoName \notin Names \cup Typed
  /\ Account \in [Child -> Names]
  /\ Newcomers \subseteq Names
  /\ Rank \in [Names -> Nat]
  /\ \A m, n \in Names : Rank[m] = Rank[n] => m = n
  /\ Lists \subseteq Seq(Names)
  /\ MaxOps \in Nat

VARIABLES
  strings, \* the keys that hold a string, the password of an account
  score,   \* the sorted set of each group: 0 for those who are not in it
  listed,  \* the sorted set groupList (its order shows in listGroup only)
  pc,      \* child: the Redis command it issues next
  grp,     \* child: the group its command names
  todo,    \* child: the names it has still to go through
  keep,    \* child: the names that have turned out to be accounts
  snap,    \* child: the members it read from the group
  num,     \* child: numberOfpeople, or the score of the next member (gid)
  reg,     \* main: the name register_user() has found free
  nops,    \* the commands clients have typed
  upset    \* history: the groups at which one of the causes below struck

childVars == <<pc, grp, todo, keep, snap, num, nops>>
store     == <<strings, score, listed>>
vars      == <<store, childVars, reg, upset>>

In(g, n)    == score[g][n] # 0
MembersOf(g) == {n \in Names : In(g, n)}
Nobody      == [n \in Names |-> 0]

(* Redis keeps a sorted set in the order of scores, then of names; the     *)
(* owner is element[0] of its ZRANGE.                                      *)
Before(g, m, n) ==
  \/ score[g][m] < score[g][n]
  \/ score[g][m] = score[g][n] /\ Rank[m] <= Rank[n]
Owns(n, g) == In(g, n) /\ \A m \in Names : In(g, m) => Before(g, n, m)

Init ==
  /\ strings = {Account[c] : c \in Child}
  /\ score = [g \in Typed |-> Nobody] /\ listed = {}
  /\ pc = [c \in Child |-> "idle"] /\ grp = [c \in Child |-> NoName]
  /\ todo = [c \in Child |-> <<>>] /\ keep = [c \in Child |-> <<>>]
  /\ snap = [c \in Child |-> {}] /\ num = [c \in Child |-> 0]
  /\ reg = NoName /\ nops = 0 /\ upset = {}

-----------------------------------------------------------------------------
(* Commands.  A command that is refused at its first Redis command has no  *)
(* effect; so it is for listGroup, and for gyell, which Sessions models.   *)

Type(c, k, g) ==
  /\ k \in Commands
  /\ pc[c] = "idle" /\ nops < MaxOps
  /\ nops' = nops + 1
  /\ grp' = [grp EXCEPT ![c] = g]

Goto(c, p) == pc' = [pc EXCEPT ![c] = p]

(* createGroup: ZADD groupList; if the name was not there, ZADD the group. *)
CreateGroup(c, g) ==
  /\ Type(c, "createGroup", g)
  /\ listed' = listed \cup {g}
  /\ Goto(c, IF g \in listed THEN "idle" ELSE "creator")
  /\ UNCHANGED <<strings, score, todo, keep, snap, num, reg, upset>>

(* Cause: a group with the name of an account cannot get its first member. *)
AddCreator(c) ==
  LET g == grp[c] IN
  /\ pc[c] = "creator"
  /\ IF g \in strings
     THEN upset' = upset \cup {g} /\ UNCHANGED score
     ELSE score' = [score EXCEPT ![g][Account[c]] = 1] /\ UNCHANGED upset
  /\ Goto(c, "idle")
  /\ UNCHANGED <<strings, listed, grp, todo, keep, snap, num, nops, reg>>

(* The check of delGroup, addTo and remove: ZRANGE finds a sorted set      *)
(* whose first member is the client.                                       *)
PermittedToMembers(c, g) == g \notin strings /\ In(g, Account[c])
PermittedUnread(c, g) == g \in strings \/ Owns(Account[c], g)
Permitted(c, g) == g \notin strings /\ Owns(Account[c], g)

(* delGroup: ZRANGE, DEL, ZREM groupList.                                  *)
DelGroup(c, g) ==
  /\ Type(c, "delGroup", g)
  /\ Permitted(c, g)
  /\ Goto(c, "delete")
  /\ UNCHANGED <<store, todo, keep, snap, num, reg, upset>>

DeleteKey(c) ==
  /\ pc[c] = "delete"
  /\ score' = [score EXCEPT ![grp[c]] = Nobody]
  /\ strings' = strings \ {grp[c]}
  /\ Goto(c, "report")
  /\ UNCHANGED <<listed, grp, todo, keep, snap, num, nops, reg, upset>>

(* Cause: the client has disconnected and the message delGroup writes      *)
(* between its two updates ends the child (SIGPIPE).                       *)
DieReporting(c) ==
  /\ pc[c] = "report"
  /\ Goto(c, "gone")
  /\ upset' = upset \cup {grp[c]}
  /\ UNCHANGED <<store, grp, todo, keep, snap, num, nops, reg>>

(* The last step of delGroup and of the last member's leaveGroup.          *)
Unlist(c) ==
  /\ pc[c] \in {"report", "unlist"}
  /\ listed' = listed \ {grp[c]}
  /\ Goto(c, "idle")
  /\ UNCHANGED <<strings, score, grp, todo, keep, snap, num, nops, reg, upset>>

(* addTo and remove: ZRANGE, then GET every name, then ZADD or ZREM those  *)
(* that remain.                                                            *)
Start(c, k, g, l, p) ==
  /\ Type(c, k, g)
  /\ Permitted(c, g)
  /\ l # <<>>
  /\ snap' = [snap EXCEPT ![c] = MembersOf(g)]
  /\ todo' = [todo EXCEPT ![c] = l]
  /\ keep' = [keep EXCEPT ![c] = <<>>]
  /\ Goto(c, p)
  /\ UNCHANGED <<store, num, reg, upset>>

AddTo(c, g, l)  == Start(c, "addTo", g, l, "lookAdd")
Remove(c, g, l) == Start(c, "remove", g, l, "lookDrop")

(* A name is kept if it is an account and, for addTo, not a member of the  *)
(* group that was read, for remove, a member of it.                        *)
Wanted(c, n) ==
  /\ n \in strings
  /\ IF pc[c] = "lookAdd" THEN n \notin snap[c] ELSE n \in snap[c]

LookUp(c) ==
  LET n == Head(todo[c])
      k == IF Wanted(c, n) THEN Append(keep[c], n) ELSE keep[c]
  IN
  /\ pc[c] \in {"lookAdd", "lookDrop"}
  /\ keep' = [keep EXCEPT ![c] = k]
  /\ \/ /\ Len(todo[c]) > 1
        /\ todo' = [todo EXCEPT ![c] = Tail(@)]
        /\ UNCHANGED <<pc, num>>
     \/ /\ Len(todo[c]) = 1
        /\ todo' = [todo EXCEPT ![c] = k]
        /\ num' = [num EXCEPT ![c] = Cardinality(snap[c]) + 1]
        /\ Goto(c, IF k = <<>> THEN "idle"
                   ELSE IF pc[c] = "lookAdd" THEN "add" ELSE "drop")
  /\ UNCHANGED <<store, grp, snap, nops, reg, upset>>

Advance(c) ==
  /\ todo' = [todo EXCEPT ![c] = Tail(@)]
  /\ pc' = [pc EXCEPT ![c] = IF Len(todo[c]) = 1 THEN "idle" ELSE @]

(* Cause: the score of a new member, the number of members plus one, may   *)
(* be as low as the owner's own, or lower, and makes the new one the owner.*)
AddMember(c) ==
  LET g == grp[c]  n == Head(todo[c]) IN
  /\ pc[c] = "add"
  /\ score' = IF g \in strings THEN score ELSE [score EXCEPT ![g][n] = num[c]]
  /\ num' = [num EXCEPT ![c] = @ + 1]
  /\ Advance(c)
  /\ UNCHANGED <<strings, listed, grp, keep, snap, nops, reg>>
  /\ upset' = IF Owns(Account[c], g)' THEN upset ELSE upset \cup {g}

(* Cause: an owner that removes itself goes on removing without the right, *)
(* and leaves an empty group listed if it was the last member.             *)
DropMember(c) ==
  LET g == grp[c]  n == Head(todo[c]) IN
  /\ pc[c] = "drop"
  /\ score' = [score EXCEPT ![g][n] = 0]
  /\ Advance(c)
  /\ upset' = IF n = Account[c] THEN upset \cup {g} ELSE upset
  /\ UNCHANGED <<strings, listed, grp, keep, snap, num, nops, reg>>

(* leaveGroup: ZSCAN groupList, ZRANGE for the number of members, ZREM,    *)
(* and ZREM groupList if there was one.                                    *)
LeaveGroup(c, g) ==
  /\ Type(c, "leaveGroup", g)
  /\ g \in listed
  /\ Goto(c, "count")
  /\ UNCHANGED <<store, todo, keep, snap, num, reg, upset>>

Count(c) ==
  /\ pc[c] = "count"
  /\ num' = [num EXCEPT ![c] = Cardinality(MembersOf(grp[c]))]
  /\ Goto(c, "leave")
  /\ UNCHANGED <<store, grp, todo, keep, snap, nops, reg, upset>>

(* Cause: the number is not what it was when ZREM takes effect.            *)
EmptyAfterNone(k) == k = 0
EmptyAfter(k) == k = 1
LeaveMember(c) ==
  LET g == grp[c]  n == Account[c] IN
  /\ pc[c] = "leave"
  /\ \/ /\ ~In(g, n)
        /\ Goto(c, "idle")
        /\ UNCHANGED <<score, upset>>
     \/ /\ In(g, n)
        /\ score' = [score EXCEPT ![g][n] = 0]
        /\ Goto(c, IF EmptyAfter(num[c]) THEN "unlist" ELSE "idle")
        /\ upset' = IF (num[c] = 1) = (MembersOf(g) = {n}) THEN upset ELSE upset \cup {g}
  /\ UNCHANGED <<strings, listed, grp, todo, keep, snap, num, nops, reg>>

-----------------------------------------------------------------------------
(* register_user() in main: GET finds no string, then SET.                 *)
Free(n) == n \notin strings

RegisterGet(n) ==
  /\ reg = NoName
  /\ Free(n)
  /\ reg' = n
  /\ UNCHANGED <<store, childVars, upset>>

(* Cause: SET replaces whatever the key held, a group too.                 *)
RegisterSet ==
  /\ reg # NoName
  /\ strings' = strings \cup {reg}
  /\ IF reg \in Typed
     THEN /\ score' = [score EXCEPT ![reg] = Nobody]
          /\ upset' = IF MembersOf(reg) # {} THEN upset \cup {reg} ELSE upset
     ELSE UNCHANGED <<score, upset>>
  /\ reg' = NoName
  /\ UNCHANGED <<listed, childVars>>

ChildStep(c) ==
  \/ \E g \in Typed : CreateGroup(c, g) \/ DelGroup(c, g) \/ LeaveGroup(c, g)
  \/ \E g \in Typed, l \in Lists : AddTo(c, g, l) \/ Remove(c, g, l)
  \/ AddCreator(c) \/ DeleteKey(c) \/ DieReporting(c) \/ Unlist(c)
  \/ LookUp(c) \/ AddMember(c) \/ DropMember(c) \/ Count(c) \/ LeaveMember(c)

Next ==
  \/ \E c \in Child : ChildStep(c)
  \/ \E n \in Newcomers : RegisterGet(n)
  \/ RegisterSet

Spec == Init /\ [][Next]_vars

-----------------------------------------------------------------------------
Steps == {"idle", "creator", "delete", "report", "unlist", "lookAdd", "lookDrop",
          "add", "drop", "count", "leave", "gone"}

(* Every variable keeps its type.                                          *)
TypeOK ==
  /\ strings \subseteq Names \cup Typed
  /\ score \in [Typed -> [Names -> Nat]]
  /\ listed \subseteq Typed
  /\ pc \in [Child -> Steps]
  /\ grp \in [Child -> Typed \cup {NoName}]
  /\ \A c \in Child : pc[c] # "idle" => grp[c] \in Typed
  /\ todo \in [Child -> Seq(Names)]
  /\ \A c \in Child : pc[c] \in {"lookAdd", "lookDrop", "add", "drop"} => todo[c] # <<>>
  /\ keep \in [Child -> Seq(Names)]
  /\ snap \in [Child -> SUBSET Names]
  /\ num \in [Child -> Nat]
  /\ \A c \in Child : pc[c] = "add" => num[c] # 0
  /\ reg \in Newcomers \cup {NoName}
  /\ nops \in Nat
  /\ upset \subseteq Typed

(* The code lets an account log in more than once; two sessions of one     *)
(* account can undo each other's checks, so the properties ask for one.    *)
OneSession == \A c, d \in Child : Account[c] = Account[d] => c = d

Sound == Typed \ upset

(* The right to change a group is checked by one Redis command and used by *)
(* later ones.  It still holds when it is used: a child that is about to   *)
(* delete a group, to add to it or to remove from it acts for its owner.   *)
Acting == {"delete", "lookAdd", "lookDrop", "add", "drop"}
StillOwner ==
  OneSession =>
    \A c \in Child : pc[c] \in Acting /\ grp[c] \in Sound => Owns(Account[c], grp[c])

(* Nobody is put into a group or taken out of it but by himself or by its  *)
(* owner, however the commands of the clients interleave.                  *)
ByOwner ==
  \A g \in Typed \ upset' : \A n \in Names :
    In(g, n) # In(g, n)' =>
      \E c \in Child : /\ pc[c] # pc'[c] \/ todo[c] # todo'[c]
                       /\ grp[c] = g
                       /\ Account[c] = n \/ Owns(Account[c], g)
ChangedByOwner == [][OneSession => ByOwner]_vars

(* groupList and the sets agree: a group with members is listed, and a     *)
(* listed group has members, but while its creation or its end is under    *)
(* way.  (A listed group without members can neither be created, deleted   *)
(* nor left.)                                                              *)
Ending == {"creator", "report", "unlist"}
Agreement ==
  OneSession =>
    \A g \in Sound :
      /\ MembersOf(g) # {} => g \in listed
      /\ g \in listed /\ MembersOf(g) = {} =>
           \E c \in Child : grp[c] = g /\ pc[c] \in Ending

(* One child at a time is between the two updates of a group, which then   *)
(* is listed and has no members; and a key holds one kind of value.        *)
OneUpdate ==
  OneSession =>
    \A c \in Child : pc[c] \in Ending /\ grp[c] \in Sound =>
      /\ grp[c] \in listed
      /\ MembersOf(grp[c]) = {}
      /\ \A d \in Child : pc[d] \in Ending /\ grp[d] = grp[c] => c = d
OneKind == \A g \in Typed : g \in strings => MembersOf(g) = {}

GroupInv == StillOwner /\ Agreement /\ OneUpdate /\ OneKind

(* No command on groups deletes an account: the DEL of a group hits the    *)
(* string of an account only if the account has replaced the group.        *)
AccountsStay == [][OneSession => strings \ strings' \subseteq upset]_vars

=============================================================================
