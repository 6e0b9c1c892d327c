------------------------------ MODULE Accounts ------------------------------
(***************************************************************************)
(* Accounts and mail in homework3.  Main holds the login dialogue with one *)
(* client at a time (src/login.c): one read() for one line.  A client that *)
(* is in has a child server, which serves its mail commands                *)
(* (src/mailBox.c).  Everything is kept in one Redis keyspace: an account  *)
(* is a string (its password) under the account's name, the mailbox of n   *)
(* is a list under the key "<n>noMailBox", and user_list is a list of the  *)
(* accounts.  Every step is one Redis command, or one read(), and the code *)
(* up to the next one; each process is taken to read the replies to its    *)
(* own commands (see SharedRedis for when it does not).  A mail is its     *)
(* number, sender and text; the time it was sent is left out, so that two  *)
(* mails may be copies of one another that in the code differ by the time. *)
(***************************************************************************)
EXTENDS Integers, Sequences, FiniteSets

CONSTANTS
  Client,    \* the clients
  NoClient,
  Key,       \* the keys of the database
  Box,       \* the key of an account's mailbox, for each possible account
  user_list, \* the key of the list of accounts
  Accounts0, \* the accounts there are at the start, with their passwords
  Session0,  \* the clients that are in at the start, and under which name
  Lines,     \* what clients type at a prompt
  Texts,     \* the texts of mails
  NoMail,    \* what delMsg holds before it is first written
  MaxInput,  \* bound: the lines clients type, at prompts and as mail commands
  MaxOps     \* bound: the mail commands

ASSUME AccountsAssumption ==
  /\ NoClient \notin Client
  /\ user_list \in Key
  /\ Box \in [DOMAIN Box -> Key] /\ Lines \subseteq DOMAIN Box
  /\ DOMAIN Box \subseteq Key /\ "" \in DOMAIN Box
  /\ \A m, n \in DOMAIN Box : Box[m] = Box[n] => m = n
  /\ \A n \in DOMAIN Box : Box[n] # user_list
  /\ DOMAIN Accounts0 \subseteq DOMAIN Box
  /\ DOMAIN Session0 \subseteq Client
  /\ \A c \in DOMAIN Session0 : Session0[c] \in DOMAIN Accounts0
  /\ MaxInput \in Nat /\ MaxOps \in Nat

Account == DOMAIN Box  \* the strings that may be account names

VARIABLES
  db,      \* the Redis database: a value for every key
  mpc,     \* main: where it is in accept(), login() or register_user()
  cand,    \* main: the client it talks to
  name,    \* main: the name it has read, as an account name or to register
  pwd,     \* main: the password it has read
  inbox,   \* the lines on their way from cand to main
  hung,    \* cand has hung up
  user,    \* child: the account of the session, or "none"
  pc,      \* child: the Redis command it issues next
  arg,     \* child: the receiver and text of a mail, the number to delete ...
  delMsg,  \* child: ... and the buffer with the mail to delete
  nlines, nops,  \* the lines and commands typed
  unlisted,\* history: accounts whose registration main did not survive
  blurred  \* history: accounts in whose mailbox numbering was disturbed

mainVars  == <<mpc, cand, name, pwd, inbox, hung, nlines, unlisted>>
sessionVars == <<user, arg, delMsg, nops, blurred>>
childVars == <<pc, sessionVars>>
vars      == <<db, mainVars, childVars>>

None    == [type |-> "none"]
Str(s)  == [type |-> "string", val |-> s]
List(s) == [type |-> "list", val |-> s]

(* A list that loses its last element loses its key.                       *)
ListOrNone(s) == IF s = <<>> THEN None ELSE List(s)

IsStr(k)  == db[k].type = "string"
Items(k)  == IF db[k].type = "list" THEN db[k].val ELSE <<>>

(* LPUSH on a string is an error and changes nothing.                      *)
Lpush(k, e) == IF IsStr(k) THEN db ELSE [db EXCEPT ![k] = List(<<e>> \o Items(k))]

Init ==
  /\ db = [k \in Key |-> IF k \in DOMAIN Accounts0 THEN Str(Accounts0[k]) ELSE None]
  /\ mpc = "accept" /\ cand = NoClient /\ name = "" /\ pwd = "" /\ inbox = <<>>
  /\ hung = FALSE /\ nlines = 0 /\ unlisted = DOMAIN Accounts0
  /\ user = [c \in Client |-> IF c \in DOMAIN Session0 THEN Session0[c] ELSE "none"]
  /\ pc = [c \in Client |-> IF c \in DOMAIN Session0 THEN "ready" ELSE "new"]
  /\ arg = [c \in Client |-> <<>>] /\ delMsg = [c \in Client |-> NoMail]
  /\ nops = 0 /\ blurred = {}

-----------------------------------------------------------------------------
(* The login dialogue.                                                     *)

InLogin == mpc \in {"choice", "regName", "regPwd", "get", "set", "lpush", "name", "pwd", "check"}
Reading == mpc \in {"choice", "regName", "regPwd", "name", "pwd"}

Accept(c) ==
  /\ mpc = "accept" /\ pc[c] = "new"
  /\ mpc' = "name" /\ cand' = c
  /\ pc' = [pc EXCEPT ![c] = "login"]
  /\ UNCHANGED <<db, name, pwd, inbox, hung, nlines, unlisted, user, arg, delMsg, nops, blurred>>

(* The client types a line, at a prompt or ahead of one.                   *)
TypeLine(line) ==
  /\ InLogin /\ ~hung
  /\ nlines + nops < MaxInput /\ Len(inbox) < 2
  /\ nlines' = nlines + 1
  /\ inbox' = Append(inbox, line)
  /\ UNCHANGED <<db, mpc, cand, name, pwd, hung, unlisted, childVars>>

HangUp ==
  /\ InLogin /\ ~hung
  /\ hung' = TRUE
  /\ UNCHANGED <<db, mpc, cand, name, pwd, inbox, nlines, unlisted, childVars>>

(* A write to a client that has hung up may raise SIGPIPE.                 *)
Prompt(next) ==
  \/ mpc' = next /\ UNCHANGED unlisted
  \/ hung /\ mpc' = "dead"
          /\ unlisted' = IF mpc = "set" THEN unlisted \cup {name} ELSE unlisted

(* login() and register_user() call one another: every call has buffers of *)
(* its own.                                                                *)
NewCall == name' = "" /\ pwd' = ""

(* One read() for one line: it takes as many of the lines as have arrived, *)
(* and all but the first are lost at its line end.  From a client that has *)
(* hung up it reads nothing.  A child server that ends while main waits    *)
(* interrupts it, for SIGCHLD is handled without SA_RESTART                *)
(* (my_signal.c:10), and main goes on as if it had read.  Either way the   *)
(* buffer, fresh from malloc(), is taken as an empty line.  A child that   *)
(* ends at another time is one that does nothing more.                     *)
ReadLine(line) ==
  \/ /\ inbox # <<>>
     /\ line = Head(inbox)
     /\ \E k \in 1 .. Len(inbox) : inbox' = SubSeq(inbox, k + 1, Len(inbox))
     /\ UNCHANGED pc
  \/ /\ inbox = <<>> /\ hung
     /\ line = ""
     /\ UNCHANGED <<inbox, pc>>
  \/ /\ inbox = <<>>
     /\ \E c \in Client : pc[c] = "ready" /\ pc' = [pc EXCEPT ![c] = "gone"]
     /\ line = ""
     /\ UNCHANGED inbox

Typed == Lines \cup {""}

(* login_logic().                                                          *)
Choose ==
  /\ mpc = "choice"
  /\ \E line \in Typed :
       /\ ReadLine(line)
       /\ Prompt(CASE line = "1" -> "regName" [] line = "2" -> "name" [] OTHER -> "choice")
  /\ UNCHANGED <<db, cand, name, pwd, hung, nlines, sessionVars>>

(* The name, in login() and register_user().                               *)
ReadName ==
  /\ mpc \in {"name", "regName"}
  /\ \E line \in Typed : ReadLine(line) /\ name' = line
  /\ Prompt(IF mpc = "name" THEN "pwd" ELSE "regPwd")
  /\ UNCHANGED <<db, cand, pwd, hung, nlines, sessionVars>>

ReadPwd ==
  /\ mpc \in {"pwd", "regPwd"}
  /\ \E line \in Typed : ReadLine(line) /\ pwd' = line
  /\ mpc' = IF mpc = "pwd" THEN "check" ELSE "get"
  /\ UNCHANGED <<db, cand, name, hung, nlines, unlisted, sessionVars>>

(* register_user(): GET, and again if the name is an account; SET, which   *)
(* replaces a value of any type; "Create Succece!"; LPUSH user_list.       *)
TakenUnread == FALSE  \* bug: the reply to GET is not looked at
Taken == IsStr(name)

RegisterGet ==
  /\ mpc = "get"
  /\ IF Taken THEN Prompt("regName") /\ NewCall
              ELSE mpc' = "set" /\ UNCHANGED <<unlisted, name, pwd>>
  /\ UNCHANGED <<db, cand, inbox, hung, nlines, childVars>>

RegisterSet ==
  /\ mpc = "set"
  /\ db' = [db EXCEPT ![name] = Str(pwd)]
  /\ Prompt("lpush")
  /\ blurred' = blurred \cup {n \in Account : Box[n] = name}
  /\ UNCHANGED <<cand, name, pwd, inbox, hung, nlines, user, pc, arg, delMsg, nops>>

EntryAdded == pwd  \* bug: the wrong buffer is pushed
Entry == name

RegisterPush ==
  /\ mpc = "lpush"
  /\ db' = Lpush(user_list, Entry)
  /\ Prompt("name") /\ NewCall
  /\ UNCHANGED <<cand, inbox, hung, nlines, childVars>>

(* login(): GET and strcmp.                                                *)
Known == IsStr(name)
Right == db[name].val = pwd

Check ==
  /\ mpc = "check"
  /\ NewCall
  /\ IF Known /\ Right
     THEN /\ mpc' = "accept" /\ cand' = NoClient
          /\ inbox' = <<>> /\ hung' = FALSE
          /\ user' = [user EXCEPT ![cand] = name]
          /\ pc' = [pc EXCEPT ![cand] = IF hung THEN "gone" ELSE "ready"]
          /\ UNCHANGED unlisted
     ELSE /\ Prompt(IF Known THEN "name" ELSE "choice")
          /\ UNCHANGED <<cand, inbox, hung, user, pc>>
  /\ UNCHANGED <<db, nlines, arg, delMsg, nops, blurred>>

-----------------------------------------------------------------------------
(* Mail.                                                                   *)

Mailbox(n) == Items(Box[n])

Begin(c) ==
  /\ pc[c] = "ready"
  /\ nops < MaxOps /\ nlines + nops < MaxInput
  /\ nops' = nops + 1

(* mailto: GET of the receiver; nothing is sent unless it is an account.   *)
Mailto(c, n, text) ==
  /\ Begin(c)
  /\ IF IsStr(n) THEN /\ pc' = [pc EXCEPT ![c] = "llen"]
                     /\ arg' = [arg EXCEPT ![c] = <<n, text>>]
                ELSE UNCHANGED <<pc, arg>>
  /\ UNCHANGED <<db, mainVars, user, delMsg, blurred>>

(* LLEN: the mail's number is the length of the list, 1 if that is not a   *)
(* list.                                                                   *)
NumberFromOne(n) == IF IsStr(Box[n]) THEN 1 ELSE Len(Mailbox(n)) + 1  \* bug: numbered from 1
Number(n) == IF IsStr(Box[n]) THEN 1 ELSE Len(Mailbox(n))
Sending(n) == {c \in Client : pc[c] = "lpush" /\ arg[c][1] = n}

Llen(c) ==
  /\ pc[c] = "llen"
  /\ LET n == arg[c][1] IN
     /\ arg' = [arg EXCEPT ![c] = <<n, [id |-> Number(n), from |-> user[c], text |-> arg[c][2]]>>]
     /\ blurred' = IF Sending(n) # {} THEN blurred \cup {n} ELSE blurred
  /\ pc' = [pc EXCEPT ![c] = "lpush"]
  /\ UNCHANGED <<db, mainVars, user, delMsg, nops>>

Push(c) ==
  /\ pc[c] = "lpush"
  /\ db' = Lpush(Box[arg[c][1]], arg[c][2])
  /\ pc' = [pc EXCEPT ![c] = "ready"]
  /\ arg' = [arg EXCEPT ![c] = <<>>]
  /\ UNCHANGED <<mainVars, user, delMsg, nops, blurred>>

(* delMail: LRANGE, and the first mail with that number into delMsg, which *)
(* otherwise keeps what the stack held there: nothing, or the last mail    *)
(* this process deleted.  Of a mailbox that is no list nothing is deleted. *)
FirstWith(s, id) ==
  {s[i] : i \in {j \in DOMAIN s : s[j].id = id /\ \A k \in 1 .. j - 1 : s[k].id # id}}

DelMail(c, id) ==
  /\ Begin(c)
  /\ LET s == Mailbox(user[c]) IN
     IF IsStr(Box[user[c]]) THEN UNCHANGED <<pc, delMsg, arg>>
     ELSE /\ pc' = [pc EXCEPT ![c] = "lrem"]
          /\ arg' = [arg EXCEPT ![c] = <<id, s>>]
          /\ \E msg \in IF FirstWith(s, id) # {} THEN FirstWith(s, id) ELSE {NoMail, delMsg[c]} :
               delMsg' = [delMsg EXCEPT ![c] = msg]
  /\ UNCHANGED <<db, mainVars, user, blurred>>

(* LREM 0: every mail that equals delMsg.                                  *)
WithoutNumber(s, msg) == SelectSeq(s, LAMBDA m : msg = NoMail \/ m.id # msg.id)  \* bug: numbers only
Without(s, msg) ==
  LET left[i \in 0 .. Len(s)] ==
        IF i = 0 THEN <<>>
        ELSE IF s[i] = msg THEN left[i - 1] ELSE Append(left[i - 1], s[i])
  IN  left[Len(s)]

Lrem(c) ==
  /\ pc[c] = "lrem"
  /\ LET k    == Box[user[c]]
         left == Without(Items(k), delMsg[c]) IN
     /\ db' = IF IsStr(k) THEN db ELSE [db EXCEPT ![k] = ListOrNone(left)]
     /\ blurred' = IF left # Items(k) THEN blurred \cup {user[c]} ELSE blurred
  /\ pc' = [pc EXCEPT ![c] = "ready"]
  /\ arg' = [arg EXCEPT ![c] = <<>>]
  /\ UNCHANGED <<mainVars, user, delMsg, nops>>

-----------------------------------------------------------------------------
Dialogue ==
  \/ \E c \in Client : Accept(c)
  \/ \E line \in Lines : TypeLine(line)
  \/ HangUp
  \/ Choose \/ ReadName \/ ReadPwd
  \/ RegisterGet \/ RegisterSet \/ RegisterPush
  \/ Check

Mail(c) ==
  \/ \E n \in Account, text \in Texts : Mailto(c, n, text)
  \/ Llen(c)
  \/ Push(c)
  \/ \E id \in 0 .. MaxOps : DelMail(c, id)
  \/ Lrem(c)

Next == Dialogue \/ \E c \in Client : Mail(c)

Spec == Init /\ [][Next]_vars

-----------------------------------------------------------------------------
MailSet  == [id : Nat, from : Account, text : Texts]
Password == Typed \cup {Accounts0[a] : a \in DOMAIN Accounts0}
Value(k) == [type : {"none"}] \cup [type : {"string"}, val : Password]
             \cup [type : {"list"}, val : Seq(IF k = user_list THEN Account ELSE MailSet)]

(* Every variable keeps its type.                                          *)
TypeOK ==
  /\ DOMAIN db = Key /\ \A k \in Key : db[k] \in Value(k)
  /\ mpc \in {"accept", "dead", "choice", "regName", "regPwd", "get", "set", "lpush",
              "name", "pwd", "check"}
  /\ cand \in Client \cup {NoClient}
  /\ mpc \notin {"accept", "dead"} => cand \in Client
  /\ name \in Typed /\ pwd \in Typed
  /\ inbox \in Seq(Lines)
  /\ hung \in BOOLEAN
  /\ user \in [Client -> Account \cup {"none"}]
  /\ pc \in [Client -> {"new", "login", "ready", "gone", "llen", "lpush", "lrem"}]
  /\ \A c \in Client : pc[c] \in {"ready", "llen", "lpush", "lrem"} => user[c] \in Account
  /\ \A c \in Client : pc[c] = "lpush" => arg[c] \in Account \X MailSet
  /\ delMsg \in [Client -> MailSet \cup {NoMail}]

(* A password, once set, stays.  Registration is a GET and then, if the   *)
(* name is free, a SET (login.c:52, 61), with the children's mail          *)
(* commands in between; the names typed may be mailboxes or user_list, and *)
(* read() may have left the name and the password empty.  No interleaving  *)
(* of them replaces an account that is there, and no LPUSH or LREM that    *)
(* meets an account under its key changes it.                              *)
PasswordsStay == [][\A k \in Key : IsStr(k) => db'[k] = db[k]]_vars

(* Every account is in user_list, unless main is between SET and LPUSH, or *)
(* was ended there by a client that hung up (login.c:68), or the account   *)
(* "user_list" has taken the list's place.                                 *)
Listed == {Items(user_list)[i] : i \in DOMAIN Items(user_list)}
AccountsListed ==
  \/ IsStr(user_list)
  \/ \A k \in Account :
       IsStr(k) => k \in Listed \cup unlisted \cup (IF mpc = "lpush" THEN {name} ELSE {})

(* A mailbox whose numbering nothing has disturbed (no deletion, no two    *)
(* senders between LLEN and LPUSH at once, no account under its key) is    *)
(* numbered from 0 without gaps, newest first (mailBox.c:88).              *)
Numbered ==
  \A n \in Account \ blurred :
    \A i \in DOMAIN Mailbox(n) : Mailbox(n)[i].id = Len(Mailbox(n)) - i

(* Mail goes away only when the owner deletes it, and a delMail takes      *)
(* nothing but copies of one mail; of the number that was asked for, if    *)
(* the mailbox had a mail of that number (mailBox.c:119).  The other way   *)
(* to lose mail is an account that is registered under the mailbox's key.  *)
Gone(k) == {Items(k)[i] : i \in DOMAIN Items(k)} \ {Items(k)'[i] : i \in DOMAIN Items(k)'}
MailKept ==
  [][\A n \in Account :
       Gone(Box[n]) # {} =>
         \/ IsStr(Box[n])'
         \/ /\ Cardinality(Gone(Box[n])) = 1
            /\ \E c \in Client :
                 /\ pc[c] = "lrem" /\ pc'[c] = "ready" /\ user[c] = n
                 /\ FirstWith(arg[c][2], arg[c][1]) # {} =>
                      \A m \in Gone(Box[n]) : m.id = arg[c][1]]_vars

=============================================================================
