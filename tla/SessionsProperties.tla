------------------------- MODULE SessionsProperties -------------------------
(***************************************************************************)
(* The properties of Sessions: the client table and its descriptors, the   *)
(* exchanges between a child server and main, what main survives, and the  *)
(* abstract specification of the table.                                    *)
(***************************************************************************)
EXTENDS Sessions

(* The slot whose pipes main is in the middle of opening.                  *)
Opening(i) == mpc \in {"openS", "openC"} /\ cur = i

(* The three arrays that describe a slot agree: c_fifofd[i] is open        *)
(* exactly while list[i] is in use (but for the slot being opened), the    *)
(* slot then has a pipe to its client as well, and a user_id is the slot's *)
(* own index.  main.c updates the arrays in three places (accept, EOF,     *)
(* quit), and the EOF path leaves s_fifofd[i] alone.                       *)
TableInv ==
  MainUp =>
    \A i \in Slots :
      /\ userId[i] \in {-1, i}
      /\ Opening(i) => userId[i] = i
      /\ cfd[i] <=> userId[i] = i /\ ~Opening(i)
      /\ cfd[i] \/ (Opening(i) /\ mpc = "openC") => sfd[i]

(* The exchange of client c with main, as seen from both ends.             *)
AtMain(c) == mpc = "arg" /\ cur = slot[c] /\ mcmd = req[c]
NumSent(c) == Arity[req[c]] - Len(pend[c])

(* The child waits for an acknowledgement: either main has not yet read    *)
(* what the child sent last, or its acknowledgement is all that is in the  *)
(* pipe and main expects the argument that the child sends next.           *)
AwaitsAck(c) ==
  LET i == slot[c] IN
  \/ /\ sq[i] = <<>>
     /\ IF NumSent(c) = 0 THEN cq[i] = <<Cmd(req[c])>> /\ (mpc = "arg" => cur # i)
        ELSE Len(cq[i]) = 1 /\ AtMain(c) /\ Len(got) = NumSent(c) - 1
  \/ /\ sq[i] # <<>> /\ sq[i] = Ack(i)
     /\ cq[i] = <<>> /\ AtMain(c) /\ Len(got) = NumSent(c)

Answers(k) ==
  CASE k = "who" -> {"table"} [] k = "tell" -> {"accept"} [] k = "name" -> {"renamed", "exists"}
    [] OTHER -> {}

AwaitsReply(c) ==
  LET i == slot[c] IN
  \/ /\ sq[i] = <<>>
     /\ IF req[c] = "who" THEN cq[i] = <<Cmd("who")>>
        ELSE Len(cq[i]) = 1 /\ AtMain(c) /\ LastArg
  \/ /\ Len(sq[i]) = 2
     /\ \A n \in 1 .. 2 : sq[i][n].m \in Answers(req[c])
     /\ cq[i] = <<>>
     /\ mpc = "arg" => cur # i

(* The unframed pipes carry one message at a time: unless a stray write or *)
(* an interrupted read has met c's exchange, or c has left out an argument *)
(* (strProcess.c:74), whatever c waits for is what comes next, whatever    *)
(* main waits for is what c sends next, and they agree on the command and  *)
(* on how far it has got.                                                  *)
Astray == mixed \cup bare

Lockstep ==
  MainUp => \A c \in Client \ Astray :
              /\ pc[c] = "ack" => AwaitsAck(c)
              /\ pc[c] = "reply" => AwaitsReply(c)

(* Main's nested read of an argument blocks the whole server.  It waits on *)
(* a child that has nothing more to send for two reasons only: a stray     *)
(* write or an interrupted read has met that child's exchange, or its      *)
(* client has typed an empty argument, of which nothing is written.  Else  *)
(* the argument is there, or the child is gone (and the read returns), or  *)
(* it is about to send it.                                                 *)
NotStranded ==
  mpc = "arg" /\ holder[cur] \notin Astray =>
    \/ cq[cur] # <<>>
    \/ Writers(cur) = {}
    \/ \E c \in Writers(cur) : pc[c] = "ack" /\ sq[cur] # <<>>

(* Both ends of every exchange are in step.                                *)
InStep == Lockstep /\ NotStranded

(* What main wrote for one client is not left for the next one in the      *)
(* slot: quit closes s_fifofd (main.c:237), which empties the pipe.  After *)
(* an end without quit (main.c:144) the pipe stays open and what is in it  *)
(* stays too, until the slot is given a new pipe end.  A stray write may   *)
(* have swallowed the word.                                                *)
LeftOpen(i) == lost[i] \/ (sfd[i] /\ ~cfd[i] /\ ~(Opening(i) /\ mpc = "openC"))
OwnMessagesOnly ==
  MainUp => \A i \in Slots :
    LeftOpen(i) \/ \A n \in 1 .. Len(sq[i]) : sq[i][n].to \in {holder[i]} \cup mixed

(* Main does not end while every session is intact: a SIGPIPE or an        *)
(* interrupted open() needs a child or a client that has gone.             *)
DiesOnlyAfterDeparture == mpc = "dead" => \E c \in Client : pc[c] = "gone"

(* Commands that are answered to their own client only (who, name) never   *)
(* disturb another exchange, whenever the clients leave.  They bring main  *)
(* down, if SIGCHLD is left alone, in one case only: `name` without its    *)
(* argument, on which the child dies in strlen(NULL), so that main reads   *)
(* nothing and answers into a pipe nobody reads (homework2_V2              *)
(* strProcess.c:96, main.c:189 and 193).                                   *)
Bereft == \E c \in Client : c \in bare /\ pc[c] = "gone"
Undisturbed == (MainUp => mixed = {}) /\ (mpc = "dead" => Bereft)

(* At most one child server is at work on the pipes of a slot.             *)
OneChildPerSlot ==
  MainUp => \A i \in Slots :
    \A c, d \in {e \in Readers(i) : pc[e] # "leaving"} : c = d

(* Who sits where: the slot of a child at work is in use and is its own,   *)
(* main is still opening a slot's pipes while its child is, and "quit"     *)
(* alone in a slot's pipe means that the slot's last child has ended.      *)
Started == {"opening"} \cup Attached

ChildSeats ==
  MainUp =>
    /\ \A c \in Client :
         /\ pc[c] \in Started => userId[slot[c]] = slot[c] /\ holder[slot[c]] = c
         /\ pc[c] = "opening" => mpc = "openS" /\ cur = slot[c]
         /\ pc[c] = "openingW" => Opening(slot[c])
         /\ pc[c] \in {"new", "pending", "login"} => slot[c] = -1
    /\ mpc = "login" => pc[cand] = "login"
    /\ \A i \in Slots :
         /\ cq[i] = <<Cmd("quit")>> => holder[i] \in Client /\ pc[holder[i]] = "gone"
         /\ cq[i] # <<>> => cfd[i]

(* A slot in use was given to a client, whose child has been started.      *)
HolderSeats ==
  MainUp =>
    \A i \in Slots :
      userId[i] = i => /\ holder[i] \in Client
                       /\ slot[holder[i]] = i
                       /\ pc[holder[i]] \in Started \cup {"gone"}

SeatInv == ChildSeats /\ HolderSeats

(* The client table implements Seating.                                    *)
SeatOf == [i \in Slots |-> IF userId[i] = -1 THEN NoClient ELSE holder[i]]
Seated == {c \in Client : slot[c] # -1}
Over   == {c \in Client : pc[c] \in {"leaving", "gone"}}

Seats == INSTANCE Seating WITH seat <- SeatOf, seated <- Seated, over <- Over

SeatsSpec == Seats!Spec

(* A client that waits for main gets on: its exchange ends, unless main is *)
(* in login() or gone, a stray write or an interrupted read has met an     *)
(* exchange, main waits for an argument that a client has left empty, and  *)
(* all others with it, or it is stuck in the write to a client whose shell *)
(* command is running.                                                     *)
Waiting(c) == pc[c] \in {"opening", "openingW", "ack", "reply"}
Stuck ==
  \/ mpc \in {"login", "dead", "undefined"}
  \/ mixed # {}
  \/ mpc = "arg" /\ holder[cur] \in bare
  \/ mpc = "deliver" /\ \E c \in Client : pc[c] = "busy" /\ slot[c] \in todo

Answered == \A c \in Client : Waiting(c) ~> ~Waiting(c) \/ Stuck

=============================================================================
