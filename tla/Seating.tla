------------------------------ MODULE Seating ------------------------------
(***************************************************************************)
(* What the client table of homework3's main.c promises: a client that     *)
(* logs in is given the lowest user number nobody has, no client is seated *)
(* twice, and a number is freed only once the session that had it is over. *)
(***************************************************************************)
EXTENDS Integers

CONSTANTS Client, NoClient, MaxClient

VARIABLES
  seat,    \* who has each user number
  seated,  \* the clients that have had one
  over     \* the clients whose session is over

seatVars == <<seat, seated, over>>

Numbers == 0 .. MaxClient - 1

Init ==
  /\ seat = [i \in Numbers |-> NoClient]
  /\ seated = {}
  /\ over = {}

Seat(c, i) ==
  /\ c \notin seated
  /\ seat[i] = NoClient
  /\ \A j \in Numbers : seat[j] = NoClient => i <= j
  /\ seat' = [seat EXCEPT ![i] = c]
  /\ seated' = seated \cup {c}
  /\ UNCHANGED over

End(c) ==
  /\ c \notin over
  /\ over' = over \cup {c}
  /\ UNCHANGED <<seat, seated>>

Vacate(i) ==
  /\ seat[i] \in over
  /\ seat' = [seat EXCEPT ![i] = NoClient]
  /\ UNCHANGED <<seated, over>>

Next ==
  \/ \E c \in Client, i \in Numbers : Seat(c, i)
  \/ \E c \in Client : End(c)
  \/ \E i \in Numbers : Vacate(i)

Spec == Init /\ [][Next]_seatVars

=============================================================================
