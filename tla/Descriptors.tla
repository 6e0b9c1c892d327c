---------------------------- MODULE Descriptors ----------------------------
(***************************************************************************)
(* The file descriptors of homework3's main process: which numbers the     *)
(* arrays s_fifofd and c_fifofd of src/main.c hold, which of them are open *)
(* and which are in all_fds, as clients come and go.  The kernel gives out *)
(* the lowest free number.                                                 *)
(*                                                                         *)
(* An unused slot has c_fifofd[i] = -1, and the scan of the select loop    *)
(* evaluates FD_ISSET(-1, &read_fds) for it.  As compiled for x86-64 that  *)
(* tests bit 63 of read_fds: the shift by -1 % 64 is taken modulo 64.      *)
(***************************************************************************)
EXTENDS Integers, FiniteSets

CONSTANTS
  MaxClient, \* MAX_CLIENT
  First,     \* the lowest descriptor that is free once main listens
  Limit,     \* the number of descriptors a process may have (RLIMIT_NOFILE)
  AliasBit   \* the descriptor whose bit FD_ISSET(-1, ...) tests: 63

ASSUME DescriptorsAssumption ==
  /\ MaxClient \in Nat \ {0}
  /\ First \in Nat /\ Limit \in Nat /\ AliasBit \in Nat

Slots == 0 .. MaxClient - 1

VARIABLES
  state,    \* "up", "dead" (main has exited) or "stuck" (in login() for ever)
  used,     \* the slots with list[i].user_id # -1
  s_fifofd,
  c_fifofd,
  all_fds,  \* the descriptors select() watches, the listening socket aside
  open,     \* the open descriptors from First on
  most,     \* history: the most clients that were seated at once
  hangups   \* history: how many departures main saw as an end of file

vars == <<state, used, s_fifofd, c_fifofd, all_fds, open, most, hangups>>

Init ==
  /\ state = "up" /\ used = {} /\ all_fds = {} /\ open = {}
  /\ most = 0 /\ hangups = 0
  /\ s_fifofd = [i \in Slots |-> -1] /\ c_fifofd = [i \in Slots |-> -1]

Numbers == First .. Limit - 1

(* The descriptor the kernel gives out next: none when all are taken.      *)
Lowest(busy) == LET free == Numbers \ busy IN {f \in free : \A g \in free : f <= g}

Larger(m, n) == IF m >= n THEN m ELSE n

(* A client is seated in the lowest slot: accept() gives k, the open()s of *)
(* the two FIFOs give s and c, and close(connectfd) gives k back.  What    *)
(* s_fifofd[i] held before is overwritten.                                 *)
Seat(i) ==
  /\ state = "up"
  /\ i \notin used /\ \A j \in Slots \ used : i <= j
  /\ \E k \in Lowest(open) : \E s \in Lowest(open \cup {k}) :
       \E c \in Lowest(open \cup {k, s}) :
         /\ s_fifofd' = [s_fifofd EXCEPT ![i] = s]
         /\ c_fifofd' = [c_fifofd EXCEPT ![i] = c]
         /\ all_fds' = all_fds \cup {c}
         /\ open' = open \cup {s, c}
  /\ used' = used \cup {i}
  /\ most' = Larger(most, Cardinality(used'))
  /\ UNCHANGED <<state, hangups>>

(* At the limit accept() fails and login(-1) never returns, or an open()   *)
(* fails and main exits.                                                   *)
Exhausted ==
  /\ state = "up" /\ used # Slots
  /\ Cardinality(Numbers \ open) < 3
  /\ state' = IF Numbers \subseteq open THEN "stuck" ELSE "dead"
  /\ UNCHANGED <<used, s_fifofd, c_fifofd, all_fds, open, most, hangups>>

(* The scan after select() has found the pipe of slot i readable.  Every   *)
(* unused slot tests bit AliasBit as well, and if that is the pipe of slot *)
(* i, main reads from descriptor -1 and exits (main.c:149).                *)
ReadsMinusOne(i) == c_fifofd[i] = AliasBit /\ \E j \in Slots : c_fifofd[j] = -1
Scan(i) ==
  /\ state = "up"
  /\ c_fifofd[i] \in all_fds
  /\ state' = IF ReadsMinusOne(i) THEN "dead" ELSE "up"

(* A command other than "quit" leaves the descriptors alone.               *)
Serve(i) ==
  /\ Scan(i)
  /\ UNCHANGED <<used, s_fifofd, c_fifofd, all_fds, open, most, hangups>>

(* read() returns 0, the child has gone without "quit": s_fifofd[i] stays  *)
(* open and stays in the array.                                            *)
ClosedAtEofBoth(i) == {c_fifofd[i], s_fifofd[i]}
ClosedAtEof(i) == {c_fifofd[i]}
ServeEof(i) ==
  /\ Scan(i)
  /\ open' = open \ ClosedAtEof(i)
  /\ all_fds' = all_fds \ {c_fifofd[i]}
  /\ c_fifofd' = [c_fifofd EXCEPT ![i] = -1]
  /\ used' = used \ {i}
  /\ hangups' = hangups + 1
  /\ UNCHANGED <<s_fifofd, most>>

(* "quit": both ends are closed and both entries are cleared.              *)
ClosedAtQuitOne(i) == {c_fifofd[i]}
ClosedAtQuit(i) == {c_fifofd[i], s_fifofd[i]}
ServeQuit(i) ==
  /\ Scan(i)
  /\ all_fds' = all_fds \ {c_fifofd[i]}
  /\ open' = open \ ClosedAtQuit(i)
  /\ c_fifofd' = [c_fifofd EXCEPT ![i] = -1]
  /\ s_fifofd' = [s_fifofd EXCEPT ![i] = -1]
  /\ used' = used \ {i}
  /\ UNCHANGED <<most, hangups>>

Next ==
  \/ \E i \in Slots : Seat(i)
  \/ Exhausted
  \/ \E i \in Slots : Serve(i) \/ ServeEof(i) \/ ServeQuit(i)

Spec == Init /\ [][Next]_vars

-----------------------------------------------------------------------------
(* Every variable keeps its type: in particular every entry of the arrays  *)
(* is -1 or a descriptor the kernel gave out.                              *)
TypeOK ==
  /\ state \in {"up", "dead", "stuck"}
  /\ used \subseteq Slots
  /\ s_fifofd \in [Slots -> Numbers \cup {-1}]
  /\ c_fifofd \in [Slots -> Numbers \cup {-1}]
  /\ all_fds \subseteq Numbers
  /\ open \subseteq Numbers
  /\ most \in Nat /\ hangups \in Nat

(* No descriptor is used after its number has been given to another file:  *)
(* what the arrays hold is open, the stale s_fifofd[i] that the EOF path   *)
(* leaves behind included, and no two entries are the same; and select()   *)
(* watches the pipes of the seated clients, all of them and no other.      *)
HeldOpen ==
  \A i \in Slots : s_fifofd[i] \in open \cup {-1} /\ c_fifofd[i] \in open \cup {-1}
HeldOnce ==
  \A i, j \in Slots :
    /\ s_fifofd[i] # -1 => s_fifofd[i] # c_fifofd[j]
    /\ s_fifofd[i] # -1 /\ s_fifofd[i] = s_fifofd[j] => i = j
    /\ c_fifofd[i] # -1 /\ c_fifofd[i] = c_fifofd[j] => i = j
Watched ==
  /\ all_fds = {c_fifofd[i] : i \in used}
  /\ \A i \in Slots : i \in used <=> c_fifofd[i] # -1
  /\ \A i \in used : s_fifofd[i] # -1
NoAliasing == HeldOpen /\ HeldOnce /\ Watched

(* What is open is two descriptors for each seated client and one for each *)
(* departure that came without "quit": nothing else is lost, and these are *)
(* lost for good.                                                          *)
Accounted == Cardinality(open) = 2 * Cardinality(used) + hangups

(* Descriptors are as low as they can be, so main dies of FD_ISSET(-1) or  *)
(* of the limit only once that many clients have been seated at once or    *)
(* have gone without "quit" (main.c:144, main.c:149, main.c:153).          *)
Reach == First + 2 * most + hangups
DiesLate ==
  /\ \A f \in open : f <= Reach
  /\ state = "dead" => AliasBit <= Reach \/ Limit <= Reach + 2

=============================================================================
