----------------------------- MODULE SessionsV2 -----------------------------
(***************************************************************************)
(* The chat server of homework2_V2, the predecessor of homework3: the same *)
(* table, pipes and exchanges as in Sessions, with these differences in    *)
(* its main.c and strProcess.c.  There is no login, every client begins as *)
(* "no_name"; there is no gyell; set_signal_action() is commented out, so  *)
(* that main is never interrupted and an ended child stays a zombie, until *)
(* fork() fails.  That is not checked: main then opens the pipes of a      *)
(* child that does not exist.                                              *)
(***************************************************************************)
EXTENDS SessionsProperties

no_name == <<<<"name", "no_name">>>>

(* What this server has constant that Sessions leaves open.                *)
SessionsV2Assumption ==
  /\ "no_name" \in Names
  /\ ~Handler

(* select() and accept(), addClient(), the two mkfifo() and fork().        *)
(* getMinC_ID() returns -1 when the table is full, as in LoginWhenFull; a  *)
(* client that fork() failed for stays where a client in login() would.    *)
Accept ==
  \E c \in Client :
    /\ mpc = "select" /\ pc[c] = "pending"
    /\ ready' = Readable
    /\ cand' = c
    /\ IF Free = {}
       THEN /\ mpc' = "undefined"
            /\ UNCHANGED <<cur, userId, userName, holder, slot, pc>>
       ELSE /\ mpc' = "openS"
            /\ LET i == getMinC_ID IN
               /\ cur' = i
               /\ userId' = [userId EXCEPT ![i] = i]
               /\ userName' = [userName EXCEPT ![i] = no_name]
               /\ holder' = [holder EXCEPT ![i] = c]
               /\ \/ slot' = [slot EXCEPT ![c] = i] /\ pc' = [pc EXCEPT ![c] = "opening"]
                  \/ pc' = [pc EXCEPT ![c] = "login"] /\ UNCHANGED slot
    /\ UNCHANGED <<mcmd, got, todo, intr, sfd, cfd, lost, sq, cq, snap, req, pend, nreq, mixed, bare>>

(* The parent's two open() calls.                                          *)
OpenFifos == OpenServerFifo \/ OpenClientFifo

(* No client waits to be accepted: the scan alone.                         *)
Scan == (\A c \in Client : pc[c] # "pending") /\ Select

(* One slot of the scan: end of file, or the first word of a command.      *)
ServeSlot(i) ==
  \/ ServeEof(i)
  \/ ServeWho(i)
  \/ \E k \in {"tell", "yell", "name"} : ServeCommand(i, k)
  \/ ServeQuit(i)
  \/ ServeUnknown(i)

(* The rest of tell, yell and name.                                        *)
ServeArguments == ReadArgument \/ FinishTell \/ FinishYell \/ FinishName

MainV2 ==
  \/ Accept
  \/ OpenFifos
  \/ Scan
  \/ \E i \in Slots : ServeSlot(i) \/ Deliver(i)
  \/ ServeArguments

(* The child's two open() calls (main.c) and its loop (strProcess.c).      *)
OpenEnds(c) == ChildOpenServerFifo(c) \/ ChildOpenClientFifo(c)

subServer(c) ==
  \/ SendArgument(c)
  \/ DieSending(c)
  \/ ReadReply(c)
  \/ ReadMessages(c)
  \/ Leave(c)

TypeLine(c) ==
  \/ \E k \in Commands \cap CmdNames : \E args \in Args(k) : Request(c, k, args)
  \/ Shell(c)
  \/ ShellDone(c)
  \/ Quit(c)
  \/ Abrupt(c)

NextV2 ==
  \/ MainV2
  \/ \E c \in Client : Connect(c) \/ OpenEnds(c) \/ subServer(c) \/ TypeLine(c)

(* Main and the children keep running, as in Sessions.                     *)
SpecV2 == Init /\ [][NextV2]_vars
            /\ WF_vars(MainV2)
            /\ \A c \in Client : WF_vars(OpenEnds(c) \/ subServer(c))

-----------------------------------------------------------------------------
(* Two clients have one name only if it is the name they came with: main   *)
(* refuses a name that is taken (c_infoFunc.c:20), whatever stale or       *)
(* joined string it has read as the name.                                  *)
NamesDistinct ==
  MainUp => \A i, j \in Slots :
    i # j /\ userId[i] # -1 /\ userId[j] # -1 /\ userName[i] = userName[j]
      => userName[i] = no_name

(* A client that connects is accepted: with no login in between, nobody    *)
(* can keep main from it, unless a fork() has failed, or main is Stuck.    *)
Unforked == {c \in Client : pc[c] = "login"}

Accepted == \A c \in Client : pc[c] = "pending" ~> pc[c] # "pending" \/ Stuck \/ Unforked # {}

=============================================================================
