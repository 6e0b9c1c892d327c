---------------------------- MODULE RedisCalls ----------------------------
(***************************************************************************)
(* What the callers of redisCommand() in homework3 take for granted: the   *)
(* call returns, and what it returns is Redis's reply to this command.     *)
(***************************************************************************)
EXTENDS Naturals

CONSTANTS Proc, None, MaxCalls

VARIABLES
  asked,    \* the command a process waits for, None between calls
  answered  \* the command that the last reply a process got belongs to

callVars == <<asked, answered>>

Init ==
  /\ asked = [p \in Proc |-> None]
  /\ answered = [p \in Proc |-> None]

Call(p, cmd) ==
  /\ asked[p] = None
  /\ asked' = [asked EXCEPT ![p] = cmd]
  /\ UNCHANGED answered

Return(p) ==
  /\ asked[p] # None
  /\ answered' = [answered EXCEPT ![p] = asked[p]]
  /\ asked' = [asked EXCEPT ![p] = None]

Next == \E p \in Proc : Return(p) \/ \E cmd \in {p} \X (0 .. MaxCalls) : Call(p, cmd)

Spec == Init /\ [][Next]_callVars

=============================================================================
