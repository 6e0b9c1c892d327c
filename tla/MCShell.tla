------------------------------ MODULE MCShell ------------------------------
(* A small instance of Shell for TLC.                                      *)
EXTENDS Shell

Part(s)   == [words |-> s, bare |-> Len(s) <= 1]
Spaced(s) == [words |-> s, bare |-> FALSE]

MCWrites == [ls |-> 1, big |-> 3, huge |-> 4, true |-> 0, cat |-> Echo, false |-> 0]
MCLines == {
  <<Part(<<"ls">>)>>, <<Part(<<"huge">>)>>,
  <<Part(<<"big">>), Part(<<"cat">>)>>,
  <<Part(<<"huge">>), Part(<<"cat">>)>>,
  <<Part(<<"bogus">>), Part(<<"cat">>)>>,
  <<Part(<<"big">>), Part(<<"bogus">>)>>,
  <<Part(<<"ls">>), Spaced(<<>>), Part(<<"false">>)>>,
  <<Part(<<"ls">>), Part(<<"cat">>), Part(<<"cat">>)>>,
  <<Part(<<"cat">>)>>,
  <<Part(<<"ls">>), Part(<<"1">>)>>, <<Part(<<"ls">>), Spaced(<<"1">>)>>,
  <<Part(<<"ls">>), Part(<<"cat">>), Part(<<"1">>)>>,
  <<Part(<<"ls">>), Part(<<>>)>>, <<Part(<<>>)>>, <<Part(<<"7">>)>>,
  <<Spaced(<<>>), Part(<<"ls">>)>>,
  <<Spaced(<<"quit">>)>>, <<Part(<<"cd", "x">>)>>,
  <<Part(<<"setenv">>)>>, <<Part(<<"setenv", "V">>)>>,
  <<Part(<<"setenv", "PATH", "x">>)>>, <<Part(<<"setenv", "V", "x">>)>>,
  <<Part(<<"printenv", "V">>)>> }

=============================================================================
