------------------------------ MODULE MCChain -------------------------------
(* Small instances of Chain.  Feeds and links of one place make every      *)
(* hand-over block, so that a read loop can be waiting when the connection *)
(* ends.  Three scenarios: everything that may end a connection before its *)
(* time on an unbroken session; resets and drain timers; a session that    *)
(* breaks, with feeds that hold all that is sent, since a request that is  *)
(* given up leaves a full feed to block the read loop for ever.            *)
EXTENDS Chain

Up(m, n) == [x \in Sides |-> IF x = "a" THEN m ELSE n]

Abrupt == [events |-> {"eof", "reset", "dialFail", "refuse", "timeout"},
           maxSend |-> Up(3, 1), feedCap |-> 1]
Endings == [events |-> {"reset", "drain"}, maxSend |-> Up(0, 2), feedCap |-> 1]
Drops == [events |-> {"eof", "drain", "drop"}, maxSend |-> Up(0, 1), feedCap |-> 2]

ThreeScenarios == {Abrupt, Endings, Drops}
=============================================================================
