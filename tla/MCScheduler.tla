---------------------------- MODULE MCScheduler ----------------------------
EXTENDS Scheduler
MCWarm == <<"w1", "w2">>
MCReserve == <<"w3">>
MCProject == [j \in {"j1","j2","j3"} |-> IF j = "j3" THEN "webkit" ELSE "chrome"]
MCLocks == [j \in {"j1","j2","j3"} |-> IF j = "j1" THEN {} ELSE {"mail"}]
MCSeconds == [j \in {"j1","j2","j3"} |-> IF j = "j1" THEN 1 ELSE 2]
=============================================================================
