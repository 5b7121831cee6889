----------------------------- MODULE MCAccess -----------------------------
(* Instances of Access for TLC: a bucket of one and a half writes and one  *)
(* of two reads per agent, the writes refilled by half a token per tick.   *)
EXTENDS Access, TLC

CONSTANTS a1, a2, n1, server, other, none

AgentKeys == Agents \X {"write", "read"}
Capacities == [k \in AgentKeys |-> IF k[2] = "write" THEN 3 ELSE 4]
Rates == [k \in AgentKeys |-> IF k[2] = "write" THEN 1 ELSE 3]
=============================================================================
