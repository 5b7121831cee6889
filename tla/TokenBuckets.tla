---------------------------- MODULE TokenBuckets ----------------------------
(***************************************************************************)
(* What a rate limit promises: an ideal bucket per key, refilled at every  *)
(* tick and never forgotten.  A call is granted exactly when its bucket    *)
(* holds a token.                                                          *)
(***************************************************************************)
EXTENDS Naturals

CONSTANTS Keys, Capacity, Rate, Unit

VARIABLES level, verdict

Filled(n, c) == IF n <= c THEN n ELSE c

Init ==
  /\ level = [k \in Keys |-> Capacity[k]]
  /\ verdict = "none"

Tick ==
  /\ level' = [k \in Keys |-> Filled(level[k] + Rate[k], Capacity[k])]
  /\ verdict' = "none"

Grant(k) ==
  /\ level[k] >= Unit
  /\ level' = [level EXCEPT ![k] = @ - Unit]
  /\ verdict' = "granted"

Refuse(k) ==
  /\ level[k] < Unit
  /\ verdict' = "refused"
  /\ UNCHANGED level

Next ==
  \/ Tick
  \/ \E k \in Keys : Grant(k) \/ Refuse(k)
  \/ verdict' = "none" /\ UNCHANGED level   (* a call without a limit      *)

Spec == Init /\ [][Next]_<<level, verdict>>

=============================================================================
