------------------------------ MODULE AgentLog ------------------------------
(***************************************************************************)
(* What the signed session chain promises, without threads, counters or    *)
(* hashes: each session owns a log whose positions are filled in order,    *)
(* one at a time, only while the session is live, and never rewritten.     *)
(***************************************************************************)
EXTENDS Naturals

CONSTANTS Sessions, Contents

VARIABLES
  log,    (* triples <<session, position, content>>                        *)
  live    (* sessions whose private key some process still holds           *)

Filled(k, n) == \E p \in log : p[1] = k /\ p[2] = n

Init == log = {} /\ live \in SUBSET Sessions

(* The next free position of a live session.                               *)
Append(k, n, c) ==
  /\ k \in live
  /\ n = 1 \/ \E p \in log : p[1] = k /\ p[2] + 1 = n
  /\ ~Filled(k, n)
  /\ log' = log \cup {<<k, n, c>>}
  /\ UNCHANGED live

(* A process restarts: its session ends and an unused one begins.          *)
Replace(old, new) ==
  /\ old \in live
  /\ new \in Sessions \ live
  /\ \A p \in log : p[1] # new
  /\ live' = (live \ {old}) \cup {new}
  /\ UNCHANGED log

Next ==
  \/ \E k \in Sessions, c \in Contents : \E n \in {1} \cup {p[2] + 1 : p \in log} :
       Append(k, n, c)
  \/ \E old, new \in Sessions : Replace(old, new)

Spec == Init /\ [][Next]_<<log, live>>

=============================================================================
