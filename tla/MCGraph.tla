------------------------------ MODULE MCGraph ------------------------------
(* Instances of Graph for TLC: two entities of one name and a third.       *)
EXTENDS Graph

CONSTANTS e1, e2, x1, x2, x3, w1, w2, none

Opened == {<<x1, e1>>, <<x1, e2>>}
Names == [x \in Ents |-> IF x \in {x1, x2} THEN "a" ELSE "b"]
=============================================================================
