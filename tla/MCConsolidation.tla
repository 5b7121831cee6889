-------------------------- MODULE MCConsolidation --------------------------
(* Instances of Consolidation for TLC: two entries mention an entity and a *)
(* third, which supersedes the first naturally, is about to be extracted.  *)
EXTENDS Consolidation, TLC

CONSTANTS e1, e2, e3, s1, x1, k1, k2, k3, w1, c1, c2, none

AlreadyLinked == {<<x1, e>> : e \in Entries \ {e3}}
Names == [x \in Ents |-> "a"]
Ages == [e \in Entries \cup Summaries |->
           CASE e = e1 -> 1 [] e = e2 -> 2 [] e = e3 -> 3 [] e = s1 -> 4]
Owners == (k1 :> "p") @@ (k2 :> "q") @@ (k3 :> "q")
Verdicts == (c1 :> "deberta") @@ (c2 :> "llm")
NaturalPairs == {{e1, e3}}
=============================================================================
