--------------------------- MODULE MCSessionChain ---------------------------
(* Instances of SessionChain for TLC.                                      *)
EXTENDS SessionChain, TLC

CONSTANTS s1, s2, t1, t2, c1, c2

OneCallerPerStore == (t1 :> s1) @@ (t2 :> s2)
TwoCallersOfOneStore == (t1 :> s1) @@ (t2 :> s1)
=============================================================================
