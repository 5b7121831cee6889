------------------------------ MODULE MCRecall ------------------------------
(* Instances of Recall and SeenStore for TLC.                              *)
EXTENDS Recall

CONSTANTS a, b, h1, h2, d1, d2, none
=============================================================================
