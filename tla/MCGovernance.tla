---------------------------- MODULE MCGovernance ----------------------------
(* Instances of Governance for TLC.                                        *)
EXTENDS Governance, TLC

CONSTANTS o1, o2, k1, d1

OperatorSymmetry == Permutations({o1, o2})
=============================================================================
