-------------------------- MODULE MCRenewalOutcomes --------------------------
(* A small instance of RenewalOutcomes for TLC.                            *)
EXTENDS RenewalOutcomes, TLC

CONSTANTS q1, q2, q3

RequestSymmetry == Permutations(Requests)
=============================================================================
