----------------------------- MODULE MCDbLease -----------------------------
(* DbLease on small instances. *)
EXTENDS DbLease, TLC

CONSTANTS h1, h2, h3

\* Handles that are all slow may be renamed: no property names one.
Renamings == Permutations(Handles)
=============================================================================
