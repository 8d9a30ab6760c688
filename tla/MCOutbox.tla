------------------------------ MODULE MCOutbox ------------------------------
(* Small instances of Outbox for TLC.                                      *)
EXTENDS Outbox, TLC

CONSTANTS r1, r2, w1, w2

(* A request publishes r1, whose handler publishes r2.                     *)
ChainRequests == {{r1}}
ChainEmits == [r \in Rows |-> IF r = r1 THEN {r2} \cap Rows ELSE {}]

WorkerSymmetry == Permutations(Workers)
=============================================================================
