------------------------------- MODULE Lease -------------------------------
(***************************************************************************)
(* What a lease or a semaphore promises (core/leases.py): at most Slots    *)
(* tokens hold the name at a time, a hold ends by its own release or when  *)
(* its time runs out and never because of another token, and every         *)
(* acquisition is handed a larger fence number than the ones before it.    *)
(*                                                                         *)
(* until[t] is the instant at which the hold of token t ends, 0 when t has *)
(* no hold.  Which slot it sits in, the rows and their locks are left to   *)
(* the backends; DbLease is the one kept in a database.                    *)
(***************************************************************************)
EXTENDS Integers, FiniteSets

CONSTANTS Tokens, Slots, TTL

VARIABLES now, until, fence

vars == <<now, until, fence>>

Init == now = 0 /\ until = [t \in Tokens |-> 0] /\ fence = 0

Others(t) == {u \in Tokens \ {t} : until[u] # 0}

\* Only the hold of t changes.
Alone(t) == until' = [until EXCEPT ![t] = until'[t]]

\* The hold may last any time up to the TTL: a backend counts it from a clock
\* it read before the change took effect, and that may be too long ago.
Hold(t) ==
    /\ UNCHANGED now
    /\ Cardinality(Others(t)) < Slots
    /\ until'[t] \in {0} \cup (now + 1)..(now + TTL)
    /\ Alone(t)

Acquire(t) == fence' = fence + 1 /\ Hold(t)

Extend(t) == UNCHANGED fence /\ Hold(t)

Release(t) == until'[t] = 0 /\ Alone(t) /\ UNCHANGED <<now, fence>>

Tick ==
    /\ now' = now + 1
    /\ until' = [t \in Tokens |-> IF until[t] > now' THEN until[t] ELSE 0]
    /\ UNCHANGED fence

Next == Tick \/ \E t \in Tokens : Acquire(t) \/ Extend(t) \/ Release(t)

Spec == Init /\ [][Next]_vars
=============================================================================
