-------------------------- MODULE DurableDelivery --------------------------
(***************************************************************************)
(* What the durable event outbox promises a publisher, without workers,    *)
(* claims, leases or hand-offs.                                            *)
(*                                                                         *)
(* A message is one event on its way to one durable handler.  It exists    *)
(* from the commit of its publisher, stays open while it is being tried,   *)
(* and ends delivered, dead (out of attempts or refused) or discarded.     *)
(* The handler's database effects commit in the very step that makes the   *)
(* message delivered, together with the messages the handler published.    *)
(*                                                                         *)
(* Abstracts src/modules/background_tasks/background_tasks/outbox/.        *)
(***************************************************************************)
EXTENDS Naturals

CONSTANTS
    Rows,       \* the messages that may ever be published
    Requests,   \* the sets of messages that one request transaction publishes
    Emits       \* Emits[r]: the messages the handler of r publishes itself

VARIABLES
    stage,      \* where each message is in its life
    effects     \* how often the effects of its handler were committed

vars == <<stage, effects>>

Stages == {"none", "open", "delivered", "dead", "discarded"}

Init ==
    /\ stage = [r \in Rows |-> "none"]
    /\ effects = [r \in Rows |-> 0]

(* A publisher commits: the event goes to all of its handlers or to none.  *)
Publish(b) ==
    /\ \A r \in b : stage[r] = "none"
    /\ stage' = [r \in Rows |-> IF r \in b THEN "open" ELSE stage[r]]
    /\ UNCHANGED effects

(* The handler's effects, the mark and what the handler published land     *)
(* together.                                                               *)
Deliver(r) ==
    /\ stage[r] = "open"
    /\ \A c \in Emits[r] : stage[c] = "none"
    /\ stage' = [q \in Rows |-> IF q = r THEN "delivered"
                                ELSE IF q \in Emits[r] THEN "open"
                                ELSE stage[q]]
    /\ effects' = [effects EXCEPT ![r] = @ + 1]

(* One step may give up on several messages: a reclaim does.               *)
GiveUp(S) ==
    /\ S # {}
    /\ \A r \in S : stage[r] = "open"
    /\ stage' = [r \in Rows |-> IF r \in S THEN "dead" ELSE stage[r]]
    /\ UNCHANGED effects

Retry(r) ==
    /\ stage[r] = "dead"
    /\ stage' = [stage EXCEPT ![r] = "open"]
    /\ UNCHANGED effects

Discard(r) ==
    /\ stage[r] \in {"open", "dead"}
    /\ stage' = [stage EXCEPT ![r] = "discarded"]
    /\ UNCHANGED effects

Next ==
    \/ \E b \in Requests : Publish(b)
    \/ \E r \in Rows : Deliver(r) \/ Retry(r) \/ Discard(r)
    \/ \E S \in SUBSET Rows : GiveUp(S)

Spec == Init /\ [][Next]_vars
=============================================================================
