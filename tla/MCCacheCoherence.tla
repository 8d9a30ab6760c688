--------------------------- MODULE MCCacheCoherence ---------------------------
(* A small instance of CacheCoherence for TLC.                             *)
EXTENDS CacheCoherence

CONSTANTS w1, w2, q1, r1, r2, r3

(* The writer shares w1 with one reader; the others are on w2.             *)
Placed == [p \in Readers \cup Sessions |-> IF p \in {q1, r1} THEN w1 ELSE w2]

(* Savepoints are nested where no cache multiplies the states: they decide *)
(* which callbacks run, not what a callback does.                          *)
Writing == [k \in Kinds |-> IF k = "uncached" THEN MaxWrites ELSE IF k = "roles" THEN 2 ELSE 1]
Nesting == [k \in Kinds |-> IF k = "uncached" THEN MaxSavepoints ELSE 0]
(* Two fills for one lock, and one on the writer's own worker without.     *)
Served == [k \in Kinds |-> CASE k = "memberships" -> {r2, r3}
                            [] k = "hosts" -> {r1, r2}
                            [] OTHER -> {}]
=============================================================================
