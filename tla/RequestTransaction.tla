-------------------------- MODULE RequestTransaction --------------------------
(***************************************************************************)
(* A database session of one request: savepoints, the marks that tell      *)
(* finalize_session whether there is anything to commit, and the callbacks *)
(* that may run only once the writes they speak of are durable             *)
(* (src/framework/db/simple_module_db/: transaction.py, writes.py,         *)
(* callbacks.py).                                                          *)
(*                                                                         *)
(* What the database does with a write is in level and durable; what the   *)
(* session believes of it is in marks, untracked and queued.  Savepoints   *)
(* are numbered as they are opened, so the innermost is the highest.       *)
(***************************************************************************)
EXTENDS Integers

CONSTANTS
    Sessions,
    MaxWrites,      \* bound: writes of one request
    MaxSavepoints   \* bound: savepoints one request opens

ASSUME TransactionConstants == MaxWrites \in Nat /\ MaxSavepoints \in Nat

VARIABLE tx

Writes == 1..MaxWrites
Savepoints == 1..MaxSavepoints
Root == 0
Gone == -1      \* the level of a write not made, undone or durable

NoTx == [at |-> "idle", made |-> 0, opened |-> 0, open |-> {}, level |-> [x \in Writes |-> Gone],
         durable |-> {}, marks |-> {}, untracked |-> FALSE, queued |-> {},
         within |-> [x \in Writes |-> {}]]

Transactions ==
    [at : {"idle", "open", "calling"},
     made : 0..MaxWrites,                   \* writes so far
     opened : 0..MaxSavepoints,             \* savepoints so far
     open : SUBSET Savepoints,
     level : [Writes -> {Gone, Root} \cup Savepoints],
     durable : SUBSET Writes,
     marks : SUBSET ({Root} \cup Savepoints),   \* _WRITE_TRANSACTIONS_KEY
     untracked : BOOLEAN,                       \* _UNTRACKED_WRITES_KEY
     queued : SUBSET Writes,                    \* _CALLBACKS_KEY: the callback of each write
     within : [Writes -> SUBSET Savepoints]]    \* its open_savepoints

TxInit == tx = [t \in Sessions |-> NoTx]

Live(t) == {x \in Writes : tx[t].level[x] # Gone}
HasPending(t) == tx[t].marks # {} \/ tx[t].untracked

Innermost(S) == IF S = {} THEN Root ELSE CHOOSE s \in S : \A r \in S : r <= s
Inner(t) == Innermost(tx[t].open)
Outer(t) == Innermost(tx[t].open \ {Inner(t)})
-----------------------------------------------------------------------------
Begin(t) ==
    /\ tx[t].at = "idle"
    /\ tx' = [tx EXCEPT ![t].at = "open"]

(* A flush marks the innermost transaction; the service then queues the    *)
(* callback of the change.                                                 *)
Write(t) ==
    /\ tx[t].at = "open" /\ tx[t].made < MaxWrites
    /\ tx' = [tx EXCEPT ![t].made = @ + 1,
                        ![t].level[tx[t].made + 1] = Inner(t),
                        ![t].marks = @ \cup {Inner(t)},
                        ![t].queued = @ \cup {tx[t].made + 1},
                        ![t].within[tx[t].made + 1] = tx[t].open]

OpenSavepoint(t) ==
    /\ tx[t].at = "open" /\ tx[t].opened < MaxSavepoints
    /\ tx' = [tx EXCEPT ![t].opened = @ + 1, ![t].open = @ \cup {tx[t].opened + 1}]

(* RELEASE SAVEPOINT: its writes and its mark become the parent's.         *)
Release(t) ==
    /\ tx[t].at = "open" /\ tx[t].open # {}
    /\ tx' = [tx EXCEPT
                ![t].open = @ \ {Inner(t)},
                ![t].level = [x \in Writes |-> IF @[x] = Inner(t) THEN Outer(t) ELSE @[x]],
                ![t].marks = IF Inner(t) \in @ THEN (@ \ {Inner(t)}) \cup {Outer(t)} ELSE @]

(* Mutant of Inside: a callback belongs to the savepoint it was queued in  *)
(* and to no other.                                                        *)
Queued(t, x) == Inner(t) = Innermost(tx[t].within[x])

Inside(t, x) == Inner(t) \in tx[t].within[x]

(* ROLLBACK TO SAVEPOINT: its writes, its mark and every callback queued   *)
(* inside it, in a savepoint released since or not, are gone.              *)
RollbackTo(t) ==
    /\ tx[t].at = "open" /\ tx[t].open # {}
    /\ tx' = [tx EXCEPT
                ![t].open = @ \ {Inner(t)},
                ![t].level = [x \in Writes |-> IF @[x] = Inner(t) THEN Gone ELSE @[x]],
                ![t].marks = @ \ {Inner(t)},
                ![t].queued = {x \in @ : ~Inside(t, x)},
                ![t].within = [x \in Writes |-> IF Inside(t, x) THEN {} ELSE @[x]]]

(* What a COMMIT makes durable.  No savepoint is left whose rollback could *)
(* reach a callback.                                                       *)
Landed(t) ==
    [tx[t] EXCEPT !.durable = @ \cup Live(t), !.level = NoTx.level, !.within = NoTx.within]

(* A commit in the middle of the request, by a library that shares the     *)
(* session: the writes are durable, the callbacks wait for finalization.   *)
CommitInside(t) ==
    /\ tx[t].at = "open" /\ tx[t].open = {} /\ Live(t) # {}
    /\ tx' = [tx EXCEPT ![t] = [Landed(t) EXCEPT !.marks = {}, !.untracked = TRUE]]

(* finalize_session with something pending: committed, settled, and on to  *)
(* the callbacks.                                                          *)
Commit(t) ==
    /\ tx[t].at = "open" /\ tx[t].open = {} /\ HasPending(t)
    /\ tx' = [tx EXCEPT ![t] = [NoTx EXCEPT !.at = "calling", !.durable = Landed(t).durable,
                                           !.queued = tx[t].queued]]

(* Nothing pending, or the request or its commit failed: callbacks are     *)
(* discarded and the session is rolled back.                               *)
Discard(t) ==
    /\ tx[t].at = "open"
    /\ tx' = [tx EXCEPT ![t] = NoTx]

(* run_on_commit_callbacks takes them in the order they were queued ...    *)
TakeCallback(t) ==
    /\ tx[t].at = "calling" /\ tx[t].queued # {}
    /\ tx' = [tx EXCEPT ![t].queued = {x \in @ : \E y \in @ : y < x}]

(* ... and the response goes out when all have run.                        *)
Finished(t) ==
    /\ tx[t].at = "calling" /\ tx[t].queued = {}
    /\ tx' = [tx EXCEPT ![t] = NoTx]
-----------------------------------------------------------------------------
(* Of an open transaction, the session knows exactly what the database     *)
(* will keep: it has a mark for every transaction that holds writes, and a *)
(* callback for a write if and only if the write has not been undone.      *)
WritesTracked ==
    \A t \in Sessions : tx[t].at = "open" =>
        /\ {tx[t].level[x] : x \in Live(t)} = tx[t].marks
        /\ tx[t].queued = Live(t) \cup tx[t].durable
        /\ tx[t].durable # {} => HasPending(t)
=============================================================================
