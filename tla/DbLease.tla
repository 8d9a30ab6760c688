------------------------------ MODULE DbLease ------------------------------
(***************************************************************************)
(* One lease or semaphore name in the sm_lease table on Postgres           *)
(* (framework/db leases.py), used by several handles at once.              *)
(*                                                                         *)
(* Each handle (core/leases.py Lease) has its own token and makes one call *)
(* at a time; a call is one transaction at READ COMMITTED.  What a         *)
(* transaction has written is seen by nobody before it commits, and a row  *)
(* it locked stays locked until it ends, so the columns below are the      *)
(* committed ones and Commit applies the write of the call at once.  A     *)
(* missing row behaves like the expired placeholder that _take_slot        *)
(* inserts: an insert of the same key waits for the first one as a row     *)
(* lock would.  All rows are therefore there from the start, never held.   *)
(*                                                                         *)
(* Time is the database clock, read by a step of its own; Tick moves it.   *)
(***************************************************************************)
EXTENDS Integers, FiniteSets

CONSTANTS
    Handles,    \* the Lease objects that use the name, in any process
    Slots,      \* the slots of the semaphore; 1 for a lease
    Semaphore,  \* TRUE for a semaphore, FALSE for a lease
    TTL,
    Slow,       \* the handles whose calls may stall at any statement
    Nobody,     \* the owner of a free row
    MaxTime,    \* bound: the clock stops here
    MaxCalls    \* bound: the calls all the handles make

ASSUME LeaseAssumption ==
    /\ Slots \in Nat \ {0}
    /\ Semaphore \in BOOLEAN
    /\ ~Semaphore => Slots = 1
    /\ TTL \in Nat \ {0}
    /\ Slow \subseteq Handles
    /\ Nobody \notin Handles
    /\ MaxTime \in Nat
    /\ MaxCalls \in Nat

VARIABLES
    now,     \* the database clock
    holder,  \* column holder of each slot: a token, kept after the hold ends
    ends,    \* column expires_at of each slot
    fence,   \* the name's fence: of slot 0 for a lease, of slot -1 for a semaphore
    lock,    \* the transaction that holds the lock of each row
    op,      \* what the handle's call does
    at,      \* the statement the call has come to
    todo,    \* the slots the call has still to lock
    rows,    \* the locked slots that its UPDATE is about
    number,  \* the fence number that the call is to write
    clock,   \* the time the call read last
    sent,    \* the time the call began
    sure,    \* the handle counts on its hold until then; 0 when it does not
    calls    \* calls made so far

vars == <<now, holder, ends, fence, lock, op, at, todo, rows, number, clock, sent, sure, calls>>

table == <<holder, ends, fence>>
request == <<op, sent, calls>>

Rows == 0..(Slots - 1)
Counter == -1
Locks == Rows \cup {Counter}

Ops == {"acquire", "refresh", "release"}
Phases == {"idle", "lookup", "lock", "update", "count", "commit"}

Init ==
    /\ now = 0
    /\ holder = [s \in Rows |-> Nobody]
    /\ ends = [s \in Rows |-> 0]
    /\ fence = 0
    /\ lock = [r \in Locks |-> Nobody]
    /\ op = [h \in Handles |-> "acquire"]
    /\ at = [h \in Handles |-> "idle"]
    /\ todo = [h \in Handles |-> {}]
    /\ rows = [h \in Handles |-> {}]
    /\ number = [h \in Handles |-> 0]
    /\ clock = [h \in Handles |-> 0]
    /\ sent = [h \in Handles |-> 0]
    /\ sure = [h \in Handles |-> 0]
    /\ calls = 0

-----------------------------------------------------------------------------
\* A call begins its transaction and reads the clock.  A handle that releases
\* counts on nothing from then on.
Call(h, o) ==
    /\ at[h] = "idle"
    /\ calls < MaxCalls
    /\ calls' = calls + 1
    /\ op' = [op EXCEPT ![h] = o]
    /\ at' = [at EXCEPT ![h] = "lookup"]
    /\ clock' = [clock EXCEPT ![h] = now]
    /\ sent' = [sent EXCEPT ![h] = now]
    /\ sure' = IF o = "release" THEN [sure EXCEPT ![h] = 0] ELSE sure
    /\ UNCHANGED <<now, table, lock, todo, rows, number>>

\* _slot_of: the slots the token holds by the clock of the transaction's start.
Mine(h) == {s \in Rows : holder[s] = h /\ ends[s] > clock[h]}

\* Mutant of Targets: the call never asks which slot its token holds.
TargetsUnasked(h) ==
    IF op[h] # "acquire" THEN {{s \in Rows : holder[s] = h}} ELSE {Rows}

\* What the call is to lock.  semaphore_acquire tries its own slot alone when it
\* finds one (LIMIT 1), else every slot; a refresh or a release matches every row
\* that names its token, ended or not.
Targets(h) ==
    IF op[h] # "acquire" THEN {{s \in Rows : holder[s] = h}}
    ELSE IF Semaphore /\ Mine(h) # {} THEN {{s} : s \in Mine(h)}
    ELSE {Rows}

LookUp(h) ==
    /\ at[h] = "lookup"
    /\ todo' \in {[todo EXCEPT ![h] = T] : T \in Targets(h)}
    /\ at' = [at EXCEPT ![h] = IF todo'[h] = {} THEN "update" ELSE "lock"]
    /\ UNCHANGED <<now, table, lock, rows, number, clock, sure, request>>

\* The rows whose lock the call may be waiting for.  An acquire takes the slots in
\* order, a refresh or a release its rows in whichever order the scan finds them.
Wanted(h) ==
    CASE at[h] = "lock" -> {s \in todo[h] : op[h] = "acquire" => \A r \in todo[h] : s <= r}
      [] at[h] = "count" -> {Counter}
      [] OTHER -> {}

\* Mutant of Free: the rows are read without FOR UPDATE.
FreeUnlocked(h, r) == TRUE

Free(h, r) == lock[r] \in {Nobody, h}

\* _locked_now, SELECT ... FOR UPDATE: an acquire locks one slot and goes on, the
\* others lock every matching row first.
Lock(h) ==
    /\ at[h] = "lock"
    /\ \E s \in Wanted(h) :
          /\ Free(h, s)
          /\ lock' = [lock EXCEPT ![s] = h]
          /\ todo' = [todo EXCEPT ![h] = @ \ {s}]
          /\ rows' = [rows EXCEPT ![h] = @ \cup {s}]
          /\ at' = IF op[h] = "acquire" \/ todo[h] = {s}
                      THEN [at EXCEPT ![h] = "update"] ELSE at
    /\ UNCHANGED <<now, table, number, clock, sure, request>>

\* Mutants of Matched: an acquire takes ended holds only; a refresh does not check the
\* token again once it has the lock.
MatchedEnded(h, t) ==
    {s \in rows[h] : IF op[h] = "acquire" THEN ends[s] <= t
                                          ELSE holder[s] = h /\ ends[s] > t}
MatchedByTime(h, t) ==
    {s \in rows[h] : IF op[h] = "acquire" THEN ends[s] <= t \/ holder[s] = h
                                          ELSE ends[s] > t}

\* The rows that match the UPDATE's WHERE at time t.
Matched(h, t) ==
    {s \in rows[h] : IF op[h] = "acquire" THEN ends[s] <= t \/ holder[s] = h
                                          ELSE holder[s] = h /\ ends[s] > t}

\* The clock is read again under the lock, then the UPDATE runs; for a lease it
\* steps the fence of slot 0 too.  An acquire that matched nothing tries the next
\* slot and keeps the lock of the one refused.
Update(h) ==
    /\ at[h] = "update"
    /\ clock' = [clock EXCEPT ![h] = now]
    /\ rows' = [rows EXCEPT ![h] = Matched(h, clock'[h])]
    /\ number' = [number EXCEPT ![h] = IF Semaphore THEN 0 ELSE fence + 1]
    /\ at' = [at EXCEPT ![h] =
                 IF op[h] = "acquire" /\ rows'[h] = {} /\ todo[h] # {} THEN "lock"
                 ELSE IF op[h] = "acquire" /\ rows'[h] # {} /\ Semaphore THEN "count"
                 ELSE "commit"]
    /\ UNCHANGED <<now, table, lock, todo, sure, request>>

\* _next_counter: the upsert steps the counter and has its row locked from then on.
Count(h) ==
    /\ at[h] = "count"
    /\ Free(h, Counter)
    /\ lock' = [lock EXCEPT ![Counter] = h]
    /\ number' = [number EXCEPT ![h] = fence + 1]
    /\ at' = [at EXCEPT ![h] = "commit"]
    /\ UNCHANGED <<now, table, todo, rows, clock, sure, request>>

\* Mutant of Unlocked: the lock of the counter outlives the transaction.
UnlockedSlots(h) ==
    [r \in Locks |-> IF lock[r] = h /\ r # Counter THEN Nobody ELSE lock[r]]

Unlocked(h) == [r \in Locks |-> IF lock[r] = h THEN Nobody ELSE lock[r]]

\* The transaction of h is over, its locks are free and its variables forgotten.
EndCall(h) ==
    /\ lock' = Unlocked(h)
    /\ at' = [at EXCEPT ![h] = "idle"]
    /\ op' = [op EXCEPT ![h] = "acquire"]
    /\ todo' = [todo EXCEPT ![h] = {}]
    /\ rows' = [rows EXCEPT ![h] = {}]
    /\ number' = [number EXCEPT ![h] = 0]
    /\ clock' = [clock EXCEPT ![h] = 0]
    /\ sent' = [sent EXCEPT ![h] = 0]
    /\ UNCHANGED <<now, calls>>

Expiry(h) == IF op[h] = "release" THEN clock[h] ELSE clock[h] + TTL

Stored(h) ==
    /\ holder' = [s \in Rows |-> IF s \in rows[h] THEN h ELSE holder[s]]
    /\ ends' = [s \in Rows |-> IF s \in rows[h] THEN Expiry(h) ELSE ends[s]]
    /\ fence' = IF op[h] = "acquire" /\ rows[h] # {} THEN number[h] ELSE fence

\* The answer, and what the handle makes of it: a hold it counts from the start of
\* the call, or none.
Commit(h) ==
    /\ at[h] = "commit"
    /\ Stored(h)
    /\ sure' = [sure EXCEPT ![h] =
                   IF op[h] = "release" \/ rows[h] = {} \/ sent[h] + TTL <= now THEN 0
                   ELSE sent[h] + TTL]
    /\ EndCall(h)

\* The commit takes effect but the handle, timed out or cancelled, never learns it.
CommitUnseen(h) ==
    /\ at[h] = "commit"
    /\ Stored(h)
    /\ EndCall(h)
    /\ UNCHANGED sure

\* A deadline (Lease.acquire's wait_for), a broken connection, a deadlock that
\* Postgres ends: the transaction is rolled back.
Abort(h) ==
    /\ at[h] # "idle"
    /\ EndCall(h)
    /\ UNCHANGED <<table, sure>>

\* Call g has a row that call h may be waiting for.
Blocks(g, h) == \E r \in Wanted(h) : lock[r] = g /\ g # h

\* Time passes; a handle that is not slow spends none but on the locks of others.
Tick ==
    /\ now < MaxTime
    /\ \A h \in Handles \ Slow : at[h] = "idle" \/ \E g \in Handles : Blocks(g, h)
    /\ now' = now + 1
    /\ sure' = [h \in Handles |-> IF sure[h] > now' THEN sure[h] ELSE 0]
    /\ UNCHANGED <<table, lock, at, todo, rows, number, clock, request>>

Next ==
    \/ Tick
    \/ \E h \in Handles :
          \/ \E o \in Ops : Call(h, o)
          \/ LookUp(h) \/ Lock(h) \/ Update(h) \/ Count(h)
          \/ Commit(h) \/ CommitUnseen(h) \/ Abort(h)

Spec == Init /\ [][Next]_vars

-----------------------------------------------------------------------------
Live(s) == ends[s] > now
Held(h) == {s \in Rows : holder[s] = h /\ Live(s)}

\* A locked row belongs to a call under way, what a call has locked and not yet
\* written is its own, and the times a call has read lie in the past.
TypeOK ==
    /\ now \in 0..MaxTime
    /\ holder \in [Rows -> Handles \cup {Nobody}]
    /\ ends \in [Rows -> 0..(MaxTime + TTL)]
    /\ fence \in Nat
    /\ lock \in [Locks -> Handles \cup {Nobody}]
    /\ op \in [Handles -> Ops]
    /\ at \in [Handles -> Phases]
    /\ todo \in [Handles -> SUBSET Rows]
    /\ rows \in [Handles -> SUBSET Rows]
    /\ number \in [Handles -> Nat]
    /\ clock \in [Handles -> 0..MaxTime]
    /\ sent \in [Handles -> 0..MaxTime]
    /\ sure \in [Handles -> 0..(MaxTime + TTL)]
    /\ calls \in 0..MaxCalls
    /\ \A h \in Handles : sent[h] <= clock[h] /\ clock[h] <= now
    /\ \A h \in Handles : \A s \in rows[h] : lock[s] = h
    /\ \A r \in Locks : lock[r] # Nobody => at[lock[r]] # "idle"

\* A handle that was told it holds the name, and counts the TTL from the start of
\* the call that said so, does hold a live slot until then, whatever the other
\* calls do and however long it stalls (leases.py: the row is locked before the
\* clock is read).
StillHeld == \A h \in Handles : sure[h] # 0 => Held(h) # {}

\* A handle never holds two slots of a semaphore at a time, though its token stays
\* in the rows of its ended holds and its own slot is looked up before any lock.
OneSlot == \A h \in Handles : \A s, r \in Held(h) : s = r

\* Two calls wait for each other's rows only if one of them is the refresh or the
\* release of a token that an ended hold has left in a second row: acquires lock the
\* slots in order and the counter last.
DeadlockNeedsTwoRows ==
    \A g, h \in Handles :
       Blocks(g, h) /\ Blocks(h, g)
          => \E f \in {g, h} : op[f] # "acquire" /\ \E s, r \in todo[f] \cup rows[f] : s # r

\* A refresh or an acquire is turned down only when the handle can no longer count
\* on its hold: one that re-acquires finds its own slot first, and finds it kept.
NotDenied ==
    [][\A h \in Handles :
          (at[h] = "update" /\ at'[h] = "commit" /\ rows'[h] = {}) => sure[h] = 0]_vars

\* "On Postgres the clock is read after the slot row is locked, so a lock wait never
\* shortens a TTL" (docs/framework/leases.md): the hold that a prompt handle is given
\* or has extended is a full TTL long when its call returns.
FullTtl ==
    [][\A h \in Handles \ Slow :
          \A s \in rows[h] :
             (op[h] # "release" /\ ends'[s] # ends[s]) => ends'[s] = now + TTL]_vars

\* The end of the hold of h, 0 when it has none.
UntilOf(h) ==
    LET held == Held(h) IN IF held = {} THEN 0 ELSE ends[CHOOSE s \in held : TRUE]

Promise == INSTANCE Lease WITH
    Tokens <- Handles, until <- [h \in Handles |-> UntilOf(h)]

\* The table keeps the promise of a lease: no call ends or shortens the live hold of
\* another token, at most Slots tokens hold the name, and the fence grows by one with
\* each acquisition that commits.
KeepsPromise == Promise!Spec
=============================================================================
