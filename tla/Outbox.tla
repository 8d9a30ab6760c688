------------------------------- MODULE Outbox -------------------------------
(***************************************************************************)
(* The durable event outbox of                                             *)
(* src/modules/background_tasks/background_tasks/outbox/: rows written in   *)
(* the publisher's transaction, claimed one at a time under a lease by     *)
(* dispatchers that may crash, stall, time out or lose the answer to a     *)
(* commit, and finished by an UPDATE fenced on the claim's sequence number.*)
(*                                                                         *)
(* A worker is anything that runs dispatch(): a Celery task, the           *)
(* in-process sweep, or the web process delivering after its own commit.   *)
(* Each action is one database transaction of the code or one step of a    *)
(* worker between two of them.                                             *)
(*                                                                         *)
(* Timestamps become countdowns: lease[r] is locked_until - now and        *)
(* wait[r] is next_attempt_at - now, so the state space is finite and time *)
(* never has to stop.  Both clocks are the database's (outbox/clock.py).   *)
(***************************************************************************)
EXTENDS Integers

CONSTANTS
    Rows, Requests, Emits,  \* as in DurableDelivery
    NoRow,                  \* not a row: what an idle worker has claimed
    Workers,
    MaxAttempts,            \* outbox_max_attempts
    Lease,                  \* outbox_lease_seconds, in ticks
    HandlerTimeout,         \* OutboxPolicy.handler_timeout, in ticks
    BackoffBase,            \* OUTBOX_BACKOFF_BASE_SECONDS, in ticks
    BackoffCap,             \* OUTBOX_BACKOFF_CAP_SECONDS, in ticks
    DispatchLimit,          \* OUTBOX_DISPATCH_LIMIT
    Punctual,               \* workers whose handlers yield to the loop and start in time
    MaxCopies,              \* bound: copies of one hand-off the broker may hold
    MaxRetries              \* bound: admin retries of one row

(* The margin the lease keeps over the handler: outbox_lease_margin.       *)
Margin == Lease - HandlerTimeout

Handoffs == Requests \cup {Emits[r] : r \in Rows} \cup {{r} : r \in Rows}

ASSUME ForestAssumption ==
    \* an event is published once, by one request or by one handler
    /\ NoRow \notin Rows
    /\ Requests \subseteq SUBSET Rows
    /\ Emits \in [Rows -> SUBSET Rows]
    /\ \A r \in Rows : r \notin Emits[r]
    /\ \A r, q \in Rows : r # q => Emits[r] \cap Emits[q] = {}
    /\ \A b \in Requests, r \in Rows : b \cap Emits[r] = {}
    /\ \A b, c \in Requests : b # c => b \cap c = {}

ASSUME PolicyAssumption ==
    /\ MaxAttempts \in Nat \ {0}
    /\ Lease \in Nat /\ HandlerTimeout \in Nat /\ HandlerTimeout < Lease
    /\ BackoffBase \in Nat \ {0} /\ BackoffCap \in Nat /\ BackoffBase <= BackoffCap
    /\ DispatchLimit \in Nat \ {0}
    /\ Punctual \subseteq Workers
    /\ MaxCopies \in Nat /\ MaxRetries \in Nat

VARIABLES
    \* the outbox table, by row
    status, attempts, claimSeq, lease, wait,
    \* the broker: copies of each dispatch_outbox message in flight
    handoffs,
    \* the workers
    phase, claim, scope, left, age,
    \* history: committed handler effects, and admin retries (their bound)
    effects, retries

table == <<status, attempts, claimSeq, lease, wait>>
workers == <<phase, claim, scope, left, age>>
history == <<effects, retries>>
vars == <<status, attempts, claimSeq, lease, wait, handoffs,
          phase, claim, scope, left, age, effects, retries>>

Statuses ==
    {"absent", "pending", "running", "delivered", "dead", "discarded", "purged"}
Phases == {"idle", "looping", "claimed", "running", "returned", "failed"}

(* Phases in which deliver_one holds a ClaimedRow.                         *)
Holding == {"claimed", "running", "returned", "failed"}

(* What claim() returns: ClaimedRow, cut to the fields delivery depends on.*)
Claims == [row : Rows, seq : Nat, attempt : Nat]
NoClaim == [row |-> NoRow, seq |-> 0, attempt |-> 0]

TypeOK ==
    /\ status \in [Rows -> Statuses]
    /\ attempts \in [Rows -> Nat]
    /\ claimSeq \in [Rows -> Nat]
    /\ lease \in [Rows -> -1..Lease]
    /\ wait \in [Rows -> 0..BackoffCap]
    /\ handoffs \in [Handoffs -> 0..MaxCopies]
    /\ phase \in [Workers -> Phases]
    /\ claim \in [Workers -> Claims \cup {NoClaim}]
    /\ scope \in [Workers -> SUBSET Rows]
    /\ left \in [Workers -> 0..DispatchLimit]
    /\ age \in [Workers -> 0..Lease]
    /\ effects \in [Rows -> Nat]
    /\ retries \in [Rows -> 0..MaxRetries]
    /\ \A w \in Workers : phase[w] \in Holding <=> claim[w] # NoClaim
    \* locked_until is NULL unless running
    /\ \A r \in Rows : status[r] # "running" => lease[r] = -1

Init ==
    /\ status = [r \in Rows |-> "absent"]
    /\ attempts = [r \in Rows |-> 0]
    /\ claimSeq = [r \in Rows |-> 0]
    /\ lease = [r \in Rows |-> -1]
    /\ wait = [r \in Rows |-> 0]
    /\ handoffs = [b \in Handoffs |-> 0]
    /\ phase = [w \in Workers |-> "idle"]
    /\ claim = [w \in Workers |-> NoClaim]
    /\ scope = [w \in Workers |-> {}]
    /\ left = [w \in Workers |-> 0]
    /\ age = [w \in Workers |-> 0]
    /\ effects = [r \in Rows |-> 0]
    /\ retries = [r \in Rows |-> 0]
-----------------------------------------------------------------------------
(* Publishing.                                                             *)

(* After a commit the rows are handed to a dispatcher, best effort: the    *)
(* message may be lost (broker down, process gone), or delivered more than *)
(* once (late acknowledgement, visibility timeout).                        *)
HandOff(b) ==
    IF b = {} THEN UNCHANGED handoffs
    ELSE \E n \in handoffs[b]..MaxCopies : handoffs' = [handoffs EXCEPT ![b] = n]

(* The publisher's transaction commits with its rows in it, one per        *)
(* durable handler, due at once.  A rollback leaves nothing to model.      *)
Publish(b) ==
    /\ \A r \in b : status[r] = "absent"
    /\ status' = [r \in Rows |-> IF r \in b THEN "pending" ELSE status[r]]
    /\ HandOff(b)
    /\ UNCHANGED <<attempts, claimSeq, lease, wait, workers, history>>
-----------------------------------------------------------------------------
(* Dispatching: dispatch(ids=...) and the sweep, dispatch(ids=None).       *)

BeginLoop(w, S) ==
    /\ phase[w] = "idle"
    /\ phase' = [phase EXCEPT ![w] = "looping"]
    /\ scope' = [scope EXCEPT ![w] = S]
    /\ left' = [left EXCEPT ![w] = DispatchLimit]
    /\ UNCHANGED <<claim, age>>

StartDispatch(w, b) ==
    /\ handoffs[b] > 0
    /\ handoffs' = [handoffs EXCEPT ![b] = @ - 1]
    /\ BeginLoop(w, b)
    /\ UNCHANGED <<table, history>>

(* Mutant of Expired: off by one, a lease is over in its last instant.     *)
ExpiredEarly(r) == status[r] = "running" /\ lease[r] <= 0

(* Strictly past its lease: locked_until < now, or no lease at all.        *)
Expired(r) == status[r] = "running" /\ lease[r] < 0

(* Mutant of Reclaim: without the branch for the last attempt.             *)
ReclaimAlways ==
    /\ status' = [r \in Rows |-> IF Expired(r) THEN "pending" ELSE status[r]]
    /\ wait' = [r \in Rows |-> IF Expired(r) THEN 0 ELSE wait[r]]
    /\ lease' = [r \in Rows |-> IF Expired(r) THEN -1 ELSE lease[r]]
    /\ UNCHANGED <<attempts, claimSeq>>

(* reclaim_expired: first the rows out of attempts go dead, then the rest  *)
(* go round again, due now.                                                *)
Reclaim ==
    /\ status' = [r \in Rows |->
                    IF ~Expired(r) THEN status[r]
                    ELSE IF attempts[r] >= MaxAttempts THEN "dead" ELSE "pending"]
    /\ wait' = [r \in Rows |->
                    IF Expired(r) /\ attempts[r] < MaxAttempts THEN 0 ELSE wait[r]]
    /\ lease' = [r \in Rows |-> IF Expired(r) THEN -1 ELSE lease[r]]
    /\ UNCHANGED <<attempts, claimSeq>>

(* Mutant of StartSweep: a sweep that looks for due rows only.             *)
SweepDueOnly(w) == BeginLoop(w, Rows) /\ UNCHANGED <<table, handoffs, history>>

StartSweep(w) ==
    /\ BeginLoop(w, Rows)
    /\ Reclaim
    /\ UNCHANGED <<handoffs, history>>

Due(r) == status[r] = "pending" /\ wait[r] = 0

(* claim(batch=1): one conditional UPDATE.  The oldest due row first; ties *)
(* and ages are abstracted to any due row.                                 *)
Claim(w, r) ==
    /\ phase[w] = "looping" /\ left[w] > 0
    /\ r \in scope[w] /\ Due(r)
    /\ status' = [status EXCEPT ![r] = "running"]
    /\ attempts' = [attempts EXCEPT ![r] = @ + 1]
    /\ claimSeq' = [claimSeq EXCEPT ![r] = @ + 1]
    /\ lease' = [lease EXCEPT ![r] = Lease]
    /\ claim' = [claim EXCEPT ![w] =
                   [row |-> r, seq |-> claimSeq[r] + 1, attempt |-> attempts[r] + 1]]
    /\ phase' = [phase EXCEPT ![w] = "claimed"]
    /\ left' = [left EXCEPT ![w] = @ - 1]
    /\ age' = [age EXCEPT ![w] = 0]
    /\ UNCHANGED <<wait, scope, handoffs, history>>

Released(w, p) ==
    /\ phase' = [phase EXCEPT ![w] = p]
    /\ claim' = [claim EXCEPT ![w] = NoClaim]
    /\ age' = [age EXCEPT ![w] = 0]

(* No row claimed, or the limit is used up.                                *)
EndDispatch(w) ==
    /\ phase[w] = "looping"
    /\ left[w] = 0 \/ ~ \E r \in scope[w] : Due(r)
    /\ Released(w, "idle")
    /\ scope' = [scope EXCEPT ![w] = {}]
    /\ left' = [left EXCEPT ![w] = 0]
    /\ UNCHANGED <<table, handoffs, history>>
-----------------------------------------------------------------------------
(* Delivering one claimed row: deliver_one.                                *)

Move(w, from, to) ==
    /\ phase[w] = from
    /\ phase' = [phase EXCEPT ![w] = to]
    /\ age' = [age EXCEPT ![w] = 0]
    /\ UNCHANGED <<table, handoffs, claim, scope, left, history>>

StartHandler(w) == Move(w, "claimed", "running")

(* The handler is not registered in this worker: retried like a failure.   *)
UnknownHandler(w) == Move(w, "claimed", "failed")

HandlerReturns(w) == Move(w, "running", "returned")

(* It raised, ran into its timeout or tried to commit ctx.db itself.       *)
HandlerFails(w) == Move(w, "running", "failed")

(* The fenced UPDATE or the COMMIT raised and nothing landed.              *)
CommitFails(w) == Move(w, "returned", "failed")

(* Mutants of Fence: on the attempt count, which an admin retry resets, and *)
(* on the claim alone, whatever the row has become since.                  *)
FenceOnAttempts(c) == status[c.row] = "running" /\ attempts[c.row] = c.attempt
FenceOnSeqAlone(c) == claimSeq[c.row] = c.seq

(* The WHERE clause of every finishing UPDATE: _fence.                     *)
Fence(c) == status[c.row] = "running" /\ claimSeq[c.row] = c.seq

(* One transaction: the handler's writes, the rows it published, the mark. *)
MarkDelivered(r) ==
    /\ status' = [q \in Rows |-> IF q = r THEN "delivered"
                                 ELSE IF q \in Emits[r] THEN "pending"
                                 ELSE status[q]]
    /\ lease' = [q \in Rows |-> IF q = r \/ q \in Emits[r] THEN -1 ELSE lease[q]]
    /\ effects' = [effects EXCEPT ![r] = @ + 1]
    /\ UNCHANGED <<attempts, claimSeq, wait, retries>>

Deliver(w) ==
    /\ phase[w] = "returned"
    /\ Fence(claim[w])
    /\ MarkDelivered(claim[w].row)
    /\ HandOff(Emits[claim[w].row])
    /\ Released(w, "looping")
    /\ UNCHANGED <<scope, left>>

(* The commit landed but its answer was lost: the worker sees a failure    *)
(* and drops the hand-off of what the handler published.                   *)
DeliverUnseen(w) ==
    /\ phase[w] = "returned"
    /\ Fence(claim[w])
    /\ MarkDelivered(claim[w].row)
    /\ phase' = [phase EXCEPT ![w] = "failed"]
    /\ UNCHANGED <<handoffs, claim, scope, left, age>>

(* The fence matched nothing: the session, handler effects and all, rolls  *)
(* back.                                                                   *)
FencedOut(w) ==
    /\ phase[w] = "returned"
    /\ ~Fence(claim[w])
    /\ Released(w, "looping")
    /\ UNCHANGED <<table, handoffs, scope, left, history>>

(* _finish: the UPDATE that ends an attempt without delivering, or nothing *)
(* when the fence does not match.                                          *)
Finish(c, s, delay) ==
    /\ status' = IF Fence(c) THEN [status EXCEPT ![c.row] = s] ELSE status
    /\ lease' = IF Fence(c) THEN [lease EXCEPT ![c.row] = -1] ELSE lease
    /\ wait' = IF Fence(c) THEN [wait EXCEPT ![c.row] = delay] ELSE wait
    /\ UNCHANGED <<attempts, claimSeq>>

(* The payload no longer fits the event type, or the tenant id is not one: *)
(* dead at once.                                                           *)
RejectPayload(w) ==
    /\ phase[w] = "claimed"
    /\ Finish(claim[w], "dead", wait[claim[w].row])
    /\ Released(w, "looping")
    /\ UNCHANGED <<handoffs, scope, left, history>>

(* backoff_seconds: base * 2^(n-1), at most the cap.                       *)
Backoff(n) ==
    LET delay == BackoffBase * 2^(IF n > 1 THEN n - 1 ELSE 0)
    IN  IF delay \in 1..BackoffCap THEN delay ELSE BackoffCap

RecordFailure(w) ==
    /\ phase[w] = "failed"
    /\ LET c == claim[w]
       IN  IF c.attempt >= MaxAttempts
           THEN Finish(c, "dead", wait[c.row])
           ELSE Finish(c, "pending", Backoff(c.attempt))
    /\ Released(w, "looping")
    /\ UNCHANGED <<handoffs, scope, left, history>>

(* The dispatch ends where it is: the process died, the task was cancelled *)
(* (soft time limit, shutdown), or recording the outcome failed.  An open  *)
(* session rolls back and the row stays running until its lease is out.    *)
Abandon(w) ==
    /\ phase[w] # "idle"
    /\ Released(w, "idle")
    /\ scope' = [scope EXCEPT ![w] = {}]
    /\ left' = [left EXCEPT ![w] = 0]
    /\ UNCHANGED <<table, handoffs, history>>
-----------------------------------------------------------------------------
(* The admin screen, the purge and time.                                   *)

(* Mutant of AdminRetry: any message that has been tried can be retried.   *)
RetryAnything(r) ==
    /\ attempts[r] > 0
    /\ retries[r] < MaxRetries
    /\ status' = [status EXCEPT ![r] = "pending"]
    /\ attempts' = [attempts EXCEPT ![r] = 0]
    /\ wait' = [wait EXCEPT ![r] = 0]
    /\ lease' = [lease EXCEPT ![r] = -1]
    /\ retries' = [retries EXCEPT ![r] = @ + 1]
    /\ HandOff({r})
    /\ UNCHANGED <<claimSeq, workers, effects>>

(* OutboxService.retry: a fresh budget, the same claim sequence.           *)
AdminRetry(r) ==
    /\ status[r] = "dead"
    /\ retries[r] < MaxRetries
    /\ status' = [status EXCEPT ![r] = "pending"]
    /\ attempts' = [attempts EXCEPT ![r] = 0]
    /\ wait' = [wait EXCEPT ![r] = 0]
    /\ lease' = [lease EXCEPT ![r] = -1]
    /\ retries' = [retries EXCEPT ![r] = @ + 1]
    /\ HandOff({r})
    /\ UNCHANGED <<claimSeq, workers, effects>>

(* OutboxService.discard: a running row is in the middle of a delivery.    *)
AdminDiscard(r) ==
    /\ status[r] \in {"pending", "dead"}
    /\ status' = [status EXCEPT ![r] = "discarded"]
    /\ UNCHANGED <<attempts, claimSeq, lease, wait, handoffs, workers, history>>

(* purge_old_executions: delivered rows past the retention.                *)
Purge(r) ==
    /\ status[r] = "delivered"
    /\ status' = [status EXCEPT ![r] = "purged"]
    /\ UNCHANGED <<attempts, claimSeq, lease, wait, handoffs, workers, history>>

(* A punctual worker reaches its handler within the margin, and asyncio    *)
(* ends the handler at its timeout; any other step may take any time.      *)
Overdue(w) ==
    \/ phase[w] = "claimed" /\ age[w] >= Margin
    \/ phase[w] = "running" /\ age[w] >= HandlerTimeout

Tick ==
    /\ \E r \in Rows : lease[r] >= 0 \/ wait[r] > 0
    /\ \A w \in Punctual : ~Overdue(w)
    /\ lease' = [r \in Rows |-> IF lease[r] >= 0 THEN lease[r] - 1 ELSE lease[r]]
    /\ wait' = [r \in Rows |-> IF wait[r] > 0 THEN wait[r] - 1 ELSE wait[r]]
    /\ age' = [w \in Workers |->
                 IF w \in Punctual /\ phase[w] \in {"claimed", "running"}
                 THEN age[w] + 1 ELSE age[w]]
    /\ UNCHANGED <<status, attempts, claimSeq, handoffs, phase, claim, scope, left, history>>
-----------------------------------------------------------------------------
DeliveryStep(w) ==
    \/ StartHandler(w) \/ UnknownHandler(w) \/ RejectPayload(w)
    \/ HandlerReturns(w) \/ HandlerFails(w)
    \/ Deliver(w) \/ DeliverUnseen(w) \/ FencedOut(w) \/ CommitFails(w)
    \/ RecordFailure(w)

WorkerStep(w) ==
    \/ \E b \in Handoffs : StartDispatch(w, b)
    \/ StartSweep(w)
    \/ \E r \in Rows : Claim(w, r)
    \/ EndDispatch(w)
    \/ DeliveryStep(w)
    \/ Abandon(w)

Next ==
    \/ \E b \in Requests : Publish(b)
    \/ \E w \in Workers : WorkerStep(w)
    \/ \E r \in Rows : AdminRetry(r) \/ AdminDiscard(r) \/ Purge(r)
    \/ Tick

Spec == Init /\ [][Next]_vars

(* Beat keeps sweeping, asyncio bounds a handler, transactions end.  A     *)
(* worker may die again and again, but not every time before its first     *)
(* claim.  Nothing is assumed of the broker.                               *)
Fairness ==
    /\ WF_vars(Tick)
    /\ \A w \in Workers :
         /\ WF_vars(StartSweep(w))
         /\ SF_vars(\E r \in Rows : Claim(w, r))
         /\ WF_vars(EndDispatch(w))
         /\ WF_vars(DeliveryStep(w))

FairSpec == Spec /\ Fairness
-----------------------------------------------------------------------------
(* Properties.                                                             *)

(* A handler's database effects are committed once for a row that ends     *)
(* delivered and never for any other, however often the handler ran: the   *)
(* promise of dispatch.py's docstring, step 3.                             *)
ExactlyOnce ==
    \A r \in Rows :
        effects[r] = IF status[r] \in {"delivered", "purged"} THEN 1 ELSE 0

(* What a handler publishes through ctx.db exists exactly when the         *)
(* handler's own effects do: a failed, fenced or abandoned attempt leaves  *)
(* no event behind, and a committed one loses none.                        *)
PublishedWithEffects ==
    \A r \in Rows : \A c \in Emits[r] :
        status[c] = "absent" <=> effects[r] = 0

(* Between two admin retries a row is claimed at most max_attempts times,  *)
(* also when every claim ends in a crash and only the sweep ever sees it:  *)
(* a message that kills its workers goes dead instead of round again.      *)
RetryBudget ==
    \A r \in Rows :
        /\ claimSeq[r] <= MaxAttempts * retries[r] + attempts[r]
        /\ attempts[r] <= MaxAttempts
        /\ status[r] = "pending" => attempts[r] < MaxAttempts

(* Claims of one row are told apart by their sequence numbers, none is     *)
(* ahead of the row, and the worker whose claim still matches knows how    *)
(* many attempts the row has used.                                         *)
ClaimsDistinct ==
    \A w \in Workers : phase[w] \in Holding =>
        /\ claim[w].seq <= claimSeq[claim[w].row]
        /\ status[claim[w].row] # "absent"
        /\ Fence(claim[w]) => attempts[claim[w].row] = claim[w].attempt
        /\ \A v \in Workers \ {w} :
             phase[v] \in Holding /\ claim[v].row = claim[w].row
                => claim[v].seq # claim[w].seq

(* While a punctual worker runs a row's handler, nobody is given that row: *)
(* the lease outlives the handler it was taken for                         *)
(* (OutboxPolicy.handler_timeout).  Whoever else still runs it has an      *)
(* older claim and is late, which a punctual worker never is.              *)
NoOverlap ==
    \A v \in Punctual, w \in Workers :
        v # w /\ phase[v] = "running" /\ phase[w] = "running" /\ claim[v].row = claim[w].row
            => w \notin Punctual /\ claim[w].seq < claim[v].seq

(* Only the worker whose claim is the row's latest may end its attempt:    *)
(* whenever a step takes a row out of running before its lease is out, the *)
(* worker that made the step held that claim.  A claim from before a       *)
(* reclaim or an admin retry ends nothing.                                 *)
HolderEnds ==
    \A r \in Rows :
        status[r] = "running" /\ lease[r] >= 0 /\ status'[r] # "running" =>
            \E w \in Workers :
                /\ phase[w] \in Holding /\ phase'[w] # phase[w]
                /\ claim[w].row = r /\ claim[w].seq = claimSeq[r]
OnlyHolderEnds == [][HolderEnds]_vars

(* Every row a publisher committed ends delivered, dead or discarded, even *)
(* when every hand-off is lost and workers keep dying: the sweep and the   *)
(* lease are enough.                                                       *)
Settles ==
    \A r \in Rows :
        status[r] \in {"pending", "running"}
            ~> status[r] \in {"delivered", "purged", "dead", "discarded"}

(* The outbox implements its promise.                                      *)
Stage(r) ==
    CASE status[r] = "absent" -> "none"
      [] status[r] \in {"pending", "running"} -> "open"
      [] status[r] \in {"delivered", "purged"} -> "delivered"
      [] OTHER -> status[r]

Promise == INSTANCE DurableDelivery WITH stage <- [r \in Rows |-> Stage(r)]
KeepsPromise == Promise!Spec
=============================================================================
