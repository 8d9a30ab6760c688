---------------------------- MODULE OutboxProofs ----------------------------
(***************************************************************************)
(* Proofs about Outbox, for every number of rows and workers and every     *)
(* policy that satisfies its assumptions.                                  *)
(*                                                                         *)
(* The inductive invariant is IInv: the types, what is known about the     *)
(* claims workers hold, the budget, and the effects.  With punctual        *)
(* workers it is strengthened by LeaseCovers, which relates the lease of a *)
(* row to how far the worker that claimed it has come.                     *)
(***************************************************************************)
EXTENDS Outbox, TLAPS

(* What admin retries and claims leave of a row that is not yet published. *)
Unpublished == \A r \in Rows : status[r] = "absent" => attempts[r] = 0

IInv == /\ TypeOK
        /\ Unpublished
        /\ ClaimsDistinct
        /\ RetryBudget
        /\ ExactlyOnce
        /\ PublishedWithEffects

(* The delay before a retry is at most the cap.                            *)
LEMMA BackoffBounded == \A n \in Nat : Backoff(n) \in 0..BackoffCap
<1> TAKE n \in Nat
<1>1. 2^(IF n > 1 THEN n - 1 ELSE 0) \in Int
  OBVIOUS
<1> QED BY <1>1, PolicyAssumption DEF Backoff

(* A worker that holds a claim has claimed a row.                          *)
LEMMA HoldsClaim ==
    ASSUME TypeOK, NEW w \in Workers, phase[w] \in Holding
    PROVE  /\ claim[w] \in Claims
           /\ claim[w].row \in Rows /\ claim[w].seq \in Nat /\ claim[w].attempt \in Nat
BY DEF TypeOK, Claims

LEMMA ClaimsApart == NoClaim \notin Claims
BY ForestAssumption DEF NoClaim, Claims

(* A hand-off only moves copies in flight within their bound.              *)
LEMMA HandOffTyped ==
    ASSUME TypeOK, NEW b \in Handoffs, HandOff(b)
    PROVE  handoffs' \in [Handoffs -> 0..MaxCopies]
BY PolicyAssumption DEF TypeOK, HandOff

LEMMA FinishTyped ==
    ASSUME TypeOK, NEW w \in Workers, phase[w] \in Holding,
           NEW s \in {"pending", "dead"}, NEW delay \in 0..BackoffCap,
           Finish(claim[w], s, delay)
    PROVE  /\ status' \in [Rows -> Statuses]
           /\ attempts' \in [Rows -> Nat]
           /\ claimSeq' \in [Rows -> Nat]
           /\ lease' \in [Rows -> -1..Lease]
           /\ wait' \in [Rows -> 0..BackoffCap]
           /\ \A r \in Rows : status'[r] # "running" => lease'[r] = -1
<1>1. claim[w].row \in Rows
  BY HoldsClaim
<1> QED BY <1>1, PolicyAssumption DEF Finish, TypeOK, Statuses

LEMMA ReleasedTyped ==
    ASSUME TypeOK, NEW w \in Workers, NEW p \in {"idle", "looping"}, Released(w, p)
    PROVE  /\ phase' \in [Workers -> Phases]
           /\ claim' \in [Workers -> Claims \cup {NoClaim}]
           /\ age' \in [Workers -> 0..Lease]
           /\ \A v \in Workers : phase'[v] \in Holding <=> claim'[v] # NoClaim
BY PolicyAssumption DEF Released, TypeOK, Phases, Holding

LEMMA MoveTyped ==
    ASSUME TypeOK, NEW w \in Workers, NEW from \in Holding, NEW to \in Holding,
           Move(w, from, to)
    PROVE  TypeOK'
<1>1. /\ phase' \in [Workers -> Phases]
      /\ age' \in [Workers -> 0..Lease]
      /\ \A v \in Workers : phase'[v] \in Holding <=> claim'[v] # NoClaim
  BY PolicyAssumption DEF Move, TypeOK, Phases, Holding
<1> QED BY <1>1 DEF Move, TypeOK, table, history

LEMMA MarkTyped ==
    ASSUME TypeOK, NEW r \in Rows, MarkDelivered(r)
    PROVE  /\ status' \in [Rows -> Statuses]
           /\ lease' \in [Rows -> -1..Lease]
           /\ effects' \in [Rows -> Nat]
           /\ \A q \in Rows : status'[q] # "running" => lease'[q] = -1
           /\ UNCHANGED <<attempts, claimSeq, wait, retries>>
<1>1. /\ status' \in [Rows -> Statuses]
      /\ lease' \in [Rows -> -1..Lease]
      /\ effects' \in [Rows -> Nat]
  BY PolicyAssumption DEF MarkDelivered, TypeOK, Statuses
<1>2. \A q \in Rows : status'[q] # "running" => lease'[q] = -1
  BY DEF MarkDelivered, TypeOK
<1> QED BY <1>1, <1>2 DEF MarkDelivered

LEMMA TypeStep == TypeOK /\ [Next]_vars => TypeOK'
<1> SUFFICES ASSUME TypeOK, [Next]_vars PROVE TypeOK'
  OBVIOUS
<1> USE PolicyAssumption, ForestAssumption
<1>1. ASSUME NEW b \in Requests, Publish(b) PROVE TypeOK'
  <2>1. handoffs' \in [Handoffs -> 0..MaxCopies]
    BY <1>1, HandOffTyped DEF Publish, Handoffs
  <2> QED BY <1>1, <2>1 DEF Publish, TypeOK, Statuses, workers, history
<1>2. ASSUME NEW w \in Workers, NEW b \in Handoffs, StartDispatch(w, b) PROVE TypeOK'
  <2>1. b \in SUBSET Rows
    BY DEF Handoffs
  <2> QED BY <1>2, <2>1 DEF StartDispatch, BeginLoop, TypeOK, Phases, Holding, table, history
<1>3. ASSUME NEW w \in Workers, StartSweep(w) PROVE TypeOK'
  <2>1. /\ status' \in [Rows -> Statuses]
        /\ wait' \in [Rows -> 0..BackoffCap]
        /\ lease' \in [Rows -> -1..Lease]
        /\ \A r \in Rows : status'[r] # "running" => lease'[r] = -1
    BY <1>3 DEF StartSweep, Reclaim, Expired, TypeOK, Statuses
  <2> QED BY <1>3, <2>1 DEF StartSweep, Reclaim, BeginLoop, TypeOK, Phases, Holding, history
<1>4. ASSUME NEW w \in Workers, NEW r \in Rows, Claim(w, r) PROVE TypeOK'
  <2>1. /\ claim'[w] \in Claims
        /\ claim'[w] # NoClaim
    BY <1>4, ClaimsApart DEF Claim, TypeOK, Claims
  <2>2. claim' \in [Workers -> Claims \cup {NoClaim}]
    BY <1>4, <2>1 DEF Claim, TypeOK
  <2>3. \A v \in Workers : phase'[v] \in Holding <=> claim'[v] # NoClaim
    BY <1>4, <2>1 DEF Claim, TypeOK, Holding
  <2> QED BY <1>4, <2>2, <2>3 DEF Claim, TypeOK, Phases, Statuses, history
<1>5. ASSUME NEW w \in Workers, EndDispatch(w) \/ Abandon(w) PROVE TypeOK'
  <2>1. Released(w, "idle")
    BY <1>5 DEF EndDispatch, Abandon
  <2>2. /\ scope' = [scope EXCEPT ![w] = {}]
        /\ left' = [left EXCEPT ![w] = 0]
        /\ UNCHANGED <<table, handoffs, history>>
    BY <1>5 DEF EndDispatch, Abandon
  <2>3. scope' \in [Workers -> SUBSET Rows] /\ left' \in [Workers -> 0..DispatchLimit]
    BY <2>2 DEF TypeOK
  <2> QED BY <2>1, <2>2, <2>3, ReleasedTyped DEF TypeOK, table, history
<1>6. ASSUME NEW w \in Workers,
             \/ StartHandler(w) \/ UnknownHandler(w) \/ HandlerReturns(w)
             \/ HandlerFails(w) \/ CommitFails(w)
      PROVE TypeOK'
  <2>1. \E from, to \in Holding : Move(w, from, to)
    BY <1>6 DEF StartHandler, UnknownHandler, HandlerReturns, HandlerFails, CommitFails,
                Holding
  <2> QED BY <2>1, MoveTyped
<1>7. ASSUME NEW w \in Workers, RejectPayload(w) PROVE TypeOK'
  <2>1. /\ phase[w] \in Holding
        /\ wait[claim[w].row] \in 0..BackoffCap
    BY <1>7, HoldsClaim DEF RejectPayload, Holding, TypeOK
  <2> QED BY <1>7, <2>1, FinishTyped, ReleasedTyped
          DEF RejectPayload, TypeOK, history
<1>8. ASSUME NEW w \in Workers, RecordFailure(w) PROVE TypeOK'
  <2>1. /\ phase[w] \in Holding
        /\ wait[claim[w].row] \in 0..BackoffCap
        /\ Backoff(claim[w].attempt) \in 0..BackoffCap
    BY <1>8, HoldsClaim, BackoffBounded DEF RecordFailure, Holding, TypeOK
  <2>2. \/ Finish(claim[w], "dead", wait[claim[w].row])
        \/ Finish(claim[w], "pending", Backoff(claim[w].attempt))
    BY <1>8 DEF RecordFailure
  <2> QED BY <1>8, <2>1, <2>2, FinishTyped, ReleasedTyped
          DEF RecordFailure, TypeOK, history
<1>9. ASSUME NEW w \in Workers, Deliver(w) PROVE TypeOK'
  <2>1. claim[w].row \in Rows
    BY <1>9, HoldsClaim DEF Deliver, Holding
  <2>2. Emits[claim[w].row] \in Handoffs
    BY <2>1 DEF Handoffs
  <2>3. handoffs' \in [Handoffs -> 0..MaxCopies]
    BY <1>9, <2>2, HandOffTyped DEF Deliver
  <2> QED BY <1>9, <2>1, <2>3, MarkTyped, ReleasedTyped DEF Deliver, TypeOK
<1>10. ASSUME NEW w \in Workers, DeliverUnseen(w) PROVE TypeOK'
  <2>1. claim[w].row \in Rows
    BY <1>10, HoldsClaim DEF DeliverUnseen, Holding
  <2>2. /\ phase' \in [Workers -> Phases]
        /\ \A v \in Workers : phase'[v] \in Holding <=> claim'[v] # NoClaim
    BY <1>10 DEF DeliverUnseen, TypeOK, Phases, Holding
  <2> QED BY <1>10, <2>1, <2>2, MarkTyped DEF DeliverUnseen, TypeOK
<1>11. ASSUME NEW w \in Workers, FencedOut(w) PROVE TypeOK'
  BY <1>11, ReleasedTyped DEF FencedOut, TypeOK, table, history
<1>12. ASSUME NEW r \in Rows, AdminRetry(r) PROVE TypeOK'
  <2>0. {r} \in Handoffs
    BY DEF Handoffs
  <2>1. handoffs' \in [Handoffs -> 0..MaxCopies]
    BY <1>12, <2>0, HandOffTyped DEF AdminRetry
  <2> QED BY <1>12, <2>1 DEF AdminRetry, TypeOK, Statuses, workers
<1>13. ASSUME NEW r \in Rows, AdminDiscard(r) \/ Purge(r) PROVE TypeOK'
  BY <1>13 DEF AdminDiscard, Purge, TypeOK, Statuses, workers, history
<1>14. ASSUME Tick PROVE TypeOK'
  <2>1. /\ lease' \in [Rows -> -1..Lease]
        /\ wait' \in [Rows -> 0..BackoffCap]
        /\ \A r \in Rows : status'[r] # "running" => lease'[r] = -1
    BY <1>14 DEF Tick, TypeOK
  <2>2. age' \in [Workers -> 0..Lease]
    BY <1>14 DEF Tick, Overdue, Margin, TypeOK
  <2> QED BY <1>14, <2>1, <2>2 DEF Tick, TypeOK, history
<1>15. CASE UNCHANGED vars
  BY <1>15 DEF vars, TypeOK
<1> QED BY <1>1, <1>2, <1>3, <1>4, <1>5, <1>6, <1>7, <1>8, <1>9, <1>10, <1>11, <1>12,
           <1>13, <1>14, <1>15 DEF Next, WorkerStep, DeliveryStep

(* Every column of the outbox table, every worker and every count stays    *)
(* what the code declares it to be, locked_until NULL unless running       *)
(* included.                                                               *)
THEOREM TypeCorrect == Spec => []TypeOK
<1>1. Init => TypeOK
  BY PolicyAssumption, ForestAssumption DEF Init, TypeOK, Statuses, Phases, Holding
<1> QED BY <1>1, TypeStep, PTL DEF Spec

LEMMA InitIInv == Init => IInv
<1> SUFFICES ASSUME Init PROVE IInv
  OBVIOUS
<1>1. TypeOK
  BY PolicyAssumption DEF Init, TypeOK, Statuses, Phases, Holding
<1> QED BY <1>1, PolicyAssumption, ForestAssumption
        DEF Init, IInv, Unpublished, ClaimsDistinct, RetryBudget, ExactlyOnce,
            PublishedWithEffects, Holding

(* What every step but a claim does to the claims: they are kept or        *)
(* dropped, and no row becomes running.                                    *)
KeepsClaims ==
    /\ \A w \in Workers : phase'[w] \in Holding =>
            phase[w] \in Holding /\ claim'[w] = claim[w]
    /\ claimSeq' = claimSeq
    /\ \A r \in Rows :
         /\ status[r] # "absent" => status'[r] # "absent"
         /\ status'[r] = "running" => status[r] = "running" /\ attempts'[r] = attempts[r]

(* What every step but a publication or a delivery does to the effects.    *)
KeepsEffects ==
    /\ effects' = effects
    /\ \A r \in Rows :
         /\ status'[r] = "absent" <=> status[r] = "absent"
         /\ status'[r] \in {"delivered", "purged"}
              <=> status[r] \in {"delivered", "purged"}

LEMMA ClaimsKept == TypeOK /\ TypeOK' /\ ClaimsDistinct /\ KeepsClaims => ClaimsDistinct'
<1> SUFFICES ASSUME TypeOK, TypeOK', ClaimsDistinct, KeepsClaims,
                    NEW w \in Workers, (phase[w] \in Holding)'
             PROVE  /\ (claim[w].seq <= claimSeq[claim[w].row])'
                    /\ (status[claim[w].row] # "absent")'
                    /\ Fence(claim[w])' => (attempts[claim[w].row] = claim[w].attempt)'
                    /\ \A v \in Workers \ {w} :
                         (phase[v] \in Holding /\ claim[v].row = claim[w].row
                            => claim[v].seq # claim[w].seq)'
  BY DEF ClaimsDistinct
<1>1. phase[w] \in Holding /\ claim'[w] = claim[w] /\ claim[w].row \in Rows
  BY HoldsClaim DEF KeepsClaims
<1>2. Fence(claim[w])' =>
        Fence(claim[w]) /\ attempts'[claim[w].row] = attempts[claim[w].row]
  BY <1>1 DEF KeepsClaims, Fence
<1>3. \A v \in Workers \ {w} :
        (phase[v] \in Holding /\ claim[v].row = claim[w].row
           => claim[v].seq # claim[w].seq)'
  BY <1>1 DEF KeepsClaims, ClaimsDistinct
<1> QED BY <1>1, <1>2, <1>3 DEF KeepsClaims, ClaimsDistinct

LEMMA EffectsKept ==
    ExactlyOnce /\ PublishedWithEffects /\ KeepsEffects
        => ExactlyOnce' /\ PublishedWithEffects'
<1> SUFFICES ASSUME ExactlyOnce, PublishedWithEffects, KeepsEffects
             PROVE  ExactlyOnce' /\ PublishedWithEffects'
  OBVIOUS
<1>1. ExactlyOnce'
  BY DEF ExactlyOnce, KeepsEffects
<1>2. PublishedWithEffects'
  BY ForestAssumption DEF PublishedWithEffects, KeepsEffects
<1> QED BY <1>1, <1>2

LEMMA FinishKeeps ==
    ASSUME IInv, NEW w \in Workers, phase[w] \in Holding,
           NEW s \in {"pending", "dead"}, NEW delay, Finish(claim[w], s, delay)
    PROVE  /\ claimSeq' = claimSeq /\ attempts' = attempts
           /\ \A r \in Rows :
                /\ status'[r] = "absent" <=> status[r] = "absent"
                /\ status'[r] \in {"delivered", "purged"}
                     <=> status[r] \in {"delivered", "purged"}
                /\ status'[r] = "running" => status[r] = "running"
                /\ status'[r] = "pending" =>
                     \/ status[r] = "pending"
                     \/ s = "pending" /\ Fence(claim[w]) /\ r = claim[w].row
<1>1. claim[w].row \in Rows /\ TypeOK
  BY HoldsClaim DEF IInv
<1> QED BY <1>1 DEF Finish, Fence, TypeOK, Statuses
(* What every step but a claim and a retry does to the attempt budget.     *)
KeepsBudget ==
    /\ UNCHANGED <<attempts, claimSeq, retries>>
    /\ \A r \in Rows :
         /\ status'[r] = "absent" => status[r] = "absent"
         /\ status'[r] = "pending" => attempts[r] < MaxAttempts

LEMMA BudgetKept ==
    RetryBudget /\ Unpublished /\ KeepsBudget => RetryBudget' /\ Unpublished'
BY DEF RetryBudget, Unpublished, KeepsBudget

(* A step that leaves the table's states and the history alone.            *)
Quiet ==
    /\ UNCHANGED <<status, attempts, claimSeq, effects, retries>>
    /\ \A w \in Workers : phase'[w] \in Holding =>
            phase[w] \in Holding /\ claim'[w] = claim[w]

LEMMA QuietKeeps == IInv /\ Quiet => KeepsClaims /\ KeepsBudget /\ KeepsEffects
BY DEF IInv, RetryBudget, Quiet, KeepsClaims, KeepsBudget, KeepsEffects

(* Nonlinear arithmetic, apart from everything else.                       *)
LEMMA FreshBudget ==
    ASSUME NEW m \in Nat, NEW n \in Nat, NEW a \in Nat, NEW q \in Nat,
           q <= m * n + a, a <= m
    PROVE  q <= m * (n + 1) + 0
<1>1. m * (n + 1) = m * n + m /\ m * n \in Nat
  OBVIOUS
<1> QED BY <1>1

LEMMA InvStep == IInv /\ [Next]_vars => IInv'
<1> SUFFICES ASSUME IInv, [Next]_vars PROVE IInv'
  OBVIOUS
<1>a. TypeOK /\ TypeOK'
  BY TypeStep DEF IInv
<1>b. KeepsClaims /\ KeepsBudget /\ KeepsEffects => IInv'
  BY <1>a, ClaimsKept, BudgetKept, EffectsKept DEF IInv
<1>c. Quiet => IInv'
  BY <1>b, QuietKeeps
<1>1. ASSUME NEW b \in Requests, Publish(b) PROVE IInv'
  <2>1. KeepsClaims
    BY <1>1, <1>a DEF Publish, KeepsClaims, TypeOK, workers
  <2>2. KeepsBudget
    BY <1>1, <1>a, PolicyAssumption
       DEF IInv, Unpublished, RetryBudget, Publish, KeepsBudget, TypeOK, history
  <2>3. ExactlyOnce'
    BY <1>1, <1>a DEF IInv, ExactlyOnce, Publish, TypeOK, history
  <2>4. PublishedWithEffects'
    <3> SUFFICES ASSUME NEW r \in Rows, NEW c \in Emits[r]
                 PROVE  (status[c] = "absent" <=> effects[r] = 0)'
      BY DEF PublishedWithEffects
    <3>1. c \in Rows /\ c \notin b
      BY ForestAssumption
    <3> QED BY <1>1, <3>1 DEF IInv, PublishedWithEffects, Publish, history
  <2> QED BY <1>a, <2>1, <2>2, <2>3, <2>4, ClaimsKept, BudgetKept DEF IInv
<1>2. ASSUME NEW w \in Workers, NEW b \in Handoffs, StartDispatch(w, b) PROVE IInv'
  BY <1>2, <1>a, <1>c DEF StartDispatch, BeginLoop, Quiet, TypeOK, Holding, table, history
<1>3. ASSUME NEW w \in Workers, StartSweep(w) PROVE IInv'
  <2>1. KeepsClaims
    BY <1>3, <1>a DEF StartSweep, BeginLoop, Reclaim, Expired, KeepsClaims, TypeOK, Holding
  <2>2. KeepsBudget
    BY <1>3, <1>a, PolicyAssumption
       DEF IInv, RetryBudget, StartSweep, Reclaim, Expired, KeepsBudget, TypeOK, history
  <2>3. KeepsEffects
    BY <1>3, <1>a DEF StartSweep, Reclaim, Expired, KeepsEffects, TypeOK, history
  <2> QED BY <1>b, <2>1, <2>2, <2>3
<1>4. ASSUME NEW w \in Workers, NEW r \in Rows, Claim(w, r) PROVE IInv'
  <2>1. KeepsEffects
    BY <1>4, <1>a DEF Claim, Due, KeepsEffects, TypeOK, history
  <2>2. RetryBudget' /\ Unpublished'
    BY <1>4, <1>a, PolicyAssumption
       DEF IInv, RetryBudget, Unpublished, Claim, Due, TypeOK, history
  <2>3. ClaimsDistinct'
    <3>1. ASSUME NEW v \in Workers, v # w, phase'[v] \in Holding
          PROVE  /\ phase[v] \in Holding /\ claim'[v] = claim[v]
                 /\ claim[v].row \in Rows /\ claim[v].seq \in Nat
                 /\ claim[v].seq <= claimSeq[claim[v].row]
                 /\ status[claim[v].row] # "absent"
                 /\ Fence(claim[v]) => attempts[claim[v].row] = claim[v].attempt
      <4>1. phase[v] \in Holding /\ claim'[v] = claim[v]
        BY <1>4, <1>a, <3>1 DEF Claim, TypeOK
      <4> QED BY <4>1, <1>a, HoldsClaim DEF IInv, ClaimsDistinct
    <3>2. claim'[w] = [row |-> r, seq |-> claimSeq[r] + 1, attempt |-> attempts[r] + 1]
      BY <1>4, <1>a DEF Claim, TypeOK
    <3>3. /\ status' = [status EXCEPT ![r] = "running"]
          /\ attempts' = [attempts EXCEPT ![r] = @ + 1]
          /\ claimSeq' = [claimSeq EXCEPT ![r] = @ + 1]
          /\ claimSeq[r] \in Nat /\ attempts[r] \in Nat
      BY <1>4, <1>a DEF Claim, TypeOK
    <3>4. \A v \in Workers : v # w /\ phase'[v] \in Holding =>
            /\ claim'[v].seq <= claimSeq'[claim'[v].row]
            /\ status'[claim'[v].row] # "absent"
            /\ Fence(claim[v])' => attempts'[claim'[v].row] = claim'[v].attempt
      BY <3>1, <3>3, <1>a DEF Fence, TypeOK
    <3>5. /\ claim'[w].seq <= claimSeq'[claim'[w].row]
          /\ status'[claim'[w].row] # "absent"
          /\ attempts'[claim'[w].row] = claim'[w].attempt
      BY <3>2, <3>3, <1>a DEF TypeOK
    <3>6. \A v \in Workers : v # w /\ phase'[v] \in Holding /\ claim'[v].row = r
            => claim'[v].seq # claim'[w].seq
      BY <3>1, <3>2, <3>3
    <3>7. ASSUME NEW u \in Workers, NEW v \in Workers, u # w, v # w, u # v,
                 phase'[u] \in Holding, phase'[v] \in Holding,
                 claim'[u].row = claim'[v].row
          PROVE  claim'[u].seq # claim'[v].seq
      <4>1. /\ phase[u] \in Holding /\ claim'[u] = claim[u]
            /\ phase[v] \in Holding /\ claim'[v] = claim[v]
        BY <3>1, <3>7
      <4>2. ClaimsDistinct
        BY DEF IInv
      <4> QED BY <3>7, <4>1, <4>2 DEF ClaimsDistinct
    <3>8. claim'[w].row = r
      BY <3>2
    <3> QED BY <3>4, <3>5, <3>6, <3>7, <3>8 DEF ClaimsDistinct
  <2> QED BY <1>a, <2>1, <2>2, <2>3, EffectsKept DEF IInv
<1>5. ASSUME NEW w \in Workers, EndDispatch(w) \/ Abandon(w) \/ FencedOut(w) PROVE IInv'
  <2>1. /\ UNCHANGED <<table, history>>
        /\ Released(w, "idle") \/ Released(w, "looping")
    BY <1>5 DEF EndDispatch, Abandon, FencedOut
  <2>2. Quiet
    BY <2>1, <1>a DEF Released, Quiet, TypeOK, Holding, table, history
  <2> QED BY <2>2, <1>c
<1>6. ASSUME NEW w \in Workers,
             \/ StartHandler(w) \/ UnknownHandler(w) \/ HandlerReturns(w)
             \/ HandlerFails(w) \/ CommitFails(w)
      PROVE IInv'
  <2>1. \E from, to \in Holding : Move(w, from, to)
    BY <1>6 DEF StartHandler, UnknownHandler, HandlerReturns, HandlerFails, CommitFails,
                Holding
  <2>2. Quiet
    BY <2>1, <1>a DEF Move, Quiet, TypeOK, table, history
  <2> QED BY <2>2, <1>c
<1>7. ASSUME NEW w \in Workers, NEW s \in {"pending", "dead"}, NEW delay,
             phase[w] \in Holding, Finish(claim[w], s, delay), Released(w, "looping"),
             UNCHANGED history,
             s = "pending" => claim[w].attempt < MaxAttempts
      PROVE IInv'
  <2>1. KeepsClaims
    BY <1>7, <1>a, FinishKeeps DEF Released, KeepsClaims, TypeOK, Holding
  <2>2. KeepsEffects
    BY <1>7, FinishKeeps DEF KeepsEffects, history
  <2>3. Fence(claim[w]) => attempts[claim[w].row] = claim[w].attempt
    BY <1>7 DEF IInv, ClaimsDistinct
  <2>4. KeepsBudget
    BY <1>7, <2>3, FinishKeeps DEF IInv, RetryBudget, KeepsBudget, history
  <2> QED BY <1>b, <2>1, <2>2, <2>4
<1>8. ASSUME NEW w \in Workers, RejectPayload(w) \/ RecordFailure(w) PROVE IInv'
  <2>1. phase[w] \in Holding /\ claim[w].attempt \in Nat
    BY <1>8, <1>a, HoldsClaim DEF RejectPayload, RecordFailure, Holding
  <2>2. CASE RejectPayload(w)
    BY <2>1, <2>2, <1>7 DEF RejectPayload
  <2>3. CASE RecordFailure(w)
    <3>1. CASE claim[w].attempt >= MaxAttempts
      BY <2>1, <2>3, <3>1, <1>7 DEF RecordFailure
    <3>2. CASE ~ claim[w].attempt >= MaxAttempts
      BY <2>1, <2>3, <3>2, <1>7, PolicyAssumption DEF RecordFailure
    <3> QED BY <3>1, <3>2
  <2> QED BY <1>8, <2>2, <2>3
<1>9. ASSUME NEW w \in Workers, Deliver(w) \/ DeliverUnseen(w) PROVE IInv'
  <2> DEFINE r == claim[w].row
  <2>1. /\ phase[w] \in Holding /\ r \in Rows
        /\ status[r] = "running" /\ MarkDelivered(r)
    BY <1>9, <1>a, HoldsClaim DEF Deliver, DeliverUnseen, Fence, Holding
  <2>2. effects[r] = 0 /\ \A c \in Emits[r] : status[c] = "absent"
    BY <2>1 DEF IInv, ExactlyOnce, PublishedWithEffects
  <2>3. Emits[r] \subseteq Rows /\ r \notin Emits[r]
    BY <2>1, ForestAssumption
  <2>4. \A v \in Workers : phase'[v] \in Holding =>
            phase[v] \in Holding /\ claim'[v] = claim[v]
    BY <1>9, <1>a DEF Deliver, DeliverUnseen, Released, TypeOK, Holding
  <2>5. KeepsClaims
    BY <2>1, <2>4 DEF MarkDelivered, KeepsClaims
  <2>6. KeepsBudget
    BY <2>1, <2>2, <2>3, PolicyAssumption
       DEF MarkDelivered, KeepsBudget, IInv, Unpublished, RetryBudget
  <2>7. ExactlyOnce'
    BY <2>1, <2>2, <2>3, <1>a DEF MarkDelivered, IInv, ExactlyOnce, TypeOK
  <2>8. PublishedWithEffects'
    <3> SUFFICES ASSUME NEW q \in Rows, NEW c \in Emits[q]
                 PROVE  (status[c] = "absent" <=> effects[q] = 0)'
      BY DEF PublishedWithEffects
    <3>1. c \in Rows /\ (c \in Emits[r] => q = r)
      BY <2>1, ForestAssumption
    <3>2. CASE q = r
      BY <2>1, <2>2, <2>3, <3>1, <3>2, <1>a DEF MarkDelivered, TypeOK
    <3>3. CASE q # r
      <4>1. effects'[q] = effects[q] /\ c \notin Emits[r]
        BY <2>1, <3>1, <3>3, <1>a DEF MarkDelivered, TypeOK
      <4>2. status'[c] = "absent" <=> status[c] = "absent"
        BY <2>1, <3>1, <4>1 DEF MarkDelivered
      <4> QED BY <4>1, <4>2 DEF IInv, PublishedWithEffects
    <3> QED BY <3>2, <3>3
  <2> QED BY <1>a, <2>5, <2>6, <2>7, <2>8, ClaimsKept, BudgetKept DEF IInv
<1>10. ASSUME NEW r \in Rows, AdminRetry(r) PROVE IInv'
  <2>1. KeepsClaims
    BY <1>10, <1>a DEF AdminRetry, KeepsClaims, TypeOK, workers
  <2>2. KeepsEffects
    BY <1>10, <1>a DEF AdminRetry, KeepsEffects, TypeOK
  <2>3. Unpublished'
    BY <1>10, <1>a DEF AdminRetry, IInv, Unpublished, TypeOK
  <2>4. claimSeq[r] <= MaxAttempts * (retries[r] + 1) + 0
    BY <1>a, FreshBudget, PolicyAssumption DEF IInv, RetryBudget, TypeOK
  <2>5. RetryBudget'
    BY <1>10, <1>a, <2>4, PolicyAssumption DEF AdminRetry, IInv, RetryBudget, TypeOK
  <2> QED BY <1>a, <2>1, <2>2, <2>3, <2>5, ClaimsKept, EffectsKept DEF IInv
<1>11. ASSUME NEW r \in Rows, AdminDiscard(r) \/ Purge(r) PROVE IInv'
  <2>1. KeepsClaims
    BY <1>11, <1>a DEF AdminDiscard, Purge, KeepsClaims, TypeOK, workers
  <2>2. KeepsBudget
    BY <1>11, <1>a DEF AdminDiscard, Purge, KeepsBudget, IInv, RetryBudget, TypeOK, history
  <2>3. KeepsEffects
    BY <1>11, <1>a DEF AdminDiscard, Purge, KeepsEffects, TypeOK, history
  <2> QED BY <1>b, <2>1, <2>2, <2>3
<1>12. CASE Tick
  BY <1>12, <1>c DEF Tick, Quiet, history
<1>13. CASE UNCHANGED vars
  BY <1>13, <1>c DEF vars, Quiet
<1> QED BY <1>1, <1>2, <1>3, <1>4, <1>5, <1>6, <1>8, <1>9, <1>10, <1>11, <1>12, <1>13
        DEF Next, WorkerStep, DeliveryStep

LEMMA Inductive == Spec => []IInv
BY InitIInv, InvStep, PTL DEF Spec

(* Database effects land exactly once, whatever the interleaving of        *)
(* workers, crashes, lost answers, retries and reclaims.                   *)
THEOREM EffectsExactlyOnce == Spec => []ExactlyOnce
BY Inductive, PTL DEF IInv

(* An event published by a handler exists exactly when the handler's       *)
(* effects were committed.                                                 *)
THEOREM EventsWithEffects == Spec => []PublishedWithEffects
BY Inductive, PTL DEF IInv

(* No row is claimed more often than its budget and its retries allow.     *)
THEOREM BudgetRespected == Spec => []RetryBudget
BY Inductive, PTL DEF IInv

(* The claim sequence tells the claims of a row apart.                     *)
THEOREM ClaimsToldApart == Spec => []ClaimsDistinct
BY Inductive, PTL DEF IInv
-----------------------------------------------------------------------------
(* The fence.                                                              *)

LEMMA HolderStep == IInv /\ [Next]_vars => HolderEnds
<1> SUFFICES ASSUME IInv, [Next]_vars, NEW r \in Rows,
                    status[r] = "running", lease[r] >= 0, status'[r] # "running"
             PROVE  \E w \in Workers :
                      /\ phase[w] \in Holding /\ phase'[w] # phase[w]
                      /\ claim[w].row = r /\ claim[w].seq = claimSeq[r]
  BY DEF HolderEnds
<1>a. TypeOK
  BY DEF IInv
<1>1. ASSUME NEW w \in Workers, phase[w] \in Holding, phase'[w] # phase[w],
             claim[w].row = r, Fence(claim[w])
      PROVE  \E v \in Workers :
               /\ phase[v] \in Holding /\ phase'[v] # phase[v]
               /\ claim[v].row = r /\ claim[v].seq = claimSeq[r]
  BY <1>1 DEF Fence
<1>2. ASSUME NEW w \in Workers, Deliver(w) \/ DeliverUnseen(w)
      PROVE  /\ phase[w] \in Holding /\ phase'[w] # phase[w]
             /\ claim[w].row = r /\ Fence(claim[w])
  <2>1. /\ phase[w] = "returned" /\ Fence(claim[w]) /\ MarkDelivered(claim[w].row)
        /\ phase'[w] \in {"looping", "failed"}
    BY <1>2, <1>a DEF Deliver, DeliverUnseen, Released, TypeOK
  <2>2. claim[w].row \in Rows
    BY <1>a, <2>1, HoldsClaim DEF Holding
  <2>3. \A c \in Emits[claim[w].row] : status[c] = "absent"
    BY <2>1, <2>2 DEF IInv, ExactlyOnce, PublishedWithEffects, Fence
  <2> QED BY <2>1, <2>2, <2>3 DEF MarkDelivered, Holding
<1>3. ASSUME NEW w \in Workers, RejectPayload(w) \/ RecordFailure(w)
      PROVE  /\ phase[w] \in Holding /\ phase'[w] # phase[w]
             /\ claim[w].row = r /\ Fence(claim[w])
  <2>1. /\ phase[w] \in Holding /\ phase'[w] = "looping"
        /\ \E s, delay : Finish(claim[w], s, delay)
    BY <1>3, <1>a DEF RejectPayload, RecordFailure, Released, Holding, TypeOK
  <2> QED BY <1>a, <2>1 DEF Finish, Holding, TypeOK
<1>4. ASSUME NEW w \in Workers, StartSweep(w) PROVE FALSE
  BY <1>4, <1>a DEF StartSweep, Reclaim, Expired, TypeOK
<1>5. ASSUME NEW b \in Requests, Publish(b) PROVE FALSE
  BY <1>5 DEF Publish
<1>6. ASSUME NEW w \in Workers, NEW q \in Rows, Claim(w, q) PROVE FALSE
  BY <1>6, <1>a DEF Claim, TypeOK
<1>7. ASSUME NEW q \in Rows, AdminRetry(q) \/ AdminDiscard(q) \/ Purge(q) PROVE FALSE
  BY <1>7, <1>a DEF AdminRetry, AdminDiscard, Purge, TypeOK
<1>8. status' = status => FALSE
  OBVIOUS
<1> QED BY <1>1, <1>2, <1>3, <1>4, <1>5, <1>6, <1>7, <1>8
        DEF Next, WorkerStep, DeliveryStep, StartDispatch, EndDispatch, Abandon, FencedOut,
            StartHandler, UnknownHandler, HandlerReturns, HandlerFails, CommitFails, Move,
            Tick, vars, table

(* Until its lease is out a running row is ended by nobody but the worker  *)
(* that made its latest claim.                                             *)
THEOREM HolderAlone == Spec => OnlyHolderEnds
<1>1. IInv /\ [Next]_vars => [HolderEnds]_vars
  BY HolderStep
<1> QED BY <1>1, Inductive, PTL DEF Spec, OnlyHolderEnds
-----------------------------------------------------------------------------
(* Punctual workers.                                                       *)

(* While a punctual worker is on its way to its handler or in it, its      *)
(* claim is the row's latest and the lease covers the time it may still    *)
(* take.                                                                   *)
LeaseCovers ==
    \A w \in Punctual :
        /\ phase[w] = "claimed" =>
             /\ Fence(claim[w])
             /\ age[w] <= Margin /\ lease[claim[w].row] >= Lease - age[w]
        /\ phase[w] = "running" =>
             /\ Fence(claim[w])
             /\ age[w] <= HandlerTimeout
             /\ lease[claim[w].row] >= HandlerTimeout - age[w]

(* A step that leaves worker w and the row it covers as they are.          *)
Undisturbed(w) ==
    phase'[w] \in {"claimed", "running"} =>
        /\ phase'[w] = phase[w] /\ claim'[w] = claim[w] /\ age'[w] = age[w]
        /\ Fence(claim[w]) /\ lease[claim[w].row] >= 0 =>
             /\ status'[claim[w].row] = "running"
             /\ lease'[claim[w].row] = lease[claim[w].row]
             /\ claimSeq'[claim[w].row] = claimSeq[claim[w].row]

(* One worker's part of LeaseCovers.                                       *)
Covered(w) ==
    /\ phase[w] = "claimed" =>
         /\ Fence(claim[w])
         /\ age[w] <= Margin /\ lease[claim[w].row] >= Lease - age[w]
    /\ phase[w] = "running" =>
         /\ Fence(claim[w])
         /\ age[w] <= HandlerTimeout
         /\ lease[claim[w].row] >= HandlerTimeout - age[w]

LEMMA UndisturbedCovered ==
    ASSUME TypeOK, NEW w \in Workers, Covered(w), Undisturbed(w)
    PROVE  Covered(w)'
<1>1. CASE phase'[w] \in {"claimed", "running"}
  <2>1. claim[w].row \in Rows /\ age[w] \in Nat /\ lease[claim[w].row] \in Int
    BY <1>1, HoldsClaim, PolicyAssumption DEF TypeOK, Undisturbed, Holding
  <2>2. Fence(claim[w]) /\ lease[claim[w].row] >= 0
    BY <1>1, <2>1, PolicyAssumption DEF Covered, Undisturbed, Margin
  <2> QED BY <1>1, <2>1, <2>2 DEF Covered, Undisturbed, Fence
<1>2. CASE phase'[w] \notin {"claimed", "running"}
  BY <1>2 DEF Covered
<1> QED BY <1>1, <1>2

(* Two claims on one row cannot both pass the fence.                       *)
LEMMA OneFenced ==
    ASSUME IInv, NEW v \in Workers, NEW w \in Workers, v # w,
           phase[v] \in Holding, phase[w] \in Holding,
           Fence(claim[v]), Fence(claim[w])
    PROVE  claim[v].row # claim[w].row
BY DEF IInv, ClaimsDistinct, Fence

LEMMA CoverStep ==
    IInv /\ LeaseCovers /\ [Next]_vars => LeaseCovers'
<1> SUFFICES ASSUME IInv, LeaseCovers, [Next]_vars, NEW w \in Punctual
             PROVE  Covered(w)'
  BY DEF LeaseCovers, Covered
<1> USE PolicyAssumption
<1>w. w \in Workers
  OBVIOUS
<1> USE <1>w
<1>a. TypeOK /\ Covered(w)
  BY DEF IInv, LeaseCovers, Covered
<1>b. Undisturbed(w) => Covered(w)'
  BY <1>a, UndisturbedCovered
<1>c. phase[w] \in {"claimed", "running"} => claim[w].row \in Rows
  BY <1>a, HoldsClaim DEF Holding
<1>1. ASSUME NEW b \in Requests, Publish(b) PROVE Undisturbed(w)
  BY <1>1, <1>a, <1>c DEF Publish, Undisturbed, Fence, TypeOK, workers
<1>2. ASSUME NEW v \in Workers, NEW b \in Handoffs, StartDispatch(v, b) PROVE Undisturbed(w)
  BY <1>2, <1>a DEF StartDispatch, BeginLoop, Undisturbed, Fence, TypeOK, table
<1>3. ASSUME NEW v \in Workers, StartSweep(v) PROVE Undisturbed(w)
  BY <1>3, <1>a, <1>c
     DEF StartSweep, BeginLoop, Reclaim, Expired, Undisturbed, Fence, TypeOK
<1>4. ASSUME NEW v \in Workers, NEW r \in Rows, Claim(v, r) PROVE Covered(w)'
  <2>1. CASE v = w
    <3>1. /\ claim'[w].row = r /\ claim'[w].seq = claimSeq'[r]
          /\ status'[r] = "running" /\ lease'[r] = Lease
          /\ age'[w] = 0 /\ phase'[w] = "claimed"
      BY <1>4, <2>1, <1>a DEF Claim, TypeOK
    <3> QED BY <3>1 DEF Covered, Fence, Margin
  <2>2. CASE v # w
    <3>1. phase'[w] = phase[w] /\ claim'[w] = claim[w] /\ age'[w] = age[w]
      BY <1>4, <2>2, <1>a DEF Claim, TypeOK
    <3>2. Undisturbed(w)
      BY <1>4, <3>1, <1>a, <1>c DEF Claim, Due, Undisturbed, Fence, TypeOK
    <3> QED BY <3>2, <1>b
  <2> QED BY <2>1, <2>2
<1>5. ASSUME NEW v \in Workers, EndDispatch(v) \/ Abandon(v) \/ FencedOut(v)
      PROVE  Undisturbed(w)
  <2>1. /\ UNCHANGED table
        /\ Released(v, "idle") \/ Released(v, "looping")
    BY <1>5 DEF EndDispatch, Abandon, FencedOut
  <2> QED BY <2>1, <1>a DEF Released, Undisturbed, Fence, TypeOK, table
<1>6. ASSUME NEW v \in Workers,
             \/ UnknownHandler(v) \/ HandlerReturns(v) \/ HandlerFails(v) \/ CommitFails(v)
      PROVE  Undisturbed(w)
  <2>1. \E from \in Holding, to \in {"failed", "returned"} : Move(v, from, to)
    BY <1>6 DEF UnknownHandler, HandlerReturns, HandlerFails, CommitFails, Holding
  <2> QED BY <2>1, <1>a DEF Move, Undisturbed, Fence, TypeOK, table
<1>7. ASSUME NEW v \in Workers, StartHandler(v) PROVE Covered(w)'
  <2>1. CASE v = w
    <3>1. /\ phase[w] = "claimed" /\ phase'[w] = "running" /\ age'[w] = 0
          /\ UNCHANGED <<claim, lease, status, claimSeq>>
      BY <1>7, <2>1, <1>a DEF StartHandler, Move, TypeOK, table
    <3>2. age[w] \in Nat /\ lease[claim[w].row] \in Int
      BY <3>1, <1>a, <1>c DEF TypeOK
    <3> QED BY <3>1, <3>2, <1>a DEF Covered, Fence, Margin
  <2>2. CASE v # w
    <3>1. Undisturbed(w)
      BY <1>7, <2>2, <1>a DEF StartHandler, Move, Undisturbed, Fence, TypeOK, table
    <3> QED BY <3>1, <1>b
  <2> QED BY <2>1, <2>2
<1>8. ASSUME NEW v \in Workers, RejectPayload(v) \/ RecordFailure(v) PROVE Undisturbed(w)
  <2>1. /\ phase[v] \in Holding /\ Released(v, "looping")
        /\ \E s, delay : Finish(claim[v], s, delay)
    BY <1>8 DEF RejectPayload, RecordFailure, Holding
  <2>2. CASE v = w
    BY <2>1, <2>2, <1>a DEF Released, Undisturbed, TypeOK
  <2>3. CASE v # w
    <3>1. phase'[w] = phase[w] /\ claim'[w] = claim[w] /\ age'[w] = age[w]
      BY <2>1, <2>3, <1>a DEF Released, TypeOK
    <3>2. phase[w] \in Holding /\ Fence(claim[w]) /\ Fence(claim[v])
            => claim[v].row # claim[w].row
      BY <2>1, <2>3, OneFenced
    <3>3. claim[v].row \in Rows
      BY <2>1, <1>a, HoldsClaim
    <3> QED BY <2>1, <3>1, <3>2, <3>3, <1>a, <1>c
            DEF Finish, Undisturbed, Fence, TypeOK, Holding
  <2> QED BY <2>2, <2>3
<1>9. ASSUME NEW v \in Workers, Deliver(v) \/ DeliverUnseen(v) PROVE Undisturbed(w)
  <2>1. /\ phase[v] = "returned" /\ Fence(claim[v]) /\ MarkDelivered(claim[v].row)
        /\ \/ Released(v, "looping")
           \/ phase' = [phase EXCEPT ![v] = "failed"] /\ UNCHANGED <<claim, age>>
    BY <1>9 DEF Deliver, DeliverUnseen
  <2>2. CASE v = w
    BY <2>1, <2>2, <1>a DEF Released, Undisturbed, TypeOK
  <2>3. CASE v # w
    <3>1. phase'[w] = phase[w] /\ claim'[w] = claim[w] /\ age'[w] = age[w]
      BY <2>1, <2>3, <1>a DEF Released, TypeOK
    <3>2. phase[w] \in Holding /\ Fence(claim[w]) => claim[v].row # claim[w].row
      BY <2>1, <2>3, OneFenced DEF Holding
    <3>3. /\ claim[v].row \in Rows
          /\ \A c \in Emits[claim[v].row] : status[c] = "absent"
      <4>1. claim[v].row \in Rows
        BY <2>1, <1>a, HoldsClaim DEF Holding
      <4> QED BY <2>1, <4>1 DEF IInv, ExactlyOnce, PublishedWithEffects, Fence
    <3> QED BY <2>1, <3>1, <3>2, <3>3, <1>a, <1>c
            DEF MarkDelivered, Undisturbed, Fence, TypeOK, Holding
  <2> QED BY <2>2, <2>3
<1>10. ASSUME NEW r \in Rows, AdminRetry(r) \/ AdminDiscard(r) \/ Purge(r)
       PROVE  Undisturbed(w)
  <2>1. /\ status[r] # "running"
        /\ \E s : status' = [status EXCEPT ![r] = s]
        /\ lease' = lease \/ lease' = [lease EXCEPT ![r] = -1]
        /\ UNCHANGED <<claimSeq, phase, claim, age>>
    BY <1>10 DEF AdminRetry, AdminDiscard, Purge, workers
  <2> QED BY <2>1, <1>a, <1>c DEF Undisturbed, Fence, TypeOK
<1>11. ASSUME Tick PROVE Covered(w)'
  <2>1. CASE phase[w] \in {"claimed", "running"}
    <3>1. /\ ~Overdue(w) /\ age'[w] = age[w] + 1
          /\ UNCHANGED <<phase, claim, status, claimSeq>>
      BY <1>11, <2>1, <1>a DEF Tick, TypeOK
    <3>2. age[w] \in Nat /\ lease[claim[w].row] \in Int /\ claim[w].row \in Rows
      BY <2>1, <1>a, <1>c DEF TypeOK
    <3>3. lease[claim[w].row] >= 0 => lease'[claim[w].row] = lease[claim[w].row] - 1
      BY <1>11, <3>2 DEF Tick
    <3> QED BY <2>1, <3>1, <3>2, <3>3, <1>a DEF Covered, Overdue, Margin, Fence
  <2>2. CASE phase[w] \notin {"claimed", "running"}
    BY <1>11, <2>2 DEF Tick, Covered
  <2> QED BY <2>1, <2>2
<1>12. ASSUME UNCHANGED vars PROVE Undisturbed(w)
  BY <1>12 DEF vars, Undisturbed, Fence
<1> QED BY <1>b, <1>1, <1>2, <1>3, <1>4, <1>5, <1>6, <1>7, <1>8, <1>9, <1>10, <1>11, <1>12
        DEF Next, WorkerStep, DeliveryStep

(* Nobody else is given a row that a punctual worker is running.           *)
THEOREM NeverOverlaps == Spec => []NoOverlap
<1>1. Init => LeaseCovers
  BY PolicyAssumption DEF Init, LeaseCovers
<1>2. IInv /\ LeaseCovers => NoOverlap
  <2> SUFFICES ASSUME IInv, LeaseCovers, NEW v \in Punctual, NEW w \in Workers, v # w,
                      phase[v] = "running", phase[w] = "running", claim[v].row = claim[w].row
               PROVE  w \notin Punctual /\ claim[w].seq < claim[v].seq
    BY DEF NoOverlap
  <2>1. v \in Workers /\ Fence(claim[v])
    BY PolicyAssumption DEF LeaseCovers
  <2>2. /\ claim[w].seq <= claimSeq[claim[w].row] /\ claim[v].seq = claimSeq[claim[v].row]
        /\ claim[v].seq # claim[w].seq
    BY <2>1 DEF IInv, ClaimsDistinct, Holding, Fence
  <2>3. claim[v].row \in Rows /\ claim[w].seq \in Nat /\ claim[v].seq \in Nat
    BY <2>1, HoldsClaim DEF IInv, TypeOK, Holding
  <2>4. w \in Punctual => Fence(claim[w])
    BY DEF LeaseCovers
  <2> QED BY <2>2, <2>3, <2>4 DEF Fence
<1> QED BY <1>1, <1>2, CoverStep, Inductive, PTL DEF Spec
-----------------------------------------------------------------------------
(* The outbox implements DurableDelivery.                                  *)

LEMMA InitPromise == Init => Promise!Init
BY DEF Init, Promise!Init, Stage

LEMMA StutterPromise ==
    ASSUME effects' = effects, \A r \in Rows : Stage(r)' = Stage(r)
    PROVE  UNCHANGED Promise!vars
BY DEF Promise!vars

LEMMA GiveUpPromise ==
    ASSUME effects' = effects, NEW S \in SUBSET Rows,
           \A r \in S : Stage(r) = "open" /\ Stage(r)' = "dead",
           \A r \in Rows \ S : Stage(r)' = Stage(r)
    PROVE  [Promise!Next]_(Promise!vars)
<1>1. CASE S = {}
  BY <1>1, StutterPromise
<1>2. CASE S # {}
  <2>1. Promise!GiveUp(S)
    BY <1>2 DEF Promise!GiveUp
  <2> QED BY <2>1 DEF Promise!Next
<1> QED BY <1>1, <1>2

LEMMA StepPromise == IInv /\ [Next]_vars => [Promise!Next]_(Promise!vars)
<1> SUFFICES ASSUME IInv, [Next]_vars PROVE [Promise!Next]_(Promise!vars)
  OBVIOUS
<1>a. TypeOK
  BY DEF IInv
<1>1. ASSUME NEW b \in Requests, Publish(b) PROVE Promise!Publish(b)
  BY <1>1, ForestAssumption DEF Publish, Promise!Publish, Stage, history
<1>2. ASSUME NEW w \in Workers, NEW r \in Rows, Claim(w, r) PROVE UNCHANGED Promise!vars
  BY <1>2, <1>a, StutterPromise DEF Claim, Due, Stage, TypeOK, history
<1>3. ASSUME NEW w \in Workers, StartSweep(w) PROVE [Promise!Next]_(Promise!vars)
  <2> DEFINE S == {r \in Rows : Expired(r) /\ attempts[r] >= MaxAttempts}
  <2>1. \A r \in S : Stage(r) = "open" /\ Stage(r)' = "dead"
    BY <1>3 DEF StartSweep, Reclaim, Expired, Stage
  <2>2. \A r \in Rows \ S : Stage(r)' = Stage(r)
    BY <1>3 DEF StartSweep, Reclaim, Expired, Stage
  <2>3. effects' = effects
    BY <1>3 DEF StartSweep, history
  <2> HIDE DEF S
  <2>4. S \in SUBSET Rows
    BY DEF S
  <2> QED BY <2>1, <2>2, <2>3, <2>4, GiveUpPromise
<1>4. ASSUME NEW w \in Workers, NEW s \in {"pending", "dead"}, NEW delay,
             phase[w] \in Holding, Finish(claim[w], s, delay), effects' = effects
      PROVE  [Promise!Next]_(Promise!vars)
  <2> DEFINE r == claim[w].row
  <2>1. r \in Rows
    BY <1>4, <1>a, HoldsClaim
  <2>2. CASE Fence(claim[w]) /\ s = "dead"
    <3>1. \A q \in {r} : Stage(q) = "open" /\ Stage(q)' = "dead"
      BY <1>4, <2>1, <2>2, <1>a DEF Finish, Fence, Stage, TypeOK
    <3>2. \A q \in Rows \ {r} : Stage(q)' = Stage(q)
      BY <1>4, <2>1, <2>2, <1>a DEF Finish, Fence, Stage, TypeOK
    <3>3. {r} \in SUBSET Rows
      BY <2>1
    <3> QED BY <1>4, <3>1, <3>2, <3>3, GiveUpPromise
  <2>3. CASE ~(Fence(claim[w]) /\ s = "dead")
    <3>1. \A q \in Rows : Stage(q)' = Stage(q)
      BY <1>4, <2>1, <2>3, <1>a DEF Finish, Fence, Stage, TypeOK
    <3> QED BY <1>4, <3>1, StutterPromise
  <2> QED BY <2>2, <2>3
<1>5. ASSUME NEW w \in Workers, RejectPayload(w) \/ RecordFailure(w)
      PROVE  [Promise!Next]_(Promise!vars)
  <2>1. /\ phase[w] \in Holding /\ effects' = effects
        /\ \E delay : \E s \in {"pending", "dead"} : Finish(claim[w], s, delay)
    BY <1>5 DEF RejectPayload, RecordFailure, Holding, history
  <2> QED BY <2>1, <1>4
<1>6. ASSUME NEW w \in Workers, Deliver(w) \/ DeliverUnseen(w)
      PROVE  Promise!Deliver(claim[w].row) /\ claim[w].row \in Rows
  <2> DEFINE r == claim[w].row
  <2>1. /\ r \in Rows /\ status[r] = "running" /\ MarkDelivered(r)
    BY <1>6, <1>a, HoldsClaim DEF Deliver, DeliverUnseen, Fence, Holding
  <2>2. \A c \in Emits[r] : c \in Rows /\ c # r /\ status[c] = "absent"
    BY <2>1, ForestAssumption DEF IInv, ExactlyOnce, PublishedWithEffects
  <2>3. Stage(r) = "open" /\ \A c \in Emits[r] : Stage(c) = "none"
    BY <2>1, <2>2 DEF Stage
  <2>4. \A q \in Rows : Stage(q)' = IF q = r THEN "delivered"
                                    ELSE IF q \in Emits[r] THEN "open" ELSE Stage(q)
    BY <2>1 DEF MarkDelivered, Stage
  <2> QED BY <2>1, <2>2, <2>3, <2>4 DEF Promise!Deliver, MarkDelivered
<1>7. ASSUME NEW r \in Rows, AdminRetry(r) PROVE Promise!Retry(r)
  BY <1>7, <1>a DEF AdminRetry, Promise!Retry, Stage, TypeOK
<1>8. ASSUME NEW r \in Rows, AdminDiscard(r) PROVE Promise!Discard(r)
  BY <1>8, <1>a DEF AdminDiscard, Promise!Discard, Stage, TypeOK, history
<1>9. ASSUME NEW r \in Rows, Purge(r) PROVE UNCHANGED Promise!vars
  BY <1>9, <1>a, StutterPromise DEF Purge, Stage, TypeOK, history
<1>10. status' = status /\ effects' = effects => UNCHANGED Promise!vars
  BY StutterPromise DEF Stage
<1>11. [Promise!Next]_(Promise!vars) \/ (status' = status /\ effects' = effects)
  BY <1>1, <1>2, <1>3, <1>5, <1>6, <1>7, <1>8, <1>9
     DEF Next, WorkerStep, DeliveryStep, StartDispatch, EndDispatch, Abandon, FencedOut,
         StartHandler, UnknownHandler, HandlerReturns, HandlerFails, CommitFails, Move,
         Tick, vars, table, history, Promise!Next
<1> QED BY <1>10, <1>11

(* The outbox keeps the promise of DurableDelivery: every behaviour of the *)
(* claims, leases and fences is one in which messages are published,       *)
(* delivered once with their effects, given up, retried and discarded.     *)
THEOREM Implements == Spec => KeepsPromise
BY InitPromise, StepPromise, Inductive, PTL DEF Spec, KeepsPromise, Promise!Spec

=============================================================================
