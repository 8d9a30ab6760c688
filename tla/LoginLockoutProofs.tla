-------------------------- MODULE LoginLockoutProofs --------------------------
(***************************************************************************)
(* Proofs about LoginLockout, for any number of attempts and any settings  *)
(* that LockoutConstants allows.                                           *)
(*                                                                         *)
(* That the guesses of a period stay below the threshold is not inductive: *)
(* they are bounded because the row remembers each of them.  PeriodInv     *)
(* says how: they are still in the count, or a lock written during the     *)
(* period outlasts it; and the last of them is too recent for the window   *)
(* to restart before the period ends.                                      *)
(***************************************************************************)
EXTENDS LoginLockout, TLAPS

PeriodInv ==
    /\ span = Off => guesses = 0
    /\ span # Off =>
         /\ guesses <= Threshold
         /\ guesses <= count \/ locked > Period - span
         /\ guesses > 0 => quiet <= span + MaxDelay

IInv == TypeOK /\ PeriodInv

Try == [at : {"idle", "begun", "looked", "checking", "tripped", "locking"},
        age : 0..MaxDelay, last : BOOLEAN, counted : BOOLEAN]

USE DEF Off, Old, Unset, Lapsed, NoLock

-----------------------------------------------------------------------------
LEMMA Numbers ==
    /\ Threshold \in Nat /\ Threshold >= 1
    /\ Window \in Nat /\ Cooldown \in Nat /\ MaxDelay \in Nat /\ Period \in Nat
    /\ Period + MaxDelay <= Window
    /\ Period + MaxDelay < Cooldown
BY LockoutConstants

LEMMA Types ==
    ASSUME TypeOK
    PROVE  /\ try \in [Attempts -> Try]
           /\ \A a \in Attempts : try[a] \in Try /\ try[a].age \in 0..MaxDelay
           /\ count \in 0..Threshold /\ quiet \in 0..Unset /\ locked \in NoLock..Cooldown
           /\ span \in Off..Period /\ guesses \in Nat
BY DEF TypeOK, Try

LEMMA InitIInv == Init => IInv
BY Numbers DEF Init, IInv, TypeOK, PeriodInv, Idle, NoEdit

-----------------------------------------------------------------------------
(* Where an attempt goes has no effect on the invariant but for its type.  *)
LEMMA Going ==
    ASSUME TypeOK, NEW a \in Attempts, NEW v \in Try, try' = [try EXCEPT ![a] = v]
    PROVE  try' \in [Attempts -> Try]
BY Types

LEMMA GoTyped ==
    ASSUME TypeOK, NEW a \in Attempts,
           NEW from, NEW to \in {"begun", "looked", "checking", "tripped", "locking"},
           Go(a, from, to)
    PROVE  try' \in [Attempts -> Try]
BY Types DEF Go, Try

LEMMA EndTyped ==
    ASSUME TypeOK, NEW a \in Attempts, End(a)
    PROVE  try' \in [Attempts -> Try]
<1>1. Idle \in Try
  BY Numbers DEF Idle, Try
<1> QED BY <1>1, Types DEF End

(* A step that leaves the row and the period alone keeps the invariant.    *)
LEMMA RowUntouched ==
    ASSUME IInv, try' \in [Attempts -> Try], UNCHANGED <<row, edit, history>>
    PROVE  IInv'
BY DEF IInv, TypeOK, PeriodInv, Try, row, history

(* So does one that ends the period, whatever it makes of the row.         *)
LEMMA PeriodEnds ==
    ASSUME IInv, NoPeriod, try' \in [Attempts -> Try],
           count' \in 0..Threshold, quiet' \in 0..Unset, locked' \in NoLock..Cooldown,
           edit' = edit \/ edit' = NoEdit
    PROVE  IInv'
<1>1. span' = Off /\ guesses' = 0 /\ Off \in Off..Period
  BY Numbers DEF NoPeriod
<1>2. edit' \in [at : {"idle", "read"}, count : BOOLEAN, quiet : BOOLEAN, locked : BOOLEAN]
  <2>1. edit \in [at : {"idle", "read"}, count : BOOLEAN, quiet : BOOLEAN, locked : BOOLEAN]
    BY DEF IInv, TypeOK
  <2>2. NoEdit \in [at : {"idle", "read"}, count : BOOLEAN, quiet : BOOLEAN, locked : BOOLEAN]
    BY DEF NoEdit
  <2> QED BY <2>1, <2>2
<1>3. TypeOK'
  BY <1>1, <1>2 DEF TypeOK, Try
<1>4. PeriodInv'
  BY <1>1 DEF PeriodInv
<1> QED BY <1>3, <1>4 DEF IInv

LEMMA TakeSlotKept ==
    ASSUME IInv, NEW a \in Attempts, TakeSlot(a)
    PROVE  IInv'
<1> DEFINE n == IF Stale(a) THEN 1 ELSE count + 1
<1>1. /\ TypeOK /\ try[a].age \in 0..MaxDelay /\ count \in 0..Threshold
      /\ quiet \in 0..Unset /\ locked \in NoLock..Cooldown
      /\ span \in Off..Period /\ guesses \in Nat
  BY Types DEF IInv
<1>2. /\ count' = n /\ quiet' = try[a].age
      /\ try' = [try EXCEPT ![a].at = "checking", ![a].last = (n >= Threshold)]
      /\ guesses' = IF span = Off THEN guesses ELSE guesses + 1
      /\ locked' = locked /\ edit' = edit /\ span' = span
  BY DEF TakeSlot
<1>3. locked + try[a].age <= 0 /\ (quiet > Window + try[a].age \/ count < Threshold)
  BY <1>1, Numbers DEF TakeSlot, SlotFree, LockHolds, Stale
<1>4. n \in 1..Threshold /\ (quiet > Window + try[a].age \/ n = count + 1)
  BY <1>1, <1>3, Numbers DEF Stale
<1>5. try' \in [Attempts -> Try]
  <2> DEFINE v == [try[a] EXCEPT !.at = "checking", !.last = (n >= Threshold)]
  <2>1. try[a] \in Try /\ (n >= Threshold) \in BOOLEAN
    BY <1>1, Types
  <2>2. v \in Try
    BY <2>1 DEF Try
  <2>3. try' = [try EXCEPT ![a] = v]
    BY <1>2
  <2> QED BY <1>1, <2>2, <2>3, Going
<1> HIDE DEF n
<1>6. TypeOK'
  <2>1. count' \in 0..Threshold /\ quiet' \in 0..Unset /\ guesses' \in Nat
    BY <1>1, <1>2, <1>4, Numbers
  <2> QED BY <1>1, <1>2, <1>5, <2>1 DEF TypeOK, Try
<1>7. PeriodInv'
  <2>1. CASE span = Off
    BY <1>2, <2>1 DEF PeriodInv, IInv
  <2>2. CASE span # Off
    <3>1. guesses <= count /\ (guesses > 0 => quiet <= span + MaxDelay)
      BY <1>1, <1>3, <2>2, Numbers DEF IInv, PeriodInv
    <3>2. guesses + 1 <= n
      \* the window restarts only before the first guess of the period
      BY <1>1, <1>4, <2>2, <3>1, Numbers
    <3>3. guesses' = guesses + 1 /\ span' # Off
      BY <1>2, <2>2
    <3> QED BY <1>1, <1>2, <1>4, <2>2, <3>2, <3>3, Numbers DEF PeriodInv
  <2> QED BY <2>1, <2>2
<1> QED BY <1>6, <1>7 DEF IInv

LEMMA LockKept ==
    ASSUME IInv, NEW a \in Attempts, Lock(a)
    PROVE  IInv'
<1>1. /\ TypeOK /\ try[a].age \in 0..MaxDelay /\ count \in 0..Threshold
      /\ quiet \in 0..Unset /\ span \in Off..Period /\ guesses \in Nat
  BY Types DEF IInv
<1>2. /\ locked' = Cooldown - try[a].age
      /\ count' = (IF try[a].counted THEN 0 ELSE count)
      /\ End(a) /\ quiet' = quiet /\ edit' = edit /\ span' = span /\ guesses' = guesses
  BY DEF Lock, history
<1>3. locked' \in NoLock..Cooldown /\ locked' > Period /\ count' \in 0..Threshold
  BY <1>1, <1>2, Numbers
<1>4. try' \in [Attempts -> Try]
  BY <1>1, <1>2, EndTyped
<1>5. TypeOK'
  BY <1>1, <1>2, <1>3, <1>4 DEF TypeOK, Try
<1>6. PeriodInv'
  BY <1>1, <1>2, <1>3, Numbers DEF PeriodInv, IInv
<1> QED BY <1>5, <1>6 DEF IInv

LEMMA AttemptKept ==
    ASSUME IInv, NEW a \in Attempts, Begin(a) \/ Settle(a)
    PROVE  IInv'
<1>1. TypeOK /\ count \in 0..Threshold /\ quiet \in 0..Unset /\ locked \in NoLock..Cooldown
  BY Types DEF IInv
<1>2. CASE Begin(a)
  BY <1>1, <1>2, GoTyped, RowUntouched DEF Begin
<1>3. CASE Look(a)
  <2>1. try' \in [Attempts -> Try]
    BY <1>1, <1>3, GoTyped, EndTyped DEF Look
  <2> QED BY <1>3, <2>1, RowUntouched DEF Look
<1>4. CASE TakeSlot(a)
  BY <1>4, TakeSlotKept
<1>5. CASE Refuse(a)
  BY <1>1, <1>5, EndTyped, RowUntouched DEF Refuse
<1>6. CASE Wrong(a)
  <2>1. try' \in [Attempts -> Try]
    BY <1>1, <1>6, GoTyped, EndTyped DEF Wrong
  <2> QED BY <1>6, <2>1, RowUntouched DEF Wrong
<1>7. CASE Load(a)
  <2>1. try' \in [Attempts -> Try]
    <3>1. try \in [Attempts -> Try] /\ try[a] \in Try
      BY Types DEF IInv
    <3>2. [try[a] EXCEPT !.at = "locking", !.counted = (count # 0)] \in Try
      BY <3>1 DEF Try
    <3>3. try' = [try EXCEPT ![a] = [try[a] EXCEPT !.at = "locking", !.counted = (count # 0)]]
      BY <1>7 DEF Load
    <3> QED BY <3>1, <3>2, <3>3
  <2> QED BY <1>7, <2>1, RowUntouched DEF Load
<1>8. CASE Lock(a)
  BY <1>8, LockKept
<1>9. CASE Succeed(a)
  <2>1. try' \in [Attempts -> Try]
    BY <1>1, <1>9, EndTyped DEF Succeed
  <2> QED BY <1>1, <1>9, <2>1, PeriodEnds, Numbers DEF Succeed
<1>10. CASE Release(a)
  <2>1. try' \in [Attempts -> Try]
    BY <1>1, <1>10, EndTyped DEF Release
  <2>2. count' \in 0..Threshold
    BY <1>1, <1>10, Numbers DEF Release
  <2> QED BY <1>1, <1>10, <2>1, <2>2, PeriodEnds DEF Release
<1>11. CASE Abandon(a)
  BY <1>1, <1>11, EndTyped, RowUntouched DEF Abandon
<1> QED BY <1>2, <1>3, <1>4, <1>5, <1>6, <1>7, <1>8, <1>9, <1>10, <1>11 DEF Settle

LEMMA EditKept ==
    ASSUME IInv, EditReads \/ EditWrites \/ EditFails
    PROVE  IInv'
<1>1. /\ TypeOK /\ try \in [Attempts -> Try] /\ count \in 0..Threshold
      /\ quiet \in 0..Unset /\ locked \in NoLock..Cooldown
  BY Types DEF IInv
<1>2. CASE EditReads
  BY <1>1, <1>2 DEF EditReads, IInv, TypeOK, PeriodInv, row, history
<1>3. CASE EditWrites
  <2>1. count' \in 0..Threshold /\ quiet' \in 0..Unset /\ locked' \in NoLock..Cooldown
    BY <1>1, <1>3, Numbers DEF EditWrites
  <2> QED BY <1>1, <1>3, <2>1, PeriodEnds DEF EditWrites
<1>4. CASE EditFails
  BY <1>1, <1>4 DEF EditFails, NoEdit, IInv, TypeOK, PeriodInv, row, history
<1> QED BY <1>2, <1>3, <1>4

LEMMA TickKept ==
    ASSUME IInv, Tick
    PROVE  IInv'
<1>1. /\ TypeOK /\ try \in [Attempts -> Try] /\ count \in 0..Threshold
      /\ quiet \in 0..Unset /\ locked \in NoLock..Cooldown
      /\ span \in Off..Period /\ guesses \in Nat
  BY Types DEF IInv
<1>2. /\ quiet' = IF quiet < Old THEN quiet + 1 ELSE quiet
      /\ locked' = IF locked > Lapsed THEN locked - 1 ELSE locked
      /\ span' = IF span = Off \/ span = Period THEN Off ELSE span + 1
      /\ guesses' = IF span' = Off THEN 0 ELSE guesses
      /\ count' = count /\ edit' = edit
  BY DEF Tick
<1>3. try' \in [Attempts -> Try]
  <2>1. ASSUME NEW a \in Attempts, try[a].at # "idle"
        PROVE  [try[a] EXCEPT !.age = @ + 1] \in Try
    <3>1. try[a] \in Try /\ try[a].age < MaxDelay
      BY <1>1, <2>1 DEF Tick
    <3> QED BY <3>1, Numbers DEF Try
  <2> QED BY <1>1, <2>1 DEF Tick
<1>4. /\ quiet' \in 0..Unset /\ locked' \in NoLock..Cooldown
      /\ span' \in Off..Period /\ guesses' \in Nat
  BY <1>1, <1>2, Numbers
<1>5. TypeOK'
  BY <1>1, <1>2, <1>3, <1>4 DEF TypeOK, Try
<1>6. PeriodInv'
  BY <1>1, <1>2, Numbers DEF PeriodInv, IInv
<1> QED BY <1>5, <1>6 DEF IInv

LEMMA ObserveKept ==
    ASSUME IInv, Observe
    PROVE  IInv'
<1>1. /\ count \in 0..Threshold /\ guesses = 0
      /\ span' = 0 /\ guesses' = guesses
      /\ UNCHANGED <<count, quiet, locked, try, edit>>
  BY Types DEF IInv, PeriodInv, Observe, row
<1>2. TypeOK'
  BY <1>1, Numbers DEF TypeOK, IInv
<1>3. PeriodInv'
  BY <1>1, Numbers DEF PeriodInv
<1> QED BY <1>2, <1>3 DEF IInv

LEMMA NextIInv == IInv /\ [Next]_vars => IInv'
<1> SUFFICES ASSUME IInv, [Next]_vars PROVE IInv'
  OBVIOUS
<1>1. ASSUME NEW a \in Attempts, Begin(a) \/ Settle(a) PROVE IInv'
  BY <1>1, AttemptKept
<1>2. CASE EditReads \/ EditWrites \/ EditFails
  BY <1>2, EditKept
<1>3. CASE Tick
  BY <1>3, TickKept
<1>4. CASE Observe
  BY <1>4, ObserveKept
<1>5. CASE UNCHANGED vars
  BY <1>5 DEF vars, IInv, TypeOK, PeriodInv
<1> QED BY <1>1, <1>2, <1>3, <1>4, <1>5 DEF Next

-----------------------------------------------------------------------------
LEMMA Invariant == Spec => []IInv
BY InitIInv, NextIInv, PTL DEF Spec

(* The row, the attempts and the history keep their types: in particular   *)
(* failed_login_count stays between 0 and the threshold, over slots that   *)
(* are given back after a lock or a success has cleared them.              *)
THEOREM TypeCorrect == Spec => []TypeOK
BY Invariant, PTL DEF IInv

(* No burst of logins gets more password checks than the threshold within  *)
(* a period in which no slot is given back, however many run at once.      *)
THEOREM GuessesNeverExceeded == Spec => []GuessesBounded
<1>1. IInv => GuessesBounded
  BY Numbers DEF IInv, PeriodInv, GuessesBounded
<1> QED BY <1>1, Invariant, PTL
=============================================================================
