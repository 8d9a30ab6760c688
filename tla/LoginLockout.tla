----------------------------- MODULE LoginLockout -----------------------------
(***************************************************************************)
(* The lockout of one local account (src/modules/users/users/auth_local/   *)
(* lockout/): every password login takes a slot before its password is     *)
(* checked, whoever takes the last slot and fails locks the account, and   *)
(* a success or an unlock gives the slots back.  Each statement is a       *)
(* transaction of its own, and each attempt measures time from the clock   *)
(* it read when it began, however late its statements run.                 *)
(*                                                                         *)
(* Times are relative to now: age is how long ago an attempt began, quiet  *)
(* how long ago the last counted one did, locked what is left of a lock.   *)
(***************************************************************************)
EXTENDS Integers

CONSTANTS
    Attempts,   \* logins that run at the same time
    Threshold,  \* login_lockout_account_failures
    Window,     \* login_rate_limit_window_seconds
    Cooldown,   \* login_rate_limit_cooldown_seconds
    MaxDelay,   \* the longest an attempt takes from its clock to its last write
    Period      \* the length of a period over which guesses are counted

ASSUME LockoutConstants ==
    /\ Threshold \in Nat \ {0}
    /\ Window \in Nat /\ Cooldown \in Nat /\ MaxDelay \in Nat /\ Period \in Nat
    /\ Period + MaxDelay <= Window
    /\ Period + MaxDelay < Cooldown

VARIABLES
    count,      \* failed_login_count
    quiet,      \* now - last_failed_login_at, up to Old; or Unset
    locked,     \* locked_until - now, down to Lapsed; or NoLock
    try,        \* the attempts
    edit,       \* an unlock or a password reset: which columns it has read as set
    span,       \* history: how long a period has lasted, or Off
    guesses     \* history: the attempts let in during that period

row == <<count, quiet, locked>>
history == <<span, guesses>>
vars == <<count, quiet, locked, try, edit, span, guesses>>

\* past these no attempt can tell the difference
Old == Window + MaxDelay + 1
Unset == Old + 1
Lapsed == -MaxDelay
NoLock == Lapsed - 1
Off == -1

Idle == [at |-> "idle", age |-> 0, last |-> FALSE, counted |-> FALSE]
NoEdit == [at |-> "idle", count |-> FALSE, quiet |-> FALSE, locked |-> FALSE]

TypeOK ==
    /\ count \in 0..Threshold
    /\ quiet \in 0..Unset
    /\ locked \in NoLock..Cooldown
    /\ try \in [Attempts ->
                  [at : {"idle", "begun", "looked", "checking", "tripped", "locking"},
                   age : 0..MaxDelay,
                   last : BOOLEAN,          \* admission.count has reached the threshold
                   counted : BOOLEAN]]      \* failed_login_count when the row was loaded
    /\ edit \in [at : {"idle", "read"}, count : BOOLEAN, quiet : BOOLEAN, locked : BOOLEAN]
    /\ span \in Off..Period
    /\ guesses \in Nat

Init ==
    /\ count = 0
    /\ quiet = Unset
    /\ locked = NoLock
    /\ try = [a \in Attempts |-> Idle]
    /\ edit = NoEdit
    /\ span = Off
    /\ guesses = 0

Go(a, from, to) ==
    /\ try[a].at = from
    /\ try' = [try EXCEPT ![a].at = to]
End(a) == try' = [try EXCEPT ![a] = Idle]

\* whatever gives slots back ends the period
NoPeriod == span' = Off /\ guesses' = 0
-----------------------------------------------------------------------------
(* admit                                                                   *)

Begin(a) ==
    /\ Go(a, "idle", "begun")
    /\ UNCHANGED <<row, edit, history>>

(* What an attempt makes of the row, by its own clock.                     *)
LockHolds(a) == locked + try[a].age > 0
Stale(a) == quiet > Window + try[a].age

Look(a) ==
    /\ IF LockHolds(a) THEN try[a].at = "begun" /\ End(a) ELSE Go(a, "begun", "looked")
    /\ UNCHANGED <<row, edit, history>>

(* Mutant of SlotFree: the free slot is found by the first SELECT, and the *)
(* UPDATE only counts.                                                     *)
SlotSeen(a) == ~LockHolds(a)

(* The conditions in the WHERE of the UPDATE.                              *)
SlotFree(a) == ~LockHolds(a) /\ (Stale(a) \/ count < Threshold)

TakeSlot(a) ==
    LET n == IF Stale(a) THEN 1 ELSE count + 1
    IN /\ try[a].at = "looked" /\ SlotFree(a)
       /\ count' = n
       /\ quiet' = try[a].age
       /\ try' = [try EXCEPT ![a].at = "checking", ![a].last = (n >= Threshold)]
       /\ guesses' = IF span = Off THEN guesses ELSE guesses + 1
       /\ UNCHANGED <<locked, edit, span>>

(* Mutant of Refuse: a refused attempt restarts the window.                *)
RefuseAndNote(a) ==
    /\ try[a].at = "looked" /\ ~SlotFree(a)
    /\ quiet' = try[a].age
    /\ End(a)
    /\ UNCHANGED <<count, locked, edit, history>>

Refuse(a) ==
    /\ try[a].at = "looked" /\ ~SlotFree(a)
    /\ End(a)
    /\ UNCHANGED <<row, edit, history>>
-----------------------------------------------------------------------------
(* After the password check.                                               *)

(* record_failure: nothing to do but for the last slot.                    *)
Wrong(a) ==
    /\ IF try[a].last THEN Go(a, "checking", "tripped") ELSE try[a].at = "checking" /\ End(a)
    /\ UNCHANGED <<row, edit, history>>

Load(a) ==
    /\ try[a].at = "tripped"
    /\ try' = [try EXCEPT ![a].at = "locking", ![a].counted = (count # 0)]
    /\ UNCHANGED <<row, edit, history>>

(* The flush of the loaded row: a count that was loaded as 0 has not       *)
(* changed, so the UPDATE leaves it alone.                                 *)
Lock(a) ==
    /\ try[a].at = "locking"
    /\ locked' = Cooldown - try[a].age
    /\ count' = IF try[a].counted THEN 0 ELSE count
    /\ End(a)
    /\ UNCHANGED <<quiet, edit, history>>

(* record_success, at the commit of its request.                           *)
Succeed(a) ==
    /\ try[a].at = "checking"
    /\ count' = 0
    /\ quiet' = Unset
    /\ End(a)
    /\ NoPeriod
    /\ UNCHANGED <<locked, edit>>

(* Mutant of Release: the count is not tested.                             *)
ReleaseBlindly(a) ==
    /\ try[a].at = "checking"
    /\ count' = count - 1
    /\ End(a)
    /\ NoPeriod
    /\ UNCHANGED <<quiet, locked, edit>>

(* release: the right password of an account that may not sign in.         *)
Release(a) ==
    /\ try[a].at = "checking"
    /\ count' = IF count > 0 THEN count - 1 ELSE count
    /\ End(a)
    /\ NoPeriod
    /\ UNCHANGED <<quiet, locked, edit>>

(* Refused by the source throttle, disconnected, failed or crashed.        *)
Abandon(a) ==
    /\ try[a].at # "idle"
    /\ End(a)
    /\ UNCHANGED <<row, edit, history>>
-----------------------------------------------------------------------------
(* UserService.unlock and on_after_reset_password: load the row, clear the *)
(* three columns; the flush writes those that were set when loaded.        *)
EditReads ==
    /\ edit.at = "idle"
    /\ edit' = [at |-> "read", count |-> count # 0, quiet |-> quiet # Unset,
                locked |-> locked # NoLock]
    /\ UNCHANGED <<row, try, history>>

EditWrites ==
    /\ edit.at = "read"
    /\ count' = IF edit.count THEN 0 ELSE count
    /\ quiet' = IF edit.quiet THEN Unset ELSE quiet
    /\ locked' = IF edit.locked THEN NoLock ELSE locked
    /\ edit' = NoEdit
    /\ NoPeriod
    /\ UNCHANGED try

EditFails ==
    /\ edit.at = "read"
    /\ edit' = NoEdit
    /\ UNCHANGED <<row, try, history>>
-----------------------------------------------------------------------------
Tick ==
    /\ \A a \in Attempts : try[a].at # "idle" => try[a].age < MaxDelay
    /\ quiet' = IF quiet < Old THEN quiet + 1 ELSE quiet
    /\ locked' = IF locked > Lapsed THEN locked - 1 ELSE locked
    /\ try' = [a \in Attempts |-> IF try[a].at = "idle" THEN try[a]
                                  ELSE [try[a] EXCEPT !.age = @ + 1]]
    /\ span' = IF span = Off \/ span = Period THEN Off ELSE span + 1
    /\ guesses' = IF span' = Off THEN 0 ELSE guesses
    /\ UNCHANGED <<count, edit>>

(* Any moment may be the beginning of a period.                            *)
Observe ==
    /\ span = Off
    /\ span' = 0
    /\ UNCHANGED <<row, try, edit, guesses>>

Settle(a) ==
    \/ Look(a) \/ TakeSlot(a) \/ Refuse(a) \/ Wrong(a) \/ Load(a) \/ Lock(a)
    \/ Succeed(a) \/ Release(a) \/ Abandon(a)

Next ==
    \/ \E a \in Attempts : Begin(a) \/ Settle(a)
    \/ EditReads \/ EditWrites \/ EditFails
    \/ Tick
    \/ Observe

Spec == Init /\ [][Next]_vars

(* Time passes, and every attempt comes to an end or dies.                 *)
Fairness == WF_vars(Tick) /\ \A a \in Attempts : WF_vars(Settle(a))

FairSpec == Spec /\ Fairness
-----------------------------------------------------------------------------
(* Properties.                                                             *)

(* In no period does a burst get more password checks than the threshold,  *)
(* over attempts that took their clock before a lock or a success and act  *)
(* on it after, two last slots whose locks are written in either order,    *)
(* and a lock that is written over newer counts; unless in between a right *)
(* password or an unlock gave slots back.                                  *)
GuessesBounded == guesses <= Threshold

(* Would a login that begins now be let in?                                *)
Open == locked <= 0 /\ (quiet > Window \/ count < Threshold)

(* The account opens again, however many attempts are refused meanwhile    *)
(* and also when the one that took the last slot died before it could      *)
(* write the lock: nobody is locked out for good.                          *)
AlwaysReopens == []<>Open
=============================================================================
