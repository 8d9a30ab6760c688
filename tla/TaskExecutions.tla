--------------------------- MODULE TaskExecutions ---------------------------
(***************************************************************************)
(* The record kept of every Celery task, and the retries made from it:     *)
(* executions/, worker/signals.py, worker/task_heartbeat.py and tasks.py   *)
(* of src/modules/background_tasks/background_tasks/.                      *)
(*                                                                         *)
(* Four kinds of actors share the table.  Workers write a row at each      *)
(* signal of a task (started, finished, retrying) and refresh its          *)
(* heartbeat.  A beat task flags running rows with an old heartbeat as     *)
(* stuck.  Operators retry failed and stuck rows, one by one or in a bulk  *)
(* sweep: a child row commits first, its message is sent after.  A purge   *)
(* deletes old rows and unlinks their children.                            *)
(*                                                                         *)
(* Each action is one transaction, or one statement where another actor    *)
(* can act between two statements of a transaction.  The broker and Celery *)
(* are external: messages are acknowledged late, so a crashed worker's     *)
(* message comes back.                                                     *)
(***************************************************************************)
EXTENDS Integers

CONSTANTS
    Originals,          \* tasks that the application publishes
    Retries,            \* ids that retries may reserve
    NoTask,
    Workers,
    Operators,          \* of the buttons "retry" and "retry all failed"
    StuckAfter,         \* stuck_after_seconds, in ticks
    BeatMin,            \* HEARTBEAT_MIN_INTERVAL_SECONDS, in ticks
    CallEvery,          \* a task body calls heartbeat() at least this often
    LostBeats,          \* heartbeat writes that may fail in a row
    MaxCopies           \* bound: messages of one task in the queue

Tasks == Originals \cup Retries

ASSUME ActorsAssumption ==
    /\ Originals \cap Retries = {} /\ NoTask \notin Tasks
    /\ MaxCopies \in Nat

(* "Keep any threshold well above 30 seconds": by this much.               *)
ASSUME HeartbeatAssumption ==
    /\ BeatMin \in Nat \ {0} /\ CallEvery \in Nat \ {0} /\ LostBeats \in Nat
    /\ StuckAfter \in Nat
    /\ (LostBeats + 1) * (BeatMin + CallEvery - 1) <= StuckAfter

VARIABLES
    \* the task_execution table, by task
    status, parent, fresh,
    \* the broker, and the ids in use
    queued, issued,
    \* workers: where each is with its task, and its heartbeats
    at, job, quiet, gap, lost,
    \* operators: rows read, rows held locked, children to send, one unsent
    press, seen, held, kids, unsent,
    \* the purge, between its two statements
    expired, cut,
    \* history: children made by bulk sweeps
    swept

rows == <<status, parent, fresh>>
workers == <<at, job, quiet, gap, lost>>
operators == <<press, seen, held, kids, unsent>>
purge == <<expired, cut>>
vars == <<status, parent, fresh, queued, issued, at, job, quiet, gap, lost,
          press, seen, held, kids, unsent, expired, cut, swept>>

(* fresh is heartbeat_at + stuck_after - now, while a row is running.      *)
Retryable == {"failed", "stuck"}
Terminal == Retryable \cup {"success", "revoked"}
Statuses == Terminal \cup {"absent", "pending", "running", "retrying"}
Stations == {"idle", "received", "running", "unseen",
             "succeeded", "failed", "resent", "closing"}
InBody == {"running", "unseen"}
Presses == {"idle", "scanned", "locked", "picked", "linked", "sending"}

TypeOK ==
    /\ status \in [Tasks -> Statuses]
    /\ parent \in [Tasks -> Tasks \cup {NoTask}]
    /\ fresh \in [Tasks -> -1..StuckAfter]
    /\ queued \in [Tasks -> 0..MaxCopies]
    /\ issued \subseteq Tasks
    /\ at \in [Workers -> Stations]
    /\ job \in [Workers -> Tasks \cup {NoTask}]
    /\ quiet \in [Workers -> 0..CallEvery]
    /\ gap \in [Workers -> 0..BeatMin]
    /\ lost \in [Workers -> 0..LostBeats]
    /\ press \in [Operators -> Presses]
    /\ seen \in [Operators -> SUBSET Tasks]
    /\ held \in [Operators -> SUBSET Tasks]
    /\ kids \in [Operators -> SUBSET Tasks]
    /\ unsent \in [Operators -> Tasks \cup {NoTask}]
    /\ expired \subseteq Tasks
    /\ cut \subseteq Tasks
    /\ swept \subseteq Tasks
    /\ \A w \in Workers : at[w] = "idle" <=> job[w] = NoTask
    /\ \A t \in Tasks : status[t] = "absent" => parent[t] = NoTask

Init ==
    /\ status = [t \in Tasks |-> "absent"]
    /\ parent = [t \in Tasks |-> NoTask]
    /\ fresh = [t \in Tasks |-> 0]
    /\ queued = [t \in Tasks |-> 0]
    /\ issued = {}
    /\ at = [w \in Workers |-> "idle"]
    /\ job = [w \in Workers |-> NoTask]
    /\ quiet = [w \in Workers |-> 0]
    /\ gap = [w \in Workers |-> 0]
    /\ lost = [w \in Workers |-> 0]
    /\ press = [o \in Operators |-> "idle"]
    /\ seen = [o \in Operators |-> {}]
    /\ held = [o \in Operators |-> {}]
    /\ kids = [o \in Operators |-> {}]
    /\ unsent = [o \in Operators |-> NoTask]
    /\ expired = {}
    /\ cut = {}
    /\ swept = {}

Exists(t) == status[t] # "absent"

(* A row locked FOR UPDATE by a sweep cannot be written; a writer waits.   *)
(* It waits for a purge that unlinked the row too, but the purge writes    *)
(* another column: the order of the two does not matter.                   *)
Unlocked(t) == \A o \in Operators : press[o] = "locked" => t \notin held[o]

(* upsert_by_celery_id: a signal writes the row, or creates it.            *)
Write(t, s) ==
    /\ Unlocked(t)
    /\ status' = [status EXCEPT ![t] = s]
    /\ fresh' = [fresh EXCEPT ![t] = IF s = "running" THEN StuckAfter ELSE 0]
    /\ UNCHANGED parent

Enqueue(t) ==
    /\ queued[t] < MaxCopies
    /\ queued' = [queued EXCEPT ![t] = @ + 1]
-----------------------------------------------------------------------------
(* The application publishes a task: the row is written before the message *)
(* is sent, if it is written at all, and sending may fail.                 *)
Publish(t) ==
    /\ t \in Originals \ issued
    /\ issued' = issued \cup {t}
    /\ Write(t, "pending") \/ UNCHANGED rows
    /\ Enqueue(t) \/ UNCHANGED queued
    /\ UNCHANGED <<workers, operators, purge, swept>>
-----------------------------------------------------------------------------
(* Workers.                                                                *)

MoveTo(w, s) == at' = [at EXCEPT ![w] = s] /\ UNCHANGED job
NoBeats(w) ==
    /\ quiet' = [quiet EXCEPT ![w] = 0]
    /\ gap' = [gap EXCEPT ![w] = 0]
    /\ lost' = [lost EXCEPT ![w] = 0]
Leave(w) ==
    /\ at' = [at EXCEPT ![w] = "idle"]
    /\ job' = [job EXCEPT ![w] = NoTask]
    /\ NoBeats(w)
beats == <<quiet, gap, lost>>

Receive(w, t) ==
    /\ at[w] = "idle" /\ queued[t] > 0
    /\ queued' = [queued EXCEPT ![t] = @ - 1]
    /\ at' = [at EXCEPT ![w] = "received"]
    /\ job' = [job EXCEPT ![w] = t]
    /\ UNCHANGED <<rows, issued, beats, operators, purge, swept>>

(* task_prerun.  The process has no heartbeat of the task on record yet,   *)
(* so the first call is not throttled.                                     *)
BodyStarts(w) ==
    /\ at[w] = "received"
    /\ quiet' = [quiet EXCEPT ![w] = 0]
    /\ gap' = [gap EXCEPT ![w] = BeatMin]
    /\ lost' = [lost EXCEPT ![w] = 0]
    /\ UNCHANGED <<queued, issued, operators, purge, swept>>

Start(w) ==
    /\ BodyStarts(w)
    /\ Write(job[w], "running")
    /\ MoveTo(w, "running")

(* The signal's transaction failed and was logged: the body runs anyway.   *)
StartUnseen(w) ==
    /\ BodyStarts(w)
    /\ MoveTo(w, "unseen")
    /\ UNCHANGED rows

(* task_revoked: a revoked message is dropped where it is received.        *)
DropRevoked(w) ==
    /\ at[w] = "received"
    /\ Write(job[w], "revoked") \/ UNCHANGED rows
    /\ Leave(w)
    /\ UNCHANGED <<queued, issued, operators, purge, swept>>

(* heartbeat(): throttled in the process, and a failed write still counts  *)
(* for the throttle.  It only touches a row that is still running.         *)
Refresh(t) ==
    fresh' = IF status[t] = "running" THEN [fresh EXCEPT ![t] = StuckAfter] ELSE fresh

Heartbeat(w) ==
    /\ at[w] \in InBody
    /\ quiet' = [quiet EXCEPT ![w] = 0]
    /\ \/ gap[w] < BeatMin /\ UNCHANGED <<fresh, gap, lost>>
       \/ /\ gap[w] >= BeatMin
          /\ Unlocked(job[w])
          /\ gap' = [gap EXCEPT ![w] = 0]
          /\ \/ Refresh(job[w]) /\ lost' = [lost EXCEPT ![w] = 0]
             \/ /\ lost[w] < LostBeats
                /\ lost' = [lost EXCEPT ![w] = @ + 1]
                /\ UNCHANGED fresh
    /\ UNCHANGED <<status, parent, queued, issued, at, job, operators, purge, swept>>

BodyEnds(w) ==
    /\ at[w] \in InBody
    /\ \E s \in {"succeeded", "failed"} : MoveTo(w, s)
    /\ NoBeats(w)
    /\ UNCHANGED <<rows, queued, issued, operators, purge, swept>>

(* Task.retry: the message goes out again under the same id, and the row   *)
(* with it, before the worker signals that it is retrying.                 *)
Resend(w) ==
    /\ at[w] \in InBody
    /\ Write(job[w], "pending") \/ UNCHANGED rows
    /\ Enqueue(job[w])
    /\ MoveTo(w, "resent")
    /\ NoBeats(w)
    /\ UNCHANGED <<issued, operators, purge, swept>>

(* task_success, task_failure, task_retry.                                 *)
Outcome(s) == CASE s = "succeeded" -> "success"
                [] s = "failed" -> "failed"
                [] s = "resent" -> "retrying"
Record(w) ==
    /\ at[w] \in {"succeeded", "failed", "resent"}
    /\ Write(job[w], Outcome(at[w]))
    /\ MoveTo(w, "closing")
    /\ UNCHANGED <<queued, issued, beats, operators, purge, swept>>

RecordLost(w) ==
    /\ at[w] \in {"succeeded", "failed", "resent"}
    /\ MoveTo(w, "closing")
    /\ UNCHANGED <<rows, queued, issued, beats, operators, purge, swept>>

(* task_postrun, then the late acknowledgement.  A task that left no row so *)
(* far gets one here, with the default status.                             *)
Close(w) ==
    /\ at[w] = "closing"
    /\ \/ /\ Unlocked(job[w])
          /\ status' = IF Exists(job[w]) THEN status
                       ELSE [status EXCEPT ![job[w]] = "pending"]
          /\ Refresh(job[w])
       \/ UNCHANGED <<status, fresh>>
    /\ Leave(w)
    /\ UNCHANGED <<parent, queued, issued, operators, purge, swept>>

(* The worker dies; what it had not acknowledged is delivered again.       *)
Crash(w) ==
    /\ at[w] # "idle"
    /\ Enqueue(job[w])
    /\ Leave(w)
    /\ UNCHANGED <<rows, issued, operators, purge, swept>>
-----------------------------------------------------------------------------
(* Retrying.  A press holds its parents from the flush of the children to  *)
(* the commit: a sweep FOR UPDATE, a single retry through the foreign key. *)

Go(o, s) == press' = [press EXCEPT ![o] = s]

(* bulk_retry_conditions: failed or stuck, and not retried yet.            *)
Eligible ==
    {t \in Tasks : status[t] \in Retryable /\ \A c \in Tasks : parent[c] # t}

(* The snapshot of the sweep's SELECT.                                     *)
SweepReads(o) ==
    /\ press[o] = "idle" /\ Eligible # {}
    /\ seen' = [seen EXCEPT ![o] = Eligible]
    /\ Go(o, "scanned")
    /\ UNCHANGED <<rows, queued, issued, workers, held, kids, unsent, purge, swept>>

(* Mutant of Lockable: the rows of the snapshot are not looked at again.   *)
LockableUnchecked(o) ==
    {t \in seen[o] : t \notin cut /\ \A p \in Operators : t \notin held[p]}

(* The same SELECT reaching its rows: FOR UPDATE SKIP LOCKED.  A row that  *)
(* was updated since the snapshot is checked again as it is now, but the   *)
(* children are still those of the snapshot.  The batch is any part.       *)
Lockable(o) ==
    {t \in seen[o] : /\ status[t] \in Retryable
                     /\ t \notin cut
                     /\ \A p \in Operators : t \notin held[p]}

SweepLocks(o) ==
    /\ press[o] = "scanned"
    /\ \E S \in SUBSET Lockable(o) :
         /\ S = {} => Lockable(o) = {}
         /\ held' = [held EXCEPT ![o] = S]
         /\ Go(o, IF S = {} THEN "idle" ELSE "locked")
    /\ seen' = [seen EXCEPT ![o] = {}]
    /\ UNCHANGED <<rows, queued, issued, workers, kids, unsent, purge, swept>>

(* TaskExecutionService.retry reads the row and its status, unlocked.      *)
RetryReads(o, t) ==
    /\ press[o] = "idle"
    /\ status[t] \in Retryable
    /\ seen' = [seen EXCEPT ![o] = {t}]
    /\ Go(o, "picked")
    /\ UNCHANGED <<rows, queued, issued, workers, held, kids, unsent, purge, swept>>

(* Its flush: refused when the parent is gone, and waiting for a sweep.    *)
RetryFlushes(o) ==
    /\ press[o] = "picked"
    /\ \A t \in seen[o] : Unlocked(t)
    /\ held' = [held EXCEPT ![o] = {t \in seen[o] : Exists(t)}]
    /\ Go(o, IF \A t \in seen[o] : Exists(t) THEN "linked" ELSE "idle")
    /\ seen' = [seen EXCEPT ![o] = {}]
    /\ UNCHANGED <<rows, queued, issued, workers, kids, unsent, purge, swept>>

(* The children commit, one per parent, under ids reserved for them.       *)
Reserved(o) ==
    {f \in [held[o] -> Retries \ issued] :
        \A t, u \in held[o] : f[t] = f[u] => t = u}

ChildOf(f, c) == CHOOSE t \in DOMAIN f : f[t] = c
Children(f) == {f[t] : t \in DOMAIN f}

Commit(o) ==
    /\ press[o] \in {"locked", "linked"}
    /\ \E f \in Reserved(o) :
         /\ status' = [t \in Tasks |-> IF t \in Children(f) THEN "pending" ELSE status[t]]
         /\ parent' = [t \in Tasks |-> IF t \in Children(f) THEN ChildOf(f, t) ELSE parent[t]]
         /\ issued' = issued \cup Children(f)
         /\ kids' = [kids EXCEPT ![o] = Children(f)]
         /\ swept' = IF press[o] = "locked" THEN swept \cup Children(f) ELSE swept
    /\ held' = [held EXCEPT ![o] = {}]
    /\ Go(o, "sending")
    /\ UNCHANGED <<fresh, queued, workers, seen, unsent, purge>>

(* Mutant of Rollback: the tasks were sent before the commit that failed.  *)
RollbackAfterSend(o) ==
    /\ press[o] \in {"locked", "linked"}
    /\ \E f \in Reserved(o) :
         /\ issued' = issued \cup Children(f)
         /\ queued' = [t \in Tasks |-> IF t \in Children(f) THEN 1 ELSE queued[t]]
    /\ held' = [held EXCEPT ![o] = {}]
    /\ Go(o, "idle")
    /\ UNCHANGED <<rows, workers, seen, kids, unsent, purge, swept>>

(* The request fails or its commit does: nothing was sent.                 *)
Rollback(o) ==
    /\ press[o] \in {"locked", "linked"}
    /\ held' = [held EXCEPT ![o] = {}]
    /\ Go(o, "idle")
    /\ UNCHANGED <<rows, queued, issued, workers, seen, kids, unsent, purge, swept>>

(* The post-commit publishes, in turn.                                     *)
Sends(o, c) ==
    /\ press[o] = "sending" /\ unsent[o] = NoTask
    /\ c \in kids[o]
    /\ kids' = [kids EXCEPT ![o] = @ \ {c}]
    /\ UNCHANGED <<rows, issued, workers, press, seen, held, purge, swept>>

Send(o, c) == Sends(o, c) /\ Enqueue(c) /\ UNCHANGED unsent

(* send_task raised; the message may have reached the broker all the same. *)
SendFails(o, c) ==
    /\ Sends(o, c)
    /\ Enqueue(c) \/ UNCHANGED queued
    /\ unsent' = [unsent EXCEPT ![o] = c]

(* Mutant of FailUnsent: without the condition on the status.              *)
FailAnyUnsent(o) ==
    /\ unsent[o] # NoTask
    /\ Write(unsent[o], "failed") \/ UNCHANGED rows
    /\ unsent' = [unsent EXCEPT ![o] = NoTask]
    /\ UNCHANGED <<queued, issued, workers, press, seen, held, kids, purge, swept>>

(* _fail_unsent: one UPDATE, of a row that is still pending; best effort.  *)
FailUnsent(o) ==
    /\ unsent[o] # NoTask
    /\ \/ /\ status[unsent[o]] = "pending"
          /\ Write(unsent[o], "failed")
       \/ UNCHANGED rows
    /\ unsent' = [unsent EXCEPT ![o] = NoTask]
    /\ UNCHANGED <<queued, issued, workers, press, seen, held, kids, purge, swept>>

(* All were tried, or the process died before: intent was only in memory.  *)
Finish(o) ==
    /\ press[o] = "sending"
    /\ kids' = [kids EXCEPT ![o] = {}]
    /\ unsent' = [unsent EXCEPT ![o] = NoTask]
    /\ Go(o, "idle")
    /\ UNCHANGED <<rows, queued, issued, workers, seen, held, purge, swept>>
-----------------------------------------------------------------------------
(* The beat tasks and time.                                                *)

(* Mutants of Stale: off by one, and looking at the wrong status.          *)
StaleEarly == {t \in Tasks : status[t] = "running" /\ fresh[t] <= 0}
StalePending == {t \in Tasks : status[t] = "pending" /\ fresh[t] < 0}

(* sweep_stuck_tasks: one UPDATE; heartbeat_at < now - stuck_after.        *)
Stale == {t \in Tasks : status[t] = "running" /\ fresh[t] < 0}

SweepStuck ==
    /\ Stale # {}
    /\ status' = [t \in Tasks |-> IF t \in Stale THEN "stuck" ELSE status[t]]
    /\ fresh' = [t \in Tasks |-> IF t \in Stale THEN 0 ELSE fresh[t]]
    /\ UNCHANGED <<parent, queued, issued, workers, operators, purge, swept>>

(* purge_old_executions, first statement: unlink the children of the rows  *)
(* that finished before the cutoff.  The retention is a day at least, so   *)
(* no message of theirs is still about.                                    *)
Finished ==
    {t \in Tasks : /\ status[t] \in Terminal
                   /\ queued[t] = 0 /\ \A w \in Workers : job[w] # t}

PurgeUnlinks ==
    /\ expired = {}
    /\ \E S \in SUBSET Finished \ {{}} :
         /\ expired' = S
         /\ cut' = {c \in Tasks : parent[c] \in S}
         /\ \A c \in cut' : Unlocked(c)
    /\ UNCHANGED <<rows, queued, issued, workers, operators, swept>>

(* Mutants of the second statement: it deletes all that expired, and it    *)
(* forgets whose link the first one cleared.                               *)
NothingReferenced == {}
PurgeKeepsLinks ==
    LET gone == expired \ {parent[c] : c \in Tasks \ cut} IN
    /\ expired # {}
    /\ \A o \in Operators : held[o] \cap gone = {}
    /\ status' = [t \in Tasks |-> IF t \in gone THEN "absent" ELSE status[t]]
    /\ expired' = {} /\ cut' = {}
    /\ UNCHANGED <<parent, fresh, queued, issued, workers, operators, swept>>

(* Second statement, and the commit.  Parents of children made in between  *)
(* are kept.  Rows a retry is holding make the statement wait; if the      *)
(* retry then commits, the foreign key fails the purge: PurgeAborts.       *)
Referenced == {parent[c] : c \in Tasks \ cut}

PurgeDeletes ==
    LET gone == expired \ Referenced IN
    /\ expired # {}
    /\ \A o \in Operators : held[o] \cap gone = {}
    /\ status' = [t \in Tasks |-> IF t \in gone THEN "absent" ELSE status[t]]
    /\ parent' = [t \in Tasks |-> IF t \in gone \cup cut THEN NoTask ELSE parent[t]]
    /\ expired' = {} /\ cut' = {}
    /\ UNCHANGED <<fresh, queued, issued, workers, operators, swept>>

PurgeAborts ==
    /\ expired # {}
    /\ expired' = {} /\ cut' = {}
    /\ UNCHANGED <<rows, queued, issued, workers, operators, swept>>

Older(t) == IF status[t] = "running" /\ fresh[t] >= 0 THEN fresh[t] - 1 ELSE fresh[t]

Tick ==
    /\ \A w \in Workers : at[w] \in InBody => quiet[w] < CallEvery
    /\ \E t \in Tasks : Older(t) # fresh[t]
    /\ fresh' = [t \in Tasks |-> Older(t)]
    /\ quiet' = [w \in Workers |-> IF at[w] \in InBody THEN quiet[w] + 1 ELSE quiet[w]]
    /\ gap' = [w \in Workers |->
                 IF at[w] \in InBody /\ gap[w] < BeatMin THEN gap[w] + 1 ELSE gap[w]]
    /\ UNCHANGED <<status, parent, queued, issued, at, job, lost, operators, purge, swept>>
-----------------------------------------------------------------------------
SignalStep(w) ==
    \/ Start(w) \/ StartUnseen(w) \/ DropRevoked(w) \/ BodyEnds(w) \/ Resend(w)
    \/ Record(w) \/ RecordLost(w) \/ Close(w)

WorkerStep(w) ==
    (\E t \in Tasks : Receive(w, t)) \/ SignalStep(w) \/ Heartbeat(w) \/ Crash(w)

OperatorStep(o) ==
    \/ SweepReads(o) \/ SweepLocks(o) \/ RetryFlushes(o)
    \/ \E t \in Tasks : RetryReads(o, t) \/ Send(o, t) \/ SendFails(o, t)
    \/ Commit(o) \/ Rollback(o) \/ FailUnsent(o) \/ Finish(o)

Next ==
    \/ \E t \in Tasks : Publish(t)
    \/ \E w \in Workers : WorkerStep(w)
    \/ \E o \in Operators : OperatorStep(o)
    \/ SweepStuck \/ PurgeUnlinks \/ PurgeDeletes \/ PurgeAborts
    \/ Tick

Spec == Init /\ [][Next]_vars

(* Task bodies end, beat keeps sweeping, transactions end.                 *)
FairSpec ==
    /\ Spec
    /\ WF_vars(Tick) /\ WF_vars(SweepStuck)
    /\ \A w \in Workers : WF_vars(SignalStep(w)) /\ WF_vars(Heartbeat(w))
    /\ \A o \in Operators : WF_vars(Commit(o) \/ Rollback(o))
-----------------------------------------------------------------------------
(* Properties.                                                             *)

(* A retry is never on the broker or with a worker while its row is not in *)
(* the table: the row commits first (GH #452).                             *)
RowBeforeMessage ==
    \A t \in Retries :
        queued[t] > 0 \/ (\E w \in Workers : job[w] = t) => Exists(t)

(* What a sweep holds is still failed or stuck when its children commit,   *)
(* though the rows were read before they were locked and a redelivered     *)
(* message may have set one of them running in between.                    *)
HeldRetryable ==
    \A o \in Operators : press[o] = "locked" =>
        \A t \in held[o] : status[t] \in Retryable

(* A parent is swept once: bulk retries do not multiply the backlog.       *)
SweptOnce ==
    \A c, d \in swept :
        c # d /\ parent[c] # NoTask => parent[c] # parent[d]

(* A link to the execution a retry came from never dangles, whatever a     *)
(* purge and a retry do to each other between their statements: the purge  *)
(* does not delete the parent of a retry that committed before its second  *)
(* statement.                                                              *)
LinksValid ==
    \A c \in Tasks : parent[c] # NoTask => Exists(parent[c])

(* A body that calls heartbeat() in time is never called stuck, also when  *)
(* up to LostBeats heartbeats in a row failed to be written.               *)
StuckIsSilent ==
    \A w \in Workers : at[w] = "running" =>
        ~(status[job[w]] # "stuck" /\ status'[job[w]] = "stuck")
SweepSparesLive == [][StuckIsSilent]_vars

(* A send that raised is recorded as failed though the message may have    *)
(* arrived.  Of the workers in the body of that task none has its start on *)
(* record: the code looks at the status alone, so a body whose start       *)
(* signal could not be written is taken for one that was never sent.       *)
FailedIsUnstarted ==
    \A o \in Operators :
        unsent[o] # NoTask /\ unsent'[o] = NoTask /\ status'[unsent[o]] # status[unsent[o]] =>
            \A w \in Workers : at[w] \in InBody /\ job[w] = unsent[o] => at[w] = "unseen"
FailSparesStarted == [][FailedIsUnstarted]_vars

(* A row left running by a task that is over, because the signal of its    *)
(* outcome was lost, does not look running for ever.                       *)
Orphaned(t) ==
    status[t] = "running" /\ queued[t] = 0 /\ \A w \in Workers : job[w] # t
OrphansFound == \A t \in Tasks : Orphaned(t) ~> status[t] # "running"

(* Every completion is recorded (docs/modules/background_tasks.md): once   *)
(* it is, the signal of an earlier attempt does not undo it.               *)
LateRetry == \A t \in Tasks : status[t] = "success" => status'[t] # "retrying"
CompletionKept == [][LateRetry]_vars
=============================================================================
