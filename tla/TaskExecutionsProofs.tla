------------------------ MODULE TaskExecutionsProofs ------------------------
(***************************************************************************)
(* Proofs about TaskExecutions, for any number of tasks, workers and       *)
(* operators and any thresholds that satisfy HeartbeatAssumption.          *)
(*                                                                         *)
(* Inv is what the table, the broker and the operators know of each other. *)
(* BeatsCover bounds how old the heartbeat of a running body can get.      *)
(***************************************************************************)
EXTENDS TaskExecutions, TLAPS

LEMMA WorkerHasJob ==
    ASSUME TypeOK, NEW w \in Workers, at[w] # "idle"
    PROVE  job[w] \in Tasks
BY DEF TypeOK

LEMMA EnqueueTyped ==
    ASSUME TypeOK, NEW t \in Tasks, Enqueue(t)
    PROVE  queued' \in [Tasks -> 0..MaxCopies]
BY ActorsAssumption DEF TypeOK, Enqueue

LEMMA WriteTyped ==
    ASSUME TypeOK, NEW t \in Tasks, NEW s \in Statuses \ {"absent"}, Write(t, s)
    PROVE  /\ status' \in [Tasks -> Statuses]
           /\ parent' \in [Tasks -> Tasks \cup {NoTask}]
           /\ fresh' \in [Tasks -> -1..StuckAfter]
           /\ \A u \in Tasks : status'[u] = "absent" => parent'[u] = NoTask
BY HeartbeatAssumption DEF TypeOK, Write

LEMMA LeaveTyped ==
    ASSUME TypeOK, NEW w \in Workers, Leave(w)
    PROVE  /\ at' \in [Workers -> Stations]
           /\ job' \in [Workers -> Tasks \cup {NoTask}]
           /\ quiet' \in [Workers -> 0..CallEvery]
           /\ gap' \in [Workers -> 0..BeatMin]
           /\ lost' \in [Workers -> 0..LostBeats]
           /\ \A v \in Workers : at'[v] = "idle" <=> job'[v] = NoTask
BY HeartbeatAssumption, ActorsAssumption DEF TypeOK, Leave, NoBeats, Stations

LEMMA MoveTyped ==
    ASSUME TypeOK, NEW w \in Workers, at[w] # "idle",
           NEW s \in Stations \ {"idle"}, MoveTo(w, s)
    PROVE  /\ at' \in [Workers -> Stations]
           /\ job' \in [Workers -> Tasks \cup {NoTask}]
           /\ \A v \in Workers : at'[v] = "idle" <=> job'[v] = NoTask
BY ActorsAssumption DEF TypeOK, MoveTo

LEMMA NoBeatsTyped ==
    ASSUME TypeOK, NEW w \in Workers, NoBeats(w)
    PROVE  /\ quiet' \in [Workers -> 0..CallEvery]
           /\ gap' \in [Workers -> 0..BeatMin]
           /\ lost' \in [Workers -> 0..LostBeats]
BY HeartbeatAssumption DEF TypeOK, NoBeats

LEMMA RefreshTyped ==
    ASSUME TypeOK, NEW t \in Tasks, Refresh(t)
    PROVE  fresh' \in [Tasks -> -1..StuckAfter]
BY HeartbeatAssumption DEF TypeOK, Refresh

(* The children of a commit are ids that were not in use.                  *)
LEMMA ChildrenFresh ==
    ASSUME TypeOK, NEW o \in Operators, NEW f \in Reserved(o)
    PROVE  /\ Children(f) \subseteq Retries \ issued
           /\ \A c \in Children(f) : ChildOf(f, c) \in held[o] /\ f[ChildOf(f, c)] = c
<1>1. DOMAIN f = held[o] /\ \A t \in held[o] : f[t] \in Retries \ issued
  BY DEF Reserved
<1>2. ASSUME NEW c \in Children(f) PROVE ChildOf(f, c) \in held[o] /\ f[ChildOf(f, c)] = c
  <2>1. \E t \in DOMAIN f : f[t] = c
    BY DEF Children
  <2> QED BY <1>1, <2>1 DEF ChildOf
<1> QED BY <1>1, <1>2 DEF Children

LEMMA TypeStep == TypeOK /\ [Next]_vars => TypeOK'
<1> SUFFICES ASSUME TypeOK, [Next]_vars PROVE TypeOK'
  OBVIOUS
<1> USE ActorsAssumption, HeartbeatAssumption
<1> USE DEF workers, operators, purge, rows, beats
<1>1. ASSUME NEW t \in Tasks, Publish(t) PROVE TypeOK'
  <2>1. queued' \in [Tasks -> 0..MaxCopies]
    BY <1>1, EnqueueTyped DEF Publish, TypeOK
  <2>2. /\ status' \in [Tasks -> Statuses]
        /\ parent' \in [Tasks -> Tasks \cup {NoTask}]
        /\ fresh' \in [Tasks -> -1..StuckAfter]
        /\ \A u \in Tasks : status'[u] = "absent" => parent'[u] = NoTask
    <3>1. CASE Write(t, "pending")
      BY <3>1, WriteTyped DEF Statuses
    <3>2. CASE UNCHANGED rows
      BY <3>2 DEF TypeOK
    <3> QED BY <1>1, <3>1, <3>2 DEF Publish
  <2>3. issued' \subseteq Tasks
    BY <1>1 DEF Publish, TypeOK
  <2> QED BY <1>1, <2>1, <2>2, <2>3 DEF Publish, TypeOK
<1>2. ASSUME NEW w \in Workers, NEW t \in Tasks, Receive(w, t) PROVE TypeOK'
  <2>1. queued' \in [Tasks -> 0..MaxCopies]
    BY <1>2 DEF Receive, TypeOK
  <2>2. \A v \in Workers : at'[v] = "idle" <=> job'[v] = NoTask
    BY <1>2 DEF Receive, TypeOK
  <2> QED BY <1>2, <2>1, <2>2 DEF Receive, TypeOK, Stations
<1>3. ASSUME NEW w \in Workers, Start(w) \/ StartUnseen(w) PROVE TypeOK'
  <2>1. at[w] # "idle" /\ job[w] \in Tasks /\ BodyStarts(w)
    BY <1>3, WorkerHasJob DEF Start, StartUnseen, BodyStarts
  <2>2. /\ quiet' \in [Workers -> 0..CallEvery]
        /\ gap' \in [Workers -> 0..BeatMin]
        /\ lost' \in [Workers -> 0..LostBeats]
    BY <2>1 DEF BodyStarts, TypeOK
  <2>3. /\ status' \in [Tasks -> Statuses]
        /\ parent' \in [Tasks -> Tasks \cup {NoTask}]
        /\ fresh' \in [Tasks -> -1..StuckAfter]
        /\ \A u \in Tasks : status'[u] = "absent" => parent'[u] = NoTask
    <3>1. CASE Start(w)
      BY <3>1, <2>1, WriteTyped DEF Start, Statuses
    <3>2. CASE StartUnseen(w)
      BY <3>2 DEF StartUnseen, TypeOK
    <3> QED BY <1>3, <3>1, <3>2
  <2>4. /\ at' \in [Workers -> Stations]
        /\ job' \in [Workers -> Tasks \cup {NoTask}]
        /\ \A v \in Workers : at'[v] = "idle" <=> job'[v] = NoTask
    BY <1>3, <2>1, MoveTyped DEF Start, StartUnseen, Stations
  <2> QED BY <2>1, <2>2, <2>3, <2>4 DEF BodyStarts, TypeOK
<1>4. ASSUME NEW w \in Workers, DropRevoked(w) PROVE TypeOK'
  <2>1. job[w] \in Tasks
    BY <1>4, WorkerHasJob DEF DropRevoked
  <2>2. /\ status' \in [Tasks -> Statuses]
        /\ parent' \in [Tasks -> Tasks \cup {NoTask}]
        /\ fresh' \in [Tasks -> -1..StuckAfter]
        /\ \A u \in Tasks : status'[u] = "absent" => parent'[u] = NoTask
    <3>1. CASE Write(job[w], "revoked")
      BY <3>1, <2>1, WriteTyped DEF Statuses, Terminal
    <3>2. CASE UNCHANGED rows
      BY <3>2 DEF TypeOK
    <3> QED BY <1>4, <3>1, <3>2 DEF DropRevoked
  <2>3. Leave(w)
    BY <1>4 DEF DropRevoked
  <2>4. UNCHANGED <<queued, issued, operators, purge, swept>>
    BY <1>4 DEF DropRevoked
  <2> QED BY <2>2, <2>3, <2>4, LeaveTyped DEF TypeOK
<1>5. ASSUME NEW w \in Workers, Heartbeat(w) PROVE TypeOK'
  <2>1. job[w] \in Tasks
    BY <1>5, WorkerHasJob DEF Heartbeat, InBody
  <2>2. fresh' \in [Tasks -> -1..StuckAfter]
    BY <1>5, <2>1, RefreshTyped DEF Heartbeat, TypeOK
  <2>3. /\ quiet' \in [Workers -> 0..CallEvery]
        /\ gap' \in [Workers -> 0..BeatMin]
        /\ lost' \in [Workers -> 0..LostBeats]
    BY <1>5 DEF Heartbeat, TypeOK
  <2> QED BY <1>5, <2>2, <2>3 DEF Heartbeat, TypeOK
<1>6. ASSUME NEW w \in Workers, BodyEnds(w) PROVE TypeOK'
  <2>1. at[w] # "idle"
    BY <1>6 DEF BodyEnds, InBody
  <2>2. PICK s \in {"succeeded", "failed"} : MoveTo(w, s)
    BY <1>6 DEF BodyEnds
  <2>3. s \in Stations \ {"idle"}
    BY DEF Stations
  <2> QED BY <1>6, <2>1, <2>2, <2>3, MoveTyped, NoBeatsTyped DEF BodyEnds, TypeOK
<1>7. ASSUME NEW w \in Workers, Resend(w) PROVE TypeOK'
  <2>1. at[w] # "idle" /\ job[w] \in Tasks
    BY <1>7, WorkerHasJob DEF Resend, InBody
  <2>2. /\ status' \in [Tasks -> Statuses]
        /\ parent' \in [Tasks -> Tasks \cup {NoTask}]
        /\ fresh' \in [Tasks -> -1..StuckAfter]
        /\ \A u \in Tasks : status'[u] = "absent" => parent'[u] = NoTask
    <3>1. CASE Write(job[w], "pending")
      BY <3>1, <2>1, WriteTyped DEF Statuses
    <3>2. CASE UNCHANGED rows
      BY <3>2 DEF TypeOK
    <3> QED BY <1>7, <3>1, <3>2 DEF Resend
  <2>3. queued' \in [Tasks -> 0..MaxCopies]
    BY <1>7, <2>1, EnqueueTyped DEF Resend
  <2>4. "resent" \in Stations \ {"idle"} /\ MoveTo(w, "resent") /\ NoBeats(w)
    BY <1>7 DEF Resend, Stations
  <2>5. UNCHANGED <<issued, operators, purge, swept>>
    BY <1>7 DEF Resend
  <2> QED BY <2>1, <2>2, <2>3, <2>4, <2>5, MoveTyped, NoBeatsTyped DEF TypeOK
<1>8. ASSUME NEW w \in Workers, Record(w) \/ RecordLost(w) PROVE TypeOK'
  <2>1. at[w] # "idle" /\ job[w] \in Tasks
    BY <1>8, WorkerHasJob DEF Record, RecordLost
  <2>2. /\ status' \in [Tasks -> Statuses]
        /\ parent' \in [Tasks -> Tasks \cup {NoTask}]
        /\ fresh' \in [Tasks -> -1..StuckAfter]
        /\ \A u \in Tasks : status'[u] = "absent" => parent'[u] = NoTask
    <3>1. CASE Record(w)
      <4>1. Outcome(at[w]) \in Statuses \ {"absent"}
        BY <3>1 DEF Record, Outcome, Statuses, Terminal, Retryable
      <4> QED BY <3>1, <2>1, <4>1, WriteTyped DEF Record
    <3>2. CASE RecordLost(w)
      BY <3>2 DEF RecordLost, TypeOK
    <3> QED BY <1>8, <3>1, <3>2
  <2>3. "closing" \in Stations \ {"idle"} /\ MoveTo(w, "closing")
    BY <1>8 DEF Record, RecordLost, Stations
  <2>4. UNCHANGED <<queued, issued, beats, operators, purge, swept>>
    BY <1>8 DEF Record, RecordLost
  <2> QED BY <2>1, <2>2, <2>3, <2>4, MoveTyped DEF TypeOK
<1>9. ASSUME NEW w \in Workers, Close(w) PROVE TypeOK'
  <2>1. job[w] \in Tasks
    BY <1>9, WorkerHasJob DEF Close
  <2>2. fresh' \in [Tasks -> -1..StuckAfter]
    BY <1>9, <2>1, RefreshTyped DEF Close, TypeOK
  <2>3. /\ status' \in [Tasks -> Statuses]
        /\ \A u \in Tasks : status'[u] = "absent" => parent'[u] = NoTask
    BY <1>9, <2>1 DEF Close, TypeOK, Statuses
  <2> QED BY <1>9, <2>2, <2>3, LeaveTyped DEF Close, TypeOK
<1>10. ASSUME NEW w \in Workers, Crash(w) PROVE TypeOK'
  <2>1. job[w] \in Tasks
    BY <1>10, WorkerHasJob DEF Crash
  <2>2. queued' \in [Tasks -> 0..MaxCopies]
    BY <1>10, <2>1, EnqueueTyped DEF Crash
  <2> QED BY <1>10, <2>2, LeaveTyped DEF Crash, TypeOK
<1>11. ASSUME NEW o \in Operators, NEW t \in Tasks, RetryReads(o, t) PROVE TypeOK'
  BY <1>11 DEF RetryReads, Go, Presses, TypeOK
<1>12. ASSUME NEW o \in Operators, SweepLocks(o) PROVE TypeOK'
  BY <1>12 DEF SweepLocks, Lockable, Go, Presses, TypeOK
<1>13. ASSUME NEW o \in Operators, RetryFlushes(o) PROVE TypeOK'
  BY <1>13 DEF RetryFlushes, Go, Presses, TypeOK
<1>14. ASSUME NEW o \in Operators, Commit(o) PROVE TypeOK'
  <2>1. PICK f \in Reserved(o) :
         /\ status' = [t \in Tasks |-> IF t \in Children(f) THEN "pending" ELSE status[t]]
         /\ parent' = [t \in Tasks |-> IF t \in Children(f) THEN ChildOf(f, t) ELSE parent[t]]
         /\ issued' = issued \cup Children(f)
         /\ kids' = [kids EXCEPT ![o] = Children(f)]
         /\ swept' = IF press[o] = "locked" THEN swept \cup Children(f) ELSE swept
    BY <1>14 DEF Commit
  <2>2. Children(f) \subseteq Tasks /\ \A c \in Children(f) : ChildOf(f, c) \in Tasks
    BY ChildrenFresh DEF TypeOK, Tasks
  <2>3. /\ status' \in [Tasks -> Statuses]
        /\ parent' \in [Tasks -> Tasks \cup {NoTask}]
        /\ \A u \in Tasks : status'[u] = "absent" => parent'[u] = NoTask
    BY <2>1, <2>2 DEF TypeOK, Statuses
  <2>4. issued' \subseteq Tasks /\ kids' \in [Operators -> SUBSET Tasks] /\ swept' \subseteq Tasks
    BY <2>1, <2>2 DEF TypeOK
  <2> QED BY <1>14, <2>3, <2>4 DEF Commit, Go, Presses, TypeOK
<1>15. ASSUME NEW o \in Operators, Rollback(o) \/ Finish(o) PROVE TypeOK'
  BY <1>15 DEF Rollback, Finish, Go, Presses, TypeOK
<1>16. ASSUME NEW o \in Operators, NEW c \in Tasks, Send(o, c) \/ SendFails(o, c) PROVE TypeOK'
  <2>1. queued' \in [Tasks -> 0..MaxCopies]
    BY <1>16, EnqueueTyped DEF Send, SendFails, TypeOK
  <2> QED BY <1>16, <2>1 DEF Send, SendFails, Sends, TypeOK
<1>17. ASSUME NEW o \in Operators, FailUnsent(o) PROVE TypeOK'
  <2>1. unsent[o] \in Tasks
    BY <1>17 DEF FailUnsent, TypeOK
  <2>2. /\ status' \in [Tasks -> Statuses]
        /\ parent' \in [Tasks -> Tasks \cup {NoTask}]
        /\ fresh' \in [Tasks -> -1..StuckAfter]
        /\ \A u \in Tasks : status'[u] = "absent" => parent'[u] = NoTask
    <3>1. CASE Write(unsent[o], "failed")
      BY <3>1, <2>1, WriteTyped DEF Statuses, Terminal, Retryable
    <3>2. CASE UNCHANGED rows
      BY <3>2 DEF TypeOK
    <3> QED BY <1>17, <3>1, <3>2 DEF FailUnsent
  <2> QED BY <1>17, <2>2 DEF FailUnsent, TypeOK
<1>18. ASSUME SweepStuck PROVE TypeOK'
  <2>1. status' \in [Tasks -> Statuses] /\ \A u \in Tasks : status'[u] = "absent" => status[u] = "absent"
    BY <1>18 DEF SweepStuck, Statuses, Terminal, Retryable, TypeOK
  <2>2. fresh' \in [Tasks -> -1..StuckAfter]
    <3>1. 0 \in -1..StuckAfter
      OBVIOUS
    <3> QED BY <1>18, <3>1 DEF SweepStuck, TypeOK
  <2>3. UNCHANGED <<parent, queued, issued, workers, operators, purge, swept>>
    BY <1>18 DEF SweepStuck
  <2>4. \A u \in Tasks : status'[u] = "absent" => parent'[u] = NoTask
    BY <2>1, <2>3 DEF TypeOK
  <2>5. parent' \in [Tasks -> Tasks \cup {NoTask}]
    BY <2>3 DEF TypeOK
  <2> QED BY <2>1, <2>2, <2>3, <2>4, <2>5 DEF TypeOK
<1>19. ASSUME PurgeUnlinks PROVE TypeOK'
  BY <1>19 DEF PurgeUnlinks, Finished, TypeOK
<1>20. ASSUME PurgeDeletes PROVE TypeOK'
  <2>1. /\ status' \in [Tasks -> Statuses]
        /\ parent' \in [Tasks -> Tasks \cup {NoTask}]
        /\ \A u \in Tasks : status'[u] = "absent" => parent'[u] = NoTask
    BY <1>20 DEF PurgeDeletes, Statuses, TypeOK
  <2> QED BY <1>20, <2>1 DEF PurgeDeletes, TypeOK
<1>21. ASSUME PurgeAborts PROVE TypeOK'
  BY <1>21 DEF PurgeAborts, TypeOK
<1>22. ASSUME Tick PROVE TypeOK'
  <2>1. fresh' \in [Tasks -> -1..StuckAfter]
    BY <1>22 DEF Tick, Older, TypeOK
  <2>2. quiet' \in [Workers -> 0..CallEvery] /\ gap' \in [Workers -> 0..BeatMin]
    BY <1>22 DEF Tick, TypeOK
  <2> QED BY <1>22, <2>1, <2>2 DEF Tick, TypeOK
<1>23. CASE UNCHANGED vars
  BY <1>23 DEF vars, TypeOK
<1>24. ASSUME NEW w \in Workers, WorkerStep(w) PROVE TypeOK'
  <2>1. CASE SignalStep(w)
    BY <2>1, <1>3, <1>4, <1>6, <1>7, <1>8, <1>9 DEF SignalStep
  <2> QED BY <1>24, <2>1, <1>2, <1>5, <1>10 DEF WorkerStep
<1>25. ASSUME NEW o \in Operators, OperatorStep(o) PROVE TypeOK'
  <2>1. ASSUME NEW t \in Tasks, RetryReads(o, t) \/ Send(o, t) \/ SendFails(o, t) PROVE TypeOK'
    BY <2>1, <1>11, <1>16
  <2>2. CASE SweepReads(o) \/ SweepLocks(o) \/ RetryFlushes(o)
    <3>1. CASE SweepReads(o)
      BY <3>1 DEF SweepReads, Eligible, Go, Presses, TypeOK
    <3> QED BY <2>2, <3>1, <1>12, <1>13
  <2>3. CASE Commit(o) \/ Rollback(o) \/ FailUnsent(o) \/ Finish(o)
    BY <2>3, <1>14, <1>15, <1>17
  <2> QED BY <1>25, <2>1, <2>2, <2>3 DEF OperatorStep
<1> QED BY <1>1, <1>18, <1>19, <1>20, <1>21, <1>22, <1>23, <1>24, <1>25 DEF Next

(* Every column, queue, worker and press keeps its type; a worker has a    *)
(* task exactly when it is not idle, and a row that is not there links to  *)
(* nothing.                                                                *)
THEOREM TypeCorrect == Spec => []TypeOK
<1>1. Init => TypeOK
  BY HeartbeatAssumption, ActorsAssumption DEF Init, TypeOK, Statuses, Stations, Presses
<1> QED BY <1>1, TypeStep, PTL DEF Spec

-----------------------------------------------------------------------------
(* The inductive invariant of the table, the broker and the operators.     *)

Afoot(t) == queued[t] > 0 \/ \E w \in Workers : job[w] = t
Untouched(t) == ~Afoot(t) /\ \A o \in Operators : unsent[o] # t

(* A child that its press has not tried to send is as it was committed.    *)
KidsFresh ==
    \A o \in Operators : \A c \in kids[o] :
        /\ c \in Retries \cap issued
        /\ status[c] = "pending"
        /\ Untouched(c)
        /\ \A p \in Operators : c \in kids[p] => p = o

(* An id not in use has no row, no message and no worker.                  *)
UnissuedClean ==
    \A t \in Tasks \ issued : ~Exists(t) /\ Untouched(t)

(* What a purge is about to delete is over.                                *)
ExpiredOver == \A t \in expired : status[t] \in Terminal /\ ~Afoot(t)

(* The parents held by a press are there when it commits.                  *)
HeldThere ==
    \A o \in Operators : press[o] \in {"locked", "linked"} =>
        \A t \in held[o] : Exists(t)

Inv == /\ RowBeforeMessage /\ KidsFresh /\ UnissuedClean /\ ExpiredOver
       /\ HeldThere /\ HeldRetryable /\ LinksValid

(* What a step of a worker can do: to one task, its own or one it takes    *)
(* from the queue, and not to the row of it while a sweep holds it.        *)
Touches(t) ==
    /\ Afoot(t)
    /\ \A u \in Tasks \ {t} : status'[u] = status[u] /\ queued'[u] = queued[u]
    /\ status'[t] # status[t] => status'[t] # "absent" /\ Unlocked(t)
    /\ \A v \in Workers : job'[v] \in {job[v], t, NoTask}
    /\ UNCHANGED <<parent, issued, operators, purge, swept>>

LEMMA WriteOne ==
    ASSUME TypeOK, NEW t \in Tasks, NEW s \in Statuses \ {"absent"},
           Write(t, s) \/ UNCHANGED rows
    PROVE  /\ \A u \in Tasks \ {t} : status'[u] = status[u]
           /\ status'[t] # status[t] => status'[t] # "absent" /\ Unlocked(t)
           /\ UNCHANGED parent
BY DEF Write, TypeOK, rows

LEMMA WorkerTouches ==
    ASSUME TypeOK, NEW w \in Workers, WorkerStep(w)
    PROVE  \E t \in Tasks : Touches(t)
<1> USE DEF operators, purge, beats
<1>1. ASSUME NEW t \in Tasks, Receive(w, t) PROVE Touches(t)
  BY <1>1 DEF Receive, Touches, Afoot, TypeOK, rows
<1>2. ASSUME at[w] # "idle" PROVE job[w] \in Tasks /\ Afoot(job[w])
  BY <1>2, WorkerHasJob DEF Afoot
<1>5. ASSUME Start(w) PROVE Touches(job[w])
  <2>1. at[w] # "idle"
    BY <1>5 DEF Start, BodyStarts
  <2>2. Write(job[w], "running") /\ UNCHANGED <<queued, issued, operators, purge, swept, job>>
    BY <1>5 DEF Start, BodyStarts, MoveTo
  <2>3. "running" \in Statuses \ {"absent"}
    BY DEF Statuses
  <2> QED BY <1>2, <2>1, <2>2, <2>3, WriteOne DEF Touches
<1>6. ASSUME StartUnseen(w) PROVE Touches(job[w])
  <2>1. at[w] # "idle"
    BY <1>6 DEF StartUnseen, BodyStarts
  <2> QED BY <1>2, <1>6, <2>1 DEF StartUnseen, BodyStarts, MoveTo, rows, Touches
<1>7. ASSUME DropRevoked(w) PROVE Touches(job[w])
  <2>1. at[w] # "idle"
    BY <1>7 DEF DropRevoked
  <2>2. "revoked" \in Statuses \ {"absent"}
    BY DEF Statuses, Terminal
  <2>3. (Write(job[w], "revoked") \/ UNCHANGED rows) /\ UNCHANGED <<queued, issued, operators, purge, swept>>
    BY <1>7 DEF DropRevoked
  <2>4. \A v \in Workers : job'[v] \in {job[v], job[w], NoTask}
    BY <1>7 DEF DropRevoked, Leave, TypeOK
  <2> QED BY <1>2, <2>1, <2>2, <2>3, <2>4, WriteOne DEF Touches
<1>8. ASSUME Heartbeat(w) PROVE Touches(job[w])
  <2>1. at[w] # "idle"
    BY <1>8 DEF Heartbeat, InBody
  <2> QED BY <1>2, <1>8, <2>1 DEF Heartbeat, Touches
<1>9. ASSUME BodyEnds(w) PROVE Touches(job[w])
  <2>1. at[w] # "idle"
    BY <1>9 DEF BodyEnds, InBody
  <2> QED BY <1>2, <1>9, <2>1 DEF BodyEnds, MoveTo, rows, Touches
<1>10. ASSUME Resend(w) PROVE Touches(job[w])
  <2>1. at[w] # "idle"
    BY <1>10 DEF Resend, InBody
  <2>2. "pending" \in Statuses \ {"absent"}
    BY DEF Statuses
  <2>3. /\ Write(job[w], "pending") \/ UNCHANGED rows
        /\ UNCHANGED <<issued, operators, purge, swept, job>>
    BY <1>10 DEF Resend, MoveTo
  <2>4. \A u \in Tasks \ {job[w]} : queued'[u] = queued[u]
    BY <1>10 DEF Resend, Enqueue, TypeOK
  <2> QED BY <1>2, <2>1, <2>2, <2>3, <2>4, WriteOne DEF Touches
<1>11. ASSUME Record(w) PROVE Touches(job[w])
  <2>1. at[w] # "idle"
    BY <1>11 DEF Record
  <2>2. Outcome(at[w]) \in Statuses \ {"absent"}
    BY <1>11 DEF Record, Outcome, Statuses, Terminal, Retryable
  <2>3. /\ Write(job[w], Outcome(at[w]))
        /\ UNCHANGED <<queued, issued, operators, purge, swept, job>>
    BY <1>11 DEF Record, MoveTo
  <2> QED BY <1>2, <2>1, <2>2, <2>3, WriteOne DEF Touches
<1>12. ASSUME RecordLost(w) PROVE Touches(job[w])
  <2>1. at[w] # "idle"
    BY <1>12 DEF RecordLost
  <2> QED BY <1>2, <1>12, <2>1 DEF RecordLost, MoveTo, rows, Touches
<1>13. ASSUME Close(w) PROVE Touches(job[w])
  <2>1. at[w] # "idle"
    BY <1>13 DEF Close
  <2>2. /\ \A u \in Tasks \ {job[w]} : status'[u] = status[u]
        /\ status'[job[w]] # status[job[w]] => status'[job[w]] # "absent" /\ Unlocked(job[w])
    BY <1>13, <1>2, <2>1 DEF Close, Exists, TypeOK
  <2>3. UNCHANGED <<parent, queued, issued, operators, purge, swept>>
    BY <1>13 DEF Close
  <2>4. \A v \in Workers : job'[v] \in {job[v], job[w], NoTask}
    BY <1>13 DEF Close, Leave, TypeOK
  <2> QED BY <1>2, <2>1, <2>2, <2>3, <2>4 DEF Touches
<1>14. ASSUME Crash(w) PROVE Touches(job[w])
  <2>1. at[w] # "idle"
    BY <1>14 DEF Crash
  <2>2. \A v \in Workers : job'[v] \in {job[v], job[w], NoTask}
    BY <1>14 DEF Crash, Leave, TypeOK
  <2>3. \A u \in Tasks \ {job[w]} : queued'[u] = queued[u]
    BY <1>14 DEF Crash, Enqueue, TypeOK
  <2> QED BY <1>2, <1>14, <2>1, <2>2, <2>3 DEF Crash, rows, Touches
<1>15. at[w] # "idle" \/ \E t \in Tasks : Receive(w, t)
  BY DEF WorkerStep, SignalStep, Start, StartUnseen, BodyStarts, DropRevoked, Heartbeat,
         BodyEnds, InBody, Resend, Record, RecordLost, Close, Crash
<1>16. CASE \E t \in Tasks : Receive(w, t)
  BY <1>1, <1>16
<1>17. CASE SignalStep(w)
  BY <1>2, <1>15, <1>1, <1>17, <1>5, <1>6, <1>7, <1>9, <1>10, <1>11, <1>12, <1>13 DEF SignalStep
<1>18. CASE Heartbeat(w) \/ Crash(w)
  BY <1>2, <1>15, <1>1, <1>18, <1>8, <1>14
<1> QED BY <1>16, <1>17, <1>18 DEF WorkerStep

LEMMA TouchesKeeps ==
    ASSUME TypeOK, TypeOK', Inv, NEW t \in Tasks, Touches(t)
    PROVE  Inv'
<1> USE DEF Touches, Inv, operators, purge
<1>1. \A u \in Tasks \ {t} : Afoot(u)' => Afoot(u)
  BY ActorsAssumption DEF Afoot, TypeOK
<1>2. \A u \in Tasks : status'[u] = "absent" => status[u] = "absent"
  OBVIOUS
<1>3. RowBeforeMessage'
  <2>1. \A u \in Retries : Afoot(u) => Exists(u)
    BY DEF RowBeforeMessage, Afoot
  <2>2. \A u \in Retries : Afoot(u)' => Exists(u)'
    BY <1>1, <1>2, <2>1 DEF Exists, Tasks
  <2> QED BY <2>2 DEF RowBeforeMessage, Afoot
<1>4. KidsFresh'
  <2>1. \A o \in Operators : \A c \in kids[o] : c # t
    BY DEF KidsFresh, Untouched
  <2> QED BY <1>1, <2>1 DEF KidsFresh, Untouched, TypeOK
<1>5. UnissuedClean'
  <2>1. t \in issued
    BY DEF UnissuedClean, Untouched
  <2> QED BY <1>1, <2>1 DEF UnissuedClean, Untouched, Exists
<1>6. ExpiredOver'
  <2>1. t \notin expired
    BY DEF ExpiredOver
  <2> QED BY <1>1, <2>1 DEF ExpiredOver, TypeOK
<1>7. HeldThere'
  BY <1>2 DEF HeldThere, Exists, TypeOK
<1>8. HeldRetryable'
  BY DEF HeldRetryable, Unlocked, TypeOK
<1>9. LinksValid'
  BY <1>2 DEF LinksValid, Exists, TypeOK
<1> QED BY <1>3, <1>4, <1>5, <1>6, <1>7, <1>8, <1>9

LEMMA InvStep == TypeOK /\ TypeOK' /\ Inv /\ [Next]_vars => Inv'
<1> SUFFICES ASSUME TypeOK, TypeOK', Inv, [Next]_vars PROVE Inv'
  OBVIOUS
<1> USE DEF workers, operators, purge, rows
<1>1. ASSUME NEW t \in Tasks, Publish(t) PROVE Inv'
  <2>1. t \notin issued /\ t \notin Retries /\ t \in Tasks /\ ~Exists(t) /\ Untouched(t)
    BY <1>1, ActorsAssumption DEF Publish, Inv, UnissuedClean
  <2>2. "pending" \in Statuses \ {"absent"}
    BY DEF Statuses
  <2>3. /\ \A u \in Tasks \ {t} : status'[u] = status[u] /\ queued'[u] = queued[u]
        /\ status'[t] # status[t] => status'[t] # "absent" /\ Unlocked(t)
        /\ UNCHANGED <<parent, workers, operators, purge, swept>>
        /\ issued' = issued \cup {t}
    BY <1>1, <2>1, <2>2, WriteOne DEF Publish, Enqueue, TypeOK
  <2>4. \A u \in Tasks \ {t} : Afoot(u)' <=> Afoot(u)
    BY <2>3 DEF Afoot
  <2>5. RowBeforeMessage'
    BY <2>1, <2>3 DEF Inv, RowBeforeMessage, Exists, Tasks
  <2>6. KidsFresh'
    <3>1. \A o \in Operators : \A c \in kids[o] : c \in Tasks \ {t}
      BY <2>1 DEF Inv, KidsFresh, Tasks
    <3> QED BY <2>3, <2>4, <3>1 DEF Inv, KidsFresh, Untouched
  <2>7. UnissuedClean'
    BY <2>3, <2>4 DEF Inv, UnissuedClean, Untouched, Exists
  <2>8. ExpiredOver'
    <3>1. t \notin expired
      BY <2>1 DEF Inv, ExpiredOver, Exists, Terminal, Retryable
    <3> QED BY <2>3, <2>4, <3>1 DEF Inv, ExpiredOver, TypeOK
  <2>9. HeldThere' /\ HeldRetryable' /\ LinksValid'
    BY <2>1, <2>3 DEF Inv, HeldThere, HeldRetryable, LinksValid, Exists, Unlocked, TypeOK
  <2> QED BY <2>5, <2>6, <2>7, <2>8, <2>9 DEF Inv
<1>2. ASSUME NEW w \in Workers, WorkerStep(w) PROVE Inv'
  BY <1>2, WorkerTouches, TouchesKeeps
<1>3. ASSUME NEW o \in Operators, NEW t \in Tasks, SweepReads(o) \/ RetryReads(o, t) PROVE Inv'
  BY <1>3 DEF SweepReads, RetryReads, Go, TypeOK, Inv, RowBeforeMessage, KidsFresh, UnissuedClean,
     ExpiredOver, HeldThere, HeldRetryable, LinksValid, Afoot, Untouched, Exists
<1>4. ASSUME NEW o \in Operators, SweepLocks(o) PROVE Inv'
  <2>1. UNCHANGED <<rows, queued, issued, workers, kids, unsent, purge, swept>>
    BY <1>4 DEF SweepLocks
  <2>2. RowBeforeMessage' /\ KidsFresh' /\ UnissuedClean' /\ ExpiredOver' /\ LinksValid'
    BY <2>1 DEF Inv, RowBeforeMessage, KidsFresh, UnissuedClean, ExpiredOver, LinksValid,
       Afoot, Untouched, Exists
  <2>3. PICK S \in SUBSET Lockable(o) :
          /\ held' = [held EXCEPT ![o] = S]
          /\ Go(o, IF S = {} THEN "idle" ELSE "locked")
    BY <1>4 DEF SweepLocks
  <2>4. \A t \in S : status[t] \in Retryable
    BY DEF Lockable
  <2>5. HeldRetryable' /\ HeldThere'
    BY <2>1, <2>3, <2>4 DEF Inv, HeldRetryable, HeldThere, Exists, Retryable, Go, TypeOK
  <2> QED BY <2>2, <2>5 DEF Inv
<1>5. ASSUME NEW o \in Operators, RetryFlushes(o) PROVE Inv'
  <2>1. UNCHANGED <<rows, queued, issued, workers, kids, unsent, purge, swept>>
    BY <1>5 DEF RetryFlushes
  <2>2. RowBeforeMessage' /\ KidsFresh' /\ UnissuedClean' /\ ExpiredOver' /\ LinksValid'
    BY <2>1 DEF Inv, RowBeforeMessage, KidsFresh, UnissuedClean, ExpiredOver, LinksValid,
       Afoot, Untouched, Exists
  <2>3. HeldRetryable' /\ HeldThere'
    BY <1>5, <2>1 DEF RetryFlushes, Inv, HeldRetryable, HeldThere, Exists, Go, TypeOK
  <2> QED BY <2>2, <2>3 DEF Inv
<1>6. ASSUME NEW o \in Operators, Commit(o) PROVE Inv'
  <2>1. PICK f \in Reserved(o) :
         /\ status' = [t \in Tasks |-> IF t \in Children(f) THEN "pending" ELSE status[t]]
         /\ parent' = [t \in Tasks |-> IF t \in Children(f) THEN ChildOf(f, t) ELSE parent[t]]
         /\ issued' = issued \cup Children(f)
         /\ kids' = [kids EXCEPT ![o] = Children(f)]
    BY <1>6 DEF Commit
  <2>2. /\ press[o] \in {"locked", "linked"}
        /\ held' = [held EXCEPT ![o] = {}]
        /\ press' = [press EXCEPT ![o] = "sending"]
        /\ UNCHANGED <<fresh, queued, workers, seen, unsent, purge>>
    BY <1>6 DEF Commit, Go
  <2>3. \A c \in Children(f) : /\ c \in Retries \ issued /\ c \in Tasks
                               /\ ~Exists(c) /\ Untouched(c)
                               /\ ChildOf(f, c) \in held[o]
    BY ChildrenFresh DEF Inv, UnissuedClean, Tasks
  <2>4. \A t \in Tasks : /\ Afoot(t)' <=> Afoot(t)
                         /\ Untouched(t)' <=> Untouched(t)
                         /\ Exists(t) => Exists(t)'
    BY <2>1, <2>2 DEF Afoot, Untouched, Exists
  <2>5. RowBeforeMessage'
    BY <2>1, <2>2, <2>4 DEF Inv, RowBeforeMessage, Tasks
  <2>6. KidsFresh'
    <3>1. \A p \in Operators : \A c \in kids[p] :
            /\ c \in Retries \cap issued /\ c \in Tasks /\ status[c] = "pending" /\ Untouched(c)
            /\ \A q \in Operators : c \in kids[q] => q = p
      BY DEF Inv, KidsFresh, Tasks
    <3>2. \A p \in Operators : kids'[p] = IF p = o THEN Children(f) ELSE kids[p]
      BY <2>1 DEF TypeOK
    <3>3. ASSUME NEW p \in Operators, NEW c \in kids'[p]
          PROVE /\ c \in Retries \cap issued' /\ status'[c] = "pending" /\ Untouched(c)'
                /\ \A q \in Operators : c \in kids'[q] => q = p
      BY <2>1, <2>3, <2>4, <3>1, <3>2, <3>3
    <3> QED BY <3>3 DEF KidsFresh
  <2>7. UnissuedClean'
    BY <2>1, <2>4 DEF Inv, UnissuedClean, Exists
  <2>8. ExpiredOver'
    BY <2>1, <2>2, <2>3, <2>4 DEF Inv, ExpiredOver, Exists, Terminal, Retryable, TypeOK
  <2>9. HeldThere'
    BY <2>1, <2>2, <2>4 DEF Inv, HeldThere, TypeOK
  <2>10. HeldRetryable'
    BY <2>1, <2>2, <2>3 DEF Inv, HeldRetryable, Exists, Retryable, TypeOK
  <2>11. LinksValid'
    <3>1. \A t \in held[o] : Exists(t) /\ t \in Tasks
      BY <2>2 DEF Inv, HeldThere, TypeOK
    <3> QED BY <2>1, <2>3, <2>4, <3>1 DEF Inv, LinksValid, TypeOK
  <2> QED BY <2>5, <2>6, <2>7, <2>8, <2>9, <2>10, <2>11 DEF Inv
<1>7. ASSUME NEW o \in Operators, Rollback(o) PROVE Inv'
  BY <1>7 DEF Rollback, Go, TypeOK, Inv, RowBeforeMessage, KidsFresh, UnissuedClean,
     ExpiredOver, HeldThere, HeldRetryable, LinksValid, Afoot, Untouched, Exists
<1>8. ASSUME NEW o \in Operators, NEW c \in Tasks, Send(o, c) \/ SendFails(o, c) PROVE Inv'
  <2>1. /\ c \in kids[o] /\ kids' = [kids EXCEPT ![o] = @ \ {c}]
        /\ UNCHANGED <<rows, issued, workers, press, seen, held, purge, swept>>
        /\ \A t \in Tasks \ {c} : queued'[t] = queued[t]
        /\ \A p \in Operators : unsent'[p] \in {unsent[p], c}
    BY <1>8 DEF Send, SendFails, Sends, Enqueue, TypeOK
  <2>2. status[c] = "pending" /\ c \in issued /\ \A p \in Operators : c \notin kids'[p]
    BY <2>1 DEF Inv, KidsFresh, TypeOK
  <2>3. \A t \in Tasks \ {c} : (Afoot(t)' <=> Afoot(t)) /\ (Untouched(t) => Untouched(t)')
    BY <2>1 DEF Afoot, Untouched
  <2>4. RowBeforeMessage'
    BY <2>1, <2>2 DEF Inv, RowBeforeMessage, Exists, Tasks
  <2>5. KidsFresh'
    <3>1. \A p \in Operators : \A d \in kids'[p] : d \in kids[p] /\ d # c /\ d \in Tasks
      BY <2>1, <2>2 DEF TypeOK
    <3>2. \A p \in Operators : \A d \in kids[p] :
            /\ d \in Retries \cap issued /\ status[d] = "pending" /\ Untouched(d)
            /\ \A q \in Operators : d \in kids[q] => q = p
      BY DEF Inv, KidsFresh
    <3>3. ASSUME NEW p \in Operators, NEW d \in kids'[p]
          PROVE /\ d \in Retries \cap issued' /\ status'[d] = "pending" /\ Untouched(d)'
                /\ \A q \in Operators : d \in kids'[q] => q = p
      BY <2>1, <2>3, <3>1, <3>2, <3>3
    <3> QED BY <3>3 DEF KidsFresh
  <2>6. UnissuedClean'
    BY <2>1, <2>2, <2>3 DEF Inv, UnissuedClean, Exists
  <2>7. ExpiredOver'
    BY <2>1, <2>2, <2>3 DEF Inv, ExpiredOver, Terminal, Retryable, TypeOK
  <2>8. HeldThere' /\ HeldRetryable' /\ LinksValid'
    BY <2>1 DEF Inv, HeldThere, HeldRetryable, LinksValid, Exists
  <2> QED BY <2>4, <2>5, <2>6, <2>7, <2>8 DEF Inv
<1>9. ASSUME NEW o \in Operators, FailUnsent(o) PROVE Inv'
  <2>1. /\ unsent[o] \in Tasks
        /\ \A t \in Tasks \ {unsent[o]} : status'[t] = status[t]
        /\ status'[unsent[o]] # status[unsent[o]] =>
             status[unsent[o]] = "pending" /\ status'[unsent[o]] = "failed" /\ Unlocked(unsent[o])
        /\ unsent' = [unsent EXCEPT ![o] = NoTask]
        /\ UNCHANGED <<parent, queued, issued, workers, press, seen, held, kids, purge, swept>>
    BY <1>9 DEF FailUnsent, Write, TypeOK
  <2>2. \A t \in Tasks : /\ Exists(t) <=> Exists(t)'
                         /\ Afoot(t)' <=> Afoot(t)
                         /\ Untouched(t) => Untouched(t)'
    BY <2>1, ActorsAssumption DEF Exists, Afoot, Untouched, TypeOK
  <2>3. RowBeforeMessage'
    BY <2>1, <2>2 DEF Inv, RowBeforeMessage, Tasks
  <2>4. KidsFresh'
    <3>1. \A p \in Operators : \A d \in kids[p] :
            /\ d \in Retries \cap issued /\ status[d] = "pending" /\ Untouched(d)
            /\ d # unsent[o] /\ d \in Tasks
            /\ \A q \in Operators : d \in kids[q] => q = p
      BY DEF Inv, KidsFresh, Untouched, Tasks
    <3> QED BY <2>1, <2>2, <3>1 DEF KidsFresh
  <2>5. UnissuedClean'
    BY <2>1, <2>2 DEF Inv, UnissuedClean
  <2>6. ExpiredOver'
    BY <2>1, <2>2 DEF Inv, ExpiredOver, Terminal, Retryable, TypeOK
  <2>7. HeldThere' /\ LinksValid'
    BY <2>1, <2>2 DEF Inv, HeldThere, LinksValid, TypeOK
  <2>8. HeldRetryable'
    BY <2>1 DEF Inv, HeldRetryable, Unlocked, TypeOK
  <2> QED BY <2>3, <2>4, <2>5, <2>6, <2>7, <2>8 DEF Inv
<1>10. ASSUME NEW o \in Operators, Finish(o) PROVE Inv'
  <2>1. /\ press' = [press EXCEPT ![o] = "idle"]
        /\ kids' = [kids EXCEPT ![o] = {}]
        /\ unsent' = [unsent EXCEPT ![o] = NoTask]
        /\ UNCHANGED <<rows, queued, issued, workers, seen, held, purge, swept>>
    BY <1>10 DEF Finish, Go
  <2>2. \A t \in Tasks : (Afoot(t)' <=> Afoot(t)) /\ (Untouched(t) => Untouched(t)')
    BY <2>1, ActorsAssumption DEF Afoot, Untouched, TypeOK
  <2>3. \A p \in Operators : kids'[p] \subseteq kids[p]
    BY <2>1 DEF TypeOK
  <2>4. KidsFresh'
    BY <2>1, <2>2, <2>3 DEF Inv, KidsFresh, Tasks
  <2>5. RowBeforeMessage' /\ LinksValid'
    BY <2>1 DEF Inv, RowBeforeMessage, LinksValid, Exists
  <2>6. UnissuedClean' /\ ExpiredOver'
    BY <2>1, <2>2 DEF Inv, UnissuedClean, ExpiredOver, Exists, TypeOK
  <2>7. HeldThere' /\ HeldRetryable'
    BY <2>1 DEF Inv, HeldThere, HeldRetryable, Exists, TypeOK
  <2> QED BY <2>4, <2>5, <2>6, <2>7 DEF Inv
<1>11. ASSUME SweepStuck PROVE Inv'
  <2>1. /\ \A t \in Tasks : \/ status'[t] = status[t]
                            \/ status[t] = "running" /\ status'[t] = "stuck"
        /\ UNCHANGED <<parent, queued, issued, workers, operators, purge, swept>>
    BY <1>11 DEF SweepStuck, Stale
  <2>2. \A t \in Tasks : /\ Exists(t)' <=> Exists(t)
                         /\ Afoot(t)' <=> Afoot(t)
                         /\ Untouched(t)' <=> Untouched(t)
    BY <2>1 DEF Exists, Afoot, Untouched
  <2>3. RowBeforeMessage' /\ UnissuedClean' /\ HeldThere' /\ LinksValid'
    BY <2>1, <2>2 DEF Inv, RowBeforeMessage, UnissuedClean, HeldThere, LinksValid, Tasks, TypeOK
  <2>4. KidsFresh'
    BY <2>1, <2>2 DEF Inv, KidsFresh, Tasks
  <2>5. ExpiredOver' /\ HeldRetryable'
    BY <2>1, <2>2 DEF Inv, ExpiredOver, HeldRetryable, Terminal, Retryable, TypeOK
  <2> QED BY <2>3, <2>4, <2>5 DEF Inv
<1>12. ASSUME PurgeUnlinks \/ PurgeAborts PROVE Inv'
  <2>1. /\ UNCHANGED <<rows, queued, issued, workers, operators, swept>>
        /\ expired' \subseteq Finished
    BY <1>12 DEF PurgeUnlinks, PurgeAborts
  <2>2. ExpiredOver'
    BY <2>1 DEF Finished, ExpiredOver, Afoot, TypeOK
  <2>3. /\ RowBeforeMessage' /\ KidsFresh' /\ UnissuedClean'
        /\ HeldThere' /\ HeldRetryable' /\ LinksValid'
    BY <2>1 DEF Inv, RowBeforeMessage, KidsFresh, UnissuedClean, HeldThere, HeldRetryable,
       LinksValid, Afoot, Untouched, Exists
  <2> QED BY <2>2, <2>3 DEF Inv
<1>13. ASSUME PurgeDeletes PROVE Inv'
  <2> DEFINE gone == expired \ Referenced
  <2>1. /\ \A o \in Operators : held[o] \cap gone = {}
        /\ status' = [t \in Tasks |-> IF t \in gone THEN "absent" ELSE status[t]]
        /\ parent' = [t \in Tasks |-> IF t \in gone \cup cut THEN NoTask ELSE parent[t]]
        /\ expired' = {}
        /\ UNCHANGED <<fresh, queued, issued, workers, operators, swept>>
    BY <1>13 DEF PurgeDeletes
  <2>2. \A t \in gone : status[t] \in Terminal /\ ~Afoot(t)
    BY DEF Inv, ExpiredOver
  <2>3. \A c \in Tasks \ cut : parent[c] \notin gone
    BY DEF Referenced
  <2> HIDE DEF gone
  <2>4. \A t \in Tasks : (Afoot(t)' <=> Afoot(t)) /\ (Untouched(t)' <=> Untouched(t))
    BY <2>1 DEF Afoot, Untouched
  <2>5. \A t \in Tasks \ gone : status'[t] = status[t] /\ (Exists(t)' <=> Exists(t))
    BY <2>1 DEF Exists
  <2>6. RowBeforeMessage'
    <3>1. \A t \in Retries : Afoot(t) => Exists(t) /\ t \in Tasks \ gone
      BY <2>2 DEF Inv, RowBeforeMessage, Afoot, Tasks
    <3>2. \A t \in Retries : Afoot(t)' => Exists(t)'
      BY <2>4, <2>5, <3>1 DEF Tasks
    <3> QED BY <3>2 DEF RowBeforeMessage, Afoot
  <2>7. KidsFresh'
    <3>1. \A p \in Operators : \A d \in kids[p] : d \in Tasks \ gone
      BY <2>2 DEF Inv, KidsFresh, Terminal, Retryable, Tasks
    <3> QED BY <2>1, <2>4, <2>5, <3>1 DEF Inv, KidsFresh
  <2>8. UnissuedClean'
    BY <2>1, <2>4 DEF Inv, UnissuedClean, Exists
  <2>9. ExpiredOver'
    BY <2>1 DEF ExpiredOver
  <2>10. HeldThere' /\ HeldRetryable'
    <3>1. \A o \in Operators : \A t \in held[o] : t \in Tasks \ gone
      BY <2>1 DEF TypeOK
    <3> QED BY <2>1, <2>5, <3>1 DEF Inv, HeldThere, HeldRetryable
  <2>11. LinksValid'
    <3>1. ASSUME NEW c \in Tasks, parent'[c] # NoTask PROVE status'[parent'[c]] # "absent"
      <4>1. parent'[c] = parent[c] /\ c \notin cut
        BY <2>1, <3>1
      <4>2. parent[c] \in Tasks \ gone
        BY <2>3, <3>1, <4>1 DEF TypeOK
      <4> QED BY <2>5, <3>1, <4>1, <4>2 DEF Inv, LinksValid, Exists
    <3> QED BY <3>1 DEF LinksValid, Exists
  <2> QED BY <2>6, <2>7, <2>8, <2>9, <2>10, <2>11 DEF Inv
<1>14. ASSUME Tick \/ UNCHANGED vars PROVE Inv'
  <2>1. UNCHANGED <<status, parent, queued, issued, job, operators, purge>>
    BY <1>14 DEF Tick, vars
  <2> QED BY <2>1 DEF Inv, RowBeforeMessage, KidsFresh, UnissuedClean, ExpiredOver, HeldThere,
       HeldRetryable, LinksValid, Afoot, Untouched, Exists
<1>15. ASSUME NEW o \in Operators, OperatorStep(o) PROVE Inv'
  <2>1. ASSUME NEW t \in Tasks, RetryReads(o, t) \/ Send(o, t) \/ SendFails(o, t) PROVE Inv'
    BY <2>1, <1>3, <1>8
  <2>2. CASE SweepLocks(o) \/ RetryFlushes(o) \/ Commit(o)
    BY <2>2, <1>4, <1>5, <1>6
  <2>3. CASE Rollback(o) \/ FailUnsent(o) \/ Finish(o)
    BY <2>3, <1>7, <1>9, <1>10
  <2>4. CASE SweepReads(o)
    <3>1. \E t \in Tasks : TRUE
      BY <2>4 DEF SweepReads, Eligible
    <3> QED BY <2>4, <3>1, <1>3
  <2> QED BY <1>15, <2>1, <2>2, <2>3, <2>4 DEF OperatorStep
<1> QED BY <1>1, <1>2, <1>11, <1>12, <1>13, <1>14, <1>15 DEF Next

LEMMA InvInit == Init => Inv
BY ActorsAssumption
   DEF Init, Inv, RowBeforeMessage, KidsFresh, UnissuedClean, ExpiredOver, HeldThere, HeldRetryable,
       LinksValid, Afoot, Untouched, Exists, Tasks

LEMMA InvCorrect == Spec => []Inv
BY InvInit, InvStep, TypeCorrect, PTL DEF Spec

(* No message or worker ever runs ahead of a retry's row, however many     *)
(* presses, failed sends and purges there are (GH #452).                   *)
THEOREM RowsFirst == Spec => []RowBeforeMessage
BY InvCorrect, PTL DEF Inv

(* The rows a sweep holds are failed or stuck when it commits, for every   *)
(* interleaving with the workers that write them.                          *)
THEOREM HeldAreRetryable == Spec => []HeldRetryable
BY InvCorrect, PTL DEF Inv

(* No purge leaves a retry linked to a row that is gone.                   *)
THEOREM LinksStayValid == Spec => []LinksValid
BY InvCorrect, PTL DEF Inv

-----------------------------------------------------------------------------
(* The heartbeats of a running body.                                       *)

(* How long a heartbeat can be in coming: the throttle and one call.       *)
Period == BeatMin + CallEvery - 1

(* What has passed of it: the throttle runs in the process, and a body     *)
(* whose throttle is over may still be a call away from its heartbeat.     *)
Spent(w) == IF gap[w] < BeatMin THEN gap[w] ELSE BeatMin - 1 + quiet[w]

BeatsCover ==
    \A w \in Workers : at[w] = "running" /\ status[job[w]] = "running" =>
        fresh[job[w]] >= StuckAfter - lost[w] * Period - Spent(w)

LEMMA ConstantsTyped ==
    /\ BeatMin \in Nat \ {0} /\ CallEvery \in Nat \ {0} /\ LostBeats \in Nat
    /\ StuckAfter \in Nat /\ Period \in Nat
    /\ (LostBeats + 1) * Period <= StuckAfter
BY HeartbeatAssumption DEF Period

LEMMA LostBounded ==
    ASSUME NEW l \in 0..LostBeats
    PROVE  /\ l * Period \in Nat
           /\ (l + 1) * Period = l * Period + Period
           /\ (l + 1) * Period <= StuckAfter
<1>1. /\ (l + 1) * Period <= (LostBeats + 1) * Period
      /\ (l + 1) * Period \in Nat /\ (LostBeats + 1) * Period \in Nat
  BY ConstantsTyped
<1>2. l * Period \in Nat /\ (l + 1) * Period = l * Period + Period
  BY ConstantsTyped
<1> DEFINE a == (l + 1) * Period
           b == (LostBeats + 1) * Period
<1>3. a \in Nat /\ b \in Nat /\ a <= b /\ b <= StuckAfter
  BY <1>1, ConstantsTyped
<1> HIDE DEF a, b
<1>4. a <= StuckAfter
  BY <1>3, ConstantsTyped
<1> QED BY <1>2, <1>4 DEF a

(* So the heartbeat of a running body is never over age.                   *)
LEMMA CoveredIsFresh ==
    ASSUME TypeOK, BeatsCover, NEW w \in Workers, at[w] = "running", status[job[w]] = "running"
    PROVE  fresh[job[w]] >= 0
<1>1. lost[w] \in 0..LostBeats /\ gap[w] \in 0..BeatMin /\ quiet[w] \in 0..CallEvery
  BY DEF TypeOK
<1>2. Spent(w) \in Int /\ Spent(w) <= Period
  BY <1>1, ConstantsTyped DEF Spent, Period
<1>3. fresh[job[w]] \in Int
  BY WorkerHasJob, ConstantsTyped DEF TypeOK
<1>4. fresh[job[w]] >= StuckAfter - lost[w] * Period - Spent(w)
  BY DEF BeatsCover
<1>5. /\ lost[w] * Period \in Nat
      /\ (lost[w] + 1) * Period = lost[w] * Period + Period
      /\ (lost[w] + 1) * Period <= StuckAfter
  BY <1>1, LostBounded
<1> DEFINE a == lost[w] * Period
<1>6. a \in Nat /\ a + Period <= StuckAfter /\ fresh[job[w]] >= StuckAfter - a - Spent(w)
  BY <1>4, <1>5
<1> HIDE DEF a
<1> QED BY <1>2, <1>3, <1>6, ConstantsTyped

(* A worker keeps its cover while it and its task's heartbeat are left     *)
(* alone, or another process starts or refreshes the same task.            *)
Kept(w) ==
    /\ at'[w] = "running" =>
        /\ at[w] = "running" /\ job'[w] = job[w]
        /\ quiet'[w] = quiet[w] /\ gap'[w] = gap[w] /\ lost'[w] = lost[w]
        /\ status'[job[w]] = "running" =>
             \/ fresh'[job[w]] = StuckAfter
             \/ status[job[w]] = "running" /\ fresh'[job[w]] = fresh[job[w]]

LEMMA KeptCovers ==
    ASSUME TypeOK, TypeOK', BeatsCover, NEW w \in Workers, Kept(w),
           at'[w] = "running", status'[job'[w]] = "running"
    PROVE  fresh'[job'[w]] >= StuckAfter - lost'[w] * Period - Spent(w)'
<1>1. lost[w] \in 0..LostBeats /\ gap[w] \in 0..BeatMin /\ quiet[w] \in 0..CallEvery
  BY DEF TypeOK
<1>2. Spent(w) \in Nat /\ Spent(w)' = Spent(w)
  BY <1>1, ConstantsTyped DEF Spent, Kept
<1>3. lost[w] * Period \in Nat
  BY <1>1, LostBounded
<1>4. CASE fresh'[job[w]] = StuckAfter
  BY <1>2, <1>3, <1>4, ConstantsTyped DEF Kept
<1>5. CASE status[job[w]] = "running" /\ fresh'[job[w]] = fresh[job[w]]
  <2>1. at[w] = "running" /\ job'[w] = job[w] /\ lost'[w] = lost[w]
    BY DEF Kept
  <2>2. fresh[job[w]] >= StuckAfter - lost[w] * Period - Spent(w)
    BY <1>5, <2>1 DEF BeatsCover
  <2> QED BY <1>2, <1>5, <2>1, <2>2
<1> QED BY <1>4, <1>5 DEF Kept

(* Writes of rows by anyone, as a worker with another task or the same     *)
(* task sees them.                                                         *)
LEMMA WriteKeeps ==
    ASSUME TypeOK, NEW t \in Tasks, NEW s \in Statuses, NEW u \in Tasks,
           Write(t, s) \/ UNCHANGED rows, status'[u] = "running"
    PROVE  fresh'[u] = StuckAfter \/ (status[u] = "running" /\ fresh'[u] = fresh[u])
BY DEF Write, TypeOK, rows

LEMMA RefreshKeeps ==
    ASSUME TypeOK, NEW t \in Tasks, NEW u \in Tasks, Refresh(t), status[u] = "running"
    PROVE  fresh'[u] = StuckAfter \/ fresh'[u] = fresh[u]
BY DEF Refresh, TypeOK

LEMMA BeatsStep == TypeOK /\ TypeOK' /\ Inv /\ BeatsCover /\ [Next]_vars => BeatsCover'
<1> SUFFICES ASSUME TypeOK, TypeOK', Inv, BeatsCover, [Next]_vars, NEW w \in Workers,
                    at'[w] = "running", status'[job'[w]] = "running"
             PROVE  fresh'[job'[w]] >= StuckAfter - lost'[w] * Period - Spent(w)'
  BY DEF BeatsCover
<1> USE DEF workers, operators, purge, rows, beats
<1> DEFINE Covered == fresh'[job'[w]] >= StuckAfter - lost'[w] * Period - Spent(w)'
<1>0. job'[w] \in Tasks
  BY DEF TypeOK
<1>1. ASSUME Kept(w) PROVE Covered
  BY <1>1, KeptCovers
<1>2. ASSUME UNCHANGED workers,
             \A u \in Tasks : status'[u] = "running" =>
                \/ fresh'[u] = StuckAfter
                \/ status[u] = "running" /\ fresh'[u] = fresh[u]
      PROVE Covered
  BY <1>0, <1>1, <1>2 DEF Kept
<1>3. ASSUME NEW t \in Tasks, Publish(t) PROVE Covered
  <2>1. "pending" \in Statuses /\ UNCHANGED workers /\ (Write(t, "pending") \/ UNCHANGED rows)
    BY <1>3 DEF Publish, Statuses
  <2> QED BY <1>2, <2>1, WriteKeeps
<1>4. ASSUME NEW v \in Workers, WorkerStep(v), v # w PROVE Covered
  <2>1. /\ at'[w] = at[w] /\ job'[w] = job[w]
        /\ quiet'[w] = quiet[w] /\ gap'[w] = gap[w] /\ lost'[w] = lost[w]
    <3>1. CASE \E t \in Tasks : Receive(v, t)
      BY <1>4, <3>1 DEF Receive, TypeOK
    <3>2. CASE Start(v) \/ StartUnseen(v)
      BY <1>4, <3>2 DEF Start, StartUnseen, BodyStarts, MoveTo, TypeOK
    <3>3. CASE DropRevoked(v) \/ Close(v) \/ Crash(v)
      BY <1>4, <3>3 DEF DropRevoked, Close, Crash, Leave, NoBeats, TypeOK
    <3>4. CASE BodyEnds(v) \/ Resend(v)
      BY <1>4, <3>4 DEF BodyEnds, Resend, MoveTo, NoBeats, TypeOK
    <3>5. CASE Record(v) \/ RecordLost(v)
      BY <1>4, <3>5 DEF Record, RecordLost, MoveTo, TypeOK
    <3>6. CASE Heartbeat(v)
      BY <1>4, <3>6 DEF Heartbeat, TypeOK
    <3> QED BY <1>4, <3>1, <3>2, <3>3, <3>4, <3>5, <3>6 DEF WorkerStep, SignalStep
  <2>2. job[w] \in Tasks /\ status'[job[w]] = "running"
    BY <1>0, <2>1
  <2>3. \/ fresh'[job[w]] = StuckAfter
        \/ status[job[w]] = "running" /\ fresh'[job[w]] = fresh[job[w]]
    <3>1. CASE (\E t \in Tasks : Receive(v, t)) \/ StartUnseen(v) \/ BodyEnds(v) \/ RecordLost(v) \/ Crash(v)
      <4>1. UNCHANGED rows
        BY <3>1 DEF Receive, StartUnseen, BodyEnds, RecordLost, Crash
      <4> QED BY <4>1, <2>2
    <3>2. CASE Start(v) \/ DropRevoked(v) \/ Resend(v) \/ Record(v)
      <4>1. \E s \in Statuses : Write(job[v], s) \/ UNCHANGED rows
        BY <3>2 DEF Start, DropRevoked, Resend, Record, Outcome, Statuses, Terminal, Retryable
      <4>2. job[v] \in Tasks
        BY <3>2, WorkerHasJob DEF Start, BodyStarts, DropRevoked, Resend, Record, InBody
      <4> QED BY <4>1, <4>2, <2>2, WriteKeeps
    <3>3. CASE Close(v)
      <4>1. job[v] \in Tasks
        BY <3>3, WorkerHasJob DEF Close
      <4>2. status[job[w]] = "running"
        BY <3>3, <4>1, <2>2 DEF Close, Exists, TypeOK
      <4> QED BY <3>3, <4>1, <4>2, <2>2, RefreshKeeps DEF Close
    <3>4. CASE Heartbeat(v)
      <4>1. job[v] \in Tasks
        BY <3>4, WorkerHasJob DEF Heartbeat, InBody
      <4>2. status[job[w]] = "running" /\ (fresh' = fresh \/ Refresh(job[v]))
        BY <3>4, <2>2 DEF Heartbeat
      <4> QED BY <4>1, <4>2, <2>2, RefreshKeeps
    <3> QED BY <1>4, <3>1, <3>2, <3>3, <3>4 DEF WorkerStep, SignalStep
  <2> QED BY <1>1, <2>1, <2>3 DEF Kept
<1>5. ASSUME WorkerStep(w) PROVE Covered
  <2>1. CASE Start(w)
    <3>1. /\ at[w] # "idle" /\ Write(job[w], "running") /\ job'[w] = job[w]
          /\ quiet'[w] = 0 /\ gap'[w] = BeatMin /\ lost'[w] = 0
      BY <2>1 DEF Start, BodyStarts, MoveTo, TypeOK
    <3>2. fresh'[job'[w]] = StuckAfter
      BY <1>0, <3>1 DEF Write, TypeOK
    <3>3. Spent(w)' = BeatMin - 1
      BY <3>1, ConstantsTyped DEF Spent
    <3> QED BY <3>1, <3>2, <3>3, ConstantsTyped
  <2>2. CASE Heartbeat(w)
    <3>1. at[w] = "running" /\ job'[w] = job[w] /\ status[job[w]] = "running"
      BY <2>2 DEF Heartbeat
    <3>2. lost[w] \in 0..LostBeats /\ gap[w] \in 0..BeatMin /\ quiet[w] \in 0..CallEvery
      BY DEF TypeOK
    <3>3. CASE gap[w] < BeatMin /\ UNCHANGED <<fresh, gap, lost>>
      BY <3>1, <3>3 DEF BeatsCover, Spent
    <3>4. CASE gap[w] >= BeatMin /\ Refresh(job[w]) /\ lost' = [lost EXCEPT ![w] = 0]
                /\ gap' = [gap EXCEPT ![w] = 0]
      <4>1. lost'[w] = 0 /\ gap'[w] = 0 /\ fresh'[job[w]] = StuckAfter
        BY <3>1, <3>4, <1>0 DEF Refresh, TypeOK
      <4>2. Spent(w)' = 0
        BY <4>1, ConstantsTyped DEF Spent
      <4> QED BY <3>1, <4>1, <4>2, ConstantsTyped
    <3>5. CASE gap[w] >= BeatMin /\ lost' = [lost EXCEPT ![w] = @ + 1] /\ UNCHANGED fresh
                /\ gap' = [gap EXCEPT ![w] = 0]
      <4>1. lost'[w] = lost[w] + 1 /\ gap'[w] = 0 /\ Spent(w)' = 0
        BY <3>5, ConstantsTyped DEF Spent, TypeOK
      <4>2. Spent(w) \in Int /\ Spent(w) <= Period
        BY <3>2, <3>5, ConstantsTyped DEF Spent, Period
      <4>3. fresh[job[w]] >= StuckAfter - lost[w] * Period - Spent(w) /\ fresh[job[w]] \in Int
        BY <3>1, <1>0, ConstantsTyped DEF BeatsCover, TypeOK
      <4>4. lost[w] * Period \in Nat /\ lost'[w] * Period = lost[w] * Period + Period
        BY <3>2, <4>1, LostBounded
      <4> DEFINE a == lost[w] * Period
                 b == lost'[w] * Period
      <4>5. a \in Nat /\ b = a + Period /\ fresh[job[w]] >= StuckAfter - a - Spent(w)
        BY <4>3, <4>4
      <4> HIDE DEF a, b
      <4>6. fresh[job[w]] >= StuckAfter - b - 0
        BY <4>2, <4>3, <4>5, ConstantsTyped
      <4> QED BY <3>1, <3>5, <4>1, <4>6 DEF b
    <3> QED BY <2>2, <3>3, <3>4, <3>5 DEF Heartbeat
  <2>3. at'[w] = "running" => Start(w) \/ Heartbeat(w)
    BY <1>5 DEF WorkerStep, SignalStep, Receive, StartUnseen, DropRevoked, BodyEnds, Resend, Record,
       RecordLost, Close, Crash, MoveTo, Leave, TypeOK
  <2> QED BY <2>1, <2>2, <2>3
<1>6. ASSUME NEW o \in Operators, OperatorStep(o) PROVE Covered
  <2>1. UNCHANGED workers
    BY <1>6 DEF OperatorStep, SweepReads, SweepLocks, RetryReads, RetryFlushes, Commit, Rollback,
       Send, SendFails, Sends, FailUnsent, Finish
  <2>2. CASE FailUnsent(o)
    <3>1. "failed" \in Statuses /\ unsent[o] \in Tasks /\ (Write(unsent[o], "failed") \/ UNCHANGED rows)
      BY <2>2 DEF FailUnsent, Statuses, Terminal, Retryable, TypeOK
    <3> QED BY <1>2, <2>1, <3>1, WriteKeeps
  <2>3. CASE Commit(o)
    <3>1. UNCHANGED fresh /\ \A u \in Tasks : status'[u] \in {"pending", status[u]}
      BY <2>3 DEF Commit
    <3> QED BY <1>2, <2>1, <3>1
  <2>4. CASE UNCHANGED rows
    BY <1>2, <2>1, <2>4
  <2> QED BY <1>6, <2>2, <2>3, <2>4
        DEF OperatorStep, SweepReads, SweepLocks, RetryReads, RetryFlushes, Rollback,
            Send, SendFails, Sends, Finish
<1>7. ASSUME SweepStuck PROVE Covered
  BY <1>2, <1>7 DEF SweepStuck
<1>8. ASSUME PurgeDeletes PROVE Covered
  BY <1>2, <1>8 DEF PurgeDeletes
<1>9. ASSUME PurgeUnlinks \/ PurgeAborts \/ UNCHANGED vars PROVE Covered
  <2>1. UNCHANGED <<rows, workers>>
    BY <1>9 DEF PurgeUnlinks, PurgeAborts, vars
  <2> QED BY <1>2, <2>1
<1>10. ASSUME Tick PROVE Covered
  <2>1. /\ at[w] = "running" /\ job'[w] = job[w] /\ status[job[w]] = "running" /\ lost'[w] = lost[w]
        /\ job[w] \in Tasks
    BY <1>0, <1>10 DEF Tick
  <2>2. /\ quiet[w] < CallEvery /\ quiet'[w] = quiet[w] + 1
        /\ gap'[w] = IF gap[w] < BeatMin THEN gap[w] + 1 ELSE gap[w]
    BY <1>10, <2>1 DEF Tick, InBody
  <2>3. lost[w] \in 0..LostBeats /\ gap[w] \in 0..BeatMin /\ quiet[w] \in 0..CallEvery
        /\ fresh[job[w]] \in Int
    BY <2>1, ConstantsTyped DEF TypeOK
  <2>4. fresh[job[w]] >= 0
    BY <2>1, CoveredIsFresh
  <2>5. fresh'[job[w]] = fresh[job[w]] - 1
    BY <1>10, <2>1, <2>4 DEF Tick, Older
  <2>6. Spent(w) \in Int /\ Spent(w)' \in Int /\ Spent(w)' >= Spent(w) + 1
    BY <2>2, <2>3, ConstantsTyped DEF Spent
  <2>7. fresh[job[w]] >= StuckAfter - lost[w] * Period - Spent(w) /\ lost[w] * Period \in Nat
    BY <2>1, <2>3, LostBounded DEF BeatsCover
  <2> DEFINE a == lost[w] * Period
  <2>8. a \in Nat /\ fresh[job[w]] >= StuckAfter - a - Spent(w)
    BY <2>7
  <2> HIDE DEF a
  <2>9. fresh'[job[w]] >= StuckAfter - a - Spent(w)'
    BY <2>3, <2>5, <2>6, <2>8, ConstantsTyped
  <2> QED BY <2>1, <2>9 DEF a
<1> QED BY <1>3, <1>4, <1>5, <1>6, <1>7, <1>8, <1>9, <1>10 DEF Next

LEMMA BeatsInit == Init => BeatsCover
BY DEF Init, BeatsCover

LEMMA StepIsSilent == TypeOK /\ Inv /\ BeatsCover /\ [Next]_vars => StuckIsSilent
<1> SUFFICES ASSUME TypeOK, Inv, BeatsCover, [Next]_vars, NEW w \in Workers,
                    at[w] = "running", status[job[w]] # "stuck", status'[job[w]] = "stuck"
             PROVE  FALSE
  BY DEF StuckIsSilent
<1>1. job[w] \in Tasks /\ Afoot(job[w])
  BY WorkerHasJob DEF Afoot
<1>2. CASE SweepStuck
  <2>1. status[job[w]] = "running" /\ fresh[job[w]] < 0
    BY <1>1, <1>2 DEF SweepStuck, Stale
  <2>2. fresh[job[w]] >= 0
    BY <2>1, CoveredIsFresh
  <2>3. fresh[job[w]] \in Int
    BY <1>1, ConstantsTyped DEF TypeOK
  <2> QED BY <2>1, <2>2, <2>3
<1>3. ASSUME NEW t \in Tasks, NEW s, s # "stuck", Write(t, s) \/ UNCHANGED rows PROVE FALSE
  BY <1>1, <1>3 DEF Write, TypeOK, rows
<1>4. ASSUME NEW t \in Tasks, Publish(t) PROVE FALSE
  BY <1>3, <1>4 DEF Publish
<1>5. ASSUME NEW v \in Workers, WorkerStep(v) PROVE FALSE
  <2>1. CASE Start(v) \/ DropRevoked(v) \/ Resend(v) \/ Record(v)
    <3>1. job[v] \in Tasks
      BY <2>1, WorkerHasJob DEF Start, BodyStarts, DropRevoked, Resend, Record, InBody
    <3>2. \E s \in Statuses \ {"stuck"} : Write(job[v], s) \/ UNCHANGED rows
      BY <2>1 DEF Start, DropRevoked, Resend, Record, Outcome, Statuses, Terminal, Retryable
    <3> QED BY <1>3, <3>1, <3>2
  <2>2. CASE Close(v)
    BY <1>1, <2>2 DEF Close, TypeOK
  <2>3. CASE UNCHANGED status
    BY <2>3
  <2> QED BY <1>5, <2>1, <2>2, <2>3
          DEF WorkerStep, SignalStep, Receive, StartUnseen, BodyEnds, RecordLost, Heartbeat, Crash, rows
<1>6. ASSUME NEW o \in Operators, OperatorStep(o) PROVE FALSE
  <2>1. CASE FailUnsent(o)
    <3>1. unsent[o] \in Tasks /\ (Write(unsent[o], "failed") \/ UNCHANGED rows)
      BY <2>1 DEF FailUnsent, TypeOK
    <3> QED BY <1>3, <3>1
  <2>2. CASE Commit(o)
    BY <1>1, <2>2 DEF Commit
  <2>3. CASE UNCHANGED status
    BY <2>3
  <2> QED BY <1>6, <2>1, <2>2, <2>3
          DEF OperatorStep, SweepReads, SweepLocks, RetryReads, RetryFlushes, Rollback,
              Send, SendFails, Sends, Finish, rows
<1>7. CASE PurgeDeletes
  BY <1>1, <1>7 DEF PurgeDeletes
<1>8. CASE PurgeUnlinks \/ PurgeAborts \/ Tick \/ UNCHANGED vars
  BY <1>8 DEF PurgeUnlinks, PurgeAborts, Tick, vars, rows
<1> QED BY <1>2, <1>4, <1>5, <1>6, <1>7, <1>8 DEF Next

LEMMA BeatsCorrect == Spec => []BeatsCover
BY BeatsInit, BeatsStep, TypeCorrect, InvCorrect, PTL DEF Spec

(* A body that calls heartbeat() every CallEvery ticks is never called     *)
(* stuck, for every threshold above the throttle and the beats that may    *)
(* be lost, however many workers run copies of the task.                   *)
THEOREM LiveTasksSpared == Spec => SweepSparesLive
BY StepIsSilent, BeatsCorrect, TypeCorrect, InvCorrect, PTL DEF Spec, SweepSparesLive
-----------------------------------------------------------------------------
(* A send that raised and a task that started.                             *)

(* No task retries itself while another worker runs a copy of it: what     *)
(* FailSparesStarted depends on.  A copy needs a second delivery, which    *)
(* the broker makes when a worker crashed or was cut off.                  *)
NoTwinResent ==
    \A v, w \in Workers : Resend(v) /\ v # w => ~(at[w] = "running" /\ job[w] = job[v])

(* The row of a body whose start was recorded is past pending.             *)
StartedSeen ==
    \A w \in Workers : at[w] = "running" => status[job[w]] \notin {"absent", "pending"}

LEMMA StartedInit == Init => StartedSeen
BY DEF Init, StartedSeen

(* A step of a worker that starts no body and writes no pending row.       *)
LEMMA StartedByWorker ==
    ASSUME TypeOK, StartedSeen, NEW w \in Workers, WorkerStep(w), NoTwinResent
    PROVE  StartedSeen'
<1> USE DEF StartedSeen
<1>1. ASSUME at[w] # "idle" PROVE job[w] \in Tasks
  BY <1>1, WorkerHasJob
<1>2. ASSUME \A v \in Workers \ {w} : at'[v] = at[v] /\ job'[v] = job[v],
             at'[w] = "running" => at[w] = "running" /\ job'[w] = job[w],
             UNCHANGED status
      PROVE  StartedSeen'
  BY <1>2
<1>3. ASSUME NEW s \in Statuses \ {"absent", "pending"}, at[w] # "idle",
             Write(job[w], s) \/ UNCHANGED rows,
             \A v \in Workers \ {w} : at'[v] = at[v] /\ job'[v] = job[v],
             at'[w] # "running"
      PROVE  StartedSeen'
  BY <1>1, <1>3 DEF Write, TypeOK, rows
<1>4. ASSUME NEW t \in Tasks, Receive(w, t) PROVE StartedSeen'
  BY <1>4, <1>2 DEF Receive, TypeOK, rows
<1>5. CASE Start(w)
  <2>1. at[w] = "received" /\ Write(job[w], "running") /\ MoveTo(w, "running")
    BY <1>5 DEF Start, BodyStarts
  <2>2. status' = [status EXCEPT ![job[w]] = "running"]
    BY <2>1 DEF Write
  <2> QED BY <1>1, <2>1, <2>2 DEF MoveTo, TypeOK
<1>6. CASE StartUnseen(w)
  BY <1>2, <1>6 DEF StartUnseen, BodyStarts, MoveTo, TypeOK, rows
<1>7. CASE DropRevoked(w)
  <2>1. "revoked" \in Statuses \ {"absent", "pending"}
    BY DEF Statuses, Terminal
  <2> QED BY <1>3, <1>7, <2>1 DEF DropRevoked, Leave, TypeOK
<1>8. CASE Heartbeat(w)
  BY <1>2, <1>8 DEF Heartbeat
<1>9. CASE BodyEnds(w)
  BY <1>2, <1>9 DEF BodyEnds, MoveTo, TypeOK, rows
<1>10. CASE Resend(w)
  <2>1. at[w] # "idle" /\ (Write(job[w], "pending") \/ UNCHANGED rows) /\ MoveTo(w, "resent")
    BY <1>10 DEF Resend, InBody
  <2>2. \A u \in Tasks \ {job[w]} : status'[u] = status[u]
    BY <1>1, <2>1 DEF Write, TypeOK, rows
  <2>3. at' = [at EXCEPT ![w] = "resent"] /\ job' = job
    BY <2>1 DEF MoveTo
  <2>4. ASSUME NEW v \in Workers, at'[v] = "running" PROVE status'[job'[v]] \notin {"absent", "pending"}
    <3>1. v # w /\ at[v] = "running"
      BY <2>3, <2>4 DEF TypeOK
    <3>2. job[v] # job[w] /\ job[v] \in Tasks
      BY <1>10, <3>1, WorkerHasJob DEF NoTwinResent
    <3> QED BY <2>2, <2>3, <3>1, <3>2
  <2> QED BY <2>4
<1>11. CASE Record(w)
  <2>1. Outcome(at[w]) \in Statuses \ {"absent", "pending"}
    BY <1>11 DEF Record, Outcome, Statuses, Terminal, Retryable
  <2>2. at[w] # "idle" /\ Write(job[w], Outcome(at[w])) /\ MoveTo(w, "closing")
    BY <1>11 DEF Record
  <2> QED BY <1>3, <2>1, <2>2 DEF MoveTo, TypeOK
<1>12. CASE RecordLost(w)
  BY <1>2, <1>12 DEF RecordLost, MoveTo, TypeOK, rows
<1>13. CASE Close(w)
  <2>1. /\ \A v \in Workers \ {w} : at'[v] = at[v] /\ job'[v] = job[v]
        /\ at'[w] # "running"
    BY <1>13 DEF Close, Leave, TypeOK
  <2>2. \A u \in Tasks : status[u] # "absent" => status'[u] = status[u]
    BY <1>13, <1>1 DEF Close, Exists, TypeOK
  <2>3. \A v \in Workers : at[v] = "running" => job[v] \in Tasks
    BY WorkerHasJob
  <2> QED BY <2>1, <2>2, <2>3
<1>14. CASE Crash(w)
  BY <1>2, <1>14 DEF Crash, Leave, TypeOK, rows
<1> QED BY <1>4, <1>5, <1>6, <1>7, <1>8, <1>9, <1>10, <1>11, <1>12, <1>13, <1>14
        DEF WorkerStep, SignalStep

(* The other actors write pending only where no worker can be: on an id    *)
(* that was not in use, and a purge deletes only what is over.             *)
LEMMA StartedStep ==
    TypeOK /\ Inv /\ StartedSeen /\ [Next /\ NoTwinResent]_vars => StartedSeen'
<1> SUFFICES ASSUME TypeOK, Inv, StartedSeen, [Next /\ NoTwinResent]_vars PROVE StartedSeen'
  OBVIOUS
<1>1. ASSUME UNCHANGED <<at, job>>,
             \A t \in Tasks : status'[t] = status[t] \/ status'[t] \notin {"absent", "pending"}
                              \/ ~Afoot(t)
      PROVE  StartedSeen'
  <2>1. \A w \in Workers : at[w] = "running" => job[w] \in Tasks /\ Afoot(job[w])
    BY WorkerHasJob DEF Afoot
  <2> QED BY <1>1, <2>1 DEF StartedSeen
<1>2. \A t \in Tasks \ issued : ~Afoot(t)
  BY DEF Inv, UnissuedClean, Untouched
<1>3. CASE UNCHANGED vars
  BY <1>1, <1>3 DEF vars, workers, rows
<1>4. ASSUME NEW t \in Tasks, Publish(t) PROVE StartedSeen'
  <2>1. t \notin issued /\ UNCHANGED <<at, job>> /\ (Write(t, "pending") \/ UNCHANGED rows)
    BY <1>4 DEF Publish, workers
  <2>2. \A u \in Tasks \ {t} : status'[u] = status[u]
    BY <2>1 DEF Write, rows, TypeOK
  <2> QED BY <1>1, <1>2, <2>1, <2>2
<1>5. ASSUME NEW w \in Workers, WorkerStep(w), NoTwinResent PROVE StartedSeen'
  BY <1>5, StartedByWorker
<1>6. ASSUME NEW o \in Operators, OperatorStep(o) PROVE StartedSeen'
  <2>1. UNCHANGED <<at, job>>
    BY <1>6 DEF OperatorStep, SweepReads, SweepLocks, RetryReads, RetryFlushes, Commit, Rollback,
       Send, SendFails, Sends, FailUnsent, Finish, workers
  <2>2. CASE Commit(o)
    <3>1. PICK f \in Reserved(o) :
            status' = [t \in Tasks |-> IF t \in Children(f) THEN "pending" ELSE status[t]]
      BY <2>2 DEF Commit
    <3>2. \A c \in Children(f) : c \notin issued
      BY ChildrenFresh
    <3>3. \A t \in Tasks : status'[t] = status[t] \/ t \notin issued
      BY <3>1, <3>2
    <3> QED BY <1>1, <1>2, <2>1, <3>3
  <2>3. CASE FailUnsent(o)
    <3>1. unsent[o] \in Tasks /\ (Write(unsent[o], "failed") \/ UNCHANGED rows)
      BY <2>3 DEF FailUnsent, TypeOK
    <3>2. \A t \in Tasks : status'[t] = status[t] \/ status'[t] = "failed"
      BY <3>1 DEF Write, rows, TypeOK
    <3> QED BY <1>1, <2>1, <3>2
  <2>4. CASE UNCHANGED status
    BY <1>1, <2>1, <2>4
  <2> QED BY <1>6, <2>2, <2>3, <2>4
          DEF OperatorStep, SweepReads, SweepLocks, RetryReads, RetryFlushes, Rollback,
              Send, SendFails, Sends, Finish, rows
<1>7. CASE SweepStuck
  <2>1. /\ UNCHANGED <<at, job>>
        /\ status' = [t \in Tasks |-> IF t \in Stale THEN "stuck" ELSE status[t]]
    BY <1>7 DEF SweepStuck, workers
  <2>2. \A t \in Tasks : status'[t] = status[t] \/ status'[t] = "stuck"
    BY <2>1
  <2> QED BY <1>1, <2>1, <2>2
<1>8. CASE PurgeDeletes
  <2>1. /\ UNCHANGED <<at, job>>
        /\ \A t \in Tasks : status'[t] = status[t] \/ t \in expired
    BY <1>8 DEF PurgeDeletes, workers
  <2>2. \A t \in Tasks : t \in expired => ~Afoot(t)
    BY DEF Inv, ExpiredOver
  <2> QED BY <1>1, <2>1, <2>2
<1>9. CASE PurgeUnlinks \/ PurgeAborts \/ Tick
  BY <1>1, <1>9 DEF PurgeUnlinks, PurgeAborts, Tick, workers, rows
<1> QED BY <1>3, <1>4, <1>5, <1>6, <1>7, <1>8, <1>9 DEF Next

(* Only FailUnsent writes when an unsent child is settled, and it finds    *)
(* the row of a started one past pending.                                  *)
LEMMA FailsUnstarted ==
    TypeOK /\ StartedSeen /\ [Next]_vars => [FailedIsUnstarted]_vars
<1> SUFFICES ASSUME TypeOK, StartedSeen, Next, NEW o \in Operators,
                    unsent[o] # NoTask, unsent'[o] = NoTask,
                    NEW w \in Workers, at[w] = "running", job[w] = unsent[o]
             PROVE  status'[unsent[o]] = status[unsent[o]]
  BY DEF FailedIsUnstarted, InBody
<1>1. \A p \in Operators : OperatorStep(p) => FailUnsent(p) \/ Finish(p) \/ unsent'[o] = unsent[o]
                                             \/ \E t \in Tasks : SendFails(p, t)
  BY DEF OperatorStep, SweepReads, SweepLocks, RetryReads, RetryFlushes, Commit, Rollback, Send, Sends
<1>2. ASSUME NEW p \in Operators, NEW t \in Tasks, SendFails(p, t) PROVE UNCHANGED status
  BY <1>2 DEF SendFails, Sends, rows
<1>3. ASSUME NEW p \in Operators, Finish(p) PROVE UNCHANGED status
  BY <1>3 DEF Finish, rows
<1>4. ASSUME NEW p \in Operators, FailUnsent(p) PROVE status'[unsent[o]] = status[unsent[o]]
  <2>1. p = o
    BY <1>4 DEF FailUnsent, TypeOK
  <2>2. status[unsent[o]] # "pending"
    BY DEF StartedSeen
  <2> QED BY <1>4, <2>1, <2>2 DEF FailUnsent, rows
<1>5. unsent'[o] # unsent[o]
  OBVIOUS
<1>6. PICK p \in Operators : OperatorStep(p)
  <2>1. \A t \in Tasks : ~Publish(t)
    BY <1>5 DEF Publish, operators
  <2>2. \A v \in Workers : ~WorkerStep(v)
    BY <1>5 DEF WorkerStep, SignalStep, Receive, Start, StartUnseen, BodyStarts, DropRevoked,
       Heartbeat, BodyEnds, Resend, Record, RecordLost, Close, Crash, operators
  <2> QED BY <1>5, <2>1, <2>2 DEF Next, SweepStuck, PurgeUnlinks, PurgeDeletes, PurgeAborts, Tick, operators
<1> QED BY <1>1, <1>2, <1>3, <1>4, <1>5, <1>6

(* A send that raised never marks failed the row of a body whose start is  *)
(* on record, for any number of workers, as long as no task retries itself *)
(* while a second copy of it is running.  It says nothing of a body whose  *)
(* start signal was not written.                                           *)
THEOREM StartedSpared == Spec /\ [][NoTwinResent]_vars => FailSparesStarted
<1>1. [Next]_vars /\ [NoTwinResent]_vars => [Next /\ NoTwinResent]_vars
  OBVIOUS
<1> QED BY <1>1, StartedInit, StartedStep, FailsUnstarted, TypeCorrect, InvCorrect, PTL
        DEF Spec, FailSparesStarted

(* One worker cannot meet a second copy: there the condition is void.      *)
THEOREM StartedSparedAlone ==
    ASSUME \A v, w \in Workers : v = w
    PROVE  Spec => FailSparesStarted
<1>1. [NoTwinResent]_vars
  BY DEF NoTwinResent
<1> QED BY <1>1, StartedSpared, PTL

-----------------------------------------------------------------------------
(* When a parent is swept once.                                            *)

(* No sweep commits the children of rows that another sweep has read and   *)
(* not yet locked, which FOR UPDATE SKIP LOCKED does not notice.           *)
SweepsApart ==
    \A o, p \in Operators :
        press[o] = "locked" /\ Commit(o) /\ press[p] = "scanned" => seen[p] \cap held[o] = {}

Unswept(t) == \A c \in swept : parent[c] # t

(* What sweeps have read or hold has not been swept, and they hold         *)
(* different rows.                                                         *)
SweepInv ==
    /\ swept \subseteq issued
    /\ \A o \in Operators :
         /\ press[o] = "scanned" => \A t \in seen[o] : Unswept(t)
         /\ press[o] = "locked" => \A t \in held[o] : Unswept(t)
    /\ \A o, p \in Operators :
         o # p /\ press[o] = "locked" /\ press[p] = "locked" => held[o] \cap held[p] = {}
    /\ SweptOnce

LEMMA SweepInit == Init => SweepInv
BY DEF Init, SweepInv, SweptOnce

(* Links may be cleared and ids taken; what the sweeps know stays.         *)
LEMMA SweepAside ==
    ASSUME TypeOK, SweepInv, UNCHANGED <<press, seen, held, swept>>, issued \subseteq issued',
           \A c \in swept : parent'[c] \in {parent[c], NoTask}
    PROVE  SweepInv'
<1>1. \A o \in Operators : \A t \in seen[o] \cup held[o] : t # NoTask
  BY ActorsAssumption DEF TypeOK
<1>2. \A t : t # NoTask /\ Unswept(t) => Unswept(t)'
  BY DEF Unswept
<1>3. SweptOnce'
  BY DEF SweepInv, SweptOnce
<1> QED BY <1>1, <1>2, <1>3 DEF SweepInv

LEMMA SweepStep == TypeOK /\ SweepInv /\ [Next /\ SweepsApart]_vars => SweepInv'
<1> SUFFICES ASSUME TypeOK, SweepInv, [Next /\ SweepsApart]_vars PROVE SweepInv'
  OBVIOUS
<1> USE DEF rows, operators
<1>1. CASE UNCHANGED vars
  BY <1>1, SweepAside DEF vars
<1>2. ASSUME NEW t \in Tasks, Publish(t) PROVE SweepInv'
  BY <1>2, SweepAside DEF Publish, Write
<1>3. ASSUME NEW w \in Workers, WorkerStep(w) PROVE SweepInv'
  <2>1. PICK t \in Tasks : Touches(t)
    BY <1>3, WorkerTouches
  <2> QED BY <2>1, SweepAside DEF Touches
<1>4. CASE SweepStuck \/ PurgeUnlinks \/ PurgeAborts \/ Tick
  BY <1>4, SweepAside DEF SweepStuck, PurgeUnlinks, PurgeAborts, Tick
<1>5. CASE PurgeDeletes
  <2>1. \A c \in swept : parent'[c] \in {parent[c], NoTask}
    BY <1>5 DEF PurgeDeletes, TypeOK
  <2> QED BY <1>5, <2>1, SweepAside DEF PurgeDeletes
<1>6. ASSUME NEW o \in Operators, NEW t \in Tasks, Send(o, t) \/ SendFails(o, t) PROVE SweepInv'
  BY <1>6, SweepAside DEF Send, SendFails, Sends
<1>7. ASSUME NEW o \in Operators, FailUnsent(o) PROVE SweepInv'
  BY <1>7, SweepAside DEF FailUnsent, Write
<1>8. ASSUME NEW o \in Operators, Rollback(o) \/ Finish(o) \/ RetryFlushes(o)
      PROVE  SweepInv'
  <2>1. /\ UNCHANGED <<issued, parent, swept>>
        /\ press'[o] \notin {"scanned", "locked"}
        /\ \A p \in Operators \ {o} : press'[p] = press[p] /\ seen'[p] = seen[p] /\ held'[p] = held[p]
    BY <1>8 DEF Rollback, Finish, RetryFlushes, Go, TypeOK
  <2> QED BY <2>1 DEF SweepInv, SweptOnce, Unswept
<1>9. ASSUME NEW o \in Operators, NEW t \in Tasks, RetryReads(o, t) PROVE SweepInv'
  <2>1. /\ UNCHANGED <<issued, parent, swept, held>>
        /\ press'[o] = "picked"
        /\ \A p \in Operators \ {o} : press'[p] = press[p] /\ seen'[p] = seen[p]
    BY <1>9 DEF RetryReads, Go, TypeOK
  <2> QED BY <2>1 DEF SweepInv, SweptOnce, Unswept
<1>10. ASSUME NEW o \in Operators, SweepReads(o) PROVE SweepInv'
  <2>1. /\ UNCHANGED <<issued, parent, swept, held>>
        /\ press'[o] = "scanned" /\ seen'[o] = Eligible
        /\ \A p \in Operators \ {o} : press'[p] = press[p] /\ seen'[p] = seen[p]
    BY <1>10 DEF SweepReads, Go, TypeOK
  <2>2. \A t \in Eligible : Unswept(t)
    BY DEF Eligible, Unswept, TypeOK
  <2> QED BY <2>1, <2>2 DEF SweepInv, SweptOnce, Unswept
<1>11. ASSUME NEW o \in Operators, SweepLocks(o) PROVE SweepInv'
  <2>1. PICK S \in SUBSET Lockable(o) :
          /\ held' = [held EXCEPT ![o] = S]
          /\ Go(o, IF S = {} THEN "idle" ELSE "locked")
    BY <1>11 DEF SweepLocks
  <2>2. /\ UNCHANGED <<issued, parent, swept>>
        /\ press[o] = "scanned" /\ press'[o] # "scanned" /\ held'[o] = S
        /\ \A p \in Operators \ {o} : press'[p] = press[p] /\ seen'[p] = seen[p] /\ held'[p] = held[p]
    BY <1>11, <2>1 DEF SweepLocks, Go, TypeOK
  <2>3. /\ \A t \in S : Unswept(t)
        /\ \A p \in Operators : S \cap held[p] = {}
    BY <2>2 DEF Lockable, SweepInv
  <2> QED BY <2>2, <2>3 DEF SweepInv, SweptOnce, Unswept
<1>12. ASSUME NEW o \in Operators, Commit(o), SweepsApart PROVE SweepInv'
  <2>1. PICK f \in Reserved(o) :
         /\ parent' = [t \in Tasks |-> IF t \in Children(f) THEN ChildOf(f, t) ELSE parent[t]]
         /\ issued' = issued \cup Children(f)
         /\ swept' = IF press[o] = "locked" THEN swept \cup Children(f) ELSE swept
    BY <1>12 DEF Commit
  <2>2. /\ UNCHANGED seen
        /\ press'[o] = "sending" /\ press[o] \in {"locked", "linked"}
        /\ \A p \in Operators \ {o} : press'[p] = press[p] /\ held'[p] = held[p]
    BY <1>12 DEF Commit, Go, TypeOK
  <2>3. /\ Children(f) \cap swept = {}
        /\ \A c \in Children(f) : c \in Tasks /\ ChildOf(f, c) \in held[o] /\ f[ChildOf(f, c)] = c
    BY ChildrenFresh DEF SweepInv, Tasks
  <2>4. /\ \A c \in swept : parent'[c] = parent[c]
        /\ \A c \in Children(f) : parent'[c] = ChildOf(f, c)
    BY <2>1, <2>3 DEF TypeOK
  <2>5. CASE press[o] = "linked"
    <3>1. swept' = swept
      BY <2>1, <2>5
    <3> QED BY <2>1, <2>2, <2>4, <3>1 DEF SweepInv, SweptOnce, Unswept
  <2>6. CASE press[o] = "locked"
    <3>1. swept' = swept \cup Children(f)
      BY <2>1, <2>6
    <3>2. ASSUME NEW t, t \notin held[o], Unswept(t) PROVE Unswept(t)'
      BY <2>3, <2>4, <3>1, <3>2 DEF Unswept
    <3>3. \A p \in Operators : press[p] = "scanned" => seen[p] \cap held[o] = {}
      BY <1>12, <2>6 DEF SweepsApart
    <3>4. \A p \in Operators \ {o} : press[p] = "locked" => held[p] \cap held[o] = {}
      BY <2>6 DEF SweepInv
    <3>5. ASSUME NEW c \in swept', NEW d \in swept', c # d, parent'[c] # NoTask, parent'[c] = parent'[d]
          PROVE  FALSE
      <4>1. CASE c \in swept /\ d \in swept
        BY <2>4, <3>5, <4>1 DEF SweepInv, SweptOnce
      <4>2. CASE c \in Children(f) /\ d \in Children(f)
        BY <2>3, <2>4, <3>5, <4>2
      <4>3. \A t \in held[o] : Unswept(t)
        BY <2>6 DEF SweepInv
      <4>4. ASSUME NEW x \in swept, NEW y \in Children(f) PROVE parent'[x] # parent'[y]
        BY <2>3, <2>4, <4>3 DEF Unswept
      <4> QED BY <3>1, <3>5, <4>1, <4>2, <4>4
    <3>6. SweptOnce'
      BY <3>5 DEF SweptOnce
    <3>7. swept' \subseteq issued'
      BY <2>1, <3>1 DEF SweepInv
    <3> QED BY <2>2, <3>2, <3>3, <3>4, <3>6, <3>7 DEF SweepInv
  <2> QED BY <2>2, <2>5, <2>6
<1>13. ASSUME NEW o \in Operators, OperatorStep(o), SweepsApart PROVE SweepInv'
  BY <1>6, <1>7, <1>8, <1>9, <1>10, <1>11, <1>12, <1>13 DEF OperatorStep
<1> QED BY <1>1, <1>2, <1>3, <1>4, <1>5, <1>13 DEF Next

(* A parent is swept once whenever no sweep commits between the SELECT of  *)
(* another and its locks on the same rows.  That interleaving is what the  *)
(* run of the two sweeps finds, and there is no other.                     *)
THEOREM SweptOnceApart == Spec /\ [][SweepsApart]_vars => []SweptOnce
<1>1. SweepInv => SweptOnce
  BY DEF SweepInv
<1>2. [Next]_vars /\ [SweepsApart]_vars => [Next /\ SweepsApart]_vars
  OBVIOUS
<1> QED BY <1>1, <1>2, SweepInit, SweepStep, TypeCorrect, PTL DEF Spec
=============================================================================
