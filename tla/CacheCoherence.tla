---------------------------- MODULE CacheCoherence ----------------------------
(***************************************************************************)
(* The copies that web workers keep of one database row, and what makes    *)
(* them let go of it: callbacks after the commit, the InvalidationBus of   *)
(* each worker, Redis pub/sub between them, a time to live and a periodic  *)
(* reload.                                                                 *)
(*                                                                         *)
(* How the row is kept is the row's kind.  A memberships, session version  *)
(* or grants entry is a TTL cache filled under a SingleFlight; a hosts     *)
(* entry one filled without; roles, settings and flags are state that an   *)
(* InvalidationRefresh reloads.  Others are not kept at all.               *)
(*                                                                         *)
(* Of the row's history a copy, a read or a message tells only whether the *)
(* latest commit is in it ("current") or it has been superseded ("old"), so *)
(* any number of writes fits in a finite state space.                      *)
(***************************************************************************)
EXTENDS RequestTransaction, Sequences

CONSTANTS
    Workers,        \* web processes
    Readers,        \* requests that read the row
    Host,           \* the worker of each reader and session
    TTL,            \* of a cache entry, in ticks
    FillAttempts,   \* MAX_FILL_ATTEMPTS
    MaxInbox,       \* bound: messages under way to one worker
    Kinds,          \* bound: the kinds of row looked at ...
    WritesOf, SavepointsOf, \* ... and for each the writes and savepoints of a request
    ReadersOf               \* ... and who reads it

ASSUME CacheConstants ==
    /\ Host \in [Readers \cup Sessions -> Workers]
    /\ TTL \in Nat \ {0} /\ FillAttempts \in Nat \ {0} /\ MaxInbox \in Nat
    /\ Kinds \subseteq {"memberships", "hosts", "roles", "uncached"}
    /\ WritesOf \in [Kinds -> Nat] /\ SavepointsOf \in [Kinds -> Nat]
    /\ ReadersOf \in [Kinds -> SUBSET Readers]

VARIABLES
    kind,   \* of the row
    copy,   \* what each worker has of it: none, current, old
    life,   \* ticks each cache entry has left
    read,   \* the readers' fills
    load,   \* the reloads
    inbox,  \* messages on their way to each worker
    news,   \* of each session: whether its commit is the latest of the row
    due     \* history: workers that have not applied the latest commit

bus == <<inbox, due>>
vars == <<tx, kind, copy, life, read, load, inbox, news, due>>

Values == {"current", "old"}
Cached == kind # "roles"

(* Who reloads: the timer and the listener of a worker, and the callback   *)
(* of a session, which awaits its own worker's handlers.                   *)
Timer(w) == <<"timer", w>>
Listener(w) == <<"listener", w>>
Callback(t) == <<"callback", t>>
Tasks == {Timer(w) : w \in Workers} \cup {Listener(w) : w \in Workers}
            \cup {Callback(t) : t \in Sessions}
On(k) == IF k[1] = "callback" THEN Host[k[2]] ELSE k[2]

NoRead == [at |-> "idle", val |-> "old", raced |-> FALSE, tries |-> 0]
NoLoad == [at |-> "idle", val |-> "old", latest |-> FALSE]

TypeOK ==
    /\ tx \in [Sessions -> Transactions]
    /\ kind \in Kinds
    /\ copy \in [Workers -> Values \cup {"none"}]
    /\ life \in [Workers -> 0..TTL]
    /\ read \in [Readers -> [at : {"idle", "waiting", "reading", "read"}, val : Values,
                             raced : BOOLEAN, tries : 0..FillAttempts]]
    /\ load \in [Tasks -> [at : {"idle", "waiting", "reading", "read", "publish"},
                           val : Values, latest : BOOLEAN]]
    /\ inbox \in [Workers -> Seq(BOOLEAN)]
    /\ news \in [Sessions -> BOOLEAN]
    /\ due \subseteq Workers
    /\ \A w \in Workers : Cached => (copy[w] = "none" <=> life[w] = 0)
    /\ \A k \in Tasks : load[k].at = "publish" => k[1] = "callback"

Boot == IF Cached THEN "none" ELSE "current"

Init ==
    /\ TxInit
    /\ kind \in Kinds
    /\ copy = [w \in Workers |-> Boot]
    /\ life = [w \in Workers |-> 0]
    /\ read = [r \in Readers |-> NoRead]
    /\ load = [k \in Tasks |-> NoLoad]
    /\ inbox = [w \in Workers |-> <<>>]
    /\ news = [t \in Sessions |-> FALSE]
    /\ due = {}
-----------------------------------------------------------------------------
(* A read of a cached row: the miss, SingleFlight.hold and fill.           *)

Reading(r) == read[r].at \in {"reading", "read"}
FlightFree(r) == kind = "hosts" \/ \A q \in Readers : Host[q] = Host[r] => ~Reading(q)

Unchanged == UNCHANGED <<tx, kind, load, inbox, news, due>>

MissCache(r) ==
    /\ Cached /\ r \in ReadersOf[kind] /\ read[r].at = "idle" /\ copy[Host[r]] = "none"
    /\ read' = [read EXCEPT ![r].at = "waiting"]
    /\ UNCHANGED <<copy, life>> /\ Unchanged

(* One turn of the loop: what is cached by now, or the epoch and a read.   *)
Turn(r) ==
    read' = [read EXCEPT ![r] =
               IF copy[Host[r]] # "none" THEN NoRead
               ELSE [NoRead EXCEPT !.at = "reading", !.tries = read[r].tries + 1]]

Enter(r) ==
    /\ read[r].at = "waiting" /\ FlightFree(r)
    /\ Turn(r)
    /\ UNCHANGED <<copy, life>> /\ Unchanged

Select(r) ==
    /\ read[r].at = "reading"
    /\ read' = [read EXCEPT ![r].at = "read", ![r].val = "current"]
    /\ UNCHANGED <<copy, life>> /\ Unchanged

(* Mutant of Store: no epoch, whatever was read is cached.                 *)
StoreAnyway(r) ==
    /\ read[r].at = "read"
    /\ copy' = [copy EXCEPT ![Host[r]] = read[r].val]
    /\ life' = [life EXCEPT ![Host[r]] = TTL]
    /\ read' = [read EXCEPT ![r] = NoRead]
    /\ Unchanged

(* The epoch is the one the read started in: the value is cached.          *)
Store(r) ==
    /\ read[r].at = "read" /\ ~read[r].raced
    /\ copy' = [copy EXCEPT ![Host[r]] = read[r].val]
    /\ life' = [life EXCEPT ![Host[r]] = TTL]
    /\ read' = [read EXCEPT ![r] = NoRead]
    /\ Unchanged

(* Mutant of Retry: as often as it takes.                                  *)
RetryForever(r) ==
    /\ read[r].at = "read" /\ read[r].raced
    /\ read' = [read EXCEPT ![r] =
                  IF copy[Host[r]] # "none" THEN NoRead ELSE [NoRead EXCEPT !.at = "reading"]]
    /\ UNCHANGED <<copy, life>> /\ Unchanged

(* It is not: another turn, or after the last attempt an uncached answer.  *)
Retry(r) ==
    /\ read[r].at = "read" /\ read[r].raced
    /\ IF read[r].tries < FillAttempts THEN Turn(r)
       ELSE read' = [read EXCEPT ![r] = NoRead]
    /\ UNCHANGED <<copy, life>> /\ Unchanged

(* The read raised or the request was cancelled: the lock is released.     *)
Cancel(r) ==
    /\ read[r].at # "idle"
    /\ read' = [read EXCEPT ![r] = NoRead]
    /\ UNCHANGED <<copy, life>> /\ Unchanged

(* Mutant of Tick: an entry is only dropped when its time was up before.   *)
TickLate ==
    /\ \E w \in Workers : life[w] > 0 \/ copy[w] # "none"
    /\ life' = [w \in Workers |-> IF life[w] > 0 THEN life[w] - 1 ELSE 0]
    /\ copy' = [w \in Workers |-> IF life[w] = 0 THEN "none" ELSE copy[w]]
    /\ UNCHANGED read /\ Unchanged

(* TTLCache drops what has outlived its time.                              *)
Tick ==
    /\ \E w \in Workers : life[w] > 0
    /\ life' = [w \in Workers |-> IF life[w] > 0 THEN life[w] - 1 ELSE 0]
    /\ copy' = [w \in Workers |-> IF life[w] = 1 THEN "none" ELSE copy[w]]
    /\ UNCHANGED read /\ Unchanged
-----------------------------------------------------------------------------
(* The handlers of the bus.  A forget drops the entry and bumps the epoch, *)
(* which every fill under way then finds changed.                          *)

(* Mutant of Forget: the entry is dropped and no epoch bumped.             *)
ForgetEntry(w, latest) ==
    /\ copy' = [copy EXCEPT ![w] = "none"]
    /\ life' = [life EXCEPT ![w] = 0]
    /\ due' = IF latest THEN due \ {w} ELSE due
    /\ UNCHANGED read

Forget(w, latest) ==
    /\ copy' = [copy EXCEPT ![w] = "none"]
    /\ life' = [life EXCEPT ![w] = 0]
    /\ read' = [r \in Readers |-> IF Host[r] = w /\ Reading(r)
                                  THEN [read[r] EXCEPT !.raced = TRUE] ELSE read[r]]
    /\ due' = IF latest THEN due \ {w} ELSE due

(* What task k does when the handlers have run: a callback broadcasts.     *)
Handled(k, latest) ==
    IF k[1] = "callback" THEN [NoLoad EXCEPT !.at = "publish", !.latest = latest] ELSE NoLoad

(* A handler on task k: done at once, or InvalidationRefresh.refresh,      *)
(* which waits for the reload that is under way.                           *)
Handle(k, latest) ==
    IF Cached
    THEN /\ Forget(On(k), latest)
         /\ load' = [load EXCEPT ![k] = Handled(k, latest)]
    ELSE /\ load' = [load EXCEPT ![k] = [NoLoad EXCEPT !.at = "waiting", !.latest = latest]]
         /\ UNCHANGED <<copy, life, read, due>>

RunCallback(t) ==
    /\ load[Callback(t)].at = "idle"
    /\ TakeCallback(t)
    /\ Handle(Callback(t), news[t])
    /\ UNCHANGED <<kind, inbox, news>>

(* The broadcast reaches those workers that are subscribed, or nobody.     *)
Publish(t) ==
    /\ load[Callback(t)].at = "publish"
    /\ \E W \in SUBSET {w \in Workers \ {Host[t]} : Len(inbox[w]) < MaxInbox} :
          inbox' = [w \in Workers |-> IF w \in W THEN Append(inbox[w], load[Callback(t)].latest)
                                      ELSE inbox[w]]
    /\ load' = [load EXCEPT ![Callback(t)] = NoLoad]
    /\ UNCHANGED <<tx, kind, copy, life, read, news, due>>

Receive(w) ==
    /\ load[Listener(w)].at = "idle" /\ inbox[w] # <<>>
    /\ inbox' = [inbox EXCEPT ![w] = Tail(@)]
    /\ Handle(Listener(w), Head(inbox[w]))
    /\ UNCHANGED <<tx, kind, news>>

(* The listener lost its connection, and with it what was under way.       *)
Disconnect(w) ==
    /\ inbox[w] # <<>>
    /\ inbox' = [inbox EXCEPT ![w] = <<>>]
    /\ UNCHANGED <<tx, kind, copy, life, read, load, news, due>>
-----------------------------------------------------------------------------
(* InvalidationRefresh.                                                    *)

(* Mutant of StartTimer: a reload only when a message asks for one.        *)
StartAsked(w) ==
    /\ ~Cached /\ load[Timer(w)].at = "idle" /\ inbox[w] # <<>>
    /\ load' = [load EXCEPT ![Timer(w)].at = "waiting"]
    /\ UNCHANGED <<tx, kind, copy, life, read, inbox, news, due>>

StartTimer(w) ==
    /\ ~Cached /\ load[Timer(w)].at = "idle"
    /\ load' = [load EXCEPT ![Timer(w)].at = "waiting"]
    /\ UNCHANGED <<tx, kind, copy, life, read, inbox, news, due>>

LockFree(k) ==
    \A j \in Tasks : On(j) = On(k) => load[j].at \notin {"reading", "read"}

LockReload(k) ==
    /\ load[k].at = "waiting" /\ LockFree(k)
    /\ load' = [load EXCEPT ![k].at = "reading"]
    /\ UNCHANGED <<tx, kind, copy, life, read, inbox, news, due>>

SelectAll(k) ==
    /\ load[k].at = "reading"
    /\ load' = [load EXCEPT ![k].at = "read", ![k].val = "current"]
    /\ UNCHANGED <<tx, kind, copy, life, read, inbox, news, due>>

Install(k) ==
    /\ load[k].at = "read"
    /\ copy' = [copy EXCEPT ![On(k)] = load[k].val]
    /\ due' = IF load[k].latest THEN due \ {On(k)} ELSE due
    /\ load' = [load EXCEPT ![k] = Handled(k, load[k].latest)]
    /\ UNCHANGED <<tx, kind, life, read, inbox, news>>

(* The read or what is made of it raised: the state stays as it was.       *)
ReloadFails(k) ==
    /\ load[k].at = "reading"
    /\ load' = [load EXCEPT ![k] = Handled(k, load[k].latest)]
    /\ UNCHANGED <<tx, kind, copy, life, read, inbox, news, due>>
-----------------------------------------------------------------------------
(* Requests that write the row.                                            *)

(* The row has changed: whatever was current is old.                       *)
Supersede(S) ==
    /\ copy' = [w \in Workers |-> IF copy[w] = "none" THEN "none" ELSE "old"]
    /\ read' = [r \in Readers |-> [read[r] EXCEPT !.val = "old"]]
    /\ load' = [k \in Tasks |-> [load[k] EXCEPT !.val = "old", !.latest = FALSE]]
    /\ inbox' = [w \in Workers |-> [i \in DOMAIN inbox[w] |-> FALSE]]
    /\ news' = [s \in Sessions |-> s \in S]
    /\ due' = Workers
    /\ UNCHANGED <<kind, life>>

NoChange == UNCHANGED <<kind, copy, life, read, load, inbox, news, due>>
Close(t) ==
    /\ news' = [news EXCEPT ![t] = FALSE]
    /\ UNCHANGED <<kind, copy, life, read, load, inbox, due>>

Work(t) ==
    /\ \/ Begin(t)
       \/ Write(t) /\ tx[t].made < WritesOf[kind]
       \/ OpenSavepoint(t) /\ tx[t].opened < SavepointsOf[kind]
       \/ Release(t)
       \/ RollbackTo(t)
    /\ NoChange

WriteThrough(t) == CommitInside(t) /\ Supersede({t})

Finalize(t) ==
    /\ Commit(t)
    /\ IF Live(t) # {} THEN Supersede({t}) ELSE NoChange

(* The commit landed but its answer was lost: no callback runs.            *)
FinalizeUnseen(t) ==
    /\ tx[t].open = {} /\ Live(t) # {}
    /\ Discard(t)
    /\ Supersede({})

(* A failed request or commit, or nothing to commit.                       *)
GiveUp(t) == Discard(t) /\ Close(t)

Reply(t) ==
    /\ load[Callback(t)].at = "idle"
    /\ Finished(t)
    /\ Close(t)
-----------------------------------------------------------------------------
(* A worker dies and comes up again, with nothing cached and the state     *)
(* loaded anew.                                                            *)
Crash(w) ==
    /\ tx' = [t \in Sessions |-> IF Host[t] = w THEN NoTx ELSE tx[t]]
    /\ copy' = [copy EXCEPT ![w] = Boot]
    /\ life' = [life EXCEPT ![w] = 0]
    /\ read' = [r \in Readers |-> IF Host[r] = w THEN NoRead ELSE read[r]]
    /\ load' = [k \in Tasks |-> IF On(k) = w THEN NoLoad ELSE load[k]]
    /\ inbox' = [inbox EXCEPT ![w] = <<>>]
    /\ news' = [t \in Sessions |-> Host[t] # w /\ news[t]]
    /\ due' = due \ {w}
    /\ UNCHANGED kind

ReaderStep(r) ==
    \/ MissCache(r) \/ Enter(r) \/ Select(r) \/ Store(r) \/ Retry(r) \/ Cancel(r)

WriterStep(t) ==
    \/ Work(t) \/ WriteThrough(t) \/ Finalize(t) \/ FinalizeUnseen(t) \/ GiveUp(t)
    \/ RunCallback(t) \/ Publish(t) \/ Reply(t)

ReloadStep(k) == LockReload(k) \/ SelectAll(k) \/ Install(k) \/ ReloadFails(k)

Next ==
    \/ \E r \in Readers : ReaderStep(r)
    \/ \E t \in Sessions : WriterStep(t)
    \/ \E k \in Tasks : ReloadStep(k)
    \/ \E w \in Workers : Receive(w) \/ Disconnect(w) \/ StartTimer(w) \/ Crash(w)
    \/ Tick

Spec == Init /\ [][Next]_vars

(* Time passes, awaited reads return, asyncio.Lock is first come first     *)
(* served, and of the timer's reloads not all but a few fail.              *)
Fairness ==
    /\ WF_vars(Tick)
    /\ \A r \in Readers :
         /\ SF_vars(Enter(r))
         /\ WF_vars(Select(r) \/ Store(r) \/ Retry(r))
    /\ \A w \in Workers :
         /\ WF_vars(StartTimer(w) \/ LockReload(Timer(w)))
         /\ SF_vars(SelectAll(Timer(w)))
         /\ WF_vars(\E k \in Tasks : On(k) = w /\ (SelectAll(k) \/ Install(k) \/ ReloadFails(k)))

FairSpec == Spec /\ Fairness
-----------------------------------------------------------------------------
(* Properties.                                                             *)

(* Once a worker has applied the invalidation of the latest commit it      *)
(* holds nothing older: no read that was under way puts the old value back. *)
NoStaleKept == \A w \in Workers : w \notin due => copy[w] # "old"

(* When the response of a write goes out, the worker that made it does not *)
(* cache what was there before, unless the row has changed again.          *)
OwnWorkerFresh ==
    [][\A t \in Sessions :
          Cached /\ tx[t].at = "calling" /\ tx'[t].at = "idle" /\ news[t] /\ tx[t].durable # {}
            => copy'[Host[t]] # "old"]_vars

(* Every read is answered, however often the row changes.                  *)
Answered == \A r \in Readers : read[r].at # "idle" ~> read[r].at = "idle"

(* The steps after which the row is another one.                           *)
Changes ==
    \E t \in Sessions : WriteThrough(t) \/ (Finalize(t) /\ Live(t) # {}) \/ FinalizeUnseen(t)

(* When the row stops changing, every worker lets go of the old value,     *)
(* whatever messages were lost.                                            *)
Converges ==
    <>[][~Changes]_vars =>
        \A w \in Workers : copy[w] = "old" ~> copy[w] # "old"
=============================================================================
