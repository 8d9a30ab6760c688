---------------------------- MODULE FileUploads ----------------------------
(***************************************************************************)
(* Uploads of file_storage on PostgreSQL and an object store.  A key names *)
(* one stored object; it is used once, by a resumable upload session or by *)
(* a plain upload.  The committed rows (file, session), the store's        *)
(* unfinished multipart uploads (upload) and its finished objects (object) *)
(* are four things no transaction spans: requests, the two reapers and the *)
(* clock interleave at every commit, row lock and store call.              *)
(*                                                                         *)
(* Every file has size 1, so the quota counts files.  Ages run from the    *)
(* opening of the upload (the time S3 gives a multipart object) and stop   *)
(* at MaxAge, where every deadline has passed.                             *)
(***************************************************************************)
EXTENDS Naturals, FiniteSets

CONSTANTS
    Keys,       \* object keys, each minted once by generate_key
    NoKey,      \* the key of a request that has none
    Requests,   \* requests and worker jobs that run at the same time
    Owner,      \* who opens the session of a key (created_by)
    Quota,      \* quota_bytes of the tenant
    TTL,        \* upload_session_ttl_seconds
    MaxTx       \* the longest a plain upload's transaction outlasts its put

ASSUME UploadConstants ==
    /\ TTL \in Nat \ {0}
    /\ MaxTx \in Nat
    /\ MaxTx <= 2 * TTL \* object_reaper.py: the grace exceeds every transaction
    /\ Quota \in Nat
    /\ NoKey \notin Keys
    /\ IsFiniteSet(Keys)

MaxAge == 2 * TTL + 1

VARIABLES
    file,       \* StoredFile: none, live or (soft-)deleted
    session,    \* UploadSession.status, purged when its row is deleted
    upload,     \* the store's multipart upload: none, parts missing, full, gone
    object,     \* does the store hold a finished object under the key
    minted,     \* the keys that are in use or were
    age,        \* ticks since the key's upload was opened
    uncounted,  \* history: live files recorded where no admission counted them
    lost,       \* history: live files committed behind a sweep or a worker
    req,        \* each request's open transaction
    stale,      \* reap_stale_uploads
    sweep       \* reap_objects

vars == <<file, session, upload, object, minted, age, uncounted, lost, req, stale, sweep>>

Idle == [at |-> "idle", key |-> NoKey, closes |-> {}, counted |-> {}, past |-> {}]
NoReap == [at |-> "idle", todo |-> {}, marked |-> {}]
NoSweep == [at |-> "idle", batch |-> {}, kept |-> {}]

\* a transaction is open in these states; the first that are Timed have put
\* their object before they count
Timed == {"put", "admitting", "admitted", "sent", "adrift"}
InTx == Timed \cup {"opening", "reserved", "assembling", "assembled", "recorded", "closing"}

TypeOK ==
    /\ file \in [Keys -> {"none", "live", "deleted"}]
    /\ session \in [Keys -> {"none", "active", "completed", "aborted", "purged"}]
    /\ upload \in [Keys -> {"none", "missing", "full", "gone"}]
    /\ object \in [Keys -> BOOLEAN]
    /\ minted \in SUBSET Keys
    /\ uncounted \in SUBSET Keys
    /\ lost \in SUBSET Keys
    /\ age \in [Keys -> 0..MaxAge]
    /\ req \in [Requests -> [at : InTx \cup {"idle", "unsure"},
                             key : Keys \cup {NoKey},
                             closes : SUBSET Keys,      \* sessions it aborts
                             counted : SUBSET Keys,     \* files its first SELECT sums
                             past : SUBSET Keys]]       \* deadlines passed by then
    /\ stale \in [at : {"idle", "reaping", "marking", "swept"},
                  todo : SUBSET Keys, marked : SUBSET Keys]
    /\ sweep \in [at : {"idle", "files", "sessions"},
                  batch : SUBSET Keys, kept : SUBSET Keys]

Init ==
    /\ file = [k \in Keys |-> "none"]
    /\ session = [k \in Keys |-> "none"]
    /\ upload = [k \in Keys |-> "none"]
    /\ object = [k \in Keys |-> FALSE]
    /\ minted = {}
    /\ uncounted = {}
    /\ lost = {}
    /\ age = [k \in Keys |-> 0]
    /\ req = [r \in Requests |-> Idle]
    /\ stale = NoReap
    /\ sweep = NoSweep

----------------------------------------------------------------------------
(* Reads *)

Expired(k) == age[k] >= TTL

\* Mutant of Locked: complete does not re-read the session FOR UPDATE.
LockedByAborts(r) == req[r].closes

\* the session rows a transaction holds locked until it ends
Locked(r) ==
    req[r].closes \cup
    (IF req[r].at \in {"assembling", "assembled", "recorded"} THEN {req[r].key} ELSE {})

Unlocked(k) ==
    /\ \A r \in Requests : k \notin Locked(r)
    /\ k \notin stale.marked

\* Mutant of QuotaFree: admissions do not take turns.
QuotaUnlocked == TRUE

\* the transaction-scoped advisory lock of an admission
QuotaFree ==
    \A r \in Requests :
        req[r].at \notin {"opening", "reserved", "admitting", "admitted", "sent", "adrift"}

Stored == {k \in Keys : file[k] = "live"}

\* _check_quota with reserve: two SELECTs at READ COMMITTED.  What commits between
\* them is seen by the second alone; the deadlines are compared with one `now`
Count(r, at, k, closes) ==
    req' = [req EXCEPT ![r] = [at |-> at, key |-> k, closes |-> closes, counted |-> Stored,
                               past |-> {j \in Keys : Expired(j)}]]
FitsReserved(r) ==
    LET reserved == {k \in Keys : session[k] = "active" /\ k \notin req[r].past}
    IN Cardinality(req[r].counted) + Cardinality(reserved) + 1 <= Quota

\* and without
FitsStored == Cardinality(Stored) + 1 <= Quota

\* session rows past their retention, deleted by whoever housekeeps
Purgeable(k) == session[k] \in {"completed", "aborted"} /\ age[k] = MaxAge

Go(r, at) == req' = [req EXCEPT ![r].at = at, ![r].counted = {}, ![r].past = {}]
End(r) == req' = [req EXCEPT ![r] = Idle]
Begin(r, at, k, closes) ==
    req' = [req EXCEPT ![r] = [Idle EXCEPT !.at = at, !.key = k, !.closes = closes]]

\* a store call may fail: that is logged and swallowed
Aborted(ks) == [k \in Keys |-> IF k \in ks /\ upload[k] \in {"missing", "full"}
                              THEN "gone" ELSE upload[k]]
MayAbort(ks) == \E done \in SUBSET ks : upload' = Aborted(done)
MayDrop(ks) ==
    \E done \in SUBSET ks : object' = [k \in Keys |-> object[k] /\ k \notin done]

----------------------------------------------------------------------------
(* POST /uploads *)

\* create: abort_expired takes the caller's expired sessions, each re-read under
\* its lock; then the advisory lock and the first SELECT
Open(r, k) ==
    LET mine == {j \in Keys : Owner[j] = Owner[k] /\ session[j] = "active" /\ Expired(j)}
    IN /\ req[r].at = "idle"
       /\ k \notin minted
       /\ \A j \in mine : Unlocked(j)
       /\ QuotaFree
       /\ minted' = minted \cup {k}
       /\ MayAbort(mine)
       /\ Count(r, "opening", k, mine)
       /\ UNCHANGED <<uncounted, lost, file, session, object, age, stale, sweep>>

\* the second SELECT, then create_multipart.  A refusal rolls back the rows, not
\* what the store was told; its key is not used again
Reserve(r) ==
    /\ req[r].at = "opening"
    /\ IF FitsReserved(r)
       THEN /\ upload' = [upload EXCEPT ![req[r].key] = "missing"]
            /\ age' = [age EXCEPT ![req[r].key] = 0]
            /\ Go(r, "reserved")
       ELSE /\ End(r)
            /\ UNCHANGED <<upload, age>>
    /\ UNCHANGED <<minted, uncounted, lost, file, session, object, stale, sweep>>

\* the last part arrives: presigned, past the application
PartsArrive(k) ==
    /\ upload[k] = "missing"
    /\ upload' = [upload EXCEPT ![k] = "full"]
    /\ UNCHANGED <<minted, uncounted, lost, file, session, object, age, req, stale, sweep>>

----------------------------------------------------------------------------
(* POST /uploads/{id}/complete *)

\* _lock, _require_open and the comparison with the store's part list
Complete(r, k) ==
    /\ req[r].at = "idle"
    /\ session[k] = "active" /\ ~Expired(k) /\ Unlocked(k)
    /\ upload[k] = "full"
    /\ Begin(r, "assembling", k, {})
    /\ UNCHANGED <<minted, uncounted, lost, file, session, upload, object, age, stale, sweep>>

\* complete_multipart; its answer may be lost after it took effect
Assemble(r) ==
    LET k == req[r].key
    IN /\ req[r].at = "assembling"
       /\ upload[k] = "full"
       /\ upload' = [upload EXCEPT ![k] = "gone"]
       /\ object' = [object EXCEPT ![k] = TRUE]
       /\ Go(r, "assembled") \/ End(r)
       /\ UNCHANGED <<minted, uncounted, lost, file, session, age, stale, sweep>>

\* head, the limits again, and the flush of both rows
Record(r) ==
    /\ req[r].at = "assembled"
    /\ object[req[r].key]
    /\ FitsStored
    /\ Go(r, "recorded")
    /\ UNCHANGED <<minted, uncounted, lost, file, session, upload, object, age, stale, sweep>>

\* _reject: over a limit, drop the object and close the session for good
Reject(r) ==
    /\ req[r].at = "assembled"
    /\ object[req[r].key]
    /\ MayDrop({req[r].key})
    /\ req' = [req EXCEPT ![r].at = "closing", ![r].closes = {req[r].key}]
    /\ UNCHANGED <<minted, uncounted, lost, file, session, upload, age, stale, sweep>>

----------------------------------------------------------------------------
(* DELETE /uploads/{id}, and any request that opens an expired session *)

Abort(r, k) ==
    /\ req[r].at = "idle"
    /\ session[k] = "active" /\ Unlocked(k)
    /\ MayAbort({k})
    /\ Begin(r, "closing", k, {k})
    /\ UNCHANGED <<minted, uncounted, lost, file, session, object, age, stale, sweep>>

----------------------------------------------------------------------------
(* Plain uploads, of a request or of a worker (store_path) *)

Put(r, k) ==
    /\ req[r].at = "idle"
    /\ k \notin minted
    /\ minted' = minted \cup {k}
    /\ object' = [object EXCEPT ![k] = TRUE]
    /\ age' = [age EXCEPT ![k] = 0]
    /\ Begin(r, "put", k, {})
    /\ UNCHANGED <<uncounted, lost, file, session, upload, stale, sweep>>

\* the advisory lock and the first SELECT of the quota check
TakeTurn(r) ==
    /\ req[r].at = "put"
    /\ QuotaFree
    /\ Count(r, "admitting", req[r].key, {})
    /\ UNCHANGED <<minted, uncounted, lost, file, session, upload, object, age, stale, sweep>>

Admit(r) ==
    /\ req[r].at = "admitting"
    /\ IF FitsReserved(r)
       THEN /\ Go(r, "admitted")
            /\ UNCHANGED object
       ELSE /\ MayDrop({req[r].key})
            /\ End(r)
    /\ UNCHANGED <<minted, uncounted, lost, file, session, upload, age, stale, sweep>>

\* a worker gives up on its COMMIT, which the database may still carry out
LoseAnswer(r) ==
    /\ req[r].at = "admitted"
    /\ Go(r, "sent")
    /\ UNCHANGED <<minted, uncounted, lost, file, session, upload, object, age, stale, sweep>>

\* Mutant of Compensate: a failed commit is taken for a rollback.
CompensateBlindly(r) ==
    /\ req[r].at \in {"sent", "unsure"}
    /\ MayDrop({req[r].key})
    /\ IF req[r].at = "sent" THEN Go(r, "adrift") ELSE End(r)
    /\ UNCHANGED <<minted, uncounted, lost, file, session, upload, age, stale, sweep>>

\* _compensate: a new transaction looks for the row.  A COMMIT that is not through
\* yet looks like a rollback, and is adrift from then on
Compensate(r) ==
    /\ req[r].at \in {"sent", "unsure"}
    /\ IF file[req[r].key] = "none" THEN MayDrop({req[r].key}) ELSE UNCHANGED object
    /\ IF req[r].at = "sent" THEN Go(r, "adrift") ELSE End(r)
    /\ UNCHANGED <<minted, uncounted, lost, file, session, upload, age, stale, sweep>>

----------------------------------------------------------------------------
(* The end of a request's transaction *)

\* what the commit of r writes
CommitRows(r) ==
    LET k == req[r].key
        closed == req[r].closes
        Counting(q) == req[q].at \in {"opening", "admitting"}
    IN /\ uncounted' = IF req[r].at = "recorded" /\ (Expired(k) \/ \E q \in Requests : Counting(q))
                       THEN uncounted \cup {k} ELSE uncounted
       /\ lost' = IF req[r].at = "adrift" \/ (req[r].at = "recorded" /\ age[k] > 2 * TTL)
                  THEN lost \cup {k} ELSE lost
       /\ file' = IF req[r].at \in {"recorded", "admitted", "sent", "adrift"}
                  THEN [file EXCEPT ![k] = "live"] ELSE file
       /\ session' = [j \in Keys |->
             IF j \in closed THEN "aborted"
             ELSE IF req[r].at = "reserved" /\ j = k THEN "active"
             ELSE IF req[r].at = "recorded" /\ j = k THEN "completed"
             ELSE IF req[r].at = "reserved" /\ Owner[j] = Owner[k] /\ Purgeable(j)
             THEN "purged" ELSE session[j]]

Commit(r) ==
    /\ req[r].at \in {"reserved", "recorded", "closing", "admitted"}
    /\ CommitRows(r)
    /\ End(r)
    /\ UNCHANGED <<minted, upload, object, age, stale, sweep>>

\* the database is through with a COMMIT that nobody waits for, either way
Settle(r) ==
    /\ req[r].at \in {"sent", "adrift"}
    /\ CommitRows(r) \/ UNCHANGED <<uncounted, lost, file, session>>
    /\ IF req[r].at = "sent" THEN Go(r, "unsure") ELSE End(r)
    /\ UNCHANGED <<minted, upload, object, age, stale, sweep>>

\* the transaction rolls back.  A failed flush undoes the store call, when
\* that works; a failed commit or a dead process leaves it, except in a worker
Fail(r) ==
    LET k == req[r].key
    IN /\ req[r].at \in InTx \ {"sent", "adrift"}
       /\ IF req[r].at = "reserved" THEN MayAbort({k}) ELSE UNCHANGED upload
       /\ IF req[r].at \in {"assembled", "recorded", "put", "admitting", "admitted"}
          THEN MayDrop({k}) ELSE UNCHANGED object
       /\ End(r)
       /\ UNCHANGED <<minted, uncounted, lost, file, session, age, stale, sweep>>

----------------------------------------------------------------------------
(* DELETE of a file: the row first, the object once the row is durable; the *)
(* callback may fail, or die with its process                               *)

Delete(k) ==
    /\ file[k] = "live"
    /\ file' = [file EXCEPT ![k] = "deleted"]
    /\ MayDrop({k})
    /\ uncounted' = uncounted \ {k}
    /\ lost' = lost \ {k}
    /\ UNCHANGED <<minted, session, upload, age, req, stale, sweep>>

----------------------------------------------------------------------------
(* reap_stale_uploads: one transaction, no row locked before its UPDATEs *)

ReapSelect ==
    LET expired == {k \in Keys : session[k] = "active" /\ Expired(k)}
    IN /\ stale.at = "idle"
       /\ stale' = [NoReap EXCEPT !.at = IF expired = {} THEN "marking" ELSE "reaping",
                                  !.todo = expired]
       /\ UNCHANGED <<minted, uncounted, lost, file, session, upload, object, age, req, sweep>>

\* _abort_all: a target whose abort fails is left to the next run
ReapAbort ==
    /\ stale.at = "reaping"
    /\ \E done \in SUBSET stale.todo :
          /\ upload' = [k \in Keys |-> IF k \in done THEN "gone" ELSE upload[k]]
          /\ stale' = [NoReap EXCEPT !.at = "marking", !.todo = done]
    /\ UNCHANGED <<minted, uncounted, lost, file, session, object, age, req, sweep>>

\* the UPDATE of one row waits for its lock and does not look at its status
ReapMark(k) ==
    /\ stale.at = "marking"
    /\ k \in stale.todo
    /\ Unlocked(k)
    /\ stale' = [stale EXCEPT !.todo = @ \ {k}, !.marked = @ \cup {k}]
    /\ UNCHANGED <<minted, uncounted, lost, file, session, upload, object, age, req, sweep>>

\* Mutant of Untracked: an upload that has a session row is left to its session.
UntrackedRowless(k) == age[k] > 2 * TTL /\ session[k] = "none"

\* an old multipart upload that no active session accounts for
Untracked(k) == age[k] > 2 * TTL /\ (session[k] # "active" \/ k \in stale.marked)

ReapOrphans ==
    /\ stale.at = "marking" /\ stale.todo = {}
    /\ MayAbort({k \in Keys : Untracked(k)})
    /\ stale' = [stale EXCEPT !.at = "swept"]
    /\ UNCHANGED <<minted, uncounted, lost, file, session, object, age, req, sweep>>

ReapCommit ==
    /\ stale.at = "swept"
    /\ session' = [k \in Keys |-> IF k \in stale.marked THEN "aborted"
                                  ELSE IF Purgeable(k) THEN "purged" ELSE session[k]]
    /\ stale' = NoReap
    /\ UNCHANGED <<minted, uncounted, lost, file, upload, object, age, req, sweep>>

\* the worker dies or its commit fails
ReapFail ==
    /\ stale.at # "idle"
    /\ stale' = NoReap
    /\ UNCHANGED <<minted, uncounted, lost, file, session, upload, object, age, req, sweep>>

----------------------------------------------------------------------------
(* reap_objects: a listing and two SELECTs, then the drops *)

SweepFiles ==
    LET old == {k \in Keys : object[k] /\ age[k] > 2 * TTL}
    IN /\ sweep.at = "idle"
       /\ old # {}
       /\ sweep' = [at |-> "files", batch |-> old, kept |-> old \cap Stored]
       /\ UNCHANGED <<minted, uncounted, lost, file, session, upload, object, age, req, stale>>

SweepSessions ==
    /\ sweep.at = "files"
    /\ sweep' = [sweep EXCEPT !.at = "sessions",
                    !.kept = @ \cup {k \in sweep.batch : session[k] = "active"}]
    /\ UNCHANGED <<minted, uncounted, lost, file, session, upload, object, age, req, stale>>

SweepDrop ==
    /\ sweep.at = "sessions"
    /\ MayDrop(sweep.batch \ sweep.kept)
    /\ sweep' = NoSweep
    /\ UNCHANGED <<minted, uncounted, lost, file, session, upload, age, req, stale>>

----------------------------------------------------------------------------

\* time passes, never past the bound on the transaction of a plain upload
Tick ==
    /\ \A r \in Requests : req[r].at \in Timed => age[req[r].key] < MaxTx
    /\ age' = [k \in Keys |-> IF k \in minted /\ age[k] < MaxAge THEN age[k] + 1 ELSE age[k]]
    /\ UNCHANGED <<minted, uncounted, lost, file, session, upload, object, req, stale, sweep>>

EndStep(r) ==
    \/ Reserve(r) \/ Assemble(r) \/ TakeTurn(r) \/ Admit(r)
    \/ Compensate(r) \/ Commit(r) \/ Settle(r) \/ Fail(r)

RequestStep(r) ==
    \/ EndStep(r) \/ Record(r) \/ Reject(r) \/ LoseAnswer(r)
    \/ \E k \in Keys :
        Open(r, k) \/ Complete(r, k) \/ Abort(r, k) \/ Put(r, k)

ReapStep ==
    \/ ReapSelect \/ ReapOrphans \/ ReapCommit \/ ReapFail
    \/ ReapAbort \/ (\E k \in Keys : ReapMark(k))
SweepStep == SweepFiles \/ SweepSessions \/ SweepDrop

Next ==
    \/ \E r \in Requests : RequestStep(r)
    \/ \E k \in Keys : PartsArrive(k) \/ Delete(k)
    \/ ReapStep
    \/ SweepStep
    \/ Tick

Spec == Init /\ [][Next]_vars

(* A request's transaction ends, beat keeps starting both reapers, and from *)
(* some time on neither dies nor has a store call refused.  The UPDATE of a *)
(* reaper waits for a row lock that requests take again and again.          *)
Failure ==
    \/ ReapFail /\ ~ReapCommit
    \/ ReapAbort /\ stale'.todo # stale.todo
    \/ ReapOrphans /\ \E k \in Keys : Untracked(k) /\ upload'[k] \in {"missing", "full"}
    \/ SweepDrop /\ \E k \in sweep.batch \ sweep.kept : object'[k]

Fairness ==
    /\ WF_vars(Tick)
    /\ \A r \in Requests : WF_vars(EndStep(r))
    /\ WF_vars(ReapSelect \/ ReapAbort \/ ReapOrphans \/ ReapCommit)
    /\ \A k \in Keys : SF_vars(ReapMark(k))
    /\ WF_vars(SweepStep)
    /\ <>[][~Failure]_vars

FairSpec == Spec /\ Fairness
----------------------------------------------------------------------------
(* Properties *)

(* A committed file has its bytes: neither a compensation after an ambiguous *)
(* commit, nor a rejection, nor a sweep whose two SELECTs straddle a commit  *)
(* of another process drops the object of a live row.  Left out are the rows *)
(* (lost) that land when the bytes may be gone: of a COMMIT still in flight  *)
(* when the worker looked for its row, and of a completion that commits later *)
(* than the grace after its upload was opened.                               *)
BytesKept == \A k \in Keys : file[k] = "live" /\ k \notin lost => object[k]

(* A session seen aborted never yields a file: of a completion, an abort and *)
(* the reaper, which reads without a lock, none overtakes another (_lock).   *)
NoFileAfterAbort ==
    [][\A k \in Keys : session[k] = "aborted" /\ file[k] = "none" => file'[k] = "none"]_vars

(* Stored files stay within the quota however admissions interleave, but for *)
(* sessions whose completion, which takes no turn, records the file where no *)
(* admission counts it (uncounted): after its deadline, when its reservation *)
(* was given away, or between the two SELECTs of an admission.               *)
QuotaKept == Cardinality(Stored \ uncounted) <= Quota

(* What crashes, lost answers and refused store calls leave behind (parts,   *)
(* objects without a row, sessions nobody ends) is gone again and again.     *)
Unsettled(k) ==
    upload[k] \in {"missing", "full"} \/ (object[k] /\ file[k] # "live") \/ session[k] = "active"
StoreDrains == []<>(\A k \in Keys : ~Unsettled(k))
============================================================================
