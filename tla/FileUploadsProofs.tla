-------------------------- MODULE FileUploadsProofs --------------------------
(***************************************************************************)
(* Proofs about FileUploads, for any number of keys and requests.          *)
(*                                                                         *)
(* The inductive invariant IInv says what an open transaction may rely on *)
(* (ReqInv), that no two own a key or lock a session (OwnInv, LockInv), how *)
(* old the key of a plain upload can be (AgeInv), that admissions take turns *)
(* and what their first SELECT has seen (TurnInv), and that a key which a   *)
(* sweep is about to drop is neither a file nor an active session (SweepInv). *)
(***************************************************************************)
EXTENDS FileUploads, FiniteSetTheorems, TLAPS

Completing == {"assembling", "assembled", "recorded"}
Owning == {"opening", "reserved", "put", "admitting", "admitted", "sent", "adrift", "unsure"}
Claiming == {"reserved", "admitted", "sent", "adrift"}
Counting == {"opening", "admitting"}
Turn == Claiming \cup Counting
Opening == {"opening", "reserved"}
Filing == {"put", "admitting", "admitted", "sent", "recorded"}

KeyInv ==
    \A k \in Keys :
        /\ k \notin minted => session[k] = "none" /\ file[k] = "none" /\ ~object[k] /\ age[k] = 0
        /\ session[k] = "active" => file[k] = "none"

\* A completion works on an active session; whoever has just minted a key is its only user.
ReqInv ==
    \A r \in Requests :
        /\ req[r].at # "idle" => req[r].key \in minted
        /\ req[r].at \in Completing => session[req[r].key] = "active"
        /\ req[r].at \in Owning => session[req[r].key] = "none"
        /\ req[r].at \in Owning \ {"unsure"} => file[req[r].key] = "none"
        /\ req[r].at \in Filing => object[req[r].key]
        /\ req[r].at \in Opening => ~object[req[r].key]
        /\ req[r].at \notin Opening \cup {"closing"} => req[r].closes = {}
        /\ \A j \in req[r].closes : session[j] = "active"

OwnInv ==
    \A r, q \in Requests :
        req[r].at \in Owning /\ req[q].at \in Owning /\ req[r].key = req[q].key => r = q

LockInv ==
    /\ \A r, q \in Requests, k \in Keys : k \in Locked(r) /\ k \in Locked(q) => r = q
    /\ \A r \in Requests, k \in stale.marked : k \notin Locked(r)
    /\ \A k \in stale.todo \cup stale.marked : session[k] # "none"

AgeInv == \A r \in Requests : req[r].at \in Timed => age[req[r].key] <= MaxTx

\* Admissions take turns, and the first SELECT of one misses no file but an uncounted one.
TurnInv ==
    /\ \A r, q \in Requests : req[r].at \in Turn /\ req[q].at \in Turn => r = q
    /\ \A r \in Requests : req[r].at \in Counting =>
          /\ Stored \ uncounted \subseteq req[r].counted
          /\ \A j \in req[r].past : Expired(j)

SweepInv ==
    \A k \in sweep.batch :
        /\ k \in minted /\ age[k] > 2 * TTL
        /\ \A r \in Requests : req[r].at \in Opening => req[r].key # k
        /\ k \notin sweep.kept =>
              /\ file[k] # "live" \/ k \in lost
              /\ sweep.at = "sessions" => session[k] # "active"

\* the keys that count against the quota, or will when an admission commits
Reserved == {k \in Keys : session[k] = "active" /\ ~Expired(k)}
Admitted == {k \in Keys : \E r \in Requests : req[r].at \in Claiming /\ req[r].key = k}
Claims == (Stored \ uncounted) \cup Reserved \cup Admitted
QuotaInv == Cardinality(Claims) <= Quota

IInv ==
    /\ TypeOK /\ KeyInv /\ ReqInv /\ OwnInv /\ LockInv /\ AgeInv /\ TurnInv /\ SweepInv
    /\ BytesKept /\ QuotaInv

-----------------------------------------------------------------------------
Reqs == [at : InTx \cup {"idle", "unsure"}, key : Keys \cup {NoKey},
         closes : SUBSET Keys, counted : SUBSET Keys, past : SUBSET Keys]

\* The key of a plain upload is never as old as those of a sweep.
LEMMA OldIsSettled ==
    ASSUME IInv, NEW r \in Requests, req[r].at \in Timed
    PROVE  ~(age[req[r].key] > 2 * TTL)
<1>1. /\ req[r] \in Reqs /\ req[r].key \in Keys
      /\ age[req[r].key] \in Nat
  BY UploadConstants DEF IInv, TypeOK, Reqs, ReqInv, MaxAge, Timed
<1>2. age[req[r].key] <= MaxTx
  BY DEF IInv, AgeInv
<1> QED BY <1>1, <1>2, UploadConstants

LEMMA FewerClaims ==
    ASSUME NEW S \in SUBSET Keys, NEW T \in SUBSET S, Cardinality(S) <= Quota
    PROVE  Cardinality(T) <= Quota
<1>1. IsFiniteSet(S)
  BY FS_Subset, UploadConstants
<1>2. IsFiniteSet(T) /\ Cardinality(T) <= Cardinality(S)
  BY <1>1, FS_Subset
<1>3. Cardinality(S) \in Nat /\ Cardinality(T) \in Nat /\ Quota \in Nat
  BY <1>1, <1>2, FS_CardinalityType, UploadConstants
<1> QED BY <1>2, <1>3

\* Two sums and one more bound the keys that are in either, and one more.
LEMMA SumsBound ==
    ASSUME NEW A \in SUBSET Keys, NEW B \in SUBSET Keys, NEW k,
           Cardinality(A) + Cardinality(B) + 1 <= Quota
    PROVE  Cardinality((A \cup B) \cup {k}) <= Quota
<1>1. IsFiniteSet(A) /\ IsFiniteSet(B)
  BY FS_Subset, UploadConstants
<1>2. IsFiniteSet(A \cap B)
  BY <1>1, FS_Subset
<1>3. /\ IsFiniteSet(A \cup B)
      /\ Cardinality(A \cup B) = Cardinality(A) + Cardinality(B) - Cardinality(A \cap B)
  BY <1>1, FS_Union
<1>4. Cardinality((A \cup B) \cup {k}) =
        IF k \in A \cup B THEN Cardinality(A \cup B) ELSE Cardinality(A \cup B) + 1
  BY <1>3, FS_AddElement
<1>5. /\ Cardinality(A) \in Nat /\ Cardinality(B) \in Nat /\ Cardinality(A \cap B) \in Nat
      /\ Quota \in Nat
  BY <1>1, <1>2, FS_CardinalityType, UploadConstants
<1> QED BY <1>3, <1>4, <1>5

LEMMA ClaimsKeys == Claims \subseteq Keys /\ Stored \subseteq Keys /\ Reserved \subseteq Keys
BY DEF Claims, Stored, Reserved, Admitted

LEMMA InitIInv == Init => IInv
<1> SUFFICES ASSUME Init PROVE IInv
  OBVIOUS
<1> USE UploadConstants DEF Init
<1>1. TypeOK
  BY DEF TypeOK, Idle, NoReap, NoSweep, MaxAge, InTx
<1>2. KeyInv /\ ReqInv /\ OwnInv /\ AgeInv /\ SweepInv /\ BytesKept
  BY DEF KeyInv, ReqInv, OwnInv, AgeInv, SweepInv, BytesKept, Idle, NoSweep, Completing, Owning,
         Opening, Filing, Timed
<1>3. LockInv /\ TurnInv
  BY DEF LockInv, Locked, Idle, NoReap, TurnInv, Turn, Claiming, Counting
<1>4. QuotaInv
  <2>1. Claims = {}
    BY DEF Claims, Stored, Reserved, Admitted, Claiming, Idle
  <2> QED BY <2>1, FS_EmptySet DEF QuotaInv
<1> QED BY <1>1, <1>2, <1>3, <1>4 DEF IInv

-----------------------------------------------------------------------------
(* Steps of a request that commit nothing.                                 *)

LocksOf(v) == v.closes \cup (IF v.at \in Completing THEN {v.key} ELSE {})

\* the transaction of r becomes v
Moves(r, v) ==
    /\ v \in Reqs
    /\ req' = [req EXCEPT ![r] = v]
    /\ minted \subseteq minted' /\ minted' \subseteq Keys
    /\ object' \in [Keys -> BOOLEAN]
    /\ upload' \in [Keys -> {"none", "missing", "full", "gone"}]
    /\ age' \in [Keys -> 0..MaxAge]
    /\ \A k \in Keys : age'[k] = age[k] \/ (v.at = "reserved" /\ k = v.key /\ age'[k] = 0)
    /\ \A k \in Keys : k \notin minted' => object'[k] = object[k]
    /\ UNCHANGED <<file, session, uncounted, lost, stale, sweep>>

\* and v keeps to the protocol of keys and row locks, ...
Sound(r, v) ==
    /\ v.at # "idle" => v.key \in minted'
    /\ v.at \in Completing => session[v.key] = "active"
    /\ v.at \in Owning => session[v.key] = "none"
    /\ v.at \in Owning \ {"unsure"} => file[v.key] = "none"
    /\ v.at \in Owning => v.key \notin minted \/ (req[r].at \in Owning /\ req[r].key = v.key)
    /\ v.at \in Timed => age[v.key] <= MaxTx
    /\ v.at \notin Opening \cup {"closing"} => v.closes = {}
    /\ \A j \in v.closes : session[j] = "active"
    /\ \A k \in LocksOf(v) : k \in Locked(r) \/ Unlocked(k)
    /\ v.at \in Turn => req[r].at \in Turn \/ QuotaFree
    /\ v.at \in Counting => v.counted = Stored /\ v.past = {k \in Keys : Expired(k)}
    /\ v.at \in Claiming => \/ req[r].at \in Claiming /\ req[r].key = v.key
                            \/ req[r].at \in Counting /\ FitsReserved(r)
    /\ v.at = "reserved" => req[r].at \in Turn

\* ... and drops no bytes but those that nobody is going to commit.
Spares(r, v) ==
    /\ v.at \in Filing => object'[v.key]
    /\ v.at \in Opening => ~object'[v.key] /\ v.key \notin sweep.batch
    /\ \A k \in Keys : object'[k] # object[k] =>
          /\ object[k] => file[k] # "live"
          /\ \A q \in Requests \ {r} : req[q].at \in Filing \cup Opening => req[q].key # k

LEMMA MovesKept ==
    ASSUME IInv, NEW r \in Requests, NEW v, Moves(r, v), Sound(r, v), Spares(r, v)
    PROVE  IInv'
<1> USE DEF Moves
<1>0. /\ req \in [Requests -> Reqs] /\ req' \in [Requests -> Reqs] /\ minted \subseteq Keys
      /\ object \in [Keys -> BOOLEAN] /\ age \in [Keys -> 0..MaxAge]
  BY DEF IInv, TypeOK, Reqs
<1>a. (\A q \in Requests : q # r => req'[q] = req[q]) /\ req'[r] = v
  BY <1>0
<1>1. TypeOK'
  BY <1>0 DEF IInv, TypeOK, Reqs
<1>2. KeyInv'
  BY <1>0 DEF IInv, KeyInv
<1>3. ReqInv'
  <2>1. ASSUME NEW q \in Requests, q # r, req[q].at \in Filing \cup Opening
        PROVE  object'[req[q].key] = object[req[q].key]
    <3>1. req[q].key \in Keys
      BY <1>0, <2>1 DEF IInv, ReqInv, Filing, Opening
    <3> QED BY <1>0, <2>1, <3>1 DEF Spares
  <2>2. ASSUME NEW q \in Requests, q # r
        PROVE  /\ req[q].at # "idle" => req[q].key \in minted'
               /\ req[q].at \in Completing => session'[req[q].key] = "active"
               /\ req[q].at \in Owning => session'[req[q].key] = "none"
               /\ req[q].at \in Owning \ {"unsure"} => file'[req[q].key] = "none"
               /\ req[q].at \in Filing => object'[req[q].key]
               /\ req[q].at \in Opening => ~object'[req[q].key]
               /\ req[q].at \notin Opening \cup {"closing"} => req[q].closes = {}
               /\ \A j \in req[q].closes : session'[j] = "active"
    BY <1>0, <2>1, <2>2 DEF IInv, ReqInv
  <2> QED BY <1>a, <2>2 DEF ReqInv, Sound, Spares
<1>4. OwnInv'
  <2>1. ASSUME NEW q \in Requests, q # r, req[q].at \in Owning, v.at \in Owning
        PROVE  req[q].key # v.key
    <3>1. req[q].key \in minted
      BY <2>1 DEF IInv, ReqInv, Owning
    <3> QED BY <2>1, <3>1 DEF IInv, OwnInv, Sound
  <2> QED BY <1>0, <2>1 DEF IInv, OwnInv
<1>5. LockInv'
  <2>1. Locked(r)' = LocksOf(v) /\ \A q \in Requests : q # r => Locked(q)' = Locked(q)
    BY <1>0 DEF Locked, LocksOf, Completing
  <2>2. ASSUME NEW k \in Keys, k \in LocksOf(v), NEW q \in Requests, q # r
        PROVE  k \notin Locked(q)
    BY <2>2 DEF IInv, LockInv, Sound, Unlocked
  <2>3. ASSUME NEW k \in stale.marked PROVE k \notin LocksOf(v)
    BY <2>3 DEF IInv, LockInv, Sound, Unlocked
  <2> QED BY <2>1, <2>2, <2>3 DEF IInv, LockInv
<1>6. AgeInv'
  <2>1. ASSUME NEW q \in Requests, q # r, req[q].at \in Timed
        PROVE  age'[req[q].key] <= MaxTx
    <3>1. req[q].key \in Keys /\ age[req[q].key] <= MaxTx
      BY <1>0, <2>1 DEF IInv, ReqInv, AgeInv, Timed
    <3> QED BY <3>1, UploadConstants
  <2>2. v.at \in Timed => v.key \in Keys /\ v.at # "reserved"
    BY DEF Sound, Timed
  <2> QED BY <1>a, <2>1, <2>2 DEF AgeInv, Sound
<1>7. TurnInv'
  <2>1. ASSUME NEW q \in Requests, q # r, req[q].at \in Turn, v.at \in Turn PROVE FALSE
    BY <2>1 DEF IInv, TurnInv, Sound, QuotaFree, Turn, Claiming, Counting
  <2>2. Stored' = Stored /\ uncounted' = uncounted
    BY DEF Stored
  <2>3. ASSUME v.at # "reserved", NEW j \in Keys PROVE Expired(j)' = Expired(j)
    BY <2>3 DEF Expired
  <2>4. ASSUME NEW q \in Requests, q # r, req[q].at \in Counting
        PROVE  Stored' \ uncounted' \subseteq req[q].counted /\ \A j \in req[q].past : Expired(j)'
    <3>1. v.at # "reserved"
      BY <2>1, <2>4 DEF Turn, Claiming
    <3>2. req[q].past \subseteq Keys
      BY <1>0 DEF Reqs
    <3> QED BY <2>2, <2>3, <2>4, <3>1, <3>2 DEF IInv, TurnInv
  <2>5. v.at \in Counting => Stored' \ uncounted' \subseteq v.counted /\ \A j \in v.past : Expired(j)'
    BY <2>2, <2>3 DEF Sound, Counting
  <2> QED BY <1>a, <2>1, <2>4, <2>5 DEF IInv, TurnInv
<1>8. SweepInv'
  <2>1. sweep.batch \subseteq Keys
    BY DEF IInv, TypeOK
  <2>2. \A k \in sweep.batch : v.at \in Opening => v.key # k
    BY DEF Spares
  <2>3. \A k \in sweep.batch : age'[k] = age[k]
    BY <2>1, <2>2 DEF Opening
  <2> QED BY <1>a, <2>1, <2>2, <2>3 DEF IInv, SweepInv
<1>9. BytesKept'
  BY <1>0 DEF IInv, BytesKept, Spares
<1>10. QuotaInv'
  <2>1. Stored' = Stored /\ uncounted' = uncounted
    BY DEF Stored
  <2>2. Reserved' \subseteq Reserved
    <3> SUFFICES ASSUME NEW k \in Keys, session[k] = "active", ~(age'[k] >= TTL)
                 PROVE  ~(age[k] >= TTL)
      BY DEF Reserved, Expired
    <3>1. v.at = "reserved" => session[v.key] = "none"
      BY DEF Sound, Owning
    <3> QED BY <3>1
  <2>3. CASE v.at \notin Claiming \/ (req[r].at \in Claiming /\ req[r].key = v.key)
    <3>1. Admitted' \subseteq Admitted
      BY <1>a, <2>3 DEF Admitted
    <3>2. Claims' \subseteq Claims
      BY <2>1, <2>2, <3>1 DEF Claims
    <3> QED BY <3>2, ClaimsKeys, FewerClaims DEF IInv, QuotaInv
  <2>4. CASE v.at \in Claiming /\ req[r].at \in Counting /\ FitsReserved(r)
    <3> DEFINE A == req[r].counted
               B == {k \in Keys : session[k] = "active" /\ k \notin req[r].past}
    <3>1. v.key \in Keys /\ Admitted' \subseteq {v.key}
      <4>1. \A q \in Requests : q # r => req[q].at \notin Claiming
        BY <2>4 DEF IInv, TurnInv, Turn
      <4>2. v.key \in Keys
        BY <1>0, <2>4 DEF Sound, Claiming
      <4> QED BY <1>a, <4>1, <4>2 DEF Admitted
    <3>2. Reserved \subseteq B /\ Stored \ uncounted \subseteq A
      BY <2>4 DEF IInv, TurnInv, Reserved
    <3>3. A \in SUBSET Keys /\ B \in SUBSET Keys
      BY <1>0 DEF Reqs
    <3>4. Cardinality(A) + Cardinality(B) + 1 <= Quota
      BY <2>4 DEF FitsReserved
    <3> HIDE DEF A, B
    <3>5. Claims' \subseteq (A \cup B) \cup {v.key}
      BY <2>1, <2>2, <3>1, <3>2 DEF Claims
    <3>6. Cardinality((A \cup B) \cup {v.key}) <= Quota
      BY <3>3, <3>4, SumsBound
    <3>7. (A \cup B) \cup {v.key} \in SUBSET Keys
      BY <3>1, <3>3
    <3> QED BY <3>5, <3>6, <3>7, FewerClaims DEF QuotaInv
  <2> QED BY <2>3, <2>4 DEF Sound
<1> QED BY <1>1, <1>2, <1>3, <1>4, <1>5, <1>6, <1>7, <1>8, <1>9, <1>10 DEF IInv

LEMMA Dropping ==
    ASSUME IInv, NEW ks \in SUBSET Keys, MayDrop(ks)
    PROVE  /\ object' \in [Keys -> BOOLEAN]
           /\ \A k \in Keys : k \notin ks => object'[k] = object[k]
           /\ \A k \in Keys : object'[k] => object[k]
<1>1. PICK done \in SUBSET ks : object' = [k \in Keys |-> object[k] /\ k \notin done]
  BY DEF MayDrop
<1>2. object \in [Keys -> BOOLEAN]
  BY DEF IInv, TypeOK
<1>3. \A k \in Keys : (object[k] /\ k \notin done) \in BOOLEAN
  OBVIOUS
<1>4. object' \in [Keys -> BOOLEAN]
  BY <1>1, <1>3
<1>5. \A k \in Keys : k \notin ks => object'[k] = object[k]
  BY <1>1, <1>2
<1>6. \A k \in Keys : object'[k] => object[k]
  BY <1>1
<1> QED BY <1>4, <1>5, <1>6

LEMMA Aborting ==
    ASSUME IInv, NEW ks
    PROVE  Aborted(ks) \in [Keys -> {"none", "missing", "full", "gone"}]
BY DEF Aborted, IInv, TypeOK

LEMMA OthersKeys ==
    ASSUME IInv, NEW r \in Requests, req[r].at \in Completing \cup Owning,
           NEW q \in Requests, q # r, req[q].at \in Filing \cup Opening
    PROVE  req[q].key # req[r].key
<1> SUFFICES ASSUME req[q].key = req[r].key PROVE FALSE
  OBVIOUS
<1>1. req[r].key \in Keys
  BY DEF IInv, ReqInv, TypeOK, Completing, Owning
<1>2. CASE req[r].at \in Owning
  BY <1>2 DEF IInv, ReqInv, OwnInv, Completing, Owning, Filing, Opening
<1>3. CASE req[r].at \in Completing /\ req[q].at = "recorded"
  BY <1>1, <1>3 DEF IInv, LockInv, Locked, Completing
<1>4. CASE req[r].at \in Completing /\ req[q].at # "recorded"
  BY <1>4 DEF IInv, ReqInv, Completing, Owning, Filing, Opening
<1> QED BY <1>2, <1>3, <1>4

LEMMA IdleSound ==
    ASSUME NEW r \in Requests, NEW v, v = Idle
    PROVE  Sound(r, v)
BY DEF Sound, Idle, LocksOf, Completing, Owning, Claiming, Counting, Turn, Timed, Opening

\* The common case: the request ends, or goes on with the key it has.
LEMMA Onwards ==
    ASSUME IInv, NEW r \in Requests, NEW ks \in SUBSET Keys,
           req[r].at \in Completing \cup Owning,
           ks \subseteq {req[r].key}, MayDrop(ks), file[req[r].key] # "live" \/ ks = {},
           upload' \in [Keys -> {"none", "missing", "full", "gone"}],
           UNCHANGED <<minted, uncounted, lost, file, session, age, stale, sweep>>,
           NEW v \in Reqs, req' = [req EXCEPT ![r] = v],
           v.at \notin Opening,
           v.at \in Filing => ks = {} /\ object[v.key],
           Sound(r, v)
    PROVE  IInv'
<1>0. req[r].key \in minted
  BY DEF IInv, ReqInv, Completing, Owning
<1>1. Moves(r, v)
  BY <1>0, Dropping DEF Moves, IInv, TypeOK
<1>2. Spares(r, v)
  <2>1. ks = {} => object' = object
    <3>1. object \in [Keys -> BOOLEAN]
      BY DEF IInv, TypeOK
    <3> QED BY <3>1, Dropping
  <2> QED BY <2>1, Dropping, OthersKeys DEF Spares
<1> QED BY <1>1, <1>2, MovesKept

LEMMA NoDrop == ASSUME IInv, object' = object PROVE MayDrop({})
<1>1. object \in [Keys -> BOOLEAN]
  BY DEF IInv, TypeOK
<1>2. \A k \in Keys : (object[k] /\ k \notin {}) = object[k]
  BY <1>1
<1>3. object = [k \in Keys |-> object[k] /\ k \notin {}]
  BY <1>1, <1>2
<1>4. {} \in SUBSET {}
  OBVIOUS
<1> QED BY <1>3, <1>4, Zenon DEF MayDrop

LEMMA RequestFacts ==
    ASSUME IInv, NEW r \in Requests
    PROVE  /\ req \in [Requests -> Reqs] /\ req[r] \in Reqs
           /\ upload \in [Keys -> {"none", "missing", "full", "gone"}]
           /\ req[r].at # "idle" => req[r].key \in Keys
           /\ Idle \in Reqs /\ Idle.at = "idle" /\ Idle.closes = {}
BY UploadConstants DEF IInv, TypeOK, Reqs, ReqInv, Idle, InTx

\* the record of r when it goes on to another state
To(r, at) == [at |-> at, key |-> req[r].key, closes |-> req[r].closes, counted |-> {}, past |-> {}]

LEMMA Going ==
    ASSUME IInv, NEW r \in Requests, NEW at \in InTx \cup {"unsure"}
    PROVE  /\ To(r, at) \in Reqs
           /\ To(r, at).at = at /\ To(r, at).key = req[r].key /\ To(r, at).closes = req[r].closes
           /\ Go(r, at) => req' = [req EXCEPT ![r] = To(r, at)]
<1>1. req \in [Requests -> Reqs] /\ req[r] \in Reqs
  BY RequestFacts
<1> QED BY <1>1 DEF To, Go, Reqs

-----------------------------------------------------------------------------
LEMMA OpenKept ==
    ASSUME IInv, NEW r \in Requests, NEW k \in Keys, Open(r, k)
    PROVE  IInv'
<1> DEFINE mine == {j \in Keys : Owner[j] = Owner[k] /\ session[j] = "active" /\ Expired(j)}
           past == {j \in Keys : Expired(j)}
           v == [at |-> "opening", key |-> k, closes |-> mine, counted |-> Stored, past |-> past]
<1>1. /\ req[r].at = "idle" /\ k \notin minted /\ QuotaFree
      /\ \A j \in mine : Unlocked(j)
      /\ minted' = minted \cup {k}
      /\ UNCHANGED <<uncounted, lost, file, session, object, age, stale, sweep>>
      /\ MayAbort(mine)
      /\ req' = [req EXCEPT ![r] = v]
  BY DEF Open, Count
<1>2. upload' \in [Keys -> {"none", "missing", "full", "gone"}]
  BY <1>1, Aborting DEF MayAbort
<1>3. session[k] = "none" /\ file[k] = "none" /\ ~object[k] /\ minted \subseteq Keys
      /\ object \in [Keys -> BOOLEAN] /\ age \in [Keys -> 0..MaxAge]
      /\ k \notin sweep.batch
  BY <1>1 DEF IInv, KeyInv, TypeOK, SweepInv
<1>4. mine \subseteq Keys /\ (\A j \in mine : session[j] = "active") /\ past \subseteq Keys
  OBVIOUS
<1> HIDE DEF mine
<1>5. /\ v \in Reqs /\ v.at = "opening" /\ v.key = k /\ v.closes = mine
      /\ v.counted = Stored /\ v.past = past
  BY <1>4, ClaimsKeys DEF Reqs, InTx
<1> HIDE DEF v
<1>6. Moves(r, v)
  BY <1>1, <1>2, <1>3, <1>5 DEF Moves
<1>7. Sound(r, v)
  <2>1. LocksOf(v) = mine
    BY <1>5 DEF LocksOf, Completing
  <2> QED BY <1>1, <1>3, <1>4, <1>5, <2>1
          DEF Sound, Completing, Owning, Claiming, Counting, Turn, Timed, Opening
<1>8. Spares(r, v)
  BY <1>1, <1>3, <1>5 DEF Spares, Filing
<1> QED BY <1>6, <1>7, <1>8, MovesKept

LEMMA ReserveKept ==
    ASSUME IInv, NEW r \in Requests, Reserve(r)
    PROVE  IInv'
<1> DEFINE k == req[r].key
           v == To(r, "reserved")
<1>0. /\ req[r].at = "opening" /\ k \in Keys /\ k \in minted /\ minted \subseteq Keys
      /\ session[k] = "none" /\ file[k] = "none" /\ ~object[k] /\ k \notin sweep.batch
      /\ \A j \in req[r].closes : session[j] = "active" /\ j \in Locked(r)
      /\ UNCHANGED <<minted, uncounted, lost, file, session, object, stale, sweep>>
      /\ object \in [Keys -> BOOLEAN] /\ age \in [Keys -> 0..MaxAge] /\ 0 \in 0..MaxAge
  BY RequestFacts, UploadConstants
     DEF Reserve, IInv, ReqInv, SweepInv, TypeOK, Owning, Opening, Locked, MaxAge
<1>1. CASE FitsReserved(r)
  <2>1. /\ upload' = [upload EXCEPT ![k] = "missing"] /\ age' = [age EXCEPT ![k] = 0]
        /\ v \in Reqs /\ v.at = "reserved" /\ v.key = k /\ v.closes = req[r].closes
        /\ req' = [req EXCEPT ![r] = v]
    BY <1>1, Going DEF Reserve, InTx
  <2> HIDE DEF v
  <2>2. Moves(r, v)
    BY <1>0, <2>1, RequestFacts DEF Moves
  <2>3. Sound(r, v)
    <3>1. LocksOf(v) = req[r].closes
      BY <2>1 DEF LocksOf, Completing
    <3> QED BY <1>0, <1>1, <2>1, <3>1
            DEF Sound, Completing, Owning, Claiming, Counting, Turn, Timed, Opening
  <2>4. Spares(r, v)
    BY <1>0, <2>1 DEF Spares, Filing
  <2> QED BY <2>2, <2>3, <2>4, MovesKept
<1>2. CASE ~FitsReserved(r)
  <2>1. req' = [req EXCEPT ![r] = Idle] /\ UNCHANGED <<upload, age>>
    BY <1>2 DEF Reserve, End
  <2>2. MayDrop({}) /\ Sound(r, Idle)
    BY <1>0, NoDrop, IdleSound
  <2> QED BY <1>0, <2>1, <2>2, RequestFacts, Onwards DEF Owning, Filing, Opening
<1> QED BY <1>1, <1>2

LEMMA CompleteKept ==
    ASSUME IInv, NEW r \in Requests, NEW k \in Keys, Complete(r, k)
    PROVE  IInv'
<1> DEFINE v == [Idle EXCEPT !.at = "assembling", !.key = k, !.closes = {}]
<1>1. v \in Reqs /\ v.at = "assembling" /\ v.key = k /\ v.closes = {}
  BY DEF Reqs, InTx, Idle
<1>2. req' = [req EXCEPT ![r] = v]
  BY DEF Complete, Begin
<1>3. k \in minted /\ session[k] = "active" /\ Unlocked(k)
  BY DEF Complete, IInv, KeyInv
<1> HIDE DEF v
<1>4. Moves(r, v)
  BY <1>1, <1>2 DEF Complete, Moves, IInv, TypeOK
<1>5. Sound(r, v)
  BY <1>1, <1>3
     DEF Sound, Complete, LocksOf, Completing, Owning, Claiming, Counting, Turn, Timed
<1>6. Spares(r, v)
  BY <1>1 DEF Spares, Complete, Filing, Opening
<1> QED BY <1>4, <1>5, <1>6, MovesKept

LEMMA AbortKept ==
    ASSUME IInv, NEW r \in Requests, NEW k \in Keys, Abort(r, k)
    PROVE  IInv'
<1> DEFINE v == [Idle EXCEPT !.at = "closing", !.key = k, !.closes = {k}]
<1>1. v \in Reqs /\ v.at = "closing" /\ v.key = k /\ v.closes = {k}
  BY DEF Reqs, InTx, Idle
<1>2. req' = [req EXCEPT ![r] = v]
  BY DEF Abort, Begin
<1>3. k \in minted /\ session[k] = "active" /\ Unlocked(k)
  BY DEF Abort, IInv, KeyInv
<1> HIDE DEF v
<1>4. Moves(r, v)
  BY <1>1, <1>2, Aborting DEF Abort, MayAbort, Moves, IInv, TypeOK
<1>5. Sound(r, v)
  <2>1. LocksOf(v) = {k}
    BY <1>1 DEF LocksOf, Completing
  <2>2. minted' = minted
    BY DEF Abort
  <2> QED BY <1>1, <1>3, <2>1, <2>2
          DEF Sound, Completing, Owning, Claiming, Counting, Turn, Timed
<1>6. Spares(r, v)
  BY <1>1 DEF Spares, Abort, Filing, Opening
<1> QED BY <1>4, <1>5, <1>6, MovesKept

LEMMA PutKept ==
    ASSUME IInv, NEW r \in Requests, NEW k \in Keys, Put(r, k)
    PROVE  IInv'
<1> DEFINE v == [Idle EXCEPT !.at = "put", !.key = k, !.closes = {}]
<1>1. v \in Reqs /\ v.at = "put" /\ v.key = k /\ v.closes = {}
  BY DEF Reqs, InTx, Timed, Idle
<1>2. req' = [req EXCEPT ![r] = v] /\ k \notin minted /\ minted' = minted \cup {k}
  BY DEF Put, Begin
<1>3. session[k] = "none" /\ file[k] = "none" /\ age[k] = 0 /\ 0 <= MaxTx
  BY <1>2, UploadConstants DEF IInv, KeyInv
<1>4. age' = age /\ age \in [Keys -> 0..MaxAge] /\ object \in [Keys -> BOOLEAN]
      /\ object' = [object EXCEPT ![k] = TRUE] /\ minted \subseteq Keys
  BY <1>3 DEF Put, IInv, TypeOK
<1> HIDE DEF v
<1>5. Moves(r, v)
  <2>1. object' \in [Keys -> BOOLEAN] /\ \A j \in Keys : j # k => object'[j] = object[j]
    BY <1>4
  <2>2. /\ upload \in [Keys -> {"none", "missing", "full", "gone"}]
        /\ UNCHANGED <<file, session, upload, uncounted, lost, stale, sweep>>
    BY DEF Put, IInv, TypeOK
  <2> QED BY <1>1, <1>2, <1>4, <2>1, <2>2 DEF Moves
<1>6. Sound(r, v)
  BY <1>1, <1>2, <1>3
     DEF Sound, LocksOf, Completing, Owning, Claiming, Counting, Turn, Timed
<1>7. Spares(r, v)
  <2>1. \A q \in Requests : req[q].at \in Filing \cup Opening => req[q].key # k
    BY <1>2 DEF IInv, ReqInv, Filing, Opening
  <2>2. object'[k] /\ \A j \in Keys : object[j] => object'[j] = object[j]
    BY <1>4
  <2> QED BY <1>1, <1>4, <2>1, <2>2 DEF Spares, Opening
<1> QED BY <1>5, <1>6, <1>7, MovesKept

LEMMA AssembleKept ==
    ASSUME IInv, NEW r \in Requests, Assemble(r)
    PROVE  IInv'
<1> DEFINE k == req[r].key
           w == To(r, "assembled")
<1>0. /\ req[r].at = "assembling" /\ k \in Keys /\ req[r].closes = {} /\ k \in minted
      /\ session[k] = "active"
  BY RequestFacts DEF Assemble, IInv, ReqInv, Completing, Opening
<1>1. w \in Reqs /\ w.at = "assembled" /\ w.key = k /\ w.closes = {}
  BY <1>0, Going DEF InTx
<1>2. req' = [req EXCEPT ![r] = w] \/ req' = [req EXCEPT ![r] = Idle]
  BY Going DEF Assemble, End, InTx
<1>3. /\ object \in [Keys -> BOOLEAN] /\ object' = [object EXCEPT ![k] = TRUE]
      /\ upload' \in [Keys -> {"none", "missing", "full", "gone"}]
      /\ UNCHANGED <<minted, uncounted, lost, file, session, age, stale, sweep>>
  BY RequestFacts DEF Assemble, IInv, TypeOK
<1>4. \A q \in Requests \ {r} : req[q].at \in Filing \cup Opening => req[q].key # k
  BY <1>0, OthersKeys DEF Completing
<1>5. Sound(r, w)
  <2>1. LocksOf(w) \subseteq Locked(r)
    BY <1>0, <1>1 DEF LocksOf, Locked, Completing
  <2> HIDE DEF w, k
  <2> QED BY <1>0, <1>1, <1>3, <2>1
          DEF Sound, Completing, Owning, Claiming, Counting, Turn, Timed
<1> HIDE DEF w, k
<1>6. ASSUME NEW v \in {w, Idle}, req' = [req EXCEPT ![r] = v]
      PROVE  IInv'
  <2>1. Moves(r, v)
    BY <1>0, <1>1, <1>3, <1>6, RequestFacts DEF Moves, IInv, TypeOK
  <2>2. Spares(r, v)
    <3>1. v.at \notin Filing \cup Opening
      BY <1>1, <1>6, RequestFacts DEF Filing, Opening
    <3>2. \A j \in Keys : object'[j] # object[j] => j = k /\ ~object[j]
      BY <1>3
    <3> QED BY <1>4, <3>1, <3>2 DEF Spares
  <2> QED BY <1>5, <1>6, <2>1, <2>2, IdleSound, MovesKept
<1> QED BY <1>2, <1>6

LEMMA RecordKept ==
    ASSUME IInv, NEW r \in Requests, Record(r)
    PROVE  IInv'
<1> DEFINE v == To(r, "recorded")
<1>0. /\ req[r].at = "assembled" /\ object[req[r].key] /\ req[r].key \in minted
      /\ session[req[r].key] = "active" /\ req[r].closes = {}
  BY DEF Record, IInv, ReqInv, Completing, Opening
<1>1. v \in Reqs /\ v.at = "recorded" /\ v.key = req[r].key /\ v.closes = {}
  BY <1>0, Going DEF InTx
<1>2. req' = [req EXCEPT ![r] = v]
  BY Going DEF Record, InTx
<1> HIDE DEF v
<1>3. Moves(r, v)
  BY <1>1, <1>2 DEF Record, Moves, IInv, TypeOK
<1>4. Sound(r, v)
  <2>1. LocksOf(v) \subseteq Locked(r)
    BY <1>0, <1>1 DEF LocksOf, Locked, Completing
  <2> QED BY <1>0, <1>1, <2>1
          DEF Record, Sound, Completing, Owning, Claiming, Counting, Turn, Timed
<1>5. Spares(r, v)
  BY <1>0, <1>1 DEF Spares, Record, Opening
<1> QED BY <1>3, <1>4, <1>5, MovesKept

LEMMA RejectKept ==
    ASSUME IInv, NEW r \in Requests, Reject(r)
    PROVE  IInv'
<1> DEFINE k == req[r].key
           v == [req[r] EXCEPT !.at = "closing", !.closes = {k}]
<1>0. /\ req[r].at = "assembled" /\ k \in Keys /\ k \in minted /\ session[k] = "active"
      /\ file[k] = "none"
  BY RequestFacts DEF Reject, IInv, ReqInv, KeyInv, Completing
<1>1. v \in Reqs /\ v.at = "closing" /\ v.key = k /\ v.closes = {k}
  BY <1>0, RequestFacts DEF Reqs, InTx
<1>2. req' = [req EXCEPT ![r] = v]
  BY RequestFacts DEF Reject, Reqs
<1>3. k \in Locked(r)
  BY <1>0 DEF Locked
<1> HIDE DEF v
<1>4. Sound(r, v)
  BY <1>0, <1>1, <1>3
     DEF Reject, Sound, LocksOf, Completing, Owning, Claiming, Counting, Turn, Timed
<1>5. /\ MayDrop({k}) /\ UNCHANGED <<minted, uncounted, lost, file, session, age, stale, sweep>>
      /\ upload' = upload
  BY DEF Reject
<1>6. req[r].at \in Completing \cup Owning /\ v.at \notin Opening \cup Filing
  BY <1>0, <1>1 DEF Completing, Opening, Filing
<1> QED BY <1>0, <1>1, <1>2, <1>4, <1>5, <1>6, RequestFacts, Onwards

LEMMA AdmitKept ==
    ASSUME IInv, NEW r \in Requests, Admit(r)
    PROVE  IInv'
<1> DEFINE k == req[r].key
           v == To(r, "admitted")
<1>0. /\ req[r].at = "admitting" /\ k \in Keys /\ k \in minted /\ session[k] = "none"
      /\ file[k] = "none" /\ object[k] /\ age[k] <= MaxTx /\ req[r].closes = {}
  BY RequestFacts DEF Admit, IInv, ReqInv, AgeInv, Owning, Filing, Timed, Opening
<1>1. v \in Reqs /\ v.at = "admitted" /\ v.key = k /\ v.closes = {}
  BY <1>0, Going DEF InTx, Timed
<1>2. /\ req[r].at \in Completing \cup Owning
      /\ upload' \in [Keys -> {"none", "missing", "full", "gone"}]
      /\ UNCHANGED <<minted, uncounted, lost, file, session, age, stale, sweep>>
  BY <1>0, RequestFacts DEF Admit, Owning
<1>3. CASE FitsReserved(r)
  <2>1. req' = [req EXCEPT ![r] = v] /\ object' = object
    BY <1>3, Going DEF Admit, InTx, Timed
  <2> HIDE DEF v
  <2>2. Sound(r, v)
    BY <1>0, <1>1, <1>2, <1>3, <2>1
       DEF Sound, LocksOf, Completing, Owning, Claiming, Counting, Turn, Timed
  <2>3. MayDrop({}) /\ v.at \notin Opening
    BY <1>1, <2>1, NoDrop DEF Opening
  <2> HIDE DEF k
  <2> QED BY <1>0, <1>1, <1>2, <2>1, <2>2, <2>3, Onwards DEF k
<1>4. CASE ~FitsReserved(r)
  <2>1. req' = [req EXCEPT ![r] = Idle] /\ MayDrop({k})
    BY <1>4 DEF Admit, End
  <2>2. Sound(r, Idle)
    BY IdleSound
  <2> QED BY <1>0, <1>2, <2>1, <2>2, RequestFacts, Onwards DEF Opening, Filing
<1> QED BY <1>3, <1>4

LEMMA TakeTurnKept ==
    ASSUME IInv, NEW r \in Requests, TakeTurn(r)
    PROVE  IInv'
<1> DEFINE k == req[r].key
           past == {j \in Keys : Expired(j)}
           v == [at |-> "admitting", key |-> k, closes |-> {}, counted |-> Stored, past |-> past]
<1>0. /\ req[r].at = "put" /\ k \in Keys /\ k \in minted /\ session[k] = "none"
      /\ file[k] = "none" /\ object[k] /\ age[k] <= MaxTx /\ req[r].closes = {}
      /\ UNCHANGED <<minted, uncounted, lost, file, session, upload, object, age, stale, sweep>>
      /\ QuotaFree
  BY RequestFacts DEF TakeTurn, IInv, ReqInv, AgeInv, Owning, Filing, Timed, Opening
<1>1. past \subseteq Keys
  OBVIOUS
<1>2. req' = [req EXCEPT ![r] = v]
  BY DEF TakeTurn, Count
<1> HIDE DEF past
<1>3. /\ v \in Reqs /\ v.at = "admitting" /\ v.key = k /\ v.closes = {}
      /\ v.counted = Stored /\ v.past = past
  BY <1>0, <1>1, ClaimsKeys DEF Reqs, InTx, Timed
<1> HIDE DEF v
<1>4. Sound(r, v)
  BY <1>0, <1>3
     DEF Sound, LocksOf, Completing, Owning, Claiming, Counting, Turn, Timed, past
<1>5. MayDrop({}) /\ v.at \notin Opening /\ req[r].at \in Completing \cup Owning
  BY <1>0, <1>3, NoDrop DEF Opening, Owning
<1> HIDE DEF k
<1> QED BY <1>0, <1>2, <1>3, <1>4, <1>5, RequestFacts, Onwards DEF k

\* A COMMIT without an answer: sent, looked for in vain, or settled without a commit.
LEMMA SeveredKept ==
    ASSUME IInv, NEW r \in Requests, NEW ks \in SUBSET {req[r].key}, MayDrop(ks),
           req[r].at \in {"admitted", "sent", "adrift", "unsure"},
           file[req[r].key] = "none" \/ ks = {},
           UNCHANGED <<minted, uncounted, lost, file, session, upload, age, stale, sweep>>,
           \/ End(r)
           \/ req[r].at = "admitted" /\ ks = {} /\ Go(r, "sent")
           \/ req[r].at = "sent" /\ (Go(r, "adrift") \/ Go(r, "unsure"))
    PROVE  IInv'
<1>0. /\ req[r].key \in Keys /\ req[r].key \in minted /\ session[req[r].key] = "none"
      /\ req[r].at # "unsure" => file[req[r].key] = "none"
      /\ req[r].at \in {"admitted", "sent"} => object[req[r].key]
      /\ req[r].at # "unsure" => age[req[r].key] <= MaxTx
      /\ req[r].closes = {} /\ req[r].at \in Completing \cup Owning
  BY RequestFacts DEF IInv, ReqInv, AgeInv, Owning, Filing, Timed, Opening
<1>1. ks \in SUBSET Keys
  BY <1>0
<1>2. PICK v \in Reqs :
         /\ req' = [req EXCEPT ![r] = v] /\ Sound(r, v)
         /\ v.at \notin Opening /\ (v.at \in Filing => ks = {} /\ object[v.key])
  <2>1. CASE End(r)
    BY <2>1, RequestFacts, IdleSound DEF End, Opening, Filing
  <2>2. ASSUME NEW at \in {"sent", "adrift", "unsure"}, Go(r, at),
               req[r].at = IF at = "sent" THEN "admitted" ELSE "sent",
               at = "sent" => ks = {}
        PROVE  \E v \in Reqs :
                 /\ req' = [req EXCEPT ![r] = v] /\ Sound(r, v)
                 /\ v.at \notin Opening /\ (v.at \in Filing => ks = {} /\ object[v.key])
    <3> DEFINE v == To(r, at)
    <3>1. /\ v \in Reqs /\ v.at = at /\ v.key = req[r].key /\ v.closes = {}
          /\ req' = [req EXCEPT ![r] = v]
      BY <1>0, <2>2, Going DEF InTx, Timed
    <3> HIDE DEF v
    <3>2. Sound(r, v)
      BY <1>0, <2>2, <3>1
         DEF Sound, LocksOf, Completing, Owning, Claiming, Counting, Turn, Timed
    <3>3. v.at \notin Opening /\ (v.at \in Filing => ks = {} /\ object[v.key])
      BY <1>0, <2>2, <3>1 DEF Opening, Filing
    <3> QED BY <3>1, <3>2, <3>3
  <2> QED BY <2>1, <2>2
<1> QED BY <1>0, <1>1, <1>2, RequestFacts, Onwards

LEMMA CompensateKept ==
    ASSUME IInv, NEW r \in Requests, Compensate(r)
    PROVE  IInv'
<1>1. CASE file[req[r].key] = "none"
  <2>1. MayDrop({req[r].key})
    BY <1>1 DEF Compensate
  <2> QED BY <1>1, <2>1, SeveredKept DEF Compensate
<1>2. CASE file[req[r].key] # "none"
  <2>1. MayDrop({})
    BY <1>2, NoDrop DEF Compensate
  <2> QED BY <2>1, SeveredKept DEF Compensate
<1> QED BY <1>1, <1>2

LEMMA LoseAnswerKept ==
    ASSUME IInv, NEW r \in Requests, LoseAnswer(r)
    PROVE  IInv'
<1>1. MayDrop({})
  BY NoDrop DEF LoseAnswer
<1> QED BY <1>1, SeveredKept DEF LoseAnswer

LEMMA FailKept ==
    ASSUME IInv, NEW r \in Requests, Fail(r)
    PROVE  IInv'
<1> DEFINE k == req[r].key
<1>0. /\ k \in Keys /\ k \in minted /\ req[r].at \in InTx
      /\ req[r].at \in Completing => file[k] = "none"
      /\ req[r].at \in Owning \ {"unsure"} => file[k] = "none"
  BY RequestFacts DEF Fail, IInv, ReqInv, KeyInv, Completing, Owning, InTx, Timed
<1>2. /\ req' = [req EXCEPT ![r] = Idle]
      /\ upload' \in [Keys -> {"none", "missing", "full", "gone"}]
      /\ UNCHANGED <<minted, uncounted, lost, file, session, age, stale, sweep>>
  BY RequestFacts, Aborting DEF Fail, MayAbort, End
<1>4. MayDrop({k}) \/ MayDrop({})
  BY NoDrop DEF Fail
<1>6. Sound(r, Idle)
  BY IdleSound
<1>7. CASE req[r].at = "closing"
  <2>1. object' = object /\ object \in [Keys -> BOOLEAN]
    BY <1>7 DEF Fail, IInv, TypeOK
  <2>2. Moves(r, Idle)
    BY <1>2, <2>1, RequestFacts DEF Moves, IInv, TypeOK
  <2>3. Spares(r, Idle)
    BY <2>1, RequestFacts DEF Spares, Filing, Opening
  <2> QED BY <1>6, <2>2, <2>3, MovesKept
<1>8. CASE req[r].at \in Completing \cup (Owning \ {"unsure"})
  <2>1. file[k] # "live" /\ req[r].at \in Completing \cup Owning
    BY <1>0, <1>8
  <2>2. PICK ks \in SUBSET {k} : MayDrop(ks)
    BY <1>4
  <2>3. ks \in SUBSET Keys
    BY <1>0, <2>2
  <2> HIDE DEF k
  <2>4. Idle \in Reqs /\ Idle.at \notin Opening \cup Filing
    BY RequestFacts DEF Opening, Filing
  <2> QED BY <1>2, <1>6, <2>1, <2>2, <2>3, <2>4, Onwards DEF k
<1> QED BY <1>0, <1>7, <1>8 DEF InTx, Timed, Completing, Owning

-----------------------------------------------------------------------------
(* The commit of a request *)

\* It writes no key and no session of another's.
LEMMA CommitAside ==
    ASSUME IInv, NEW r \in Requests, CommitRows(r), NEW k \in Keys,
           session[k] \in {"none", "active"}, k \notin req[r].closes, k # req[r].key
    PROVE  session'[k] = session[k] /\ file'[k] = file[k]
BY DEF CommitRows, Purgeable, IInv, TypeOK

\* r ends with its commit, or does not know of it (v)
Lands(r, v) ==
    /\ req[r].at \in {"reserved", "recorded", "closing", "admitted", "sent", "adrift"}
    /\ CommitRows(r)
    /\ req' = [req EXCEPT ![r] = v]
    /\ v = Idle \/ (req[r].at = "sent" /\ v = To(r, "unsure"))
    /\ UNCHANGED <<minted, upload, object, age, stale, sweep>>

LEMMA CommitClaims ==
    ASSUME IInv, NEW r \in Requests, NEW v, Lands(r, v)
    PROVE  Claims' \subseteq Claims
<1> DEFINE k == req[r].key
<1>0. /\ k \in Keys /\ age' = age /\ req \in [Requests -> Reqs]
      /\ session \in [Keys -> {"none", "active", "completed", "aborted", "purged"}]
      /\ file \in [Keys -> {"none", "live", "deleted"}]
  BY RequestFacts DEF Lands, IInv, TypeOK
<1>1. Admitted' \subseteq Admitted
  <2>1. v.at \notin Claiming
    BY Going, RequestFacts DEF Lands, Claiming, InTx
  <2>2. \A q \in Requests : q # r => req'[q] = req[q]
    BY <1>0 DEF Lands
  <2>3. req'[r] = v
    BY <1>0 DEF Lands
  <2> QED BY <2>1, <2>2, <2>3 DEF Admitted
<1>2. Reserved' \subseteq Claims
  <2> SUFFICES ASSUME NEW j \in Keys, session'[j] = "active", ~Expired(j) PROVE j \in Claims
    BY <1>0 DEF Reserved, Expired
  <2>1. CASE session[j] = "active"
    BY <2>1 DEF Claims, Reserved
  <2>2. CASE session[j] # "active"
    <3>1. req[r].at = "reserved" /\ j = k
      BY <2>2 DEF Lands, CommitRows
    <3> QED BY <3>1 DEF Claims, Admitted, Claiming
  <2> QED BY <2>1, <2>2
<1>3. (Stored \ uncounted)' \subseteq Claims
  <2> SUFFICES ASSUME NEW j \in Keys, file'[j] = "live", j \notin uncounted' PROVE j \in Claims
    BY DEF Stored
  <2>0. j \notin uncounted
    BY DEF Lands, CommitRows
  <2>1. CASE file[j] = "live"
    BY <2>0, <2>1 DEF Claims, Stored
  <2>2. CASE file[j] # "live"
    <3>1. j = k /\ req[r].at \in {"recorded", "admitted", "sent", "adrift"}
      BY <1>0, <2>2 DEF Lands, CommitRows
    <3>2. CASE req[r].at # "recorded"
      BY <3>1, <3>2 DEF Claims, Admitted, Claiming
    <3>3. CASE req[r].at = "recorded"
      <4>1. ~Expired(j)
        BY <3>1, <3>3 DEF Lands, CommitRows
      <4>2. session[j] = "active"
        BY <3>1, <3>3 DEF IInv, ReqInv, Completing
      <4> QED BY <4>1, <4>2 DEF Claims, Reserved
    <3> QED BY <3>1, <3>2, <3>3
  <2> QED BY <2>1, <2>2
<1> QED BY <1>1, <1>2, <1>3 DEF Claims

LEMMA LandsKept ==
    ASSUME IInv, NEW r \in Requests, NEW v, Lands(r, v)
    PROVE  IInv'
<1> DEFINE k == req[r].key
<1>0. /\ k \in Keys /\ k \in minted /\ req \in [Requests -> Reqs] /\ req[r] \in Reqs
      /\ session \in [Keys -> {"none", "active", "completed", "aborted", "purged"}]
      /\ file \in [Keys -> {"none", "live", "deleted"}]
      /\ req[r].at \in {"reserved", "recorded", "closing", "admitted", "sent", "adrift"}
      /\ CommitRows(r) /\ req' = [req EXCEPT ![r] = v]
      /\ UNCHANGED <<minted, upload, object, age, stale, sweep>>
  BY RequestFacts DEF Lands, IInv, ReqInv, TypeOK
<1>2. /\ v \in Reqs /\ v.at \in {"idle", "unsure"} /\ v.closes = {}
      /\ v.at = "unsure" => v.key = k /\ req[r].at = "sent"
  <2>1. req[r].at = "sent" => req[r].closes = {}
    BY DEF IInv, ReqInv, Opening
  <2> QED BY <2>1, RequestFacts, Going DEF Lands
<1>3. \A q \in Requests : q # r => req'[q] = req[q]
  BY <1>0
<1>4. req'[r] = v /\ req' \in [Requests -> Reqs]
  BY <1>0, <1>2
<1>5. TypeOK'
  <2>1. session' \in [Keys -> {"none", "active", "completed", "aborted", "purged"}]
    BY <1>0 DEF CommitRows
  <2>2. file' \in [Keys -> {"none", "live", "deleted"}] /\ uncounted' \subseteq Keys /\ lost' \subseteq Keys
    BY <1>0 DEF CommitRows, IInv, TypeOK
  <2> QED BY <1>0, <1>4, <2>1, <2>2 DEF IInv, TypeOK, Reqs
\* what another transaction relies on is not written
<1>6. ASSUME NEW q \in Requests, q # r, NEW j \in Keys,
             j \in Locked(q) \/ (req[q].at \in Owning /\ req[q].key = j)
      PROVE  session'[j] = session[j] /\ file'[j] = file[j]
  <2>1. session[j] = IF j \in Locked(q) THEN "active" ELSE "none"
    BY <1>6 DEF IInv, ReqInv, Locked, Completing
  <2>2. j \notin Locked(r)
    BY <1>6, <2>1 DEF IInv, LockInv, ReqInv, Locked, Completing
  <2>3. j \notin req[r].closes
    BY <2>2 DEF Locked
  <2>4. CASE j # k
    BY <1>0, <2>1, <2>3, <2>4, CommitAside
  <2>5. CASE j = k
    <3>1. req[r].at # "recorded"
      BY <2>2, <2>5 DEF Locked
    <3>2. CASE req[r].at = "closing"
      <4>1. session'[j] = session[j] /\ file'[j] = file[j]
        BY <1>0, <2>1, <2>3, <3>2 DEF CommitRows
      <4> QED BY <4>1
    <3>3. CASE req[r].at \in Claiming
      <4>1. session[j] = "none"
        BY <2>5, <3>3 DEF IInv, ReqInv, Claiming, Owning
      <4>2. req[q].at \in Owning /\ req[q].key = j
        BY <1>6, <2>1, <4>1
      <4> QED BY <1>6, <2>5, <3>3, <4>2 DEF IInv, OwnInv, Claiming, Owning
    <3> QED BY <1>0, <3>1, <3>2, <3>3 DEF Claiming
  <2> QED BY <2>4, <2>5
<1>7. KeyInv'
  <2>1. ASSUME NEW j \in Keys, j \notin minted
        PROVE  session'[j] = "none" /\ file'[j] = "none"
    <3>1. session[j] = "none" /\ file[j] = "none" /\ j # k
      BY <1>0, <2>1 DEF IInv, KeyInv
    <3>2. j \notin req[r].closes
      BY <3>1 DEF IInv, ReqInv
    <3> QED BY <1>0, <3>1, <3>2, CommitAside
  <2>2. ASSUME NEW j \in Keys, session'[j] = "active"
        PROVE  file'[j] = "none"
    <3>1. CASE j # k
      <4>1. session[j] = "active" /\ file'[j] = file[j]
        BY <1>0, <2>2, <3>1 DEF CommitRows
      <4> QED BY <4>1 DEF IInv, KeyInv
    <3>2. CASE j = k
      <4>1. req[r].at # "recorded"
        BY <1>0, <2>2, <3>2 DEF CommitRows
      <4>2. req[r].at \notin {"admitted", "sent", "adrift"}
        <5>1. req[r].at \in {"admitted", "sent", "adrift"} => session[k] = "none"
          BY DEF IInv, ReqInv, Owning
        <5> QED BY <1>0, <2>2, <3>2, <5>1 DEF CommitRows
      <4>3. file'[j] = file[j]
        BY <1>0, <4>1, <4>2 DEF CommitRows
      <4>4. CASE req[r].at = "reserved"
        BY <3>2, <4>3, <4>4 DEF IInv, ReqInv, Owning
      <4>5. CASE req[r].at = "closing"
        <5>1. session[j] = "active"
          BY <1>0, <2>2, <4>5 DEF CommitRows
        <5> QED BY <4>3, <5>1 DEF IInv, KeyInv
      <4> QED BY <1>0, <4>1, <4>2, <4>4, <4>5
    <3> QED BY <3>1, <3>2
  <2> QED BY <1>0, <2>1, <2>2 DEF IInv, KeyInv
<1>8. ReqInv'
  <2>1. ASSUME NEW q \in Requests, q # r, req[q].at # "idle"
        PROVE  /\ req[q].at \in Completing => session'[req[q].key] = "active"
               /\ req[q].at \in Owning => session'[req[q].key] = "none"
               /\ req[q].at \in Owning \ {"unsure"} => file'[req[q].key] = "none"
    <3>1. req[q].key \in Keys
      BY <2>1, RequestFacts
    <3>2. req[q].at \in Completing => req[q].key \in Locked(q)
      BY DEF Locked, Completing
    <3> QED BY <1>6, <2>1, <3>1, <3>2 DEF IInv, ReqInv
  <2>2. ASSUME NEW q \in Requests, q # r, NEW j \in req[q].closes
        PROVE  session'[j] = "active"
    <3>1. j \in Keys /\ j \in Locked(q) /\ session[j] = "active"
      BY <1>0, <2>2 DEF Locked, Reqs, IInv, ReqInv
    <3> QED BY <1>6, <2>2, <3>1
  <2>3. v.at = "unsure" => v.key \in minted /\ session'[v.key] = "none"
    <3>1. req[r].at = "sent" => session[k] = "none" /\ req[r].closes = {}
      BY DEF IInv, ReqInv, Owning, Opening
    <3>2. req[r].at = "sent" => session'[k] = "none"
      BY <1>0, <3>1 DEF CommitRows, Purgeable
    <3> QED BY <1>0, <1>2, <3>2
  <2>4. \A q \in Requests : q # r /\ req'[q].at = "idle" => req[q].closes = {}
    BY <1>3 DEF IInv, ReqInv, Opening
  <2>5. v.at \notin Filing \cup Opening
    BY <1>2 DEF Filing, Opening
  <2> QED BY <1>0, <1>2, <1>3, <1>4, <2>1, <2>2, <2>3, <2>4, <2>5 DEF IInv, ReqInv, Completing, Owning
<1>9. OwnInv'
  <2>1. v.at \in Owning => req[r].at \in Owning /\ v.key = req[r].key
    BY <1>2 DEF Owning
  <2> QED BY <1>3, <1>4, <2>1 DEF IInv, OwnInv
<1>10. LockInv'
  <2>1. Locked(r)' = {} /\ \A q \in Requests : q # r => Locked(q)' = Locked(q)
    BY <1>2, <1>3, <1>4 DEF Locked
  <2>2. \A j \in Keys : session'[j] = "none" => session[j] = "none"
    BY <1>0 DEF CommitRows
  <2>3. stale.todo \cup stale.marked \subseteq Keys
    BY DEF IInv, TypeOK
  <2> QED BY <1>0, <2>1, <2>2, <2>3 DEF IInv, LockInv
<1>11. AgeInv'
  BY <1>0, <1>2, <1>3, <1>4 DEF IInv, AgeInv, Timed
\* an admission between its two SELECTs misses no file but an uncounted one
<1>12. TurnInv'
  <2>1. \A p, q \in Requests : req'[p].at \in Turn /\ req'[q].at \in Turn => p = q
    BY <1>2, <1>3, <1>4 DEF IInv, TurnInv, Turn, Claiming, Counting
  <2>2. ASSUME NEW q \in Requests, req'[q].at \in Counting
        PROVE  /\ Stored' \ uncounted' \subseteq req'[q].counted
               /\ \A j \in req'[q].past : Expired(j)'
    <3>1. q # r /\ req'[q] = req[q] /\ req[q].at \in Counting
      BY <1>2, <1>3, <1>4, <2>2 DEF Counting
    <3>2. req[r].at \notin Claiming
      BY <3>1 DEF IInv, TurnInv, Turn
    <3>3. req[r].at = "recorded" => k \in uncounted'
      BY <1>0, <3>1 DEF CommitRows, Counting
    <3>4. Stored' \ uncounted' \subseteq Stored \ uncounted
      BY <1>0, <3>2, <3>3 DEF CommitRows, Stored, Claiming
    <3>5. \A j \in Keys : Expired(j)' = Expired(j)
      BY <1>0 DEF Expired
    <3>6. req[q].past \subseteq Keys
      BY <1>0 DEF Reqs
    <3> QED BY <3>1, <3>4, <3>5, <3>6 DEF IInv, TurnInv
  <2> QED BY <2>1, <2>2 DEF TurnInv
<1>13. ASSUME NEW j \in Keys, file'[j] = "live", file[j] # "live"
       PROVE  j = k /\ req[r].at \in {"recorded", "admitted", "sent", "adrift"}
  BY <1>0, <1>13 DEF CommitRows
<1>14. lost \subseteq lost' /\ (req[r].at = "adrift" => k \in lost')
       /\ (req[r].at = "recorded" /\ age[k] > 2 * TTL => k \in lost')
  BY <1>0 DEF CommitRows
<1>15. SweepInv'
  <2> SUFFICES ASSUME NEW j \in sweep.batch
               PROVE  /\ \A q \in Requests : req'[q].at \in Opening => req'[q].key # j
                      /\ j \notin sweep.kept =>
                            /\ file'[j] # "live" \/ j \in lost'
                            /\ sweep.at = "sessions" => session'[j] # "active"
    BY <1>0 DEF IInv, SweepInv
  <2>0. j \in Keys /\ age[j] > 2 * TTL
    BY DEF IInv, SweepInv, TypeOK
  <2>1. \A q \in Requests : req'[q].at \in Opening => req'[q].key # j
    BY <1>2, <1>3, <1>4 DEF IInv, SweepInv, Opening
  <2>2. ASSUME j \notin sweep.kept PROVE file'[j] # "live" \/ j \in lost'
    <3>1. CASE file[j] = "live"
      BY <1>14, <2>2, <3>1 DEF IInv, SweepInv
    <3>2. CASE file[j] # "live" /\ file'[j] = "live"
      <4>1. j = k /\ req[r].at \in {"recorded", "admitted", "sent", "adrift"}
        BY <1>13, <2>0, <3>2
      <4>2. req[r].at \notin {"admitted", "sent"}
        BY <2>0, <4>1, OldIsSettled DEF Timed
      <4> QED BY <1>14, <2>0, <4>1, <4>2
    <3> QED BY <3>1, <3>2
  <2>3. ASSUME j \notin sweep.kept, sweep.at = "sessions" PROVE session'[j] # "active"
    <3>1. session[j] # "active" /\ (req[r].at = "reserved" => j # k)
      BY <2>3 DEF IInv, SweepInv, Opening
    <3> QED BY <1>0, <2>0, <3>1 DEF CommitRows
  <2> QED BY <2>1, <2>2, <2>3
<1>16. BytesKept'
  <2>1. req[r].at \in {"admitted", "sent", "recorded"} => object[k]
    BY DEF IInv, ReqInv, Filing
  <2> QED BY <1>0, <1>13, <1>14, <2>1 DEF IInv, BytesKept
<1>17. QuotaInv'
  BY CommitClaims, ClaimsKeys, FewerClaims DEF IInv, QuotaInv
<1> QED BY <1>5, <1>7, <1>8, <1>9, <1>10, <1>11, <1>12, <1>15, <1>16, <1>17 DEF IInv

LEMMA CommitKept ==
    ASSUME IInv, NEW r \in Requests, Commit(r)
    PROVE  IInv'
BY LandsKept DEF Commit, Lands, End

LEMMA SettleKept ==
    ASSUME IInv, NEW r \in Requests, Settle(r)
    PROVE  IInv'
<1>1. CASE CommitRows(r)
  <2>1. CASE req[r].at = "sent"
    BY <1>1, <2>1, Going, LandsKept DEF Settle, Lands
  <2>2. CASE req[r].at = "adrift"
    BY <1>1, <2>2, LandsKept DEF Settle, Lands, End
  <2> QED BY <2>1, <2>2 DEF Settle
<1>2. CASE UNCHANGED <<uncounted, lost, file, session>>
  <2>1. MayDrop({})
    BY NoDrop DEF Settle
  <2> QED BY <1>2, <2>1, SeveredKept DEF Settle
<1> QED BY <1>1, <1>2 DEF Settle
-----------------------------------------------------------------------------
(* Everything that is no step of an upload request *)

LEMMA DeleteKept ==
    ASSUME IInv, NEW k \in Keys, Delete(k)
    PROVE  IInv'
<1>0. /\ file \in [Keys -> {"none", "live", "deleted"}] /\ file[k] = "live"
      /\ file' = [file EXCEPT ![k] = "deleted"]
      /\ uncounted' = uncounted \ {k} /\ lost' = lost \ {k}
      /\ UNCHANGED <<minted, session, upload, age, req, stale, sweep>>
      /\ object' \in [Keys -> BOOLEAN]
      /\ \A j \in Keys : j # k => object'[j] = object[j]
      /\ \A j \in Keys : object'[j] => object[j]
  BY Dropping DEF Delete, IInv, TypeOK
<1>1. TypeOK'
  BY <1>0 DEF IInv, TypeOK
<1>2. KeyInv'
  BY <1>0 DEF IInv, KeyInv
<1>3. ReqInv'
  <2>1. ASSUME NEW r \in Requests, req[r].at \in Completing \cup (Owning \ {"unsure"})
        PROVE  req[r].key # k
    <3>1. req[r].at # "idle"
      BY <2>1 DEF Completing, Owning
    <3>2. req[r].key \in Keys
      BY <3>1, RequestFacts
    <3> QED BY <1>0, <2>1, <3>2 DEF IInv, ReqInv, KeyInv
  <2>2. ASSUME NEW r \in Requests, req[r].at \in Filing \cup Opening
        PROVE  object'[req[r].key] = object[req[r].key]
    <3>1. req[r].at \in Completing \cup (Owning \ {"unsure"}) /\ req[r].at # "idle"
      BY <2>2 DEF Completing, Owning, Filing, Opening
    <3>2. req[r].key \in Keys
      BY <3>1, RequestFacts
    <3> QED BY <1>0, <2>1, <2>2, <3>1, <3>2
  <2>3. \A r \in Requests : req[r].at # "idle" => req[r].key \in Keys
    BY RequestFacts
  <2> QED BY <1>0, <2>1, <2>2, <2>3 DEF IInv, ReqInv, Owning
<1>4. OwnInv' /\ LockInv' /\ AgeInv'
  BY <1>0 DEF IInv, OwnInv, LockInv, AgeInv, Locked
<1>5. Stored' \ uncounted' \subseteq Stored \ uncounted
  BY <1>0 DEF Stored
<1>6. TurnInv'
  BY <1>0, <1>5 DEF IInv, TurnInv, Expired
<1>7. SweepInv' /\ BytesKept'
  BY <1>0 DEF IInv, SweepInv, BytesKept, TypeOK
<1>8. QuotaInv'
  <2>1. Claims' \subseteq Claims
    BY <1>0, <1>5 DEF Claims, Reserved, Expired, Admitted
  <2> QED BY <2>1, ClaimsKeys, FewerClaims DEF IInv, QuotaInv
<1> QED BY <1>1, <1>2, <1>3, <1>4, <1>6, <1>7, <1>8 DEF IInv

LEMMA TickKept ==
    ASSUME IInv, Tick
    PROVE  IInv'
<1>0. /\ TTL \in Nat /\ MaxTx \in Nat /\ MaxAge \in Nat
      /\ age \in [Keys -> 0..MaxAge] /\ req \in [Requests -> Reqs]
      /\ UNCHANGED <<minted, uncounted, lost, file, session, upload, object, req, stale, sweep>>
  BY UploadConstants DEF IInv, TypeOK, Reqs, Tick, MaxAge
<1>1. \A k \in Keys : /\ age'[k] \in 0..MaxAge /\ age'[k] >= age[k] /\ age'[k] <= age[k] + 1
                      /\ k \notin minted => age'[k] = age[k]
  BY <1>0 DEF Tick
<1>2. age' \in [Keys -> 0..MaxAge]
  BY <1>0, <1>1 DEF Tick
<1>3. TypeOK'
  BY <1>0, <1>2 DEF IInv, TypeOK
<1>4. KeyInv'
  BY <1>0, <1>1 DEF IInv, KeyInv
<1>5. ReqInv' /\ OwnInv'
  BY <1>0 DEF IInv, ReqInv, OwnInv
<1>6. LockInv'
  BY <1>0 DEF IInv, LockInv, Locked
<1>7. AgeInv'
  <2> SUFFICES ASSUME NEW r \in Requests, req[r].at \in Timed
               PROVE  age'[req[r].key] <= MaxTx
    BY <1>0 DEF AgeInv
  <2>1. req[r].key \in Keys
    BY RequestFacts DEF Timed
  <2>2. age[req[r].key] < MaxTx
    BY DEF Tick
  <2>3. age'[req[r].key] <= age[req[r].key] + 1 /\ age[req[r].key] \in Nat /\ age'[req[r].key] \in Nat
    BY <1>0, <1>1, <2>1
  <2> QED BY <1>0, <2>2, <2>3
<1>8. \A k \in Keys : Expired(k) => Expired(k)'
  <2> SUFFICES ASSUME NEW k \in Keys, age[k] >= TTL PROVE age'[k] >= TTL
    BY DEF Expired
  <2>1. age[k] \in Nat /\ age'[k] \in Nat /\ age'[k] >= age[k]
    BY <1>0, <1>1
  <2> QED BY <1>0, <2>1
<1>9. TurnInv'
  <2>1. \A r \in Requests : req[r].past \subseteq Keys
    BY <1>0 DEF Reqs
  <2>2. Stored' = Stored
    BY <1>0 DEF Stored
  <2> QED BY <1>0, <1>8, <2>1, <2>2 DEF IInv, TurnInv
<1>10. SweepInv'
  <2> SUFFICES ASSUME NEW k \in sweep.batch PROVE age'[k] > 2 * TTL
    BY <1>0 DEF IInv, SweepInv
  <2>1. k \in Keys
    BY DEF IInv, TypeOK
  <2>2. age[k] \in Nat /\ age'[k] \in Nat /\ age'[k] >= age[k]
    BY <1>0, <1>1, <2>1
  <2> QED BY <1>0, <2>2 DEF IInv, SweepInv
<1>11. BytesKept'
  BY <1>0 DEF IInv, BytesKept
<1>12. QuotaInv'
  <2>1. Reserved' \subseteq Reserved
    BY <1>0, <1>8 DEF Reserved
  <2>2. Claims' \subseteq Claims
    BY <1>0, <2>1 DEF Claims, Stored, Admitted
  <2> QED BY <2>2, ClaimsKeys, FewerClaims DEF IInv, QuotaInv
<1> QED BY <1>3, <1>4, <1>5, <1>6, <1>7, <1>9, <1>10, <1>11, <1>12 DEF IInv

LEMMA ReapCommitKept ==
    ASSUME IInv, ReapCommit
    PROVE  IInv'
<1>0. /\ session \in [Keys -> {"none", "active", "completed", "aborted", "purged"}]
      /\ session' = [k \in Keys |-> IF k \in stale.marked THEN "aborted"
                                    ELSE IF Purgeable(k) THEN "purged" ELSE session[k]]
      /\ stale' = NoReap /\ NoReap.todo = {} /\ NoReap.marked = {}
      /\ UNCHANGED <<minted, uncounted, lost, file, upload, object, age, req, sweep>>
  BY DEF ReapCommit, IInv, TypeOK, NoReap
<1>1. TypeOK'
  BY <1>0 DEF IInv, TypeOK, NoReap
\* only sessions that nobody is about to close or complete
<1>2. \A k \in Keys : session[k] = "none" => session'[k] = "none"
  BY <1>0 DEF IInv, LockInv, Purgeable
<1>3. \A r \in Requests, k \in Keys :
         k \in Locked(r) /\ session[k] = "active" => session'[k] = "active"
  BY <1>0 DEF IInv, LockInv, Purgeable
<1>4. \A k \in Keys : session'[k] = "active" => session[k] = "active"
  BY <1>0
<1>5. KeyInv'
  BY <1>0, <1>2, <1>4 DEF IInv, KeyInv
<1>6. ReqInv'
  <2>1. ASSUME NEW r \in Requests, req[r].at # "idle"
        PROVE  /\ req[r].at \in Completing => session'[req[r].key] = "active"
               /\ req[r].at \in Owning => session'[req[r].key] = "none"
    <3>1. req[r].key \in Keys
      BY <2>1, RequestFacts
    <3>2. req[r].at \in Completing => req[r].key \in Locked(r)
      BY DEF Locked, Completing
    <3> QED BY <1>2, <1>3, <3>1, <3>2 DEF IInv, ReqInv
  <2>2. ASSUME NEW r \in Requests, NEW j \in req[r].closes PROVE session'[j] = "active"
    <3>1. j \in Keys /\ j \in Locked(r)
      BY <2>2, RequestFacts DEF Locked, Reqs
    <3> QED BY <1>3, <2>2, <3>1 DEF IInv, ReqInv
  <2> QED BY <1>0, <2>1, <2>2 DEF IInv, ReqInv, Completing, Owning
<1>7. OwnInv' /\ LockInv' /\ AgeInv'
  BY <1>0 DEF IInv, OwnInv, LockInv, AgeInv, Locked
<1>8. TurnInv' /\ BytesKept'
  BY <1>0 DEF IInv, TurnInv, BytesKept, Stored, Expired
<1>9. SweepInv'
  <2>1. sweep.batch \subseteq Keys
    BY DEF IInv, TypeOK
  <2> QED BY <1>0, <1>4, <2>1 DEF IInv, SweepInv
<1>10. QuotaInv'
  <2>1. Claims' \subseteq Claims
    BY <1>0, <1>4 DEF Claims, Stored, Reserved, Expired, Admitted
  <2> QED BY <2>1, ClaimsKeys, FewerClaims DEF IInv, QuotaInv
<1> QED BY <1>1, <1>5, <1>6, <1>7, <1>8, <1>9, <1>10 DEF IInv

\* What a reaper reads and tells the store, and the parts that clients send it.
LEMMA ReapKept ==
    ASSUME IInv,
           \/ ReapSelect \/ ReapAbort \/ ReapOrphans \/ ReapFail
           \/ \E k \in Keys : ReapMark(k) \/ PartsArrive(k)
    PROVE  IInv'
<1>0. /\ UNCHANGED <<file, session, object, minted, age, uncounted, lost, req, sweep>>
      /\ stale \in [at : {"idle", "reaping", "marking", "swept"}, todo : SUBSET Keys, marked : SUBSET Keys]
      /\ upload \in [Keys -> {"none", "missing", "full", "gone"}]
  BY DEF ReapSelect, ReapAbort, ReapOrphans, ReapFail, ReapMark, PartsArrive, IInv, TypeOK
<1>1. upload' \in [Keys -> {"none", "missing", "full", "gone"}]
  BY <1>0, Aborting DEF ReapSelect, ReapAbort, ReapOrphans, ReapFail, ReapMark, PartsArrive, MayAbort
<1>2. /\ stale' \in [at : {"idle", "reaping", "marking", "swept"}, todo : SUBSET Keys, marked : SUBSET Keys]
      /\ \A k \in stale'.todo : k \in stale.todo \/ session[k] = "active"
      /\ \A k \in stale'.marked : k \in stale.marked \/ (k \in stale.todo /\ Unlocked(k))
  <2>1. CASE ReapSelect
    <3> DEFINE expired == {k \in Keys : session[k] = "active" /\ Expired(k)}
    <3>1. stale' = [at |-> IF expired = {} THEN "marking" ELSE "reaping", todo |-> expired, marked |-> {}]
      BY <2>1 DEF ReapSelect, NoReap
    <3>2. expired \subseteq Keys /\ \A k \in expired : session[k] = "active"
      OBVIOUS
    <3> HIDE DEF expired
    <3> QED BY <3>1, <3>2
  <2>2. CASE ReapAbort
    BY <1>0, <2>2 DEF ReapAbort, NoReap
  <2>3. CASE \E k \in Keys : ReapMark(k)
    <3>1. PICK k \in Keys : ReapMark(k)
      BY <2>3
    <3>2. k \in stale.todo /\ Unlocked(k)
          /\ stale' = [stale EXCEPT !.todo = @ \ {k}, !.marked = @ \cup {k}]
      BY <3>1 DEF ReapMark
    <3>3. stale.todo \ {k} \in SUBSET Keys /\ stale.marked \cup {k} \in SUBSET Keys
      BY <1>0
    <3>4. stale' = [at |-> stale.at, todo |-> stale.todo \ {k}, marked |-> stale.marked \cup {k}]
      BY <1>0, <3>2
    <3> QED BY <1>0, <3>2, <3>3, <3>4
  <2>4. CASE ReapOrphans
    BY <1>0, <2>4 DEF ReapOrphans
  <2>5. CASE ReapFail
    BY <2>5 DEF ReapFail, NoReap
  <2>6. CASE \E k \in Keys : PartsArrive(k)
    BY <1>0, <2>6 DEF PartsArrive
  <2> QED BY <2>1, <2>2, <2>3, <2>4, <2>5, <2>6
<1>3. TypeOK'
  BY <1>0, <1>1, <1>2 DEF IInv, TypeOK
<1>4. KeyInv' /\ ReqInv' /\ OwnInv' /\ AgeInv' /\ TurnInv' /\ SweepInv' /\ BytesKept'
  BY <1>0 DEF IInv, KeyInv, ReqInv, OwnInv, AgeInv, TurnInv, SweepInv, BytesKept, Stored, Expired
<1>5. LockInv'
  <2>1. \A r \in Requests : Locked(r)' = Locked(r)
    BY <1>0 DEF Locked
  <2> QED BY <1>0, <1>2, <2>1 DEF IInv, LockInv, Unlocked
<1>6. QuotaInv'
  <2>1. Claims' = Claims
    BY <1>0 DEF Claims, Stored, Reserved, Expired, Admitted
  <2> QED BY <2>1 DEF IInv, QuotaInv
<1> QED BY <1>3, <1>4, <1>5, <1>6 DEF IInv

LEMMA SweepKept ==
    ASSUME IInv, SweepStep
    PROVE  IInv'
<1>0. /\ UNCHANGED <<file, session, upload, minted, age, uncounted, lost, req, stale>>
      /\ sweep \in [at : {"idle", "files", "sessions"}, batch : SUBSET Keys, kept : SUBSET Keys]
      /\ object \in [Keys -> BOOLEAN]
  BY DEF SweepStep, SweepFiles, SweepSessions, SweepDrop, IInv, TypeOK
<1>1. /\ sweep' \in [at : {"idle", "files", "sessions"}, batch : SUBSET Keys, kept : SUBSET Keys]
      /\ \A k \in sweep'.batch : k \in sweep.batch \/ (object[k] /\ age[k] > 2 * TTL)
      /\ \A k \in sweep'.batch : k \notin sweep'.kept =>
            /\ (k \in sweep.batch /\ k \notin sweep.kept) \/ file[k] # "live"
            /\ sweep'.at = "sessions" => session[k] # "active"
  <2>1. CASE SweepFiles
    <3> DEFINE old == {k \in Keys : object[k] /\ age[k] > 2 * TTL}
    <3>1. sweep' = [at |-> "files", batch |-> old, kept |-> old \cap Stored]
      BY <2>1 DEF SweepFiles
    <3>2. old \subseteq Keys /\ \A k \in old : object[k] /\ age[k] > 2 * TTL
      OBVIOUS
    <3>3. old \cap Stored \subseteq Keys /\ \A k \in old : k \notin old \cap Stored => file[k] # "live"
      BY <3>2 DEF Stored
    <3> HIDE DEF old
    <3> QED BY <3>1, <3>2, <3>3
  <2>2. CASE SweepSessions
    <3>1. sweep.kept \cup {k \in sweep.batch : session[k] = "active"} \subseteq Keys
      BY <1>0
    <3> QED BY <1>0, <2>2, <3>1 DEF SweepSessions
  <2>3. CASE SweepDrop
    BY <2>3 DEF SweepDrop, NoSweep
  <2> QED BY <2>1, <2>2, <2>3 DEF SweepStep
<1>2. /\ object' \in [Keys -> BOOLEAN]
      /\ \A k \in Keys : object'[k] => object[k]
      /\ \A k \in Keys : object[k] /\ ~object'[k] =>
            k \in sweep.batch /\ k \notin sweep.kept /\ sweep.at = "sessions"
  <2>1. CASE SweepDrop
    <3>1. sweep.batch \ sweep.kept \in SUBSET Keys /\ MayDrop(sweep.batch \ sweep.kept)
      BY <1>0, <2>1 DEF SweepDrop
    <3> QED BY <2>1, <3>1, Dropping DEF SweepDrop
  <2>2. CASE ~SweepDrop
    BY <1>0, <2>2 DEF SweepStep, SweepFiles, SweepSessions
  <2> QED BY <2>1, <2>2
<1>3. TypeOK'
  BY <1>0, <1>1, <1>2 DEF IInv, TypeOK
<1>4. KeyInv' /\ OwnInv' /\ LockInv' /\ AgeInv' /\ TurnInv'
  BY <1>0, <1>2 DEF IInv, KeyInv, OwnInv, LockInv, AgeInv, TurnInv, Locked, Stored, Expired
<1>5. ReqInv'
  <2>1. ASSUME NEW r \in Requests, req[r].at \in Filing
        PROVE  object'[req[r].key]
    <3>1. req[r].key \in Keys /\ object[req[r].key]
      BY <2>1, RequestFacts DEF IInv, ReqInv, Filing
    <3>2. CASE req[r].at \in Timed
      <4>1. req[r].key \notin sweep.batch
        BY <3>2, OldIsSettled DEF IInv, SweepInv
      <4> QED BY <1>2, <3>1, <4>1
    <3>3. CASE req[r].at = "recorded"
      <4>1. session[req[r].key] = "active"
        BY <3>3 DEF IInv, ReqInv, Completing
      <4> QED BY <1>2, <3>1, <4>1 DEF IInv, SweepInv
    <3> QED BY <2>1, <3>2, <3>3 DEF Filing, Timed
  <2>2. ASSUME NEW r \in Requests, req[r].at \in Opening
        PROVE  ~object'[req[r].key]
    <3>1. req[r].key \in Keys
      BY <2>2, RequestFacts DEF Opening
    <3> QED BY <1>2, <2>2, <3>1 DEF IInv, ReqInv
  <2> QED BY <1>0, <2>1, <2>2 DEF IInv, ReqInv
<1>6. SweepInv'
  <2> SUFFICES ASSUME NEW k \in sweep'.batch
               PROVE  /\ k \in minted /\ age[k] > 2 * TTL
                      /\ \A r \in Requests : req[r].at \in Opening => req[r].key # k
                      /\ k \notin sweep'.kept =>
                            /\ file[k] # "live" \/ k \in lost
                            /\ sweep'.at = "sessions" => session[k] # "active"
    BY <1>0 DEF SweepInv
  <2>1. k \in Keys
    BY <1>1
  <2>2. k \in sweep.batch \/ (object[k] /\ age[k] > 2 * TTL)
    BY <1>1
  <2>3. k \in minted /\ age[k] > 2 * TTL
        /\ \A r \in Requests : req[r].at \in Opening => req[r].key # k
    BY <2>1, <2>2 DEF IInv, SweepInv, KeyInv, ReqInv
  <2>4. k \notin sweep'.kept => file[k] # "live" \/ k \in lost
    BY <1>1 DEF IInv, SweepInv
  <2> QED BY <1>1, <2>3, <2>4
<1>7. BytesKept'
  BY <1>0, <1>2 DEF IInv, BytesKept, SweepInv
<1>8. QuotaInv'
  <2>1. Claims' = Claims
    BY <1>0 DEF Claims, Stored, Reserved, Expired, Admitted
  <2> QED BY <2>1 DEF IInv, QuotaInv
<1> QED BY <1>3, <1>4, <1>5, <1>6, <1>7, <1>8 DEF IInv

-----------------------------------------------------------------------------
LEMMA Inductive == Spec => []IInv
<1>1. IInv /\ [Next]_vars => IInv'
  <2> SUFFICES ASSUME IInv, [Next]_vars PROVE IInv'
    OBVIOUS
  <2>1. ASSUME NEW r \in Requests, RequestStep(r) PROVE IInv'
    BY <2>1, OpenKept, ReserveKept, CompleteKept, AssembleKept, RecordKept, RejectKept, AbortKept,
       PutKept, TakeTurnKept, AdmitKept, LoseAnswerKept, CompensateKept, CommitKept, SettleKept,
       FailKept DEF RequestStep, EndStep
  <2>2. CASE UNCHANGED vars
    <3>1. TypeOK' /\ KeyInv' /\ ReqInv' /\ OwnInv'
      BY <2>2 DEF vars, IInv, TypeOK, KeyInv, ReqInv, OwnInv
    <3>2. LockInv' /\ AgeInv' /\ SweepInv' /\ BytesKept'
      BY <2>2 DEF vars, IInv, LockInv, AgeInv, SweepInv, BytesKept, Locked
    <3>4. TurnInv'
      BY <2>2 DEF vars, IInv, TurnInv, Stored, Expired
    <3>3. Claims' = Claims
      BY <2>2 DEF vars, Claims, Stored, Reserved, Expired, Admitted
    <3> QED BY <3>1, <3>2, <3>3, <3>4 DEF IInv, QuotaInv
  <2> QED BY <2>1, <2>2, DeleteKept, TickKept, ReapCommitKept, ReapKept, SweepKept
          DEF Next, ReapStep
<1> QED BY <1>1, InitIInv, PTL DEF Spec

\* Every variable keeps its type.
THEOREM TypeCorrect == Spec => []TypeOK
<1>1. IInv => TypeOK
  BY DEF IInv
<1> QED BY <1>1, Inductive, PTL

\* No file loses its object, but one whose row landed after its worker had looked for it or
\* later than the grace after its upload was opened: a plain upload is through before any
\* sweep can list its object (object_reaper.py), and a completion is either seen as an active
\* session or as a file (core/worker.py, core/object_reaper.py).
THEOREM FilesKeepBytes == Spec => []BytesKept
<1>1. IInv => BytesKept
  BY DEF IInv
<1> QED BY <1>1, Inductive, PTL

\* For any number of admissions at once the files fit the quota, but those of completions
\* that recorded them after their deadline or between an admission's two SELECTs: each of the
\* others was in one of the two sums, or claimed its place under the advisory lock (guards.py).
THEOREM QuotaNeverExceeded == Spec => []QuotaKept
<1>1. IInv => QuotaKept
  <2> SUFFICES ASSUME IInv PROVE QuotaKept
    OBVIOUS
  <2>1. Stored \ uncounted \subseteq Claims
    BY DEF Claims
  <2> QED BY <2>1, ClaimsKeys, FewerClaims DEF IInv, QuotaInv, QuotaKept
<1> QED BY <1>1, Inductive, PTL

\* Of a completion and an abort that race, only one takes effect (_lock in sessions.py).
THEOREM AbortsAreFinal == Spec => NoFileAfterAbort
<1> DEFINE A == \A k \in Keys : session[k] = "aborted" /\ file[k] = "none" => file'[k] = "none"
<1>1. IInv /\ [Next]_vars => A
  <2> SUFFICES ASSUME IInv, [Next]_vars, NEW k \in Keys, session[k] = "aborted", file[k] = "none"
               PROVE  file'[k] = "none"
    OBVIOUS
  <2>1. ASSUME NEW r \in Requests, Commit(r) \/ Settle(r) PROVE file'[k] = "none"
    <3>1. req[r].at \in {"recorded", "admitted", "sent", "adrift"} => req[r].key # k
      BY DEF IInv, ReqInv, Completing, Owning
    <3> QED BY <2>1, <3>1 DEF Commit, Settle, CommitRows, IInv, TypeOK
  <2>2. CASE \E j \in Keys : Delete(j)
    BY <2>2 DEF Delete, IInv, TypeOK
  <2>3. file' = file \/ (\E r \in Requests : Commit(r) \/ Settle(r)) \/ \E j \in Keys : Delete(j)
    BY DEF Next, RequestStep, EndStep, Assemble, Record, Reject, TakeTurn, Admit, LoseAnswer,
           Compensate, Fail, Open, Reserve, Complete, Abort, Put, PartsArrive, ReapStep, ReapSelect,
           ReapOrphans, ReapCommit, ReapFail, ReapAbort, ReapMark, SweepStep, SweepFiles,
           SweepSessions, SweepDrop, Tick, vars
  <2> QED BY <2>1, <2>2, <2>3
<1> QED BY <1>1, Inductive, PTL DEF Spec, NoFileAfterAbort
=============================================================================
