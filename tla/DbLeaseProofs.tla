--------------------------- MODULE DbLeaseProofs ---------------------------
(***************************************************************************)
(* Proofs about DbLease, for every number of handles and slots.            *)
(*                                                                         *)
(* The inductive invariant IInv says, of each handle, what its call knows: *)
(* which rows it has locked and may write, which slot of its own it is     *)
(* bound to find, and which row backs the hold that the handle counts on.  *)
(***************************************************************************)
EXTENDS DbLease, FiniteSetTheorems, TLAPS

\* What the call has gathered by each statement.
PhaseOf(h) ==
    /\ at[h] = "idle" => op[h] = "acquire"
    /\ at[h] \in {"idle", "lookup"} => todo[h] = {} /\ rows[h] = {}
    /\ (at[h] = "lock" /\ op[h] = "acquire") => rows[h] = {}
    /\ (at[h] = "update" /\ op[h] = "acquire") => \E s \in Rows : rows[h] = {s}
    /\ at[h] = "count" => op[h] = "acquire" /\ Semaphore /\ rows[h] # {}
    /\ (at[h] \in {"update", "commit"} /\ op[h] # "acquire") => todo[h] = {}

\* What an UPDATE matched is at most one row, free or the token's own, and still is
\* until the transaction ends.
ClaimOf(h) ==
    at[h] \in {"count", "commit"} =>
       /\ \A s, r \in rows[h] : s = r
       /\ \A s \in rows[h] : holder[s] = h \/ (op[h] = "acquire" /\ ends[s] <= clock[h])

\* The number to be written is the next one, and no other call can write it first.
NumberOf(h) ==
    /\ (at[h] = "commit" /\ op[h] = "acquire" /\ rows[h] # {}) =>
          /\ number[h] = fence + 1
          /\ Semaphore => lock[Counter] = h
    /\ lock[Counter] = h => at[h] = "commit"

\* What the handle counts on is backed by a row, and no call outlives it by more
\* than a TTL.
BeliefOf(h) ==
    /\ sure[h] # 0 => sure[h] > now /\ \E s \in Rows : holder[s] = h /\ ends[s] >= sure[h]
    /\ sure[h] <= now + TTL
    /\ at[h] # "idle" => sure[h] <= sent[h] + TTL
    /\ (at[h] # "idle" /\ op[h] = "release") => sure[h] = 0

\* A live slot of the token is the only one its call is about.
OwnOf(h) ==
    /\ \A s, r \in Held(h) : s = r
    /\ at[h] = "lookup" => \A s, r \in Mine(h) : s = r
    /\ (at[h] \in {"lock", "update"} /\ op[h] = "acquire") =>
          \A s \in Held(h) : todo[h] \cup rows[h] = {s}
    /\ (at[h] \in {"lock", "update"} /\ op[h] # "acquire") =>
          \A s \in Rows : holder[s] = h => s \in todo[h] \cup rows[h]
    /\ at[h] \in {"count", "commit"} => \A s \in Held(h) : rows[h] \subseteq {s}

HandleInv(h) == PhaseOf(h) /\ ClaimOf(h) /\ NumberOf(h) /\ BeliefOf(h) /\ OwnOf(h)

IInv == TypeOK /\ \A h \in Handles : HandleInv(h)

-----------------------------------------------------------------------------
LEMMA RowsLocks == Rows \subseteq Locks /\ Counter \in Locks /\ Counter \notin Rows
BY LeaseAssumption DEF Rows, Locks, Counter

\* A call that locks takes rows that are free or its own already.
LEMMA LockTyped ==
    ASSUME TypeOK, NEW h \in Handles, NEW r \in Locks, Free(h, r),
           lock' = [lock EXCEPT ![r] = h], at[h] # "idle",
           \A g \in Handles : (at[g] = "idle") = (at'[g] = "idle")
    PROVE  /\ lock' \in [Locks -> Handles \cup {Nobody}]
           /\ \A q \in Locks : lock'[q] # Nobody => at'[lock'[q]] # "idle"
           /\ \A g \in Handles : \A s \in rows[g] : lock'[s] = g
<1> USE LeaseAssumption, RowsLocks
<1>1. \A q \in Locks : lock'[q] = (IF q = r THEN h ELSE lock[q])
  BY DEF TypeOK
<1>2. \A g \in Handles : \A s \in rows[g] : s \in Locks /\ lock[s] = g
  BY DEF TypeOK
<1>3. lock' \in [Locks -> Handles \cup {Nobody}]
  BY DEF TypeOK
<1>4. \A q \in Locks : lock'[q] # Nobody => at'[lock'[q]] # "idle"
  BY <1>1 DEF TypeOK
<1>5. \A g \in Handles : \A s \in rows[g] : lock'[s] = g
  BY <1>1, <1>2 DEF Free
<1> QED BY <1>3, <1>4, <1>5

\* The end of a call frees its locks and nothing else.
LEMMA EndTyped ==
    ASSUME TypeOK, NEW h \in Handles, EndCall(h)
    PROVE  /\ lock' \in [Locks -> Handles \cup {Nobody}]
           /\ op' \in [Handles -> Ops]
           /\ at' \in [Handles -> Phases]
           /\ todo' \in [Handles -> SUBSET Rows]
           /\ rows' \in [Handles -> SUBSET Rows]
           /\ number' \in [Handles -> Nat]
           /\ clock' \in [Handles -> 0..MaxTime]
           /\ sent' \in [Handles -> 0..MaxTime]
           /\ \A g \in Handles : sent'[g] <= clock'[g] /\ clock'[g] <= now'
           /\ \A g \in Handles : \A s \in rows'[g] : lock'[s] = g
           /\ \A r \in Locks : lock'[r] # Nobody => at'[lock'[r]] # "idle"
<1> USE LeaseAssumption, RowsLocks
<1>1. \A r \in Locks : lock'[r] = IF lock[r] = h THEN Nobody ELSE lock[r]
  BY DEF EndCall, Unlocked
<1>2. lock' \in [Locks -> Handles \cup {Nobody}]
  BY DEF EndCall, Unlocked, TypeOK
<1>3. \A g \in Handles : g # h => rows'[g] = rows[g] /\ at'[g] = at[g]
  BY DEF EndCall, TypeOK
<1>4. rows'[h] = {}
  BY DEF EndCall, TypeOK
<1>5. \A g \in Handles : \A s \in rows'[g] : lock'[s] = g
  BY <1>1, <1>3, <1>4 DEF TypeOK
<1>6. \A r \in Locks : lock'[r] # Nobody => at'[lock'[r]] # "idle"
  BY <1>1, <1>2, <1>3 DEF TypeOK
<1>7. \A g \in Handles : sent'[g] <= clock'[g] /\ clock'[g] <= now'
  BY DEF EndCall, TypeOK
<1> QED BY <1>2, <1>5, <1>6, <1>7 DEF EndCall, TypeOK, Ops, Phases

\* A write is a token, a time within a TTL of the clock, and the number.
LEMMA StoredTyped ==
    ASSUME TypeOK, NEW h \in Handles, Stored(h)
    PROVE  /\ holder' \in [Rows -> Handles \cup {Nobody}]
           /\ ends' \in [Rows -> 0..(MaxTime + TTL)]
           /\ fence' \in Nat
<1>1. Expiry(h) \in 0..(MaxTime + TTL)
  BY LeaseAssumption DEF Expiry, TypeOK
<1> QED BY <1>1 DEF Stored, TypeOK

\* TypeOK is kept by every step.
LEMMA TypeStep == TypeOK /\ [Next]_vars => TypeOK'
<1> SUFFICES ASSUME TypeOK, [Next]_vars PROVE TypeOK'
  OBVIOUS
<1> USE LeaseAssumption, RowsLocks DEF table, request
<1>1. ASSUME Tick PROVE TypeOK'
  <2>1. now' \in 0..MaxTime /\ now' = now + 1
    BY <1>1 DEF Tick, TypeOK
  <2>2. sure' \in [Handles -> 0..(MaxTime + TTL)]
    BY <1>1 DEF Tick, TypeOK
  <2>3. \A g \in Handles : sent'[g] <= clock'[g] /\ clock'[g] <= now'
    BY <1>1, <2>1 DEF Tick, TypeOK
  <2> QED BY <1>1, <2>1, <2>2, <2>3 DEF Tick, TypeOK
<1>2. ASSUME NEW h \in Handles, NEW o \in Ops, Call(h, o) PROVE TypeOK'
  <2>1. \A g \in Handles : sent'[g] <= clock'[g] /\ clock'[g] <= now'
    BY <1>2 DEF Call, TypeOK
  <2>2. sure' \in [Handles -> 0..(MaxTime + TTL)]
    BY <1>2 DEF Call, TypeOK
  <2>3. calls' \in 0..MaxCalls
    BY <1>2 DEF Call, TypeOK
  <2>4. \A r \in Locks : lock'[r] # Nobody => at'[lock'[r]] # "idle"
    BY <1>2 DEF Call, TypeOK
  <2> QED BY <1>2, <2>1, <2>2, <2>3, <2>4 DEF Call, TypeOK, Phases
<1>3. ASSUME NEW h \in Handles, LookUp(h) PROVE TypeOK'
  <2>1. \A T \in Targets(h) : T \subseteq Rows
    BY DEF Targets, Mine
  <2>2. todo' \in [Handles -> SUBSET Rows]
    BY <1>3, <2>1 DEF LookUp, TypeOK
  <2>3. at' \in [Handles -> Phases]
    BY <1>3 DEF LookUp, TypeOK, Phases
  <2>4. \A r \in Locks : lock'[r] # Nobody => at'[lock'[r]] # "idle"
    BY <1>3 DEF LookUp, TypeOK
  <2> QED BY <1>3, <2>2, <2>3, <2>4 DEF LookUp, TypeOK
<1>4. ASSUME NEW h \in Handles, Lock(h) PROVE TypeOK'
  <2>1. PICK s \in Wanted(h) :
            /\ Free(h, s)
            /\ lock' = [lock EXCEPT ![s] = h]
            /\ todo' = [todo EXCEPT ![h] = @ \ {s}]
            /\ rows' = [rows EXCEPT ![h] = @ \cup {s}]
            /\ at' = IF op[h] = "acquire" \/ todo[h] = {s}
                        THEN [at EXCEPT ![h] = "update"] ELSE at
    BY <1>4 DEF Lock
  <2>2. s \in Rows
    BY <1>4, <2>1 DEF Lock, Wanted, TypeOK
  <2>3. \A g \in Handles : (at[g] = "idle") = (at'[g] = "idle")
    BY <1>4, <2>1 DEF Lock, TypeOK
  <2>4. /\ lock' \in [Locks -> Handles \cup {Nobody}]
        /\ \A q \in Locks : lock'[q] # Nobody => at'[lock'[q]] # "idle"
        /\ \A g \in Handles : \A r \in rows[g] : lock'[r] = g
    BY <1>4, <2>1, <2>2, <2>3, LockTyped DEF Lock
  <2>5. \A g \in Handles : \A r \in rows'[g] : lock'[r] = g
    BY <2>1, <2>2, <2>4 DEF TypeOK
  <2>6. at' \in [Handles -> Phases]
    BY <2>1 DEF TypeOK, Phases
  <2>7. todo' \in [Handles -> SUBSET Rows] /\ rows' \in [Handles -> SUBSET Rows]
    BY <2>1, <2>2 DEF TypeOK
  <2> QED BY <1>4, <2>4, <2>5, <2>6, <2>7 DEF Lock, TypeOK
<1>5. ASSUME NEW h \in Handles, Update(h) PROVE TypeOK'
  <2>1. at' \in [Handles -> Phases]
    BY <1>5 DEF Update, TypeOK, Phases
  <2>2. rows' \in [Handles -> SUBSET Rows]
    BY <1>5 DEF Update, Matched, TypeOK
  <2>3. \A g \in Handles : rows'[g] \subseteq rows[g]
    BY <1>5 DEF Update, Matched, TypeOK
  <2>4. \A r \in Locks : lock'[r] # Nobody => at'[lock'[r]] # "idle"
    BY <1>5 DEF Update, TypeOK
  <2>5. \A g \in Handles : sent'[g] <= clock'[g] /\ clock'[g] <= now'
    BY <1>5 DEF Update, TypeOK
  <2>6. number' \in [Handles -> Nat] /\ clock' \in [Handles -> 0..MaxTime]
    BY <1>5 DEF Update, TypeOK
  <2> QED BY <1>5, <2>1, <2>2, <2>3, <2>4, <2>5, <2>6 DEF Update, TypeOK
<1>6. ASSUME NEW h \in Handles, Count(h) PROVE TypeOK'
  <2>1. \A g \in Handles : (at[g] = "idle") = (at'[g] = "idle")
    BY <1>6 DEF Count, TypeOK
  <2>2. /\ lock' \in [Locks -> Handles \cup {Nobody}]
        /\ \A q \in Locks : lock'[q] # Nobody => at'[lock'[q]] # "idle"
        /\ \A g \in Handles : \A r \in rows[g] : lock'[r] = g
    BY <1>6, <2>1, LockTyped DEF Count
  <2>3. at' \in [Handles -> Phases] /\ number' \in [Handles -> Nat]
    BY <1>6 DEF Count, TypeOK, Phases
  <2> QED BY <1>6, <2>2, <2>3 DEF Count, TypeOK
<1>7. ASSUME NEW h \in Handles, Commit(h) PROVE TypeOK'
  <2>1. Stored(h) /\ EndCall(h)
    BY <1>7 DEF Commit
  <2>2. sure' \in [Handles -> 0..(MaxTime + TTL)]
    BY <1>7 DEF Commit, TypeOK
  <2>3. UNCHANGED <<now, calls>>
    BY <2>1 DEF EndCall
  <2> QED BY <2>1, <2>2, <2>3, EndTyped, StoredTyped DEF TypeOK
<1>8. ASSUME NEW h \in Handles, CommitUnseen(h) PROVE TypeOK'
  <2>1. Stored(h) /\ EndCall(h) /\ UNCHANGED sure
    BY <1>8 DEF CommitUnseen
  <2>2. UNCHANGED <<now, calls>>
    BY <2>1 DEF EndCall
  <2> QED BY <2>1, <2>2, EndTyped, StoredTyped DEF TypeOK
<1>9. ASSUME NEW h \in Handles, Abort(h) PROVE TypeOK'
  <2>1. EndCall(h) /\ UNCHANGED <<table, sure>>
    BY <1>9 DEF Abort
  <2>2. UNCHANGED <<now, calls>>
    BY <2>1 DEF EndCall
  <2> QED BY <2>1, <2>2, EndTyped DEF TypeOK
<1>10. ASSUME UNCHANGED vars PROVE TypeOK'
  BY <1>10 DEF vars, TypeOK
<1> QED BY <1>1, <1>2, <1>3, <1>4, <1>5, <1>6, <1>7, <1>8, <1>9, <1>10 DEF Next

-----------------------------------------------------------------------------
\* A step of another call that writes nothing leaves what is known of g alone.
LEMMA QuietStep ==
    ASSUME NEW g \in Handles, HandleInv(g), UNCHANGED <<now, holder, ends, fence>>,
           at'[g] = at[g], op'[g] = op[g], todo'[g] = todo[g], rows'[g] = rows[g],
           number'[g] = number[g], clock'[g] = clock[g], sent'[g] = sent[g],
           sure'[g] = sure[g], (lock'[Counter] = g) = (lock[Counter] = g)
    PROVE  HandleInv(g)'
<1>1. Held(g)' = Held(g) /\ Mine(g)' = Mine(g)
  BY DEF Held, Live, Mine
<1>2. PhaseOf(g)' /\ ClaimOf(g)'
  BY DEF HandleInv, PhaseOf, ClaimOf
<1>3. NumberOf(g)'
  BY DEF HandleInv, NumberOf
<1>4. BeliefOf(g)'
  BY DEF HandleInv, BeliefOf
<1>5. OwnOf(g)'
  BY <1>1 DEF HandleInv, OwnOf
<1> QED BY <1>2, <1>3, <1>4, <1>5 DEF HandleInv

\* What a commit writes is not about a live hold of another token, nor about a row
\* that another call has locked.
LEMMA WriteIsOwn ==
    ASSUME TypeOK, NEW h \in Handles, NEW g \in Handles, g # h, ClaimOf(h),
           at[h] = "commit", NEW s \in rows[h]
    PROVE  s \notin rows[g] /\ (holder[s] = g => ends[s] <= now)
<1>1. s \notin rows[g]
  BY DEF TypeOK
<1>2. holder[s] = g => ends[s] <= now
  BY LeaseAssumption DEF TypeOK, ClaimOf
<1> QED BY <1>1, <1>2

\* The commit of another call leaves what is known of g alone.
LEMMA CommitSpares ==
    ASSUME TypeOK, NEW h \in Handles, NEW g \in Handles, g # h,
           HandleInv(g), HandleInv(h), at[h] = "commit", Stored(h), EndCall(h),
           sure'[g] = sure[g]
    PROVE  HandleInv(g)'
<1> USE LeaseAssumption, RowsLocks
<1>1. /\ at'[g] = at[g] /\ op'[g] = op[g] /\ todo'[g] = todo[g] /\ rows'[g] = rows[g]
      /\ number'[g] = number[g] /\ clock'[g] = clock[g] /\ sent'[g] = sent[g]
      /\ now' = now /\ (lock'[Counter] = g) = (lock[Counter] = g)
  BY DEF EndCall, Unlocked, TypeOK
<1>2. ClaimOf(h) /\ NumberOf(h) /\ rows[h] \subseteq Rows /\ rows[g] \subseteq Rows
  BY DEF HandleInv, TypeOK
<1>3. \A s \in rows[h] : s \notin rows[g] /\ (holder[s] = g => ends[s] <= now)
  BY <1>2, WriteIsOwn
<1>4. \A s \in Rows : \/ s \notin rows[h] /\ holder'[s] = holder[s] /\ ends'[s] = ends[s]
                      \/ s \in rows[h] /\ holder'[s] = h
  BY DEF Stored
<1>5. PhaseOf(g)'
  BY <1>1 DEF HandleInv, PhaseOf
<1>6. ClaimOf(g)'
  BY <1>1, <1>2, <1>3, <1>4 DEF HandleInv, ClaimOf
<1>7. NumberOf(g)'
  <2>1. CASE at[g] = "commit" /\ op[g] = "acquire" /\ rows[g] # {}
    <3>1. ~(op[h] = "acquire" /\ rows[h] # {})
      <4>1. CASE Semaphore
        BY <2>1, <4>1, <1>2 DEF HandleInv, NumberOf
      <4>2. CASE ~Semaphore
        <5>1. Rows = {0}
          BY <4>2 DEF Rows
        <5> QED BY <5>1, <2>1, <1>2, <1>3
      <4> QED BY <4>1, <4>2
    <3> QED BY <3>1, <1>1 DEF HandleInv, NumberOf, Stored
  <2>2. CASE ~(at[g] = "commit" /\ op[g] = "acquire" /\ rows[g] # {})
    BY <2>2, <1>1 DEF HandleInv, NumberOf
  <2> QED BY <2>1, <2>2
<1>8. BeliefOf(g)'
  <2>1. ASSUME sure[g] # 0 PROVE \E s \in Rows : holder'[s] = g /\ ends'[s] >= sure[g]
    <3>1. PICK s \in Rows : holder[s] = g /\ ends[s] >= sure[g] /\ sure[g] > now
      BY <2>1 DEF HandleInv, BeliefOf
    <3>2. s \notin rows[h]
      BY <1>3, <3>1 DEF TypeOK
    <3> QED BY <3>1, <3>2, <1>4
  <2> QED BY <1>1, <2>1 DEF HandleInv, BeliefOf
<1>9. OwnOf(g)'
  <2>1. \A s \in Rows : holder'[s] = g => holder[s] = g /\ ends'[s] = ends[s]
    BY <1>4
  <2>2. Held(g)' \subseteq Held(g) /\ Mine(g)' \subseteq Mine(g)
    BY <1>1, <2>1 DEF Held, Live, Mine
  <2> QED BY <1>1, <2>1, <2>2 DEF HandleInv, OwnOf
<1> QED BY <1>5, <1>6, <1>7, <1>8, <1>9 DEF HandleInv

\* A call that is over has nothing left to write.
LEMMA EndedCall ==
    ASSUME TypeOK, NEW h \in Handles, EndCall(h)
    PROVE  /\ PhaseOf(h)' /\ ClaimOf(h)' /\ NumberOf(h)' /\ at'[h] = "idle"
           /\ \A g \in Handles \ {h} :
                 /\ at'[g] = at[g] /\ op'[g] = op[g] /\ todo'[g] = todo[g]
                 /\ rows'[g] = rows[g] /\ number'[g] = number[g]
                 /\ clock'[g] = clock[g] /\ sent'[g] = sent[g]
                 /\ (lock'[Counter] = g) = (lock[Counter] = g)
<1> USE LeaseAssumption, RowsLocks
<1>1. /\ at'[h] = "idle" /\ op'[h] = "acquire" /\ todo'[h] = {} /\ rows'[h] = {}
      /\ lock'[Counter] # h
  BY DEF EndCall, Unlocked, TypeOK
<1>2. PhaseOf(h)' /\ ClaimOf(h)' /\ NumberOf(h)'
  BY <1>1 DEF PhaseOf, ClaimOf, NumberOf
<1>3. \A g \in Handles \ {h} :
         /\ at'[g] = at[g] /\ op'[g] = op[g] /\ todo'[g] = todo[g]
         /\ rows'[g] = rows[g] /\ number'[g] = number[g]
         /\ clock'[g] = clock[g] /\ sent'[g] = sent[g]
         /\ (lock'[Counter] = g) = (lock[Counter] = g)
  BY DEF EndCall, Unlocked, TypeOK
<1> QED BY <1>1, <1>2, <1>3

\* After a commit the handle still has at most one live slot.
LEMMA CommitOwn ==
    ASSUME TypeOK, NEW h \in Handles, HandleInv(h), at[h] = "commit", Stored(h), EndCall(h)
    PROVE  OwnOf(h)'
<1> USE LeaseAssumption
<1>1. at'[h] = "idle" /\ now' = now
  BY EndedCall DEF EndCall
<1>2. \A s \in Rows \ rows[h] : holder'[s] = holder[s] /\ ends'[s] = ends[s]
  BY DEF Stored
<1>3. \A s, r \in Held(h)' : s = r
  <2>1. SUFFICES ASSUME NEW s \in Held(h)', NEW r \in Held(h)' PROVE s = r
    OBVIOUS
  <2>2. s \in Rows /\ r \in Rows
    BY DEF Held
  <2>3. \A q \in {s, r} : q \notin rows[h] => q \in Held(h)
    BY <1>1, <1>2, <2>2 DEF Held, Live
  <2>4. (\A q, p \in rows[h] : q = p) /\ \A q \in Held(h) : rows[h] \subseteq {q}
    BY DEF HandleInv, ClaimOf, OwnOf
  <2>5. \A q, p \in Held(h) : q = p
    BY DEF HandleInv, OwnOf
  <2> QED BY <2>3, <2>4, <2>5
<1> QED BY <1>1, <1>3 DEF OwnOf

\* What a commit writes never cuts short the hold that its handle counts on.
LEMMA CommitBelief ==
    ASSUME TypeOK, NEW h \in Handles, HandleInv(h), at[h] = "commit", Stored(h), EndCall(h),
           \/ sure'[h] = sure[h]
           \/ sure'[h] = 0
           \/ /\ op[h] # "release" /\ rows[h] # {}
              /\ sure'[h] = sent[h] + TTL /\ sure'[h] > now
    PROVE  BeliefOf(h)'
<1> USE LeaseAssumption
<1>1. at'[h] = "idle" /\ now' = now
  BY EndedCall DEF EndCall
<1>2. rows[h] \subseteq Rows /\ sent[h] \in Nat /\ clock[h] \in Nat /\ sent[h] <= clock[h]
      /\ now \in Nat /\ clock[h] <= now /\ sure[h] \in Nat
  BY DEF TypeOK
<1>3. CASE sure'[h] = 0
  BY <1>1, <1>2, <1>3 DEF BeliefOf
<1>4. CASE sure'[h] = sure[h] /\ sure[h] # 0
  <2>1. PICK s \in Rows : holder[s] = h /\ ends[s] >= sure[h]
    BY <1>4 DEF HandleInv, BeliefOf
  <2>2. op[h] # "release" /\ sure[h] > now /\ sure[h] <= now + TTL /\ sure[h] <= sent[h] + TTL
    BY <1>4 DEF HandleInv, BeliefOf
  <2>3. holder'[s] = h /\ ends'[s] >= sure[h]
    <3>1. CASE s \in rows[h]
      BY <3>1, <2>2, <1>2 DEF Stored, Expiry
    <3>2. CASE s \notin rows[h]
      BY <3>2, <2>1 DEF Stored
    <3> QED BY <3>1, <3>2
  <2> QED BY <1>1, <1>4, <2>2, <2>3 DEF BeliefOf
<1>5. CASE op[h] # "release" /\ rows[h] # {} /\ sure'[h] = sent[h] + TTL /\ sure'[h] > now
  <2>1. PICK s \in rows[h] : TRUE
    BY <1>5
  <2>2. s \in Rows /\ holder'[s] = h /\ ends'[s] >= sure'[h]
    BY <2>1, <1>2, <1>5 DEF Stored, Expiry
  <2>3. sure'[h] <= now + TTL
    BY <1>2, <1>5
  <2> QED BY <1>1, <1>5, <2>2, <2>3 DEF BeliefOf
<1> QED BY <1>3, <1>4, <1>5

-----------------------------------------------------------------------------
\* Each step of a call keeps what is known of its own handle.
LEMMA CallOwn ==
    ASSUME TypeOK, NEW h \in Handles, HandleInv(h), NEW o \in Ops, Call(h, o)
    PROVE  HandleInv(h)'
<1> USE LeaseAssumption DEF table
<1>1. /\ at[h] = "idle" /\ at'[h] = "lookup" /\ op'[h] = o
      /\ UNCHANGED <<now, holder, ends, fence, lock, todo, rows, number>>
      /\ clock'[h] = now /\ sent'[h] = now
      /\ sure'[h] = (IF o = "release" THEN 0 ELSE sure[h])
  BY DEF Call, TypeOK
<1>2. PhaseOf(h)' /\ ClaimOf(h)' /\ NumberOf(h)'
  BY <1>1 DEF HandleInv, PhaseOf, ClaimOf, NumberOf
<1>3. BeliefOf(h)'
  BY <1>1 DEF HandleInv, BeliefOf, TypeOK
<1>4. OwnOf(h)'
  <2>1. Held(h)' = Held(h) /\ Mine(h)' = Held(h)
    BY <1>1 DEF Held, Live, Mine
  <2> QED BY <1>1, <2>1 DEF HandleInv, OwnOf
<1> QED BY <1>2, <1>3, <1>4 DEF HandleInv

LEMMA LookUpOwn ==
    ASSUME TypeOK, NEW h \in Handles, HandleInv(h), LookUp(h)
    PROVE  HandleInv(h)'
<1> USE LeaseAssumption DEF table, request
<1>1. PICK T \in Targets(h) : todo' = [todo EXCEPT ![h] = T]
  BY DEF LookUp
<1>2. /\ at[h] = "lookup" /\ todo'[h] = T
      /\ at'[h] = (IF T = {} THEN "update" ELSE "lock")
      /\ UNCHANGED <<now, holder, ends, fence, lock, rows, number, clock, sure, op, sent>>
  BY <1>1 DEF LookUp, TypeOK
<1>3. rows[h] = {}
  BY <1>2 DEF HandleInv, PhaseOf
<1>4. CASE op[h] = "acquire"
  <2>1. T # {}
    BY <1>4 DEF Targets, Rows
  <2>2. \A s \in Held(h) : T = {s}
    <3>1. SUFFICES ASSUME NEW s \in Held(h) PROVE T = {s}
      OBVIOUS
    <3>2. s \in Mine(h)
      BY DEF Held, Live, Mine, TypeOK
    <3>3. CASE Semaphore
      <4>1. PICK m \in Mine(h) : T = {m}
        BY <1>4, <3>2, <3>3 DEF Targets
      <4>2. m = s
        BY <1>2, <3>2, <4>1 DEF HandleInv, OwnOf
      <4> QED BY <4>1, <4>2
    <3>4. CASE ~Semaphore
      BY <1>4, <3>2, <3>4 DEF Targets, Rows, Mine
    <3> QED BY <3>3, <3>4
  <2>3. PhaseOf(h)' /\ ClaimOf(h)' /\ NumberOf(h)'
    BY <1>2, <1>3, <1>4, <2>1 DEF HandleInv, PhaseOf, ClaimOf, NumberOf
  <2>4. OwnOf(h)'
    <3>1. Held(h)' = Held(h)
      BY <1>2 DEF Held, Live
    <3> QED BY <1>2, <1>3, <1>4, <2>1, <2>2, <3>1 DEF HandleInv, OwnOf
  <2>5. BeliefOf(h)'
    BY <1>2 DEF HandleInv, BeliefOf
  <2> QED BY <2>3, <2>4, <2>5 DEF HandleInv
<1>5. CASE op[h] # "acquire"
  <2>1. T = {s \in Rows : holder[s] = h}
    BY <1>5 DEF Targets
  <2>2. PhaseOf(h)' /\ ClaimOf(h)' /\ NumberOf(h)'
    BY <1>2, <1>3, <1>5 DEF HandleInv, PhaseOf, ClaimOf, NumberOf
  <2>3. OwnOf(h)'
    <3>1. Held(h)' = Held(h)
      BY <1>2 DEF Held, Live
    <3> QED BY <1>2, <1>3, <1>5, <2>1, <3>1 DEF HandleInv, OwnOf
  <2>4. BeliefOf(h)'
    BY <1>2 DEF HandleInv, BeliefOf
  <2> QED BY <2>2, <2>3, <2>4 DEF HandleInv
<1> QED BY <1>4, <1>5

LEMMA LockOwn ==
    ASSUME TypeOK, NEW h \in Handles, HandleInv(h), Lock(h)
    PROVE  HandleInv(h)'
<1> USE LeaseAssumption, RowsLocks DEF table, request
<1>1. PICK s \in Wanted(h) :
          /\ lock' = [lock EXCEPT ![s] = h]
          /\ todo' = [todo EXCEPT ![h] = @ \ {s}]
          /\ rows' = [rows EXCEPT ![h] = @ \cup {s}]
          /\ at' = IF op[h] = "acquire" \/ todo[h] = {s}
                      THEN [at EXCEPT ![h] = "update"] ELSE at
  BY DEF Lock
<1>2. s \in todo[h] /\ s \in Rows /\ at[h] = "lock"
  BY <1>1 DEF Lock, Wanted, TypeOK
<1>3. /\ todo'[h] = todo[h] \ {s} /\ rows'[h] = rows[h] \cup {s}
      /\ at'[h] = (IF op[h] = "acquire" \/ todo[h] = {s} THEN "update" ELSE "lock")
      /\ lock'[Counter] = lock[Counter]
      /\ UNCHANGED <<now, holder, ends, fence, number, clock, sure, op, sent>>
  BY <1>1, <1>2 DEF Lock, TypeOK
<1>4. PhaseOf(h)' /\ ClaimOf(h)' /\ NumberOf(h)'
  BY <1>2, <1>3 DEF HandleInv, PhaseOf, ClaimOf, NumberOf
<1>5. BeliefOf(h)'
  BY <1>2, <1>3 DEF HandleInv, BeliefOf
<1>6. OwnOf(h)'
  <2>1. Held(h)' = Held(h)
    BY <1>3 DEF Held, Live
  <2>2. todo'[h] \cup rows'[h] = todo[h] \cup rows[h]
    BY <1>2, <1>3
  <2> QED BY <1>2, <1>3, <2>1, <2>2 DEF HandleInv, OwnOf
<1> QED BY <1>4, <1>5, <1>6 DEF HandleInv

LEMMA UpdateOwn ==
    ASSUME TypeOK, NEW h \in Handles, HandleInv(h), Update(h)
    PROVE  HandleInv(h)'
<1> USE LeaseAssumption, RowsLocks DEF table, request
<1>1. /\ at[h] = "update" /\ clock'[h] = now
      /\ rows'[h] = Matched(h, now)
      /\ number'[h] = (IF Semaphore THEN 0 ELSE fence + 1)
      /\ at'[h] = (IF op[h] = "acquire" /\ rows'[h] = {} /\ todo[h] # {} THEN "lock"
                   ELSE IF op[h] = "acquire" /\ rows'[h] # {} /\ Semaphore THEN "count"
                   ELSE "commit")
      /\ UNCHANGED <<now, holder, ends, fence, lock, todo, sure, op, sent>>
  BY DEF Update, TypeOK
<1>2. rows[h] \subseteq Rows /\ rows'[h] \subseteq rows[h]
  BY <1>1 DEF Matched, TypeOK
<1>3. Held(h)' = Held(h)
  BY <1>1 DEF Held, Live
<1>4. lock[Counter] # h
  BY <1>1 DEF HandleInv, NumberOf
<1>5. CASE op[h] = "acquire"
  <2>1. PICK s \in Rows : rows[h] = {s}
    BY <1>1, <1>5 DEF HandleInv, PhaseOf
  <2>2. PhaseOf(h)'
    BY <1>1, <1>5 DEF HandleInv, PhaseOf
  <2>3. ClaimOf(h)'
    BY <1>1, <1>2, <1>5, <2>1 DEF ClaimOf, Matched
  <2>4. NumberOf(h)'
    BY <1>1, <1>4 DEF NumberOf
  <2>5. OwnOf(h)'
    <3>1. \A r \in Held(h) : r = s \/ todo[h] \cup {s} = {r}
      BY <1>1, <1>5, <2>1 DEF HandleInv, OwnOf
    <3>2. \A r \in Held(h) : r = s /\ todo[h] \subseteq {s} /\ rows'[h] = {s}
      BY <1>1, <1>5, <2>1, <3>1 DEF HandleInv, OwnOf, Held, Matched
    <3> QED BY <1>1, <1>3, <1>5, <3>2 DEF HandleInv, OwnOf
  <2> QED BY <1>1, <2>2, <2>3, <2>4, <2>5 DEF HandleInv, BeliefOf
<1>6. CASE op[h] # "acquire"
  <2>1. at'[h] = "commit" /\ todo[h] = {}
    BY <1>1, <1>6 DEF HandleInv, PhaseOf
  <2>2. rows'[h] \subseteq Held(h)
    BY <1>1, <1>2, <1>6 DEF Matched, Held, Live
  <2>3. \A s, r \in Held(h) : s = r
    BY DEF HandleInv, OwnOf
  <2>4. PhaseOf(h)' /\ NumberOf(h)'
    BY <1>1, <1>4, <1>6, <2>1 DEF PhaseOf, NumberOf
  <2>5. ClaimOf(h)'
    BY <1>1, <2>2, <2>3 DEF ClaimOf, Held
  <2>6. OwnOf(h)'
    BY <1>3, <2>1, <2>2, <2>3 DEF OwnOf
  <2> QED BY <1>1, <2>4, <2>5, <2>6 DEF HandleInv, BeliefOf
<1> QED BY <1>5, <1>6

LEMMA CountOwn ==
    ASSUME TypeOK, NEW h \in Handles, HandleInv(h), Count(h)
    PROVE  HandleInv(h)'
<1> USE LeaseAssumption, RowsLocks DEF table, request
<1>1. /\ at[h] = "count" /\ at'[h] = "commit" /\ lock'[Counter] = h
      /\ number'[h] = fence + 1
      /\ UNCHANGED <<now, holder, ends, fence, todo, rows, clock, sure, op, sent>>
  BY DEF Count, TypeOK
<1>2. Held(h)' = Held(h)
  BY <1>1 DEF Held, Live
<1>3. PhaseOf(h)' /\ NumberOf(h)'
  BY <1>1 DEF HandleInv, PhaseOf, NumberOf
<1>4. ClaimOf(h)' /\ BeliefOf(h)'
  BY <1>1 DEF HandleInv, ClaimOf, BeliefOf
<1>5. OwnOf(h)'
  BY <1>1, <1>2 DEF HandleInv, OwnOf
<1> QED BY <1>3, <1>4, <1>5 DEF HandleInv

LEMMA TickOwn ==
    ASSUME TypeOK, NEW h \in Handles, HandleInv(h), Tick
    PROVE  HandleInv(h)'
<1> USE LeaseAssumption DEF table, request
<1>1. /\ now' = now + 1
      /\ sure'[h] = (IF sure[h] > now' THEN sure[h] ELSE 0)
      /\ UNCHANGED <<holder, ends, fence, lock, at, todo, rows, number, clock, op, sent>>
  BY DEF Tick
<1>2. Held(h)' \subseteq Held(h) /\ Mine(h)' = Mine(h)
  BY <1>1 DEF Held, Live, Mine, TypeOK
<1>3. PhaseOf(h)' /\ ClaimOf(h)' /\ NumberOf(h)'
  BY <1>1 DEF HandleInv, PhaseOf, ClaimOf, NumberOf
<1>4. BeliefOf(h)'
  BY <1>1 DEF HandleInv, BeliefOf, TypeOK
<1>5. OwnOf(h)'
  BY <1>1, <1>2 DEF HandleInv, OwnOf
<1> QED BY <1>3, <1>4, <1>5 DEF HandleInv

-----------------------------------------------------------------------------
LEMMA InitInv == Init => IInv
<1> SUFFICES ASSUME Init PROVE IInv
  OBVIOUS
<1> USE LeaseAssumption, RowsLocks
<1>1. TypeOK
  BY DEF Init, TypeOK, Ops, Phases
<1>2. ASSUME NEW h \in Handles PROVE HandleInv(h)
  <2>1. Held(h) = {}
    BY <1>2 DEF Init, Held
  <2>2. PhaseOf(h) /\ ClaimOf(h) /\ NumberOf(h)
    BY <1>2 DEF Init, PhaseOf, ClaimOf, NumberOf
  <2>3. BeliefOf(h) /\ OwnOf(h)
    BY <1>2, <2>1 DEF Init, BeliefOf, OwnOf
  <2> QED BY <2>2, <2>3 DEF HandleInv
<1> QED BY <1>1, <1>2 DEF IInv

LEMMA StepInv == IInv /\ [Next]_vars => IInv'
<1> SUFFICES ASSUME IInv, [Next]_vars PROVE IInv'
  OBVIOUS
<1> USE LeaseAssumption, RowsLocks DEF table, request
<1>1. TypeOK /\ TypeOK'
  BY TypeStep DEF IInv
<1>2. SUFFICES ASSUME NEW g \in Handles PROVE HandleInv(g)'
  BY <1>1 DEF IInv
<1>3. HandleInv(g)
  BY DEF IInv
<1>4. CASE Tick
  BY <1>1, <1>3, <1>4, TickOwn
<1>5. ASSUME NEW h \in Handles, NEW o \in Ops, Call(h, o) PROVE HandleInv(g)'
  <2>1. CASE g = h
    BY <1>1, <1>3, <1>5, <2>1, CallOwn
  <2>2. CASE g # h
    <3>1. /\ UNCHANGED <<now, holder, ends, fence, lock, todo, rows, number>>
          /\ at'[g] = at[g] /\ op'[g] = op[g] /\ clock'[g] = clock[g]
          /\ sent'[g] = sent[g] /\ sure'[g] = sure[g]
      BY <1>1, <1>5, <2>2 DEF Call, TypeOK
    <3> QED BY <1>3, <3>1, QuietStep
  <2> QED BY <2>1, <2>2
<1>6. ASSUME NEW h \in Handles, LookUp(h) PROVE HandleInv(g)'
  <2>1. CASE g = h
    BY <1>1, <1>3, <1>6, <2>1, LookUpOwn
  <2>2. CASE g # h
    <3>1. /\ UNCHANGED <<now, holder, ends, fence, lock, rows, number, clock, sure, op, sent>>
          /\ at'[g] = at[g] /\ todo'[g] = todo[g]
      BY <1>1, <1>6, <2>2 DEF LookUp, TypeOK
    <3> QED BY <1>3, <3>1, QuietStep
  <2> QED BY <2>1, <2>2
<1>7. ASSUME NEW h \in Handles, Lock(h) PROVE HandleInv(g)'
  <2>1. CASE g = h
    BY <1>1, <1>3, <1>7, <2>1, LockOwn
  <2>2. CASE g # h
    <3>1. /\ UNCHANGED <<now, holder, ends, fence, number, clock, sure, op, sent>>
          /\ at'[g] = at[g] /\ todo'[g] = todo[g] /\ rows'[g] = rows[g]
      BY <1>1, <1>7, <2>2 DEF Lock, TypeOK
    <3>2. lock'[Counter] = lock[Counter]
      <4>1. \A s \in Wanted(h) : s # Counter
        BY <1>1, <1>7 DEF Lock, Wanted, TypeOK
      <4> QED BY <1>1, <1>7, <4>1 DEF Lock, TypeOK
    <3> QED BY <1>3, <3>1, <3>2, QuietStep
  <2> QED BY <2>1, <2>2
<1>8. ASSUME NEW h \in Handles, Update(h) PROVE HandleInv(g)'
  <2>1. CASE g = h
    BY <1>1, <1>3, <1>8, <2>1, UpdateOwn
  <2>2. CASE g # h
    <3>1. /\ UNCHANGED <<now, holder, ends, fence, lock, todo, sure, op, sent>>
          /\ at'[g] = at[g] /\ rows'[g] = rows[g] /\ number'[g] = number[g]
          /\ clock'[g] = clock[g]
      BY <1>1, <1>8, <2>2 DEF Update, TypeOK
    <3> QED BY <1>3, <3>1, QuietStep
  <2> QED BY <2>1, <2>2
<1>9. ASSUME NEW h \in Handles, Count(h) PROVE HandleInv(g)'
  <2>1. CASE g = h
    BY <1>1, <1>3, <1>9, <2>1, CountOwn
  <2>2. CASE g # h
    <3>1. /\ UNCHANGED <<now, holder, ends, fence, todo, rows, clock, sure, op, sent>>
          /\ at'[g] = at[g] /\ number'[g] = number[g]
      BY <1>1, <1>9, <2>2 DEF Count, TypeOK
    <3>2. (lock'[Counter] = g) = (lock[Counter] = g)
      BY <1>1, <1>9, <2>2 DEF Count, Free, TypeOK
    <3> QED BY <1>3, <3>1, <3>2, QuietStep
  <2> QED BY <2>1, <2>2
<1>10. ASSUME NEW h \in Handles, Commit(h) \/ CommitUnseen(h) PROVE HandleInv(g)'
  <2>1. at[h] = "commit" /\ Stored(h) /\ EndCall(h) /\ HandleInv(h)
    BY <1>10 DEF Commit, CommitUnseen, IInv
  <2>2. CASE g = h
    <3>1. \/ sure'[h] = sure[h]
          \/ sure'[h] = 0
          \/ /\ op[h] # "release" /\ rows[h] # {}
             /\ sure'[h] = sent[h] + TTL /\ sure'[h] > now
      BY <1>1, <1>10 DEF Commit, CommitUnseen, TypeOK
    <3> QED BY <1>1, <2>1, <2>2, <3>1, EndedCall, CommitOwn, CommitBelief DEF HandleInv
  <2>3. CASE g # h
    <3>1. sure'[g] = sure[g]
      BY <1>1, <1>10, <2>3 DEF Commit, CommitUnseen, TypeOK
    <3> QED BY <1>1, <1>3, <2>1, <2>3, <3>1, CommitSpares
  <2> QED BY <2>2, <2>3
<1>11. ASSUME NEW h \in Handles, Abort(h) PROVE HandleInv(g)'
  <2>1. EndCall(h) /\ UNCHANGED <<now, holder, ends, fence, sure>>
    BY <1>11 DEF Abort, EndCall
  <2>2. CASE g = h
    <3>1. Held(h)' = Held(h)
      BY <2>1 DEF Held, Live
    <3>2. /\ PhaseOf(h)' /\ ClaimOf(h)' /\ NumberOf(h)' /\ at'[h] = "idle"
      BY <1>1, <2>1, EndedCall
    <3>3. BeliefOf(h)' /\ OwnOf(h)'
      BY <1>3, <2>1, <2>2, <3>1, <3>2 DEF HandleInv, BeliefOf, OwnOf
    <3> QED BY <2>2, <3>2, <3>3 DEF HandleInv
  <2>3. CASE g # h
    <3>1. /\ at'[g] = at[g] /\ op'[g] = op[g] /\ todo'[g] = todo[g] /\ rows'[g] = rows[g]
          /\ number'[g] = number[g] /\ clock'[g] = clock[g] /\ sent'[g] = sent[g]
          /\ (lock'[Counter] = g) = (lock[Counter] = g)
      BY <1>1, <2>1, <2>3, EndedCall
    <3> QED BY <1>3, <2>1, <3>1, QuietStep
  <2> QED BY <2>2, <2>3
<1>12. CASE UNCHANGED vars
  BY <1>3, <1>12, QuietStep DEF vars
<1> QED BY <1>4, <1>5, <1>6, <1>7, <1>8, <1>9, <1>10, <1>11, <1>12 DEF Next

LEMMA Inductive == Spec => []IInv
BY InitInv, StepInv, PTL DEF Spec

\* Rows, locks and clocks stay well formed.
THEOREM TypeCorrect == Spec => []TypeOK
<1>1. IInv => TypeOK
  BY DEF IInv
<1> QED BY <1>1, Inductive, PTL

\* A handle that counts its TTL from the start of the call really holds a slot.
THEOREM HoldsLast == Spec => []StillHeld
<1>1. IInv => StillHeld
  <2> SUFFICES ASSUME IInv, NEW h \in Handles, sure[h] # 0 PROVE Held(h) # {}
    BY DEF StillHeld
  <2>1. PICK s \in Rows : holder[s] = h /\ ends[s] >= sure[h] /\ sure[h] > now
    BY DEF IInv, HandleInv, BeliefOf
  <2>2. s \in Held(h)
    BY <2>1, LeaseAssumption DEF IInv, TypeOK, Held, Live
  <2> QED BY <2>2
<1> QED BY <1>1, Inductive, PTL

\* No handle holds two slots at a time.
THEOREM OneSlotEach == Spec => []OneSlot
<1>1. IInv => OneSlot
  BY DEF IInv, HandleInv, OwnOf, OneSlot
<1> QED BY <1>1, Inductive, PTL

\* Nobody who still counts on a hold is turned down.
THEOREM NeverDenied == Spec => NotDenied
<1>1. ASSUME IInv, [Next]_vars, NEW h \in Handles,
             at[h] = "update", at'[h] = "commit", rows'[h] = {}
      PROVE  sure[h] = 0
  <2> USE LeaseAssumption DEF table, request
  <2>1. TypeOK /\ HandleInv(h)
    BY <1>1 DEF IInv
  <2>2. Update(h)
    <3>1. \A g \in Handles : g = h \/ ~Update(g)
      BY <1>1, <2>1 DEF Update, TypeOK
    <3>2. \A g \in Handles :
             ~Lock(g) /\ ~LookUp(g) /\ ~Count(g) /\ \A o \in Ops : ~Call(g, o)
      BY <1>1, <2>1 DEF Lock, LookUp, Count, Call, TypeOK
    <3>3. \A g \in Handles : ~EndCall(g)
      BY <1>1, <2>1 DEF EndCall, TypeOK
    <3> QED BY <1>1, <3>1, <3>2, <3>3 DEF Next, Tick, vars, Commit, CommitUnseen, Abort
  <2>3. rows'[h] = Matched(h, now) /\ (op[h] = "acquire" => todo[h] = {})
    BY <1>1, <2>1, <2>2 DEF Update, TypeOK
  <2>4. SUFFICES ASSUME sure[h] # 0 PROVE FALSE
    OBVIOUS
  <2>5. PICK s \in Rows : holder[s] = h /\ ends[s] >= sure[h] /\ sure[h] > now
    BY <2>1, <2>4 DEF HandleInv, BeliefOf
  <2>6. s \in Held(h) /\ ends[s] > now
    BY <2>1, <2>5 DEF TypeOK, Held, Live
  <2>7. s \in rows[h]
    <3>1. CASE op[h] = "acquire"
      BY <1>1, <2>1, <2>3, <2>6, <3>1 DEF HandleInv, OwnOf
    <3>2. CASE op[h] # "acquire"
      BY <1>1, <2>1, <2>5, <3>2 DEF HandleInv, OwnOf, PhaseOf
    <3> QED BY <3>1, <3>2
  <2> QED BY <1>1, <2>3, <2>5, <2>6, <2>7 DEF Matched
<1>2. IInv /\ [Next]_vars =>
        [\A h \in Handles :
           (at[h] = "update" /\ at'[h] = "commit" /\ rows'[h] = {}) => sure[h] = 0]_vars
  BY <1>1
<1> QED BY <1>2, Inductive, PTL DEF Spec, NotDenied

-----------------------------------------------------------------------------
\* A prompt call on a lease commits at the time it read under the lock.
Prompt == \A h \in Handles \ Slow : at[h] = "commit" => clock[h] = now

LEMMA PromptStep ==
    ASSUME ~Semaphore, IInv, Prompt, [Next]_vars PROVE Prompt'
<1> USE LeaseAssumption DEF table, request
<1> SUFFICES ASSUME NEW h \in Handles \ Slow, at'[h] = "commit" PROVE clock'[h] = now'
  BY DEF Prompt
<1>1. TypeOK /\ HandleInv(h)
  BY DEF IInv
<1>2. CASE Tick
  <2>1. at[h] = "commit" /\ Wanted(h) = {}
    BY <1>2 DEF Tick, Wanted
  <2> QED BY <1>2, <2>1 DEF Tick, Blocks
<1>3. ASSUME NEW g \in Handles, EndCall(g) PROVE clock'[h] = now'
  <2>1. g # h /\ clock'[h] = clock[h] /\ at'[h] = at[h] /\ now' = now
    BY <1>1, <1>3 DEF EndCall, TypeOK
  <2> QED BY <2>1 DEF Prompt
<1>4. ASSUME NEW g \in Handles, NEW o \in Ops, Call(g, o) PROVE clock'[h] = now'
  BY <1>1, <1>4 DEF Call, Prompt, TypeOK
<1>5. ASSUME NEW g \in Handles, LookUp(g) PROVE clock'[h] = now'
  BY <1>1, <1>5 DEF LookUp, Prompt, TypeOK
<1>6. ASSUME NEW g \in Handles, Lock(g) PROVE clock'[h] = now'
  BY <1>1, <1>6 DEF Lock, Prompt, TypeOK
<1>7. ASSUME NEW g \in Handles, Update(g) PROVE clock'[h] = now'
  BY <1>1, <1>7 DEF Update, Prompt, TypeOK
<1>8. ASSUME NEW g \in Handles, Count(g) PROVE clock'[h] = now'
  BY <1>8 DEF Count, IInv, HandleInv, PhaseOf
<1>9. CASE UNCHANGED vars
  BY <1>9 DEF vars, Prompt
<1> QED BY <1>2, <1>3, <1>4, <1>5, <1>6, <1>7, <1>8, <1>9
        DEF Next, Commit, CommitUnseen, Abort

\* On a lease, a wait for a lock never shortens what a prompt handle is given.
THEOREM LeaseKeepsTtl == ASSUME ~Semaphore PROVE Spec => FullTtl
<1> USE LeaseAssumption
<1>1. Init => Prompt
  BY DEF Init, Prompt
<1>2. IInv /\ Prompt /\ [Next]_vars => Prompt'
  BY PromptStep
<1>3. ASSUME IInv, Prompt, [Next]_vars, NEW h \in Handles \ Slow, NEW s \in rows[h],
             op[h] # "release", ends'[s] # ends[s]
      PROVE  ends'[s] = now + TTL
  <2>1. TypeOK /\ s \in Rows
    BY <1>3 DEF IInv, TypeOK
  <2>2. PICK g \in Handles : at[g] = "commit" /\ Stored(g)
    BY <1>3, <2>1 DEF Next, Tick, Call, LookUp, Lock, Update, Count, Commit, CommitUnseen,
                      Abort, vars, table, request
  <2>3. s \in rows[g]
    BY <1>3, <2>1, <2>2 DEF Stored
  <2>4. g = h
    BY <1>3, <2>1, <2>3 DEF TypeOK
  <2> QED BY <1>3, <2>1, <2>2, <2>3, <2>4 DEF Stored, Expiry, Prompt
<1>4. IInv /\ Prompt /\ [Next]_vars =>
        [\A h \in Handles \ Slow : \A s \in rows[h] :
           (op[h] # "release" /\ ends'[s] # ends[s]) => ends'[s] = now + TTL]_vars
  BY <1>3
<1> QED BY <1>1, <1>2, <1>4, Inductive, PTL DEF Spec, FullTtl

-----------------------------------------------------------------------------
\* An acquire has locked only slots that come before those it has still to lock, a
\* refresh or a release only rows it is about; a call that has not begun to lock has
\* locked none.
Order ==
    \A h \in Handles : \A r \in Locks : lock[r] = h =>
       /\ at[h] \notin {"idle", "lookup"}
       /\ (r # Counter /\ op[h] = "acquire") => \A s \in todo[h] : r < s
       /\ (at[h] = "lock" /\ op[h] # "acquire") => r \in rows[h]

LEMMA OrderStep == ASSUME IInv, Order, [Next]_vars PROVE Order'
<1> USE LeaseAssumption, RowsLocks DEF table, request
<1> SUFFICES ASSUME NEW h \in Handles, NEW r \in Locks, lock'[r] = h
             PROVE  /\ at'[h] \notin {"idle", "lookup"}
                    /\ (r # Counter /\ op'[h] = "acquire") => \A s \in todo'[h] : r < s
                    /\ (at'[h] = "lock" /\ op'[h] # "acquire") => r \in rows'[h]
  BY DEF Order
<1> DEFINE Kept == /\ at'[h] \notin {"idle", "lookup"}
                   /\ (r # Counter /\ op'[h] = "acquire") => \A s \in todo'[h] : r < s
                   /\ (at'[h] = "lock" /\ op'[h] # "acquire") => r \in rows'[h]
<1> SUFFICES Kept
  OBVIOUS
<1>1. TypeOK /\ HandleInv(h)
  BY DEF IInv
<1>2. CASE Tick
  BY <1>2 DEF Tick, Order
<1>3. ASSUME NEW g \in Handles, EndCall(g) PROVE Kept
  <2>1. lock[r] = h /\ g # h
    BY <1>1, <1>3 DEF EndCall, Unlocked
  <2>2. at'[h] = at[h] /\ op'[h] = op[h] /\ todo'[h] = todo[h] /\ rows'[h] = rows[h]
    BY <1>1, <1>3, <2>1 DEF EndCall, TypeOK
  <2> QED BY <2>1, <2>2 DEF Order
<1>4. ASSUME NEW g \in Handles, NEW o \in Ops, Call(g, o) PROVE Kept
  <2>1. lock[r] = h /\ g # h
    BY <1>4 DEF Call, Order
  <2>2. at'[h] = at[h] /\ op'[h] = op[h] /\ todo'[h] = todo[h] /\ rows'[h] = rows[h]
    BY <1>1, <1>4, <2>1 DEF Call, TypeOK
  <2> QED BY <2>1, <2>2 DEF Order
<1>5. ASSUME NEW g \in Handles, LookUp(g) PROVE Kept
  <2>1. lock[r] = h /\ g # h
    BY <1>5 DEF LookUp, Order
  <2>2. at'[h] = at[h] /\ op'[h] = op[h] /\ todo'[h] = todo[h] /\ rows'[h] = rows[h]
    BY <1>1, <1>5, <2>1 DEF LookUp, TypeOK
  <2> QED BY <2>1, <2>2 DEF Order
<1>6. ASSUME NEW g \in Handles, Lock(g) PROVE Kept
  <2>1. PICK s \in Wanted(g) :
            /\ lock' = [lock EXCEPT ![s] = g]
            /\ todo' = [todo EXCEPT ![g] = @ \ {s}]
            /\ rows' = [rows EXCEPT ![g] = @ \cup {s}]
            /\ at' = IF op[g] = "acquire" \/ todo[g] = {s}
                        THEN [at EXCEPT ![g] = "update"] ELSE at
            /\ op' = op
    BY <1>6 DEF Lock
  <2>2. /\ at[g] = "lock" /\ s \in todo[g] /\ s \in Rows /\ todo[g] \subseteq Rows
        /\ op[g] = "acquire" => \A q \in todo[g] : s <= q
    BY <1>1, <1>6, <2>1 DEF Lock, Wanted, TypeOK
  <2>3. CASE g = h
    <3>1. /\ todo'[h] = todo[h] \ {s} /\ rows'[h] = rows[h] \cup {s}
          /\ at'[h] \in {"lock", "update"} /\ op'[h] = op[h]
          /\ lock[r] = h \/ r = s
      BY <1>1, <2>1, <2>2, <2>3 DEF TypeOK
    <3>2. ASSUME r # Counter, op[h] = "acquire", NEW q \in todo[h] \ {s} PROVE r < q
      <4>1. r \in Int /\ s \in Int /\ q \in Int /\ s <= q /\ s # q
        BY <2>2, <2>3, <3>2 DEF Rows, Locks, Counter
      <4>2. CASE lock[r] = h
        BY <3>2, <4>2 DEF Order
      <4>3. CASE r = s
        BY <4>1, <4>3
      <4> QED BY <3>1, <4>2, <4>3
    <3>3. (at'[h] = "lock" /\ op[h] # "acquire") => r \in rows'[h]
      BY <2>2, <2>3, <3>1 DEF Order
    <3> QED BY <3>1, <3>2, <3>3
  <2>4. CASE g # h
    <3>1. /\ lock[r] = h /\ at'[h] = at[h] /\ op'[h] = op[h]
          /\ todo'[h] = todo[h] /\ rows'[h] = rows[h]
      BY <1>1, <2>1, <2>2, <2>4 DEF TypeOK
    <3> QED BY <3>1 DEF Order
  <2> QED BY <2>3, <2>4
<1>7. ASSUME NEW g \in Handles, Update(g) PROVE Kept
  <2>1. lock[r] = h /\ todo'[h] = todo[h] /\ op'[h] = op[h]
    BY <1>7 DEF Update
  <2>2. CASE g = h
    BY <1>1, <1>7, <2>1, <2>2 DEF Update, Order, TypeOK
  <2>3. CASE g # h
    <3>1. at'[h] = at[h] /\ rows'[h] = rows[h]
      BY <1>1, <1>7, <2>3 DEF Update, TypeOK
    <3> QED BY <2>1, <3>1 DEF Order
  <2> QED BY <2>2, <2>3
<1>8. ASSUME NEW g \in Handles, Count(g) PROVE Kept
  <2>1. todo'[h] = todo[h] /\ rows'[h] = rows[h] /\ op'[h] = op[h]
    BY <1>8 DEF Count
  <2>2. CASE g = h
    <3>1. at'[h] = "commit" /\ (r # Counter => lock[r] = h)
      BY <1>1, <1>8, <2>2 DEF Count, TypeOK
    <3> QED BY <2>1, <3>1 DEF Order
  <2>3. CASE g # h
    <3>1. at'[h] = at[h] /\ lock[r] = h
      BY <1>1, <1>8, <2>3 DEF Count, TypeOK
    <3> QED BY <2>1, <3>1 DEF Order
  <2> QED BY <2>2, <2>3
<1>9. CASE UNCHANGED vars
  BY <1>9 DEF vars, Order
<1> QED BY <1>2, <1>3, <1>4, <1>5, <1>6, <1>7, <1>8, <1>9
        DEF Next, Commit, CommitUnseen, Abort

\* Calls can wait for each other only through the second row of a token.
THEOREM NoOtherDeadlock == Spec => []DeadlockNeedsTwoRows
<1> USE LeaseAssumption, RowsLocks
<1>1. Init => Order
  BY DEF Init, Order
<1>2. IInv /\ Order /\ [Next]_vars => Order'
  BY OrderStep
<1>3. IInv /\ Order => DeadlockNeedsTwoRows
  <2> SUFFICES ASSUME IInv, Order, NEW g \in Handles, NEW h \in Handles,
                      Blocks(g, h), Blocks(h, g)
               PROVE  \E f \in {g, h} : /\ op[f] # "acquire"
                                        /\ \E s, r \in todo[f] \cup rows[f] : s # r
    BY DEF DeadlockNeedsTwoRows
  <2>1. PICK r \in Wanted(h) : lock[r] = g /\ g # h
    BY DEF Blocks
  <2>2. PICK q \in Wanted(g) : lock[q] = h
    BY DEF Blocks
  <2>3. TypeOK /\ HandleInv(g) /\ HandleInv(h)
    BY DEF IInv
  <2>4. at[h] = "lock" /\ r \in todo[h] /\ r \in Rows
    BY <2>1, <2>2, <2>3 DEF Wanted, HandleInv, NumberOf, TypeOK
  <2>5. at[g] = "lock" /\ q \in todo[g] /\ q \in Rows
    BY <2>1, <2>2, <2>3 DEF Wanted, HandleInv, NumberOf, TypeOK
  <2>6. CASE op[g] = "acquire" /\ op[h] = "acquire"
    <3>1. r < q /\ q < r
      BY <2>1, <2>2, <2>4, <2>5, <2>6 DEF Order
    <3> QED BY <3>1, <2>4, <2>5 DEF Rows
  <2>7. CASE op[g] # "acquire"
    BY <2>1, <2>2, <2>4, <2>5, <2>7 DEF Order
  <2>8. CASE op[h] # "acquire"
    BY <2>1, <2>2, <2>4, <2>5, <2>8 DEF Order
  <2> QED BY <2>6, <2>7, <2>8
<1> QED BY <1>1, <1>2, <1>3, Inductive, PTL DEF Spec

-----------------------------------------------------------------------------
\* The hold of a token, in terms of the rows.
LEMMA UntilIs ==
    ASSUME TypeOK, NEW h \in Handles, \A s, r \in Held(h) : s = r
    PROVE  /\ Held(h) = {} => UntilOf(h) = 0
           /\ \A s \in Held(h) : UntilOf(h) = ends[s] /\ UntilOf(h) > now
           /\ UntilOf(h) # 0 <=> Held(h) # {}
<1>1. Held(h) = {} => UntilOf(h) = 0
  BY DEF UntilOf
<1>2. ASSUME NEW s \in Held(h) PROVE UntilOf(h) = ends[s] /\ ends[s] > now /\ ends[s] # 0
  <2>1. (CHOOSE r \in Held(h) : TRUE) = s
    BY <1>2
  <2> QED BY <1>2, <2>1, LeaseAssumption DEF UntilOf, Held, Live, TypeOK
<1> QED BY <1>1, <1>2

\* While a call holds the row it is to write, the other tokens with a hold are fewer
\* than the slots: each has a row of its own.
LEMMA Room ==
    ASSUME IInv, NEW h \in Handles, NEW s \in Rows,
           \A u \in Handles \ {h} : s \notin Held(u)
    PROVE  Cardinality({u \in Handles \ {h} : UntilOf(u) # 0}) < Slots
<1> DEFINE T == {u \in Handles \ {h} : UntilOf(u) # 0}
           S == {r \in Rows \ {s} : holder[r] \in T}
           f == [r \in S |-> holder[r]]
<1>1. IsFiniteSet(Rows) /\ Cardinality(Rows) = Slots
  BY FS_Interval, LeaseAssumption DEF Rows
<1>2. IsFiniteSet(Rows \ {s}) /\ Cardinality(Rows \ {s}) = Slots - 1
  BY <1>1, FS_RemoveElement
<1>3. IsFiniteSet(S) /\ Cardinality(S) <= Slots - 1
  BY <1>2, FS_Subset
<1>4. f \in Surjection(S, T)
  <2>1. ASSUME NEW u \in T PROVE \E r \in S : f[r] = u
    <3>1. Held(u) # {}
      BY UntilIs DEF IInv, HandleInv, OwnOf
    <3>2. PICK r \in Held(u) : TRUE
      BY <3>1
    <3>3. r \in S
      BY <3>2 DEF Held
    <3> QED BY <3>2, <3>3 DEF Held
  <2>2. f \in [S -> T]
    OBVIOUS
  <2> QED BY <2>1, <2>2 DEF Surjection
<1>5. IsFiniteSet(T) /\ Cardinality(T) <= Cardinality(S)
  BY <1>3, <1>4, FS_Surjection
<1>6. Cardinality(T) \in Nat /\ Cardinality(S) \in Nat
  BY <1>3, <1>5, FS_CardinalityType
<1> QED BY <1>3, <1>5, <1>6, LeaseAssumption

\* The instance counts as this module does.
LEMMA SameCount == ASSUME NEW S PROVE Promise!Cardinality(S) = Cardinality(S)
BY DEF Promise!Cardinality, Cardinality

LEMMA InitPromise == Init => Promise!Init
<1> SUFFICES ASSUME Init PROVE Promise!Init
  OBVIOUS
<1>1. \A h \in Handles : Held(h) = {}
  BY LeaseAssumption DEF Init, Held
<1>2. \A h \in Handles : UntilOf(h) = 0
  BY <1>1 DEF UntilOf
<1> QED BY <1>2 DEF Init, Promise!Init

\* A step that touches neither the clock nor the table is a stutter.
LEMMA QuietPromise ==
    ASSUME UNCHANGED <<now, holder, ends, fence>> PROVE UNCHANGED Promise!vars
<1>1. \A h \in Handles : UntilOf(h)' = UntilOf(h)
  BY DEF UntilOf, Held, Live
<1> QED BY <1>1 DEF Promise!vars

LEMMA CommitPromise ==
    ASSUME IInv, IInv', NEW h \in Handles, at[h] = "commit", Stored(h), EndCall(h)
    PROVE  [Promise!Next]_(Promise!vars)
<1> USE LeaseAssumption
<1>1. now' = now /\ TypeOK /\ TypeOK' /\ HandleInv(h) /\ ClaimOf(h) /\ OwnOf(h)
  BY DEF EndCall, IInv, HandleInv
<1>2. CASE rows[h] = {}
  <2>1. UNCHANGED <<holder, ends, fence>>
    BY <1>1, <1>2 DEF Stored, TypeOK
  <2> QED BY <1>1, <2>1, QuietPromise
<1>3. CASE rows[h] # {}
  <2>1. PICK s \in Rows : rows[h] = {s} /\ Held(h) \subseteq {s}
    BY <1>1, <1>3 DEF ClaimOf, OwnOf, TypeOK
  <2>2. /\ holder'[s] = h /\ ends'[s] = Expiry(h)
        /\ \A r \in Rows \ {s} : holder'[r] = holder[r] /\ ends'[r] = ends[r]
    BY <2>1 DEF Stored
  <2>3. \A u \in Handles \ {h} : s \notin Held(u)
    BY <1>1, <2>1, WriteIsOwn DEF Held, Live, TypeOK
  <2>4. ASSUME NEW u \in Handles \ {h} PROVE UntilOf(u)' = UntilOf(u)
    <3>1. Held(u)' = Held(u)
      BY <1>1, <2>2, <2>3 DEF Held, Live
    <3>2. \A r \in Held(u) : ends'[r] = ends[r]
      BY <2>2, <2>3 DEF Held
    <3>3. (\A q, r \in Held(u) : q = r) /\ (\A q, r \in Held(u)' : q = r)
      BY DEF IInv, HandleInv, OwnOf
    <3> QED BY <3>1, <3>2, <3>3 DEF UntilOf
  <2>5. Held(h)' = (IF Expiry(h) > now THEN {s} ELSE {})
    BY <1>1, <2>1, <2>2 DEF Held, Live
  <2>6. UntilOf(h)' = (IF Expiry(h) > now THEN Expiry(h) ELSE 0)
    BY <2>2, <2>5 DEF UntilOf
  <2>7. Expiry(h) \in Nat /\ Expiry(h) <= now + TTL /\ (op[h] = "release" => Expiry(h) <= now)
    BY <1>1 DEF Expiry, TypeOK
  <2>8. UntilOf(h)' \in {0} \cup (now + 1)..(now + TTL)
    BY <1>1, <2>6, <2>7 DEF TypeOK
  <2>9. Promise!Alone(h)
    BY <2>4 DEF Promise!Alone
  <2>10. Promise!Hold(h)
    BY <1>1, <2>3, <2>8, <2>9, Room, SameCount DEF Promise!Hold, Promise!Others
  <2>11. CASE op[h] = "release"
    <3>1. Promise!Release(h)
      BY <1>1, <2>6, <2>7, <2>9, <2>11 DEF Promise!Release, Stored, TypeOK
    <3> QED BY <3>1 DEF Promise!Next
  <2>12. CASE op[h] = "acquire"
    <3>1. fence' = fence + 1
      BY <1>1, <1>3, <2>12 DEF Stored, HandleInv, NumberOf
    <3> QED BY <2>10, <3>1 DEF Promise!Next, Promise!Acquire
  <2>13. CASE op[h] = "refresh"
    <3>1. fence' = fence
      BY <2>13 DEF Stored
    <3> QED BY <2>10, <3>1 DEF Promise!Next, Promise!Extend
  <2> QED BY <1>1, <2>11, <2>12, <2>13 DEF TypeOK, Ops
<1> QED BY <1>2, <1>3

LEMMA StepPromise ==
    ASSUME IInv, IInv', [Next]_vars PROVE [Promise!Next]_(Promise!vars)
<1> USE DEF table, request
<1>1. CASE Tick
  <2>1. now' = now + 1 /\ UNCHANGED <<holder, ends, fence>> /\ now \in Nat
    BY <1>1 DEF Tick, IInv, TypeOK
  <2>2. ASSUME NEW u \in Handles
        PROVE  UntilOf(u)' = IF UntilOf(u) > now' THEN UntilOf(u) ELSE 0
    <3>1. Held(u)' = {s \in Held(u) : ends[s] > now'}
      BY <2>1, LeaseAssumption DEF Held, Live, IInv, TypeOK
    <3>2. TypeOK /\ \A q, r \in Held(u) : q = r
      BY DEF IInv, HandleInv, OwnOf
    <3>3. CASE Held(u) = {}
      BY <2>1, <3>1, <3>3 DEF UntilOf
    <3>4. ASSUME NEW s \in Held(u)
          PROVE  UntilOf(u)' = IF UntilOf(u) > now' THEN UntilOf(u) ELSE 0
      <4>1. UntilOf(u) = ends[s] /\ Held(u) = {s}
        BY <3>2, <3>4, UntilIs
      <4>2. CASE ends[s] > now'
        BY <2>1, <3>1, <4>1, <4>2 DEF UntilOf
      <4>3. CASE ~(ends[s] > now')
        BY <2>1, <3>1, <4>1, <4>3 DEF UntilOf
      <4> QED BY <4>2, <4>3
    <3> QED BY <3>3, <3>4
  <2>3. Promise!Tick
    BY <2>1, <2>2 DEF Promise!Tick
  <2> QED BY <2>3 DEF Promise!Next
<1>2. ASSUME NEW h \in Handles, NEW o \in Ops, Call(h, o) PROVE UNCHANGED Promise!vars
  BY <1>2, QuietPromise DEF Call
<1>3. ASSUME NEW h \in Handles, LookUp(h) \/ Lock(h) \/ Update(h) \/ Count(h)
      PROVE  UNCHANGED Promise!vars
  BY <1>3, QuietPromise DEF LookUp, Lock, Update, Count
<1>4. ASSUME NEW h \in Handles, Commit(h) \/ CommitUnseen(h)
      PROVE  [Promise!Next]_(Promise!vars)
  BY <1>4, CommitPromise DEF Commit, CommitUnseen
<1>5. ASSUME NEW h \in Handles, Abort(h) PROVE UNCHANGED Promise!vars
  BY <1>5, QuietPromise DEF Abort, EndCall
<1>6. CASE UNCHANGED vars
  BY <1>6, QuietPromise DEF vars
<1> QED BY <1>1, <1>2, <1>3, <1>4, <1>5, <1>6 DEF Next

\* The table implements the promise of a lease.
THEOREM Implements == Spec => KeepsPromise
<1>1. IInv /\ IInv' /\ [Next]_vars => [Promise!Next]_(Promise!vars)
  BY StepPromise
<1> QED BY <1>1, InitPromise, Inductive, PTL DEF Spec, KeepsPromise, Promise!Spec
=============================================================================
