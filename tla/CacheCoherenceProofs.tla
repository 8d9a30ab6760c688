------------------------- MODULE CacheCoherenceProofs -------------------------
(***************************************************************************)
(* Proofs about RequestTransaction and CacheCoherence, for any number of   *)
(* workers, requests, writes, savepoints and messages.                     *)
(*                                                                         *)
(* The first part is about one session.  Its invariant Kept relates a      *)
(* write to the savepoints that can still undo it: those that were open    *)
(* when it was made and still are must be exactly the open ones up to the  *)
(* level it has reached, whatever was released in between.  Only then does *)
(* discarding "every callback that names the savepoint" discard the        *)
(* callbacks of the undone writes.                                         *)
(*                                                                         *)
(* The second is about the caches.  Its invariant IInv follows the old     *)
(* value to every place from which it could come back: a read that has     *)
(* returned it and would still be stored, or a reload that would still     *)
(* install it, is on a worker that has yet to apply the latest commit.     *)
(***************************************************************************)
EXTENDS CacheCoherence, WellFoundedInduction, SequenceTheorems, TLAPS

LiveOf(v) == {x \in Writes : v.level[x] # Gone}

\* The callbacks and the marks of an open transaction.
Tracked(v) ==
    /\ {v.level[x] : x \in LiveOf(v)} = v.marks
    /\ v.queued = LiveOf(v) \cup v.durable
    /\ v.durable # {} => v.untracked

\* Which savepoints can undo a write.
Nested(v) ==
    /\ v.open \subseteq 1..v.opened
    /\ \A x \in Writes :
         /\ v.within[x] \subseteq 1..v.opened
         /\ x > v.made => v.level[x] = Gone /\ x \notin v.durable
         /\ x \in v.durable => v.level[x] = Gone /\ v.within[x] = {}
         /\ v.level[x] # Gone => /\ v.level[x] \in {Root} \cup v.open
                                 /\ v.within[x] \cap v.open = {s \in v.open : s <= v.level[x]}

Kept(v) ==
    /\ v.at = "open" => Tracked(v) /\ Nested(v)
    /\ v.at = "calling" => v.queued \subseteq v.durable
    /\ v.at = "idle" => v = NoTx

TxInv == tx \in [Sessions -> Transactions] /\ \A t \in Sessions : Kept(tx[t])

-----------------------------------------------------------------------------
\* Of some numbers there is a least one, and of some savepoints a greatest one.
LEMMA Least ==
    ASSUME NEW S \in SUBSET Nat, S # {}
    PROVE  \E m \in S : \A n \in S : m <= n
<1>1. PICK m \in S : \A n \in S : <<n, m>> \notin OpToRel(<, Nat)
  BY NatLessThanWellFounded, WFMin
<1>2. OpToRel(<, Nat) = {ss \in Nat \X Nat : ss[1] < ss[2]}
  BY Zenon DEF OpToRel
<1>3. \A n \in S : <<n, m>> \notin {ss \in Nat \X Nat : ss[1] < ss[2]}
  BY <1>1, <1>2, Zenon
<1>4. \A n \in S : ~(n < m)
  BY <1>3
<1> QED BY <1>4

LEMMA Greatest ==
    ASSUME NEW S \in SUBSET Savepoints, S # {}
    PROVE  Innermost(S) \in S /\ \A s \in S : s <= Innermost(S)
<1> DEFINE U == {n \in Nat : \A s \in S : s <= n}
<1>1. MaxSavepoints \in U
  BY TransactionConstants DEF Savepoints
<1>2. PICK m \in U : \A n \in U : m <= n
  BY <1>1, Least, U \in SUBSET Nat
<1>3. m \in S
  <2> SUFFICES ASSUME m \notin S PROVE FALSE
    OBVIOUS
  <2>1. \A s \in S : s \in Nat /\ s > 0
    BY TransactionConstants DEF Savepoints
  <2>2. m \in Nat /\ m > 0
    BY <2>1
  <2>3. m - 1 \in U
    BY <2>1, <2>2
  <2> QED BY <1>2, <2>2, <2>3
<1>4. \E s \in S : \A r \in S : r <= s
  BY <1>3
<1> QED BY <1>4 DEF Innermost

\* So the innermost savepoint is one of those open, and none is deeper.
LEMMA InnerOuter ==
    ASSUME NEW t \in Sessions, tx \in [Sessions -> Transactions]
    PROVE  /\ Inner(t) \in {Root} \cup Savepoints /\ Outer(t) \in {Root} \cup Savepoints
           /\ tx[t].open = {} => Inner(t) = Root
           /\ tx[t].open # {} => Inner(t) \in tx[t].open
           /\ Outer(t) \in {Root} \cup (tx[t].open \ {Inner(t)})
           /\ \A s \in tx[t].open : s <= Inner(t)
           /\ \A s \in tx[t].open \ {Inner(t)} : s <= Outer(t)
<1>1. tx[t].open \in SUBSET Savepoints
  BY DEF Transactions
<1>2. tx[t].open \ {Inner(t)} \in SUBSET Savepoints
  BY <1>1
<1>3. CASE tx[t].open = {}
  BY <1>3 DEF Inner, Outer, Innermost
<1>4. CASE tx[t].open # {} /\ tx[t].open \ {Inner(t)} = {}
  <2>1. Inner(t) \in tx[t].open /\ \A s \in tx[t].open : s <= Inner(t)
    BY <1>1, <1>4, Greatest DEF Inner
  <2>2. Outer(t) = Root
    BY <1>4 DEF Outer, Innermost
  <2> QED BY <1>1, <1>4, <2>1, <2>2
<1>5. CASE tx[t].open # {} /\ tx[t].open \ {Inner(t)} # {}
  <2>1. Inner(t) \in tx[t].open /\ \A s \in tx[t].open : s <= Inner(t)
    BY <1>1, <1>5, Greatest DEF Inner
  <2>2. /\ Outer(t) \in tx[t].open \ {Inner(t)}
        /\ \A s \in tx[t].open \ {Inner(t)} : s <= Outer(t)
    BY <1>2, <1>5, Greatest DEF Outer
  <2> QED BY <1>1, <1>5, <2>1, <2>2
<1> QED BY <1>3, <1>4, <1>5

\* A step of one session leaves the others alone.
LEMMA OneSession ==
    ASSUME TxInv, NEW t \in Sessions, NEW v \in Transactions, Kept(v),
           tx' = [tx EXCEPT ![t] = v]
    PROVE  TxInv'
BY DEF TxInv

LEMMA NoTxTyped == NoTx \in Transactions /\ Kept(NoTx)
BY TransactionConstants DEF NoTx, Transactions, Kept, Writes, Savepoints, Gone, Root

LEMMA InitKept == TxInit => TxInv
BY NoTxTyped DEF TxInit, TxInv

-----------------------------------------------------------------------------
LEMMA BeginKept ==
    ASSUME TxInv, NEW t \in Sessions, Begin(t)
    PROVE  TxInv'
<1> DEFINE v == [NoTx EXCEPT !.at = "open"]
<1>1. tx[t] = NoTx
  BY DEF TxInv, Begin, Kept
<1>2. tx' = [tx EXCEPT ![t] = v]
  BY <1>1 DEF Begin, TxInv
<1>3. v \in Transactions
  BY NoTxTyped DEF Transactions
<1>4. Kept(v)
  BY TransactionConstants DEF NoTx, Kept, Tracked, Nested, LiveOf, Writes, Gone, Root
<1> HIDE DEF v
<1> QED BY <1>2, <1>3, <1>4, OneSession

LEMMA WriteKept ==
    ASSUME TxInv, NEW t \in Sessions, Write(t)
    PROVE  TxInv'
<1> DEFINE u == tx[t]
           n == u.made + 1
           v == [u EXCEPT !.made = n,
                          !.level = [u.level EXCEPT ![n] = Inner(t)],
                          !.marks = u.marks \cup {Inner(t)},
                          !.queued = u.queued \cup {n},
                          !.within = [u.within EXCEPT ![n] = u.open]]
<1>1. u \in Transactions /\ u.at = "open" /\ Tracked(u) /\ Nested(u)
  BY DEF TxInv, Write, Kept
<1>2. n \in Writes /\ u.made \in Nat
  BY <1>1, TransactionConstants DEF Write, Transactions, Writes
<1>3. tx' = [tx EXCEPT ![t] = v]
  BY ZenonT(60) DEF Write
<1>4. v \in Transactions
  <2>1. Inner(t) \in {Root} \cup Savepoints /\ n \in 0..MaxWrites
    BY <1>2, InnerOuter, TransactionConstants DEF TxInv, Writes
  <2>2. [u.level EXCEPT ![n] = Inner(t)] \in [Writes -> {Gone, Root} \cup Savepoints]
    BY <1>1, <2>1 DEF Transactions
  <2>3. [u.within EXCEPT ![n] = u.open] \in [Writes -> SUBSET Savepoints]
    BY <1>1 DEF Transactions
  <2> QED BY <1>1, <1>2, <2>1, <2>2, <2>3 DEF Transactions
<1>5. /\ v.at = "open" /\ v.made = n /\ v.open = u.open /\ v.opened = u.opened
      /\ v.durable = u.durable /\ v.untracked = u.untracked
      /\ v.marks = u.marks \cup {Inner(t)} /\ v.queued = u.queued \cup {n}
      /\ \A x \in Writes : /\ v.level[x] = IF x = n THEN Inner(t) ELSE u.level[x]
                           /\ v.within[x] = IF x = n THEN u.open ELSE u.within[x]
  BY <1>1, <1>2 DEF Transactions
<1> HIDE DEF v
<1>6. /\ Inner(t) \in {Root} \cup u.open /\ \A s \in u.open : s <= Inner(t)
      /\ Inner(t) # Gone
  BY InnerOuter DEF TxInv, Root, Gone, Savepoints
<1>7. u.level[n] = Gone /\ n \notin u.durable
  BY <1>1, <1>2 DEF Nested
<1>8. LiveOf(v) = LiveOf(u) \cup {n}
  BY <1>2, <1>5, <1>6 DEF LiveOf
<1>9. Tracked(v)
  <2>1. {v.level[x] : x \in LiveOf(v)} = {u.level[x] : x \in LiveOf(u)} \cup {Inner(t)}
    BY <1>2, <1>5, <1>7, <1>8 DEF LiveOf
  <2> QED BY <1>1, <1>5, <1>8, <2>1 DEF Tracked
<1>10. Nested(v)
  BY <1>1, <1>2, <1>5, <1>6, <1>7, TransactionConstants DEF Nested, Writes
<1>11. Kept(v)
  BY <1>5, <1>9, <1>10 DEF Kept
<1> QED BY <1>3, <1>4, <1>11, OneSession

LEMMA OpenSavepointKept ==
    ASSUME TxInv, NEW t \in Sessions, OpenSavepoint(t)
    PROVE  TxInv'
<1> DEFINE u == tx[t]
           v == [u EXCEPT !.opened = u.opened + 1, !.open = u.open \cup {u.opened + 1}]
<1>1. u \in Transactions /\ u.at = "open" /\ Tracked(u) /\ Nested(u)
  BY DEF TxInv, OpenSavepoint, Kept
<1>2. tx' = [tx EXCEPT ![t] = v]
  BY DEF OpenSavepoint, TxInv
<1>3. v \in Transactions /\ u.opened \in Nat
  <2>1. u.opened \in Nat /\ u.opened + 1 \in 0..MaxSavepoints /\ u.opened + 1 \in Savepoints
    BY <1>1, TransactionConstants DEF OpenSavepoint, Transactions, Savepoints
  <2> QED BY <1>1, <2>1 DEF Transactions
<1>4. /\ v.at = "open" /\ v.made = u.made /\ v.open = u.open \cup {u.opened + 1}
      /\ v.opened = u.opened + 1 /\ v.durable = u.durable /\ v.untracked = u.untracked
      /\ v.marks = u.marks /\ v.queued = u.queued /\ v.level = u.level /\ v.within = u.within
  BY <1>1 DEF Transactions
<1> HIDE DEF v
<1>5. Tracked(v)
  BY <1>1, <1>4 DEF Tracked, LiveOf
<1>6. Nested(v)
  BY <1>1, <1>3, <1>4, TransactionConstants DEF Nested, Writes, Root
<1>7. Kept(v)
  BY <1>4, <1>5, <1>6 DEF Kept
<1> QED BY <1>2, <1>3, <1>7, OneSession

LEMMA ReleaseKept ==
    ASSUME TxInv, NEW t \in Sessions, Release(t)
    PROVE  TxInv'
<1> DEFINE u == tx[t]
           i == Inner(t)
           o == Outer(t)
           v == [u EXCEPT !.open = u.open \ {i},
                          !.level = [x \in Writes |-> IF u.level[x] = i THEN o ELSE u.level[x]],
                          !.marks = IF i \in u.marks THEN (u.marks \ {i}) \cup {o} ELSE u.marks]
<1>1. u \in Transactions /\ u.at = "open" /\ Tracked(u) /\ Nested(u)
  BY DEF TxInv, Release, Kept
<1>2. tx' = [tx EXCEPT ![t] = v]
  BY DEF Release, TxInv
<1>3. /\ i \in u.open /\ o \in {Root} \cup (u.open \ {i})
      /\ \A s \in u.open : s <= i
      /\ \A s \in u.open \ {i} : s <= o
      /\ u.open \subseteq Savepoints
  BY <1>1, InnerOuter DEF TxInv, Release, Transactions
<1>4. i # Gone /\ o # Gone /\ i # Root /\ i # o /\ i \in Nat /\ o \in Nat
  BY <1>3, TransactionConstants DEF Root, Gone, Savepoints
<1>5. v \in Transactions
  BY <1>1, <1>3 DEF Transactions
<1>6. /\ v.at = "open" /\ v.made = u.made /\ v.open = u.open \ {i} /\ v.opened = u.opened
      /\ v.durable = u.durable /\ v.untracked = u.untracked
      /\ v.queued = u.queued /\ v.within = u.within
      /\ v.marks = IF i \in u.marks THEN (u.marks \ {i}) \cup {o} ELSE u.marks
      /\ \A x \in Writes : v.level[x] = IF u.level[x] = i THEN o ELSE u.level[x]
  BY <1>1 DEF Transactions
<1> HIDE DEF v
<1>7. LiveOf(v) = LiveOf(u)
  BY <1>4, <1>6 DEF LiveOf
<1>8. Tracked(v)
  <2>1. {v.level[x] : x \in LiveOf(v)} = v.marks
    BY <1>1, <1>4, <1>6, <1>7 DEF Tracked, LiveOf
  <2>2. v.queued = LiveOf(v) \cup v.durable
    BY <1>1, <1>6, <1>7 DEF Tracked
  <2> QED BY <1>1, <1>6, <2>1, <2>2 DEF Tracked
<1>9. Nested(v)
  <2> SUFFICES ASSUME NEW x \in Writes
               PROVE  /\ v.within[x] \subseteq 1..v.opened
                      /\ x > v.made => v.level[x] = Gone /\ x \notin v.durable
                      /\ x \in v.durable => v.level[x] = Gone /\ v.within[x] = {}
                      /\ v.level[x] # Gone =>
                           /\ v.level[x] \in {Root} \cup v.open
                           /\ v.within[x] \cap v.open = {s \in v.open : s <= v.level[x]}
    BY <1>1, <1>6 DEF Nested
  <2>1. CASE u.level[x] = i
    <3>1. u.within[x] \cap u.open = {s \in u.open : s <= i}
      BY <1>1, <1>4, <2>1 DEF Nested
    <3>2. v.within[x] \cap v.open = {s \in v.open : s <= o}
      BY <1>3, <1>6, <3>1
    <3> QED BY <1>1, <1>3, <1>4, <1>6, <2>1, <3>2 DEF Nested
  <2>2. CASE u.level[x] # i
    <3>1. u.level[x] # Gone => ~(i <= u.level[x])
      BY <1>1, <1>3, <1>4, <2>2 DEF Nested, Root, Savepoints
    <3> QED BY <1>1, <1>3, <1>4, <1>6, <2>2, <3>1 DEF Nested
  <2> QED BY <2>1, <2>2
<1>10. Kept(v)
  BY <1>6, <1>8, <1>9 DEF Kept
<1> QED BY <1>2, <1>5, <1>10, OneSession

LEMMA RollbackKept ==
    ASSUME TxInv, NEW t \in Sessions, RollbackTo(t)
    PROVE  TxInv'
<1> DEFINE u == tx[t]
           i == Inner(t)
           v == [u EXCEPT !.open = u.open \ {i},
                          !.level = [x \in Writes |-> IF u.level[x] = i THEN Gone ELSE u.level[x]],
                          !.marks = u.marks \ {i},
                          !.queued = {x \in u.queued : ~Inside(t, x)},
                          !.within = [x \in Writes |-> IF Inside(t, x) THEN {} ELSE u.within[x]]]
<1>1. u \in Transactions /\ u.at = "open" /\ Tracked(u) /\ Nested(u)
  BY DEF TxInv, RollbackTo, Kept
<1>2. tx' = [tx EXCEPT ![t] = v]
  BY DEF RollbackTo, TxInv
<1>3. /\ i \in u.open /\ i \in Nat /\ i # Gone /\ i # Root
      /\ \A s \in u.open : s <= i /\ s \in Nat
  <2>1. u.open \in SUBSET Savepoints /\ \A s \in Savepoints : s \in Nat /\ s > 0
    BY <1>1, TransactionConstants DEF Transactions, Savepoints
  <2>2. i \in u.open /\ \A s \in u.open : s <= i
    BY InnerOuter DEF TxInv, RollbackTo
  <2> QED BY <2>1, <2>2 DEF Root, Gone
<1>4. v \in Transactions
  BY <1>1 DEF Transactions
<1>5. /\ v.at = "open" /\ v.made = u.made /\ v.open = u.open \ {i} /\ v.opened = u.opened
      /\ v.durable = u.durable /\ v.untracked = u.untracked /\ v.marks = u.marks \ {i}
      /\ v.queued = {x \in u.queued : i \notin u.within[x]}
      /\ \A x \in Writes : /\ v.level[x] = IF u.level[x] = i THEN Gone ELSE u.level[x]
                           /\ v.within[x] = IF i \in u.within[x] THEN {} ELSE u.within[x]
  BY <1>1 DEF Transactions, Inside
<1> HIDE DEF v
<1>6. \A x \in LiveOf(u) : i \in u.within[x] <=> u.level[x] = i
  <2> SUFFICES ASSUME NEW x \in LiveOf(u) PROVE i \in u.within[x] <=> u.level[x] = i
    OBVIOUS
  <2>1. /\ u.level[x] \in {Root} \cup u.open
        /\ u.within[x] \cap u.open = {s \in u.open : s <= u.level[x]}
    BY <1>1 DEF Nested, LiveOf
  <2>2. i \in u.within[x] <=> i <= u.level[x]
    BY <1>3, <2>1
  <2> QED BY <1>3, <2>1, <2>2 DEF Root
<1>7. LiveOf(v) = {x \in LiveOf(u) : u.level[x] # i}
  BY <1>5 DEF LiveOf
<1>8. Tracked(v)
  <2>1. {v.level[x] : x \in LiveOf(v)} = v.marks
    BY <1>1, <1>5, <1>7 DEF Tracked, LiveOf
  <2>2. \A x \in u.durable : x \in Writes /\ i \notin u.within[x]
    BY <1>1 DEF Nested, Transactions
  <2>3. v.queued = LiveOf(v) \cup v.durable
    BY <1>1, <1>5, <1>6, <1>7, <2>2 DEF Tracked
  <2>4. v.durable # {} => v.untracked
    BY <1>1, <1>5 DEF Tracked
  <2> QED BY <2>1, <2>3, <2>4 DEF Tracked
<1>9. Nested(v)
  <2> SUFFICES ASSUME NEW x \in Writes
               PROVE  /\ v.within[x] \subseteq 1..v.opened
                      /\ x > v.made => v.level[x] = Gone /\ x \notin v.durable
                      /\ x \in v.durable => v.level[x] = Gone /\ v.within[x] = {}
                      /\ v.level[x] # Gone =>
                           /\ v.level[x] \in {Root} \cup v.open
                           /\ v.within[x] \cap v.open = {s \in v.open : s <= v.level[x]}
    BY <1>1, <1>5 DEF Nested
  <2>1. CASE u.level[x] = Gone \/ u.level[x] = i
    BY <1>1, <1>5, <2>1 DEF Nested
  <2>2. CASE u.level[x] # Gone /\ u.level[x] # i
    <3>1. i \notin u.within[x]
      BY <1>6, <2>2 DEF LiveOf
    <3> QED BY <1>1, <1>5, <2>2, <3>1 DEF Nested
  <2> QED BY <2>1, <2>2
<1>10. Kept(v)
  BY <1>5, <1>8, <1>9 DEF Kept
<1> QED BY <1>2, <1>4, <1>10, OneSession

LEMMA CommitInsideKept ==
    ASSUME TxInv, NEW t \in Sessions, CommitInside(t)
    PROVE  TxInv'
<1> DEFINE u == tx[t]
           v == [Landed(t) EXCEPT !.marks = {}, !.untracked = TRUE]
<1>1. u \in Transactions /\ u.at = "open" /\ Tracked(u) /\ Nested(u)
  BY DEF TxInv, CommitInside, Kept
<1>2. tx' = [tx EXCEPT ![t] = v]
  BY DEF CommitInside
<1>3. v \in Transactions
  BY <1>1, NoTxTyped DEF Landed, Transactions, Live
<1>4. /\ v.at = "open" /\ v.made = u.made /\ v.open = u.open /\ v.opened = u.opened
      /\ v.durable = u.durable \cup LiveOf(u) /\ v.untracked /\ v.marks = {}
      /\ v.queued = u.queued
      /\ \A x \in Writes : v.level[x] = Gone /\ v.within[x] = {}
  BY <1>1 DEF Landed, Transactions, Live, LiveOf, NoTx
<1> HIDE DEF v
<1>5. LiveOf(v) = {}
  BY <1>4 DEF LiveOf
<1>6. Tracked(v)
  <2>1. {v.level[x] : x \in LiveOf(v)} = {}
    BY <1>5
  <2> QED BY <1>1, <1>4, <1>5, <2>1 DEF Tracked
<1>7. Nested(v)
  BY <1>1, <1>4 DEF Nested, LiveOf
<1>8. Kept(v)
  BY <1>4, <1>6, <1>7 DEF Kept
<1> QED BY <1>2, <1>3, <1>8, OneSession

LEMMA CommitKept ==
    ASSUME TxInv, NEW t \in Sessions, Commit(t)
    PROVE  TxInv' /\ tx'[t].at = "calling" /\ tx'[t].queued = tx'[t].durable
<1> DEFINE u == tx[t]
           v == [NoTx EXCEPT !.at = "calling", !.durable = Landed(t).durable,
                             !.queued = tx[t].queued]
<1>1. u \in Transactions /\ u.at = "open" /\ Tracked(u)
  BY DEF TxInv, Commit, Kept
<1>2. tx' = [tx EXCEPT ![t] = v]
  BY DEF Commit
<1>3. Landed(t).durable = u.durable \cup LiveOf(u)
  BY <1>1 DEF Landed, Transactions, Live, LiveOf
<1>4. v \in Transactions
  <2>1. Landed(t).durable \in SUBSET Writes /\ u.queued \in SUBSET Writes
    BY <1>1, <1>3 DEF Transactions, LiveOf
  <2> QED BY <2>1, NoTxTyped DEF Transactions
<1>5. v.at = "calling" /\ v.queued = v.durable
  BY <1>1, <1>3 DEF Tracked, NoTx
<1> HIDE DEF v
<1>6. Kept(v)
  BY <1>5 DEF Kept
<1>7. tx'[t] = v
  BY <1>2 DEF TxInv
<1> QED BY <1>2, <1>4, <1>5, <1>6, <1>7, OneSession

LEMMA DiscardKept ==
    ASSUME TxInv, NEW t \in Sessions, Discard(t) \/ Finished(t)
    PROVE  TxInv'
BY NoTxTyped, OneSession DEF Discard, Finished

\* Each turn takes a callback, so none is left out but those that have run.
LEMMA TakeKept ==
    ASSUME TxInv, NEW t \in Sessions, TakeCallback(t)
    PROVE  /\ TxInv'
           /\ \A s \in Sessions : tx'[s].at = tx[s].at /\ tx'[s].durable = tx[s].durable
           /\ tx'[t].queued # tx'[t].durable
           /\ \A s \in Sessions : s # t => tx'[s] = tx[s]
<1> DEFINE u == tx[t]
           q == {x \in u.queued : \E y \in u.queued : y < x}
           v == [u EXCEPT !.queued = q]
<1>1. u \in Transactions /\ u.at = "calling" /\ u.queued \subseteq u.durable /\ u.queued # {}
  BY DEF TxInv, TakeCallback, Kept
<1>2. tx' = [tx EXCEPT ![t] = v]
  BY DEF TakeCallback
<1>3. v \in Transactions
  BY <1>1 DEF Transactions
<1>4. v.at = "calling" /\ v.queued = q /\ v.durable = u.durable
  BY <1>1 DEF Transactions
<1> HIDE DEF v
<1>5. q # u.durable
  <2>1. u.queued \in SUBSET Nat
    BY <1>1, TransactionConstants DEF Transactions, Writes
  <2>2. PICK m \in u.queued : \A n \in u.queued : m <= n
    BY <1>1, <2>1, Least
  <2>3. m \notin q /\ m \in u.durable
    BY <1>1, <2>1, <2>2
  <2> QED BY <2>3
<1>6. Kept(v)
  BY <1>1, <1>4 DEF Kept
<1>7. tx'[t] = v /\ \A s \in Sessions : s # t => tx'[s] = tx[s]
  BY <1>2 DEF TxInv
<1> QED BY <1>1, <1>2, <1>3, <1>4, <1>5, <1>6, <1>7, OneSession

LEMMA KeptTracked == TxInv => WritesTracked
BY DEF TxInv, Kept, Tracked, WritesTracked, Live, LiveOf, HasPending

-----------------------------------------------------------------------------
(* The caches.                                                             *)

\* Reloads of one worker exclude each other; one that has read the old value did so
\* before the invalidation that its worker is still to apply.
LoadInv ==
    \A k \in Tasks :
       /\ Cached => load[k].at \in {"idle", "publish"}
       /\ load[k].at = "read" /\ load[k].val = "old" => On(k) \in due /\ ~load[k].latest
       /\ \A j \in Tasks :
            /\ load[k].at \in {"reading", "read"} /\ load[j].at \in {"reading", "read"}
            /\ On(j) = On(k)
            => j = k

\* So is a fill that would store the old value.
ReadInv ==
    \A r \in Readers :
       /\ ~Cached => read[r].at = "idle"
       /\ read[r].at \in {"idle", "waiting"} => read[r].tries = 0
       /\ read[r].at = "read" /\ read[r].val = "old" /\ ~read[r].raced => Host[r] \in due

\* Once the first callback of the latest commit has run, its worker has applied it.
RunInv ==
    \A t \in Sessions :
       /\ tx[t].at = "calling" /\ Cached /\ news[t] /\ tx[t].queued # tx[t].durable
       => Host[t] \notin due

IInv == TxInv /\ TypeOK /\ LoadInv /\ ReadInv /\ NoStaleKept /\ RunInv

-----------------------------------------------------------------------------
LEMMA TaskFacts ==
    /\ \A k \in Tasks : On(k) \in Workers
    /\ \A w \in Workers : /\ Timer(w) \in Tasks /\ On(Timer(w)) = w
                          /\ Listener(w) \in Tasks /\ On(Listener(w)) = w
    /\ \A t \in Sessions : /\ Callback(t) \in Tasks /\ On(Callback(t)) = Host[t]
                           /\ Host[t] \in Workers
    /\ \A r \in Readers : Host[r] \in Workers
BY CacheConstants DEF Tasks, On, Timer, Listener, Callback

LEMMA Forgotten ==
    ASSUME NEW s \in Seq(BOOLEAN)
    PROVE  [i \in DOMAIN s |-> FALSE] \in Seq(BOOLEAN)
<1>1. [i \in DOMAIN s |-> FALSE] \in [1..Len(s) -> BOOLEAN] /\ Len(s) \in Nat
  BY DOMAIN s = 1..Len(s)
<1> QED BY <1>1, SeqDef

LEMMA ToldTyped ==
    ASSUME NEW S
    PROVE  [s \in Sessions |-> s \in S] \in [Sessions -> BOOLEAN]
BY SMT

LEMMA HandledTyped ==
    ASSUME NEW k \in Tasks, NEW latest \in BOOLEAN
    PROVE  /\ Handled(k, latest) \in [at : {"idle", "publish"}, val : {"old"}, latest : BOOLEAN]
           /\ Handled(k, latest).at = "publish" => k[1] = "callback"
BY DEF Handled, NoLoad

LEMMA InitIInv == Init => IInv
<1> SUFFICES ASSUME Init PROVE IInv
  OBVIOUS
<1> USE CacheConstants DEF Init
<1>1. TxInv
  BY InitKept
<1>2. TypeOK
  BY <1>1 DEF TypeOK, TxInv, Boot, Values, Cached, NoRead, NoLoad
<1>3. LoadInv
  BY DEF LoadInv, NoLoad
<1>4. ReadInv
  BY DEF ReadInv, NoRead
<1>5. NoStaleKept
  BY DEF NoStaleKept, Boot
<1>6. RunInv
  BY DEF RunInv, TxInit, NoTx
<1> QED BY <1>1, <1>2, <1>3, <1>4, <1>5, <1>6 DEF IInv

-----------------------------------------------------------------------------
Reads == [at : {"idle", "waiting", "reading", "read"}, val : Values,
          raced : BOOLEAN, tries : 0..FillAttempts]
Loads == [at : {"idle", "waiting", "reading", "read", "publish"}, val : Values,
          latest : BOOLEAN]

\* A fill goes on to v without having stored anything.
Goes(r, v) ==
    /\ v \in Reads
    /\ read' = [read EXCEPT ![r] = v]
    /\ v.at = "read" => v.val = "current"
    /\ ~Cached => v.at = "idle"
    /\ v.at \in {"idle", "waiting"} => v.tries = 0

LEMMA TurnGoes ==
    ASSUME IInv, NEW r \in Readers, Turn(r), read[r].tries < FillAttempts, read[r].at # "idle"
    PROVE  \E v : Goes(r, v)
<1> DEFINE v == IF copy[Host[r]] # "none" THEN NoRead
                ELSE [NoRead EXCEPT !.at = "reading", !.tries = read[r].tries + 1]
<1>1. read \in [Readers -> Reads] /\ FillAttempts \in Nat
  BY CacheConstants DEF IInv, TypeOK, Reads
<1>2. read[r].tries + 1 \in 0..FillAttempts
  BY <1>1 DEF Reads
<1>3. v \in Reads /\ v.at \in {"idle", "reading"} /\ (v.at = "idle" => v.tries = 0)
  <2>1. CASE copy[Host[r]] # "none"
    BY <1>1, <2>1 DEF Reads, NoRead, Values
  <2>2. CASE copy[Host[r]] = "none"
    BY <1>2, <2>2 DEF Reads, NoRead, Values
  <2> QED BY <2>1, <2>2
<1>4. read' = [read EXCEPT ![r] = v]
  BY DEF Turn
<1>5. Cached
  BY DEF IInv, ReadInv
<1> HIDE DEF v
<1>6. Goes(r, v)
  BY <1>3, <1>4, <1>5 DEF Goes
<1> QED BY <1>6

LEMMA EndGoes ==
    ASSUME NEW r \in Readers, read' = [read EXCEPT ![r] = NoRead]
    PROVE  \E v : Goes(r, v)
<1>1. NoRead \in Reads /\ NoRead.at = "idle" /\ NoRead.tries = 0
  BY CacheConstants DEF NoRead, Reads, Values
<1>2. Goes(r, NoRead)
  BY <1>1 DEF Goes
<1> QED BY <1>2

LEMMA ReaderKept ==
    ASSUME IInv, NEW r \in Readers,
           MissCache(r) \/ Enter(r) \/ Select(r) \/ Retry(r) \/ Cancel(r)
    PROVE  IInv'
<1>1. read \in [Readers -> Reads] /\ FillAttempts \in Nat \ {0}
  BY CacheConstants DEF IInv, TypeOK, Reads
<1>2. /\ read[r].at \in {"idle", "waiting"} => read[r].tries = 0
      /\ ~Cached => read[r].at = "idle"
  BY DEF IInv, ReadInv
<1>3. \E v : Goes(r, v)
  <2>1. CASE MissCache(r)
    <3> DEFINE v == [read[r] EXCEPT !.at = "waiting"]
    <3>1. v \in Reads /\ v.at = "waiting" /\ v.tries = 0
      BY <1>1, <1>2, <2>1 DEF Reads, MissCache
    <3>2. read' = [read EXCEPT ![r] = v] /\ Cached
      BY <2>1 DEF MissCache
    <3> HIDE DEF v
    <3>3. Goes(r, v)
      BY <3>1, <3>2 DEF Goes
    <3> QED BY <3>3
  <2>2. CASE Enter(r)
    <3>1. Turn(r) /\ read[r].tries < FillAttempts /\ read[r].at # "idle"
      BY <1>1, <1>2, <2>2 DEF Enter
    <3> QED BY <3>1, TurnGoes
  <2>3. CASE Select(r)
    <3> DEFINE v == [read[r] EXCEPT !.at = "read", !.val = "current"]
    <3>1. v \in Reads /\ v.at = "read" /\ v.val = "current"
      BY <1>1, <2>3 DEF Reads, Values
    <3>2. read' = [read EXCEPT ![r] = v] /\ Cached
      BY <1>1, <1>2, <2>3 DEF Select
    <3> HIDE DEF v
    <3>3. Goes(r, v)
      BY <3>1, <3>2 DEF Goes
    <3> QED BY <3>3
  <2>4. CASE Retry(r)
    <3>1. CASE read[r].tries < FillAttempts
      <4>1. Turn(r) /\ read[r].at # "idle"
        BY <2>4, <3>1 DEF Retry
      <4> QED BY <3>1, <4>1, TurnGoes
    <3>2. CASE ~(read[r].tries < FillAttempts)
      <4>1. read' = [read EXCEPT ![r] = NoRead]
        BY <2>4, <3>2 DEF Retry
      <4> QED BY <4>1, EndGoes
    <3> QED BY <3>1, <3>2
  <2>5. CASE Cancel(r)
    <3>1. read' = [read EXCEPT ![r] = NoRead]
      BY <2>5 DEF Cancel
    <3> QED BY <3>1, EndGoes
  <2> QED BY <2>1, <2>2, <2>3, <2>4, <2>5
<1>4. UNCHANGED <<tx, kind, load, inbox, news, due, copy, life>>
  BY DEF MissCache, Enter, Select, Retry, Cancel, Unchanged
<1>5. read' \in [Readers -> Reads]
  BY <1>1, <1>3 DEF Goes
<1>6. TypeOK'
  BY <1>4, <1>5 DEF IInv, TypeOK, Reads, Cached
<1>7. ReadInv'
  BY <1>1, <1>3, <1>4 DEF IInv, ReadInv, Cached, Goes
<1> QED BY <1>4, <1>6, <1>7 DEF IInv, TxInv, LoadInv, NoStaleKept, RunInv, Cached

\* What is stored now is current, or its worker has an invalidation to come.
LEMMA StoreKept ==
    ASSUME IInv, NEW r \in Readers, Store(r)
    PROVE  IInv'
<1>1. read \in [Readers -> Reads] /\ NoRead \in Reads /\ TTL \in Nat \ {0} /\ Host[r] \in Workers
  BY CacheConstants, TaskFacts DEF IInv, TypeOK, Reads, NoRead, Values
<1>2. Cached /\ (read[r].val = "old" => Host[r] \in due) /\ read[r].val \in Values
  BY <1>1 DEF IInv, ReadInv, Store, Reads
<1>3. UNCHANGED <<tx, kind, load, inbox, news, due>>
  BY DEF Store, Unchanged
<1>4. TypeOK'
  <2>1. read' \in [Readers -> Reads]
    BY <1>1 DEF Store
  <2>2. copy' \in [Workers -> Values \cup {"none"}] /\ life' \in [Workers -> 0..TTL]
    BY <1>1, <1>2 DEF IInv, TypeOK, Store
  <2>3. \A w \in Workers : copy'[w] = "none" <=> life'[w] = 0
    BY <1>1, <1>2 DEF IInv, TypeOK, Store, Values
  <2> QED BY <1>3, <2>1, <2>2, <2>3 DEF IInv, TypeOK, Reads, Cached
<1>5. ReadInv'
  BY <1>1, <1>3 DEF IInv, ReadInv, Store, NoRead, Cached
<1>6. NoStaleKept'
  BY <1>1, <1>2, <1>3 DEF IInv, NoStaleKept, Store, TypeOK
<1> QED BY <1>3, <1>4, <1>5, <1>6 DEF IInv, TxInv, LoadInv, RunInv, Cached

LEMMA TickKept ==
    ASSUME IInv, Tick
    PROVE  IInv'
<1>1. UNCHANGED <<tx, kind, load, inbox, news, due, read>> /\ TTL \in Nat \ {0}
  BY CacheConstants DEF Tick, Unchanged
<1>2. TypeOK'
  <2>1. copy' \in [Workers -> Values \cup {"none"}] /\ life' \in [Workers -> 0..TTL]
    BY <1>1 DEF IInv, TypeOK, Tick
  <2>2. Cached => \A w \in Workers : copy'[w] = "none" <=> life'[w] = 0
    BY <1>1 DEF IInv, TypeOK, Tick
  <2> QED BY <1>1, <2>1, <2>2 DEF IInv, TypeOK, Cached
<1>3. NoStaleKept'
  BY <1>1 DEF IInv, NoStaleKept, Tick
<1> QED BY <1>1, <1>2, <1>3 DEF IInv, TxInv, LoadInv, ReadInv, RunInv, Cached

-----------------------------------------------------------------------------
\* A handler of the bus: whatever it drops is dropped for good.
LEMMA HandleKept ==
    ASSUME IInv, NEW k \in Tasks, load[k].at = "idle", NEW latest \in BOOLEAN,
           Handle(k, latest), UNCHANGED <<kind, news>>, inbox' \in [Workers -> Seq(BOOLEAN)]
    PROVE  /\ LoadInv' /\ ReadInv' /\ NoStaleKept'
           /\ tx' \in [Sessions -> Transactions] => TypeOK'
           /\ due' \subseteq due
           /\ Cached /\ latest => On(k) \notin due'
<1>1. /\ read \in [Readers -> Reads] /\ load \in [Tasks -> Loads] /\ On(k) \in Workers
      /\ \A r \in Readers : Host[r] \in Workers
      /\ due \subseteq Workers
  BY TaskFacts DEF IInv, TypeOK, Reads, Loads
<1>2. /\ load' \in [Tasks -> Loads]
      /\ \A j \in Tasks : j # k => load'[j] = load[j]
      /\ load'[k].at \in {"idle", "waiting", "publish"}
      /\ Cached => load'[k].at \in {"idle", "publish"}
      /\ load'[k].at = "publish" => k[1] = "callback"
  <2>1. CASE Cached
    <3>1. load' = [load EXCEPT ![k] = Handled(k, latest)]
      BY <2>1 DEF Handle
    <3> QED BY <1>1, <3>1, HandledTyped DEF Loads, Values
  <2>2. CASE ~Cached
    <3> DEFINE v == [NoLoad EXCEPT !.at = "waiting", !.latest = latest]
    <3>1. load' = [load EXCEPT ![k] = v]
      BY <2>2 DEF Handle
    <3>2. v \in Loads /\ v.at = "waiting"
      BY DEF NoLoad, Loads, Values
    <3> QED BY <1>1, <2>2, <3>1, <3>2
  <2> QED BY <2>1, <2>2
<1>3. CASE ~Cached
  <2>1. UNCHANGED <<copy, life, read, due, kind, news>>
    BY <1>3 DEF Handle
  <2>2. LoadInv'
    BY <1>1, <1>2, <2>1 DEF IInv, LoadInv, Cached
  <2>3. tx' \in [Sessions -> Transactions] => TypeOK'
    BY <1>2, <2>1 DEF IInv, TypeOK, Cached, Loads
  <2> QED BY <1>3, <2>1, <2>2, <2>3 DEF IInv, ReadInv, NoStaleKept, Cached
<1>4. CASE Cached
  <2>1. /\ copy' = [copy EXCEPT ![On(k)] = "none"]
        /\ life' = [life EXCEPT ![On(k)] = 0]
        /\ read' = [r \in Readers |-> IF Host[r] = On(k) /\ Reading(r)
                                      THEN [read[r] EXCEPT !.raced = TRUE] ELSE read[r]]
        /\ due' = IF latest THEN due \ {On(k)} ELSE due
    BY <1>4 DEF Handle, Forget
  <2>2. LoadInv'
    BY <1>2, <1>4 DEF IInv, LoadInv, Cached
  <2>3. /\ read' \in [Readers -> Reads]
        /\ \A r \in Readers : /\ read'[r].at = read[r].at /\ read'[r].val = read[r].val
                              /\ read'[r].tries = read[r].tries
                              /\ read'[r].raced = (read[r].raced \/ (Host[r] = On(k) /\ Reading(r)))
    BY <1>1, <2>1 DEF Reads
  <2>4. ReadInv'
    BY <1>4, <2>1, <2>3 DEF IInv, ReadInv, Cached, Reading
  <2>5. NoStaleKept'
    BY <1>1, <2>1 DEF IInv, NoStaleKept, TypeOK
  <2>6. tx' \in [Sessions -> Transactions] => TypeOK'
    <3>1. /\ copy' \in [Workers -> Values \cup {"none"}]
          /\ TTL \in Nat /\ life' \in [Workers -> 0..TTL]
          /\ \A w \in Workers : copy'[w] = "none" <=> life'[w] = 0
      <4>1. TTL \in Nat /\ 0 \in 0..TTL
        BY CacheConstants
      <4> QED BY <1>1, <1>4, <2>1, <4>1 DEF IInv, TypeOK
    <3>2. due' \subseteq Workers /\ kind' = kind /\ news' = news
      BY <1>1, <2>1
    <3>3. \A j \in Tasks : load'[j].at = "publish" => j[1] = "callback"
      BY <1>2 DEF IInv, TypeOK
    <3> QED BY <1>2, <2>3, <3>1, <3>2, <3>3 DEF IInv, TypeOK, Cached, Loads, Reads
  <2> QED BY <2>1, <2>2, <2>4, <2>5, <2>6
<1> QED BY <1>3, <1>4

LEMMA RunCallbackKept ==
    ASSUME IInv, NEW t \in Sessions, RunCallback(t)
    PROVE  IInv'
<1>1. /\ TxInv' /\ tx' \in [Sessions -> Transactions]
      /\ \A s \in Sessions : tx'[s].at = tx[s].at /\ tx'[s].durable = tx[s].durable
      /\ tx'[t].queued # tx'[t].durable
      /\ \A s \in Sessions : s # t => tx'[s] = tx[s]
  BY TakeKept DEF IInv, RunCallback, TxInv
<1>2. /\ LoadInv' /\ ReadInv' /\ NoStaleKept' /\ TypeOK' /\ due' \subseteq due
      /\ Cached /\ news[t] => Host[t] \notin due'
  <2>1. news[t] \in BOOLEAN /\ inbox' \in [Workers -> Seq(BOOLEAN)]
    BY DEF IInv, TypeOK, RunCallback
  <2> QED BY <1>1, <2>1, TaskFacts, HandleKept DEF RunCallback
<1>3. RunInv'
  BY <1>1, <1>2 DEF IInv, RunInv, RunCallback, Cached
<1> QED BY <1>1, <1>2, <1>3 DEF IInv

LEMMA ReceiveKept ==
    ASSUME IInv, NEW w \in Workers, Receive(w)
    PROVE  IInv'
<1>1. inbox[w] \in Seq(BOOLEAN) /\ inbox[w] # <<>> /\ inbox \in [Workers -> Seq(BOOLEAN)]
  BY DEF IInv, TypeOK, Receive
<1>2. Head(inbox[w]) \in BOOLEAN /\ Tail(inbox[w]) \in Seq(BOOLEAN)
  BY <1>1
<1>3. inbox' \in [Workers -> Seq(BOOLEAN)]
  BY <1>1, <1>2 DEF Receive
<1>4. tx' = tx /\ tx \in [Sessions -> Transactions] /\ UNCHANGED <<kind, news>>
  BY DEF Receive, IInv, TxInv
<1>5. LoadInv' /\ ReadInv' /\ NoStaleKept' /\ TypeOK' /\ due' \subseteq due
  BY <1>2, <1>3, <1>4, TaskFacts, HandleKept DEF Receive
<1> QED BY <1>4, <1>5 DEF IInv, TxInv, RunInv, Cached

\* Messages that are sent or lost change nothing that is kept.
LEMMA MailKept ==
    ASSUME IInv, NEW w \in Workers, NEW t \in Sessions, Publish(t) \/ Disconnect(w)
    PROVE  IInv'
<1>1. /\ UNCHANGED <<tx, kind, copy, life, read, news, due>>
      /\ load' = load \/ load' = [load EXCEPT ![Callback(t)] = NoLoad]
  BY DEF Publish, Disconnect
<1>2. inbox' \in [Workers -> Seq(BOOLEAN)]
  <2>1. CASE Publish(t)
    <3>1. PICK W \in SUBSET Workers :
            inbox' = [v \in Workers |-> IF v \in W
                                        THEN Append(inbox[v], load[Callback(t)].latest)
                                        ELSE inbox[v]]
      BY <2>1 DEF Publish
    <3>2. load[Callback(t)].latest \in BOOLEAN /\ inbox \in [Workers -> Seq(BOOLEAN)]
      BY TaskFacts DEF IInv, TypeOK
    <3>3. \A v \in Workers : Append(inbox[v], load[Callback(t)].latest) \in Seq(BOOLEAN)
      BY <3>2
    <3> QED BY <3>1, <3>2, <3>3
  <2>2. CASE Disconnect(w)
    BY <2>2 DEF Disconnect, IInv, TypeOK
  <2> QED BY <2>1, <2>2
<1>3. /\ load' \in [Tasks -> Loads]
      /\ \A k \in Tasks : load'[k] = load[k] \/ load'[k] = NoLoad
  <2>1. NoLoad \in Loads /\ load \in [Tasks -> Loads]
    BY DEF IInv, TypeOK, Loads, NoLoad, Values
  <2> QED BY <1>1, <2>1
<1>4. TypeOK'
  <2>1. \A k \in Tasks : load'[k].at = "publish" => k[1] = "callback"
    <3>1. NoLoad.at = "idle"
      BY DEF NoLoad
    <3> QED BY <1>3, <3>1 DEF IInv, TypeOK
  <2> QED BY <1>1, <1>2, <1>3, <2>1 DEF IInv, TypeOK, Loads, Cached
<1>5. LoadInv'
  BY <1>1, <1>3 DEF IInv, LoadInv, Cached, NoLoad
<1> QED BY <1>1, <1>4, <1>5 DEF IInv, TxInv, ReadInv, NoStaleKept, RunInv, Cached

-----------------------------------------------------------------------------
\* The steps of a reload up to its end.
LEMMA ReloadKept ==
    ASSUME IInv, NEW k \in Tasks, NEW w \in Workers,
           StartTimer(w) \/ LockReload(k) \/ SelectAll(k) \/ ReloadFails(k)
    PROVE  IInv'
<1>1. load \in [Tasks -> Loads] /\ \A j \in Tasks : load[j].latest \in BOOLEAN
  BY DEF IInv, TypeOK, Loads
<1>2. PICK j \in Tasks :
        /\ load' = [load EXCEPT ![j] = load'[j]]
        /\ load'[j] \in Loads
        /\ load'[j].at = "read" => load'[j].val = "current" /\ load[j].at = "reading"
        /\ load'[j].at = "reading" => LockFree(j)
        /\ load'[j].at = "publish" => j[1] = "callback"
        /\ Cached => load'[j].at \in {"idle", "publish"}
  <2>1. CASE StartTimer(w)
    <3>1. /\ load' = [load EXCEPT ![Timer(w)].at = "waiting"] /\ ~Cached
          /\ Timer(w) \in Tasks
      BY <2>1, TaskFacts DEF StartTimer
    <3> QED BY <1>1, <3>1 DEF Loads
  <2>2. CASE LockReload(k)
    BY <1>1, <2>2 DEF LockReload, Loads, IInv, LoadInv
  <2>3. CASE SelectAll(k)
    BY <1>1, <2>3 DEF SelectAll, Loads, IInv, LoadInv, Values
  <2>4. CASE ReloadFails(k)
    BY <1>1, <2>4, HandledTyped DEF ReloadFails, Loads, Values
  <2> QED BY <2>1, <2>2, <2>3, <2>4
<1>3. UNCHANGED <<tx, kind, copy, life, read, inbox, news, due>>
  BY DEF StartTimer, LockReload, SelectAll, ReloadFails
<1>4. TypeOK'
  <2>1. load' \in [Tasks -> Loads]
    BY <1>1, <1>2
  <2> QED BY <1>2, <1>3, <2>1 DEF IInv, TypeOK, Loads, Cached
<1>5. LoadInv'
  BY <1>1, <1>2, <1>3 DEF IInv, LoadInv, LockFree, Cached
<1> QED BY <1>3, <1>4, <1>5 DEF IInv, TxInv, ReadInv, NoStaleKept, RunInv, Cached

\* Installing the old state does not tick the invalidation off.
LEMMA InstallKept ==
    ASSUME IInv, NEW k \in Tasks, Install(k)
    PROVE  IInv'
<1>1. /\ load \in [Tasks -> Loads] /\ On(k) \in Workers /\ ~Cached
      /\ load[k].latest \in BOOLEAN /\ load[k].val \in Values
      /\ load[k].val = "old" => On(k) \in due /\ ~load[k].latest
      /\ copy \in [Workers -> Values \cup {"none"}] /\ due \subseteq Workers
  BY TaskFacts DEF IInv, TypeOK, LoadInv, Install, Loads
<1>2. /\ load' \in [Tasks -> Loads]
      /\ \A j \in Tasks : j # k => load'[j] = load[j]
      /\ load'[k].at \in {"idle", "publish"}
      /\ load'[k].at = "publish" => k[1] = "callback"
  BY <1>1, HandledTyped DEF Install, Loads, Values
<1>3. UNCHANGED <<tx, kind, life, read, inbox, news>> /\ due' \subseteq due
  BY DEF Install
<1>4. TypeOK'
  <2>1. copy' \in [Workers -> Values \cup {"none"}]
    BY <1>1 DEF Install
  <2> QED BY <1>1, <1>2, <1>3, <2>1 DEF IInv, TypeOK, Loads, Cached
<1>5. LoadInv'
  <2>1. \A j \in Tasks : load[j].at = "read" /\ On(j) = On(k) => j = k
    BY DEF IInv, LoadInv, Install
  <2>2. \A j \in Tasks : j # k /\ load[j].at = "read" /\ On(j) \in due => On(j) \in due'
    BY <2>1 DEF Install
  <2> QED BY <1>1, <1>2, <1>3, <2>2 DEF IInv, LoadInv, Cached
<1>6. NoStaleKept'
  BY <1>1 DEF IInv, NoStaleKept, Install
<1> QED BY <1>1, <1>3, <1>4, <1>5, <1>6 DEF IInv, TxInv, ReadInv, RunInv, Cached

-----------------------------------------------------------------------------
\* A commit makes every copy old, and every worker owes it an invalidation.
LEMMA SupersedeKept ==
    ASSUME IInv, NEW S, Supersede(S), tx' \in [Sessions -> Transactions]
    PROVE  /\ TypeOK' /\ LoadInv' /\ ReadInv' /\ NoStaleKept'
           /\ \A t \in Sessions : news'[t] = (t \in S)
           /\ kind' = kind
<1> USE DEF Supersede
<1>1. /\ read \in [Readers -> Reads] /\ load \in [Tasks -> Loads]
      /\ inbox \in [Workers -> Seq(BOOLEAN)]
      /\ copy \in [Workers -> Values \cup {"none"}]
      /\ \A r \in Readers : Host[r] \in Workers
      /\ \A k \in Tasks : On(k) \in Workers
  BY TaskFacts DEF IInv, TypeOK, Reads, Loads
<1>2. /\ read' \in [Readers -> Reads]
      /\ \A r \in Readers : /\ read'[r].at = read[r].at /\ read'[r].tries = read[r].tries
                            /\ read'[r].val = "old"
  BY <1>1 DEF Reads, Values
<1>3. /\ load' \in [Tasks -> Loads]
      /\ \A k \in Tasks : load'[k].at = load[k].at /\ load'[k].val = "old" /\ ~load'[k].latest
  BY <1>1 DEF Loads, Values
<1>4. inbox' \in [Workers -> Seq(BOOLEAN)]
  BY <1>1, Forgotten
<1>5. /\ copy' \in [Workers -> Values \cup {"none"}]
      /\ \A w \in Workers : copy'[w] = "none" <=> copy[w] = "none"
  BY <1>1 DEF Values
<1>6. TypeOK'
  <2>1. \A k \in Tasks : load'[k].at = "publish" => k[1] = "callback"
    BY <1>3 DEF IInv, TypeOK
  <2>2. news' \in [Sessions -> BOOLEAN]
    <3>1. news' = [s \in Sessions |-> s \in S]
      BY Zenon
    <3> HIDE DEF Supersede
    <3> QED BY <3>1, ToldTyped, Zenon
  <2>3. due' \subseteq Workers /\ UNCHANGED <<kind, life>>
    OBVIOUS
  <2>4. Cached => \A w \in Workers : copy'[w] = "none" <=> life'[w] = 0
    BY <1>5, <2>3 DEF IInv, TypeOK
  <2> HIDE DEF Supersede
  <2> QED BY <1>2, <1>3, <1>4, <1>5, <2>1, <2>2, <2>3, <2>4
          DEF IInv, TypeOK, Cached, Reads, Loads
<1>7. LoadInv'
  BY <1>1, <1>3 DEF IInv, LoadInv, Cached
<1>8. ReadInv'
  BY <1>1, <1>2 DEF IInv, ReadInv, Cached
<1>9. NoStaleKept'
  BY DEF NoStaleKept
<1> QED BY <1>6, <1>7, <1>8, <1>9

\* Commits that change the row.
LEMMA ChangesKept ==
    ASSUME IInv, NEW t \in Sessions,
           \/ WriteThrough(t)
           \/ Finalize(t)
           \/ FinalizeUnseen(t)
    PROVE  IInv'
<1>1. CASE WriteThrough(t)
  <2>1. CommitInside(t) /\ Supersede({t})
    BY <1>1 DEF WriteThrough
  <2>2. TxInv'
    BY <2>1, CommitInsideKept DEF IInv
  <2>3. /\ TypeOK' /\ LoadInv' /\ ReadInv' /\ NoStaleKept'
        /\ \A s \in Sessions : news'[s] = (s = t)
    BY <2>1, <2>2, SupersedeKept DEF TxInv
  <2>4. tx'[t].at = "open"
    BY <2>1 DEF CommitInside, Landed, IInv, TxInv, Transactions
  <2>5. RunInv'
    BY <2>3, <2>4 DEF RunInv
  <2> QED BY <2>2, <2>3, <2>5 DEF IInv
<1>2. CASE Finalize(t)
  <2>1. /\ TxInv' /\ tx'[t].at = "calling" /\ tx'[t].queued = tx'[t].durable
        /\ \A s \in Sessions : s # t => tx'[s] = tx[s]
    BY <1>2, CommitKept DEF Finalize, Commit, IInv, TxInv
  <2>2. CASE Live(t) # {}
    <3>1. /\ TypeOK' /\ LoadInv' /\ ReadInv' /\ NoStaleKept'
          /\ \A s \in Sessions : news'[s] = (s = t)
      BY <1>2, <2>1, <2>2, SupersedeKept DEF TxInv, Finalize
    <3>2. RunInv'
      BY <2>1, <3>1 DEF RunInv
    <3> QED BY <2>1, <3>1, <3>2 DEF IInv
  <2>3. CASE Live(t) = {}
    <3>1. UNCHANGED <<kind, copy, life, read, load, inbox, news, due>>
      BY <1>2, <2>3 DEF Finalize, NoChange
    <3>2. RunInv'
      BY <2>1, <3>1 DEF IInv, RunInv, Cached
    <3> QED BY <2>1, <3>1, <3>2 DEF IInv, TypeOK, LoadInv, ReadInv, NoStaleKept, Cached, TxInv
  <2> QED BY <2>2, <2>3
<1>3. CASE FinalizeUnseen(t)
  <2>1. Discard(t) /\ Supersede({})
    BY <1>3 DEF FinalizeUnseen
  <2>2. TxInv'
    BY <2>1, DiscardKept DEF IInv
  <2>3. /\ TypeOK' /\ LoadInv' /\ ReadInv' /\ NoStaleKept'
        /\ \A s \in Sessions : news'[s] = (s \in {})
    BY <2>1, <2>2, SupersedeKept DEF TxInv
  <2>4. RunInv'
    BY <2>3 DEF RunInv
  <2> QED BY <2>2, <2>3, <2>4 DEF IInv
<1> QED BY <1>1, <1>2, <1>3

LEMMA WorkOpen ==
    ASSUME TxInv, NEW t \in Sessions, Work(t)
    PROVE  tx'[t].at = "open" /\ \A s \in Sessions : s # t => tx'[s] = tx[s]
<1>1. tx \in [Sessions -> Transactions] /\ tx[t] \in Transactions
  BY DEF TxInv
<1>2. CASE Begin(t)
  BY <1>1, <1>2 DEF Begin, Transactions
<1>3. CASE Write(t)
  BY <1>1, <1>3 DEF Write, Transactions
<1>4. CASE OpenSavepoint(t)
  BY <1>1, <1>4 DEF OpenSavepoint, Transactions
<1>5. CASE Release(t)
  BY <1>1, <1>5 DEF Release, Transactions
<1>6. CASE RollbackTo(t)
  BY <1>1, <1>6 DEF RollbackTo, Transactions
<1> QED BY <1>2, <1>3, <1>4, <1>5, <1>6 DEF Work

\* What a request does before and after its commit.
LEMMA RequestKept ==
    ASSUME IInv, NEW t \in Sessions, Work(t) \/ GiveUp(t) \/ Reply(t)
    PROVE  IInv'
<1>1. /\ TxInv' /\ tx'[t].at # "calling"
      /\ \A s \in Sessions : s # t => tx'[s] = tx[s]
      /\ UNCHANGED <<kind, copy, life, read, load, inbox, due>>
      /\ news' = news \/ news' = [news EXCEPT ![t] = FALSE]
  <2>1. CASE Work(t)
    <3>1. TxInv'
      BY <2>1, BeginKept, WriteKept, OpenSavepointKept, ReleaseKept, RollbackKept DEF Work, IInv
    <3>2. tx'[t].at = "open" /\ \A s \in Sessions : s # t => tx'[s] = tx[s]
      BY <2>1, WorkOpen DEF IInv
    <3> QED BY <2>1, <3>1, <3>2 DEF Work, NoChange
  <2>2. CASE GiveUp(t) \/ Reply(t)
    <3>1. TxInv'
      BY <2>2, DiscardKept DEF GiveUp, Reply, IInv
    <3>2. tx' = [tx EXCEPT ![t] = NoTx] /\ NoTx.at = "idle"
      BY <2>2 DEF GiveUp, Reply, Discard, Finished, NoTx
    <3>3. tx'[t] = NoTx /\ \A s \in Sessions : s # t => tx'[s] = tx[s]
      BY <3>2 DEF IInv, TxInv
    <3>4. /\ UNCHANGED <<kind, copy, life, read, load, inbox, due>>
          /\ news' = [news EXCEPT ![t] = FALSE]
      BY <2>2 DEF GiveUp, Reply, Close
    <3> QED BY <3>1, <3>2, <3>3, <3>4
  <2> QED BY <2>1, <2>2
<1>2. TypeOK'
  BY <1>1 DEF IInv, TypeOK, Cached, TxInv
<1>3. RunInv'
  BY <1>1 DEF IInv, RunInv, Cached, TypeOK
<1> QED BY <1>1, <1>2, <1>3 DEF IInv, LoadInv, ReadInv, NoStaleKept, Cached

LEMMA CrashKept ==
    ASSUME IInv, NEW w \in Workers, Crash(w)
    PROVE  IInv'
<1> USE DEF Crash
<1>1. /\ \A r \in Readers : Host[r] \in Workers
      /\ \A k \in Tasks : On(k) \in Workers
      /\ TTL \in Nat /\ FillAttempts \in Nat
  BY TaskFacts, CacheConstants
<1>2. TxInv'
  BY NoTxTyped DEF IInv, TxInv
<1>3. TypeOK'
  <2>1. copy' \in [Workers -> Values \cup {"none"}] /\ life' \in [Workers -> 0..TTL]
    BY <1>1 DEF IInv, TypeOK, Boot, Values
  <2>2. Cached => \A v \in Workers : copy'[v] = "none" <=> life'[v] = 0
    BY DEF IInv, TypeOK, Boot
  <2>3. read' \in [Readers -> Reads]
    BY <1>1 DEF IInv, TypeOK, NoRead, Reads, Values
  <2>4. load' \in [Tasks -> Loads] /\ \A k \in Tasks : load'[k].at = "publish" => k[1] = "callback"
    BY DEF IInv, TypeOK, NoLoad, Loads, Values
  <2>5. inbox' \in [Workers -> Seq(BOOLEAN)] /\ news' \in [Sessions -> BOOLEAN]
    BY DEF IInv, TypeOK
  <2> QED BY <1>2, <2>1, <2>2, <2>3, <2>4, <2>5 DEF IInv, TypeOK, Cached, TxInv, Reads, Loads
<1>4. LoadInv'
  BY <1>1 DEF IInv, LoadInv, Cached, NoLoad
<1>5. ReadInv'
  BY <1>1 DEF IInv, ReadInv, Cached, NoRead
<1>6. NoStaleKept'
  BY DEF IInv, NoStaleKept, Boot, TypeOK
<1>7. RunInv'
  BY DEF IInv, RunInv, NoTx, Cached
<1> QED BY <1>2, <1>3, <1>4, <1>5, <1>6, <1>7 DEF IInv

-----------------------------------------------------------------------------
LEMMA NextKept == IInv /\ [Next]_vars => IInv'
<1> SUFFICES ASSUME IInv, [Next]_vars PROVE IInv'
  OBVIOUS
<1>1. CASE UNCHANGED vars
  BY <1>1 DEF vars, IInv, TxInv, TypeOK, LoadInv, ReadInv, NoStaleKept, RunInv, Cached
<1>2. ASSUME NEW r \in Readers, ReaderStep(r) PROVE IInv'
  BY <1>2, ReaderKept, StoreKept DEF ReaderStep
<1>3. ASSUME NEW t \in Sessions, WriterStep(t) PROVE IInv'
  <2>1. Host[t] \in Workers
    BY TaskFacts
  <2> QED BY <1>3, <2>1, RequestKept, ChangesKept, RunCallbackKept, MailKept DEF WriterStep
<1>4. ASSUME NEW k \in Tasks, ReloadStep(k) PROVE IInv'
  <2>1. On(k) \in Workers
    BY TaskFacts
  <2> QED BY <1>4, <2>1, ReloadKept, InstallKept DEF ReloadStep
<1>5. ASSUME NEW w \in Workers, Receive(w) \/ Disconnect(w) \/ StartTimer(w) \/ Crash(w)
      PROVE  IInv'
  <2>1. CASE Receive(w) BY <2>1, ReceiveKept
  <2>2. CASE Disconnect(w)
    <3>1. /\ UNCHANGED <<tx, kind, copy, life, read, load, news, due>>
          /\ inbox' \in [Workers -> Seq(BOOLEAN)]
      BY <2>2 DEF Disconnect, IInv, TypeOK
    <3> QED BY <3>1 DEF IInv, TxInv, TypeOK, LoadInv, ReadInv, NoStaleKept, RunInv, Cached
  <2>3. CASE StartTimer(w)
    <3>1. Timer(w) \in Tasks
      BY TaskFacts
    <3> QED BY <2>3, <3>1, ReloadKept
  <2>4. CASE Crash(w) BY <2>4, CrashKept
  <2> QED BY <1>5, <2>1, <2>2, <2>3, <2>4
<1>6. CASE Tick
  BY <1>6, TickKept
<1> QED BY <1>1, <1>2, <1>3, <1>4, <1>5, <1>6 DEF Next

LEMMA Inductive == Spec => []IInv
<1>1. Init => IInv
  BY InitIInv
<1>2. IInv /\ [Next]_vars => IInv'
  BY NextKept
<1> QED BY <1>1, <1>2, PTL DEF Spec

\* Only the reply ends a request whose callbacks run.
LEMMA CallingLasts ==
    ASSUME IInv, [Next]_vars, NEW t \in Sessions, tx[t].at = "calling",
           ~Reply(t), ~\E w \in Workers : Crash(w)
    PROVE  tx'[t].at = "calling"
<1>1. CASE UNCHANGED tx
  BY <1>1
<1>2. ASSUME NEW s \in Sessions, WriterStep(s), s # t
      PROVE  tx'[t] = tx[t]
  <2>1. CASE Work(s)
    BY <1>2, <2>1, WorkOpen DEF IInv
  <2>2. CASE RunCallback(s)
    BY <1>2, <2>2, TakeKept DEF IInv, RunCallback
  <2>3. CASE ~Work(s) /\ ~RunCallback(s)
    BY <1>2, <2>3 DEF WriterStep, WriteThrough, Finalize, FinalizeUnseen, GiveUp, Publish, Reply,
                      CommitInside, Commit, Discard, Finished, IInv, TxInv
  <2> QED BY <2>1, <2>2, <2>3
<1>3. CASE WriterStep(t)
  <2>1. RunCallback(t) \/ Publish(t)
    BY <1>3 DEF WriterStep, Work, WriteThrough, Finalize, FinalizeUnseen, GiveUp,
                Begin, Write, OpenSavepoint, Release, RollbackTo, CommitInside, Commit, Discard
  <2> QED BY <2>1, TakeKept DEF IInv, RunCallback, Publish
<1>4. UNCHANGED tx \/ \E s \in Sessions : WriterStep(s)
  BY DEF vars, Next, ReaderStep, ReloadStep, MissCache, Enter, Select, Store, Retry, Cancel,
         Unchanged, Tick, LockReload, SelectAll, Install, ReloadFails, Receive, Disconnect, StartTimer
<1> QED BY <1>1, <1>2, <1>3, <1>4

\* Every variable of the sessions, the workers and their buses keeps its type, and a
\* cache entry exists exactly as long as it has time left.
THEOREM TypeCorrect == Spec => []TypeOK
<1>1. IInv => TypeOK
  BY DEF IInv
<1> QED BY <1>1, Inductive, PTL

\* After any nesting of savepoints, released or rolled back, and commits inside the
\* request, the session's marks and queued callbacks are those of the writes that
\* have not been undone (writes.py, callbacks.py).
THEOREM CallbacksFollowWrites == Spec => []WritesTracked
<1>1. IInv => WritesTracked
  BY KeptTracked DEF IInv
<1> QED BY <1>1, Inductive, PTL

\* For any number of readers and reloads under way, a worker that has applied the
\* latest invalidation holds nothing older (singleflight.py, invalidation_refresh.py).
THEOREM StaleNeverReturns == Spec => []NoStaleKept
<1>1. IInv => NoStaleKept
  BY DEF IInv
<1> QED BY <1>1, Inductive, PTL

\* A request is answered only after its worker has dropped what its commit made old
\* (finalize_session runs the callbacks before the response goes out).
THEOREM OwnReadsFresh == Spec => OwnWorkerFresh
<1> DEFINE A == \A t \in Sessions :
                  Cached /\ tx[t].at = "calling" /\ tx'[t].at = "idle" /\ news[t]
                  /\ tx[t].durable # {} => copy'[Host[t]] # "old"
<1>1. IInv /\ [Next]_vars => A
  <2> SUFFICES ASSUME IInv, [Next]_vars, NEW t \in Sessions,
                      Cached, tx[t].at = "calling", tx'[t].at = "idle", news[t], tx[t].durable # {}
               PROVE  copy'[Host[t]] # "old"
    OBVIOUS
  <2>1. CASE Reply(t)
    <3>1. Host[t] \notin due
      BY <2>1 DEF IInv, RunInv, Reply, Finished
    <3> QED BY <2>1, <3>1, TaskFacts DEF Reply, Close, IInv, NoStaleKept
  <2>2. CASE \E w \in Workers : Crash(w)
    <3>1. PICK w \in Workers : Crash(w)
      BY <2>2
    <3>2. Host[t] = w
      BY <3>1 DEF Crash
    <3> QED BY <3>1, <3>2 DEF Crash, Boot, IInv, TypeOK
  <2>3. CASE ~Reply(t) /\ ~\E w \in Workers : Crash(w)
    BY <2>3, CallingLasts
  <2> QED BY <2>1, <2>2, <2>3
<1> QED BY <1>1, Inductive, PTL DEF Spec, OwnWorkerFresh
=============================================================================
