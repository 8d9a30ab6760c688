------------------------ MODULE TenantMembershipProofs ------------------------
(***************************************************************************)
(* Proofs about TenantMembership, for any number of users, seats and       *)
(* requests.                                                               *)
(*                                                                         *)
(* The inductive invariant IInv says which locks exclude which (LockInv,   *)
(* HoldInv), what a transaction may still rely on when it commits          *)
(* (InviteInv, MemberInv, OwnerInv), and which seats are spoken for        *)
(* (SeatInv).                                                              *)
(***************************************************************************)
EXTENDS TenantMembership, FiniteSetTheorems, TLAPS

\* The tenant row: one transaction has it FOR UPDATE, or some share it.
LockInv ==
    /\ \A t, q \in Requests : t \in Locking /\ q \in Locking => t = q
    /\ \A t \in Requests : t \in Locking => ~PurgeLocks
    /\ \A t, q \in Requests : t \in Locking => q \notin Sharing
    /\ \A t \in Requests : PurgeLocks => t \notin Sharing

\* An invitation has one holder, ...
HoldInv ==
    \A t, q \in Requests, u \in Users : HoldsInvite(t, u) /\ HoldsInvite(q, u) => t = q

\* ... who still finds it as the lock found it, but for its age.
InviteInv ==
    \A t \in Requests :
        tx[t].at \in {"revoked", "accepting", "joined"}
        => invite[tx[t].user] \in {"pending", "expired"}

\* A join finds no membership, and a change finds the one it read.
MemberInv ==
    \A t \in Requests :
        /\ tx[t].at = "joined" => member[tx[t].user] = "none"
        /\ tx[t].at = "changed" => /\ member[tx[t].user] # "none"
                                   /\ ~(purge.at = "deleted" /\ purge.user = tx[t].user)

\* The other owner that a change or a purge has seen is still one.
OwnerInv ==
    /\ \A t \in Requests :
          tx[t].at = "changed" /\ member[tx[t].user] = "owner"
          => Owners \ {tx[t].user} # {} \/ blind # {}
    /\ purge.at = "deleted" /\ purge.owned /\ ~purge.orphan => Owners \ {purge.user} # {}

\* The users whose seat is reserved: a join under way keeps the seat of its invitation.
Joining == {u \in Users : \E t \in Requests : tx[t].at = "joined" /\ tx[t].user = u /\ ~tx[t].late}
Claims == Pending \cup Joining

SeatInv ==
    /\ Cardinality(Members \ late) + Cardinality(Claims) <= Seats
    /\ \A t \in Requests :
          tx[t].at = "invited" => Cardinality(Members) + Cardinality(Pending) + 1 <= Seats

IInv == TypeOK /\ LockInv /\ HoldInv /\ InviteInv /\ MemberInv /\ OwnerInv /\ SeatInv

-----------------------------------------------------------------------------
(* Sizes of sets of users *)

LEMMA Finite ==
    ASSUME NEW S \in SUBSET Users
    PROVE  IsFiniteSet(S) /\ Cardinality(S) \in Nat
<1>1. IsFiniteSet(S)
  BY MembershipConstants, FS_Subset
<1> QED BY <1>1, FS_CardinalityType

LEMMA Smaller ==
    ASSUME NEW S \in SUBSET Users, NEW T \in SUBSET S
    PROVE  Cardinality(T) <= Cardinality(S)
BY Finite, FS_Subset

LEMMA OneMore ==
    ASSUME NEW S \in SUBSET Users, NEW u \in Users
    PROVE  Cardinality(S \cup {u}) <= Cardinality(S) + 1
<1>1. Cardinality(S \cup {u}) = IF u \in S THEN Cardinality(S) ELSE Cardinality(S) + 1
  BY Finite, FS_AddElement
<1> QED BY <1>1, Finite

LEMMA OneLess ==
    ASSUME NEW S \in SUBSET Users, NEW u \in S
    PROVE  Cardinality(S \ {u}) = Cardinality(S) - 1
BY Finite, FS_RemoveElement

-----------------------------------------------------------------------------
Txs == [at : {"idle", "changed", "inviting", "invited", "revoked",
              "accepting", "joined", "closing", "closed"},
        user : Users \cup {NoUser}, role : Roles \cup {"none"}, late : BOOLEAN]
Purges == [at : {"idle", "snapshot", "locked", "deleted"},
           user : Users \cup {NoUser}, owned : BOOLEAN, gone : BOOLEAN, orphan : BOOLEAN]

LEMMA InitIInv == Init => IInv
<1> SUFFICES ASSUME Init PROVE IInv
  OBVIOUS
<1> USE MembershipConstants DEF Init
<1>1. TypeOK
  BY DEF TypeOK, Roles, NoTx, NoPurge, Purging
<1>2. LockInv /\ HoldInv /\ InviteInv /\ MemberInv /\ OwnerInv
  BY DEF LockInv, HoldInv, InviteInv, MemberInv, OwnerInv, Locking, Sharing, PurgeLocks,
         HoldsInvite, NoTx, NoPurge
<1>3. SeatInv
  <2>1. Claims = {}
    BY DEF Claims, Pending, Joining, NoTx
  <2>2. Members \ late \subseteq {Founder}
    BY DEF Members
  <2>3. Cardinality(Members \ late) <= 1
    <3>1. {Founder} \in SUBSET Users /\ Members \ late \in SUBSET {Founder}
      BY <2>2
    <3>2. Cardinality({Founder}) = 1
      BY FS_Singleton
    <3> QED BY <3>1, <3>2, Smaller
  <2>4. Cardinality(Members \ late) + Cardinality(Claims) <= Seats
    <3>1. Members \ late \in SUBSET Users
      BY DEF Members
    <3> QED BY <2>1, <2>3, <3>1, Finite, FS_EmptySet
  <2> QED BY <2>4 DEF SeatInv, NoTx
<1> QED BY <1>1, <1>2, <1>3 DEF IInv

-----------------------------------------------------------------------------
(* Steps of a request that write no row: only its transaction changes.     *)

\* the transaction of t becomes v, on the way to its commit
Moves(t, v) ==
    /\ v \in Txs
    /\ v.at \notin {"idle", "closing", "closed"} => v.user \in Users
    /\ tx' = [tx EXCEPT ![t] = v]
    /\ UNCHANGED <<tenant, member, invite, account, tries, purge, late, blind>>

\* and v keeps to the protocol of the locks
Sound(t, v) ==
    /\ v.at \in {"changed", "inviting", "invited", "closing", "closed"}
       => tx[t].at \in {"inviting", "closing"} \/ TenantFree
    /\ v.at = "joined" => NoForUpdate /\ member[v.user] = "none"
    /\ v.at \in {"revoked", "accepting", "joined"} => invite[v.user] \in {"pending", "expired"}
    /\ v.at \in {"invited", "revoked", "accepting", "joined"} =>
         \/ InviteFree(v.user)
         \/ HoldsInvite(t, v.user)
         \/ tx[t].at = "inviting" /\ invite[v.user] \in {"none", "used"}
    /\ v.at = "closed" => \A u \in Users : invite[u] = "none" \/ InviteFree(u)
    /\ v.at = "closed" => tx[t].at = "closing"
    /\ v.at = "changed" => /\ member[v.user] # "none" /\ MemberFree(v.user)
                           /\ member[v.user] = "owner" => AnotherOwner(v.user)
    /\ v.at = "invited" => SeatFree
    /\ v.at = "joined" => v.late \/ invite[v.user] = "pending"

LEMMA MovesKept ==
    ASSUME IInv, NEW t \in Requests, NEW v, Moves(t, v), Sound(t, v)
    PROVE  IInv'
<1> USE DEF Moves
<1>0. tx \in [Requests -> Txs] /\ tx' \in [Requests -> Txs]
  BY DEF IInv, TypeOK, Txs
<1>1. TypeOK'
  BY <1>0 DEF IInv, TypeOK, Txs, Purging
<1>2. LockInv'
  <2>1. Locking' \subseteq Locking \cup {t} /\ Sharing' \subseteq Sharing \cup {t}
    BY <1>0 DEF Locking, Sharing
  <2>2. CASE t \in Locking'
    <3>1. t \in Locking \/ TenantFree
      BY <1>0, <2>2 DEF Sound, Locking
    <3>2. t \notin Sharing'
      BY <1>0, <2>2 DEF Locking, Sharing
    <3> QED BY <2>1, <3>1, <3>2 DEF IInv, LockInv, TenantFree, NoForUpdate, PurgeLocks
  <2>3. CASE t \in Sharing'
    <3>1. t \notin Locking'
      BY <1>0, <2>3 DEF Locking, Sharing
    <3>2. NoForUpdate
      BY <1>0, <2>3 DEF Sound, Sharing
    <3> QED BY <2>1, <3>1, <3>2 DEF IInv, LockInv, NoForUpdate, PurgeLocks
  <2>4. CASE t \notin Locking' /\ t \notin Sharing'
    BY <2>1, <2>4 DEF IInv, LockInv, PurgeLocks
  <2> QED BY <2>2, <2>3, <2>4
<1>3. HoldInv'
  <2>1. ASSUME NEW q \in Requests, NEW u \in Users, q # t, HoldsInvite(t, u)', HoldsInvite(q, u)'
        PROVE  FALSE
    <3>1. HoldsInvite(q, u)
      BY <1>0, <2>1 DEF HoldsInvite
    <3>2. ~HoldsInvite(t, u) /\ ~InviteFree(u)
      BY <2>1, <3>1 DEF IInv, HoldInv, InviteFree
    <3>3. CASE v.at = "closed"
      <4>1. tx[t].at = "closing" /\ invite[u] = "none"
        BY <3>2, <3>3 DEF Sound
      <4>2. q \notin Locking
        BY <2>1, <4>1 DEF IInv, LockInv, Locking
      <4> QED BY <3>1, <4>1, <4>2 DEF HoldsInvite, Locking, IInv, InviteInv
    <3>4. CASE v.at # "closed"
      <4>1. v.at \in {"invited", "revoked", "accepting", "joined"} /\ v.user = u
        BY <1>0, <2>1, <3>4 DEF HoldsInvite
      <4>2. tx[t].at = "inviting" /\ invite[u] \in {"none", "used"}
        BY <3>2, <4>1 DEF Sound
      <4>3. q \notin Locking
        BY <2>1, <4>2 DEF IInv, LockInv, Locking
      <4> QED BY <3>1, <4>2, <4>3 DEF HoldsInvite, Locking, IInv, InviteInv
    <3> QED BY <3>3, <3>4
  <2>2. ASSUME NEW p \in Requests, NEW q \in Requests, NEW u \in Users, p # t, q # t,
               HoldsInvite(p, u)', HoldsInvite(q, u)'
        PROVE  p = q
    <3>1. HoldsInvite(p, u) /\ HoldsInvite(q, u)
      BY <1>0, <2>2 DEF HoldsInvite
    <3> QED BY <3>1 DEF IInv, HoldInv
  <2> QED BY <2>1, <2>2 DEF HoldInv
<1>4. InviteInv'
  BY <1>0 DEF IInv, InviteInv, Sound
<1>5. MemberInv'
  BY <1>0 DEF IInv, MemberInv, Sound, MemberFree
<1>6. OwnerInv'
  BY <1>0 DEF IInv, OwnerInv, Sound, AnotherOwner, Owners
<1>7. SeatInv'
  <2>1. Claims' \subseteq Claims
    <3> SUFFICES ASSUME NEW u \in Joining' PROVE u \in Claims
      BY DEF Claims, Pending
    <3>1. PICK q \in Requests : tx'[q].at = "joined" /\ tx'[q].user = u /\ ~tx'[q].late
      BY DEF Joining
    <3>2. u \in Users
      BY DEF Joining
    <3> QED BY <1>0, <3>1, <3>2 DEF Claims, Pending, Joining, Sound
  <2>2. Cardinality(Claims') <= Cardinality(Claims)
    BY <2>1, Smaller DEF Claims, Pending, Joining
  <2>3. Members' = Members /\ Pending' = Pending
    BY DEF Members, Pending
  <2>4. /\ Cardinality(Members \ late) \in Nat /\ Cardinality(Claims) \in Nat
        /\ Cardinality(Claims') \in Nat
        /\ Cardinality(Members) \in Nat /\ Cardinality(Pending) \in Nat
    <3>1. Members \subseteq Users /\ Pending \subseteq Users /\ Claims \subseteq Users
          /\ Claims' \subseteq Users
      BY DEF Members, Pending, Claims, Joining
    <3> QED BY <3>1, Finite
  <2>5. Seats \in Nat
    BY MembershipConstants
  <2>6. Cardinality(Members' \ late') + Cardinality(Claims') <= Seats
    BY <2>2, <2>3, <2>4, <2>5 DEF IInv, SeatInv
  <2>7. ASSUME NEW q \in Requests, tx'[q].at = "invited"
        PROVE  Cardinality(Members) + Cardinality(Pending) + 1 <= Seats
    <3>1. CASE q = t
      BY <1>0, <2>4, <2>5, <2>7, <3>1 DEF Sound, SeatFree
    <3>2. CASE q # t
      BY <1>0, <2>7, <3>2 DEF IInv, SeatInv
    <3> QED BY <3>1, <3>2
  <2> QED BY <2>3, <2>6, <2>7 DEF SeatInv
<1> QED BY <1>1, <1>2, <1>3, <1>4, <1>5, <1>6, <1>7 DEF IInv

\* Every step of a request short of its commit is such a move.
LEMMA RequestMoves ==
    ASSUME IInv, NEW t \in Requests, RequestStep(t), ~Commit(t)
    PROVE  \E v : Moves(t, v) /\ Sound(t, v)
<1>0. /\ tx \in [Requests -> Txs]
      /\ tx[t].at \notin {"idle", "closing", "closed"} => tx[t].user \in Users
  BY DEF IInv, TypeOK, Txs
<1>1. ASSUME NEW u \in Users, NEW r \in Roles \cup {"none"}, ChangeMember(t, u, r)
      PROVE  \E v : Moves(t, v) /\ Sound(t, v)
  <2> DEFINE v == [at |-> "changed", user |-> u, role |-> r, late |-> FALSE]
  <2>1. v \in Txs /\ v.at = "changed" /\ v.user = u
    BY DEF Txs
  <2>2. tx' = [tx EXCEPT ![t] = v]
    BY <1>1 DEF ChangeMember, Begin
  <2> HIDE DEF v
  <2> QED BY <1>1, <2>1, <2>2 DEF ChangeMember, Moves, Sound, rest
<1>2. ASSUME NEW u \in Guests, LockToInvite(t, u) \/ Revoke(t, u) \/ Accept(t, u)
      PROVE  \E v : Moves(t, v) /\ Sound(t, v)
  <2>0. u \in Users
    BY MembershipConstants
  <2> DEFINE w(at) == [at |-> at, user |-> u, role |-> "none", late |-> FALSE]
  <2>1. PICK at \in {"inviting", "revoked", "accepting"} :
           /\ tx' = [tx EXCEPT ![t] = w(at)]
           /\ at = "inviting" => TenantFree
           /\ at # "inviting" => invite[u] \in {"pending", "expired"} /\ InviteFree(u)
    BY <1>2 DEF LockToInvite, Revoke, Accept, Begin
  <2> DEFINE v == w(at)
  <2>2. v \in Txs /\ v.at = at /\ v.user = u
    BY <2>0 DEF Txs
  <2>3. UNCHANGED <<tenant, member, invite, account, tries, purge, late, blind>>
    BY <1>2 DEF LockToInvite, Revoke, Accept, rest
  <2> HIDE DEF w
  <2>4. Moves(t, v)
    BY <2>0, <2>1, <2>2, <2>3 DEF Moves
  <2>5. Sound(t, v)
    BY <2>1, <2>2 DEF Sound
  <2> QED BY <2>4, <2>5
<1>3. ASSUME Invite(t)
      PROVE  \E v : Moves(t, v) /\ Sound(t, v)
  <2> DEFINE v == [tx[t] EXCEPT !.at = "invited"]
  <2>1. v \in Txs /\ v.user = tx[t].user /\ v.at = "invited"
    BY <1>0 DEF Txs
  <2>2. tx' = [tx EXCEPT ![t] = v]
    BY <1>0, <1>3 DEF Invite, Go, Txs
  <2>3. UNCHANGED <<tenant, member, invite, account, tries, purge, late, blind>>
    BY <1>3 DEF Invite, rest
  <2> HIDE DEF v
  <2>4. /\ tx[t].at = "inviting" /\ SeatFree /\ tx[t].user \in Users
        /\ invite[tx[t].user] = "expired" => InviteFree(tx[t].user)
        /\ invite[tx[t].user] \in {"none", "used", "expired"}
    BY <1>0, <1>3 DEF Invite, Go, IInv, TypeOK
  <2> QED BY <2>1, <2>2, <2>3, <2>4 DEF Moves, Sound
<1>4. ASSUME Join(t)
      PROVE  \E v : Moves(t, v) /\ Sound(t, v)
  <2> DEFINE u == tx[t].user
             v == [tx[t] EXCEPT !.at = "joined", !.late = (invite[u] = "expired")]
  <2>0. (invite[u] = "expired") \in BOOLEAN
    BY SMT
  <2>1. v \in Txs /\ v.user = u /\ v.at = "joined" /\ v.late = (invite[u] = "expired")
    BY <1>0, <2>0 DEF Txs
  <2>2. tx' = [tx EXCEPT ![t] = v]
    BY <1>0, <1>4 DEF Join, Txs
  <2>3. UNCHANGED <<tenant, member, invite, account, tries, purge, late, blind>>
    BY <1>4 DEF Join, rest
  <2>4. tx[t].at = "accepting" /\ u \in Users /\ member[u] = "none" /\ NoForUpdate
    BY <1>0, <1>4 DEF Join
  <2>5. invite[u] \in {"pending", "expired"} /\ HoldsInvite(t, u)
    BY <2>4 DEF IInv, InviteInv, HoldsInvite
  <2> HIDE DEF u, v
  <2> QED BY <2>1, <2>2, <2>3, <2>4, <2>5 DEF Moves, Sound
<1>5. ASSUME LockToClose(t)
      PROVE  \E v : Moves(t, v) /\ Sound(t, v)
  <2> DEFINE v == [at |-> "closing", user |-> NoUser, role |-> "none", late |-> FALSE]
  <2>1. v \in Txs /\ v.at = "closing"
    BY DEF Txs
  <2>2. tx' = [tx EXCEPT ![t] = v]
    BY <1>5 DEF LockToClose, Begin
  <2> HIDE DEF v
  <2> QED BY <1>5, <2>1, <2>2 DEF LockToClose, Moves, Sound, rest
<1>6. ASSUME Close(t)
      PROVE  \E v : Moves(t, v) /\ Sound(t, v)
  <2> DEFINE v == [tx[t] EXCEPT !.at = "closed"]
  <2>1. v \in Txs /\ v.at = "closed"
    BY <1>0 DEF Txs
  <2>2. tx' = [tx EXCEPT ![t] = v]
    BY <1>0, <1>6 DEF Close, Go, Txs
  <2> HIDE DEF v
  <2> QED BY <1>6, <2>1, <2>2 DEF Close, Go, Moves, Sound, rest
<1>7. ASSUME Rollback(t)
      PROVE  \E v : Moves(t, v) /\ Sound(t, v)
  <2>1. NoTx \in Txs /\ NoTx.at = "idle"
    BY DEF Txs, NoTx
  <2> QED BY <1>7, <2>1 DEF Rollback, Moves, Sound, rest
<1> QED BY <1>1, <1>2, <1>3, <1>4, <1>5, <1>6, <1>7 DEF RequestStep

-----------------------------------------------------------------------------
LEMMA SeatsFrom ==
    ASSUME NEW S \in SUBSET Users, NEW C \in SUBSET Users, NEW T \in SUBSET S, NEW D \in SUBSET C,
           Cardinality(S) + Cardinality(C) <= Seats
    PROVE  Cardinality(T) + Cardinality(D) <= Seats
<1>1. Cardinality(T) <= Cardinality(S) /\ Cardinality(D) <= Cardinality(C)
  BY Smaller
<1>2. T \in SUBSET Users /\ D \in SUBSET Users
  OBVIOUS
<1>3. /\ Cardinality(S) \in Nat /\ Cardinality(C) \in Nat
      /\ Cardinality(T) \in Nat /\ Cardinality(D) \in Nat /\ Seats \in Nat
  BY <1>2, Finite, MembershipConstants
<1> QED BY <1>1, <1>3

LEMMA Subsets ==
    /\ Members \subseteq Users /\ Pending \subseteq Users /\ Claims \subseteq Users
    /\ Joining \subseteq Users
BY DEF Members, Pending, Claims, Joining

LEMMA CommitSeats ==
    ASSUME IInv, NEW t \in Requests, Commit(t)
    PROVE  Cardinality((Members \ late)') + Cardinality(Claims') <= Seats
<1> DEFINE u == tx[t].user
<1>0. /\ tx \in [Requests -> Txs] /\ member \in [Users -> Roles \cup {"none"}]
      /\ invite \in [Users -> {"none", "pending", "expired", "used"}]
      /\ tx[t].at \notin {"idle", "closing", "closed"} => u \in Users
      /\ tx' = [tx EXCEPT ![t] = NoTx] /\ NoTx.at = "idle"
  BY DEF IInv, TypeOK, Txs, Commit, NoTx
<1>1. Joining' \subseteq Joining
  BY <1>0 DEF Joining
<1>2. Cardinality(Members \ late) + Cardinality(Claims) <= Seats
  BY DEF IInv, SeatInv
<1>3. CASE tx[t].at \in {"changed", "revoked", "closed"}
  <2>1. late' = late
    BY <1>3 DEF Commit
  <2>2. Members' \subseteq Members
    BY <1>0, <1>3 DEF Commit, CommitMembers, Members, IInv, MemberInv
  <2>3. Pending' \subseteq Pending
    BY <1>0, <1>3 DEF Commit, CommitInvites, Pending
  <2>4. (Members \ late)' \subseteq Members \ late /\ Claims' \subseteq Claims
    BY <1>1, <2>1, <2>2, <2>3 DEF Claims
  <2>5. Members \ late \in SUBSET Users /\ Claims \in SUBSET Users
    BY Subsets
  <2> QED BY <1>2, <2>4, <2>5, SeatsFrom
<1>4. CASE tx[t].at = "joined"
  <2>1. /\ Members' = Members \cup {u} /\ u \notin Members /\ u \in Users
        /\ Pending' = Pending \ {u}
    BY <1>0, <1>4 DEF Commit, CommitMembers, CommitInvites, Members, Pending, IInv, MemberInv
  <2>2. late' = IF tx[t].late THEN late \cup {u} ELSE late \ {u}
    BY <1>4 DEF Commit
  <2>3. CASE tx[t].late
    <3>1. (Members \ late)' \subseteq Members \ late /\ Claims' \subseteq Claims
      BY <1>1, <2>1, <2>2, <2>3 DEF Claims
    <3>2. Members \ late \in SUBSET Users /\ Claims \in SUBSET Users
      BY Subsets
    <3> QED BY <1>2, <3>1, <3>2, SeatsFrom
  <2>4. CASE ~tx[t].late
    <3>1. u \notin Joining'
      <4>1. \A q \in Requests : tx[q].at = "joined" /\ tx[q].user = u => q = t
        BY <1>4, <2>1 DEF IInv, HoldInv, HoldsInvite
      <4> QED BY <1>0, <4>1 DEF Joining
    <3>2. u \in Claims
      BY <1>4, <2>1, <2>4 DEF Claims, Joining
    <3>3. (Members \ late)' \subseteq (Members \ late) \cup {u} /\ Claims' \subseteq Claims \ {u}
      BY <1>1, <2>1, <2>2, <2>4, <3>1 DEF Claims
    <3>4. Members \ late \in SUBSET Users /\ Claims \in SUBSET Users
      BY Subsets
    <3> HIDE DEF u
    <3>5. Cardinality((Members \ late) \cup {u}) <= Cardinality(Members \ late) + 1
      BY <2>1, <3>4, OneMore
    <3>6. Cardinality(Claims \ {u}) = Cardinality(Claims) - 1
      BY <3>2, <3>4, OneLess
    <3>7. /\ Cardinality(Members \ late) \in Nat /\ Cardinality(Claims) \in Nat
          /\ Cardinality((Members \ late) \cup {u}) \in Nat /\ Seats \in Nat
      BY <2>1, <3>4, Finite, MembershipConstants
    <3>8. Cardinality((Members \ late) \cup {u}) + Cardinality(Claims \ {u}) <= Seats
      BY <1>2, <3>5, <3>6, <3>7
    <3>9. (Members \ late) \cup {u} \in SUBSET Users /\ Claims \ {u} \in SUBSET Users
      BY <2>1, <3>4
    <3> QED BY <3>3, <3>8, <3>9, SeatsFrom
  <2> QED BY <2>3, <2>4
<1>5. CASE tx[t].at = "invited"
  <2>1. /\ Members' = Members /\ late' = late
        /\ Pending' \subseteq Pending \cup {u} /\ u \in Users
    BY <1>0, <1>5 DEF Commit, CommitMembers, CommitInvites, Members, Pending
  <2>2. Joining = {}
    BY <1>5 DEF Joining, IInv, LockInv, Locking, Sharing
  <2>3. (Members \ late)' \subseteq Members /\ Claims' \subseteq Pending \cup {u}
    BY <1>1, <2>1, <2>2 DEF Claims
  <2>4. Members \in SUBSET Users /\ Pending \in SUBSET Users
    BY Subsets
  <2>5. Cardinality(Members) + Cardinality(Pending) + 1 <= Seats
    BY <1>5 DEF IInv, SeatInv
  <2> HIDE DEF u
  <2>6. Cardinality(Pending \cup {u}) <= Cardinality(Pending) + 1
    BY <2>1, <2>4, OneMore
  <2>7. /\ Cardinality(Members) \in Nat /\ Cardinality(Pending) \in Nat
        /\ Cardinality(Pending \cup {u}) \in Nat /\ Seats \in Nat
    BY <2>1, <2>4, Finite, MembershipConstants
  <2>8. Cardinality(Members) + Cardinality(Pending \cup {u}) <= Seats
    BY <2>5, <2>6, <2>7
  <2>9. Pending \cup {u} \in SUBSET Users
    BY <2>1, <2>4
  <2> QED BY <2>3, <2>4, <2>8, <2>9, SeatsFrom
<1> QED BY <1>3, <1>4, <1>5 DEF Commit

LEMMA CommitKept ==
    ASSUME IInv, NEW t \in Requests, Commit(t)
    PROVE  IInv'
<1> DEFINE u == tx[t].user
<1>0. /\ tx \in [Requests -> Txs] /\ member \in [Users -> Roles \cup {"none"}]
      /\ invite \in [Users -> {"none", "pending", "expired", "used"}]
      /\ tx[t].at \notin {"idle", "closing", "closed"} => u \in Users
      /\ tx' = [tx EXCEPT ![t] = NoTx] /\ NoTx.at = "idle" /\ NoTx \in Txs
      /\ UNCHANGED <<account, tries, purge, blind>>
  BY DEF IInv, TypeOK, Txs, Commit, NoTx
<1>1. TypeOK'
  <2>1. tx' \in [Requests -> Txs]
    BY <1>0
  <2>2. member' \in [Users -> Roles \cup {"none"}]
    BY <1>0 DEF Commit, CommitMembers, Txs, Roles
  <2>3. invite' \in [Users -> {"none", "pending", "expired", "used"}]
    BY <1>0 DEF Commit, CommitInvites
  <2>4. late' \subseteq Users /\ tenant' \in {"active", "suspended", "deleted"}
    BY <1>0 DEF Commit, IInv, TypeOK
  <2> QED BY <1>0, <2>1, <2>2, <2>3, <2>4 DEF IInv, TypeOK, Txs, Purging
<1>2. Locking' \subseteq Locking /\ Sharing' \subseteq Sharing /\ t \notin Locking' /\ t \notin Sharing'
  BY <1>0 DEF Locking, Sharing
<1>3. LockInv'
  BY <1>0, <1>2 DEF IInv, LockInv, PurgeLocks
<1>4. HoldInv'
  <2>1. \A q \in Requests, x \in Users : HoldsInvite(q, x)' => HoldsInvite(q, x)
    BY <1>0 DEF HoldsInvite
  <2> QED BY <2>1 DEF IInv, HoldInv
<1>5. InviteInv'
  <2>1. \A x \in Users : ~HoldsInvite(t, x) => invite'[x] = invite[x]
    BY <1>0 DEF Commit, CommitInvites, HoldsInvite
  <2>2. ASSUME NEW q \in Requests, tx'[q].at \in {"revoked", "accepting", "joined"}
        PROVE  invite'[tx'[q].user] \in {"pending", "expired"}
    <3>1. /\ q # t /\ tx'[q] = tx[q] /\ tx[q].user \in Users
          /\ invite[tx[q].user] \in {"pending", "expired"}
      BY <1>0, <2>2 DEF IInv, InviteInv, TypeOK
    <3>2. ~HoldsInvite(t, tx[q].user)
      BY <2>2, <3>1 DEF IInv, HoldInv, HoldsInvite
    <3> QED BY <2>1, <3>1, <3>2
  <2> QED BY <2>2 DEF InviteInv
<1>6. ASSUME NEW q \in Requests, tx'[q].at = "changed"
      PROVE  member' = member
  <2>1. t \notin Locking /\ t \notin Sharing
    BY <1>0, <1>2, <1>6 DEF IInv, LockInv, Locking
  <2> QED BY <2>1 DEF Locking, Sharing, Commit, CommitMembers
<1>7. MemberInv'
  <2>1. ASSUME NEW q \in Requests, tx'[q].at = "joined"
        PROVE  member'[tx'[q].user] = "none"
    <3>1. /\ q # t /\ tx'[q] = tx[q] /\ tx[q].user \in Users /\ member[tx[q].user] = "none"
      BY <1>0, <2>1 DEF IInv, MemberInv, TypeOK
    <3>2. t \notin Locking
      BY <2>1, <3>1 DEF IInv, LockInv, Sharing
    <3>3. tx[t].at = "joined" => u # tx[q].user
      BY <2>1, <3>1 DEF IInv, HoldInv, HoldsInvite
    <3> QED BY <1>0, <3>1, <3>2, <3>3 DEF Commit, CommitMembers, Locking
  <2> QED BY <1>0, <1>6, <2>1 DEF IInv, MemberInv
<1>8. OwnerInv'
  <2>1. PurgeLocks => member' = member
    BY DEF IInv, LockInv, Locking, Sharing, Commit, CommitMembers
  <2> QED BY <1>0, <1>6, <2>1 DEF IInv, OwnerInv, PurgeLocks, Owners
<1>9. SeatInv'
  <2>1. ASSUME NEW q \in Requests, tx'[q].at = "invited"
        PROVE  Cardinality(Members') + Cardinality(Pending') + 1 <= Seats
    <3>1. q # t /\ tx[q].at = "invited"
      BY <1>0, <2>1
    <3>2. tx[t].at = "revoked"
      BY <3>1 DEF IInv, LockInv, Locking, Sharing, Commit
    <3>3. Members' = Members /\ Pending' \subseteq Pending
      BY <1>0, <3>2 DEF Commit, CommitMembers, CommitInvites, Members, Pending
    <3>4. Cardinality(Pending') <= Cardinality(Pending)
      BY <3>3, Smaller, Subsets
    <3>5. Pending' \subseteq Users
      BY <3>3, Subsets
    <3>6. Cardinality(Members) \in Nat /\ Cardinality(Pending) \in Nat /\ Cardinality(Pending') \in Nat
          /\ Seats \in Nat
      BY <3>5, Subsets, Finite, MembershipConstants
    <3>7. Cardinality(Members) + Cardinality(Pending) + 1 <= Seats
      BY <3>1 DEF IInv, SeatInv
    <3> QED BY <3>3, <3>4, <3>6, <3>7
  <2> QED BY <2>1, CommitSeats DEF SeatInv
<1> QED BY <1>1, <1>3, <1>4, <1>5, <1>7, <1>8, <1>9 DEF IInv

-----------------------------------------------------------------------------
(* The clean-up after a deleted account *)

\* what the clean-up does before it commits
PurgeMoves ==
    \/ \E u \in Leavers : PurgeLooks(u)
    \/ PurgeLocksTenant \/ PurgeDeletes \/ PurgeFails

LEMMA LooksAt ==
    ASSUME NEW u, PurgeLooks(u)
    PROVE  purge'.at = "snapshot"
<1>1. \A b : [NoPurge EXCEPT !.at = "snapshot", !.user = u, !.owned = b].at = "snapshot"
  BY DEF NoPurge
<1> QED BY <1>1, Zenon DEF PurgeLooks

LEMMA LockedAt ==
    ASSUME purge \in Purges, PurgeLocksTenant
    PROVE  purge'.at = "locked"
<1>1. \A b : [purge EXCEPT !.at = "locked", !.owned = b].at = "locked"
  BY DEF Purges
<1> QED BY <1>1, Zenon DEF PurgeLocksTenant

LEMMA PurgeMovesKept ==
    ASSUME IInv, PurgeMoves
    PROVE  IInv'
<1>0. purge \in Purges /\ member \in [Users -> Roles \cup {"none"}] /\ Leavers \subseteq Users
  BY MembershipConstants DEF IInv, TypeOK, Purges
<1>1. UNCHANGED <<tenant, member, invite, tx, late, blind>>
  BY DEF PurgeMoves, PurgeLooks, PurgeLocksTenant, PurgeDeletes, PurgeFails, rest
<1>2. /\ purge' \in Purges
      /\ purge'.at # "idle" => purge'.user \in Users /\ account'[purge'.user] = "deleted"
      /\ account' \in [Users -> {"live", "deleted", "purged", "dead"}]
      /\ tries' \in [Users -> 0 .. MaxAttempts]
      /\ \A w \in Users : account'[w] = "deleted" /\ ~Purging(w)' => tries'[w] < MaxAttempts
  <2>0. /\ account \in [Users -> {"live", "deleted", "purged", "dead"}]
        /\ tries \in [Users -> 0 .. MaxAttempts] /\ MaxAttempts \in Nat \ {0}
        /\ purge.at # "idle" => purge.user \in Users /\ account[purge.user] = "deleted"
        /\ \A w \in Users : account[w] = "deleted" /\ ~Purging(w) => tries[w] < MaxAttempts
    BY MembershipConstants DEF IInv, TypeOK
  <2>1. CASE \E u \in Leavers : PurgeLooks(u)
    <3>1. PICK u \in Leavers : PurgeLooks(u)
      BY <2>1
    <3>2. (member[u] = "owner") \in BOOLEAN
      BY SMT
    <3>3. /\ purge' \in Purges /\ purge'.at = "snapshot" /\ purge'.user = u
          /\ purge.at = "idle" /\ account[u] = "deleted" /\ UNCHANGED account
          /\ tries' = [tries EXCEPT ![u] = @ + 1]
      BY <1>0, <3>1, <3>2 DEF PurgeLooks, NoPurge, Purges
    <3>4. u \in Users /\ ~Purging(u)
      BY <1>0, <3>3 DEF Purging
    <3>5. tries[u] < MaxAttempts
      BY <2>0, <3>3, <3>4
    <3>6. \A w \in Users : ~Purging(w)
      BY <3>3 DEF Purging
    <3>7. \A w \in Users : w # u => tries'[w] = tries[w]
      BY <2>0, <3>3
    <3>8. tries' \in [Users -> 0 .. MaxAttempts]
      BY <2>0, <3>3, <3>4, <3>5
    <3>9. \A w \in Users : ~Purging(w)' => w # u
      BY <3>3 DEF Purging
    <3> QED BY <2>0, <3>3, <3>4, <3>6, <3>7, <3>8, <3>9
  <2>2. CASE PurgeLocksTenant \/ PurgeDeletes
    <3>1. /\ (purge.owned /\ tenant # "deleted") \in BOOLEAN
          /\ (member[purge.user] # "none") \in BOOLEAN
          /\ (purge.owned /\ Owners \ {purge.user} = {}) \in BOOLEAN
      BY <1>0 DEF Purges
    <3>2. /\ purge' \in Purges /\ purge.at # "idle" /\ purge'.at # "idle"
          /\ purge'.user = purge.user /\ UNCHANGED <<account, tries>>
      BY <1>0, <2>2, <3>1 DEF PurgeLocksTenant, PurgeDeletes, Purges, rest
    <3> QED BY <2>0, <3>2 DEF Purging
  <2>3. CASE PurgeFails
    <3>1. /\ purge' = NoPurge /\ NoPurge \in Purges /\ NoPurge.at = "idle"
          /\ purge.at # "idle" /\ UNCHANGED tries
          /\ account' = IF tries[purge.user] < MaxAttempts THEN account
                        ELSE [account EXCEPT ![purge.user] = "dead"]
      BY <2>3 DEF PurgeFails, NoPurge, Purges, rest
    <3>2. \A w \in Users : w # purge.user => account'[w] = account[w] /\ ~Purging(w)
      BY <2>0, <3>1 DEF Purging
    <3>3. account'[purge.user] = "deleted" => tries[purge.user] < MaxAttempts
      BY <2>0, <3>1
    <3>4. account' \in [Users -> {"live", "deleted", "purged", "dead"}]
      BY <2>0, <3>1
    <3> QED BY <2>0, <3>1, <3>2, <3>3, <3>4
  <2> QED BY <2>1, <2>2, <2>3 DEF PurgeMoves
<1>3. TypeOK'
  BY <1>1, <1>2 DEF IInv, TypeOK, Purges
<1>4. PurgeLocks' => PurgeLocks \/ TenantFree
  <2>1. PurgeFails \/ (\E u \in Leavers : PurgeLooks(u)) => ~PurgeLocks'
    BY LooksAt DEF PurgeFails, PurgeLocks, NoPurge
  <2>2. PurgeLocksTenant => purge'.owned = (purge.owned /\ tenant # "deleted")
    BY <1>0 DEF PurgeLocksTenant, Purges
  <2>3. PurgeLocksTenant /\ purge'.owned => TenantFree
    BY <2>2 DEF PurgeLocksTenant
  <2>4. PurgeDeletes => purge'.owned = purge.owned /\ purge.at = "locked"
    BY <1>0 DEF PurgeDeletes, Purges
  <2> QED BY <2>1, <2>3, <2>4 DEF PurgeMoves, PurgeLocks
<1>5. LockInv'
  BY <1>1, <1>4 DEF IInv, LockInv, Locking, Sharing, TenantFree, NoForUpdate
<1>6. HoldInv' /\ InviteInv'
  BY <1>1 DEF IInv, HoldInv, HoldsInvite, InviteInv
<1>7. purge'.at = "deleted" => PurgeDeletes
  BY <1>0, LooksAt, LockedAt DEF PurgeMoves, PurgeFails, NoPurge
<1>8. MemberInv'
  BY <1>0, <1>1, <1>7 DEF IInv, MemberInv, PurgeDeletes, MemberFree, HoldsMember, Purges
<1>9. OwnerInv'
  <2>1. PurgeDeletes => /\ purge'.owned = purge.owned /\ purge'.user = purge.user
                        /\ purge'.orphan = (purge.owned /\ Owners \ {purge.user} = {})
    BY <1>0 DEF PurgeDeletes, Purges
  <2> QED BY <1>1, <1>7, <2>1 DEF IInv, OwnerInv, Owners
<1>10. SeatInv'
  BY <1>1 DEF IInv, SeatInv, Members, Claims, Pending, Joining
<1> QED BY <1>3, <1>5, <1>6, <1>8, <1>9, <1>10 DEF IInv

LEMMA PurgeCommitsKept ==
    ASSUME IInv, PurgeCommits
    PROVE  IInv'
<1> DEFINE u == purge.user
<1>0. /\ u \in Users /\ account[u] = "deleted" /\ purge \in Purges
      /\ member \in [Users -> Roles \cup {"none"}]
      /\ UNCHANGED <<invite, tx, late>> /\ purge' = NoPurge /\ blind \subseteq blind'
      /\ member' = IF purge.gone THEN [member EXCEPT ![u] = "none"] ELSE member
  BY DEF IInv, TypeOK, Purges, PurgeCommits
<1>1. TypeOK'
  BY <1>0 DEF PurgeCommits, IInv, TypeOK, NoPurge, Roles, Purging
<1>2. LockInv'
  BY <1>0 DEF IInv, LockInv, Locking, Sharing, PurgeLocks, NoPurge
<1>3. HoldInv' /\ InviteInv'
  BY <1>0 DEF IInv, HoldInv, HoldsInvite, InviteInv
<1>4. MemberInv'
  <2>1. ASSUME NEW q \in Requests, tx[q].at = "joined"
        PROVE  member'[tx[q].user] = "none"
    BY <1>0, <2>1 DEF IInv, MemberInv, TypeOK
  <2>2. ASSUME NEW q \in Requests, tx[q].at = "changed"
        PROVE  member'[tx[q].user] # "none"
    BY <1>0, <2>2 DEF IInv, MemberInv, TypeOK, PurgeCommits
  <2> QED BY <1>0, <2>1, <2>2 DEF MemberInv, NoPurge
<1>5. OwnerInv'
  <2>1. ASSUME NEW q \in Requests, tx[q].at = "changed", member'[tx[q].user] = "owner"
        PROVE  Owners' \ {tx[q].user} # {} \/ blind' # {}
    <3>1. ~purge.owned /\ purge.at = "deleted"
      BY <2>1 DEF IInv, LockInv, Locking, PurgeLocks, PurgeCommits
    <3>2. member[tx[q].user] = "owner" /\ tx[q].user \in Users
      BY <1>0, <2>1 DEF IInv, TypeOK
    <3>3. Owners \ {tx[q].user} # {} \/ blind # {}
      BY <2>1, <3>2 DEF IInv, OwnerInv
    <3>4. CASE purge.gone /\ member[u] = "owner"
      BY <3>1, <3>4 DEF PurgeCommits
    <3>5. CASE ~(purge.gone /\ member[u] = "owner")
      <4>1. Owners' = Owners
        BY <1>0, <3>5 DEF Owners
      <4> QED BY <1>0, <3>3, <4>1
    <3> QED BY <3>4, <3>5
  <2> QED BY <1>0, <2>1 DEF OwnerInv, NoPurge
<1>6. SeatInv'
  <2>1. Members' \subseteq Members /\ Pending' = Pending /\ Claims' = Claims /\ late' = late
    BY <1>0 DEF Members, Pending, Claims, Joining
  <2>2. Cardinality((Members \ late)') + Cardinality(Claims') <= Seats
    <3>1. (Members \ late)' \subseteq Members \ late /\ Members \ late \in SUBSET Users
          /\ Claims \in SUBSET Users
      BY <2>1, Subsets
    <3>2. Cardinality(Members \ late) + Cardinality(Claims) <= Seats
      BY DEF IInv, SeatInv
    <3> QED BY <2>1, <3>1, <3>2, SeatsFrom
  <2>3. ASSUME NEW q \in Requests, tx[q].at = "invited"
        PROVE  Cardinality(Members') + Cardinality(Pending) + 1 <= Seats
    <3>1. Cardinality(Members') <= Cardinality(Members) /\ Members' \subseteq Users
      BY <2>1, Smaller, Subsets
    <3>2. /\ Cardinality(Members) \in Nat /\ Cardinality(Members') \in Nat
          /\ Cardinality(Pending) \in Nat /\ Seats \in Nat
      BY <3>1, Subsets, Finite, MembershipConstants
    <3>3. Cardinality(Members) + Cardinality(Pending) + 1 <= Seats
      BY <2>3 DEF IInv, SeatInv
    <3> QED BY <3>1, <3>2, <3>3
  <2> QED BY <1>0, <2>1, <2>2, <2>3 DEF SeatInv
<1> QED BY <1>1, <1>2, <1>3, <1>4, <1>5, <1>6 DEF IInv

-----------------------------------------------------------------------------
LEMMA ExpireKept ==
    ASSUME IInv, NEW u \in Guests, Expire(u)
    PROVE  IInv'
<1>0. /\ u \in Users /\ invite \in [Users -> {"none", "pending", "expired", "used"}]
      /\ invite' = [invite EXCEPT ![u] = "expired"] /\ invite[u] = "pending"
      /\ UNCHANGED <<tenant, member, account, tries, tx, purge, late, blind>>
  BY MembershipConstants DEF IInv, TypeOK, Expire, rest
<1>1. TypeOK'
  BY <1>0 DEF IInv, TypeOK, Purging
<1>2. LockInv' /\ HoldInv' /\ MemberInv' /\ OwnerInv'
  BY <1>0 DEF IInv, LockInv, Locking, Sharing, PurgeLocks, HoldInv, HoldsInvite, MemberInv,
              OwnerInv, Owners
<1>3. InviteInv'
  BY <1>0 DEF IInv, InviteInv, TypeOK
<1>4. SeatInv'
  <2>1. Members' = Members /\ Pending' \subseteq Pending /\ Claims' \subseteq Claims
    BY <1>0 DEF Members, Pending, Claims, Joining
  <2>2. Cardinality((Members \ late)') + Cardinality(Claims') <= Seats
    <3>1. (Members \ late)' \subseteq Members \ late /\ Members \ late \in SUBSET Users
          /\ Claims \in SUBSET Users
      BY <1>0, <2>1, Subsets
    <3>2. Cardinality(Members \ late) + Cardinality(Claims) <= Seats
      BY DEF IInv, SeatInv
    <3> QED BY <2>1, <3>1, <3>2, SeatsFrom
  <2>3. ASSUME NEW q \in Requests, tx[q].at = "invited"
        PROVE  Cardinality(Members) + Cardinality(Pending') + 1 <= Seats
    <3>1. Cardinality(Pending') <= Cardinality(Pending) /\ Pending' \subseteq Users
      BY <2>1, Smaller, Subsets
    <3>2. /\ Cardinality(Members) \in Nat /\ Cardinality(Pending') \in Nat
          /\ Cardinality(Pending) \in Nat /\ Seats \in Nat
      BY <3>1, Subsets, Finite, MembershipConstants
    <3>3. Cardinality(Members) + Cardinality(Pending) + 1 <= Seats
      BY <2>3 DEF IInv, SeatInv
    <3> QED BY <3>1, <3>2, <3>3
  <2> QED BY <1>0, <2>1, <2>2, <2>3 DEF SeatInv
<1> QED BY <1>1, <1>2, <1>3, <1>4 DEF IInv

\* set_status, the deletion of an account and the retry of its message touch nothing the locks are about.
LEMMA AsideKept ==
    ASSUME IInv,
           \/ \E s \in {"active", "suspended"} : SetStatus(s)
           \/ \E u \in Leavers : DeleteAccount(u) \/ RetryPurge(u)
           \/ UNCHANGED vars
    PROVE  IInv'
<1>1. UNCHANGED <<member, invite, tx, purge, late, blind>>
  BY DEF SetStatus, DeleteAccount, RetryPurge, vars, rest
<1>2. TypeOK'
  <2>0. /\ MaxAttempts \in Nat \ {0} /\ Leavers \subseteq Users
        /\ account \in [Users -> {"live", "deleted", "purged", "dead"}]
        /\ tries \in [Users -> 0 .. MaxAttempts]
        /\ purge.at # "idle" => purge.user \in Users /\ account[purge.user] = "deleted"
        /\ \A w \in Users : account[w] = "deleted" /\ ~Purging(w) => tries[w] < MaxAttempts
    BY MembershipConstants DEF IInv, TypeOK
  <2>1. ASSUME NEW u \in Leavers, DeleteAccount(u) \/ RetryPurge(u)
        PROVE  TypeOK'
    <3>1. /\ account[u] # "deleted" /\ account' = [account EXCEPT ![u] = "deleted"]
          /\ tries' = [tries EXCEPT ![u] = 0] /\ UNCHANGED tenant
      BY <2>1 DEF DeleteAccount, RetryPurge
    <3>2. /\ account' \in [Users -> {"live", "deleted", "purged", "dead"}]
          /\ tries' \in [Users -> 0 .. MaxAttempts]
          /\ \A w \in Users : w # u => account'[w] = account[w] /\ tries'[w] = tries[w]
          /\ tries'[u] = 0
      BY <2>0, <3>1
    <3>3. \A w \in Users : account'[w] = "deleted" /\ ~Purging(w)' => tries'[w] < MaxAttempts
      BY <1>1, <2>0, <3>2 DEF Purging
    <3>4. purge.at # "idle" => purge.user \in Users /\ account'[purge.user] = "deleted"
      BY <2>0, <3>1, <3>2
    <3> QED BY <1>1, <3>1, <3>2, <3>3, <3>4 DEF IInv, TypeOK
  <2>2. CASE UNCHANGED <<account, tries>>
    <3>1. tenant' \in {"active", "suspended", "deleted"} \/ \E u \in Leavers : DeleteAccount(u) \/ RetryPurge(u)
      BY DEF IInv, TypeOK, SetStatus, vars
    <3> QED BY <1>1, <2>1, <2>2, <3>1 DEF IInv, TypeOK, Purging
  <2>3. UNCHANGED <<account, tries>> \/ \E u \in Leavers : DeleteAccount(u) \/ RetryPurge(u)
    BY DEF SetStatus, vars, rest
  <2> QED BY <2>1, <2>2, <2>3
<1>3. LockInv' /\ HoldInv' /\ InviteInv' /\ MemberInv' /\ OwnerInv'
  BY <1>1 DEF IInv, LockInv, Locking, Sharing, PurgeLocks, HoldInv, HoldsInvite, InviteInv,
              MemberInv, OwnerInv, Owners
<1>4. SeatInv'
  BY <1>1 DEF IInv, SeatInv, Members, Claims, Pending, Joining
<1> QED BY <1>2, <1>3, <1>4 DEF IInv

LEMMA Inductive == Spec => []IInv
<1>1. IInv /\ [Next]_vars => IInv'
  <2> SUFFICES ASSUME IInv, [Next]_vars PROVE IInv'
    OBVIOUS
  <2>1. ASSUME NEW t \in Requests, RequestStep(t) PROVE IInv'
    <3>1. CASE Commit(t)
      BY <3>1, CommitKept
    <3>2. CASE ~Commit(t)
      BY <2>1, <3>2, RequestMoves, MovesKept
    <3> QED BY <3>1, <3>2
  <2>2. CASE PurgeStep
    BY <2>2, PurgeMovesKept, PurgeCommitsKept DEF PurgeStep, PurgeEnds, PurgeMoves
  <2> QED BY <2>1, <2>2, ExpireKept, AsideKept DEF Next
<1> QED BY <1>1, InitIInv, PTL DEF Spec

-----------------------------------------------------------------------------
\* Every variable keeps its type; whoever has a transaction open names a user, and a
\* clean-up runs only for an account that is deleted and not yet purged.
THEOREM TypeCorrect == Spec => []TypeOK
<1>1. IInv => TypeOK
  BY DEF IInv
<1> QED BY <1>1, Inductive, PTL

\* However many invitations, joins and departures run at once, members and pending
\* invitations stay within the seats (create counts under the lock of the tenant row).
THEOREM SeatsNeverExceeded == Spec => []SeatsKept
<1>1. IInv => SeatsKept
  <2> SUFFICES ASSUME IInv PROVE SeatsKept
    OBVIOUS
  <2>1. Pending \subseteq Claims /\ Members \ late \in SUBSET Users /\ Claims \in SUBSET Users
    BY Subsets DEF Claims
  <2>2. Cardinality(Members \ late) + Cardinality(Claims) <= Seats
    BY DEF IInv, SeatInv
  <2> QED BY <2>1, <2>2, SeatsFrom DEF SeatsKept
<1> QED BY <1>1, Inductive, PTL

\* No step of any of them leaves an active tenant without an owner, but the purge of an
\* owner promoted behind its back (_owner_guard.py, user_cleanup.py).
THEOREM OwnerNeverLost == Spec => OwnerKept
<1> DEFINE A == Owners # {} /\ Owners' = {} => tenant' # "active" \/ blind' # {}
<1>1. IInv /\ [Next]_vars => A
  <2> SUFFICES ASSUME IInv, [Next]_vars, Owners # {}, Owners' = {}, blind' = {}
               PROVE  tenant' # "active"
    OBVIOUS
  <2>0. /\ tx \in [Requests -> Txs] /\ member \in [Users -> Roles \cup {"none"}]
        /\ \A t \in Requests : tx[t].at \notin {"idle", "closing", "closed"} => tx[t].user \in Users
    BY DEF IInv, TypeOK, Txs
  <2>1. member' # member
    BY DEF Owners
  <2>2. CASE \E t \in Requests : Commit(t)
    <3>1. PICK t \in Requests : Commit(t)
      BY <2>2
    <3>2. blind = {}
      BY <3>1 DEF Commit
    <3>3. CASE tx[t].at = "changed"
      <4>1. Owners \ {tx[t].user} # {}
        BY <3>2, <3>3 DEF IInv, OwnerInv, Owners
      <4> QED BY <2>0, <3>1, <3>3, <4>1 DEF Commit, CommitMembers, Owners
    <3>4. CASE tx[t].at = "joined"
      <4>1. member[tx[t].user] = "none"
        BY <3>4 DEF IInv, MemberInv
      <4> QED BY <2>0, <3>1, <3>4, <4>1 DEF Commit, CommitMembers, Owners
    <3>5. CASE tx[t].at = "closed"
      BY <3>1, <3>5 DEF Commit
    <3> QED BY <2>1, <3>1, <3>3, <3>4, <3>5 DEF Commit, CommitMembers
  <2>3. CASE PurgeCommits
    <3>1. purge.at = "deleted" /\ purge.gone /\ purge \in Purges
      BY <2>1, <2>3 DEF PurgeCommits, IInv, TypeOK, Purges
    <3>2. member' = [member EXCEPT ![purge.user] = "none"]
      BY <2>3, <3>1 DEF PurgeCommits
    <3>3. Owners \ {purge.user} = {} /\ member[purge.user] = "owner"
      BY <2>0, <3>2 DEF Owners
    <3>4. purge.owned
      BY <2>3, <3>1, <3>3 DEF PurgeCommits
    <3>5. purge.orphan
      BY <3>1, <3>3, <3>4 DEF IInv, OwnerInv
    <3> QED BY <2>3, <3>5 DEF PurgeCommits
  <2>4. member' = member \/ PurgeCommits \/ \E t \in Requests : Commit(t)
    BY DEF Next, RequestStep, ChangeMember, LockToInvite, Revoke, Accept, Invite, Join,
           LockToClose, Close, Rollback, Expire, SetStatus, DeleteAccount, PurgeStep, PurgeLooks,
           PurgeLocksTenant, PurgeDeletes, PurgeFails, PurgeEnds, RetryPurge, vars
  <2> QED BY <2>1, <2>2, <2>3, <2>4
<1> QED BY <1>1, Inductive, PTL DEF Spec, OwnerKept

\* An invitation enrols at most once, and not after its revocation (accept's lookup
\* with for_update=True).
THEOREM LinksWorkOnce == Spec => JoinsByOpenInvite
<1> DEFINE A == \A u \in Users : member[u] = "none" /\ member'[u] # "none" =>
                   invite[u] \in {"pending", "expired"} /\ invite'[u] = "used"
<1>1. IInv /\ [Next]_vars => A
  <2> SUFFICES ASSUME IInv, [Next]_vars, NEW u \in Users, member[u] = "none", member'[u] # "none"
               PROVE  invite[u] \in {"pending", "expired"} /\ invite'[u] = "used"
    OBVIOUS
  <2>0. /\ tx \in [Requests -> Txs] /\ member \in [Users -> Roles \cup {"none"}]
        /\ invite \in [Users -> {"none", "pending", "expired", "used"}]
        /\ \A t \in Requests : tx[t].at \notin {"idle", "closing", "closed"} => tx[t].user \in Users
    BY DEF IInv, TypeOK, Txs
  <2>1. ~PurgeCommits
    BY <2>0 DEF PurgeCommits
  <2>2. PICK t \in Requests : Commit(t)
    BY <2>1 DEF Next, RequestStep, ChangeMember, LockToInvite, Revoke, Accept, Invite, Join,
           LockToClose, Close, Rollback, Expire, SetStatus, DeleteAccount, PurgeStep, PurgeLooks,
           PurgeLocksTenant, PurgeDeletes, PurgeFails, PurgeEnds, RetryPurge, vars
  <2>3. tx[t].at = "changed" => u # tx[t].user
    BY DEF IInv, MemberInv
  <2>4. tx[t].at = "joined" /\ tx[t].user = u
    BY <2>0, <2>2, <2>3 DEF Commit, CommitMembers
  <2> QED BY <2>0, <2>2, <2>4 DEF Commit, CommitInvites, IInv, InviteInv
<1> QED BY <1>1, Inductive, PTL DEF Spec, JoinsByOpenInvite

-----------------------------------------------------------------------------
(* The purge of a deleted account: what it leaves behind.                  *)

\* No accept of the account is open when its memberships are deleted: the one
\* exception of DeletedLeave.
NoLateAccept == PurgeDeletes => ~Arriving(purge.user)

\* A purged account belongs to no tenant.
PurgedOut == \A u \in Users : account[u] = "purged" => member[u] = "none"

\* Nobody can bring the account back, neither during the purge nor after it.
LeaveInv ==
    /\ PurgedOut
    /\ \A u \in Users : account[u] = "purged" => ~Arriving(u)
    /\ purge.at = "deleted" =>
         ~Arriving(purge.user) /\ (~purge.gone => member[purge.user] = "none")

LEMMA LeaveInit == Init => LeaveInv
BY DEF Init, LeaveInv, PurgedOut, NoPurge

\* An account that is not live does not begin to arrive.
LEMMA NoNewArrival ==
    ASSUME IInv, [Next]_vars, NEW u \in Users, account[u] # "live", ~Arriving(u)
    PROVE  ~Arriving(u)'
<1>0. tx \in [Requests -> Txs]
  BY DEF IInv, TypeOK, Txs
<1>1. CASE tx' = tx
  BY <1>1 DEF Arriving
<1>2. ASSUME NEW t \in Requests, RequestStep(t) PROVE ~Arriving(u)'
  <2>1. \A q \in Requests \ {t} : tx'[q] = tx[q]
    BY <1>0, <1>2 DEF RequestStep, ChangeMember, LockToInvite, Revoke, Accept, Invite, Join,
       LockToClose, Close, Commit, Rollback, Begin, Go
  <2>2. tx'[t].at \in {"accepting", "joined"} /\ tx'[t].user = u => Arriving(u)
    <3>1. ASSUME NEW v \in Guests, Accept(t, v) PROVE tx'[t].user # u
      BY <1>0, <3>1 DEF Accept, Begin
    <3>2. CASE Join(t)
      BY <1>0, <3>2 DEF Join, Arriving
    <3>3. ASSUME NEW v \in Users, NEW r, ChangeMember(t, v, r) PROVE tx'[t].at = "changed"
      BY <1>0, <3>3 DEF ChangeMember, Begin
    <3>4. ASSUME NEW v \in Guests, LockToInvite(t, v) \/ Revoke(t, v)
          PROVE  tx'[t].at \in {"inviting", "revoked"}
      BY <1>0, <3>4 DEF LockToInvite, Revoke, Begin
    <3>5. CASE Invite(t) \/ Close(t)
      <4>1. \/ tx' = [tx EXCEPT ![t].at = "invited"]
            \/ tx' = [tx EXCEPT ![t].at = "closed"]
        BY <3>5, Zenon DEF Invite, Close, Go
      <4>2. tx[t] \in Txs
        BY <1>0
      <4> QED BY <1>0, <4>1, <4>2 DEF Txs
    <3>6. CASE LockToClose(t)
      BY <1>0, <3>6 DEF LockToClose, Begin
    <3>7. CASE Commit(t) \/ Rollback(t)
      <4>1. tx' = [tx EXCEPT ![t] = NoTx]
        BY <3>7 DEF Commit, Rollback
      <4> QED BY <1>0, <4>1 DEF NoTx
    <3> QED BY <1>2, <3>1, <3>2, <3>3, <3>4, <3>5, <3>6, <3>7 DEF RequestStep
  <2> QED BY <2>1, <2>2 DEF Arriving
<1>3. PurgeStep => UNCHANGED tx
  <2>1. \A v : PurgeLooks(v) => UNCHANGED tx
    BY Zenon DEF PurgeLooks
  <2>2. PurgeLocksTenant \/ PurgeDeletes \/ PurgeCommits \/ PurgeFails => UNCHANGED tx
    BY Zenon DEF PurgeLocksTenant, PurgeDeletes, PurgeCommits, PurgeFails
  <2> QED BY <2>1, <2>2 DEF PurgeStep, PurgeEnds
<1> QED BY <1>1, <1>2, <1>3 DEF Next, Expire, SetStatus, DeleteAccount, RetryPurge, vars

\* A commit makes a member only of someone who was arriving, or was one.
LEMMA CommitMakes ==
    ASSUME IInv, NEW t \in Requests, Commit(t), NEW u \in Users, ~Arriving(u), member[u] = "none"
    PROVE  member'[u] = "none"
<1>0. tx \in [Requests -> Txs] /\ member \in [Users -> Roles \cup {"none"}]
  BY DEF IInv, TypeOK, Txs
<1>1. tx[t].at = "changed" => u # tx[t].user
  BY DEF IInv, MemberInv
<1>2. tx[t].at = "joined" => u # tx[t].user
  BY DEF Arriving
<1> QED BY <1>0, <1>1, <1>2 DEF Commit, CommitMembers

LEMMA LeaveStep == IInv /\ LeaveInv /\ [Next /\ NoLateAccept]_vars => LeaveInv'
<1> SUFFICES ASSUME IInv, LeaveInv, [Next /\ NoLateAccept]_vars PROVE LeaveInv'
  OBVIOUS
<1>0. /\ member \in [Users -> Roles \cup {"none"}]
      /\ account \in [Users -> {"live", "deleted", "purged", "dead"}]
      /\ purge \in Purges
      /\ purge.at # "idle" => purge.user \in Users /\ account[purge.user] = "deleted"
  BY DEF IInv, TypeOK, Purges
<1>1. [Next]_vars
  OBVIOUS
<1>2. \A u \in Users : account[u] # "live" /\ ~Arriving(u) => ~Arriving(u)'
  BY <1>1, NoNewArrival
<1>3. CASE member' = member /\ account' = account /\ purge' = purge
  BY <1>0, <1>2, <1>3 DEF LeaveInv, PurgedOut
<1>4. ASSUME NEW t \in Requests, Commit(t) PROVE LeaveInv'
  <2>1. UNCHANGED <<account, purge>>
    BY <1>4 DEF Commit
  <2>2. \A u \in Users : ~Arriving(u) /\ member[u] = "none" => member'[u] = "none"
    BY <1>4, CommitMakes
  <2> QED BY <1>0, <1>2, <2>1, <2>2 DEF LeaveInv, PurgedOut
<1>5. ASSUME NEW u \in Users, DeleteAccount(u) \/ RetryPurge(u) PROVE LeaveInv'
  <2>1. account' = [account EXCEPT ![u] = "deleted"] /\ UNCHANGED <<member, purge>>
        /\ account[u] # "purged"
    BY <1>5 DEF DeleteAccount, RetryPurge
  <2>2. \A w \in Users : account'[w] = "purged" => account[w] = "purged"
    BY <1>0, <2>1
  <2>3. \A w \in Users : account[w] = "purged" => member[w] = "none" /\ ~Arriving(w)'
    BY <1>2 DEF LeaveInv, PurgedOut
  <2>4. purge.at = "deleted" => /\ ~Arriving(purge.user)'
                                /\ ~purge.gone => member[purge.user] = "none"
    BY <1>0, <1>2, <2>1 DEF LeaveInv
  <2> QED BY <2>1, <2>2, <2>3, <2>4 DEF LeaveInv, PurgedOut
<1>6. CASE PurgeLocksTenant \/ PurgeFails \/ \E u \in Leavers : PurgeLooks(u)
  <2>1. UNCHANGED member /\ \A w \in Users : account'[w] = "purged" => account[w] = "purged"
    <3>1. \A u : PurgeLooks(u) => UNCHANGED <<member, account>>
      BY Zenon DEF PurgeLooks
    <3>2. PurgeFails => UNCHANGED member /\ \A w \in Users : account'[w] = "purged" => account[w] = "purged"
      BY <1>0 DEF PurgeFails
    <3> QED BY <1>6, <3>1, <3>2 DEF PurgeLocksTenant
  <2>2. purge'.at # "deleted"
    <3>1. PurgeFails => purge'.at = "idle"
      BY DEF PurgeFails, NoPurge
    <3> QED BY <1>0, <1>6, <3>1, LooksAt, LockedAt
  <2> QED BY <1>0, <1>2, <2>1, <2>2 DEF LeaveInv, PurgedOut
<1>7. CASE PurgeDeletes /\ NoLateAccept
  <2>1. ~Arriving(purge.user) /\ purge.user \in Users /\ account[purge.user] = "deleted"
    BY <1>0, <1>7 DEF NoLateAccept, PurgeDeletes
  <2>2. /\ purge'.user = purge.user
        /\ purge'.gone = (member[purge.user] # "none")
        /\ UNCHANGED <<member, account>>
    BY <1>0, <1>7 DEF PurgeDeletes, Purges
  <2> QED BY <1>2, <2>1, <2>2, <1>0 DEF LeaveInv, PurgedOut
<1>8. CASE PurgeCommits
  <2>1. /\ purge.at = "deleted" /\ purge' = NoPurge
        /\ member' = IF purge.gone THEN [member EXCEPT ![purge.user] = "none"] ELSE member
        /\ account' = [account EXCEPT ![purge.user] = "purged"]
    BY <1>8 DEF PurgeCommits
  <2>2. /\ purge.user \in Users /\ account[purge.user] # "live" /\ ~Arriving(purge.user)
        /\ ~purge.gone => member[purge.user] = "none"
    BY <1>0, <2>1 DEF LeaveInv
  <2>3. ASSUME NEW u \in Users, account'[u] = "purged" PROVE member'[u] = "none" /\ ~Arriving(u)'
    <3>1. CASE u = purge.user
      BY <1>0, <1>2, <2>1, <2>2, <3>1
    <3>2. CASE u # purge.user
      BY <1>0, <1>2, <2>1, <2>3, <3>2 DEF LeaveInv, PurgedOut
    <3> QED BY <3>1, <3>2
  <2> QED BY <2>1, <2>3 DEF LeaveInv, PurgedOut, NoPurge
<1>9. ASSUME NEW t \in Requests, RequestStep(t) PROVE LeaveInv'
  <2>1. Commit(t) \/ UNCHANGED <<member, account, purge>>
    BY <1>9 DEF RequestStep, ChangeMember, LockToInvite, Revoke, Accept, Invite, Join,
       LockToClose, Close, Rollback
  <2> QED BY <1>3, <1>4, <1>9, <2>1
<1>10. CASE UNCHANGED vars \/ (\E u \in Guests : Expire(u)) \/ \E s \in {"active", "suspended"} : SetStatus(s)
  BY <1>3, <1>10 DEF Expire, SetStatus, vars
<1>11. ASSUME PurgeStep, NoLateAccept PROVE LeaveInv'
  BY <1>6, <1>7, <1>8, <1>11 DEF PurgeStep, PurgeEnds
<1>12. ASSUME NEW u \in Leavers, DeleteAccount(u) \/ RetryPurge(u) PROVE LeaveInv'
  BY <1>5, <1>12, MembershipConstants
<1> QED BY <1>9, <1>10, <1>11, <1>12 DEF Next

\* What purge_user_memberships has finished with stays out of the tenant for ever, through
\* joins, role changes and failed deliveries in any order, unless an accept of the account
\* was already open when the DELETE looked: the safety that DeletedLeave rests on.
THEOREM PurgedStayOut == Spec /\ [][NoLateAccept]_vars => []PurgedOut
<1>1. LeaveInv => PurgedOut
  BY DEF LeaveInv
<1>2. [Next]_vars /\ [NoLateAccept]_vars => [Next /\ NoLateAccept]_vars
  OBVIOUS
<1> QED BY <1>1, <1>2, LeaveInit, LeaveStep, Inductive, PTL DEF Spec
=============================================================================
