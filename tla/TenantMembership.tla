-------------------------- MODULE TenantMembership --------------------------
(***************************************************************************)
(* Who belongs to one tenant: members and their roles, invitations that    *)
(* reserve seats, and the clean-up after a deleted account, on PostgreSQL  *)
(* at READ COMMITTED.  A transaction's writes are applied when it commits; *)
(* until then only its row locks are felt.  TenantService.lock takes the   *)
(* tenant row FOR UPDATE; inserting a membership takes it FOR KEY SHARE,   *)
(* through the foreign key, and so waits for it.  The clean-up is the      *)
(* handler of a durable event, of which the outbox bounds the attempts.    *)
(***************************************************************************)
EXTENDS Naturals, FiniteSets

CONSTANTS
    Users,      \* accounts, each with an email address of its own
    Founder,    \* the owner that create_tenant enters
    NoUser,
    Guests,     \* addresses that may be invited (a bound)
    Leavers,    \* accounts that may be deleted (a bound)
    Seats,      \* the tenants.seats entitlement
    MaxAttempts,\* outbox_max_attempts
    Requests    \* web requests that run at the same time

ASSUME MembershipConstants ==
    /\ Founder \in Users /\ NoUser \notin Users /\ Guests \subseteq Users /\ Leavers \subseteq Users
    /\ IsFiniteSet(Users)
    /\ Seats \in Nat \ {0} /\ MaxAttempts \in Nat \ {0}

VARIABLES
    tenant,     \* Tenant.status, or deleted
    member,     \* the role of each user, none without a membership
    invite,     \* the newest invitation of each address: none, pending, expired, used
    account,    \* of each user: live, deleted (UserDeleted is out), purged, or dead (its message)
    tries,      \* of each user: attempts of that message, since it was published or retried
    tx,         \* the transaction of each request
    purge,      \* the transaction of purge_user_memberships
    late,       \* history: members whose invitation expired before they joined
    blind       \* history: owners removed by a purge that saw a mere member

vars == <<tenant, member, invite, account, tries, tx, purge, late, blind>>
rest == <<tries, late, blind>>

Roles == {"owner", "member"}
NoTx == [at |-> "idle", user |-> NoUser, role |-> "none", late |-> FALSE]
NoPurge == [at |-> "idle", user |-> NoUser, owned |-> FALSE, gone |-> FALSE, orphan |-> FALSE]

\* the clean-up of the user is under way
Purging(u) == purge.at # "idle" /\ purge.user = u

TypeOK ==
    /\ tenant \in {"active", "suspended", "deleted"}
    /\ member \in [Users -> Roles \cup {"none"}]
    /\ invite \in [Users -> {"none", "pending", "expired", "used"}]
    /\ account \in [Users -> {"live", "deleted", "purged", "dead"}]
    /\ tries \in [Users -> 0 .. MaxAttempts]
    /\ tx \in [Requests ->
                 [at : {"idle", "changed", "inviting", "invited", "revoked",
                        "accepting", "joined", "closing", "closed"},
                  user : Users \cup {NoUser}, role : Roles \cup {"none"}, late : BOOLEAN]]
    /\ purge \in [at : {"idle", "snapshot", "locked", "deleted"},
                  user : Users \cup {NoUser}, owned : BOOLEAN, gone : BOOLEAN, orphan : BOOLEAN]
    /\ late \subseteq Users
    /\ blind \subseteq Users
    /\ \A t \in Requests : tx[t].at \notin {"idle", "closing", "closed"} => tx[t].user \in Users
    /\ purge.at # "idle" => purge.user \in Users /\ account[purge.user] = "deleted"
    /\ \A u \in Users : account[u] = "deleted" /\ ~Purging(u) => tries[u] < MaxAttempts

Init ==
    /\ tenant = "active"
    /\ member = [u \in Users |-> IF u = Founder THEN "owner" ELSE "none"]
    /\ invite = [u \in Users |-> "none"]
    /\ account = [u \in Users |-> "live"]
    /\ tries = [u \in Users |-> 0]
    /\ tx = [t \in Requests |-> NoTx]
    /\ purge = NoPurge
    /\ late = {}
    /\ blind = {}

----------------------------------------------------------------------------
(* Row locks, by what each open transaction has done.                      *)

Sharing == {t \in Requests : tx[t].at = "joined"}
Locking == {t \in Requests : tx[t].at \in {"changed", "inviting", "invited", "closing", "closed"}}
PurgeLocks == purge.owned /\ purge.at \in {"locked", "deleted"}

NoForUpdate == Locking = {} /\ ~PurgeLocks
TenantFree == NoForUpdate /\ Sharing = {}

(* Mutant of HoldsInvite: the accept reads its invitation without locking. *)
HoldsWritten(t, u) ==
    \/ tx[t].at \in {"invited", "revoked"} /\ tx[t].user = u
    \/ tx[t].at = "closed"

HoldsInvite(t, u) ==
    \/ tx[t].at \in {"invited", "revoked", "accepting", "joined"} /\ tx[t].user = u
    \/ tx[t].at = "closed"
InviteFree(u) == \A t \in Requests : ~HoldsInvite(t, u)

HoldsMember(t, u) ==
    \/ tx[t].at = "changed" /\ tx[t].user = u
    \/ tx[t].at = "closed"
MemberFree(u) ==
    /\ \A t \in Requests : ~HoldsMember(t, u)
    /\ ~(purge.at = "deleted" /\ purge.user = u)

Members == {u \in Users : member[u] # "none"}
Owners == {u \in Users : member[u] = "owner"}
Pending == {u \in Users : invite[u] = "pending"}

Begin(t, at, u, r) ==
    /\ tx[t].at = "idle"
    /\ tx' = [tx EXCEPT ![t] = [at |-> at, user |-> u, role |-> r, late |-> FALSE]]
Go(t, from, to) ==
    /\ tx[t].at = from
    /\ tx' = [tx EXCEPT ![t].at = to]

----------------------------------------------------------------------------
(* PATCH and DELETE of a member, and leaving *)

(* The condition in the UPDATE or DELETE of an owner's row.                *)
AnotherOwner(u) == Owners \ {u} # {}

(* Mutant of ChangeMember: the tenant is not locked first.                 *)
ChangeUnlocked(t, u, r) ==
    /\ tenant # "deleted"
    /\ member[u] \notin {"none", r}
    /\ member[u] = "owner" => AnotherOwner(u)
    /\ MemberFree(u)
    /\ Begin(t, "changed", u, r)
    /\ UNCHANGED <<tenant, member, invite, account, purge, rest>>

\* change_role and remove_member: lock the tenant, read the row, write it
ChangeMember(t, u, r) ==
    /\ tenant # "deleted" /\ TenantFree
    /\ member[u] \notin {"none", r}
    /\ member[u] = "owner" => AnotherOwner(u)
    /\ MemberFree(u)
    /\ Begin(t, "changed", u, r)
    /\ UNCHANGED <<tenant, member, invite, account, purge, rest>>

----------------------------------------------------------------------------
(* Invitations *)

(* Mutant of LockToInvite: the seat is counted without the lock.           *)
LockNothing(t, u) ==
    /\ tenant # "deleted"
    /\ Begin(t, "inviting", u, "none")
    /\ UNCHANGED <<tenant, member, invite, account, purge, rest>>

\* create: lock the tenant ...
LockToInvite(t, u) ==
    /\ tenant # "deleted" /\ TenantFree
    /\ Begin(t, "inviting", u, "none")
    /\ UNCHANGED <<tenant, member, invite, account, purge, rest>>

SeatFree == Cardinality(Members) + Cardinality(Pending) < Seats

\* ... delete what expired for the address, check for a duplicate and a seat, insert.
\* An invitation accepted earlier stays in the table and is of no more use.
Invite(t) ==
    LET u == tx[t].user
    IN /\ Go(t, "inviting", "invited")
       /\ member[u] = "none"
       /\ invite[u] = "expired" => InviteFree(u)
       /\ invite[u] # "pending"
       /\ SeatFree
       /\ UNCHANGED <<tenant, member, invite, account, purge, rest>>

\* revoke looks the row up without a lock; the DELETE waits for it.  Of an invitation
\* accepted earlier it deletes what nobody reads any more.
Revoke(t, u) ==
    /\ invite[u] \in {"pending", "expired"} /\ InviteFree(u)
    /\ Begin(t, "revoked", u, "none")
    /\ UNCHANGED <<tenant, member, invite, account, purge, rest>>

\* accept: lookup FOR UPDATE and the checks, made once
Accept(t, u) ==
    /\ account[u] = "live"
    /\ invite[u] = "pending" /\ InviteFree(u)
    /\ tenant = "active"
    /\ Begin(t, "accepting", u, "none")
    /\ UNCHANGED <<tenant, member, invite, account, purge, rest>>

\* add_member, once no transaction has locked the tenant.  An account keeps its address,
\* so that no member is invited and there is no membership yet
Join(t) ==
    /\ tx[t].at = "accepting"
    /\ member[tx[t].user] = "none"
    /\ tenant # "deleted" /\ NoForUpdate
    /\ tx' = [tx EXCEPT ![t].at = "joined", ![t].late = (invite[tx[t].user] = "expired")]
    /\ UNCHANGED <<tenant, member, invite, account, purge, rest>>

Expire(u) ==
    /\ invite[u] = "pending"
    /\ invite' = [invite EXCEPT ![u] = "expired"]
    /\ UNCHANGED <<tenant, member, account, tx, purge, rest>>

----------------------------------------------------------------------------
(* The tenant itself *)

\* set_status writes the row without lock(): it waits for FOR UPDATE all the same
SetStatus(s) ==
    /\ tenant \notin {"deleted", s} /\ NoForUpdate
    /\ tenant' = s
    /\ UNCHANGED <<member, invite, account, tx, purge, rest>>

LockToClose(t) ==
    /\ tenant # "deleted" /\ TenantFree
    /\ Begin(t, "closing", NoUser, "none")
    /\ UNCHANGED <<tenant, member, invite, account, purge, rest>>

\* delete_tenant_rows
Close(t) ==
    /\ \A u \in Members : MemberFree(u)
    /\ \A u \in Users : invite[u] = "none" \/ InviteFree(u)
    /\ Go(t, "closing", "closed")
    /\ UNCHANGED <<tenant, member, invite, account, purge, rest>>

----------------------------------------------------------------------------
(* The end of a request's transaction *)

CommitMembers(t) ==
    member' = CASE tx[t].at = "changed" -> [member EXCEPT ![tx[t].user] = tx[t].role]
                [] tx[t].at = "joined" -> [member EXCEPT ![tx[t].user] = "member"]
                [] tx[t].at = "closed" -> [u \in Users |-> "none"]
                [] OTHER -> member

CommitInvites(t) ==
    invite' = CASE tx[t].at = "joined" -> [invite EXCEPT ![tx[t].user] = "used"]
                [] tx[t].at = "invited" -> [invite EXCEPT ![tx[t].user] = "pending"]
                [] tx[t].at = "revoked" -> [invite EXCEPT ![tx[t].user] = "none"]
                [] tx[t].at = "closed" -> [u \in Users |-> "none"]
                [] OTHER -> invite

Commit(t) ==
    /\ tx[t].at \in {"changed", "invited", "revoked", "joined", "closed"}
    /\ CommitMembers(t)
    /\ CommitInvites(t)
    /\ tenant' = IF tx[t].at = "closed" THEN "deleted" ELSE tenant
    /\ late' = IF tx[t].at # "joined" THEN late
               ELSE IF tx[t].late THEN late \cup {tx[t].user} ELSE late \ {tx[t].user}
    /\ tx' = [tx EXCEPT ![t] = NoTx]
    /\ UNCHANGED <<account, tries, purge, blind>>

\* a refusal, a lost connection, the victim of a deadlock
Rollback(t) ==
    /\ tx[t].at # "idle"
    /\ tx' = [tx EXCEPT ![t] = NoTx]
    /\ UNCHANGED <<tenant, member, invite, account, purge, rest>>

----------------------------------------------------------------------------
(* Deleted accounts *)

DeleteAccount(u) ==
    /\ account[u] = "live"
    /\ account' = [account EXCEPT ![u] = "deleted"]
    /\ tries' = [tries EXCEPT ![u] = 0]
    /\ UNCHANGED <<tenant, member, invite, tx, purge, late, blind>>

\* a claim of the message, and the subquery of owned tenants on the snapshot of the
\* locking SELECT
PurgeLooks(u) ==
    /\ purge.at = "idle" /\ account[u] = "deleted"
    /\ tries' = [tries EXCEPT ![u] = @ + 1]
    /\ purge' = [NoPurge EXCEPT !.at = "snapshot", !.user = u, !.owned = (member[u] = "owner")]
    /\ UNCHANGED <<tenant, member, invite, account, tx, late, blind>>

\* its FOR UPDATE, which waits; a tenant deleted meanwhile drops out
PurgeLocksTenant ==
    /\ purge.at = "snapshot"
    /\ purge.owned /\ tenant # "deleted" => TenantFree
    /\ purge' = [purge EXCEPT !.at = "locked", !.owned = @ /\ tenant # "deleted"]
    /\ UNCHANGED <<tenant, member, invite, account, tx, rest>>

(* Mutant of PurgeDeletes: only the memberships of the tenants it locked.  *)
PurgeDeletesLocked ==
    /\ purge.at = "locked"
    /\ MemberFree(purge.user)
    /\ purge' = [purge EXCEPT !.at = "deleted", !.gone = purge.owned,
                    !.orphan = purge.owned /\ Owners \ {purge.user} = {}]
    /\ UNCHANGED <<tenant, member, invite, account, tx, rest>>

\* the DELETE of the memberships it sees, and whether a locked tenant has an owner left
PurgeDeletes ==
    /\ purge.at = "locked"
    /\ MemberFree(purge.user)
    /\ purge' = [purge EXCEPT !.at = "deleted", !.gone = (member[purge.user] # "none"),
                    !.orphan = purge.owned /\ Owners \ {purge.user} = {}]
    /\ UNCHANGED <<tenant, member, invite, account, tx, rest>>

PurgeCommits ==
    /\ purge.at = "deleted"
    /\ member' = IF purge.gone THEN [member EXCEPT ![purge.user] = "none"] ELSE member
    /\ tenant' = IF purge.orphan THEN "suspended" ELSE tenant
    /\ account' = [account EXCEPT ![purge.user] = "purged"]
    /\ blind' = IF purge.gone /\ ~purge.owned /\ member[purge.user] = "owner"
                THEN blind \cup {purge.user} ELSE blind
    /\ purge' = NoPurge
    /\ UNCHANGED <<invite, tries, tx, late>>

\* the victim of a deadlock, the handler's timeout, a dead worker: _record_failure or
\* reclaim_expired.  The last attempt leaves the message dead
PurgeFails ==
    /\ purge.at # "idle"
    /\ account' = IF tries[purge.user] < MaxAttempts THEN account
                  ELSE [account EXCEPT ![purge.user] = "dead"]
    /\ purge' = NoPurge
    /\ UNCHANGED <<tenant, member, invite, tx, rest>>

\* an administrator retries the dead message
RetryPurge(u) ==
    /\ account[u] = "dead"
    /\ account' = [account EXCEPT ![u] = "deleted"]
    /\ tries' = [tries EXCEPT ![u] = 0]
    /\ UNCHANGED <<tenant, member, invite, tx, purge, late, blind>>

PurgeEnds == PurgeLocksTenant \/ PurgeDeletes \/ PurgeCommits \/ PurgeFails
PurgeStep ==
    \/ \E u \in Leavers : PurgeLooks(u)
    \/ PurgeEnds
----------------------------------------------------------------------------

RequestStep(t) ==
    \/ \E u \in Users, r \in Roles \cup {"none"} : ChangeMember(t, u, r)
    \/ \E u \in Guests : LockToInvite(t, u) \/ Revoke(t, u) \/ Accept(t, u)
    \/ Invite(t) \/ Join(t)
    \/ LockToClose(t) \/ Close(t)
    \/ Commit(t) \/ Rollback(t)

Next ==
    \/ \E t \in Requests : RequestStep(t)
    \/ \E u \in Guests : Expire(u)
    \/ \E s \in {"active", "suspended"} : SetStatus(s)
    \/ \E u \in Leavers : DeleteAccount(u) \/ RetryPurge(u)
    \/ PurgeStep

Spec == Init /\ [][Next]_vars

(* The recurring dispatch claims the message while it is pending, and a    *)
(* delivery ends: the handler has a timeout, and its claim a lease.        *)
Fairness ==
    /\ WF_vars(\E u \in Leavers : PurgeLooks(u))
    /\ WF_vars(PurgeEnds)

FairSpec == Spec /\ Fairness
----------------------------------------------------------------------------
(* Properties.                                                             *)

(* Members and pending invitations never take more than the seats,         *)
(* counting out a member whose invitation expired after accept had checked *)
(* it and before the join: its seat could be given away in between.        *)
SeatsKept == Cardinality(Members \ late) + Cardinality(Pending) <= Seats

(* No demotion, departure or purge leaves an active tenant without an      *)
(* owner, whatever runs beside it.  The exception is a member promoted     *)
(* after the purge of that very account looked for tenants to lock.        *)
OwnerKept ==
    [][Owners # {} /\ Owners' = {} => tenant' # "active" \/ blind' # {}]_vars

(* Nobody joins but by an invitation that is still there and unused, and   *)
(* the join uses it up: no link enrols twice, nor after it was revoked.    *)
JoinsByOpenInvite ==
    [][\A u \in Users : member[u] = "none" /\ member'[u] # "none" =>
          invite[u] \in {"pending", "expired"} /\ invite'[u] = "used"]_vars

\* an accept of the user that may still insert a membership
Arriving(u) == \E t \in Requests : tx[t].at \in {"accepting", "joined"} /\ tx[t].user = u

(* Whoever was deleted is out of the tenant in the end, through locks,     *)
(* failed deliveries and the deletion of the tenant itself, unless         *)
(* outbox_max_attempts deliveries failed and the message is dead, until an *)
(* administrator retries it; all but one whose accept was still open when  *)
(* the purge looked for memberships.                                       *)
DeletedLeave ==
    \A u \in Users :
        account[u] = "deleted" /\ ~Arriving(u) /\ ~(purge.at = "deleted" /\ purge.user = u)
          ~> account[u] = "dead" \/ (account[u] = "purged" /\ member[u] = "none")
=============================================================================
