--------------------------- MODULE RenewalOutcomes ---------------------------
(***************************************************************************)
(* The renewal of one browser session whose refresh token rotates          *)
(* (src/modules/auth/auth/oidc_common/renewal.py, renewal_outcomes.py).    *)
(* Requests of the browser, on any worker, find its authority expired;     *)
(* one at a time spends the refresh token under a lease and publishes what *)
(* came of it, and those that carry the same cookie adopt that.  A logout  *)
(* drops the published outcomes.  The identity provider revokes a session  *)
(* whose refresh token is spent twice.                                     *)
(*                                                                         *)
(* A cookie is named by the refresh token in it, and tokens are numbered   *)
(* as they are issued.  The lease is one that keeps its full TTL, as a     *)
(* plain lease of DbLease does (FullTtl).                                  *)
(***************************************************************************)
EXTENDS Integers

CONSTANTS
    Requests,
    Logout, Stray, NoOne,  \* who else has the lease: a request that is over, or none
    MaxTokens,      \* bound: rotations
    TTL,            \* _LEASE_TTL, and how long a logout waits for the lease
    Delay,          \* _WAIT_SECONDS: the longest a lease is held before its acquire returns
    WorkTime,       \* _WORK_SECONDS
    PublishTime,    \* _PUBLISH_SECONDS
    OutcomeTTL      \* _OUTCOME_TTL

ASSUME RenewalConstants ==
    /\ Requests \cap {Logout, Stray, NoOne} = {}
    /\ Logout # Stray /\ Logout # NoOne /\ Stray # NoOne
    /\ MaxTokens \in Nat /\ OutcomeTTL \in Nat \ {0}
    /\ TTL \in Nat /\ Delay \in Nat /\ WorkTime \in Nat /\ PublishTime \in Nat
    /\ WorkTime + PublishTime < TTL /\ Delay < TTL

VARIABLES
    newest,     \* the token the provider has issued last
    expired,    \* has the authority that came with it run out
    revoked,    \* the provider's session
    browser,    \* the cookie the browser has
    holder,     \* of the lease auth-refresh:<session>
    left,       \* of its time
    outcome,    \* the RefreshOutcome rows, by the token spent
    landing,    \* rows whose publication was cut off, and may still commit
    req,
    logout,
    unshared,   \* history: spent tokens whose outcome nobody can adopt (any more)
    resent,     \* history: cookies that a failed renewal has sent back
    slow,       \* history: cookies renewed under a lease that came late
    reused      \* history: tokens spent again

idp == <<newest, expired, revoked>>
lease == <<holder, left>>
shared == <<outcome, landing>>
history == <<unshared, resent, slow, reused>>
vars == <<newest, expired, revoked, browser, holder, left, outcome, landing, req, logout,
          unshared, resent, slow, reused>>

Tokens == 0..MaxTokens
Cleared == -1       \* a session without authority
Untouched == -2     \* a response that sets no cookie
Cookies == Tokens \cup {Cleared}

Idle == [at |-> "idle", cookie |-> 0, waited |-> FALSE, clock |-> 0, reply |-> Untouched,
         before |-> FALSE]
NoOutcome == [left |-> 0, val |-> Cleared]

TypeOK ==
    /\ newest \in Tokens
    /\ expired \in BOOLEAN /\ revoked \in BOOLEAN
    /\ browser \in Cookies
    /\ holder \in Requests \cup {Logout, Stray, NoOne}
    /\ left \in 0..TTL
    /\ holder = NoOne <=> left = 0
    /\ outcome \in [Tokens -> [left : 0..OutcomeTTL, val : Cookies]]
    /\ landing \in [Tokens -> [left : 0..OutcomeTTL, val : Cookies]]
    /\ req \in [Requests ->
                  [at : {"idle", "asking", "granted", "loading", "renewing", "validating",
                         "publishing", "releasing", "answered", "turned"},
                   cookie : Tokens, waited : BOOLEAN, clock : 0..TTL,
                   reply : Cookies \cup {Untouched}, before : BOOLEAN]]
    /\ logout \in [at : {"idle", "waiting", "deleting", "done", "failed"}, clock : 0..TTL]
    /\ unshared \subseteq Tokens /\ resent \subseteq Tokens
    /\ slow \subseteq Tokens /\ reused \subseteq Tokens

Init ==
    /\ newest = 0 /\ expired = FALSE /\ revoked = FALSE
    /\ browser = 0
    /\ holder = NoOne /\ left = 0
    /\ outcome = [g \in Tokens |-> NoOutcome]
    /\ landing = [g \in Tokens |-> NoOutcome]
    /\ req = [q \in Requests |-> Idle]
    /\ logout = [at |-> "idle", clock |-> 0]
    /\ unshared = {} /\ resent = {} /\ slow = {} /\ reused = {}

(* Requests to which the lease has been given for a renewal.               *)
Renewing == {"granted", "loading", "renewing", "validating", "publishing"}
(* It has not waited for the lease, and so may spend its token.            *)
Renews(q) == req[q].at \in Renewing /\ ~req[q].waited
Working == {"loading", "renewing", "validating"}

Go(q, from, to) ==
    /\ req[q].at = from
    /\ req' = [req EXCEPT ![q].at = to]
(* The request is done with what it had to do, and what it answers is set. *)
Ends(q, to, val) ==
    req' = [req EXCEPT ![q] = [Idle EXCEPT !.at = to, !.cookie = req[q].cookie, !.reply = val]]
(* The work is over; the lease is still to be released.                    *)
Over(q, val) == Ends(q, "releasing", val)

(* What happens to a token after which no outcome of it can be adopted.    *)
Lose(S) == unshared' = unshared \cup {g \in S : g < newest'}
-----------------------------------------------------------------------------
(* The session lease.                                                      *)

(* A request finds the authority of its cookie expired.                    *)
Start(q) ==
    /\ req[q].at = "idle"
    /\ browser \in Tokens /\ (expired \/ browser < newest)
    /\ req' = [req EXCEPT ![q] = [Idle EXCEPT !.at = "asking", !.cookie = browser]]
    /\ UNCHANGED <<idp, browser, lease, shared, logout, history>>

(* The one attempt of acquire(blocking=False), or a later one of acquire().  *)
Grant(q) ==
    /\ req[q].at = "asking" /\ holder \in {q, NoOne}
    /\ holder' = q /\ left' = TTL
    /\ req' = [req EXCEPT ![q].at = "granted", ![q].clock = 0]
    /\ UNCHANGED <<idp, browser, shared, logout, history>>

Refused(q) ==
    /\ req[q].at = "asking" /\ holder \notin {q, NoOne}
    /\ req' = [req EXCEPT ![q].waited = TRUE]
    /\ UNCHANGED <<idp, browser, lease, shared, logout, history>>

(* wait_for gives the attempt up, granted or not.                          *)
NoAnswer(q) ==
    /\ req[q].at \in {"asking", "granted"}
    /\ req' = [req EXCEPT ![q].at = "asking", ![q].waited = TRUE, ![q].clock = 0,
                          ![q].before = FALSE]
    /\ UNCHANGED <<idp, browser, lease, shared, logout, history>>

(* acquire returns.  What it took of the lease's time may leave too little *)
(* of it for the work and the publication.                                 *)
Enter(q) ==
    /\ req[q].at = "granted"
    /\ req' = [req EXCEPT ![q].at = "loading", ![q].clock = 0]
    /\ slow' = IF ~req[q].waited /\ req[q].clock + WorkTime + PublishTime >= TTL
               THEN slow \cup {req[q].cookie} ELSE slow
    /\ UNCHANGED <<idp, browser, lease, shared, logout, unshared, resent, reused>>

(* The lease's storage fails: the cookie is kept and sent with a cooldown. *)
AcquireFails(q) ==
    /\ req[q].at \in {"asking", "granted"}
    /\ Ends(q, "answered", req[q].cookie)
    /\ resent' = resent \cup {req[q].cookie}
    /\ UNCHANGED <<idp, browser, lease, shared, logout, unshared, slow, reused>>

(* No authority and no change of the session: unless it is a navigation,   *)
(* for which AuthMiddleware notes in the session where to go after sign-in, *)
(* and the session goes out with the token it came with.                   *)
TurnedAway(q) ==
    Ends(q, "answered", Untouched) \/ Ends(q, "turned", req[q].cookie)

(* Mutant of GiveUp: a waiter backs off as a failed renewal does.          *)
GiveUpBackoff(q) ==
    /\ req[q].at = "asking" /\ req[q].waited
    /\ Ends(q, "answered", req[q].cookie)
    /\ UNCHANGED <<idp, browser, lease, shared, logout, history>>

(* The waiter's time is up.                                                *)
GiveUp(q) ==
    /\ req[q].at = "asking" /\ req[q].waited
    /\ TurnedAway(q)
    /\ UNCHANGED <<idp, browser, lease, shared, logout, history>>
-----------------------------------------------------------------------------
(* Under the lease.                                                        *)

Load(q) ==
    LET o == outcome[req[q].cookie]
    IN /\ req[q].at = "loading"
       /\ IF o.left > 0
          THEN \E val \in {o.val, Cleared} : Over(q, val)  \* cleared: other authority
          ELSE IF req[q].waited THEN Over(q, Untouched)  \* to be turned away
          ELSE Go(q, "loading", "renewing")
       /\ UNCHANGED <<idp, browser, lease, shared, logout, history>>

(* The renewal ends with this cookie, which is to be published.            *)
Served(q, val) ==
    req' = [req EXCEPT ![q].at = "publishing", ![q].clock = 0, ![q].reply = val]

(* refresh_tokens: the provider takes the token and issues the next one ... *)
Accept(q) ==
    LET g == req[q].cookie
    IN /\ req[q].at = "renewing" /\ ~revoked /\ g = newest /\ newest < MaxTokens
       /\ newest' = newest + 1 /\ expired' = FALSE
       /\ \/ /\ req' = [req EXCEPT ![q].at = "validating", ![q].reply = newest + 1]
             /\ UNCHANGED <<unshared, resent>>
          \/ /\ Served(q, g)
             /\ Lose({g})  \* the answer is lost: a transport error
             /\ resent' = resent \cup {g}
       /\ UNCHANGED <<revoked, browser, lease, shared, logout, slow, reused>>

(* ... or refuses it, and ends the session of one spent before.            *)
Reject(q) ==
    LET g == req[q].cookie
    IN /\ req[q].at = "renewing" /\ (revoked \/ g < newest)
       /\ revoked' = TRUE
       /\ reused' = IF g < newest THEN reused \cup {g} ELSE reused
       /\ \/ Served(q, Cleared) /\ UNCHANGED resent
          \/ Served(q, g) /\ resent' = resent \cup {g}  \* the answer is lost
       /\ UNCHANGED <<newest, expired, browser, lease, shared, logout, unshared, slow>>

(* It cannot be reached, or asks to come back later.                       *)
Transient(q) ==
    LET g == req[q].cookie
    IN /\ req[q].at = "renewing"
       /\ Served(q, g)
       /\ resent' = resent \cup {g}
       /\ UNCHANGED <<idp, browser, lease, shared, logout, unshared, slow, reused>>

(* The claims are good and the same user's, or the session is forgotten.   *)
Validate(q) ==
    /\ req[q].at = "validating"
    /\ \E val \in {req[q].reply, Cleared} : Served(q, val)
    /\ UNCHANGED <<idp, browser, lease, shared, logout, history>>

(* The work took too long, or the database failed.                         *)
CutOff(q) ==
    /\ req[q].at \in Working
    /\ Over(q, req[q].cookie)
    /\ UNCHANGED <<idp, browser, lease, shared, logout, slow, reused>>
    /\ Lose(IF req[q].at = "validating" THEN {req[q].cookie} ELSE {})
    /\ resent' = resent \cup {req[q].cookie}

Row(q) == [left |-> OutcomeTTL, val |-> req[q].reply]

Publish(q) ==
    /\ req[q].at = "publishing"
    /\ Over(q, req[q].reply)
    /\ outcome' = [outcome EXCEPT ![req[q].cookie] = Row(q)]
    /\ UNCHANGED <<idp, browser, lease, landing, logout, history>>

(* The row is not written, or it will be once the COMMIT in flight gets    *)
(* through.  Bound: of the rows of one token one is in flight.             *)
CutShort(q) ==
    /\ landing' \in {landing, [landing EXCEPT ![req[q].cookie] = Row(q)]}
    /\ Lose({req[q].cookie})

PublishFails(q) ==
    /\ req[q].at = "publishing"
    /\ Over(q, req[q].reply)
    /\ UNCHANGED <<idp, browser, lease, outcome, logout, resent, slow, reused>>
    /\ CutShort(q)

Lands(g) ==
    /\ landing[g].left > 0
    /\ outcome' = [outcome EXCEPT ![g] = landing[g]]
    /\ landing' = [landing EXCEPT ![g] = NoOutcome]
    /\ UNCHANGED <<idp, browser, lease, req, logout, history>>

(* Mutant of Free: expires_at is left as it was.                           *)
FreeKeepsTime(t) ==
    /\ holder' = IF holder = t THEN NoOne ELSE holder
    /\ UNCHANGED left

(* Only the lease that is still its own.                                   *)
Free(t) ==
    /\ holder' = IF holder = t THEN NoOne ELSE holder
    /\ left' = IF holder = t THEN 0 ELSE left

Release(q) ==
    /\ req[q].at = "releasing"
    /\ IF req[q].reply = Untouched THEN TurnedAway(q)
       ELSE Ends(q, "answered", req[q].reply)
    /\ Free(q)
    /\ UNCHANGED <<idp, browser, shared, logout, history>>

(* The release raises: the lease lasts its time, and the cooldown is noted *)
(* in the session, even of a waiter that wanted to leave it alone.         *)
ReleaseFails(q) ==
    LET g == req[q].cookie
    IN /\ req[q].at = "releasing"
       /\ IF req[q].reply = Untouched
          THEN Ends(q, "answered", g) /\ resent' = resent \cup {g}
          ELSE Ends(q, "answered", req[q].reply) /\ UNCHANGED resent
       /\ UNCHANGED <<idp, browser, lease, shared, logout, unshared, slow, reused>>

(* Every request has a lease token of its own: nobody releases what is left. *)
Done(q) ==
    /\ req' = [req EXCEPT ![q] = Idle]
    /\ holder' = IF holder = q THEN Stray ELSE holder
    /\ UNCHANGED left

(* Responses reach the browser in any order.                               *)
Arrive(q) ==
    /\ req[q].at \in {"answered", "turned"}
    /\ browser' = IF req[q].reply = Untouched THEN browser ELSE req[q].reply
    /\ Done(q)
    /\ UNCHANGED <<idp, shared, logout, history>>

(* The client is gone or the worker died: its lease lasts its time.        *)
Crash(q) ==
    /\ req[q].at # "idle"
    /\ Done(q)
    /\ UNCHANGED <<idp, browser, outcome, logout, resent, slow, reused>>
    /\ IF req[q].at = "publishing" THEN CutShort(q)
       ELSE /\ Lose(IF req[q].at = "validating" THEN {req[q].cookie} ELSE {})
            /\ UNCHANGED landing
-----------------------------------------------------------------------------
(* Logout: the provider may be told; forget_outcomes; the cookie.          *)

LogoutBegins ==
    /\ logout.at = "idle" /\ browser \in Tokens
    /\ revoked' \in {revoked, TRUE}
    /\ logout' = [logout EXCEPT !.at = "waiting"]
    /\ req' = [q \in Requests |-> [req[q] EXCEPT !.before = Renews(q)]]
    /\ UNCHANGED <<newest, expired, browser, lease, shared, history>>

LogoutGranted ==
    /\ logout.at = "waiting" /\ holder = NoOne
    /\ holder' = Logout /\ left' = TTL
    /\ logout' = [logout EXCEPT !.at = "deleting", !.clock = 0]
    /\ UNCHANGED <<idp, browser, shared, req, history>>

(* Mutant of LogoutGivesUp: it asks for the lease once.                    *)
LogoutAsksOnce ==
    /\ logout.at = "waiting"
    /\ logout' = [logout EXCEPT !.at = "deleting", !.clock = 0]
    /\ UNCHANGED <<idp, browser, lease, shared, req, history>>

(* It has waited as long as a lease lasts.                                 *)
LogoutGivesUp ==
    /\ logout.at = "waiting" /\ logout.clock = TTL
    /\ logout' = [at |-> "deleting", clock |-> 0]
    /\ UNCHANGED <<idp, browser, lease, shared, req, history>>

(* acquire() raises, or the delete fails: a logout is not stopped.         *)
LogoutFails ==
    /\ logout.at \in {"waiting", "deleting"}
    /\ logout' = [at |-> "failed", clock |-> 0]
    /\ browser' = Cleared
    /\ UNCHANGED <<idp, lease, shared, req, history>>

Forgets(end) ==
    /\ outcome' = [g \in Tokens |-> NoOutcome]
    /\ logout' = [at |-> end, clock |-> 0]
    /\ browser' = Cleared
    /\ UNCHANGED <<idp, landing, req, resent, slow, reused>>
    /\ Lose({g \in Tokens : outcome[g].left > 0})

LogoutDeletes ==
    /\ logout.at = "deleting"
    /\ Forgets("done")
    /\ Free(Logout) \/ UNCHANGED lease

(* The lease cannot be reached: acquire() returns False at once, and the   *)
(* outcomes are deleted regardless.                                        *)
LogoutHastens ==
    /\ logout.at = "waiting"
    /\ Forgets("failed")
    /\ UNCHANGED lease
-----------------------------------------------------------------------------
(* What is bounded by a timeout ends in time.                              *)

(* Mutant of InTime: the publication has no timeout.                       *)
InTimeToPublish(q) ==
    /\ req[q].at = "granted" => req[q].clock < Delay
    /\ req[q].at \in Working => req[q].clock < WorkTime
    /\ req[q].clock < TTL

InTime(q) ==
    /\ req[q].at = "granted" => req[q].clock < Delay
    /\ req[q].at \in Working => req[q].clock < WorkTime
    /\ req[q].at = "publishing" => req[q].clock < PublishTime

Aged(row) == IF row.left <= 1 THEN NoOutcome ELSE [row EXCEPT !.left = @ - 1]

Tick ==
    /\ \A q \in Requests : InTime(q)
    /\ logout.at = "waiting" => logout.clock < TTL
    /\ left' = IF left > 0 THEN left - 1 ELSE 0
    /\ holder' = IF left <= 1 THEN NoOne ELSE holder
    /\ outcome' = [g \in Tokens |-> Aged(outcome[g])]
    /\ landing' = [g \in Tokens |-> Aged(landing[g])]
    /\ req' = [q \in Requests |-> IF req[q].at \in Renewing
                                  THEN [req[q] EXCEPT !.clock = @ + 1] ELSE req[q]]
    /\ logout' = IF logout.at = "waiting" THEN [logout EXCEPT !.clock = @ + 1] ELSE logout
    /\ UNCHANGED <<idp, browser, resent, slow, reused>>
    /\ Lose({g \in Tokens : outcome[g].left = 1})

(* Authority lasts longer than an outcome, and than the requests that were *)
(* sent with the cookie before.                                            *)
Expire ==
    /\ ~expired /\ newest < MaxTokens
    /\ \A q \in Requests : req[q].at = "idle" \/ req[q].cookie = newest
    /\ \A g \in Tokens : outcome[g].left = 0 /\ landing[g].left = 0
    /\ expired' = TRUE
    /\ UNCHANGED <<newest, revoked, browser, lease, shared, req, logout, history>>

Step(q) ==
    \/ Start(q) \/ Grant(q) \/ Refused(q) \/ NoAnswer(q) \/ Enter(q) \/ AcquireFails(q) \/ GiveUp(q)
    \/ Load(q) \/ Accept(q) \/ Reject(q) \/ Transient(q) \/ Validate(q) \/ CutOff(q)
    \/ Publish(q) \/ PublishFails(q) \/ Release(q) \/ ReleaseFails(q) \/ Arrive(q) \/ Crash(q)

LogoutStep ==
    \/ LogoutBegins \/ LogoutGranted \/ LogoutGivesUp
    \/ LogoutFails \/ LogoutDeletes \/ LogoutHastens

Next ==
    \/ \E q \in Requests : Step(q)
    \/ \E g \in Tokens : Lands(g)
    \/ LogoutStep
    \/ Tick \/ Expire

Spec == Init /\ [][Next]_vars
-----------------------------------------------------------------------------
(* Properties.                                                             *)

(* No refresh token is spent twice, as long as the outcome of the first    *)
(* time can be adopted or is about to be published: neither by parallel    *)
(* requests nor by one that gets the lease when the time of another is up. *)
(* That is so of every renewal but one whose acquire took so much of the   *)
(* lease's time that work and publication no longer fit in the rest: the   *)
(* code bounds the three apart, and their bounds exceed the TTL.           *)
SpentOnce == reused \subseteq unshared \cup slow

(* A browser never goes back to an older cookie but to one that a failed   *)
(* renewal sent again, or that comes with a navigation turned away: a      *)
(* request that adopts, or that gives up without a change of its session,  *)
(* does not undo what the winner has sent.                                 *)
Back == browser \in Tokens /\ browser' \in Tokens /\ browser' < browser
TurnedArrives == \E q \in Requests : req[q].at = "turned" /\ Arrive(q)
CookieKept == [][Back => browser' \in resent \/ TurnedArrives]_vars

(* A late Set-Cookie must not overwrite the winner's, and a waiter leaves  *)
(* its cookie untouched (docs/modules/auth.md): only a failed renewal      *)
(* sends a cookie again.                                                   *)
WaitersLeaveCookie == [][Back => browser' \in resent]_vars

(* A renewal that was in flight when the user signed out publishes nothing *)
(* after the logout has dropped the outcomes, if the logout could wait for *)
(* it and its lease was not late.  What was cut off before may still land. *)
LogoutSticks ==
    [][\A q \in Requests : logout.at = "done" /\ Publish(q) /\ req[q].before
                             => req[q].cookie \in slow]_vars
=============================================================================
