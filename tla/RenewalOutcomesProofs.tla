------------------------ MODULE RenewalOutcomesProofs ------------------------
(***************************************************************************)
(* Proofs about RenewalOutcomes, for any number of requests and rotations  *)
(* and any timeouts that RenewalConstants allows.                          *)
(*                                                                         *)
(* The inductive invariant IInv has three arguments.  The lease: a request *)
(* whose acquire returned in time has under it what its work and its       *)
(* publication may still take, so that no other is given the lease before  *)
(* (Leased), and one that began before a logout is out of it when the      *)
(* logout stops waiting (SignedOut).  The outcomes: the one of each spent  *)
(* token is lost, to be read, or with the request that spent it, and a     *)
(* request about to spend a token that was spent has found none            *)
(* (SpentInv).  The generations: since the authority ran out last a single *)
(* new cookie was issued, and every other that a response or an outcome    *)
(* carries was sent back by a failed renewal, or is the one its request    *)
(* came with (CookieInv).                                                  *)
(***************************************************************************)
EXTENDS RenewalOutcomes, TLAPS

Stations == {"idle", "asking", "granted", "loading", "renewing", "validating",
             "publishing", "releasing", "answered", "turned"}
Request == [at : Stations, cookie : Tokens, waited : BOOLEAN, clock : 0..TTL,
            reply : Cookies \cup {Untouched}, before : BOOLEAN]
Rows == [Tokens -> [left : 0..OutcomeTTL, val : Cookies]]
Holders == Requests \cup {Logout, Stray, NoOne}

\* The token is spent, its outcome not yet published.
Paying == {"validating", "publishing"}

\* A renewal whose lease did not come late: all it has to do fits in what is left of it.
Prompt(q) == ~req[q].waited /\ req[q].cookie \notin slow
Covered(q) == req[q].at = "granted" \/ (req[q].at \in Renewing /\ Prompt(q))

Leased(q) ==
    /\ req[q].at = "granted" =>
         holder = q /\ req[q].clock <= Delay /\ left + req[q].clock >= TTL
    /\ req[q].at \in Working =>
         /\ req[q].clock <= WorkTime
         /\ Prompt(q) => holder = q /\ left + req[q].clock > WorkTime + PublishTime
    /\ req[q].at = "publishing" =>
         /\ req[q].clock <= PublishTime
         /\ Prompt(q) => holder = q /\ left + req[q].clock > PublishTime

Replied(q) ==
    /\ req[q].at \in Paying \cup {"renewing"} => ~req[q].waited
    /\ req[q].at \in {"idle", "asking", "granted", "loading", "renewing"} =>
         req[q].reply = Untouched
    /\ req[q].at \in Paying => req[q].reply \in Cookies
    /\ req[q].at = "turned" => req[q].reply = req[q].cookie

\* A request that was renewing when the logout began, and has not let go of it since.
SignedOut(q) ==
    req[q].before =>
        /\ Renews(q)
        /\ logout.at = "waiting" =>
             /\ req[q].at = "granted" => logout.clock <= req[q].clock
             /\ req[q].at \in Working /\ Prompt(q) =>
                  logout.clock + WorkTime + PublishTime < TTL + req[q].clock
             /\ req[q].at = "publishing" /\ Prompt(q) =>
                  logout.clock + PublishTime < TTL + req[q].clock
        /\ logout.at \in {"deleting", "done"} => req[q].at # "granted" /\ ~Prompt(q)

RequestInv == \A q \in Requests : Leased(q) /\ Replied(q) /\ SignedOut(q)

\* The logout's clock runs while it waits.
Resting == logout.at # "waiting" => logout.clock = 0

SpentInv ==
    /\ \A q \in Requests : req[q].at = "renewing" =>
         req[q].cookie = newest \/ req[q].cookie \in unshared \cup slow
    /\ \A g \in Tokens : g < newest =>
         \/ g \in unshared
         \/ outcome[g].left > 0
         \/ \E q \in Requests : req[q].at \in Paying /\ req[q].cookie = g
    /\ SpentOnce

\* Sent back after a failure, or the one cookie issued since the authority ran out.
Sent(val) == val \in Tokens => val \in resent \/ (~expired /\ val = newest)

CookieInv ==
    /\ browser \in Tokens => browser <= newest
    /\ \A g \in resent : g <= newest
    /\ \A q \in Requests :
         /\ req[q].cookie <= newest
         /\ req[q].at # "idle" /\ ~expired => req[q].cookie < newest
         /\ req[q].at # "turned" => Sent(req[q].reply)
    /\ \A g \in Tokens : /\ outcome[g].left > 0 => Sent(outcome[g].val)
                         /\ landing[g].left > 0 => Sent(landing[g].val)

IInv == TypeOK /\ RequestInv /\ Resting /\ SpentInv /\ CookieInv

USE DEF Cleared, Untouched
-----------------------------------------------------------------------------
LEMMA Numbers ==
    /\ MaxTokens \in Nat /\ OutcomeTTL \in Nat /\ OutcomeTTL > 0 /\ TTL \in Nat /\ TTL > 0
    /\ Delay \in Nat /\ WorkTime \in Nat /\ PublishTime \in Nat
    /\ WorkTime + PublishTime < TTL /\ Delay < TTL
    /\ Tokens = 0..MaxTokens /\ Cookies = Tokens \cup {-1}
    /\ -1 \notin Tokens /\ -2 \notin Cookies /\ \A g \in Tokens : g \in Nat
BY RenewalConstants DEF Tokens, Cookies

LEMMA Names ==
    /\ \A q \in Requests : q # NoOne /\ q # Logout /\ q # Stray
    /\ Logout # NoOne /\ Stray # NoOne
BY RenewalConstants

LEMMA Types ==
    ASSUME TypeOK
    PROVE  /\ newest \in Tokens /\ newest \in Nat
           /\ req \in [Requests -> Request] /\ \A q \in Requests : req[q] \in Request
           /\ holder \in Holders /\ left \in 0..TTL /\ left \in Nat
           /\ holder = NoOne <=> left = 0
           /\ outcome \in Rows /\ landing \in Rows
           /\ \A g \in Tokens :
                /\ outcome[g].left \in 0..OutcomeTTL /\ outcome[g].val \in Cookies
                /\ landing[g].left \in 0..OutcomeTTL /\ landing[g].val \in Cookies
           /\ logout.clock \in 0..TTL
<1>1. newest \in Nat
  BY Numbers DEF TypeOK
<1>2. left \in Nat
  BY Numbers DEF TypeOK
<1>3. outcome \in Rows /\ landing \in Rows
  BY DEF TypeOK, Rows
<1>4. ASSUME NEW g \in Tokens
      PROVE  /\ outcome[g].left \in 0..OutcomeTTL /\ outcome[g].val \in Cookies
             /\ landing[g].left \in 0..OutcomeTTL /\ landing[g].val \in Cookies
  BY <1>3 DEF Rows
<1> QED BY <1>1, <1>2, <1>3, <1>4 DEF TypeOK, Request, Stations, Holders

LEMMA IdleTyped == Idle \in Request /\ NoOutcome \in [left : 0..OutcomeTTL, val : Cookies]
BY Numbers DEF Idle, NoOutcome, Request, Stations

LEMMA InitIInv == Init => IInv
<1> SUFFICES ASSUME Init PROVE IInv
  OBVIOUS
<1>1. TypeOK
  <2>1. req \in [Requests -> Request]
    BY IdleTyped DEF Init
  <2>2. outcome \in Rows /\ landing \in Rows
    BY IdleTyped DEF Init, Rows
  <2>3. logout \in [at : {"idle", "waiting", "deleting", "done", "failed"}, clock : 0..TTL]
    BY Numbers DEF Init
  <2>4. newest \in Tokens /\ browser \in Cookies /\ left \in 0..TTL
    BY Numbers DEF Init
  <2> QED BY <2>1, <2>2, <2>3, <2>4 DEF Init, TypeOK, Request, Stations, Rows
<1>2. \A q \in Requests : req[q] = Idle
  BY Zenon DEF Init
<1>3. ASSUME NEW q \in Requests
      PROVE  Leased(q) /\ Replied(q) /\ SignedOut(q)
  <2>1. req[q].at = "idle" /\ req[q].reply = Untouched /\ ~req[q].before
    BY <1>2 DEF Idle
  <2> QED BY <2>1 DEF Leased, Replied, SignedOut, Working, Paying
<1>4. SpentInv /\ Resting
  BY <1>2, Numbers DEF Init, SpentInv, SpentOnce, Idle, Resting
<1>5. CookieInv
  BY <1>2, Numbers DEF Init, CookieInv, Sent, Idle, NoOutcome
<1> QED BY <1>1, <1>3, <1>4, <1>5 DEF IInv, RequestInv
-----------------------------------------------------------------------------
(* What a step of one request keeps of each part of the invariant.         *)

\* The lease is not taken from a request that is under it in time.
LEMMA OneHolder ==
    ASSUME IInv, NEW q \in Requests, NEW p \in Requests, Covered(q), Covered(p)
    PROVE  p = q
BY DEF IInv, RequestInv, Leased, Covered, Renewing, Working

LEMMA OthersKept ==
    ASSUME IInv, NEW q \in Requests, NEW v \in Request, req' = [req EXCEPT ![q] = v],
           UNCHANGED lease \/ holder \in {q, NoOne}, UNCHANGED logout, slow \subseteq slow',
           (Leased(q) /\ Replied(q) /\ SignedOut(q))'
    PROVE  RequestInv'
<1> SUFFICES ASSUME NEW p \in Requests, p # q
             PROVE  (Leased(p) /\ Replied(p) /\ SignedOut(p))'
  BY DEF RequestInv
<1>1. req'[p] = req[p] /\ (Prompt(p)' => Prompt(p))
  BY Types DEF IInv, Prompt
<1>2. Leased(p) /\ Replied(p) /\ SignedOut(p)
  BY DEF IInv, RequestInv
<1>3. Leased(p)'
  <2>1. CASE UNCHANGED lease
    BY <1>1, <1>2, <2>1 DEF Leased, lease
  <2>2. CASE holder \in {q, NoOne}
    <3>1. holder # p
      BY <2>2, Names
    <3>2. req[p].at # "granted" /\ (req[p].at \in Working \cup {"publishing"} => ~Prompt(p))
      BY <1>2, <3>1 DEF Leased
    <3> QED BY <1>1, <1>2, <3>2 DEF Leased
  <2> QED BY <2>1, <2>2
<1>4. Replied(p)'
  BY <1>1, <1>2 DEF Replied
<1>5. SignedOut(p)'
  BY <1>1, <1>2 DEF SignedOut, Renews
<1> QED BY <1>3, <1>4, <1>5

LEMMA SpentKept ==
    ASSUME IInv, NEW q \in Requests, NEW v \in Request, req' = [req EXCEPT ![q] = v],
           UNCHANGED <<newest, outcome>>, unshared \subseteq unshared', slow \subseteq slow',
           reused' \subseteq unshared' \cup slow',
           v.at = "renewing" => v.cookie = newest \/ v.cookie \in unshared \cup slow,
           req[q].at \in Paying /\ req[q].cookie < newest =>
               \/ v.at \in Paying /\ v.cookie = req[q].cookie
               \/ req[q].cookie \in unshared'
    PROVE  SpentInv'
<1>1. req'[q] = v /\ \A p \in Requests : p # q => req'[p] = req[p]
  BY Types DEF IInv
<1>2. \A p \in Requests : req'[p].at = "renewing" =>
        req'[p].cookie = newest \/ req'[p].cookie \in unshared' \cup slow'
  BY <1>1 DEF IInv, SpentInv
<1>3. ASSUME NEW g \in Tokens, g < newest
      PROVE  \/ g \in unshared'
             \/ outcome[g].left > 0
             \/ \E p \in Requests : req'[p].at \in Paying /\ req'[p].cookie = g
  <2>1. CASE \E p \in Requests : req[p].at \in Paying /\ req[p].cookie = g
    <3>1. PICK p \in Requests : req[p].at \in Paying /\ req[p].cookie = g
      BY <2>1
    <3> QED BY <1>1, <1>3, <3>1
  <2> QED BY <1>3, <2>1 DEF IInv, SpentInv
<1>4. SpentOnce'
  BY DEF SpentOnce
<1> QED BY <1>2, <1>3, <1>4 DEF SpentInv

LEMMA CookiesKept ==
    ASSUME IInv, NEW q \in Requests, NEW v \in Request, req' = [req EXCEPT ![q] = v],
           UNCHANGED <<newest, expired, outcome>>,
           \/ UNCHANGED landing
           \/ req[q].at = "publishing" /\ landing' = [landing EXCEPT ![req[q].cookie] = Row(q)],
           resent' = resent \/ resent' = resent \cup {req[q].cookie},
           v.cookie <= newest, v.at # "idle" /\ ~expired => v.cookie < newest,
           v.at # "turned" /\ v.reply \in Tokens =>
               v.reply \in resent' \/ (~expired /\ v.reply = newest),
           browser' = browser \/ (browser' \in Tokens => browser' <= newest)
    PROVE  CookieInv'
<1>1. req'[q] = v /\ \A p \in Requests : p # q => req'[p] = req[p]
  BY Types DEF IInv
<1>2. browser' \in Tokens => browser' <= newest
  BY DEF IInv, CookieInv
<1>3. \A g \in resent' : g <= newest
  BY DEF IInv, CookieInv
<1>4. ASSUME NEW p \in Requests
      PROVE  /\ req'[p].cookie <= newest
             /\ req'[p].at # "idle" /\ ~expired => req'[p].cookie < newest
             /\ req'[p].at # "turned" => Sent(req[p].reply)'
  BY <1>1 DEF IInv, CookieInv, Sent
<1>5. ASSUME NEW g \in Tokens
      PROVE  /\ outcome[g].left > 0 => Sent(outcome[g].val)'
             /\ landing'[g].left > 0 => Sent(landing[g].val)'
  <2>1. outcome[g].left > 0 => Sent(outcome[g].val)'
    BY DEF IInv, CookieInv, Sent
  <2>2. landing[g].left > 0 => (landing[g].val \in Tokens =>
          landing[g].val \in resent' \/ (~expired /\ landing[g].val = newest))
    BY DEF IInv, CookieInv, Sent
  <2>3. CASE landing'[g] = landing[g]
    BY <2>1, <2>2, <2>3 DEF Sent
  <2>4. CASE req[q].at = "publishing" /\ landing'[g] = Row(q)
    <3>1. landing'[g].val = req[q].reply /\ Sent(req[q].reply)
      BY <2>4 DEF Row, IInv, CookieInv
    <3> QED BY <2>1, <3>1 DEF Sent
  <2>5. landing'[g] = landing[g] \/ (req[q].at = "publishing" /\ landing'[g] = Row(q))
    BY Types DEF IInv, Rows
  <2> QED BY <2>3, <2>4, <2>5
<1> QED BY <1>2, <1>3, <1>4, <1>5 DEF CookieInv

\* So a step of one request that publishes nothing and rotates no token keeps all of it.
LEMMA Moves ==
    ASSUME IInv, NEW q \in Requests, NEW v \in Request, req' = [req EXCEPT ![q] = v],
           UNCHANGED <<newest, expired, outcome, logout>>, revoked' \in BOOLEAN,
           \/ UNCHANGED landing
           \/ req[q].at = "publishing" /\ landing' = [landing EXCEPT ![req[q].cookie] = Row(q)],
           \/ UNCHANGED lease
           \/ /\ holder \in {q, NoOne} /\ holder' \in Holders /\ left' \in 0..TTL
              /\ holder' = NoOne <=> left' = 0,
           browser' = browser \/ (browser' \in Cookies /\ (browser' \in Tokens => browser' <= newest)),
           unshared \subseteq unshared', unshared' \subseteq Tokens,
           slow' = slow \/ slow' = slow \cup {req[q].cookie},
           reused' \subseteq unshared' \cup slow',
           resent' = resent \/ resent' = resent \cup {req[q].cookie},
           v.cookie <= newest, v.at # "idle" /\ ~expired => v.cookie < newest,
           v.at # "turned" /\ v.reply \in Tokens =>
               v.reply \in resent' \/ (~expired /\ v.reply = newest),
           v.at = "renewing" => v.cookie = newest \/ v.cookie \in unshared \cup slow,
           req[q].at \in Paying /\ req[q].cookie < newest =>
               \/ v.at \in Paying /\ v.cookie = req[q].cookie
               \/ req[q].cookie \in unshared',
           (Leased(q) /\ Replied(q) /\ SignedOut(q))'
    PROVE  IInv'
<1>1. TypeOK'
  <2>1. req' \in [Requests -> Request]
    BY Types DEF IInv
  <2>2. holder' \in Holders /\ left' \in 0..TTL /\ (holder' = NoOne <=> left' = 0)
    BY Types DEF IInv, lease
  <2>3. resent' \subseteq Tokens /\ slow' \subseteq Tokens /\ reused' \subseteq Tokens
    BY Types DEF IInv, TypeOK, Request
  <2>4. browser' \in Cookies
    BY DEF IInv, TypeOK
  <2>5. landing' \in Rows
    <3>1. req[q].at = "publishing" => Row(q) \in [left : 0..OutcomeTTL, val : Cookies]
      BY Numbers DEF Row, IInv, RequestInv, Replied, Paying
    <3> QED BY <3>1, Types DEF IInv, Rows
  <2> QED
    BY <2>1, <2>2, <2>3, <2>4, <2>5 DEF IInv, TypeOK, Request, Stations, Holders, Rows
<1>2. RequestInv' /\ Resting'
  <2>1. slow \subseteq slow'
    OBVIOUS
  <2>2. RequestInv'
    BY <2>1, OthersKept DEF lease
  <2> QED BY <2>2 DEF IInv, Resting
<1>3. SpentInv'
  BY SpentKept
<1>4. CookieInv'
  BY CookiesKept
<1> QED BY <1>1, <1>2, <1>3, <1>4 DEF IInv

LEMMA Mine ==
    ASSUME IInv, NEW q \in Requests
    PROVE  /\ req[q] \in Request /\ req[q].cookie \in Tokens /\ req[q].cookie \in Nat
           /\ req[q].clock \in Nat /\ newest \in Nat /\ left \in Nat /\ logout.clock \in Nat
           /\ Leased(q) /\ Replied(q) /\ SignedOut(q)
           /\ req[q].cookie <= newest
           /\ req[q].at # "idle" /\ ~expired => req[q].cookie < newest
           /\ req[q].at # "turned" => Sent(req[q].reply)
           /\ revoked \in BOOLEAN /\ unshared \subseteq Tokens /\ slow \subseteq Tokens
           /\ reused \subseteq unshared \cup slow
<1>1. req[q] \in Request /\ newest \in Nat /\ left \in Nat /\ logout.clock \in 0..TTL
  BY Types DEF IInv
<1>2. req[q].cookie \in Tokens /\ req[q].cookie \in Nat /\ req[q].clock \in Nat
  BY <1>1, Numbers DEF Request
<1>3. Leased(q) /\ Replied(q) /\ SignedOut(q)
  BY DEF IInv, RequestInv
<1>4. /\ req[q].cookie <= newest
      /\ req[q].at # "idle" /\ ~expired => req[q].cookie < newest
      /\ req[q].at # "turned" => Sent(req[q].reply)
  BY DEF IInv, CookieInv
<1>5. /\ revoked \in BOOLEAN /\ unshared \subseteq Tokens /\ slow \subseteq Tokens
      /\ reused \subseteq unshared \cup slow
  BY DEF IInv, TypeOK, SpentInv, SpentOnce
<1>6. logout.clock \in Nat
  BY <1>1, Numbers
<1> QED BY <1>1, <1>2, <1>3, <1>4, <1>5, <1>6

\* Nothing is known of a request that is not under the lease, but of its reply.
LEMMA Outside ==
    ASSUME IInv, NEW q \in Requests, NEW v \in Request, req' = [req EXCEPT ![q] = v],
           v.at \in {"idle", "asking", "releasing", "answered", "turned"}, ~v.before,
           v.at \in {"idle", "asking"} => v.reply = Untouched,
           v.at = "turned" => v.reply = v.cookie
    PROVE  (Leased(q) /\ Replied(q) /\ SignedOut(q))'
<1>1. req'[q] = v
  BY Types DEF IInv
<1> QED BY <1>1 DEF Leased, Replied, SignedOut, Working, Paying

-----------------------------------------------------------------------------
(* The steps of a request.                                                 *)

LEMMA StartKept ==
    ASSUME IInv, NEW q \in Requests, Start(q)
    PROVE  IInv'
<1> DEFINE v == [Idle EXCEPT !.at = "asking", !.cookie = browser]
<1>1. v \in Request /\ browser \in Tokens
  BY IdleTyped DEF Start, Request, Stations
<1>2. req' = [req EXCEPT ![q] = v]
  BY DEF Start
<1>3. v.at = "asking" /\ v.cookie = browser /\ v.reply = Untouched /\ ~v.before
  BY DEF Idle
<1>4. browser <= newest /\ (~expired => browser < newest)
  BY <1>1 DEF Start, IInv, CookieInv
<1> HIDE DEF v
<1>5. (Leased(q) /\ Replied(q) /\ SignedOut(q))'
  BY <1>1, <1>2, <1>3, Outside
<1>6. req[q].at = "idle" /\ Untouched \notin Tokens
  BY Numbers DEF Start
<1> QED
  BY <1>1, <1>2, <1>3, <1>4, <1>5, <1>6, Mine, Moves
  DEF Start, idp, lease, shared, history, Paying

\* What Go, Over, Served and Done make of a request.
LEMMA GoMakes ==
    ASSUME IInv, NEW q \in Requests, NEW to \in Stations,
           req' = [req EXCEPT ![q].at = to]
    PROVE  \E v \in Request :
             /\ req' = [req EXCEPT ![q] = v]
             /\ v.at = to /\ v.cookie = req[q].cookie /\ v.waited = req[q].waited
             /\ v.clock = req[q].clock /\ v.reply = req[q].reply /\ v.before = req[q].before
<1> DEFINE v == [req[q] EXCEPT !.at = to]
<1>1. req[q] \in Request
  BY Mine
<1>2. /\ v \in Request
      /\ v.at = to /\ v.cookie = req[q].cookie /\ v.waited = req[q].waited
      /\ v.clock = req[q].clock /\ v.reply = req[q].reply /\ v.before = req[q].before
  BY <1>1 DEF Request
<1> QED BY <1>2

LEMMA RestartMakes ==
    ASSUME IInv, NEW q \in Requests, NEW to \in Stations,
           req' = [req EXCEPT ![q].at = to, ![q].clock = 0]
    PROVE  \E v \in Request :
             /\ req' = [req EXCEPT ![q] = v]
             /\ v.at = to /\ v.cookie = req[q].cookie /\ v.waited = req[q].waited
             /\ v.clock = 0 /\ v.reply = req[q].reply /\ v.before = req[q].before
<1> DEFINE v == [req[q] EXCEPT !.at = to, !.clock = 0]
<1>1. req[q] \in Request /\ 0 \in 0..TTL
  BY Mine, Numbers
<1>2. /\ v \in Request
      /\ v.at = to /\ v.cookie = req[q].cookie /\ v.waited = req[q].waited
      /\ v.clock = 0 /\ v.reply = req[q].reply /\ v.before = req[q].before
  BY <1>1 DEF Request
<1>3. req' = [req EXCEPT ![q] = v]
  BY Types DEF IInv
<1> QED BY <1>2, <1>3

LEMMA ServedMakes ==
    ASSUME IInv, NEW q \in Requests, NEW val \in Cookies, Served(q, val)
    PROVE  \E v \in Request :
             /\ req' = [req EXCEPT ![q] = v]
             /\ v.at = "publishing" /\ v.cookie = req[q].cookie /\ v.waited = req[q].waited
             /\ v.clock = 0 /\ v.reply = val /\ v.before = req[q].before
<1> DEFINE v == [req[q] EXCEPT !.at = "publishing", !.clock = 0, !.reply = val]
<1>1. req[q] \in Request /\ 0 \in 0..TTL /\ "publishing" \in Stations
  BY Mine, Numbers DEF Stations
<1>2. /\ v \in Request
      /\ v.at = "publishing" /\ v.cookie = req[q].cookie /\ v.waited = req[q].waited
      /\ v.clock = 0 /\ v.reply = val /\ v.before = req[q].before
  BY <1>1 DEF Request
<1>3. req' = [req EXCEPT ![q] = v]
  BY Types DEF IInv, Served
<1> QED BY <1>2, <1>3

LEMMA EndsMakes ==
    ASSUME IInv, NEW q \in Requests, NEW to \in Stations, NEW val \in Cookies \cup {Untouched},
           Ends(q, to, val)
    PROVE  \E v \in Request :
             /\ req' = [req EXCEPT ![q] = v]
             /\ v.at = to /\ v.cookie = req[q].cookie /\ v.reply = val
             /\ ~v.before
<1> DEFINE v == [Idle EXCEPT !.at = to, !.cookie = req[q].cookie, !.reply = val]
<1>1. req[q].cookie \in Tokens /\ Idle \in Request
  BY Mine, IdleTyped
<1>2. v \in Request
  BY <1>1 DEF Request
<1>3. v.at = to /\ v.cookie = req[q].cookie /\ v.reply = val /\ ~v.before
  BY DEF Idle
<1>4. req' = [req EXCEPT ![q] = v]
  BY DEF Ends
<1> QED BY <1>2, <1>3, <1>4

LEMMA OverMakes ==
    ASSUME IInv, NEW q \in Requests, NEW val \in Cookies \cup {Untouched}, Over(q, val)
    PROVE  \E v \in Request :
             /\ req' = [req EXCEPT ![q] = v]
             /\ v.at = "releasing" /\ v.cookie = req[q].cookie /\ v.reply = val
             /\ ~v.before
<1>1. "releasing" \in Stations /\ Ends(q, "releasing", val)
  BY DEF Stations, Over
<1> QED BY <1>1, EndsMakes

LEMMA TurnedAwayMakes ==
    ASSUME IInv, NEW q \in Requests, TurnedAway(q)
    PROVE  \E v \in Request :
             /\ req' = [req EXCEPT ![q] = v]
             /\ v.cookie = req[q].cookie /\ ~v.before
             /\ \/ v.at = "answered" /\ v.reply = Untouched
                \/ v.at = "turned" /\ v.reply = req[q].cookie
<1>1. {"answered", "turned"} \subseteq Stations /\ req[q].cookie \in Cookies
  BY Mine, Numbers DEF Stations
<1>2. CASE Ends(q, "answered", Untouched)
  BY <1>1, <1>2, EndsMakes
<1>3. CASE Ends(q, "turned", req[q].cookie)
  BY <1>1, <1>3, EndsMakes
<1> QED BY <1>2, <1>3 DEF TurnedAway

\* The steps that go no further under the lease.
LEMMA Leaves ==
    ASSUME IInv, NEW q \in Requests, NEW v \in Request, req' = [req EXCEPT ![q] = v],
           v.at \in {"asking", "releasing", "answered", "turned"}, v.cookie = req[q].cookie,
           ~v.before, req[q].at # "idle",
           v.at = "asking" => v.reply = Untouched,
           v.at = "turned" => v.reply = v.cookie,
           v.at # "turned" /\ v.reply \in Tokens =>
               v.reply \in resent' \/ (~expired /\ v.reply = newest),
           UNCHANGED <<idp, browser, outcome, logout, slow, reused>>,
           \/ UNCHANGED landing
           \/ req[q].at = "publishing" /\ landing' = [landing EXCEPT ![req[q].cookie] = Row(q)],
           \/ UNCHANGED lease
           \/ /\ holder \in {q, NoOne} /\ holder' \in Holders /\ left' \in 0..TTL
              /\ holder' = NoOne <=> left' = 0,
           resent' = resent \/ resent' = resent \cup {req[q].cookie},
           unshared \subseteq unshared', unshared' \subseteq Tokens,
           req[q].at \in Paying /\ req[q].cookie < newest => req[q].cookie \in unshared'
    PROVE  IInv'
<1>1. (Leased(q) /\ Replied(q) /\ SignedOut(q))'
  BY Outside
<1>2. /\ v.cookie <= newest /\ (v.at # "idle" /\ ~expired => v.cookie < newest)
      /\ revoked \in BOOLEAN /\ reused \subseteq unshared' \cup slow
  BY Mine
<1>3. v.at # "renewing"
  OBVIOUS
<1> QED BY <1>1, <1>2, <1>3, Moves DEF idp

-----------------------------------------------------------------------------
LEMMA GrantKept ==
    ASSUME IInv, NEW q \in Requests, Grant(q)
    PROVE  IInv'
<1>1. PICK v \in Request :
             /\ req' = [req EXCEPT ![q] = v]
             /\ v.at = "granted" /\ v.cookie = req[q].cookie /\ v.waited = req[q].waited
             /\ v.clock = 0 /\ v.reply = req[q].reply /\ v.before = req[q].before
  BY RestartMakes DEF Grant, Stations
<1>2. (Leased(q) /\ Replied(q) /\ SignedOut(q))'
  <2>1. req'[q] = v
    BY <1>1, Types DEF IInv
  <2>2. ~v.before
    BY <1>1, Mine DEF Grant, SignedOut, Renews, Renewing
  <2> QED
    BY <1>1, <2>1, <2>2, Mine, Numbers
    DEF Grant, Leased, Replied, SignedOut, Working, Paying
<1>3. holder' \in Holders /\ left' \in 0..TTL /\ (holder' = NoOne <=> left' = 0)
  BY Numbers, Names DEF Grant, Holders
<1> QED
  BY <1>1, <1>2, <1>3, Mine, Moves
  DEF Grant, idp, lease, shared, history, Paying, Sent

LEMMA AskKept ==
    ASSUME IInv, NEW q \in Requests, Refused(q) \/ NoAnswer(q) \/ AcquireFails(q) \/ GiveUp(q)
    PROVE  IInv'
<1>1. req[q] \in Request /\ 0 \in 0..TTL /\ {"asking", "answered"} \subseteq Stations
  BY Mine, Numbers DEF Stations
<1>2. CASE Refused(q)
  <2> DEFINE v == [req[q] EXCEPT !.waited = TRUE]
  <2>1. /\ v \in Request /\ v.at = req[q].at /\ v.cookie = req[q].cookie
        /\ v.reply = req[q].reply /\ v.before = req[q].before
    BY <1>1 DEF Request
  <2>2. req' = [req EXCEPT ![q] = v]
    BY <1>2 DEF Refused
  <2> HIDE DEF v
  <2>3. /\ req[q].at \notin Paying \cup {"idle"} /\ v.at = "asking" /\ v.reply = Untouched
        /\ UNCHANGED <<idp, browser, lease, outcome, landing, logout, unshared, resent, slow, reused>>
    BY <1>2, <2>1, Mine DEF Refused, shared, history, Replied, Paying
  <2>4. Untouched \notin Tokens /\ unshared \subseteq Tokens /\ ~v.before
    BY <1>2, <2>1, Mine, Numbers DEF Refused, SignedOut, Renews, Renewing
  <2> QED BY <2>1, <2>2, <2>3, <2>4, Leaves
<1>3. CASE NoAnswer(q)
  <2> DEFINE v == [req[q] EXCEPT !.at = "asking", !.waited = TRUE, !.clock = 0, !.before = FALSE]
  <2>1. /\ v \in Request /\ v.at = "asking" /\ v.cookie = req[q].cookie /\ ~v.before
        /\ v.reply = req[q].reply
    BY <1>1 DEF Request
  <2>2. req' = [req EXCEPT ![q] = v]
    BY <1>3, Types DEF NoAnswer, IInv
  <2> HIDE DEF v
  <2>3. /\ req[q].at \notin Paying \cup {"idle"} /\ v.at = "asking" /\ v.reply = Untouched
        /\ UNCHANGED <<idp, browser, lease, outcome, landing, logout, unshared, resent, slow, reused>>
    BY <1>3, <2>1, Mine DEF NoAnswer, shared, history, Replied, Paying
  <2>4. Untouched \notin Tokens /\ unshared \subseteq Tokens
    BY Mine, Numbers
  <2> QED BY <2>1, <2>2, <2>3, <2>4, Leaves
<1>4. CASE AcquireFails(q)
  <2>1. req[q].cookie \in Cookies
    BY Mine, Numbers
  <2>2. PICK v \in Request :
             /\ req' = [req EXCEPT ![q] = v]
             /\ v.at = "answered" /\ v.cookie = req[q].cookie /\ v.reply = req[q].cookie
             /\ ~v.before
    BY <1>1, <1>4, <2>1, EndsMakes DEF AcquireFails
  <2> QED BY <1>4, <2>2, Leaves, Mine DEF AcquireFails, shared, Paying
<1>5. CASE GiveUp(q)
  <2>1. PICK v \in Request :
             /\ req' = [req EXCEPT ![q] = v]
             /\ v.cookie = req[q].cookie /\ ~v.before
             /\ \/ v.at = "answered" /\ v.reply = Untouched
                \/ v.at = "turned" /\ v.reply = req[q].cookie
    BY <1>5, TurnedAwayMakes DEF GiveUp
  <2>2. /\ req[q].at \notin Paying \cup {"idle"}
        /\ UNCHANGED <<idp, browser, lease, outcome, landing, logout, unshared, resent, slow, reused>>
    BY <1>5 DEF GiveUp, shared, history, Paying
  <2>3. Untouched \notin Tokens /\ unshared \subseteq Tokens
    BY Mine, Numbers
  <2> QED BY <2>1, <2>2, <2>3, Leaves
<1> QED BY <1>2, <1>3, <1>4, <1>5

\* The next phase has what the ones before may have left of the lease.
LEMMA Onward ==
    ASSUME IInv, NEW q \in Requests, NEW v \in Request, req' = [req EXCEPT ![q] = v],
           UNCHANGED <<lease, logout>>, slow \subseteq slow',
           v.waited = req[q].waited, v.before = req[q].before, v.cookie = req[q].cookie,
           \/ /\ v.at \in Working /\ req[q].at \in Working
              /\ v.clock = req[q].clock
           \/ /\ v.at = "loading" /\ req[q].at = "granted" /\ v.clock = 0
              /\ ~req[q].waited /\ req[q].clock + WorkTime + PublishTime >= TTL =>
                   req[q].cookie \in slow'
           \/ v.at = "publishing" /\ req[q].at \in Working /\ v.clock = 0
    PROVE  Leased(q)' /\ SignedOut(q)'
<1>1. req'[q] = v /\ (Prompt(q)' <=> ~req[q].waited /\ req[q].cookie \notin slow')
  BY Types DEF IInv, Prompt
<1>2. /\ Leased(q) /\ SignedOut(q) /\ UNCHANGED <<holder, left, logout>>
      /\ req[q].clock \in Nat /\ left \in Nat /\ logout.clock \in Nat
      /\ TTL \in Nat /\ Delay \in Nat /\ WorkTime \in Nat /\ PublishTime \in Nat
      /\ Prompt(q)' => Prompt(q)
  BY <1>1, Mine, Numbers DEF lease, Prompt
<1>3. Renews(q)' <=> ~req[q].waited
  BY <1>1 DEF Renews, Renewing, Working
<1>4. Renews(q) <=> ~req[q].waited
  BY DEF Renews, Renewing, Working
<1>5. CASE v.at \in Working /\ req[q].at \in Working /\ v.clock = req[q].clock
  <2>1. Leased(q)'
    BY <1>1, <1>2, <1>5 DEF Leased, Working
  <2>2. SignedOut(q)'
    BY <1>1, <1>2, <1>3, <1>4, <1>5 DEF SignedOut, Working
  <2> QED BY <2>1, <2>2
<1>6. CASE /\ v.at = "loading" /\ req[q].at = "granted" /\ v.clock = 0
           /\ ~req[q].waited /\ req[q].clock + WorkTime + PublishTime >= TTL =>
                req[q].cookie \in slow'
  <2>1. Prompt(q)' => req[q].clock + WorkTime + PublishTime < TTL
    BY <1>1, <1>2, <1>6
  <2>2. holder = q /\ left + req[q].clock >= TTL
    BY <1>2, <1>6 DEF Leased
  <2>3. Leased(q)'
    BY <1>1, <1>2, <1>6, <2>1, <2>2 DEF Leased, Working
  <2>4. SignedOut(q)'
    BY <1>1, <1>2, <1>3, <1>4, <1>6, <2>1 DEF SignedOut, Working
  <2> QED BY <2>3, <2>4
<1>7. CASE v.at = "publishing" /\ req[q].at \in Working /\ v.clock = 0
  <2>1. /\ req[q].clock <= WorkTime
        /\ Prompt(q) => holder = q /\ left + req[q].clock > WorkTime + PublishTime
    BY <1>2, <1>7 DEF Leased
  <2>2. Leased(q)'
    BY <1>1, <1>2, <1>7, <2>1 DEF Leased, Working
  <2>3. SignedOut(q)'
    BY <1>1, <1>2, <1>3, <1>4, <1>7, <2>1 DEF SignedOut, Working
  <2> QED BY <2>2, <2>3
<1> QED BY <1>5, <1>6, <1>7

LEMMA EnterKept ==
    ASSUME IInv, NEW q \in Requests, Enter(q)
    PROVE  IInv'
<1>1. PICK v \in Request :
             /\ req' = [req EXCEPT ![q] = v]
             /\ v.at = "loading" /\ v.cookie = req[q].cookie /\ v.waited = req[q].waited
             /\ v.clock = 0 /\ v.reply = req[q].reply /\ v.before = req[q].before
  BY RestartMakes DEF Enter, Stations
<1>2. /\ req[q].at = "granted" /\ req[q].at \notin Paying
      /\ UNCHANGED <<idp, browser, lease, outcome, landing, logout, unshared, resent, reused>>
      /\ slow' = slow \/ slow' = slow \cup {req[q].cookie}
      /\ ~req[q].waited /\ req[q].clock + WorkTime + PublishTime >= TTL =>
           req[q].cookie \in slow'
  BY DEF Enter, shared, Paying
<1>3. (Leased(q) /\ Replied(q) /\ SignedOut(q))'
  <2>1. slow \subseteq slow'
    BY <1>2
  <2>2. Leased(q)' /\ SignedOut(q)'
    BY <1>1, <1>2, <2>1, Onward
  <2>3. req'[q] = v
    BY <1>1, Types DEF IInv
  <2> QED BY <1>1, <1>2, <2>2, <2>3, Mine DEF Replied, Paying
<1>4. reused \subseteq unshared \cup slow' /\ v.reply \notin Tokens
  BY <1>1, <1>2, Mine, Numbers DEF Replied
<1> QED
  BY <1>1, <1>2, <1>3, <1>4, Mine, Moves DEF idp

\* Who is about to spend a token has found no outcome of it, and nobody whose lease came
\* in time is about to publish one.
LEMMA FindsNone ==
    ASSUME IInv, NEW q \in Requests, req[q].at = "loading", ~req[q].waited,
           outcome[req[q].cookie].left = 0
    PROVE  req[q].cookie = newest \/ req[q].cookie \in unshared \cup slow
<1> SUFFICES ASSUME req[q].cookie # newest, req[q].cookie \notin slow
             PROVE  req[q].cookie \in unshared
  OBVIOUS
<1>1. req[q].cookie \in Tokens /\ req[q].cookie < newest
  BY Mine
<1>2. Covered(q)
  BY DEF Covered, Prompt, Renewing
<1>3. ASSUME NEW p \in Requests, req[p].at \in Paying, req[p].cookie = req[q].cookie
      PROVE  FALSE
  <2>1. ~req[p].waited
    BY <1>3, Mine DEF Replied
  <2>2. Covered(p)
    BY <1>3, <2>1 DEF Covered, Prompt, Renewing, Paying
  <2>3. p = q
    BY <1>2, <2>2, OneHolder
  <2> QED BY <1>3, <2>3 DEF Paying
<1> QED BY <1>1, <1>3 DEF IInv, SpentInv

LEMMA LoadKept ==
    ASSUME IInv, NEW q \in Requests, Load(q)
    PROVE  IInv'
<1> DEFINE o == outcome[req[q].cookie]
<1>1. /\ req[q].at = "loading" /\ req[q].at \notin Paying \cup {"idle"}
      /\ UNCHANGED <<idp, browser, lease, outcome, landing, logout, unshared, resent, slow, reused>>
  BY DEF Load, shared, history, Paying
<1>2. Untouched \notin Tokens /\ Cleared \notin Tokens /\ unshared \subseteq Tokens
  BY Mine, Numbers
<1>3. o.left \in Nat /\ o.val \in Cookies
  BY Mine, Types, Numbers DEF IInv
<1>4. CASE o.left > 0
  <2>1. PICK val \in {o.val, Cleared} : Over(q, val)
    BY <1>4 DEF Load
  <2>2. val \in Cookies \cup {Untouched}
    BY <1>3, Numbers
  <2>3. PICK v \in Request :
             /\ req' = [req EXCEPT ![q] = v]
             /\ v.at = "releasing" /\ v.cookie = req[q].cookie /\ v.reply = val
             /\ ~v.before
    BY <2>1, <2>2, OverMakes
  <2>4. v.reply \in Tokens => v.reply \in resent \/ (~expired /\ v.reply = newest)
    BY <1>2, <1>4, <2>3, Mine DEF IInv, CookieInv, Sent
  <2> QED BY <1>1, <1>2, <2>3, <2>4, Leaves
<1>5. CASE ~(o.left > 0) /\ req[q].waited
  <2>1. PICK v \in Request :
             /\ req' = [req EXCEPT ![q] = v]
             /\ v.at = "releasing" /\ v.cookie = req[q].cookie /\ v.reply = Untouched
             /\ ~v.before
    BY <1>5, OverMakes DEF Load
  <2> QED BY <1>1, <1>2, <2>1, Leaves
<1>6. CASE ~(o.left > 0) /\ ~req[q].waited
  <2>1. o.left = 0
    BY <1>3, <1>6
  <2>2. PICK v \in Request :
             /\ req' = [req EXCEPT ![q] = v]
             /\ v.at = "renewing" /\ v.cookie = req[q].cookie /\ v.waited = req[q].waited
             /\ v.clock = req[q].clock /\ v.reply = req[q].reply /\ v.before = req[q].before
    <3>1. req' = [req EXCEPT ![q].at = "renewing"] /\ "renewing" \in Stations
      BY <1>6 DEF Load, Go, Stations
    <3> QED BY <3>1, GoMakes
  <2>3. (Leased(q) /\ Replied(q) /\ SignedOut(q))'
    <3>1. req'[q] = v
      BY <2>2, Types DEF IInv
    <3>2. v.at \in Working /\ req[q].at \in Working
      BY <1>1, <2>2 DEF Working
    <3>3. Leased(q)' /\ SignedOut(q)'
      BY <1>1, <2>2, <3>2, Onward
    <3> QED BY <1>1, <1>6, <2>2, <3>1, <3>3, Mine DEF Replied, Paying
  <2>4. /\ revoked \in BOOLEAN /\ reused \subseteq unshared \cup slow
        /\ v.cookie <= newest /\ (~expired => v.cookie < newest) /\ v.reply \notin Tokens
    BY <1>1, <1>2, <2>2, Mine DEF Replied
  <2>5. v.cookie = newest \/ v.cookie \in unshared \cup slow
    BY <1>1, <1>6, <2>1, <2>2, FindsNone
  <2> QED BY <1>1, <1>2, <2>2, <2>3, <2>4, <2>5, Moves DEF idp
<1> QED BY <1>4, <1>5, <1>6

LEMMA TransientKept ==
    ASSUME IInv, NEW q \in Requests, Transient(q)
    PROVE  IInv'
<1>1. req[q].cookie \in Cookies
  BY Mine, Numbers
<1>2. PICK v \in Request :
             /\ req' = [req EXCEPT ![q] = v]
             /\ v.at = "publishing" /\ v.cookie = req[q].cookie /\ v.waited = req[q].waited
             /\ v.clock = 0 /\ v.reply = req[q].cookie /\ v.before = req[q].before
  BY <1>1, ServedMakes DEF Transient
<1>3. /\ req[q].at = "renewing" /\ req[q].at \in Working
      /\ UNCHANGED <<idp, browser, lease, outcome, landing, logout, unshared, slow, reused>>
      /\ resent' = resent \cup {req[q].cookie}
  BY DEF Transient, shared, Working
<1>4. (Leased(q) /\ Replied(q) /\ SignedOut(q))'
  <2>1. req'[q] = v
    BY <1>2, Types DEF IInv
  <2>2. Leased(q)' /\ SignedOut(q)'
    BY <1>2, <1>3, Onward
  <2> QED BY <1>1, <1>2, <1>3, <2>1, <2>2, Mine DEF Replied, Paying
<1> QED BY <1>2, <1>3, <1>4, Mine, Moves DEF idp, Paying

LEMMA ValidateKept ==
    ASSUME IInv, NEW q \in Requests, Validate(q)
    PROVE  IInv'
<1>1. PICK val \in {req[q].reply, Cleared} : Served(q, val)
  BY DEF Validate
<1>2. val \in Cookies
  BY <1>1, Mine, Numbers DEF Validate, Replied, Paying
<1>3. PICK v \in Request :
             /\ req' = [req EXCEPT ![q] = v]
             /\ v.at = "publishing" /\ v.cookie = req[q].cookie /\ v.waited = req[q].waited
             /\ v.clock = 0 /\ v.reply = val /\ v.before = req[q].before
  BY <1>1, <1>2, ServedMakes
<1>4. /\ req[q].at = "validating"
      /\ UNCHANGED <<idp, browser, lease, outcome, landing, logout, unshared, resent, slow, reused>>
  BY DEF Validate, shared, history
<1>5. (Leased(q) /\ Replied(q) /\ SignedOut(q))'
  <2>1. req'[q] = v
    BY <1>3, Types DEF IInv
  <2>2. req[q].at \in Working
    BY <1>4 DEF Working
  <2>3. Leased(q)' /\ SignedOut(q)'
    BY <1>3, <1>4, <2>2, Onward
  <2> QED BY <1>2, <1>3, <1>4, <2>1, <2>3, Mine DEF Replied, Paying
<1>6. v.reply \in Tokens => v.reply \in resent \/ (~expired /\ v.reply = newest)
  BY <1>1, <1>3, <1>4, Mine, Numbers DEF Sent
<1> QED BY <1>3, <1>4, <1>5, <1>6, Mine, Moves DEF idp, Paying

LEMMA Losing ==
    ASSUME IInv, NEW S \in SUBSET Tokens, Lose(S)
    PROVE  /\ unshared \subseteq unshared' /\ unshared' \subseteq Tokens
           /\ \A g \in S : g < newest' => g \in unshared'
BY DEF Lose, IInv, TypeOK

LEMMA CutOffKept ==
    ASSUME IInv, NEW q \in Requests, CutOff(q)
    PROVE  IInv'
<1> DEFINE S == IF req[q].at = "validating" THEN {req[q].cookie} ELSE {}
<1>1. req[q].cookie \in Cookies /\ S \in SUBSET Tokens
  BY Mine, Numbers
<1>2. PICK v \in Request :
             /\ req' = [req EXCEPT ![q] = v]
             /\ v.at = "releasing" /\ v.cookie = req[q].cookie /\ v.reply = req[q].cookie
             /\ ~v.before
  BY <1>1, OverMakes DEF CutOff
<1>3. /\ req[q].at \in Working
      /\ UNCHANGED <<idp, browser, lease, outcome, landing, logout, slow, reused>>
      /\ resent' = resent \cup {req[q].cookie} /\ Lose(S)
  BY DEF CutOff, shared
<1>4. /\ unshared \subseteq unshared' /\ unshared' \subseteq Tokens
      /\ req[q].at \in Paying /\ req[q].cookie < newest => req[q].cookie \in unshared'
  BY <1>1, <1>3, Losing DEF idp, Working, Paying
<1>5. req[q].at # "idle" /\ v.reply \in resent'
  BY <1>2, <1>3 DEF Working
<1> QED BY <1>2, <1>3, <1>4, <1>5, Leaves

LEMMA PublishFailsKept ==
    ASSUME IInv, NEW q \in Requests, PublishFails(q)
    PROVE  IInv'
<1>1. req[q].at = "publishing" /\ req[q].reply \in Cookies /\ {req[q].cookie} \in SUBSET Tokens
  BY Mine DEF PublishFails, Replied, Paying
<1>2. PICK v \in Request :
             /\ req' = [req EXCEPT ![q] = v]
             /\ v.at = "releasing" /\ v.cookie = req[q].cookie /\ v.reply = req[q].reply
             /\ ~v.before
  BY <1>1, OverMakes DEF PublishFails
<1>3. /\ UNCHANGED <<idp, browser, lease, outcome, logout, resent, slow, reused>>
      /\ Lose({req[q].cookie})
      /\ UNCHANGED landing \/ landing' = [landing EXCEPT ![req[q].cookie] = Row(q)]
  BY DEF PublishFails, CutShort
<1>4. /\ unshared \subseteq unshared' /\ unshared' \subseteq Tokens
      /\ req[q].cookie < newest => req[q].cookie \in unshared'
  BY <1>1, <1>3, Losing DEF idp
<1>5. v.reply \in Tokens => v.reply \in resent' \/ (~expired /\ v.reply = newest)
  BY <1>1, <1>2, <1>3, Mine DEF Sent
<1> QED BY <1>1, <1>2, <1>3, <1>4, <1>5, Leaves

\* A lease that is set free or left behind was that of q.
LEMMA FreeLease ==
    ASSUME IInv, NEW t \in Requests \cup {Logout}, Free(t)
    PROVE  \/ UNCHANGED lease
           \/ holder = t /\ holder' = NoOne /\ left' = 0
BY DEF Free, lease

LEMMA ReleaseKept ==
    ASSUME IInv, NEW q \in Requests, Release(q)
    PROVE  IInv'
<1>1. /\ req[q].at = "releasing" /\ "answered" \in Stations
      /\ req[q].reply \in Cookies \cup {Untouched}
  BY Mine DEF Release, Stations, Request
<1>2. PICK v \in Request :
             /\ req' = [req EXCEPT ![q] = v]
             /\ v.cookie = req[q].cookie /\ ~v.before
             /\ \/ v.at = "answered" /\ v.reply = req[q].reply
                \/ v.at = "turned" /\ v.reply = req[q].cookie
  <2>1. CASE req[q].reply = Untouched
    BY <2>1, TurnedAwayMakes DEF Release
  <2>2. CASE req[q].reply # Untouched
    BY <1>1, <2>2, EndsMakes DEF Release
  <2> QED BY <2>1, <2>2
<1>3. UNCHANGED <<idp, browser, outcome, landing, logout, unshared, resent, slow, reused>>
  BY DEF Release, shared, history
<1>4. \/ UNCHANGED lease
      \/ /\ holder \in {q, NoOne} /\ holder' \in Holders /\ left' \in 0..TTL
         /\ holder' = NoOne <=> left' = 0
  BY FreeLease, Numbers DEF Release, Holders
<1>5. v.at # "turned" /\ v.reply \in Tokens =>
        v.reply \in resent' \/ (~expired /\ v.reply = newest)
  BY <1>1, <1>2, <1>3, Mine DEF Sent
<1>6. req[q].at \notin Paying \cup {"idle"} /\ unshared \subseteq Tokens
  BY <1>1, Mine DEF Paying
<1> QED BY <1>2, <1>3, <1>4, <1>5, <1>6, Leaves

LEMMA ReleaseFailsKept ==
    ASSUME IInv, NEW q \in Requests, ReleaseFails(q)
    PROVE  IInv'
<1>1. /\ req[q].at = "releasing" /\ req[q].at \notin Paying \cup {"idle"}
      /\ UNCHANGED <<idp, browser, lease, outcome, landing, logout, unshared, slow, reused>>
      /\ unshared \subseteq Tokens /\ "answered" \in Stations
      /\ req[q].cookie \in Cookies /\ req[q].reply \in Cookies \cup {Untouched}
  BY Mine, Numbers DEF ReleaseFails, shared, Paying, Stations, Request
<1>2. CASE req[q].reply = Untouched
  <2>1. PICK v \in Request :
             /\ req' = [req EXCEPT ![q] = v]
             /\ v.at = "answered" /\ v.cookie = req[q].cookie /\ v.reply = req[q].cookie
             /\ ~v.before
    BY <1>1, <1>2, EndsMakes DEF ReleaseFails
  <2>2. resent' = resent \cup {req[q].cookie}
    BY <1>2 DEF ReleaseFails
  <2> QED BY <1>1, <2>1, <2>2, Leaves
<1>3. CASE req[q].reply # Untouched
  <2>1. PICK v \in Request :
             /\ req' = [req EXCEPT ![q] = v]
             /\ v.at = "answered" /\ v.cookie = req[q].cookie /\ v.reply = req[q].reply
             /\ ~v.before
    BY <1>1, <1>3, EndsMakes DEF ReleaseFails
  <2>2. UNCHANGED resent
    BY <1>3 DEF ReleaseFails
  <2>3. v.reply \in Tokens => v.reply \in resent' \/ (~expired /\ v.reply = newest)
    BY <1>1, <2>1, <2>2, Mine DEF Sent
  <2> QED BY <1>1, <2>1, <2>2, <2>3, Leaves
<1> QED BY <1>2, <1>3

LEMMA DoneMakes ==
    ASSUME IInv, NEW q \in Requests, Done(q)
    PROVE  \E v \in Request :
             /\ req' = [req EXCEPT ![q] = v]
             /\ v.at = "idle" /\ v.cookie = 0 /\ v.reply = Untouched /\ ~v.before
             /\ (Leased(q) /\ Replied(q) /\ SignedOut(q))'
             /\ \/ UNCHANGED lease
                \/ /\ holder \in {q, NoOne} /\ holder' \in Holders /\ left' \in 0..TTL
                   /\ holder' = NoOne <=> left' = 0
<1>1. Idle \in Request /\ req' = [req EXCEPT ![q] = Idle]
  BY IdleTyped DEF Done
<1>2. Idle.at = "idle" /\ Idle.cookie = 0 /\ Idle.reply = Untouched /\ ~Idle.before
  BY DEF Idle
<1>3. (Leased(q) /\ Replied(q) /\ SignedOut(q))'
  BY <1>1, <1>2, Outside
<1>4. \/ UNCHANGED lease
      \/ /\ holder \in {q, NoOne} /\ holder' \in Holders /\ left' \in 0..TTL
         /\ holder' = NoOne <=> left' = 0
  <2>1. CASE holder = q
    <3>1. holder' = Stray /\ left' = left /\ left # 0
      BY <2>1, Types, Names DEF Done, IInv
    <3> QED BY <2>1, <3>1, Types, Names DEF Holders, IInv
  <2>2. CASE holder # q
    BY <2>2 DEF Done, lease
  <2> QED BY <2>1, <2>2
<1> QED BY <1>1, <1>2, <1>3, <1>4

LEMMA ArriveKept ==
    ASSUME IInv, NEW q \in Requests, Arrive(q)
    PROVE  IInv'
<1>1. PICK v \in Request :
             /\ req' = [req EXCEPT ![q] = v]
             /\ v.at = "idle" /\ v.cookie = 0 /\ v.reply = Untouched /\ ~v.before
             /\ (Leased(q) /\ Replied(q) /\ SignedOut(q))'
             /\ \/ UNCHANGED lease
                \/ /\ holder \in {q, NoOne} /\ holder' \in Holders /\ left' \in 0..TTL
                   /\ holder' = NoOne <=> left' = 0
  BY DoneMakes DEF Arrive
<1>2. /\ req[q].at \in {"answered", "turned"} /\ req[q].at \notin Paying
      /\ UNCHANGED <<newest, expired, revoked, outcome, landing, logout,
                     unshared, resent, slow, reused>>
  BY DEF Arrive, idp, shared, history, Paying
<1>3. browser' = browser \/ (browser' \in Cookies /\ (browser' \in Tokens => browser' <= newest))
  <2>1. CASE req[q].reply = Untouched
    BY <2>1 DEF Arrive
  <2>2. CASE req[q].reply # Untouched
    <3>1. browser' = req[q].reply /\ req[q].reply \in Cookies
      BY <2>2, Mine DEF Arrive, Request
    <3>2. req[q].reply \in Tokens => req[q].reply <= newest
      BY Mine DEF Sent, Replied, IInv, CookieInv
    <3> QED BY <3>1, <3>2
  <2> QED BY <2>1, <2>2
<1>4. 0 <= newest /\ Untouched \notin Tokens
  BY Mine, Numbers
<1> QED BY <1>1, <1>2, <1>3, <1>4, Mine, Moves

LEMMA CrashKept ==
    ASSUME IInv, NEW q \in Requests, Crash(q)
    PROVE  IInv'
<1>1. PICK v \in Request :
             /\ req' = [req EXCEPT ![q] = v]
             /\ v.at = "idle" /\ v.cookie = 0 /\ v.reply = Untouched /\ ~v.before
             /\ (Leased(q) /\ Replied(q) /\ SignedOut(q))'
             /\ \/ UNCHANGED lease
                \/ /\ holder \in {q, NoOne} /\ holder' \in Holders /\ left' \in 0..TTL
                   /\ holder' = NoOne <=> left' = 0
  BY DoneMakes DEF Crash
<1>2. PICK S \in SUBSET Tokens : Lose(S) /\ (req[q].at \in Paying => req[q].cookie \in S)
  <2>1. {} \in SUBSET Tokens /\ {req[q].cookie} \in SUBSET Tokens
    BY Mine
  <2>2. CASE req[q].at = "publishing"
    BY <2>1, <2>2 DEF Crash, CutShort
  <2>3. CASE req[q].at = "validating"
    BY <2>1, <2>3 DEF Crash
  <2>4. CASE req[q].at \notin Paying
    BY <2>1, <2>4 DEF Crash, Paying
  <2> QED BY <2>2, <2>3, <2>4 DEF Paying
<1>3. /\ UNCHANGED <<newest, expired, revoked, browser, outcome, logout, resent, slow, reused>>
      /\ \/ UNCHANGED landing
         \/ req[q].at = "publishing" /\ landing' = [landing EXCEPT ![req[q].cookie] = Row(q)]
  BY DEF Crash, CutShort, idp
<1>4. /\ unshared \subseteq unshared' /\ unshared' \subseteq Tokens
      /\ req[q].at \in Paying /\ req[q].cookie < newest => req[q].cookie \in unshared'
  BY <1>2, <1>3, Losing
<1>5. reused' \subseteq unshared' \cup slow' /\ revoked \in BOOLEAN
  BY <1>3, <1>4, Mine
<1>6. 0 <= newest /\ Untouched \notin Tokens
  BY Mine, Numbers
<1> QED BY <1>1, <1>3, <1>4, <1>5, <1>6, Moves
-----------------------------------------------------------------------------
(* Spending a token and publishing what came of it.                        *)

\* A token is spent again only when no outcome of it could be found, or in a late lease.
LEMMA SpendsAfresh ==
    ASSUME IInv, NEW q \in Requests, req[q].at = "renewing", req[q].cookie < newest
    PROVE  req[q].cookie \in unshared \cup slow
<1>1. req[q].cookie # newest
  BY Mine
<1> QED BY <1>1 DEF IInv, SpentInv

LEMMA RejectKept ==
    ASSUME IInv, NEW q \in Requests, Reject(q)
    PROVE  IInv'
<1>1. /\ req[q].at = "renewing" /\ req[q].at \in Working /\ req[q].at \notin Paying
      /\ UNCHANGED <<newest, expired, browser, lease, outcome, landing, logout, unshared, slow>>
      /\ revoked' \in BOOLEAN
  BY DEF Reject, shared, Working, Paying
<1>2. PICK val \in {Cleared, req[q].cookie} :
          /\ Served(q, val)
          /\ \/ val = Cleared /\ resent' = resent
             \/ resent' = resent \cup {req[q].cookie}
  BY DEF Reject
<1>3. val \in Cookies /\ Cleared \notin Tokens
  BY Mine, Numbers
<1>4. PICK v \in Request :
             /\ req' = [req EXCEPT ![q] = v]
             /\ v.at = "publishing" /\ v.cookie = req[q].cookie /\ v.waited = req[q].waited
             /\ v.clock = 0 /\ v.reply = val /\ v.before = req[q].before
  BY <1>2, <1>3, ServedMakes
<1>5. (Leased(q) /\ Replied(q) /\ SignedOut(q))'
  <2>1. req'[q] = v
    BY <1>4, Types DEF IInv
  <2>2. Leased(q)' /\ SignedOut(q)'
    BY <1>1, <1>4, Onward
  <2> QED BY <1>1, <1>3, <1>4, <2>1, <2>2, Mine DEF Replied, Paying
<1>6. reused' \subseteq unshared' \cup slow'
  BY <1>1, SpendsAfresh, Mine DEF Reject
<1>7. v.reply \in Tokens => v.reply \in resent'
  BY <1>2, <1>3, <1>4
<1> QED BY <1>1, <1>2, <1>4, <1>5, <1>6, <1>7, Mine, Moves

LEMMA AcceptKept ==
    ASSUME IInv, NEW q \in Requests, Accept(q)
    PROVE  IInv'
<1> DEFINE g == req[q].cookie
<1>1. /\ req[q].at = "renewing" /\ req[q].at \in Working /\ req[q].at \notin Paying
      /\ ~revoked /\ g = newest /\ newest < MaxTokens
      /\ newest' = newest + 1 /\ expired' = FALSE
      /\ UNCHANGED <<revoked, browser, lease, outcome, landing, logout, slow, reused>>
  BY DEF Accept, shared, Working, Paying
<1>2. /\ newest \in Nat /\ newest' \in Tokens /\ newest' > newest /\ g \in Tokens
      /\ g \in Cookies /\ newest' \in Cookies
  BY <1>1, Mine, Numbers
<1>3. \* all that is on its way was issued before
      /\ expired
      /\ \A p \in Requests : req[p].at # "turned" /\ req[p].reply \in Tokens =>
           req[p].reply \in resent
      /\ \A h \in Tokens : /\ outcome[h].left > 0 /\ outcome[h].val \in Tokens =>
                                outcome[h].val \in resent
                           /\ landing[h].left > 0 /\ landing[h].val \in Tokens =>
                                landing[h].val \in resent
  <2>1. expired
    BY <1>1, <1>2, Mine
  <2> QED BY <2>1 DEF IInv, CookieInv, Sent
<1>4. PICK v \in Request :
          /\ req' = [req EXCEPT ![q] = v]
          /\ v.cookie = g /\ v.waited = req[q].waited /\ v.before = req[q].before
          /\ \/ /\ v.at = "validating" /\ v.clock = req[q].clock /\ v.reply = newest'
                /\ UNCHANGED <<unshared, resent>>
             \/ /\ v.at = "publishing" /\ v.clock = 0 /\ v.reply = g
                /\ Lose({g}) /\ resent' = resent \cup {g}
  <2>1. CASE /\ req' = [req EXCEPT ![q].at = "validating", ![q].reply = newest + 1]
             /\ UNCHANGED <<unshared, resent>>
    <3> DEFINE v == [req[q] EXCEPT !.at = "validating", !.reply = newest + 1]
    <3>1. req[q] \in Request /\ "validating" \in Stations /\ newest + 1 \in Cookies
      BY <1>1, <1>2, Mine DEF Stations
    <3>2. /\ v \in Request
          /\ v.at = "validating" /\ v.cookie = req[q].cookie /\ v.waited = req[q].waited
          /\ v.clock = req[q].clock /\ v.reply = newest + 1 /\ v.before = req[q].before
      BY <3>1 DEF Request
    <3>3. req' = [req EXCEPT ![q] = v]
      BY <2>1, Types DEF IInv
    <3> HIDE DEF v
    <3> QED BY <1>1, <2>1, <3>2, <3>3
  <2>2. CASE Served(q, g) /\ Lose({g}) /\ resent' = resent \cup {g}
    <3>1. PICK v \in Request :
             /\ req' = [req EXCEPT ![q] = v]
             /\ v.at = "publishing" /\ v.cookie = req[q].cookie /\ v.waited = req[q].waited
             /\ v.clock = 0 /\ v.reply = g /\ v.before = req[q].before
      BY <1>2, <2>2, ServedMakes
    <3> QED BY <2>2, <3>1
  <2> QED BY <2>1, <2>2 DEF Accept
<1>5. req'[q] = v /\ \A p \in Requests : p # q => req'[p] = req[p]
  BY <1>4, Types DEF IInv
<1>6. /\ unshared \subseteq unshared' /\ unshared' \subseteq Tokens
      /\ resent \subseteq resent' /\ resent' \subseteq resent \cup {g}
  BY <1>2, <1>4, Losing, Mine
<1>7. TypeOK'
  <2>1. req' \in [Requests -> Request]
    BY <1>4, Types DEF IInv
  <2>2. resent' \subseteq Tokens
    BY <1>2, <1>6 DEF IInv, TypeOK
  <2> QED BY <1>1, <1>2, <1>6, <2>1, <2>2 DEF IInv, TypeOK, Request, Stations, lease
<1>8. RequestInv' /\ Resting'
  <2>1. Leased(q)' /\ SignedOut(q)'
    <3>1. \/ v.at \in Working /\ v.clock = req[q].clock
          \/ v.at = "publishing" /\ v.clock = 0
      BY <1>4 DEF Working
    <3> QED BY <1>1, <1>4, <3>1, Onward
  <2>2. Replied(q)'
    BY <1>1, <1>2, <1>4, <1>5, Mine DEF Replied, Paying
  <2>3. RequestInv'
    BY <1>1, <1>4, <2>1, <2>2, OthersKept
  <2> QED BY <1>1, <2>3 DEF IInv, Resting
<1>9. SpentInv'
  <2>1. ASSUME NEW p \in Requests, req'[p].at = "renewing"
        PROVE  req'[p].cookie = newest' \/ req'[p].cookie \in unshared' \cup slow'
    <3>1. p # q /\ req'[p] = req[p]
      BY <1>4, <1>5, <2>1
    <3>2. req[p].cookie = newest \/ req[p].cookie \in unshared \cup slow
      BY <2>1, <3>1 DEF IInv, SpentInv
    <3>3. ASSUME req[p].cookie = newest, newest \notin slow
          PROVE  FALSE
      <4>1. ~req[p].waited /\ ~req[q].waited
        BY <1>1, <2>1, <3>1, Mine DEF Replied
      <4>2. Covered(p) /\ Covered(q)
        BY <1>1, <2>1, <3>1, <3>3, <4>1 DEF Covered, Prompt, Renewing
      <4> QED BY <3>1, <4>2, OneHolder
    <3> QED BY <1>1, <1>6, <3>1, <3>2, <3>3
  <2>2. ASSUME NEW h \in Tokens, h < newest'
        PROVE  \/ h \in unshared'
               \/ outcome'[h].left > 0
               \/ \E p \in Requests : req'[p].at \in Paying /\ req'[p].cookie = h
    <3>1. CASE h = g
      BY <1>4, <1>5, <3>1 DEF Paying
    <3>2. CASE h # g
      <4>1. h < newest
        BY <1>1, <1>2, <2>2, <3>2, Numbers
      <4>2. CASE \E p \in Requests : req[p].at \in Paying /\ req[p].cookie = h
        BY <1>1, <1>5, <4>2
      <4> QED BY <1>1, <1>6, <4>1, <4>2 DEF IInv, SpentInv
    <3> QED BY <3>1, <3>2
  <2>3. SpentOnce'
    BY <1>1, <1>6 DEF IInv, SpentInv, SpentOnce
  <2> QED BY <2>1, <2>2, <2>3 DEF SpentInv
<1>10. CookieInv'
  <2>1. browser' \in Tokens => browser' <= newest'
    BY <1>1, <1>2, Numbers DEF IInv, CookieInv
  <2>2. \A h \in resent' : h <= newest'
    BY <1>1, <1>2, <1>6, Numbers DEF IInv, CookieInv, TypeOK
  <2>3. ASSUME NEW p \in Requests
        PROVE  /\ req'[p].cookie <= newest' /\ req'[p].cookie < newest'
               /\ req'[p].at # "turned" => Sent(req[p].reply)'
    <3>1. req'[p].cookie = req[p].cookie
      BY <1>4, <1>5
    <3>2. req[p].cookie \in Nat /\ req[p].cookie <= newest
      BY Mine
    <3>3. req'[p].at # "turned" => Sent(req[p].reply)'
      BY <1>1, <1>3, <1>4, <1>5, <1>6 DEF Sent
    <3> QED BY <1>1, <1>2, <3>1, <3>2, <3>3
  <2>4. \A h \in Tokens : /\ outcome'[h].left > 0 => Sent(outcome[h].val)'
                          /\ landing'[h].left > 0 => Sent(landing[h].val)'
    BY <1>1, <1>3, <1>6 DEF Sent
  <2> QED BY <2>1, <2>2, <2>3, <2>4 DEF CookieInv
<1> QED BY <1>7, <1>8, <1>9, <1>10 DEF IInv

LEMMA PublishKept ==
    ASSUME IInv, NEW q \in Requests, Publish(q)
    PROVE  IInv'
<1> DEFINE g == req[q].cookie
           row == Row(q)
<1>1. /\ req[q].at = "publishing" /\ Over(q, req[q].reply)
      /\ outcome' = [outcome EXCEPT ![g] = row]
      /\ UNCHANGED <<idp, browser, lease, landing, logout, unshared, resent, slow, reused>>
  BY DEF Publish, history
<1>2. req[q].reply \in Cookies /\ Sent(req[q].reply) /\ g \in Tokens
  BY <1>1, Mine DEF Replied, Paying
<1>3. PICK v \in Request :
             /\ req' = [req EXCEPT ![q] = v]
             /\ v.at = "releasing" /\ v.cookie = g /\ v.reply = req[q].reply
             /\ ~v.before
  BY <1>1, <1>2, OverMakes
<1>4. req'[q] = v /\ \A p \in Requests : p # q => req'[p] = req[p]
  BY <1>3, Types DEF IInv
<1>5. /\ row \in [left : 0..OutcomeTTL, val : Cookies] /\ row.left > 0 /\ row.val = req[q].reply
      /\ outcome'[g] = row /\ \A h \in Tokens : h # g => outcome'[h] = outcome[h]
  <2>1. row \in [left : 0..OutcomeTTL, val : Cookies] /\ row.left > 0 /\ row.val = req[q].reply
    BY <1>2, Numbers DEF Row
  <2>2. outcome \in Rows
    BY Types DEF IInv
  <2> QED BY <1>1, <1>2, <2>1, <2>2 DEF Rows
<1> HIDE DEF row
<1>6. TypeOK'
  <2>1. req' \in [Requests -> Request]
    BY <1>3, Types DEF IInv
  <2>2. outcome' \in Rows
    BY <1>1, <1>5, Types DEF IInv, Rows
  <2> QED
    BY <1>1, <2>1, <2>2 DEF IInv, TypeOK, Request, Stations, Rows, idp, lease
<1>7. RequestInv' /\ Resting'
  <2>1. RequestInv'
    BY <1>1, <1>3, Outside, OthersKept
  <2> QED BY <1>1, <2>1 DEF IInv, Resting
<1>8. SpentInv'
  <2>1. ASSUME NEW p \in Requests, req'[p].at = "renewing"
        PROVE  req'[p].cookie = newest' \/ req'[p].cookie \in unshared' \cup slow'
    BY <1>1, <1>3, <1>4, <2>1 DEF IInv, SpentInv, idp
  <2>2. ASSUME NEW h \in Tokens, h < newest'
        PROVE  \/ h \in unshared'
               \/ outcome'[h].left > 0
               \/ \E p \in Requests : req'[p].at \in Paying /\ req'[p].cookie = h
    <3>1. CASE h = g
      BY <1>5, <3>1
    <3>2. CASE h # g
      <4>1. h < newest /\ unshared' = unshared /\ outcome'[h] = outcome[h]
        BY <1>1, <1>5, <2>2, <3>2 DEF idp
      <4>2. CASE \E p \in Requests : req[p].at \in Paying /\ req[p].cookie = h
        BY <1>4, <3>2, <4>2
      <4> QED BY <4>1, <4>2 DEF IInv, SpentInv
    <3> QED BY <3>1, <3>2
  <2>3. SpentOnce'
    BY <1>1 DEF IInv, SpentInv, SpentOnce
  <2> QED BY <2>1, <2>2, <2>3 DEF SpentInv
<1>9. CookieInv'
  <2>1. UNCHANGED <<newest, expired, browser, landing, resent>>
    BY <1>1 DEF idp
  <2>2. ASSUME NEW p \in Requests
        PROVE  /\ req'[p].cookie <= newest
               /\ req'[p].at # "idle" /\ ~expired => req'[p].cookie < newest
               /\ req'[p].at # "turned" => Sent(req[p].reply)'
    BY <1>1, <1>2, <1>3, <1>4, <2>1, Mine DEF Sent
  <2>3. ASSUME NEW h \in Tokens
        PROVE  /\ outcome'[h].left > 0 => Sent(outcome[h].val)'
               /\ landing'[h].left > 0 => Sent(landing[h].val)'
    BY <1>2, <1>5, <2>1 DEF Sent, IInv, CookieInv
  <2> QED BY <2>1, <2>2, <2>3 DEF CookieInv, IInv
<1> QED BY <1>6, <1>7, <1>8, <1>9 DEF IInv

\* The COMMIT of a publication that was cut off.
LEMMA LandsKept ==
    ASSUME IInv, NEW g \in Tokens, Lands(g)
    PROVE  IInv'
<1>1. /\ landing[g].left > 0
      /\ outcome' = [outcome EXCEPT ![g] = landing[g]]
      /\ landing' = [landing EXCEPT ![g] = NoOutcome]
      /\ UNCHANGED <<idp, browser, holder, left, req, logout, unshared, resent, slow, reused>>
  BY DEF Lands, lease, history
<1>2. /\ outcome \in Rows /\ landing \in Rows
      /\ landing[g] \in [left : 0..OutcomeTTL, val : Cookies]
  BY Types DEF IInv, Rows
<1>3. outcome' \in Rows /\ landing' \in Rows
  BY <1>1, <1>2, IdleTyped DEF Rows
<1>4. /\ outcome'[g] = landing[g] /\ landing'[g].left = 0
      /\ \A h \in Tokens : h # g => outcome'[h] = outcome[h] /\ landing'[h] = landing[h]
  BY <1>1, <1>2 DEF Rows, NoOutcome
<1>5. TypeOK'
  BY <1>1, <1>3 DEF IInv, TypeOK, idp, Rows
<1>6. RequestInv' /\ Resting'
  BY <1>1 DEF IInv, RequestInv, Leased, Replied, SignedOut, Prompt, Renews, Resting
<1>7. SpentInv'
  BY <1>1, <1>4 DEF IInv, SpentInv, SpentOnce, idp
<1>8. CookieInv'
  <2>1. UNCHANGED <<newest, expired, browser, req, resent>>
    BY <1>1 DEF idp
  <2>2. ASSUME NEW h \in Tokens
        PROVE  /\ outcome'[h].left > 0 => Sent(outcome[h].val)'
               /\ landing'[h].left > 0 => Sent(landing[h].val)'
    <3>1. CASE h = g
      BY <1>1, <1>4, <2>1, <3>1 DEF IInv, CookieInv, Sent
    <3>2. CASE h # g
      BY <1>4, <2>1, <3>2 DEF IInv, CookieInv, Sent
    <3> QED BY <3>1, <3>2
  <2> QED BY <2>1, <2>2 DEF IInv, CookieInv, Sent
<1> QED BY <1>5, <1>6, <1>7, <1>8 DEF IInv
-----------------------------------------------------------------------------
(* Logout and time.                                                        *)

\* A logout that only moves on, or takes the lease when nobody is under it.
LEMMA LogoutMoves ==
    ASSUME IInv, UNCHANGED <<newest, expired, req>>, revoked' \in BOOLEAN,
           UNCHANGED <<outcome, landing, unshared, resent, slow, reused>>,
           browser' = browser \/ browser' = Cleared,
           logout' \in [at : {"idle", "waiting", "deleting", "done", "failed"}, clock : 0..TTL],
           Resting',
           UNCHANGED lease \/ (holder = NoOne /\ holder' = Logout /\ left' = TTL),
           \A q \in Requests : SignedOut(q)'
    PROVE  IInv'
<1>1. TypeOK'
  <2>1. browser' \in Cookies
    BY Numbers DEF IInv, TypeOK
  <2>2. holder' \in Holders /\ left' \in 0..TTL /\ (holder' = NoOne <=> left' = 0)
    BY Types, Names, Numbers DEF IInv, Holders, lease
  <2> QED BY <2>1, <2>2 DEF IInv, TypeOK, Holders
<1>2. RequestInv'
  <2>1. ASSUME NEW q \in Requests
        PROVE  Leased(q)' /\ Replied(q)'
    <3>1. Leased(q) /\ Replied(q) /\ (Prompt(q)' <=> Prompt(q))
      BY DEF IInv, RequestInv, Prompt
    <3>2. CASE UNCHANGED <<holder, left>>
      BY <3>1, <3>2 DEF Leased, Replied
    <3>3. CASE holder = NoOne
      BY <3>1, <3>3, Names DEF Leased, Replied
    <3> QED BY <3>2, <3>3 DEF lease
  <2> QED BY <2>1 DEF RequestInv
<1>3. SpentInv'
  BY DEF IInv, SpentInv, SpentOnce
<1>4. CookieInv'
  BY Numbers DEF IInv, CookieInv, Sent
<1> QED BY <1>1, <1>2, <1>3, <1>4 DEF IInv

LEMMA LogoutBeginsKept == ASSUME IInv, LogoutBegins PROVE IInv'
<1>1. ASSUME NEW q \in Requests
      PROVE  /\ req'[q] \in Request
             /\ req'[q].at = req[q].at /\ req'[q].cookie = req[q].cookie
             /\ req'[q].waited = req[q].waited /\ req'[q].clock = req[q].clock
             /\ req'[q].reply = req[q].reply /\ req'[q].before = Renews(q)
  <2>1. req[q] \in Request /\ Renews(q) \in BOOLEAN
    BY Mine DEF Renews
  <2>2. req'[q] = [req[q] EXCEPT !.before = Renews(q)]
    BY DEF LogoutBegins
  <2> HIDE DEF Renews
  <2> QED BY <2>1, <2>2 DEF Request
<1>2. /\ logout'.at = "waiting" /\ logout'.clock = 0 /\ logout' = [logout EXCEPT !.at = "waiting"]
      /\ UNCHANGED <<newest, expired, browser, holder, left, outcome, landing,
                     unshared, resent, slow, reused>>
      /\ revoked' \in BOOLEAN
  BY DEF LogoutBegins, IInv, TypeOK, Resting, lease, shared, history
<1>3. TypeOK'
  <2>1. req' \in [Requests -> Request]
    <3>1. req' = [q \in Requests |-> [req[q] EXCEPT !.before = Renews(q)]]
      BY DEF LogoutBegins
    <3>2. \A q \in Requests : req'[q] \in Request
      BY <1>1
    <3> HIDE DEF Renews
    <3> QED BY <3>1, <3>2
  <2>2. logout' \in [at : {"idle", "waiting", "deleting", "done", "failed"}, clock : 0..TTL]
    BY <1>2 DEF IInv, TypeOK
  <2> QED BY <1>2, <2>1, <2>2 DEF IInv, TypeOK, Request, Stations
<1>4. RequestInv'
  <2>1. ASSUME NEW q \in Requests
        PROVE  Leased(q)' /\ Replied(q)' /\ SignedOut(q)'
    <3>1. /\ Leased(q) /\ Replied(q) /\ req[q].clock \in Nat
          /\ TTL \in Nat /\ WorkTime \in Nat /\ PublishTime \in Nat
          /\ WorkTime + PublishTime < TTL
      BY Mine, Numbers
    <3>2. Leased(q)'
      BY <1>1, <1>2, <3>1 DEF Leased, Prompt
    <3>3. Replied(q)'
      BY <1>1, <3>1 DEF Replied
    <3>4. SignedOut(q)'
      <4>1. /\ 0 <= req[q].clock /\ 0 + WorkTime + PublishTime < TTL + req[q].clock
            /\ 0 + PublishTime < TTL + req[q].clock
        BY <3>1
      <4>2. req'[q].before => Renews(q)'
        BY <1>1 DEF Renews
      <4> QED BY <1>1, <1>2, <4>1, <4>2 DEF SignedOut
    <3> QED BY <3>2, <3>3, <3>4
  <2> QED BY <2>1 DEF RequestInv
<1>5. SpentInv' /\ Resting'
  BY <1>1, <1>2 DEF IInv, SpentInv, SpentOnce, Resting
<1>6. CookieInv'
  BY <1>1, <1>2 DEF IInv, CookieInv, Sent
<1> QED BY <1>3, <1>4, <1>5, <1>6 DEF IInv

LEMMA LogoutGrantedKept == ASSUME IInv, LogoutGranted PROVE IInv'
<1>1. /\ holder = NoOne /\ logout' = [logout EXCEPT !.at = "deleting", !.clock = 0]
      /\ holder' = Logout /\ left' = TTL
      /\ UNCHANGED <<newest, expired, revoked, browser, outcome, landing, req,
                     unshared, resent, slow, reused>>
  BY DEF LogoutGranted, idp, shared, history
<1>2. /\ logout' \in [at : {"idle", "waiting", "deleting", "done", "failed"}, clock : 0..TTL]
      /\ logout'.at = "deleting" /\ logout'.clock = 0
  BY <1>1, Numbers DEF IInv, TypeOK
<1>3. ASSUME NEW q \in Requests
      PROVE  SignedOut(q)'
  <2>1. req[q].before => Renews(q) /\ req[q].at # "granted" /\ ~Prompt(q)
    BY <1>1, Mine, Names DEF Leased, SignedOut, Renews, Renewing, Working
  <2> QED BY <1>1, <1>2, <2>1 DEF SignedOut, Renews, Prompt
<1> QED BY <1>1, <1>2, <1>3, LogoutMoves DEF IInv, TypeOK, Resting

\* The time a logout waits is more than a renewal it met can spend under a lease in time.
LEMMA LogoutGivesUpKept == ASSUME IInv, LogoutGivesUp PROVE IInv'
<1>1. /\ logout.at = "waiting" /\ logout.clock = TTL
      /\ logout' = [at |-> "deleting", clock |-> 0]
      /\ UNCHANGED <<newest, expired, revoked, browser, lease, outcome, landing, req,
                     unshared, resent, slow, reused>>
  BY DEF LogoutGivesUp, idp, shared, history
<1>2. /\ logout' \in [at : {"idle", "waiting", "deleting", "done", "failed"}, clock : 0..TTL]
      /\ logout'.at = "deleting" /\ logout'.clock = 0
  BY <1>1, Numbers
<1>3. ASSUME NEW q \in Requests
      PROVE  SignedOut(q)'
  <2>1. req[q].before => Renews(q) /\ req[q].at # "granted" /\ ~Prompt(q)
    <3>1. /\ SignedOut(q) /\ Leased(q) /\ req[q].clock \in Nat
          /\ TTL \in Nat /\ Delay \in Nat /\ WorkTime \in Nat /\ PublishTime \in Nat
          /\ Delay < TTL
      BY Mine, Numbers
    <3>2. req[q].before => req[q].at # "granted"
      BY <1>1, <3>1 DEF SignedOut, Leased
    <3>3. req[q].before /\ req[q].at \in Working => ~Prompt(q)
      BY <1>1, <3>1 DEF SignedOut, Leased
    <3>4. req[q].before /\ req[q].at = "publishing" => ~Prompt(q)
      BY <1>1, <3>1 DEF SignedOut, Leased
    <3>5. req[q].before => Renews(q)
      BY <3>1 DEF SignedOut
    <3> QED BY <3>2, <3>3, <3>4, <3>5 DEF Renews, Renewing, Working
  <2> QED BY <1>1, <1>2, <2>1 DEF SignedOut, Renews, Prompt
<1> QED BY <1>1, <1>2, <1>3, LogoutMoves DEF IInv, TypeOK, Resting

LEMMA LogoutFailsKept == ASSUME IInv, LogoutFails PROVE IInv'
<1>1. /\ logout' = [at |-> "failed", clock |-> 0] /\ browser' = Cleared
      /\ UNCHANGED <<newest, expired, revoked, lease, outcome, landing, req,
                     unshared, resent, slow, reused>>
  BY DEF LogoutFails, idp, shared, history
<1>2. /\ logout' \in [at : {"idle", "waiting", "deleting", "done", "failed"}, clock : 0..TTL]
      /\ logout'.at = "failed" /\ Resting'
  BY <1>1, Numbers DEF Resting
<1>3. \A q \in Requests : SignedOut(q)'
  BY <1>1, <1>2, Mine DEF SignedOut, Renews
<1> QED BY <1>1, <1>2, <1>3, LogoutMoves DEF IInv, TypeOK

LEMMA ForgetsKept ==
    ASSUME IInv, NEW end \in {"done", "failed"}, Forgets(end),
           UNCHANGED lease \/ (holder = Logout /\ holder' = NoOne /\ left' = 0),
           end = "done" => logout.at = "deleting"
    PROVE  IInv'
<1> DEFINE S == {g \in Tokens : outcome[g].left > 0}
<1>1. /\ logout' = [at |-> end, clock |-> 0]
      /\ outcome' = [g \in Tokens |-> NoOutcome] /\ browser' = Cleared
      /\ UNCHANGED <<newest, expired, revoked, landing, req, resent, slow, reused>> /\ Lose(S)
  BY DEF Forgets, idp
<1>2. /\ logout' \in [at : {"idle", "waiting", "deleting", "done", "failed"}, clock : 0..TTL]
      /\ logout'.at = end /\ Resting'
  BY <1>1, Numbers DEF Resting
<1>3. /\ unshared \subseteq unshared' /\ unshared' \subseteq Tokens
      /\ \A g \in S : g < newest' => g \in unshared'
  BY <1>1, Losing
<1>4. \A g \in Tokens : outcome'[g].left = 0
  BY <1>1 DEF NoOutcome
<1>5. TypeOK'
  <2>1. holder' \in Holders /\ left' \in 0..TTL /\ (holder' = NoOne <=> left' = 0)
    BY Types, Numbers DEF IInv, Holders, lease
  <2>2. outcome' \in Rows /\ browser' \in Cookies
    BY <1>1, IdleTyped, Numbers DEF Rows
  <2> QED BY <1>1, <1>2, <1>3, <2>1, <2>2 DEF IInv, TypeOK, Holders, Rows
<1>6. RequestInv'
  <2>1. ASSUME NEW q \in Requests
        PROVE  Leased(q)' /\ Replied(q)' /\ SignedOut(q)'
    <3>1. Leased(q) /\ Replied(q) /\ SignedOut(q) /\ (Prompt(q)' <=> Prompt(q))
      BY <1>1, Mine DEF Prompt
    <3>2. Leased(q)'
      <4>1. CASE UNCHANGED <<holder, left>>
        BY <1>1, <3>1, <4>1 DEF Leased
      <4>2. CASE holder = Logout
        BY <1>1, <3>1, <4>2, Names DEF Leased
      <4> QED BY <4>1, <4>2 DEF lease
    <3>3. Replied(q)'
      BY <1>1, <3>1 DEF Replied
    <3>4. SignedOut(q)'
      BY <1>1, <1>2, <3>1 DEF SignedOut, Renews
    <3> QED BY <3>2, <3>3, <3>4
  <2> QED BY <2>1 DEF RequestInv
<1>7. SpentInv'
  <2>1. \A q \in Requests : req'[q].at = "renewing" =>
          req'[q].cookie = newest' \/ req'[q].cookie \in unshared' \cup slow'
    BY <1>1, <1>3 DEF IInv, SpentInv
  <2>2. ASSUME NEW g \in Tokens, g < newest
        PROVE  \/ g \in unshared'
               \/ \E q \in Requests : req[q].at \in Paying /\ req[q].cookie = g
    <3>1. CASE outcome[g].left > 0
      BY <1>1, <1>3, <2>2, <3>1
    <3> QED BY <1>3, <2>2, <3>1 DEF IInv, SpentInv
  <2>3. SpentOnce'
    BY <1>1, <1>3 DEF IInv, SpentInv, SpentOnce
  <2> QED BY <1>1, <2>1, <2>2, <2>3 DEF SpentInv
<1>8. CookieInv'
  BY <1>1, <1>4, Numbers DEF IInv, CookieInv, Sent
<1> QED BY <1>2, <1>5, <1>6, <1>7, <1>8 DEF IInv

LEMMA LogoutDeletesKept == ASSUME IInv, LogoutDeletes PROVE IInv'
<1>1. UNCHANGED lease \/ (holder = Logout /\ holder' = NoOne /\ left' = 0)
  BY FreeLease DEF LogoutDeletes
<1> QED BY <1>1, ForgetsKept DEF LogoutDeletes

LEMMA LogoutHastensKept == ASSUME IInv, LogoutHastens PROVE IInv'
BY ForgetsKept DEF LogoutHastens

LEMMA ExpireKept == ASSUME IInv, Expire PROVE IInv'
<1>1. /\ ~expired /\ expired' = TRUE
      /\ UNCHANGED <<newest, revoked, browser, holder, left, outcome, landing, req, logout,
                     unshared, resent, slow, reused>>
  BY DEF Expire, lease, shared, history
<1>2. TypeOK' /\ SpentInv' /\ Resting'
  BY <1>1 DEF IInv, TypeOK, SpentInv, SpentOnce, Resting
<1>3. RequestInv'
  BY <1>1 DEF IInv, RequestInv, Leased, Replied, SignedOut, Prompt, Renews
<1>4. CookieInv'
  \* no request is about and no outcome is left that could carry the last cookie
  <2>1. \A q \in Requests : req[q].reply \notin Tokens
    BY <1>1, Mine, Numbers DEF Expire, Replied
  <2>2. \A g \in Tokens : ~(outcome[g].left > 0) /\ ~(landing[g].left > 0)
    BY DEF Expire
  <2> QED BY <1>1, <2>1, <2>2 DEF IInv, CookieInv, Sent
<1> QED BY <1>2, <1>3, <1>4 DEF IInv

LEMMA AgedRow ==
    ASSUME NEW row \in [left : 0..OutcomeTTL, val : Cookies]
    PROVE  /\ Aged(row) \in [left : 0..OutcomeTTL, val : Cookies]
           /\ Aged(row).left > 0 => row.left > 0 /\ Aged(row).val = row.val
           /\ row.left > 0 => Aged(row).left > 0 \/ row.left = 1
<1>1. row.left \in Nat /\ OutcomeTTL \in Nat /\ row.left <= OutcomeTTL
  BY Numbers
<1>2. CASE row.left <= 1
  <2>1. Aged(row) = NoOutcome
    BY <1>2 DEF Aged
  <2> QED BY <1>1, <1>2, <2>1, IdleTyped DEF NoOutcome
<1>3. CASE ~(row.left <= 1)
  <2>1. Aged(row) = [row EXCEPT !.left = row.left - 1]
    BY <1>3 DEF Aged
  <2>2. row.left - 1 \in 0..OutcomeTTL /\ row.left - 1 > 0 /\ row.left > 0
    BY <1>1, <1>3
  <2> QED BY <2>1, <2>2
<1> QED BY <1>2, <1>3

LEMMA TickKept == ASSUME IInv, Tick PROVE IInv'
<1> DEFINE S == {g \in Tokens : outcome[g].left = 1}
<1>1. /\ left' = IF left > 0 THEN left - 1 ELSE 0
      /\ holder' = IF left <= 1 THEN NoOne ELSE holder
      /\ UNCHANGED <<newest, expired, revoked, browser, resent, slow, reused>> /\ Lose(S)
  BY DEF Tick, idp
<1>2. ASSUME NEW q \in Requests
      PROVE  /\ req'[q] \in Request
             /\ req'[q].at = req[q].at /\ req'[q].cookie = req[q].cookie
             /\ req'[q].waited = req[q].waited /\ req'[q].reply = req[q].reply
             /\ req'[q].before = req[q].before
             /\ req[q].at \in Renewing => req'[q].clock = req[q].clock + 1
  <2>1. /\ req[q] \in Request /\ req[q].clock \in Nat /\ InTime(q)
        /\ TTL \in Nat /\ Delay \in Nat /\ WorkTime \in Nat /\ PublishTime \in Nat
        /\ WorkTime + PublishTime < TTL /\ Delay < TTL
    BY Mine, Numbers DEF Tick
  <2>2. CASE req[q].at \in Renewing
    <3>1. req[q].clock + 1 \in 0..TTL
      BY <2>1, <2>2 DEF InTime, Renewing, Working
    <3>2. req'[q] = [req[q] EXCEPT !.clock = req[q].clock + 1]
      BY <2>2 DEF Tick
    <3> QED BY <2>1, <2>2, <3>1, <3>2 DEF Request
  <2>3. CASE req[q].at \notin Renewing
    BY <2>1, <2>3 DEF Tick
  <2> QED BY <2>2, <2>3
<1>3. ASSUME NEW g \in Tokens
      PROVE  /\ outcome'[g] \in [left : 0..OutcomeTTL, val : Cookies]
             /\ outcome'[g].left > 0 => outcome[g].left > 0 /\ outcome'[g].val = outcome[g].val
             /\ outcome[g].left > 0 => outcome'[g].left > 0 \/ g \in S
             /\ landing'[g] \in [left : 0..OutcomeTTL, val : Cookies]
             /\ landing'[g].left > 0 => landing[g].left > 0 /\ landing'[g].val = landing[g].val
  <2>1. /\ outcome[g] \in [left : 0..OutcomeTTL, val : Cookies]
        /\ landing[g] \in [left : 0..OutcomeTTL, val : Cookies]
    BY Types DEF IInv, Rows
  <2>2. outcome'[g] = Aged(outcome[g]) /\ landing'[g] = Aged(landing[g])
    BY DEF Tick
  <2> QED BY <2>1, <2>2, AgedRow
<1>4. /\ unshared \subseteq unshared' /\ unshared' \subseteq Tokens
      /\ \A g \in S : g < newest' => g \in unshared'
  BY <1>1, Losing
<1>5. /\ logout' \in [at : {"idle", "waiting", "deleting", "done", "failed"}, clock : 0..TTL]
      /\ logout'.at = logout.at
      /\ logout.at = "waiting" => logout'.clock = logout.clock + 1
      /\ logout.at # "waiting" => logout' = logout
  <2>1. /\ logout \in [at : {"idle", "waiting", "deleting", "done", "failed"}, clock : 0..TTL]
        /\ logout.clock \in Nat /\ TTL \in Nat
    BY Types, Numbers DEF IInv, TypeOK
  <2>2. CASE logout.at = "waiting"
    <3>1. logout' = [logout EXCEPT !.clock = logout.clock + 1] /\ logout.clock + 1 \in 0..TTL
      BY <2>1, <2>2 DEF Tick
    <3> QED BY <2>1, <2>2, <3>1
  <2>3. CASE logout.at # "waiting"
    BY <2>1, <2>3 DEF Tick
  <2> QED BY <2>2, <2>3
<1>6. TypeOK'
  <2>1. holder' \in Holders /\ left' \in 0..TTL /\ (holder' = NoOne <=> left' = 0)
    BY <1>1, Types, Numbers DEF IInv, Holders
  <2>2. req' \in [Requests -> Request]
    <3>1. req' = [q \in Requests |-> req'[q]]
      BY DEF Tick
    <3> QED BY <1>2, <3>1
  <2>3. outcome' \in Rows /\ landing' \in Rows
    <3>1. outcome' = [g \in Tokens |-> outcome'[g]] /\ landing' = [g \in Tokens |-> landing'[g]]
      BY DEF Tick
    <3> QED BY <1>3, <3>1 DEF Rows
  <2> QED
    BY <1>1, <1>4, <1>5, <2>1, <2>2, <2>3 DEF IInv, TypeOK, Request, Stations, Holders, Rows
<1>7. RequestInv' /\ Resting'
  <2>1. ASSUME NEW q \in Requests
        PROVE  Leased(q)' /\ Replied(q)' /\ SignedOut(q)'
    <3>1. /\ Leased(q) /\ Replied(q) /\ SignedOut(q) /\ InTime(q)
          /\ req[q].clock \in Nat /\ left \in Nat /\ logout.clock \in Nat
          /\ TTL \in Nat /\ Delay \in Nat /\ WorkTime \in Nat /\ PublishTime \in Nat
          /\ WorkTime + PublishTime < TTL /\ Delay < TTL
      BY Mine, Numbers DEF Tick
    <3>2. Replied(q)'
      BY <1>2, <3>1 DEF Replied
    <3>3. (Prompt(q)' <=> Prompt(q)) /\ (Renews(q)' <=> Renews(q))
      BY <1>1, <1>2 DEF Prompt, Renews
    <3>4. CASE req[q].at \notin Renewing
      <4>1. ~req[q].before
        BY <3>1, <3>4 DEF SignedOut, Renews
      <4> QED BY <1>2, <3>1, <3>2, <3>4, <4>1 DEF Leased, SignedOut, Renewing, Working
    <3>5. CASE req[q].at \in Renewing
      <4>1. req'[q].at = req[q].at /\ req'[q].clock = req[q].clock + 1
        BY <1>2, <3>5
      <4>2. Covered(q) => left > 1 /\ left' = left - 1 /\ holder' = holder
        <5>1. Covered(q) => left > 1
          BY <3>1, <3>5 DEF Covered, Leased, InTime, Renewing, Working
        <5> QED BY <1>1, <3>1, <5>1
      <4>3. Leased(q)'
        BY <3>1, <3>3, <3>5, <4>1, <4>2 DEF Covered, Leased, InTime, Renewing, Working
      <4>4. SignedOut(q)'
        BY <1>2, <1>5, <3>1, <3>3, <4>1 DEF SignedOut, Working
      <4> QED BY <3>2, <4>3, <4>4
    <3> QED BY <3>4, <3>5
  <2>2. Resting'
    BY <1>5 DEF IInv, Resting
  <2> QED BY <2>1, <2>2 DEF RequestInv
<1>8. SpentInv'
  <2>1. ASSUME NEW q \in Requests, req'[q].at = "renewing"
        PROVE  req'[q].cookie = newest' \/ req'[q].cookie \in unshared' \cup slow'
    BY <1>1, <1>2, <1>4, <2>1 DEF IInv, SpentInv
  <2>2. ASSUME NEW g \in Tokens, g < newest'
        PROVE  \/ g \in unshared'
               \/ outcome'[g].left > 0
               \/ \E q \in Requests : req'[q].at \in Paying /\ req'[q].cookie = g
    BY <1>1, <1>2, <1>3, <1>4, <2>2 DEF IInv, SpentInv
  <2>3. SpentOnce'
    BY <1>1, <1>4 DEF IInv, SpentInv, SpentOnce
  <2> QED BY <2>1, <2>2, <2>3 DEF SpentInv
<1>9. CookieInv'
  BY <1>1, <1>2, <1>3 DEF IInv, CookieInv, Sent
<1> QED BY <1>6, <1>7, <1>8, <1>9 DEF IInv
-----------------------------------------------------------------------------
LEMMA InvariantStep == IInv /\ [Next]_vars => IInv'
<1> SUFFICES ASSUME IInv, [Next]_vars PROVE IInv'
  OBVIOUS
<1>1. ASSUME NEW q \in Requests, Step(q)
      PROVE  IInv'
  <2>1. CASE \/ Start(q) \/ Grant(q) \/ Refused(q) \/ NoAnswer(q) \/ AcquireFails(q)
             \/ GiveUp(q) \/ Enter(q) \/ Load(q)
    BY <2>1, StartKept, GrantKept, AskKept, EnterKept, LoadKept
  <2>2. CASE \/ Accept(q) \/ Reject(q) \/ Transient(q) \/ Validate(q) \/ CutOff(q)
             \/ Publish(q) \/ PublishFails(q)
    BY <2>2, AcceptKept, RejectKept, TransientKept, ValidateKept, CutOffKept, PublishKept,
       PublishFailsKept
  <2>3. CASE Release(q) \/ ReleaseFails(q) \/ Arrive(q) \/ Crash(q)
    BY <2>3, ReleaseKept, ReleaseFailsKept, ArriveKept, CrashKept
  <2> QED BY <1>1, <2>1, <2>2, <2>3 DEF Step
<1>2. CASE LogoutStep
  BY <1>2, LogoutBeginsKept, LogoutGrantedKept, LogoutGivesUpKept, LogoutFailsKept,
     LogoutDeletesKept, LogoutHastensKept DEF LogoutStep
<1>3. CASE (\E g \in Tokens : Lands(g)) \/ Tick \/ Expire
  BY <1>3, LandsKept, TickKept, ExpireKept
<1>4. CASE UNCHANGED vars
  <2>1. UNCHANGED <<newest, expired, revoked, browser, holder, left, outcome, landing, req, logout,
                    unshared, resent, slow, reused>>
    BY <1>4 DEF vars
  <2>2. TypeOK' /\ Resting' /\ SpentInv' /\ CookieInv'
    BY <2>1 DEF IInv, TypeOK, Resting, SpentInv, SpentOnce, CookieInv, Sent
  <2>3. RequestInv'
    BY <2>1 DEF IInv, RequestInv, Leased, Replied, SignedOut, Prompt, Renews
  <2> QED BY <2>2, <2>3 DEF IInv
<1> QED BY <1>1, <1>2, <1>3, <1>4 DEF Next

LEMMA Invariant == Spec => []IInv
BY InitIInv, InvariantStep, PTL DEF Spec

(* Under the lease every phase stays within its timeout, and no cookie     *)
(* names a token that was not issued.                                      *)
Bounded ==
    /\ browser \in Tokens => browser <= newest
    /\ \A q \in Requests :
         /\ req[q].cookie <= newest
         /\ req[q].reply \in Tokens => req[q].reply <= newest
         /\ req[q].at = "granted" => req[q].clock <= Delay
         /\ req[q].at \in Working => req[q].clock <= WorkTime
         /\ req[q].at = "publishing" => req[q].clock <= PublishTime

(* Every variable keeps its type, and its bound: RefreshOutcome and the    *)
(* timeouts of coordinated_refresh.                                        *)
THEOREM TypeCorrect == Spec => [](TypeOK /\ Bounded)
<1>1. IInv => TypeOK /\ Bounded
  <2> SUFFICES ASSUME IInv PROVE TypeOK /\ Bounded
    OBVIOUS
  <2>1. ASSUME NEW q \in Requests
        PROVE  /\ req[q].cookie <= newest
               /\ req[q].reply \in Tokens => req[q].reply <= newest
               /\ req[q].at = "granted" => req[q].clock <= Delay
               /\ req[q].at \in Working => req[q].clock <= WorkTime
               /\ req[q].at = "publishing" => req[q].clock <= PublishTime
    <3>1. req[q].reply \in Tokens => req[q].reply <= newest
      BY Mine DEF Replied, Sent, IInv, CookieInv
    <3> QED BY <3>1, Mine DEF Leased
  <2> QED BY <2>1 DEF Bounded, IInv, CookieInv
<1> QED BY <1>1, Invariant, PTL

\* Requests just granted the lease, and those that renew under one that came in time.
RenewsAlone == \A p, q \in Requests : Covered(p) /\ Covered(q) => p = q

(* Of these there is one at a time, from the grant of the lease to the end *)
(* of the publication (coordinated_refresh).                               *)
THEOREM RenewalsExclude == Spec => []RenewsAlone
<1>1. IInv => RenewsAlone
  BY OneHolder DEF RenewsAlone
<1> QED BY <1>1, Invariant, PTL

(* A refresh token is spent twice only when nobody can adopt the outcome   *)
(* of the first time any more, or under a lease that came late.            *)
THEOREM TokensSpentOnce == Spec => []SpentOnce
<1>1. IInv => SpentOnce
  BY DEF IInv, SpentInv
<1> QED BY <1>1, Invariant, PTL

(* The browser's cookie is never replaced by an older one but by one that  *)
(* a failed renewal has sent again, or of a navigation turned away.        *)
THEOREM WinnerKept == Spec => CookieKept
<1>1. IInv /\ [Next]_vars => [Back => browser' \in resent \/ TurnedArrives]_vars
  <2> SUFFICES ASSUME IInv, Next, Back, ~TurnedArrives
               PROVE  browser' \in resent
    OBVIOUS
  <2>1. browser \in Nat /\ browser <= newest /\ newest \in Nat /\ Cleared \notin Tokens
    BY Types, Numbers DEF IInv, CookieInv, Back
  <2>2. browser' # browser /\ browser' # Cleared /\ browser' \in Tokens /\ browser' < browser
    BY <2>1, Numbers DEF Back
  <2>3. PICK q \in Requests : Arrive(q)
    <3>1. ~LogoutFails /\ ~LogoutDeletes /\ ~LogoutHastens
      BY <2>2 DEF LogoutFails, LogoutDeletes, LogoutHastens, Forgets
    <3>2. /\ ~Tick /\ ~Expire /\ ~LogoutBegins /\ ~LogoutGranted /\ ~LogoutGivesUp
          /\ \A g \in Tokens : ~Lands(g)
      BY <2>2 DEF Tick, Expire, LogoutBegins, LogoutGranted, LogoutGivesUp, Lands
    <3>3. ASSUME NEW q \in Requests, Step(q), ~Arrive(q)
          PROVE  FALSE
      BY <2>2, <3>3
      DEF Step, Start, Grant, Refused, NoAnswer, Enter, AcquireFails, GiveUp, Load, Accept,
          Reject, Transient, Validate, CutOff, Publish, PublishFails, Release, ReleaseFails,
          Crash
    <3> QED BY <3>1, <3>2, <3>3 DEF Next, LogoutStep
  <2>4. browser' = req[q].reply /\ req[q].at # "turned"
    BY <2>2, <2>3 DEF Arrive, TurnedArrives
  <2>5. browser' # newest
    BY <2>1, <2>2, Numbers
  <2> QED BY <2>2, <2>4, <2>5, Mine DEF Sent
<1> QED BY <1>1, Invariant, PTL DEF Spec, CookieKept

(* A renewal that was in flight when a logout began publishes nothing after *)
(* the logout has dropped the outcomes, unless its lease came late.         *)
THEOREM LogoutIsFinal == Spec => LogoutSticks
<1>1. IInv => \A q \in Requests :
        logout.at = "done" /\ Publish(q) /\ req[q].before => req[q].cookie \in slow
  BY Mine DEF Publish, SignedOut, Renews, Prompt
<1>2. IInv /\ [Next]_vars =>
        [\A q \in Requests :
           logout.at = "done" /\ Publish(q) /\ req[q].before => req[q].cookie \in slow]_vars
  BY <1>1
<1> QED BY <1>2, Invariant, PTL DEF Spec, LogoutSticks
=============================================================================
