-------------------------- MODULE AuthSessionsProof --------------------------
(***************************************************************************)
(* Proofs about AuthSessions for any number of handlers, users, requests   *)
(* and restarts and all configurations: passwords are verified only within *)
(* the limits, a session comes from a login that this handler trusts, a    *)
(* login lasts, its cookie stays on secure connections, and what is read   *)
(* of a request is bounded.                                                *)
(*                                                                         *)
(* Three inductive invariants: the types with what is known of requests,   *)
(* that no more attempts were verified than observed, and what a cookie    *)
(* says of the login it comes from.                                        *)
(***************************************************************************)
EXTENDS AuthSessions, TLAPS

Verifiers == Handlers \union {Server}
Ended == {"idle", "passed", "page", "login", "limited", "logged_in"}

(* What is known of a request in each of its phases.                       *)
Ending == [phase : Ended]
InSession == [phase : {"session"}, user : Users]
Arrivals == [phase : {"arrived"}, handler : Handlers, tls : BOOLEAN,
             cookies : SUBSET jar]
Readings == [phase : {"reading"}, handler : Handlers, tls : BOOLEAN, length : Nat]

RequestOK(q) ==
    /\ q \in Ending \union InSession \union Arrivals \union Readings
    /\ q.phase = "arrived" => \A c \in q.cookies : c.secure => q.tls
    /\ q.phase = "reading" =>
           conf[q.handler].mode = "page" /\ q.length < MaxBody + MaxChunk

ProcessInv ==
    /\ conf \in Configurations
    /\ starts \in 1 .. MaxStarts
    /\ secret = [h \in Handlers |-> TokenSecret(h, conf[h], starts)]
RequestsInv ==
    /\ requests = [r \in Requests |-> requests[r]]
    /\ \A r \in Requests : RequestOK(requests[r])

CountersInv ==
    /\ counts \in [Keys -> Nat]
    /\ verified \in [Verifiers -> [Keys -> Nat]]
    /\ \A x \in Verifiers, k \in Keys : verified[x][k] <= counts[k]

Started == 1 .. MaxStarts
Secrets == {c[h].secret : c \in Configurations, h \in Handlers}

(* A cookie's token has the time of the login and the secret of then.      *)
CookieOK(c) ==
    /\ c.user \in Users /\ c.by \in Handlers
    /\ c.start \in Started /\ c.start <= starts
    /\ c.at \in Nat /\ c.iat = c.at \div 2
    /\ c.configured \in Secrets
    /\ c.key = IF c.configured = None THEN <<"random", c.by, c.start>> ELSE c.configured
    /\ c.tls /\ ~c.secure => c.explicit = FALSE
CookiesInv == clock \in Nat /\ \A c \in jar : CookieOK(c)

IInv == ProcessInv /\ RequestsInv /\ CountersInv /\ CookiesInv /\ LimitsHold

-----------------------------------------------------------------------------
LEMMA ConfTypes ==
    ASSUME NEW c \in Configurations, NEW h \in Handlers
    PROVE  /\ c[h].total \in Nat /\ c[h].perUser \in Nat /\ c[h].perIp \in Nat
           /\ c[h].mode \in {"http", "page"}
           /\ c[h].secureCookie \in BOOLEAN \union {None}
           /\ c[h].expiration.number \in Nat
           /\ c[h].secret \in Secrets
    BY ConfigurationsAssumption DEF Secrets

(* A limit is a number.                                                    *)
LEMMA LimitTypes ==
    ASSUME ProcessInv, NEW h \in Handlers, NEW k \in Keys
    PROVE  LimitOf(h, k) \in Nat
    BY ConfTypes DEF ProcessInv, LimitOf

(* The counters after a step that leaves the process alone.                *)
LEMMA CountersSame ==
    ASSUME IInv, UNCHANGED <<process, counts, verified>>
    PROVE  ProcessInv' /\ CountersInv' /\ LimitsHold'
    BY DEF IInv, ProcessInv, CountersInv, LimitsHold, LimitOf, process

(* The counters start again.                                               *)
LEMMA CountersReset ==
    ASSUME ProcessInv', counts' = Nothing, verified' = NoneVerified
    PROVE  CountersInv' /\ LimitsHold'
<1>1. counts' \in [Keys -> Nat] /\ verified' \in [Verifiers -> [Keys -> Nat]]
    BY DEF Nothing, NoneVerified, Verifiers
<1>2. \A x \in Verifiers, k \in Keys : verified'[x][k] = 0
    BY DEF Nothing, NoneVerified, Verifiers
<1>3. \A h \in Handlers, k \in Keys : LimitOf(h, k)' \in Nat
    BY ConfTypes DEF ProcessInv, LimitOf
<1>4. CountersInv'
    BY <1>1, <1>2 DEF CountersInv, Verifiers
<1>5. LimitsHold'
    BY <1>2, <1>3 DEF LimitsHold, Verifiers
<1> QED
    BY <1>4, <1>5

LEMMA PlusType ==
    ASSUME NEW f \in [Keys -> Nat], NEW K
    PROVE  /\ Plus(f, K) \in [Keys -> Nat]
           /\ \A k \in Keys : Plus(f, K)[k] = IF k \in K THEN f[k] + 1 ELSE f[k]
    BY DEF Plus

(* An attempt that is rejected is counted only.                            *)
LEMMA AttemptLimited ==
    ASSUME IInv, NEW h \in Handlers, NEW user \in Users, NEW ip \in Ips,
           Observe(h, user, ip), UNCHANGED <<process, verified>>
    PROVE  ProcessInv' /\ CountersInv' /\ LimitsHold'
<1> DEFINE K == Observed(h, user, ip)
<1>1. /\ counts' \in [Keys -> Nat]
      /\ \A k \in Keys : counts'[k] = IF k \in K THEN counts[k] + 1 ELSE counts[k]
    BY PlusType DEF IInv, CountersInv, Observe
<1>2. ProcessInv' /\ LimitsHold'
    BY DEF IInv, ProcessInv, LimitsHold, LimitOf, process
<1>3. ASSUME NEW x \in Verifiers, NEW k \in Keys PROVE verified'[x][k] <= counts'[k]
  <2>1. verified[x][k] \in Nat /\ counts[k] \in Nat /\ verified[x][k] <= counts[k]
    BY DEF IInv, CountersInv
  <2> QED
    BY <2>1, <1>1
<1>4. CountersInv'
    BY <1>1, <1>3 DEF IInv, CountersInv
<1> QED
    BY <1>2, <1>4

(* One that is not finds room below each limit that observes it.           *)
LEMMA AttemptVerified ==
    ASSUME IInv, NEW h \in Handlers, NEW user \in Users, NEW ip \in Ips,
           Observe(h, user, ip), ~IsRateLimited(h, user, ip), Verify(h, user, ip),
           UNCHANGED process
    PROVE  ProcessInv' /\ CountersInv' /\ LimitsHold'
<1> DEFINE K == Observed(h, user, ip)
<1>1. /\ counts' \in [Keys -> Nat]
      /\ \A k \in Keys : counts'[k] = IF k \in K THEN counts[k] + 1 ELSE counts[k]
    BY PlusType DEF IInv, CountersInv, Observe
<1>2. ProcessInv' /\ \A g \in Handlers, k \in Keys : LimitOf(g, k)' = LimitOf(g, k)
    BY DEF IInv, ProcessInv, LimitOf, process
<1>3. ASSUME NEW x \in Verifiers
      PROVE  /\ verified'[x] \in [Keys -> Nat]
             /\ \A k \in Keys : verified'[x][k] =
                    IF x \in {h, Server} /\ k \in K THEN verified[x][k] + 1
                    ELSE verified[x][k]
  <2>1. verified'[x] = IF x \in {h, Server} THEN Plus(verified[x], K) ELSE verified[x]
    BY DEF Verify, Verifiers
  <2>2. verified[x] \in [Keys -> Nat]
    BY DEF IInv, CountersInv
  <2> QED
    BY <2>1, <2>2, PlusType
<1>4. verified' \in [Verifiers -> [Keys -> Nat]]
  <2>1. verified' = [x \in Verifiers |-> verified'[x]]
    BY DEF Verify, Verifiers
  <2> QED
    BY <2>1, <1>3
<1>5. \A x \in Verifiers, k \in Keys :
        /\ verified[x][k] \in Nat /\ counts[k] \in Nat
        /\ verified[x][k] <= counts[k]
    BY DEF IInv, CountersInv
<1>6. ASSUME NEW x \in Verifiers, NEW k \in Keys PROVE verified'[x][k] <= counts'[k]
    BY <1>1, <1>3, <1>5
<1>7. CountersInv'
    BY <1>1, <1>4, <1>6 DEF CountersInv
<1>8. ASSUME NEW k \in K PROVE k \in Keys /\ LimitOf(h, k) > 0 /\ counts[k] + 1 <= LimitOf(h, k)
  <2>1. k \in Keys
    BY DEF Observed, Keys
  <2>2. LimitOf(h, k) \in Nat /\ counts[k] \in Nat
    BY <2>1, LimitTypes DEF IInv, CountersInv
  <2>3. ~(counts[k] + 1 > LimitOf(h, k))
    BY <1>8 DEF IsRateLimited
  <2>4. LimitOf(h, k) > 0
    BY <1>8 DEF Observed
  <2> QED
    BY <2>1, <2>2, <2>3, <2>4
<1>9. ASSUME NEW x \in {h, Server}, NEW k \in K
      PROVE  verified'[x][k] <= LimitOf(h, k)
  <2>1. k \in Keys /\ x \in Verifiers /\ counts[k] + 1 <= LimitOf(h, k)
    BY <1>8 DEF Verifiers
  <2>2. verified'[x][k] = verified[x][k] + 1 /\ LimitOf(h, k) \in Nat
    BY <2>1, <1>3, LimitTypes DEF IInv
  <2> QED
    BY <2>1, <2>2, <1>5
<1>10. LimitsHold'
  <2>1. ASSUME NEW k \in Keys, NEW g \in Handlers, LimitOf(g, k) > 0
        PROVE  verified'[g][k] <= LimitOf(g, k)
    <3>1. CASE g = h /\ k \in K
        BY <3>1, <1>9
    <3>2. CASE ~(g \in {h, Server} /\ k \in K)
        BY <3>2, <2>1, <1>3 DEF IInv, LimitsHold, Verifiers
    <3> QED
        BY <3>1, <3>2, ServerAssumption
  <2>2. ASSUME NEW k \in Keys, verified'[Server][k] > 0
        PROVE  \E g \in Handlers : verified'[Server][k] <= LimitOf(g, k)
    <3>1. CASE k \in K
        BY <3>1, <1>9
    <3>2. CASE k \notin K
        BY <3>2, <2>2, <1>3 DEF IInv, LimitsHold, Verifiers
    <3> QED
        BY <3>1, <3>2
  <2> QED
    BY <2>1, <2>2, <1>2 DEF LimitsHold
<1> QED
    BY <1>2, <1>7, <1>10

-----------------------------------------------------------------------------
(* Requests and cookies                                                    *)

LEMMA SetOne ==
    ASSUME RequestsInv, NEW r \in Requests, NEW q, Set(r, q),
           NEW p \in Requests
    PROVE  requests'[p] = IF p = r THEN q ELSE requests[p]
    BY DEF RequestsInv, Set

(* One request goes on, others learn of new cookies at most.               *)
LEMMA SetKeeps ==
    ASSUME RequestsInv, NEW r \in Requests, NEW q, Set(r, q), RequestOK(q)',
           conf' = conf, jar \subseteq jar'
    PROVE  RequestsInv'
<1>1. requests' = [p \in Requests |-> requests'[p]]
    BY DEF RequestsInv, Set
<1>2. ASSUME NEW p \in Requests PROVE RequestOK(requests[p])'
  <2>1. CASE p = r
    <3>1. requests'[p] = q
        BY <2>1, SetOne
    <3> QED
        BY <3>1, Zenon
  <2>2. CASE p # r
    <3>1. requests'[p] = requests[p] /\ RequestOK(requests[p])
        BY <2>2, SetOne DEF RequestsInv
    <3> QED
        BY <3>1 DEF RequestOK, Ending, InSession, Arrivals, Readings
  <2> QED
    BY <2>1, <2>2
<1> QED
    BY <1>1, <1>2 DEF RequestsInv

LEMMA EndOK ==
    ASSUME NEW phase \in Ended
    PROVE  RequestOK([phase |-> phase])'
    BY DEF RequestOK, Ending, Ended

(* A step that concerns nothing but one request.                           *)
LEMMA QuietStep ==
    ASSUME IInv, NEW r \in Requests, NEW q, Set(r, q), RequestOK(q)',
           UNCHANGED <<process, clock, counts, verified, jar>>
    PROVE  IInv'
<1>1. ProcessInv' /\ CountersInv' /\ LimitsHold'
    BY CountersSame
<1>2. RequestsInv'
    BY SetKeeps DEF IInv, process
<1>3. CookiesInv'
    BY DEF IInv, CookiesInv, CookieOK, process
<1> QED
    BY <1>1, <1>2, <1>3 DEF IInv

LEMMA QuietEnd ==
    ASSUME IInv, NEW r \in Requests, NEW phase \in Ended, End(r, phase),
           UNCHANGED <<process, clock, counts, verified, jar>>
    PROVE  IInv'
    BY QuietStep, EndOK DEF End

LEMMA QuietLoginResponse ==
    ASSUME IInv, NEW r \in Requests, LoginResponse(r),
           UNCHANGED <<process, clock, counts, verified, jar>>
    PROVE  IInv'
    BY QuietEnd DEF LoginResponse, Ended

(* The cookie of a login at a handler in page mode.                        *)
LEMMA NewCookieOK ==
    ASSUME IInv, NEW h \in Handlers, NEW user \in Users, NEW tls \in BOOLEAN,
           conf[h].mode = "page"
    PROVE  CookieOK(Cookie(h, user, tls))
<1> DEFINE c == Cookie(h, user, tls)
<1>1. /\ c.user = user /\ c.by = h /\ c.start = starts /\ c.at = clock
      /\ c.iat = clock \div 2 /\ c.configured = conf[h].secret
      /\ c.key = secret[h] /\ c.tls = tls /\ c.secure = Secure(h, tls)
      /\ c.explicit = conf[h].secureCookie
    BY DEF Cookie, ToUnixTimestamp
<1>2. conf \in Configurations /\ starts \in Started /\ clock \in Nat
    BY DEF IInv, ProcessInv, CookiesInv, Started
<1>3. conf[h].secret \in Secrets /\ conf[h].secureCookie \in BOOLEAN \union {None}
    BY <1>2, ConfTypes
<1>4. secret[h] = IF conf[h].secret = None THEN <<"random", h, starts>> ELSE conf[h].secret
    BY DEF IInv, ProcessInv, TokenSecret
<1>5. tls /\ ~Secure(h, tls) => conf[h].secureCookie = FALSE
    BY <1>3 DEF Secure
<1>6. starts <= starts
    BY <1>2 DEF Started
<1> QED
    BY <1>1, <1>2, <1>3, <1>4, <1>5, <1>6 DEF CookieOK

-----------------------------------------------------------------------------
(* The inductive invariant                                                 *)

LEMMA InductiveInit == Init => IInv
<1> SUFFICES ASSUME Init PROVE IInv
    OBVIOUS
<1>1. ProcessInv
    BY BoundsAssumption DEF Init, ProcessInv
<1>2. RequestsInv
    BY DEF Init, RequestsInv, RequestOK, Ending, Ended, Idle
<1>3. CountersInv /\ LimitsHold
  <2>1. \A h \in Handlers, k \in Keys : LimitOf(h, k) \in Nat
    BY <1>1, LimitTypes
  <2>2. counts \in [Keys -> Nat] /\ verified \in [Verifiers -> [Keys -> Nat]]
    BY DEF Init, Nothing, NoneVerified, Verifiers
  <2>3. \A x \in Verifiers, k \in Keys : verified[x][k] = 0
    BY DEF Init, Nothing, NoneVerified, Verifiers
  <2> QED
    BY <2>1, <2>2, <2>3 DEF CountersInv, LimitsHold, Verifiers
<1>4. CookiesInv
    BY DEF Init, CookiesInv
<1> QED
    BY <1>1, <1>2, <1>3, <1>4 DEF IInv

LEMMA RestartKeeps == IInv /\ Restart => IInv'
<1> SUFFICES ASSUME IInv, Restart PROVE IInv'
    OBVIOUS
<1>1. starts \in Nat /\ starts + 1 \in Started
    BY BoundsAssumption DEF IInv, ProcessInv, Restart, Started
<1>2. ProcessInv'
    BY <1>1 DEF Restart, ProcessInv, Started
<1>3. CountersInv' /\ LimitsHold'
    BY <1>2, CountersReset DEF Restart
<1>4. RequestsInv'
    BY DEF Restart, RequestsInv, RequestOK, Ending, Ended, Idle
<1>5. CookiesInv'
    BY <1>1 DEF IInv, CookiesInv, CookieOK, Restart, Started
<1> QED
    BY <1>2, <1>3, <1>4, <1>5 DEF IInv

LEMMA ClockKeeps == IInv /\ Clock => IInv'
<1> SUFFICES ASSUME IInv, Clock PROVE IInv'
    OBVIOUS
<1>1. ProcessInv' /\ CountersInv' /\ LimitsHold'
    BY CountersSame DEF Clock
<1>2. RequestsInv'
    BY DEF IInv, RequestsInv, RequestOK, Arrivals, Clock, process
<1>3. CookiesInv'
    BY BoundsAssumption DEF IInv, CookiesInv, CookieOK, Clock, process
<1> QED
    BY <1>1, <1>2, <1>3 DEF IInv

LEMMA NextIntervalKeeps == IInv /\ NextInterval => IInv'
<1> SUFFICES ASSUME IInv, NextInterval PROVE IInv'
    OBVIOUS
<1>1. ProcessInv'
    BY DEF IInv, ProcessInv, NextInterval, process
<1>2. CountersInv' /\ LimitsHold'
    BY <1>1, CountersReset DEF NextInterval
<1>3. RequestsInv'
    BY DEF IInv, RequestsInv, RequestOK, Arrivals, NextInterval, process
<1>4. CookiesInv'
    BY DEF IInv, CookiesInv, CookieOK, NextInterval, process
<1> QED
    BY <1>1, <1>2, <1>3, <1>4 DEF IInv

LEMMA ArriveKeeps ==
    ASSUME IInv, NEW r \in Requests, NEW h \in Handlers, NEW tls \in BOOLEAN,
           NEW visible \in BOOLEAN, NEW cookies \in SUBSET Sendable(tls),
           Arrive(r, h, tls, cookies, visible)
    PROVE  IInv'
<1> DEFINE seen == Readable(cookies, visible)
           q == [phase |-> "arrived", handler |-> h, tls |-> tls, cookies |-> seen]
<1>0. seen \in SUBSET Sendable(tls)
    BY DEF Readable
<1> HIDE DEF seen
<1>1. q \in Arrivals' /\ q.phase = "arrived" /\ \A c \in q.cookies : c.secure => q.tls
    BY <1>0 DEF Arrivals, Sendable, Arrive
<1>2. RequestOK(q)'
    BY <1>1 DEF RequestOK
<1> QED
    BY <1>2, QuietStep DEF Arrive, seen

(* A request that has arrived, or whose body is read.                      *)
LEMMA ArrivedFacts ==
    ASSUME IInv, NEW r \in Requests, requests[r].phase = "arrived"
    PROVE  /\ requests[r].handler \in Handlers /\ requests[r].tls \in BOOLEAN
           /\ requests[r].cookies \in SUBSET jar
           /\ \A c \in requests[r].cookies : c.secure => requests[r].tls
    BY DEF IInv, RequestsInv, RequestOK, Ending, Ended, InSession, Arrivals, Readings

LEMMA ReadingFacts ==
    ASSUME IInv, NEW r \in Requests, Reading(r)
    PROVE  /\ requests[r] \in Readings
           /\ requests[r].handler \in Handlers /\ requests[r].tls \in BOOLEAN
           /\ requests[r].length \in Nat /\ requests[r].length < MaxBody + MaxChunk
           /\ conf[requests[r].handler].mode = "page"
    BY DEF IInv, RequestsInv, RequestOK, Ending, Ended, InSession, Arrivals, Readings, Reading

(* An attempt to log in is counted, and verified if no limit forbids it.   *)
LEMMA AttemptKeeps ==
    ASSUME IInv, NEW h \in Handlers, NEW user \in Users, NEW ip \in Ips,
           Observe(h, user, ip), UNCHANGED process,
           IF IsRateLimited(h, user, ip) THEN UNCHANGED verified
           ELSE Verify(h, user, ip)
    PROVE  ProcessInv' /\ CountersInv' /\ LimitsHold'
    BY AttemptLimited, AttemptVerified

LEMMA BasicLoginKeeps ==
    ASSUME IInv, NEW r \in Requests, NEW user \in Users, NEW ip \in Ips,
           NEW right \in BOOLEAN, BasicLogin(r, user, ip, right)
    PROVE  IInv'
<1> DEFINE h == requests[r].handler
<1>1. h \in Handlers
    BY ArrivedFacts DEF BasicLogin, Arrived
<1>2. ProcessInv' /\ CountersInv' /\ LimitsHold'
    BY <1>1, AttemptKeeps DEF BasicLogin
<1>3. PICK phase \in Ended : End(r, phase)
    BY DEF BasicLogin, Ended
<1>4. RequestsInv'
    BY <1>3, EndOK, SetKeeps DEF End, IInv, BasicLogin, process
<1>5. CookiesInv'
    BY DEF IInv, CookiesInv, CookieOK, BasicLogin, process
<1> QED
    BY <1>2, <1>4, <1>5 DEF IInv

LEMMA PageLoginKeeps ==
    ASSUME IInv, NEW r \in Requests, NEW user \in Users, NEW ip \in Ips,
           NEW right \in BOOLEAN, NEW json \in BOOLEAN,
           PageLogin(r, user, ip, right, json)
    PROVE  IInv'
<1> DEFINE h == requests[r].handler
           new == Cookie(h, user, requests[r].tls)
<1>1. h \in Handlers /\ requests[r].tls \in BOOLEAN /\ conf[h].mode = "page"
    BY ReadingFacts DEF PageLogin
<1>2. ProcessInv' /\ CountersInv' /\ LimitsHold'
    BY <1>1, AttemptKeeps DEF PageLogin
<1>3. jar' \in {jar, jar \union {new}}
    BY DEF PageLogin
<1>4. PICK phase \in Ended : End(r, phase)
    BY DEF PageLogin, LoginResponse, Ended
<1>5. RequestsInv'
    BY <1>3, <1>4, EndOK, SetKeeps DEF End, IInv, PageLogin, process
<1>6. CookiesInv'
  <2>1. \A c \in jar' : CookieOK(c)
    BY <1>1, <1>3, NewCookieOK DEF IInv, CookiesInv
  <2> QED
    BY <2>1 DEF IInv, CookiesInv, CookieOK, PageLogin, process
<1> QED
    BY <1>2, <1>5, <1>6 DEF IInv

LEMMA PagePostKeeps ==
    ASSUME IInv, NEW r \in Requests, PagePost(r)
    PROVE  IInv'
<1>1. PICK q : q = [phase |-> "reading", handler |-> requests[r].handler,
                    tls |-> requests[r].tls, length |-> 0]
    OBVIOUS
<1>2. /\ requests[r].handler \in Handlers /\ requests[r].tls \in BOOLEAN
      /\ conf'[requests[r].handler].mode = "page"
    BY ArrivedFacts DEF PagePost, Arrived, process
<1>3. q \in Readings /\ q.length < MaxBody + MaxChunk /\ conf'[q.handler].mode = "page"
    BY <1>1, <1>2, BoundsAssumption DEF Readings
<1>4. RequestOK(q)'
    BY <1>3 DEF RequestOK, Readings
<1>5. Set(r, q)
    BY <1>1 DEF PagePost
<1> QED
    BY <1>4, <1>5, QuietStep DEF PagePost

LEMMA ReadChunkKeeps ==
    ASSUME IInv, NEW r \in Requests, NEW n \in 1 .. MaxChunk, ReadChunk(r, n)
    PROVE  IInv'
<1>1. CASE requests[r].length >= MaxBody
    BY <1>1, QuietLoginResponse DEF ReadChunk
<1>2. CASE ~(requests[r].length >= MaxBody)
  <2>0. PICK q : q = [requests[r] EXCEPT !.length = @ + n]
    OBVIOUS
  <2>1. /\ requests[r] \in Readings /\ requests[r].length \in Nat
        /\ conf[requests[r].handler].mode = "page"
    BY ReadingFacts DEF ReadChunk
  <2>2. q \in Readings /\ q.handler = requests[r].handler /\ q.length = requests[r].length + n
    BY <2>0, <2>1, BoundsAssumption DEF Readings
  <2>3. q.length < MaxBody + MaxChunk
    BY <1>2, <2>1, <2>2, BoundsAssumption
  <2>4. conf' = conf
    BY DEF ReadChunk, process
  <2>5. RequestOK(q)'
    BY <2>1, <2>2, <2>3, <2>4 DEF RequestOK, Readings
  <2>6. Set(r, q)
    BY <1>2, <2>0 DEF ReadChunk
  <2> QED
    BY <2>5, <2>6, QuietStep DEF ReadChunk
<1> QED
    BY <1>1, <1>2

LEMMA PageSessionKeeps ==
    ASSUME IInv, NEW r \in Requests, PageSession(r)
    PROVE  IInv'
<1>1. PICK c \in requests[r].cookies : Set(r, [phase |-> "session", user |-> c.user])
    BY DEF PageSession
<1>2. c.user \in Users
    BY ArrivedFacts DEF IInv, CookiesInv, CookieOK, PageSession, Arrived
<1>3. RequestOK([phase |-> "session", user |-> c.user])'
    BY <1>2 DEF RequestOK, InSession
<1> QED
    BY <1>1, <1>3, QuietStep DEF PageSession

LEMMA InductiveNext == IInv /\ [Next]_vars => IInv'
<1> SUFFICES ASSUME IInv, [Next]_vars PROVE IInv'
    OBVIOUS
<1>1. CASE Restart
    BY <1>1, RestartKeeps
<1>2. CASE Clock
    BY <1>2, ClockKeeps
<1>3. CASE NextInterval
    BY <1>3, NextIntervalKeeps
<1>4. ASSUME NEW r \in Requests, NEW h \in Handlers, NEW tls \in BOOLEAN,
             NEW visible \in BOOLEAN, NEW cookies \in SUBSET Sendable(tls),
             Arrive(r, h, tls, cookies, visible)
      PROVE  IInv'
    BY <1>4, ArriveKeeps
<1>5. ASSUME NEW r \in Requests, NoCredentials(r) \/ BasicUnusable(r) PROVE IInv'
    BY <1>5, QuietEnd DEF NoCredentials, BasicUnusable, Ended
<1>6. ASSUME NEW r \in Requests, PageNoLogin(r) \/ BadBody(r) PROVE IInv'
    BY <1>6, QuietLoginResponse DEF PageNoLogin, BadBody
<1>7. ASSUME NEW r \in Requests, PageSession(r) PROVE IInv'
    BY <1>7, PageSessionKeeps
<1>8. ASSUME NEW r \in Requests, PagePost(r) PROVE IInv'
    BY <1>8, PagePostKeeps
<1>9. ASSUME NEW r \in Requests, NEW n \in 1 .. MaxChunk, ReadChunk(r, n) PROVE IInv'
    BY <1>9, ReadChunkKeeps
<1>10. ASSUME NEW r \in Requests, NEW user \in Users, NEW ip \in Ips,
              NEW right \in BOOLEAN, BasicLogin(r, user, ip, right)
       PROVE  IInv'
    BY <1>10, BasicLoginKeeps
<1>11. ASSUME NEW r \in Requests, NEW user \in Users, NEW ip \in Ips,
              NEW right \in BOOLEAN, NEW json \in BOOLEAN,
              PageLogin(r, user, ip, right, json)
       PROVE  IInv'
    BY <1>11, PageLoginKeeps
<1>12. CASE UNCHANGED vars
  <2>1. ProcessInv' /\ CountersInv' /\ LimitsHold'
    BY <1>12, CountersSame DEF vars, process
  <2>2. RequestsInv' /\ CookiesInv'
    BY <1>12 DEF IInv, RequestsInv, RequestOK, Arrivals, CookiesInv, CookieOK,
                 vars, process
  <2> QED
    BY <2>1, <2>2 DEF IInv
<1> QED
    BY <1>1, <1>2, <1>3, <1>4, <1>5, <1>6, <1>7, <1>8, <1>9, <1>10, <1>11, <1>12
       DEF Next

(* The three invariants and the limits hold in every reachable state.      *)
THEOREM Invariance == Spec => []IInv
<1>1. Init => IInv
    BY InductiveInit
<1>2. IInv /\ [Next]_vars => IInv'
    BY InductiveNext
<1> QED
    BY <1>1, <1>2, PTL DEF Spec

-----------------------------------------------------------------------------
(* Types                                                                   *)

ClockInv == clock \in 0 .. MaxClock

LEMMA ClockNext == ClockInv /\ [Next]_vars => ClockInv'
<1> SUFFICES ASSUME ClockInv, [Next]_vars PROVE ClockInv'
    OBVIOUS
<1> USE DEF ClockInv
<1>1. CASE Restart
    BY <1>1 DEF Restart
<1>2. CASE Clock
    BY <1>2 DEF Clock
<1>3. CASE NextInterval
    BY <1>3 DEF NextInterval
<1>4. CASE UNCHANGED vars
    BY <1>4 DEF vars
<1>5. ASSUME NEW r \in Requests,
             \/ \E h \in Handlers, tls, visible \in BOOLEAN :
                    \E cookies \in SUBSET Sendable(tls) : Arrive(r, h, tls, cookies, visible)
             \/ NoCredentials(r) \/ BasicUnusable(r)
      PROVE  clock' = clock
    BY <1>5 DEF Arrive, NoCredentials, BasicUnusable
<1>6. ASSUME NEW r \in Requests, PageSession(r) \/ PageNoLogin(r) \/ PagePost(r)
      PROVE  clock' = clock
    BY <1>6 DEF PageSession, PageNoLogin, PagePost
<1>7. ASSUME NEW r \in Requests,
             BadBody(r) \/ \E n \in 1 .. MaxChunk : ReadChunk(r, n)
      PROVE  clock' = clock
    BY <1>7 DEF BadBody, ReadChunk
<1>8. ASSUME NEW r \in Requests, NEW user \in Users, NEW ip \in Ips, NEW right \in BOOLEAN,
             \/ BasicLogin(r, user, ip, right)
             \/ \E json \in BOOLEAN : PageLogin(r, user, ip, right, json)
      PROVE  clock' = clock
    BY <1>8 DEF BasicLogin, PageLogin
<1> QED
    BY <1>1, <1>2, <1>3, <1>4, <1>5, <1>6, <1>7, <1>8 DEF Next

(* A handler in page mode has a secret: configured, or drawn at the start. *)
LEMMA SecretKnown ==
    ASSUME ProcessInv, NEW h \in Handlers, conf[h].mode = "page"
    PROVE  secret[h] # None
BY SecretsAssumption DEF ProcessInv, TokenSecret

LEMMA TypesFromInv == IInv /\ ClockInv => TypeOK
<1> SUFFICES ASSUME IInv, ClockInv PROVE TypeOK
    OBVIOUS
<1>1. conf \in Configurations /\ DOMAIN secret = Handlers /\ starts \in 1 .. MaxStarts
    BY DEF IInv, ProcessInv
<1>2. \A h \in Handlers : conf[h].mode = "page" => secret[h] # None
    BY SecretKnown DEF IInv
<1>3. /\ counts \in [Keys -> Nat]
      /\ verified \in [Handlers \union {Server} -> [Keys -> Nat]]
    BY DEF IInv, CountersInv, Verifiers
<1>4. ASSUME NEW r \in Requests
      PROVE  requests[r].phase \in
                 {"idle", "arrived", "reading", "passed", "session", "page",
                  "login", "limited", "logged_in"}
    BY DEF IInv, RequestsInv, RequestOK, Ending, Ended, InSession, Arrivals, Readings
<1>5. \A r \in Requests :
        /\ requests[r].phase = "arrived" =>
               requests[r].handler \in Handlers /\ requests[r].cookies \subseteq jar
        /\ Reading(r) => requests[r].handler \in Handlers
    BY ArrivedFacts, ReadingFacts
<1> QED
    BY <1>1, <1>2, <1>3, <1>4, <1>5 DEF TypeOK, ClockInv

(* The server's state has its types in every reachable state: a page       *)
(* handler always has a secret, and the cookies a request brought are ones *)
(* that were issued.                                                       *)
THEOREM TypeCorrect == Spec => []TypeOK
<1>1. Init => ClockInv
    BY BoundsAssumption DEF Init, ClockInv
<1>2. ClockInv /\ [Next]_vars => ClockInv'
    BY ClockNext
<1>3. IInv /\ ClockInv => TypeOK
    BY TypesFromInv
<1> QED
    BY <1>1, <1>2, <1>3, Invariance, PTL DEF Spec

-----------------------------------------------------------------------------
(* Limits and bounds                                                       *)

(* The limits of the login rate limiter hold for any configuration and any *)
(* number of handlers, requests, users and addresses (is_rate_limited).    *)
THEOREM LimitsAlwaysHold == Spec => []LimitsHold
<1>1. IInv => LimitsHold
    BY DEF IInv
<1> QED
    BY <1>1, Invariance, PTL

(* The part of a request body that page_auth keeps is bounded.             *)
THEOREM BodyAlwaysBounded == Spec => []BodyBounded
<1>1. IInv => BodyBounded
    BY ReadingFacts DEF BodyBounded
<1> QED
    BY <1>1, Invariance, PTL

(* The cookie of a login over HTTPS is not sent over another connection    *)
(* unless it was configured so (login_response).                           *)
THEOREM SecureAlwaysKept == Spec => []SecureKept
<1>1. IInv => SecureKept
  <2> SUFFICES ASSUME IInv, NEW r \in Requests, requests[r].phase = "arrived",
                      ~requests[r].tls, NEW c \in requests[r].cookies, c.tls
               PROVE  c.explicit = FALSE
    BY DEF SecureKept
  <2>1. c \in jar /\ ~c.secure
    BY ArrivedFacts
  <2> QED
    BY <2>1 DEF IInv, CookiesInv, CookieOK
<1> QED
    BY <1>1, Invariance, PTL

-----------------------------------------------------------------------------
(* Sessions                                                                *)

(* What can happen to a request that has arrived.                          *)
LEMMA ArrivedSteps ==
    ASSUME IInv, [Next]_vars, NEW r \in Requests, requests[r].phase = "arrived"
    PROVE  \/ requests'[r].phase \in {"arrived", "idle"}
           \/ NoCredentials(r) \/ BasicUnusable(r)
           \/ \E user \in Users, ip \in Ips, right \in BOOLEAN :
                  BasicLogin(r, user, ip, right)
           \/ PageSession(r) \/ PageNoLogin(r) \/ PagePost(r)
<1> DEFINE Goal == requests'[r].phase \in {"arrived", "idle"}
<1> USE DEF IInv, RequestsInv, Set, End, LoginResponse, Reading
<1>1. CASE Restart
    BY <1>1 DEF Restart, Idle
<1>2. CASE Clock \/ NextInterval \/ UNCHANGED vars
    BY <1>2 DEF Clock, NextInterval, vars
<1>3. ASSUME NEW p \in Requests, NEW h \in Handlers, NEW tls \in BOOLEAN,
             NEW visible \in BOOLEAN, NEW cookies \in SUBSET Sendable(tls),
             Arrive(p, h, tls, cookies, visible)
      PROVE  Goal
    BY <1>3 DEF Arrive
<1>4. ASSUME NEW p \in Requests, p # r,
             \/ NoCredentials(p) \/ BasicUnusable(p) \/ PageSession(p)
             \/ PageNoLogin(p) \/ PagePost(p)
      PROVE  Goal
    BY <1>4 DEF NoCredentials, BasicUnusable, PageSession, PageNoLogin, PagePost
<1>5. ASSUME NEW p \in Requests, BadBody(p) PROVE Goal
    BY <1>5 DEF BadBody
<1>6. ASSUME NEW p \in Requests, NEW n \in 1 .. MaxChunk, ReadChunk(p, n) PROVE Goal
    BY <1>6 DEF ReadChunk
<1>7. ASSUME NEW p \in Requests, p # r, NEW user \in Users, NEW ip \in Ips,
             NEW right \in BOOLEAN, BasicLogin(p, user, ip, right)
      PROVE  Goal
    BY <1>7 DEF BasicLogin
<1>8. ASSUME NEW p \in Requests, NEW user \in Users, NEW ip \in Ips,
             NEW right \in BOOLEAN, NEW json \in BOOLEAN,
             PageLogin(p, user, ip, right, json)
      PROVE  Goal
    BY <1>8 DEF PageLogin
<1> QED
    BY <1>1, <1>2, <1>3, <1>4, <1>5, <1>6, <1>7, <1>8 DEF Next

(* What a token says of the time of a login is at most half a second off.  *)
LEMMA FullSeconds ==
    ASSUME NEW time \in Nat, NEW s \in Nat
    PROVE  /\ FromUnixTimestamp(time \div 2) <= time
           /\ time - 1 <= FromUnixTimestamp(time \div 2)
           /\ FromUnixTimestamp(time \div 2 + s)
                = FromUnixTimestamp(time \div 2) + 2 * s
    BY DEF FromUnixTimestamp

(* A handler in page mode trusts exactly the cookies with its secret.      *)
LEMMA TrustBySecret ==
    ASSUME IInv, NEW h \in Handlers, conf[h].mode = "page", NEW c \in jar
    PROVE  Trusts(h, c) <=> c.key = secret[h]
<1>1. conf \in Configurations /\ starts \in Started /\ CookieOK(c)
    BY DEF IInv, ProcessInv, CookiesInv, Started
<1>2. secret[h] = IF conf[h].secret = None THEN <<"random", h, starts>> ELSE conf[h].secret
    BY DEF IInv, ProcessInv, TokenSecret
<1>3. \A g \in Handlers, n \in Started :
        /\ <<"random", g, n>> # None
        /\ \A s \in Secrets : s # <<"random", g, n>>
    BY SecretsAssumption DEF Secrets, Started
<1>4. conf[h].secret \in Secrets
    BY <1>1, ConfTypes
<1>5. /\ c.by \in Handlers /\ c.start \in Started /\ c.configured \in Secrets
      /\ c.key = IF c.configured = None THEN <<"random", c.by, c.start>> ELSE c.configured
    BY <1>1 DEF CookieOK
<1>6. CASE conf[h].secret = None
  <2>1. secret[h] = <<"random", h, starts>> /\ secret[h] # None
        /\ \A s \in Secrets : s # secret[h]
    BY <1>1, <1>2, <1>3, <1>6
  <2>2. CASE c.configured = None
    <3>1. c.key = <<"random", c.by, c.start>>
        BY <2>2, <1>5
    <3>2. c.key = secret[h] <=> c.by = h /\ c.start = starts
        BY <2>1, <3>1
    <3> QED
        BY <3>2, <2>2, <1>6 DEF Trusts
  <2>3. CASE c.configured # None
    BY <2>1, <2>3, <1>5, <1>6 DEF Trusts
  <2> QED
    BY <2>2, <2>3
<1>7. CASE conf[h].secret # None
  <2>1. secret[h] = conf[h].secret
    BY <1>2, <1>7
  <2>2. c.configured = None => c.key # secret[h]
    BY <1>3, <1>4, <1>5, <2>1
  <2> QED
    BY <2>1, <2>2, <1>5, <1>7 DEF Trusts
<1> QED
    BY <1>6, <1>7

LEMMA SecondsType ==
    ASSUME IInv, NEW h \in Handlers
    PROVE  Seconds(conf[h].expiration) \in Nat
<1>1. conf[h].expiration.number \in Nat
    BY ConfTypes DEF IInv, ProcessInv
<1> QED
    BY <1>1, BoundsAssumption DEF Seconds

(* The time of a cookie in a valid session, and that of one in none.       *)
LEMMA SessionTimes ==
    ASSUME IInv, NEW h \in Handlers, NEW c \in jar, c.name = conf[h].cookieName,
           c.key = secret[h]
    PROVE  /\ ValidSession(h, c) => c.at - 1 <= clock /\ clock < c.at + Session(h)
           /\ ~ValidSession(h, c) => clock < c.at \/ clock >= c.at - 1 + Session(h)
<1>1. c.at \in Nat /\ c.iat = c.at \div 2 /\ clock \in Nat
    BY DEF IInv, CookiesInv, CookieOK
<1> DEFINE S == Seconds(conf[h].expiration)
           since == FromUnixTimestamp(c.iat)
<1>2. S \in Nat /\ Session(h) = 2 * S
    BY SecondsType DEF Session
<1>3. since <= c.at /\ c.at - 1 <= since /\ FromUnixTimestamp(c.iat + S) = since + 2 * S
    BY <1>1, <1>2, FullSeconds
<1>4. since \in Int
    BY <1>1 DEF FromUnixTimestamp
<1>5. ValidSession(h, c) <=> clock >= since /\ clock < since + 2 * S
    BY <1>3 DEF ValidSession
<1> HIDE DEF S, since
<1> QED
    BY <1>1, <1>2, <1>3, <1>4, <1>5

(* A session comes from a login that the handler trusts and that is not    *)
(* longer ago than a session lasts, whatever the clock and the             *)
(* configurations have been in between (page_auth).                        *)
THEOREM SessionsAlwaysFromLogin == Spec => SessionsFromLogin
<1> DEFINE Proved(r) ==
        requests[r].phase = "arrived" /\ requests'[r].phase = "session" =>
            \E c \in requests[r].cookies :
                /\ c.user = requests'[r].user
                /\ Trusts(requests[r].handler, c)
                /\ c.at - 1 <= clock /\ clock < c.at + Session(requests[r].handler)
<1>1. IInv /\ [Next]_vars => \A r \in Requests : Proved(r)
  <2> SUFFICES ASSUME IInv, [Next]_vars, NEW r \in Requests,
                      requests[r].phase = "arrived", requests'[r].phase = "session"
               PROVE  Proved(r)
    OBVIOUS
  <2>1. PageSession(r)
    BY ArrivedSteps DEF NoCredentials, BasicUnusable, BasicLogin, PageNoLogin, PagePost,
        LoginResponse, End, Set, IInv, RequestsInv
  <2> DEFINE h == requests[r].handler
  <2>2. PICK c \in requests[r].cookies :
            /\ ValidSession(h, c)
            /\ Set(r, [phase |-> "session", user |-> c.user])
    BY <2>1 DEF PageSession
  <2>3. requests'[r].user = c.user
    BY <2>2 DEF Set, IInv, RequestsInv
  <2>4. h \in Handlers /\ conf[h].mode = "page" /\ c \in jar
    BY <2>1, ArrivedFacts DEF PageSession, Arrived
  <2>5. c.name = conf[h].cookieName /\ c.key = secret[h]
    BY <2>2 DEF ValidSession
  <2>6. Trusts(h, c)
    BY <2>4, <2>5, TrustBySecret
  <2>7. c.at - 1 <= clock /\ clock < c.at + Session(h)
    BY <2>2, <2>4, <2>5, SessionTimes
  <2> QED
    BY <2>3, <2>6, <2>7
<1> QED
    BY <1>1, Invariance, PTL DEF Spec, SessionsFromLogin

(* A client that has logged in is not asked to do so again as long as its  *)
(* session lasts and its cookie arrives in a header that is visible ASCII  *)
(* throughout (page_auth).                                                 *)
THEOREM LoginAlwaysSticks == Spec => LoginSticks
<1> DEFINE Kept(r) ==
        /\ Arrived(r, "page")
        /\ requests'[r].phase \in {"page", "login", "reading"}
        => LET h == requests[r].handler
           IN  \A c \in requests[r].cookies :
                   c.name = conf[h].cookieName /\ Trusts(h, c) =>
                       clock < c.at \/ clock >= c.at - 1 + Session(h)
<1>1. IInv /\ [Next]_vars => \A r \in Requests : Kept(r)
  <2> SUFFICES ASSUME IInv, [Next]_vars, NEW r \in Requests, Arrived(r, "page"),
                      requests'[r].phase \in {"page", "login", "reading"}
               PROVE  Kept(r)
    OBVIOUS
  <2>1. requests[r].phase = "arrived"
    BY DEF Arrived
  <2>2. NoSession(r)
    BY <2>1, ArrivedSteps DEF NoCredentials, BasicUnusable, BasicLogin, PageSession,
        PageNoLogin, PagePost, Arrived, Set, IInv, RequestsInv
  <2> DEFINE h == requests[r].handler
  <2>3. h \in Handlers /\ conf[h].mode = "page" /\ requests[r].cookies \subseteq jar
    BY <2>1, ArrivedFacts DEF Arrived
  <2>4. ASSUME NEW c \in requests[r].cookies, c.name = conf[h].cookieName, Trusts(h, c)
        PROVE  clock < c.at \/ clock >= c.at - 1 + Session(h)
    <3>1. c \in jar /\ ~ValidSession(h, c)
        BY <2>2, <2>3 DEF NoSession
    <3>2. c.key = secret[h]
        BY <2>3, <2>4, <3>1, TrustBySecret
    <3> QED
        BY <2>3, <2>4, <3>1, <3>2, SessionTimes
  <2> QED
    BY <2>4
<1> QED
    BY <1>1, Invariance, PTL DEF Spec, LoginSticks
=============================================================================
