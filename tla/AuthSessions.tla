----------------------------- MODULE AuthSessions -----------------------------
(***************************************************************************)
(* Logins: the auth module in its modes "http" and "page", for several     *)
(* handlers of one server process that share the login rate limiter, and   *)
(* for clients that keep the session cookies they were given.  A request   *)
(* in page mode has a point where others run: while its body is read.  The *)
(* wall clock may be set, and the server may be restarted with another     *)
(* configuration; cookies outlive both.                                    *)
(*                                                                         *)
(* Time is counted in half seconds, what a token says in full seconds.     *)
(***************************************************************************)
EXTENDS Integers, FiniteSets

CONSTANTS
    Handlers,        \* the AuthHandler instances of the process
    Users,           \* user names of login attempts
    Ips,             \* what Session::client_addr() says
    Requests,        \* requests that are being handled at the same time
    Configurations,  \* functions from handlers to their AuthConf
    Server,          \* stands for all handlers together
    Total,           \* the key () of the rate limiter
    None,
    SecondsPerHour, SecondsPerDay,   \* compressed
    MaxBody,         \* MAX_BODY_SIZE, in units of what a body is read in
    MaxChunk,        \* the most read_request_body() returns at once
    MaxClock, MaxStarts, MaxCookies, MaxAttempts   \* bounds for TLC

Keys == {Total} \union Users \union Ips

ASSUME KeysAssumption == Total \notin Users \union Ips /\ Users \cap Ips = {}
ASSUME ServerAssumption == Server \notin Handlers
ASSUME ConfigurationsAssumption ==
    \A c \in Configurations : \A h \in Handlers :
        /\ c[h].total \in Nat /\ c[h].perUser \in Nat /\ c[h].perIp \in Nat
        /\ c[h].users \subseteq Users
        /\ c[h].mode \in {"http", "page"}
        /\ c[h].secureCookie \in BOOLEAN \union {None}
        /\ c[h].expiration.number \in Nat
(* Nobody configures the secret that a process has drawn at random.        *)
ASSUME SecretsAssumption ==
    \A g \in Handlers, n \in 1 .. MaxStarts :
        /\ <<"random", g, n>> # None
        /\ \A c \in Configurations, h \in Handlers : c[h].secret # <<"random", g, n>>
ASSUME BoundsAssumption ==
    /\ SecondsPerHour \in Nat /\ SecondsPerDay \in Nat
    /\ MaxBody \in Nat /\ MaxChunk \in Nat \ {0}
    /\ MaxClock \in Nat /\ MaxStarts \in Nat \ {0}

VARIABLES
    conf,      \* configuration of the running process
    secret,    \* auth_page_session.token_secret of each handler
    starts,    \* how often the server was started
    clock,     \* the wall clock
    counts,    \* RATE_LIMITER: what was observed in this interval, by key
    verified,  \* auxiliary: how many of these attempts were verified, by
               \* handler and over all
    requests,  \* what is known of each request
    jar        \* cookies of all clients

vars == <<conf, secret, starts, clock, counts, verified, requests, jar>>
process == <<conf, secret, starts>>

-----------------------------------------------------------------------------
(* Configuration and start                                                 *)

(* Mutant: every handler of every process gets the same secret.            *)
FixedSecret(h, c, n) ==
    IF c.mode = "page" /\ c.secret = None THEN <<"random">> ELSE c.secret

(* Mutant: there is a secret only if one is configured.                    *)
ConfiguredOnly(h, c, n) == c.secret

(* AuthHandler::try_from: a random secret unless there is one configured.  *)
TokenSecret(h, c, n) ==
    IF c.mode = "page" /\ c.secret = None THEN <<"random", h, n>> ELSE c.secret

(* deserialize_interval                                                    *)
Seconds(interval) ==
    interval.number * (IF interval.unit = "h" THEN SecondsPerHour ELSE SecondsPerDay)

Nothing == [k \in Keys |-> 0]
NoneVerified == [x \in Handlers \union {Server} |-> Nothing]
Idle == [phase |-> "idle"]

Init ==
    /\ conf \in Configurations
    /\ secret = [h \in Handlers |-> TokenSecret(h, conf[h], 1)]
    /\ starts = 1 /\ clock = 0
    /\ counts = Nothing /\ verified = NoneVerified
    /\ requests = [r \in Requests |-> Idle]
    /\ jar = {}

(* The requests being handled and the rate limiter end with the process.   *)
Restart ==
    /\ starts < MaxStarts
    /\ conf' \in Configurations
    /\ starts' = starts + 1
    /\ secret' = [h \in Handlers |-> TokenSecret(h, conf'[h], starts')]
    /\ counts' = Nothing /\ verified' = NoneVerified
    /\ requests' = [r \in Requests |-> Idle]
    /\ UNCHANGED <<clock, jar>>

(* Time passes, or somebody sets the clock.                                *)
Clock ==
    /\ clock' \in 0 .. MaxClock
    /\ UNCHANGED <<process, counts, verified, requests, jar>>

(* pingora_limits::Rate forgets what was observed after its interval.      *)
NextInterval ==
    /\ counts # Nothing
    /\ counts' = Nothing /\ verified' = NoneVerified
    /\ UNCHANGED <<process, clock, requests, jar>>

-----------------------------------------------------------------------------
(* is_rate_limited and validate_login                                      *)

LimitOf(h, k) ==
    IF k = Total THEN conf[h].total
    ELSE IF k \in Users THEN conf[h].perUser ELSE conf[h].perIp

(* A limit of zero is none; what is not limited is not observed.           *)
Observed(h, user, ip) == {k \in {Total, user, ip} : LimitOf(h, k) > 0}

(* Mutant: the attempt that exceeds the limit gets through.                *)
LimitedLate(h, user, ip) ==
    \E k \in Observed(h, user, ip) : counts[k] > LimitOf(h, k)

(* Observing a key counts it and returns the new value.                    *)
IsRateLimited(h, user, ip) ==
    \E k \in Observed(h, user, ip) : counts[k] + 1 > LimitOf(h, k)

Plus(f, keys) == [k \in Keys |-> IF k \in keys THEN f[k] + 1 ELSE f[k]]

(* Every limit observes the attempt, even if another one has rejected it.  *)
Observe(h, user, ip) == counts' = Plus(counts, Observed(h, user, ip))

(* The slow part, run for unknown users as well.                           *)
Verify(h, user, ip) ==
    verified' = [x \in Handlers \union {Server} |->
        IF x \in {h, Server} THEN Plus(verified[x], Observed(h, user, ip))
                             ELSE verified[x]]

ValidLogin(h, user, right) == user \in conf[h].users /\ right

Set(r, record) == requests' = [requests EXCEPT ![r] = record]

(* Bounds the counters for TLC.                                            *)
Attempts == \A k \in Keys : counts[k] < MaxAttempts

-----------------------------------------------------------------------------
(* A request arrives at a handler, over a secure connection or not, with   *)
(* some of the cookies that the client may send there.                     *)
Sendable(tls) == {c \in jar : c.secure => tls}

(* What page_auth sees of them: to_str() makes nothing at all of a Cookie  *)
(* header with anything but visible ASCII in it, as cookies that others    *)
(* have set may have it.                                                   *)
Readable(cookies, visible) == IF visible THEN cookies ELSE {}

Arrive(r, h, tls, cookies, visible) ==
    /\ requests[r].phase \notin {"arrived", "reading"}
    /\ Set(r, [phase |-> "arrived", handler |-> h, tls |-> tls,
               cookies |-> Readable(cookies, visible)])
    /\ UNCHANGED <<process, clock, counts, verified, jar>>

Arrived(r, mode) ==
    /\ requests[r].phase = "arrived"
    /\ conf[requests[r].handler].users # {}
    /\ conf[requests[r].handler].mode = mode

End(r, phase) == Set(r, [phase |-> phase])

(* A handler without credentials does not ask for any.                     *)
NoCredentials(r) ==
    /\ requests[r].phase = "arrived" /\ conf[requests[r].handler].users = {}
    /\ End(r, "passed")
    /\ UNCHANGED <<process, clock, counts, verified, jar>>

(* basic_auth: no usable Authorization header, the answer asks for a login *)
(* (unauthorized_response).                                                *)
BasicUnusable(r) ==
    /\ Arrived(r, "http")
    /\ End(r, "login")
    /\ UNCHANGED <<process, clock, counts, verified, jar>>

BasicLogin(r, user, ip, right) ==
    LET h == requests[r].handler
    IN  /\ Arrived(r, "http") /\ Attempts
        /\ Observe(h, user, ip)
        /\ IF IsRateLimited(h, user, ip)
           THEN End(r, "limited") /\ UNCHANGED verified
           ELSE /\ Verify(h, user, ip)
                /\ End(r, IF ValidLogin(h, user, right) THEN "passed" ELSE "login")
        /\ UNCHANGED <<process, clock, jar>>

-----------------------------------------------------------------------------
(* page_auth: cookies                                                      *)

(* to_unix_timestamp and back; the clock is never set before 1970.         *)
ToUnixTimestamp(time) == time \div 2
FromUnixTimestamp(timestamp) == timestamp * 2

ValidSession(h, c) ==
    /\ c.name = conf[h].cookieName
    /\ c.key = secret[h]
    /\ clock >= FromUnixTimestamp(c.iat)
    /\ clock < FromUnixTimestamp(c.iat + Seconds(conf[h].expiration))

(* The first valid session in the order of the cookies, which is up to the *)
(* client.                                                                 *)
PageSession(r) ==
    /\ Arrived(r, "page")
    /\ \E c \in requests[r].cookies :
        /\ ValidSession(requests[r].handler, c)
        /\ Set(r, [phase |-> "session", user |-> c.user])
    /\ UNCHANGED <<process, clock, counts, verified, jar>>

(* Mutant: gives up at the first cookie that is not valid.                 *)
FirstInvalid(r) ==
    \/ requests[r].cookies = {}
    \/ \E c \in requests[r].cookies : ~ValidSession(requests[r].handler, c)

NoSession(r) == \A c \in requests[r].cookies : ~ValidSession(requests[r].handler, c)

(* login_response: the configured page is left to the modules that follow, *)
(* which find a GET or HEAD request for it; otherwise a page is sent.      *)
LoginResponse(r) ==
    End(r, IF conf[requests[r].handler].loginPage THEN "page" ELSE "login")

(* Not a POST request, or not one with a form.                             *)
PageNoLogin(r) ==
    /\ Arrived(r, "page") /\ NoSession(r)
    /\ LoginResponse(r)
    /\ UNCHANGED <<process, clock, counts, verified, jar>>

PagePost(r) ==
    /\ Arrived(r, "page") /\ NoSession(r)
    /\ Set(r, [phase |-> "reading", handler |-> requests[r].handler,
               tls |-> requests[r].tls, length |-> 0])
    /\ UNCHANGED <<process, clock, counts, verified, jar>>

-----------------------------------------------------------------------------
(* page_auth: the request body                                             *)

Reading(r) == requests[r].phase = "reading"

(* Mutant: the last chunk may exceed the limit, and so may another one.    *)
UncheckedChunk(r, n) ==
    /\ Reading(r)
    /\ IF requests[r].length > MaxBody THEN LoginResponse(r)
       ELSE Set(r, [requests[r] EXCEPT !.length = @ + n])
    /\ UNCHANGED <<process, clock, counts, verified, jar>>

(* The length is checked before a chunk is added to it.                    *)
ReadChunk(r, n) ==
    /\ Reading(r)
    /\ IF requests[r].length >= MaxBody THEN LoginResponse(r)
       ELSE Set(r, [requests[r] EXCEPT !.length = @ + n])
    /\ UNCHANGED <<process, clock, counts, verified, jar>>

(* Reading fails, or what was read is no login form.                       *)
BadBody(r) ==
    /\ Reading(r)
    /\ LoginResponse(r)
    /\ UNCHANGED <<process, clock, counts, verified, jar>>

(* Mutant: the connection is not asked.                                    *)
SecureIfTold(h, tls) ==
    IF conf[h].secureCookie = None THEN FALSE ELSE conf[h].secureCookie
Secure(h, tls) == IF conf[h].secureCookie = None THEN tls ELSE conf[h].secureCookie

(* The cookie with the token; how it came about is auxiliary.              *)
Cookie(h, user, tls) ==
    [name |-> conf[h].cookieName, user |-> user, key |-> secret[h],
     iat |-> ToUnixTimestamp(clock), secure |-> Secure(h, tls),
     by |-> h, start |-> starts, at |-> clock, tls |-> tls,
     configured |-> conf[h].secret, explicit |-> conf[h].secureCookie]

(* The form has arrived: limits, password and, if it is right, the cookie, *)
(* on a redirect to the original URI or in a JSON answer, which the client *)
(* may be gone for.  Failures of a JSON request are always answered here.  *)
PageLogin(r, user, ip, right, json) ==
    LET q == requests[r]
    IN  /\ Reading(r) /\ q.length > 0 /\ Attempts
        /\ Observe(q.handler, user, ip)
        /\ IF IsRateLimited(q.handler, user, ip)
           THEN End(r, "limited") /\ UNCHANGED <<verified, jar>>
           ELSE /\ Verify(q.handler, user, ip)
                /\ IF ValidLogin(q.handler, user, right)
                   THEN /\ Cardinality(jar) < MaxCookies
                        /\ jar' \in {jar, jar \union {Cookie(q.handler, user, q.tls)}}
                        /\ End(r, "logged_in")
                   ELSE /\ IF json THEN End(r, "login") ELSE LoginResponse(r)
                        /\ UNCHANGED jar
        /\ UNCHANGED <<process, clock>>

Next ==
    \/ Restart \/ Clock \/ NextInterval
    \/ \E r \in Requests :
        \/ \E h \in Handlers, tls, visible \in BOOLEAN :
               \E cookies \in SUBSET Sendable(tls) : Arrive(r, h, tls, cookies, visible)
        \/ NoCredentials(r) \/ BasicUnusable(r)
        \/ PageSession(r) \/ PageNoLogin(r) \/ PagePost(r)
        \/ BadBody(r) \/ \E n \in 1 .. MaxChunk : ReadChunk(r, n)
        \/ \E user \in Users, ip \in Ips, right \in BOOLEAN :
            \/ BasicLogin(r, user, ip, right)
            \/ \E json \in BOOLEAN : PageLogin(r, user, ip, right, json)

Spec == Init /\ [][Next]_vars

-----------------------------------------------------------------------------
(* Properties                                                              *)

TypeOK ==
    /\ conf \in Configurations /\ DOMAIN secret = Handlers
    /\ \A h \in Handlers : conf[h].mode = "page" => secret[h] # None
    /\ starts \in 1 .. MaxStarts /\ clock \in 0 .. MaxClock
    /\ counts \in [Keys -> Nat]
    /\ verified \in [Handlers \union {Server} -> [Keys -> Nat]]
    /\ \A r \in Requests :
        /\ requests[r].phase \in
               {"idle", "arrived", "reading", "passed", "session", "page",
                "login", "limited", "logged_in"}
        /\ requests[r].phase = "arrived" =>
               requests[r].handler \in Handlers /\ requests[r].cookies \subseteq jar
        /\ Reading(r) => requests[r].handler \in Handlers

(* In one interval of the rate limiter, passwords are verified at most as  *)
(* often as a limit says: by a handler, and by all handlers together as    *)
(* the most generous of them says (is_rate_limited, docs/auth-module.md    *)
(* "Login rate limits"), whatever requests, users and addresses interleave.*)
LimitsHold ==
    \A k \in Keys :
        /\ \A h \in Handlers :
               LimitOf(h, k) > 0 => verified[h][k] <= LimitOf(h, k)
        /\ verified[Server][k] > 0 =>
               \E h \in Handlers : verified[Server][k] <= LimitOf(h, k)

(* Whose login a cookie proves at handler h: one of the same process and   *)
(* handler, or one under the secret that is configured for it now.         *)
Trusts(h, c) ==
    IF conf[h].secret = None THEN c.by = h /\ c.start = starts /\ c.configured = None
    ELSE c.configured = conf[h].secret

Session(h) == 2 * Seconds(conf[h].expiration)

(* A request that page_auth lets through brought a cookie that was issued  *)
(* to its user at a login, and not longer ago than the session lasts; the  *)
(* login was in this process unless a secret is configured.                *)
SessionsFromLogin ==
    [][\A r \in Requests :
        requests[r].phase = "arrived" /\ requests'[r].phase = "session" =>
            \E c \in requests[r].cookies :
                /\ c.user = requests'[r].user
                /\ Trusts(requests[r].handler, c)
                /\ c.at - 1 <= clock /\ clock < c.at + Session(requests[r].handler)]_vars

(* Who has logged in is not asked again before the session expires (up to  *)
(* the fraction of a second that the token does not say) when the cookie   *)
(* arrives readable, whatever other cookies are readable with it.  A byte  *)
(* that is not visible ASCII in any cookie of the header is enough to be   *)
(* asked again.                                                            *)
LoginSticks ==
    [][\A r \in Requests :
        /\ Arrived(r, "page")
        /\ requests'[r].phase \in {"page", "login", "reading"}
        => LET h == requests[r].handler
           IN  \A c \in requests[r].cookies :
                   c.name = conf[h].cookieName /\ Trusts(h, c) =>
                       clock < c.at \/ clock >= c.at - 1 + Session(h)]_vars

(* The session of a login over HTTPS is never sent over another connection *)
(* unless the configuration it was issued under says so (secure_cookie);   *)
(* any of the cookies that are sent may be among the readable ones.        *)
SecureKept ==
    \A r \in Requests : requests[r].phase = "arrived" /\ ~requests[r].tls =>
        \A c \in requests[r].cookies : c.tls => c.explicit = FALSE

(* What is kept of a request body is bounded by MAX_BODY_SIZE and what     *)
(* pingora returns at once, although the check precedes the extension.     *)
BodyBounded ==
    \A r \in Requests :
        Reading(r) => requests[r].length < MaxBody + MaxChunk
=============================================================================
