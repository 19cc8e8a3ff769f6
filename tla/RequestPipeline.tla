---------------------------- MODULE RequestPipeline ----------------------------
(***************************************************************************)
(* The way of one request through the server: the phases that pingora      *)
(* drives (early_request_filter, request_filter, upstream_peer, logging),  *)
(* the chain of module handlers that #[derive(RequestFilter)] generates    *)
(* for the struct Handler, and the virtual hosts handler at its end, which *)
(* delegates every phase to the chain of one HostHandler.                  *)
(*                                                                         *)
(* A handler is a model value, its configuration the set of modules that   *)
(* are configured to do something.  What a module decides (a file exists,  *)
(* a login is valid, a rule matches) is nondeterministic.  Requests share  *)
(* no state in this pipeline, so one request is modelled; what they do     *)
(* share, the log channel, is in module CommonLog.                         *)
(***************************************************************************)
EXTENDS Lists

CONSTANTS
    TopChain,   \* the modules of struct Handler in the order of its fields,
                \* without the virtual hosts handler, which is the last field
    HostChain,  \* the modules of struct HostHandler; <<>> without that field
    Top,        \* the Handler instance
    Hosts,      \* the HostHandler instances of the virtual hosts
    Main,       \* values vector of Router.trie: instances for named hosts
    Fallback,   \* values vector of Router.fallback: instances for any host
    Confs       \* configurations: which modules each instance has switched on

Kinds == {"anonymization", "log", "compression", "headers", "auth", "rewrite",
          "upstream", "static_files", "response", "custom"}

Handlers == {Top} \union Hosts

ASSUME ChainsAssumption == TopChain \in Seq(Kinds) /\ HostChain \in Seq(Kinds)
ASSUME HandlersAssumption ==
    /\ Main \in Seq(Hosts) /\ Fallback \in Seq(Hosts)
    /\ Top \notin Hosts /\ None \notin Handlers /\ None \notin Nat
ASSUME ConfsAssumption == Confs \subseteq [Handlers -> SUBSET Kinds]

(***************************************************************************)
(* The fields of Handler followed by those of HostHandler: the order in    *)
(* which every phase visits them.                                          *)
(***************************************************************************)
Chain == TopChain \o HostChain
Positions == 1 .. Len(Chain)
HostStart == Len(TopChain) + 1
IsTop(p) == p < HostStart

VARIABLES
    conf,      \* configuration of each handler, fixed at startup
    phase,     \* the ProxyHttp method being run
    pos,       \* position in Chain of the next module the phase runs
    index,     \* VirtualHostsCtx.index
    called,    \* auxiliary: the HostHandler early_request_filter delegated to
    uri,       \* Session::uri(): what it derives from, and whether rewritten
    original,  \* OriginalUri in the extensions
    addr,      \* Session::client_addr()
    user,      \* RemoteUser in the extensions, as the auth module that set it
    tokens,    \* RequestCtx.tokens of the log module at each position
    peerCtx,   \* positions whose UpstreamHandler context is set
    handled,   \* auxiliary: position whose request_filter returned Handled
    response,  \* position that wrote the response header
    error,     \* the error passed to logging, None if there is none
    lines      \* log lines sent to the log writer

vars == <<conf, phase, pos, index, called, uri, original, addr, user, tokens,
          peerCtx, handled, response, error, lines>>

ClientUri == [base |-> "client", rewritten |-> FALSE]
StrippedUri == [base |-> "stripped", rewritten |-> FALSE]
LoginUri == [base |-> "login", rewritten |-> FALSE]
Uris == [base : {"client", "stripped", "login"}, rewritten : BOOLEAN]

Indexes == 1 .. (Len(Main) + Len(Fallback))
Tokens == [addr : {"full", "anonymized"}, uri : Uris]
Errors == {"not_found", "internal"}
ASSUME NoneAssumption == None \notin Tokens \union Errors \union Uris
Lines == [at : Positions, addr : {"full", "anonymized"}, uri : Uris,
          user : Positions \union {None}, handler : Handlers]

(***************************************************************************)
(* VirtualHostsHandler::as_inner.  Router::retrieve consults the values of *)
(* the main trie only, whichever trie the index came from.                 *)
(***************************************************************************)
Retrieve(i) == IF i \in 1 .. Len(Main) THEN Main[i] ELSE None
AsInner == IF index = None THEN None ELSE Retrieve(index)

(* The handler a phase after early_request_filter finds at position p.     *)
Owner(p) == IF IsTop(p) THEN Top ELSE AsInner

(* The module at p exists for this request and is switched on.             *)
On(p, h) == h # None /\ Chain[p] \in conf[h]

(* The phase ends here: no field left, or no host handler to delegate to.  *)
AtEnd == pos \notin Positions \/ Owner(pos) = None

TypeOK ==
    /\ conf \in Confs
    /\ phase \in {"early_top", "lookup", "early_host", "filter", "peer",
                  "upstream", "logging", "done", "panicked"}
    /\ pos \in 1 .. (Len(Chain) + 1)
    /\ phase = "upstream" => pos \in Positions
    /\ index \in Indexes \union {None}
    /\ called \in Hosts \union {None}
    /\ uri \in Uris /\ original \in Uris \union {None}
    /\ addr \in {"full", "anonymized"} /\ user \in Positions \union {None}
    /\ tokens \in [Positions -> Tokens \union {None}]
    /\ peerCtx \in SUBSET Positions
    /\ handled \in Positions \union {None}
    /\ response \in Positions \union {None}
    /\ error \in Errors \union {None}
    /\ lines \in Seq(Lines)

(* DefaultApp::new_ctx and a session that pingora has just read.           *)
Init ==
    /\ conf \in Confs
    /\ phase = "early_top" /\ pos = 1
    /\ index = None /\ called = None
    /\ uri = ClientUri /\ original = None
    /\ addr = "full" /\ user = None
    /\ tokens = [p \in Positions |-> None]
    /\ peerCtx = {} /\ handled = None /\ response = None /\ error = None
    /\ lines = <<>>

(* Mutant: every call replaces the original URI.                           *)
SetUriOverwrites(u) == uri' = u /\ original' = uri

(* SessionWrapper::set_uri: only the first call saves the current URI.     *)
SetUri(u) ==
    /\ uri' = u
    /\ original' = IF original = None THEN uri ELSE original
OriginalUri == IF original = None THEN uri ELSE original

session == <<uri, original, addr, user>>
results == <<tokens, peerCtx, handled, response, error, lines>>

(* Mutant: a failed request is not passed to logging.                      *)
FailUnlogged(e) == phase' = "done" /\ pos' = 1 /\ error' = e

(* A fallible phase returned an error or 404: pingora goes on to logging.  *)
Fail(e) == phase' = "logging" /\ pos' = 1 /\ error' = e

-----------------------------------------------------------------------------
(* early_request_filter                                                    *)

(* Mutant: asks the virtual host's configuration instead of its own.       *)
EarlyModuleOfHost(h) ==
    /\ addr' = IF Chain[pos] = "anonymization" /\ On(pos, AsInner)
               THEN "anonymized" ELSE addr
    /\ pos' = pos + 1
    /\ UNCHANGED <<conf, phase, index, called, uri, original, user, results>>

(* IPAnonymizationHandler is the only built-in module that changes the     *)
(* state modelled here; compression adjusts its pingora module.            *)
EarlyModule(h) ==
    /\ addr' = IF Chain[pos] = "anonymization" /\ On(pos, h)
               THEN "anonymized" ELSE addr
    /\ pos' = pos + 1
    /\ UNCHANGED <<conf, phase, index, called, uri, original, user, results>>

EarlyTop ==
    /\ phase = "early_top" /\ pos < HostStart
    /\ EarlyModule(Top)

EarlyHost ==
    /\ phase = "early_host" /\ pos \in Positions
    /\ EarlyModule(called)

(* Only a module that is not part of the server returns an error here.     *)
EarlyError ==
    /\ phase \in {"early_top", "early_host"} /\ pos \in Positions
    /\ phase = "early_top" => pos < HostStart
    /\ Chain[pos] = "custom" /\ On(pos, IF phase = "early_top" THEN Top ELSE called)
    /\ Fail("internal")
    /\ UNCHANGED <<conf, index, called, session, tokens, peerCtx, handled,
                   response, lines>>

EarlyTopEnd ==
    /\ phase = "early_top" /\ pos = HostStart
    /\ IF HostChain = <<>> THEN phase' = "filter" /\ pos' = 1
                           ELSE phase' = "lookup" /\ pos' = pos
    /\ UNCHANGED <<conf, index, called, session, results>>

(* VirtualHostsHandler::early_request_filter: the lookup by host and path  *)
(* yields a value of either trie, the path prefix may be stripped.         *)
LookupHost ==
    /\ phase = "lookup"
    /\ \E values \in {Main, Fallback} : \E i \in 1 .. Len(values) :
        /\ index' = i
        /\ called' = values[i]
    /\ SetUri(StrippedUri) \/ UNCHANGED <<uri, original>>
    /\ phase' = "early_host"
    /\ UNCHANGED <<conf, pos, addr, user, results>>

LookupNothing ==
    /\ phase = "lookup"
    /\ phase' = "filter" /\ pos' = 1
    /\ UNCHANGED <<conf, index, called, session, results>>

EarlyHostEnd ==
    /\ phase = "early_host" /\ pos \notin Positions
    /\ phase' = "filter" /\ pos' = 1
    /\ UNCHANGED <<conf, index, called, session, results>>

-----------------------------------------------------------------------------
(* request_filter: each module runs until one does not return Unhandled.   *)

AtModule(kinds) == phase = "filter" /\ ~AtEnd /\ Chain[pos] \in kinds
AtOn(kinds) == AtModule(kinds) /\ On(pos, Owner(pos))

(* Mutant: the module is asked again.                                      *)
UnhandledStays == phase' = "filter" /\ pos' = pos
Unhandled == phase' = "filter" /\ pos' = pos + 1

(* The modules without a configuration, and those that do nothing here.    *)
FilterOff ==
    /\ phase = "filter" /\ ~AtEnd
    /\ Chain[pos] \in {"anonymization", "compression", "headers"}
           \/ ~On(pos, Owner(pos))
    /\ Unhandled
    /\ UNCHANGED <<conf, index, called, session, results>>

(* Mutant: only the first log module of a request saves its tokens.        *)
FilterFirstLog ==
    /\ AtOn({"log"})
    /\ tokens' = IF \A p \in Positions : tokens[p] = None
                 THEN [tokens EXCEPT ![pos] = [addr |-> addr, uri |-> OriginalUri]]
                 ELSE tokens
    /\ Unhandled
    /\ UNCHANGED <<conf, index, called, session, peerCtx, handled, response,
                   error, lines>>

(* CommonLogHandler::request_filter saves what later modules may change.   *)
FilterLog ==
    /\ AtOn({"log"})
    /\ tokens' = [tokens EXCEPT ![pos] = [addr |-> addr, uri |-> OriginalUri]]
    /\ Unhandled
    /\ UNCHANGED <<conf, index, called, session, peerCtx, handled, response,
                   error, lines>>

(* A valid cookie or Authorization header.                                 *)
FilterAuthorized ==
    /\ AtOn({"auth"})
    /\ user' = pos
    /\ Unhandled
    /\ UNCHANGED <<conf, index, called, uri, original, addr, results>>

(* Mutant: goes on with the URI that was requested.                        *)
FilterLoginPageKeepsUri ==
    /\ AtOn({"auth"})
    /\ Unhandled
    /\ UNCHANGED <<conf, index, called, session, results>>

(* login_response with a login page configured: the modules that follow    *)
(* serve that page.                                                        *)
FilterLoginPage ==
    /\ AtOn({"auth"})
    /\ SetUri(LoginUri)
    /\ Unhandled
    /\ UNCHANGED <<conf, index, called, addr, user, results>>

(* A POST request with valid credentials is answered with a session cookie;*)
(* signing the token or writing the answer may fail.                       *)
FilterLoggedIn ==
    /\ AtOn({"auth"})
    /\ user' = pos
    /\ \/ response' = pos /\ phase' = "logging" /\ pos' = 1 /\ error' = error
       \/ response' \in {None, pos} /\ Fail("internal")
    /\ UNCHANGED <<conf, index, called, uri, original, addr, tokens, peerCtx,
                   handled, lines>>

(* An internal rewrite rule applies.                                       *)
FilterRewrite ==
    /\ AtOn({"rewrite"})
    /\ SetUri([uri EXCEPT !.rewritten = TRUE])
    /\ Unhandled
    /\ UNCHANGED <<conf, index, called, addr, user, results>>

(* No rewrite rule applies.  The other modules that answer requests do so  *)
(* whenever they are switched on.                                          *)
FilterDeclined ==
    /\ AtOn({"rewrite", "custom"})
    /\ Unhandled
    /\ UNCHANGED <<conf, index, called, session, results>>

(* UpstreamHandler::request_filter; the Host header it sets is taken from  *)
(* a parsed URL, setting it does not fail.                                 *)
FilterUpstream ==
    /\ AtOn({"upstream"})
    /\ peerCtx' = peerCtx \union {pos}
    /\ handled' = pos
    /\ phase' = "peer" /\ pos' = 1
    /\ UNCHANGED <<conf, index, called, session, tokens, response, error,
                   lines>>

(* Mutant: Unhandled after the response was written.                       *)
FilterAnswerGoesOn ==
    /\ AtOn({"auth", "rewrite", "static_files", "response", "custom"})
    /\ response' = pos
    /\ Unhandled
    /\ UNCHANGED <<conf, index, called, session, tokens, peerCtx, handled,
                   error, lines>>

(* ResponseSent: a login or error page, a redirect, a file, a fixed text.  *)
FilterAnswer ==
    /\ AtOn({"auth", "rewrite", "static_files", "response", "custom"})
    /\ response' = pos
    /\ phase' = "logging" /\ pos' = 1
    /\ UNCHANGED <<conf, index, called, session, tokens, peerCtx, handled,
                   error, lines>>

(* The same modules when writing fails, before or after the header is out. *)
FilterError ==
    /\ AtOn({"auth", "rewrite", "static_files", "response", "custom"})
    /\ response' \in {None, pos}
    /\ Fail("internal")
    /\ UNCHANGED <<conf, index, called, session, tokens, peerCtx, handled,
                   lines>>

(* Unhandled by all: like Handled this is Ok(false) to pingora.            *)
FilterEnd ==
    /\ phase = "filter" /\ AtEnd
    /\ phase' = "peer" /\ pos' = 1
    /\ UNCHANGED <<conf, index, called, session, results>>

-----------------------------------------------------------------------------
(* upstream_peer and the exchange with the upstream server                 *)

(* The first module with a peer; the host's are asked like the others.     *)
Peers == {p \in peerCtx : Owner(p) # None}

(* Mutant: the peer is taken out of the context.                           *)
UpstreamPeerTaken ==
    /\ phase = "peer"
    /\ \E p \in Peers : /\ \A q \in Peers : p <= q
                       /\ pos' = p /\ peerCtx' = peerCtx \ {p}
    /\ phase' = "upstream"
    /\ UNCHANGED <<conf, index, called, session, tokens, handled, response,
                   error, lines>>

UpstreamPeer ==
    /\ phase = "peer"
    /\ \E p \in Peers : (\A q \in Peers : p <= q) /\ pos' = p
    /\ phase' = "upstream"
    /\ UNCHANGED <<conf, index, called, session, results>>

NoUpstreamPeer ==
    /\ phase = "peer" /\ Peers = {}
    /\ Fail("not_found")
    /\ UNCHANGED <<conf, index, called, session, tokens, peerCtx, handled,
                   response, lines>>

(* pingora asks again if a connection it kept open turns out to be broken  *)
(* before there is a response.                                             *)
UpstreamRetry ==
    /\ phase = "upstream"
    /\ phase' = "peer" /\ pos' = 1
    /\ UNCHANGED <<conf, index, called, session, results>>

UpstreamResponse ==
    /\ phase = "upstream"
    /\ response' = pos
    /\ phase' = "logging" /\ pos' = 1
    /\ UNCHANGED <<conf, index, called, session, tokens, peerCtx, handled,
                   error, lines>>

UpstreamError ==
    /\ phase = "upstream"
    /\ response' \in {None, pos}
    /\ Fail("internal")
    /\ UNCHANGED <<conf, index, called, session, tokens, peerCtx, handled,
                   lines>>

-----------------------------------------------------------------------------
(* logging: runs for every request and visits every module.                *)

LogModule ==
    /\ phase = "logging" /\ ~AtEnd
    /\ ~(Chain[pos] = "log" /\ On(pos, Owner(pos)))
    /\ pos' = pos + 1
    /\ UNCHANGED <<conf, phase, index, called, session, results>>

(* CommonLogHandler::logging takes the tokens saved by request_filter and  *)
(* adds the ones known only now.                                           *)
LogLine ==
    /\ phase = "logging" /\ ~AtEnd
    /\ Chain[pos] = "log" /\ On(pos, Owner(pos))
    /\ tokens[pos] # None
    /\ lines' = Append(lines, [at |-> pos, addr |-> tokens[pos].addr,
                               uri |-> tokens[pos].uri, user |-> user,
                               handler |-> Owner(pos)])
    /\ tokens' = [tokens EXCEPT ![pos] = None]
    /\ pos' = pos + 1
    /\ UNCHANGED <<conf, phase, index, called, session, peerCtx, handled,
                   response, error>>

(* existing_tokens.next().unwrap() on an empty list: the task panics.      *)
LogPanic ==
    /\ phase = "logging" /\ ~AtEnd
    /\ Chain[pos] = "log" /\ On(pos, Owner(pos))
    /\ tokens[pos] = None
    /\ phase' = "panicked"
    /\ UNCHANGED <<conf, pos, index, called, session, results>>

LogEnd ==
    /\ phase = "logging" /\ AtEnd
    /\ phase' = "done"
    /\ UNCHANGED <<conf, pos, index, called, session, results>>

Early == EarlyTop \/ EarlyHost \/ EarlyError \/ EarlyTopEnd \/ LookupHost
            \/ LookupNothing \/ EarlyHostEnd
Filter == FilterOff \/ FilterLog \/ FilterAuthorized \/ FilterLoginPage
            \/ FilterLoggedIn \/ FilterRewrite \/ FilterDeclined
            \/ FilterUpstream \/ FilterAnswer \/ FilterError \/ FilterEnd
Upstream == UpstreamPeer \/ NoUpstreamPeer \/ UpstreamRetry \/ UpstreamResponse
            \/ UpstreamError
Logging == LogModule \/ LogLine \/ LogPanic \/ LogEnd

Next == Early \/ Filter \/ Upstream \/ Logging

(* The executor polls the request's task until it completes; pingora makes *)
(* a limited number of attempts at the upstream server.                    *)
Spec ==
    /\ Init /\ [][Next]_vars
    /\ WF_vars(Next) /\ SF_vars(UpstreamResponse \/ UpstreamError)

-----------------------------------------------------------------------------
(* Properties                                                              *)

(* The log module's logging() finds the tokens its request_filter() saved: *)
(* no way through the phases reaches the unwrap() with an empty list.      *)
CapturedBeforeLogged == phase # "panicked"

(* A module behind an auth module answers only a request that this module  *)
(* authorized, or one for the login page it redirected the request to.     *)
ContentKinds == {"upstream", "static_files", "response"}
AuthGate ==
    response # None /\ Chain[response] \in ContentKinds =>
        \A p \in 1 .. (response - 1) :
            Chain[p] = "auth" /\ On(p, Owner(p)) =>
                \/ user # None /\ user >= p
                \/ uri.base = "login"

(* However often the URI is stripped, rewritten or replaced by the login   *)
(* page, original_uri() and the log lines show the URI the client sent.    *)
OriginalUriKept ==
    /\ OriginalUri = ClientUri
    /\ \A i \in DOMAIN lines : lines[i].uri = ClientUri

(* With anonymization switched on no log line has the full client address. *)
AnonymizedLog ==
    \A i \in DOMAIN lines :
        (\E p \in Positions :
            Chain[p] = "anonymization" /\ On(p, Owner(p))) =>
        lines[i].addr = "anonymized"

Responsible(p) == Chain[p] = "log" /\ On(p, Owner(p))

(* What may end a request before request_filter gets to the module at p: a *)
(* module ahead of it, and one's own module wherever it is, which can fail *)
(* in early_request_filter.                                                *)
Answering == {"auth", "rewrite", "upstream", "static_files", "response"}
CutOff(p) ==
    \E q \in Positions :
        \/ Chain[q] = "custom" /\ (On(q, Owner(q)) \/ On(q, called))
        \/ Chain[q] \in Answering /\ On(q, Owner(q)) /\ q < p

(* A request ends with exactly one line of every log module responsible    *)
(* for it and none of the others, unless logging() panics at one of them:  *)
(* this one and those behind it then write none.  It panics for no request *)
(* unless something is switched on that can answer or fail ahead of it.    *)
LoggedOnce ==
    phase \in {"done", "panicked"} =>
        /\ \A p \in Positions :
            Cardinality({i \in DOMAIN lines : lines[i].at = p}) =
                IF Responsible(p) /\ (phase = "done" \/ p < pos) THEN 1 ELSE 0
        /\ phase = "panicked" => Responsible(pos) /\ CutOff(pos)

(* The peer announced by request_filter's Handled is the one upstream_peer *)
(* finds, at a second attempt as well: such a request is never a 404, and  *)
(* no other module's peer is contacted.                                    *)
HandledIsServed ==
    /\ handled # None => error # "not_found"
    /\ phase = "upstream" => handled = pos

(* Once a response header is out, no module runs except to log: nothing    *)
(* answers a second time or changes the request, its user or the peer.     *)
AnswerIsFinal ==
    [][response # None =>
        /\ phase' \in {"logging", "done", "panicked"}
        /\ UNCHANGED <<index, session, peerCtx, handled, response, error>>]_vars

(* All phases of a request reach the virtual host that                     *)
(* early_request_filter selected.                                          *)
SameHandler == called # None /\ phase # "early_host" => AsInner = called

(* Every request comes to an end, be it the panic in logging(): no module, *)
(* host or attempt at the upstream server keeps it from being logged.      *)
EveryRequestEnds == <>(phase \in {"done", "panicked"})
=============================================================================
