------------------------------ MODULE ServerProof ------------------------------
(***************************************************************************)
(* Proofs about RequestPipeline, for every chain of modules, every set of  *)
(* virtual hosts and every configuration: which handler a request gets,    *)
(* what is checked before it is answered, and what is written to the log.  *)
(* At the end those about Startup, for all settings and command lines:     *)
(* where the server listens, certificates and redirects.                   *)
(***************************************************************************)
EXTENDS RequestPipeline, Startup, SequenceLemmas, FiniteSetTheorems

LEMMA ChainFacts ==
    /\ Len(Chain) \in Nat /\ HostStart \in 1 .. (Len(Chain) + 1)
    /\ Positions = 1 .. Len(Chain)
    /\ \A p \in Positions : Chain[p] \in Kinds
<1>1. TopChain \in Seq(Kinds) /\ HostChain \in Seq(Kinds)
    BY ChainsAssumption
<1>2. Chain \in Seq(Kinds) /\ Len(Chain) = Len(TopChain) + Len(HostChain)
    BY <1>1 DEF Chain
<1> QED
    BY <1>1, <1>2 DEF HostStart, Positions

LEMMA OwnerType == TypeOK => \A p \in Positions : Owner(p) \in Handlers \union {None}
BY HandlersAssumption DEF TypeOK, Owner, AsInner, Retrieve, Handlers

LEMMA TypeInit == Init => TypeOK
<1> SUFFICES ASSUME Init PROVE TypeOK
    OBVIOUS
<1>1. uri \in Uris
    BY DEF Init, Uris, ClientUri
<1>2. tokens \in [Positions -> Tokens \union {None}]
    BY DEF Init
<1>3. pos \in 1 .. (Len(Chain) + 1)
    BY ChainFacts DEF Init
<1>4. lines \in Seq(Lines)
    BY DEF Init
<1> QED
    BY <1>1, <1>2, <1>3, <1>4 DEF Init, TypeOK

LEMMA UriType ==
    /\ LoginUri \in Uris /\ StrippedUri \in Uris
    /\ \A u \in Uris : [u EXCEPT !.rewritten = TRUE] \in Uris
BY DEF Uris, LoginUri, StrippedUri

LEMMA TypeNext == TypeOK /\ [Next]_vars => TypeOK'
<1> SUFFICES ASSUME TypeOK, [Next]_vars PROVE TypeOK'
    OBVIOUS
<1> USE ChainFacts DEF TypeOK, session, results, Fail, Unhandled, Errors
<1>1. CASE EarlyTop
    BY <1>1 DEF EarlyTop, EarlyModule
<1>2. CASE EarlyHost
    BY <1>2 DEF EarlyHost, EarlyModule
<1>3. CASE EarlyError
    BY <1>3 DEF EarlyError
<1>4. CASE EarlyTopEnd
    BY <1>4 DEF EarlyTopEnd
<1>5. CASE LookupHost
  <2>1. index' \in Indexes /\ called' \in Hosts
    BY <1>5, HandlersAssumption DEF LookupHost, Indexes
  <2>2. uri' \in Uris /\ original' \in Uris \union {None}
    BY <1>5, UriType DEF LookupHost, SetUri
  <2> QED
    BY <1>5, <2>1, <2>2 DEF LookupHost
<1>6. CASE LookupNothing
    BY <1>6 DEF LookupNothing
<1>7. CASE EarlyHostEnd
    BY <1>7 DEF EarlyHostEnd
<1>8. CASE FilterOff
    BY <1>8 DEF FilterOff, AtEnd
<1>9. CASE FilterLog
  <2>1. [addr |-> addr, uri |-> OriginalUri] \in Tokens
    BY DEF Tokens, OriginalUri
  <2> QED
    BY <1>9, <2>1 DEF FilterLog, AtOn, AtModule, AtEnd
<1>10. CASE FilterAuthorized
    BY <1>10 DEF FilterAuthorized, AtOn, AtModule, AtEnd
<1>11. CASE FilterLoginPage
    BY <1>11, UriType DEF FilterLoginPage, SetUri, AtOn, AtModule, AtEnd
<1>12. CASE FilterLoggedIn
    BY <1>12 DEF FilterLoggedIn, AtOn, AtModule, AtEnd
<1>13. CASE FilterRewrite
    BY <1>13, UriType DEF FilterRewrite, SetUri, AtOn, AtModule, AtEnd
<1>14. CASE FilterDeclined
    BY <1>14 DEF FilterDeclined, AtOn, AtModule, AtEnd
<1>15. CASE FilterUpstream
    BY <1>15 DEF FilterUpstream, AtOn, AtModule, AtEnd
<1>16. CASE FilterAnswer
    BY <1>16 DEF FilterAnswer, AtOn, AtModule, AtEnd
<1>17. CASE FilterError
    BY <1>17 DEF FilterError, AtOn, AtModule, AtEnd
<1>18. CASE FilterEnd
    BY <1>18 DEF FilterEnd
<1>19. CASE UpstreamPeer
    BY <1>19 DEF UpstreamPeer, Peers
<1>20. CASE NoUpstreamPeer
    BY <1>20 DEF NoUpstreamPeer
<1>21. CASE UpstreamResponse
    BY <1>21 DEF UpstreamResponse
<1>22. CASE UpstreamError
    BY <1>22 DEF UpstreamError
<1>23. CASE LogModule
    BY <1>23 DEF LogModule, AtEnd
<1>24. CASE LogLine
  <2> DEFINE line == [at |-> pos, addr |-> tokens[pos].addr,
                      uri |-> tokens[pos].uri, user |-> user,
                      handler |-> Owner(pos)]
  <2>1. pos \in Positions /\ Owner(pos) \in Handlers
    BY <1>24, OwnerType DEF LogLine, AtEnd
  <2>2. tokens[pos] \in Tokens
    BY <1>24, <2>1 DEF LogLine
  <2>3. line \in Lines
    BY <2>1, <2>2 DEF Lines, Tokens
  <2>4. lines' = Append(lines, line)
    BY <1>24 DEF LogLine
  <2> HIDE DEF line
  <2>5. lines' \in Seq(Lines)
    BY <2>3, <2>4
  <2> QED
    BY <1>24, <2>1, <2>5 DEF LogLine
<1>25. CASE LogPanic
    BY <1>25 DEF LogPanic
<1>26. CASE LogEnd
    BY <1>26 DEF LogEnd
<1>27. CASE UpstreamRetry
    BY <1>27, ChainFacts DEF UpstreamRetry
<1>28. CASE UNCHANGED vars
    BY <1>28 DEF vars
<1> QED
    BY <1>1, <1>2, <1>3, <1>4, <1>5, <1>6, <1>7, <1>8, <1>9, <1>10, <1>11,
       <1>12, <1>13, <1>14, <1>15, <1>16, <1>17, <1>18, <1>19, <1>20, <1>21,
       <1>22, <1>23, <1>24, <1>25, <1>26, <1>27, <1>28
    DEF Next, Early, Filter, Upstream, Logging

(* Every component of the request's state has its type in every reachable  *)
(* state: a phase never goes past the end of the chain, and a peer is only *)
(* contacted for a module of the chain.                                    *)
THEOREM TypeCorrect == Spec => []TypeOK
<1>1. Init => TypeOK
    BY TypeInit
<1>2. TypeOK /\ [Next]_vars => TypeOK'
    BY TypeNext
<1> QED
    BY <1>1, <1>2, PTL DEF Spec

-----------------------------------------------------------------------------
(***************************************************************************)
(* AuthGate: request_filter advances past an auth module only after it     *)
(* authorized the request or redirected it to the login page, and nothing  *)
(* that follows takes either back.  A peer is chosen in one phase and      *)
(* answers in another, so the gate is remembered for the positions with a  *)
(* peer, too.                                                              *)
(***************************************************************************)
EarlyPhases == {"early_top", "lookup", "early_host"}

Passed(p) ==
    Chain[p] = "auth" /\ On(p, Owner(p)) =>
        (user # None /\ user >= p) \/ uri.base = "login"

GateAt(q) == \A p \in 1 .. (q - 1) : Passed(p)

GateInv ==
    /\ phase \in EarlyPhases \union {"filter"} => peerCtx = {}
    /\ phase \in EarlyPhases \union {"filter", "peer", "upstream"} => response = None
    /\ phase = "filter" => GateAt(pos)
    /\ \A q \in peerCtx : GateAt(q)
    /\ phase = "upstream" => pos \in peerCtx
    /\ response # None /\ Chain[response] \in ContentKinds => GateAt(response)

LEMMA GateInit == Init => GateInv
BY DEF Init, GateInv, EarlyPhases

(* A later phase keeps everything that the gate looks at.                  *)
LEMMA GateKept ==
    ASSUME UNCHANGED <<conf, index, user, uri>>
    PROVE  \A q : GateAt(q) => GateAt(q)'
BY DEF GateAt, Passed, On, Owner, AsInner, Retrieve

(* request_filter moves on from the module at q to the next one.           *)
LEMMA GateAdvance ==
    ASSUME TypeOK, NEW q \in Positions, GateAt(q), UNCHANGED <<conf, index>>,
           user' = user \/ user' = q,
           uri'.base = uri.base \/ uri'.base = "login",
           Passed(q)'
    PROVE  GateAt(q + 1)'
<1>1. \A p \in 1 .. (q - 1) : Passed(p) => Passed(p)'
    BY ChainFacts, HandlersAssumption
    DEF TypeOK, Passed, On, Owner, AsInner, Retrieve
<1>2. \A p \in 1 .. ((q + 1) - 1) : p \in 1 .. (q - 1) \/ p = q
    BY ChainFacts
<1> QED
    BY <1>1, <1>2 DEF GateAt

LEMMA GateNext == TypeOK /\ GateInv /\ [Next]_vars => GateInv'
<1> SUFFICES ASSUME TypeOK, GateInv, [Next]_vars PROVE GateInv'
    OBVIOUS
<1> USE DEF EarlyPhases, session, results, Fail, Unhandled
<1> DEFINE Filtering == phase = "filter" /\ pos \in Positions
           Moving == /\ phase' = "filter" /\ pos' = pos + 1
                     /\ UNCHANGED <<conf, index, peerCtx, response>>
<1>0. peerCtx = {} \/ phase \notin EarlyPhases \union {"filter"}
    BY DEF GateInv
<1>1. CASE EarlyTop \/ EarlyHost
    BY <1>1 DEF EarlyTop, EarlyHost, EarlyModule, GateInv
<1>2. CASE EarlyError
    BY <1>2 DEF EarlyError, GateInv
<1>3. CASE EarlyTopEnd \/ LookupNothing \/ EarlyHostEnd
  <2>1. UNCHANGED <<peerCtx, response>> /\ peerCtx = {} /\ response = None
    BY <1>0, <1>3 DEF EarlyTopEnd, LookupNothing, EarlyHostEnd, GateInv
  <2>2. phase' = "filter" => pos' = 1
    BY <1>3 DEF EarlyTopEnd, LookupNothing, EarlyHostEnd
  <2>3. pos' = 1 => GateAt(pos)'
    BY DEF GateAt
  <2>4. phase' # "upstream"
    BY <1>3 DEF EarlyTopEnd, LookupNothing, EarlyHostEnd
  <2> QED
    BY <2>1, <2>2, <2>3, <2>4 DEF GateInv
<1>4. CASE LookupHost
    BY <1>4 DEF LookupHost, GateInv
<1>5. CASE FilterOff \/ FilterLog \/ FilterDeclined
  <2>1. Filtering /\ Moving /\ UNCHANGED <<user, uri>>
    BY <1>5 DEF FilterOff, FilterLog, FilterDeclined, AtOn, AtModule, AtEnd
  <2>2. Chain[pos] # "auth" \/ ~On(pos, Owner(pos))
    BY <1>5 DEF FilterOff, FilterLog, FilterDeclined, AtOn, AtModule
  <2>3. \A q : q = pos => Passed(q)'
    BY <2>1, <2>2 DEF Passed, On, Owner, AsInner, Retrieve
  <2> QED
    BY <2>1, <2>3, GateAdvance DEF GateInv
<1>6. CASE FilterAuthorized
  <2>1. Filtering /\ Moving /\ user' = pos /\ uri' = uri
    BY <1>6 DEF FilterAuthorized, AtOn, AtModule, AtEnd
  <2>2. \A q : q = pos => Passed(q)'
    BY <2>1, ChainFacts, HandlersAssumption DEF Passed
  <2> QED
    BY <2>1, <2>2, GateAdvance DEF GateInv
<1>7. CASE FilterLoginPage
  <2>1. Filtering /\ Moving /\ user' = user /\ uri'.base = "login"
    BY <1>7 DEF FilterLoginPage, SetUri, LoginUri, AtOn, AtModule, AtEnd
  <2>2. \A q : q = pos => Passed(q)'
    BY <2>1 DEF Passed
  <2> QED
    BY <2>1, <2>2, GateAdvance DEF GateInv
<1>8. CASE FilterRewrite
  <2>1. Filtering /\ Moving /\ user' = user /\ uri'.base = uri.base
    BY <1>8 DEF FilterRewrite, SetUri, AtOn, AtModule, AtEnd, TypeOK, Uris
  <2>2. \A q : q = pos => Passed(q)'
    BY <1>8, <2>1 DEF Passed, FilterRewrite, AtOn, AtModule
  <2> QED
    BY <2>1, <2>2, GateAdvance DEF GateInv
<1>9. CASE FilterLoggedIn
    BY <1>0, <1>9 DEF FilterLoggedIn, AtOn, AtModule, GateInv, ContentKinds
<1>10. CASE FilterUpstream
  <2>1. GateAt(pos) /\ peerCtx' = {pos}
    BY <1>0, <1>10 DEF FilterUpstream, AtOn, AtModule, GateInv
  <2>2. \A q : GateAt(q) => GateAt(q)'
    BY <1>10, GateKept DEF FilterUpstream
  <2> QED
    BY <1>10, <2>1, <2>2 DEF FilterUpstream, AtOn, AtModule, GateInv
<1>11. CASE FilterAnswer \/ FilterError
  <2>1. GateAt(pos) /\ peerCtx' = {} /\ response' \in {None, pos}
    BY <1>0, <1>11 DEF FilterAnswer, FilterError, AtOn, AtModule, GateInv
  <2>2. \A q : GateAt(q) => GateAt(q)'
    BY <1>11, GateKept DEF FilterAnswer, FilterError
  <2> QED
    BY <1>11, <2>1, <2>2 DEF FilterAnswer, FilterError, GateInv
<1>12. CASE FilterEnd \/ NoUpstreamPeer \/ UpstreamRetry \/ Logging \/ UNCHANGED vars
  <2>1. UNCHANGED <<conf, index, user, uri, peerCtx, response>>
    BY <1>12 DEF FilterEnd, NoUpstreamPeer, UpstreamRetry, Logging, LogModule,
                 LogLine, LogPanic, LogEnd, vars
  <2>2. \A q : GateAt(q) => GateAt(q)'
    BY <2>1, GateKept
  <2>3. \/ phase' \in {"peer", "logging", "done", "panicked"}
            /\ phase \notin EarlyPhases /\ (phase' = "peer" => phase \in {"filter", "upstream"})
        \/ UNCHANGED <<phase, pos>>
    BY <1>12 DEF FilterEnd, NoUpstreamPeer, UpstreamRetry, Logging, LogModule,
                 LogLine, LogPanic, LogEnd, vars
  <2> QED
    BY <2>1, <2>2, <2>3 DEF GateInv
<1>13. CASE UpstreamPeer \/ UpstreamResponse \/ UpstreamError
  <2>1. UNCHANGED <<conf, index, user, uri, peerCtx>>
    BY <1>13 DEF UpstreamPeer, UpstreamResponse, UpstreamError
  <2>2. \A q : GateAt(q) => GateAt(q)'
    BY <2>1, GateKept
  <2>3. CASE UpstreamPeer
    BY <2>1, <2>2, <2>3 DEF UpstreamPeer, Peers, GateInv
  <2>4. CASE UpstreamResponse \/ UpstreamError
    BY <2>1, <2>2, <2>4 DEF UpstreamResponse, UpstreamError, GateInv
  <2> QED
    BY <1>13, <2>3, <2>4
<1> QED
    BY <1>1, <1>2, <1>3, <1>4, <1>5, <1>6, <1>7, <1>8, <1>9, <1>10, <1>11,
       <1>12, <1>13
    DEF Next, Early, Filter, Upstream

(* No module behind an auth module answers a request that was neither      *)
(* authorized by it nor redirected to the login page, wherever in the two  *)
(* chains the modules are.                                                 *)
THEOREM AuthGateHolds == Spec => []AuthGate
<1>1. Init => TypeOK /\ GateInv
    BY TypeInit, GateInit
<1>2. TypeOK /\ GateInv /\ [Next]_vars => (TypeOK /\ GateInv)'
    BY TypeNext, GateNext
<1>3. TypeOK /\ GateInv => AuthGate
    BY DEF TypeOK, GateInv, AuthGate, GateAt, Passed
<1> QED
    BY <1>1, <1>2, <1>3, PTL DEF Spec

-----------------------------------------------------------------------------
(***************************************************************************)
(* CapturedBeforeLogged does not hold for every choice of cargo features.  *)
(* What logging() does not find is that of a request which something ahead *)
(* of the log module, or one's own module, answered or failed: of none if  *)
(* nothing that can answer comes before a log module, which both default   *)
(* feature sets obey.                                                      *)
(***************************************************************************)
LogFirst ==
    \A p, q \in Positions :
        /\ Chain[p] # "custom"
        /\ Chain[q] = "log" /\ p < q => Chain[p] \notin Answering

Captured(p) == Responsible(p) => tokens[p] # None

Safe(p) == Captured(p) \/ CutOff(p)

(* What has been captured, seen from each phase: the modules request_filter *)
(* has passed, and the modules logging still has to visit.                 *)
CaptureInv ==
    /\ phase = "filter" => \A p \in Positions : p < pos => Captured(p)
    /\ phase \in {"peer", "upstream"} => \A p \in Positions : Safe(p)
    /\ phase = "logging" => \A p \in Positions : p >= pos => Safe(p)
    /\ phase = "panicked" => pos \in Positions /\ Responsible(pos) /\ CutOff(pos)

LEMMA OnKept ==
    ASSUME UNCHANGED <<conf, index>>
    PROVE  \A p : On(p, Owner(p))' = On(p, Owner(p))
BY DEF On, Owner, AsInner, Retrieve

LEMMA CutOffKept ==
    ASSUME UNCHANGED <<conf, index, called>>
    PROVE  \A p : CutOff(p) => CutOff(p)'
<1> SUFFICES ASSUME NEW p, CutOff(p) PROVE CutOff(p)'
    OBVIOUS
<1>1. PICK q \in Positions :
          \/ Chain[q] = "custom" /\ (On(q, Owner(q)) \/ On(q, called))
          \/ Chain[q] \in Answering /\ On(q, Owner(q)) /\ q < p
    BY DEF CutOff
<1>2. On(q, Owner(q))' = On(q, Owner(q)) /\ On(q, called)' = On(q, called)
    BY OnKept DEF On
<1> QED
    BY <1>1, <1>2 DEF CutOff

LEMMA CaptureKept ==
    ASSUME UNCHANGED <<conf, index, called, tokens>>
    PROVE  \A p : (Captured(p) => Captured(p)') /\ (Safe(p) => Safe(p)')
<1>1. \A p : Captured(p) => Captured(p)'
    BY OnKept DEF Captured, Responsible
<1> QED
    BY <1>1, CutOffKept DEF Safe

LEMMA CaptureNext ==
    ASSUME TypeOK, CaptureInv, [Next]_vars
    PROVE  CaptureInv'
<1> USE DEF session, results, Fail, Unhandled
<1>1. CASE EarlyTop \/ EarlyHost \/ LookupHost
    BY <1>1 DEF EarlyTop, EarlyHost, EarlyModule, LookupHost, CaptureInv
<1>2. CASE EarlyError
  <2>1. /\ phase' = "logging" /\ pos \in Positions /\ Chain[pos] = "custom"
        /\ UNCHANGED <<conf, index, called, tokens>>
    BY <1>2 DEF EarlyError
  <2>2. On(pos, Owner(pos)) \/ On(pos, called)
    BY <1>2, ChainFacts DEF EarlyError, Owner, IsTop
  <2>3. \A p : CutOff(p)
    BY <2>1, <2>2 DEF CutOff
  <2> QED
    BY <2>1, <2>3, CaptureKept DEF CaptureInv, Safe
<1>3. CASE EarlyTopEnd \/ LookupNothing \/ EarlyHostEnd
  <2>1. phase' \in {"filter", "lookup"} /\ (phase' = "filter" => pos' = 1)
    BY <1>3 DEF EarlyTopEnd, LookupNothing, EarlyHostEnd
  <2> QED
    BY <2>1, ChainFacts DEF CaptureInv
<1>4. CASE FilterLog
  <2>1. pos \in Positions /\ phase = "filter" /\ phase' = "filter"
            /\ pos' = pos + 1 /\ UNCHANGED <<conf, index>>
    BY <1>4 DEF FilterLog, AtOn, AtModule, AtEnd
  <2>2. \A p \in Positions : p # pos => tokens'[p] = tokens[p]
    BY <1>4 DEF FilterLog, TypeOK
  <2>3. tokens'[pos] = [addr |-> addr, uri |-> OriginalUri] /\ tokens'[pos] # None
    <3>1. [addr |-> addr, uri |-> OriginalUri] \in Tokens
      BY DEF TypeOK, Tokens, OriginalUri
    <3> QED
      BY <1>4, <2>1, <3>1, NoneAssumption DEF FilterLog, TypeOK
  <2>4. ASSUME NEW p \in Positions, p < pos
        PROVE  Captured(p)'
    <3>1. Captured(p) /\ p # pos
      BY <2>1, <2>4, ChainFacts DEF CaptureInv
    <3> QED
      BY <2>1, <2>2, <3>1, OnKept DEF Captured, Responsible
  <2>5. \A p \in Positions : p = pos => Captured(p)'
    BY <2>3 DEF Captured
  <2> QED
    BY <2>1, <2>4, <2>5, ChainFacts DEF CaptureInv
<1>5. CASE FilterOff \/ FilterAuthorized \/ FilterLoginPage \/ FilterRewrite
              \/ FilterDeclined
  <2>1. /\ phase = "filter" /\ phase' = "filter" /\ pos \in Positions
        /\ pos' = pos + 1 /\ UNCHANGED <<conf, index, called, tokens>>
    BY <1>5 DEF FilterOff, FilterAuthorized, FilterLoginPage, FilterRewrite,
                FilterDeclined, AtOn, AtModule, AtEnd
  <2>2. Chain[pos] # "log" \/ ~On(pos, Owner(pos))
    BY <1>5 DEF FilterOff, FilterAuthorized, FilterLoginPage, FilterRewrite,
                FilterDeclined, AtOn, AtModule
  <2>3. \A p \in Positions : p < pos \/ p = pos => Captured(p)
    BY <2>1, <2>2 DEF CaptureInv, Captured, Responsible
  <2> QED
    BY <2>1, <2>3, CaptureKept, ChainFacts DEF CaptureInv
<1>6. CASE FilterLoggedIn \/ FilterUpstream \/ FilterAnswer \/ FilterError
  <2>1. /\ phase = "filter" /\ phase' \in {"logging", "peer"} /\ pos \in Positions
        /\ Chain[pos] \in Answering \union {"custom"} /\ On(pos, Owner(pos))
        /\ UNCHANGED <<conf, index, called, tokens>>
    BY <1>6 DEF FilterLoggedIn, FilterUpstream, FilterAnswer, FilterError,
                AtOn, AtModule, AtEnd, Answering
  <2>2. ASSUME NEW p \in Positions
        PROVE  Safe(p)
    <3>1. CASE p < pos
      BY <2>1, <3>1 DEF CaptureInv, Safe
    <3>2. CASE p = pos
      BY <2>1, <3>2 DEF Safe, Captured, Responsible, Answering
    <3>3. CASE pos < p
      BY <2>1, <3>3 DEF Safe, CutOff
    <3> QED
      BY <2>1, <3>1, <3>2, <3>3, ChainFacts
  <2> QED
    BY <2>1, <2>2, CaptureKept DEF CaptureInv
<1>7. CASE FilterEnd
  <2>1. /\ phase = "filter" /\ phase' = "peer" /\ AtEnd
        /\ UNCHANGED <<conf, index, called, tokens>>
    BY <1>7 DEF FilterEnd
  <2>2. \A p \in Positions : p < pos \/ Owner(p) = None
    BY <2>1, ChainFacts, HandlersAssumption
    DEF AtEnd, Owner, IsTop, TypeOK, Handlers
  <2>3. \A p \in Positions : Safe(p)
    BY <2>1, <2>2 DEF CaptureInv, Captured, Responsible, On, Safe
  <2> QED
    BY <2>1, <2>3, CaptureKept DEF CaptureInv
<1>8. CASE Upstream
  <2>1. /\ phase \in {"peer", "upstream"} /\ phase' \in {"peer", "upstream", "logging"}
        /\ UNCHANGED <<conf, index, called, tokens>>
    BY <1>8 DEF Upstream, UpstreamPeer, NoUpstreamPeer, UpstreamRetry,
                UpstreamResponse, UpstreamError
  <2> QED
    BY <2>1, CaptureKept DEF CaptureInv
<1>9. CASE LogModule \/ LogEnd \/ UNCHANGED vars
  <2>1. /\ UNCHANGED <<conf, index, called, tokens>>
        /\ \/ UNCHANGED <<phase, pos>>
           \/ phase = "logging" /\ phase' = "logging" /\ pos' = pos + 1
           \/ phase' = "done"
    BY <1>9 DEF LogModule, LogEnd, vars
  <2>2. /\ \A p : Responsible(p)' = Responsible(p)
        /\ \A p : CutOff(p) => CutOff(p)'
    BY <2>1, OnKept, CutOffKept DEF Responsible
  <2> QED
    BY <2>1, <2>2, CaptureKept, ChainFacts DEF CaptureInv, TypeOK
<1>10. CASE LogLine
  <2>1. /\ UNCHANGED <<conf, index, called>> /\ pos \in Positions
        /\ phase = "logging" /\ phase' = "logging" /\ pos' = pos + 1
    BY <1>10 DEF LogLine, AtEnd
  <2>2. \A p \in Positions : p # pos => tokens'[p] = tokens[p]
    BY <1>10 DEF LogLine, TypeOK
  <2>3. ASSUME NEW p \in Positions, p > pos
        PROVE  Safe(p)'
    <3>1. Safe(p) /\ p # pos
      BY <2>1, <2>3, ChainFacts DEF CaptureInv
    <3>2. Captured(p) => Captured(p)'
      BY <2>1, <2>2, <3>1, OnKept DEF Captured, Responsible
    <3> QED
      BY <2>1, <3>1, <3>2, CutOffKept DEF Safe
  <2> QED
    BY <2>1, <2>3, ChainFacts DEF CaptureInv
<1>11. CASE LogPanic
  <2>1. /\ pos \in Positions /\ Responsible(pos) /\ tokens[pos] = None
        /\ phase = "logging" /\ phase' = "panicked"
        /\ UNCHANGED <<conf, index, called, pos>>
    BY <1>11 DEF LogPanic, AtEnd, Responsible
  <2>2. CutOff(pos)
    BY <2>1, ChainFacts DEF CaptureInv, Safe, Captured
  <2>3. Responsible(pos)' /\ CutOff(pos)'
    BY <2>1, <2>2, OnKept, CutOffKept DEF Responsible
  <2> QED
    BY <2>1, <2>3 DEF CaptureInv
<1> QED
    BY <1>1, <1>2, <1>3, <1>4, <1>5, <1>6, <1>7, <1>8, <1>9, <1>10, <1>11
    DEF Next, Early, Filter, Logging

(* With the log module ahead of whatever can answer, no request reaches    *)
(* the unwrap() in logging() without the tokens of request_filter().       *)
THEOREM LogFirstNeverPanics ==
    ASSUME LogFirst
    PROVE  Spec => []CapturedBeforeLogged
<1>1. Init => TypeOK /\ CaptureInv
    BY TypeInit DEF Init, CaptureInv
<1>2. TypeOK /\ CaptureInv /\ [Next]_vars => (TypeOK /\ CaptureInv)'
    BY TypeNext, CaptureNext
<1>3. CaptureInv => CapturedBeforeLogged
  <2>1. \A p \in Positions : Chain[p] = "log" => ~CutOff(p)
    BY DEF LogFirst, CutOff
  <2> QED
    BY <2>1 DEF CaptureInv, CapturedBeforeLogged, Responsible
<1> QED
    BY <1>1, <1>2, <1>3, PTL DEF Spec

-----------------------------------------------------------------------------
(* The context that Handled leaves for upstream_peer, and nothing else, is *)
(* what upstream_peer finds.                                               *)
HandledInv ==
    /\ phase \in EarlyPhases \union {"filter"} => handled = None
    /\ peerCtx = IF handled = None THEN {} ELSE {handled}
    /\ handled # None => Owner(handled) # None
    /\ phase \in EarlyPhases \union {"filter"} => error # "not_found"
    /\ HandledIsServed

LEMMA HandledNext == TypeOK /\ HandledInv /\ [Next]_vars => HandledInv'
<1> SUFFICES ASSUME TypeOK, HandledInv, [Next]_vars
             PROVE  HandledInv'
    OBVIOUS
<1> USE DEF session, results, Fail, Unhandled, Owner, AsInner, Retrieve,
            HandledInv, HandledIsServed, EarlyPhases
<1>1. CASE EarlyTop \/ EarlyHost \/ LookupHost \/ EarlyError \/ EarlyTopEnd
              \/ LookupNothing \/ EarlyHostEnd
    BY <1>1 DEF EarlyTop, EarlyHost, EarlyModule, LookupHost, EarlyError,
                EarlyTopEnd, LookupNothing, EarlyHostEnd
<1>2. CASE FilterOff \/ FilterLog \/ FilterAuthorized \/ FilterLoginPage
              \/ FilterRewrite \/ FilterDeclined
    BY <1>2 DEF FilterOff, FilterLog, FilterAuthorized, FilterLoginPage,
                FilterRewrite, FilterDeclined, AtOn, AtModule
<1>3. CASE FilterLoggedIn \/ FilterAnswer \/ FilterError \/ FilterEnd
    BY <1>3 DEF FilterLoggedIn, FilterAnswer, FilterError, FilterEnd, AtOn,
                AtModule
<1>4. CASE FilterUpstream
  <2>1. pos \in Positions /\ Owner(pos) # None
    BY <1>4 DEF FilterUpstream, AtOn, AtModule, AtEnd
  <2>2. /\ phase = "filter" /\ phase' = "peer" /\ handled' = pos
        /\ peerCtx' = peerCtx \union {pos}
        /\ UNCHANGED <<index, error>>
    BY <1>4 DEF FilterUpstream, AtOn, AtModule
  <2>3. peerCtx = {} /\ error # "not_found"
    BY <2>2
  <2>4. pos # None
    BY <2>1, ChainFacts, HandlersAssumption
  <2> QED
    BY <2>1, <2>2, <2>3, <2>4
<1>5. CASE UpstreamPeer
    BY <1>5 DEF UpstreamPeer, Peers
<1>6. CASE NoUpstreamPeer \/ UpstreamRetry
    BY <1>6 DEF NoUpstreamPeer, UpstreamRetry, Peers
<1>7. CASE UpstreamResponse \/ UpstreamError
    BY <1>7 DEF UpstreamResponse, UpstreamError
<1>8. CASE Logging
    BY <1>8 DEF Logging, LogModule, LogLine, LogPanic, LogEnd
<1>9. CASE UNCHANGED vars
    BY <1>9 DEF vars
<1> QED
    BY <1>1, <1>2, <1>3, <1>4, <1>5, <1>6, <1>7, <1>8, <1>9
    DEF Next, Early, Filter, Upstream

(* A request that a module declared Handled gets that module's peer: it is *)
(* never answered with 404 and never sent elsewhere.                       *)
THEOREM HandledReachesPeer == Spec => []HandledIsServed
<1>1. Init => TypeOK /\ HandledInv
    BY TypeInit, NoneAssumption DEF Init, HandledInv, HandledIsServed, Errors
<1>2. TypeOK /\ HandledInv /\ [Next]_vars => (TypeOK /\ HandledInv)'
    BY TypeNext, HandledNext
<1>3. HandledInv => HandledIsServed
    BY DEF HandledInv
<1> QED
    BY <1>1, <1>2, <1>3, PTL DEF Spec

-----------------------------------------------------------------------------
(***************************************************************************)
(* The handler of the later phases: an index of the fallback trie is       *)
(* looked up among the values of the main trie, so without a condition on  *)
(* the router it is not the one early_request_filter ran.                  *)
(***************************************************************************)
WellIndexed == \A i \in 1 .. Len(Fallback) : Retrieve(i) = Fallback[i]

HandlerInv ==
    \/ index = None /\ called = None
    \/ called # None /\ AsInner = called

(* Only the lookup selects a handler.                                      *)
LEMMA SelectionKept ==
    [Next]_vars => LookupHost \/ UNCHANGED <<conf, index, called>>
BY DEF Next, Early, Filter, Upstream, Logging, vars, session, results,
       EarlyTop, EarlyHost, EarlyModule, EarlyError, EarlyTopEnd,
       LookupNothing, EarlyHostEnd, FilterOff, FilterLog, FilterAuthorized,
       FilterLoginPage, FilterLoggedIn, FilterRewrite, FilterDeclined,
       FilterUpstream, FilterAnswer, FilterError, FilterEnd, UpstreamPeer,
       NoUpstreamPeer, UpstreamRetry, UpstreamResponse, UpstreamError,
       LogModule, LogLine, LogPanic, LogEnd

LEMMA HandlerNext ==
    ASSUME WellIndexed, HandlerInv, [Next]_vars
    PROVE  HandlerInv'
<1>1. CASE LookupHost
  <2>1. PICK i \in 1 .. Len(Main) \union 1 .. Len(Fallback) :
            /\ index' = i /\ called' \in Hosts
            /\ \/ i \in 1 .. Len(Main) /\ called' = Main[i]
               \/ i \in 1 .. Len(Fallback) /\ called' = Fallback[i]
    BY <1>1, HandlersAssumption DEF LookupHost
  <2>2. index' # None /\ called' # None
    BY <2>1, HandlersAssumption DEF Handlers
  <2>3. Retrieve(index') = called'
    BY <2>1 DEF WellIndexed, Retrieve
  <2> QED
    BY <2>2, <2>3 DEF HandlerInv, AsInner
<1>2. CASE UNCHANGED <<conf, index, called>>
    BY <1>2 DEF HandlerInv, AsInner
<1> QED
    BY <1>1, <1>2, SelectionKept

-----------------------------------------------------------------------------
(***************************************************************************)
(* AnswerIsFinal: a response header takes the request to logging, which    *)
(* leaves everything but the log lines and their tokens alone.             *)
(***************************************************************************)
LEMMA FinalStep ==
    ASSUME TypeOK, GateInv, [Next]_vars, response # None
    PROVE  /\ phase' \in {"logging", "done", "panicked"}
           /\ UNCHANGED <<index, session, peerCtx, handled, response, error>>
<1>1. phase \in {"logging", "done", "panicked"}
    BY DEF TypeOK, GateInv, EarlyPhases
<1>2. CASE Logging
    BY <1>2 DEF Logging, LogModule, LogLine, LogPanic, LogEnd, session, results
<1>3. CASE UNCHANGED vars
    BY <1>1, <1>3 DEF vars, session
<1>4. ~(Early \/ Filter \/ Upstream)
    BY <1>1
    DEF Early, Filter, Upstream, EarlyTop, EarlyHost, EarlyError, EarlyTopEnd,
        LookupHost, LookupNothing, EarlyHostEnd, FilterOff, FilterLog,
        FilterAuthorized, FilterLoginPage, FilterLoggedIn, FilterRewrite,
        FilterDeclined, FilterUpstream, FilterAnswer, FilterError, FilterEnd,
        AtOn, AtModule, UpstreamPeer, NoUpstreamPeer, UpstreamRetry,
        UpstreamResponse, UpstreamError
<1> QED
    BY <1>2, <1>3, <1>4 DEF Next

(* After a response header is written nothing answers again, fails the     *)
(* request, or changes its URI, its user or its peer.                      *)
THEOREM AnswersAreFinal == Spec => AnswerIsFinal
<1>1. Init => TypeOK /\ GateInv
    BY TypeInit, GateInit
<1>2. TypeOK /\ GateInv /\ [Next]_vars => (TypeOK /\ GateInv)'
    BY TypeNext, GateNext
<1>3. TypeOK /\ GateInv /\ [Next]_vars =>
        [response # None =>
            /\ phase' \in {"logging", "done", "panicked"}
            /\ UNCHANGED <<index, session, peerCtx, handled, response,
                           error>>]_vars
    BY FinalStep
<1> QED
    BY <1>1, <1>2, <1>3, PTL DEF Spec, AnswerIsFinal

-----------------------------------------------------------------------------
(***************************************************************************)
(* What is written to the log: the URI, the address and the number of the  *)
(* lines.  Lines are made from the tokens that request_filter saved, and   *)
(* only three kinds of steps touch either.                                 *)
(***************************************************************************)
LEMMA TokensStep ==
    [Next]_vars => UNCHANGED <<tokens, lines>> \/ FilterLog \/ LogLine
BY DEF Next, Early, Filter, Upstream, Logging, vars, session, results,
       EarlyTop, EarlyHost, EarlyModule, EarlyError, EarlyTopEnd, LookupHost,
       LookupNothing, EarlyHostEnd, FilterOff, FilterAuthorized,
       FilterLoginPage, FilterLoggedIn, FilterRewrite, FilterDeclined,
       FilterUpstream, FilterAnswer, FilterError, FilterEnd, UpstreamPeer,
       NoUpstreamPeer, UpstreamRetry, UpstreamResponse, UpstreamError,
       LogModule, LogPanic, LogEnd

(* FilterLog saves one module's tokens and leaves those of the others.     *)
LEMMA TokensSaved ==
    ASSUME TypeOK, FilterLog
    PROVE  /\ pos \in Positions /\ lines' = lines
           /\ tokens'[pos] = [addr |-> addr, uri |-> OriginalUri]
           /\ \A p \in Positions : p # pos => tokens'[p] = tokens[p]
BY DEF TypeOK, FilterLog, AtOn, AtModule, AtEnd

(* LogLine turns the tokens of the module at pos into the last line.       *)
LEMMA LineAdded ==
    ASSUME TypeOK, LogLine
    PROVE  /\ pos \in Positions /\ tokens[pos] # None
           /\ DOMAIN lines' = DOMAIN lines \union {Len(lines) + 1}
           /\ \A i \in DOMAIN lines :
                  i \in 1 .. Len(lines) /\ lines'[i] = lines[i]
           /\ lines'[Len(lines) + 1].at = pos
           /\ lines'[Len(lines) + 1].addr = tokens[pos].addr
           /\ lines'[Len(lines) + 1].uri = tokens[pos].uri
           /\ tokens'[pos] = None
           /\ \A p \in Positions : p # pos => tokens'[p] = tokens[p]
<1> DEFINE line == [at |-> pos, addr |-> tokens[pos].addr,
                    uri |-> tokens[pos].uri, user |-> user,
                    handler |-> Owner(pos)]
<1>1. pos \in Positions /\ tokens[pos] # None /\ lines' = Append(lines, line)
    BY DEF LogLine, AtEnd
<1>2. lines \in Seq(Lines) /\ Len(lines) \in Nat
    BY DEF TypeOK
<1>3. line.at = pos /\ line.addr = tokens[pos].addr /\ line.uri = tokens[pos].uri
    OBVIOUS
<1> HIDE DEF line
<1>4. /\ DOMAIN lines' = 1 .. (Len(lines) + 1)
      /\ \A i \in 1 .. Len(lines) : lines'[i] = lines[i]
      /\ lines'[Len(lines) + 1] = line
    BY <1>1, <1>2
<1>5. /\ tokens'[pos] = None
      /\ \A p \in Positions : p # pos => tokens'[p] = tokens[p]
    BY <1>1 DEF LogLine, TypeOK
<1> QED
    BY <1>1, <1>2, <1>3, <1>4, <1>5

-----------------------------------------------------------------------------
(***************************************************************************)
(* OriginalUriKept.  The URI is replaced by one virtual host, by rewrite   *)
(* modules and by login pages, any number of times and in any order.       *)
(***************************************************************************)
UriInv ==
    /\ OriginalUri = ClientUri
    /\ \A p \in Positions : tokens[p] # None => tokens[p].uri = ClientUri
    /\ \A i \in DOMAIN lines : lines[i].uri = ClientUri

(* A URI is set in no other way than by set_uri.                           *)
LEMMA UriStep ==
    [Next]_vars => UNCHANGED <<uri, original>> \/ SetUri(uri')
BY DEF Next, Early, Filter, Upstream, Logging, vars, session, results,
       EarlyTop, EarlyHost, EarlyModule, EarlyError, EarlyTopEnd, LookupHost,
       LookupNothing, EarlyHostEnd, FilterOff, FilterLog, FilterAuthorized,
       FilterLoginPage, FilterLoggedIn, FilterRewrite, FilterDeclined,
       FilterUpstream, FilterAnswer, FilterError, FilterEnd, UpstreamPeer,
       NoUpstreamPeer, UpstreamRetry, UpstreamResponse, UpstreamError,
       LogModule, LogLine, LogPanic, LogEnd, SetUri

LEMMA UriNext == TypeOK /\ UriInv /\ [Next]_vars => UriInv'
<1> SUFFICES ASSUME TypeOK, UriInv, [Next]_vars PROVE UriInv'
    OBVIOUS
<1>1. OriginalUri' = ClientUri
    BY UriStep, NoneAssumption DEF UriInv, OriginalUri, SetUri, TypeOK
<1>2. CASE UNCHANGED <<tokens, lines>>
    BY <1>1, <1>2 DEF UriInv
<1>3. CASE FilterLog
    BY <1>1, <1>3, TokensSaved DEF UriInv
<1>4. CASE LogLine
    BY <1>1, <1>4, LineAdded DEF UriInv
<1> QED
    BY <1>2, <1>3, <1>4, TokensStep

(* original_uri() and every log line show the URI that the client sent,    *)
(* whatever the modules in between have made of it.                        *)
THEOREM OriginalUriIsKept == Spec => []OriginalUriKept
<1>1. Init => TypeOK /\ UriInv
    BY TypeInit DEF Init, UriInv, OriginalUri
<1>2. TypeOK /\ UriInv /\ [Next]_vars => (TypeOK /\ UriInv)'
    BY TypeNext, UriNext
<1>3. UriInv => OriginalUriKept
    BY DEF UriInv, OriginalUriKept
<1> QED
    BY <1>1, <1>2, <1>3, PTL DEF Spec

-----------------------------------------------------------------------------
(***************************************************************************)
(* LoggedOnce.  logging() walks down the chain once, so the lines are in   *)
(* the order of the modules; what it has passed is written, what is ahead  *)
(* of it is not, and where it panics it stops.                             *)
(***************************************************************************)
Written(p) == \E i \in DOMAIN lines : lines[i].at = p

OnceInv ==
    /\ phase \notin {"logging", "done", "panicked"} => lines = <<>>
    /\ \A i \in DOMAIN lines :
        lines[i].at \in Positions /\ lines[i].at < pos /\ Responsible(lines[i].at)
    /\ \A i, j \in DOMAIN lines : i < j => lines[i].at < lines[j].at
    /\ phase \in {"logging", "panicked"} =>
        \A p \in Positions : p < pos /\ Responsible(p) => Written(p)
    /\ phase = "done" => \A p \in Positions : Responsible(p) => Written(p)

(* Before logging() no phase writes a line; the one that ends before it    *)
(* leaves the whole chain ahead.                                           *)
LEMMA BeforeLogging ==
    ASSUME TypeOK, Early \/ Filter \/ Upstream
    PROVE  /\ phase \notin {"logging", "done", "panicked"} /\ lines' = lines
           /\ phase' \notin {"done", "panicked"}
           /\ phase' = "logging" => pos' = 1
BY DEF Early, Filter, Upstream, session, results, Fail, Unhandled,
       EarlyTop, EarlyHost, EarlyModule, EarlyError, EarlyTopEnd, LookupHost,
       LookupNothing, EarlyHostEnd, FilterOff, FilterLog, FilterAuthorized,
       FilterLoginPage, FilterLoggedIn, FilterRewrite, FilterDeclined,
       FilterUpstream, FilterAnswer, FilterError, FilterEnd, AtOn, AtModule,
       UpstreamPeer, NoUpstreamPeer, UpstreamRetry, UpstreamResponse,
       UpstreamError

LEMMA OnceNext == TypeOK /\ OnceInv /\ [Next]_vars => OnceInv'
<1> SUFFICES ASSUME TypeOK, OnceInv, [Next]_vars PROVE OnceInv'
    OBVIOUS
<1> USE DEF session, results
<1>1. CASE Early \/ Filter \/ Upstream
  <2>1. lines' = <<>>
    BY <1>1, BeforeLogging DEF OnceInv
  <2>2. \A p \in Positions : ~(p < 1)
    BY ChainFacts
  <2> QED
    BY <1>1, <2>1, <2>2, BeforeLogging DEF OnceInv
<1>2. CASE LogModule
  <2>1. /\ phase = "logging" /\ phase' = "logging" /\ pos' = pos + 1
        /\ UNCHANGED <<conf, index, lines>> /\ ~Responsible(pos)
    BY <1>2 DEF LogModule, Responsible
  <2>2. \A p : Responsible(p)' = Responsible(p)
    BY <2>1, OnKept DEF Responsible
  <2>3. \A p \in Positions : p < pos + 1 => p < pos \/ p = pos
    BY ChainFacts DEF TypeOK
  <2>4. \A p \in Positions : p < pos => p < pos + 1
    BY ChainFacts DEF TypeOK
  <2> QED
    BY <2>1, <2>2, <2>3, <2>4 DEF OnceInv, Written
<1>3. CASE LogLine
  <2> DEFINE new == Len(lines) + 1
  <2>1. /\ phase = "logging" /\ phase' = "logging" /\ pos' = pos + 1
        /\ UNCHANGED <<conf, index>> /\ Responsible(pos)
    BY <1>3 DEF LogLine, Responsible
  <2>2. \A p : Responsible(p)' = Responsible(p)
    BY <2>1, OnKept DEF Responsible
  <2>3. \A i \in DOMAIN lines' : i \in DOMAIN lines \/ i = new
    BY <1>3, LineAdded
  <2>4. \A i \in DOMAIN lines' :
            /\ lines'[i].at \in Positions /\ lines'[i].at < pos'
            /\ Responsible(lines'[i].at)
    BY <1>3, <2>1, <2>3, LineAdded, ChainFacts DEF OnceInv
  <2>5. ASSUME NEW i \in DOMAIN lines', NEW j \in DOMAIN lines', i < j
        PROVE  lines'[i].at < lines'[j].at
    <3>1. i \in DOMAIN lines
      BY <1>3, <2>3, <2>5, LineAdded
    <3> QED
      BY <1>3, <2>3, <2>5, <3>1, LineAdded DEF OnceInv
  <2>6. ASSUME NEW p \in Positions, p < pos', Responsible(p)
        PROVE  Written(p)'
    <3>1. CASE p = pos
      BY <1>3, <3>1, LineAdded DEF Written
    <3>2. CASE p < pos
      BY <1>3, <2>1, <2>6, <3>2, LineAdded DEF OnceInv, Written
    <3> QED
      BY <2>1, <2>6, <3>1, <3>2, ChainFacts DEF TypeOK
  <2> QED
    BY <2>1, <2>2, <2>4, <2>5, <2>6 DEF OnceInv
<1>4. CASE LogEnd
  <2>1. /\ phase = "logging" /\ phase' = "done" /\ AtEnd
        /\ UNCHANGED <<conf, index, pos, lines>>
    BY <1>4 DEF LogEnd
  <2>2. \A p : Responsible(p)' = Responsible(p)
    BY <2>1, OnKept DEF Responsible
  <2>3. \A p \in Positions : p < pos \/ Owner(p) = None
    BY <2>1, ChainFacts, HandlersAssumption
    DEF AtEnd, Owner, IsTop, TypeOK, Handlers
  <2>4. \A p \in Positions : Responsible(p) => Written(p)
    BY <2>1, <2>3 DEF OnceInv, Responsible, On
  <2> QED
    BY <2>1, <2>2, <2>4 DEF OnceInv, Written
<1>5. CASE LogPanic \/ UNCHANGED vars
  <2>1. /\ UNCHANGED <<conf, index, pos, lines>>
        /\ \/ phase' = phase
           \/ phase = "logging" /\ phase' = "panicked"
    BY <1>5 DEF LogPanic, vars
  <2>2. \A p : Responsible(p)' = Responsible(p)
    BY <2>1, OnKept DEF Responsible
  <2> QED
    BY <2>1, <2>2 DEF OnceInv, Written
<1> QED
    BY <1>1, <1>2, <1>3, <1>4, <1>5 DEF Next, Logging

(* Of each log module responsible for a request that logging() got to      *)
(* there is exactly one line, of every other module there is none.         *)
LEMMA OnceCounted == TypeOK /\ OnceInv /\ CaptureInv => LoggedOnce
<1> SUFFICES ASSUME TypeOK, OnceInv, CaptureInv, phase \in {"done", "panicked"},
                    NEW p \in Positions
             PROVE  Cardinality({i \in DOMAIN lines : lines[i].at = p}) =
                        IF Responsible(p) /\ (phase = "done" \/ p < pos) THEN 1 ELSE 0
    BY DEF LoggedOnce, CaptureInv
<1> DEFINE S == {i \in DOMAIN lines : lines[i].at = p}
           Due == Responsible(p) /\ (phase = "done" \/ p < pos)
<1>1. CASE Due
  <2>1. PICK i \in DOMAIN lines : lines[i].at = p
    BY <1>1 DEF OnceInv, Written
  <2>2. ASSUME NEW j \in DOMAIN lines, lines[j].at = p
        PROVE  j = i
    <3>1. i \in Nat /\ j \in Nat /\ p \in Int
      BY ChainFacts DEF TypeOK
    <3>2. ~(lines[i].at < lines[j].at) /\ ~(lines[j].at < lines[i].at)
      BY <2>1, <2>2, <3>1
    <3> QED
      BY <3>1, <3>2 DEF OnceInv
  <2>3. S = {i}
    BY <2>1, <2>2
  <2> QED
    BY <1>1, <2>3, FS_Singleton
<1>2. CASE ~Due
  <2>1. S = {}
    BY <1>2 DEF OnceInv
  <2> QED
    BY <1>2, <2>1, FS_EmptySet
<1> QED
    BY <1>1, <1>2

(* A request that ended, by an answer or an error in whichever phase, left *)
(* exactly one line of each log module responsible for it and no other; if *)
(* logging() panicked, those ahead of the module where it did, which is    *)
(* one that something could answer or fail ahead of.                       *)
THEOREM LoggedExactlyOnce == Spec => []LoggedOnce
<1>1. Init => TypeOK /\ OnceInv /\ CaptureInv
    BY TypeInit DEF Init, OnceInv, CaptureInv
<1>2. TypeOK /\ OnceInv /\ CaptureInv /\ [Next]_vars =>
          (TypeOK /\ OnceInv /\ CaptureInv)'
    BY TypeNext, OnceNext, CaptureNext
<1>3. TypeOK /\ OnceInv /\ CaptureInv => LoggedOnce
    BY OnceCounted
<1> QED
    BY <1>1, <1>2, <1>3, PTL DEF Spec

-----------------------------------------------------------------------------
(***************************************************************************)
(* AnonymizedLog.  Anonymization switched on for the whole server always   *)
(* protects the log.  Switched on for a virtual host it does so if the     *)
(* handler that early_request_filter ran is the one that logs.             *)
(***************************************************************************)
AnonymizationAtTop ==
    \A p \in Positions : Chain[p] = "anonymization" => IsTop(p)

Anonymizing(p) == Chain[p] = "anonymization" /\ On(p, Owner(p))

(* The modules before n have changed the address if they had to.           *)
Masked(n) ==
    \A p \in Positions : p < n /\ Anonymizing(p) => addr = "anonymized"

MaskedTokens ==
    \A p, q \in Positions :
        tokens[p] # None /\ Anonymizing(q) => tokens[p].addr = "anonymized"

NothingCaptured == \A p \in Positions : tokens[p] = None

(* Either the early phase was run to its end, or it failed and the request *)
(* is logged, if at all, without anything that request_filter saved.       *)
MaskInv ==
    /\ WellIndexed => HandlerInv
    /\ phase \in EarlyPhases => NothingCaptured /\ lines = <<>> /\ Masked(pos)
    /\ phase \in {"early_top", "lookup"} => index = None
    /\ phase = "lookup" => pos = HostStart
    /\ phase = "early_host" => pos >= HostStart /\ called # None
    /\ phase = "filter" => Masked(Len(Chain) + 1)
    /\ phase \notin EarlyPhases => NothingCaptured \/ Masked(Len(Chain) + 1)
    /\ MaskedTokens
    /\ AnonymizedLog

LEMMA MaskedKept ==
    ASSUME UNCHANGED <<conf, index, addr>>
    PROVE  /\ \A p : Anonymizing(p)' = Anonymizing(p)
           /\ \A n : Masked(n)' = Masked(n)
BY OnKept DEF Masked, Anonymizing

(* The early phase of the module at pos masks the address if that module   *)
(* is configured to, and the next module follows.                          *)
LEMMA MaskAdvance ==
    ASSUME TypeOK, pos \in Positions, Masked(pos), pos' = pos + 1,
           UNCHANGED <<conf, index>>,
           addr' = addr \/ addr' = "anonymized",
           Anonymizing(pos) => addr' = "anonymized"
    PROVE  Masked(pos)'
<1>1. \A p : Anonymizing(p)' = Anonymizing(p)
    BY OnKept DEF Anonymizing
<1>2. \A p \in Positions : p < pos' => p < pos \/ p = pos
    BY ChainFacts
<1> QED
    BY <1>1, <1>2 DEF Masked

(* A request of which nothing is captured or logged has nothing to mask.   *)
LEMMA StillNothing ==
    ASSUME NothingCaptured, lines = <<>>, UNCHANGED <<tokens, lines>>
    PROVE  (NothingCaptured /\ lines = <<>> /\ MaskedTokens /\ AnonymizedLog)'
BY DEF NothingCaptured, MaskedTokens, AnonymizedLog

LEMMA MaskNext ==
    ASSUME WellIndexed \/ AnonymizationAtTop, TypeOK, MaskInv, [Next]_vars
    PROVE  MaskInv'
<1> USE DEF session, results, EarlyPhases
<1> DEFINE End == Len(Chain) + 1
<1>0. WellIndexed => HandlerInv'
    BY HandlerNext DEF MaskInv
<1>1. CASE EarlyTop
  <2>1. /\ phase = "early_top" /\ phase' = "early_top" /\ pos' = pos + 1
        /\ UNCHANGED <<conf, index, called, tokens, lines>>
        /\ pos \in Positions /\ IsTop(pos)
    BY <1>1, ChainFacts DEF EarlyTop, EarlyModule, IsTop, TypeOK
  <2>2. Masked(pos)'
    BY <1>1, <2>1, MaskAdvance
    DEF EarlyTop, EarlyModule, MaskInv, Anonymizing, Owner
  <2> QED
    BY <1>0, <2>1, <2>2, StillNothing DEF MaskInv
<1>2. CASE EarlyHost
  <2>1. /\ phase = "early_host" /\ phase' = "early_host" /\ pos' = pos + 1
        /\ UNCHANGED <<conf, index, called, tokens, lines>>
        /\ pos \in Positions /\ ~IsTop(pos) /\ called # None
    BY <1>2, ChainFacts DEF EarlyHost, EarlyModule, IsTop, MaskInv
  <2>2. Anonymizing(pos) => On(pos, called)
    BY <2>1 DEF MaskInv, HandlerInv, AnonymizationAtTop, Anonymizing, Owner
  <2>3. Masked(pos)'
    BY <1>2, <2>1, <2>2, MaskAdvance
    DEF EarlyHost, EarlyModule, MaskInv, Anonymizing
  <2> QED
    BY <1>0, <2>1, <2>3, StillNothing, ChainFacts DEF MaskInv
<1>3. CASE EarlyError
  <2>1. /\ phase \in EarlyPhases /\ phase' = "logging"
        /\ UNCHANGED <<tokens, lines>>
    BY <1>3 DEF EarlyError, Fail
  <2> QED
    BY <1>0, <2>1, StillNothing DEF MaskInv
<1>4. CASE EarlyTopEnd
  <2>1. /\ phase = "early_top" /\ pos = HostStart
        /\ UNCHANGED <<conf, index, called, addr, tokens, lines>>
        /\ \/ phase' = "lookup" /\ pos' = pos
           \/ HostChain = <<>> /\ phase' = "filter"
    BY <1>4 DEF EarlyTopEnd
  <2>2. Masked(HostStart)'
    BY <2>1, MaskedKept DEF MaskInv
  <2>3. HostChain = <<>> => pos = End
    BY <2>1, ChainsAssumption DEF Chain, HostStart
  <2>4. CASE phase' = "lookup"
    BY <1>0, <2>1, <2>2, <2>4, StillNothing DEF MaskInv
  <2>5. CASE phase' = "filter"
    <3>1. Masked(End)'
      BY <2>1, <2>3, <2>5, MaskedKept DEF MaskInv
    <3> QED
      BY <1>0, <2>1, <2>5, <3>1, StillNothing DEF MaskInv
  <2> QED
    BY <2>1, <2>4, <2>5
<1>5. CASE LookupHost
  <2>1. /\ phase = "lookup" /\ phase' = "early_host" /\ pos = HostStart
        /\ UNCHANGED <<conf, pos, addr, tokens, lines>>
    BY <1>5 DEF LookupHost, MaskInv
  <2>2. called' # None
    BY <1>5, HandlersAssumption DEF LookupHost, Handlers
  <2>3. ASSUME NEW p \in Positions, p < HostStart
        PROVE  Anonymizing(p)' = Anonymizing(p)
    BY <2>1, <2>3 DEF Anonymizing, On, Owner, IsTop
  <2>4. Masked(pos)'
    BY <2>1, <2>3 DEF Masked, MaskInv
  <2> QED
    BY <1>0, <2>1, <2>2, <2>4, StillNothing, ChainFacts DEF MaskInv
<1>6. CASE LookupNothing \/ EarlyHostEnd
  <2>1. /\ phase \in {"lookup", "early_host"} /\ phase' = "filter"
        /\ UNCHANGED <<conf, index, called, addr, tokens, lines>>
    BY <1>6 DEF LookupNothing, EarlyHostEnd
  <2>2. Masked(End)
    <3>1. CASE LookupNothing
      <4>1. pos = HostStart /\ index = None
        BY <3>1 DEF LookupNothing, MaskInv
      <4>2. \A p \in Positions : p < HostStart \/ ~Anonymizing(p)
        BY <4>1 DEF Anonymizing, On, Owner, AsInner, IsTop
      <4> QED
        BY <2>1, <4>1, <4>2 DEF Masked, MaskInv
    <3>2. CASE EarlyHostEnd
      BY <2>1, <3>2, ChainFacts DEF EarlyHostEnd, MaskInv, Masked, TypeOK
    <3> QED
      BY <1>6, <3>1, <3>2
  <2>3. Masked(End)'
    BY <2>1, <2>2, MaskedKept
  <2> QED
    BY <1>0, <2>1, <2>3, StillNothing DEF MaskInv
<1>7. CASE FilterLog
  <2>1. /\ phase = "filter" /\ phase' = "filter" /\ Masked(End)
        /\ UNCHANGED <<conf, index, called, addr, lines>>
    BY <1>7 DEF FilterLog, AtOn, AtModule, Unhandled, MaskInv
  <2>2. Masked(End)' /\ \A p : Anonymizing(p)' = Anonymizing(p)
    BY <2>1, MaskedKept
  <2>3. \A q \in Positions : Anonymizing(q) => addr = "anonymized"
    BY <2>1, ChainFacts DEF Masked
  <2>4. MaskedTokens'
    BY <1>7, <2>2, <2>3, TokensSaved DEF MaskedTokens, MaskInv
  <2>5. AnonymizedLog'
    BY <2>1, <2>2 DEF AnonymizedLog, Anonymizing, MaskInv
  <2> QED
    BY <1>0, <2>1, <2>2, <2>4, <2>5 DEF MaskInv
<1>8. CASE LogLine
  <2>1. /\ phase = "logging" /\ phase' = "logging"
        /\ UNCHANGED <<conf, index, called, addr>>
    BY <1>8 DEF LogLine, session
  <2>2. Masked(End) /\ Masked(End)' /\ \A p : Anonymizing(p)' = Anonymizing(p)
    BY <1>8, <2>1, MaskedKept, LineAdded DEF MaskInv, NothingCaptured
  <2>3. MaskedTokens'
    BY <1>8, <2>2, LineAdded DEF MaskedTokens, MaskInv
  <2>4. AnonymizedLog'
    BY <1>8, <2>2, LineAdded DEF AnonymizedLog, Anonymizing, MaskedTokens, MaskInv
  <2> QED
    BY <1>0, <2>1, <2>2, <2>3, <2>4 DEF MaskInv
<1>9. CASE UNCHANGED <<conf, index, addr, tokens, lines>> /\ phase \notin EarlyPhases
              /\ phase' \notin EarlyPhases
              /\ (phase' = "filter" => phase = "filter")
  <2>1. \A p : Anonymizing(p)' = Anonymizing(p)
    BY <1>9, MaskedKept
  <2>2. Masked(End)' = Masked(End)
    BY <1>9, MaskedKept
  <2>3. MaskedTokens' /\ AnonymizedLog' /\ NothingCaptured' = NothingCaptured
    BY <1>9, <2>1
    DEF MaskedTokens, AnonymizedLog, NothingCaptured, Anonymizing, MaskInv
  <2> QED
    BY <1>0, <1>9, <2>2, <2>3 DEF MaskInv
<1>10. CASE UNCHANGED vars
  <2>1. /\ \A p : Anonymizing(p)' = Anonymizing(p)
        /\ \A n : Masked(n)' = Masked(n)
    BY <1>10, MaskedKept DEF vars
  <2>2. MaskedTokens' /\ AnonymizedLog' /\ NothingCaptured' = NothingCaptured
    BY <1>10, <2>1
    DEF MaskedTokens, AnonymizedLog, NothingCaptured, Anonymizing, MaskInv, vars
  <2> QED
    BY <1>0, <1>10, <2>1, <2>2 DEF MaskInv, vars
<1>11. ASSUME Filter \/ Upstream \/ Logging, ~FilterLog, ~LogLine
       PROVE  /\ UNCHANGED <<conf, index, addr, tokens, lines>>
              /\ phase \notin EarlyPhases /\ phase' \notin EarlyPhases
              /\ phase' = "filter" => phase = "filter"
    BY <1>11
    DEF Filter, Upstream, Logging, Fail, Unhandled, FilterOff,
        FilterAuthorized, FilterLoginPage, FilterLoggedIn, FilterRewrite,
        FilterDeclined, FilterUpstream, FilterAnswer, FilterError, FilterEnd,
        AtOn, AtModule, UpstreamPeer, NoUpstreamPeer, UpstreamRetry,
        UpstreamResponse, UpstreamError, LogModule, LogPanic, LogEnd
<1> QED
    BY <1>1, <1>2, <1>3, <1>4, <1>5, <1>6, <1>7, <1>8, <1>9, <1>10, <1>11
    DEF Next, Early

(* With anonymization configured for the whole server, or for a virtual    *)
(* host behind a router whose indexes mean the same in both tries, no log  *)
(* line has the full address of the client.                                *)
THEOREM AnonymizedAddresses ==
    ASSUME WellIndexed \/ AnonymizationAtTop
    PROVE  Spec => []AnonymizedLog
<1>1. Init => TypeOK /\ MaskInv
  <2>1. Init => NothingCaptured /\ Masked(1)
    BY ChainFacts DEF Init, NothingCaptured, Masked
  <2> QED
    BY <2>1, TypeInit
    DEF Init, MaskInv, HandlerInv, EarlyPhases, MaskedTokens, AnonymizedLog,
        NothingCaptured
<1>2. TypeOK /\ MaskInv /\ [Next]_vars => (TypeOK /\ MaskInv)'
    BY TypeNext, MaskNext
<1>3. MaskInv => AnonymizedLog
    BY DEF MaskInv
<1> QED
    BY <1>1, <1>2, <1>3, PTL DEF Spec

-----------------------------------------------------------------------------
(* Startup: one value for each name                                        *)

LEMMA LastOfThem ==
    ASSUME NEW n \in Nat, NEW P \in SUBSET (1 .. n), P # {}
    PROVE  \E i \in P : \A j \in i + 1 .. n : j \notin P
<1> DEFINE T == {n - i : i \in P}
<1>1. T \in SUBSET Nat /\ T # {}
  <2>1. \A i \in P : n - i \in Nat
    OBVIOUS
  <2> QED
    BY <2>1
<1>2. PICK m \in T : \A k \in T : ~(k < m)
    BY <1>1, LeastNumber
<1>3. PICK i \in P : m = n - i
    BY <1>2
<1>4. ASSUME NEW j \in i + 1 .. n, j \in P PROVE FALSE
  <2>1. n - j \in T
    BY <1>4
  <2>2. ~(n - j < n - i)
    BY <1>2, <1>3, <2>1
  <2> QED
    BY <2>2
<1> QED
    BY <1>4

LEMMA SomeEntry ==
    ASSUME NEW map, IsByNames(map), NEW order \in Orders(map), NEW name \in NamesOf(DOMAIN map)
    PROVE  \E names \in DOMAIN map :
              name \in Range(names) /\ ByName(map, order)[name] = map[names]
<1> DEFINE n == Cardinality(DOMAIN map)
           P == {i \in 1 .. n : name \in Range(order[i])}
           Counts(i) == /\ name \in Range(order[i])
                        /\ \A j \in i + 1 .. Len(order) : name \notin Range(order[j])
<1>1. n \in Nat
    BY FS_CardinalityType DEF IsByNames
<1>2. /\ order \in [1 .. n -> DOMAIN map]
      /\ \A names \in DOMAIN map : \E i \in 1 .. n : order[i] = names
    BY DEF Orders, Bijection, Injection, Surjection
<1>3. Len(order) = n /\ DOMAIN order = 1 .. n
    BY <1>1, <1>2
<1>4. P # {}
    BY <1>2 DEF NamesOf
<1>5. \E i \in DOMAIN order : Counts(i)
  <2>1. PICK i \in P : \A j \in i + 1 .. n : j \notin P
    BY <1>1, <1>4, LastOfThem
  <2>2. \A j \in i + 1 .. n : j \in 1 .. n
    BY <1>1, <2>1
  <2> QED
    BY <1>3, <2>1, <2>2
<1> DEFINE last == CHOOSE i \in DOMAIN order : Counts(i)
<1>6. last \in DOMAIN order /\ Counts(last)
    BY <1>5
<1>7. ByName(map, order)[name] = map[order[last]]
    BY DEF ByName
<1> QED
    BY <1>2, <1>3, <1>6, <1>7

(* The addresses of the server, as one who reads its settings expects them.*)
LEMMA Expected ==
    ASSUME opt \in Options
    PROVE  Range(ListenOn) =
             IF opt.listen # None THEN {AddressFrom(a.addr) : a \in Range(opt.listen)}
             ELSE IF settings.listen = <<>> THEN Range(DefaultListen)
             ELSE Range(settings.listen)
<1>1. CASE opt.listen # None
  <2>1. opt.listen # <<>> /\ \A a \in Range(opt.listen) : a = AddressFrom(a.addr)
    BY <1>1, OptionsAssumption
  <2>2. ListenOn = opt.listen
    BY <1>1, <2>1 DEF ListenOn
  <2> QED
    BY <1>1, <2>1, <2>2
<1>2. CASE opt.listen = None
    BY <1>2 DEF ListenOn
<1> QED
    BY <1>1, <1>2

-----------------------------------------------------------------------------
(* Startup: the invariant                                                  *)

UsesTls == \E a \in Range(ListenOn) : IsTls(a)
PlainAddresses == {a \in Range(ListenOn) : ~IsTls(a)}

IsRedirector(r) ==
    \E order \in Orders(settings.tls.redirector.redirect_by_name) :
        r = [listen |-> Range(settings.tls.redirector.listen),
             redirectTo |-> settings.tls.redirector.redirect_to,
             byName |-> ByName(settings.tls.redirector.redirect_by_name, order)]

Stages == {"loading", "configured", "plain", "redirector", "certificates", "running", "exited"}

SettingsInv ==
    /\ opt \in Options /\ stage \in Stages
    /\ stage \notin {"loading", "exited"} => AreSettings(settings)

(* What is listened on so far.                                             *)
ListenersInv ==
    /\ stage \in {"loading", "configured", "plain", "exited"} => listeners = {}
    /\ stage \in {"redirector", "certificates"} => listeners = PlainAddresses /\ UsesTls
    /\ stage = "running" => listeners = Range(ListenOn)

RedirectorInv ==
    /\ stage \notin {"certificates", "running"} => redirectors = {}
    /\ stage \in {"certificates", "running"} =>
          IF UsesTls /\ settings.tls.redirector.listen # <<>>
          THEN \E r : IsRedirector(r) /\ redirectors = {r}
          ELSE redirectors = {}

CertificatesInv ==
    stage = "running" /\ UsesTls =>
        /\ IsCertificate(settings.tls.default)
        /\ \A names \in DOMAIN settings.tls.server_names :
              IsCertificate(settings.tls.server_names[names])
        /\ \E order \in Orders(settings.tls.server_names) :
              certificates = CertificatesBy(settings.tls, order)

AnswerInv ==
    /\ stage # "running" => answer = <<>>
    /\ CertificateShown /\ RedirectedByName

StartupInv ==
    SettingsInv /\ ListenersInv /\ RedirectorInv /\ CertificatesInv /\ AnswerInv

LEMMA NoAnswer == answer = <<>> => CertificateShown /\ RedirectedByName
<1>1. DOMAIN <<>> = {}
    OBVIOUS
<1> QED
    BY <1>1 DEF CertificateShown, RedirectedByName

LEMMA StartupInitInv == StartupInit => StartupInv
BY NoAnswer DEF StartupInit, StartupInv, SettingsInv, ListenersInv, RedirectorInv,
                CertificatesInv, AnswerInv, Stages

(* Nothing of what is configured changes any more.                         *)
LEMMA SameSettings ==
    ASSUME UNCHANGED Configured
    PROVE  /\ UNCHANGED <<settings, opt>>
           /\ ListenOn' = ListenOn /\ UsesTls' = UsesTls /\ PlainAddresses' = PlainAddresses
           /\ \A r : IsRedirector(r)' <=> IsRedirector(r)
BY DEF Configured, ListenOn, UsesTls, PlainAddresses, IsRedirector

LEMMA SameAnswer ==
    ASSUME UNCHANGED Configured, UNCHANGED answer, CertificateShown, RedirectedByName
    PROVE  CertificateShown' /\ RedirectedByName'
BY DEF Configured, CertificateShown, RedirectedByName

LEMMA ExitKeeps ==
    ASSUME StartupInv, Exit, UNCHANGED Configured, UNCHANGED answer, stage # "running"
    PROVE  StartupInv'
<1>1. CertificateShown' /\ RedirectedByName'
    BY SameAnswer DEF StartupInv, AnswerInv
<1> QED
    BY <1>1 DEF StartupInv, SettingsInv, ListenersInv, RedirectorInv, CertificatesInv, AnswerInv,
                Exit, Configured, Stages

LEMMA ConfigureKeeps == StartupInv /\ Configure => StartupInv'
<1> SUFFICES ASSUME StartupInv, Configure PROVE StartupInv'
    OBVIOUS
<1>1. answer' = <<>>
    BY DEF StartupInv, AnswerInv, Configure
<1>2. CertificateShown' /\ RedirectedByName'
  <2>1. DOMAIN answer' = {}
    BY <1>1
  <2> QED
    BY <2>1 DEF CertificateShown, RedirectedByName
<1> QED
    BY <1>1, <1>2 DEF StartupInv, SettingsInv, ListenersInv, RedirectorInv, CertificatesInv,
                      AnswerInv, Configure, Stages

LEMMA SetUpKeeps ==
    ASSUME StartupInv, NEW accepted \in BOOLEAN, IntoServer(accepted)
    PROVE  StartupInv'
<1>1. UNCHANGED Configured /\ UNCHANGED answer /\ stage # "running"
    BY DEF IntoServer, CreateApp, AddPlain, SkipRedirector, CreateRedirector, AddTls
<1>2. CASE Exit
    BY <1>1, <1>2, ExitKeeps
<1>3. CertificateShown' /\ RedirectedByName' /\ answer' = <<>>
    BY <1>1, SameAnswer DEF StartupInv, AnswerInv
<1>4. opt' \in Options /\ settings' = settings
    BY <1>1 DEF StartupInv, SettingsInv, Configured
<1>5. /\ ListenOn' = ListenOn /\ UsesTls' = UsesTls /\ PlainAddresses' = PlainAddresses
      /\ \A r : IsRedirector(r)' <=> IsRedirector(r)
    BY <1>1, SameSettings
<1>6. CASE CreateApp(accepted) /\ ~Exit
    BY <1>3, <1>4, <1>5, <1>6 DEF CreateApp, StartupInv, SettingsInv, ListenersInv, RedirectorInv,
        CertificatesInv, AnswerInv, Stages
<1>7. CASE AddPlain
  <2>1. stage' = IF UsesTls THEN "redirector" ELSE "running"
    BY <1>7 DEF AddPlain, UsesTls
  <2>2. listeners' = PlainAddresses /\ redirectors' = {} /\ AreSettings(settings)
    BY <1>7 DEF AddPlain, PlainAddresses, StartupInv, RedirectorInv, SettingsInv
  <2>3. ~UsesTls => PlainAddresses = Range(ListenOn)
    BY DEF UsesTls, PlainAddresses
  <2> QED
    BY <1>3, <1>4, <1>5, <2>1, <2>2, <2>3 DEF StartupInv, SettingsInv, ListenersInv,
        RedirectorInv, CertificatesInv, AnswerInv, Stages
<1>8. CASE SkipRedirector
    BY <1>3, <1>4, <1>5, <1>8 DEF SkipRedirector, StartupInv, SettingsInv, ListenersInv,
        RedirectorInv, CertificatesInv, AnswerInv, Stages
<1>9. CASE CreateRedirector /\ ~Exit
  <2>1. PICK r : IsRedirector(r) /\ redirectors' = {r}
    BY <1>9 DEF CreateRedirector, IsRedirector
  <2>2. /\ stage = "redirector" /\ stage' = "certificates" /\ UNCHANGED listeners
        /\ settings.tls.redirector.listen # <<>>
    BY <1>9 DEF CreateRedirector
  <2> QED
    BY <1>3, <1>4, <1>5, <2>1, <2>2 DEF StartupInv, SettingsInv, ListenersInv, RedirectorInv,
        CertificatesInv, AnswerInv, Stages
<1>10. CASE AddTls /\ ~Exit
  <2>1. /\ stage = "certificates" /\ stage' = "running" /\ UNCHANGED redirectors
        /\ listeners' = PlainAddresses \union {a \in Range(ListenOn) : IsTls(a)}
    BY <1>10 DEF AddTls, StartupInv, ListenersInv
  <2>2. listeners' = Range(ListenOn)
    BY <2>1 DEF PlainAddresses
  <2>3. CertificatesInv'
    BY <1>4, <1>10 DEF AddTls, CertificatesInv
  <2> QED
    BY <1>3, <1>4, <1>5, <2>1, <2>2, <2>3 DEF StartupInv, SettingsInv, ListenersInv,
        RedirectorInv, AnswerInv, Stages
<1> QED
    BY <1>2, <1>6, <1>7, <1>8, <1>9, <1>10 DEF IntoServer

-----------------------------------------------------------------------------
(* Startup: what clients get                                               *)

LEMMA CertificateOf ==
    ASSUME StartupInv, NEW name \in ServerNames \union {None}, Handshake(name)
    PROVE  CertificateShown'
<1> DEFINE map == settings.tls.server_names
           own == {names \in DOMAIN map : name \in Range(names)}
<1>1. stage = "running" /\ UsesTls /\ AreSettings(settings)
    BY DEF Handshake, StartupInv, ListenersInv, SettingsInv, UsesTls
<1>2. PICK order \in Orders(map) : certificates = CertificatesBy(settings.tls, order)
    BY <1>1 DEF StartupInv, CertificatesInv
<1>3. /\ DOMAIN certificates = NamesOf(DOMAIN map) \union {""}
      /\ certificates[""] = settings.tls.default
      /\ \A n \in NamesOf(DOMAIN map) : n # "" => certificates[n] = ByName(map, order)[n]
    BY <1>2 DEF CertificatesBy
<1>4. /\ settings' = settings
      /\ answer'.name = name /\ answer'.certificate = CertificateFor(name)
    BY DEF Handshake, Configured
<1>5. own = {} <=> name \notin NamesOf(DOMAIN map)
    BY DEF NamesOf
<1>6. name # ""
    BY ClientsAssumption
<1>7. CASE name = None \/ own = {}
    BY <1>3, <1>4, <1>5, <1>6, <1>7 DEF CertificateFor, CertificateShown
<1>8. CASE name # None /\ own # {}
  <2>1. name \in NamesOf(DOMAIN map)
    BY <1>5, <1>8
  <2>2. PICK names \in DOMAIN map : name \in Range(names) /\ ByName(map, order)[name] = map[names]
    BY <1>1, <1>2, <2>1, SomeEntry DEF AreSettings
  <2>3. CertificateFor(name) = map[names]
    BY <1>3, <1>6, <1>8, <2>1, <2>2 DEF CertificateFor
  <2> QED
    BY <1>4, <1>8, <2>2, <2>3 DEF CertificateShown
<1> QED
    BY <1>7, <1>8

LEMMA LocationOf ==
    ASSUME StartupInv, NEW request \in PlainRequests, Redirect(request)
    PROVE  RedirectedByName'
<1> DEFINE map == settings.tls.redirector.redirect_by_name
           name == IF request.host = None THEN request.uriHost ELSE request.host[1]
           own == {names \in DOMAIN map : name \in Range(names)}
<1>1. PICK r \in redirectors :
          answer' = [request |-> request, location |-> RedirectedTo(r, request)]
    BY DEF Redirect
<1>2. stage = "running" /\ AreSettings(settings) /\ IsRedirector(r)
    BY <1>1 DEF Redirect, StartupInv, SettingsInv, RedirectorInv
<1>3. PICK order \in Orders(map) :
          r.redirectTo = settings.tls.redirector.redirect_to /\ r.byName = ByName(map, order)
    BY <1>2 DEF IsRedirector
<1>4. DOMAIN r.byName = NamesOf(DOMAIN map)
    BY <1>3 DEF ByName
<1>5. settings' = settings
    BY DEF Redirect, Configured
<1>6. ServerName(request) = name
  <2>1. request.host = None \/ request.host \in Seq(STRING) \ {<<>>}
    BY ClientsAssumption
  <2> QED
    BY <2>1 DEF ServerName
<1>7. own = {} <=> name \notin NamesOf(DOMAIN map)
    BY DEF NamesOf
<1>8. NamesOf(DOMAIN map) \subseteq STRING
    BY <1>2 DEF AreSettings, IsByNames, NamesOf, Range
<1>9. CASE own = {}
    BY <1>1, <1>3, <1>4, <1>5, <1>6, <1>7, <1>9 DEF RedirectedTo, RedirectedByName
<1>10. CASE own # {}
  <2>1. name \in NamesOf(DOMAIN map) /\ name # None
    BY <1>7, <1>8, <1>10, ClientsAssumption
  <2>2. PICK names \in DOMAIN map : name \in Range(names) /\ ByName(map, order)[name] = map[names]
    BY <1>2, <1>3, <2>1, SomeEntry DEF AreSettings
  <2>3. answer'.location = map[names] /\ answer'.request = request
    BY <1>1, <1>3, <1>4, <1>6, <2>1, <2>2 DEF RedirectedTo
  <2> QED
    BY <1>5, <1>10, <2>2, <2>3 DEF RedirectedByName
<1> QED
    BY <1>9, <1>10

LEMMA ClientsKeep == StartupInv /\ Clients => StartupInv'
<1> SUFFICES ASSUME StartupInv, Clients PROVE StartupInv'
    OBVIOUS
<1>1. /\ UNCHANGED Configured /\ stage = "running"
      /\ UNCHANGED <<stage, listeners, redirectors, certificates>>
    BY DEF Clients, Handshake, Redirect
<1>2. /\ ListenOn' = ListenOn /\ UsesTls' = UsesTls /\ PlainAddresses' = PlainAddresses
      /\ settings' = settings /\ opt' = opt /\ \A r : IsRedirector(r)' <=> IsRedirector(r)
    BY <1>1, SameSettings
<1>3. CertificateShown' /\ RedirectedByName'
  <2>1. CASE \E name \in ServerNames \union {None} : Handshake(name)
    <3>1. CertificateShown'
      BY <2>1, CertificateOf
    <3>2. DOMAIN answer' = {"name", "certificate"}
      BY <2>1 DEF Handshake
    <3> QED
      BY <3>1, <3>2 DEF RedirectedByName
  <2>2. CASE \E request \in PlainRequests : Redirect(request)
    <3>1. RedirectedByName'
      BY <2>2, LocationOf
    <3>2. DOMAIN answer' = {"request", "location"}
      BY <2>2 DEF Redirect
    <3> QED
      BY <3>1, <3>2 DEF CertificateShown
  <2> QED
    BY <2>1, <2>2 DEF Clients
<1> QED
    BY <1>1, <1>2, <1>3 DEF StartupInv, SettingsInv, ListenersInv, RedirectorInv,
        CertificatesInv, AnswerInv

(* The invariant of Startup.                                               *)
THEOREM StartupInvariance == StartupSpec => []StartupInv
<1>1. StartupInv /\ [StartupNext]_startupVars => StartupInv'
  <2> SUFFICES ASSUME StartupInv, [StartupNext]_startupVars PROVE StartupInv'
    OBVIOUS
  <2>1. CASE Configure
    BY <2>1, ConfigureKeeps
  <2>2. CASE \E accepted \in BOOLEAN : IntoServer(accepted)
    BY <2>2, SetUpKeeps
  <2>3. CASE Clients
    BY <2>3, ClientsKeep
  <2>4. CASE UNCHANGED startupVars
    <3>1. UNCHANGED Configured /\ UNCHANGED <<answer, stage, listeners, redirectors, certificates>>
      BY <2>4 DEF startupVars, Configured
    <3>2. CertificateShown' /\ RedirectedByName'
      BY <3>1, SameAnswer DEF StartupInv, AnswerInv
    <3>3. /\ ListenOn' = ListenOn /\ UsesTls' = UsesTls /\ PlainAddresses' = PlainAddresses
          /\ settings' = settings /\ opt' = opt /\ \A r : IsRedirector(r)' <=> IsRedirector(r)
      BY <3>1, SameSettings
    <3> QED
      BY <3>1, <3>2, <3>3 DEF StartupInv, SettingsInv, ListenersInv, RedirectorInv,
          CertificatesInv, AnswerInv
  <2> QED
    BY <2>1, <2>2, <2>3, <2>4 DEF StartupNext
<1> QED
    BY StartupInitInv, <1>1, PTL DEF StartupSpec

-----------------------------------------------------------------------------
(* Startup: the properties                                                 *)

LEMMA ListensInv == StartupInv => ListensAsConfigured
<1> SUFFICES ASSUME StartupInv PROVE ListensAsConfigured
    OBVIOUS
<1> DEFINE expected == IF opt.listen # None THEN {AddressFrom(a.addr) : a \in Range(opt.listen)}
                       ELSE IF settings.listen = <<>> THEN Range(DefaultListen)
                       ELSE Range(settings.listen)
           tls == \E a \in expected : IsTls(a)
           addresses == Range(settings.tls.redirector.listen)
           map == settings.tls.server_names
<1>1. expected = Range(ListenOn) /\ (tls <=> UsesTls)
    BY Expected DEF StartupInv, SettingsInv, UsesTls
<1>2. stage = "exited" => listeners = {} /\ redirectors = {}
    BY DEF StartupInv, ListenersInv, RedirectorInv
<1>3. ASSUME stage = "running"
      PROVE  UNION {redirector.listen : redirector \in redirectors} = IF tls THEN addresses ELSE {}
  <2>1. CASE UsesTls /\ settings.tls.redirector.listen # <<>>
    <3>1. PICK r : IsRedirector(r) /\ redirectors = {r}
      BY <1>3, <2>1 DEF StartupInv, RedirectorInv
    <3>2. r.listen = addresses
      BY <3>1 DEF IsRedirector
    <3> QED
      BY <1>1, <2>1, <3>1, <3>2
  <2>2. CASE ~(UsesTls /\ settings.tls.redirector.listen # <<>>)
    <3>1. redirectors = {}
      BY <1>3, <2>2 DEF StartupInv, RedirectorInv
    <3>2. settings.tls.redirector.listen = <<>> => addresses = {}
      BY DEF Range
    <3> QED
      BY <1>1, <2>2, <3>1, <3>2
  <2> QED
    BY <2>1, <2>2
<1>4. ASSUME stage = "running", UsesTls
      PROVE  /\ IsCertificate(certificates[""])
             /\ \A n \in NamesOf(DOMAIN map) :
                   n \in DOMAIN certificates /\ IsCertificate(certificates[n])
  <2>1. PICK order \in Orders(map) : certificates = CertificatesBy(settings.tls, order)
    BY <1>4 DEF StartupInv, CertificatesInv
  <2>2. IsCertificate(settings.tls.default) /\ \A names \in DOMAIN map : IsCertificate(map[names])
    BY <1>4 DEF StartupInv, CertificatesInv
  <2>3. certificates[""] = settings.tls.default
    BY <2>1 DEF CertificatesBy
  <2>4. ASSUME NEW n \in NamesOf(DOMAIN map), n # ""
        PROVE  n \in DOMAIN certificates /\ IsCertificate(certificates[n])
    <3>1. PICK names \in DOMAIN map : ByName(map, order)[n] = map[names]
      BY <1>4, SomeEntry DEF StartupInv, SettingsInv, AreSettings
    <3> QED
      BY <2>1, <2>2, <2>4, <3>1 DEF CertificatesBy
  <2>5. "" \in DOMAIN certificates
    BY <2>1 DEF CertificatesBy
  <2> QED
    BY <2>2, <2>3, <2>4, <2>5
<1> QED
    BY <1>1, <1>2, <1>3, <1>4 DEF ListensAsConfigured, StartupInv, ListenersInv

(* into_server(): a running server listens on the addresses of the command *)
(* line, of the settings or the default ones, and redirects from the       *)
(* configured addresses; with TLS there is a certificate for each          *)
(* configured name; a server that could not be set up listens nowhere.     *)
THEOREM AlwaysListensAsConfigured == StartupSpec => []ListensAsConfigured
BY StartupInvariance, ListensInv, PTL

(* certificate_callback(): whatever order the map of lists of names was    *)
(* taken in, a client sees a certificate of the name it has asked for, and *)
(* the default one only if there is none.                                  *)
THEOREM CertificateAlwaysShown == StartupSpec => []CertificateShown
<1>1. StartupInv => CertificateShown
    BY DEF StartupInv, AnswerInv
<1> QED
    BY <1>1, StartupInvariance, PTL

(* RedirectorApp::request_filter(): the target is one that is configured   *)
(* for the name in the request, or the default one if none is.             *)
THEOREM AlwaysRedirectedByName == StartupSpec => []RedirectedByName
<1>1. StartupInv => RedirectedByName
    BY DEF StartupInv, AnswerInv
<1> QED
    BY <1>1, StartupInvariance, PTL
=============================================================================
