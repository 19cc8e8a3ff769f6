----------------------------- MODULE HeaderRules -----------------------------
(***************************************************************************)
(* From the rules for response headers to the headers of a response:       *)
(* HeadersHandler::try_from fills a merger with the rules of each of the   *)
(* three settings (cache_control, content_security_policy, custom), merges *)
(* each into a merger of strict matchers, combines these and merges them   *)
(* into a router; request_filter looks a request up.  Hash maps are gone   *)
(* through in any order.                                                   *)
(*                                                                         *)
(* Merging keeps the numbers of the rules instead of what they set: a value *)
(* is the sequence of the rules of one setting it was merged from, the     *)
(* router has sequences of such values.  What these rules set is looked up *)
(* when the header lines are needed.                                       *)
(***************************************************************************)
EXTENDS Routing

CONSTANTS
    Configurations,  \* sequences of settings, which are sequences of rules
                     \* [include, exclude, sets]: sequences of matchers and
                     \* a function from options to values
    ListOptions,     \* options of type OneOrMany
    RequestHosts,    \* hosts of requests, "" if there is none
    RequestKeys      \* their paths without empty segments

(* The name of the fallback host is a string too, which provers don't know. *)
Matchers == [host : STRING \union {FallbackHost}, path : Seq(Nat), exact : BOOLEAN]

ASSUME ConfigurationsAssumption ==
    \A c \in Configurations :
        /\ c \in Seq(Range(c)) /\ c # <<>>
        /\ \A s \in DOMAIN c : c[s] \in Seq(Range(c[s]))
        /\ \A s \in DOMAIN c : \A r \in DOMAIN c[s] :
               /\ c[s][r].include \in Seq(Matchers) /\ c[s][r].exclude \in Seq(Matchers)
               /\ \A o \in DOMAIN c[s][r].sets \intersect ListOptions :
                      c[s][r].sets[o] \in Seq(Range(c[s][r].sets[o]))
ASSUME KeysAssumption == RequestKeys \subseteq Seq(Nat)

(* None is neither a value of the router nor a side.                       *)
ASSUME NoneAssumption ==
    None \notin Seq(Seq(Nat \X Nat)) /\ None \notin {"other", "self"}

VARIABLES
    conf,      \* the configuration
    setting,   \* the setting whose rules are being pushed
    next,      \* the next of these rules
    rules,     \* the merger they are pushed to
    mergers,   \* the finished mergers that are not combined yet
    merged,    \* the merger they are combined in
    other,     \* the one being combined with it, None in between
    side,      \* the side that gets missing entries: "other" or "self"
    pending,   \* hosts this has still to be done for
    router,    \* Router, None as long as there is none
    request,   \* the last request
    headers    \* HeadersHttpModule: the values for it, None if there are none

pushing == <<setting, next, rules>>
combining == <<merged, other, side, pending>>
serving == <<request, headers>>
vars == <<conf, pushing, mergers, combining, router, serving>>

-----------------------------------------------------------------------------
(* Matchers                                                                *)

Matcher(host, path, exact) == [host |-> host, path |-> path, exact |-> exact]
Fallback == Matcher(FallbackHost, <<>>, FALSE)

NoMatch == [any |-> FALSE, exact |-> FALSE, prefix |-> FALSE, sorter |-> None]
Match(exact, prefix, sorter) ==
    IF exact \/ prefix
    THEN [any |-> TRUE, exact |-> exact, prefix |-> prefix, sorter |-> sorter]
    ELSE NoMatch

(* HostPathMatcher                                                         *)
MatcherMatches(m, host, path) ==
    IF m.host \notin {FallbackHost, host} THEN NoMatch
    ELSE Match(m.path = path, ~m.exact /\ IsPrefix(m.path, path), m)

(* StrictHostPathMatcher: a prefix matches the path itself when forced to. *)
StrictMatches(m, host, path, forcePrefix) ==
    IF m.host \notin {FallbackHost, host} THEN NoMatch
    ELSE IF m.path = path THEN Match(m.exact, ~m.exact /\ forcePrefix, m)
    ELSE Match(FALSE, ~m.exact /\ IsPrefix(m.path, path), m)

(* The derived order of matchers for the same location.                    *)
MatcherBefore(m, n) ==
    \/ m.host = FallbackHost /\ n.host # FallbackHost
    \/ m.host = n.host /\ PathBefore(m.path, n.path)
    \/ m.host = n.host /\ m.path = n.path /\ ~m.exact /\ n.exact

MatcherLocations(m) == <<<<m.host, m.path>>>>

(* MatchRules                                                              *)
Unrestricted(rule) == rule.include = <<>> /\ rule.exclude = <<>>

Found(matchers, host, path) ==
    {m \in Range(matchers) : MatcherMatches(m, host, path).any}
Best(matchers) == CHOOSE m \in matchers : \A n \in matchers : ~MatcherBefore(m, n)

(* Mutant: the closest include rule decides alone.                         *)
RuleMatchesIncluded(rule, host, path, forcePrefix) ==
    LET include == Found(rule.include, host, path)
    IN  IF Unrestricted(rule) THEN Match(path = <<>>, TRUE, Fallback)
        ELSE IF include = {} THEN NoMatch
        ELSE MatcherMatches(Best(include), host, path)

RuleMatches(rule, host, path, forcePrefix) ==
    LET include == Found(rule.include, host, path)
        exclude == Found(rule.exclude, host, path)
    IN  IF Unrestricted(rule) THEN Match(path = <<>>, TRUE, Fallback)
        ELSE IF \/ include = {}
                \/ exclude # {} /\ ~MatcherBefore(Best(exclude), Best(include))
        THEN NoMatch
        ELSE MatcherMatches(Best(include), host, path)

RuleLocations(rule) ==
    IF Unrestricted(rule) THEN <<<<FallbackHost, <<>>>>>>
    ELSE LET matchers == rule.include \o rule.exclude
         IN  [i \in DOMAIN matchers |-> <<matchers[i].host, matchers[i].path>>]

Rules == INSTANCE Merger WITH Locations <- RuleLocations,
    Matches <- RuleMatches, Before <- MatcherBefore
Strict == INSTANCE Merger WITH Locations <- MatcherLocations,
    Matches <- StrictMatches, Before <- MatcherBefore

-----------------------------------------------------------------------------
(* HeadersHandler::try_from                                                *)

Init ==
    /\ conf \in Configurations
    /\ setting = 1 /\ next = 1 /\ rules = Rules!NoHosts
    /\ mergers = <<>>
    /\ merged = None /\ other = None /\ side = None /\ pending = {}
    /\ router = None /\ request = None /\ headers = None

PushRule ==
    /\ setting \in DOMAIN conf /\ next \in DOMAIN conf[setting]
    /\ rules' = Rules!Push(rules, conf[setting][next], <<<<setting, next>>>>)
    /\ next' = next + 1
    /\ UNCHANGED <<conf, setting, mergers, combining, router, serving>>

(* merge_into_merger: the values of an entry as two strict configurations. *)
MergeIntoMerger(hosts) ==
    [h \in DOMAIN hosts |->
        LET values == Rules!MergeEntries(h, hosts[h])
            Strictly(p, exact, value) ==
                [matcher |-> Matcher(h, p, exact),
                 sorter |-> Matcher(h, p, exact), conf |-> value]
            AsOne(value) == IF value = <<>> THEN <<>> ELSE <<value>>
        IN  [p \in DOMAIN values |-> <<Strictly(p, TRUE, AsOne(values[p].exact)),
                                       Strictly(p, FALSE, AsOne(values[p].prefix))>>]]

FinishSetting ==
    /\ setting \in DOMAIN conf /\ next \notin DOMAIN conf[setting]
    /\ mergers' = Append(mergers, MergeIntoMerger(rules))
    /\ setting' = setting + 1 /\ next' = 1 /\ rules' = Rules!NoHosts
    /\ UNCHANGED <<conf, combining, router, serving>>

(* The first merger is extended by the others.                             *)
TakeMerger ==
    /\ setting \notin DOMAIN conf /\ side = None /\ mergers # <<>>
    /\ mergers' = Tail(mergers)
    /\ IF Len(mergers) = Len(conf)
       THEN merged' = Head(mergers) /\ UNCHANGED <<other, side, pending>>
       ELSE /\ other' = Head(mergers)
            /\ side' = "other" /\ pending' = DOMAIN merged
            /\ UNCHANGED merged
    /\ UNCHANGED <<conf, pushing, router, serving>>

(* The order of the entries of a host.                                     *)
Place(paths, path) == Cardinality({p \in paths : PathBefore(p, path)}) + 1
InPlace(paths, n) == {p \in paths : Place(paths, p) = n}

(* push_merger: the host and the entries that one merger has are added to  *)
(* the other one.                                                          *)
EnsureEntries(hosts, host, entries) ==
    LET known == Strict!EnsureHost(hosts, host)
        paths == DOMAIN entries
        grown[n \in 0 .. Cardinality(paths)] ==
            IF n = 0 THEN known[host]
            ELSE Strict!EnsureEntry(grown[n - 1], host, CHOOSE p \in InPlace(paths, n) : TRUE)
    IN  [known EXCEPT ![host] = grown[Cardinality(paths)]]

AlignOther ==
    /\ side = "other"
    /\ \E host \in pending :
        /\ pending' = pending \ {host}
        /\ other' = EnsureEntries(other, host, merged[host])
    /\ UNCHANGED <<conf, pushing, mergers, merged, side, router, serving>>

TurnAround ==
    /\ side = "other" /\ pending = {}
    /\ side' = "self" /\ pending' = DOMAIN other
    /\ UNCHANGED <<conf, pushing, mergers, merged, other, router, serving>>

AlignSelf ==
    /\ side = "self"
    /\ \E host \in pending :
        /\ pending' = pending \ {host}
        /\ merged' = EnsureEntries(merged, host, other[host])
    /\ UNCHANGED <<conf, pushing, mergers, other, side, router, serving>>

(* The entries of a host are combined pairwise, in their order and not by  *)
(* their paths, as far as there are two.                                   *)
Pairwise(mine, theirs) ==
    [p \in DOMAIN mine |->
        LET partner == InPlace(DOMAIN theirs, Place(DOMAIN mine, p))
        IN  IF partner = {} THEN mine[p] ELSE mine[p] \o theirs[CHOOSE q \in partner : TRUE]]

Combine ==
    /\ side = "self" /\ pending = {}
    /\ merged' = [h \in DOMAIN merged |->
                    IF h \in DOMAIN other THEN Pairwise(merged[h], other[h]) ELSE merged[h]]
    /\ other' = None /\ side' = None
    /\ UNCHANGED <<conf, pushing, mergers, pending, router, serving>>

BuildRouter ==
    /\ setting \notin DOMAIN conf /\ mergers = <<>> /\ side = None
    /\ router = None
    /\ router' = Strict!Merge(merged)
    /\ UNCHANGED <<conf, pushing, mergers, combining, serving>>

(* HeadersHandler::request_filter                                          *)
RequestFilter(host, key) ==
    /\ router # None
    /\ request' = [host |-> host, key |-> key]
    /\ headers' = LookupRoute(router, host, key)
    /\ UNCHANGED <<conf, pushing, mergers, combining, router>>

Next ==
    \/ PushRule \/ FinishSetting \/ TakeMerger
    \/ AlignOther \/ TurnAround \/ AlignSelf \/ Combine \/ BuildRouter
    \/ \E host \in RequestHosts, key \in RequestKeys : RequestFilter(host, key)

Spec == Init /\ [][Next]_vars

-----------------------------------------------------------------------------
(* The header lines                                                        *)

RuleOf(number) == conf[number[1]][number[2]]
SettingOf(value) == value[1][1]

Nothing == [name \in {} |-> None]

(* The third setting names headers, the others parts of one header.        *)
HeaderFor(s, option) ==
    IF s = 1 THEN "Cache-Control"
    ELSE IF s = 2 THEN "Content-Security-Policy" ELSE option

(* Mutant: what is there already prevails.                                 *)
MergeKeeps(into, from) ==
    [o \in DOMAIN into \union DOMAIN from |->
        IF o \in DOMAIN into THEN into[o] ELSE from[o]]

(* IntoHeaders::merge_with                                                 *)
MergeWith(into, from) ==
    [o \in DOMAIN into \union DOMAIN from |->
        IF o \notin DOMAIN from THEN into[o]
        ELSE IF o \in DOMAIN into /\ o \in ListOptions THEN into[o] \o from[o]
        ELSE from[o]]

(* What the rules of a value set together.                                 *)
Options(value) ==
    LET combined[n \in 0 .. Len(value)] ==
            IF n = 0 THEN Nothing ELSE MergeWith(combined[n - 1], RuleOf(value[n]).sets)
    IN  combined[Len(value)]

(* IntoHeaders::into_headers: a header's parts in the order of the code.   *)
IntoHeaders(value) ==
    LET options == Options(value)
        Name(o) == HeaderFor(SettingOf(value), o)
        Parts(name) == [o \in {p \in DOMAIN options : Name(p) = name} |-> options[o]]
    IN  [name \in {Name(o) : o \in DOMAIN options} |-> <<Parts(name)>>]

(* Values of the same header are joined.                                   *)
CombineLines(lines, added) ==
    [name \in DOMAIN lines \union DOMAIN added |->
        IF name \notin DOMAIN added THEN lines[name]
        ELSE IF name \notin DOMAIN lines THEN added[name]
        ELSE lines[name] \o added[name]]

HeaderLines ==
    LET lines[n \in 0 .. Len(headers)] ==
            IF n = 0 THEN Nothing ELSE CombineLines(lines[n - 1], IntoHeaders(headers[n]))
    IN  lines[Len(headers)]

(* response_header_filter: insert_header replaces what the response has.   *)
ResponseHeaders(own) ==
    LET lines == HeaderLines
    IN  IF headers = None THEN own
        ELSE [name \in DOMAIN lines \union DOMAIN own |->
                 IF name \in DOMAIN lines THEN lines[name] ELSE own[name]]

-----------------------------------------------------------------------------
(* Properties                                                              *)

RuleNumbers == UNION {{s} \X DOMAIN conf[s] : s \in DOMAIN conf}

(* The documented meaning of a matcher, and when one is more specific.     *)
Covers(m, host, key) ==
    /\ m.host \in {FallbackHost, host}
    /\ IF m.exact THEN m.path = key ELSE IsPrefix(m.path, key)

MoreSpecific(m, n) ==
    \/ m.host # FallbackHost /\ n.host = FallbackHost
    \/ m.host = n.host /\ Len(m.path) > Len(n.path)
    \/ m.host = n.host /\ m.path = n.path /\ m.exact /\ ~n.exact

(* A rule without include applies everywhere.                              *)
Included(rule, host, key) ==
    LET include == IF rule.include = <<>> THEN <<Fallback>> ELSE rule.include
    IN  {m \in Range(include) : Covers(m, host, key)}
Excluded(rule, host, key) == {m \in Range(rule.exclude) : Covers(m, host, key)}

(* A rule applies if an include rule is more specific than all exclude     *)
(* rules.                                                                  *)
Applies(rule, host, key) ==
    \E m \in Included(rule, host, key) :
        \A n \in Excluded(rule, host, key) : MoreSpecific(m, n)

Documented(req) ==
    {n \in RuleNumbers : Applies(RuleOf(n), req.host, req.key)}
SentRules == IF headers = None THEN <<>> ELSE Flatten(headers)
Sent == Range(SentRules)

(* A response gets the headers of exactly those rules that apply to its    *)
(* host and path according to the documentation, whatever entries were     *)
(* copied, combined and removed on the way, in whatever order.             *)
RulesApplied ==
    request # None =>
        /\ Sent = Documented(request)
        /\ IsInjective(SentRules)

Named(s) ==
    UNION {{m.host : m \in Range(rule.include) \union Range(rule.exclude)} :
              rule \in Range(conf[s])}

(* One setting has all rules, or the first one names all hosts.            *)
HostsKnown ==
    \/ \E s \in DOMAIN conf : \A t \in DOMAIN conf \ {s} : conf[t] = <<>>
    \/ \A t \in DOMAIN conf : Named(t) \subseteq Named(1)

(* No rule has nothing but exclude; an exact location is included alone    *)
(* and never excluded.                                                     *)
Regular ==
    \A n \in RuleNumbers :
        LET rule == RuleOf(n)
        IN  /\ rule.include = <<>> => rule.exclude = <<>>
            /\ \A m \in Range(rule.exclude) : ~m.exact
            /\ (\E m \in Range(rule.include) : m.exact) => Len(rule.include) = 1

(* The same for the configurations it holds for.                           *)
RegularRulesApplied == HostsKnown /\ Regular => RulesApplied

(* Also where rules get lost, a response never gets the headers of a rule  *)
(* that does not apply to it.                                              *)
NothingExtra == request # None => Sent \subseteq Documented(request)

(* Of the rules of one setting the more specific one prevails: it is       *)
(* merged later.                                                           *)
Specificity(number) ==
    Best(Included(RuleOf(number), request.host, request.key))
SpecificPrevails ==
    request # None =>
        \A i, j \in DOMAIN SentRules :
            /\ SentRules[i][1] = SentRules[j][1]
            /\ MoreSpecific(Specificity(SentRules[i]), Specificity(SentRules[j]))
            => i > j
=============================================================================
