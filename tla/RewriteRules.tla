----------------------------- MODULE RewriteRules -----------------------------
(***************************************************************************)
(* Which rewrite rule a request meets and what becomes of it:              *)
(* RewriteHandler::try_from reverses and sorts the rules, pushes them to a *)
(* merger and merges them into lists of rules, request_filter goes through *)
(* the list for a path backwards.  A rule's regular expressions may match  *)
(* or not; its target is a path that may end with the variable ${tail}.    *)
(***************************************************************************)
EXTENDS Routing

CONSTANTS
    Configurations,  \* sequences of rules: path, exact, restricted (whether
                     \* it has a regular expression), type, to and tail
    RequestPaths     \* split paths of requests

VARIABLES
    conf,      \* the configuration
    todo,      \* numbers of the rules still to be pushed, None before sorting
    hosts,     \* the merger
    router,    \* Router, None as long as there is none
    path,      \* path of the request
    matching,  \* rules whose regular expressions match the request
    list,      \* rules for this path, those still to be looked at
    applied,   \* the rule that was applied, if any
    target,    \* its target
    outcome    \* result of request_filter, None before there is one

handler == <<conf, todo, hosts, router>>

-----------------------------------------------------------------------------
(* PathMatcher: for the fallback host only, in the order of PathMatcher.   *)

From(n) == [path |-> conf[n].path, exact |-> conf[n].exact]

PathMatches(m, host, key, forcePrefix) ==
    LET exact == m.path = key
        prefix == ~m.exact /\ IsPrefix(m.path, key)
        any == host = FallbackHost /\ (exact \/ prefix)
    IN  [any |-> any, exact |-> any /\ exact, prefix |-> any /\ prefix, sorter |-> m]

MatcherLocations(m) == <<<<FallbackHost, m.path>>>>

MatcherBefore(m, n) ==
    \/ PathBefore(m.path, n.path)
    \/ m.path = n.path /\ ~m.exact /\ n.exact

M == INSTANCE Merger WITH
        Locations <- MatcherLocations, Matches <- PathMatches, Before <- MatcherBefore

-----------------------------------------------------------------------------
(* RewriteHandler::try_from                                                *)

Init ==
    /\ conf \in Configurations
    /\ todo = None /\ hosts = M!NoHosts /\ router = None
    /\ path = None /\ matching = {} /\ list = <<>>
    /\ applied = None /\ target = None /\ outcome = None

Numbered(n) == [sorter |-> From(n), conf |-> <<n>>]

(* Mutant: in the order of the configuration.                              *)
SortRulesForward ==
    /\ todo = None
    /\ todo' = M!Join([n \in DOMAIN conf |-> Numbered(n)])
    /\ UNCHANGED <<conf, hosts, router, path, matching, list, applied, target, outcome>>

(* reverse and a stable sort: exact rules last, then those listed first.   *)
SortRules ==
    /\ todo = None
    /\ todo' = M!Join([n \in DOMAIN conf |-> Numbered(Len(conf) + 1 - n)])
    /\ UNCHANGED <<conf, hosts, router, path, matching, list, applied, target, outcome>>

PushRule ==
    /\ router = None /\ todo \notin {None, <<>>}
    /\ hosts' = M!Push(hosts, From(Head(todo)), <<Head(todo)>>)
    /\ todo' = Tail(todo)
    /\ UNCHANGED <<conf, router, path, matching, list, applied, target, outcome>>

BuildRouter ==
    /\ router = None /\ todo = <<>>
    /\ router' = M!Merge(hosts)
    /\ UNCHANGED <<conf, todo, hosts, path, matching, list, applied, target, outcome>>

-----------------------------------------------------------------------------
(* RewriteHandler::request_filter                                          *)

RequestFilter(p, ms) ==
    /\ router # None /\ (path = None \/ outcome # None)
    /\ path' = p /\ matching' = ms
    /\ LET found == LookupRoute(router, FallbackHost, Segments(p))
       IN  list' = IF found = None THEN <<>> ELSE found
    /\ applied' = None /\ target' = None /\ outcome' = None
    /\ UNCHANGED handler

NoRule ==
    /\ path # None /\ outcome = None /\ list = <<>>
    /\ outcome' = "unhandled"
    /\ UNCHANGED <<handler, path, matching, list, applied, target>>

SkipRule ==
    /\ outcome = None /\ list # <<>>
    /\ list[Len(list)] \notin matching
    /\ list' = SubSeq(list, 1, Len(list) - 1)
    /\ UNCHANGED <<handler, path, matching, applied, target, outcome>>

(* The variable ${tail}: what the rule's path leaves of the request's.     *)
TailOf(n) ==
    LET tail == RemovePrefix(conf[n].path, path)
    IN  IF tail = None THEN path ELSE tail

(* interpolate: the bytes of a tail, which begins with a separator, follow *)
(* those of the target.                                                    *)
Interpolate(to, tail) == to \o Tail(tail)

(* A target that cannot be parsed ends the search as well; sending the     *)
(* redirect may fail.                                                      *)
ApplyRule ==
    /\ outcome = None /\ list # <<>>
    /\ list[Len(list)] \in matching
    /\ LET n == list[Len(list)]
       IN  /\ applied' = n
           /\ target' = IF conf[n].tail THEN Interpolate(conf[n].to, TailOf(n))
                        ELSE conf[n].to
           /\ outcome' \in IF conf[n].type = "internal" THEN {"rewritten", "unhandled"}
                          ELSE {"redirected", "unhandled", "failed"}
    /\ UNCHANGED <<handler, path, matching, list>>

(* Regular expressions that a rule does not have match.                    *)
Matchings ==
    {ms \in SUBSET DOMAIN conf :
        \A n \in DOMAIN conf : conf[n].restricted \/ n \in ms}

-----------------------------------------------------------------------------
(* Properties                                                              *)

(* The documented precedence: of the rules that match, the one with the    *)
(* longer path, an exact one before a prefix, the one listed first.        *)
Candidates ==
    {n \in matching :
        IF conf[n].exact THEN conf[n].path = Segments(path)
        ELSE IsPrefix(conf[n].path, Segments(path))}
Precedes(n, m) ==
    \/ Len(conf[n].path) > Len(conf[m].path)
    \/ conf[n].path = conf[m].path /\ conf[n].exact /\ ~conf[m].exact
    \/ From(n) = From(m) /\ n <= m

(* The rule applied to a request is the one that takes precedence over all *)
(* others that match, and one is applied if there is any.                  *)
PrecedenceKept ==
    outcome # None =>
        IF Candidates = {} THEN applied = None
        ELSE applied \in Candidates /\ \A m \in Candidates : Precedes(applied, m)

(* The tail is the part of the path below the rule's path, an absolute     *)
(* path: nothing of the rule's path remains, nothing below it is missing.  *)
TailBelowRule ==
    applied # None =>
        LET tail == TailOf(applied)
        IN  /\ conf[applied].path \o Segments(tail) = Segments(path)
            /\ Len(tail) > 1 /\ Head(tail) = Empty
=============================================================================
