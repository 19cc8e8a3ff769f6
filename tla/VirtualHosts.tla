----------------------------- MODULE VirtualHosts -----------------------------
(***************************************************************************)
(* From a virtual hosts configuration to the handler of a request:         *)
(* VirtualHostsHandler::try_from goes through the entries in the random    *)
(* order of a hash map and pushes their rules to the router builder, which *)
(* merges them; early_request_filter looks a request up and strips the     *)
(* path prefix from its URI.  The tries in between are in module Trie, of  *)
(* which a routing table is left here.                                     *)
(***************************************************************************)
EXTENDS Routing

CONSTANTS
    Configurations,  \* functions from entries of `vhosts` to their settings:
                     \* names, default, and subpaths, a function from rules
                     \* (path and whether it is exact) to strip_prefix
    RequestHosts,    \* hosts of requests, "" if there is none
    RequestPaths     \* split paths of requests

(* The path of a rule has no empty segments.                               *)
Rules == [path : Seq(Nat \ {Empty}), exact : BOOLEAN]

(* None is not a rule.                                                     *)
ASSUME NoneAssumption == None \notin Rules
ASSUME ConfigurationsAssumption ==
    \A c \in Configurations :
        /\ None \notin DOMAIN c
        /\ \A e \in DOMAIN c : DOMAIN c[e].subpaths \subseteq Rules
        /\ None \notin [strip : Seq(Nat) \union {None}, entry : DOMAIN c,
                       rule : Rules \union {None}]
ASSUME RequestPathsAssumption == RequestPaths \subseteq AbsolutePaths

VARIABLES
    conf,      \* the configuration
    todo,      \* entries not yet looked at
    default,   \* the default virtual host, None as long as there is none
    entry,     \* the entry whose subpaths are being pushed
    subpaths,  \* those of its rules that have not been pushed
    table,     \* RouterBuilder: rules per host; entries and fallbacks
    request,   \* the request being looked up
    handler,   \* the handler it is delegated to, None if there is none
    uri        \* the path this handler gets to see, split

config == <<conf, todo, default, entry, subpaths, table>>
vars == <<config, request, handler, uri>>

Entries == DOMAIN conf

(* The value of a route: the path to be stripped and the handler, named by *)
(* its place in the configuration; None is the entry's own handler.        *)
Route(e, rule, strip) == [strip |-> strip, entry |-> e, rule |-> rule]
HostRoute(e) == Route(e, None, None)
SubpathRoute(e, rule) ==
    Route(e, rule, IF conf[e].subpaths[rule] THEN rule.path ELSE None)

Serving == todo = {} /\ entry = None

Init ==
    /\ conf \in Configurations
    /\ todo = Entries /\ default = None /\ entry = None /\ subpaths = {}
    /\ table = [h \in {} |-> <<>>]
    /\ request = None /\ handler = None /\ uri = None

-----------------------------------------------------------------------------
(* VirtualHostsHandler::try_from and RouterBuilder                         *)

(* A prefix value that is not given stays as it was; a new rule takes it   *)
(* from its closest parent.                                                *)
PrefixValue(rules, path, prefix) ==
    IF prefix # None THEN prefix
    ELSE IF path \in DOMAIN rules THEN rules[path].prefix ELSE Inherited(rules, path)

(* Mutant: a second rule for a path leaves the exact value alone.          *)
MergeKeepsExact(rules, path, exact, prefix) ==
    LET first == IF path \in DOMAIN rules THEN rules[path].exact ELSE exact
        rule == [exact |-> first, prefix |-> PrefixValue(rules, path, prefix)]
    IN  [p \in DOMAIN rules \union {path} |-> IF p = path THEN rule ELSE rules[p]]

(* merge_value: the value for the path itself is always replaced.          *)
MergeValue(rules, path, exact, prefix) ==
    LET rule == [exact |-> exact, prefix |-> PrefixValue(rules, path, prefix)]
    IN  [p \in DOMAIN rules \union {path} |-> IF p = path THEN rule ELSE rules[p]]

PushAll(hosts, path, exact, prefix) ==
    table' = [h \in DOMAIN table \union hosts |->
                 IF h \in hosts THEN MergeValue(RulesOf(table, h), path, exact, prefix)
                 ELSE table[h]]

IsDefault(e) == conf[e].default /\ default \in {None, e}

(* An empty name is ignored; it stands for the default virtual host.       *)
Names(e) ==
    (conf[e].names \ {FallbackHost})
        \union (IF IsDefault(e) THEN {FallbackHost} ELSE {})

TakeEntry ==
    /\ entry = None
    /\ \E e \in todo :
        /\ todo' = todo \ {e}
        /\ entry' = e /\ subpaths' = DOMAIN conf[e].subpaths
        /\ default' = IF IsDefault(e) THEN e ELSE default
        /\ PushAll(Names(e), <<>>, HostRoute(e), HostRoute(e))
    /\ UNCHANGED <<conf, request, handler, uri>>

(* subpaths.sort_by_key: exact rules last.                                 *)
NextRules ==
    {rule \in subpaths : rule.exact => \A other \in subpaths : other.exact}

PushSubpath ==
    /\ \E rule \in NextRules :
        /\ subpaths' = subpaths \ {rule}
        /\ LET route == SubpathRoute(entry, rule)
           IN  PushAll(Names(entry), rule.path, route,
                       IF rule.exact THEN None ELSE route)
    /\ UNCHANGED <<conf, todo, default, entry, request, handler, uri>>

FinishEntry ==
    /\ entry # None /\ subpaths = {}
    /\ entry' = None
    /\ UNCHANGED <<conf, todo, default, subpaths, table, request, handler, uri>>

-----------------------------------------------------------------------------
(* VirtualHostsHandler::early_request_filter                               *)

EarlyRequestFilter(host, path) ==
    /\ Serving
    /\ request' = [host |-> host, path |-> path]
    /\ handler' = LookupRoute(table, host, Segments(path))
    /\ LET strip == IF handler' = None THEN None ELSE handler'.strip
           new == IF strip = None THEN None ELSE RemovePrefix(strip, path)
       IN  uri' = IF new = None THEN path ELSE new
    /\ UNCHANGED config

Next ==
    \/ TakeEntry \/ PushSubpath \/ FinishEntry
    \/ \E host \in RequestHosts, path \in RequestPaths :
           EarlyRequestFilter(host, path)

Spec == Init /\ [][Next]_vars

-----------------------------------------------------------------------------
(* Properties                                                              *)

(* What the configuration says about a request: of the entry for its host, *)
(* or the default one, the rule with the longest path that applies, an     *)
(* exact one before a prefix; without such a rule the entry itself.        *)
EntriesFor(host) ==
    LET named == {e \in Entries : host # "" /\ host \in conf[e].names}
    IN  IF named # {} THEN named ELSE {e \in Entries : conf[e].default}

Applies(rule, path) ==
    IF rule.exact THEN rule.path = path ELSE IsPrefix(rule.path, path)
Closer(r, s) ==
    Len(r.path) > Len(s.path) \/ (r.path = s.path /\ (r.exact \/ ~s.exact))

Configured(e, path) ==
    LET rules == {r \in DOMAIN conf[e].subpaths : Applies(r, path)}
    IN  IF rules = {} THEN None
        ELSE CHOOSE r \in rules : \A s \in rules : Closer(r, s)

(* Every request reaches the handler that the configuration names for its  *)
(* host and path, whatever the order in which rules were pushed and merged.*)
RoutedAsConfigured ==
    request # None =>
        LET entries == EntriesFor(request.host)
        IN  IF handler = None THEN entries = {}
            ELSE /\ handler.entry \in entries
                 /\ handler.rule =
                        Configured(handler.entry, Segments(request.path))

(* With strip_prefix the handler sees exactly the part of the path below   *)
(* its rule's, as an absolute path; without, the path as requested.        *)
StrippedPath ==
    request # None =>
        IF handler = None \/ handler.rule = None THEN uri = request.path
        ELSE IF conf[handler.entry].subpaths[handler.rule]
             THEN /\ handler.rule.path \o Segments(uri) = Segments(request.path)
                  /\ Len(uri) > 1 /\ Head(uri) = Empty
             ELSE uri = request.path
=============================================================================
