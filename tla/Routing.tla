------------------------------- MODULE Routing -------------------------------
(***************************************************************************)
(* The answer of a routing table whose rules are a function from keys      *)
(* (sequences of segments) to a value for the key itself and a value, or   *)
(* None, for every key below it.                                           *)
(***************************************************************************)
EXTENDS Paths

(* The value for what is below a key: of the longest rule that has one.    *)
Inherited(rules, key) ==
    LET above == {k \in DOMAIN rules : IsPrefix(k, key) /\ rules[k].prefix # None}
    IN  IF above = {} THEN None ELSE rules[Closest(above)].prefix

BestMatch(rules, key) ==
    IF key \in DOMAIN rules THEN rules[key].exact ELSE Inherited(rules, key)

-----------------------------------------------------------------------------
(* A router: such rules for each of some hosts.                            *)

FallbackHost == ""

RulesOf(router, host) == IF host \in DOMAIN router THEN router[host] ELSE <<>>

(* Router::lookup: the fallback trie if the main trie has no answer.       *)
LookupRoute(router, host, key) ==
    LET found == IF host = FallbackHost THEN None
                 ELSE BestMatch(RulesOf(router, host), key)
    IN  IF found # None THEN found ELSE BestMatch(RulesOf(router, FallbackHost), key)
=============================================================================
