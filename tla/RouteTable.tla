------------------------------ MODULE RouteTable ------------------------------
(***************************************************************************)
(* What a routing table promises: rules are added for keys (sequences of   *)
(* segments), a rule has a value for the key itself and optionally one for *)
(* every key below it, and a lookup yields the best match: the rule for    *)
(* the key, otherwise the longest rule above it with a value for keys      *)
(* below.                                                                  *)
(***************************************************************************)
EXTENDS Routing

CONSTANTS Keys, Values

VARIABLES
    table,   \* the rules: a function from keys
    open,    \* rules may still be added
    asked,   \* the key of a lookup being made
    answer   \* key and value of the last lookup

vars == <<table, open, asked, answer>>

Init == table = <<>> /\ open = TRUE /\ asked = None /\ answer = None

Add(key, rule) ==
    /\ open
    /\ table' = [k \in DOMAIN table \union {key} |->
                    IF k = key THEN rule ELSE table[k]]
    /\ UNCHANGED <<open, asked, answer>>

Close ==
    /\ open /\ open' = FALSE
    /\ UNCHANGED <<table, asked, answer>>

Ask(key) ==
    /\ ~open /\ asked = None
    /\ asked' = key /\ answer' = None
    /\ UNCHANGED <<table, open>>

Reply ==
    /\ asked # None
    /\ asked' = None
    /\ answer' = [key |-> asked, value |-> BestMatch(table, asked)]
    /\ UNCHANGED <<table, open>>

Next ==
    \/ \E key \in Keys, e \in Values, p \in Values \union {None} :
           Add(key, [exact |-> e, prefix |-> p])
    \/ Close
    \/ \E key \in Keys : Ask(key)
    \/ Reply

Spec == Init /\ [][Next]_vars
=============================================================================
