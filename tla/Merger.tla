-------------------------------- MODULE Merger --------------------------------
(***************************************************************************)
(* Merging configurations that are restricted to certain locations         *)
(* (Merger): for every host, a list of configurations for each path where  *)
(* the answer might change.  A merger is a function from hosts to entries, *)
(* entries are a function from paths to lists of                           *)
(* [matcher, sorter, conf].  The trait PathMatch is a parameter.           *)
(***************************************************************************)
EXTENDS Routing

CONSTANTS
    Locations(_),        \* PathMatch::iter: pairs of host and path
    Matches(_, _, _, _), \* PathMatch::matches: [any, exact, prefix, sorter]
    Before(_, _)         \* Ord of sorters that match the same location

NoHosts == [host \in {} |-> <<>>]

(* A map with one more key.                                                *)
Extended(map, key, value) ==
    [k \in DOMAIN map \union {key} |-> IF k = key THEN value ELSE map[k]]

ParentsOf(entries, path) == {p \in DOMAIN entries : IsStrictPrefix(p, path)}

(* Mutant: the new entry starts empty.                                     *)
EmptyEntry(entries, host, path) ==
    IF path \in DOMAIN entries THEN entries ELSE Extended(entries, path, <<>>)

(* A new entry takes over what applies to it from its closest parent.      *)
EnsureEntry(entries, host, path) ==
    LET parents == ParentsOf(entries, path)
        list == IF parents = {} THEN <<>> ELSE entries[Closest(parents)]
        Result(e) == Matches(e.matcher, host, path, FALSE)
        kept == Selected(list, {e \in Range(list) : Result(e).any})
        copied == [i \in DOMAIN kept |-> [kept[i] EXCEPT !.sorter = Result(kept[i]).sorter]]
    IN  IF path \in DOMAIN entries THEN entries ELSE Extended(entries, path, copied)

(* A new host takes over the entries of the fallback host.                 *)
EnsureHost(hosts, host) ==
    IF host \in DOMAIN hosts THEN hosts
    ELSE Extended(hosts, host, RulesOf(hosts, FallbackHost))

EnsureLocation(hosts, location) ==
    LET host == location[1]
        known == EnsureHost(hosts, host)
    IN  [h \in DOMAIN known |->
            IF host \in {h, FallbackHost} THEN EnsureEntry(known[h], h, location[2])
            ELSE known[h]]

Push(hosts, matcher, conf) ==
    LET located[n \in 0 .. Len(Locations(matcher))] ==
            IF n = 0 THEN hosts ELSE EnsureLocation(located[n - 1], Locations(matcher)[n])
        grown == located[Len(Locations(matcher))]
        Added(h, p) ==
            LET result == Matches(matcher, h, p, FALSE)
            IN  IF result.any
                THEN <<[matcher |-> matcher, sorter |-> result.sorter, conf |-> conf]>>
                ELSE <<>>
    IN  [h \in DOMAIN grown |-> [p \in DOMAIN grown[h] |->
            grown[h][p] \o Added(h, p)]]

-----------------------------------------------------------------------------
(* merge_entry                                                             *)

Sorted(list) ==
    StableSort(list, {pair \in Range(list) \X Range(list) : Before(pair[1].sorter, pair[2].sorter)})

Joined(list) == Flatten([i \in DOMAIN list |-> list[i].conf])

(* Mutant: in the order of the configuration.                              *)
JoinUnsorted(list) == Joined(list)

(* The callback of all mergers here: what applies, in increasing           *)
(* preference.                                                             *)
Join(list) == Joined(Sorted(list))

MergeExact(host, path, list) ==
    Join(Selected(list, {e \in Range(list) : Matches(e.matcher, host, path, FALSE).any}))

MergePrefix(host, path, list) ==
    Join(Selected(list, {e \in Range(list) : Matches(e.matcher, host, path, TRUE).prefix}))

(* Values of all entries of a host.                                        *)
MergeEntries(host, entries) ==
    [p \in DOMAIN entries |-> [exact |-> MergeExact(host, p, entries[p]),
                               prefix |-> MergePrefix(host, p, entries[p])]]

-----------------------------------------------------------------------------
(* merge                                                                   *)

(* The entry says what its closest parent says already.                    *)
Redundant(values, p) ==
    LET parents == ParentsOf(values, p)
    IN  /\ values[p].exact = values[p].prefix
        /\ parents # {}
        /\ values[Closest(parents)].prefix = values[p].prefix

Merge(hosts) ==
    [h \in DOMAIN hosts |->
        LET values == MergeEntries(h, hosts[h])
        IN  [p \in {q \in DOMAIN values : ~Redundant(values, q)} |-> values[p]]]
=============================================================================
