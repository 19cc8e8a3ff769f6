---------------------------- MODULE VhostFilesProof ----------------------------
(***************************************************************************)
(* Proofs about VirtualHosts and VhostFiles: a request goes to the handler *)
(* and with the path that the configuration says, also one that follows a  *)
(* redirect; and files are served from below the root of the handler that  *)
(* was found, for any files there are.                                     *)
(***************************************************************************)
EXTENDS VhostFiles, SequenceLemmas

-----------------------------------------------------------------------------
(***************************************************************************)
(* The rules of one host after some rules of its entries were pushed: P[e] *)
(* of entry e, the last of these being the current one.                    *)
(***************************************************************************)
ExactAt(p) == [path |-> p, exact |-> TRUE]
PrefixAt(p) == [path |-> p, exact |-> FALSE]

ExactRoute(e, P, p) ==
    IF ExactAt(p) \in P THEN SubpathRoute(e, ExactAt(p))
    ELSE IF PrefixAt(p) \in P THEN SubpathRoute(e, PrefixAt(p)) ELSE HostRoute(e)

Above(P, key) == {r \in P : ~r.exact /\ IsPrefix(r.path, key)}

(* The route of the longest prefix rule, if there is one.                  *)
IsPrefixRoute(v, e, P, key) ==
    \/ v = HostRoute(e) /\ Above(P, key) = {}
    \/ \E r \in Above(P, key) :
          /\ v = SubpathRoute(e, r)
          /\ \A s \in Above(P, key) : Len(s.path) <= Len(r.path)

Keys(P) == {<<>>} \union {r.path : r \in P}
OnlyPrefixes(P) == \A r \in P : ~r.exact

(* What is found is a route of one of the host's entries, and the right    *)
(* one for this entry: the value for the key itself of an entry that has a *)
(* rule for it; the value for what is below of any entry, but of the       *)
(* current one, as long as further prefix rules may come, only where it    *)
(* has a rule itself.                                                      *)
IsExactValue(v, e, P, key) == key \in Keys(P) /\ v = ExactRoute(e, P, key)

IsPrefixValue(v, e, P, key, current) ==
    /\ IsPrefixRoute(v, e, P, key)
    /\ (e = current /\ OnlyPrefixes(P)) => key \in Keys(P)

HostTable(rules, owners, P, current) ==
    /\ DOMAIN rules = UNION {Keys(P[e]) : e \in owners}
    /\ \A k \in DOMAIN rules :
          /\ \E e \in owners : IsExactValue(rules[k].exact, e, P[e], k)
          /\ \E e \in owners : IsPrefixValue(rules[k].prefix, e, P[e], k, current)

(* The rules that were pushed are rules of their entries.                  *)
PushedOf(owners, P) ==
    /\ owners \subseteq Entries
    /\ \A e \in owners : P[e] \subseteq DOMAIN conf[e].subpaths

LEMMA RuleFacts ==
    ASSUME NEW r \in Rules
    PROVE  /\ r.path \in Words /\ r.exact \in BOOLEAN
           /\ r.exact => r = ExactAt(r.path)
           /\ ~r.exact => r = PrefixAt(r.path)
BY DEF Rules, Words, ExactAt, PrefixAt

LEMMA RoutesAreSome ==
    ASSUME conf \in Configurations, NEW e \in Entries
    PROVE  /\ HostRoute(e) # None
           /\ \A r \in DOMAIN conf[e].subpaths : r \in Rules /\ SubpathRoute(e, r) # None
<1> DEFINE Routes == [strip : Seq(Nat) \union {None}, entry : DOMAIN conf,
                      rule : Rules \union {None}]
<1>1. None \notin Routes /\ DOMAIN conf[e].subpaths \subseteq Rules
    BY ConfigurationsAssumption DEF Entries
<1>2. HostRoute(e) \in Routes
    BY DEF HostRoute, Route, Entries
<1>3. ASSUME NEW r \in DOMAIN conf[e].subpaths
      PROVE  SubpathRoute(e, r) \in Routes
  <2>1. r \in Rules /\ r.path \in Seq(Nat)
    BY <1>1 DEF Rules
  <2> QED
    BY <2>1 DEF SubpathRoute, Route, Entries
<1> QED
    BY <1>1, <1>2, <1>3

LEMMA PushedFacts ==
    ASSUME conf \in Configurations, NEW owners, NEW P, PushedOf(owners, P), NEW e \in owners
    PROVE  /\ e \in Entries /\ HostRoute(e) # None
           /\ \A r \in P[e] :
                 /\ r \in Rules /\ r.path \in Words /\ r.exact \in BOOLEAN
                 /\ r = IF r.exact THEN ExactAt(r.path) ELSE PrefixAt(r.path)
                 /\ SubpathRoute(e, r) # None
           /\ Keys(P[e]) \subseteq Words
<1>1. e \in Entries /\ P[e] \subseteq DOMAIN conf[e].subpaths
    BY DEF PushedOf
<1>2. \A r \in P[e] : r \in Rules /\ r.path \in Words
    BY <1>1, RoutesAreSome, RuleFacts
<1> QED
    BY <1>1, <1>2, RoutesAreSome, RuleFacts, PrefixFacts DEF Keys

(* What is inherited is the route of the longest prefix rule of an entry.  *)
LEMMA InheritedRoute ==
    ASSUME conf \in Configurations, NEW owners, owners # {}, NEW P, PushedOf(owners, P),
           NEW rules, NEW current, HostTable(rules, owners, P, current), NEW key \in Words
    PROVE  \E e \in owners : IsPrefixRoute(Inherited(rules, key), e, P[e], key)
<1> DEFINE above == {k \in DOMAIN rules : IsPrefix(k, key) /\ rules[k].prefix # None}
           closest == CHOOSE p \in above : \A q \in above : IsPrefix(q, p)
<1>1. \A e \in owners : \A r \in P[e] : r.path \in Keys(P[e])
    BY DEF Keys
<1>2. /\ \A e \in owners : Keys(P[e]) \subseteq DOMAIN rules /\ Keys(P[e]) \subseteq Words
      /\ DOMAIN rules \subseteq Words /\ <<>> \in DOMAIN rules
  <2>1. \A e \in owners : Keys(P[e]) \subseteq Words /\ <<>> \in Keys(P[e])
    BY PushedFacts DEF Keys
  <2> QED
    BY <2>1 DEF HostTable
<1>3. \A k \in DOMAIN rules : rules[k].prefix # None
  <2> SUFFICES ASSUME NEW k \in DOMAIN rules PROVE rules[k].prefix # None
    OBVIOUS
  <2>1. PICK e \in owners : IsPrefixRoute(rules[k].prefix, e, P[e], k)
    BY DEF HostTable, IsPrefixValue
  <2> QED
    BY <2>1, PushedFacts DEF IsPrefixRoute, Above
<1>4. <<>> \in above /\ above \in SUBSET Words /\ \A k \in above : IsPrefix(k, key)
    BY <1>2, <1>3, PrefixFacts
<1>5. closest \in above /\ \A k \in above : IsPrefix(k, closest)
  <2> HIDE DEF above
  <2>1. \E p \in above : \A q \in above : IsPrefix(q, p)
    BY <1>4, LongestPrefix
  <2> QED
    BY <2>1
<1>6. Inherited(rules, key) = rules[closest].prefix
    BY <1>4 DEF Inherited, Closest
<1> HIDE DEF closest
<1>7. PICK e \in owners : IsPrefixRoute(rules[closest].prefix, e, P[e], closest)
    BY <1>5 DEF HostTable, IsPrefixValue
<1>8. Above(P[e], key) = Above(P[e], closest)
  <2>1. ASSUME NEW r \in Above(P[e], key) PROVE r \in Above(P[e], closest)
    <3>1. r \in P[e] /\ ~r.exact /\ IsPrefix(r.path, key)
      BY <2>1 DEF Above
    <3>2. r.path \in above
      BY <1>1, <1>2, <1>3, <3>1
    <3> QED
      BY <1>5, <3>1, <3>2 DEF Above
  <2>2. ASSUME NEW r \in Above(P[e], closest) PROVE r \in Above(P[e], key)
    <3>1. /\ r \in P[e] /\ ~r.exact /\ r.path \in Words /\ closest \in Words
          /\ IsPrefix(r.path, closest) /\ IsPrefix(closest, key)
      BY <1>4, <1>5, <2>2, PushedFacts DEF Above
    <3>2. IsPrefix(r.path, key)
      BY <3>1, PrefixFacts
    <3> QED
      BY <3>1, <3>2 DEF Above
  <2> QED
    BY <2>1, <2>2
<1>9. IsPrefixRoute(Inherited(rules, key), e, P[e], key)
    BY <1>6, <1>7, <1>8 DEF IsPrefixRoute
<1> QED
    BY <1>9

(* merge_value adds a prefix rule of the current entry, exact ones come    *)
(* later.                                                                  *)
LEMMA PrefixRulePushed ==
    ASSUME conf \in Configurations, NEW owners, NEW P, PushedOf(owners, P),
           NEW e \in owners, OnlyPrefixes(P[e]),
           NEW rules, HostTable(rules, owners, P, e),
           NEW r \in DOMAIN conf[e].subpaths, ~r.exact,
           NEW Q, Q[e] = P[e] \union {r}, \A f \in owners : f # e => Q[f] = P[f]
    PROVE  HostTable(MergeValue(rules, r.path, SubpathRoute(e, r), SubpathRoute(e, r)),
                     owners, Q, e)
<1> DEFINE route == SubpathRoute(e, r)
           new == MergeValue(rules, r.path, route, route)
<1>1. \A s \in Q[e] : s \in Rules /\ s.path \in Words /\ s = PrefixAt(s.path)
  <2>1. e \in Entries /\ Q[e] \subseteq DOMAIN conf[e].subpaths /\ \A s \in Q[e] : ~s.exact
    BY DEF PushedOf, OnlyPrefixes
  <2> QED
    BY <2>1, RoutesAreSome, RuleFacts
<1>2. route # None /\ r \in Q[e]
    BY RoutesAreSome DEF PushedOf
<1> HIDE DEF route
<1>3. /\ DOMAIN new = DOMAIN rules \union {r.path}
      /\ new[r.path].exact = route /\ new[r.path].prefix = route
      /\ \A p \in DOMAIN rules : p # r.path => new[p] = rules[p]
  <2>1. DOMAIN new = DOMAIN rules \union {r.path}
    BY DEF MergeValue
  <2>2. new[r.path] = [exact |-> route, prefix |-> PrefixValue(rules, r.path, route)]
    BY DEF MergeValue
  <2>3. \A p \in DOMAIN rules : p # r.path => new[p] = rules[p]
    BY DEF MergeValue
  <2> HIDE DEF new
  <2> QED
    BY <1>2, <2>1, <2>2, <2>3 DEF PrefixValue
<1> HIDE DEF new
<1>4. DOMAIN new = UNION {Keys(Q[f]) : f \in owners}
  <2>1. Keys(Q[e]) = Keys(P[e]) \union {r.path}
    BY DEF Keys
  <2>2. \A f \in owners : f # e => Keys(Q[f]) = Keys(P[f])
    OBVIOUS
  <2>3. DOMAIN rules = UNION {Keys(P[f]) : f \in owners}
    BY DEF HostTable
  <2>4. \A k : k \in DOMAIN rules <=> \E f \in owners : k \in Keys(P[f])
    BY <2>3
  <2>5. \A k : k \in DOMAIN new <=> \E f \in owners : k \in Keys(Q[f])
    BY <1>3, <2>1, <2>2, <2>4
  <2> QED
    BY <2>5
<1>5. \A p : ExactAt(p) \notin Q[e]
    BY <1>1 DEF ExactAt, PrefixAt
<1>6. ASSUME NEW p \in DOMAIN new, p = r.path
      PROVE  /\ p \in Keys(Q[e]) /\ new[p].exact = ExactRoute(e, Q[e], p)
             /\ IsPrefixRoute(new[p].prefix, e, Q[e], p)
  <2>1. PrefixAt(p) = r /\ p \in Words
    BY <1>1, <1>2, <1>6
  <2>2. new[p].exact = ExactRoute(e, Q[e], p)
    BY <1>2, <1>3, <1>5, <1>6, <2>1 DEF ExactRoute, route
  <2>3. r \in Above(Q[e], p) /\ \A s \in Above(Q[e], p) : Len(s.path) <= Len(r.path)
    BY <1>1, <1>2, <1>6, <2>1, PrefixFacts DEF Above, PrefixAt
  <2>4. p \in Keys(Q[e])
    BY <1>2, <1>6 DEF Keys
  <2> QED
    BY <1>3, <1>6, <2>2, <2>3, <2>4 DEF IsPrefixRoute, route
<1>7. ASSUME NEW p \in DOMAIN new, p # r.path, p \in Keys(P[e])
      PROVE  /\ p \in Keys(Q[e]) /\ ExactRoute(e, Q[e], p) = ExactRoute(e, P[e], p)
             /\ \A v : IsPrefixRoute(v, e, P[e], p) => IsPrefixRoute(v, e, Q[e], p)
  <2>1. p \in Keys(Q[e]) /\ p \in Words
    BY <1>1, <1>7, PrefixFacts DEF Keys
  <2>2. PrefixAt(p) \in Q[e] <=> PrefixAt(p) \in P[e]
    BY <1>7 DEF PrefixAt
  <2>3. ExactRoute(e, Q[e], p) = ExactRoute(e, P[e], p)
    BY <1>5, <2>2 DEF ExactRoute
  <2>4. ASSUME NEW v, IsPrefixRoute(v, e, P[e], p)
        PROVE  IsPrefixRoute(v, e, Q[e], p)
    <3>1. CASE Above(P[e], p) = {}
      <4>1. \A s \in P[e] : s.path # p
        BY <1>1, <2>1, <3>1, PrefixFacts DEF Above, PrefixAt
      <4>2. p = <<>>
        BY <1>7, <4>1 DEF Keys
      <4>3. ~IsPrefix(r.path, p)
        BY <1>1, <1>2, <1>7, <4>2, PrefixFacts
      <4>4. Above(Q[e], p) = {}
        BY <3>1, <4>3 DEF Above
      <4> QED
        BY <2>4, <3>1, <4>4 DEF IsPrefixRoute
    <3>2. CASE Above(P[e], p) # {}
      <4>1. PICK t \in Above(P[e], p) :
               /\ v = SubpathRoute(e, t)
               /\ \A s \in Above(P[e], p) : Len(s.path) <= Len(t.path)
        BY <2>4, <3>2 DEF IsPrefixRoute
      <4>2. t \in Above(Q[e], p)
        BY DEF Above
      <4>3. ASSUME r \in Above(Q[e], p) PROVE Len(r.path) <= Len(t.path)
        <5>1. IsPrefix(r.path, p) /\ r.path \in Words
          BY <1>1, <1>2, <4>3 DEF Above
        <5>2. p # <<>>
          BY <1>7, <2>1, <5>1, PrefixFacts
        <5>3. PICK s \in P[e] : s.path = p
          BY <1>7, <5>2 DEF Keys
        <5>4. s \in Above(P[e], p)
          BY <1>1, <2>1, <5>3, PrefixFacts DEF Above, PrefixAt
        <5>5. Len(p) <= Len(t.path)
          BY <4>1, <5>3, <5>4
        <5>6. t \in Q[e]
          BY <4>2 DEF Above
        <5>7. Len(r.path) <= Len(p) /\ Len(r.path) \in Nat /\ Len(p) \in Nat
                 /\ Len(t.path) \in Nat
          BY <1>1, <2>1, <5>1, <5>6, PrefixFacts
        <5> QED
          BY <5>5, <5>7
      <4>4. \A s \in Above(Q[e], p) : Len(s.path) <= Len(t.path)
        BY <4>1, <4>3 DEF Above
      <4> QED
        BY <4>1, <4>2, <4>4 DEF IsPrefixRoute
    <3> QED
      BY <3>1, <3>2
  <2> QED
    BY <2>1, <2>3, <2>4
<1>8. OnlyPrefixes(P[e])
    OBVIOUS
<1>9. ASSUME NEW p \in DOMAIN new
      PROVE  /\ \E f \in owners : IsExactValue(new[p].exact, f, Q[f], p)
             /\ \E f \in owners : IsPrefixValue(new[p].prefix, f, Q[f], p, e)
  <2>1. CASE p = r.path
    BY <1>6, <2>1 DEF IsExactValue, IsPrefixValue
  <2>2. CASE p # r.path
    <3>1. p \in DOMAIN rules /\ new[p] = rules[p]
      BY <1>3, <2>2
    <3>2. PICK f \in owners : p \in Keys(P[f]) /\ new[p].exact = ExactRoute(f, P[f], p)
      BY <3>1 DEF HostTable, IsExactValue
    <3>3. PICK g \in owners : /\ IsPrefixRoute(new[p].prefix, g, P[g], p)
                              /\ g = e => p \in Keys(P[g])
      BY <1>8, <3>1 DEF HostTable, IsPrefixValue
    <3>4. p \in Keys(Q[f]) /\ new[p].exact = ExactRoute(f, Q[f], p)
      BY <1>7, <2>2, <3>2
    <3>5. IsPrefixRoute(new[p].prefix, g, Q[g], p) /\ (g = e => p \in Keys(Q[g]))
      BY <1>7, <2>2, <3>3
    <3> QED
      BY <3>4, <3>5 DEF IsExactValue, IsPrefixValue
  <2> QED
    BY <2>1, <2>2
<1>10. HostTable(new, owners, Q, e)
    BY <1>4, <1>9 DEF HostTable
<1> QED
    BY <1>10 DEF new, route

(* It adds an exact one without changing what is below it.                 *)
LEMMA ExactRulePushed ==
    ASSUME conf \in Configurations, NEW owners, NEW P, PushedOf(owners, P),
           NEW e \in owners, NEW rules, HostTable(rules, owners, P, e),
           NEW r \in DOMAIN conf[e].subpaths, r.exact,
           NEW Q, Q[e] = P[e] \union {r}, \A f \in owners : f # e => Q[f] = P[f]
    PROVE  HostTable(MergeValue(rules, r.path, SubpathRoute(e, r), None), owners, Q, e)
<1> DEFINE route == SubpathRoute(e, r)
           new == MergeValue(rules, r.path, route, None)
<1>1. r \in Q[e] /\ r.path \in Words /\ r = ExactAt(r.path)
    BY RoutesAreSome, RuleFacts DEF PushedOf
<1> HIDE DEF route
<1>2. /\ DOMAIN new = DOMAIN rules \union {r.path}
      /\ new[r.path].exact = route
      /\ new[r.path].prefix = IF r.path \in DOMAIN rules THEN rules[r.path].prefix
                              ELSE Inherited(rules, r.path)
      /\ \A p \in DOMAIN rules : p # r.path => new[p] = rules[p]
  <2>1. DOMAIN new = DOMAIN rules \union {r.path}
    BY DEF MergeValue
  <2>2. new[r.path] = [exact |-> route, prefix |-> PrefixValue(rules, r.path, None)]
    BY DEF MergeValue
  <2>3. \A p \in DOMAIN rules : p # r.path => new[p] = rules[p]
    BY DEF MergeValue
  <2> HIDE DEF new
  <2> QED
    BY <2>1, <2>2, <2>3 DEF PrefixValue
<1> HIDE DEF new
<1>3. DOMAIN new = UNION {Keys(Q[f]) : f \in owners}
  <2>1. Keys(Q[e]) = Keys(P[e]) \union {r.path}
    BY DEF Keys
  <2>2. \A f \in owners : f # e => Keys(Q[f]) = Keys(P[f])
    OBVIOUS
  <2>3. DOMAIN rules = UNION {Keys(P[f]) : f \in owners}
    BY DEF HostTable
  <2>4. \A k : k \in DOMAIN rules <=> \E f \in owners : k \in Keys(P[f])
    BY <2>3
  <2>5. \A k : k \in DOMAIN new <=> \E f \in owners : k \in Keys(Q[f])
    BY <1>2, <2>1, <2>2, <2>4
  <2> QED
    BY <2>5
<1>4. \A f \in owners : \A v, p :
          IsPrefixRoute(v, f, P[f], p) => IsPrefixRoute(v, f, Q[f], p)
  <2>1. \A f \in owners : \A p : Above(Q[f], p) = Above(P[f], p)
    BY DEF Above
  <2> QED
    BY <2>1 DEF IsPrefixRoute
<1>5. ~OnlyPrefixes(Q[e])
    BY <1>1 DEF OnlyPrefixes
<1>6. ASSUME NEW p \in DOMAIN new, p = r.path
      PROVE  /\ p \in Keys(Q[e]) /\ new[p].exact = ExactRoute(e, Q[e], p)
             /\ \E f \in owners : IsPrefixRoute(new[p].prefix, f, P[f], p)
  <2>1. p \in Keys(Q[e]) /\ new[p].exact = ExactRoute(e, Q[e], p)
    BY <1>1, <1>2, <1>6 DEF Keys, ExactRoute, route
  <2>2. CASE p \in DOMAIN rules
    <3>1. PICK f \in owners : IsPrefixRoute(rules[p].prefix, f, P[f], p)
      BY <2>2 DEF HostTable, IsPrefixValue
    <3>2. new[p].prefix = rules[p].prefix
      BY <1>2, <1>6, <2>2
    <3> QED
      BY <2>1, <3>1, <3>2
  <2>3. CASE p \notin DOMAIN rules
    <3>1. new[p].prefix = Inherited(rules, p) /\ p \in Words
      BY <1>1, <1>2, <1>6, <2>3
    <3> QED
      BY <2>1, <3>1, InheritedRoute
  <2> QED
    BY <2>1, <2>2, <2>3
<1>7. ASSUME NEW p \in DOMAIN new, p # r.path, NEW f \in owners, p \in Keys(P[f])
      PROVE  p \in Keys(Q[f]) /\ ExactRoute(f, Q[f], p) = ExactRoute(f, P[f], p)
  <2>1. CASE f = e
    <3>1. ExactAt(p) \in Q[e] <=> ExactAt(p) \in P[e]
      BY <1>1, <1>7 DEF ExactAt
    <3>2. PrefixAt(p) \in Q[e] <=> PrefixAt(p) \in P[e]
      BY <1>1 DEF PrefixAt, ExactAt
    <3> QED
      BY <1>7, <2>1, <3>1, <3>2 DEF ExactRoute, Keys
  <2>2. CASE f # e
    BY <1>7, <2>2
  <2> QED
    BY <2>1, <2>2
<1>8. ASSUME NEW p \in DOMAIN new
      PROVE  /\ \E f \in owners : IsExactValue(new[p].exact, f, Q[f], p)
             /\ \E f \in owners : IsPrefixValue(new[p].prefix, f, Q[f], p, e)
  <2>1. CASE p = r.path
    <3>1. PICK f \in owners : IsPrefixRoute(new[p].prefix, f, P[f], p)
      BY <1>6, <2>1
    <3>2. IsPrefixRoute(new[p].prefix, f, Q[f], p)
      BY <1>4, <3>1
    <3> QED
      BY <1>5, <1>6, <2>1, <3>2 DEF IsExactValue, IsPrefixValue
  <2>2. CASE p # r.path
    <3>1. p \in DOMAIN rules /\ new[p] = rules[p]
      BY <1>2, <2>2
    <3>2. PICK f \in owners : p \in Keys(P[f]) /\ new[p].exact = ExactRoute(f, P[f], p)
      BY <3>1 DEF HostTable, IsExactValue
    <3>3. PICK g \in owners : IsPrefixRoute(new[p].prefix, g, P[g], p)
      BY <3>1 DEF HostTable, IsPrefixValue
    <3>4. p \in Keys(Q[f]) /\ new[p].exact = ExactRoute(f, Q[f], p)
      BY <1>7, <2>2, <3>2
    <3>5. IsPrefixRoute(new[p].prefix, g, Q[g], p)
      BY <1>4, <3>3
    <3> QED
      BY <1>5, <3>4, <3>5 DEF IsExactValue, IsPrefixValue
  <2> QED
    BY <2>1, <2>2
<1>9. HostTable(new, owners, Q, e)
    BY <1>3, <1>8 DEF HostTable
<1> QED
    BY <1>9 DEF new, route

(* A host of another entry becomes one of this entry, too.                 *)
LEMMA EntryAdded ==
    ASSUME conf \in Configurations, NEW owners, NEW P, NEW e \in Entries, e \notin owners,
           None \notin owners, NEW rules, HostTable(rules, owners, P, None),
           NEW Q, Q[e] = {}, \A f \in owners : Q[f] = P[f]
    PROVE  HostTable(MergeValue(rules, <<>>, HostRoute(e), HostRoute(e)),
                     owners \union {e}, Q, e)
<1> DEFINE route == HostRoute(e)
           new == MergeValue(rules, <<>>, route, route)
<1>1. route # None
    BY RoutesAreSome
<1> HIDE DEF route
<1>2. /\ DOMAIN new = DOMAIN rules \union {<<>>}
      /\ new[<<>>].exact = route /\ new[<<>>].prefix = route
      /\ \A p \in DOMAIN rules : p # <<>> => new[p] = rules[p]
  <2>1. DOMAIN new = DOMAIN rules \union {<<>>}
    BY DEF MergeValue
  <2>2. new[<<>>] = [exact |-> route, prefix |-> PrefixValue(rules, <<>>, route)]
    BY DEF MergeValue
  <2>3. \A p \in DOMAIN rules : p # <<>> => new[p] = rules[p]
    BY DEF MergeValue
  <2> HIDE DEF new
  <2> QED
    BY <1>1, <2>1, <2>2, <2>3 DEF PrefixValue
<1> HIDE DEF new
<1>3. Keys(Q[e]) = {<<>>}
    BY DEF Keys
<1>4. DOMAIN new = UNION {Keys(Q[f]) : f \in owners \union {e}}
  <2>1. \A k : k \in DOMAIN rules <=> \E f \in owners : k \in Keys(P[f])
    BY DEF HostTable
  <2>2. \A k : k \in DOMAIN new <=> \E f \in owners \union {e} : k \in Keys(Q[f])
    BY <1>2, <1>3, <2>1
  <2> QED
    BY <2>2
<1>5. ASSUME NEW p \in DOMAIN new
      PROVE  /\ \E f \in owners \union {e} :
                   IsExactValue(new[p].exact, f, Q[f], p)
             /\ \E f \in owners \union {e} :
                   IsPrefixValue(new[p].prefix, f, Q[f], p, e)
  <2>1. CASE p = <<>>
    <3>1. new[p].exact = ExactRoute(e, Q[e], p) /\ IsPrefixRoute(new[p].prefix, e, Q[e], p)
      BY <1>2, <2>1 DEF ExactRoute, IsPrefixRoute, Above, route
    <3> QED
      BY <1>3, <2>1, <3>1 DEF IsExactValue, IsPrefixValue
  <2>2. CASE p # <<>>
    <3>1. p \in DOMAIN rules /\ new[p] = rules[p]
      BY <1>2, <2>2
    <3>2. PICK f \in owners : p \in Keys(P[f]) /\ new[p].exact = ExactRoute(f, P[f], p)
      BY <3>1 DEF HostTable, IsExactValue
    <3>3. PICK g \in owners : IsPrefixRoute(new[p].prefix, g, P[g], p)
      BY <3>1 DEF HostTable, IsPrefixValue
    <3>4. g # e /\ Q[f] = P[f] /\ Q[g] = P[g]
      OBVIOUS
    <3> QED
      BY <3>2, <3>3, <3>4 DEF IsExactValue, IsPrefixValue
  <2> QED
    BY <2>1, <2>2
<1>6. HostTable(new, owners \union {e}, Q, e)
    BY <1>4, <1>5 DEF HostTable
<1> QED
    BY <1>6 DEF new, route

(* What is pushed for other hosts makes no difference.                     *)
LEMMA OtherHost ==
    ASSUME NEW owners, NEW P, NEW c, NEW rules, HostTable(rules, owners, P, c),
           NEW Q, \A f \in owners : Q[f] = P[f], NEW d, d \notin owners \/ d = c
    PROVE  HostTable(rules, owners, Q, d)
<1>1. \A k : k \in DOMAIN rules <=> \E f \in owners : k \in Keys(P[f])
    BY DEF HostTable
<1>2. \A k : k \in DOMAIN rules <=> \E f \in owners : k \in Keys(Q[f])
    BY <1>1
<1>3. DOMAIN rules = UNION {Keys(Q[f]) : f \in owners}
    BY <1>2
<1>4. ASSUME NEW p \in DOMAIN rules
      PROVE  /\ \E f \in owners : IsExactValue(rules[p].exact, f, Q[f], p)
             /\ \E f \in owners : IsPrefixValue(rules[p].prefix, f, Q[f], p, d)
  <2>1. PICK f \in owners : IsExactValue(rules[p].exact, f, P[f], p)
    BY DEF HostTable
  <2>2. PICK g \in owners : IsPrefixValue(rules[p].prefix, g, P[g], p, c)
    BY DEF HostTable
  <2>3. IsPrefixValue(rules[p].prefix, g, Q[g], p, d)
    BY <2>2 DEF IsPrefixValue
  <2> QED
    BY <2>1, <2>3
<1> QED
    BY <1>3, <1>4 DEF HostTable

-----------------------------------------------------------------------------
(***************************************************************************)
(* Once all the rules of an entry were pushed, a lookup yields the route   *)
(* of the one that is configured.                                          *)
(***************************************************************************)
RulesFor(e, key) == {r \in DOMAIN conf[e].subpaths : Applies(r, key)}

(* Of the rules that apply, no other one is as close as the closest one.   *)
LEMMA ClosestRule ==
    ASSUME conf \in Configurations, NEW e \in Entries, NEW key \in Words,
           NEW r \in RulesFor(e, key), \A s \in RulesFor(e, key) : Closer(r, s)
    PROVE  Configured(e, key) = r
<1> DEFINE R == RulesFor(e, key)
           c == CHOOSE q \in R : \A s \in R : Closer(q, s)
<1>1. Configured(e, key) = c
    BY DEF Configured, RulesFor
<1>2. \A s \in R : /\ s.path \in Words /\ Len(s.path) \in Nat /\ s.exact \in BOOLEAN
                   /\ s = IF s.exact THEN ExactAt(s.path) ELSE PrefixAt(s.path)
    BY RoutesAreSome, RuleFacts, PrefixFacts DEF RulesFor
<1>3. r \in R /\ \A s \in R : Closer(r, s)
    OBVIOUS
<1> HIDE DEF R
<1>4. c \in R /\ Closer(c, r) /\ Closer(r, c)
    BY <1>3
<1> HIDE DEF c
<1>5. c.path = r.path
    BY <1>2, <1>3, <1>4 DEF Closer
<1>6. c.exact = r.exact
  <2>1. (c.exact \/ ~r.exact) /\ (r.exact \/ ~c.exact)
    BY <1>2, <1>3, <1>4, <1>5 DEF Closer
  <2> QED
    BY <1>2, <1>3, <1>4, <2>1
<1>7. c = r
    BY <1>2, <1>3, <1>4, <1>5, <1>6
<1> QED
    BY <1>1, <1>7

LEMMA NoRule ==
    ASSUME NEW e, NEW key, RulesFor(e, key) = {}
    PROVE  Configured(e, key) = None
BY DEF Configured, RulesFor

(* What the rules that apply are, and how close they are to each other.    *)
LEMMA ApplyingRules ==
    ASSUME conf \in Configurations, NEW e \in Entries, NEW key \in Words
    PROVE  /\ \A r \in RulesFor(e, key) :
                  r = ExactAt(key) \/ r \in Above(DOMAIN conf[e].subpaths, key)
           /\ Above(DOMAIN conf[e].subpaths, key) \subseteq RulesFor(e, key)
           /\ ExactAt(key) \in DOMAIN conf[e].subpaths => ExactAt(key) \in RulesFor(e, key)
           /\ \A r, s \in Above(DOMAIN conf[e].subpaths, key) :
                  Len(s.path) <= Len(r.path) => Closer(r, s)
           /\ \A s \in Above(DOMAIN conf[e].subpaths, key) : Closer(ExactAt(key), s)
<1> DEFINE P == DOMAIN conf[e].subpaths
<1>1. \A r \in P : /\ r.path \in Words /\ Len(r.path) \in Nat /\ r.exact \in BOOLEAN
                   /\ r = IF r.exact THEN ExactAt(r.path) ELSE PrefixAt(r.path)
    BY RoutesAreSome, RuleFacts, PrefixFacts
<1>2. ASSUME NEW r \in RulesFor(e, key)
      PROVE  r = ExactAt(key) \/ r \in Above(P, key)
    BY <1>1, <1>2 DEF RulesFor, Applies, Above
<1>3. ASSUME NEW r \in Above(P, key)
      PROVE  r \in RulesFor(e, key)
    BY <1>3 DEF RulesFor, Applies, Above
<1>4. ASSUME ExactAt(key) \in P
      PROVE  ExactAt(key) \in RulesFor(e, key)
    BY <1>4 DEF RulesFor, Applies, ExactAt
<1>5. ASSUME NEW r \in Above(P, key), NEW s \in Above(P, key), Len(s.path) <= Len(r.path)
      PROVE  Closer(r, s)
  <2>1. /\ r.path \in Words /\ s.path \in Words /\ ~r.exact /\ ~s.exact
        /\ IsPrefix(r.path, key) /\ IsPrefix(s.path, key)
    BY <1>1, <1>5 DEF Above
  <2>2. Len(r.path) \in Nat /\ Len(s.path) \in Nat
    BY <2>1, PrefixFacts
  <2>3. IsPrefix(s.path, r.path)
    BY <1>5, <2>1, PrefixFacts
  <2>4. CASE Len(s.path) = Len(r.path)
    <3>1. s.path = r.path
      BY <2>1, <2>3, <2>4, PrefixFacts
    <3> QED
      BY <2>1, <3>1 DEF Closer
  <2>5. CASE Len(s.path) < Len(r.path)
    BY <2>2, <2>5 DEF Closer
  <2> QED
    BY <1>5, <2>2, <2>4, <2>5
<1>6. ASSUME NEW s \in Above(P, key)
      PROVE  Closer(ExactAt(key), s)
  <2>1. s.path \in Words /\ IsPrefix(s.path, key)
    BY <1>1, <1>6 DEF Above
  <2>2. Len(s.path) \in Nat /\ Len(key) \in Nat /\ Len(s.path) <= Len(key)
    BY <2>1, PrefixFacts
  <2>3. CASE Len(s.path) = Len(key)
    <3>1. s.path = key
      BY <2>1, <2>3, PrefixFacts
    <3> QED
      BY <3>1 DEF Closer, ExactAt
  <2>4. CASE Len(s.path) < Len(key)
    BY <2>2, <2>4 DEF Closer, ExactAt
  <2> QED
    BY <2>2, <2>3, <2>4
<1> QED
    BY <1>2, <1>3, <1>4, <1>5, <1>6

(* The route that a request gets from an entry.                            *)
IsRouteFor(v, e, key) ==
    /\ v # None /\ v.entry = e /\ v.rule = Configured(e, key)
    /\ IF v.rule = None THEN v.strip = None
       ELSE /\ v.rule \in RulesFor(e, key)
            /\ v.strip = IF conf[e].subpaths[v.rule] THEN v.rule.path ELSE None

(* The route is the configured one, if it names the closest rule.          *)
LEMMA PrefixRouteConfigured ==
    ASSUME conf \in Configurations, NEW e \in Entries, NEW key \in Words, NEW v,
           ExactAt(key) \notin DOMAIN conf[e].subpaths,
           IsPrefixRoute(v, e, DOMAIN conf[e].subpaths, key)
    PROVE  IsRouteFor(v, e, key)
<1> DEFINE P == DOMAIN conf[e].subpaths
<1>1. RulesFor(e, key) = Above(P, key)
    BY ApplyingRules, RoutesAreSome DEF RulesFor
<1>2. CASE v = HostRoute(e) /\ Above(P, key) = {}
    BY <1>1, <1>2, NoRule, RoutesAreSome DEF IsRouteFor, HostRoute, Route
<1>3. CASE \E r \in Above(P, key) :
              /\ v = SubpathRoute(e, r)
              /\ \A s \in Above(P, key) : Len(s.path) <= Len(r.path)
  <2>1. PICK r \in Above(P, key) :
              /\ v = SubpathRoute(e, r)
              /\ \A s \in Above(P, key) : Len(s.path) <= Len(r.path)
    BY <1>3
  <2>2. \A s \in RulesFor(e, key) : Closer(r, s)
    BY <1>1, <2>1, ApplyingRules
  <2>3. r = Configured(e, key)
    BY <1>1, <2>2, ClosestRule
  <2>4. r \in P
    BY DEF Above
  <2> QED
    BY <1>1, <2>1, <2>3, <2>4, RoutesAreSome, NoneAssumption
       DEF IsRouteFor, SubpathRoute, Route
<1> QED
    BY <1>2, <1>3 DEF IsPrefixRoute

LEMMA ExactRouteConfigured ==
    ASSUME conf \in Configurations, NEW e \in Entries, NEW key \in Words, NEW v,
           IsExactValue(v, e, DOMAIN conf[e].subpaths, key)
    PROVE  IsRouteFor(v, e, key)
<1> DEFINE P == DOMAIN conf[e].subpaths
<1>1. \A r \in P : r = IF r.exact THEN ExactAt(r.path) ELSE PrefixAt(r.path)
    BY RoutesAreSome, RuleFacts
<1>2. CASE ExactAt(key) \in P
  <2>1. v = SubpathRoute(e, ExactAt(key))
    BY <1>2 DEF IsExactValue, ExactRoute
  <2>2. ExactAt(key) \in RulesFor(e, key)
    BY <1>2, ApplyingRules
  <2>3. \A s \in RulesFor(e, key) : Closer(ExactAt(key), s)
    <3>1. Closer(ExactAt(key), ExactAt(key))
      BY DEF Closer, ExactAt
    <3> QED
      BY <3>1, ApplyingRules
  <2>4. Configured(e, key) = ExactAt(key)
    BY <2>2, <2>3, ClosestRule
  <2> QED
    BY <1>2, <2>1, <2>2, <2>4, RoutesAreSome, NoneAssumption
       DEF IsRouteFor, SubpathRoute, Route
<1>3. CASE ExactAt(key) \notin P
  <2>1. IsPrefixRoute(v, e, P, key)
    <3>1. CASE PrefixAt(key) \in P
      <4>1. v = SubpathRoute(e, PrefixAt(key))
        BY <1>3, <3>1 DEF IsExactValue, ExactRoute
      <4>2. PrefixAt(key) \in Above(P, key)
        BY <3>1, PrefixFacts DEF Above, PrefixAt
      <4>3. \A s \in Above(P, key) : Len(s.path) <= Len(PrefixAt(key).path)
        BY RoutesAreSome, RuleFacts, PrefixFacts DEF Above, PrefixAt
      <4> QED
        BY <4>1, <4>2, <4>3 DEF IsPrefixRoute
    <3>2. CASE PrefixAt(key) \notin P
      <4>1. v = HostRoute(e)
        BY <1>3, <3>2 DEF IsExactValue, ExactRoute
      <4>2. \A r \in P : r.path # key
        BY <1>1, <1>3, <3>2
      <4>3. key = <<>>
        BY <4>2 DEF IsExactValue, Keys
      <4>4. Above(P, key) = {}
        BY <4>2, <4>3, RoutesAreSome, RuleFacts, PrefixFacts DEF Above
      <4> QED
        BY <4>1, <4>4 DEF IsPrefixRoute
    <3> QED
      BY <3>1, <3>2
  <2> QED
    BY <1>3, <2>1, PrefixRouteConfigured
<1> QED
    BY <1>2, <1>3

LEMMA MatchConfigured ==
    ASSUME conf \in Configurations, NEW owners, owners # {}, owners \subseteq Entries,
           NEW P, \A e \in owners : P[e] = DOMAIN conf[e].subpaths,
           NEW rules, NEW current, HostTable(rules, owners, P, current), NEW key \in Words
    PROVE  \E e \in owners : IsRouteFor(BestMatch(rules, key), e, key)
<1>1. CASE key \in DOMAIN rules
  <2>1. PICK e \in owners : IsExactValue(rules[key].exact, e, P[e], key)
    BY <1>1 DEF HostTable
  <2>2. IsExactValue(BestMatch(rules, key), e, DOMAIN conf[e].subpaths, key)
    BY <1>1, <2>1 DEF BestMatch
  <2> QED
    BY <2>2, ExactRouteConfigured
<1>2. CASE key \notin DOMAIN rules
  <2>1. PushedOf(owners, P)
    BY DEF PushedOf
  <2>2. PICK e \in owners : IsPrefixRoute(Inherited(rules, key), e, P[e], key)
    BY <2>1, InheritedRoute
  <2>3. IsPrefixRoute(BestMatch(rules, key), e, DOMAIN conf[e].subpaths, key)
    BY <1>2, <2>2 DEF BestMatch
  <2>4. ExactAt(key) \notin DOMAIN conf[e].subpaths
    <3>1. key \notin Keys(P[e])
      BY <1>2 DEF HostTable
    <3> QED
      BY <3>1 DEF Keys, ExactAt
  <2> QED
    BY <2>3, <2>4, PrefixRouteConfigured
<1> QED
    BY <1>1, <1>2

LEMMA NoMatch ==
    ASSUME NEW key
    PROVE  BestMatch(<<>>, key) = None
BY DEF BestMatch, Inherited

-----------------------------------------------------------------------------
(***************************************************************************)
(* The invariant: every host of the table has the rules of its entries     *)
(* that have been pushed so far.                                           *)
(***************************************************************************)
(* Nothing keeps a configuration from giving a name to several entries.    *)
Owners(h) ==
    {e \in Entries \ todo : IF h = FallbackHost THEN default = e ELSE h \in conf[e].names}

PushedRules ==
    [e \in Entries |-> DOMAIN conf[e].subpaths \ (IF e = entry THEN subpaths ELSE {})]

DefaultInv ==
    /\ default # None => default \in Entries \ todo /\ conf[default].default
    /\ default = None => \A e \in Entries \ todo : ~conf[e].default

(* Exact rules are pushed last.                                            *)
EntryInv ==
    /\ entry # None => entry \in Entries \ todo
    /\ subpaths \subseteq (IF entry = None THEN {} ELSE DOMAIN conf[entry].subpaths)
    /\ entry # None => OnlyPrefixes(PushedRules[entry]) \/ \A r \in subpaths : r.exact

TableInv ==
    /\ \A h : h \in DOMAIN table <=> Owners(h) # {}
    /\ \A h : HostTable(RulesOf(table, h), Owners(h), PushedRules, entry)

PathInv == StrippedPath /\ request.path \in AbsolutePaths /\ uri \in AbsolutePaths

IInv ==
    /\ conf \in Configurations /\ todo \subseteq Entries
    /\ DefaultInv /\ EntryInv /\ TableInv
    /\ request # None => Serving /\ RoutedAsConfigured /\ PathInv

LEMMA InitInv ==
    Init => IInv
<1> SUFFICES ASSUME Init PROVE IInv
    OBVIOUS
<1> USE DEF Init
<1>1. DefaultInv /\ EntryInv
    BY DEF DefaultInv, EntryInv
<1>2. \A h : Owners(h) = {} /\ RulesOf(table, h) = <<>>
    BY DEF Owners, RulesOf
<1>3. DOMAIN table = {}
    OBVIOUS
<1>4. \A P, current : HostTable(<<>>, {}, P, current)
    BY DEF HostTable
<1>5. TableInv
    BY <1>2, <1>3, <1>4 DEF TableInv
<1> QED
    BY <1>1, <1>5 DEF IInv

(* The entry being worked on is given the hosts that it owns.              *)
LEMMA NamesOwned ==
    ASSUME IInv, entry # None, NEW h
    PROVE  h \in Names(entry) <=> entry \in Owners(h)
BY DEF IInv, DefaultInv, EntryInv, Names, IsDefault, Owners

(* Routes depend on nothing but the configuration, which stays the same.   *)
LEMMA SameRoutes ==
    ASSUME conf' = conf
    PROVE  \A rules, owners, P, current :
              HostTable(rules, owners, P, current)' <=> HostTable(rules, owners, P, current)
BY DEF HostTable, IsExactValue, IsPrefixValue, ExactRoute, IsPrefixRoute, SubpathRoute, HostRoute

LEMMA TableNext ==
    ASSUME conf' = conf, NEW owners, NEW P, NEW current, NEW rules, NEW h,
           HostTable(rules, owners, P, current),
           RulesOf(table, h)' = rules, Owners(h)' = owners, PushedRules' = P, entry' = current
    PROVE  HostTable(RulesOf(table, h), Owners(h), PushedRules, entry)'
BY SameRoutes

LEMMA TakeEntryInv ==
    ASSUME IInv, TakeEntry
    PROVE  IInv'
<1>1. PICK e \in todo :
        /\ todo' = todo \ {e}
        /\ entry' = e /\ subpaths' = DOMAIN conf[e].subpaths
        /\ default' = IF IsDefault(e) THEN e ELSE default
        /\ PushAll(Names(e), <<>>, HostRoute(e), HostRoute(e))
    BY DEF TakeEntry
<1>2. /\ entry = None /\ conf' = conf /\ request' = request
      /\ conf \in Configurations /\ todo \subseteq Entries /\ Entries' = Entries
      /\ request = None /\ None \notin Entries
    BY ConfigurationsAssumption DEF TakeEntry, IInv, Serving, Entries
<1>3. IsDefault(e) <=> conf[e].default /\ default = None
    BY <1>1, <1>2 DEF IsDefault, IInv, DefaultInv
<1>4. DefaultInv'
  <2> USE <1>1, <1>2, <1>3 DEF IInv, DefaultInv
  <2>1. CASE IsDefault(e)
    BY <2>1
  <2>2. CASE ~IsDefault(e)
    BY <2>2
  <2> QED
    BY <2>1, <2>2
<1>5. /\ PushedRules'[e] = {} /\ \A f \in Entries \ todo : PushedRules'[f] = PushedRules[f]
  <2>1. subpaths = {}
    BY <1>2 DEF IInv, EntryInv
  <2> QED
    BY <1>1, <1>2, <2>1 DEF PushedRules
<1>6. EntryInv'
    BY <1>1, <1>2, <1>5 DEF EntryInv, OnlyPrefixes
<1>7. \A h : Owners(h) \subseteq Entries \ todo
    BY DEF Owners
<1>8. \A h : Owners(h)' = IF h \in Names(e) THEN Owners(h) \union {e} ELSE Owners(h)
  <2> SUFFICES ASSUME NEW h, NEW f
               PROVE  f \in Owners(h)' <=> f \in Owners(h) \/ (f = e /\ h \in Names(e))
    OBVIOUS
  <2>1. CASE h = FallbackHost
    BY <1>1, <1>2, <1>3, <2>1 DEF Owners, Names, IInv, DefaultInv
  <2>2. CASE h # FallbackHost
    BY <1>1, <1>2, <2>2 DEF Owners, Names
  <2> QED
    BY <2>1, <2>2
<1>9. /\ DOMAIN table' = DOMAIN table \union Names(e)
      /\ \A h \in Names(e) :
            table'[h] = MergeValue(RulesOf(table, h), <<>>, HostRoute(e), HostRoute(e))
      /\ \A h \in DOMAIN table \ Names(e) : table'[h] = table[h]
    BY <1>1 DEF PushAll
<1>10. ASSUME NEW h
       PROVE  HostTable(RulesOf(table, h), Owners(h), PushedRules, entry)'
  <2>1. HostTable(RulesOf(table, h), Owners(h), PushedRules, None)
    BY <1>2 DEF IInv, TableInv
  <2>2. /\ e \in Entries /\ e \notin Owners(h) /\ None \notin Owners(h)
        /\ PushedRules'[e] = {} /\ \A f \in Owners(h) : PushedRules'[f] = PushedRules[f]
    BY <1>1, <1>2, <1>5, <1>7
  <2>3. CASE h \in Names(e)
    <3>1. Owners(h)' = Owners(h) \union {e} /\ PushedRules' = PushedRules' /\ entry' = e
      BY <1>1, <1>8, <2>3
    <3>2. RulesOf(table, h)' = MergeValue(RulesOf(table, h), <<>>, HostRoute(e), HostRoute(e))
      BY <1>9, <2>3 DEF RulesOf
    <3>3. HostTable(MergeValue(RulesOf(table, h), <<>>, HostRoute(e), HostRoute(e)),
                    Owners(h) \union {e}, PushedRules', e)
      BY <1>2, <2>1, <2>2, EntryAdded
    <3> QED
      BY <1>2, <3>1, <3>2, <3>3, TableNext
  <2>4. CASE h \notin Names(e)
    <3>1. Owners(h)' = Owners(h) /\ PushedRules' = PushedRules' /\ entry' = e
      BY <1>1, <1>8, <2>4
    <3>2. RulesOf(table, h)' = RulesOf(table, h)
      BY <1>9, <2>4 DEF RulesOf
    <3>3. HostTable(RulesOf(table, h), Owners(h), PushedRules', e)
      BY <2>1, <2>2, OtherHost
    <3> QED
      BY <1>2, <3>1, <3>2, <3>3, TableNext
  <2> QED
    BY <2>3, <2>4
<1>11. TableInv'
  <2>1. \A h : h \in DOMAIN table' <=> Owners(h)' # {}
    BY <1>8, <1>9 DEF IInv, TableInv
  <2> QED
    BY <1>10, <2>1 DEF TableInv
<1> QED
    BY <1>1, <1>2, <1>4, <1>6, <1>11 DEF IInv

LEMMA PushSubpathInv ==
    ASSUME IInv, PushSubpath
    PROVE  IInv'
<1>1. PICK rule \in NextRules :
        /\ subpaths' = subpaths \ {rule}
        /\ PushAll(Names(entry), rule.path, SubpathRoute(entry, rule),
                   IF rule.exact THEN None ELSE SubpathRoute(entry, rule))
    BY DEF PushSubpath
<1>2. /\ conf' = conf /\ todo' = todo /\ default' = default /\ entry' = entry
      /\ request' = request /\ Entries' = Entries
    BY DEF PushSubpath, Entries
<1>3. /\ conf \in Configurations /\ entry # None /\ entry \in Entries \ todo
      /\ rule \in subpaths /\ subpaths \subseteq DOMAIN conf[entry].subpaths
    BY <1>1 DEF IInv, EntryInv, NextRules
<1>4. request = None
    BY <1>3 DEF IInv, Serving
<1>5. /\ PushedRules'[entry] = PushedRules[entry] \union {rule}
      /\ \A f \in Entries : f # entry => PushedRules'[f] = PushedRules[f]
      /\ \A f \in Entries : PushedRules[f] \subseteq DOMAIN conf[f].subpaths
    BY <1>1, <1>2, <1>3 DEF PushedRules
<1>6. DefaultInv'
    BY <1>2 DEF IInv, DefaultInv
<1>7. EntryInv'
  <2>1. \A r \in subpaths' : r \in subpaths
    BY <1>1
  <2>2. CASE rule.exact
    <3>1. \A r \in subpaths' : r.exact
      BY <1>1, <2>1, <2>2 DEF NextRules
    <3> QED
      BY <1>2, <1>3, <2>1, <3>1 DEF EntryInv
  <2>3. CASE ~rule.exact
    <3>1. OnlyPrefixes(PushedRules[entry])
      BY <1>3, <2>3 DEF IInv, EntryInv
    <3>2. OnlyPrefixes(PushedRules'[entry])
      BY <1>5, <2>3, <3>1 DEF OnlyPrefixes
    <3> QED
      BY <1>2, <1>3, <2>1, <3>2 DEF EntryInv
  <2> QED
    BY <2>2, <2>3
<1>8. \A h : Owners(h)' = Owners(h) /\ Owners(h) \subseteq Entries
    BY <1>2 DEF Owners
<1>9. \A h : h \in Names(entry) <=> entry \in Owners(h)
    BY <1>3, NamesOwned
<1>10. \A h \in Names(entry) : h \in DOMAIN table
    BY <1>9 DEF IInv, TableInv
<1>11. /\ DOMAIN table' = DOMAIN table
       /\ \A h \in Names(entry) :
             table'[h] = MergeValue(RulesOf(table, h), rule.path, SubpathRoute(entry, rule),
                             IF rule.exact THEN None ELSE SubpathRoute(entry, rule))
       /\ \A h \in DOMAIN table \ Names(entry) : table'[h] = table[h]
    BY <1>1, <1>10 DEF PushAll
<1>12. ASSUME NEW h
       PROVE  HostTable(RulesOf(table, h), Owners(h), PushedRules, entry)'
  <2> DEFINE route == SubpathRoute(entry, rule)
             old == RulesOf(table, h)
  <2>1. HostTable(old, Owners(h), PushedRules, entry)
    BY DEF IInv, TableInv
  <2>2. PushedOf(Owners(h), PushedRules)
    BY <1>5, <1>8 DEF PushedOf
  <2>3. Owners(h)' = Owners(h) /\ entry' = entry /\ conf' = conf
    BY <1>2, <1>8
  <2> HIDE DEF route, old
  <2>4. CASE h \in Names(entry)
    <3>1. entry \in Owners(h) /\ \A f \in Owners(h) : f # entry => PushedRules'[f] = PushedRules[f]
      BY <1>5, <1>8, <1>9, <2>4
    <3>2. rule \in DOMAIN conf[entry].subpaths
      BY <1>3
    <3>3. CASE rule.exact
      <4>1. RulesOf(table, h)' = MergeValue(old, rule.path, route, None)
        BY <1>10, <1>11, <2>4, <3>3 DEF RulesOf, route, old
      <4>2. HostTable(MergeValue(old, rule.path, route, None), Owners(h), PushedRules', entry)
        BY <1>3, <1>5, <2>1, <2>2, <3>1, <3>2, <3>3, ExactRulePushed DEF route
      <4> QED
        BY <2>3, <4>1, <4>2, TableNext
    <3>4. CASE ~rule.exact
      <4>1. RulesOf(table, h)' = MergeValue(old, rule.path, route, route)
        BY <1>10, <1>11, <2>4, <3>4 DEF RulesOf, route, old
      <4>2. OnlyPrefixes(PushedRules[entry])
        BY <1>3, <3>4 DEF IInv, EntryInv
      <4>3. HostTable(MergeValue(old, rule.path, route, route), Owners(h), PushedRules', entry)
        BY <1>3, <1>5, <2>1, <2>2, <3>1, <3>2, <3>4, <4>2, PrefixRulePushed DEF route
      <4> QED
        BY <2>3, <4>1, <4>3, TableNext
    <3> QED
      BY <3>3, <3>4
  <2>5. CASE h \notin Names(entry)
    <3>1. \A f \in Owners(h) : PushedRules'[f] = PushedRules[f]
      BY <1>5, <1>8, <1>9, <2>5
    <3>2. RulesOf(table, h)' = old
      BY <1>11, <2>5 DEF RulesOf, old
    <3>3. HostTable(old, Owners(h), PushedRules', entry)
      BY <2>1, <3>1, OtherHost
    <3> QED
      BY <2>3, <3>2, <3>3, TableNext
  <2> QED
    BY <2>4, <2>5
<1>13. TableInv'
  <2>1. \A h : h \in DOMAIN table' <=> Owners(h)' # {}
    BY <1>8, <1>11 DEF IInv, TableInv
  <2> QED
    BY <1>12, <2>1 DEF TableInv
<1> QED
    BY <1>2, <1>3, <1>4, <1>6, <1>7, <1>13 DEF IInv

LEMMA SameTableInv ==
    ASSUME IInv, UNCHANGED <<conf, todo, default, table>>, PushedRules' = PushedRules,
           entry' \in {entry, None}
    PROVE  DefaultInv' /\ TableInv' /\ (conf \in Configurations /\ todo \subseteq Entries)'
<1>1. \A h : Owners(h)' = Owners(h) /\ RulesOf(table, h)' = RulesOf(table, h)
    BY DEF Owners, Entries
<1>2. \A h : h \in DOMAIN table' <=> Owners(h)' # {}
    BY <1>1 DEF IInv, TableInv
<1>3. ASSUME NEW h
      PROVE  HostTable(RulesOf(table, h), Owners(h), PushedRules, entry)'
  <2>1. HostTable(RulesOf(table, h), Owners(h), PushedRules, entry)
    BY DEF IInv, TableInv
  <2>2. None \notin Owners(h)
    BY ConfigurationsAssumption DEF IInv, Owners, Entries
  <2>3. HostTable(RulesOf(table, h), Owners(h), PushedRules, entry')
    BY <2>1, <2>2, OtherHost
  <2> QED
    BY <1>1, <2>3, TableNext
<1>4. TableInv'
    BY <1>2, <1>3 DEF TableInv
<1> QED
    BY <1>4 DEF IInv, DefaultInv, Entries

LEMMA FinishEntryInv ==
    ASSUME IInv, FinishEntry
    PROVE  IInv'
<1>1. /\ entry # None /\ entry' = None /\ subpaths = {} /\ subpaths' = {}
      /\ request = None /\ request' = None
      /\ UNCHANGED <<conf, todo, default, table>>
    BY DEF FinishEntry, IInv, Serving
<1>2. PushedRules' = PushedRules
    BY <1>1 DEF PushedRules, Entries
<1>3. EntryInv'
    BY <1>1 DEF EntryInv
<1> QED
    BY <1>1, <1>2, <1>3, SameTableInv DEF IInv

(* A host is looked up among the rules of its entries.                     *)
LEMMA OwnedMatch ==
    ASSUME IInv, Serving, NEW h, Owners(h) # {}, NEW key \in Words
    PROVE  \E e \in Owners(h) : IsRouteFor(BestMatch(RulesOf(table, h), key), e, key)
<1>1. conf \in Configurations /\ Owners(h) \subseteq Entries
    BY DEF IInv, Owners
<1>2. subpaths = {}
    BY DEF IInv, EntryInv, Serving
<1>3. \A e \in Owners(h) : PushedRules[e] = DOMAIN conf[e].subpaths
    BY <1>1, <1>2 DEF PushedRules
<1>4. HostTable(RulesOf(table, h), Owners(h), PushedRules, entry)
    BY DEF IInv, TableInv
<1> QED
    BY <1>1, <1>3, <1>4, MatchConfigured

LEMMA NotOwnedMatch ==
    ASSUME IInv, NEW h, Owners(h) = {}, NEW key
    PROVE  BestMatch(RulesOf(table, h), key) = None
<1>1. RulesOf(table, h) = <<>>
    BY DEF IInv, TableInv, RulesOf
<1> QED
    BY <1>1, NoMatch

LEMMA LookupConfigured ==
    ASSUME IInv, Serving, NEW host, NEW key \in Words
    PROVE  LET v == LookupRoute(table, host, key)
           IN  \/ v = None /\ EntriesFor(host) = {}
               \/ \E e \in EntriesFor(host) : IsRouteFor(v, e, key)
<1> DEFINE v == LookupRoute(table, host, key)
           own == BestMatch(RulesOf(table, host), key)
           fallback == BestMatch(RulesOf(table, FallbackHost), key)
           named == {e \in Entries : host # "" /\ host \in conf[e].names}
<1>0. todo = {} /\ None \notin Entries
    BY ConfigurationsAssumption DEF IInv, Serving, Entries
<1>1. CASE named # {}
  <2>1. host # FallbackHost /\ Owners(host) = named /\ EntriesFor(host) = named
    BY <1>0, <1>1 DEF Owners, EntriesFor, FallbackHost
  <2>2. PICK e \in Owners(host) : IsRouteFor(own, e, key)
    BY <1>1, <2>1, OwnedMatch
  <2>3. v = own
    BY <2>1, <2>2 DEF LookupRoute, IsRouteFor
  <2> QED
    BY <2>1, <2>2, <2>3
<1>2. CASE named = {}
  <2>1. EntriesFor(host) = {e \in Entries : conf[e].default}
    BY <1>2 DEF EntriesFor
  <2>2. v = fallback
    <3>1. CASE host = FallbackHost
      BY <3>1 DEF LookupRoute
    <3>2. CASE host # FallbackHost
      <4>1. Owners(host) = {}
        BY <1>2, <3>2 DEF Owners, FallbackHost
      <4>2. own = None
        BY <4>1, NotOwnedMatch
      <4> QED
        BY <3>2, <4>2 DEF LookupRoute
    <3> QED
      BY <3>1, <3>2
  <2>3. CASE default = None
    <3>1. Owners(FallbackHost) = {}
      BY <1>0, <2>3 DEF Owners
    <3>2. fallback = None
      BY <3>1, NotOwnedMatch
    <3>3. EntriesFor(host) = {}
      BY <1>0, <2>1, <2>3 DEF IInv, DefaultInv
    <3> QED
      BY <2>2, <3>2, <3>3
  <2>4. CASE default # None
    <3>1. default \in Entries /\ conf[default].default
      BY <2>4 DEF IInv, DefaultInv
    <3>2. Owners(FallbackHost) = {default}
      BY <1>0, <3>1 DEF Owners
    <3>3. PICK e \in Owners(FallbackHost) : IsRouteFor(fallback, e, key)
      BY <3>2, OwnedMatch
    <3> QED
      BY <2>1, <2>2, <3>1, <3>2, <3>3
  <2> QED
    BY <2>3, <2>4
<1> QED
    BY <1>1, <1>2

LEMMA EarlyRequestFilterInv ==
    ASSUME IInv, NEW host, NEW path \in AbsolutePaths, EarlyRequestFilter(host, path)
    PROVE  IInv'
<1> DEFINE key == Segments(path)
<1>1. /\ Serving /\ request' = [host |-> host, path |-> path]
      /\ handler' = LookupRoute(table, host, key)
      /\ UNCHANGED <<conf, todo, default, entry, subpaths, table>>
    BY DEF EarlyRequestFilter, config
<1>2. key \in Words
    BY SegmentsType DEF AbsolutePaths, Words
<1> HIDE DEF key
<1>3. \/ handler' = None /\ EntriesFor(host) = {}
      \/ \E e \in EntriesFor(host) : IsRouteFor(handler', e, key)
    BY <1>1, <1>2, LookupConfigured
<1>4. EntriesFor(host)' = EntriesFor(host)
    BY <1>1 DEF EntriesFor, Entries
<1>5. \A e : Configured(e, key)' = Configured(e, key)
    BY <1>1 DEF Configured
<1>6. request'.host = host /\ request'.path = path
    BY <1>1
<1>7. RoutedAsConfigured'
    BY <1>3, <1>4, <1>5, <1>6 DEF RoutedAsConfigured, IsRouteFor, key
<1>11. PathInv'
  <2>0. request'.path \in AbsolutePaths
    BY <1>1
  <2>1. uri' = LET strip == IF handler' = None THEN None ELSE handler'.strip
                   new == IF strip = None THEN None ELSE RemovePrefix(strip, path)
               IN  IF new = None THEN path ELSE new
    BY DEF EarlyRequestFilter
  <2>2. path \in AbsolutePaths
    OBVIOUS
  <2>3. CASE handler' = None
    BY <1>6, <2>0, <2>1, <2>3 DEF PathInv, StrippedPath
  <2>4. ASSUME NEW e \in EntriesFor(host), IsRouteFor(handler', e, key)
        PROVE  PathInv'
    <3>1. conf \in Configurations /\ e \in Entries
      BY DEF IInv, EntriesFor
    <3>2. CASE handler'.strip = None
      <4>1. uri' = path
        BY <2>1, <3>2
      <4>2. ASSUME handler'.rule # None, conf[e].subpaths[handler'.rule]
            PROVE  FALSE
        <5>1. handler'.rule \in DOMAIN conf[e].subpaths /\ handler'.rule.path = None
          BY <2>4, <3>2, <4>2 DEF IsRouteFor, RulesFor
        <5>2. handler'.rule.path \in Words
          BY <3>1, <5>1, RoutesAreSome, RuleFacts
        <5> QED
          BY <5>1, <5>2, NonePathAssumption DEF Words
      <4> QED
        BY <1>1, <1>6, <2>0, <2>2, <2>4, <4>1, <4>2 DEF PathInv, StrippedPath, IsRouteFor
    <3>3. CASE handler'.strip # None
      <4> DEFINE rule == handler'.rule
      <4>1. /\ rule # None /\ rule \in DOMAIN conf[e].subpaths /\ Applies(rule, key)
            /\ conf[e].subpaths[rule] /\ handler'.strip = rule.path
        BY <2>4, <3>3 DEF IsRouteFor, RulesFor
      <4>2. rule.path \in Words /\ rule.path \in Seq(Nat \ {Empty})
        <5>1. rule \in Rules
          BY <3>1, <4>1, RoutesAreSome
        <5> QED
          BY <5>1, RuleFacts DEF Rules
      <4>3. IsPrefix(rule.path, key)
        BY <1>2, <4>1, <4>2, PrefixFacts DEF Applies
      <4>4. rule.path \o Segments(uri') = key /\ uri' \in AbsolutePaths
        <5>1. CASE rule.path = <<>>
          <6>1. RemovePrefix(rule.path, path) = None
            BY <5>1 DEF RemovePrefix
          <6>2. uri' = path
            BY <2>1, <3>3, <4>1, <6>1
          <6>3. <<>> \o key = key
            BY <1>2, ConcatFacts
          <6> QED
            BY <2>2, <5>1, <6>2, <6>3 DEF key
        <5>2. CASE rule.path # <<>>
          <6>1. /\ RemovePrefix(rule.path, path) # None
                /\ RemovePrefix(rule.path, path) \in AbsolutePaths
                /\ rule.path \o Segments(RemovePrefix(rule.path, path)) = key
            BY <2>2, <4>2, <4>3, <5>2, PrefixRemoved DEF key
          <6>2. uri' = RemovePrefix(rule.path, path)
            BY <2>1, <2>4, <3>3, <4>1, <6>1 DEF IsRouteFor
          <6> QED
            BY <6>1, <6>2
        <5> QED
          BY <5>1, <5>2
      <4> QED
        BY <1>1, <1>6, <2>0, <2>4, <4>1, <4>4 DEF PathInv, StrippedPath, AbsolutePaths, IsRouteFor, key
    <3> QED
      BY <3>2, <3>3
  <2> QED
    BY <1>3, <2>3, <2>4
<1>8. Serving'
    BY <1>1 DEF Serving
<1>9. PushedRules' = PushedRules
    BY <1>1 DEF PushedRules, Entries
<1>10. EntryInv'
    BY <1>1, <1>9 DEF IInv, EntryInv, Entries
<1> QED
    BY <1>1, <1>7, <1>8, <1>9, <1>10, <1>11, SameTableInv DEF IInv

LEMMA StutterInv ==
    ASSUME IInv, UNCHANGED vars
    PROVE  IInv'
<1>1. /\ UNCHANGED <<conf, todo, default, entry, subpaths, table>>
      /\ request' = request /\ handler' = handler /\ uri' = uri
    BY DEF vars, config
<1>2. \A host : EntriesFor(host)' = EntriesFor(host)
    BY <1>1 DEF EntriesFor, Entries
<1>3. \A e, key : Configured(e, key)' = Configured(e, key)
    BY <1>1 DEF Configured
<1>4. RoutedAsConfigured' <=> RoutedAsConfigured
    BY <1>1, <1>2, <1>3 DEF RoutedAsConfigured
<1>5. PushedRules' = PushedRules
    BY <1>1 DEF PushedRules, Entries
<1>6. EntryInv'
    BY <1>1, <1>5 DEF IInv, EntryInv, Entries
<1>7. Serving' <=> Serving
    BY <1>1 DEF Serving
<1>8. PathInv' <=> PathInv
    BY <1>1 DEF PathInv, StrippedPath
<1> QED
    BY <1>1, <1>4, <1>5, <1>6, <1>7, <1>8, SameTableInv DEF IInv

LEMMA Invariance ==
    Spec => []IInv
<1>1. ASSUME IInv, [Next]_vars
      PROVE  IInv'
  <2>1. CASE TakeEntry
    BY <1>1, <2>1, TakeEntryInv
  <2>2. CASE PushSubpath
    BY <1>1, <2>2, PushSubpathInv
  <2>3. CASE FinishEntry
    BY <1>1, <2>3, FinishEntryInv
  <2>4. ASSUME NEW host \in RequestHosts, NEW path \in RequestPaths,
               EarlyRequestFilter(host, path)
        PROVE  IInv'
    BY <1>1, <2>4, RequestPathsAssumption, EarlyRequestFilterInv
  <2>5. CASE UNCHANGED vars
    BY <1>1, <2>5, StutterInv
  <2> QED
    BY <1>1, <2>1, <2>2, <2>3, <2>4, <2>5 DEF Next
<1> QED
    BY <1>1, InitInv, PTL DEF Spec

(* A request reaches the handler that the configuration names for its host *)
(* and path: whatever the number of virtual hosts and rules, in whatever   *)
(* order try_from goes through them, and even if a name is given to more   *)
(* than one virtual host.                                                  *)
THEOREM EveryRequestRouted ==
    Spec => []RoutedAsConfigured
<1>1. IInv => RoutedAsConfigured
    BY DEF IInv, RoutedAsConfigured
<1> QED
    BY <1>1, Invariance, PTL

(* With strip_prefix the handler gets to see exactly what is below its     *)
(* rule's path, as an absolute path, whatever further separators the       *)
(* requested path has; without, it sees the path as requested.             *)
THEOREM PathsAreStripped ==
    Spec => []StrippedPath
<1>1. IInv => StrippedPath
    BY DEF IInv, PathInv, StrippedPath
<1> QED
    BY <1>1, Invariance, PTL

-----------------------------------------------------------------------------
(* Index files                                                             *)

Candidate(path, i) == Append(path, IndexFiles[i])
IsFirst(path, i) ==
    /\ IsFile(Candidate(path, i))
    /\ \A j \in 1 .. i - 1 : ~IsFile(Candidate(path, j))

LEMMA KindIsWord ==
    \A p \in DOMAIN Kind :
        p \in Words /\ p \in Seq(Nat \ {Empty}) /\ p \notin DOMAIN Links /\ Target(p) = p
<1>1. \A p \in DOMAIN Kind : p \in Seq(Nat \ {Empty, Dot, DotDot}) /\ p \notin DOMAIN Links
    BY KindAssumption
<1>2. \A p \in Seq(Nat \ {Empty, Dot, DotDot}) : p \in Seq(Nat) /\ p \in Seq(Nat \ {Empty})
    OBVIOUS
<1> QED
    BY <1>1, <1>2 DEF Words, Target

LEMMA FilesAreWords ==
    \A p : IsFile(p) \/ IsDir(p) => p \in Words /\ ~(IsFile(p) /\ IsDir(p))
<1>1. \A p \in DOMAIN Links : p \in Words
  <2>1. \A p \in DOMAIN Links : p \in Seq(Nat \ {Empty, Dot, DotDot})
    BY KindAssumption
  <2>2. \A p \in Seq(Nat \ {Empty, Dot, DotDot}) : p \in Seq(Nat)
    OBVIOUS
  <2> QED
    BY <2>1, <2>2 DEF Words
<1>2. \A p : IsFile(p) => p \in DOMAIN Kind \/ p \in DOMAIN Links
    BY DEF IsFile, Target
<1>3. \A p : IsDir(p) => p \in DOMAIN Kind
    BY DEF IsDir
<1>4. \A p : ~(IsFile(p) /\ IsDir(p))
    BY <1>3, KindIsWord DEF IsFile, IsDir
<1> QED
    BY <1>1, <1>2, <1>3, <1>4, KindIsWord

(* There is nothing below a file, or below a link to one.                  *)
LEMMA NothingBelowFiles ==
    ASSUME NEW p, IsFile(p), NEW n \in Nat
    PROVE  ~IsFile(Append(p, n))
<1> DEFINE q == Append(p, n)
<1>1. p \in Words
    BY FilesAreWords
<1>2. Len(p) \in 0 .. Len(q) - 1 /\ SubSeq(q, 1, Len(p)) = p
    BY <1>1 DEF Words
<1> HIDE DEF q
<1>3. IsFile(q) => q \in DOMAIN Kind \union DOMAIN Links
    BY DEF IsFile, Target
<1>4. q \in DOMAIN Kind \union DOMAIN Links => p \in DOMAIN Kind /\ Kind[p] = "dir"
    BY <1>2, KindAssumption
<1>5. p \in DOMAIN Kind => Kind[p] = "file"
    BY KindIsWord DEF IsFile
<1> QED
    BY <1>3, <1>4, <1>5 DEF q

(* The names are looked at in their order; the first one that is there     *)
(* stays.                                                                  *)
LEMMA FirstIndex ==
    ASSUME NEW path, IsDir(path)
    PROVE  \/ WithIndex(path) = path
           \/ \E i \in DOMAIN IndexFiles :
                 IsFirst(path, i) /\ WithIndex(path) = Candidate(path, i)
<1> DEFINE L == Len(IndexFiles)
           After(p, name) == IF IsFile(Append(p, name)) THEN Append(p, name) ELSE p
           G == [c \in Nat \X Words |->
                    IF c[1] \in 1 .. L THEN After(c[2], IndexFiles[c[1]]) ELSE c[2]]
           Step(f) == [n \in 0 .. L |->
                          IF n = 0 THEN path
                          ELSE LET next == Append(f[n - 1], IndexFiles[n])
                               IN  IF IsFile(next) THEN next ELSE f[n - 1]]
           found == CHOOSE f : f = Step(f)
<1>1. /\ path \in Words /\ L \in Nat /\ DOMAIN IndexFiles = 1 .. L
      /\ \A n \in 1 .. L : IndexFiles[n] \in Nat
    BY FilesAreWords, NamesAssumption
<1>2. G \in [Nat \X Words -> Words]
    BY <1>1 DEF Words
<1> HIDE DEF L
<1>3. PICK f : MadeWith(f, Words, path, G, L)
  <2> HIDE DEF G
  <2> QED
    BY <1>1, <1>2, Recursion
<1>4. \A n \in 1 .. L : f[n] = After(f[n - 1], IndexFiles[n])
  <2> SUFFICES ASSUME NEW n \in 1 .. L PROVE f[n] = After(f[n - 1], IndexFiles[n])
    OBVIOUS
  <2>1. n \in Nat /\ n - 1 \in 0 .. L
    BY <1>1
  <2>2. f[n - 1] \in Words /\ f[n] = G[<<n, f[n - 1]>>]
    BY <1>3, <2>1 DEF MadeWith
  <2> QED
    BY <2>1, <2>2
<1>5. f = Step(f)
  <2>1. \A n \in 0 .. L : n = 0 \/ n \in 1 .. L
    BY <1>1
  <2>2. \A n \in 0 .. L : f[n] = Step(f)[n]
    BY <1>3, <1>4, <2>1 DEF MadeWith
  <2>3. f = [n \in 0 .. L |-> f[n]]
    BY <1>3 DEF MadeWith
  <2> QED
    BY <2>2, <2>3
<1>6. found = Step(found)
    BY <1>5
<1> HIDE DEF found
<1>7. found[0] = path /\ \A n \in 1 .. L : found[n] = After(found[n - 1], IndexFiles[n])
  <2>1. found[0] = Step(found)[0] /\ \A n \in 1 .. L : found[n] = Step(found)[n]
    BY <1>6
  <2>2. 0 \in 0 .. L /\ \A n \in 1 .. L : n \in 0 .. L /\ n # 0
    BY <1>1
  <2> QED
    BY <2>1, <2>2
<1> DEFINE Right(n) ==
               \/ found[n] = path /\ \A i \in 1 .. n : ~IsFile(Candidate(path, i))
               \/ \E i \in 1 .. n : IsFirst(path, i) /\ found[n] = Candidate(path, i)
           S == {n \in Nat : n <= L => Right(n)}
<1>8. 0 \in S
    BY <1>7
<1>9. ASSUME NEW n \in S, n + 1 <= L
      PROVE  Right(n + 1)
  <2>1. /\ n \in Nat /\ n + 1 \in 1 .. L /\ (n + 1) - 1 = n /\ Right(n)
        /\ IndexFiles[n + 1] \in Nat
    BY <1>1, <1>9
  <2>2. found[n + 1] = After(found[n], IndexFiles[n + 1])
    BY <1>7, <2>1
  <2>3. \A i \in 1 .. (n + 1) : i \in 1 .. n \/ i = n + 1
    BY <2>1
  <2>4. CASE \E i \in 1 .. n : IsFirst(path, i) /\ found[n] = Candidate(path, i)
    <3>1. PICK i \in 1 .. n : IsFirst(path, i) /\ found[n] = Candidate(path, i)
      BY <2>4
    <3>2. found[n + 1] = found[n]
      BY <2>1, <2>2, <3>1, NothingBelowFiles DEF IsFirst
    <3>3. i \in 1 .. (n + 1)
      BY <2>1
    <3> QED
      BY <3>1, <3>2, <3>3
  <2>5. CASE found[n] = path /\ \A i \in 1 .. n : ~IsFile(Candidate(path, i))
    <3>1. CASE IsFile(Candidate(path, n + 1))
      <4>1. found[n + 1] = Candidate(path, n + 1)
        BY <2>2, <2>5, <3>1 DEF Candidate
      <4>2. IsFirst(path, n + 1) /\ n + 1 \in 1 .. (n + 1)
        BY <2>1, <2>5, <3>1 DEF IsFirst
      <4> QED
        BY <4>1, <4>2
    <3>2. CASE ~IsFile(Candidate(path, n + 1))
      <4>1. found[n + 1] = path
        BY <2>2, <2>5, <3>2 DEF Candidate
      <4> QED
        BY <2>3, <2>5, <3>2, <4>1
    <3> QED
      BY <3>1, <3>2
  <2> QED
    BY <2>1, <2>4, <2>5
<1>10. L \in S
  <2>1. \A n \in S : n + 1 \in S
    BY <1>9
  <2> HIDE DEF S
  <2>2. S \in SUBSET Nat
    BY DEF S
  <2> QED
    BY <1>1, <1>8, <2>1, <2>2, Induction
<1>11. WithIndex(path) = found[L]
    BY DEF WithIndex, found, L
<1> QED
    BY <1>1, <1>10, <1>11

-----------------------------------------------------------------------------
(* What is made of a word by taking one element after the other.           *)

FoldedTo(f, V, v, H, w) ==
    /\ f \in [0 .. Len(w) -> V] /\ f[0] = v
    /\ \A n \in 1 .. Len(w) : f[n] = H[<<f[n - 1], w[n]>>]

LEMMA FoldExists ==
    ASSUME NEW V, NEW v \in V, NEW H \in [V \X Nat -> V], NEW w \in Words
    PROVE  \E f : FoldedTo(f, V, v, H, w)
<1> DEFINE L == Len(w)
           G == [c \in Nat \X V |-> IF c[1] \in 1 .. L THEN H[<<c[2], w[c[1]]>>] ELSE c[2]]
<1>1. L \in Nat /\ \A n \in 1 .. L : w[n] \in Nat
    BY DEF Words
<1> HIDE DEF L
<1>2. G \in [Nat \X V -> V]
    BY <1>1
<1>3. PICK f : MadeWith(f, V, v, G, L)
  <2> HIDE DEF G
  <2> QED
    BY <1>1, <1>2, Recursion
<1>4. \A n \in 1 .. L : f[n] = H[<<f[n - 1], w[n]>>]
  <2> SUFFICES ASSUME NEW n \in 1 .. L PROVE f[n] = H[<<f[n - 1], w[n]>>]
    OBVIOUS
  <2>1. n \in Nat /\ n - 1 \in 0 .. L
    BY <1>1
  <2>2. f[n - 1] \in V /\ f[n] = G[<<n, f[n - 1]>>]
    BY <1>3, <2>1 DEF MadeWith
  <2> QED
    BY <2>1, <2>2
<1> QED
    BY <1>3, <1>4 DEF FoldedTo, MadeWith, L

Folding(g, V, v, H, w, N) ==
    g[0] = v /\ \A n \in 1 .. N : g[n - 1] \in V => g[n] = H[<<g[n - 1], w[n]>>]

(* There is one way to do this.                                            *)
LEMMA FoldIs ==
    ASSUME NEW V, NEW v, NEW H, NEW w \in Words, NEW f, FoldedTo(f, V, v, H, w),
           NEW N \in 0 .. Len(w), NEW g, Folding(g, V, v, H, w, N)
    PROVE  g[N] = f[N]
<1> DEFINE S == {n \in Nat : n <= N => g[n] = f[n]}
<1>1. Len(w) \in Nat /\ N \in Nat /\ N <= Len(w)
    BY PrefixFacts
<1>2. 0 \in S
    BY DEF FoldedTo, Folding
<1>3. ASSUME NEW n \in S
      PROVE  n + 1 \in S
  <2> SUFFICES ASSUME n + 1 <= N PROVE g[n + 1] = f[n + 1]
    OBVIOUS
  <2>1. /\ n \in 0 .. Len(w) /\ n + 1 \in 1 .. Len(w) /\ n + 1 \in 1 .. N /\ (n + 1) - 1 = n
        /\ g[n] = f[n]
    BY <1>1
  <2>2. f[n] \in V /\ f[n + 1] = H[<<f[n], w[n + 1]>>]
    BY <2>1 DEF FoldedTo
  <2>3. g[n] \in V => g[n + 1] = H[<<g[n], w[n + 1]>>]
    BY <2>1 DEF Folding
  <2> QED
    BY <2>1, <2>2, <2>3
<1>4. N \in S
  <2>1. S \in SUBSET Nat
    OBVIOUS
  <2> HIDE DEF S
  <2> QED
    BY <1>1, <1>2, <1>3, <2>1, Induction
<1> QED
    BY <1>1, <1>4

LEMMA FoldAppend ==
    ASSUME NEW V, NEW v, NEW H, NEW w \in Words, NEW c \in Nat,
           NEW f, FoldedTo(f, V, v, H, w), NEW g, FoldedTo(g, V, v, H, Append(w, c))
    PROVE  g[Len(Append(w, c))] = H[<<f[Len(w)], c>>]
<1> DEFINE u == Append(w, c)
<1>1. /\ Len(w) \in Nat /\ u \in Words /\ Len(u) = Len(w) + 1 /\ u[Len(w) + 1] = c
      /\ \A n \in 1 .. Len(w) : u[n] = w[n]
    BY DEF Words
<1> HIDE DEF u
<1>2. \A n \in 1 .. Len(u) : g[n] = H[<<g[n - 1], u[n]>>]
    BY DEF FoldedTo, u
<1>3. g[0] = v
    BY DEF FoldedTo
<1>4. \A n \in 1 .. Len(w) : g[n] = H[<<g[n - 1], w[n]>>]
  <2>1. \A n \in 1 .. Len(w) : n \in 1 .. Len(u)
    BY <1>1
  <2> QED
    BY <1>1, <1>2, <2>1
<1>5. g[Len(w)] = f[Len(w)]
  <2>1. Len(w) \in 0 .. Len(w)
    BY <1>1
  <2>2. Folding(g, V, v, H, w, Len(w))
    BY <1>3, <1>4 DEF Folding
  <2> QED
    BY <2>1, <2>2, FoldIs
<1>6. g[Len(w) + 1] = H[<<g[Len(w)], u[Len(w) + 1]>>]
  <2>1. Len(w) + 1 \in 1 .. Len(u) /\ (Len(w) + 1) - 1 = Len(w)
    BY <1>1
  <2> QED
    BY <1>2, <2>1
<1> QED
    BY <1>1, <1>5, <1>6 DEF u

-----------------------------------------------------------------------------
(* canonicalize(): what it finds is there.                                 *)

Results == {Found(p) : p \in DOMAIN Kind} \union {Failed(e) : e \in Errors}

LEMMA ResultFacts ==
    \A r \in Results : r.error = None => r.path \in DOMAIN Kind /\ r = Found(r.path)
BY ErrorsAssumption DEF Results, Found, Failed

(* All of a sequence but the last element.                                 *)
Most(s) == SubSeq(s, 1, Len(s) - 1)

LEMMA EnterType ==
    ASSUME NEW r \in Results, NEW name
    PROVE  Enter(r, name) \in Results
<1>1. CASE r.error # None
  BY <1>1 DEF Enter
<1>2. CASE r.error = None
  <2> DEFINE p == r.path
             target == Target(Append(p, name))
  <2>1. p \in DOMAIN Kind
    BY <1>2, ResultFacts
  <2>2. p # <<>> => Most(p) \in DOMAIN Kind
    <3>1. ASSUME p # <<>>
          PROVE  Most(p) = SubSeq(p, 1, Len(p) - 1) /\ Len(p) - 1 \in 0 .. Len(p) - 1
      BY <2>1, <3>1, KindIsWord DEF Most, Words
    <3> HIDE DEF p
    <3> QED
      BY <2>1, <3>1, KindAssumption
  <2>3. \A e \in Errors : Failed(e) \in Results
    BY DEF Results
  <2>4. \A q \in DOMAIN Kind : Found(q) \in Results
    BY DEF Results
  <2>5. Enter(r, name) = Entered(p, name)
    BY <1>2 DEF Enter
  <2> HIDE DEF p, target
  <2>6. Entered(p, name) \in
            {Failed(e) : e \in Errors}
            \union {Found(q) : q \in {p, IF p = <<>> THEN p ELSE Most(p)}}
            \union {Found(q) : q \in {target} \intersect DOMAIN Kind}
    BY DEF Entered, target, Errors, Most
  <2> QED
    BY <2>1, <2>2, <2>3, <2>4, <2>5, <2>6
<1> QED
  BY <1>1, <1>2

Entering == [x \in Results \X Nat |-> Enter(x[1], x[2])]

LEMMA NothingEntered ==
    Found(<<>>) \in Results /\ Entering \in [Results \X Nat -> Results]
<1>1. Found(<<>>) \in Results
    BY KindAssumption DEF Results
<1> QED
    BY <1>1, EnterType DEF Entering

LEMMA CanonicalFolded ==
    ASSUME NEW p \in Words
    PROVE  \E f : FoldedTo(f, Results, Found(<<>>), Entering, p) /\ Canonical(p) = f[Len(p)]
<1> DEFINE L == Len(p)
           Step(f) == [n \in 0 .. L |-> IF n = 0 THEN Found(<<>>) ELSE Enter(f[n - 1], p[n])]
           entered == CHOOSE f : f = Step(f)
<1>1. L \in Nat /\ \A n \in 1 .. L : p[n] \in Nat
    BY DEF Words
<1>2. PICK f : FoldedTo(f, Results, Found(<<>>), Entering, p)
    BY FoldExists, NothingEntered
<1>3. f \in [0 .. L -> Results] /\ f[0] = Found(<<>>)
         /\ \A n \in 1 .. L : f[n] = Entering[<<f[n - 1], p[n]>>]
    BY <1>2 DEF FoldedTo
<1> HIDE DEF L
<1>4. \A n \in 1 .. L : f[n] = Enter(f[n - 1], p[n])
  <2>1. \A n \in 1 .. L : n - 1 \in 0 .. L
    BY <1>1
  <2>2. \A n \in 1 .. L : f[n - 1] \in Results /\ p[n] \in Nat
    BY <1>1, <1>3, <2>1
  <2> QED
    BY <1>3, <2>2 DEF Entering
<1>5. f = Step(f)
  <2>1. \A n \in 0 .. L : n = 0 \/ n \in 1 .. L
    BY <1>1
  <2>2. \A n \in 0 .. L : f[n] = Step(f)[n]
    BY <1>3, <1>4, <2>1
  <2>3. f = [n \in 0 .. L |-> f[n]]
    BY <1>3
  <2> QED
    BY <2>2, <2>3
<1>6. entered = Step(entered)
    BY <1>5
<1> HIDE DEF entered
<1>7. entered[0] = Found(<<>>) /\ \A n \in 1 .. L : entered[n] = Enter(entered[n - 1], p[n])
  <2>1. \A n \in 0 .. L : entered[n] = Step(entered)[n]
    BY <1>6
  <2>2. 0 \in 0 .. L /\ \A n \in 1 .. L : n \in 0 .. L /\ n # 0
    BY <1>1
  <2> QED
    BY <2>1, <2>2
<1>8. entered[L] = f[L]
  <2>1. \A n \in 1 .. L : entered[n - 1] \in Results =>
            entered[n] = Entering[<<entered[n - 1], p[n]>>]
    BY <1>1, <1>7 DEF Entering
  <2>2. L \in 0 .. Len(p)
    BY <1>1 DEF L
  <2>3. Folding(entered, Results, Found(<<>>), Entering, p, L)
    BY <1>7, <2>1 DEF Folding
  <2> QED
    BY <1>2, <2>2, <2>3, FoldIs
<1>9. Canonical(p) = entered[L]
    BY DEF Canonical, entered, L
<1> QED
    BY <1>2, <1>8, <1>9 DEF L

LEMMA CanonicalFacts ==
    /\ Canonical(<<>>) = Found(<<>>)
    /\ \A p \in Words : Canonical(p) \in Results
    /\ \A p \in Words, name \in Nat : Canonical(Append(p, name)) = Enter(Canonical(p), name)
<1>1. Canonical(<<>>) = Found(<<>>)
  <2>1. <<>> \in Words /\ Len(<<>>) = 0
    BY PrefixFacts
  <2> QED
    BY <2>1, CanonicalFolded DEF FoldedTo
<1>2. ASSUME NEW p \in Words
      PROVE  Canonical(p) \in Results
  <2>1. Len(p) \in 0 .. Len(p)
    BY PrefixFacts
  <2> QED
    BY <2>1, CanonicalFolded DEF FoldedTo
<1>3. ASSUME NEW p \in Words, NEW name \in Nat
      PROVE  Canonical(Append(p, name)) = Enter(Canonical(p), name)
  <2>1. Append(p, name) \in Words
    BY DEF Words
  <2>2. PICK f : FoldedTo(f, Results, Found(<<>>), Entering, p) /\ Canonical(p) = f[Len(p)]
    BY CanonicalFolded
  <2>3. PICK g : /\ FoldedTo(g, Results, Found(<<>>), Entering, Append(p, name))
                 /\ Canonical(Append(p, name)) = g[Len(Append(p, name))]
    BY <2>1, CanonicalFolded
  <2>4. Canonical(Append(p, name)) = Entering[<<Canonical(p), name>>]
    BY <2>2, <2>3, FoldAppend
  <2> QED
    BY <1>2, <2>4 DEF Entering
<1> QED
    BY <1>1, <1>2, <1>3

LEMMA Upto ==
    ASSUME NEW p \in Words, NEW k \in 0 .. Len(p)
    PROVE  /\ SubSeq(p, 1, k) \in Words /\ Len(SubSeq(p, 1, k)) = k
           /\ \A i \in 1 .. k : SubSeq(p, 1, k)[i] = p[i]
           /\ k < Len(p) => Append(SubSeq(p, 1, k), p[k + 1]) = SubSeq(p, 1, k + 1)
<1>1. /\ SubSeq(p, 1, k) \in Words /\ Len(SubSeq(p, 1, k)) = k
      /\ \A i \in 1 .. k : SubSeq(p, 1, k)[i] = p[i]
    BY DEF Words
<1>2. ASSUME k < Len(p)
      PROVE  Append(SubSeq(p, 1, k), p[k + 1]) = SubSeq(p, 1, k + 1)
  <2> DEFINE q == SubSeq(p, 1, k)
             name == p[k + 1]
             r == Append(q, name)
             u == SubSeq(p, 1, k + 1)
  <2>1. name \in Nat /\ k \in Nat /\ Len(p) \in Nat
    BY <1>2 DEF Words
  <2>2. u \in Words /\ Len(u) = k + 1 /\ \A i \in 1 .. k + 1 : u[i] = p[i]
    BY <1>2, <2>1 DEF Words
  <2>3. q \in Words /\ Len(q) = k /\ \A i \in 1 .. k : q[i] = p[i]
    BY <1>1
  <2> HIDE DEF q, name, u
  <2>4. r \in Words /\ Len(r) = Len(q) + 1 /\ r[Len(q) + 1] = name
           /\ \A i \in 1 .. Len(q) : r[i] = q[i]
    BY <2>1, <2>3 DEF Words
  <2> HIDE DEF r
  <2>5. \A i \in 1 .. Len(r) : r[i] = u[i]
    <3> SUFFICES ASSUME NEW i \in 1 .. Len(r) PROVE r[i] = u[i]
      OBVIOUS
    <3>1. i \in 1 .. k \/ i = k + 1
      BY <2>1, <2>3, <2>4
    <3>2. CASE i \in 1 .. k
      <4>1. i \in 1 .. k + 1 /\ i \in 1 .. Len(q)
        BY <2>1, <2>3, <3>2
      <4> QED
        BY <2>2, <2>3, <2>4, <3>2, <4>1
    <3>3. CASE i = k + 1
      <4>1. r[k + 1] = name
        BY <2>3, <2>4
      <4>2. k + 1 \in 1 .. k + 1
        BY <2>1
      <4>3. u[k + 1] = p[k + 1]
        BY <2>2, <4>2
      <4> QED
        BY <3>3, <4>1, <4>3 DEF name
    <3> QED
      BY <3>1, <3>2, <3>3
  <2>6. r = u
    BY <2>2, <2>3, <2>4, <2>5, Equal
  <2> QED
    BY <2>6 DEF r, u, q, name
<1> QED
    BY <1>1, <1>2

(* What is there is found where it is.                                     *)
LEMMA CanonicalKind ==
    ASSUME NEW p \in DOMAIN Kind
    PROVE  Canonical(p) = Found(p)
<1> DEFINE L == Len(p)
           Up(n) == SubSeq(p, 1, n)
           S == {n \in Nat : n <= L => Canonical(Up(n)) = Found(Up(n))}
<1>1. p \in Words /\ L \in Nat /\ Up(L) = p
    BY KindIsWord, PrefixFacts, WholeSubSeq
<1>2. 0 \in S
  <2>1. Up(0) = <<>>
    BY <1>1 DEF Words
  <2> QED
    BY <2>1, CanonicalFacts
<1>3. ASSUME NEW n \in S
      PROVE  n + 1 \in S
  <2> SUFFICES ASSUME n + 1 <= L PROVE Canonical(Up(n + 1)) = Found(Up(n + 1))
    OBVIOUS
  <2> DEFINE name == p[n + 1]
  <2>1. /\ n \in 0 .. Len(p) /\ n < Len(p) /\ n + 1 \in 1 .. Len(p) /\ n \in 0 .. Len(p) - 1
        /\ Canonical(Up(n)) = Found(Up(n))
    BY <1>1
  <2>2. Up(n) \in Words /\ Append(Up(n), name) = Up(n + 1)
    BY <1>1, <2>1, Upto
  <2>3. name \in Nat \ {Empty, Dot, DotDot}
    <3>1. p \in Seq(Nat \ {Empty, Dot, DotDot})
      BY KindAssumption
    <3> QED
      BY <2>1, <3>1
  <2>4. Up(n) \in DOMAIN Kind /\ Kind[Up(n)] = "dir"
    BY <2>1, KindAssumption
  <2>5. Up(n + 1) \in DOMAIN Kind
    <3>1. CASE n + 1 = L
      BY <1>1, <3>1
    <3>2. CASE n + 1 # L
      <4>1. \A a, b \in Nat : a < b /\ a + 1 # b => a + 1 \in 0 .. b - 1
        OBVIOUS
      <4>2. n + 1 \in 0 .. Len(p) - 1
        <5>1. n \in Nat /\ Len(p) \in Nat
          BY <1>1
        <5> QED
          BY <2>1, <3>2, <4>1, <5>1
      <4> QED
        BY <4>2, KindAssumption
    <3> QED
      BY <3>1, <3>2
  <2>6. Target(Up(n + 1)) = Up(n + 1)
    BY <2>5, KindIsWord
  <2> HIDE DEF Up, name
  <2>7. Canonical(Up(n + 1)) = Enter(Found(Up(n)), name)
    BY <2>1, <2>2, <2>3, CanonicalFacts
  <2>8. Enter(Found(Up(n)), name) = Entered(Up(n), name)
    BY DEF Enter, Found
  <2>9. Entered(Up(n), name) = Found(Up(n + 1))
    BY <2>2, <2>3, <2>4, <2>5, <2>6 DEF Entered, IsDir
  <2> QED
    BY <2>7, <2>8, <2>9
<1>4. L \in S
  <2> HIDE DEF S
  <2>1. S \in SUBSET Nat
    BY DEF S
  <2> QED
    BY <1>1, <1>2, <1>3, <2>1, Induction
<1>5. Canonical(Up(L)) = Found(Up(L))
    BY <1>1, <1>4
<1> HIDE DEF Up
<1> QED
    BY <1>1, <1>5

-----------------------------------------------------------------------------
(* The path that is made of the root and the components of a URI           *)

Pushing == [x \in Words \X Nat |-> Push(x[1], DecodedNames(x[2]))]

LEMMA PushType ==
    Pushing \in [Words \X Nat -> Words]
<1>1. \A c \in Nat : DecodedNames(c) \in Words
    BY NamesAssumption, Single DEF DecodedNames, Words
<1>2. \A p \in Words, c \in Nat : Push(p, DecodedNames(c)) \in Words
    BY <1>1, ConcatFacts DEF Push
<1> QED
    BY <1>2 DEF Pushing

LEMMA PushedFolded ==
    ASSUME NEW root \in Words, NEW w \in Words
    PROVE  \E f : FoldedTo(f, Words, root, Pushing, w) /\ Pushed(root, w) = f[Len(w)]
<1> DEFINE L == Len(w)
           Step(f) == [n \in 0 .. L |->
                          IF n = 0 THEN root ELSE Push(f[n - 1], DecodedNames(w[n]))]
           pushed == CHOOSE f : f = Step(f)
<1>1. L \in Nat /\ \A n \in 1 .. L : w[n] \in Nat
    BY DEF Words
<1>2. PICK f : FoldedTo(f, Words, root, Pushing, w)
    BY FoldExists, PushType
<1>3. f \in [0 .. L -> Words] /\ f[0] = root
         /\ \A n \in 1 .. L : f[n] = Pushing[<<f[n - 1], w[n]>>]
    BY <1>2 DEF FoldedTo
<1> HIDE DEF L
<1>4. \A n \in 1 .. L : f[n] = Push(f[n - 1], DecodedNames(w[n]))
  <2>1. \A n \in 1 .. L : n - 1 \in 0 .. L
    BY <1>1
  <2>2. \A n \in 1 .. L : f[n - 1] \in Words /\ w[n] \in Nat
    BY <1>1, <1>3, <2>1
  <2> QED
    BY <1>3, <2>2 DEF Pushing
<1>5. f = Step(f)
  <2>1. \A n \in 0 .. L : n = 0 \/ n \in 1 .. L
    BY <1>1
  <2>2. \A n \in 0 .. L : f[n] = Step(f)[n]
    BY <1>3, <1>4, <2>1
  <2>3. f = [n \in 0 .. L |-> f[n]]
    BY <1>3
  <2> QED
    BY <2>2, <2>3
<1>6. pushed = Step(pushed)
    BY <1>5
<1> HIDE DEF pushed
<1>7. pushed[0] = root /\ \A n \in 1 .. L : pushed[n] = Push(pushed[n - 1], DecodedNames(w[n]))
  <2>1. \A n \in 0 .. L : pushed[n] = Step(pushed)[n]
    BY <1>6
  <2>2. 0 \in 0 .. L /\ \A n \in 1 .. L : n \in 0 .. L /\ n # 0
    BY <1>1
  <2> QED
    BY <2>1, <2>2
<1>8. pushed[L] = f[L]
  <2>1. \A n \in 1 .. L : pushed[n - 1] \in Words => pushed[n] = Pushing[<<pushed[n - 1], w[n]>>]
    BY <1>1, <1>7 DEF Pushing
  <2>2. L \in 0 .. Len(w)
    BY <1>1 DEF L
  <2>3. Folding(pushed, Words, root, Pushing, w, L)
    BY <1>7, <2>1 DEF Folding
  <2> QED
    BY <1>2, <2>2, <2>3, FoldIs
<1>9. Pushed(root, w) = pushed[L]
    BY DEF Pushed, pushed, L
<1> QED
    BY <1>2, <1>8, <1>9 DEF L

LEMMA PathPushed ==
    ASSUME NEW root \in Words
    PROVE  /\ Pushed(root, <<>>) = root
           /\ \A w \in Words : Pushed(root, w) \in Words
           /\ \A w \in Words, c \in Nat :
                  Pushed(root, Append(w, c)) = Push(Pushed(root, w), DecodedNames(c))
<1>1. Pushed(root, <<>>) = root
  <2>1. <<>> \in Words /\ Len(<<>>) = 0
    BY PrefixFacts
  <2> QED
    BY <2>1, PushedFolded DEF FoldedTo
<1>2. ASSUME NEW w \in Words
      PROVE  Pushed(root, w) \in Words
  <2>1. Len(w) \in 0 .. Len(w)
    BY PrefixFacts
  <2> QED
    BY <2>1, PushedFolded DEF FoldedTo
<1>3. ASSUME NEW w \in Words, NEW c \in Nat
      PROVE  Pushed(root, Append(w, c)) = Push(Pushed(root, w), DecodedNames(c))
  <2>1. Append(w, c) \in Words
    BY DEF Words
  <2>2. PICK f : FoldedTo(f, Words, root, Pushing, w) /\ Pushed(root, w) = f[Len(w)]
    BY PushedFolded
  <2>3. PICK g : /\ FoldedTo(g, Words, root, Pushing, Append(w, c))
                 /\ Pushed(root, Append(w, c)) = g[Len(Append(w, c))]
    BY <2>1, PushedFolded
  <2>4. Pushed(root, Append(w, c)) = Pushing[<<Pushed(root, w), c>>]
    BY <2>2, <2>3, FoldAppend
  <2> QED
    BY <1>2, <2>4 DEF Pushing
<1> QED
    BY <1>1, <1>2, <1>3

LEMMA ComponentsType ==
    ASSUME NEW path \in AbsolutePaths
    PROVE  Components(path) \in Words
<1>1. path \in Words /\ path # <<>> /\ Len(path) > 1 /\ Len(path) \in Nat
    BY DEF AbsolutePaths, Words
<1>2. Tail(path) \in Words /\ Len(Tail(path)) = Len(path) - 1
    BY <1>1 DEF Words
<1>3. \A w \in Words : Len(w) > 1 => Most(w) \in Words
    BY DEF Most, Words
<1>4. Len(path) > 2 => Len(Tail(path)) > 1
    BY <1>1, <1>2
<1> QED
    BY <1>2, <1>3, <1>4 DEF Components, Most

Checked(result, root) ==
    IF result.error = None /\ ~IsPrefix(root, result.path) THEN Failed("invalid data") ELSE result

LEMMA Resolution ==
    ASSUME NEW path \in AbsolutePaths, NEW root
    PROVE  ResolveUri(path, root) = Checked(Canonical(Pushed(root, Components(path))), root)
<1>1. ~(Len(path) < 2 \/ Head(path) # Empty)
    BY DEF AbsolutePaths
<1> QED
    BY <1>1 DEF ResolveUri, Checked

(* Where a path leads is something that there is, below the root of the    *)
(* handler.                                                                *)
LEMMA ResolvedThere ==
    ASSUME NEW path \in Words, NEW root \in Words, ResolveUri(path, root).error = None
    PROVE  /\ ResolveUri(path, root).path \in DOMAIN Kind
           /\ ResolveUri(path, root) = Found(ResolveUri(path, root).path)
           /\ IsPrefix(root, ResolveUri(path, root).path)
<1> DEFINE r == Canonical(Pushed(root, Components(path)))
<1>1. Failed("invalid input").error # None /\ Failed("invalid data").error # None
    BY ErrorsAssumption DEF Failed, Errors
<1>2. path \in AbsolutePaths
  <2>1. ~(Len(path) < 2 \/ Head(path) # Empty)
    BY <1>1 DEF ResolveUri
  <2> QED
    BY <2>1 DEF AbsolutePaths, Words
<1>3. r \in Results
    BY <1>2, ComponentsType, PathPushed, CanonicalFacts
<1>4. ResolveUri(path, root) = Checked(r, root)
    BY <1>2, Resolution
<1> HIDE DEF r
<1>5. ResolveUri(path, root) = r /\ IsPrefix(root, r.path)
    BY <1>1, <1>4 DEF Checked
<1> QED
    BY <1>3, <1>5, ResultFacts

(* The path "/" leads to the root.                                         *)
LEMMA RootAsked ==
    ASSUME NEW root \in DOMAIN Kind
    PROVE  ResolveUri(<<Empty, Empty>>, root) =
               IF IsDir(root) THEN Found(root) ELSE Failed("not a directory")
<1> DEFINE path == <<Empty, Empty>>
<1>1. path \in AbsolutePaths /\ Components(path) = <<Empty>>
    BY DEF AbsolutePaths, Empty, Components
<1>2. root \in Words /\ Empty \in Nat /\ <<>> \in Words /\ <<Empty>> = Append(<<>>, Empty)
    BY KindIsWord, PrefixFacts DEF Empty
<1>3. Push(root, DecodedNames(Empty)) = Append(root, Empty)
  <2>1. DecodedNames(Empty) = <<Empty>>
    BY NamesAssumption DEF DecodedNames
  <2>2. root \o <<Empty>> = Append(root, Empty)
    BY <1>2 DEF Words
  <2> QED
    BY <2>1, <2>2 DEF Push
<1>4. Pushed(root, <<Empty>>) = Append(root, Empty)
  <2>1. Pushed(root, Append(<<>>, Empty)) = Push(Pushed(root, <<>>), DecodedNames(Empty))
    BY <1>2, PathPushed
  <2>2. Pushed(root, <<>>) = root
    BY <1>2, PathPushed
  <2> QED
    BY <1>2, <1>3, <2>1, <2>2
<1>5. Canonical(Append(root, Empty)) = Enter(Found(root), Empty)
    BY <1>2, CanonicalFacts, CanonicalKind
<1>6. Enter(Found(root), Empty) = IF IsDir(root) THEN Found(root) ELSE Failed("not a directory")
    BY DEF Enter, Entered, Found
<1>7. ResolveUri(path, root) = Checked(Enter(Found(root), Empty), root)
    BY <1>1, <1>4, <1>5, Resolution
<1>8. Checked(Found(root), root) = Found(root)
    BY <1>2, PrefixFacts DEF Checked, Found
<1>9. Checked(Failed("not a directory"), root) = Failed("not a directory")
    BY ErrorsAssumption DEF Checked, Failed, Errors
<1> QED
    BY <1>6, <1>7, <1>8, <1>9

-----------------------------------------------------------------------------
(* What is served                                                          *)

(* The property for the answer a and the path that it is for.              *)
Serves(a, resolved, root) ==
    /\ IsPrefix(root, resolved)
    /\ IF IsDir(resolved)
       THEN \E i \in DOMAIN IndexFiles :
                /\ IsFirst(resolved, i) /\ a.file = Target(Candidate(resolved, i))
                /\ Candidate(resolved, i) \in DOMAIN Links \/ IsPrefix(root, a.file)
       ELSE a.file = resolved

LEMMA FileServed ==
    ASSUME NEW path \in DOMAIN Kind, NEW method, NEW status, NEW root \in Words,
           IsPrefix(root, path), FileAnswer(path, method, status).kind = "file"
    PROVE  /\ FileAnswer(path, method, status).status = status
           /\ Serves(FileAnswer(path, method, status), path, root)
<1> DEFINE a == FileAnswer(path, method, status)
<1>1. IsFile(WithIndex(path)) /\ a.status = status /\ a.file = Target(WithIndex(path))
    BY DEF FileAnswer, ErrorAnswer
<1> HIDE DEF a
<1>2. CASE IsDir(path)
  <2>1. WithIndex(path) # path
    BY <1>1, <1>2, FilesAreWords
  <2>2. PICK i \in DOMAIN IndexFiles : IsFirst(path, i) /\ WithIndex(path) = Candidate(path, i)
    BY <1>2, <2>1, FirstIndex
  <2>3. path \in Words /\ Candidate(path, i) \in Words
    BY <1>1, <1>2, <2>2, FilesAreWords
  <2>4. IsPrefix(path, Candidate(path, i))
    <3>1. IndexFiles[i] \in Nat
      BY NamesAssumption
    <3>2. /\ Len(path) <= Len(Candidate(path, i))
          /\ \A j \in 1 .. Len(path) : path[j] = Candidate(path, i)[j]
      BY <2>3, <3>1 DEF Candidate, Words
    <3> QED
      BY <2>3, <3>2, PrefixIs
  <2>5. IsPrefix(root, Candidate(path, i))
    BY <2>3, <2>4, PrefixFacts
  <2>6. Candidate(path, i) \in DOMAIN Links \/ Target(Candidate(path, i)) = Candidate(path, i)
    BY DEF Target
  <2> QED
    BY <1>1, <1>2, <2>2, <2>5, <2>6 DEF Serves, a
<1>3. CASE ~IsDir(path)
  <2>1. WithIndex(path) = path /\ Target(path) = path
    BY <1>3, KindIsWord DEF WithIndex
  <2> QED
    BY <1>1, <1>3, <2>1 DEF Serves, a
<1> QED
    BY <1>2, <1>3

LEMMA RootIsWord ==
    \A h : RootOf(h) \in DOMAIN Kind /\ RootOf(h) \in Words
BY RootsAssumption, KindIsWord DEF RootOf

(* Only the page for status 404 can be served with this status.            *)
LEMMA AnswerServes ==
    ASSUME NEW method, NEW path \in Words, NEW original, NEW root \in Words,
           FilesAnswer(method, path, original, root).kind = "file"
    PROVE  Serves(FilesAnswer(method, path, original, root),
                  ResolveUri(IF FilesAnswer(method, path, original, root).status = 404
                             THEN Page404 ELSE path, root).path, root)
<1> DEFINE result == ResolveUri(path, root)
           page == IF Page404 = None THEN result ELSE ResolveUri(Page404, root)
           canonical == PathToUri(result.path, root)
           a == FilesAnswer(method, path, original, root)
<1>1. CASE result.error = "not found" /\ page.error = None
  <2>1. a = FileAnswer(page.path, method, 404)
    BY <1>1 DEF FilesAnswer
  <2>2. page = ResolveUri(Page404, root) /\ Page404 # None
    BY <1>1, ErrorsAssumption DEF Errors
  <2>3. page.path \in DOMAIN Kind /\ IsPrefix(root, page.path)
    <3>1. Page404 \in Words
      BY <2>2, NamesAssumption DEF Words
    <3> QED
      BY <1>1, <2>2, <3>1, ResolvedThere
  <2> HIDE DEF a, page, result
  <2>4. a.kind = "file"
    BY DEF a
  <2>5. a.status = 404 /\ Serves(a, page.path, root)
    BY <2>1, <2>3, <2>4, FileServed
  <2> QED
    BY <2>2, <2>5 DEF a
<1>2. CASE result.error = None
  <2>1. a = FileAnswer(result.path, method, 200)
    BY <1>2, ErrorsAssumption DEF FilesAnswer, Errors
  <2>2. result.path \in DOMAIN Kind /\ IsPrefix(root, result.path)
    BY <1>2, ResolvedThere
  <2> HIDE DEF a, page, result
  <2>3. a.kind = "file"
    BY DEF a
  <2>4. a.status = 200 /\ Serves(a, result.path, root)
    BY <2>1, <2>2, <2>3, FileServed
  <2> QED
    BY <2>4 DEF a, result
<1>3. CASE result.error # None /\ ~(result.error = "not found" /\ page.error = None)
    BY <1>3 DEF FilesAnswer, ErrorAnswer
<1> QED
    BY <1>1, <1>2, <1>3

-----------------------------------------------------------------------------
(* Paths of redirects                                                      *)

(* The components of an absolute path, with and without a slash at its end.*)
LEMMA SlashAtEnd ==
    ASSUME NEW w \in Words, Len(w) > 0
    PROVE  /\ <<Empty>> \o (w \o <<Empty>>) \in AbsolutePaths
           /\ Components(<<Empty>> \o (w \o <<Empty>>)) = w
<1> DEFINE s == <<Empty>>
           t == w \o s
           z == s \o t
<1>1. s \in Words /\ Len(s) = 1 /\ s[1] = Empty
    BY Single DEF Empty
<1> HIDE DEF s
<1>2. t \in Words /\ Len(t) = Len(w) + 1 /\ t[Len(w) + 1] = Empty /\ Len(w) \in Nat
  <2>1. 1 \in 1 .. Len(s)
    BY <1>1
  <2>2. t \in Words /\ Len(t) = Len(w) + Len(s) /\ t[Len(w) + 1] = s[1]
    BY <1>1, <2>1, ConcatFacts
  <2> HIDE DEF t
  <2> QED
    BY <1>1, <2>2, PrefixFacts
<1>3. Most(t) = w
  <2>1. Most(t) = SubSeq(t, 1, Len(w))
    BY <1>2 DEF Most
  <2>2. \A i \in 1 .. Len(w) : t[i] = w[i]
    BY <1>1, ConcatFacts
  <2>3. SubSeq(t, 1, Len(w)) \in Words /\ Len(SubSeq(t, 1, Len(w))) = Len(w)
           /\ \A i \in 1 .. Len(w) : SubSeq(t, 1, Len(w))[i] = t[i]
    BY <1>2 DEF Words
  <2> QED
    BY <2>1, <2>2, <2>3, Equal
<1> HIDE DEF t
<1>4. z \in Words /\ z # <<>> /\ Head(z) = Empty /\ Tail(z) = t
  <2>1. <<Empty>> \o t \in Words /\ <<Empty>> \o t # <<>> /\ Head(<<Empty>> \o t) = Empty
           /\ Tail(<<Empty>> \o t) = t
    BY <1>2, ConsHeadTail DEF Empty
  <2> QED
    BY <2>1 DEF s
<1>5. Len(z) = Len(w) + 2 /\ z[Len(w) + 2] = t[Len(w) + 1]
  <2>1. Len(z) = 1 + Len(t) /\ z[1 + (Len(w) + 1)] = t[Len(w) + 1]
    BY <1>1, <1>2, ConsFacts
  <2> QED
    BY <1>2, <2>1
<1>6. Len(z) > 2 /\ z[Len(z)] = Empty
    BY <1>2, <1>5
<1>7. Components(z) = w
    BY <1>3, <1>4, <1>6 DEF Components, Most
<1> QED
    BY <1>4, <1>6, <1>7 DEF AbsolutePaths, Words, z, t, s

LEMMA NoSlashAtEnd ==
    ASSUME NEW w \in Words, Len(w) > 0, w[Len(w)] # Empty
    PROVE  <<Empty>> \o w \in AbsolutePaths /\ Components(<<Empty>> \o w) = w
<1> DEFINE z == <<Empty>> \o w
<1>1. z \in Words /\ z # <<>> /\ Head(z) = Empty /\ Tail(z) = w
    BY ConsHeadTail DEF Empty
<1>2. Len(w) \in Nat /\ Len(w) \in 1 .. Len(w)
    BY PrefixFacts
<1>3. Len(z) = Len(w) + 1 /\ z[Len(w) + 1] = w[Len(w)]
  <2>1. <<Empty>> \in Words /\ Len(<<Empty>>) = 1
    BY Single DEF Empty
  <2>2. Len(z) = 1 + Len(w) /\ z[1 + Len(w)] = w[Len(w)]
    BY <1>2, <2>1, ConsFacts
  <2> QED
    BY <1>2, <2>2
<1> HIDE DEF z
<1>4. Len(z) > 1 /\ z[Len(z)] # Empty
    BY <1>2, <1>3
<1>5. Components(z) = w
    BY <1>1, <1>4 DEF Components, Most
<1> QED
    BY <1>1, <1>4, <1>5 DEF AbsolutePaths, Words, z

(* The path to what there is leads there again, and is canonical.          *)
LEMMA CanonicalPath ==
    ASSUME NEW root \in Words, NEW p \in DOMAIN Kind, IsPrefix(root, p)
    PROVE  /\ PathToUri(p, root) \in AbsolutePaths
           /\ LET components == Components(PathToUri(p, root))
              IN  IF Len(p) = Len(root)
                  THEN components = <<Empty>> /\ PathToUri(p, root) = <<Empty, Empty>>
                  ELSE /\ Len(components) = Len(p) - Len(root)
                       /\ \A i \in 1 .. Len(components) : components[i] = EncodedName(p[Len(root) + i])
<1> DEFINE below == SubSeq(p, Len(root) + 1, Len(p))
           names == [i \in DOMAIN below |-> EncodedName(below[i])]
           slash == IF IsDir(p) \/ below = <<>> THEN <<Empty>> ELSE <<>>
           C == PathToUri(p, root)
<1>1. /\ p \in Words /\ Len(p) \in Nat /\ Len(root) \in Nat /\ Len(root) <= Len(p)
      /\ \A i \in 1 .. Len(p) : p[i] \in Nat \ {Empty}
  <2>1. p \in Seq(Nat \ {Empty}) /\ p \in Words
    BY KindAssumption, KindIsWord
  <2>2. \A i \in 1 .. Len(p) : p[i] \in Nat \ {Empty}
    BY <2>1
  <2> QED
    BY <2>1, <2>2, PrefixFacts
<1>2. /\ below \in Words /\ Len(below) = Len(p) - Len(root) /\ DOMAIN below = 1 .. Len(below)
      /\ \A i \in 1 .. Len(below) : below[i] = p[Len(root) + i]
    BY <1>1 DEF Words
<1> HIDE DEF below
<1>3. \A i \in 1 .. Len(below) : EncodedName(below[i]) \in Nat \ {Empty}
  <2> SUFFICES ASSUME NEW i \in 1 .. Len(below) PROVE EncodedName(below[i]) \in Nat \ {Empty}
    OBVIOUS
  <2>1. Len(root) + i \in 1 .. Len(p)
    BY <1>1, <1>2
  <2>2. below[i] \in Nat \ {Empty}
    BY <1>1, <1>2, <2>1
  <2> QED
    BY <2>2, NamesAssumption DEF EncodedName
<1>4. /\ names \in Words /\ Len(names) = Len(below)
      /\ \A i \in 1 .. Len(below) : names[i] = EncodedName(below[i]) /\ names[i] # Empty
  <2>1. Len(below) \in Nat
    BY <1>2, PrefixFacts
  <2>2. names = [i \in 1 .. Len(below) |-> EncodedName(below[i])]
    BY <1>2
  <2> QED
    BY <1>3, <2>1, <2>2 DEF Words
<1> HIDE DEF names
<1>5. C = <<Empty>> \o (names \o slash)
  <2>1. C = (<<Empty>> \o names) \o slash
    BY DEF PathToUri, below, names
  <2>2. <<Empty>> \in Words /\ slash \in Words
    BY DEF Words, Empty
  <2> QED
    BY <1>4, <2>1, <2>2, ConcatAssoc
<1>6. CASE Len(p) = Len(root)
  <2>1. below = <<>> /\ names = <<>>
    BY <1>1, <1>2, <1>4, <1>6 DEF Words
  <2>2. C = <<Empty, Empty>>
    <3>1. C = <<Empty>> \o (<<>> \o <<Empty>>)
      BY <1>5, <2>1
    <3>2. <<>> \o <<Empty>> = <<Empty>>
      BY Single, ConcatFacts DEF Empty
    <3>3. <<Empty>> \in Words /\ <<Empty, Empty>> = <<Empty>> \o <<Empty>>
      BY DEF Words, Empty
    <3> QED
      BY <3>1, <3>2, <3>3
  <2>3. Components(C) = <<Empty>>
    BY <2>2 DEF Components, Most
  <2> QED
    BY <1>6, <2>2, <2>3 DEF AbsolutePaths, Empty
<1>7. CASE Len(p) # Len(root)
  <2>1. Len(names) > 0 /\ Len(names) = Len(p) - Len(root) /\ below # <<>>
    BY <1>1, <1>2, <1>4, <1>7
  <2>2. CASE IsDir(p)
    <3>1. C = <<Empty>> \o (names \o <<Empty>>)
      BY <1>5, <2>2
    <3>2. C \in AbsolutePaths /\ Components(C) = names
      BY <1>4, <2>1, <3>1, SlashAtEnd
    <3> QED
      BY <1>2, <1>4, <1>7, <2>1, <3>2
  <2>3. CASE ~IsDir(p)
    <3>1. C = <<Empty>> \o names
      <4>1. C = <<Empty>> \o (names \o <<>>)
        BY <1>5, <2>1, <2>3
      <4> QED
        BY <1>4, <4>1, ConcatFacts
    <3>2. names[Len(names)] # Empty
      <4>1. Len(names) \in 1 .. Len(below)
        BY <1>1, <1>4, <2>1
      <4> QED
        BY <1>4, <4>1
    <3>3. C \in AbsolutePaths /\ Components(C) = names
      BY <1>4, <2>1, <3>1, <3>2, NoSlashAtEnd
    <3> QED
      BY <1>2, <1>4, <1>7, <2>1, <3>3
  <2> QED
    BY <2>2, <2>3
<1> QED
    BY <1>6, <1>7
(* Its components are pushed back one after the other.                     *)
LEMMA LeadsBack ==
    ASSUME NamesDecodeBack, NEW root \in DOMAIN Kind, IsDir(root), NEW p \in DOMAIN Kind,
           IsPrefix(root, p)
    PROVE  ResolveUri(PathToUri(p, root), root) = Found(p)
<1> DEFINE C == PathToUri(p, root)
           w == Components(C)
           M == Len(p) - Len(root)
           Up(n) == SubSeq(p, 1, Len(root) + n)
<1>1. /\ p \in Words /\ root \in Words /\ Len(p) \in Nat /\ Len(root) \in Nat
      /\ Len(root) <= Len(p)
      /\ \A i \in 1 .. Len(root) : root[i] = p[i]
      /\ C \in AbsolutePaths /\ w \in Words
  <2>1. p \in Words /\ root \in Words
    BY KindIsWord
  <2>2. C \in AbsolutePaths /\ w \in Words
    BY <2>1, CanonicalPath, ComponentsType
  <2> QED
    BY <2>1, <2>2, PrefixFacts, PrefixIs
<1>2. M \in Nat /\ Up(0) = root /\ Up(M) = p
  <2>1. Up(0) = root
    <3>1. Up(0) \in Words /\ Len(Up(0)) = Len(root)
             /\ \A i \in 1 .. Len(root) : Up(0)[i] = p[i]
      BY <1>1 DEF Words
    <3> HIDE DEF Up
    <3> QED
      BY <1>1, <3>1, Equal
  <2>2. Up(M) = p
    <3>1. Len(root) + M = Len(p)
      BY <1>1
    <3> QED
      BY <1>1, <3>1, WholeSubSeq
  <2> QED
    BY <1>1, <2>1, <2>2
<1>3. CASE M = 0
  <2>1. p = root /\ C = <<Empty, Empty>>
    <3>1. Len(p) = Len(root)
      BY <1>1, <1>3
    <3> QED
      BY <1>1, <1>2, <1>3, <3>1, CanonicalPath
  <2> QED
    BY <2>1, RootAsked
<1>4. CASE M # 0
  <2>1. Len(w) = M /\ \A i \in 1 .. M : w[i] = EncodedName(p[Len(root) + i])
    <3>1. Len(p) # Len(root)
      BY <1>1, <1>4
    <3>2. Len(w) = M /\ \A i \in 1 .. Len(w) : w[i] = EncodedName(p[Len(root) + i])
      BY <1>1, <3>1, CanonicalPath
    <3> QED
      BY <3>2
  <2> HIDE DEF C, w
  <2> DEFINE S == {n \in Nat : n <= M => Pushed(root, SubSeq(w, 1, n)) = Up(n)}
  <2>2. 0 \in S
    <3>1. SubSeq(w, 1, 0) = <<>>
      BY <1>1 DEF Words
    <3> HIDE DEF Up
    <3> QED
      BY <1>1, <1>2, <3>1, PathPushed
  <2>3. ASSUME NEW n \in S
        PROVE  n + 1 \in S
    <3> SUFFICES ASSUME n + 1 <= M PROVE Pushed(root, SubSeq(w, 1, n + 1)) = Up(n + 1)
      OBVIOUS
    <3> DEFINE name == p[Len(root) + (n + 1)]
    <3>1. /\ n \in Nat /\ n + 1 \in 1 .. M /\ n \in 0 .. Len(w) /\ n < Len(w)
          /\ Len(root) + (n + 1) \in 1 .. Len(p)
          /\ Len(root) + n \in 0 .. Len(p) /\ Len(root) + n < Len(p)
          /\ Len(root) + (n + 1) = (Len(root) + n) + 1
          /\ Pushed(root, SubSeq(w, 1, n)) = Up(n)
      BY <1>1, <1>2, <2>1
    <3>2. /\ SubSeq(w, 1, n) \in Words
          /\ SubSeq(w, 1, n + 1) = Append(SubSeq(w, 1, n), EncodedName(name))
      <4>1. /\ SubSeq(w, 1, n) \in Words
            /\ Append(SubSeq(w, 1, n), w[n + 1]) = SubSeq(w, 1, n + 1)
        BY <1>1, <3>1, Upto
      <4> QED
        BY <2>1, <3>1, <4>1
    <3>3. EncodedName(name) \in Nat
      <4>1. n + 1 \in 1 .. Len(w)
        BY <2>1, <3>1
      <4>2. w[n + 1] \in Nat
        BY <1>1, <4>1 DEF Words
      <4> QED
        BY <2>1, <3>1, <4>2
    <3>4. DecodedNames(EncodedName(name)) = <<name>>
      <4>1. Len(root) + (n + 1) \in DOMAIN p
        BY <1>1, <3>1 DEF Words
      <4> QED
        BY <4>1 DEF NamesDecodeBack
    <3>5. Up(n) \in Words /\ Append(Up(n), name) = Up(n + 1) /\ name \in Nat
      <4>1. name \in Nat
        BY <1>1, <3>1 DEF Words
      <4>2. Up(n) \in Words /\ Append(Up(n), name) = SubSeq(p, 1, (Len(root) + n) + 1)
        BY <1>1, <3>1, Upto
      <4> QED
        BY <3>1, <4>1, <4>2
    <3> HIDE DEF Up, name
    <3>6. Push(Up(n), <<name>>) = Append(Up(n), name)
      <4>1. Up(n) \o <<name>> = Append(Up(n), name)
        BY <3>5 DEF Words
      <4>2. ~(Len(<<name>>) > 1)
        OBVIOUS
      <4> QED
        BY <4>1, <4>2 DEF Push
    <3>7. Pushed(root, Append(SubSeq(w, 1, n), EncodedName(name))) =
              Push(Pushed(root, SubSeq(w, 1, n)), DecodedNames(EncodedName(name)))
      BY <1>1, <3>2, <3>3, PathPushed
    <3> QED
      BY <3>1, <3>2, <3>4, <3>5, <3>6, <3>7
  <2>4. M \in S
    <3> HIDE DEF S
    <3>1. S \in SUBSET Nat
      BY DEF S
    <3> QED
      BY <1>2, <2>2, <2>3, <3>1, Induction
  <2>5. Pushed(root, w) = p
    <3>1. SubSeq(w, 1, M) = w
      BY <1>1, <2>1, WholeSubSeq
    <3>2. Pushed(root, SubSeq(w, 1, M)) = Up(M)
      BY <1>2, <2>4
    <3> HIDE DEF Up, M
    <3> QED
      BY <1>2, <3>1, <3>2
  <2>6. Checked(Found(p), root) = Found(p)
    BY DEF Checked, Found
  <2> QED
    BY <1>1, <2>5, <2>6, Resolution, CanonicalKind DEF C, w
<1> QED
    BY <1>3, <1>4


-----------------------------------------------------------------------------
(* The part of a path that was removed can stand before another one.       *)

LEMMA Onwards ==
    ASSUME NEW p \in Words, NEW k \in 1 .. Len(p)
    PROVE  /\ SubSeq(p, k + 1, Len(p)) \in Words
           /\ Len(SubSeq(p, k + 1, Len(p))) = Len(p) - k
           /\ \A i \in 1 .. Len(p) - k : SubSeq(p, k + 1, Len(p))[i] = p[k + i]
BY DEF Words

LEMMA RemovesOne ==
    ASSUME NEW d \in Words, Len(d) >= 1, NEW s \in Nat, d[Len(d)] = s, s # Empty,
           \A i \in 1 .. Len(d) - 1 : d[i] = Empty, NEW x \in Words
    PROVE  RemoveSegment(<<Empty>> \o (d \o x), s) = <<Empty>> \o x
<1> DEFINE t == d \o x
           p == <<Empty>> \o t
           k == Len(d) + 1
           Start(i) == /\ p[i] # Empty \/ i = Len(p)
                       /\ \A j \in 1 .. i - 1 : p[j] = Empty
           start == CHOOSE i \in DOMAIN p : Start(i)
<1>1. /\ Len(d) \in Nat /\ Len(x) \in Nat /\ t \in Words /\ Len(t) = Len(d) + Len(x)
      /\ \A i \in 1 .. Len(d) : t[i] = d[i]
      /\ \A i \in 1 .. Len(x) : t[Len(d) + i] = x[i]
    BY ConcatFacts, PrefixFacts
<1> HIDE DEF t
<1>2. /\ p \in Words /\ Len(p) = 1 + Len(t) /\ p[1] = Empty
      /\ \A i \in 1 .. Len(t) : p[1 + i] = t[i]
  <2>1. <<Empty>> \in Words /\ Len(<<Empty>>) = 1 /\ <<Empty>>[1] = Empty
    BY Single DEF Empty
  <2> QED
    BY <1>1, <2>1, ConsFacts
<1>3. DOMAIN p = 1 .. Len(p)
    BY <1>2 DEF Words
<1> HIDE DEF p
<1>4. k \in 1 .. Len(p) /\ p[k] = s
  <2>1. Len(d) \in 1 .. Len(d) /\ Len(d) \in 1 .. Len(t)
    BY <1>1
  <2>2. p[1 + Len(d)] = t[Len(d)] /\ t[Len(d)] = d[Len(d)]
    BY <1>1, <1>2, <2>1
  <2> QED
    BY <1>1, <1>2, <2>1, <2>2
<1>5. \A j \in 1 .. k - 1 : p[j] = Empty
  <2> SUFFICES ASSUME NEW j \in 1 .. k - 1 PROVE p[j] = Empty
    OBVIOUS
  <2>1. CASE j = 1
    BY <1>2, <2>1
  <2>2. CASE j # 1
    <3>1. j - 1 \in 1 .. Len(d) - 1 /\ j - 1 \in 1 .. Len(d) /\ j - 1 \in 1 .. Len(t) /\ 1 + (j - 1) = j
      BY <1>1, <2>2
    <3>2. p[1 + (j - 1)] = t[j - 1] /\ t[j - 1] = d[j - 1] /\ d[j - 1] = Empty
      BY <1>1, <1>2, <3>1
    <3> QED
      BY <3>1, <3>2
  <2> QED
    BY <2>1, <2>2
<1>6. start = k
  <2>1. k \in DOMAIN p /\ Start(k)
    BY <1>3, <1>4, <1>5
  <2>2. start \in DOMAIN p /\ Start(start)
    BY <2>1
  <2> HIDE DEF start
  <2>3. start \in 1 .. Len(p) /\ k \in 1 .. Len(p) /\ Len(p) \in Nat
    BY <1>1, <1>2, <1>3, <1>4, <2>2
  <2>4. CASE start < k
    <3>1. start \in 1 .. k - 1 /\ start # Len(p)
      BY <2>3, <2>4
    <3> QED
      BY <1>5, <2>2, <3>1
  <2>5. CASE k < start
    <3>1. k \in 1 .. start - 1
      BY <2>3, <2>5
    <3> QED
      BY <1>4, <2>2, <3>1
  <2> QED
    BY <2>3, <2>4, <2>5
<1>7. SkipSeparators(p) = SubSeq(p, k, Len(p))
    BY <1>6 DEF SkipSeparators, start
<1>8. SubSeq(p, k + 1, Len(p)) = x
  <2> DEFINE y == SubSeq(p, k + 1, Len(p))
  <2>1. y \in Words /\ Len(y) = Len(p) - k /\ \A i \in 1 .. Len(p) - k : y[i] = p[k + i]
    <3> HIDE DEF k
    <3> QED
      BY <1>2, <1>4, Onwards
  <2> HIDE DEF y
  <2>2. Len(y) = Len(x)
    BY <1>1, <1>2, <2>1
  <2>3. \A i \in 1 .. Len(y) : y[i] = x[i]
    <3> SUFFICES ASSUME NEW i \in 1 .. Len(y) PROVE y[i] = x[i]
      OBVIOUS
    <3>1. i \in 1 .. Len(x) /\ i \in 1 .. Len(p) - k /\ Len(d) + i \in 1 .. Len(t)
             /\ 1 + (Len(d) + i) = k + i
      BY <1>1, <1>2, <2>1, <2>2
    <3>2. y[i] = p[k + i] /\ p[1 + (Len(d) + i)] = t[Len(d) + i] /\ t[Len(d) + i] = x[i]
      BY <1>1, <1>2, <2>1, <3>1
    <3> QED
      BY <3>1, <3>2
  <2>4. y = x
    BY <2>1, <2>2, <2>3, Equal
  <2> QED
    BY <2>4 DEF y
<1> HIDE DEF k
<1>9. SkipSeparators(p) = <<s>> \o x
  <2>1. SubSeq(p, k, Len(p)) = <<p[k]>> \o SubSeq(p, k + 1, Len(p))
    BY <1>2, <1>4, Rests
  <2> QED
    BY <1>4, <1>7, <1>8, <2>1
<1>10. Head(SkipSeparators(p)) = s /\ Tail(SkipSeparators(p)) = x
    BY <1>9, ConsHeadTail
<1>11. p # None
    BY <1>2, NonePathAssumption DEF Words
<1>12. RemoveSegment(p, s) = <<Empty>> \o x
    BY <1>10, <1>11 DEF RemoveSegment
<1> QED
    BY <1>12 DEF p, t

(* w goes on with u behind its first segment, s, the last number of d.     *)
GoesOn(w, d, s, u, rest) ==
    /\ d \in Words /\ u \in Words /\ w = d \o u
    /\ Len(d) >= 1 /\ d[Len(d)] = s /\ \A i \in 1 .. Len(d) - 1 : d[i] = Empty
    /\ Segments(<<Empty>> \o u) = rest

LEMMA FirstSegment ==
    ASSUME NEW w \in Words, NEW s \in Nat, s # Empty, NEW rest \in Words,
           Segments(<<Empty>> \o w) = <<s>> \o rest
    PROVE  \E d, u : GoesOn(w, d, s, u, rest)
<1> DEFINE p == <<Empty>> \o w
<1>1. /\ p \in Words /\ p # <<>> /\ Len(p) = 1 + Len(w) /\ Len(w) \in Nat /\ p[1] = Empty
      /\ \A i \in 1 .. Len(w) : p[1 + i] = w[i]
  <2>1. <<Empty>> \in Words /\ Len(<<Empty>>) = 1 /\ <<Empty>>[1] = Empty
    BY Single DEF Empty
  <2> QED
    BY <2>1, ConsFacts, ConsHeadTail, PrefixFacts DEF Empty
<1> HIDE DEF p
<1>2. PICK k \in 1 .. Len(p) :
         /\ p[k] \in Nat /\ SubSeq(p, k + 1, Len(p)) \in Words
         /\ p[k] = Empty => SubSeq(p, k + 1, Len(p)) = <<>>
         /\ Segments(p) = Segments(<<p[k]>> \o SubSeq(p, k + 1, Len(p)))
         /\ \A j \in 1 .. k - 1 : p[j] = Empty
    BY <1>1, Skipped
<1> DEFINE u == SubSeq(p, k + 1, Len(p))
           d == SubSeq(w, 1, k - 1)
<1>3. u \in Words /\ p[k] # Empty
  <2> SUFFICES ASSUME p[k] = Empty PROVE FALSE
    BY <1>2
  <2>1. <<Empty>> \o <<>> = <<Empty>>
    BY Single, ConcatFacts DEF Empty
  <2>2. Segments(p) = <<>>
    BY <1>2, <2>1, NoSegments
  <2> QED
    BY <2>2, ConsHeadTail DEF p
<1>4. k \in Nat /\ k # 1 /\ k <= Len(p)
    BY <1>1, <1>2, <1>3
<1>5. p[k] = s /\ Segments(u) = rest
  <2>1. Segments(p) = <<p[k]>> \o Segments(u) /\ Segments(u) \in Words
    BY <1>2, <1>3, SegmentsCons, SegmentsType
  <2>2. /\ Head(<<p[k]>> \o Segments(u)) = p[k] /\ Tail(<<p[k]>> \o Segments(u)) = Segments(u)
    BY <1>2, <2>1, ConsHeadTail
  <2>3. Head(<<s>> \o rest) = s /\ Tail(<<s>> \o rest) = rest
    BY ConsHeadTail
  <2>4. <<p[k]>> \o Segments(u) = <<s>> \o rest
    BY <2>1 DEF p
  <2> HIDE DEF u
  <2> QED
    BY <2>2, <2>3, <2>4
<1>6. Segments(<<Empty>> \o u) = rest
  <2>1. Segments(<<Empty>> \o u) = <<>> \o Segments(u)
    BY <1>3, SegmentsCons DEF Empty
  <2> HIDE DEF u
  <2> QED
    BY <1>5, <2>1, ConcatFacts
<1>7. /\ d \in Words /\ Len(d) = k - 1 /\ \A i \in 1 .. k - 1 : d[i] = w[i]
  <2>1. k - 1 \in 0 .. Len(w)
    BY <1>1, <1>2
  <2> QED
    BY <2>1, Upto
<1> HIDE DEF d
<1>8. \A i \in 1 .. k - 1 : d[i] = p[1 + i]
    BY <1>1, <1>4, <1>7
<1>9. d[Len(d)] = s /\ \A i \in 1 .. Len(d) - 1 : d[i] = Empty
  <2>1. k - 1 \in 1 .. k - 1 /\ 1 + (k - 1) = k
    BY <1>2, <1>4
  <2>2. d[k - 1] = p[k]
    BY <1>8, <2>1
  <2>3. ASSUME NEW i \in 1 .. Len(d) - 1
        PROVE  d[i] = Empty
    <3>1. i \in 1 .. k - 1 /\ 1 + i \in 1 .. k - 1
      BY <1>4, <1>7, <2>3
    <3> QED
      BY <1>2, <1>8, <3>1
  <2> QED
    BY <1>5, <1>7, <2>2, <2>3
<1>10. w = d \o u
  <2>1. Len(u) = Len(p) - k /\ \A i \in 1 .. Len(p) - k : u[i] = p[k + i]
    BY <1>1, <1>2 DEF Words
  <2> HIDE DEF u
  <2> DEFINE y == d \o u
  <2>2. /\ y \in Words /\ Len(y) = Len(d) + Len(u)
        /\ \A i \in 1 .. Len(d) : y[i] = d[i]
        /\ \A i \in 1 .. Len(u) : y[Len(d) + i] = u[i]
    BY <1>3, <1>7, ConcatFacts
  <2> HIDE DEF y
  <2>3. Len(y) = Len(w)
    BY <1>1, <1>4, <1>7, <2>1, <2>2
  <2>4. \A i \in 1 .. Len(w) : w[i] = y[i]
    <3> SUFFICES ASSUME NEW i \in 1 .. Len(w) PROVE w[i] = y[i]
      OBVIOUS
    <3>1. CASE i <= k - 1
      <4>1. i \in 1 .. k - 1 /\ i \in 1 .. Len(d)
        BY <1>4, <1>7, <3>1
      <4> QED
        BY <1>7, <2>2, <4>1
    <3>2. CASE ~(i <= k - 1)
      <4>1. /\ i - (k - 1) \in 1 .. Len(p) - k /\ i - (k - 1) \in 1 .. Len(u)
            /\ Len(d) + (i - (k - 1)) = i /\ k + (i - (k - 1)) = 1 + i
        BY <1>1, <1>4, <1>7, <2>1, <3>2
      <4>2. y[Len(d) + (i - (k - 1))] = u[i - (k - 1)]
        BY <2>2, <4>1
      <4>3. u[i - (k - 1)] = p[k + (i - (k - 1))]
        BY <2>1, <4>1
      <4>4. p[1 + i] = w[i]
        BY <1>1
      <4> QED
        BY <4>1, <4>2, <4>3, <4>4
    <3> QED
      BY <3>1, <3>2
  <2>5. w = y
    BY <2>2, <2>3, <2>4, Equal
  <2> QED
    BY <2>5 DEF y
<1>11. Len(d) >= 1
    BY <1>2, <1>4, <1>7
<1> QED
    BY <1>3, <1>6, <1>7, <1>9, <1>10, <1>11 DEF GoesOn

LEMMA AbsoluteTail ==
    ASSUME NEW path \in AbsolutePaths
    PROVE  Tail(path) \in Words /\ Tail(path) # <<>> /\ path = <<Empty>> \o Tail(path)
<1>1. path \in Words /\ path # <<>> /\ Head(path) = Empty /\ Len(path) > 1
    BY DEF AbsolutePaths, Words
<1>2. 1 \in 1 .. Len(path)
    BY <1>1
<1>3. SubSeq(path, 1, Len(path)) = <<path[1]>> \o SubSeq(path, 1 + 1, Len(path))
    BY <1>1, <1>2, Rests
<1>4. Tail(path) = SubSeq(path, 1 + 1, Len(path)) /\ path[1] = Head(path)
    BY <1>1 DEF Words
<1>5. Tail(path) \in Words /\ Len(Tail(path)) = Len(path) - 1
    BY <1>1 DEF Words
<1>6. Tail(path) # <<>>
    BY <1>1, <1>5 DEF Words
<1> QED
    BY <1>1, <1>3, <1>4, <1>5, <1>6, WholeSubSeq

(* What remains behind a prefix can be exchanged.                          *)
LEMMA PrefixCut ==
    ASSUME NEW prefix \in Seq(Nat \ {Empty}), NEW path \in AbsolutePaths,
           IsPrefix(prefix, Segments(path))
    PROVE  \E b, w \in Words :
              /\ path = b \o w /\ Len(b) >= Len(prefix) + 1
              /\ \A x \in Words : \E g : /\ Leaves(g, prefix, b \o x, Len(prefix))
                                         /\ g[Len(prefix)] = <<Empty>> \o x
<1> DEFINE K == Segments(path)
           Parts(n, b, w) ==
               /\ path = b \o w /\ Len(b) >= n + 1 /\ IsBelow(<<Empty>> \o w, n, path)
               /\ \A x \in Words : \E g : Leaves(g, prefix, b \o x, n) /\ g[n] = <<Empty>> \o x
           S == {n \in Nat : n <= Len(prefix) => \E b, w \in Words : Parts(n, b, w)}
<1>1. path \in Words /\ path # <<>> /\ Head(path) = Empty /\ Len(path) > 1
    BY DEF AbsolutePaths, Words
<1>2. prefix \in Words /\ Len(prefix) \in Nat
         /\ \A n \in 1 .. Len(prefix) : prefix[n] \in Nat /\ prefix[n] # Empty
    BY DEF Words
<1>3. K \in Words /\ Len(K) \in Nat
    BY <1>1, SegmentsType, PrefixFacts
<1>4. Len(prefix) <= Len(K) /\ \A n \in 1 .. Len(prefix) : prefix[n] = K[n]
    BY <1>2, <1>3, PrefixIs
<1>5. 0 \in S
  <2> DEFINE b == <<Empty>>
             w == Tail(path)
  <2>1. b \in Words /\ Len(b) = 1 /\ w \in Words /\ path = b \o w
    <3>1. b \in Words /\ Len(b) = 1
      BY Single DEF Empty
    <3>2. w \in Words /\ path = <<Empty>> \o w
      BY AbsoluteTail
    <3> QED
      BY <1>1, <3>1, <3>2
  <2>2. IsBelow(<<Empty>> \o w, 0, path)
    <3>1. SubSeq(K, 0 + 1, Len(K)) = K
      BY <1>3, WholeSubSeq
    <3> QED
      BY <1>1, <2>1, <3>1 DEF IsBelow
  <2>3. ASSUME NEW x \in Words
        PROVE  \E g : Leaves(g, prefix, b \o x, 0) /\ g[0] = <<Empty>> \o x
    <3> DEFINE g == [n \in 0 .. 0 |-> b \o x]
    <3>1. b \o x \in Words
      BY <2>1, ConcatFacts
    <3>2. Leaves(g, prefix, b \o x, 0) /\ g[0] = <<Empty>> \o x
      BY <3>1 DEF Leaves
    <3> QED
      BY <3>2
  <2> HIDE DEF b, w
  <2>4. Len(b) >= 0 + 1
    BY <2>1
  <2> QED
    BY <2>1, <2>2, <2>3, <2>4
<1>6. ASSUME NEW n \in S, n + 1 <= Len(prefix)
      PROVE  \E b, w \in Words : Parts(n + 1, b, w)
  <2>1. /\ n \in Nat /\ n <= Len(prefix) /\ n + 1 \in 1 .. Len(prefix) /\ n + 1 <= Len(K)
        /\ n + 1 \in 1 .. Len(K)
    BY <1>2, <1>3, <1>4, <1>6
  <2>2. PICK b \in Words, w \in Words : Parts(n, b, w)
    BY <2>1
  <2>11. b \in Words /\ w \in Words
    BY <2>2
  <2> HIDE DEF S
  <2> DEFINE s == prefix[n + 1]
             rest == SubSeq(K, (n + 1) + 1, Len(K))
  <2>3. s \in Nat /\ s # Empty /\ s = K[n + 1]
    BY <1>2, <1>4, <2>1
  <2>4. rest \in Words /\ Segments(<<Empty>> \o w) = <<s>> \o rest
    <3>1. rest \in Words /\ SubSeq(K, n + 1, Len(K)) = <<K[n + 1]>> \o rest
      BY <1>3, <2>1, Rests
    <3>2. Segments(<<Empty>> \o w) = SubSeq(K, n + 1, Len(K))
      BY <2>2 DEF IsBelow
    <3> QED
      BY <2>3, <3>1, <3>2
  <2> HIDE DEF s, rest, K
  <2>12. PICK d, u : GoesOn(w, d, s, u, rest)
    BY <2>11, <2>3, <2>4, FirstSegment
  <2>5. /\ d \in Words /\ u \in Words /\ w = d \o u
        /\ Len(d) >= 1 /\ d[Len(d)] = s /\ \A i \in 1 .. Len(d) - 1 : d[i] = Empty
        /\ Segments(<<Empty>> \o u) = rest
    BY <2>12 DEF GoesOn
  <2>6. /\ b \o d \in Words /\ path = (b \o d) \o u /\ Len(b \o d) = Len(b) + Len(d)
        /\ Len(b) \in Nat /\ Len(d) \in Nat
    <3>1. (b \o d) \o u = b \o (d \o u)
      BY ConcatAssoc
    <3> QED
      BY <2>2, <2>5, <3>1, ConcatFacts, PrefixFacts
  <2>7. Len(b \o d) >= (n + 1) + 1
    <3>1. Len(b) >= n + 1 /\ Len(d) >= 1
      BY <2>2, <2>5
    <3> QED
      BY <2>1, <2>6, <3>1
  <2>8. IsBelow(<<Empty>> \o u, n + 1, path)
    <3>1. <<Empty>> \o u # <<>> /\ Head(<<Empty>> \o u) = Empty
      BY ConsHeadTail DEF Empty
    <3> QED
      BY <2>5, <3>1 DEF IsBelow, rest, K
  <2>9. ASSUME NEW x \in Words
        PROVE  \E g : Leaves(g, prefix, (b \o d) \o x, n + 1) /\ g[n + 1] = <<Empty>> \o x
    <3>1. d \o x \in Words /\ (b \o d) \o x = b \o (d \o x)
      <4>1. d \in Words
        BY <2>5
      <4>2. d \o x \in Words
        BY <4>1, ConcatFacts
      <4>3. (b \o d) \o x = b \o (d \o x)
        BY <2>11, <4>1, ConcatAssoc, Zenon
      <4> QED
        BY <4>2, <4>3
    <3>2. PICK f : Leaves(f, prefix, b \o (d \o x), n) /\ f[n] = <<Empty>> \o (d \o x)
      BY <2>2, <3>1
    <3> DEFINE t == <<Empty>> \o x
               g == [m \in 0 .. (n + 1) |-> IF m = n + 1 THEN t ELSE f[m]]
    <3>3. t \in Words /\ t = RemoveSegment(f[n], s)
      <4>1. t \in Words
        BY Single, ConcatFacts DEF Empty
      <4>2. RemoveSegment(<<Empty>> \o (d \o x), s) = <<Empty>> \o x
        BY <2>3, <2>5, RemovesOne
      <4> QED
        BY <3>2, <4>1, <4>2
    <3> HIDE DEF t
    <3>4. g \in [0 .. (n + 1) -> Words] /\ g[0] = b \o (d \o x)
      <4>1. f \in [0 .. n -> Words] /\ f[0] = b \o (d \o x)
        BY <3>2 DEF Leaves
      <4>2. 0 \in 0 .. (n + 1) /\ 0 # n + 1 /\ \A m \in 0 .. (n + 1) : m = n + 1 \/ m \in 0 .. n
        BY <2>1
      <4>3. g \in [0 .. (n + 1) -> Words]
        BY <3>3, <4>1, <4>2
      <4>4. g[0] = f[0]
        BY <4>2
      <4> QED
        BY <4>1, <4>3, <4>4
    <3>5. \A m \in 1 .. (n + 1) : g[m] = RemoveSegment(g[m - 1], prefix[m])
      <4> SUFFICES ASSUME NEW m \in 1 .. (n + 1)
                   PROVE  g[m] = RemoveSegment(g[m - 1], prefix[m])
        OBVIOUS
      <4>1. CASE m = n + 1
        <5>1. g[m] = t /\ g[m - 1] = f[n]
          BY <2>1, <4>1
        <5> QED
          BY <3>3, <4>1, <5>1 DEF s
      <4>2. CASE m \in 1 .. n
        <5>1. g[m] = f[m] /\ g[m - 1] = f[m - 1]
          BY <2>1, <4>2
        <5> QED
          BY <3>2, <4>2, <5>1 DEF Leaves
      <4> QED
        BY <2>1, <4>1, <4>2
    <3>6. g[n + 1] = t
      BY <2>1
    <3> HIDE DEF g
    <3>7. Leaves(g, prefix, b \o (d \o x), n + 1)
      BY <3>4, <3>5 DEF Leaves
    <3>8. g[n + 1] = <<Empty>> \o x
      BY <3>6 DEF t
    <3> QED
      BY <3>1, <3>7, <3>8
  <2>10. Parts(n + 1, b \o d, u)
    BY <2>6, <2>7, <2>8, <2>9
  <2> HIDE DEF Parts
  <2> QED
    BY <2>5, <2>6, <2>10
<1> HIDE DEF Parts
<1>7. Len(prefix) \in S
  <2>1. \A n \in S : n + 1 \in S
    BY <1>6
  <2> HIDE DEF S
  <2>2. S \in SUBSET Nat
    BY DEF S
  <2> QED
    BY <1>2, <1>5, <2>1, <2>2, Induction
<1> QED
  <2>1. \E b, w \in Words : Parts(Len(prefix), b, w)
    BY <1>2, <1>7
  <2> QED
    BY <2>1 DEF Parts

LEMMA Parted ==
    ASSUME NEW b \in Words, NEW w \in Words
    PROVE  LET p == b \o w
           IN  /\ SubSeq(p, Len(p) - Len(w) + 1, Len(p)) = w
               /\ SubSeq(p, 1, Len(p) - Len(w)) = b
<1> DEFINE p == b \o w
           from == Len(p) - Len(w) + 1
           r == SubSeq(p, from, Len(p))
<1>1. /\ p \in Words /\ Len(p) = Len(b) + Len(w) /\ Len(b) \in Nat /\ Len(w) \in Nat
      /\ \A i \in 1 .. Len(b) : p[i] = b[i]
      /\ \A i \in 1 .. Len(w) : p[Len(b) + i] = w[i]
    BY ConcatFacts, PrefixFacts
<1> HIDE DEF p
<1>2. from = Len(b) + 1 /\ from \in 1 .. Len(p) + 1
    BY <1>1
<1> HIDE DEF from
<1>3. r \in Words /\ Len(r) = Len(w) /\ \A i \in 1 .. Len(w) : r[i] = p[Len(b) + i]
  <2>1. p \in Seq(Nat) /\ from \in Nat \ {0} /\ Len(p) \in Nat
    BY <1>1, <1>2 DEF Words
  <2>2. \A i \in from .. Len(p) : p[i] \in Nat
    BY <2>1
  <2>3. r \in Seq(Nat)
    BY <2>1, <2>2
  <2>4. Len(r) = IF from <= Len(p) THEN (Len(p) - from) + 1 ELSE 0
    BY <2>1
  <2>5. Len(r) = Len(w) /\ Len(w) \in Nat
    BY <1>1, <1>2, <2>4, PrefixFacts
  <2>6. \A i \in 1 .. Len(w) : r[i] = p[(from + i) - 1]
    BY <2>1, <2>5
  <2>7. \A i \in 1 .. Len(w) : (from + i) - 1 = Len(b) + i
    BY <1>1, <1>2
  <2> QED
    BY <2>3, <2>5, <2>6, <2>7 DEF Words
<1> HIDE DEF r
<1>4. r = w
    BY <1>1, <1>3, Equal
<1>5. SubSeq(p, 1, Len(p) - Len(w)) = b
  <2> DEFINE q == SubSeq(p, 1, Len(p) - Len(w))
  <2>1. Len(b) \in 0 .. Len(p) /\ Len(p) - Len(w) = Len(b)
    BY <1>1
  <2>2. q \in Words /\ Len(q) = Len(b) /\ \A i \in 1 .. Len(b) : q[i] = p[i]
    BY <1>1, <2>1, Upto
  <2> HIDE DEF q
  <2>3. q = b
    BY <1>1, <2>2, Equal
  <2> QED
    BY <2>3 DEF q
<1> QED
    BY <1>4, <1>5 DEF r, from, p

(* What the client is told to ask for is what the handler will see, with   *)
(* the part of the path in front of it that was removed.                   *)
LEMMA LocationSeen ==
    ASSUME NEW h, h.strip # None => h.strip \in Seq(Nat \ {Empty}),
           NEW path \in AbsolutePaths, h.strip # None => IsPrefix(h.strip, Segments(path)),
           NEW canonical \in AbsolutePaths, SeenBy(h, path) # <<Empty, Empty>>
    PROVE  /\ SeenBy(h, path) \in AbsolutePaths
           /\ Location(canonical, SeenBy(h, path), path) \in AbsolutePaths
           /\ SeenBy(h, Location(canonical, SeenBy(h, path), path)) = canonical
<1> DEFINE seen == SeenBy(h, path)
           location == Location(canonical, seen, path)
<1>1. CASE h.strip = None \/ h.strip = <<>>
  <2>1. seen = path
    BY <1>1 DEF SeenBy
  <2>2. location = canonical
    <3>1. Len(path) \in Nat
      BY DEF AbsolutePaths
    <3>2. Location(canonical, path, path) = canonical
      <4>1. ~(Len(path) > Len(path))
        BY <3>1
      <4> QED
        BY <4>1, Zenon DEF Location
    <3> HIDE DEF seen
    <3> QED
      BY <2>1, <3>2
  <2> QED
    BY <1>1, <2>1, <2>2 DEF SeenBy
<1>2. CASE h.strip # None /\ h.strip # <<>>
  <2> DEFINE prefix == h.strip
             L == Len(prefix)
  <2>1. prefix \in Seq(Nat \ {Empty}) /\ prefix \in Words /\ L \in Nat /\ L >= 1
    BY <1>2 DEF Words
  <2>2. PICK b \in Words, w \in Words :
           /\ path = b \o w /\ Len(b) >= L + 1
           /\ \A x \in Words : \E g : Leaves(g, prefix, b \o x, L) /\ g[L] = <<Empty>> \o x
    BY <1>2, <2>1, PrefixCut
  <2> HIDE DEF prefix, L
  <2>3. ASSUME NEW x \in Words, x # <<>>
        PROVE  RemovePrefix(prefix, b \o x) = <<Empty>> \o x /\ <<Empty>> \o x \in AbsolutePaths
    <3>1. PICK g : Leaves(g, prefix, b \o x, L) /\ g[L] = <<Empty>> \o x
      BY <2>2
    <3>2. b \o x \in Words
      BY <2>2, ConcatFacts
    <3>3. RemovePrefix(prefix, b \o x) =
             IF g[L] = <<Empty>> THEN <<Empty, Empty>> ELSE g[L]
      BY <1>2, <2>1, <3>1, <3>2, RemovesSegments DEF prefix, L
    <3>4. /\ <<Empty>> \o x # <<Empty>> /\ <<Empty>> \o x \in Words
          /\ <<Empty>> \o x # <<>> /\ Head(<<Empty>> \o x) = Empty
      <4>1. Tail(<<Empty>> \o x) = x /\ Tail(<<Empty>>) = <<>>
        BY <2>3, ConsHeadTail DEF Empty
      <4> QED
        BY <2>3, <4>1, ConsHeadTail DEF Empty
    <3>5. <<Empty>> \o x \in AbsolutePaths
      BY <3>4, LongPath
    <3> QED
      BY <3>1, <3>3, <3>4, <3>5
  <2>4. \A x \in Words : x # <<>> => SeenBy(h, b \o x) = <<Empty>> \o x
    <3> SUFFICES ASSUME NEW x \in Words, x # <<>> PROVE SeenBy(h, b \o x) = <<Empty>> \o x
      OBVIOUS
    <3>1. <<Empty>> \o x # None
      BY <2>3, NonePathAssumption DEF AbsolutePaths
    <3> QED
      BY <1>2, <2>3, <3>1 DEF SeenBy, prefix
  <2>5. w # <<>>
    <3> SUFFICES ASSUME w = <<>> PROVE FALSE
      OBVIOUS
    <3>1. PICK g : Leaves(g, prefix, b \o w, L) /\ g[L] = <<Empty>> \o w
      BY <2>2
    <3>2. <<Empty>> \o w = <<Empty>>
      BY Single, ConcatFacts DEF Empty
    <3>3. RemovePrefix(prefix, path) = <<Empty, Empty>>
      <4>1. b \o w \in Words
        BY <2>2, ConcatFacts
      <4>2. RemovePrefix(prefix, b \o w) = IF g[L] = <<Empty>> THEN <<Empty, Empty>> ELSE g[L]
        BY <1>2, <2>1, <3>1, <4>1, RemovesSegments DEF prefix, L
      <4> QED
        BY <2>2, <3>1, <3>2, <4>2
    <3>4. <<Empty, Empty>> # None
      <4>1. <<Empty, Empty>> \in Seq(Nat)
        BY DEF Empty
      <4> QED
        BY <4>1, NonePathAssumption
    <3>5. seen = <<Empty, Empty>>
      BY <1>2, <3>3, <3>4 DEF SeenBy, prefix
    <3> QED
      BY <3>5
  <2>6. seen = <<Empty>> \o w /\ seen \in AbsolutePaths
    BY <2>2, <2>3, <2>4, <2>5
  <2>7. Tail(seen) = w /\ Len(seen) = 1 + Len(w)
    <3>1. w \in Words /\ <<Empty>> \in Words /\ Len(<<Empty>>) = 1
      BY <2>2, Single DEF Empty
    <3>2. Len(<<Empty>> \o w) = 1 + Len(w)
      BY <3>1, ConsFacts
    <3>3. Tail(<<Empty>> \o w) = w
      BY <3>1, ConsHeadTail DEF Empty
    <3> QED
      BY <2>6, <3>2, <3>3
  <2> DEFINE c == Tail(canonical)
  <2>8. c \in Words /\ c # <<>> /\ canonical = <<Empty>> \o c
    BY AbsoluteTail
  <2>9. location = b \o c
    <3>1. Len(path) = Len(b) + Len(w) /\ Len(b) \in Nat /\ Len(w) \in Nat
      BY <2>2, ConcatFacts, PrefixFacts
    <3>2. Len(path) > Len(seen)
      BY <2>1, <2>2, <2>7, <3>1
    <3>3. /\ SubSeq(path, Len(path) - Len(w) + 1, Len(path)) = w
          /\ SubSeq(path, 1, Len(path) - Len(w)) = b
      BY <2>2, Parted
    <3> QED
      BY <2>7, <3>2, <3>3 DEF Location
  <2>10. location \in AbsolutePaths
    <3>1. Len(b) \in Nat /\ Len(b) > 1 /\ b \in Words
      BY <2>1, <2>2, PrefixFacts
    <3>2. path[1] = Empty /\ path \in Words
      BY DEF AbsolutePaths, Words
    <3>3. 1 \in 1 .. Len(b)
      BY <3>1
    <3>4. b[1] = Empty /\ (b \o c)[1] = Empty
      BY <2>2, <2>8, <3>1, <3>2, <3>3, ConcatFacts
    <3>5. b \o c \in Words /\ Len(b \o c) > 1
      <4>1. b \o c \in Words /\ Len(b \o c) = Len(b) + Len(c) /\ Len(c) \in Nat
        BY <2>8, <3>1, ConcatFacts, PrefixFacts
      <4> HIDE DEF c
      <4> QED
        BY <3>1, <4>1
    <3>6. \A x \in Words : Len(x) > 1 /\ x[1] = Empty => x \in AbsolutePaths
      BY DEF Words, AbsolutePaths
    <3> QED
      BY <2>9, <3>4, <3>5, <3>6
  <2>11. SeenBy(h, location) = canonical
    BY <2>4, <2>8, <2>9
  <2> QED
    BY <2>6, <2>10, <2>11
<1> QED
    BY <1>1, <1>2

(* Nothing but the root has the path "/".                                  *)
LEMMA RootResolved ==
    ASSUME NEW root \in DOMAIN Kind, ResolveUri(<<Empty, Empty>>, root).error = None
    PROVE  PathToUri(ResolveUri(<<Empty, Empty>>, root).path, root) = <<Empty, Empty>>
<1>1. Failed("not a directory").error # None
    BY ErrorsAssumption DEF Errors, Failed
<1>2. ResolveUri(<<Empty, Empty>>, root).path = root
  <2>1. ResolveUri(<<Empty, Empty>>, root) = Found(root)
    BY <1>1, RootAsked
  <2> QED
    BY <2>1 DEF Found
<1>3. root \in Words /\ IsPrefix(root, root)
    BY KindIsWord, PrefixFacts
<1> QED
    BY <1>2, <1>3, CanonicalPath

(* What a client makes of a location is a path that begins with a slash.   *)
LEMMA ParsedType ==
    ASSUME NEW location \in AbsolutePaths
    PROVE  Parsed(location) \in AbsolutePaths
<1> DEFINE cuts == {i \in DOMAIN location : location[i] \in DOMAIN Cut}
           first == CHOOSE i \in cuts : \A j \in cuts : i <= j
           begin == SubSeq(location, 1, first - 1)
           end == Cut[location[first]]
<1>1. /\ location \in Words /\ Len(location) \in Nat /\ DOMAIN location = 1 .. Len(location)
      /\ location[1] = Empty
    BY DEF AbsolutePaths, Words
<1>2. Parsed(location) = IF cuts = {} THEN location ELSE Append(begin, end)
    BY DEF Parsed
<1>3. ASSUME cuts # {}
      PROVE  first \in cuts
  <2>1. cuts \in SUBSET Nat
    BY <1>1
  <2> HIDE DEF cuts
  <2>2. PICK n \in cuts : \A m \in cuts : ~(m < n)
    BY <1>3, <2>1, LeastNumber
  <2>3. \A m \in cuts : n <= m
    BY <2>1, <2>2
  <2> QED
    BY <2>3
<1>4. ASSUME cuts # {}
      PROVE  first \in 2 .. Len(location) /\ end \in Nat
  <2>1. first \in 1 .. Len(location) /\ location[first] \in DOMAIN Cut
    BY <1>1, <1>3, <1>4
  <2>2. end \in Nat /\ location[first] # Empty
    BY <2>1, CutAssumption
  <2> HIDE DEF first
  <2> QED
    BY <1>1, <2>1, <2>2
<1>5. ASSUME cuts # {}
      PROVE  Append(begin, end) \in AbsolutePaths
  <2> HIDE DEF first, end
  <2>1. begin \in Words /\ Len(begin) = first - 1 /\ Len(begin) > 0 /\ begin[1] = Empty
    <3>1. first - 1 \in 0 .. Len(location) /\ first - 1 > 0
      BY <1>1, <1>4, <1>5
    <3>2. /\ begin \in Words /\ Len(begin) = first - 1
          /\ \A i \in 1 .. first - 1 : begin[i] = location[i]
      BY <1>1, <3>1, Upto
    <3> HIDE DEF begin
    <3>3. 1 \in 1 .. first - 1
      BY <3>1
    <3> QED
      BY <1>1, <3>1, <3>2, <3>3
  <2> HIDE DEF begin
  <2>2. Append(begin, end) \in Words /\ Len(Append(begin, end)) > 1
           /\ Head(Append(begin, end)) = Empty
    BY <1>4, <1>5, <2>1 DEF Words
  <2> QED
    BY <2>2 DEF AbsolutePaths, Words
<1> QED
    BY <1>2, <1>5

-----------------------------------------------------------------------------
(* The inductive invariant: what the handler sees, where its redirect, or  *)
(* the one that was followed, leads to, and what it serves.                *)

HandlerInv ==
    handler # None =>
        /\ request.path \in AbsolutePaths
        /\ handler.strip # None => /\ handler.strip \in Seq(Nat \ {Empty})
                                   /\ IsPrefix(handler.strip, Segments(request.path))
        /\ uri = SeenBy(handler, request.path)

Leads(h, path, location) ==
    /\ location \in AbsolutePaths
    /\ \E p \in DOMAIN Kind :
           /\ IsPrefix(RootOf(h), p)
           /\ ResolveUri(path, RootOf(h)) = Found(p)
           /\ SeenBy(h, location) = PathToUri(p, RootOf(h))

AnswerInv ==
    answer # None =>
        handler # None /\ (answer.kind = "redirect" => Leads(handler, uri, answer.location))

FollowedInv ==
    redirected # None => Leads(redirected.handler, redirected.path, redirected.location)

FilesInv ==
    IInv /\ HandlerInv /\ AnswerInv /\ FollowedInv /\ ServesWhatIsThere

LEMMA HandlerFound ==
    ASSUME IInv, NEW host, NEW path \in AbsolutePaths, EarlyRequestFilter(host, path)
    PROVE  HandlerInv'
<1> DEFINE key == Segments(path)
<1>1. /\ Serving /\ request' = [host |-> host, path |-> path]
      /\ handler' = LookupRoute(table, host, key)
      /\ uri' = LET strip == IF handler' = None THEN None ELSE handler'.strip
                    new == IF strip = None THEN None ELSE RemovePrefix(strip, path)
                IN  IF new = None THEN path ELSE new
    BY DEF EarlyRequestFilter
<1>2. key \in Words
    BY SegmentsType DEF AbsolutePaths, Words
<1> HIDE DEF key
<1>3. \/ handler' = None /\ EntriesFor(host) = {}
      \/ \E e \in EntriesFor(host) : IsRouteFor(handler', e, key)
    BY <1>1, <1>2, LookupConfigured
<1>4. request'.path = path
    BY <1>1
<1>5. ASSUME handler'.strip = None
      PROVE  HandlerInv'
  <2>1. uri' = path /\ SeenBy(handler', path) = path
    BY <1>1, <1>5 DEF SeenBy
  <2> QED
    BY <1>4, <1>5, <2>1 DEF HandlerInv
<1>6. ASSUME NEW e \in EntriesFor(host), IsRouteFor(handler', e, key), handler'.strip # None
      PROVE  HandlerInv'
  <2> DEFINE prefix == handler'.strip
             rule == handler'.rule
  <2>1. conf \in Configurations /\ e \in Entries
    BY DEF IInv, EntriesFor
  <2>2. /\ rule # None /\ rule \in DOMAIN conf[e].subpaths /\ Applies(rule, key)
        /\ prefix = rule.path
    BY <1>6 DEF IsRouteFor, RulesFor
  <2>3. rule \in Rules /\ rule.path \in Seq(Nat \ {Empty}) /\ rule.path \in Words
    <3>1. rule \in Rules
      BY <2>1, <2>2, RoutesAreSome
    <3> QED
      BY <3>1, RuleFacts DEF Rules
  <2>4. prefix \in Seq(Nat \ {Empty}) /\ IsPrefix(prefix, key)
    BY <1>2, <2>2, <2>3, PrefixFacts DEF Applies
  <2> HIDE DEF prefix
  <2>5. uri' = LET new == RemovePrefix(prefix, path) IN IF new = None THEN path ELSE new
    <3>1. handler' # None
      BY <1>6 DEF IsRouteFor
    <3> QED
      BY <1>1, <1>6, <3>1 DEF prefix
  <2>6. uri' = SeenBy(handler', path)
    <3>1. CASE prefix = <<>>
      <4>1. RemovePrefix(prefix, path) = None
        BY <3>1 DEF RemovePrefix
      <4> QED
        BY <2>5, <3>1, <4>1 DEF SeenBy, prefix
    <3>2. CASE prefix # <<>>
      <4>1. RemovePrefix(prefix, path) # None
        BY <2>4, <3>2, PrefixRemoved DEF key
      <4> QED
        BY <1>6, <2>5, <3>2, <4>1 DEF SeenBy, prefix
    <3> QED
      BY <3>1, <3>2
  <2> QED
    BY <1>4, <2>4, <2>6 DEF HandlerInv, prefix, key
<1>7. CASE handler' = None
    BY <1>7 DEF HandlerInv
<1> QED
    BY <1>3, <1>5, <1>6, <1>7

(* A redirect leads to what was asked for.                                 *)
LEMMA RedirectLeads ==
    ASSUME HandlerInv, handler # None, uri \in AbsolutePaths, NEW method,
           FilesAnswer(method, uri, request.path, RootOf(handler)).kind = "redirect"
    PROVE  Leads(handler, uri, FilesAnswer(method, uri, request.path, RootOf(handler)).location)
<1> DEFINE root == RootOf(handler)
           result == ResolveUri(uri, root)
           p == result.path
           canonical == PathToUri(p, root)
           a == FilesAnswer(method, uri, request.path, root)
<1>1. root \in DOMAIN Kind /\ root \in Words
    BY RootIsWord
<1>2. \A x, m, s : FileAnswer(x, m, s).kind # "redirect"
    BY DEF FileAnswer, ErrorAnswer
<1>3. /\ result.error = None /\ canonical # uri
      /\ a.location = Location(canonical, uri, request.path)
  <2> DEFINE page == IF Page404 = None THEN result ELSE ResolveUri(Page404, root)
             redirect == [kind |-> "redirect", status |-> 308,
                          location |-> Location(canonical, uri, request.path)]
  <2>1. \A e : ErrorAnswer(e).kind # "redirect"
    BY DEF ErrorAnswer
  <2>2. a = IF result.error = "not found" /\ page.error = None
            THEN FileAnswer(page.path, method, 404)
            ELSE IF result.error # None THEN ErrorAnswer(StatusFor(result.error))
            ELSE IF Canonicalize /\ canonical # uri THEN redirect
            ELSE FileAnswer(p, method, 200)
    BY DEF FilesAnswer
  <2>3. redirect.location = Location(canonical, uri, request.path)
    OBVIOUS
  <2>4. a.kind = "redirect"
    OBVIOUS
  <2> HIDE DEF page, redirect, canonical, p, result, a
  <2>5. result.error = None /\ canonical # uri /\ a = redirect
    <3>1. ~(result.error = "not found" /\ page.error = None)
      <4> SUFFICES ASSUME result.error = "not found" /\ page.error = None PROVE FALSE
        OBVIOUS
      <4>1. a = FileAnswer(page.path, method, 404)
        BY <2>2
      <4>2. FileAnswer(page.path, method, 404).kind # "redirect"
        BY DEF FileAnswer, ErrorAnswer
      <4> QED
        BY <2>4, <4>1, <4>2
    <3>2. ~(result.error # None)
      <4> SUFFICES ASSUME result.error # None PROVE FALSE
        OBVIOUS
      <4>1. a = ErrorAnswer(StatusFor(result.error))
        BY <2>2, <3>1
      <4> QED
        BY <2>1, <2>4, <4>1
    <3>3. Canonicalize /\ canonical # uri
      <4> SUFFICES ASSUME ~(Canonicalize /\ canonical # uri) PROVE FALSE
        OBVIOUS
      <4>1. a = FileAnswer(p, method, 200)
        BY <2>2, <3>1, <3>2, Zenon
      <4> QED
        BY <1>2, <2>4, <4>1
    <3> QED
      BY <2>2, <3>1, <3>2, <3>3
  <2> QED
    BY <2>3, <2>5
<1>4. p \in DOMAIN Kind /\ result = Found(p) /\ IsPrefix(root, p)
  <2>1. uri \in Words
    BY DEF AbsolutePaths, Words
  <2> QED
    BY <1>1, <1>3, <2>1, ResolvedThere
<1>5. canonical \in AbsolutePaths
    BY <1>1, <1>4, CanonicalPath
<1>6. uri # <<Empty, Empty>>
    BY <1>1, <1>3, RootResolved
<1> HIDE DEF a, canonical, p, result
<1>7. /\ uri = SeenBy(handler, request.path) /\ request.path \in AbsolutePaths
      /\ handler.strip # None => /\ handler.strip \in Seq(Nat \ {Empty})
                                 /\ IsPrefix(handler.strip, Segments(request.path))
    BY DEF HandlerInv
<1>8. a.location \in AbsolutePaths /\ SeenBy(handler, a.location) = canonical
    BY <1>3, <1>5, <1>6, <1>7, LocationSeen
<1>9. Leads(handler, uri, a.location)
    BY <1>4, <1>8 DEF Leads, canonical, result
<1> QED
    BY <1>9 DEF a

-----------------------------------------------------------------------------
(* The steps                                                               *)

LEMMA FilesInitInv ==
    FilesInit => FilesInv
BY InitInv
DEF FilesInit, Init, FilesInv, HandlerInv, AnswerInv, FollowedInv, ServesWhatIsThere

LEMMA SameFiles ==
    ASSUME FilesInv, IInv', UNCHANGED <<request, handler, uri, answer, redirected>>
    PROVE  FilesInv'
BY DEF FilesInv, HandlerInv, AnswerInv, FollowedInv, ServesWhatIsThere

LEMMA ConfigureInv ==
    ASSUME FilesInv, Configure
    PROVE  FilesInv'
<1>1. /\ UNCHANGED <<request, handler, uri, answer, redirected>>
      /\ TakeEntry \/ PushSubpath \/ FinishEntry
    BY DEF Configure, TakeEntry, PushSubpath, FinishEntry
<1>2. IInv'
    BY <1>1, TakeEntryInv, PushSubpathInv, FinishEntryInv DEF FilesInv
<1> QED
    BY <1>1, <1>2, SameFiles

LEMMA ReceiveInv ==
    ASSUME FilesInv, NEW host, NEW path \in RequestPaths, Receive(host, path)
    PROVE  FilesInv'
<1>1. /\ path \in AbsolutePaths /\ EarlyRequestFilter(host, path)
      /\ answer' = None /\ redirected' = None
    BY RequestPathsAssumption DEF Receive
<1>2. IInv' /\ HandlerInv'
    BY <1>1, EarlyRequestFilterInv, HandlerFound DEF FilesInv
<1> QED
    BY <1>1, <1>2 DEF FilesInv, AnswerInv, FollowedInv, ServesWhatIsThere

LEMMA FollowInv ==
    ASSUME FilesInv, Follow
    PROVE  FilesInv'
<1> DEFINE path == Parsed(answer.location)
<1>1. /\ answer # None /\ answer.kind = "redirect"
      /\ EarlyRequestFilter(request.host, path)
      /\ answer' = None
      /\ redirected' = [path |-> uri, handler |-> handler, location |-> answer.location]
    BY DEF Follow
<1>2. Leads(handler, uri, answer.location)
    BY <1>1 DEF FilesInv, AnswerInv
<1>3. path \in AbsolutePaths
    BY <1>2, ParsedType DEF Leads
<1> HIDE DEF path
<1>4. IInv' /\ HandlerInv'
    BY <1>1, <1>3, EarlyRequestFilterInv, HandlerFound DEF FilesInv
<1>5. Leads(redirected'.handler, redirected'.path, redirected'.location)
    BY <1>1, <1>2
<1> QED
    BY <1>1, <1>4, <1>5
    DEF FilesInv, AnswerInv, FollowedInv, ServesWhatIsThere, Leads, RootOf, SeenBy

LEMMA RequestFilterInv ==
    ASSUME FilesInv, NEW method, RequestFilter(method)
    PROVE  FilesInv'
<1>1. /\ handler # None
      /\ answer' = FilesAnswer(method, uri, request.path, RootOf(handler))
      /\ UNCHANGED <<vars, redirected>>
    BY DEF RequestFilter
<1>2. UNCHANGED <<request, handler, uri, redirected>>
    BY <1>1 DEF vars
<1>3. IInv' /\ HandlerInv'
    BY <1>1, <1>2, StutterInv DEF FilesInv, HandlerInv
<1>4. uri \in AbsolutePaths
  <2>1. CASE uri = <<Empty, Empty>>
    BY <2>1 DEF AbsolutePaths, Empty
  <2>2. CASE uri # <<Empty, Empty>>
    <3>1. /\ uri = SeenBy(handler, request.path) /\ request.path \in AbsolutePaths
          /\ handler.strip # None => /\ handler.strip \in Seq(Nat \ {Empty})
                                     /\ IsPrefix(handler.strip, Segments(request.path))
      BY <1>1 DEF FilesInv, HandlerInv
    <3> QED
      BY <2>2, <3>1, LocationSeen
  <2> QED
    BY <2>1, <2>2
<1>5. AnswerInv'
    BY <1>1, <1>2, <1>4, RedirectLeads DEF FilesInv, AnswerInv
<1>6. ServesWhatIsThere'
  <2> DEFINE root == RootOf(handler)
             resolved == ResolveUri(IF answer'.status = 404 THEN Page404 ELSE uri, root).path
  <2>1. ASSUME answer'.kind = "file"
        PROVE  Serves(answer', resolved, root)
    BY <1>1, <1>4, <2>1, RootIsWord, AnswerServes DEF AbsolutePaths, Words
  <2>2. RootOf(handler') = root /\ uri' = uri
    BY <1>2
  <2> QED
    BY <2>1, <2>2 DEF ServesWhatIsThere, Serves, IsFirst, Candidate
<1>7. FollowedInv'
    BY <1>2 DEF FilesInv, FollowedInv
<1> QED
    BY <1>3, <1>5, <1>6, <1>7 DEF FilesInv

LEMMA FilesStutter ==
    ASSUME FilesInv, UNCHANGED filesVars
    PROVE  FilesInv'
<1>1. UNCHANGED vars /\ UNCHANGED <<request, handler, uri, answer, redirected>>
    BY DEF filesVars, vars
<1>2. IInv'
    BY <1>1, StutterInv DEF FilesInv
<1> QED
    BY <1>1, <1>2, SameFiles

LEMMA FilesStep ==
    ASSUME FilesInv, [FilesNext]_filesVars
    PROVE  FilesInv'
<1>1. CASE Configure
    BY <1>1, ConfigureInv
<1>2. ASSUME NEW host \in RequestHosts, NEW path \in RequestPaths, Receive(host, path)
      PROVE  FilesInv'
    BY <1>2, ReceiveInv
<1>3. ASSUME NEW method \in Methods, RequestFilter(method)
      PROVE  FilesInv'
    BY <1>3, RequestFilterInv
<1>4. CASE Follow
    BY <1>4, FollowInv
<1>5. CASE UNCHANGED filesVars
    BY <1>5, FilesStutter
<1> QED
    BY <1>1, <1>2, <1>3, <1>4, <1>5 DEF FilesNext

LEMMA FilesInvariance ==
    FilesSpec => []FilesInv
BY FilesInitInv, FilesStep, PTL DEF FilesSpec

(* Where a redirect was followed to, the handler that sent it finds what   *)
(* was asked for, and sends no other one.                                  *)
LEMMA OnceAnswered ==
    ASSUME NamesDecodeBack, IsDir(SiteRoot), IsDir(StrippedRoot),
           FilesInv, RedirectsOnce, NEW method, RequestFilter(method)
    PROVE  RedirectsOnce'
<1>1. /\ handler # None
      /\ answer' = FilesAnswer(method, uri, request.path, RootOf(handler))
      /\ UNCHANGED <<request, handler, uri, redirected>>
    BY DEF RequestFilter, vars
<1>2. SUFFICES ASSUME redirected # None, request.path = redirected.location
               PROVE  RedirectsOnce'
    BY <1>1 DEF RedirectsOnce
<1> DEFINE h == redirected.handler
           root == RootOf(h)
<1>3. PICK p \in DOMAIN Kind :
         /\ IsPrefix(root, p)
         /\ ResolveUri(redirected.path, root) = Found(p)
         /\ SeenBy(h, request.path) = PathToUri(p, root)
    BY <1>2 DEF FilesInv, FollowedInv, Leads
<1>4. ResolveUri(PathToUri(p, root), root) = Found(p)
  <2>1. IsDir(root)
    BY DEF RootOf
  <2> QED
    BY <1>3, <2>1, RootIsWord, LeadsBack
<1>5. ASSUME handler = h
      PROVE  answer'.kind # "redirect"
  <2>1. uri = PathToUri(p, root)
    BY <1>1, <1>3, <1>5 DEF FilesInv, HandlerInv
  <2>2. Found(p).path = p /\ Found(p).error = None /\ None # "not found"
    BY ErrorsAssumption DEF Found, Errors
  <2> HIDE DEF h, root
  <2>3. answer' = FileAnswer(p, method, 200)
    <3>1. answer' = FilesAnswer(method, PathToUri(p, root), request.path, root)
      BY <1>1, <1>5, <2>1 DEF root
    <3> DEFINE C == PathToUri(p, root)
               result == ResolveUri(C, root)
    <3>2. result.error = None /\ result.path = p /\ ~(result.error = "not found")
      BY <1>4, <2>2
    <3> HIDE DEF result
    <3>3. PathToUri(result.path, root) = C
      BY <3>2
    <3> HIDE DEF C
    <3>4. FilesAnswer(method, C, request.path, root) = FileAnswer(result.path, method, 200)
      BY <3>2, <3>3 DEF FilesAnswer, result
    <3> QED
      BY <3>1, <3>2, <3>4 DEF C
  <2> QED
    BY <2>3 DEF FileAnswer, ErrorAnswer
<1> QED
    BY <1>1, <1>3, <1>4, <1>5 DEF RedirectsOnce

-----------------------------------------------------------------------------
(* What is asked for, decoded to any number of names, is served only from  *)
(* below the root of the handler that the configuration names for it; of a *)
(* directory it is the first index file, and what is elsewhere is so only  *)
(* as the target of an index file that is a link: for any files, links and *)
(* encodings of names.                                                     *)
THEOREM FilesServed ==
    FilesSpec => []ServesWhatIsThere
<1>1. FilesInv => ServesWhatIsThere
    BY DEF FilesInv
<1> QED
    BY <1>1, FilesInvariance, PTL

(* Requests for the locations of redirects are routed and stripped like    *)
(* any other request.                                                      *)
THEOREM RedirectsRouted ==
    FilesSpec => [](RoutedAsConfigured /\ StrippedPath)
<1>1. FilesInv => RoutedAsConfigured /\ StrippedPath
    BY DEF FilesInv, IInv, PathInv, RoutedAsConfigured, StrippedPath
<1> QED
    BY <1>1, FilesInvariance, PTL

(* If roots are directories and the names of files survive being encoded  *)
(* and decoded, a redirect that the client follows to the location it was  *)
(* sent leads to what was asked for, with the prefix in front of it that   *)
(* virtual hosts strip, and ends there.  A client that takes a "?" or "#"  *)
(* in a name for the end of the path goes elsewhere.                       *)
THEOREM RedirectsLeadThere ==
    ASSUME NamesDecodeBack, IsDir(SiteRoot), IsDir(StrippedRoot)
    PROVE  FilesSpec => []RedirectsOnce
<1>1. FilesInit => RedirectsOnce
    BY DEF FilesInit, RedirectsOnce
<1>2. ASSUME FilesInv, RedirectsOnce, [FilesNext]_filesVars
      PROVE  RedirectsOnce'
  <2>1. CASE Configure
    BY <1>2, <2>1 DEF Configure, TakeEntry, PushSubpath, FinishEntry, RedirectsOnce
  <2>2. ASSUME NEW host \in RequestHosts, NEW path \in RequestPaths, Receive(host, path)
        PROVE  RedirectsOnce'
    BY <2>2 DEF Receive, RedirectsOnce
  <2>3. ASSUME NEW method \in Methods, RequestFilter(method)
        PROVE  RedirectsOnce'
    BY <1>2, <2>3, OnceAnswered
  <2>4. CASE Follow
    BY <2>4 DEF Follow, RedirectsOnce
  <2>5. CASE UNCHANGED filesVars
    BY <1>2, <2>5 DEF filesVars, vars, RedirectsOnce
  <2> QED
    BY <1>2, <2>1, <2>2, <2>3, <2>4, <2>5 DEF FilesNext
<1> QED
    BY <1>1, <1>2, FilesInvariance, PTL DEF FilesSpec
=============================================================================
