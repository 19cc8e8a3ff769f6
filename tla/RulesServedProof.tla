---------------------------- MODULE RulesServedProof ----------------------------
(***************************************************************************)
(* Proofs about RulesServed: whatever rules are configured and in whatever *)
(* order hash maps are gone through, a response gets the headers of rules  *)
(* that apply to it only, the more specific ones of a setting later, and   *)
(* those of all rules that apply under the conditions found; its header    *)
(* lines are what these rules make together; and the rewrite rule applied  *)
(* to a request takes precedence over all others that match.               *)
(***************************************************************************)
EXTENDS RulesServed, SequenceLemmas, FiniteSetTheorems, FunctionTheorems

-----------------------------------------------------------------------------
(* The order of paths and matchers.                                        *)

(* Where two paths part: before the end of the first one or at its end.    *)
PartAt(p, q, i) ==
    /\ i \in 1 .. Len(q) /\ i <= Len(p) + 1
    /\ \A j \in 1 .. i - 1 : p[j] = q[j]
    /\ i = Len(p) + 1 \/ p[i] < q[i]

LEMMA PathsPart ==
    ASSUME NEW p \in Words, NEW q \in Words
    PROVE  PathBefore(p, q) <=> \E i \in Nat : PartAt(p, q, i)
<1>1. /\ Len(p) \in Nat /\ Len(q) \in Nat /\ DOMAIN p = 1 .. Len(p) /\ DOMAIN q = 1 .. Len(q)
      /\ \A i \in 1 .. Len(p) : p[i] \in Nat
      /\ \A i \in 1 .. Len(q) : q[i] \in Nat
    BY DEF Words
<1>2. ASSUME IsStrictPrefix(p, q)
      PROVE  PartAt(p, q, Len(p) + 1)
  <2>1. IsPrefix(p, q) /\ p # q
    BY <1>2 DEF IsStrictPrefix
  <2>2. Len(p) <= Len(q) /\ \A i \in 1 .. Len(p) : p[i] = q[i]
    BY <2>1, PrefixIs
  <2>3. Len(p) # Len(q)
    BY <2>1, <2>2, Equal
  <2> DEFINE a == Len(p)
             b == Len(q)
  <2>a. a \in Nat /\ b \in Nat /\ a <= b /\ a # b
    BY <1>1, <2>2, <2>3
  <2> HIDE DEF a, b
  <2>b. a + 1 \in 1 .. b /\ (a + 1) - 1 = a
    BY <2>a
  <2>4. Len(p) + 1 \in 1 .. Len(q) /\ (Len(p) + 1) - 1 = Len(p)
    BY <2>b DEF a, b
  <2> QED
    BY <1>1, <2>2, <2>4 DEF PartAt
<1>3. ASSUME NEW i \in DOMAIN p \intersect DOMAIN q, p[i] < q[i], \A j \in 1 .. i - 1 : p[j] = q[j]
      PROVE  PartAt(p, q, i)
    BY <1>1, <1>3 DEF PartAt
<1>4. ASSUME NEW i \in Nat, PartAt(p, q, i)
      PROVE  PathBefore(p, q)
  <2>1. CASE i = Len(p) + 1
    <3>1. Len(p) <= Len(q) /\ \A j \in 1 .. Len(p) : p[j] = q[j]
      BY <1>1, <1>4, <2>1 DEF PartAt
    <3>2. IsPrefix(p, q) /\ p # q
      BY <1>1, <1>4, <2>1, <3>1, PrefixIs DEF PartAt
    <3> QED
      BY <3>2 DEF PathBefore, IsStrictPrefix
  <2>2. CASE i <= Len(p)
    <3>1. i \in DOMAIN p \intersect DOMAIN q /\ p[i] < q[i] /\ \A j \in 1 .. i - 1 : p[j] = q[j]
      BY <1>1, <1>4, <2>2 DEF PartAt
    <3> QED
      BY <3>1 DEF PathBefore
  <2> QED
    BY <1>1, <1>4, <2>1, <2>2 DEF PartAt
<1>5. ASSUME PathBefore(p, q)
      PROVE  \E i \in Nat : PartAt(p, q, i)
  <2>1. CASE IsStrictPrefix(p, q)
    BY <1>1, <1>2, <2>1
  <2>2. CASE \E i \in DOMAIN p \intersect DOMAIN q :
                 p[i] < q[i] /\ \A j \in 1 .. i - 1 : p[j] = q[j]
    <3>1. PICK i \in DOMAIN p \intersect DOMAIN q :
                 p[i] < q[i] /\ \A j \in 1 .. i - 1 : p[j] = q[j]
      BY <2>2
    <3> QED
      BY <1>1, <1>3, <3>1
  <2> QED
    BY <1>5, <2>1, <2>2 DEF PathBefore
<1> QED
    BY <1>4, <1>5

LEMMA PathOrder ==
    /\ \A p \in Words : ~PathBefore(p, p)
    /\ \A p, q, r \in Words : PathBefore(p, q) /\ PathBefore(q, r) => PathBefore(p, r)
    /\ \A p, q \in Words : p = q \/ PathBefore(p, q) \/ PathBefore(q, p)
    /\ \A p, q \in Words : IsPrefix(p, q) => p = q \/ PathBefore(p, q)
<1>0. \A p \in Words : Len(p) \in Nat /\ \A i \in 1 .. Len(p) : p[i] \in Nat
    BY DEF Words
<1>1. ASSUME NEW p \in Words, PathBefore(p, p) PROVE FALSE
  <2>1. PICK i \in Nat : PartAt(p, p, i)
    BY <1>1, PathsPart
  <2> QED
    BY <1>0, <2>1 DEF PartAt
<1>2. ASSUME NEW p \in Words, NEW q \in Words, NEW r \in Words,
             PathBefore(p, q), PathBefore(q, r)
      PROVE  PathBefore(p, r)
  <2>1. PICK i \in Nat : PartAt(p, q, i)
    BY <1>2, PathsPart
  <2>2. PICK k \in Nat : PartAt(q, r, k)
    BY <1>2, PathsPart
  <2>3. /\ Len(p) \in Nat /\ Len(q) \in Nat /\ Len(r) \in Nat
        /\ \A j \in 1 .. Len(p) : p[j] \in Nat
        /\ \A j \in 1 .. Len(q) : q[j] \in Nat
        /\ \A j \in 1 .. Len(r) : r[j] \in Nat
    BY <1>0
  <2>4. CASE i <= k
    <3>1. PartAt(p, r, i)
      <4>1. i \in 1 .. Len(r) /\ i <= Len(p) + 1
        BY <2>1, <2>2, <2>3, <2>4 DEF PartAt
      <4>2. \A j \in 1 .. i - 1 : p[j] = r[j]
        <5> TAKE j \in 1 .. i - 1
        <5>1. p[j] = q[j]
          BY <2>1 DEF PartAt
        <5>2. j \in 1 .. k - 1
          BY <2>4
        <5>3. q[j] = r[j]
          BY <2>2, <5>2 DEF PartAt
        <5> QED
          BY <5>1, <5>3
      <4>3. i = Len(p) + 1 \/ p[i] < r[i]
        <5>1. CASE i = k
          BY <2>1, <2>2, <2>3, <4>1, <5>1 DEF PartAt
        <5>2. CASE i < k
          <6>1. i \in 1 .. k - 1
            BY <4>1, <5>2
          <6>2. q[i] = r[i]
            BY <2>2, <6>1 DEF PartAt
          <6> QED
            BY <2>1, <6>2 DEF PartAt
        <5> QED
          BY <2>4, <5>1, <5>2
      <4> QED
        BY <4>1, <4>2, <4>3 DEF PartAt
    <3> QED
      BY <3>1, PathsPart
  <2>5. CASE k < i
    <3>1. PartAt(p, r, k)
      <4>1. k \in 1 .. Len(r) /\ k <= Len(p) /\ k <= Len(q) /\ k \in 1 .. i - 1
        BY <2>1, <2>2, <2>3, <2>5 DEF PartAt
      <4>2. \A j \in 1 .. k - 1 : p[j] = r[j]
        <5> TAKE j \in 1 .. k - 1
        <5>1. q[j] = r[j]
          BY <2>2 DEF PartAt
        <5>2. j \in 1 .. i - 1
          BY <2>5
        <5>3. p[j] = q[j]
          BY <2>1, <5>2 DEF PartAt
        <5> QED
          BY <5>1, <5>3
      <4>3. p[k] = q[k]
        BY <2>1, <4>1 DEF PartAt
      <4>4. k # Len(q) + 1
        BY <2>3, <4>1
      <4>5. q[k] < r[k]
        BY <2>2, <4>4 DEF PartAt
      <4> QED
        BY <2>3, <4>1, <4>2, <4>3, <4>5 DEF PartAt
    <3> QED
      BY <3>1, PathsPart
  <2> QED
    BY <2>4, <2>5
<1>3. ASSUME NEW p \in Words, NEW q \in Words, p # q
      PROVE  PathBefore(p, q) \/ PathBefore(q, p)
  <2> DEFINE Apart == {i \in Nat : i > 0 /\ (i > Len(p) \/ i > Len(q) \/ p[i] # q[i])}
  <2>1. /\ Len(p) \in Nat /\ Len(q) \in Nat
        /\ \A j \in 1 .. Len(p) : p[j] \in Nat
        /\ \A j \in 1 .. Len(q) : q[j] \in Nat
    BY <1>0
  <2>2. Len(p) + 1 \in Apart
    BY <2>1
  <2>3. PICK i \in Apart : \A m \in Apart : ~(m < i)
    <3>1. Apart \in SUBSET Nat /\ Apart # {}
      BY <2>2
    <3> HIDE DEF Apart
    <3> QED
      BY <3>1, LeastNumber
  <2>4. i \in Nat /\ i > 0 /\ (i > Len(p) \/ i > Len(q) \/ p[i] # q[i])
    OBVIOUS
  <2>5. \A j \in 1 .. i - 1 : j <= Len(p) /\ j <= Len(q) /\ p[j] = q[j]
    <3> TAKE j \in 1 .. i - 1
    <3>1. j \in Nat /\ j > 0 /\ j < i
      BY <2>4
    <3>2. j \notin Apart
      BY <2>3, <3>1
    <3> QED
      BY <2>1, <3>1, <3>2
  <2> HIDE DEF Apart
  <2>6. i <= Len(p) + 1 /\ i <= Len(q) + 1
    <3>1. CASE i = 1
      BY <2>1, <3>1
    <3>2. CASE i > 1
      <4>1. i - 1 \in 1 .. i - 1
        BY <2>4, <3>2
      <4>2. i - 1 <= Len(p) /\ i - 1 <= Len(q)
        BY <2>5, <4>1
      <4> QED
        BY <2>1, <2>4, <4>2
    <3> QED
      BY <2>4, <3>1, <3>2
  <2>7. CASE i = Len(p) + 1 /\ i = Len(q) + 1
    <3>1. Len(p) = Len(q) /\ \A j \in 1 .. Len(p) : p[j] = q[j]
      BY <2>1, <2>5, <2>7
    <3> QED
      BY <1>3, <3>1, Equal
  <2>8. CASE i <= Len(q) /\ i = Len(p) + 1
    <3>1. PartAt(p, q, i)
      BY <2>1, <2>4, <2>5, <2>8 DEF PartAt
    <3> QED
      BY <2>4, <3>1, PathsPart
  <2>9. CASE i <= Len(p) /\ i = Len(q) + 1
    <3>1. PartAt(q, p, i)
      BY <2>1, <2>4, <2>5, <2>9 DEF PartAt
    <3> QED
      BY <2>4, <3>1, PathsPart
  <2>10. CASE i <= Len(p) /\ i <= Len(q)
    <3>1. p[i] \in Nat /\ q[i] \in Nat /\ p[i] # q[i]
      BY <2>1, <2>4, <2>10
    <3>2. PartAt(p, q, i) \/ PartAt(q, p, i)
      BY <2>1, <2>4, <2>5, <2>10, <3>1 DEF PartAt
    <3> QED
      BY <2>4, <3>2, PathsPart
  <2> QED
    BY <2>1, <2>4, <2>6, <2>7, <2>8, <2>9, <2>10
<1>4. ASSUME NEW p \in Words, NEW q \in Words, IsPrefix(p, q), p # q
      PROVE  PathBefore(p, q)
    BY <1>4 DEF PathBefore, IsStrictPrefix
<1> QED
    BY <1>1, <1>2, <1>3, <1>4

(* Matchers for the same host are totally ordered.                         *)
MatchersFor(h) == {m \in Matchers : m.host \in {FallbackHost, h}}

LEMMA MatcherOrder ==
    /\ \A m \in Matchers : ~MatcherBefore(m, m)
    /\ \A k, m, n \in Matchers :
           MatcherBefore(k, m) /\ MatcherBefore(m, n) => MatcherBefore(k, n)
    /\ \A h : \A m, n \in MatchersFor(h) :
           m = n \/ MatcherBefore(m, n) \/ MatcherBefore(n, m)
<1>1. \A m \in Matchers : /\ m.path \in Words /\ m.exact \in BOOLEAN
                          /\ m = [host |-> m.host, path |-> m.path, exact |-> m.exact]
    BY DEF Matchers, Words
<1>2. ASSUME NEW m \in Matchers PROVE ~MatcherBefore(m, m)
    BY <1>1, PathOrder DEF MatcherBefore
<1>3. ASSUME NEW k \in Matchers, NEW m \in Matchers, NEW n \in Matchers,
             MatcherBefore(k, m), MatcherBefore(m, n)
      PROVE  MatcherBefore(k, n)
    BY <1>1, <1>3, PathOrder DEF MatcherBefore
<1>4. ASSUME NEW h, NEW m \in MatchersFor(h), NEW n \in MatchersFor(h), m # n
      PROVE  MatcherBefore(m, n) \/ MatcherBefore(n, m)
  <2>1. /\ m \in Matchers /\ n \in Matchers
        /\ m.host \in {FallbackHost, h} /\ n.host \in {FallbackHost, h}
    BY DEF MatchersFor
  <2>2. m.host # n.host \/ m.path # n.path \/ m.exact # n.exact
    BY <1>1, <1>4, <2>1
  <2> QED
    BY <1>1, <2>1, <2>2, PathOrder DEF MatcherBefore
<1> QED
    BY <1>2, <1>3, <1>4

(* The best of some matchers of a list.                                    *)
LEMMA BestOne ==
    ASSUME NEW l \in Seq(Matchers), NEW C \in SUBSET Range(l), C # {}
    PROVE  Best(C) \in C /\ \A n \in C : ~MatcherBefore(Best(C), n)
<1> DEFINE Less == {x \in Matchers \X Matchers : MatcherBefore(x[1], x[2])}
<1>1. \A m, n \in Matchers : <<m, n>> \in Less <=> MatcherBefore(m, n)
    OBVIOUS
<1> HIDE DEF Less
<1>2. \E x \in C : \A y \in C : <<x, y>> \notin Less
  <2>1. /\ \A x \in Matchers : <<x, x>> \notin Less
        /\ \A x, y, z \in Matchers : <<x, y>> \in Less /\ <<y, z>> \in Less => <<x, z>> \in Less
    BY <1>1, MatcherOrder
  <2> DEFINE S == Matchers
  <2>2. l \in Seq(S) /\ \A x \in S : <<x, x>> \notin Less
    BY <2>1
  <2>3. \A x, y, z \in S : <<x, y>> \in Less /\ <<y, z>> \in Less => <<x, z>> \in Less
    BY <2>1
  <2> HIDE DEF S
  <2> QED
    BY <2>2, <2>3, MaximalElement
<1>3. C \subseteq Matchers
    BY RangeOfList
<1>4. \E m \in C : \A n \in C : ~MatcherBefore(m, n)
    BY <1>1, <1>2, <1>3
<1> QED
    BY <1>4 DEF Best

-----------------------------------------------------------------------------
(* What the callback of the mergers makes of a list.                       *)

(* Elements of an entry of a host, with values of some kind.               *)
SortedBy(S, h, V) ==
    \A e \in S : e.sorter \in MatchersFor(h) /\ e.conf \in Seq(V)

LessBy(S) == {x \in S \X S : MatcherBefore(x[1].sorter, x[2].sorter)}

LEMMA SorterOrder ==
    ASSUME NEW S, NEW h, NEW V, SortedBy(S, h, V)
    PROVE  /\ WeakOrder(LessBy(S), S)
           /\ \A e, f \in S : <<e, f>> \in LessBy(S) <=> MatcherBefore(e.sorter, f.sorter)
<1>1. \A e, f \in S : <<e, f>> \in LessBy(S) <=> MatcherBefore(e.sorter, f.sorter)
    BY DEF LessBy
<1>2. \A e \in S : e.sorter \in MatchersFor(h) /\ e.sorter \in Matchers
    BY DEF SortedBy, MatchersFor
<1>3. LessBy(S) \subseteq S \X S
    BY DEF LessBy
<1>4. \A e \in S : <<e, e>> \notin LessBy(S)
    BY <1>1, <1>2, MatcherOrder
<1>5. \A x, y, z \in S : <<x, y>> \in LessBy(S) /\ <<y, z>> \in LessBy(S) => <<x, z>> \in LessBy(S)
    BY <1>1, <1>2, MatcherOrder
<1>6. \A x, y, z \in S : <<x, z>> \in LessBy(S) => <<x, y>> \in LessBy(S) \/ <<y, z>> \in LessBy(S)
  <2> TAKE x, y, z \in S
  <2>1. x.sorter = y.sorter \/ MatcherBefore(x.sorter, y.sorter) \/ MatcherBefore(y.sorter, x.sorter)
    BY <1>2, MatcherOrder
  <2> QED
    BY <1>1, <1>2, <2>1, MatcherOrder
<1> QED
    BY <1>1, <1>3, <1>4, <1>5, <1>6 DEF WeakOrder

LEMMA SortedIs ==
    ASSUME NEW l
    PROVE  Rules!Sorted(l) = StableSort(l, LessBy(Range(l)))
<1>1. \A m, C : Rules!Selected(m, C) = Selected(m, C)
    BY DEF Rules!Selected, Selected
<1>2. \A m, e, L : Rules!Insertion(m, e, L) = Insertion(m, e, L)
    BY <1>1 DEF Rules!Insertion, Insertion, Rules!Range, Range
<1>3. \A m, L : Rules!StableSort(m, L) = StableSort(m, L)
    BY <1>2 DEF Rules!StableSort, StableSort
<1> QED
    BY <1>3 DEF Rules!Sorted, Rules!Range, Range, LessBy

(* All values, those of a more specific element later; those of elements   *)
(* with the same matcher in their order.                                   *)
LEMMA JoinOf ==
    ASSUME NEW S, NEW h, NEW V, SortedBy(S, h, V), NEW l \in Seq(S)
    PROVE  /\ Rules!Join(l) \in Seq(V)
           /\ \A x : x \in Range(Rules!Join(l)) <=> \E e \in Range(l) : x \in Range(e.conf)
           /\ \A x, y : Ahead(Rules!Join(l), x, y) <=>
                  \/ \E e \in Range(l) : Ahead(e.conf, x, y)
                  \/ \E e, f \in Range(l) :
                        /\ \/ MatcherBefore(e.sorter, f.sorter)
                           \/ ~MatcherBefore(f.sorter, e.sorter) /\ Ahead(l, e, f)
                        /\ x \in Range(e.conf) /\ y \in Range(f.conf)
<1> DEFINE T == Range(l)
           confs == ConfsOf(Rules!Sorted(l))
           Prior(e, g) == <<e, g>> \in LessBy(T) \/ (<<g, e>> \notin LessBy(T) /\ Ahead(l, e, g))
           Ranked(e, g) == \/ MatcherBefore(e.sorter, g.sorter)
                           \/ ~MatcherBefore(g.sorter, e.sorter) /\ Ahead(l, e, g)
<1>1. /\ Rules!Sorted(l) = StableSort(l, LessBy(T))
      /\ l \in Seq(T) /\ SortedBy(T, h, V)
  <2>1. \A e \in T : e \in S
    BY RangeOfList
  <2>2. l \in Seq(T)
    BY RangeOfList
  <2> QED
    BY <2>1, <2>2, SortedIs DEF SortedBy
<1>2. Rules!Join(l) = Flatten(confs)
    BY DEF Rules!Join, Rules!Joined, Rules!Flatten, Flatten, ConfsOf
<1>3. JoinedBy(Flatten(confs), l, LessBy(T), V)
  <2>1. \A e \in T : e.conf \in Seq(V)
    BY <1>1 DEF SortedBy
  <2> QED
    BY <1>1, <2>1, SorterOrder, JoinedList
<1>4. \A e, g \in Range(l) : <<e, g>> \in LessBy(T) <=> MatcherBefore(e.sorter, g.sorter)
    BY <1>1, SorterOrder
<1> HIDE DEF confs
<1>5. /\ Flatten(confs) \in Seq(V)
      /\ \A x : x \in Range(Flatten(confs)) <=> \E e \in Range(l) : x \in Range(e.conf)
      /\ \A x, y : Ahead(Flatten(confs), x, y) <=>
            \/ \E e \in Range(l) : Ahead(e.conf, x, y)
            \/ \E e, g \in Range(l) :
                  Prior(e, g) /\ x \in Range(e.conf) /\ y \in Range(g.conf)
    BY <1>3 DEF JoinedBy
<1>6. \A e, g \in Range(l) : Prior(e, g) <=> Ranked(e, g)
    BY <1>4
<1> HIDE DEF Prior, Ranked
<1>7. ASSUME NEW x, NEW y
      PROVE  (\E e, g \in Range(l) :
                  Prior(e, g) /\ x \in Range(e.conf) /\ y \in Range(g.conf)) <=>
             (\E e, g \in Range(l) :
                  Ranked(e, g) /\ x \in Range(e.conf) /\ y \in Range(g.conf))
    BY <1>6
<1>8. \A x, y : Ahead(Flatten(confs), x, y) <=>
            \/ \E e \in Range(l) : Ahead(e.conf, x, y)
            \/ \E e, g \in Range(l) :
                  Ranked(e, g) /\ x \in Range(e.conf) /\ y \in Range(g.conf)
    BY <1>5, <1>7
<1> QED
    BY <1>2, <1>5, <1>8 DEF Ranked

LEMMA SameJoin ==
    ASSUME NEW l
    PROVE  /\ Strict!Join(l) = Rules!Join(l)
           /\ \A C : Rules!Selected(l, C) = Selected(l, C) /\ Strict!Selected(l, C) = Selected(l, C)
<1>1. \A m, C : Rules!Selected(m, C) = Selected(m, C) /\ Strict!Selected(m, C) = Selected(m, C)
    BY DEF Rules!Selected, Selected, Strict!Selected
<1>2. \A m, e, L : Strict!Insertion(m, e, L) = Rules!Insertion(m, e, L)
    BY <1>1 DEF Rules!Insertion, Strict!Insertion, Rules!Range, Strict!Range
<1>3. \A m, L : Strict!StableSort(m, L) = Rules!StableSort(m, L)
    BY <1>2 DEF Strict!StableSort, Rules!StableSort
<1>a. Strict!Sorted(l) = Rules!Sorted(l)
    BY <1>3 DEF Strict!Sorted, Rules!Sorted, Rules!Range, Strict!Range
<1>4. \A m : Strict!Joined(m) = Rules!Joined(m)
    BY DEF Strict!Joined, Rules!Joined, Strict!Flatten, Rules!Flatten
<1> QED
    BY <1>1, <1>a, <1>4 DEF Strict!Join, Rules!Join

-----------------------------------------------------------------------------
(* What a matching rule says about the documented meaning.                 *)

RuleShape(rule) == rule.include \in Seq(Matchers) /\ rule.exclude \in Seq(Matchers)

LEMMA MatcherIs ==
    ASSUME NEW m \in Matchers, NEW h, NEW key \in Words
    PROVE  /\ MatcherMatches(m, h, key).any <=> Covers(m, h, key)
           /\ MatcherMatches(m, h, key).prefix <=>
                  m.host \in {FallbackHost, h} /\ ~m.exact /\ IsPrefix(m.path, key)
           /\ MatcherMatches(m, h, key).any => MatcherMatches(m, h, key).sorter = m
           /\ MatcherMatches(m, h, key).prefix => MatcherMatches(m, h, key).any
           /\ Covers(m, h, key) => m \in MatchersFor(h) /\ IsPrefix(m.path, key)
<1>1. m.path \in Words /\ m.exact \in BOOLEAN
    BY DEF Matchers, Words
<1>2. m.path = key => IsPrefix(m.path, key)
    BY <1>1, PrefixOrder
<1>3. Covers(m, h, key) <=> /\ m.host \in {FallbackHost, h}
                            /\ m.path = key \/ (~m.exact /\ IsPrefix(m.path, key))
    BY <1>1, <1>2 DEF Covers
<1>4. CASE m.host \notin {FallbackHost, h}
    BY <1>3, <1>4 DEF MatcherMatches, NoMatch
<1>5. CASE m.host \in {FallbackHost, h}
  <2>1. CASE m.path = key \/ (~m.exact /\ IsPrefix(m.path, key))
    <3>1. MatcherMatches(m, h, key) =
              [any |-> TRUE, exact |-> (m.path = key),
               prefix |-> (~m.exact /\ IsPrefix(m.path, key)), sorter |-> m]
      BY <1>5, <2>1 DEF MatcherMatches, Match
    <3>2. /\ MatcherMatches(m, h, key).any
          /\ MatcherMatches(m, h, key).sorter = m
          /\ MatcherMatches(m, h, key).prefix = (~m.exact /\ IsPrefix(m.path, key))
      BY <3>1
    <3>3. Covers(m, h, key) /\ m \in MatchersFor(h) /\ IsPrefix(m.path, key)
      BY <1>2, <1>3, <1>5, <2>1 DEF MatchersFor
    <3> QED
      BY <1>5, <3>2, <3>3
  <2>2. CASE ~(m.path = key \/ (~m.exact /\ IsPrefix(m.path, key)))
    <3>1. MatcherMatches(m, h, key) = NoMatch
      BY <1>5, <2>2 DEF MatcherMatches, Match
    <3> QED
      BY <1>3, <2>2, <3>1 DEF NoMatch
  <2> QED
    BY <2>1, <2>2
<1> QED
    BY <1>4, <1>5

LEMMA SpecificIs ==
    ASSUME NEW h, NEW key \in Words, NEW m \in Matchers, NEW n \in Matchers,
           Covers(m, h, key), Covers(n, h, key)
    PROVE  MoreSpecific(m, n) <=> MatcherBefore(n, m)
<1>1. /\ m.path \in Words /\ m.exact \in BOOLEAN /\ n.path \in Words /\ n.exact \in BOOLEAN
      /\ IsPrefix(m.path, key) /\ IsPrefix(n.path, key)
      /\ Len(m.path) \in Nat /\ Len(n.path) \in Nat
    BY MatcherIs DEF Matchers, Words
<1>2. m.host \in {FallbackHost, h} /\ n.host \in {FallbackHost, h}
    BY DEF Covers
<1>3. Len(m.path) > Len(n.path) <=> PathBefore(n.path, m.path)
  <2>1. ASSUME Len(m.path) > Len(n.path) PROVE PathBefore(n.path, m.path)
    <3>1. IsPrefix(n.path, m.path)
      BY <1>1, <2>1, PrefixFacts
    <3>2. n.path # m.path
      BY <1>1, <2>1
    <3> QED
      BY <1>1, <3>1, <3>2, PathOrder
  <2>2. ASSUME PathBefore(n.path, m.path), ~(Len(m.path) > Len(n.path)) PROVE FALSE
    <3>1. Len(m.path) <= Len(n.path)
      BY <1>1, <2>2
    <3>2. IsPrefix(m.path, n.path)
      BY <1>1, <3>1, PrefixFacts
    <3>3. m.path = n.path \/ PathBefore(m.path, n.path)
      BY <1>1, <3>2, PathOrder
    <3> QED
      BY <1>1, <2>2, <3>3, PathOrder
  <2> QED
    BY <2>1, <2>2
<1> QED
    BY <1>1, <1>2, <1>3 DEF MoreSpecific, MatcherBefore

IncludeList(rule) == IF rule.include = <<>> THEN <<Fallback>> ELSE rule.include

LEMMA FallbackIs ==
    /\ Fallback \in Matchers /\ Fallback.path = <<>> /\ ~Fallback.exact
    /\ \A h : Fallback \in MatchersFor(h)
    /\ \A h : \A key \in Words : Covers(Fallback, h, key)
<1>1. Fallback \in Matchers /\ Fallback.path = <<>> /\ ~Fallback.exact /\ Fallback.host = FallbackHost
  <2>a. FallbackHost \in STRING \union {FallbackHost}
    OBVIOUS
  <2>b. <<>> \in Seq(Nat)
    OBVIOUS
  <2>1. <<>> \in Seq(Nat) /\ FallbackHost \in STRING \union {FallbackHost}
    BY <2>a, <2>b
  <2>2. Fallback = [host |-> FallbackHost, path |-> <<>>, exact |-> FALSE]
    BY DEF Fallback, Matcher
  <2> QED
    BY <2>1, <2>2 DEF Matchers
<1>2. \A key \in Words : IsPrefix(<<>>, key)
    BY PrefixOrder
<1> QED
    BY <1>1, <1>2 DEF Covers, MatchersFor

LEMMA RuleLists ==
    ASSUME NEW rule, RuleShape(rule), NEW h, NEW key \in Words
    PROVE  /\ IncludeList(rule) \in Seq(Matchers)
           /\ Included(rule, h, key) \in SUBSET Range(IncludeList(rule))
           /\ Excluded(rule, h, key) \in SUBSET Range(rule.exclude)
           /\ \A m \in Included(rule, h, key) \union Excluded(rule, h, key) :
                  m \in MatchersFor(h) /\ m \in Matchers /\ Covers(m, h, key)
           /\ Found(rule.exclude, h, key) = Excluded(rule, h, key)
           /\ rule.include # <<>> => Found(rule.include, h, key) = Included(rule, h, key)
           /\ rule.include = <<>> => /\ Found(rule.include, h, key) = {}
                                     /\ Included(rule, h, key) = {Fallback}
           /\ rule.exclude = <<>> => Excluded(rule, h, key) = {}
<1>1. IncludeList(rule) \in Seq(Matchers)
  <2>1. <<Fallback>> \in Seq(Matchers)
    BY FallbackIs
  <2> QED
    BY <2>1 DEF IncludeList, RuleShape
<1>2. /\ Included(rule, h, key) = {m \in Range(IncludeList(rule)) : Covers(m, h, key)}
      /\ Excluded(rule, h, key) = {m \in Range(rule.exclude) : Covers(m, h, key)}
    BY DEF Included, Excluded, IncludeList
<1>3. \A m \in Range(IncludeList(rule)) \union Range(rule.exclude) : m \in Matchers
    BY <1>1, RangeOfList DEF RuleShape
<1>4. \A m \in Included(rule, h, key) \union Excluded(rule, h, key) :
          m \in MatchersFor(h) /\ m \in Matchers /\ Covers(m, h, key)
    BY <1>2, <1>3, MatcherIs
<1>5. Found(rule.exclude, h, key) = Excluded(rule, h, key)
    BY <1>2, <1>3, MatcherIs DEF Found
<1>6. ASSUME rule.include # <<>>
      PROVE  Found(rule.include, h, key) = Included(rule, h, key)
  <2>1. IncludeList(rule) = rule.include
    BY <1>6 DEF IncludeList
  <2> QED
    BY <1>2, <1>3, <2>1, MatcherIs DEF Found
<1>7. ASSUME rule.include = <<>>
      PROVE  /\ Found(rule.include, h, key) = {}
             /\ Included(rule, h, key) = {Fallback}
  <2>1. IncludeList(rule) = <<Fallback>>
    BY <1>7 DEF IncludeList
  <2>2. Range(<<Fallback>>) = {Fallback}
    BY DEF Range
  <2>3. Included(rule, h, key) = {Fallback}
    BY <1>2, <2>1, <2>2, FallbackIs
  <2> QED
    BY <1>7, <2>3, EmptyList DEF Found
<1>8. rule.exclude = <<>> => Excluded(rule, h, key) = {}
    BY <1>2, EmptyList
<1> QED
    BY <1>1, <1>2, <1>4, <1>5, <1>6, <1>7, <1>8

(* How a rule applies: its best include is more specific than the best     *)
(* exclude.                                                                *)
LEMMA AppliesIs ==
    ASSUME NEW rule, RuleShape(rule), NEW h, NEW key \in Words
    PROVE  Applies(rule, h, key) <=>
               /\ Included(rule, h, key) # {}
               /\ Excluded(rule, h, key) = {} \/
                     MatcherBefore(Best(Excluded(rule, h, key)), Best(Included(rule, h, key)))
<1> DEFINE I == Included(rule, h, key)
           E == Excluded(rule, h, key)
<1>1. /\ I # {} => Best(I) \in I /\ \A m \in I : ~MatcherBefore(Best(I), m)
      /\ E # {} => Best(E) \in E /\ \A m \in E : ~MatcherBefore(Best(E), m)
    BY RuleLists, BestOne DEF RuleShape
<1>2. \A m \in I \union E : m \in MatchersFor(h) /\ m \in Matchers /\ Covers(m, h, key)
    BY RuleLists
<1>3. Applies(rule, h, key) <=> \E m \in I : \A n \in E : MoreSpecific(m, n)
    BY DEF Applies
<1> HIDE DEF I, E
<1>4. Applies(rule, h, key) <=> \E m \in I : \A n \in E : MatcherBefore(n, m)
    BY <1>2, <1>3, SpecificIs
<1>5. ASSUME NEW m \in I, \A n \in E : MatcherBefore(n, m), E # {}
      PROVE  MatcherBefore(Best(E), Best(I))
  <2>1. Best(I) \in I /\ Best(E) \in E /\ MatcherBefore(Best(E), m) /\ ~MatcherBefore(Best(I), m)
    BY <1>1, <1>5
  <2>2. m = Best(I) \/ MatcherBefore(m, Best(I))
    BY <1>2, <2>1, MatcherOrder
  <2> QED
    BY <1>2, <2>1, <2>2, MatcherOrder
<1>6. ASSUME I # {}, E # {}, MatcherBefore(Best(E), Best(I)), NEW n \in E
      PROVE  MatcherBefore(n, Best(I))
  <2>1. Best(I) \in I /\ Best(E) \in E /\ ~MatcherBefore(Best(E), n)
    BY <1>1, <1>6
  <2>2. n = Best(E) \/ MatcherBefore(n, Best(E))
    BY <1>2, <2>1, MatcherOrder
  <2> QED
    BY <1>2, <1>6, <2>1, <2>2, MatcherOrder
<1>7. Applies(rule, h, key) <=> I # {} /\ (E = {} \/ MatcherBefore(Best(E), Best(I)))
    BY <1>1, <1>4, <1>5, <1>6
<1> QED
    BY <1>7 DEF I, E

(* Match results of a rule.                                                *)
LEMMA RuleMatchIs ==
    ASSUME NEW rule, RuleShape(rule), NEW h, NEW key \in Words, NEW force
    PROVE  /\ RuleMatches(rule, h, key, force).any =>
                  /\ Applies(rule, h, key)
                  /\ Included(rule, h, key) # {}
                  /\ RuleMatches(rule, h, key, force).sorter = Best(Included(rule, h, key))
           /\ RuleMatches(rule, h, key, force).prefix =>
                  /\ RuleMatches(rule, h, key, force).any
                  /\ ~Best(Included(rule, h, key)).exact
           /\ (rule.include = <<>> => rule.exclude = <<>>) =>
                  /\ Applies(rule, h, key) => RuleMatches(rule, h, key, force).any
                  /\ Applies(rule, h, key) /\ ~Best(Included(rule, h, key)).exact
                         => RuleMatches(rule, h, key, force).prefix
           /\ RuleMatches(rule, h, key, force) = RuleMatches(rule, h, key, FALSE)
<1> DEFINE I == Included(rule, h, key)
           E == Excluded(rule, h, key)
           r == RuleMatches(rule, h, key, force)
<1>1. I # {} => Best(I) \in I /\ Best(I) \in Matchers /\ Covers(Best(I), h, key)
    BY RuleLists, BestOne
<1>2. CASE Unrestricted(rule)
  <2>1. r = [any |-> TRUE, exact |-> (key = <<>>), prefix |-> TRUE, sorter |-> Fallback]
    BY <1>2 DEF RuleMatches, Match
  <2>2. I = {Fallback} /\ E = {}
    BY <1>2, RuleLists DEF Unrestricted
  <2>3. Best(I) = Fallback /\ ~Fallback.exact
    <3>1. Best(I) \in I
      BY <1>1, <2>2
    <3> QED
      BY <2>2, <3>1, FallbackIs
  <2>4. Applies(rule, h, key)
    BY <2>2, AppliesIs
  <2>5. r = RuleMatches(rule, h, key, FALSE)
    BY <1>2 DEF RuleMatches
  <2> HIDE DEF r, I
  <2>6. r.any /\ r.prefix /\ r.sorter = Best(I) /\ I # {} /\ ~Best(I).exact
    BY <2>1, <2>2, <2>3
  <2> QED
    BY <2>4, <2>5, <2>6 DEF r, I
<1>3. CASE ~Unrestricted(rule) /\ rule.include = <<>>
  <2>1. r = NoMatch
    BY <1>3, RuleLists DEF RuleMatches
  <2>2. r = RuleMatches(rule, h, key, FALSE)
    BY <1>3, <2>1, RuleLists DEF RuleMatches
  <2>3. rule.exclude # <<>>
    BY <1>3 DEF Unrestricted
  <2> HIDE DEF r, I
  <2>4. ~r.any /\ ~r.prefix
    BY <2>1 DEF NoMatch
  <2> QED
    BY <1>3, <2>2, <2>3, <2>4 DEF r
<1>4. CASE rule.include # <<>>
  <2>0. ~Unrestricted(rule)
    BY <1>4 DEF Unrestricted
  <2>1. Found(rule.include, h, key) = I /\ Found(rule.exclude, h, key) = E
    BY <1>4, RuleLists
  <2>2. r = IF I = {} \/ (E # {} /\ ~MatcherBefore(Best(E), Best(I))) THEN NoMatch
            ELSE MatcherMatches(Best(I), h, key)
    BY <2>0, <2>1 DEF RuleMatches
  <2>3. r = RuleMatches(rule, h, key, FALSE)
    BY <2>0 DEF RuleMatches
  <2>4. Applies(rule, h, key) <=> I # {} /\ (E = {} \/ MatcherBefore(Best(E), Best(I)))
    BY AppliesIs
  <2> HIDE DEF r, I, E
  <2>5. CASE Applies(rule, h, key)
    <3>1. r = MatcherMatches(Best(I), h, key) /\ I # {}
      BY <2>2, <2>4, <2>5
    <3>2. r.any /\ r.sorter = Best(I)
      BY <1>1, <3>1, MatcherIs
    <3>3. r.prefix <=> ~Best(I).exact
      BY <1>1, <3>1, MatcherIs DEF Covers
    <3> QED
      BY <2>3, <2>5, <3>1, <3>2, <3>3 DEF r, I
  <2>6. CASE ~Applies(rule, h, key)
    <3>1. ~r.any /\ ~r.prefix
      BY <2>2, <2>4, <2>6 DEF NoMatch
    <3> QED
      BY <2>3, <2>6, <3>1 DEF r
  <2> QED
    BY <2>5, <2>6
<1> QED
    BY <1>2, <1>3, <1>4

-----------------------------------------------------------------------------
(* Locations of a rule, and what holds between them.                       *)

Places == (STRING \union {FallbackHost}) \X Words

LEMMA RuleLocated ==
    ASSUME NEW rule, RuleShape(rule)
    PROVE  /\ RuleLocations(rule) \in Seq(Places)
           /\ \A m \in Range(rule.include) \union Range(rule.exclude) :
                  <<m.host, m.path>> \in Range(RuleLocations(rule))
           /\ Unrestricted(rule) => <<FallbackHost, <<>>>> \in Range(RuleLocations(rule))
           /\ \A e \in Range(RuleLocations(rule)) :
                  \/ e[1] = FallbackHost
                  \/ \E m \in Range(rule.include) \union Range(rule.exclude) : e[1] = m.host
<1>1. CASE Unrestricted(rule)
  <2>1. RuleLocations(rule) = <<<<FallbackHost, <<>>>>>>
    BY <1>1 DEF RuleLocations
  <2>2. <<FallbackHost, <<>>>> \in Places
    BY PrefixFacts DEF Places
  <2> DEFINE place == <<FallbackHost, <<>>>>
  <2> HIDE DEF place
  <2>3. <<place>> \in Seq(Places) /\ Range(<<place>>) = {place}
    <3>1. place \in Places
      BY <2>2 DEF place
    <3>2. /\ DOMAIN <<place>> = {1} /\ <<place>>[1] = place
      OBVIOUS
    <3> QED
      BY <3>1, <3>2 DEF Range
  <2>4. Range(rule.include) = {} /\ Range(rule.exclude) = {}
    BY <1>1, EmptyList DEF Unrestricted
  <2>5. place[1] = FallbackHost
    BY DEF place
  <2>6. RuleLocations(rule) = <<place>>
    BY <2>1 DEF place
  <2> QED
    BY <2>3, <2>4, <2>5, <2>6 DEF place
<1>2. CASE ~Unrestricted(rule)
  <2> DEFINE ms == rule.include \o rule.exclude
             ls == RuleLocations(rule)
  <2>1. ls = [i \in DOMAIN ms |-> <<ms[i].host, ms[i].path>>]
    BY <1>2 DEF RuleLocations
  <2>2. ms \in Seq(Matchers) /\ Range(ms) = Range(rule.include) \union Range(rule.exclude)
    BY JoinedLists DEF RuleShape
  <2> HIDE DEF ms, ls
  <2>3. Len(ms) \in Nat /\ DOMAIN ms = 1 .. Len(ms) /\ \A i \in 1 .. Len(ms) : ms[i] \in Matchers
    BY <2>2
  <2>4. \A m \in Matchers : <<m.host, m.path>> \in Places
    BY DEF Matchers, Places, Words
  <2>5. \A i \in 1 .. Len(ms) : <<ms[i].host, ms[i].path>> \in Places
    BY <2>3, <2>4
  <2>6. ls \in [1 .. Len(ms) -> Places]
    BY <2>1, <2>3, <2>5
  <2>7. ls \in Seq(Places) /\ DOMAIN ls = DOMAIN ms
    BY <2>3, <2>6
  <2>8. \A i \in DOMAIN ms : ls[i] = <<ms[i].host, ms[i].path>>
    BY <2>1
  <2>9. \A m \in Range(ms) : <<m.host, m.path>> \in Range(ls)
    BY <2>7, <2>8 DEF Range
  <2>10. \A e \in Range(ls) : \E m \in Range(ms) : e[1] = m.host
    BY <2>7, <2>8 DEF Range
  <2> QED
    BY <1>2, <2>2, <2>7, <2>9, <2>10 DEF ls
<1> QED
    BY <1>1, <1>2

(* A rule that matches has a location there or above.                      *)
LEMMA MatchLocated ==
    ASSUME NEW rule, RuleShape(rule), NEW h, NEW key \in Words, NEW force,
           RuleMatches(rule, h, key, force).any
    PROVE  /\ \E e \in Range(RuleLocations(rule)) :
                  e[1] \in {FallbackHost, h} /\ IsPrefix(e[2], key)
           /\ rule.include = <<>> => rule.exclude = <<>>
<1>1. CASE Unrestricted(rule)
  <2>1. <<FallbackHost, <<>>>> \in Range(RuleLocations(rule)) /\ IsPrefix(<<>>, key)
    BY <1>1, RuleLocated, PrefixOrder
  <2> QED
    BY <1>1, <2>1 DEF Unrestricted
<1>2. CASE ~Unrestricted(rule)
  <2>1. rule.include # <<>>
    <3>1. ASSUME rule.include = <<>> PROVE FALSE
      <4>1. RuleMatches(rule, h, key, force) = NoMatch
        BY <1>2, <3>1, RuleLists DEF RuleMatches
      <4> QED
        BY <4>1 DEF NoMatch
    <3> QED
      BY <3>1
  <2>2. Included(rule, h, key) # {}
    BY RuleMatchIs
  <2>3. PICK m \in Included(rule, h, key) : TRUE
    BY <2>2
  <2>4. m \in Range(rule.include) /\ m \in Matchers /\ Covers(m, h, key)
    BY <2>1, <2>3, RuleLists DEF IncludeList
  <2>5. m.host \in {FallbackHost, h} /\ IsPrefix(m.path, key)
    BY <2>4, MatcherIs DEF Covers
  <2>6. <<m.host, m.path>> \in Range(RuleLocations(rule))
    BY <2>4, RuleLocated
  <2> QED
    BY <2>1, <2>5, <2>6
<1> QED
    BY <1>1, <1>2

(* A host without locations of its own is like the fallback host.          *)
LEMMA MatchUnnamed ==
    ASSUME NEW rule, RuleShape(rule), NEW h, NEW key \in Words, NEW force,
           \A e \in Range(RuleLocations(rule)) : e[1] # h
    PROVE  RuleMatches(rule, h, key, force) = RuleMatches(rule, FallbackHost, key, force)
<1>1. \A m \in Range(rule.include) \union Range(rule.exclude) : m.host # h
  <2> TAKE m \in Range(rule.include) \union Range(rule.exclude)
  <2>1. <<m.host, m.path>> \in Range(RuleLocations(rule))
    BY RuleLocated
  <2>2. <<m.host, m.path>>[1] # h
    BY <2>1
  <2> QED
    BY <2>2
<1>2. \A m \in Range(rule.include) \union Range(rule.exclude) :
          MatcherMatches(m, h, key) = MatcherMatches(m, FallbackHost, key)
    BY <1>1 DEF MatcherMatches
<1>3. CASE Unrestricted(rule)
    BY <1>3 DEF RuleMatches
<1>4. CASE ~Unrestricted(rule)
  <2> DEFINE I == Found(rule.include, h, key)
             E == Found(rule.exclude, h, key)
  <2>1. Found(rule.include, FallbackHost, key) = I /\ Found(rule.exclude, FallbackHost, key) = E
    BY <1>2 DEF Found
  <2>2. I # {} => Best(I) \in Range(rule.include)
    <3>1. I \in SUBSET Range(rule.include)
      BY DEF Found
    <3> QED
      BY <3>1, BestOne DEF RuleShape
  <2>3. /\ RuleMatches(rule, h, key, force) =
              IF I = {} \/ (E # {} /\ ~MatcherBefore(Best(E), Best(I))) THEN NoMatch
              ELSE MatcherMatches(Best(I), h, key)
        /\ RuleMatches(rule, FallbackHost, key, force) =
              IF I = {} \/ (E # {} /\ ~MatcherBefore(Best(E), Best(I))) THEN NoMatch
              ELSE MatcherMatches(Best(I), FallbackHost, key)
    BY <1>4, <2>1 DEF RuleMatches
  <2> HIDE DEF I, E
  <2>4. I # {} => MatcherMatches(Best(I), h, key) = MatcherMatches(Best(I), FallbackHost, key)
    BY <1>2, <2>2
  <2> QED
    BY <2>3, <2>4
<1> QED
    BY <1>3, <1>4

RegularRule(rule) ==
    /\ rule.include = <<>> => rule.exclude = <<>>
    /\ \A m \in Range(rule.exclude) : ~m.exact
    /\ (\E m \in Range(rule.include) : m.exact) => Len(rule.include) = 1

(* What matches a path as a prefix matches what is below it, as long as    *)
(* there is no other location in between.                                  *)
NothingBetween(rule, h, p, key) ==
    \A e \in Range(RuleLocations(rule)) :
        e[1] \in {FallbackHost, h} /\ IsPrefix(e[2], key) => IsPrefix(e[2], p)

LEMMA MatchBelow ==
    ASSUME NEW rule, RuleShape(rule), NEW h, NEW p \in Words, NEW key \in Words, NEW force,
           IsPrefix(p, key), p # key, NothingBetween(rule, h, p, key)
    PROVE  /\ RuleMatches(rule, h, p, force).prefix =>
                  /\ RuleMatches(rule, h, key, FALSE).any
                  /\ RuleMatches(rule, h, key, FALSE).sorter = RuleMatches(rule, h, p, force).sorter
           /\ RegularRule(rule) /\ RuleMatches(rule, h, key, FALSE).any =>
                  RuleMatches(rule, h, p, force).prefix
<1> DEFINE I(k) == Included(rule, h, k)
           E(k) == Excluded(rule, h, k)
<1>1. \A m \in Range(rule.include) \union Range(rule.exclude) :
          /\ m \in Matchers /\ m.path \in Words /\ m.exact \in BOOLEAN
          /\ m.host \in {FallbackHost, h} /\ IsPrefix(m.path, key) => IsPrefix(m.path, p)
  <2> TAKE m \in Range(rule.include) \union Range(rule.exclude)
  <2>1. m \in Matchers
    BY RangeOfList DEF RuleShape
  <2>2. <<m.host, m.path>> \in Range(RuleLocations(rule))
    BY RuleLocated
  <2> DEFINE e == <<m.host, m.path>>
  <2>3. e[1] = m.host /\ e[2] = m.path
    OBVIOUS
  <2> HIDE DEF e
  <2>4. m.host \in {FallbackHost, h} /\ IsPrefix(m.path, key) => IsPrefix(m.path, p)
    BY <2>2, <2>3 DEF NothingBetween, e
  <2> QED
    BY <2>1, <2>4 DEF Matchers, Words
<1>2. \A m \in Range(rule.include) \union Range(rule.exclude) :
          Covers(m, h, key) <=> ~m.exact /\ Covers(m, h, p)
  <2> TAKE m \in Range(rule.include) \union Range(rule.exclude)
  <2>1. ~m.exact => (Covers(m, h, key) <=> Covers(m, h, p))
    BY <1>1, PrefixOrder DEF Covers
  <2>2. m.exact => ~Covers(m, h, key)
    BY <1>1, PrefixOrder DEF Covers
  <2> QED
    BY <2>1, <2>2
<1>3. E(key) = {m \in E(p) : ~m.exact}
    BY <1>2 DEF Excluded
<1>4. I(key) = {m \in I(p) : ~m.exact}
  <2>1. CASE rule.include = <<>>
    <3>1. I(key) = {Fallback} /\ I(p) = {Fallback}
      BY <2>1, RuleLists
    <3> QED
      BY <3>1, FallbackIs
  <2>2. CASE rule.include # <<>>
    BY <1>2, <2>2 DEF Included
  <2> QED
    BY <2>1, <2>2
<1>5. /\ I(p) # {} => Best(I(p)) \in I(p) /\ \A m \in I(p) : ~MatcherBefore(Best(I(p)), m)
      /\ I(key) # {} => Best(I(key)) \in I(key) /\ \A m \in I(key) : ~MatcherBefore(Best(I(key)), m)
      /\ E(p) # {} => Best(E(p)) \in E(p) /\ \A m \in E(p) : ~MatcherBefore(Best(E(p)), m)
      /\ E(key) # {} => Best(E(key)) \in E(key) /\ \A m \in E(key) : ~MatcherBefore(Best(E(key)), m)
    BY RuleLists, BestOne DEF RuleShape
<1>6. \A m \in I(p) \union E(p) : m \in MatchersFor(h) /\ m \in Matchers
    BY RuleLists
<1>7. /\ Applies(rule, h, p) <=>
            I(p) # {} /\ (E(p) = {} \/ MatcherBefore(Best(E(p)), Best(I(p))))
      /\ Applies(rule, h, key) <=>
            I(key) # {} /\ (E(key) = {} \/ MatcherBefore(Best(E(key)), Best(I(key))))
    BY AppliesIs
<1> DEFINE Ip == I(p)
           Ik == I(key)
           Ep == E(p)
           Ek == E(key)
<1>8. ASSUME RuleMatches(rule, h, p, force).prefix
      PROVE  /\ RuleMatches(rule, h, key, FALSE).any
             /\ RuleMatches(rule, h, key, FALSE).sorter = RuleMatches(rule, h, p, force).sorter
  <2>1. /\ Applies(rule, h, p) /\ ~Best(Ip).exact /\ Ip # {}
        /\ RuleMatches(rule, h, p, force).sorter = Best(Ip)
        /\ rule.include = <<>> => rule.exclude = <<>>
    <3>1. RuleMatches(rule, h, p, force).any
      BY <1>8, RuleMatchIs
    <3>2. rule.include = <<>> => rule.exclude = <<>>
      BY <3>1, MatchLocated
    <3> QED
      BY <1>8, <3>1, <3>2, RuleMatchIs
  <2>2. Best(Ik) = Best(Ip) /\ Ik # {}
    <3> HIDE DEF I, E
    <3>1. Best(Ip) \in Ik
      BY <1>4, <1>5, <2>1
    <3>2. Best(Ik) \in Ik /\ ~MatcherBefore(Best(Ik), Best(Ip))
      BY <1>5, <3>1
    <3>3. Best(Ik) \in Ip
      BY <1>4, <3>2
    <3>4. ~MatcherBefore(Best(Ip), Best(Ik))
      BY <1>5, <2>1, <3>3
    <3> QED
      BY <1>5, <1>6, <2>1, <3>1, <3>2, <3>3, <3>4, MatcherOrder
  <2>3. Ek = {} \/ MatcherBefore(Best(Ek), Best(Ik))
    <3> HIDE DEF I, E
    <3>1. SUFFICES ASSUME Ek # {} PROVE MatcherBefore(Best(Ek), Best(Ik))
      OBVIOUS
    <3>2. Best(Ek) \in Ek /\ Best(Ek) \in Ep /\ Ep # {}
      BY <1>3, <1>5, <3>1
    <3>3. MatcherBefore(Best(Ep), Best(Ip))
      BY <1>7, <2>1, <3>2
    <3>4. Best(Ep) \in Ep /\ ~MatcherBefore(Best(Ep), Best(Ek))
      BY <1>5, <3>2
    <3>5. Best(Ek) = Best(Ep) \/ MatcherBefore(Best(Ek), Best(Ep))
      BY <1>6, <3>2, <3>4, MatcherOrder
    <3>6. Best(Ip) \in Matchers /\ Best(Ep) \in Matchers /\ Best(Ek) \in Matchers
      BY <1>5, <1>6, <2>1, <3>2
    <3> QED
      BY <2>2, <3>3, <3>5, <3>6, MatcherOrder
  <2>4. Applies(rule, h, key)
    BY <1>7, <2>2, <2>3
  <2>5. RuleMatches(rule, h, key, FALSE).any
    BY <2>1, <2>4, RuleMatchIs
  <2> QED
    BY <2>1, <2>2, <2>5, RuleMatchIs
<1>9. ASSUME RegularRule(rule), RuleMatches(rule, h, key, FALSE).any
      PROVE  RuleMatches(rule, h, p, force).prefix
  <2>1. Applies(rule, h, key) /\ Ik # {}
    BY <1>9, RuleMatchIs
  <2>2. Ep = Ek
    <3>1. \A m \in Ep : ~m.exact
      BY <1>9, RuleLists DEF RegularRule
    <3> QED
      BY <1>3, <3>1
  <2>3. Ip = Ik
    <3>1. CASE rule.include = <<>>
      BY <3>1, RuleLists
    <3>2. CASE rule.include # <<>>
      <4>1. Ip \subseteq Range(rule.include) /\ Ik \subseteq Range(rule.include)
        BY <3>2, RuleLists DEF IncludeList
      <4>2. PICK m \in Ik : m \in Range(rule.include) /\ ~m.exact
        BY <1>4, <2>1, <4>1
      <4>3. \A n \in Range(rule.include) : ~n.exact
        <5>1. ASSUME NEW n \in Range(rule.include), n.exact PROVE FALSE
          <6>1. Len(rule.include) = 1
            BY <1>9, <5>1 DEF RegularRule
          <6>2. DOMAIN rule.include = {1}
            BY <6>1 DEF RuleShape
          <6>3. m = rule.include[1] /\ n = rule.include[1]
            BY <4>2, <6>2 DEF Range
          <6> QED
            BY <4>2, <5>1, <6>3
        <5> QED
          BY <5>1
      <4> QED
        BY <1>4, <4>1, <4>3
    <3> QED
      BY <3>1, <3>2
  <2>4. Applies(rule, h, p)
    BY <1>7, <2>1, <2>2, <2>3
  <2>5. ~Best(Ip).exact
    BY <1>4, <1>5, <2>1, <2>3
  <2> QED
    BY <1>9, <2>4, <2>5, RuleMatchIs DEF RegularRule
<1> QED
    BY <1>8, <1>9

-----------------------------------------------------------------------------
(* What the mergers have for the rules of a configuration c.               *)

ConfShape(c) ==
    /\ Len(c) \in Nat /\ DOMAIN c = 1 .. Len(c)
    /\ \A s \in DOMAIN c : /\ Len(c[s]) \in Nat /\ DOMAIN c[s] = 1 .. Len(c[s])
                           /\ \A n \in DOMAIN c[s] : RuleShape(c[s][n])

NamedIn(c, s) ==
    UNION {{m.host : m \in Range(rule.include) \union Range(rule.exclude)} :
              rule \in Range(c[s])}
RegularIn(c) == \A s \in DOMAIN c : \A n \in DOMAIN c[s] : RegularRule(c[s][n])
KnownIn(c) ==
    \/ \E s \in DOMAIN c : \A t \in DOMAIN c \ {s} : c[t] = <<>>
    \/ \A t \in DOMAIN c : NamedIn(c, t) \subseteq NamedIn(c, 1)
FullIn(c) == RegularIn(c) /\ KnownIn(c)

(* How a rule of a setting matches, and the rules that do.                 *)
Hit(c, s, n, h, key) == RuleMatches(c[s][n], h, key, FALSE)
Applying(c, s, h, key) == {n \in DOMAIN c[s] : Hit(c, s, n, h, key).any}

(* What a setting contributes to a response: rules that apply, the more    *)
(* specific ones later; all of them if no rules get lost.                  *)
Numbers == Nat \X Nat
IsValue(c, v, s, h, key) ==
    /\ v \in Seq(Numbers) /\ v # <<>>
    /\ \A a \in Range(v) : a[1] = s /\ a[2] \in Applying(c, s, h, key)
    /\ \A a, b : Ahead(v, a, b) =>
           /\ a # b
           /\ ~MatcherBefore(Hit(c, s, b[2], h, key).sorter, Hit(c, s, a[2], h, key).sorter)
    /\ FullIn(c) => \A n \in Applying(c, s, h, key) : <<s, n>> \in Range(v)

ValueOrNone(c, v, s, h, key) ==
    /\ v \in Seq(Numbers)
    /\ v # <<>> => IsValue(c, v, s, h, key)
    /\ v = <<>> /\ FullIn(c) => Applying(c, s, h, key) = {}

(* An entry for rules of a setting has those that match its path.          *)
RuleElement(c, s, n, h, p) ==
    [matcher |-> c[s][n], sorter |-> Hit(c, s, n, h, p).sorter, conf |-> <<<<s, n>>>>]
RuleElements(c, s, N, h, p) ==
    {RuleElement(c, s, n, h, p) : n \in {k \in 1 .. N : Hit(c, s, k, h, p).any}}

Gathers(c, l, s, N, h, p) ==
    /\ l \in Seq(RuleElements(c, s, N, h, p))
    /\ \A e, f : Ahead(l, e, f) => e.conf # f.conf
    /\ FullIn(c) => \A n \in 1 .. N :
           Hit(c, s, n, h, p).any => RuleElement(c, s, n, h, p) \in Range(l)

LEMMA SingleNumber ==
    ASSUME NEW s \in Nat, NEW n \in Nat
    PROVE  /\ <<<<s, n>>>> \in Seq(Numbers) /\ Range(<<<<s, n>>>>) = {<<s, n>>}
           /\ \A x, y : ~Ahead(<<<<s, n>>>>, x, y)
<1> DEFINE a == <<s, n>>
<1>1. a \in Numbers
    BY DEF Numbers
<1> HIDE DEF a
<1>2. <<a>> \in Seq(Numbers) /\ DOMAIN <<a>> = {1} /\ <<a>>[1] = a
    BY <1>1
<1>3. Range(<<a>>) = {a} /\ \A x, y : ~Ahead(<<a>>, x, y)
    BY <1>2 DEF Range, Ahead
<1> QED
    BY <1>2, <1>3 DEF a

LEMMA HitSorter ==
    ASSUME NEW c, ConfShape(c), NEW s \in DOMAIN c, NEW n \in DOMAIN c[s], NEW h,
           NEW key \in Words, Hit(c, s, n, h, key).any
    PROVE  Hit(c, s, n, h, key).sorter \in MatchersFor(h)
<1> DEFINE rule == c[s][n]
           I == Included(rule, h, key)
<1>1. RuleShape(rule)
    BY DEF ConfShape
<1>2. RuleMatches(rule, h, key, FALSE).any
    BY DEF Hit
<1> HIDE DEF rule
<1>3. I # {} /\ RuleMatches(rule, h, key, FALSE).sorter = Best(I)
    BY <1>1, <1>2, RuleMatchIs
<1>4. Best(I) \in I
    BY <1>1, <1>3, RuleLists, BestOne
<1>5. Best(I) \in MatchersFor(h)
    BY <1>1, <1>4, RuleLists
<1> QED
    BY <1>3, <1>5 DEF Hit, rule

LEMMA ElementIs ==
    ASSUME NEW c, ConfShape(c), NEW s \in DOMAIN c, NEW N \in 0 .. Len(c[s]), NEW h, NEW p \in Words
    PROVE  /\ SortedBy(RuleElements(c, s, N, h, p), h, Numbers)
           /\ \A e \in RuleElements(c, s, N, h, p) : \E n \in 1 .. N :
                 /\ e = RuleElement(c, s, n, h, p)
                 /\ n \in DOMAIN c[s] /\ Hit(c, s, n, h, p).any
                 /\ e.matcher = c[s][n] /\ e.sorter = Hit(c, s, n, h, p).sorter
                 /\ e.conf = <<<<s, n>>>>
                 /\ e.conf \in Seq(Numbers) /\ Range(e.conf) = {<<s, n>>}
                 /\ \A x, y : ~Ahead(e.conf, x, y)
<1>1. s \in Nat /\ DOMAIN c[s] = 1 .. Len(c[s]) /\ Len(c[s]) \in Nat
    BY DEF ConfShape
<1>2. ASSUME NEW e \in RuleElements(c, s, N, h, p)
      PROVE  \E n \in 1 .. N :
                 /\ e = RuleElement(c, s, n, h, p)
                 /\ n \in DOMAIN c[s] /\ Hit(c, s, n, h, p).any
                 /\ e.matcher = c[s][n] /\ e.sorter = Hit(c, s, n, h, p).sorter
                 /\ e.conf = <<<<s, n>>>>
                 /\ e.conf \in Seq(Numbers) /\ Range(e.conf) = {<<s, n>>}
                 /\ \A x, y : ~Ahead(e.conf, x, y)
  <2>1. PICK n \in 1 .. N : Hit(c, s, n, h, p).any /\ e = RuleElement(c, s, n, h, p)
    BY DEF RuleElements
  <2>2. n \in DOMAIN c[s] /\ n \in Nat
    BY <1>1
  <2>3. e.matcher = c[s][n] /\ e.sorter = Hit(c, s, n, h, p).sorter /\ e.conf = <<<<s, n>>>>
    BY <2>1 DEF RuleElement
  <2>4. /\ e.conf \in Seq(Numbers) /\ Range(e.conf) = {<<s, n>>}
        /\ \A x, y : ~Ahead(e.conf, x, y)
    <3> DEFINE v == <<<<s, n>>>>
    <3>1. v \in Seq(Numbers) /\ Range(v) = {<<s, n>>} /\ \A x, y : ~Ahead(v, x, y)
      BY <1>1, <2>2, SingleNumber
    <3>2. e.conf = v
      BY <2>3
    <3> HIDE DEF v
    <3> QED
      BY <3>1, <3>2
  <2> QED
    BY <2>1, <2>2, <2>3, <2>4
<1>3. ASSUME NEW e \in RuleElements(c, s, N, h, p)
      PROVE  e.sorter \in MatchersFor(h) /\ e.conf \in Seq(Numbers)
  <2>1. PICK n \in DOMAIN c[s] : /\ Hit(c, s, n, h, p).any /\ e.sorter = Hit(c, s, n, h, p).sorter
                                 /\ e.conf \in Seq(Numbers)
    BY <1>2
  <2> QED
    BY <2>1, HitSorter
<1> QED
    BY <1>2, <1>3 DEF SortedBy

(* The values of the elements that match a key.                            *)
LEMMA JoinedValue ==
    ASSUME NEW c, ConfShape(c), NEW s \in DOMAIN c, NEW h, NEW p \in Words, NEW key \in Words,
           NEW l, Gathers(c, l, s, Len(c[s]), h, p), NEW K,
           \A n \in DOMAIN c[s] :
               /\ RuleElement(c, s, n, h, p) \in Range(l) /\ RuleElement(c, s, n, h, p) \in K =>
                      /\ Hit(c, s, n, h, key).any
                      /\ Hit(c, s, n, h, key).sorter = Hit(c, s, n, h, p).sorter
               /\ FullIn(c) /\ Hit(c, s, n, h, key).any =>
                      RuleElement(c, s, n, h, p) \in Range(l) /\ RuleElement(c, s, n, h, p) \in K
    PROVE  ValueOrNone(c, Rules!Join(Selected(l, K)), s, h, key)
<1> DEFINE S == RuleElements(c, s, Len(c[s]), h, p)
           k == Selected(l, K)
           v == Rules!Join(k)
<1>1. l \in Seq(S) /\ \A e, f : Ahead(l, e, f) => e.conf # f.conf
    BY DEF Gathers
<1>2. Len(c[s]) \in Nat /\ Len(c[s]) \in 0 .. Len(c[s]) /\ s \in Nat /\ DOMAIN c[s] = 1 .. Len(c[s])
    BY DEF ConfShape
<1>3. /\ SortedBy(S, h, Numbers)
      /\ \A e \in S : \E n \in DOMAIN c[s] :
                 /\ e = RuleElement(c, s, n, h, p)
                 /\ e.sorter = Hit(c, s, n, h, p).sorter
                 /\ e.conf = <<<<s, n>>>> /\ Range(e.conf) = {<<s, n>>}
                 /\ \A x, y : ~Ahead(e.conf, x, y)
  <2> DEFINE N == Len(c[s])
  <2>1. N \in 0 .. Len(c[s]) /\ S = RuleElements(c, s, N, h, p)
    BY <1>2
  <2> HIDE DEF S, N
  <2>2. SortedBy(RuleElements(c, s, N, h, p), h, Numbers)
    BY <2>1, ElementIs
  <2>3. ASSUME NEW e \in RuleElements(c, s, N, h, p)
        PROVE  \E n \in DOMAIN c[s] :
                 /\ e = RuleElement(c, s, n, h, p)
                 /\ e.sorter = Hit(c, s, n, h, p).sorter
                 /\ e.conf = <<<<s, n>>>> /\ Range(e.conf) = {<<s, n>>}
                 /\ \A x, y : ~Ahead(e.conf, x, y)
    BY <2>1, ElementIs
  <2> QED
    BY <2>1, <2>2, <2>3
<1> HIDE DEF S
<1>4. /\ k \in Seq(S) /\ Range(k) = Range(l) \intersect K
      /\ \A x, y : Ahead(k, x, y) <=> Ahead(l, x, y) /\ x \in K /\ y \in K
    BY <1>1, SelectedList
<1> HIDE DEF k
<1>5. /\ v \in Seq(Numbers)
      /\ \A x : x \in Range(v) <=> \E e \in Range(k) : x \in Range(e.conf)
      /\ \A x, y : Ahead(v, x, y) <=>
                  \/ \E e \in Range(k) : Ahead(e.conf, x, y)
                  \/ \E e, f \in Range(k) :
                        /\ \/ MatcherBefore(e.sorter, f.sorter)
                           \/ ~MatcherBefore(f.sorter, e.sorter) /\ Ahead(k, e, f)
                        /\ x \in Range(e.conf) /\ y \in Range(f.conf)
    BY <1>3, <1>4, JoinOf
<1> HIDE DEF v
<1>6. ASSUME NEW e \in Range(k)
      PROVE  \E n \in DOMAIN c[s] :
                 /\ e.conf = <<<<s, n>>>> /\ Range(e.conf) = {<<s, n>>}
                 /\ n \in Applying(c, s, h, key) /\ e.sorter = Hit(c, s, n, h, key).sorter
                 /\ \A x, y : ~Ahead(e.conf, x, y)
  <2>1. e \in S /\ e \in Range(l) /\ e \in K
    BY <1>4, RangeOfList
  <2>2. PICK n \in DOMAIN c[s] :
                 /\ e = RuleElement(c, s, n, h, p)
                 /\ e.sorter = Hit(c, s, n, h, p).sorter
                 /\ e.conf = <<<<s, n>>>> /\ Range(e.conf) = {<<s, n>>}
                 /\ \A x, y : ~Ahead(e.conf, x, y)
    BY <1>3, <2>1
  <2>3. Hit(c, s, n, h, key).any /\ Hit(c, s, n, h, key).sorter = Hit(c, s, n, h, p).sorter
    BY <2>1, <2>2
  <2> QED
    BY <2>2, <2>3 DEF Applying
<1>7. ASSUME NEW a \in Range(v)
      PROVE  a[1] = s /\ a[2] \in Applying(c, s, h, key)
  <2>1. PICK e \in Range(k) : a \in Range(e.conf)
    BY <1>5
  <2>2. PICK n \in DOMAIN c[s] : Range(e.conf) = {<<s, n>>} /\ n \in Applying(c, s, h, key)
    BY <1>6
  <2>3. a = <<s, n>>
    BY <2>1, <2>2
  <2> QED
    BY <2>2, <2>3
<1>8. ASSUME NEW a, NEW b, Ahead(v, a, b)
      PROVE  /\ a # b
             /\ ~MatcherBefore(Hit(c, s, b[2], h, key).sorter, Hit(c, s, a[2], h, key).sorter)
  <2>1. PICK e \in Range(k), f \in Range(k) :
            /\ \/ MatcherBefore(e.sorter, f.sorter)
               \/ ~MatcherBefore(f.sorter, e.sorter) /\ Ahead(k, e, f)
            /\ a \in Range(e.conf) /\ b \in Range(f.conf)
    <3>1. ~\E e \in Range(k) : Ahead(e.conf, a, b)
      BY <1>6
    <3> QED
      BY <1>5, <1>8, <3>1
  <2>2. PICK n \in DOMAIN c[s] :
                 /\ e.conf = <<<<s, n>>>> /\ Range(e.conf) = {<<s, n>>}
                 /\ n \in Applying(c, s, h, key) /\ e.sorter = Hit(c, s, n, h, key).sorter
    BY <1>6
  <2>3. PICK m \in DOMAIN c[s] :
                 /\ f.conf = <<<<s, m>>>> /\ Range(f.conf) = {<<s, m>>}
                 /\ m \in Applying(c, s, h, key) /\ f.sorter = Hit(c, s, m, h, key).sorter
    BY <1>6
  <2>4. a = <<s, n>> /\ b = <<s, m>> /\ a[2] = n /\ b[2] = m
    BY <2>1, <2>2, <2>3
  <2>5. e.sorter \in Matchers /\ f.sorter \in Matchers
    <3>1. e \in S /\ f \in S
      BY <1>4, RangeOfList
    <3> QED
      BY <1>3, <3>1 DEF SortedBy, MatchersFor
  <2>6. ~MatcherBefore(f.sorter, e.sorter)
    BY <2>1, <2>5, MatcherOrder
  <2>7. n # m
    <3>1. ASSUME n = m PROVE FALSE
      <4>1. e.conf = f.conf /\ e.sorter = f.sorter
        BY <2>2, <2>3, <3>1
      <4>2. ~MatcherBefore(e.sorter, f.sorter)
        BY <2>5, <4>1, MatcherOrder
      <4>3. Ahead(l, e, f)
        BY <1>4, <2>1, <4>2
      <4> QED
        BY <1>1, <4>1, <4>3
    <3> QED
      BY <3>1
  <2> QED
    BY <2>2, <2>3, <2>4, <2>6, <2>7
<1>9. ASSUME FullIn(c), NEW n \in Applying(c, s, h, key)
      PROVE  <<s, n>> \in Range(v)
  <2>1. n \in DOMAIN c[s] /\ Hit(c, s, n, h, key).any
    BY DEF Applying
  <2> DEFINE e == RuleElement(c, s, n, h, p)
  <2>2. e \in Range(l) /\ e \in K
    BY <1>9, <2>1
  <2>3. e.conf = <<<<s, n>>>>
    BY DEF RuleElement
  <2> HIDE DEF e
  <2>4. e \in Range(k)
    BY <1>4, <2>2
  <2>5. n \in Nat
    BY <1>2, <2>1
  <2>6. <<s, n>> \in Range(e.conf)
    BY <1>2, <2>3, <2>5, SingleNumber
  <2> QED
    BY <1>5, <2>4, <2>6
<1>10. v # <<>> => IsValue(c, v, s, h, key)
    BY <1>5, <1>7, <1>8, <1>9 DEF IsValue
<1>11. v = <<>> /\ FullIn(c) => Applying(c, s, h, key) = {}
    BY <1>9, EmptyList
<1>12. ValueOrNone(c, v, s, h, key)
    BY <1>5, <1>10, <1>11 DEF ValueOrNone
<1> QED
    BY <1>12 DEF v, k

-----------------------------------------------------------------------------
(* Entries that are copied.                                                *)

LEMMA InRange ==
    ASSUME NEW S, NEW T, NEW l \in Seq(S), \A x \in Range(l) : x \in T
    PROVE  l \in Seq(T)
BY DEF Range

LEMMA ClosestOne ==
    ASSUME NEW S \in SUBSET Words, S # {}, NEW u \in Words, \A q \in S : IsPrefix(q, u)
    PROVE  Closest(S) \in S /\ \A q \in S : IsPrefix(q, Closest(S))
<1>1. \E p \in S : \A q \in S : IsPrefix(q, p)
    BY LongestPrefix
<1> QED
    BY <1>1 DEF Closest

(* An entry that was added.                                                *)
Copied(l, h, p) ==
    LET Result(e) == RuleMatches(e.matcher, h, p, FALSE)
        kept == Selected(l, {e \in Range(l) : Result(e).any})
    IN  [i \in DOMAIN kept |-> [kept[i] EXCEPT !.sorter = Result(kept[i]).sorter]]

ParentEntry(E, p) ==
    LET parents == {q \in DOMAIN E : IsStrictPrefix(q, p)}
    IN  IF parents = {} THEN <<>> ELSE E[Closest(parents)]

(* F is E with an entry for p, new if there was none.                      *)
Grows(F, E, p, new) ==
    /\ DOMAIN F = DOMAIN E \union {p} /\ \A q \in DOMAIN E : F[q] = E[q]
    /\ p \notin DOMAIN E => F[p] = new

LEMMA RulesEnsured ==
    ASSUME NEW E, NEW h, NEW p
    PROVE  Grows(Rules!EnsureEntry(E, h, p), E, p, Copied(ParentEntry(E, p), h, p))
<1> DEFINE new == Copied(ParentEntry(E, p), h, p)
<1>1. Rules!EnsureEntry(E, h, p) = IF p \in DOMAIN E THEN E ELSE Rules!Extended(E, p, new)
    BY DEF Rules!EnsureEntry, Copied, ParentEntry, Rules!ParentsOf, Rules!Closest, Closest,
           Rules!Selected, Selected, Rules!Range, Range, Rules!IsStrictPrefix, IsStrictPrefix,
           Rules!IsPrefix, IsPrefix
<1> HIDE DEF new
<1>2. Rules!Extended(E, p, new) = [x \in DOMAIN E \union {p} |-> IF x = p THEN new ELSE E[x]]
    BY DEF Rules!Extended
<1>3. CASE p \in DOMAIN E
    BY <1>1, <1>3 DEF Grows
<1>4. CASE p \notin DOMAIN E
    BY <1>1, <1>2, <1>4 DEF Grows, new
<1> QED
    BY <1>3, <1>4

(* The closest parent of a path that has no entry.                         *)
LEMMA ParentIs ==
    ASSUME NEW E, DOMAIN E \in SUBSET Words, NEW p \in Words, p \notin DOMAIN E
    PROVE  \/ /\ ParentEntry(E, p) = <<>>
              /\ \A q \in DOMAIN E : ~IsPrefix(q, p)
           \/ \E q \in DOMAIN E :
                 /\ ParentEntry(E, p) = E[q] /\ q # p /\ IsPrefix(q, p)
                 /\ \A r \in DOMAIN E : IsPrefix(r, p) => IsPrefix(r, q)
<1> DEFINE parents == {q \in DOMAIN E : IsStrictPrefix(q, p)}
<1>1. \A q \in DOMAIN E : q \in parents <=> IsPrefix(q, p)
    BY DEF IsStrictPrefix
<1>2. CASE parents = {}
    BY <1>1, <1>2 DEF ParentEntry
<1>3. CASE parents # {}
  <2>1. ParentEntry(E, p) = E[Closest(parents)]
    BY <1>3 DEF ParentEntry
  <2>2. parents \in SUBSET Words /\ \A q \in parents : IsPrefix(q, p) /\ q # p /\ q \in DOMAIN E
    BY <1>1
  <2>3. Closest(parents) \in parents /\ \A q \in parents : IsPrefix(q, Closest(parents))
    BY <1>3, <2>2, ClosestOne
  <2> QED
    BY <1>1, <2>1, <2>2, <2>3
<1> QED
    BY <1>2, <1>3

(* Entries of a host for the first N rules of a setting.                   *)
LocationsOf(c, s, N) == UNION {Range(RuleLocations(c[s][n])) : n \in 1 .. N}
CoversHost(E, h, L) == \A e \in L : e[1] \in {FallbackHost, h} => e[2] \in DOMAIN E
EntriesInv(c, E, s, N, h) ==
    /\ IsFiniteSet(DOMAIN E)
    /\ \A p \in DOMAIN E : p \in Words /\ Gathers(c, E[p], s, N, h, p)

LEMMA NothingGathered ==
    ASSUME NEW c, NEW s, NEW N, NEW h, NEW p,
           FullIn(c) => \A n \in 1 .. N : ~Hit(c, s, n, h, p).any
    PROVE  Gathers(c, <<>>, s, N, h, p)
BY EmptyList DEF Gathers

Resorted(e, b) == [e EXCEPT !.sorter = b]

LEMMA ResortedElement ==
    ASSUME NEW a, NEW b, NEW x, NEW y,
           NEW e, e = [matcher |-> a, sorter |-> x, conf |-> y]
    PROVE  Resorted(e, b) = [matcher |-> a, sorter |-> b, conf |-> y]
BY DEF Resorted

LEMMA CopiedGathers ==
    ASSUME NEW c, ConfShape(c), NEW s \in DOMAIN c, NEW N \in 0 .. Len(c[s]), NEW h,
           NEW q \in Words, NEW p \in Words, NEW l, Gathers(c, l, s, N, h, q),
           FullIn(c) => \A n \in 1 .. N : Hit(c, s, n, h, p).any => Hit(c, s, n, h, q).any
    PROVE  Gathers(c, Copied(l, h, p), s, N, h, p)
<1> DEFINE S == RuleElements(c, s, N, h, q)
           V == RuleElements(c, s, N, h, p)
           K == {e \in Range(l) : RuleMatches(e.matcher, h, p, FALSE).any}
           k == Selected(l, K)
           T == {e \in S : RuleMatches(e.matcher, h, p, FALSE).any}
           G == [e \in T |-> [e EXCEPT !.sorter = RuleMatches(e.matcher, h, p, FALSE).sorter]]
           m == Copied(l, h, p)
<1>1. l \in Seq(S) /\ \A e, f : Ahead(l, e, f) => e.conf # f.conf
    BY DEF Gathers
<1>2. \A e \in S : \E n \in 1 .. N :
          e = RuleElement(c, s, n, h, q) /\ e.matcher = c[s][n] /\ e.conf = <<<<s, n>>>>
    BY ElementIs
<1> HIDE DEF S
<1>3. /\ k \in Seq(S) /\ Range(k) = K
      /\ \A x, y : Ahead(k, x, y) => Ahead(l, x, y)
  <2>1. /\ k \in Seq(S) /\ Range(k) = Range(l) \intersect K
        /\ \A x, y : Ahead(k, x, y) <=> Ahead(l, x, y) /\ x \in K /\ y \in K
    BY <1>1, SelectedList
  <2> QED
    BY <2>1
<1>4. k \in Seq(T)
  <2>1. \A x \in Range(k) : x \in T
    BY <1>1, <1>3, RangeOfList
  <2> HIDE DEF T, k
  <2> QED
    BY <1>3, <2>1, InRange
<1>5. m = [i \in DOMAIN k |-> [k[i] EXCEPT !.sorter = RuleMatches(k[i].matcher, h, p, FALSE).sorter]]
    BY DEF Copied
<1> HIDE DEF k, m
<1>6. ASSUME NEW n \in 1 .. N, RuleElement(c, s, n, h, q) \in T
      PROVE  /\ G[RuleElement(c, s, n, h, q)] = RuleElement(c, s, n, h, p)
             /\ Hit(c, s, n, h, p).any
  <2> DEFINE e == RuleElement(c, s, n, h, q)
  <2>1. e = [matcher |-> c[s][n], sorter |-> Hit(c, s, n, h, q).sorter, conf |-> <<<<s, n>>>>]
    BY DEF RuleElement
  <2>2. e.matcher = c[s][n]
    BY <2>1
  <2>3. G[e] = Resorted(e, RuleMatches(e.matcher, h, p, FALSE).sorter)
    BY <1>6 DEF Resorted
  <2>4. G[e] = [matcher |-> c[s][n], sorter |-> RuleMatches(c[s][n], h, p, FALSE).sorter,
                conf |-> <<<<s, n>>>>]
    <3> HIDE DEF e, G
    <3>2. Resorted(e, RuleMatches(c[s][n], h, p, FALSE).sorter) =
              [matcher |-> c[s][n], sorter |-> RuleMatches(c[s][n], h, p, FALSE).sorter,
               conf |-> <<<<s, n>>>>]
      <4> DEFINE a == c[s][n]
                 x == Hit(c, s, n, h, q).sorter
                 y == <<<<s, n>>>>
                 b == RuleMatches(c[s][n], h, p, FALSE).sorter
      <4>1. e = [matcher |-> a, sorter |-> x, conf |-> y]
        BY <2>1
      <4> HIDE DEF a, b, x, y
      <4>2. Resorted(e, b) = [matcher |-> a, sorter |-> b, conf |-> y]
        BY <4>1, ResortedElement
      <4> QED
        BY <4>2 DEF a, b, y
    <3> QED
      BY <2>2, <2>3, <3>2
  <2>5. RuleMatches(e.matcher, h, p, FALSE).any
    BY <1>6
  <2> HIDE DEF e, G
  <2>6. RuleMatches(c[s][n], h, p, FALSE).any
    BY <2>2, <2>5
  <2> QED
    BY <2>4, <2>6 DEF RuleElement, Hit, e
<1>7. ASSUME NEW e \in T
      PROVE  G[e] \in V /\ G[e].conf = e.conf
  <2>1. PICK n \in 1 .. N :
          e = RuleElement(c, s, n, h, q) /\ e.matcher = c[s][n] /\ e.conf = <<<<s, n>>>>
    BY <1>2
  <2>2. G[e] = RuleElement(c, s, n, h, p) /\ Hit(c, s, n, h, p).any
    BY <1>6, <2>1
  <2> HIDE DEF G
  <2>3. G[e] \in V
    BY <2>2 DEF RuleElements
  <2>4. G[e].conf = <<<<s, n>>>>
    BY <2>2 DEF RuleElement
  <2> QED
    BY <2>1, <2>3, <2>4
<1>8. /\ m \in [1 .. Len(k) -> V]
      /\ \A i \in 1 .. Len(k) : m[i] = G[k[i]]
  <2>1. DOMAIN k = 1 .. Len(k) /\ \A i \in 1 .. Len(k) : k[i] \in T
    <3> HIDE DEF T
    <3> QED
      BY <1>4
  <2>2. \A i \in 1 .. Len(k) : m[i] = G[k[i]]
    BY <1>5, <2>1
  <2>3. DOMAIN m = 1 .. Len(k) /\ m = [i \in 1 .. Len(k) |-> m[i]]
    BY <1>5, <2>1
  <2> HIDE DEF T, G, V
  <2> QED
    BY <1>7, <2>1, <2>2, <2>3
<1>9. Mapped(m, k, G, T, V)
  <2>1. \A x \in T : G[x] \in V
    BY <1>7
  <2> HIDE DEF T, G, V
  <2> QED
    BY <1>4, <1>8, <2>1, MappedList
<1>10. ASSUME NEW x, NEW y, Ahead(m, x, y)
       PROVE  x.conf # y.conf
  <2> HIDE DEF G
  <2>1. PICK v \in Range(k), w \in Range(k) : Ahead(k, v, w) /\ x = G[v] /\ y = G[w]
    BY <1>9, <1>10 DEF Mapped
  <2>2. v \in T /\ w \in T
    <3> HIDE DEF T
    <3> QED
      BY <1>4, <2>1, RangeOfList
  <2>3. v.conf # w.conf
    BY <1>1, <1>3, <2>1
  <2> QED
    BY <1>7, <2>1, <2>2, <2>3
<1>11. ASSUME FullIn(c), NEW n \in 1 .. N, Hit(c, s, n, h, p).any
       PROVE  RuleElement(c, s, n, h, p) \in Range(m)
  <2> DEFINE e == RuleElement(c, s, n, h, q)
  <2>1. e \in Range(l)
    BY <1>11 DEF Gathers
  <2>2. e.matcher = c[s][n]
    BY DEF RuleElement
  <2>3. e \in K /\ e \in Range(k) /\ e \in T
    <3>1. e \in K
      BY <1>11, <2>1, <2>2 DEF Hit
    <3>2. e \in Range(k)
      BY <1>3, <3>1
    <3>3. e \in T
      <4> HIDE DEF T, e
      <4> QED
        BY <1>4, <3>2, RangeOfList
    <3> QED
      BY <3>1, <3>2, <3>3
  <2>4. G[e] = RuleElement(c, s, n, h, p)
    BY <1>6, <2>3
  <2> HIDE DEF G, e
  <2> QED
    BY <1>9, <2>3, <2>4 DEF Mapped
<1>12. m \in Seq(V)
    BY <1>9 DEF Mapped
<1> QED
    BY <1>10, <1>11, <1>12 DEF Gathers, m

-----------------------------------------------------------------------------
(* Pushing a rule.                                                         *)

EntryKept(c, F, E, s, N, h, p) ==
    EntriesInv(c, F, s, N, h) /\ DOMAIN F = DOMAIN E \union {p}

LEMMA RulesEntryKept ==
    ASSUME NEW c, ConfShape(c), NEW s \in DOMAIN c, NEW N \in 0 .. Len(c[s]), NEW h,
           NEW E, EntriesInv(c, E, s, N, h), CoversHost(E, h, LocationsOf(c, s, N)),
           NEW p \in Words
    PROVE  EntryKept(c, Rules!EnsureEntry(E, h, p), E, s, N, h, p)
<1> DEFINE F == Rules!EnsureEntry(E, h, p)
<1>1. /\ DOMAIN F = DOMAIN E \union {p} /\ \A q \in DOMAIN E : F[q] = E[q]
      /\ p \notin DOMAIN E => F[p] = Copied(ParentEntry(E, p), h, p)
  <2> HIDE DEF F
  <2>1. Grows(F, E, p, Copied(ParentEntry(E, p), h, p))
    BY RulesEnsured DEF F
  <2> QED
    BY <2>1 DEF Grows
<1> HIDE DEF F
<1>2. IsFiniteSet(DOMAIN E) /\ \A q \in DOMAIN E : q \in Words /\ Gathers(c, E[q], s, N, h, q)
    BY DEF EntriesInv
<1>3. IsFiniteSet(DOMAIN F)
    BY <1>1, <1>2, FS_AddElement
<1>4. ASSUME p \notin DOMAIN E PROVE Gathers(c, F[p], s, N, h, p)
  <2>1. ASSUME NEW n \in 1 .. N, Hit(c, s, n, h, p).any
        PROVE  /\ RuleShape(c[s][n]) /\ n \in DOMAIN c[s]
               /\ \E e \in Range(RuleLocations(c[s][n])) : e[2] \in DOMAIN E /\ IsPrefix(e[2], p)
    <3>1. RuleShape(c[s][n]) /\ n \in DOMAIN c[s]
      BY DEF ConfShape
    <3>2. PICK e \in Range(RuleLocations(c[s][n])) : e[1] \in {FallbackHost, h} /\ IsPrefix(e[2], p)
      BY <2>1, <3>1, MatchLocated DEF Hit
    <3>3. e \in LocationsOf(c, s, N)
      BY DEF LocationsOf
    <3> QED
      BY <3>1, <3>2, <3>3 DEF CoversHost
  <2>2. DOMAIN E \in SUBSET Words
    BY <1>2
  <2>3. CASE ParentEntry(E, p) = <<>> /\ \A q \in DOMAIN E : ~IsPrefix(q, p)
    <3>1. \A n \in 1 .. N : ~Hit(c, s, n, h, p).any
      BY <2>1, <2>3
    <3>2. Gathers(c, <<>>, s, N, h, <<>>)
      <4>1. Gathers(c, <<>>, s, N, h, p)
        BY <3>1, NothingGathered
      <4>2. \A n \in 1 .. N : ~Hit(c, s, n, h, <<>>).any
        <5>1. ASSUME NEW n \in 1 .. N, Hit(c, s, n, h, <<>>).any PROVE FALSE
          <6>1. RuleShape(c[s][n]) /\ <<>> \in Words
            BY PrefixFacts DEF ConfShape
          <6>2. PICK e \in Range(RuleLocations(c[s][n])) :
                    e[1] \in {FallbackHost, h} /\ IsPrefix(e[2], <<>>)
            BY <5>1, <6>1, MatchLocated DEF Hit
          <6>3. e \in LocationsOf(c, s, N)
            BY DEF LocationsOf
          <6>4. e[2] \in DOMAIN E /\ e[2] \in Words
            BY <2>2, <6>2, <6>3 DEF CoversHost
          <6>5. IsPrefix(e[2], p)
            BY <6>1, <6>2, <6>4, PrefixOrder
          <6> QED
            BY <2>3, <6>4, <6>5
        <5> QED
          BY <5>1
      <4> QED
        BY <4>2, NothingGathered
    <3>3. <<>> \in Words
      BY PrefixFacts
    <3>4. Gathers(c, Copied(<<>>, h, p), s, N, h, p)
      BY <3>1, <3>2, <3>3, CopiedGathers
    <3> QED
      BY <1>1, <1>4, <2>3, <3>4
  <2>4. ASSUME NEW q \in DOMAIN E,
               ParentEntry(E, p) = E[q] /\ q # p /\ IsPrefix(q, p)
                 /\ \A r \in DOMAIN E : IsPrefix(r, p) => IsPrefix(r, q)
        PROVE  Gathers(c, F[p], s, N, h, p)
    <3>1. q \in Words /\ Gathers(c, E[q], s, N, h, q)
      BY <1>2
    <3>2. ASSUME FullIn(c), NEW n \in 1 .. N, Hit(c, s, n, h, p).any
          PROVE  Hit(c, s, n, h, q).any
      <4>1. RuleShape(c[s][n]) /\ n \in DOMAIN c[s]
        BY <2>1, <3>2
      <4>2. NothingBetween(c[s][n], h, q, p)
        <5> SUFFICES ASSUME NEW e \in Range(RuleLocations(c[s][n])),
                            e[1] \in {FallbackHost, h} /\ IsPrefix(e[2], p)
                     PROVE  IsPrefix(e[2], q)
          BY DEF NothingBetween
        <5>1. e \in LocationsOf(c, s, N)
          BY DEF LocationsOf
        <5>2. e[2] \in DOMAIN E
          BY <5>1 DEF CoversHost
        <5> QED
          BY <2>4, <5>2
      <4>3. RegularRule(c[s][n])
        BY <3>2, <4>1 DEF FullIn, RegularIn
      <4>4. RuleMatches(c[s][n], h, q, FALSE).prefix
        BY <2>4, <3>1, <3>2, <4>1, <4>2, <4>3, MatchBelow DEF Hit
      <4> QED
        BY <3>1, <4>1, <4>4, RuleMatchIs DEF Hit
    <3>3. Gathers(c, Copied(E[q], h, p), s, N, h, p)
      BY <3>1, <3>2, CopiedGathers
    <3> QED
      BY <1>1, <1>4, <2>4, <3>3
  <2> QED
    BY <1>4, <2>2, <2>3, <2>4, ParentIs
<1>5. EntriesInv(c, F, s, N, h)
    BY <1>1, <1>2, <1>3, <1>4 DEF EntriesInv
<1> QED
    BY <1>1, <1>5 DEF EntryKept, F

(* A host without rules takes over the entries of the fallback host.       *)
LEMMA RulesHostTaken ==
    ASSUME NEW c, ConfShape(c), NEW s \in DOMAIN c, NEW N \in 0 .. Len(c[s]), NEW h,
           \A e \in LocationsOf(c, s, N) : e[1] # h,
           NEW E, EntriesInv(c, E, s, N, FallbackHost)
    PROVE  EntriesInv(c, E, s, N, h)
<1>1. ASSUME NEW n \in 1 .. N, NEW p \in Words
      PROVE  /\ Hit(c, s, n, h, p) = Hit(c, s, n, FallbackHost, p)
             /\ RuleElement(c, s, n, h, p) = RuleElement(c, s, n, FallbackHost, p)
  <2>1. RuleShape(c[s][n])
    BY DEF ConfShape
  <2>2. \A e \in Range(RuleLocations(c[s][n])) : e[1] # h
    BY DEF LocationsOf
  <2> QED
    BY <2>1, <2>2, MatchUnnamed DEF Hit, RuleElement
<1>2. ASSUME NEW p \in DOMAIN E
      PROVE  p \in Words /\ Gathers(c, E[p], s, N, h, p)
  <2>1. p \in Words /\ Gathers(c, E[p], s, N, FallbackHost, p)
    BY DEF EntriesInv
  <2>2. RuleElements(c, s, N, h, p) = RuleElements(c, s, N, FallbackHost, p)
    BY <1>1, <2>1 DEF RuleElements
  <2> QED
    BY <1>1, <2>1, <2>2 DEF Gathers
<1> QED
    BY <1>2 DEF EntriesInv

Covering(M, L) ==
    /\ \A e \in L : e[1] \in DOMAIN M
    /\ \A h \in DOMAIN M : CoversHost(M[h], h, L)
Upper(M, L) == \A h \in DOMAIN M : \E e \in L : e[1] = h
FallbackBelow(M) ==
    FallbackHost \in DOMAIN M => \A h \in DOMAIN M : DOMAIN M[FallbackHost] \subseteq DOMAIN M[h]

(* A merger has the first N rules of a setting, and entries for further    *)
(* locations.                                                              *)
GrowInv(c, M, s, N, L) ==
    /\ Covering(M, LocationsOf(c, s, N) \union L) /\ Upper(M, LocationsOf(c, s, N) \union L)
    /\ FallbackBelow(M)
    /\ \A h \in DOMAIN M : EntriesInv(c, M[h], s, N, h)

LEMMA HostEnsured ==
    ASSUME NEW M, NEW h
    PROVE  LET K == Rules!EnsureHost(M, h)
           IN  /\ DOMAIN K = DOMAIN M \union {h} /\ \A g \in DOMAIN M : K[g] = M[g]
               /\ h \notin DOMAIN M => K[h] = RulesOf(M, FallbackHost)
<1>1. Rules!EnsureHost(M, h) = IF h \in DOMAIN M THEN M
          ELSE [g \in DOMAIN M \union {h} |-> IF g = h THEN RulesOf(M, FallbackHost) ELSE M[g]]
    BY DEF Rules!EnsureHost, Rules!Extended, Rules!RulesOf, RulesOf, Rules!FallbackHost, FallbackHost
<1> QED
    BY <1>1

LEMMA RulesLocationEnsured ==
    ASSUME NEW c, ConfShape(c), NEW s \in DOMAIN c, NEW N \in 0 .. Len(c[s]),
           NEW L, NEW M, GrowInv(c, M, s, N, L), NEW place \in Places
    PROVE  GrowInv(c, Rules!EnsureLocation(M, place), s, N, L \union {place})
<1> DEFINE host == place[1]
           K == Rules!EnsureHost(M, host)
           A == LocationsOf(c, s, N) \union L
           B == LocationsOf(c, s, N) \union (L \union {place})
           Q == Rules!EnsureLocation(M, place)
<1>1. /\ Covering(M, A) /\ Upper(M, A) /\ FallbackBelow(M)
      /\ \A h \in DOMAIN M : EntriesInv(c, M[h], s, N, h)
    BY DEF GrowInv
<1>2. /\ DOMAIN K = DOMAIN M \union {host} /\ \A g \in DOMAIN M : K[g] = M[g]
      /\ host \notin DOMAIN M => K[host] = RulesOf(M, FallbackHost)
    BY HostEnsured
<1>3. place[2] \in Words
    BY DEF Places
<1>4. Q = [h \in DOMAIN K |-> IF host \in {h, FallbackHost}
                              THEN Rules!EnsureEntry(K[h], h, place[2]) ELSE K[h]]
    BY DEF Rules!EnsureLocation, Rules!FallbackHost, FallbackHost
<1> HIDE DEF K, Q, A, B
<1>5. LocationsOf(c, s, N) \subseteq A
    BY DEF A
<1>6. ASSUME NEW h \in DOMAIN K
      PROVE  EntriesInv(c, K[h], s, N, h) /\ CoversHost(K[h], h, A)
  <2>1. CASE h \in DOMAIN M
    BY <1>1, <1>2, <2>1 DEF Covering
  <2>2. CASE h \notin DOMAIN M
    <3>1. h = host /\ K[h] = RulesOf(M, FallbackHost)
      BY <1>2, <2>2
    <3>2. \A e \in A : e[1] # h /\ e[1] \in DOMAIN M
      BY <1>1, <2>2 DEF Covering
    <3>3. CASE FallbackHost \in DOMAIN M
      <4>1. K[h] = M[FallbackHost]
        BY <3>1, <3>3 DEF RulesOf
      <4>2. EntriesInv(c, K[h], s, N, h)
        BY <1>1, <1>5, <3>2, <3>3, <4>1, RulesHostTaken
      <4>3. CoversHost(K[h], h, A)
        BY <1>1, <3>2, <3>3, <4>1 DEF Covering, CoversHost
      <4> QED
        BY <4>2, <4>3
    <3>4. CASE FallbackHost \notin DOMAIN M
      <4>1. K[h] = <<>> /\ DOMAIN <<>> = {}
        BY <3>1, <3>4 DEF RulesOf
      <4>2. EntriesInv(c, K[h], s, N, h)
        BY <4>1, FS_EmptySet DEF EntriesInv
      <4>3. \A e \in A : e[1] \notin {FallbackHost, h}
        BY <3>2, <3>4
      <4> QED
        BY <4>2, <4>3 DEF CoversHost
    <3> QED
      BY <3>3, <3>4
  <2> QED
    BY <2>1, <2>2
<1>7. FallbackHost \in DOMAIN K => \A h \in DOMAIN K : DOMAIN K[FallbackHost] \subseteq DOMAIN K[h]
  <2>1. CASE FallbackHost \in DOMAIN M
    <3>1. host \notin DOMAIN M => K[host] = M[FallbackHost]
      BY <1>2, <2>1 DEF RulesOf
    <3> QED
      BY <1>1, <1>2, <2>1, <3>1 DEF FallbackBelow
  <2>2. CASE FallbackHost \notin DOMAIN M /\ FallbackHost \in DOMAIN K
    <3>1. K[FallbackHost] = <<>>
      BY <1>2, <2>2 DEF RulesOf
    <3> QED
      BY <3>1
  <2> QED
    BY <2>1, <2>2
<1>8. ASSUME NEW h \in DOMAIN K
      PROVE  /\ EntriesInv(c, Q[h], s, N, h)
             /\ DOMAIN Q[h] = IF host \in {h, FallbackHost} THEN DOMAIN K[h] \union {place[2]}
                              ELSE DOMAIN K[h]
  <2>1. CoversHost(K[h], h, LocationsOf(c, s, N)) /\ EntriesInv(c, K[h], s, N, h)
    BY <1>5, <1>6 DEF CoversHost
  <2>2. CASE host \in {h, FallbackHost}
    <3>1. Q[h] = Rules!EnsureEntry(K[h], h, place[2])
      BY <1>4, <2>2
    <3>2. EntryKept(c, Q[h], K[h], s, N, h, place[2])
      BY <1>3, <2>1, <3>1, RulesEntryKept
    <3> QED
      BY <2>2, <3>2 DEF EntryKept
  <2>3. CASE host \notin {h, FallbackHost}
    BY <1>4, <2>1, <2>3
  <2> QED
    BY <2>2, <2>3
<1>9. DOMAIN Q = DOMAIN K
    BY <1>4
<1>10. FallbackBelow(Q)
    BY <1>7, <1>8, <1>9 DEF FallbackBelow
<1>11. \A e \in B : e \in A \/ e = place
    BY DEF A, B
<1>12. Covering(Q, B)
  <2>1. \A e \in B : e[1] \in DOMAIN Q
    BY <1>1, <1>2, <1>9, <1>11 DEF Covering
  <2>2. ASSUME NEW h \in DOMAIN Q PROVE CoversHost(Q[h], h, B)
    <3> SUFFICES ASSUME NEW e \in B, e[1] \in {FallbackHost, h} PROVE e[2] \in DOMAIN Q[h]
      BY DEF CoversHost
    <3>1. CASE e \in A
      <4>1. e[2] \in DOMAIN K[h]
        BY <1>6, <1>9, <2>2, <3>1 DEF CoversHost
      <4> QED
        BY <1>8, <1>9, <2>2, <4>1
    <3>2. CASE e = place
      BY <1>8, <1>9, <2>2, <3>2
    <3> QED
      BY <1>11, <3>1, <3>2
  <2> QED
    BY <2>1, <2>2 DEF Covering
<1>13. Upper(Q, B)
  <2>1. \A e : e \in A => e \in B
    BY DEF A, B
  <2>2. place \in B
    BY DEF B
  <2> QED
    BY <1>1, <1>2, <1>9, <2>1, <2>2 DEF Upper
<1>14. GrowInv(c, Q, s, N, L \union {place})
    BY <1>8, <1>9, <1>10, <1>12, <1>13 DEF GrowInv, B
<1> QED
    BY <1>14 DEF Q

-----------------------------------------------------------------------------
IsLocated(f, M, L, k) ==
    /\ f = [n \in 0 .. k |-> f[n]]
    /\ f[0] = M
    /\ \A n \in 1 .. k : f[n] = Rules!EnsureLocation(f[n - 1], L[n])

LEMMA LocatedExists ==
    ASSUME NEW M, NEW L, NEW N \in Nat
    PROVE  \E f : IsLocated(f, M, L, N)
<1> DEFINE T == {k \in Nat : \E f : IsLocated(f, M, L, k)}
<1>1. 0 \in T
  <2> DEFINE f == [n \in 0 .. 0 |-> M]
  <2>1. IsLocated(f, M, L, 0)
    BY DEF IsLocated
  <2> QED
    BY <2>1
<1>2. ASSUME NEW k \in T PROVE k + 1 \in T
  <2>1. PICK f : IsLocated(f, M, L, k)
    OBVIOUS
  <2> DEFINE w == Rules!EnsureLocation(f[k], L[k + 1])
             g == [n \in 0 .. (k + 1) |-> IF n = k + 1 THEN w ELSE f[n]]
  <2>2. k \in Nat
    OBVIOUS
  <2>3. /\ f[0] = M
        /\ \A n \in 1 .. k : f[n] = Rules!EnsureLocation(f[n - 1], L[n])
    BY <2>1 DEF IsLocated
  <2>4. g[k + 1] = w /\ \A n \in 0 .. k : g[n] = f[n]
    <3> HIDE DEF w
    <3> QED
      BY <2>2
  <2>5. g = [n \in 0 .. (k + 1) |-> g[n]]
    <3> HIDE DEF w
    <3> QED
      BY <2>2
  <2> HIDE DEF g
  <2>6. g[0] = M
    BY <2>2, <2>3, <2>4
  <2>7. ASSUME NEW n \in 1 .. (k + 1) PROVE g[n] = Rules!EnsureLocation(g[n - 1], L[n])
    <3>1. CASE n = k + 1
      <4>1. n - 1 = k /\ k \in 0 .. k
        BY <2>2, <3>1
      <4> QED
        BY <2>4, <3>1, <4>1
    <3>2. CASE n \in 1 .. k
      <4>1. n \in 0 .. k /\ n - 1 \in 0 .. k
        BY <2>2, <3>2
      <4>2. g[n] = f[n] /\ g[n - 1] = f[n - 1]
        BY <2>4, <4>1
      <4> QED
        BY <2>3, <3>2, <4>2
    <3> QED
      BY <2>2, <3>1, <3>2
  <2>8. IsLocated(g, M, L, k + 1)
    BY <2>5, <2>6, <2>7 DEF IsLocated
  <2> QED
    BY <2>2, <2>8
<1>3. T \in SUBSET Nat
    OBVIOUS
<1> HIDE DEF T
<1>4. \A n \in Nat : n \in T
    BY <1>1, <1>2, <1>3, Induction
<1> QED
    BY <1>4 DEF T

RulesInv(c, M, s, N) == GrowInv(c, M, s, N, {})

LEMMA RulesLocated ==
    ASSUME NEW c, ConfShape(c), NEW s \in DOMAIN c, NEW N \in 0 .. Len(c[s]),
           NEW M, RulesInv(c, M, s, N), NEW L \in Seq(Places), NEW f, IsLocated(f, M, L, Len(L))
    PROVE  GrowInv(c, f[Len(L)], s, N, Range(L))
<1> DEFINE First(n) == {L[i] : i \in 1 .. n}
           T == {n \in Nat : n <= Len(L) => GrowInv(c, f[n], s, N, First(n))}
<1>1. Len(L) \in Nat /\ First(Len(L)) = Range(L)
    BY RangeOfList
<1>2. /\ f[0] = M
      /\ \A n \in 1 .. Len(L) : f[n] = Rules!EnsureLocation(f[n - 1], L[n])
    BY DEF IsLocated
<1>3. 0 \in T
  <2>1. First(0) = {}
    OBVIOUS
  <2> QED
    BY <1>2, <2>1 DEF RulesInv
<1>4. ASSUME NEW n \in T PROVE n + 1 \in T
  <2>1. n \in Nat /\ (n <= Len(L) => GrowInv(c, f[n], s, N, First(n)))
    OBVIOUS
  <2> SUFFICES ASSUME n + 1 <= Len(L) PROVE GrowInv(c, f[n + 1], s, N, First(n + 1))
    BY <2>1
  <2>2. n + 1 \in 1 .. Len(L) /\ (n + 1) - 1 = n /\ n <= Len(L)
    BY <1>1, <2>1
  <2>3. GrowInv(c, f[n], s, N, First(n))
    BY <2>1, <2>2
  <2>4. L[n + 1] \in Places
    BY <2>2
  <2>5. First(n + 1) = First(n) \union {L[n + 1]}
    BY <1>1, <2>1
  <2>6. f[n + 1] = Rules!EnsureLocation(f[n], L[n + 1])
    BY <1>2, <2>2
  <2> HIDE DEF First, T
  <2>7. GrowInv(c, Rules!EnsureLocation(f[n], L[n + 1]), s, N, First(n) \union {L[n + 1]})
    BY <2>3, <2>4, RulesLocationEnsured
  <2> QED
    BY <2>5, <2>6, <2>7
<1>5. T \in SUBSET Nat
    OBVIOUS
<1> HIDE DEF First
<1>6. \A n \in Nat : n \in T
  <2> HIDE DEF T
  <2> QED
    BY <1>3, <1>4, <1>5, Induction
<1> QED
    BY <1>1, <1>6

(* The rule is appended to the entries it matches.                         *)
Appended(c, s, n, h, p) ==
    IF Hit(c, s, n, h, p).any THEN <<RuleElement(c, s, n, h, p)>> ELSE <<>>

IsPushed(K, c, M, s, n, grown) ==
    /\ \E f : /\ IsLocated(f, M, RuleLocations(c[s][n]), Len(RuleLocations(c[s][n])))
              /\ grown = f[Len(RuleLocations(c[s][n]))]
    /\ K = [h \in DOMAIN grown |-> [p \in DOMAIN grown[h] |->
                grown[h][p] \o Appended(c, s, n, h, p)]]

LEMMA PushIs ==
    ASSUME NEW c, ConfShape(c), NEW s \in DOMAIN c, NEW n \in DOMAIN c[s], NEW M
    PROVE  \E grown : IsPushed(Rules!Push(M, c[s][n], <<<<s, n>>>>), c, M, s, n, grown)
<1> DEFINE rule == c[s][n]
           L == RuleLocations(rule)
           N == Len(L)
           Step(f) == [i \in 0 .. N |-> IF i = 0 THEN M ELSE Rules!EnsureLocation(f[i - 1], L[i])]
           made == CHOOSE f : f = Step(f)
           grown == made[N]
<1>1. RuleShape(rule)
    BY DEF ConfShape
<1>2. N \in Nat
    BY <1>1, RuleLocated
<1> HIDE DEF L, N
<1>3. PICK f : IsLocated(f, M, L, N)
    BY <1>2, LocatedExists
<1>4. f = Step(f)
  <2>1. \A i \in 0 .. N : f[i] = Step(f)[i]
    <3> TAKE i \in 0 .. N
    <3>1. i = 0 \/ i \in 1 .. N
      BY <1>2
    <3> QED
      BY <1>3, <3>1 DEF IsLocated
  <2>2. f = [i \in 0 .. N |-> f[i]]
    BY <1>3 DEF IsLocated
  <2> QED
    BY <2>1, <2>2
<1>5. made = Step(made)
    BY <1>4
<1> HIDE DEF made
<1>6. IsLocated(made, M, L, N)
  <2>1. made = [i \in 0 .. N |-> made[i]]
    BY <1>5
  <2>2. made[0] = M
    BY <1>2, <1>5
  <2>3. ASSUME NEW i \in 1 .. N PROVE made[i] = Rules!EnsureLocation(made[i - 1], L[i])
    <3>1. i \in 0 .. N /\ i # 0
      BY <1>2
    <3> HIDE DEF Step
    <3>2. Step(made)[i] = Rules!EnsureLocation(made[i - 1], L[i])
      BY <3>1 DEF Step
    <3> QED
      BY <1>5, <3>2
  <2> QED
    BY <2>1, <2>2, <2>3 DEF IsLocated
<1>7. Rules!Push(M, rule, <<<<s, n>>>>) =
          [h \in DOMAIN grown |-> [p \in DOMAIN grown[h] |->
              grown[h][p] \o Appended(c, s, n, h, p)]]
    BY DEF Rules!Push, Appended, RuleElement, Hit, made, L, N
<1> HIDE DEF grown
<1>8. IsPushed(Rules!Push(M, rule, <<<<s, n>>>>), c, M, s, n, grown)
    BY <1>6, <1>7 DEF IsPushed, L, N, grown
<1> QED
    BY <1>8

LEMMA AppendedOne ==
    ASSUME NEW S, NEW l \in Seq(S), NEW e \in S
    PROVE  l \o <<e>> = Append(l, e)
OBVIOUS

LEMMA GathersMore ==
    ASSUME NEW c, ConfShape(c), NEW s \in DOMAIN c, NEW N \in Nat, N + 1 \in DOMAIN c[s],
           NEW h, NEW p \in Words, NEW l, Gathers(c, l, s, N, h, p)
    PROVE  Gathers(c, l \o Appended(c, s, N + 1, h, p), s, N + 1, h, p)
<1> DEFINE A == RuleElements(c, s, N, h, p)
           B == RuleElements(c, s, N + 1, h, p)
           a == Appended(c, s, N + 1, h, p)
           e == RuleElement(c, s, N + 1, h, p)
<1>1. /\ l \in Seq(A) /\ \A x, y : Ahead(l, x, y) => x.conf # y.conf
      /\ FullIn(c) => \A n \in 1 .. N :
             Hit(c, s, n, h, p).any => RuleElement(c, s, n, h, p) \in Range(l)
    BY DEF Gathers
<1>2. 1 .. (N + 1) = (1 .. N) \union {N + 1} /\ N \in 0 .. Len(c[s]) /\ N + 1 \in Nat
    BY DEF ConfShape
<1>3. A \subseteq B /\ (Hit(c, s, N + 1, h, p).any => e \in B)
    BY <1>2 DEF RuleElements
<1>4. \A x \in A : \E n \in 1 .. N : x.conf = <<<<s, n>>>>
    BY <1>2, ElementIs
<1>5. e.conf = <<<<s, N + 1>>>>
    BY DEF RuleElement
<1>6. \A x \in A : x.conf # e.conf
    BY <1>4, <1>5
<1> HIDE DEF A, B, e
<1>7. l \in Seq(B)
    BY <1>1, <1>3, RangeOfList, InRange
<1>8. CASE ~Hit(c, s, N + 1, h, p).any
  <2>1. a = <<>>
    BY <1>8 DEF Appended
  <2>2. l \o a = l
    BY <1>7, <2>1
  <2>3. \A n \in 1 .. (N + 1) : Hit(c, s, n, h, p).any => n \in 1 .. N
    BY <1>2, <1>8
  <2> HIDE DEF a
  <2>4. Gathers(c, l, s, N + 1, h, p)
    BY <1>1, <1>7, <2>3 DEF Gathers, B
  <2> QED
    BY <2>2, <2>4 DEF a
<1>9. CASE Hit(c, s, N + 1, h, p).any
  <2>1. a = <<e>>
    BY <1>9 DEF Appended, e
  <2>2. l \o a = Append(l, e)
    BY <1>3, <1>7, <1>9, <2>1, AppendedOne
  <2>3. /\ Append(l, e) \in Seq(B)
        /\ Range(Append(l, e)) = Range(l) \union {e}
        /\ \A x, y : Ahead(Append(l, e), x, y) <=> Ahead(l, x, y) \/ (x \in Range(l) /\ y = e)
    BY <1>3, <1>7, <1>9, AppendedList
  <2>4. \A x, y : Ahead(Append(l, e), x, y) => x.conf # y.conf
    BY <1>1, <1>6, <2>3, RangeOfList
  <2>5. FullIn(c) => \A n \in 1 .. (N + 1) :
            Hit(c, s, n, h, p).any => RuleElement(c, s, n, h, p) \in Range(Append(l, e))
    BY <1>1, <1>2, <2>3 DEF e
  <2> HIDE DEF a
  <2>6. Gathers(c, Append(l, e), s, N + 1, h, p)
    BY <2>3, <2>4, <2>5 DEF Gathers, B
  <2> QED
    BY <2>2, <2>6 DEF a
<1> QED
    BY <1>8, <1>9

LEMMA RulePushed ==
    ASSUME NEW c, ConfShape(c), NEW s \in DOMAIN c, NEW N \in Nat, N + 1 \in DOMAIN c[s],
           NEW M, RulesInv(c, M, s, N)
    PROVE  RulesInv(c, Rules!Push(M, c[s][N + 1], <<<<s, N + 1>>>>), s, N + 1)
<1> DEFINE L == RuleLocations(c[s][N + 1])
           new == Rules!Push(M, c[s][N + 1], <<<<s, N + 1>>>>)
<1>0. PICK grown : IsPushed(new, c, M, s, N + 1, grown)
    BY PushIs
<1>1. PICK f : IsLocated(f, M, L, Len(L)) /\ grown = f[Len(L)]
    BY <1>0 DEF IsPushed
<1>2. /\ DOMAIN new = DOMAIN grown
      /\ \A h \in DOMAIN grown : DOMAIN new[h] = DOMAIN grown[h]
      /\ \A h \in DOMAIN grown : \A p \in DOMAIN grown[h] :
             new[h][p] = grown[h][p] \o Appended(c, s, N + 1, h, p)
  <2> HIDE DEF new
  <2>1. new = [h \in DOMAIN grown |-> [p \in DOMAIN grown[h] |->
                  grown[h][p] \o Appended(c, s, N + 1, h, p)]]
    BY <1>0 DEF IsPushed
  <2> QED
    BY <2>1
<1>3. N \in 0 .. Len(c[s]) /\ RuleShape(c[s][N + 1])
    BY DEF ConfShape
<1>4. L \in Seq(Places)
    BY <1>3, RuleLocated
<1>5. GrowInv(c, grown, s, N, Range(L))
    BY <1>1, <1>3, <1>4, RulesLocated
<1>6. LocationsOf(c, s, N) \union Range(L) = LocationsOf(c, s, N + 1) \union {}
  <2>1. 1 .. (N + 1) = (1 .. N) \union {N + 1}
    OBVIOUS
  <2> QED
    BY <2>1 DEF LocationsOf
<1> HIDE DEF new, L
<1>7. /\ Covering(grown, LocationsOf(c, s, N + 1) \union {})
      /\ Upper(grown, LocationsOf(c, s, N + 1) \union {})
      /\ FallbackBelow(grown) /\ \A h \in DOMAIN grown : EntriesInv(c, grown[h], s, N, h)
    BY <1>5, <1>6 DEF GrowInv
<1>8. ASSUME NEW h \in DOMAIN grown PROVE EntriesInv(c, new[h], s, N + 1, h)
  <2>1. IsFiniteSet(DOMAIN new[h])
    BY <1>2, <1>7 DEF EntriesInv
  <2>2. ASSUME NEW p \in DOMAIN new[h]
        PROVE  p \in Words /\ Gathers(c, new[h][p], s, N + 1, h, p)
    <3>1. p \in Words /\ Gathers(c, grown[h][p], s, N, h, p)
      BY <1>2, <1>7, <2>2 DEF EntriesInv
    <3>2. Gathers(c, grown[h][p] \o Appended(c, s, N + 1, h, p), s, N + 1, h, p)
      BY <3>1, GathersMore
    <3> QED
      BY <1>2, <2>2, <3>1, <3>2
  <2> QED
    BY <2>1, <2>2 DEF EntriesInv
<1>9. Covering(new, LocationsOf(c, s, N + 1) \union {})
    BY <1>2, <1>7 DEF Covering, CoversHost
<1>10. Upper(new, LocationsOf(c, s, N + 1) \union {}) /\ FallbackBelow(new)
    BY <1>2, <1>7 DEF Upper, FallbackBelow
<1>11. RulesInv(c, new, s, N + 1)
    BY <1>2, <1>8, <1>9, <1>10 DEF RulesInv, GrowInv
<1> QED
    BY <1>11 DEF new

LEMMA NoRules ==
    ASSUME NEW c, NEW s
    PROVE  RulesInv(c, Rules!NoHosts, s, 0)
<1>1. DOMAIN Rules!NoHosts = {} /\ LocationsOf(c, s, 0) = {}
    BY DEF Rules!NoHosts, LocationsOf
<1> QED
    BY <1>1 DEF RulesInv, GrowInv, Covering, Upper, FallbackBelow

-----------------------------------------------------------------------------
(* Mergers of strict matchers.                                             *)

(* The entry for a path decides what a key below it gets.                  *)
Decides(paths, p, key) ==
    /\ p \in paths /\ IsPrefix(p, key)
    /\ \A q \in paths : IsPrefix(q, key) => IsPrefix(q, p)

(* The entry for p uses a configuration with this matcher for a key.       *)
Used(m, h, p, key) ==
    /\ m.host \in {FallbackHost, h} /\ IsPrefix(m.path, p)
    /\ IF key = p THEN (m.path = p <=> m.exact) ELSE ~m.exact

(* A list for a path has the values of the settings T for a key.           *)
Good(c, l, h, p, key, T) ==
    /\ \A e \in Range(l) : Used(e.matcher, h, p, key) =>
           \A v \in Range(e.conf) : \E s \in T : IsValue(c, v, s, h, key)
    /\ \A e, f : Ahead(l, e, f) /\ Used(e.matcher, h, p, key) /\ Used(f.matcher, h, p, key) =>
           \A v \in Range(e.conf), w \in Range(f.conf) : v[1][1] # w[1][1]
    /\ FullIn(c) => \A s \in T : Applying(c, s, h, key) # {} =>
           \E e \in Range(l) : /\ Used(e.matcher, h, p, key)
                               /\ \E v \in Range(e.conf) : IsValue(c, v, s, h, key)

Elements(paths, h) ==
    {e \in [matcher : MatchersFor(h), sorter : MatchersFor(h), conf : Seq(Seq(Numbers))] :
        /\ e.matcher.path \in paths /\ e.sorter = e.matcher
        /\ \A v, w : ~Ahead(e.conf, v, w)}

EntryInv(c, l, paths, h, p, T) ==
    /\ l \in Seq(Elements(paths, h))
    /\ \A key \in Words : Decides(paths, p, key) => Good(c, l, h, p, key, T)

HostInv(c, E, h, T) ==
    /\ IsFiniteSet(DOMAIN E)
    /\ \A p \in DOMAIN E : p \in Words /\ EntryInv(c, E[p], DOMAIN E, h, p, T)

(* The locations of all rules of some settings.                            *)
LocationsIn(c, T) == UNION {LocationsOf(c, s, Len(c[s])) : s \in T}

MergerInv(c, M, T) ==
    /\ Covering(M, LocationsIn(c, T))
    /\ \A h \in DOMAIN M : HostInv(c, M[h], h, T)

(* Nothing in the entries has been copied.                                 *)
Original(E) == \A p \in DOMAIN E : \A e \in Range(E[p]) : e.matcher.path = p

LEMMA ValueSetting ==
    ASSUME NEW c, NEW v, NEW s, NEW h, NEW key, IsValue(c, v, s, h, key)
    PROVE  v[1][1] = s /\ Applying(c, s, h, key) # {} /\ v \in Seq(Numbers)
<1>1. v \in Seq(Numbers) /\ v # <<>> /\ \A a \in Range(v) : a[1] = s /\ a[2] \in Applying(c, s, h, key)
    BY DEF IsValue
<1>2. 1 \in DOMAIN v
    BY <1>1
<1>3. v[1] \in Range(v)
    BY <1>2 DEF Range
<1> QED
    BY <1>1, <1>3

LEMMA ExactValue ==
    ASSUME NEW c, ConfShape(c), NEW s \in DOMAIN c, NEW h, NEW p \in Words,
           NEW l, Gathers(c, l, s, Len(c[s]), h, p)
    PROVE  ValueOrNone(c, Rules!MergeExact(h, p, l), s, h, p)
<1> DEFINE K == {e \in Range(l) : RuleMatches(e.matcher, h, p, FALSE).any}
<1>1. Rules!MergeExact(h, p, l) = Rules!Join(Selected(l, K))
    BY SameJoin DEF Rules!MergeExact, Rules!Range, Range
<1>2. ASSUME NEW n \in DOMAIN c[s]
      PROVE  /\ RuleElement(c, s, n, h, p) \in Range(l) /\ RuleElement(c, s, n, h, p) \in K =>
                    /\ Hit(c, s, n, h, p).any
                    /\ Hit(c, s, n, h, p).sorter = Hit(c, s, n, h, p).sorter
             /\ FullIn(c) /\ Hit(c, s, n, h, p).any =>
                    RuleElement(c, s, n, h, p) \in Range(l) /\ RuleElement(c, s, n, h, p) \in K
  <2> DEFINE e == RuleElement(c, s, n, h, p)
  <2>1. e.matcher = c[s][n]
    BY DEF RuleElement
  <2>2. n \in 1 .. Len(c[s])
    BY DEF ConfShape
  <2>3. FullIn(c) /\ Hit(c, s, n, h, p).any => e \in Range(l)
    BY <2>2 DEF Gathers
  <2> HIDE DEF e
  <2>4. e \in K <=> e \in Range(l) /\ Hit(c, s, n, h, p).any
    BY <2>1 DEF Hit
  <2> QED
    BY <2>3, <2>4 DEF e
<1> HIDE DEF K
<1>3. ValueOrNone(c, Rules!Join(Selected(l, K)), s, h, p)
    BY <1>2, JoinedValue
<1> QED
    BY <1>1, <1>3

LEMMA PrefixValue ==
    ASSUME NEW c, ConfShape(c), NEW s \in DOMAIN c, NEW h, NEW E,
           EntriesInv(c, E, s, Len(c[s]), h), CoversHost(E, h, LocationsOf(c, s, Len(c[s]))),
           NEW p \in DOMAIN E, NEW key \in Words, Decides(DOMAIN E, p, key), key # p
    PROVE  ValueOrNone(c, Rules!MergePrefix(h, p, E[p]), s, h, key)
<1> DEFINE l == E[p]
           K == {e \in Range(l) : RuleMatches(e.matcher, h, p, TRUE).prefix}
<1>1. Rules!MergePrefix(h, p, l) = Rules!Join(Selected(l, K))
    BY SameJoin DEF Rules!MergePrefix, Rules!Range, Range
<1>2. p \in Words /\ Gathers(c, l, s, Len(c[s]), h, p)
    BY DEF EntriesInv
<1> HIDE DEF l
<1>3. ASSUME NEW n \in DOMAIN c[s]
      PROVE  /\ RuleElement(c, s, n, h, p) \in Range(l) /\ RuleElement(c, s, n, h, p) \in K =>
                    /\ Hit(c, s, n, h, key).any
                    /\ Hit(c, s, n, h, key).sorter = Hit(c, s, n, h, p).sorter
             /\ FullIn(c) /\ Hit(c, s, n, h, key).any =>
                    RuleElement(c, s, n, h, p) \in Range(l) /\ RuleElement(c, s, n, h, p) \in K
  <2> DEFINE e == RuleElement(c, s, n, h, p)
             match == RuleMatches(c[s][n], h, p, TRUE)
  <2>1. e.matcher = c[s][n]
    BY DEF RuleElement
  <2>2. n \in 1 .. Len(c[s]) /\ RuleShape(c[s][n])
    BY DEF ConfShape
  <2>3. NothingBetween(c[s][n], h, p, key)
    <3> SUFFICES ASSUME NEW x \in Range(RuleLocations(c[s][n])),
                        x[1] \in {FallbackHost, h} /\ IsPrefix(x[2], key)
                 PROVE  IsPrefix(x[2], p)
      BY DEF NothingBetween
    <3>1. x \in LocationsOf(c, s, Len(c[s]))
      BY <2>2 DEF LocationsOf
    <3>2. x[2] \in DOMAIN E
      BY <3>1 DEF CoversHost
    <3> QED
      BY <3>2 DEF Decides
  <2>4. IsPrefix(p, key)
    BY DEF Decides
  <2>5. ASSUME match.prefix
        PROVE  /\ RuleMatches(c[s][n], h, key, FALSE).any
               /\ RuleMatches(c[s][n], h, key, FALSE).sorter = match.sorter
    <3> DEFINE rule == c[s][n]
               force == TRUE
    <3>1. RuleShape(rule) /\ NothingBetween(rule, h, p, key) /\ RuleMatches(rule, h, p, force).prefix
      BY <2>2, <2>3, <2>5
    <3> HIDE DEF rule, force
    <3>2. RuleMatches(rule, h, p, force).prefix =>
                  /\ RuleMatches(rule, h, key, FALSE).any
                  /\ RuleMatches(rule, h, key, FALSE).sorter = RuleMatches(rule, h, p, force).sorter
      BY <1>2, <2>4, <3>1, MatchBelow
    <3> QED
      BY <3>1, <3>2 DEF rule, force
  <2>6. RegularRule(c[s][n]) /\ RuleMatches(c[s][n], h, key, FALSE).any => match.prefix
    BY <1>2, <2>2, <2>3, <2>4, MatchBelow
  <2>7. match = RuleMatches(c[s][n], h, p, FALSE) /\ (match.prefix => match.any)
    BY <1>2, <2>2, RuleMatchIs
  <2>8. FullIn(c) => RegularRule(c[s][n])
    BY DEF FullIn, RegularIn
  <2>9. FullIn(c) /\ Hit(c, s, n, h, p).any => e \in Range(l)
    BY <1>2, <2>2 DEF Gathers
  <2> HIDE DEF e
  <2>10. e \in K <=> e \in Range(l) /\ match.prefix
    BY <2>1
  <2> HIDE DEF match, K
  <2> QED
    BY <2>5, <2>6, <2>7, <2>8, <2>9, <2>10 DEF e, Hit
<1> HIDE DEF K
<1>4. ValueOrNone(c, Rules!Join(Selected(l, K)), s, h, key)
    BY <1>2, <1>3, JoinedValue
<1> QED
    BY <1>1, <1>4 DEF l

-----------------------------------------------------------------------------
(* merge_into_merger.                                                      *)

StrictElement(h, p, exact, value) ==
    [matcher |-> Matcher(h, p, exact), sorter |-> Matcher(h, p, exact),
     conf |-> IF value = <<>> THEN <<>> ELSE <<value>>]

LEMMA PairIs ==
    ASSUME NEW S, NEW a \in S, NEW b \in S
    PROVE  /\ <<a, b>> \in Seq(S) /\ Range(<<a, b>>) = {a, b}
           /\ \A x, y : Ahead(<<a, b>>, x, y) => x = a /\ y = b
<1>1. DOMAIN <<a, b>> = 1 .. 2 /\ <<a, b>>[1] = a /\ <<a, b>>[2] = b
    OBVIOUS
<1>2. \A i, j \in 1 .. 2 : i < j => i = 1 /\ j = 2
    OBVIOUS
<1>3. \A i \in 1 .. 2 : i = 1 \/ i = 2
    OBVIOUS
<1>4. 1 \in 1 .. 2 /\ 2 \in 1 .. 2
    OBVIOUS
<1>5. <<a, b>> \in Seq(S)
    OBVIOUS
<1> DEFINE l == <<a, b>>
<1> HIDE DEF l
<1>6. Range(l) = {a, b}
    BY <1>1, <1>3, <1>4 DEF Range, l
<1>7. \A x, y : Ahead(l, x, y) => x = a /\ y = b
  <2>1. DOMAIN l = 1 .. 2 /\ l[1] = a /\ l[2] = b
    BY <1>1 DEF l
  <2> QED
    BY <2>1, <1>2 DEF Ahead
<1> QED
    BY <1>5, <1>6, <1>7 DEF l

LEMMA OneValue ==
    ASSUME NEW S, NEW v \in S
    PROVE  LET l == IF v = <<>> THEN <<>> ELSE <<v>>
           IN  /\ l \in Seq(S) /\ \A x, y : ~Ahead(l, x, y)
               /\ \A x : x \in Range(l) <=> v # <<>> /\ x = v
<1>1. CASE v = <<>>
    BY <1>1, EmptyList
<1>2. CASE v # <<>>
  <2>1. <<v>> \in Seq(S) /\ DOMAIN <<v>> = 1 .. 1 /\ <<v>>[1] = v
    OBVIOUS
  <2> DEFINE l == <<v>>
  <2> HIDE DEF l
  <2>2. \A x, y : ~Ahead(l, x, y)
    BY <2>1 DEF Ahead, l
  <2>3. Range(l) = {v}
    BY <2>1 DEF Range, l
  <2> QED
    BY <1>2, <2>1, <2>2, <2>3 DEF l
<1> QED
    BY <1>1, <1>2

IsStrictElement(e, h, p, exact, value) ==
    /\ e.matcher \in MatchersFor(h) /\ e.sorter = e.matcher
    /\ e.matcher.path = p /\ e.matcher.exact = exact /\ e.matcher.host = h
    /\ e \in [matcher : MatchersFor(h), sorter : MatchersFor(h), conf : Seq(Seq(Numbers))]
    /\ \A x, y : ~Ahead(e.conf, x, y)
    /\ \A x : x \in Range(e.conf) <=> value # <<>> /\ x = value

LEMMA StrictElementIs ==
    ASSUME NEW h \in STRING \union {FallbackHost}, NEW p \in Words, NEW exact \in BOOLEAN,
           NEW value \in Seq(Numbers)
    PROVE  IsStrictElement(StrictElement(h, p, exact, value), h, p, exact, value)
<1> DEFINE m == Matcher(h, p, exact)
           l == IF value = <<>> THEN <<>> ELSE <<value>>
           e == StrictElement(h, p, exact, value)
<1>1. m \in MatchersFor(h) /\ m.path = p /\ m.exact = exact /\ m.host = h
    BY DEF Matcher, MatchersFor, Matchers, Words
<1>2. /\ l \in Seq(Seq(Numbers)) /\ \A x, y : ~Ahead(l, x, y)
      /\ \A x : x \in Range(l) <=> value # <<>> /\ x = value
    BY OneValue
<1>3. e = [matcher |-> m, sorter |-> m, conf |-> l]
    BY DEF StrictElement
<1> HIDE DEF m, l, e
<1>4. /\ e.matcher = m /\ e.sorter = m /\ e.conf = l
      /\ e \in [matcher : MatchersFor(h), sorter : MatchersFor(h), conf : Seq(Seq(Numbers))]
    BY <1>1, <1>2, <1>3
<1>5. IsStrictElement(e, h, p, exact, value)
    BY <1>1, <1>2, <1>4 DEF IsStrictElement
<1> QED
    BY <1>5 DEF e

IsMade(F, E, h) ==
    /\ DOMAIN F = DOMAIN E
    /\ \A p \in DOMAIN E :
           F[p] = <<StrictElement(h, p, TRUE, Rules!MergeExact(h, p, E[p])),
                    StrictElement(h, p, FALSE, Rules!MergePrefix(h, p, E[p]))>>

LEMMA HostMade ==
    ASSUME NEW c, ConfShape(c), NEW s \in DOMAIN c, NEW h \in STRING \union {FallbackHost},
           NEW E, EntriesInv(c, E, s, Len(c[s]), h),
           CoversHost(E, h, LocationsOf(c, s, Len(c[s]))),
           NEW F, IsMade(F, E, h)
    PROVE  HostInv(c, F, h, {s}) /\ Original(F)
<1>1. IsFiniteSet(DOMAIN E) /\ \A p \in DOMAIN E : p \in Words /\ Gathers(c, E[p], s, Len(c[s]), h, p)
    BY DEF EntriesInv
<1>0. /\ DOMAIN F = DOMAIN E
      /\ \A p \in DOMAIN E :
             F[p] = <<StrictElement(h, p, TRUE, Rules!MergeExact(h, p, E[p])),
                      StrictElement(h, p, FALSE, Rules!MergePrefix(h, p, E[p]))>>
    BY DEF IsMade
<1>2. ASSUME NEW p \in DOMAIN E
      PROVE  /\ EntryInv(c, F[p], DOMAIN E, h, p, {s})
             /\ \A e \in Range(F[p]) : e.matcher.path = p
  <2> DEFINE u == Rules!MergeExact(h, p, E[p])
             v == Rules!MergePrefix(h, p, E[p])
             a == StrictElement(h, p, TRUE, u)
             b == StrictElement(h, p, FALSE, v)
             S == Elements(DOMAIN E, h)
  <2>1. p \in Words
    BY <1>1
  <2>2. ValueOrNone(c, u, s, h, p)
    BY <1>1, ExactValue
  <2>3. u \in Seq(Numbers)
    BY <2>2 DEF ValueOrNone
  <2>4. \A key \in Words : Decides(DOMAIN E, p, key) /\ key # p => ValueOrNone(c, v, s, h, key)
    BY PrefixValue
  <2>5. v \in Seq(Numbers)
    <3>1. v = Rules!Join(Selected(E[p], {e \in Range(E[p]) : RuleMatches(e.matcher, h, p, TRUE).prefix}))
      BY SameJoin DEF Rules!MergePrefix, Rules!Range, Range
    <3> DEFINE K == {e \in Range(E[p]) : RuleMatches(e.matcher, h, p, TRUE).prefix}
               A == RuleElements(c, s, Len(c[s]), h, p)
    <3>2. E[p] \in Seq(A)
      BY <1>1 DEF Gathers
    <3>3. SortedBy(A, h, Numbers)
      <4>1. Len(c[s]) \in 0 .. Len(c[s])
        BY DEF ConfShape
      <4> QED
        BY <2>1, <4>1, ElementIs
    <3> HIDE DEF K, A
    <3>4. Selected(E[p], K) \in Seq(A)
      BY <3>2, SelectedList
    <3>5. Rules!Join(Selected(E[p], K)) \in Seq(Numbers)
      BY <3>3, <3>4, JoinOf
    <3> QED
      BY <3>1, <3>5 DEF K
  <2> HIDE DEF u, v
  <2>6. IsStrictElement(a, h, p, TRUE, u)
    BY <2>1, <2>3, StrictElementIs
  <2>7. IsStrictElement(b, h, p, FALSE, v)
    BY <2>1, <2>5, StrictElementIs
  <2>8. F[p] = <<a, b>>
    BY <1>0 DEF u, v
  <2> HIDE DEF a, b, S
  <2>9. a \in S /\ b \in S
    BY <2>6, <2>7 DEF IsStrictElement, Elements, S
  <2>10. /\ F[p] \in Seq(S) /\ Range(F[p]) = {a, b}
         /\ \A x, y : Ahead(F[p], x, y) => x = a /\ y = b
    BY <2>8, <2>9, PairIs
  <2>11. /\ a.matcher.path = p /\ a.matcher.exact /\ a.matcher.host = h
         /\ \A x : x \in Range(a.conf) <=> u # <<>> /\ x = u
    BY <2>6 DEF IsStrictElement
  <2>12. /\ b.matcher.path = p /\ ~b.matcher.exact /\ b.matcher.host = h
         /\ \A x : x \in Range(b.conf) <=> v # <<>> /\ x = v
    BY <2>7 DEF IsStrictElement
  <2>13. IsPrefix(p, p)
    BY <2>1, PrefixFacts
  <2>14. ASSUME NEW key \in Words, Decides(DOMAIN E, p, key)
         PROVE  Good(c, F[p], h, p, key, {s})
    <3>1. CASE key = p
      <4>1. Used(a.matcher, h, p, key) /\ ~Used(b.matcher, h, p, key)
        BY <2>11, <2>12, <2>13, <3>1 DEF Used
      <4>2. u # <<>> => IsValue(c, u, s, h, key)
        BY <2>2, <3>1 DEF ValueOrNone
      <4>3. FullIn(c) /\ Applying(c, s, h, key) # {} => u # <<>>
        BY <2>2, <3>1 DEF ValueOrNone
      <4> QED
        BY <2>10, <2>11, <4>1, <4>2, <4>3 DEF Good
    <3>2. CASE key # p
      <4>1. ~Used(a.matcher, h, p, key) /\ Used(b.matcher, h, p, key)
        BY <2>11, <2>12, <2>13, <3>2 DEF Used
      <4>0. ValueOrNone(c, v, s, h, key)
        BY <2>4, <2>14, <3>2
      <4>2. v # <<>> => IsValue(c, v, s, h, key)
        BY <4>0 DEF ValueOrNone
      <4>3. FullIn(c) /\ Applying(c, s, h, key) # {} => v # <<>>
        BY <4>0 DEF ValueOrNone
      <4> QED
        BY <2>10, <2>12, <4>1, <4>2, <4>3 DEF Good
    <3> QED
      BY <3>1, <3>2
  <2>15. EntryInv(c, F[p], DOMAIN E, h, p, {s})
    BY <2>10, <2>14 DEF EntryInv, S
  <2> QED
    BY <2>10, <2>11, <2>12, <2>15
<1> QED
    BY <1>0, <1>1, <1>2 DEF HostInv, Original

LEMMA MergedIs ==
    ASSUME NEW M
    PROVE  /\ DOMAIN MergeIntoMerger(M) = DOMAIN M
           /\ \A h \in DOMAIN M : DOMAIN MergeIntoMerger(M)[h] = DOMAIN M[h]
           /\ \A h \in DOMAIN M : \A p \in DOMAIN M[h] :
                  MergeIntoMerger(M)[h][p] =
                      <<StrictElement(h, p, TRUE, Rules!MergeExact(h, p, M[h][p])),
                        StrictElement(h, p, FALSE, Rules!MergePrefix(h, p, M[h][p]))>>
<1> DEFINE Entry(h, p) == <<StrictElement(h, p, TRUE, Rules!MergeExact(h, p, M[h][p])),
                            StrictElement(h, p, FALSE, Rules!MergePrefix(h, p, M[h][p]))>>
           K == [h \in DOMAIN M |-> [p \in DOMAIN M[h] |-> Entry(h, p)]]
<1>1. MergeIntoMerger(M) = K
    BY DEF MergeIntoMerger, StrictElement, Rules!MergeEntries
<1> HIDE DEF Entry
<1>2. /\ DOMAIN K = DOMAIN M
      /\ \A h \in DOMAIN M : DOMAIN K[h] = DOMAIN M[h]
      /\ \A h \in DOMAIN M : \A p \in DOMAIN M[h] : K[h][p] = Entry(h, p)
    OBVIOUS
<1> QED
    BY <1>1, <1>2 DEF Entry

LEMMA MergerMade ==
    ASSUME NEW c, ConfShape(c), NEW s \in DOMAIN c, NEW M, RulesInv(c, M, s, Len(c[s]))
    PROVE  LET K == MergeIntoMerger(M)
           IN  /\ MergerInv(c, K, {s}) /\ Upper(K, LocationsIn(c, {s})) /\ FallbackBelow(K)
               /\ \A h \in DOMAIN K : Original(K[h])
<1> DEFINE K == MergeIntoMerger(M)
           L == LocationsOf(c, s, Len(c[s]))
<1>1. /\ DOMAIN K = DOMAIN M
      /\ \A h \in DOMAIN M : DOMAIN K[h] = DOMAIN M[h]
      /\ \A h \in DOMAIN M : \A p \in DOMAIN M[h] :
             K[h][p] = <<StrictElement(h, p, TRUE, Rules!MergeExact(h, p, M[h][p])),
                         StrictElement(h, p, FALSE, Rules!MergePrefix(h, p, M[h][p]))>>
    BY MergedIs
<1>2. L \union {} = LocationsIn(c, {s}) /\ L \union {} = L
    BY DEF LocationsIn
<1>3. /\ Covering(M, L) /\ Upper(M, L) /\ FallbackBelow(M)
      /\ \A h \in DOMAIN M : EntriesInv(c, M[h], s, Len(c[s]), h)
    BY <1>2 DEF RulesInv, GrowInv
<1> HIDE DEF K
<1>4. ASSUME NEW h \in DOMAIN M PROVE HostInv(c, K[h], h, {s}) /\ Original(K[h])
  <2>1. PICK e \in L : e[1] = h
    BY <1>3 DEF Upper
  <2>2. h \in STRING \union {FallbackHost}
    <3>1. PICK n \in 1 .. Len(c[s]) : e \in Range(RuleLocations(c[s][n]))
      BY <2>1 DEF LocationsOf
    <3>2. RuleShape(c[s][n])
      BY DEF ConfShape
    <3>3. e \in Places
      BY <3>1, <3>2, RuleLocated, RangeOfList
    <3> QED
      BY <2>1, <3>3 DEF Places
  <2>3. EntriesInv(c, M[h], s, Len(c[s]), h) /\ CoversHost(M[h], h, L)
    BY <1>3 DEF Covering
  <2> DEFINE E == M[h]
             F == K[h]
  <2>4. /\ DOMAIN F = DOMAIN E
        /\ \A p \in DOMAIN E :
               F[p] = <<StrictElement(h, p, TRUE, Rules!MergeExact(h, p, E[p])),
                        StrictElement(h, p, FALSE, Rules!MergePrefix(h, p, E[p]))>>
    BY <1>1
  <2>6. IsMade(F, E, h)
    BY <2>4 DEF IsMade
  <2>5. EntriesInv(c, E, s, Len(c[s]), h) /\ CoversHost(E, h, LocationsOf(c, s, Len(c[s])))
    BY <2>3
  <2> HIDE DEF E, F, L
  <2>7. HostInv(c, F, h, {s}) /\ Original(F)
    BY <2>2, <2>5, <2>6, HostMade
  <2> QED
    BY <2>7 DEF F
<1>5. Covering(K, L) /\ Upper(K, L) /\ FallbackBelow(K)
    BY <1>1, <1>3 DEF Covering, Upper, FallbackBelow, CoversHost
<1> QED
    BY <1>1, <1>2, <1>4, <1>5 DEF MergerInv, K

-----------------------------------------------------------------------------
(* The order of paths.                                                     *)

(* A path's place and the places of later ones.                            *)
LEMMA PlaceIs ==
    ASSUME NEW S \in SUBSET Words, IsFiniteSet(S), NEW p \in Words
    PROVE  /\ Place(S, p) \in Nat /\ Place(S, p) >= 1
           /\ p \in S => Place(S, p) <= Cardinality(S)
           /\ Cardinality(S) \in Nat
<1> DEFINE A == {q \in S : PathBefore(q, p)}
<1>1. IsFiniteSet(A) /\ Cardinality(A) <= Cardinality(S)
  <2>1. A \in SUBSET S
    OBVIOUS
  <2> HIDE DEF A
  <2> QED
    BY <2>1, FS_Subset
<1>2. Cardinality(A) \in Nat
  <2> HIDE DEF A
  <2> QED
    BY <1>1, FS_CardinalityType
<1>3. Cardinality(S) \in Nat
    BY FS_CardinalityType
<1>4. p \in S => Cardinality(S) # Cardinality(A)
  <2>1. p \notin A
    BY PathOrder
  <2>2. A \in SUBSET S
    OBVIOUS
  <2> HIDE DEF A
  <2>3. Cardinality(S) = Cardinality(A) => S = A
    BY <2>2, FS_Subset
  <2> QED
    BY <2>1, <2>3
<1>5. Place(S, p) = Cardinality(A) + 1
    BY DEF Place
<1> HIDE DEF A
<1> QED
    BY <1>1, <1>2, <1>3, <1>4, <1>5

(* Fewer paths: the same place is the one of the same path or a later one. *)
LEMMA SamePlace ==
    ASSUME NEW U \in SUBSET Words, IsFiniteSet(U), NEW S \in SUBSET U,
           NEW p \in Words, NEW q \in S, Place(S, q) = Place(U, p)
    PROVE  q = p \/ PathBefore(p, q)
<1> SUFFICES ASSUME PathBefore(q, p) PROVE FALSE
    BY PathOrder
<1> DEFINE A == {x \in S : PathBefore(x, q)}
           B == {x \in U : PathBefore(x, p)}
<1>1. A \in SUBSET B /\ q \in B /\ q \notin A
  <2>1. q \notin A
    BY PathOrder
  <2>2. \A x \in A : x \in U /\ PathBefore(x, p)
    BY PathOrder
  <2> QED
    BY <2>1, <2>2
<1>2. B \in SUBSET U
    OBVIOUS
<1>3. Place(S, q) = Cardinality(A) + 1 /\ Place(U, p) = Cardinality(B) + 1
    BY DEF Place
<1> HIDE DEF A, B
<1>4. IsFiniteSet(B)
    BY <1>2, FS_Subset
<1>5. IsFiniteSet(A) /\ (Cardinality(B) = Cardinality(A) => B = A)
    BY <1>1, <1>4, FS_Subset
<1>6. Cardinality(A) \in Nat /\ Cardinality(B) \in Nat
    BY <1>4, <1>5, FS_CardinalityType
<1> DEFINE a == Cardinality(A)
           b == Cardinality(B)
<1>7. a \in Nat /\ b \in Nat /\ a + 1 = b + 1
    BY <1>3, <1>6
<1> HIDE DEF a, b
<1>8. a = b
    BY <1>7
<1> QED
    BY <1>1, <1>5, <1>8 DEF a, b

(* Every number up to the number of paths is the place of one of them.     *)
LEMMA PlacesTaken ==
    ASSUME NEW S \in SUBSET Words, IsFiniteSet(S)
    PROVE  \A n \in 1 .. Cardinality(S) : \E p \in S : Place(S, p) = n
<1> DEFINE N == Cardinality(S)
           I == 1 .. N
           f == [p \in S |-> Place(S, p)]
<1>1. N \in Nat
    BY FS_CardinalityType
<1>2. \A p \in S : Place(S, p) \in I
    BY <1>1, PlaceIs
<1>3. \A p, q \in S : Place(S, p) = Place(S, q) => p = q
  <2> TAKE p, q \in S
  <2> HAVE Place(S, p) = Place(S, q)
  <2>1. q = p \/ PathBefore(p, q)
    BY SamePlace
  <2>2. p = q \/ PathBefore(q, p)
    BY SamePlace
  <2> QED
    BY <2>1, <2>2, PathOrder
<1>4. f \in [S -> I]
    BY <1>2
<1>5. \A p, q \in S : f[p] = f[q] => p = q
    BY <1>3
<1>6. IsFiniteSet(I) /\ Cardinality(I) = N
  <2>1. IsFiniteSet(1 .. N) /\ Cardinality(1 .. N) = IF 1 > N THEN 0 ELSE N - 1 + 1
    BY <1>1, FS_Interval
  <2> HIDE DEF N
  <2> QED
    BY <1>1, <2>1
<1> HIDE DEF f, I
<1>7. f \in Injection(S, I)
    BY <1>4, <1>5, Fun_IsInj
<1>8. Cardinality(S) = Cardinality(I) <=> f \in Surjection(S, I)
    BY <1>6, <1>7, FS_Injection
<1>9. \A n \in I : \E p \in S : f[p] = n
    BY <1>6, <1>8 DEF Surjection
<1> QED
    BY <1>9 DEF f, I

LEMMA InPlaceIs ==
    ASSUME NEW S \in SUBSET Words, IsFiniteSet(S)
    PROVE  /\ \A p \in S : Place(S, p) \in 1 .. Cardinality(S) /\ InPlace(S, Place(S, p)) = {p}
           /\ \A n \in 1 .. Cardinality(S) : \E p \in S : Place(S, p) = n /\ InPlace(S, n) = {p}
<1>1. \A p \in S : Place(S, p) \in 1 .. Cardinality(S)
    BY PlaceIs
<1>2. \A p, q \in S : Place(S, p) = Place(S, q) => p = q
  <2> TAKE p, q \in S
  <2> HAVE Place(S, p) = Place(S, q)
  <2>1. q = p \/ PathBefore(p, q)
    BY SamePlace
  <2>2. p = q \/ PathBefore(q, p)
    BY SamePlace
  <2> QED
    BY <2>1, <2>2, PathOrder
<1>3. \A p \in S : InPlace(S, Place(S, p)) = {p}
    BY <1>2 DEF InPlace
<1>4. \A n \in 1 .. Cardinality(S) : \E p \in S : Place(S, p) = n
    BY PlacesTaken
<1> QED
    BY <1>1, <1>3, <1>4

-----------------------------------------------------------------------------
(* Strict mergers get further entries.                                     *)

LEMMA StrictIs ==
    ASSUME NEW h, NEW m \in MatchersFor(h), NEW p \in Words
    PROVE  /\ StrictMatches(m, h, p, FALSE).any <=> Used(m, h, p, p)
           /\ StrictMatches(m, h, p, FALSE).any => StrictMatches(m, h, p, FALSE).sorter = m
           /\ \A key : key # p => (StrictMatches(m, h, p, TRUE).prefix <=> Used(m, h, p, key))
<1>1. m.host \in {FallbackHost, h} /\ m.path \in Words /\ m.exact \in BOOLEAN
    BY DEF MatchersFor, Matchers, Words
<1>2. IsPrefix(p, p)
    BY PrefixFacts
<1> DEFINE a == StrictMatches(m, h, p, FALSE)
           b == StrictMatches(m, h, p, TRUE)
<1>3. CASE m.path = p
  <2>3. CASE m.exact
    <3>1. /\ a = [any |-> TRUE, exact |-> TRUE, prefix |-> FALSE, sorter |-> m]
          /\ b = [any |-> TRUE, exact |-> TRUE, prefix |-> FALSE, sorter |-> m]
      BY <1>1, <1>3, <2>3 DEF StrictMatches, Match
    <3> HIDE DEF a, b
    <3>2. a.any /\ a.sorter = m /\ ~b.prefix
      BY <3>1
    <3>3. Used(m, h, p, p) /\ \A key : key # p => ~Used(m, h, p, key)
      BY <1>1, <1>2, <1>3, <2>3 DEF Used
    <3> QED
      BY <3>2, <3>3 DEF a, b
  <2>4. CASE ~m.exact
    <3>1. /\ a = NoMatch
          /\ b = [any |-> TRUE, exact |-> FALSE, prefix |-> TRUE, sorter |-> m]
      BY <1>1, <1>3, <2>4 DEF StrictMatches, Match
    <3> HIDE DEF a, b
    <3>2. ~a.any /\ b.prefix
      BY <3>1 DEF NoMatch
    <3>3. ~Used(m, h, p, p) /\ \A key : key # p => Used(m, h, p, key)
      BY <1>1, <1>2, <1>3, <2>4 DEF Used
    <3> QED
      BY <3>2, <3>3 DEF a, b
  <2> QED
    BY <2>3, <2>4
<1>4. CASE m.path # p
  <2>2. CASE ~m.exact /\ IsPrefix(m.path, p)
    <3>1. /\ a = [any |-> TRUE, exact |-> FALSE, prefix |-> TRUE, sorter |-> m]
          /\ b = [any |-> TRUE, exact |-> FALSE, prefix |-> TRUE, sorter |-> m]
      BY <1>1, <1>4, <2>2 DEF StrictMatches, Match
    <3> HIDE DEF a, b
    <3>2. a.any /\ a.sorter = m /\ b.prefix
      BY <3>1
    <3>3. \A key : Used(m, h, p, key)
      BY <1>1, <1>4, <2>2 DEF Used
    <3> QED
      BY <3>2, <3>3 DEF a, b
  <2>3. CASE ~(~m.exact /\ IsPrefix(m.path, p))
    <3>1. a = NoMatch /\ b = NoMatch
      BY <1>1, <1>4, <2>3 DEF StrictMatches, Match
    <3> HIDE DEF a, b
    <3>2. ~a.any /\ ~b.prefix
      BY <3>1 DEF NoMatch
    <3>3. \A key : ~Used(m, h, p, key)
      BY <1>1, <1>4, <2>3 DEF Used
    <3> QED
      BY <3>2, <3>3 DEF a, b
  <2> QED
    BY <2>2, <2>3
<1> QED
    BY <1>3, <1>4

StrictKept(l, h, p) == Selected(l, {e \in Range(l) : StrictMatches(e.matcher, h, p, FALSE).any})
StrictCopied(l, h, p) ==
    [i \in DOMAIN StrictKept(l, h, p) |->
        [StrictKept(l, h, p)[i] EXCEPT !.sorter =
            StrictMatches(StrictKept(l, h, p)[i].matcher, h, p, FALSE).sorter]]

LEMMA StrictEnsured ==
    ASSUME NEW E, NEW h, NEW p
    PROVE  Grows(Strict!EnsureEntry(E, h, p), E, p, StrictCopied(ParentEntry(E, p), h, p))
<1> DEFINE new == StrictCopied(ParentEntry(E, p), h, p)
<1>1. Strict!EnsureEntry(E, h, p) = IF p \in DOMAIN E THEN E ELSE Strict!Extended(E, p, new)
    BY DEF Strict!EnsureEntry, StrictCopied, StrictKept, ParentEntry, Strict!ParentsOf,
           Strict!Closest, Closest, Strict!Selected, Selected, Strict!Range, Range,
           Strict!IsStrictPrefix, IsStrictPrefix, Strict!IsPrefix, IsPrefix
<1> HIDE DEF new
<1>2. Strict!Extended(E, p, new) = [x \in DOMAIN E \union {p} |-> IF x = p THEN new ELSE E[x]]
    BY DEF Strict!Extended
<1>3. CASE p \in DOMAIN E
    BY <1>1, <1>3 DEF Grows
<1>4. CASE p \notin DOMAIN E
    BY <1>1, <1>2, <1>4 DEF Grows, new
<1> QED
    BY <1>3, <1>4

LEMMA ElementShape ==
    ASSUME NEW paths, NEW h, NEW e \in Elements(paths, h)
    PROVE  /\ e.matcher \in MatchersFor(h) /\ e.sorter = e.matcher /\ e.sorter \in MatchersFor(h)
           /\ e.conf \in Seq(Seq(Numbers)) /\ e.matcher.path \in paths
           /\ \A v, w : ~Ahead(e.conf, v, w)
           /\ [e EXCEPT !.sorter = e.sorter] = e
BY DEF Elements

LEMMA StrictCopyIs ==
    ASSUME NEW paths, NEW h, NEW l \in Seq(Elements(paths, h)), NEW p \in Words
    PROVE  /\ StrictCopied(l, h, p) = StrictKept(l, h, p)
           /\ StrictKept(l, h, p) \in Seq(Elements(paths, h))
           /\ \A e : e \in Range(StrictKept(l, h, p)) <=> e \in Range(l) /\ Used(e.matcher, h, p, p)
           /\ \A e, f : Ahead(StrictKept(l, h, p), e, f) => Ahead(l, e, f)
<1> DEFINE S == Elements(paths, h)
           K == {e \in Range(l) : StrictMatches(e.matcher, h, p, FALSE).any}
           k == StrictKept(l, h, p)
<1>1. \A e \in Range(l) : e \in S
    BY RangeOfList
<1>2. \A e \in Range(l) : e.matcher \in MatchersFor(h)
    BY <1>1, ElementShape
<1>3. \A e \in Range(l) : e \in K <=> Used(e.matcher, h, p, p)
    BY <1>2, StrictIs
<1>4. k = Selected(l, K)
    BY DEF StrictKept
<1> HIDE DEF K, k
<1>5. /\ k \in Seq(S) /\ Range(k) = Range(l) \intersect K
      /\ \A x, y : Ahead(k, x, y) => Ahead(l, x, y)
  <2> HIDE DEF S
  <2>1. l \in Seq(S)
    BY DEF S
  <2> QED
    BY <1>4, <2>1, SelectedList
<1>6. \A i \in DOMAIN k : k[i] \in S /\ k[i] \in Range(k)
    BY <1>5 DEF Range
<1>7. \A i \in DOMAIN k :
          [k[i] EXCEPT !.sorter = StrictMatches(k[i].matcher, h, p, FALSE).sorter] = k[i]
  <2> TAKE i \in DOMAIN k
  <2> DEFINE e == k[i]
             x == StrictMatches(k[i].matcher, h, p, FALSE).sorter
  <2>1. e \in S /\ e \in Range(l) /\ e \in K
    BY <1>5, <1>6
  <2>2. e.matcher \in MatchersFor(h) /\ e.sorter = e.matcher /\ [e EXCEPT !.sorter = e.sorter] = e
    BY <2>1, ElementShape
  <2>3. StrictMatches(e.matcher, h, p, FALSE).any
    BY <2>1 DEF K
  <2> DEFINE m == e.matcher
  <2>6. m \in MatchersFor(h) /\ StrictMatches(m, h, p, FALSE).any
    BY <2>2, <2>3
  <2> HIDE DEF m
  <2>7. StrictMatches(m, h, p, FALSE).sorter = m
    BY <2>6, StrictIs
  <2>4. x = e.sorter
    BY <2>2, <2>7 DEF m
  <2> HIDE DEF x, e
  <2>5. [e EXCEPT !.sorter = x] = e
    BY <2>2, <2>4
  <2> QED
    BY <2>5 DEF e, x
<1>8. StrictCopied(l, h, p) = [i \in DOMAIN k |->
          [k[i] EXCEPT !.sorter = StrictMatches(k[i].matcher, h, p, FALSE).sorter]]
    BY DEF StrictCopied, k
<1>9. StrictCopied(l, h, p) = [i \in DOMAIN k |-> k[i]]
    BY <1>7, <1>8
<1>10. k = [i \in DOMAIN k |-> k[i]]
    BY <1>5
<1>11. StrictCopied(l, h, p) = k
    BY <1>9, <1>10
<1>12. \A e : e \in Range(k) <=> e \in Range(l) /\ Used(e.matcher, h, p, p)
    BY <1>3, <1>5
<1> QED
    BY <1>5, <1>11, <1>12 DEF k

-----------------------------------------------------------------------------
LEMMA MoreElements ==
    ASSUME NEW P, NEW Q, P \subseteq Q, NEW h, NEW l \in Seq(Elements(P, h))
    PROVE  l \in Seq(Elements(Q, h))
<1>1. Elements(P, h) \subseteq Elements(Q, h)
    BY DEF Elements
<1>2. \A e \in Range(l) : e \in Elements(Q, h)
    BY <1>1, RangeOfList
<1> HIDE DEF Elements
<1> QED
    BY <1>2, InRange

StrictEntryKept(c, F, E, h, p, T) == HostInv(c, F, h, T) /\ DOMAIN F = DOMAIN E \union {p}

(* A setting whose rules have no location above a key has none for it.     *)
LEMMA NothingAbove ==
    ASSUME NEW c, ConfShape(c), NEW T \in SUBSET DOMAIN c, NEW s \in T, NEW h, NEW key \in Words,
           \A e \in LocationsIn(c, T) : e[1] \in {FallbackHost, h} => ~IsPrefix(e[2], key)
    PROVE  Applying(c, s, h, key) = {}
<1> SUFFICES ASSUME NEW n \in Applying(c, s, h, key) PROVE FALSE
    OBVIOUS
<1>1. n \in DOMAIN c[s] /\ Hit(c, s, n, h, key).any /\ s \in DOMAIN c
    BY DEF Applying
<1>2. RuleShape(c[s][n]) /\ n \in 1 .. Len(c[s])
    BY <1>1 DEF ConfShape
<1>3. PICK e \in Range(RuleLocations(c[s][n])) : e[1] \in {FallbackHost, h} /\ IsPrefix(e[2], key)
    BY <1>1, <1>2, MatchLocated DEF Hit
<1>4. e \in LocationsIn(c, T)
    BY <1>2 DEF LocationsOf, LocationsIn
<1> QED
    BY <1>3, <1>4

LEMMA NothingGood ==
    ASSUME NEW c, NEW h, NEW p, NEW key, NEW T, \A s \in T : Applying(c, s, h, key) = {}
    PROVE  Good(c, <<>>, h, p, key, T)
BY EmptyList DEF Good

LEMMA StrictEntryEnsured ==
    ASSUME NEW c, ConfShape(c), NEW T \in SUBSET DOMAIN c, NEW h,
           NEW E, HostInv(c, E, h, T), CoversHost(E, h, LocationsIn(c, T)), NEW p \in Words
    PROVE  StrictEntryKept(c, Strict!EnsureEntry(E, h, p), E, h, p, T)
<1> DEFINE F == Strict!EnsureEntry(E, h, p)
           D == DOMAIN E \union {p}
<1>1. /\ DOMAIN F = D /\ \A q \in DOMAIN E : F[q] = E[q]
      /\ p \notin DOMAIN E => F[p] = StrictCopied(ParentEntry(E, p), h, p)
  <2> HIDE DEF F
  <2>1. Grows(F, E, p, StrictCopied(ParentEntry(E, p), h, p))
    BY StrictEnsured DEF F
  <2> QED
    BY <2>1 DEF Grows
<1> HIDE DEF F
<1>2. /\ IsFiniteSet(DOMAIN E)
      /\ \A q \in DOMAIN E : /\ q \in Words /\ E[q] \in Seq(Elements(DOMAIN E, h))
                             /\ \A key \in Words : Decides(DOMAIN E, q, key)
                                                      => Good(c, E[q], h, q, key, T)
    BY DEF HostInv, EntryInv
<1>3. IsFiniteSet(D)
    BY <1>2, FS_AddElement
<1>4. ASSUME NEW q \in DOMAIN E PROVE q \in Words /\ EntryInv(c, F[q], D, h, q, T)
  <2>1. F[q] \in Seq(Elements(D, h))
    BY <1>1, <1>2, MoreElements
  <2>2. \A key : Decides(D, q, key) => Decides(DOMAIN E, q, key)
    BY DEF Decides
  <2> HIDE DEF D
  <2> QED
    BY <1>1, <1>2, <2>1, <2>2 DEF EntryInv
<1>5. ASSUME p \notin DOMAIN E PROVE EntryInv(c, F[p], D, h, p, T)
  <2>1. DOMAIN E \in SUBSET Words
    BY <1>2
  <2>2. CASE ParentEntry(E, p) = <<>> /\ \A q \in DOMAIN E : ~IsPrefix(q, p)
    <3>1. <<>> \in Seq(Elements(D, h))
      BY EmptyList
    <3> DEFINE l == <<>>
               k == StrictKept(l, h, p)
               S == Elements(D, h)
    <3>3. F[p] = <<>>
      <4>1. l \in Seq(S) /\ Range(l) = {}
        BY <3>1, EmptyList
      <4>2. F[p] = StrictCopied(l, h, p)
        BY <1>1, <1>5, <2>2
      <4> HIDE DEF k, l
      <4>3. /\ StrictCopied(l, h, p) = k /\ k \in Seq(S)
            /\ \A e : e \in Range(k) => e \in Range(l)
        BY <4>1, StrictCopyIs DEF k
      <4>4. Range(k) = {}
        BY <4>1, <4>3
      <4> HIDE DEF S
      <4> QED
        BY <4>2, <4>3, <4>4, RangeOfList
    <3>4. ASSUME NEW key \in Words, Decides(D, p, key) PROVE Good(c, <<>>, h, p, key, T)
      <4>1. \A e \in LocationsIn(c, T) : e[1] \in {FallbackHost, h} => ~IsPrefix(e[2], key)
        BY <2>2, <3>4 DEF CoversHost, Decides
      <4>2. \A s \in T : Applying(c, s, h, key) = {}
        BY <4>1, NothingAbove
      <4> QED
        BY <4>2, NothingGood
    <3> QED
      BY <3>1, <3>3, <3>4 DEF EntryInv
  <2>3. ASSUME NEW q \in DOMAIN E,
               ParentEntry(E, p) = E[q] /\ q # p /\ IsPrefix(q, p)
                 /\ \A r \in DOMAIN E : IsPrefix(r, p) => IsPrefix(r, q)
        PROVE  EntryInv(c, F[p], D, h, p, T)
    <3> DEFINE l == E[q]
               k == StrictKept(l, h, p)
    <3>1. l \in Seq(Elements(DOMAIN E, h)) /\ q \in Words
      BY <1>2
    <3>2. StrictCopied(l, h, p) = k
      BY <3>1, StrictCopyIs
    <3>3. /\ k \in Seq(Elements(DOMAIN E, h))
          /\ \A e : e \in Range(k) <=> e \in Range(l) /\ Used(e.matcher, h, p, p)
          /\ \A e, f : Ahead(k, e, f) => Ahead(l, e, f)
      BY <3>1, StrictCopyIs
    <3>4. F[p] = k
      BY <1>1, <1>5, <2>3, <3>2
    <3>5. \A e \in Range(l) : e.matcher.path \in DOMAIN E
      BY <3>1, RangeOfList, ElementShape
    <3> HIDE DEF k, l
    <3>6. ASSUME NEW key \in Words, Decides(D, p, key) PROVE Good(c, k, h, p, key, T)
      <4>1. /\ IsPrefix(p, key) /\ p \in Words
            /\ \A r \in DOMAIN E : IsPrefix(r, key) => IsPrefix(r, p)
        BY <3>6 DEF Decides
      <4>2. IsPrefix(q, key) /\ key # q
        BY <2>3, <3>1, <4>1, PrefixOrder
      <4>3. Decides(DOMAIN E, q, key)
        BY <2>3, <4>1, <4>2 DEF Decides
      <4>4. Good(c, l, h, q, key, T)
        BY <1>2, <4>3 DEF l
      <4>5. ASSUME NEW e \in Range(l)
            PROVE  Used(e.matcher, h, q, key) <=> e \in Range(k)
        <5> DEFINE m == e.matcher
        <5>1. m.path \in DOMAIN E /\ m.path \in Words /\ m.path # p
          BY <1>2, <1>5, <3>5
        <5>2. IsPrefix(m.path, p) <=> IsPrefix(m.path, q)
          BY <2>3, <3>1, <4>1, <5>1, PrefixOrder
        <5>3. e \in Range(k) <=> Used(m, h, p, p)
          BY <3>3
        <5>4. Used(m, h, p, p) <=> Used(m, h, q, key)
          BY <4>2, <5>1, <5>2 DEF Used
        <5> QED
          BY <5>3, <5>4
      <4>6. ASSUME NEW e \in Range(k)
            PROVE  e \in Range(l) /\ Used(e.matcher, h, p, key) /\ Used(e.matcher, h, q, key)
        <5>1. e \in Range(l) /\ Used(e.matcher, h, p, p)
          BY <3>3
        <5>2. e.matcher.path # p
          BY <1>5, <3>5, <5>1
        <5>3. Used(e.matcher, h, p, key)
          BY <5>1, <5>2 DEF Used
        <5> QED
          BY <4>5, <5>1, <5>3
      <4>7. \A e \in Range(k) : Used(e.matcher, h, p, key) =>
                \A v \in Range(e.conf) : \E s \in T : IsValue(c, v, s, h, key)
        BY <4>4, <4>6 DEF Good
      <4>8. \A e, f : Ahead(k, e, f) /\ Used(e.matcher, h, p, key) /\ Used(f.matcher, h, p, key) =>
                \A v \in Range(e.conf), w \in Range(f.conf) : v[1][1] # w[1][1]
        <5> SUFFICES ASSUME NEW e, NEW f, Ahead(k, e, f)
                     PROVE  \A v \in Range(e.conf), w \in Range(f.conf) : v[1][1] # w[1][1]
          OBVIOUS
        <5>1. Ahead(l, e, f) /\ e \in Range(k) /\ f \in Range(k)
          BY <3>3, AheadRange
        <5>2. Used(e.matcher, h, q, key) /\ Used(f.matcher, h, q, key)
          BY <4>6, <5>1
        <5> QED
          BY <4>4, <5>1, <5>2 DEF Good
      <4>9. ASSUME FullIn(c), NEW s \in T, Applying(c, s, h, key) # {}
            PROVE  \E e \in Range(k) : /\ Used(e.matcher, h, p, key)
                                       /\ \E v \in Range(e.conf) : IsValue(c, v, s, h, key)
        <5>1. PICK e \in Range(l) : /\ Used(e.matcher, h, q, key)
                                    /\ \E v \in Range(e.conf) : IsValue(c, v, s, h, key)
          BY <4>4, <4>9 DEF Good
        <5>2. e \in Range(k) /\ Used(e.matcher, h, p, key)
          BY <4>5, <4>6, <5>1
        <5> QED
          BY <5>1, <5>2
      <4> QED
        BY <4>7, <4>8, <4>9 DEF Good
    <3>7. k \in Seq(Elements(D, h))
      BY <3>3, MoreElements
    <3> QED
      BY <3>4, <3>6, <3>7 DEF EntryInv
  <2> QED
    BY <1>5, <2>1, <2>2, <2>3, ParentIs
<1>6. HostInv(c, F, h, T)
    BY <1>1, <1>3, <1>4, <1>5 DEF HostInv
<1> QED
    BY <1>1, <1>6 DEF F, StrictEntryKept

-----------------------------------------------------------------------------
(* Hosts.                                                                  *)

(* K is M with a host, which has the entries of the fallback host if it is new. *)
HostAdded(K, M, h) ==
    /\ DOMAIN K = DOMAIN M \union {h} /\ \A g \in DOMAIN M : K[g] = M[g]
    /\ h \notin DOMAIN M => K[h] = RulesOf(M, FallbackHost)

LEMMA StrictHostEnsured ==
    ASSUME NEW M, NEW h
    PROVE  HostAdded(Strict!EnsureHost(M, h), M, h)
<1>1. Strict!EnsureHost(M, h) = IF h \in DOMAIN M THEN M
          ELSE [g \in DOMAIN M \union {h} |-> IF g = h THEN RulesOf(M, FallbackHost) ELSE M[g]]
    BY DEF Strict!EnsureHost, Strict!Extended, Strict!RulesOf, RulesOf, Strict!FallbackHost,
           FallbackHost
<1> QED
    BY <1>1 DEF HostAdded

(* A host that no rule of a setting names gets what the fallback host gets. *)
LEMMA SameValues ==
    ASSUME NEW c, ConfShape(c), NEW s \in DOMAIN c, NEW h, NEW key \in Words,
           \A e \in LocationsOf(c, s, Len(c[s])) : e[1] # h
    PROVE  /\ Applying(c, s, h, key) = Applying(c, s, FallbackHost, key)
           /\ \A v : IsValue(c, v, s, h, key) <=> IsValue(c, v, s, FallbackHost, key)
<1>1. ASSUME NEW n \in DOMAIN c[s] PROVE Hit(c, s, n, h, key) = Hit(c, s, n, FallbackHost, key)
  <2>1. RuleShape(c[s][n]) /\ n \in 1 .. Len(c[s])
    BY DEF ConfShape
  <2>2. \A e \in Range(RuleLocations(c[s][n])) : e[1] # h
    BY <2>1 DEF LocationsOf
  <2> QED
    BY <2>1, <2>2, MatchUnnamed DEF Hit
<1>2. Applying(c, s, h, key) = Applying(c, s, FallbackHost, key)
    BY <1>1 DEF Applying
<1>3. ASSUME NEW v, \A a \in Range(v) : a[2] \in Applying(c, s, h, key)
      PROVE  \A a, b : Ahead(v, a, b) =>
                 /\ Hit(c, s, a[2], h, key) = Hit(c, s, a[2], FallbackHost, key)
                 /\ Hit(c, s, b[2], h, key) = Hit(c, s, b[2], FallbackHost, key)
  <2>1. \A a \in Range(v) : a[2] \in DOMAIN c[s]
    BY <1>3 DEF Applying
  <2> QED
    BY <1>1, <2>1, AheadRange
<1>4. ASSUME NEW v, IsValue(c, v, s, h, key) PROVE IsValue(c, v, s, FallbackHost, key)
  <2>1. \A a \in Range(v) : a[2] \in Applying(c, s, h, key)
    BY <1>4 DEF IsValue
  <2> QED
    BY <1>2, <1>3, <1>4, <2>1 DEF IsValue
<1>5. ASSUME NEW v, IsValue(c, v, s, FallbackHost, key) PROVE IsValue(c, v, s, h, key)
  <2>1. \A a \in Range(v) : a[2] \in Applying(c, s, h, key)
    BY <1>2, <1>5 DEF IsValue
  <2> QED
    BY <1>2, <1>3, <1>5, <2>1 DEF IsValue
<1> QED
    BY <1>2, <1>4, <1>5

LEMMA StrictHostTaken ==
    ASSUME NEW c, ConfShape(c), NEW T \in SUBSET DOMAIN c, NEW h,
           \A e \in LocationsIn(c, T) : e[1] # h,
           NEW E, HostInv(c, E, FallbackHost, T)
    PROVE  HostInv(c, E, h, T)
<1>1. /\ IsFiniteSet(DOMAIN E)
      /\ \A q \in DOMAIN E : /\ q \in Words /\ E[q] \in Seq(Elements(DOMAIN E, FallbackHost))
                             /\ \A key \in Words : Decides(DOMAIN E, q, key)
                                    => Good(c, E[q], FallbackHost, q, key, T)
    BY DEF HostInv, EntryInv
<1>2. Elements(DOMAIN E, FallbackHost) \subseteq Elements(DOMAIN E, h)
    BY DEF Elements, MatchersFor
<1>3. \A s \in T : \A key \in Words :
          /\ Applying(c, s, h, key) = Applying(c, s, FallbackHost, key)
          /\ \A v : IsValue(c, v, s, h, key) <=> IsValue(c, v, s, FallbackHost, key)
  <2> TAKE s \in T
  <2>1. \A e \in LocationsOf(c, s, Len(c[s])) : e[1] # h
    BY DEF LocationsIn
  <2> QED
    BY <2>1, SameValues
<1>4. ASSUME NEW q \in DOMAIN E PROVE q \in Words /\ EntryInv(c, E[q], DOMAIN E, h, q, T)
  <2> DEFINE l == E[q]
             S == Elements(DOMAIN E, FallbackHost)
             V == Elements(DOMAIN E, h)
  <2>1. l \in Seq(S) /\ S \subseteq V
    BY <1>1, <1>2
  <2>0. \A e \in S : e.matcher.host = FallbackHost
    BY DEF Elements, MatchersFor
  <2>2. \A e \in Range(l) : e \in V /\ e.matcher.host = FallbackHost
    <3> HIDE DEF S, V, l
    <3> QED
      BY <2>0, <2>1, RangeOfList
  <2>3. l \in Seq(V)
    <3> HIDE DEF S, V, l
    <3> QED
      BY <2>1, <2>2, InRange
  <2>4. \A e \in Range(l) : \A key : Used(e.matcher, h, q, key) <=> Used(e.matcher, FallbackHost, q, key)
    BY <2>2 DEF Used
  <2> HIDE DEF l, V
  <2>5. ASSUME NEW key \in Words, Decides(DOMAIN E, q, key) PROVE Good(c, l, h, q, key, T)
    <3>1. Good(c, l, FallbackHost, q, key, T)
      BY <1>1, <2>5 DEF l
    <3>2. \A e, f : Ahead(l, e, f) => e \in Range(l) /\ f \in Range(l)
      BY AheadRange
    <3> QED
      BY <1>3, <2>4, <3>1, <3>2 DEF Good
  <2> QED
    BY <1>1, <2>3, <2>5 DEF EntryInv, V, l
<1> QED
    BY <1>1, <1>4 DEF HostInv

-----------------------------------------------------------------------------
(* push_merger.                                                            *)

PathAt(paths, n) == CHOOSE p \in InPlace(paths, n) : TRUE

IsGrown(f, E, h, paths, k) ==
    /\ f = [n \in 0 .. k |-> f[n]]
    /\ f[0] = E
    /\ \A n \in 1 .. k : f[n] = Strict!EnsureEntry(f[n - 1], h, PathAt(paths, n))

LEMMA GrownExists ==
    ASSUME NEW E, NEW h, NEW paths, NEW N \in Nat
    PROVE  \E f : IsGrown(f, E, h, paths, N)
<1> DEFINE T == {k \in Nat : \E f : IsGrown(f, E, h, paths, k)}
<1>1. 0 \in T
  <2> DEFINE f == [n \in 0 .. 0 |-> E]
  <2>1. IsGrown(f, E, h, paths, 0)
    BY DEF IsGrown
  <2> QED
    BY <2>1
<1>2. ASSUME NEW k \in T PROVE k + 1 \in T
  <2>1. PICK f : IsGrown(f, E, h, paths, k)
    OBVIOUS
  <2> DEFINE w == Strict!EnsureEntry(f[k], h, PathAt(paths, k + 1))
             g == [n \in 0 .. (k + 1) |-> IF n = k + 1 THEN w ELSE f[n]]
  <2>2. k \in Nat
    OBVIOUS
  <2>3. /\ f[0] = E
        /\ \A n \in 1 .. k : f[n] = Strict!EnsureEntry(f[n - 1], h, PathAt(paths, n))
    BY <2>1 DEF IsGrown
  <2>4. g[k + 1] = w /\ \A n \in 0 .. k : g[n] = f[n]
    <3> HIDE DEF w
    <3> QED
      BY <2>2
  <2>5. g = [n \in 0 .. (k + 1) |-> g[n]]
    <3> HIDE DEF w
    <3> QED
      BY <2>2
  <2> HIDE DEF g
  <2>6. g[0] = E
    BY <2>2, <2>3, <2>4
  <2>7. ASSUME NEW n \in 1 .. (k + 1)
        PROVE  g[n] = Strict!EnsureEntry(g[n - 1], h, PathAt(paths, n))
    <3>1. CASE n = k + 1
      <4>1. n - 1 = k /\ k \in 0 .. k
        BY <2>2, <3>1
      <4> QED
        BY <2>4, <3>1, <4>1
    <3>2. CASE n \in 1 .. k
      <4>1. n \in 0 .. k /\ n - 1 \in 0 .. k
        BY <2>2, <3>2
      <4>2. g[n] = f[n] /\ g[n - 1] = f[n - 1]
        BY <2>4, <4>1
      <4> QED
        BY <2>3, <3>2, <4>2
    <3> QED
      BY <2>2, <3>1, <3>2
  <2>8. IsGrown(g, E, h, paths, k + 1)
    BY <2>5, <2>6, <2>7 DEF IsGrown
  <2> QED
    BY <2>2, <2>8
<1>3. T \in SUBSET Nat
    OBVIOUS
<1> HIDE DEF T
<1>4. \A n \in Nat : n \in T
    BY <1>1, <1>2, <1>3, Induction
<1> QED
    BY <1>4 DEF T

LEMMA EntriesGrown ==
    ASSUME NEW c, ConfShape(c), NEW T \in SUBSET DOMAIN c, NEW h,
           NEW E, HostInv(c, E, h, T), CoversHost(E, h, LocationsIn(c, T)),
           NEW paths \in SUBSET Words, IsFiniteSet(paths),
           NEW f, IsGrown(f, E, h, paths, Cardinality(paths))
    PROVE  /\ HostInv(c, f[Cardinality(paths)], h, T)
           /\ DOMAIN f[Cardinality(paths)] = DOMAIN E \union paths
<1> DEFINE N == Cardinality(paths)
           First(n) == {p \in paths : Place(paths, p) <= n}
           Kept(n) == HostInv(c, f[n], h, T) /\ DOMAIN f[n] = DOMAIN E \union First(n)
           S == {n \in Nat : n <= N => Kept(n)}
<1>1. /\ N \in Nat
      /\ \A p \in paths : Place(paths, p) \in 1 .. N /\ InPlace(paths, Place(paths, p)) = {p}
      /\ \A n \in 1 .. N : \E p \in paths : Place(paths, p) = n /\ InPlace(paths, n) = {p}
    BY InPlaceIs, FS_CardinalityType
<1>2. /\ f[0] = E
      /\ \A n \in 1 .. N : f[n] = Strict!EnsureEntry(f[n - 1], h, PathAt(paths, n))
    BY DEF IsGrown
<1> HIDE DEF N
<1>3. 0 \in S
  <2>1. First(0) = {}
    BY <1>1
  <2> QED
    BY <1>2, <2>1
<1>4. ASSUME NEW n \in S PROVE n + 1 \in S
  <2>1. n \in Nat /\ (n <= N => Kept(n))
    OBVIOUS
  <2> SUFFICES ASSUME n + 1 <= N PROVE Kept(n + 1)
    BY <2>1
  <2>2. n + 1 \in 1 .. N /\ (n + 1) - 1 = n /\ n <= N
    BY <1>1, <2>1
  <2>3. HostInv(c, f[n], h, T) /\ DOMAIN f[n] = DOMAIN E \union First(n)
    BY <2>1, <2>2
  <2>4. PICK p \in paths : Place(paths, p) = n + 1 /\ InPlace(paths, n + 1) = {p}
    BY <1>1, <2>2
  <2>5. PathAt(paths, n + 1) = p
    BY <2>4 DEF PathAt
  <2>6. First(n + 1) = First(n) \union {p}
    <3>1. \A q \in paths : Place(paths, q) = n + 1 => q = p
      BY <1>1, <2>4
    <3>2. \A q \in paths : Place(paths, q) <= n + 1 <=> Place(paths, q) <= n \/ Place(paths, q) = n + 1
      BY <1>1, <2>1
    <3> QED
      BY <2>4, <3>1, <3>2
  <2>7. CoversHost(f[n], h, LocationsIn(c, T))
    BY <2>3 DEF CoversHost
  <2>8. f[n + 1] = Strict!EnsureEntry(f[n], h, p)
    BY <1>2, <2>2, <2>5
  <2> HIDE DEF First, S
  <2>9. StrictEntryKept(c, f[n + 1], f[n], h, p, T)
    BY <2>3, <2>7, <2>8, StrictEntryEnsured
  <2> QED
    BY <2>3, <2>6, <2>9 DEF StrictEntryKept
<1>5. S \in SUBSET Nat
    OBVIOUS
<1>6. \A n \in Nat : n \in S
  <2> HIDE DEF S
  <2> QED
    BY <1>3, <1>4, <1>5, Induction
<1>7. Kept(N)
    BY <1>1, <1>6
<1>8. First(N) = paths
    BY <1>1
<1> QED
    BY <1>7, <1>8 DEF N

(* K is M with the entries that E has for a host.                          *)
EntriesAdded(c, K, M, h, E, T) ==
    /\ MergerInv(c, K, T)
    /\ DOMAIN K = DOMAIN M \union {h}
    /\ \A g \in DOMAIN M : g # h => K[g] = M[g]
    /\ DOMAIN K[h] = DOMAIN E \union
           (IF h \in DOMAIN M THEN DOMAIN M[h]
            ELSE IF FallbackHost \in DOMAIN M THEN DOMAIN M[FallbackHost] ELSE {})

AreEnsured(K, M, h, E) ==
    \E f : /\ IsGrown(f, Strict!EnsureHost(M, h)[h], h, DOMAIN E, Cardinality(DOMAIN E))
           /\ K = [Strict!EnsureHost(M, h) EXCEPT ![h] = f[Cardinality(DOMAIN E)]]

LEMMA EnsureEntriesIs ==
    ASSUME NEW M, NEW h, NEW E, IsFiniteSet(DOMAIN E)
    PROVE  AreEnsured(EnsureEntries(M, h, E), M, h, E)
<1> DEFINE known == Strict!EnsureHost(M, h)
           paths == DOMAIN E
           N == Cardinality(DOMAIN E)
           Step(f) == [n \in 0 .. N |->
               IF n = 0 THEN known[h]
               ELSE Strict!EnsureEntry(f[n - 1], h, CHOOSE p \in InPlace(paths, n) : TRUE)]
           made == CHOOSE f : f = Step(f)
<1>1. N \in Nat
    BY FS_CardinalityType
<1>2. EnsureEntries(M, h, E) = [known EXCEPT ![h] = made[N]]
    BY DEF EnsureEntries
<1> HIDE DEF N, known
<1>3. PICK f : IsGrown(f, known[h], h, paths, N)
    BY <1>1, GrownExists
<1>4. f = Step(f)
  <2>1. \A i \in 0 .. N : f[i] = Step(f)[i]
    <3> TAKE i \in 0 .. N
    <3>1. i = 0 \/ i \in 1 .. N
      BY <1>1
    <3> QED
      BY <1>3, <3>1 DEF IsGrown, PathAt
  <2>2. f = [i \in 0 .. N |-> f[i]]
    BY <1>3 DEF IsGrown
  <2> QED
    BY <2>1, <2>2
<1>5. made = Step(made)
    BY <1>4
<1> HIDE DEF made
<1>6. IsGrown(made, known[h], h, paths, N)
  <2>1. made = [i \in 0 .. N |-> made[i]]
    BY <1>5
  <2>2. made[0] = known[h]
    BY <1>1, <1>5
  <2>3. ASSUME NEW i \in 1 .. N
        PROVE  made[i] = Strict!EnsureEntry(made[i - 1], h, PathAt(paths, i))
    <3>1. i \in 0 .. N /\ i # 0
      BY <1>1
    <3> HIDE DEF Step
    <3>2. Step(made)[i] = Strict!EnsureEntry(made[i - 1], h, CHOOSE p \in InPlace(paths, i) : TRUE)
      BY <3>1 DEF Step
    <3> QED
      BY <1>5, <3>2 DEF PathAt
  <2> QED
    BY <2>1, <2>2, <2>3 DEF IsGrown
<1> QED
    BY <1>2, <1>6 DEF N, known, AreEnsured

LEMMA EntriesEnsured ==
    ASSUME NEW c, ConfShape(c), NEW T \in SUBSET DOMAIN c, NEW M, MergerInv(c, M, T),
           NEW h, NEW E, IsFiniteSet(DOMAIN E), DOMAIN E \in SUBSET Words
    PROVE  EntriesAdded(c, EnsureEntries(M, h, E), M, h, E, T)
<1> DEFINE known == Strict!EnsureHost(M, h)
           paths == DOMAIN E
           N == Cardinality(paths)
           K == EnsureEntries(M, h, E)
           L == LocationsIn(c, T)
<1>1. N \in Nat
    BY FS_CardinalityType
<1>2. PICK f : IsGrown(f, known[h], h, paths, N) /\ K = [known EXCEPT ![h] = f[N]]
  <2>1. AreEnsured(K, M, h, E)
    BY EnsureEntriesIs
  <2> HIDE DEF K
  <2> QED
    BY <2>1 DEF AreEnsured
<1>3. /\ DOMAIN known = DOMAIN M \union {h} /\ \A g \in DOMAIN M : known[g] = M[g]
      /\ h \notin DOMAIN M => known[h] = RulesOf(M, FallbackHost)
  <2> HIDE DEF known
  <2>1. HostAdded(known, M, h)
    BY StrictHostEnsured DEF known
  <2> QED
    BY <2>1 DEF HostAdded
<1> HIDE DEF known, K, N
<1>4. Covering(M, L) /\ \A g \in DOMAIN M : HostInv(c, M[g], g, T)
    BY DEF MergerInv
<1>5. /\ HostInv(c, known[h], h, T) /\ CoversHost(known[h], h, L)
      /\ DOMAIN known[h] = IF h \in DOMAIN M THEN DOMAIN M[h]
             ELSE IF FallbackHost \in DOMAIN M THEN DOMAIN M[FallbackHost] ELSE {}
  <2>1. CASE h \in DOMAIN M
    BY <1>3, <1>4, <2>1 DEF Covering
  <2>2. CASE h \notin DOMAIN M
    <3>1. known[h] = RulesOf(M, FallbackHost)
      BY <1>3, <2>2
    <3>2. \A e \in L : e[1] # h /\ e[1] \in DOMAIN M
      BY <1>4, <2>2 DEF Covering
    <3>3. CASE FallbackHost \in DOMAIN M
      <4>1. known[h] = M[FallbackHost]
        BY <3>1, <3>3 DEF RulesOf
      <4>2. HostInv(c, known[h], h, T)
        BY <1>4, <3>2, <3>3, <4>1, StrictHostTaken
      <4>3. CoversHost(known[h], h, L)
        BY <1>4, <3>2, <3>3, <4>1 DEF Covering, CoversHost
      <4> QED
        BY <2>2, <3>3, <4>1, <4>2, <4>3
    <3>4. CASE FallbackHost \notin DOMAIN M
      <4>1. known[h] = <<>> /\ DOMAIN <<>> = {}
        BY <3>1, <3>4 DEF RulesOf
      <4>2. HostInv(c, known[h], h, T)
        BY <4>1, FS_EmptySet DEF HostInv
      <4>3. \A e \in L : e[1] \notin {FallbackHost, h}
        BY <3>2, <3>4
      <4> QED
        BY <2>2, <3>4, <4>1, <4>2, <4>3 DEF CoversHost
    <3> QED
      BY <3>3, <3>4
  <2> QED
    BY <2>1, <2>2
<1>6. HostInv(c, f[N], h, T) /\ DOMAIN f[N] = DOMAIN known[h] \union paths
    BY <1>2, <1>5, EntriesGrown DEF N
<1>7. /\ DOMAIN K = DOMAIN known /\ K[h] = f[N]
      /\ \A g \in DOMAIN known : g # h => K[g] = known[g]
    BY <1>2, <1>3
<1>8. \A g \in DOMAIN M : g # h => K[g] = M[g]
    BY <1>3, <1>7
<1>9. DOMAIN K = DOMAIN M \union {h}
    BY <1>3, <1>7
<1>10. \A g \in DOMAIN K : HostInv(c, K[g], g, T)
    BY <1>4, <1>6, <1>7, <1>8, <1>9
<1>11. \A g \in DOMAIN K : CoversHost(K[g], g, L)
  <2>1. CoversHost(K[h], h, L)
    BY <1>5, <1>6, <1>7 DEF CoversHost
  <2>2. \A g \in DOMAIN M : CoversHost(M[g], g, L)
    BY <1>4 DEF Covering
  <2> QED
    BY <1>8, <1>9, <2>1, <2>2
<1>12. Covering(K, L)
    BY <1>4, <1>9, <1>11 DEF Covering
<1>13. DOMAIN K[h] = DOMAIN E \union
           (IF h \in DOMAIN M THEN DOMAIN M[h]
            ELSE IF FallbackHost \in DOMAIN M THEN DOMAIN M[FallbackHost] ELSE {})
    BY <1>5, <1>6, <1>7
<1>14. MergerInv(c, K, T)
    BY <1>10, <1>12 DEF MergerInv
<1> QED
    BY <1>8, <1>9, <1>13, <1>14 DEF EntriesAdded, K

-----------------------------------------------------------------------------
(* Two mergers get entries for each other's locations.                     *)

Known(A, B) ==
    \/ \A h \in DOMAIN B \ DOMAIN A : h = FallbackHost
    \/ DOMAIN A = {} /\ FallbackBelow(B)

NewHosts(A, B) ==
    \A h \in DOMAIN B :
        IF h \in DOMAIN A THEN DOMAIN A[h] \subseteq DOMAIN B[h]
        ELSE h # FallbackHost /\ FallbackHost \in DOMAIN B
                 => DOMAIN B[FallbackHost] \subseteq DOMAIN B[h]

BothInv(c, A, B, T, s) ==
    /\ MergerInv(c, A, T) /\ MergerInv(c, B, {s})
    /\ Upper(A, LocationsIn(c, T \union {s})) /\ Upper(B, LocationsIn(c, T \union {s}))

OtherInv(c, A, B, P, T, s) ==
    /\ BothInv(c, A, B, T, s)
    /\ P \subseteq DOMAIN A
    /\ \A h \in DOMAIN A \ P : h \in DOMAIN B /\ DOMAIN A[h] \subseteq DOMAIN B[h]
    /\ \A h \in DOMAIN B \ DOMAIN A : Original(B[h])
    /\ FullIn(c) => Known(A, B)

SelfInv(c, A, B, P, T, s) ==
    /\ BothInv(c, A, B, T, s)
    /\ P \subseteq DOMAIN B /\ DOMAIN A \subseteq DOMAIN B /\ DOMAIN B \ P \subseteq DOMAIN A
    /\ \A h \in DOMAIN B \ P : DOMAIN B[h] \subseteq DOMAIN A[h]
    /\ \A h \in DOMAIN B : Original(B[h]) \/ (h \in DOMAIN A /\ DOMAIN A[h] \subseteq DOMAIN B[h])
    /\ FullIn(c) => NewHosts(A, B)

LEMMA HostsKnownToBoth ==
    ASSUME NEW c, ConfShape(c), NEW T \in SUBSET DOMAIN c, 1 \in T, NEW s \in DOMAIN c, s \notin T,
           NEW A, Covering(A, LocationsIn(c, T)), Upper(A, LocationsIn(c, T)),
           NEW B, Upper(B, LocationsIn(c, {s})), FallbackBelow(B), KnownIn(c)
    PROVE  Known(A, B)
<1>1. ASSUME NEW t \in DOMAIN c, c[t] = <<>> PROVE LocationsOf(c, t, Len(c[t])) = {}
    BY <1>1 DEF LocationsOf
<1>2. CASE \E r \in DOMAIN c : \A t \in DOMAIN c \ {r} : c[t] = <<>>
  <2>1. PICK r \in DOMAIN c : \A t \in DOMAIN c \ {r} : c[t] = <<>>
    BY <1>2
  <2>2. CASE s = r
    <3>1. \A t \in T : LocationsOf(c, t, Len(c[t])) = {}
      BY <1>1, <2>1, <2>2
    <3>2. LocationsIn(c, T) = {}
      BY <3>1 DEF LocationsIn
    <3> QED
      BY <3>2 DEF Upper, Known
  <2>3. CASE s # r
    <3>1. LocationsOf(c, s, Len(c[s])) = {}
      BY <1>1, <2>1, <2>3
    <3>2. LocationsIn(c, {s}) = {}
      BY <3>1 DEF LocationsIn
    <3> QED
      BY <3>2 DEF Upper, Known
  <2> QED
    BY <2>2, <2>3
<1>3. CASE \A t \in DOMAIN c : NamedIn(c, t) \subseteq NamedIn(c, 1)
  <2> SUFFICES ASSUME NEW h \in DOMAIN B, h # FallbackHost PROVE h \in DOMAIN A
    BY DEF Known
  <2>1. PICK e \in LocationsIn(c, {s}) : e[1] = h
    BY DEF Upper
  <2>2. PICK n \in 1 .. Len(c[s]) : e \in Range(RuleLocations(c[s][n]))
    BY DEF LocationsIn, LocationsOf
  <2>3. DOMAIN c[s] = 1 .. Len(c[s]) /\ RuleShape(c[s][n])
    BY <2>2 DEF ConfShape
  <2>4. \E m \in Range(c[s][n].include) \union Range(c[s][n].exclude) : h = m.host
    BY <2>1, <2>2, <2>3, RuleLocated
  <2>5. c[s][n] \in Range(c[s])
    BY <2>2, <2>3 DEF Range
  <2>6. h \in NamedIn(c, s)
    BY <2>4, <2>5 DEF NamedIn
  <2>7. h \in NamedIn(c, 1)
    BY <1>3, <2>6
  <2>8. PICK rule \in Range(c[1]) :
            \E m \in Range(rule.include) \union Range(rule.exclude) : h = m.host
    BY <2>7 DEF NamedIn
  <2>9. PICK k \in DOMAIN c[1] : rule = c[1][k]
    BY DEF Range
  <2>10. DOMAIN c[1] = 1 .. Len(c[1]) /\ RuleShape(c[1][k]) /\ 1 \in DOMAIN c
    BY <2>9 DEF ConfShape
  <2>11. PICK m \in Range(rule.include) \union Range(rule.exclude) : h = m.host
    BY <2>8
  <2>12. <<m.host, m.path>> \in Range(RuleLocations(rule))
    BY <2>9, <2>10, <2>11, RuleLocated
  <2> DEFINE x == <<m.host, m.path>>
  <2>13. x[1] = h
    BY <2>11
  <2>14. x \in LocationsOf(c, 1, Len(c[1]))
    BY <2>9, <2>10, <2>12 DEF LocationsOf
  <2> HIDE DEF x
  <2>15. x \in LocationsIn(c, T)
    BY <2>14 DEF LocationsIn
  <2> QED
    BY <2>13, <2>15 DEF Covering
<1> QED
    BY <1>2, <1>3 DEF KnownIn

LEMMA MoreLocations ==
    ASSUME NEW c, NEW T, NEW V, T \subseteq V
    PROVE  LocationsIn(c, T) \subseteq LocationsIn(c, V)
BY DEF LocationsIn

LEMMA AlignmentStarts ==
    ASSUME NEW c, ConfShape(c), NEW T \in SUBSET DOMAIN c, 1 \in T, NEW s \in DOMAIN c, s \notin T,
           NEW A, MergerInv(c, A, T), Upper(A, LocationsIn(c, T)),
           NEW B, MergerInv(c, B, {s}), Upper(B, LocationsIn(c, {s})), FallbackBelow(B),
           \A h \in DOMAIN B : Original(B[h])
    PROVE  OtherInv(c, A, B, DOMAIN A, T, s)
<1>1. /\ LocationsIn(c, T) \subseteq LocationsIn(c, T \union {s})
      /\ LocationsIn(c, {s}) \subseteq LocationsIn(c, T \union {s})
    BY MoreLocations
<1>2. Upper(A, LocationsIn(c, T \union {s})) /\ Upper(B, LocationsIn(c, T \union {s}))
    BY <1>1 DEF Upper
<1>3. FullIn(c) => Known(A, B)
    BY HostsKnownToBoth DEF FullIn, MergerInv
<1> QED
    BY <1>2, <1>3 DEF OtherInv, BothInv

LEMMA OtherAligned ==
    ASSUME NEW c, ConfShape(c), NEW T \in SUBSET DOMAIN c, NEW s \in DOMAIN c,
           NEW A, NEW B, NEW P, OtherInv(c, A, B, P, T, s), NEW h \in P
    PROVE  OtherInv(c, A, EnsureEntries(B, h, A[h]), P \ {h}, T, s)
<1> DEFINE K == EnsureEntries(B, h, A[h])
<1>1. /\ MergerInv(c, A, T) /\ MergerInv(c, B, {s}) /\ P \subseteq DOMAIN A
      /\ Upper(A, LocationsIn(c, T \union {s})) /\ Upper(B, LocationsIn(c, T \union {s}))
      /\ \A g \in DOMAIN A \ P : g \in DOMAIN B /\ DOMAIN A[g] \subseteq DOMAIN B[g]
      /\ \A g \in DOMAIN B \ DOMAIN A : Original(B[g])
      /\ FullIn(c) => Known(A, B)
    BY DEF OtherInv, BothInv
<1>2. IsFiniteSet(DOMAIN A[h]) /\ DOMAIN A[h] \in SUBSET Words
    BY <1>1 DEF MergerInv, HostInv
<1>3. EntriesAdded(c, K, B, h, A[h], {s})
    BY <1>1, <1>2, EntriesEnsured
<1> HIDE DEF K
<1>4. /\ MergerInv(c, K, {s}) /\ DOMAIN K = DOMAIN B \union {h}
      /\ \A g \in DOMAIN B : g # h => K[g] = B[g]
      /\ DOMAIN A[h] \subseteq DOMAIN K[h]
    BY <1>3 DEF EntriesAdded
<1>5. h \in DOMAIN A
    BY <1>1
<1>6. Upper(K, LocationsIn(c, T \union {s}))
    BY <1>1, <1>4, <1>5 DEF Upper
<1>7. FullIn(c) => Known(A, K)
    BY <1>1, <1>4, <1>5 DEF Known
<1>8. \A g \in DOMAIN A \ (P \ {h}) : g \in DOMAIN K /\ DOMAIN A[g] \subseteq DOMAIN K[g]
    BY <1>1, <1>4
<1>9. \A g \in DOMAIN K \ DOMAIN A : Original(K[g])
    BY <1>1, <1>4, <1>5
<1>10. OtherInv(c, A, K, P \ {h}, T, s)
    BY <1>1, <1>4, <1>6, <1>7, <1>8, <1>9 DEF OtherInv, BothInv
<1> QED
    BY <1>10 DEF K

LEMMA AlignmentTurns ==
    ASSUME NEW c, NEW T, NEW s, NEW A, NEW B, OtherInv(c, A, B, {}, T, s)
    PROVE  SelfInv(c, A, B, DOMAIN B, T, s)
<1>1. /\ \A h \in DOMAIN A : h \in DOMAIN B /\ DOMAIN A[h] \subseteq DOMAIN B[h]
      /\ \A h \in DOMAIN B \ DOMAIN A : Original(B[h])
      /\ FullIn(c) => Known(A, B)
      /\ BothInv(c, A, B, T, s)
    BY DEF OtherInv
<1>2. ASSUME FullIn(c) PROVE NewHosts(A, B)
    BY <1>1, <1>2 DEF Known, NewHosts, FallbackBelow
<1> QED
    BY <1>1, <1>2 DEF SelfInv

LEMMA SelfAligned ==
    ASSUME NEW c, ConfShape(c), NEW T \in SUBSET DOMAIN c, NEW s \in DOMAIN c,
           NEW A, NEW B, NEW P, SelfInv(c, A, B, P, T, s), NEW h \in P
    PROVE  SelfInv(c, EnsureEntries(A, h, B[h]), B, P \ {h}, T, s)
<1> DEFINE K == EnsureEntries(A, h, B[h])
<1>1. /\ MergerInv(c, A, T) /\ MergerInv(c, B, {s})
      /\ Upper(A, LocationsIn(c, T \union {s})) /\ Upper(B, LocationsIn(c, T \union {s}))
      /\ P \subseteq DOMAIN B /\ DOMAIN A \subseteq DOMAIN B /\ DOMAIN B \ P \subseteq DOMAIN A
      /\ \A g \in DOMAIN B \ P : DOMAIN B[g] \subseteq DOMAIN A[g]
      /\ \A g \in DOMAIN B : Original(B[g]) \/ (g \in DOMAIN A /\ DOMAIN A[g] \subseteq DOMAIN B[g])
      /\ FullIn(c) => NewHosts(A, B)
    BY DEF SelfInv, BothInv
<1>2. IsFiniteSet(DOMAIN B[h]) /\ DOMAIN B[h] \in SUBSET Words /\ h \in DOMAIN B
    BY <1>1 DEF MergerInv, HostInv
<1>3. EntriesAdded(c, K, A, h, B[h], T)
    BY <1>1, <1>2, EntriesEnsured
<1> HIDE DEF K
<1>4. /\ MergerInv(c, K, T) /\ DOMAIN K = DOMAIN A \union {h}
      /\ \A g \in DOMAIN A : g # h => K[g] = A[g]
      /\ DOMAIN K[h] = DOMAIN B[h] \union
           (IF h \in DOMAIN A THEN DOMAIN A[h]
            ELSE IF FallbackHost \in DOMAIN A THEN DOMAIN A[FallbackHost] ELSE {})
    BY <1>3 DEF EntriesAdded
<1>5. Upper(K, LocationsIn(c, T \union {s}))
    BY <1>1, <1>2, <1>4 DEF Upper
<1>6. \A g \in DOMAIN B \ (P \ {h}) : DOMAIN B[g] \subseteq DOMAIN K[g]
    BY <1>1, <1>4
<1>7. ASSUME NEW g \in DOMAIN B
      PROVE  Original(B[g]) \/ (g \in DOMAIN K /\ DOMAIN K[g] \subseteq DOMAIN B[g])
  <2>1. CASE g # h \/ Original(B[g])
    BY <1>1, <1>4, <2>1
  <2>2. CASE g = h /\ ~Original(B[g])
    <3>1. h \in DOMAIN A /\ DOMAIN A[h] \subseteq DOMAIN B[h]
      BY <1>1, <2>2
    <3> QED
      BY <1>4, <2>2, <3>1
  <2> QED
    BY <2>1, <2>2
<1>8. ASSUME FullIn(c) PROVE NewHosts(K, B)
  <2>1. NewHosts(A, B)
    BY <1>1, <1>8
  <2>2. DOMAIN K[h] \subseteq DOMAIN B[h]
    <3>1. CASE h \in DOMAIN A
      BY <1>2, <1>4, <2>1, <3>1 DEF NewHosts
    <3>2. CASE h \notin DOMAIN A /\ FallbackHost \in DOMAIN A
      <4>1. FallbackHost \in DOMAIN B /\ h # FallbackHost
        BY <1>1, <3>2
      <4>2. DOMAIN A[FallbackHost] \subseteq DOMAIN B[FallbackHost]
        BY <2>1, <3>2, <4>1 DEF NewHosts
      <4>3. DOMAIN B[FallbackHost] \subseteq DOMAIN B[h]
        BY <1>2, <2>1, <3>2, <4>1 DEF NewHosts
      <4> QED
        BY <1>4, <3>2, <4>2, <4>3
    <3>3. CASE h \notin DOMAIN A /\ FallbackHost \notin DOMAIN A
      BY <1>4, <3>3
    <3> QED
      BY <3>1, <3>2, <3>3
  <2> SUFFICES ASSUME NEW g \in DOMAIN B
               PROVE  IF g \in DOMAIN K THEN DOMAIN K[g] \subseteq DOMAIN B[g]
                      ELSE g # FallbackHost /\ FallbackHost \in DOMAIN B
                               => DOMAIN B[FallbackHost] \subseteq DOMAIN B[g]
    BY DEF NewHosts
  <2>3. CASE g = h
    BY <1>4, <2>2, <2>3
  <2>4. CASE g # h
    BY <1>4, <2>1, <2>4 DEF NewHosts
  <2> QED
    BY <2>3, <2>4
<1>9. DOMAIN B \ (P \ {h}) \subseteq DOMAIN K /\ DOMAIN K \subseteq DOMAIN B
    BY <1>1, <1>2, <1>4
<1>10. SelfInv(c, K, B, P \ {h}, T, s)
    BY <1>1, <1>4, <1>5, <1>6, <1>7, <1>8, <1>9 DEF SelfInv, BothInv
<1> QED
    BY <1>10 DEF K

-----------------------------------------------------------------------------
(* Two mergers with entries for the same locations are combined.           *)

LEMMA GoodJoined ==
    ASSUME NEW c, NEW h, NEW p, NEW key, NEW T, NEW s, s \notin T,
           NEW S, NEW l \in Seq(S), NEW m \in Seq(S),
           Good(c, l, h, p, key, T), Good(c, m, h, p, key, {s})
    PROVE  Good(c, l \o m, h, p, key, T \union {s})
<1> DEFINE j == l \o m
           U(e) == Used(e.matcher, h, p, key)
<1>1. /\ Range(j) = Range(l) \union Range(m)
      /\ \A x, y : Ahead(j, x, y) <=>
             \/ Ahead(l, x, y) \/ Ahead(m, x, y)
             \/ x \in Range(l) /\ y \in Range(m)
    BY JoinedLists
<1> HIDE DEF j
<1>2. /\ \A e \in Range(l) : U(e) => \A v \in Range(e.conf) : \E r \in T : IsValue(c, v, r, h, key)
      /\ \A e \in Range(m) : U(e) => \A v \in Range(e.conf) : IsValue(c, v, s, h, key)
    BY DEF Good
<1>3. \A e \in Range(j) : U(e) =>
          \A v \in Range(e.conf) : \E r \in T \union {s} : IsValue(c, v, r, h, key)
    BY <1>1, <1>2
<1>4. ASSUME NEW e, NEW f, Ahead(j, e, f), U(e), U(f),
             NEW v \in Range(e.conf), NEW w \in Range(f.conf)
      PROVE  v[1][1] # w[1][1]
  <2>1. CASE Ahead(l, e, f) \/ Ahead(m, e, f)
    BY <1>4, <2>1 DEF Good
  <2>2. CASE e \in Range(l) /\ f \in Range(m)
    <3>1. PICK r \in T : IsValue(c, v, r, h, key)
      BY <1>2, <1>4, <2>2
    <3>2. IsValue(c, w, s, h, key)
      BY <1>2, <1>4, <2>2
    <3>3. v[1][1] = r /\ w[1][1] = s
      BY <3>1, <3>2, ValueSetting
    <3> QED
      BY <3>3
  <2> QED
    BY <1>1, <1>4, <2>1, <2>2
<1>5. ASSUME FullIn(c), NEW r \in T \union {s}, Applying(c, r, h, key) # {}
      PROVE  \E e \in Range(j) : U(e) /\ \E v \in Range(e.conf) : IsValue(c, v, r, h, key)
  <2>1. CASE r \in T
    <3>1. \E e \in Range(l) : U(e) /\ \E v \in Range(e.conf) : IsValue(c, v, r, h, key)
      BY <1>5, <2>1 DEF Good
    <3> QED
      BY <1>1, <3>1
  <2>2. CASE r = s
    <3>1. \E e \in Range(m) : U(e) /\ \E v \in Range(e.conf) : IsValue(c, v, r, h, key)
      BY <1>5, <2>2 DEF Good
    <3> QED
      BY <1>1, <3>1
  <2> QED
    BY <2>1, <2>2
<1> QED
    BY <1>3, <1>4, <1>5 DEF Good, j

LEMMA GoodAlone ==
    ASSUME NEW c, ~FullIn(c), NEW h, NEW p, NEW key, NEW T, NEW s,
           NEW S, NEW l \in Seq(S), NEW m \in Seq(S),
           Good(c, l, h, p, key, T), \A e \in Range(m) : ~Used(e.matcher, h, p, key)
    PROVE  Good(c, l \o m, h, p, key, T \union {s}) /\ Good(c, l, h, p, key, T \union {s})
<1> DEFINE j == l \o m
<1>1. /\ Range(j) = Range(l) \union Range(m)
      /\ \A x, y : Ahead(j, x, y) <=>
             \/ Ahead(l, x, y) \/ Ahead(m, x, y)
             \/ x \in Range(l) /\ y \in Range(m)
    BY JoinedLists
<1> HIDE DEF j
<1>2. \A e \in Range(l) : Used(e.matcher, h, p, key) =>
          \A v \in Range(e.conf) : \E r \in T \union {s} : IsValue(c, v, r, h, key)
    BY DEF Good
<1>3. \A e, f : Ahead(j, e, f) /\ Used(e.matcher, h, p, key) /\ Used(f.matcher, h, p, key)
                   => Ahead(l, e, f)
    BY <1>1, AheadRange
<1>4. Good(c, l, h, p, key, T \union {s})
    BY <1>2 DEF Good
<1>5. Good(c, j, h, p, key, T \union {s})
    BY <1>1, <1>2, <1>3 DEF Good
<1> QED
    BY <1>4, <1>5 DEF j

LEMMA HostCombined ==
    ASSUME NEW c, NEW h, NEW T, NEW s, s \notin T,
           NEW E, HostInv(c, E, h, T), NEW F, HostInv(c, F, h, {s}),
           DOMAIN F \subseteq DOMAIN E, Original(F) \/ DOMAIN E \subseteq DOMAIN F,
           FullIn(c) => DOMAIN E \subseteq DOMAIN F
    PROVE  HostInv(c, Pairwise(E, F), h, T \union {s}) /\ DOMAIN Pairwise(E, F) = DOMAIN E
<1> DEFINE K == Pairwise(E, F)
           D == DOMAIN E
           S == Elements(D, h)
           Partner(p) == InPlace(DOMAIN F, Place(DOMAIN E, p))
<1>1. /\ IsFiniteSet(D)
      /\ \A p \in D : /\ p \in Words /\ E[p] \in Seq(S)
                      /\ \A key \in Words : Decides(D, p, key) => Good(c, E[p], h, p, key, T)
    BY DEF HostInv, EntryInv
<1>2. /\ IsFiniteSet(DOMAIN F)
      /\ \A q \in DOMAIN F : /\ q \in Words /\ F[q] \in Seq(Elements(DOMAIN F, h))
                             /\ \A key \in Words : Decides(DOMAIN F, q, key)
                                    => Good(c, F[q], h, q, key, {s})
    BY DEF HostInv, EntryInv
<1>3. \A q \in DOMAIN F : F[q] \in Seq(S)
    BY <1>2, MoreElements
<1>4. /\ DOMAIN K = D
      /\ \A p \in D : K[p] = IF Partner(p) = {} THEN E[p]
                             ELSE E[p] \o F[CHOOSE q \in Partner(p) : TRUE]
    BY DEF Pairwise
<1> HIDE DEF K, S
<1>5. ASSUME NEW p \in D PROVE EntryInv(c, K[p], D, h, p, T \union {s})
  <2>1. p \in Words /\ E[p] \in Seq(S)
    BY <1>1
  <2>2. D \in SUBSET Words /\ DOMAIN F \in SUBSET D
    BY <1>1
  <2>3. FullIn(c) => Partner(p) # {}
    <3>1. ASSUME FullIn(c) PROVE DOMAIN F = D
      BY <3>1
    <3>2. InPlace(D, Place(D, p)) = {p}
      BY <1>1, <2>2, InPlaceIs
    <3> QED
      BY <3>1, <3>2
  <2>4. CASE Partner(p) = {}
    <3>1. ~FullIn(c) /\ K[p] = E[p]
      BY <1>4, <2>3, <2>4
    <3>2. <<>> \in Seq(S) /\ Range(<<>>) = {}
      BY EmptyList
    <3>3. ASSUME NEW key \in Words, Decides(D, p, key)
          PROVE  Good(c, E[p], h, p, key, T \union {s})
      <4>1. Good(c, E[p], h, p, key, T)
        BY <1>1, <3>3
      <4> DEFINE m == <<>>
                 l == E[p]
      <4>2. m \in Seq(S) /\ \A e \in Range(m) : ~Used(e.matcher, h, p, key)
        BY <3>2
      <4>3. l \in Seq(S) /\ Good(c, l, h, p, key, T)
        BY <2>1, <4>1
      <4> HIDE DEF m, l
      <4>4. Good(c, l, h, p, key, T \union {s})
        BY <3>1, <4>2, <4>3, GoodAlone
      <4> QED
        BY <4>4 DEF l
    <3> QED
      BY <2>1, <3>1, <3>3 DEF EntryInv, S
  <2>5. CASE Partner(p) # {}
    <3> DEFINE q == CHOOSE x \in Partner(p) : TRUE
               l == E[p]
               m == F[q]
    <3>1. q \in DOMAIN F /\ Place(DOMAIN F, q) = Place(D, p)
      BY <2>5 DEF InPlace
    <3> HIDE DEF q
    <3>2. q = p \/ PathBefore(p, q)
      BY <1>1, <2>1, <2>2, <3>1, SamePlace
    <3>3. DOMAIN E \subseteq DOMAIN F => q = p
      <4>1. ASSUME DOMAIN E \subseteq DOMAIN F PROVE q = p
        <5>1. DOMAIN F = D
          BY <4>1
        <5>2. InPlace(D, Place(D, p)) = {p}
          BY <1>1, <2>2, InPlaceIs
        <5>3. q \in InPlace(D, Place(D, p))
          BY <3>1, <5>1 DEF InPlace
        <5> QED
          BY <5>2, <5>3
      <4> QED
        BY <4>1
    <3>4. l \in Seq(S) /\ m \in Seq(S) /\ q \in Words
      BY <1>2, <1>3, <2>1, <3>1
    <3>5. K[p] = l \o m
      BY <1>4, <2>5 DEF q
    <3>0. \A key \in Words : Decides(D, p, key) => Good(c, l, h, p, key, T)
      BY <1>1
    <3>9. \A key \in Words : Decides(DOMAIN F, q, key) => Good(c, m, h, q, key, {s})
      BY <1>2, <3>1
    <3>10. Original(F) => \A e \in Range(m) : e.matcher.path = q
      BY <3>1 DEF Original
    <3> HIDE DEF l, m
    <3>6. ASSUME NEW key \in Words, Decides(D, p, key)
          PROVE  Good(c, l \o m, h, p, key, T \union {s})
      <4>1. Good(c, l, h, p, key, T)
        BY <3>0, <3>6
      <4>2. CASE q = p
        <5>1. Decides(DOMAIN F, p, key)
          BY <2>2, <3>1, <3>6, <4>2 DEF Decides
        <5>2. Good(c, m, h, p, key, {s})
          BY <3>9, <4>2, <5>1
        <5> QED
          BY <3>4, <4>1, <5>2, GoodJoined
      <4>3. CASE q # p
        <5>1. ~FullIn(c) /\ Original(F)
          BY <3>3, <4>3
        <5>2. ~IsPrefix(q, p)
          BY <2>1, <3>2, <3>4, <4>3, PathOrder
        <5>3. \A e \in Range(m) : ~Used(e.matcher, h, p, key)
          BY <3>10, <5>1, <5>2 DEF Used
        <5> QED
          BY <3>4, <4>1, <5>1, <5>3, GoodAlone
      <4> QED
        BY <4>2, <4>3
    <3>7. l \o m \in Seq(S)
      BY <3>4, JoinedLists
    <3>8. EntryInv(c, l \o m, D, h, p, T \union {s})
      BY <3>6, <3>7 DEF EntryInv, S
    <3> QED
      BY <3>5, <3>8
  <2> QED
    BY <2>4, <2>5
<1>6. HostInv(c, K, h, T \union {s})
    BY <1>1, <1>4, <1>5 DEF HostInv
<1> QED
    BY <1>4, <1>6 DEF K

Combined(A, B) ==
    [h \in DOMAIN A |-> IF h \in DOMAIN B THEN Pairwise(A[h], B[h]) ELSE A[h]]

LEMMA MergersCombined ==
    ASSUME NEW c, NEW T, NEW s, s \notin T, NEW A, NEW B, SelfInv(c, A, B, {}, T, s)
    PROVE  /\ MergerInv(c, Combined(A, B), T \union {s})
           /\ Upper(Combined(A, B), LocationsIn(c, T \union {s}))
<1> DEFINE K == Combined(A, B)
<1>1. /\ MergerInv(c, A, T) /\ MergerInv(c, B, {s})
      /\ Upper(A, LocationsIn(c, T \union {s}))
      /\ DOMAIN A = DOMAIN B
      /\ \A g \in DOMAIN B : DOMAIN B[g] \subseteq DOMAIN A[g]
      /\ \A g \in DOMAIN B : Original(B[g]) \/ DOMAIN A[g] \subseteq DOMAIN B[g]
      /\ FullIn(c) => \A g \in DOMAIN B : DOMAIN A[g] \subseteq DOMAIN B[g]
    BY DEF SelfInv, BothInv, NewHosts
<1>2. DOMAIN K = DOMAIN A /\ \A h \in DOMAIN A : K[h] = Pairwise(A[h], B[h])
    BY <1>1 DEF Combined
<1> HIDE DEF K
<1>3. ASSUME NEW h \in DOMAIN A
      PROVE  HostInv(c, K[h], h, T \union {s}) /\ DOMAIN K[h] = DOMAIN A[h]
  <2>1. HostInv(c, A[h], h, T) /\ HostInv(c, B[h], h, {s})
    BY <1>1 DEF MergerInv
  <2>2. HostInv(c, Pairwise(A[h], B[h]), h, T \union {s})
    BY <1>1, <2>1, HostCombined
  <2>3. DOMAIN Pairwise(A[h], B[h]) = DOMAIN A[h]
    BY DEF Pairwise
  <2> QED
    BY <1>2, <2>2, <2>3
<1>4. LocationsIn(c, T \union {s}) = LocationsIn(c, T) \union LocationsIn(c, {s})
    BY DEF LocationsIn
<1>5. Covering(K, LocationsIn(c, T \union {s}))
  <2>1. /\ \A e \in LocationsIn(c, T \union {s}) : e[1] \in DOMAIN K
    BY <1>1, <1>2, <1>4 DEF MergerInv, Covering
  <2>2. \A h \in DOMAIN K : CoversHost(K[h], h, LocationsIn(c, T \union {s}))
    BY <1>1, <1>2, <1>3, <1>4 DEF MergerInv, Covering, CoversHost
  <2> QED
    BY <2>1, <2>2 DEF Covering
<1>6. Upper(K, LocationsIn(c, T \union {s}))
    BY <1>1, <1>2 DEF Upper
<1>7. MergerInv(c, K, T \union {s})
    BY <1>2, <1>3, <1>5 DEF MergerInv
<1> QED
    BY <1>6, <1>7 DEF K

-----------------------------------------------------------------------------
(* What the router has for a request.                                      *)

IsResult(c, r, h, key) ==
    /\ r \in Seq(Seq(Numbers))
    /\ \A v \in Range(r) : \E s \in DOMAIN c : IsValue(c, v, s, h, key)
    /\ \A v, w : Ahead(r, v, w) => v[1][1] # w[1][1]
    /\ FullIn(c) => \A s \in DOMAIN c : Applying(c, s, h, key) # {} =>
           \E v \in Range(r) : IsValue(c, v, s, h, key)

LEMMA ElementsSorted ==
    ASSUME NEW paths, NEW h
    PROVE  SortedBy(Elements(paths, h), h, Seq(Numbers))
BY ElementShape DEF SortedBy

LEMMA JoinedResult ==
    ASSUME NEW c, NEW D, NEW h, NEW p, NEW l, NEW key, l \in Seq(Elements(D, h)),
           Good(c, l, h, p, key, DOMAIN c),
           NEW K, \A e \in Range(l) : e \in K <=> Used(e.matcher, h, p, key)
    PROVE  IsResult(c, Rules!Join(Selected(l, K)), h, key)
<1> DEFINE S == Elements(D, h)
           V == Seq(Numbers)
           k == Selected(l, K)
           r == Rules!Join(k)
<1>1. SortedBy(S, h, V) /\ l \in Seq(S)
    BY ElementsSorted
<1>2. \A e \in S : e.sorter \in MatchersFor(h) /\ \A v, w : ~Ahead(e.conf, v, w)
    BY ElementShape
<1> HIDE DEF S, V
<1>3. /\ k \in Seq(S) /\ Range(k) = Range(l) \intersect K
      /\ \A x, y : Ahead(k, x, y) => Ahead(l, x, y) /\ x \in K /\ y \in K
  <2>1. /\ k \in Seq(S) /\ Range(k) = Range(l) \intersect K
        /\ \A x, y : Ahead(k, x, y) <=> Ahead(l, x, y) /\ x \in K /\ y \in K
    BY <1>1, SelectedList
  <2> QED
    BY <2>1
<1> HIDE DEF k
<1>4. /\ r \in Seq(V)
      /\ \A x : x \in Range(r) <=> \E e \in Range(k) : x \in Range(e.conf)
      /\ \A x, y : Ahead(r, x, y) <=>
             \/ \E e \in Range(k) : Ahead(e.conf, x, y)
             \/ \E e, f \in Range(k) :
                   /\ \/ MatcherBefore(e.sorter, f.sorter)
                      \/ ~MatcherBefore(f.sorter, e.sorter) /\ Ahead(k, e, f)
                   /\ x \in Range(e.conf) /\ y \in Range(f.conf)
    BY <1>1, <1>3, JoinOf
<1> HIDE DEF r
<1>5. \A e \in Range(k) : e \in S /\ e \in Range(l) /\ Used(e.matcher, h, p, key)
    BY <1>3, RangeOfList
<1>6. \A v \in Range(r) : \E s \in DOMAIN c : IsValue(c, v, s, h, key)
    BY <1>4, <1>5 DEF Good
<1>7. ASSUME NEW e, NEW f, Ahead(k, e, f), NEW v \in Range(e.conf), NEW w \in Range(f.conf)
      PROVE  v[1][1] # w[1][1]
  <2>1. Ahead(l, e, f) /\ e \in Range(k) /\ f \in Range(k)
    BY <1>3, <1>7, AheadRange
  <2> QED
    BY <1>5, <1>7, <2>1 DEF Good
<1>8. ASSUME NEW v, NEW w, Ahead(r, v, w) PROVE v[1][1] # w[1][1]
  <2>1. PICK e \in Range(k), f \in Range(k) :
            /\ MatcherBefore(e.sorter, f.sorter) \/ Ahead(k, e, f)
            /\ v \in Range(e.conf) /\ w \in Range(f.conf)
    BY <1>2, <1>4, <1>5, <1>8
  <2>2. CASE Ahead(k, e, f)
    BY <1>7, <2>1, <2>2
  <2>3. CASE MatcherBefore(e.sorter, f.sorter)
    <3>1. e.sorter \in Matchers
      BY <1>2, <1>5 DEF MatchersFor
    <3>2. e # f
      BY <2>3, <3>1, MatcherOrder
    <3>3. Ahead(k, e, f) \/ Ahead(k, f, e)
      BY <1>3, <3>2, SomeOrder
    <3> QED
      BY <1>7, <2>1, <3>3
  <2> QED
    BY <2>1, <2>2, <2>3
<1>9. ASSUME FullIn(c), NEW s \in DOMAIN c, Applying(c, s, h, key) # {}
      PROVE  \E v \in Range(r) : IsValue(c, v, s, h, key)
  <2>1. PICK e \in Range(l) : /\ Used(e.matcher, h, p, key)
                              /\ \E v \in Range(e.conf) : IsValue(c, v, s, h, key)
    BY <1>9 DEF Good
  <2>2. e \in Range(k)
    BY <1>3, <2>1
  <2> QED
    BY <1>4, <2>1, <2>2
<1> QED
    BY <1>4, <1>6, <1>8, <1>9 DEF IsResult, V, k, r

(* The values of an entry.                                                 *)
LEMMA EntryResults ==
    ASSUME NEW c, NEW D, NEW h, NEW p \in Words, p \in D, NEW l,
           EntryInv(c, l, D, h, p, DOMAIN c)
    PROVE  /\ IsResult(c, Strict!MergeExact(h, p, l), h, p)
           /\ Strict!MergePrefix(h, p, l) \in Seq(Seq(Numbers))
           /\ \A key \in Words : Decides(D, p, key) /\ key # p
                  => IsResult(c, Strict!MergePrefix(h, p, l), h, key)
<1> DEFINE K == {e \in Range(l) : StrictMatches(e.matcher, h, p, FALSE).any}
           P == {e \in Range(l) : StrictMatches(e.matcher, h, p, TRUE).prefix}
           S == Elements(D, h)
<1>1. /\ Strict!MergeExact(h, p, l) = Rules!Join(Selected(l, K))
      /\ Strict!MergePrefix(h, p, l) = Rules!Join(Selected(l, P))
    BY SameJoin DEF Strict!MergeExact, Strict!MergePrefix, Strict!Range, Range
<1>2. l \in Seq(S) /\ \A key \in Words : Decides(D, p, key) => Good(c, l, h, p, key, DOMAIN c)
    BY DEF EntryInv
<1>3. \A e \in Range(l) : e.matcher \in MatchersFor(h)
    BY <1>2, RangeOfList, ElementShape
<1>4. \A e \in Range(l) : e \in K <=> Used(e.matcher, h, p, p)
    BY <1>3, StrictIs
<1>5. \A key : key # p => \A e \in Range(l) : e \in P <=> Used(e.matcher, h, p, key)
    BY <1>3, StrictIs
<1> HIDE DEF K, P
<1>6. Decides(D, p, p)
    BY PrefixFacts DEF Decides
<1>7. IsResult(c, Rules!Join(Selected(l, K)), h, p)
    BY <1>2, <1>4, <1>6, JoinedResult
<1>8. ASSUME NEW key \in Words, Decides(D, p, key), key # p
      PROVE  IsResult(c, Rules!Join(Selected(l, P)), h, key)
  <2>1. \A e \in Range(l) : e \in P <=> Used(e.matcher, h, p, key)
    BY <1>5, <1>8
  <2>2. Good(c, l, h, p, key, DOMAIN c)
    BY <1>2, <1>8
  <2> QED
    BY <1>2, <2>1, <2>2, JoinedResult
<1>9. Rules!Join(Selected(l, P)) \in Seq(Seq(Numbers))
  <2>1. SortedBy(S, h, Seq(Numbers)) /\ l \in Seq(S)
    BY <1>2, ElementsSorted
  <2> DEFINE V == Seq(Numbers)
  <2> HIDE DEF S, V
  <2>2. Selected(l, P) \in Seq(S)
    BY <2>1, SelectedList
  <2>3. Rules!Join(Selected(l, P)) \in Seq(V)
    BY <2>1, <2>2, JoinOf DEF V
  <2> QED
    BY <2>3 DEF V
<1> QED
    BY <1>1, <1>7, <1>8, <1>9

-----------------------------------------------------------------------------
KeptIn(values) == {q \in DOMAIN values : ~Strict!Redundant(values, q)}

LEMMA StrictMerged ==
    ASSUME NEW M
    PROVE  /\ DOMAIN Strict!Merge(M) = DOMAIN M
           /\ \A h \in DOMAIN M :
                  Strict!Merge(M)[h] = [p \in KeptIn(Strict!MergeEntries(h, M[h])) |->
                                           Strict!MergeEntries(h, M[h])[p]]
BY DEF Strict!Merge, KeptIn

LEMMA RedundantIs ==
    ASSUME NEW values, DOMAIN values \in SUBSET Words, NEW p \in DOMAIN values,
           Strict!Redundant(values, p)
    PROVE  /\ values[p].exact = values[p].prefix
           /\ \E q \in DOMAIN values :
                 /\ q # p /\ IsPrefix(q, p) /\ values[q].prefix = values[p].prefix
                 /\ \A x \in DOMAIN values : x # p /\ IsPrefix(x, p) => IsPrefix(x, q)
<1> DEFINE parents == {q \in DOMAIN values : IsStrictPrefix(q, p)}
<1>1. /\ values[p].exact = values[p].prefix /\ parents # {}
      /\ values[Closest(parents)].prefix = values[p].prefix
    BY DEF Strict!Redundant, Strict!ParentsOf, Strict!Closest, Closest, Strict!IsStrictPrefix,
           IsStrictPrefix, Strict!IsPrefix, IsPrefix
<1>2. parents \in SUBSET Words /\ \A q \in parents : IsPrefix(q, p) /\ q # p /\ q \in DOMAIN values
    BY DEF IsStrictPrefix
<1>3. \A x \in DOMAIN values : x # p /\ IsPrefix(x, p) => x \in parents
    BY DEF IsStrictPrefix
<1>4. p \in Words
    OBVIOUS
<1> HIDE DEF parents
<1>5. Closest(parents) \in parents /\ \A q \in parents : IsPrefix(q, Closest(parents))
    BY <1>1, <1>2, <1>4, ClosestOne
<1> QED
    BY <1>1, <1>2, <1>3, <1>5

Stands(values, p, k) ==
    /\ k \in KeptIn(values) /\ IsPrefix(k, p) /\ values[k].prefix = values[p].prefix
    /\ k # p => p \notin KeptIn(values) /\ values[p].exact = values[p].prefix
    /\ \A x \in KeptIn(values) : IsPrefix(x, p) => IsPrefix(x, k)

(* An entry that was left out is represented by the closest one kept.      *)
LEMMA KeptStands ==
    ASSUME NEW values, DOMAIN values \in SUBSET Words, NEW p \in DOMAIN values
    PROVE  \E k : Stands(values, p, k)
<1> DEFINE Bad == {q \in DOMAIN values : ~\E k : Stands(values, q, k)}
           Lens == {Len(q) : q \in Bad}
<1> SUFFICES ASSUME Bad # {} PROVE FALSE
    OBVIOUS
<1>1. \A q \in DOMAIN values : q \in Words /\ Len(q) \in Nat
    BY PrefixFacts
<1>2. PICK n \in Lens : \A m \in Lens : ~(m < n)
  <2>1. Lens \in SUBSET Nat /\ Lens # {}
    BY <1>1
  <2> HIDE DEF Lens
  <2> QED
    BY <2>1, LeastNumber
<1>3. PICK q \in Bad : Len(q) = n
    BY <1>2
<1>4. \A r \in DOMAIN values : Len(r) < Len(q) => \E k : Stands(values, r, k)
    BY <1>2, <1>3
<1>5. q \in DOMAIN values /\ ~\E k : Stands(values, q, k)
    OBVIOUS
<1> HIDE DEF Bad, Lens
<1>6. CASE ~Strict!Redundant(values, q)
  <2>1. q \in KeptIn(values) /\ IsPrefix(q, q)
    BY <1>1, <1>5, <1>6, PrefixFacts DEF KeptIn
  <2> QED
    BY <1>5, <2>1 DEF Stands
<1>7. CASE Strict!Redundant(values, q)
  <2>1. /\ values[q].exact = values[q].prefix
        /\ \E r \in DOMAIN values :
              /\ r # q /\ IsPrefix(r, q) /\ values[r].prefix = values[q].prefix
              /\ \A x \in DOMAIN values : x # q /\ IsPrefix(x, q) => IsPrefix(x, r)
    BY <1>5, <1>7, RedundantIs
  <2>2. PICK r \in DOMAIN values :
              /\ r # q /\ IsPrefix(r, q) /\ values[r].prefix = values[q].prefix
              /\ \A x \in DOMAIN values : x # q /\ IsPrefix(x, q) => IsPrefix(x, r)
    BY <2>1
  <2>3. Len(r) < Len(q)
    <3>1. Len(r) <= Len(q) /\ Len(r) # Len(q)
      BY <1>1, <1>5, <2>2, PrefixFacts
    <3> QED
      BY <1>1, <1>5, <3>1
  <2>4. PICK k : Stands(values, r, k)
    BY <1>4, <2>3
  <2>5. q \notin KeptIn(values)
    BY <1>7 DEF KeptIn
  <2>6. k \in DOMAIN values /\ IsPrefix(k, r) /\ k \in KeptIn(values) /\ values[k].prefix = values[r].prefix
    BY <2>4 DEF Stands, KeptIn
  <2>7. IsPrefix(k, q)
    BY <1>1, <1>5, <2>2, <2>6, PrefixOrder
  <2>8. \A x \in KeptIn(values) : IsPrefix(x, q) => IsPrefix(x, k)
    <3> TAKE x \in KeptIn(values)
    <3> HAVE IsPrefix(x, q)
    <3>1. x \in DOMAIN values /\ x # q
      BY <2>5 DEF KeptIn
    <3>2. IsPrefix(x, r)
      BY <2>2, <3>1
    <3> QED
      BY <2>4, <3>2 DEF Stands
  <2>9. Stands(values, q, k)
    BY <2>1, <2>2, <2>5, <2>6, <2>7, <2>8 DEF Stands
  <2> QED
    BY <1>5, <2>9
<1> QED
    BY <1>6, <1>7

LEMMA ResultIsSome ==
    ASSUME NEW r \in Seq(Seq(Numbers))
    PROVE  r # None
BY NoneAssumption DEF Numbers

LEMMA EntriesMatched ==
    ASSUME NEW c, NEW h, NEW E, HostInv(c, E, h, DOMAIN c), NEW key \in Words,
           NEW kept, kept = [p \in KeptIn(Strict!MergeEntries(h, E)) |->
                                Strict!MergeEntries(h, E)[p]]
    PROVE  /\ (\E q \in DOMAIN E : IsPrefix(q, key))
                  => IsResult(c, BestMatch(kept, key), h, key) /\ BestMatch(kept, key) # None
           /\ (\A q \in DOMAIN E : ~IsPrefix(q, key)) => BestMatch(kept, key) = None
<1> DEFINE values == Strict!MergeEntries(h, E)
<1>1. /\ DOMAIN values = DOMAIN E
      /\ \A p \in DOMAIN E : /\ values[p].exact = Strict!MergeExact(h, p, E[p])
                             /\ values[p].prefix = Strict!MergePrefix(h, p, E[p])
    BY DEF Strict!MergeEntries
<1>2. \A p \in DOMAIN E : p \in Words /\ EntryInv(c, E[p], DOMAIN E, h, p, DOMAIN c)
    BY DEF HostInv
<1> HIDE DEF values
<1>3. \A p \in DOMAIN E :
          /\ IsResult(c, values[p].exact, h, p)
          /\ values[p].prefix \in Seq(Seq(Numbers))
          /\ \A k \in Words : Decides(DOMAIN E, p, k) /\ k # p
                 => IsResult(c, values[p].prefix, h, k)
  <2> TAKE p \in DOMAIN E
  <2> DEFINE l == E[p]
             D == DOMAIN E
  <2>1. p \in Words /\ p \in D /\ EntryInv(c, l, D, h, p, DOMAIN c)
    BY <1>2
  <2>2. values[p].exact = Strict!MergeExact(h, p, l) /\ values[p].prefix = Strict!MergePrefix(h, p, l)
    BY <1>1
  <2> HIDE DEF l, D
  <2>3. /\ IsResult(c, Strict!MergeExact(h, p, l), h, p)
        /\ Strict!MergePrefix(h, p, l) \in Seq(Seq(Numbers))
        /\ \A k \in Words : Decides(D, p, k) /\ k # p
               => IsResult(c, Strict!MergePrefix(h, p, l), h, k)
    BY <2>1, EntryResults
  <2> QED
    BY <2>2, <2>3 DEF D
<1>4. /\ DOMAIN kept = KeptIn(values) /\ \A p \in KeptIn(values) : kept[p] = values[p]
      /\ KeptIn(values) \subseteq DOMAIN E
    BY <1>1 DEF values, KeptIn
<1> DEFINE above == {k \in DOMAIN kept : IsPrefix(k, key) /\ kept[k].prefix # None}
<1>5. /\ BestMatch(kept, key) = IF key \in DOMAIN kept THEN kept[key].exact
                                ELSE IF above = {} THEN None ELSE kept[Closest(above)].prefix
    BY DEF BestMatch, Inherited
<1>6. \A k : k \in above <=> k \in KeptIn(values) /\ IsPrefix(k, key)
    BY <1>3, <1>4, ResultIsSome
<1> HIDE DEF above
<1>7. ASSUME \A q \in DOMAIN E : ~IsPrefix(q, key) PROVE BestMatch(kept, key) = None
  <2>1. key \notin DOMAIN E
    BY <1>7, PrefixFacts
  <2>2. above = {}
    BY <1>4, <1>6, <1>7
  <2> QED
    BY <1>4, <1>5, <2>1, <2>2
<1>8. ASSUME \E q \in DOMAIN E : IsPrefix(q, key)
      PROVE  IsResult(c, BestMatch(kept, key), h, key)
  <2> DEFINE A == {q \in DOMAIN E : IsPrefix(q, key)}
  <2>1. PICK p \in DOMAIN E : Decides(DOMAIN E, p, key)
    <3>1. A \in SUBSET Words /\ A # {} /\ \A q \in A : IsPrefix(q, key)
      BY <1>2, <1>8
    <3> HIDE DEF A
    <3>2. PICK p \in A : \A q \in A : IsPrefix(q, p)
      BY <3>1, LongestPrefix
    <3>3. Decides(DOMAIN E, p, key) /\ p \in DOMAIN E
      BY <3>2 DEF Decides, A
    <3> QED
      BY <3>3
  <2>2. DOMAIN values \in SUBSET Words /\ p \in DOMAIN values
    BY <1>1, <1>2
  <2>3. PICK k : Stands(values, p, k)
    BY <2>2, KeptStands
  <2>4. /\ k \in KeptIn(values) /\ IsPrefix(k, p) /\ values[k].prefix = values[p].prefix
        /\ k # p => p \notin KeptIn(values) /\ values[p].exact = values[p].prefix
        /\ \A x \in KeptIn(values) : IsPrefix(x, p) => IsPrefix(x, k)
    BY <2>3 DEF Stands
  <2>5. IsPrefix(p, key) /\ \A q \in DOMAIN E : IsPrefix(q, key) => IsPrefix(q, p)
    BY <2>1 DEF Decides
  <2>6. k \in Words /\ p \in Words /\ k \in DOMAIN E
    BY <1>2, <1>4, <2>4
  <2>7. CASE key \in DOMAIN kept
    <3>1. key \in DOMAIN E /\ kept[key].exact = values[key].exact
      BY <1>4, <2>7
    <3> QED
      BY <1>3, <1>5, <2>7, <3>1
  <2>8. CASE key \notin DOMAIN kept
    <3>1. k \in above
      BY <1>6, <2>4, <2>5, <2>6, PrefixOrder
    <3>2. \A x \in above : IsPrefix(x, k) /\ x \in Words /\ IsPrefix(x, key)
      BY <1>2, <1>4, <1>6, <2>4, <2>5
    <3>3. above \in SUBSET Words /\ above # {}
      BY <3>1, <3>2
    <3>4. Closest(above) \in above /\ \A x \in above : IsPrefix(x, Closest(above))
      BY <3>2, <3>3, ClosestOne
    <3>5. Closest(above) = k
      BY <2>6, <3>1, <3>2, <3>4, PrefixOrder
    <3>6. BestMatch(kept, key) = values[p].prefix
      BY <1>4, <1>5, <2>4, <2>8, <3>3, <3>5
    <3>7. CASE p # key
      BY <1>3, <2>1, <3>6, <3>7
    <3>8. CASE p = key
      <4>1. k # p
        BY <1>4, <2>4, <2>8, <3>8
      <4>2. BestMatch(kept, key) = values[p].exact
        BY <2>4, <3>6, <4>1
      <4> QED
        BY <1>3, <3>8, <4>2
    <3> QED
      BY <3>7, <3>8
  <2> QED
    BY <2>7, <2>8
<1>9. ASSUME \E q \in DOMAIN E : IsPrefix(q, key) PROVE BestMatch(kept, key) # None
  <2>1. BestMatch(kept, key) \in Seq(Seq(Numbers))
    BY <1>8, <1>9 DEF IsResult
  <2> QED
    BY <2>1, ResultIsSome
<1> QED
    BY <1>7, <1>8, <1>9

-----------------------------------------------------------------------------
(* What a request finds: the values of the settings with a rule for it.    *)

Right(c, r, h, key) ==
    IF r = None THEN FullIn(c) => \A s \in DOMAIN c : Applying(c, s, h, key) = {}
    ELSE IsResult(c, r, h, key)

LEMMA NoEntries ==
    ASSUME NEW key
    PROVE  BestMatch(<<>>, key) = None
<1> DEFINE rules0 == <<>>
           above == {k \in DOMAIN rules0 : IsPrefix(k, key) /\ rules0[k].prefix # None}
<1>1. DOMAIN rules0 = {}
    OBVIOUS
<1>2. above = {}
    BY <1>1
<1>3. BestMatch(rules0, key) = IF key \in DOMAIN rules0 THEN rules0[key].exact
                               ELSE IF above = {} THEN None ELSE rules0[Closest(above)].prefix
    BY DEF BestMatch, Inherited
<1> HIDE DEF rules0, above
<1>4. BestMatch(rules0, key) = None
    BY <1>1, <1>2, <1>3
<1> QED
    BY <1>4 DEF rules0

(* The entries of one host.                                                *)
LEMMA HostMatched ==
    ASSUME NEW c, ConfShape(c), NEW M, MergerInv(c, M, DOMAIN c), NEW h \in DOMAIN M,
           NEW key \in Words
    PROVE  \/ /\ BestMatch(Strict!Merge(M)[h], key) # None
              /\ IsResult(c, BestMatch(Strict!Merge(M)[h], key), h, key)
           \/ /\ BestMatch(Strict!Merge(M)[h], key) = None
              /\ \A s \in DOMAIN c : /\ Applying(c, s, h, key) = {}
                                     /\ Applying(c, s, FallbackHost, key) = {}
<1> DEFINE E == M[h]
           kept == Strict!Merge(M)[h]
<1>1. HostInv(c, E, h, DOMAIN c) /\ CoversHost(E, h, LocationsIn(c, DOMAIN c))
    BY DEF MergerInv, Covering
<1>2. kept = [p \in KeptIn(Strict!MergeEntries(h, E)) |-> Strict!MergeEntries(h, E)[p]]
    BY StrictMerged
<1> HIDE DEF E, kept
<1>3. /\ (\E q \in DOMAIN E : IsPrefix(q, key))
             => IsResult(c, BestMatch(kept, key), h, key) /\ BestMatch(kept, key) # None
      /\ (\A q \in DOMAIN E : ~IsPrefix(q, key)) => BestMatch(kept, key) = None
    BY <1>1, <1>2, EntriesMatched
<1>4. ASSUME \A q \in DOMAIN E : ~IsPrefix(q, key), NEW s \in DOMAIN c
      PROVE  Applying(c, s, h, key) = {} /\ Applying(c, s, FallbackHost, key) = {}
  <2> DEFINE T == DOMAIN c
  <2>1. \A e \in LocationsIn(c, T) : e[1] \in {FallbackHost, h} => ~IsPrefix(e[2], key)
    BY <1>1, <1>4 DEF CoversHost
  <2>2. \A e \in LocationsIn(c, T) : e[1] \in {FallbackHost, FallbackHost} => ~IsPrefix(e[2], key)
    BY <2>1
  <2>3. T \in SUBSET DOMAIN c /\ s \in T
    OBVIOUS
  <2> HIDE DEF T
  <2>4. Applying(c, s, h, key) = {}
    BY <2>1, <2>3, NothingAbove
  <2>5. Applying(c, s, FallbackHost, key) = {}
    BY <2>2, <2>3, NothingAbove
  <2> QED
    BY <2>4, <2>5
<1> QED
    BY <1>3, <1>4 DEF kept

(* A host that is not there gets what the fallback host gets.              *)
LEMMA ResultTaken ==
    ASSUME NEW c, ConfShape(c), NEW h, NEW key \in Words,
           \A e \in LocationsIn(c, DOMAIN c) : e[1] # h,
           NEW r, IsResult(c, r, FallbackHost, key)
    PROVE  IsResult(c, r, h, key)
<1>1. \A s \in DOMAIN c : \A e \in LocationsOf(c, s, Len(c[s])) : e[1] # h
    BY DEF LocationsIn
<1>2. \A s \in DOMAIN c :
          /\ Applying(c, s, h, key) = Applying(c, s, FallbackHost, key)
          /\ \A v : IsValue(c, v, s, h, key) <=> IsValue(c, v, s, FallbackHost, key)
    BY <1>1, SameValues
<1> QED
    BY <1>2 DEF IsResult

(* Nothing applies to the host, nor to the fallback host.                  *)
LEMMA EmptyResult ==
    ASSUME NEW c, NEW h, NEW key, NEW r, IsResult(c, r, FallbackHost, key),
           \A s \in DOMAIN c : /\ Applying(c, s, h, key) = {}
                               /\ Applying(c, s, FallbackHost, key) = {}
    PROVE  IsResult(c, r, h, key)
<1>1. ASSUME NEW v \in Range(r) PROVE FALSE
  <2>1. PICK s \in DOMAIN c : IsValue(c, v, s, FallbackHost, key)
    BY DEF IsResult
  <2>2. Applying(c, s, FallbackHost, key) # {}
    BY <2>1, ValueSetting
  <2> QED
    BY <2>2
<1> QED
    BY <1>1 DEF IsResult

LEMMA RequestAnswered ==
    ASSUME NEW c, ConfShape(c), NEW M, MergerInv(c, M, DOMAIN c), NEW h, NEW key \in Words
    PROVE  Right(c, LookupRoute(Strict!Merge(M), h, key), h, key)
<1> DEFINE N == Strict!Merge(M)
           own0 == BestMatch(RulesOf(N, h), key)
           rest == BestMatch(RulesOf(N, FallbackHost), key)
           none == \A s \in DOMAIN c : /\ Applying(c, s, h, key) = {}
                                       /\ Applying(c, s, FallbackHost, key) = {}
<1>1. LookupRoute(N, h, key) = IF h # FallbackHost /\ own0 # None THEN own0 ELSE rest
    BY DEF LookupRoute
<1>2. DOMAIN N = DOMAIN M
    BY StrictMerged
<1>3. \A g : g \in DOMAIN M => RulesOf(N, g) = N[g]
    BY <1>2 DEF RulesOf
<1>4. \A g : g \notin DOMAIN M => RulesOf(N, g) = <<>>
    BY <1>2 DEF RulesOf
<1>5. h \in DOMAIN M => \/ own0 # None /\ IsResult(c, own0, h, key)
                        \/ own0 = None /\ none
    BY <1>3, HostMatched
<1>6. h \notin DOMAIN M => own0 = None
    BY <1>4, NoEntries
<1>7. \/ rest # None /\ IsResult(c, rest, FallbackHost, key)
      \/ rest = None /\ \A s \in DOMAIN c : Applying(c, s, FallbackHost, key) = {}
  <2>1. CASE FallbackHost \in DOMAIN M
    BY <1>3, <2>1, HostMatched
  <2>2. CASE FallbackHost \notin DOMAIN M
    <3>1. rest = None
      BY <1>4, <2>2, NoEntries
    <3>2. \A e \in LocationsIn(c, DOMAIN c) : e[1] # FallbackHost
      BY <2>2 DEF MergerInv, Covering
    <3>3. \A s \in DOMAIN c : Applying(c, s, FallbackHost, key) = {}
      <4> TAKE s \in DOMAIN c
      <4> DEFINE T == DOMAIN c
      <4>1. /\ \A e \in LocationsIn(c, T) : e[1] \in {FallbackHost, FallbackHost} => ~IsPrefix(e[2], key)
            /\ T \in SUBSET DOMAIN c /\ s \in T
        BY <3>2
      <4> HIDE DEF T
      <4> QED
        BY <4>1, NothingAbove
    <3> QED
      BY <3>1, <3>3
  <2> QED
    BY <2>1, <2>2
<1> HIDE DEF N, own0, rest
<1>8. ASSUME h # FallbackHost, own0 # None PROVE Right(c, own0, h, key)
    BY <1>5, <1>6, <1>8 DEF Right
<1>9. ASSUME h = FallbackHost PROVE Right(c, rest, h, key)
    BY <1>7, <1>9 DEF Right
<1>10. ASSUME h # FallbackHost, own0 = None PROVE Right(c, rest, h, key)
  <2>1. CASE h \in DOMAIN M
    <3>1. none
      BY <1>5, <1>10, <2>1
    <3>2. rest # None => IsResult(c, rest, h, key)
      BY <1>7, <3>1, EmptyResult
    <3> QED
      BY <3>1, <3>2 DEF Right
  <2>2. CASE h \notin DOMAIN M
    <3>1. \A e \in LocationsIn(c, DOMAIN c) : e[1] # h
      BY <2>2 DEF MergerInv, Covering
    <3>2. rest # None => IsResult(c, rest, h, key)
      BY <1>7, <3>1, ResultTaken
    <3>3. \A s \in DOMAIN c : Applying(c, s, h, key) = Applying(c, s, FallbackHost, key)
      <4> TAKE s \in DOMAIN c
      <4>1. \A e \in LocationsOf(c, s, Len(c[s])) : e[1] # h
        BY <3>1 DEF LocationsIn
      <4> QED
        BY <4>1, SameValues
    <3> QED
      BY <1>7, <3>2, <3>3 DEF Right
  <2> QED
    BY <2>1, <2>2
<1>11. LookupRoute(N, h, key) = own0 \/ LookupRoute(N, h, key) = rest
    BY <1>1
<1> QED
  <2>1. CASE h # FallbackHost /\ own0 # None
    BY <1>1, <1>8, <2>1 DEF N
  <2>2. CASE ~(h # FallbackHost /\ own0 # None)
    BY <1>1, <1>9, <1>10, <2>2 DEF N
  <2> QED
    BY <2>1, <2>2

-----------------------------------------------------------------------------
(* The invariant.                                                          *)

MadeFrom(c, M, s) ==
    /\ MergerInv(c, M, {s}) /\ Upper(M, LocationsIn(c, {s})) /\ FallbackBelow(M)
    /\ \A h \in DOMAIN M : Original(M[h])
AllSettings(c, M, T) == MergerInv(c, M, T) /\ Upper(M, LocationsIn(c, T))

(* How many mergers have been taken.                                       *)
Taken == setting - 1 - Len(mergers)

ConfInv == ConfShape(conf) /\ Len(conf) # 0

PushInv ==
    /\ setting \in 1 .. Len(conf) + 1
    /\ setting \in DOMAIN conf => /\ next \in 1 .. Len(conf[setting]) + 1
                                  /\ RulesInv(conf, rules, setting, next - 1)

MergersInv ==
    /\ mergers \in Seq(Range(mergers)) /\ Len(mergers) <= setting - 1
    /\ setting \in DOMAIN conf => Len(mergers) = setting - 1
    /\ \A i \in DOMAIN mergers : MadeFrom(conf, mergers[i], Taken + i)

CombineInv ==
    /\ side \in {None, "other", "self"}
    /\ side # None => Taken > 1
    /\ side = None /\ Taken # 0 => AllSettings(conf, merged, 1 .. Taken)
    /\ side = "other" => OtherInv(conf, merged, other, pending, 1 .. Taken - 1, Taken)
    /\ side = "self" => SelfInv(conf, merged, other, pending, 1 .. Taken - 1, Taken)

IsRouter(c, r) == \E M : MergerInv(c, M, DOMAIN c) /\ r = Strict!Merge(M)
RouterInv == router # None => IsRouter(conf, router)

RequestInv ==
    request # None =>
        request.key \in Words /\ Right(conf, headers, request.host, request.key)

RulesState ==
    ConfInv /\ PushInv /\ MergersInv /\ CombineInv /\ RouterInv /\ RequestInv

LEMMA ConfigurationShape ==
    ASSUME NEW c \in Configurations
    PROVE  ConfShape(c) /\ Len(c) # 0
<1>1. /\ c \in Seq(Range(c)) /\ c # <<>>
      /\ \A s \in DOMAIN c : c[s] \in Seq(Range(c[s]))
      /\ \A s \in DOMAIN c : \A r \in DOMAIN c[s] :
             c[s][r].include \in Seq(Matchers) /\ c[s][r].exclude \in Seq(Matchers)
    BY ConfigurationsAssumption
<1>2. Len(c) \in Nat /\ DOMAIN c = 1 .. Len(c) /\ Len(c) # 0
    BY <1>1
<1>3. \A s \in DOMAIN c : Len(c[s]) \in Nat /\ DOMAIN c[s] = 1 .. Len(c[s])
    BY <1>1
<1> QED
    BY <1>1, <1>2, <1>3 DEF ConfShape, RuleShape

LEMMA InitState ==
    ASSUME Init
    PROVE  RulesState
<1>1. conf \in Configurations
    BY DEF Init
<1>2. ConfInv
    BY <1>1, ConfigurationShape DEF ConfInv
<1>3. mergers = <<>> /\ setting = 1 /\ next = 1 /\ rules = Rules!NoHosts
      /\ side = None /\ router = None /\ request = None
    BY DEF Init
<1>4. Len(mergers) = 0 /\ DOMAIN mergers = {} /\ mergers \in Seq(Range(mergers))
    BY <1>3
<1>5. PushInv
    BY <1>2, <1>3, NoRules DEF PushInv, ConfInv, ConfShape
<1>6. MergersInv
    BY <1>3, <1>4 DEF MergersInv
<1>7. CombineInv
  <2> DEFINE a == Len(mergers)
  <2>0. Taken = setting - 1 - a /\ a = 0
    BY <1>4 DEF Taken
  <2> HIDE DEF a
  <2>1. Taken = 0
    BY <1>3, <2>0
  <2>2. side # "other" /\ side # "self"
    BY <1>3, NoneAssumption
  <2> QED
    BY <1>3, <2>1, <2>2 DEF CombineInv
<1> QED
    BY <1>2, <1>3, <1>5, <1>6, <1>7 DEF RulesState, RouterInv, RequestInv

LEMMA PushRuleState ==
    ASSUME RulesState, PushRule
    PROVE  RulesState'
<1>1. /\ ConfInv /\ PushInv /\ MergersInv /\ CombineInv /\ RouterInv /\ RequestInv
    BY DEF RulesState
<1>2. /\ setting \in DOMAIN conf /\ next \in DOMAIN conf[setting]
      /\ rules' = Rules!Push(rules, conf[setting][next], <<<<setting, next>>>>)
      /\ next' = next + 1
      /\ UNCHANGED <<conf, setting, mergers, combining, router, serving>>
    BY DEF PushRule
<1>3. UNCHANGED <<merged, other, side, pending, request, headers>>
    BY <1>2 DEF combining, serving
<1>4. PushInv'
  <2>1. ConfShape(conf) /\ next \in Nat /\ next - 1 \in Nat /\ next = next - 1 + 1
    BY <1>1, <1>2 DEF ConfInv, PushInv, ConfShape
  <2>2. RulesInv(conf, rules, setting, next - 1)
    BY <1>1, <1>2 DEF PushInv
  <2> DEFINE N == next - 1
  <2>3. N \in Nat /\ N + 1 = next /\ RulesInv(conf, rules, setting, N)
    BY <2>1, <2>2
  <2> HIDE DEF N
  <2>4. RulesInv(conf, Rules!Push(rules, conf[setting][N + 1], <<<<setting, N + 1>>>>), setting, N + 1)
    BY <1>2, <2>1, <2>3, RulePushed
  <2>5. RulesInv(conf, rules', setting, next)
    BY <1>2, <2>3, <2>4
  <2>6. next' - 1 = next /\ next' \in 1 .. Len(conf[setting]) + 1
    BY <1>2, <2>1 DEF ConfShape
  <2> QED
    BY <1>1, <1>2, <2>5, <2>6 DEF PushInv
<1>5. MergersInv' /\ CombineInv' /\ ConfInv' /\ RouterInv' /\ RequestInv'
    BY <1>1, <1>2, <1>3 DEF MergersInv, CombineInv, ConfInv, RouterInv, RequestInv, Taken
<1> QED
    BY <1>4, <1>5 DEF RulesState

LEMMA FinishSettingState ==
    ASSUME RulesState, FinishSetting
    PROVE  RulesState'
<1>1. /\ ConfInv /\ PushInv /\ MergersInv /\ CombineInv /\ RouterInv /\ RequestInv
    BY DEF RulesState
<1>2. /\ setting \in DOMAIN conf /\ next \notin DOMAIN conf[setting]
      /\ mergers' = Append(mergers, MergeIntoMerger(rules))
      /\ setting' = setting + 1 /\ next' = 1 /\ rules' = Rules!NoHosts
      /\ UNCHANGED <<conf, combining, router, serving>>
    BY DEF FinishSetting
<1>3. UNCHANGED <<merged, other, side, pending, request, headers>>
    BY <1>2 DEF combining, serving
<1>4. ConfShape(conf) /\ setting \in Nat /\ setting <= Len(conf) /\ Len(conf) \in Nat
    BY <1>1, <1>2 DEF ConfInv, ConfShape
<1>5. PushInv'
  <2>1. setting' \in 1 .. Len(conf) + 1
    BY <1>2, <1>4
  <2>2. ASSUME setting' \in DOMAIN conf
        PROVE  next' \in 1 .. Len(conf[setting']) + 1 /\ next' - 1 = 0
    BY <1>2, <1>4, <2>2 DEF ConfShape
  <2>3. RulesInv(conf, rules', setting', 0)
    BY <1>2, NoRules
  <2> QED
    BY <1>2, <2>1, <2>2, <2>3 DEF PushInv
<1>6. next - 1 = Len(conf[setting])
    BY <1>1, <1>2, <1>4 DEF PushInv, ConfShape
<1>7. RulesInv(conf, rules, setting, Len(conf[setting]))
    BY <1>1, <1>2, <1>6 DEF PushInv
<1> DEFINE new == MergeIntoMerger(rules)
<1>8. MadeFrom(conf, new, setting)
    BY <1>2, <1>4, <1>7, MergerMade DEF MadeFrom
<1>9. /\ mergers \in Seq(Range(mergers)) /\ Len(mergers) = setting - 1 /\ Taken = 0
      /\ \A i \in DOMAIN mergers : MadeFrom(conf, mergers[i], i)
    BY <1>1, <1>2, <1>4 DEF MergersInv, Taken
<1> HIDE DEF new
<1>10. mergers' = Append(mergers, new)
    BY <1>2 DEF new
<1>11. /\ Len(mergers') = setting /\ Taken' = 0 /\ DOMAIN mergers' = 1 .. setting
       /\ \A i \in 1 .. setting : mergers'[i] = IF i = setting THEN new ELSE mergers[i]
    BY <1>2, <1>4, <1>9, <1>10 DEF Taken
<1>12. mergers' \in Seq(Range(mergers'))
  <2> DEFINE S == Range(mergers) \union {new}
  <2>1. \A e \in Range(mergers) : e \in S
    OBVIOUS
  <2> HIDE DEF S
  <2>2. mergers \in Seq(S)
    BY <1>9, <2>1, InRange
  <2>3. new \in S
    BY DEF S
  <2>4. mergers' \in Seq(S)
    BY <1>10, <2>2, <2>3
  <2> QED
    BY <2>4, InRange
<1>13. MergersInv'
  <2>1. \A i \in DOMAIN mergers' : MadeFrom(conf, mergers'[i], Taken' + i)
    <3> TAKE i \in DOMAIN mergers'
    <3>1. Taken' + i = i /\ i \in 1 .. setting /\ (i # setting => i \in DOMAIN mergers)
      BY <1>4, <1>9, <1>11
    <3>2. CASE i = setting
      BY <1>8, <1>11, <3>1, <3>2
    <3>3. CASE i # setting
      BY <1>9, <1>11, <3>1, <3>3
    <3> QED
      BY <3>2, <3>3
  <2> QED
    BY <1>2, <1>4, <1>11, <1>12, <2>1 DEF MergersInv
<1>14. CombineInv'
  <2>1. side = None
    BY <1>1, <1>9 DEF CombineInv
  <2> QED
    BY <1>3, <1>11, <2>1, NoneAssumption DEF CombineInv
<1>15. ConfInv' /\ RouterInv' /\ RequestInv'
    BY <1>1, <1>2, <1>3 DEF ConfInv, RouterInv, RequestInv
<1> QED
    BY <1>5, <1>13, <1>14, <1>15 DEF RulesState

-----------------------------------------------------------------------------
LEMMA TakeMergerState ==
    ASSUME RulesState, TakeMerger
    PROVE  RulesState'
<1>1. /\ ConfInv /\ PushInv /\ MergersInv /\ CombineInv /\ RouterInv /\ RequestInv
    BY DEF RulesState
<1>2. /\ setting \notin DOMAIN conf /\ side = None /\ mergers # <<>>
      /\ mergers' = Tail(mergers)
      /\ IF Len(mergers) = Len(conf)
         THEN merged' = Head(mergers) /\ UNCHANGED <<other, side, pending>>
         ELSE /\ other' = Head(mergers)
              /\ side' = "other" /\ pending' = DOMAIN merged
              /\ UNCHANGED merged
      /\ UNCHANGED <<conf, pushing, router, serving>>
    BY DEF TakeMerger
<1>3. UNCHANGED <<setting, next, rules, request, headers>>
    BY <1>2 DEF pushing, serving
<1>4. /\ ConfShape(conf) /\ Len(conf) \in Nat /\ Len(conf) # 0 /\ DOMAIN conf = 1 .. Len(conf)
      /\ setting = Len(conf) + 1
    BY <1>1, <1>2 DEF ConfInv, ConfShape, PushInv
<1>5. /\ mergers \in Seq(Range(mergers)) /\ Len(mergers) \in Nat /\ Len(mergers) <= Len(conf)
      /\ DOMAIN mergers = 1 .. Len(mergers)
      /\ \A i \in DOMAIN mergers : MadeFrom(conf, mergers[i], Taken + i)
    BY <1>1, <1>4 DEF MergersInv
<1>6. Len(mergers) # 0 /\ Taken = Len(conf) - Len(mergers) /\ Taken \in Nat
  <2> DEFINE a == Len(mergers)
             b == Len(conf)
  <2>a. mergers # <<>> /\ mergers \in Seq(Range(mergers))
    BY <1>2, <1>5
  <2>b. a # 0
    BY <2>a
  <2>c. Taken = setting - 1 - a
    BY DEF Taken
  <2>1. Taken = setting - 1 - a /\ setting = b + 1 /\ a \in Nat /\ b \in Nat /\ a <= b /\ a # 0
    BY <1>4, <1>5, <2>b, <2>c
  <2> HIDE DEF a, b
  <2>2. a # 0 /\ Taken = b - a /\ Taken \in Nat
    BY <2>1
  <2> QED
    BY <2>2 DEF a, b
<1>7. /\ mergers' \in Seq(Range(mergers)) /\ Len(mergers') = Len(mergers) - 1
      /\ DOMAIN mergers' = 1 .. Len(mergers')
      /\ \A i \in DOMAIN mergers' : mergers'[i] = mergers[i + 1]
      /\ Head(mergers) = mergers[1]
    BY <1>2, <1>5
<1>8. Taken' = Taken + 1
    BY <1>3, <1>4, <1>5, <1>6, <1>7 DEF Taken
<1>9. MadeFrom(conf, Head(mergers), Taken')
    BY <1>5, <1>6, <1>7, <1>8
<1>10. MergersInv'
  <2>1. mergers' \in Seq(Range(mergers'))
    BY <1>7, InRange
  <2>2. \A i \in DOMAIN mergers' : MadeFrom(conf, mergers'[i], Taken' + i)
    <3> TAKE i \in DOMAIN mergers'
    <3>1. i + 1 \in DOMAIN mergers /\ Taken + (i + 1) = Taken' + i
      <4> DEFINE a == Len(mergers)
                 b == Taken
                 d == Taken'
      <4>1. /\ a \in Nat /\ b \in Nat /\ d = b + 1 /\ i \in 1 .. a - 1
            /\ DOMAIN mergers = 1 .. a
        BY <1>5, <1>6, <1>7, <1>8
      <4> HIDE DEF a, b, d
      <4>2. i + 1 \in 1 .. a /\ b + (i + 1) = d + i
        BY <4>1
      <4> QED
        BY <4>1, <4>2 DEF b, d
    <3>2. MadeFrom(conf, mergers[i + 1], Taken + (i + 1))
      BY <1>5, <3>1
    <3> QED
      BY <1>7, <3>1, <3>2
  <2>3. Len(mergers') <= setting' - 1
    BY <1>3, <1>4, <1>5, <1>7
  <2> QED
    BY <1>2, <1>3, <2>1, <2>2, <2>3 DEF MergersInv
<1>11. CombineInv'
  <2>1. CASE Len(mergers) = Len(conf)
    <3>1. Taken' = 1 /\ merged' = Head(mergers) /\ side' = None
      BY <1>2, <1>4, <1>5, <1>6, <1>8, <2>1
    <3>2. side' # "other" /\ side' # "self"
      BY <3>1, NoneAssumption
    <3>3. 1 .. Taken' = {1}
      BY <3>1
    <3>4. AllSettings(conf, merged', 1 .. Taken')
      BY <1>9, <3>1, <3>3 DEF AllSettings, MadeFrom
    <3> QED
      BY <1>2, <3>1, <3>2, <3>4 DEF CombineInv
  <2>2. CASE Len(mergers) # Len(conf)
    <3>1. other' = Head(mergers) /\ side' = "other" /\ pending' = DOMAIN merged /\ merged' = merged
      BY <1>2, <2>2
    <3>2. side' # None /\ side' # "self"
      BY <3>1, NoneAssumption
    <3>3. Taken # 0 /\ Taken' > 1 /\ Taken' - 1 = Taken /\ Taken' <= Len(conf)
      <4> DEFINE a == Len(mergers)
                 m == Len(conf)
                 b == Taken
                 d == Taken'
      <4>1. /\ a \in Nat /\ m \in Nat /\ b \in Nat /\ d = b + 1 /\ b = m - a /\ a # 0 /\ a # m
        BY <1>4, <1>5, <1>6, <1>8, <2>2
      <4> HIDE DEF a, m, b, d
      <4>2. b # 0 /\ d > 1 /\ d - 1 = b /\ d <= m
        BY <4>1
      <4> QED
        BY <4>2 DEF m, b, d
    <3>4. AllSettings(conf, merged, 1 .. Taken)
      BY <1>1, <1>2, <3>3 DEF CombineInv
    <3> DEFINE T == 1 .. Taken
               k == Taken'
               B == Head(mergers)
    <3>5. /\ T \in SUBSET DOMAIN conf /\ 1 \in T /\ k \in DOMAIN conf /\ k \notin T
      BY <1>4, <1>6, <1>8, <3>3
    <3>6. MergerInv(conf, merged, T) /\ Upper(merged, LocationsIn(conf, T))
      BY <3>4 DEF AllSettings
    <3>7. /\ MergerInv(conf, B, {k}) /\ Upper(B, LocationsIn(conf, {k})) /\ FallbackBelow(B)
          /\ \A h \in DOMAIN B : Original(B[h])
      BY <1>9 DEF MadeFrom
    <3> HIDE DEF T, k, B
    <3>8. OtherInv(conf, merged, B, DOMAIN merged, T, k)
      BY <1>4, <3>5, <3>6, <3>7, AlignmentStarts
    <3>9. OtherInv(conf, merged', other', pending', 1 .. Taken' - 1, Taken')
      BY <3>1, <3>3, <3>8 DEF T, k, B
    <3> QED
      BY <1>2, <3>1, <3>2, <3>3, <3>9 DEF CombineInv
  <2> QED
    BY <2>1, <2>2
<1>12. ConfInv' /\ PushInv' /\ RouterInv' /\ RequestInv'
    BY <1>1, <1>2, <1>3 DEF ConfInv, PushInv, RouterInv, RequestInv
<1> QED
    BY <1>10, <1>11, <1>12 DEF RulesState

(* What holds while two mergers are combined.                              *)
LEMMA Combining ==
    ASSUME RulesState, side # None
    PROVE  /\ ConfShape(conf) /\ 1 .. Taken - 1 \in SUBSET DOMAIN conf /\ Taken \in DOMAIN conf
           /\ Taken \in Nat /\ Taken > 1 /\ Taken \notin 1 .. Taken - 1
<1>1. ConfInv /\ PushInv /\ MergersInv /\ CombineInv
    BY DEF RulesState
<1>2. Taken > 1 /\ ConfShape(conf)
    BY <1>1 DEF CombineInv, ConfInv
<1>3. /\ setting \in 1 .. Len(conf) + 1 /\ Len(conf) \in Nat /\ DOMAIN conf = 1 .. Len(conf)
      /\ Len(mergers) \in Nat /\ Len(mergers) <= setting - 1
    BY <1>1 DEF ConfInv, ConfShape, PushInv, MergersInv
<1>4. Taken \in Nat /\ Taken <= Len(conf)
    BY <1>3 DEF Taken
<1> HIDE DEF Taken
<1> QED
    BY <1>2, <1>3, <1>4

LEMMA AlignOtherState ==
    ASSUME RulesState, AlignOther
    PROVE  RulesState'
<1>1. /\ ConfInv /\ PushInv /\ MergersInv /\ CombineInv /\ RouterInv /\ RequestInv
    BY DEF RulesState
<1>2. /\ side = "other"
      /\ UNCHANGED <<conf, pushing, mergers, merged, side, router, serving>>
    BY DEF AlignOther
<1>3. UNCHANGED <<setting, next, rules, request, headers>> /\ Taken' = Taken
    BY <1>2 DEF pushing, serving, Taken
<1>4. PICK h \in pending : /\ pending' = pending \ {h}
                           /\ other' = EnsureEntries(other, h, merged[h])
    BY DEF AlignOther
<1>5. side # None /\ side # "self"
    BY <1>2, NoneAssumption
<1> DEFINE T == 1 .. Taken - 1
           k == Taken
<1>6. ConfShape(conf) /\ T \in SUBSET DOMAIN conf /\ k \in DOMAIN conf /\ Taken > 1
    BY <1>5, Combining
<1>7. OtherInv(conf, merged, other, pending, T, k)
    BY <1>1, <1>2 DEF CombineInv
<1> HIDE DEF T, k
<1>8. OtherInv(conf, merged, EnsureEntries(other, h, merged[h]), pending \ {h}, T, k)
    BY <1>6, <1>7, OtherAligned
<1>9. OtherInv(conf, merged', other', pending', 1 .. Taken' - 1, Taken')
    BY <1>2, <1>3, <1>4, <1>8 DEF T, k
<1>10. CombineInv'
    BY <1>2, <1>3, <1>5, <1>6, <1>9 DEF CombineInv
<1>11. ConfInv' /\ PushInv' /\ MergersInv' /\ RouterInv' /\ RequestInv'
    BY <1>1, <1>2, <1>3 DEF ConfInv, PushInv, MergersInv, RouterInv, RequestInv
<1> QED
    BY <1>10, <1>11 DEF RulesState

LEMMA TurnAroundState ==
    ASSUME RulesState, TurnAround
    PROVE  RulesState'
<1>1. /\ ConfInv /\ PushInv /\ MergersInv /\ CombineInv /\ RouterInv /\ RequestInv
    BY DEF RulesState
<1>2. /\ side = "other" /\ pending = {} /\ side' = "self" /\ pending' = DOMAIN other
      /\ UNCHANGED <<conf, pushing, mergers, merged, other, router, serving>>
    BY DEF TurnAround
<1>3. UNCHANGED <<setting, next, rules, request, headers>> /\ Taken' = Taken
    BY <1>2 DEF pushing, serving, Taken
<1>4. side # None /\ side' # None /\ side' # "other"
    BY <1>2, NoneAssumption
<1>5. OtherInv(conf, merged, other, {}, 1 .. Taken - 1, Taken) /\ Taken > 1
    BY <1>1, <1>2, <1>4 DEF CombineInv
<1>6. SelfInv(conf, merged, other, DOMAIN other, 1 .. Taken - 1, Taken)
    BY <1>5, AlignmentTurns
<1>7. CombineInv'
    BY <1>2, <1>3, <1>4, <1>5, <1>6 DEF CombineInv
<1>8. ConfInv' /\ PushInv' /\ MergersInv' /\ RouterInv' /\ RequestInv'
    BY <1>1, <1>2, <1>3 DEF ConfInv, PushInv, MergersInv, RouterInv, RequestInv
<1> QED
    BY <1>7, <1>8 DEF RulesState

LEMMA AlignSelfState ==
    ASSUME RulesState, AlignSelf
    PROVE  RulesState'
<1>1. /\ ConfInv /\ PushInv /\ MergersInv /\ CombineInv /\ RouterInv /\ RequestInv
    BY DEF RulesState
<1>2. /\ side = "self"
      /\ UNCHANGED <<conf, pushing, mergers, other, side, router, serving>>
    BY DEF AlignSelf
<1>3. UNCHANGED <<setting, next, rules, request, headers>> /\ Taken' = Taken
    BY <1>2 DEF pushing, serving, Taken
<1>4. PICK h \in pending : /\ pending' = pending \ {h}
                           /\ merged' = EnsureEntries(merged, h, other[h])
    BY DEF AlignSelf
<1>5. side # None /\ side # "other"
    BY <1>2, NoneAssumption
<1> DEFINE T == 1 .. Taken - 1
           k == Taken
<1>6. ConfShape(conf) /\ T \in SUBSET DOMAIN conf /\ k \in DOMAIN conf /\ Taken > 1
    BY <1>5, Combining
<1>7. SelfInv(conf, merged, other, pending, T, k)
    BY <1>1, <1>2 DEF CombineInv
<1> HIDE DEF T, k
<1>8. SelfInv(conf, EnsureEntries(merged, h, other[h]), other, pending \ {h}, T, k)
    BY <1>6, <1>7, SelfAligned
<1>9. SelfInv(conf, merged', other', pending', 1 .. Taken' - 1, Taken')
    BY <1>2, <1>3, <1>4, <1>8 DEF T, k
<1>10. CombineInv'
    BY <1>2, <1>3, <1>5, <1>6, <1>9 DEF CombineInv
<1>11. ConfInv' /\ PushInv' /\ MergersInv' /\ RouterInv' /\ RequestInv'
    BY <1>1, <1>2, <1>3 DEF ConfInv, PushInv, MergersInv, RouterInv, RequestInv
<1> QED
    BY <1>10, <1>11 DEF RulesState

LEMMA CombineState ==
    ASSUME RulesState, Combine
    PROVE  RulesState'
<1>1. /\ ConfInv /\ PushInv /\ MergersInv /\ CombineInv /\ RouterInv /\ RequestInv
    BY DEF RulesState
<1>2. /\ side = "self" /\ pending = {} /\ merged' = Combined(merged, other)
      /\ other' = None /\ side' = None
      /\ UNCHANGED <<conf, pushing, mergers, pending, router, serving>>
    BY DEF Combine, Combined
<1>3. UNCHANGED <<setting, next, rules, request, headers>> /\ Taken' = Taken
    BY <1>2 DEF pushing, serving, Taken
<1>4. side # None /\ side' # "other" /\ side' # "self"
    BY <1>2, NoneAssumption
<1>5. Taken \in Nat /\ Taken > 1 /\ Taken \notin 1 .. Taken - 1
    BY <1>4, Combining
<1> DEFINE T == 1 .. Taken - 1
           k == Taken
<1>6. SelfInv(conf, merged, other, {}, T, k) /\ k \notin T /\ T \union {k} = 1 .. Taken
    BY <1>1, <1>2, <1>5 DEF CombineInv
<1> HIDE DEF T, k
<1>7. /\ MergerInv(conf, Combined(merged, other), T \union {k})
      /\ Upper(Combined(merged, other), LocationsIn(conf, T \union {k}))
    BY <1>6, MergersCombined
<1>8. AllSettings(conf, merged', 1 .. Taken')
    BY <1>2, <1>3, <1>6, <1>7 DEF AllSettings
<1>9. CombineInv'
    BY <1>2, <1>4, <1>8 DEF CombineInv
<1>10. ConfInv' /\ PushInv' /\ MergersInv' /\ RouterInv' /\ RequestInv'
    BY <1>1, <1>2, <1>3 DEF ConfInv, PushInv, MergersInv, RouterInv, RequestInv
<1> QED
    BY <1>9, <1>10 DEF RulesState

LEMMA BuildRouterState ==
    ASSUME RulesState, BuildRouter
    PROVE  RulesState'
<1>1. /\ ConfInv /\ PushInv /\ MergersInv /\ CombineInv /\ RouterInv /\ RequestInv
    BY DEF RulesState
<1>2. /\ setting \notin DOMAIN conf /\ mergers = <<>> /\ side = None
      /\ router' = Strict!Merge(merged)
      /\ UNCHANGED <<conf, pushing, mergers, combining, serving>>
    BY DEF BuildRouter
<1>3. UNCHANGED <<setting, next, rules, merged, other, side, pending, request, headers>>
    BY <1>2 DEF pushing, combining, serving
<1>4. DOMAIN conf = 1 .. Len(conf) /\ Len(conf) \in Nat /\ Len(conf) # 0 /\ setting = Len(conf) + 1
    BY <1>1, <1>2 DEF ConfInv, ConfShape, PushInv
<1>5. Len(mergers) = 0
    BY <1>2
<1>6. Taken = Len(conf) /\ Taken # 0
    BY <1>4, <1>5 DEF Taken
<1>7. MergerInv(conf, merged, DOMAIN conf)
    BY <1>1, <1>2, <1>4, <1>6 DEF CombineInv, AllSettings
<1>8. RouterInv'
    BY <1>2, <1>7 DEF RouterInv, IsRouter
<1>9. ConfInv' /\ PushInv' /\ MergersInv' /\ CombineInv' /\ RequestInv'
    BY <1>1, <1>2, <1>3 DEF ConfInv, PushInv, MergersInv, CombineInv, RequestInv, Taken
<1> QED
    BY <1>8, <1>9 DEF RulesState

LEMMA RequestFilterState ==
    ASSUME RulesState, NEW host, NEW key \in Words, RequestFilter(host, key)
    PROVE  RulesState'
<1>1. /\ ConfInv /\ PushInv /\ MergersInv /\ CombineInv /\ RouterInv /\ RequestInv
    BY DEF RulesState
<1>2. /\ router # None /\ request' = [host |-> host, key |-> key]
      /\ headers' = LookupRoute(router, host, key)
      /\ UNCHANGED <<conf, pushing, mergers, combining, router>>
    BY DEF RequestFilter
<1>3. UNCHANGED <<setting, next, rules, merged, other, side, pending>>
    BY <1>2 DEF pushing, combining
<1>4. ConfShape(conf) /\ IsRouter(conf, router)
    BY <1>1, <1>2 DEF ConfInv, RouterInv
<1>5. PICK M : MergerInv(conf, M, DOMAIN conf) /\ router = Strict!Merge(M)
    BY <1>4 DEF IsRouter
<1>6. Right(conf, LookupRoute(Strict!Merge(M), host, key), host, key)
    BY <1>4, <1>5, RequestAnswered
<1>7. Right(conf, headers', host, key)
    BY <1>2, <1>5, <1>6
<1>8. request'.host = host /\ request'.key = key
    BY <1>2
<1>9. RequestInv'
    BY <1>2, <1>7, <1>8 DEF RequestInv
<1>10. ConfInv' /\ PushInv' /\ MergersInv' /\ CombineInv' /\ RouterInv'
    BY <1>1, <1>2, <1>3 DEF ConfInv, PushInv, MergersInv, CombineInv, RouterInv, Taken
<1> QED
    BY <1>9, <1>10 DEF RulesState

LEMMA SameState ==
    ASSUME RulesState, UNCHANGED vars
    PROVE  RulesState'
<1>1. /\ ConfInv /\ PushInv /\ MergersInv /\ CombineInv /\ RouterInv /\ RequestInv
    BY DEF RulesState
<1>2. UNCHANGED <<conf, setting, next, rules, mergers, merged, other, side, pending, router,
                  request, headers>>
    BY DEF vars, pushing, combining, serving
<1>3. ConfInv' /\ PushInv' /\ MergersInv' /\ CombineInv' /\ RouterInv' /\ RequestInv'
    BY <1>1, <1>2 DEF ConfInv, PushInv, MergersInv, CombineInv, RouterInv, RequestInv, Taken
<1> QED
    BY <1>3 DEF RulesState

-----------------------------------------------------------------------------
(* The rules whose headers are sent.                                       *)

ServedNumbers(c, l, h, key) ==
    /\ l \in Seq(Numbers)
    /\ \A a \in Range(l) : /\ a[1] \in DOMAIN c /\ a[2] \in Applying(c, a[1], h, key)
                           /\ a = <<a[1], a[2]>>
    /\ \A a, b : Ahead(l, a, b) =>
           /\ a # b
           /\ a[1] = b[1] =>
                 ~MatcherBefore(Hit(c, b[1], b[2], h, key).sorter, Hit(c, a[1], a[2], h, key).sorter)
    /\ FullIn(c) => \A s \in DOMAIN c : \A n \in Applying(c, s, h, key) : <<s, n>> \in Range(l)

LEMMA ResultServed ==
    ASSUME NEW c, NEW r, NEW h, NEW key, IsResult(c, r, h, key)
    PROVE  ServedNumbers(c, Flatten(r), h, key)
<1> DEFINE l == Flatten(r)
           V == Seq(Numbers)
<1>1. /\ r \in Seq(Seq(Numbers))
      /\ \A v \in Range(r) : \E s \in DOMAIN c : IsValue(c, v, s, h, key)
      /\ \A v, w : Ahead(r, v, w) => v[1][1] # w[1][1]
      /\ FullIn(c) => \A s \in DOMAIN c : Applying(c, s, h, key) # {} =>
             \E v \in Range(r) : IsValue(c, v, s, h, key)
    BY DEF IsResult
<1>2. /\ l \in Seq(Numbers)
      /\ \A x : x \in Range(l) <=> \E v \in Range(r) : x \in Range(v)
      /\ \A x, y : Ahead(l, x, y) <=>
             \/ \E v \in Range(r) : Ahead(v, x, y)
             \/ \E v, w : Ahead(r, v, w) /\ x \in Range(v) /\ y \in Range(w)
    BY <1>1, FlattenList
<1> HIDE DEF l
<1>3. ASSUME NEW v \in Range(r), NEW x \in Range(v)
      PROVE  /\ x[1] = v[1][1] /\ x[1] \in DOMAIN c /\ x[2] \in Applying(c, x[1], h, key)
             /\ x = <<x[1], x[2]>>
  <2>1. PICK s \in DOMAIN c : IsValue(c, v, s, h, key)
    BY <1>1
  <2>2. v[1][1] = s /\ v \in Seq(Numbers)
    BY <2>1, ValueSetting
  <2>3. x[1] = s /\ x[2] \in Applying(c, s, h, key)
    BY <2>1 DEF IsValue
  <2>4. x \in Numbers
    BY <2>2, RangeOfList
  <2>5. x = <<x[1], x[2]>>
    BY <2>4 DEF Numbers
  <2> QED
    BY <2>2, <2>3, <2>5
<1>4. ASSUME NEW x, NEW y, Ahead(l, x, y)
      PROVE  /\ x # y
             /\ x[1] = y[1] =>
                  ~MatcherBefore(Hit(c, y[1], y[2], h, key).sorter, Hit(c, x[1], x[2], h, key).sorter)
  <2>1. CASE \E v \in Range(r) : Ahead(v, x, y)
    <3>1. PICK v \in Range(r) : Ahead(v, x, y)
      BY <2>1
    <3>2. PICK s \in DOMAIN c : IsValue(c, v, s, h, key)
      BY <1>1
    <3>3. x \in Range(v) /\ y \in Range(v)
      BY <3>1, AheadRange
    <3>4. /\ x[1] = s /\ y[1] = s /\ x # y
          /\ ~MatcherBefore(Hit(c, s, y[2], h, key).sorter, Hit(c, s, x[2], h, key).sorter)
      BY <3>1, <3>2, <3>3 DEF IsValue
    <3> QED
      BY <3>4
  <2>2. CASE \E v, w : Ahead(r, v, w) /\ x \in Range(v) /\ y \in Range(w)
    <3>1. PICK v, w : Ahead(r, v, w) /\ x \in Range(v) /\ y \in Range(w)
      BY <2>2
    <3>2. v \in Range(r) /\ w \in Range(r) /\ v[1][1] # w[1][1]
      BY <1>1, <3>1, AheadRange
    <3>3. x[1] # y[1]
      BY <1>3, <3>1, <3>2
    <3> QED
      BY <3>3
  <2> QED
    BY <1>2, <1>4, <2>1, <2>2
<1>5. ASSUME FullIn(c), NEW s \in DOMAIN c, NEW n \in Applying(c, s, h, key)
      PROVE  <<s, n>> \in Range(l)
  <2>1. PICK v \in Range(r) : IsValue(c, v, s, h, key)
    BY <1>1, <1>5
  <2>2. <<s, n>> \in Range(v)
    BY <1>5, <2>1 DEF IsValue
  <2> QED
    BY <1>2, <2>2
<1>6. \A x \in Range(l) : /\ x[1] \in DOMAIN c /\ x[2] \in Applying(c, x[1], h, key)
                          /\ x = <<x[1], x[2]>>
    BY <1>2, <1>3
<1> QED
    BY <1>2, <1>4, <1>5, <1>6 DEF ServedNumbers, l

LEMMA NothingServed ==
    ASSUME NEW c, NEW h, NEW key, Right(c, None, h, key)
    PROVE  ServedNumbers(c, <<>>, h, key)
<1>1. FullIn(c) => \A s \in DOMAIN c : Applying(c, s, h, key) = {}
    BY DEF Right
<1>2. <<>> \in Seq(Numbers) /\ Range(<<>>) = {} /\ \A a, b : ~Ahead(<<>>, a, b)
    BY EmptyList
<1> QED
    BY <1>1, <1>2 DEF ServedNumbers

LEMMA RulesSent ==
    ASSUME RulesState, request # None
    PROVE  /\ ConfShape(conf) /\ request.key \in Words
           /\ ServedNumbers(conf, SentRules, request.host, request.key)
<1>1. /\ ConfShape(conf) /\ request.key \in Words
      /\ Right(conf, headers, request.host, request.key)
    BY DEF RulesState, ConfInv, RequestInv
<1>2. CASE headers = None
    BY <1>1, <1>2, NothingServed DEF SentRules
<1>3. CASE headers # None
  <2>1. IsResult(conf, headers, request.host, request.key)
    BY <1>1, <1>3 DEF Right
  <2>2. SentRules = Flatten(headers)
    BY <1>3 DEF SentRules
  <2> QED
    BY <1>1, <2>1, <2>2, ResultServed
<1> QED
    BY <1>2, <1>3

(* What a rule number stands for.                                          *)
LEMMA RuleNumbersAre ==
    ASSUME ConfShape(conf)
    PROVE  /\ \A s \in DOMAIN conf : \A n \in DOMAIN conf[s] :
                  <<s, n>> \in RuleNumbers /\ RuleOf(<<s, n>>) = conf[s][n]
           /\ \A a \in RuleNumbers : /\ a = <<a[1], a[2]>> /\ a[1] \in DOMAIN conf
                                     /\ a[2] \in DOMAIN conf[a[1]]
BY DEF RuleNumbers, RuleOf

LEMMA ConditionsMet ==
    ASSUME ConfShape(conf), HostsKnown, Regular
    PROVE  FullIn(conf)
<1>1. ASSUME NEW s \in DOMAIN conf, NEW n \in DOMAIN conf[s] PROVE RegularRule(conf[s][n])
  <2>1. <<s, n>> \in RuleNumbers /\ RuleOf(<<s, n>>) = conf[s][n]
    BY RuleNumbersAre
  <2> DEFINE a == <<s, n>>
  <2>2. a \in RuleNumbers /\ RuleOf(a) = conf[s][n]
    BY <2>1
  <2> HIDE DEF a
  <2>3. /\ RuleOf(a).include = <<>> => RuleOf(a).exclude = <<>>
        /\ \A m \in Range(RuleOf(a).exclude) : ~m.exact
        /\ (\E m \in Range(RuleOf(a).include) : m.exact) => Len(RuleOf(a).include) = 1
    BY <2>2 DEF Regular
  <2> QED
    BY <2>2, <2>3 DEF RegularRule
<1>2. KnownIn(conf)
    BY DEF HostsKnown, KnownIn, Named, NamedIn
<1> QED
    BY <1>1, <1>2 DEF FullIn, RegularIn

LEMMA AppliedIs ==
    ASSUME NEW c, ConfShape(c), NEW s \in DOMAIN c, NEW h, NEW key \in Words
    PROVE  /\ \A n \in Applying(c, s, h, key) :
                  /\ n \in DOMAIN c[s] /\ Applies(c[s][n], h, key)
                  /\ Included(c[s][n], h, key) # {}
                  /\ Hit(c, s, n, h, key).sorter = Best(Included(c[s][n], h, key))
           /\ FullIn(c) => \A n \in DOMAIN c[s] :
                  Applies(c[s][n], h, key) => n \in Applying(c, s, h, key)
<1>1. ASSUME NEW n \in Applying(c, s, h, key)
      PROVE  /\ n \in DOMAIN c[s] /\ Applies(c[s][n], h, key)
             /\ Included(c[s][n], h, key) # {}
             /\ Hit(c, s, n, h, key).sorter = Best(Included(c[s][n], h, key))
  <2>1. n \in DOMAIN c[s] /\ RuleMatches(c[s][n], h, key, FALSE).any
    BY DEF Applying, Hit
  <2> DEFINE rule == c[s][n]
             force == FALSE
  <2>2. RuleShape(rule) /\ RuleMatches(rule, h, key, force).any
    BY <2>1 DEF ConfShape
  <2> HIDE DEF rule, force
  <2>3. /\ Applies(rule, h, key) /\ Included(rule, h, key) # {}
        /\ RuleMatches(rule, h, key, force).sorter = Best(Included(rule, h, key))
    BY <2>2, RuleMatchIs
  <2> QED
    BY <2>1, <2>3 DEF rule, force, Hit
<1>2. ASSUME FullIn(c), NEW n \in DOMAIN c[s], Applies(c[s][n], h, key)
      PROVE  n \in Applying(c, s, h, key)
  <2> DEFINE rule == c[s][n]
             force == FALSE
  <2>1. RuleShape(rule) /\ Applies(rule, h, key) /\ (rule.include = <<>> => rule.exclude = <<>>)
    BY <1>2 DEF ConfShape, FullIn, RegularIn, RegularRule
  <2> HIDE DEF rule, force
  <2>2. RuleMatches(rule, h, key, force).any
    BY <2>1, RuleMatchIs
  <2> QED
    BY <2>2 DEF Applying, Hit, rule, force
<1> QED
    BY <1>1, <1>2

LEMMA SentAreDocumented ==
    ASSUME RulesState
    PROVE  NothingExtra
<1> SUFFICES ASSUME request # None, NEW a \in Sent PROVE a \in Documented(request)
    BY DEF NothingExtra
<1> DEFINE h == request.host
           key == request.key
<1>1. ConfShape(conf) /\ key \in Words /\ ServedNumbers(conf, SentRules, h, key)
    BY RulesSent
<1>2. /\ a[1] \in DOMAIN conf /\ a[2] \in Applying(conf, a[1], h, key) /\ a = <<a[1], a[2]>>
    BY <1>1 DEF ServedNumbers, Sent
<1>3. a[2] \in DOMAIN conf[a[1]] /\ Applies(conf[a[1]][a[2]], h, key)
    BY <1>1, <1>2, AppliedIs
<1>4. a \in RuleNumbers
    BY <1>1, <1>2, <1>3, RuleNumbersAre
<1> QED
    BY <1>3, <1>4 DEF Documented, RuleOf

LEMMA AllAreSent ==
    ASSUME RulesState
    PROVE  RegularRulesApplied
<1> SUFFICES ASSUME HostsKnown, Regular, request # None
             PROVE  Sent = Documented(request) /\ IsInjective(SentRules)
    BY DEF RegularRulesApplied, RulesApplied
<1> DEFINE h == request.host
           key == request.key
<1>1. ConfShape(conf) /\ key \in Words /\ ServedNumbers(conf, SentRules, h, key)
    BY RulesSent
<1>2. FullIn(conf)
    BY <1>1, ConditionsMet
<1>3. Sent \subseteq Documented(request)
    BY SentAreDocumented DEF NothingExtra
<1>4. ASSUME NEW a \in Documented(request) PROVE a \in Sent
  <2>1. a \in RuleNumbers /\ Applies(conf[a[1]][a[2]], h, key)
    BY DEF Documented, RuleOf
  <2>2. a = <<a[1], a[2]>> /\ a[1] \in DOMAIN conf /\ a[2] \in DOMAIN conf[a[1]]
    BY <1>1, <2>1, RuleNumbersAre
  <2>3. a[2] \in Applying(conf, a[1], h, key)
    BY <1>1, <1>2, <2>1, <2>2, AppliedIs
  <2>4. <<a[1], a[2]>> \in Range(SentRules)
    BY <1>1, <1>2, <2>2, <2>3 DEF ServedNumbers
  <2> QED
    BY <2>2, <2>4 DEF Sent
<1>5. IsInjective(SentRules)
  <2> SUFFICES ASSUME NEW i \in DOMAIN SentRules, NEW j \in DOMAIN SentRules,
                      SentRules[i] = SentRules[j], i # j
               PROVE  FALSE
    BY DEF IsInjective
  <2>1. DOMAIN SentRules \subseteq Nat
    BY <1>1 DEF ServedNumbers
  <2>2. \A x, y : Ahead(SentRules, x, y) => x # y
    BY <1>1 DEF ServedNumbers
  <2>3. i < j \/ j < i
    BY <2>1
  <2> QED
    BY <2>2, <2>3 DEF Ahead
<1> QED
    BY <1>3, <1>4, <1>5

LEMMA LaterAreSpecific ==
    ASSUME RulesState
    PROVE  SpecificPrevails
<1> SUFFICES ASSUME request # None, NEW i \in DOMAIN SentRules, NEW j \in DOMAIN SentRules,
                    SentRules[i][1] = SentRules[j][1],
                    MoreSpecific(Specificity(SentRules[i]), Specificity(SentRules[j]))
             PROVE  i > j
    BY DEF SpecificPrevails
<1> DEFINE h == request.host
           key == request.key
           a == SentRules[i]
           b == SentRules[j]
<1>1. ConfShape(conf) /\ key \in Words /\ ServedNumbers(conf, SentRules, h, key)
    BY RulesSent
<1>2. a \in Range(SentRules) /\ b \in Range(SentRules)
    BY DEF Range
<1>3. \A x \in Range(SentRules) :
          /\ x[1] \in DOMAIN conf /\ x[2] \in Applying(conf, x[1], h, key)
    BY <1>1 DEF ServedNumbers
<1>4. \A x \in Range(SentRules) :
          /\ Hit(conf, x[1], x[2], h, key).sorter = Specificity(x)
          /\ Specificity(x) \in Matchers /\ Covers(Specificity(x), h, key)
          /\ Specificity(x) \in MatchersFor(h)
  <2> TAKE x \in Range(SentRules)
  <2> DEFINE rule == conf[x[1]][x[2]]
             I == Included(rule, h, key)
  <2>1. /\ x[2] \in DOMAIN conf[x[1]] /\ I # {}
        /\ Hit(conf, x[1], x[2], h, key).sorter = Best(I)
    BY <1>1, <1>3, AppliedIs
  <2>2. RuleShape(rule)
    BY <1>1, <1>3, <2>1 DEF ConfShape
  <2>3. Specificity(x) = Best(I)
    BY DEF Specificity, RuleOf
  <2> HIDE DEF rule
  <2>4. Best(I) \in I
    BY <1>1, <2>1, <2>2, RuleLists, BestOne
  <2>5. Best(I) \in MatchersFor(h) /\ Best(I) \in Matchers /\ Covers(Best(I), h, key)
    BY <1>1, <2>2, <2>4, RuleLists
  <2> QED
    BY <2>1, <2>3, <2>5
<1>5. MatcherBefore(Hit(conf, b[1], b[2], h, key).sorter, Hit(conf, a[1], a[2], h, key).sorter)
  <2> DEFINE m == Specificity(a)
             n == Specificity(b)
  <2>1. /\ m \in Matchers /\ n \in Matchers /\ Covers(m, h, key) /\ Covers(n, h, key)
        /\ MoreSpecific(m, n)
    BY <1>2, <1>4
  <2>2. Hit(conf, b[1], b[2], h, key).sorter = n /\ Hit(conf, a[1], a[2], h, key).sorter = m
    BY <1>2, <1>4
  <2> HIDE DEF m, n
  <2>3. MatcherBefore(n, m)
    BY <1>1, <2>1, SpecificIs
  <2> QED
    BY <2>2, <2>3
<1>6. a # b
  <2>1. Hit(conf, a[1], a[2], h, key).sorter \in Matchers
    BY <1>2, <1>4
  <2> QED
    BY <1>5, <2>1, MatcherOrder
<1>7. ~Ahead(SentRules, a, b)
    BY <1>1, <1>5 DEF ServedNumbers
<1>8. i \in Nat /\ j \in Nat
    BY <1>1 DEF ServedNumbers
<1>9. ~(i < j)
    BY <1>7, <1>8 DEF Ahead
<1> QED
    BY <1>6, <1>8, <1>9

-----------------------------------------------------------------------------
(* The theorems.                                                           *)

LEMMA RulesStep ==
    ASSUME RulesState,
           \/ PushRule \/ FinishSetting \/ TakeMerger
           \/ AlignOther \/ TurnAround \/ AlignSelf \/ Combine \/ BuildRouter
           \/ UNCHANGED vars
    PROVE  RulesState'
BY PushRuleState, FinishSettingState, TakeMergerState, AlignOtherState, TurnAroundState,
   AlignSelfState, CombineState, BuildRouterState, SameState

LEMMA RulesInvariance == Spec => []RulesState
<1>1. Init => RulesState
    BY InitState
<1>2. RulesState /\ [Next]_vars => RulesState'
  <2> SUFFICES ASSUME RulesState, [Next]_vars PROVE RulesState'
    OBVIOUS
  <2>1. CASE \E host \in RequestHosts, key \in RequestKeys : RequestFilter(host, key)
    <3>1. PICK host \in RequestHosts, key \in RequestKeys : RequestFilter(host, key)
      BY <2>1
    <3>2. key \in Words
      BY KeysAssumption DEF Words
    <3> QED
      BY <3>1, <3>2, RequestFilterState
  <2>2. CASE ~\E host \in RequestHosts, key \in RequestKeys : RequestFilter(host, key)
    BY <2>2, RulesStep DEF Next
  <2> QED
    BY <2>1, <2>2
<1> QED
    BY <1>1, <1>2, PTL DEF Spec

LEMMA ServedInvariance == ServedSpec => []RulesState
<1>1. ServedInit => RulesState
    BY InitState DEF ServedInit
<1>2. RulesState /\ [ServedNext]_servedVars => RulesState'
  <2> SUFFICES ASSUME RulesState, [ServedNext]_servedVars PROVE RulesState'
    OBVIOUS
  <2>1. CASE CreateHeaders
    BY <2>1, RulesStep DEF CreateHeaders
  <2>2. CASE CreateRewrite \/ Rewrite \/ UNCHANGED servedVars
    <3>1. UNCHANGED vars
      BY <2>2 DEF CreateRewrite, Rewrite, servedVars
    <3> QED
      BY <3>1, RulesStep
  <2>3. CASE \E host \in RequestHosts, p \in RequestPaths, ms \in R!Matchings :
                 FilterRequest(host, p, ms)
    <3>1. PICK host \in RequestHosts, p \in RequestPaths, ms \in R!Matchings :
                 FilterRequest(host, p, ms)
      BY <2>3
    <3>2. p \in Words
      BY RequestPathsAssumption DEF AbsolutePaths, Words
    <3>3. R!Segments(p) = Segments(p)
      BY DEF R!Segments, Segments, R!Empty, Empty
    <3>4. R!Segments(p) \in Words
      BY <3>2, <3>3, SegmentsType
    <3>5. RequestFilter(host, R!Segments(p))
      BY <3>1 DEF FilterRequest
    <3> QED
      BY <3>4, <3>5, RequestFilterState
  <2>4. CASE \E headersOfIt \in OwnHeaders : Respond(headersOfIt)
    <3>1. UNCHANGED vars
      BY <2>4 DEF Respond
    <3> QED
      BY <3>1, RulesStep
  <2> QED
    BY <2>1, <2>2, <2>3, <2>4 DEF ServedNext
<1> QED
    BY <1>1, <1>2, PTL DEF ServedSpec

(* Of the configured header rules a response never gets one that does not  *)
(* apply to its host and path: whatever the rules are, and also where      *)
(* combining the settings loses some.                                      *)
THEOREM NoOtherRules == ServedSpec => []NothingExtra
BY ServedInvariance, SentAreDocumented, PTL

(* Of the rules of a setting a more specific one comes later, where its    *)
(* values replace the others'.                                             *)
THEOREM SpecificRulesLast == ServedSpec => []SpecificPrevails
BY ServedInvariance, LaterAreSpecific, PTL

(* Every rule that applies is sent, once, whatever locations the settings  *)
(* have in common, if the first one knows the hosts of the others or is    *)
(* alone and the rules are regular.                                        *)
THEOREM RegularRulesSent == ServedSpec => []RegularRulesApplied
BY ServedInvariance, AllAreSent, PTL

(* The same of the header rules alone, where requests come at any time.    *)
THEOREM RulesAlone == Spec => [](NothingExtra /\ SpecificPrevails /\ RegularRulesApplied)
<1>1. RulesState => NothingExtra /\ SpecificPrevails /\ RegularRulesApplied
    BY SentAreDocumented, LaterAreSpecific, AllAreSent
<1> QED
    BY <1>1, RulesInvariance, PTL

-----------------------------------------------------------------------------
(* What the rules of a value set.                                          *)

RuleSets(c, a) == c[a[1]][a[2]].sets

(* f[n] is what the first n rules of v set.                                *)
IsMerged(f, c, v, k) ==
    /\ f = [n \in 0 .. k |-> f[n]]
    /\ f[0] = Nothing
    /\ \A n \in 1 .. k : f[n] = MergeWith(f[n - 1], RuleSets(c, v[n]))

LEMMA MergedExists ==
    ASSUME NEW c, NEW v, NEW N \in Nat
    PROVE  \E f : IsMerged(f, c, v, N)
<1> DEFINE T == {k \in Nat : \E f : IsMerged(f, c, v, k)}
<1>1. 0 \in T
  <2> DEFINE f == [n \in 0 .. 0 |-> Nothing]
  <2>1. IsMerged(f, c, v, 0)
    BY DEF IsMerged
  <2> QED
    BY <2>1
<1>2. ASSUME NEW k \in T PROVE k + 1 \in T
  <2>1. PICK f : IsMerged(f, c, v, k)
    OBVIOUS
  <2> DEFINE w == MergeWith(f[k], RuleSets(c, v[k + 1]))
             g == [n \in 0 .. (k + 1) |-> IF n = k + 1 THEN w ELSE f[n]]
  <2>2. k \in Nat
    OBVIOUS
  <2>3. /\ f[0] = Nothing
        /\ \A n \in 1 .. k : f[n] = MergeWith(f[n - 1], RuleSets(c, v[n]))
    BY <2>1 DEF IsMerged
  <2>4. g[k + 1] = w /\ \A n \in 0 .. k : g[n] = f[n]
    <3> HIDE DEF w
    <3> QED
      BY <2>2
  <2>5. g = [n \in 0 .. (k + 1) |-> g[n]]
    <3> HIDE DEF w
    <3> QED
      BY <2>2
  <2> HIDE DEF g
  <2>6. g[0] = Nothing
    BY <2>2, <2>3, <2>4
  <2>7. ASSUME NEW n \in 1 .. (k + 1) PROVE g[n] = MergeWith(g[n - 1], RuleSets(c, v[n]))
    <3>1. CASE n = k + 1
      <4>1. n - 1 = k /\ k \in 0 .. k
        BY <2>2, <3>1
      <4> QED
        BY <2>4, <3>1, <4>1
    <3>2. CASE n \in 1 .. k
      <4>1. n \in 0 .. k /\ n - 1 \in 0 .. k
        BY <2>2, <3>2
      <4>2. g[n] = f[n] /\ g[n - 1] = f[n - 1]
        BY <2>4, <4>1
      <4> QED
        BY <2>3, <3>2, <4>2
    <3> QED
      BY <2>2, <3>1, <3>2
  <2>8. IsMerged(g, c, v, k + 1)
    BY <2>5, <2>6, <2>7 DEF IsMerged
  <2> QED
    BY <2>2, <2>8
<1>3. T \in SUBSET Nat
    OBVIOUS
<1> HIDE DEF T
<1>4. \A n \in Nat : n \in T
    BY <1>1, <1>2, <1>3, Induction
<1> QED
    BY <1>4 DEF T

OptionsIn(c, v) ==
    LET combined[n \in 0 .. Len(v)] ==
            IF n = 0 THEN Nothing ELSE MergeWith(combined[n - 1], RuleSets(c, v[n]))
    IN  combined[Len(v)]

LEMMA OptionsMerged ==
    ASSUME NEW c, NEW v, Len(v) \in Nat
    PROVE  \E f : IsMerged(f, c, v, Len(v)) /\ OptionsIn(c, v) = f[Len(v)]
<1> DEFINE N == Len(v)
           Step(f) == [n \in 0 .. N |->
                          IF n = 0 THEN Nothing ELSE MergeWith(f[n - 1], RuleSets(c, v[n]))]
           made == CHOOSE f : f = Step(f)
<1>1. OptionsIn(c, v) = made[N]
    BY DEF OptionsIn
<1> HIDE DEF N
<1>2. N \in Nat
    BY DEF N
<1>3. PICK f : IsMerged(f, c, v, N)
    BY <1>2, MergedExists
<1>4. f = Step(f)
  <2>1. \A i \in 0 .. N : f[i] = Step(f)[i]
    <3> TAKE i \in 0 .. N
    <3>1. i = 0 \/ i \in 1 .. N
      BY <1>2
    <3> QED
      BY <1>3, <3>1 DEF IsMerged
  <2>2. f = [i \in 0 .. N |-> f[i]]
    BY <1>3 DEF IsMerged
  <2> QED
    BY <2>1, <2>2
<1>5. made = Step(made)
    BY <1>4
<1> HIDE DEF made
<1>6. IsMerged(made, c, v, N)
  <2>1. made = [i \in 0 .. N |-> made[i]]
    BY <1>5
  <2>2. made[0] = Nothing
    BY <1>2, <1>5
  <2>3. ASSUME NEW i \in 1 .. N PROVE made[i] = MergeWith(made[i - 1], RuleSets(c, v[i]))
    <3>1. i \in 0 .. N /\ i # 0
      BY <1>2
    <3> HIDE DEF Step
    <3>2. Step(made)[i] = MergeWith(made[i - 1], RuleSets(c, v[i]))
      BY <3>1 DEF Step
    <3> QED
      BY <1>5, <3>2
  <2> QED
    BY <2>1, <2>2, <2>3 DEF IsMerged
<1> QED
  <2>1. OptionsIn(c, v) = made[N]
    BY <1>1
  <2> QED
    BY <1>6, <2>1 DEF N

(* Values of list options are lists.                                       *)
AreLists(g) == \A o \in DOMAIN g \intersect ListOptions : g[o] \in Seq(Range(g[o]))

(* What g has for an option, of the first n rules of v.                    *)
OptionFrom(x, o, c, v, n) ==
    IF o \in ListOptions
    THEN Range(x) = UNION {Range(RuleSets(c, v[i])[o]) :
                              i \in {j \in 1 .. n : o \in DOMAIN RuleSets(c, v[j])}}
    ELSE \E i \in 1 .. n :
            /\ o \in DOMAIN RuleSets(c, v[i]) /\ x = RuleSets(c, v[i])[o]
            /\ \A j \in 1 .. n : i < j => o \notin DOMAIN RuleSets(c, v[j])

OptionsFrom(g, c, v, n) ==
    /\ AreLists(g)
    /\ \A o : o \in DOMAIN g <=> \E i \in 1 .. n : o \in DOMAIN RuleSets(c, v[i])
    /\ \A o \in DOMAIN g : OptionFrom(g[o], o, c, v, n)

LEMMA ListsJoined ==
    ASSUME NEW a, NEW b, a \in Seq(Range(a)), b \in Seq(Range(b))
    PROVE  Range(a \o b) = Range(a) \union Range(b) /\ a \o b \in Seq(Range(a \o b))
<1> DEFINE S == Range(a) \union Range(b)
<1>1. (\A x \in Range(a) : x \in S) /\ (\A x \in Range(b) : x \in S)
    OBVIOUS
<1> HIDE DEF S
<1>2. a \in Seq(S) /\ b \in Seq(S)
    BY <1>1, InRange
<1>3. a \o b \in Seq(S) /\ Range(a \o b) = Range(a) \union Range(b)
    BY <1>2, JoinedLists
<1>4. a \o b \in Seq(Range(a \o b))
  <2> DEFINE l == a \o b
  <2> HIDE DEF l
  <2>1. l \in Seq(S)
    BY <1>3 DEF l
  <2>2. l \in Seq(Range(l))
    BY <2>1, InRange
  <2> QED
    BY <2>2 DEF l
<1> QED
    BY <1>3, <1>4

LEMMA OneMore ==
    ASSUME NEW c, NEW v, NEW n \in Nat, NEW g, OptionsFrom(g, c, v, n),
           AreLists(RuleSets(c, v[n + 1]))
    PROVE  OptionsFrom(MergeWith(g, RuleSets(c, v[n + 1])), c, v, n + 1)
<1> DEFINE new == RuleSets(c, v[n + 1])
           m == MergeWith(g, new)
           D(i) == DOMAIN RuleSets(c, v[i])
<1>1. /\ AreLists(g)
      /\ \A o : o \in DOMAIN g <=> \E i \in 1 .. n : o \in D(i)
      /\ \A o \in DOMAIN g : OptionFrom(g[o], o, c, v, n)
    BY DEF OptionsFrom
<1>2. /\ DOMAIN m = DOMAIN g \union DOMAIN new
      /\ \A o \in DOMAIN m : m[o] = IF o \notin DOMAIN new THEN g[o]
                                    ELSE IF o \in DOMAIN g /\ o \in ListOptions THEN g[o] \o new[o]
                                    ELSE new[o]
    BY DEF MergeWith
<1>3. AreLists(new)
    OBVIOUS
<1>4. \A i : i \in 1 .. (n + 1) <=> i \in 1 .. n \/ i = n + 1
    OBVIOUS
<1>5. new = RuleSets(c, v[n + 1]) /\ DOMAIN new = D(n + 1)
    OBVIOUS
<1> HIDE DEF new, m
<1>6. \A o : o \in DOMAIN m <=> \E i \in 1 .. (n + 1) : o \in D(i)
    BY <1>1, <1>2, <1>4, <1>5
<1>7. ASSUME NEW o \in DOMAIN m, o \in ListOptions
      PROVE  m[o] \in Seq(Range(m[o])) /\ OptionFrom(m[o], o, c, v, n + 1)
  <2> DEFINE Parts(k) == UNION {Range(RuleSets(c, v[i])[o]) : i \in {j \in 1 .. k : o \in D(j)}}
  <2>1. Parts(n + 1) = IF o \in DOMAIN new THEN Parts(n) \union Range(new[o]) ELSE Parts(n)
    BY <1>4, <1>5
  <2>2. o \in DOMAIN g => Range(g[o]) = Parts(n) /\ g[o] \in Seq(Range(g[o]))
    BY <1>1, <1>7 DEF OptionFrom, AreLists
  <2>3. o \notin DOMAIN g => Parts(n) = {}
    BY <1>1
  <2>4. o \in DOMAIN new => new[o] \in Seq(Range(new[o]))
    BY <1>3, <1>7 DEF AreLists
  <2> HIDE DEF Parts
  <2>5. m[o] \in Seq(Range(m[o])) /\ Range(m[o]) = Parts(n + 1)
    <3>1. CASE o \notin DOMAIN new
      BY <1>2, <2>1, <2>2, <3>1
    <3>2. CASE o \in DOMAIN new /\ o \notin DOMAIN g
      BY <1>2, <2>1, <2>3, <2>4, <3>2
    <3>3. CASE o \in DOMAIN new /\ o \in DOMAIN g
      <4>1. m[o] = g[o] \o new[o]
        BY <1>2, <1>7, <3>3
      <4>2. /\ Range(g[o] \o new[o]) = Range(g[o]) \union Range(new[o])
            /\ g[o] \o new[o] \in Seq(Range(g[o] \o new[o]))
        BY <2>2, <2>4, <3>3, ListsJoined
      <4> QED
        BY <2>1, <2>2, <3>3, <4>1, <4>2
    <3> QED
      BY <3>1, <3>2, <3>3
  <2> QED
    BY <1>7, <2>5 DEF OptionFrom, Parts
<1>8. ASSUME NEW o \in DOMAIN m, o \notin ListOptions
      PROVE  OptionFrom(m[o], o, c, v, n + 1)
  <2>1. CASE o \in DOMAIN new
    <3>1. m[o] = new[o] /\ n + 1 \in 1 .. (n + 1) /\ \A j \in 1 .. (n + 1) : ~(n + 1 < j)
      BY <1>2, <1>8, <2>1
    <3> QED
      BY <1>5, <1>8, <2>1, <3>1 DEF OptionFrom
  <2>2. CASE o \notin DOMAIN new
    <3>1. m[o] = g[o] /\ o \in DOMAIN g
      BY <1>2, <2>2
    <3>2. PICK i \in 1 .. n :
            /\ o \in D(i) /\ g[o] = RuleSets(c, v[i])[o]
            /\ \A j \in 1 .. n : i < j => o \notin D(j)
      BY <1>1, <1>8, <3>1 DEF OptionFrom
    <3>3. i \in 1 .. (n + 1) /\ \A j \in 1 .. (n + 1) : i < j => o \notin D(j)
      BY <1>4, <1>5, <2>2, <3>2
    <3> QED
      BY <1>8, <3>1, <3>2, <3>3 DEF OptionFrom
  <2> QED
    BY <2>1, <2>2
<1>9. AreLists(m)
    BY <1>7 DEF AreLists
<1>10. OptionsFrom(m, c, v, n + 1)
    BY <1>6, <1>7, <1>8, <1>9 DEF OptionsFrom
<1> QED
    BY <1>10 DEF m, new

LEMMA OptionsAre ==
    ASSUME NEW c, NEW v, Len(v) \in Nat, \A n \in 1 .. Len(v) : AreLists(RuleSets(c, v[n]))
    PROVE  OptionsFrom(OptionsIn(c, v), c, v, Len(v))
<1> DEFINE N == Len(v)
<1>1. PICK f : IsMerged(f, c, v, N) /\ OptionsIn(c, v) = f[N]
    BY OptionsMerged
<1> DEFINE T == {n \in Nat : n <= N => OptionsFrom(f[n], c, v, n)}
<1>2. /\ f[0] = Nothing
      /\ \A n \in 1 .. N : f[n] = MergeWith(f[n - 1], RuleSets(c, v[n]))
    BY <1>1 DEF IsMerged
<1>3. 0 \in T
  <2>1. DOMAIN Nothing = {}
    BY DEF Nothing
  <2>2. OptionsFrom(Nothing, c, v, 0)
    BY <2>1 DEF OptionsFrom, AreLists
  <2> QED
    BY <1>2, <2>2
<1> HIDE DEF N
<1>4. ASSUME NEW n \in T PROVE n + 1 \in T
  <2> SUFFICES ASSUME n + 1 <= N PROVE OptionsFrom(f[n + 1], c, v, n + 1)
    OBVIOUS
  <2>1. n \in Nat /\ n + 1 \in 1 .. N /\ (n + 1) - 1 = n /\ OptionsFrom(f[n], c, v, n)
    BY DEF N
  <2>2. f[n + 1] = MergeWith(f[n], RuleSets(c, v[n + 1]))
    BY <1>2, <2>1
  <2>3. AreLists(RuleSets(c, v[n + 1]))
    BY <2>1 DEF N
  <2> HIDE DEF T
  <2> QED
    BY <2>1, <2>2, <2>3, OneMore
<1>5. T \in SUBSET Nat
    OBVIOUS
<1>6. \A n \in Nat : n \in T
  <2> HIDE DEF T
  <2> QED
    BY <1>3, <1>4, <1>5, Induction
<1> QED
    BY <1>1, <1>6 DEF N

-----------------------------------------------------------------------------
(* The header lines that values result in.                                 *)

HeaderNames(g, s) == {HeaderFor(s, o) : o \in DOMAIN g}
HeaderParts(g, s, name) == [o \in {p \in DOMAIN g : HeaderFor(s, p) = name} |-> g[o]]
PartOf(c, v, name) == HeaderParts(OptionsIn(c, v), SettingOf(v), name)
IntoIn(c, v) ==
    [name \in HeaderNames(OptionsIn(c, v), SettingOf(v)) |-> <<PartOf(c, v, name)>>]

(* f[n] has the lines for the first n values of v.                         *)
IsLines(f, c, v, k) ==
    /\ f = [n \in 0 .. k |-> f[n]]
    /\ f[0] = Nothing
    /\ \A n \in 1 .. k : f[n] = CombineLines(f[n - 1], IntoIn(c, v[n]))

LEMMA LinesExist ==
    ASSUME NEW c, NEW v, NEW N \in Nat
    PROVE  \E f : IsLines(f, c, v, N)
<1> DEFINE T == {k \in Nat : \E f : IsLines(f, c, v, k)}
<1>1. 0 \in T
  <2> DEFINE f == [n \in 0 .. 0 |-> Nothing]
  <2>1. IsLines(f, c, v, 0)
    BY DEF IsLines
  <2> QED
    BY <2>1
<1>2. ASSUME NEW k \in T PROVE k + 1 \in T
  <2>1. PICK f : IsLines(f, c, v, k)
    OBVIOUS
  <2> DEFINE w == CombineLines(f[k], IntoIn(c, v[k + 1]))
             g == [n \in 0 .. (k + 1) |-> IF n = k + 1 THEN w ELSE f[n]]
  <2>2. k \in Nat
    OBVIOUS
  <2>3. /\ f[0] = Nothing
        /\ \A n \in 1 .. k : f[n] = CombineLines(f[n - 1], IntoIn(c, v[n]))
    BY <2>1 DEF IsLines
  <2>4. g[k + 1] = w /\ \A n \in 0 .. k : g[n] = f[n]
    <3> HIDE DEF w
    <3> QED
      BY <2>2
  <2>5. g = [n \in 0 .. (k + 1) |-> g[n]]
    <3> HIDE DEF w
    <3> QED
      BY <2>2
  <2> HIDE DEF g
  <2>6. g[0] = Nothing
    BY <2>2, <2>3, <2>4
  <2>7. ASSUME NEW n \in 1 .. (k + 1) PROVE g[n] = CombineLines(g[n - 1], IntoIn(c, v[n]))
    <3>1. CASE n = k + 1
      <4>1. n - 1 = k /\ k \in 0 .. k
        BY <2>2, <3>1
      <4> QED
        BY <2>4, <3>1, <4>1
    <3>2. CASE n \in 1 .. k
      <4>1. n \in 0 .. k /\ n - 1 \in 0 .. k
        BY <2>2, <3>2
      <4>2. g[n] = f[n] /\ g[n - 1] = f[n - 1]
        BY <2>4, <4>1
      <4> QED
        BY <2>3, <3>2, <4>2
    <3> QED
      BY <2>2, <3>1, <3>2
  <2>8. IsLines(g, c, v, k + 1)
    BY <2>5, <2>6, <2>7 DEF IsLines
  <2> QED
    BY <2>2, <2>8
<1>3. T \in SUBSET Nat
    OBVIOUS
<1> HIDE DEF T
<1>4. \A n \in Nat : n \in T
    BY <1>1, <1>2, <1>3, Induction
<1> QED
    BY <1>4 DEF T

LinesIn(c, v) ==
    LET lines[n \in 0 .. Len(v)] ==
            IF n = 0 THEN Nothing ELSE CombineLines(lines[n - 1], IntoIn(c, v[n]))
    IN  lines[Len(v)]

LEMMA LinesCombined ==
    ASSUME NEW c, NEW v, Len(v) \in Nat
    PROVE  \E f : IsLines(f, c, v, Len(v)) /\ LinesIn(c, v) = f[Len(v)]
<1> DEFINE N == Len(v)
           Step(f) == [n \in 0 .. N |->
                          IF n = 0 THEN Nothing ELSE CombineLines(f[n - 1], IntoIn(c, v[n]))]
           made == CHOOSE f : f = Step(f)
<1>1. LinesIn(c, v) = made[N]
    BY DEF LinesIn
<1> HIDE DEF N
<1>2. N \in Nat
    BY DEF N
<1>3. PICK f : IsLines(f, c, v, N)
    BY <1>2, LinesExist
<1>4. f = Step(f)
  <2>1. \A i \in 0 .. N : f[i] = Step(f)[i]
    <3> TAKE i \in 0 .. N
    <3>1. i = 0 \/ i \in 1 .. N
      BY <1>2
    <3> QED
      BY <1>3, <3>1 DEF IsLines
  <2>2. f = [i \in 0 .. N |-> f[i]]
    BY <1>3 DEF IsLines
  <2> QED
    BY <2>1, <2>2
<1>5. made = Step(made)
    BY <1>4
<1> HIDE DEF made
<1>6. IsLines(made, c, v, N)
  <2>1. made = [i \in 0 .. N |-> made[i]]
    BY <1>5
  <2>2. made[0] = Nothing
    BY <1>2, <1>5
  <2>3. ASSUME NEW i \in 1 .. N PROVE made[i] = CombineLines(made[i - 1], IntoIn(c, v[i]))
    <3>1. i \in 0 .. N /\ i # 0
      BY <1>2
    <3> HIDE DEF Step
    <3>2. Step(made)[i] = CombineLines(made[i - 1], IntoIn(c, v[i]))
      BY <3>1 DEF Step
    <3> QED
      BY <1>5, <3>2
  <2> QED
    BY <2>1, <2>2, <2>3 DEF IsLines
<1> QED
  <2>1. LinesIn(c, v) = made[N]
    BY <1>1
  <2> QED
    BY <1>6, <2>1 DEF N

(* The values of r, of the first n, with a part of this header.            *)
Contributing(c, r, n, name) == {i \in 1 .. n : name \in DOMAIN IntoIn(c, r[i])}

LineFrom(line, c, r, n, name) ==
    /\ line \in Seq(Range(line))
    /\ Len(line) = Cardinality(Contributing(c, r, n, name))
    /\ \A i \in Contributing(c, r, n, name) : PartOf(c, r[i], name) \in Range(line)

LinesFrom(g, c, r, n) ==
    /\ \A name : name \in DOMAIN g <=> \E i \in 1 .. n : name \in DOMAIN IntoIn(c, r[i])
    /\ \A name \in DOMAIN g : LineFrom(g[name], c, r, n, name)

LEMMA PartAdded ==
    ASSUME NEW line, line \in Seq(Range(line)), NEW part
    PROVE  /\ line \o <<part>> \in Seq(Range(line \o <<part>>))
           /\ Len(line \o <<part>>) = Len(line) + 1
           /\ Range(line \o <<part>>) = Range(line) \union {part}
<1> DEFINE b == <<part>>
<1>1. b \in Seq(Range(b)) /\ Len(b) = 1 /\ Range(b) = {part}
    BY DEF Range
<1> HIDE DEF b
<1> DEFINE S == Range(line) \union Range(b)
<1>2. line \in Seq(S) /\ b \in Seq(S)
    <2>1. (\A x \in Range(line) : x \in S) /\ (\A x \in Range(b) : x \in S)
      OBVIOUS
    <2> HIDE DEF S
    <2> QED
      BY <1>1, <2>1, InRange
<1>3. Len(line \o b) = Len(line) + Len(b)
    BY <1>2, JoinedLists
<1>4. line \o b \in Seq(Range(line \o b)) /\ Range(line \o b) = Range(line) \union Range(b)
    BY <1>1, ListsJoined
<1> QED
    BY <1>1, <1>3, <1>4 DEF b

LEMMA ContributingOneMore ==
    ASSUME NEW c, NEW r, NEW n \in Nat, NEW name
    PROVE  /\ Cardinality(Contributing(c, r, n, name)) \in Nat
           /\ name \notin DOMAIN IntoIn(c, r[n + 1]) =>
                  Contributing(c, r, n + 1, name) = Contributing(c, r, n, name)
           /\ name \in DOMAIN IntoIn(c, r[n + 1]) =>
                  /\ Contributing(c, r, n + 1, name) = Contributing(c, r, n, name) \union {n + 1}
                  /\ Cardinality(Contributing(c, r, n + 1, name))
                         = Cardinality(Contributing(c, r, n, name)) + 1
<1> DEFINE C == Contributing(c, r, n, name)
           D == Contributing(c, r, n + 1, name)
           I(i) == DOMAIN IntoIn(c, r[i])
<1>1. C = {i \in 1 .. n : name \in I(i)} /\ D = {i \in 1 .. (n + 1) : name \in I(i)}
    BY DEF Contributing
<1> HIDE DEF C, D, I
<1>2. /\ name \notin I(n + 1) => D = C
      /\ name \in I(n + 1) => D = C \union {n + 1}
      /\ C \subseteq 1 .. n /\ n + 1 \notin C
    BY <1>1
<1>3. IsFiniteSet(C)
  <2>1. 1 \in Int /\ n \in Int
    OBVIOUS
  <2>2. IsFiniteSet(1 .. n)
    BY <2>1, FS_Interval
  <2> QED
    BY <1>2, <2>2, FS_Subset
<1>4. Cardinality(C) \in Nat
    BY <1>3, FS_CardinalityType
<1>5. name \in I(n + 1) => Cardinality(D) = Cardinality(C) + 1
    BY <1>2, <1>3, FS_AddElement
<1> QED
    BY <1>2, <1>4, <1>5 DEF C, D, I

LEMMA OneMoreLine ==
    ASSUME NEW c, NEW r, NEW n \in Nat, NEW g, LinesFrom(g, c, r, n)
    PROVE  LinesFrom(CombineLines(g, IntoIn(c, r[n + 1])), c, r, n + 1)
<1> DEFINE new == IntoIn(c, r[n + 1])
           m == CombineLines(g, new)
           D(i) == DOMAIN IntoIn(c, r[i])
<1>1. /\ \A name : name \in DOMAIN g <=> \E i \in 1 .. n : name \in D(i)
      /\ \A name \in DOMAIN g : LineFrom(g[name], c, r, n, name)
    BY DEF LinesFrom
<1>2. /\ DOMAIN m = DOMAIN g \union DOMAIN new
      /\ \A name \in DOMAIN m : m[name] = IF name \notin DOMAIN new THEN g[name]
                                         ELSE IF name \notin DOMAIN g THEN new[name]
                                         ELSE g[name] \o new[name]
    BY DEF CombineLines
<1>3. \A name \in DOMAIN new : new[name] = <<PartOf(c, r[n + 1], name)>>
    BY DEF IntoIn
<1>4. \A i : i \in 1 .. (n + 1) <=> i \in 1 .. n \/ i = n + 1
    OBVIOUS
<1>5. new = IntoIn(c, r[n + 1]) /\ DOMAIN new = D(n + 1)
    OBVIOUS
<1> HIDE DEF new, m
<1>6. \A name : name \in DOMAIN m <=> \E i \in 1 .. (n + 1) : name \in D(i)
    BY <1>1, <1>2, <1>4, <1>5
<1>7. ASSUME NEW name \in DOMAIN m PROVE LineFrom(m[name], c, r, n + 1, name)
  <2> DEFINE C == Contributing(c, r, n, name)
             C1 == Contributing(c, r, n + 1, name)
             part == PartOf(c, r[n + 1], name)
             line == m[name]
  <2>1. /\ Cardinality(C) \in Nat
        /\ name \notin DOMAIN new => C1 = C
        /\ name \in DOMAIN new => C1 = C \union {n + 1} /\ Cardinality(C1) = Cardinality(C) + 1
    BY <1>5, ContributingOneMore
  <2>2. name \in DOMAIN g =>
            /\ g[name] \in Seq(Range(g[name])) /\ Len(g[name]) = Cardinality(C)
            /\ \A i \in C : PartOf(c, r[i], name) \in Range(g[name])
    BY <1>1 DEF LineFrom
  <2>3. name \notin DOMAIN g => C = {}
    BY <1>1 DEF Contributing
  <2>4. name \in DOMAIN new => new[name] = <<part>>
    BY <1>3
  <2>5. part = PartOf(c, r[n + 1], name)
    OBVIOUS
  <2>6. line = m[name]
    OBVIOUS
  <2> HIDE DEF C, C1, part, line
  <2>7. /\ line \in Seq(Range(line)) /\ Len(line) = Cardinality(C1)
        /\ \A i \in C1 : PartOf(c, r[i], name) \in Range(line)
    <3>1. CASE name \notin DOMAIN new
      <4>1. name \in DOMAIN g /\ line = g[name] /\ C1 = C
        BY <1>2, <2>1, <2>6, <3>1
      <4> QED
        BY <2>2, <4>1
    <3>2. CASE name \in DOMAIN new /\ name \notin DOMAIN g
      <4>1. line = <<part>> /\ C1 = {n + 1} /\ Cardinality(C1) = 1
        <5>1. Cardinality(C) = 0
          BY <2>3, <3>2, FS_EmptySet
        <5> QED
          BY <1>2, <2>1, <2>3, <2>4, <2>6, <3>2, <5>1
      <4>2. <<part>> \in Seq(Range(<<part>>)) /\ Len(<<part>>) = 1 /\ part \in Range(<<part>>)
        BY DEF Range
      <4> QED
        BY <2>5, <4>1, <4>2
    <3>3. CASE name \in DOMAIN new /\ name \in DOMAIN g
      <4> DEFINE gl == g[name]
      <4>1. line = gl \o <<part>> /\ C1 = C \union {n + 1} /\ Cardinality(C1) = Cardinality(C) + 1
        BY <1>2, <2>1, <2>4, <2>6, <3>3
      <4>2. /\ gl \in Seq(Range(gl)) /\ Len(gl) = Cardinality(C)
            /\ \A i \in C : PartOf(c, r[i], name) \in Range(gl)
        BY <2>2, <3>3
      <4> HIDE DEF gl
      <4>3. /\ line \in Seq(Range(line)) /\ Len(line) = Len(gl) + 1
            /\ Range(line) = Range(gl) \union {part}
        BY <4>1, <4>2, PartAdded
      <4> QED
        BY <2>5, <4>1, <4>2, <4>3
    <3> QED
      BY <3>1, <3>2, <3>3
  <2> QED
    BY <2>7 DEF LineFrom, C1, line
<1>8. LinesFrom(m, c, r, n + 1)
    BY <1>6, <1>7 DEF LinesFrom
<1> QED
    BY <1>8 DEF m, new

LEMMA LinesAre ==
    ASSUME NEW c, NEW r, Len(r) \in Nat
    PROVE  LinesFrom(LinesIn(c, r), c, r, Len(r))
<1> DEFINE N == Len(r)
<1>1. PICK f : IsLines(f, c, r, N) /\ LinesIn(c, r) = f[N]
    BY LinesCombined
<1> DEFINE T == {n \in Nat : n <= N => LinesFrom(f[n], c, r, n)}
<1>2. /\ f[0] = Nothing
      /\ \A n \in 1 .. N : f[n] = CombineLines(f[n - 1], IntoIn(c, r[n]))
    BY <1>1 DEF IsLines
<1>3. 0 \in T
  <2>1. DOMAIN Nothing = {}
    BY DEF Nothing
  <2>2. LinesFrom(Nothing, c, r, 0)
    BY <2>1 DEF LinesFrom
  <2> QED
    BY <1>2, <2>2
<1> HIDE DEF N
<1>4. ASSUME NEW n \in T PROVE n + 1 \in T
  <2> SUFFICES ASSUME n + 1 <= N PROVE LinesFrom(f[n + 1], c, r, n + 1)
    OBVIOUS
  <2>1. n \in Nat /\ n + 1 \in 1 .. N /\ (n + 1) - 1 = n /\ LinesFrom(f[n], c, r, n)
    BY DEF N
  <2>2. f[n + 1] = CombineLines(f[n], IntoIn(c, r[n + 1]))
    BY <1>2, <2>1
  <2> HIDE DEF T
  <2> QED
    BY <2>1, <2>2, OneMoreLine
<1>5. T \in SUBSET Nat
    OBVIOUS
<1>6. \A n \in Nat : n \in T
  <2> HIDE DEF T
  <2> QED
    BY <1>3, <1>4, <1>5, Induction
<1> QED
    BY <1>1, <1>6 DEF N

-----------------------------------------------------------------------------
(* What the header filter makes of a response is what is documented.       *)

AnswerIn(c, r, o) ==
    LET lines == LinesIn(c, r)
    IN  IF r = None THEN o
        ELSE [name \in DOMAIN lines \union DOMAIN o |->
                 IF name \in DOMAIN lines THEN lines[name] ELSE o[name]]

LEMMA AnswerIs ==
    ASSUME NEW o
    PROVE  ResponseHeaders(o) = AnswerIn(conf, headers, o)
<1>1. HeaderLines = LinesIn(conf, headers)
    BY Zenon DEF HeaderLines, LinesIn, IntoHeaders, IntoIn, PartOf, HeaderParts, HeaderNames,
       Options, OptionsIn, RuleOf, RuleSets
<1> QED
    BY <1>1 DEF ResponseHeaders, AnswerIn

OptionLists(c) == \A s \in DOMAIN c : \A n \in DOMAIN c[s] : AreLists(c[s][n].sets)

(* The last request and the values found for it.                           *)
Asked ==
    /\ ConfShape(conf) /\ OptionLists(conf)
    /\ request.key \in Words /\ Right(conf, headers, request.host, request.key)

LEMMA DocumentedIs ==
    ASSUME Asked, FullIn(conf)
    PROVE  \A a : a \in Documented(request) <=>
                     /\ a = <<a[1], a[2]>> /\ a[1] \in DOMAIN conf
                     /\ a[2] \in Applying(conf, a[1], request.host, request.key)
<1> DEFINE h == request.host
           key == request.key
<1>1. ConfShape(conf) /\ key \in Words
    BY DEF Asked
<1>2. \A a : a \in Documented(request) <=> a \in RuleNumbers /\ Applies(conf[a[1]][a[2]], h, key)
    BY DEF Documented, RuleOf
<1>3. \A a : a \in RuleNumbers <=> /\ a = <<a[1], a[2]>> /\ a[1] \in DOMAIN conf
                                   /\ a[2] \in DOMAIN conf[a[1]]
    BY <1>1, RuleNumbersAre
<1>4. ASSUME NEW s \in DOMAIN conf, NEW n
      PROVE  n \in Applying(conf, s, h, key) <=> n \in DOMAIN conf[s] /\ Applies(conf[s][n], h, key)
    BY <1>1, AppliedIs
<1> QED
    BY <1>2, <1>3, <1>4

(* The value for a setting is made from its rules that apply.              *)
LEMMA ValueDocumented ==
    ASSUME Asked, FullIn(conf), NEW s \in DOMAIN conf, NEW v,
           IsValue(conf, v, s, request.host, request.key)
    PROVE  /\ Range(v) = {a \in Documented(request) : a[1] = s}
           /\ v \in Seq(Numbers) /\ SettingOf(v) = s
           /\ OptionsFrom(OptionsIn(conf, v), conf, v, Len(v))
<1> DEFINE h == request.host
           key == request.key
<1>1. /\ v \in Seq(Numbers)
      /\ \A a \in Range(v) : a[1] = s /\ a[2] \in Applying(conf, s, h, key)
      /\ \A n \in Applying(conf, s, h, key) : <<s, n>> \in Range(v)
    BY DEF IsValue
<1>2. SettingOf(v) = s
    BY ValueSetting DEF SettingOf
<1>3. \A a \in Range(v) : a \in Numbers
    BY <1>1, RangeOfList
<1>4. Range(v) = {a \in Documented(request) : a[1] = s}
    BY <1>1, <1>3, DocumentedIs DEF Numbers
<1>5. Len(v) \in Nat /\ \A n \in 1 .. Len(v) : v[n] \in Range(v)
    BY <1>1, RangeOfList DEF Range
<1>6. ASSUME NEW n \in 1 .. Len(v) PROVE AreLists(RuleSets(conf, v[n]))
  <2>1. v[n][1] = s /\ v[n][2] \in DOMAIN conf[s]
    BY <1>1, <1>5 DEF Applying
  <2> QED
    BY <2>1 DEF Asked, OptionLists, RuleSets
<1>7. OptionsFrom(OptionsIn(conf, v), conf, v, Len(v))
    BY <1>5, <1>6, OptionsAre
<1> QED
    BY <1>1, <1>2, <1>4, <1>7

(* Its last rule with an option is one of the most specific ones.          *)
LEMMA LastIsSpecific ==
    ASSUME Asked, FullIn(conf), NEW s \in DOMAIN conf, NEW v,
           IsValue(conf, v, s, request.host, request.key),
           NEW i \in 1 .. Len(v), NEW j \in 1 .. Len(v), ~(i < j)
    PROVE  ~MoreSpecific(Specificity(v[j]), Specificity(v[i]))
<1> DEFINE h == request.host
           key == request.key
           a == v[j]
           b == v[i]
           m == Specificity(a)
           n == Specificity(b)
<1>1. ConfShape(conf) /\ key \in Words
    BY DEF Asked
<1>2. /\ v \in Seq(Numbers) /\ Len(v) \in Nat /\ DOMAIN v = 1 .. Len(v)
      /\ \A x \in Range(v) : x[1] = s /\ x[2] \in Applying(conf, s, h, key)
      /\ \A x, y : Ahead(v, x, y) =>
            ~MatcherBefore(Hit(conf, s, y[2], h, key).sorter, Hit(conf, s, x[2], h, key).sorter)
    BY DEF IsValue
<1>3. a \in Range(v) /\ b \in Range(v)
    BY <1>2 DEF Range
<1>4. \A x \in Range(v) :
          /\ Hit(conf, s, x[2], h, key).sorter = Specificity(x)
          /\ Specificity(x) \in Matchers /\ Covers(Specificity(x), h, key)
  <2> TAKE x \in Range(v)
  <2> DEFINE rule == conf[s][x[2]]
             I == Included(rule, h, key)
  <2>1. /\ x[2] \in DOMAIN conf[s] /\ I # {}
        /\ Hit(conf, s, x[2], h, key).sorter = Best(I)
    BY <1>1, <1>2, AppliedIs
  <2>2. RuleShape(rule)
    BY <1>1, <2>1 DEF ConfShape
  <2>3. Specificity(x) = Best(I)
    BY <1>2 DEF Specificity, RuleOf
  <2> HIDE DEF rule
  <2>4. Best(I) \in I
    BY <1>1, <2>1, <2>2, RuleLists, BestOne
  <2>5. Best(I) \in Matchers /\ Covers(Best(I), h, key)
    BY <1>1, <2>2, <2>4, RuleLists
  <2> QED
    BY <2>1, <2>3, <2>5
<1>5. m \in Matchers /\ n \in Matchers /\ Covers(m, h, key) /\ Covers(n, h, key)
    BY <1>3, <1>4
<1>6. ~MatcherBefore(n, m)
  <2>1. CASE j < i
    <3>1. Ahead(v, a, b)
      BY <1>2, <2>1 DEF Ahead
    <3>2. ~MatcherBefore(Hit(conf, s, b[2], h, key).sorter, Hit(conf, s, a[2], h, key).sorter)
      BY <1>2, <3>1
    <3> QED
      BY <1>3, <1>4, <3>2
  <2>2. CASE i = j
    BY <1>5, <2>2, MatcherOrder
  <2> QED
    BY <1>2, <2>1, <2>2
<1> HIDE DEF m, n
<1>7. ~MoreSpecific(m, n)
    BY <1>1, <1>5, <1>6, SpecificIs
<1> QED
    BY <1>7 DEF m, n

-----------------------------------------------------------------------------
(* The part of a header that the rules of one setting make.                *)

PartIs(part, s, name) ==
    /\ DOMAIN part = OptionsOf(Setting(s, name), name)
    /\ \A o \in DOMAIN part : ValueAsDocumented(part[o], o, Setting(s, name))

LEMMA PartDocumented ==
    ASSUME Asked, FullIn(conf), NEW s \in DOMAIN conf, NEW v,
           IsValue(conf, v, s, request.host, request.key), NEW name
    PROVE  /\ name \in DOMAIN IntoIn(conf, v) <=> Setting(s, name) # {}
           /\ PartIs(PartOf(conf, v, name), s, name)
<1> DEFINE g == OptionsIn(conf, v)
           N == Setting(s, name)
           part == PartOf(conf, v, name)
           L == Len(v)
<1>1. /\ Range(v) = {a \in Documented(request) : a[1] = s}
      /\ v \in Seq(Numbers) /\ SettingOf(v) = s
      /\ OptionsFrom(g, conf, v, L)
    BY ValueDocumented
<1>2. /\ \A o : o \in DOMAIN g <=> \E i \in 1 .. L : o \in DOMAIN RuleSets(conf, v[i])
      /\ \A o \in DOMAIN g : OptionFrom(g[o], o, conf, v, L)
    BY <1>1 DEF OptionsFrom
<1>3. \A x : x \in Range(v) <=> \E i \in 1 .. L : v[i] = x
    BY <1>1, RangeOfList DEF Range
<1>4. \A a : a \in N <=> /\ a \in Range(v) /\ a[1] = s
                         /\ \E o \in DOMAIN RuleSets(conf, a) : HeaderFor(s, o) = name
    BY <1>1 DEF Setting, RuleOf, RuleSets
<1>5. /\ DOMAIN part = {o \in DOMAIN g : HeaderFor(s, o) = name}
      /\ \A o \in DOMAIN part : part[o] = g[o]
    BY <1>1 DEF PartOf, HeaderParts
<1>6. DOMAIN IntoIn(conf, v) = {HeaderFor(s, o) : o \in DOMAIN g}
    BY <1>1 DEF IntoIn, HeaderNames
<1>7. \A o : o \in OptionsOf(N, name) <=>
                 \E a \in N : o \in DOMAIN RuleSets(conf, a) /\ HeaderFor(a[1], o) = name
    BY DEF OptionsOf, RuleOf, RuleSets
<1>8. \A o : HeaderFor(s, o) = name =>
          {a \in N : o \in DOMAIN RuleOf(a).sets} = {a \in Range(v) : o \in DOMAIN RuleSets(conf, a)}
    BY <1>1, <1>4 DEF RuleOf, RuleSets
<1>9. v \in Seq(Numbers) /\ L \in Nat
    BY <1>1, RangeOfList
<1> HIDE DEF N, part, g, L
<1>10. name \in DOMAIN IntoIn(conf, v) <=> N # {}
  <2>1. name \in DOMAIN IntoIn(conf, v) <=> \E o \in DOMAIN g : HeaderFor(s, o) = name
    BY <1>6
  <2>2. ASSUME NEW o \in DOMAIN g, HeaderFor(s, o) = name PROVE N # {}
    <3>1. PICK i \in 1 .. L : o \in DOMAIN RuleSets(conf, v[i])
      BY <1>2
    <3>2. v[i] \in Range(v) /\ v[i][1] = s
      BY <1>1, <1>3
    <3> QED
      BY <1>4, <2>2, <3>1, <3>2
  <2>3. ASSUME NEW a \in N PROVE \E o \in DOMAIN g : HeaderFor(s, o) = name
    <3>1. PICK o \in DOMAIN RuleSets(conf, a) : HeaderFor(s, o) = name
      BY <1>4
    <3>2. PICK i \in 1 .. L : v[i] = a
      BY <1>3, <1>4
    <3> QED
      BY <1>2, <3>1, <3>2
  <2> QED
    BY <2>1, <2>2, <2>3
<1>11. DOMAIN part = OptionsOf(N, name)
  <2>1. ASSUME NEW o PROVE o \in OptionsOf(N, name) <=> o \in DOMAIN g /\ HeaderFor(s, o) = name
    <3>1. ASSUME o \in OptionsOf(N, name) PROVE o \in DOMAIN g /\ HeaderFor(s, o) = name
      <4>1. PICK a \in N : o \in DOMAIN RuleSets(conf, a) /\ HeaderFor(a[1], o) = name
        BY <1>7, <3>1
      <4>2. PICK i \in 1 .. L : v[i] = a
        BY <1>3, <1>4
      <4> QED
        BY <1>2, <1>4, <4>1, <4>2
    <3>2. ASSUME o \in DOMAIN g, HeaderFor(s, o) = name PROVE o \in OptionsOf(N, name)
      <4>1. PICK i \in 1 .. L : o \in DOMAIN RuleSets(conf, v[i])
        BY <1>2, <3>2
      <4>2. v[i] \in Range(v) /\ v[i][1] = s
        BY <1>1, <1>3
      <4>3. v[i] \in N
        BY <1>4, <3>2, <4>1, <4>2
      <4> QED
        BY <1>7, <3>2, <4>1, <4>2, <4>3
    <3> QED
      BY <3>1, <3>2
  <2> QED
    BY <1>5, <2>1
<1>12. ASSUME NEW o \in DOMAIN part PROVE ValueAsDocumented(part[o], o, N)
  <2> DEFINE S == {a \in Range(v) : o \in DOMAIN RuleSets(conf, a)}
             F == {a \in N : o \in DOMAIN RuleOf(a).sets}
             x == part[o]
  <2>1. HeaderFor(s, o) = name /\ o \in DOMAIN g /\ x = g[o]
    BY <1>5
  <2>2. F = S
    BY <1>8, <2>1
  <2>3. OptionFrom(x, o, conf, v, L)
    BY <1>2, <2>1
  <2> HIDE DEF F, S, x
  <2>4. CASE o \in ListOptions
    <3>1. Range(x) = UNION {Range(RuleSets(conf, v[i])[o]) :
                              i \in {j \in 1 .. L : o \in DOMAIN RuleSets(conf, v[j])}}
      BY <2>3, <2>4 DEF OptionFrom
    <3>2. Range(x) = UNION {Range(RuleSets(conf, a)[o]) : a \in S}
      BY <1>3, <3>1 DEF S
    <3>3. Range(x) = UNION {Range(RuleOf(a).sets[o]) : a \in F}
      BY <2>2, <3>2 DEF RuleSets, RuleOf
    <3> QED
      BY <2>4, <3>3 DEF ValueAsDocumented, F, x
  <2>5. CASE o \notin ListOptions
    <3>1. PICK i \in 1 .. L :
            /\ o \in DOMAIN RuleSets(conf, v[i]) /\ x = RuleSets(conf, v[i])[o]
            /\ \A j \in 1 .. L : i < j => o \notin DOMAIN RuleSets(conf, v[j])
      BY <2>3, <2>5 DEF OptionFrom
    <3>2. v[i] \in F /\ x = RuleOf(v[i]).sets[o]
      BY <1>3, <2>2, <3>1 DEF S, RuleSets, RuleOf
    <3>3. ASSUME NEW m \in F PROVE ~MoreSpecific(Specificity(m), Specificity(v[i]))
      <4>1. PICK j \in 1 .. L : v[j] = m
        BY <1>3, <2>2 DEF S
      <4>2. o \in DOMAIN RuleSets(conf, v[j])
        BY <2>2, <4>1 DEF S
      <4>3. ~(i < j) /\ i \in 1 .. Len(v) /\ j \in 1 .. Len(v)
        BY <3>1, <4>2 DEF L
      <4>4. ~MoreSpecific(Specificity(v[j]), Specificity(v[i]))
        BY <4>3, LastIsSpecific
      <4> QED
        BY <4>1, <4>4
    <3> QED
      BY <2>5, <3>2, <3>3 DEF ValueAsDocumented, F, x
  <2> QED
    BY <2>4, <2>5
<1> QED
    BY <1>10, <1>11, <1>12 DEF PartIs, N, part

(* One part for each setting with a rule for a header.                     *)
LEMMA LineDocumented ==
    ASSUME Asked, FullIn(conf), headers # None, NEW name, NEW line,
           LineFrom(line, conf, headers, Len(headers), name)
    PROVE  LineAsDocumented(line, name)
<1> DEFINE h == request.host
           key == request.key
           r == headers
           L == Len(r)
           C == Contributing(conf, r, L, name)
           settings == {s \in DOMAIN conf : Setting(s, name) # {}}
           At(i) == r[i][1][1]
<1>1. /\ r \in Seq(Seq(Numbers))
      /\ \A v \in Range(r) : \E s \in DOMAIN conf : IsValue(conf, v, s, h, key)
      /\ \A v, w : Ahead(r, v, w) => v[1][1] # w[1][1]
      /\ \A s \in DOMAIN conf : Applying(conf, s, h, key) # {} =>
             \E v \in Range(r) : IsValue(conf, v, s, h, key)
    BY DEF Asked, Right, IsResult
<1>2. /\ L \in Nat /\ DOMAIN r = 1 .. L
      /\ \A v : v \in Range(r) <=> \E i \in 1 .. L : r[i] = v
    BY <1>1, RangeOfList DEF Range
<1>3. /\ line \in Seq(Range(line)) /\ Len(line) = Cardinality(C)
      /\ \A i \in C : PartOf(conf, r[i], name) \in Range(line)
    BY DEF LineFrom
<1>4. \A i : i \in C <=> i \in 1 .. L /\ name \in DOMAIN IntoIn(conf, r[i])
    BY DEF Contributing
<1>5. ASSUME NEW i \in 1 .. L
      PROVE  /\ At(i) \in DOMAIN conf
             /\ i \in C <=> Setting(At(i), name) # {}
             /\ PartIs(PartOf(conf, r[i], name), At(i), name)
  <2>1. PICK s \in DOMAIN conf : IsValue(conf, r[i], s, h, key)
    BY <1>1, <1>2
  <2>2. At(i) = s
    BY <2>1, ValueSetting
  <2> DEFINE v == r[i]
  <2>3. /\ name \in DOMAIN IntoIn(conf, v) <=> Setting(s, name) # {}
        /\ PartIs(PartOf(conf, v, name), s, name)
    BY <2>1, PartDocumented
  <2> QED
    BY <1>4, <2>2, <2>3
<1>6. ASSUME NEW s \in settings PROVE \E i \in C : At(i) = s
  <2>1. s \in DOMAIN conf /\ Setting(s, name) # {}
    OBVIOUS
  <2>2. PICK a \in Documented(request) : a[1] = s
    BY <2>1 DEF Setting
  <2>3. Applying(conf, s, h, key) # {}
    BY <2>2, DocumentedIs
  <2>4. PICK v \in Range(r) : IsValue(conf, v, s, h, key)
    BY <1>1, <2>1, <2>3
  <2>5. PICK i \in 1 .. L : r[i] = v
    BY <1>2
  <2>6. At(i) = s
    BY <2>4, <2>5, ValueSetting
  <2> QED
    BY <1>5, <2>1, <2>5, <2>6
<1>7. ASSUME NEW i \in C, NEW j \in C, At(i) = At(j) PROVE i = j
  <2>1. i \in 1 .. L /\ j \in 1 .. L
    BY <1>4
  <2>2. CASE i < j
    <3>1. Ahead(r, r[i], r[j])
      BY <1>2, <2>1, <2>2 DEF Ahead
    <3> QED
      BY <1>1, <1>7, <3>1
  <2>3. CASE j < i
    <3>1. Ahead(r, r[j], r[i])
      BY <1>2, <2>1, <2>3 DEF Ahead
    <3> QED
      BY <1>1, <1>7, <3>1
  <2> QED
    BY <1>2, <2>1, <2>2, <2>3
<1>8. \A i \in C : At(i) \in settings
    BY <1>4, <1>5
<1>9. \A s \in settings : \E j \in DOMAIN line : PartIs(line[j], s, name)
  <2> TAKE s \in settings
  <2>1. PICK i \in C : At(i) = s
    BY <1>6
  <2>2. PartIs(PartOf(conf, r[i], name), s, name)
    BY <1>4, <1>5, <2>1
  <2>3. PartOf(conf, r[i], name) \in Range(line)
    BY <1>3
  <2>4. PICK j \in DOMAIN line : line[j] = PartOf(conf, r[i], name)
    BY <2>3 DEF Range
  <2> QED
    BY <2>2, <2>4
<1>10. Cardinality(settings) = Cardinality(C)
  <2> DEFINE f == [i \in C |-> At(i)]
  <2>1. IsFiniteSet(C)
    <3>1. 1 \in Int /\ L \in Int
      BY <1>2
    <3>2. IsFiniteSet(1 .. L) /\ C \subseteq 1 .. L
      BY <1>4, <3>1, FS_Interval
    <3> QED
      BY <3>2, FS_Subset
  <2> HIDE DEF C, settings, At
  <2>2. f \in [C -> settings]
    BY <1>8
  <2>3. IsInjective(f)
    BY <1>7 DEF IsInjective
  <2>4. \A s \in settings : \E i \in C : f[i] = s
    BY <1>6
  <2> HIDE DEF f
  <2>5. f \in Bijection(C, settings)
    BY <2>2, <2>3, <2>4 DEF Bijection, Injection, Surjection
  <2> QED
    BY <2>1, <2>5, FS_Bijection DEF ExistsBijection
<1> QED
  <2>1. Len(line) = Cardinality(settings)
    BY <1>3, <1>10
  <2> QED
    BY <1>9, <2>1 DEF LineAsDocumented, PartIs

-----------------------------------------------------------------------------
(* The headers of an answer.                                               *)

LEMMA AnswerDocumented ==
    ASSUME Asked, answer = AnswerIn(conf, headers, own)
    PROVE  AnsweredAsDocumented
<1> DEFINE h == request.host
           key == request.key
           named == UNION {{HeaderFor(n[1], o) : o \in DOMAIN RuleOf(n).sets} :
                              n \in Documented(request)}
<1> SUFFICES ASSUME HostsKnown, Regular
             PROVE  /\ DOMAIN answer = named \union DOMAIN own
                    /\ \A name \in named : LineAsDocumented(answer[name], name)
                    /\ \A name \in DOMAIN own \ named : answer[name] = own[name]
    BY DEF AnsweredAsDocumented
<1>1. ConfShape(conf) /\ FullIn(conf) /\ Right(conf, headers, h, key)
    BY ConditionsMet DEF Asked
<1>2. \A a : a \in Documented(request) <=>
                 /\ a = <<a[1], a[2]>> /\ a[1] \in DOMAIN conf
                 /\ a[2] \in Applying(conf, a[1], h, key)
    BY <1>1, DocumentedIs
<1>3. CASE headers = None
  <2>1. answer = own
    BY <1>3 DEF AnswerIn
  <2>2. \A s \in DOMAIN conf : Applying(conf, s, h, key) = {}
    BY <1>1, <1>3 DEF Right
  <2>3. Documented(request) = {}
    BY <1>2, <2>2
  <2>4. named = {}
    BY <2>3
  <2> HIDE DEF named
  <2> QED
    BY <2>1, <2>4
<1>4. CASE headers # None
  <2> DEFINE lines == LinesIn(conf, headers)
             L == Len(headers)
  <2>1. /\ headers \in Seq(Seq(Numbers))
        /\ \A v \in Range(headers) : \E s \in DOMAIN conf : IsValue(conf, v, s, h, key)
        /\ \A s \in DOMAIN conf : Applying(conf, s, h, key) # {} =>
               \E v \in Range(headers) : IsValue(conf, v, s, h, key)
    BY <1>1, <1>4 DEF Right, IsResult
  <2>2. /\ L \in Nat
        /\ \A v : v \in Range(headers) <=> \E i \in 1 .. L : headers[i] = v
    BY <2>1, RangeOfList DEF Range
  <2>3. LinesFrom(lines, conf, headers, L)
    BY <2>2, LinesAre
  <2>4. /\ \A name : name \in DOMAIN lines <=>
                         \E i \in 1 .. L : name \in DOMAIN IntoIn(conf, headers[i])
        /\ \A name \in DOMAIN lines : LineFrom(lines[name], conf, headers, L, name)
    BY <2>3 DEF LinesFrom
  <2>5. \A name : name \in named <=> \E s \in DOMAIN conf : Setting(s, name) # {}
    <3> TAKE name
    <3>1. ASSUME name \in named PROVE \E s \in DOMAIN conf : Setting(s, name) # {}
      <4>1. PICK n \in Documented(request) :
                \E o \in DOMAIN RuleOf(n).sets : HeaderFor(n[1], o) = name
        BY <3>1
      <4>2. n[1] \in DOMAIN conf
        BY <1>2
      <4>3. n \in Setting(n[1], name)
        BY <4>1 DEF Setting
      <4> QED
        BY <4>2, <4>3
    <3>2. ASSUME NEW s \in DOMAIN conf, NEW n \in Setting(s, name) PROVE name \in named
      BY DEF Setting
    <3> QED
      BY <3>1, <3>2
  <2>6. \A name : name \in DOMAIN lines <=> \E s \in DOMAIN conf : Setting(s, name) # {}
    <3> TAKE name
    <3>1. ASSUME NEW i \in 1 .. L, name \in DOMAIN IntoIn(conf, headers[i])
          PROVE  \E s \in DOMAIN conf : Setting(s, name) # {}
      <4>1. PICK s \in DOMAIN conf : IsValue(conf, headers[i], s, h, key)
        BY <2>1, <2>2
      <4> QED
        BY <1>1, <3>1, <4>1, PartDocumented
    <3>2. ASSUME NEW s \in DOMAIN conf, Setting(s, name) # {}
          PROVE  \E i \in 1 .. L : name \in DOMAIN IntoIn(conf, headers[i])
      <4>1. PICK n \in Documented(request) : n[1] = s
        BY <3>2 DEF Setting
      <4>2. Applying(conf, s, h, key) # {}
        BY <1>2, <4>1
      <4>3. PICK v \in Range(headers) : IsValue(conf, v, s, h, key)
        BY <2>1, <4>2
      <4>4. name \in DOMAIN IntoIn(conf, v)
        BY <1>1, <3>2, <4>3, PartDocumented
      <4> QED
        BY <2>2, <4>3, <4>4
    <3> QED
      BY <2>4, <3>1, <3>2
  <2>7. named = DOMAIN lines
    BY <2>5, <2>6
  <2>8. \A name \in DOMAIN lines : LineAsDocumented(lines[name], name)
    <3> TAKE name \in DOMAIN lines
    <3> DEFINE line == lines[name]
    <3>1. LineFrom(line, conf, headers, Len(headers), name)
      BY <2>4
    <3> HIDE DEF line
    <3>2. LineAsDocumented(line, name)
      BY <1>1, <1>4, <3>1, LineDocumented
    <3> QED
      BY <3>2 DEF line
  <2>9. answer = [name \in DOMAIN lines \union DOMAIN own |->
                     IF name \in DOMAIN lines THEN lines[name] ELSE own[name]]
    BY <1>4 DEF AnswerIn
  <2> HIDE DEF lines, named
  <2> QED
    BY <2>7, <2>8, <2>9
<1> QED
    BY <1>3, <1>4

AnswerInv ==
    /\ OptionLists(conf)
    /\ path # None \/ list # <<>> \/ outcome # None => Asked
    /\ answer # None => Asked /\ answer = AnswerIn(conf, headers, own)

LEMMA AnswerStep ==
    ASSUME RulesState, AnswerInv, [ServedNext]_servedVars
    PROVE  AnswerInv'
<1> USE DEF AnswerInv
<1>1. ASSUME UNCHANGED <<conf, request, headers>>
      PROVE  (Asked <=> Asked') /\ OptionLists(conf)'
    BY <1>1 DEF Asked
<1>2. CASE CreateHeaders
  <2>1. UNCHANGED <<rewriting, response>> /\ UNCHANGED <<conf, request, headers>>
    BY <1>2 DEF CreateHeaders, PushRule, FinishSetting, TakeMerger, AlignOther, TurnAround,
                AlignSelf, Combine, BuildRouter, serving
  <2>2. UNCHANGED <<path, list, outcome, own, answer>>
    BY <2>1 DEF rewriting, response
  <2> QED
    BY <1>1, <2>1, <2>2
<1>3. CASE CreateRewrite
  <2>1. UNCHANGED <<vars, response>> /\ UNCHANGED <<path, list, outcome>>
    BY <1>3 DEF CreateRewrite, R!SortRules, R!PushRule, R!BuildRouter
  <2>2. UNCHANGED <<conf, request, headers, own, answer>>
    BY <2>1 DEF vars, serving, response
  <2> QED
    BY <1>1, <2>1, <2>2
<1>4. CASE Rewrite
  <2>1. UNCHANGED <<conf, request, headers, own, answer>>
    BY <1>4 DEF Rewrite, vars, serving, response
  <2>2. Asked
    BY <1>4 DEF Rewrite, R!NoRule, R!SkipRule, R!ApplyRule
  <2> QED
    BY <1>1, <2>1, <2>2
<1>5. CASE \E host \in RequestHosts, p \in RequestPaths, ms \in R!Matchings :
               FilterRequest(host, p, ms)
  <2>1. PICK host \in RequestHosts, p \in RequestPaths, ms \in R!Matchings :
               FilterRequest(host, p, ms)
    BY <1>5
  <2>2. p \in Words
    BY RequestPathsAssumption DEF AbsolutePaths, Words
  <2> DEFINE key == R!Segments(p)
  <2>3. key = Segments(p)
    BY DEF R!Segments, Segments, R!Empty, Empty
  <2>4. key \in Words
    BY <2>2, <2>3, SegmentsType
  <2>5. RequestFilter(host, key) /\ answer' = None
    BY <2>1 DEF FilterRequest
  <2> HIDE DEF key
  <2>6. /\ router # None /\ request' = [host |-> host, key |-> key]
        /\ headers' = LookupRoute(router, host, key) /\ conf' = conf
    BY <2>5 DEF RequestFilter
  <2>7. ConfShape(conf) /\ IsRouter(conf, router)
    BY <2>6 DEF RulesState, ConfInv, RouterInv
  <2>8. PICK M : MergerInv(conf, M, DOMAIN conf) /\ router = Strict!Merge(M)
    BY <2>7 DEF IsRouter
  <2>9. Right(conf, LookupRoute(Strict!Merge(M), host, key), host, key)
    BY <2>4, <2>7, <2>8, RequestAnswered
  <2>10. Right(conf, headers', host, key)
    BY <2>6, <2>8, <2>9
  <2>11. request'.host = host /\ request'.key = key
    BY <2>6
  <2>12. Asked'
    BY <2>4, <2>6, <2>7, <2>10, <2>11 DEF Asked
  <2> QED
    BY <2>5, <2>6, <2>12
<1>6. CASE \E headersOfIt \in OwnHeaders : Respond(headersOfIt)
  <2>1. /\ outcome # None /\ answer' = ResponseHeaders(own')
        /\ UNCHANGED <<vars, rewriting>>
    BY <1>6 DEF Respond
  <2>2. UNCHANGED <<conf, request, headers, path, list, outcome>>
    BY <2>1 DEF vars, serving, rewriting
  <2>3. answer' = AnswerIn(conf, headers, own')
    BY <2>1, AnswerIs
  <2> QED
    BY <1>1, <2>1, <2>2, <2>3
<1>7. CASE UNCHANGED servedVars
  <2>1. UNCHANGED <<conf, request, headers, path, list, outcome, own, answer>>
    BY <1>7 DEF servedVars, vars, serving, rewriting, response
  <2> QED
    BY <1>1, <2>1
<1> QED
    BY <1>2, <1>3, <1>4, <1>5, <1>6, <1>7 DEF ServedNext

(* A response has its own headers and those of the rules for the requested *)
(* path, the more specific ones of each setting prevailing: whatever rules *)
(* are configured (found under the conditions above), in whatever order    *)
(* hosts are gone through, and whatever the rewrite rules do meanwhile.     *)
THEOREM AnswersAsDocumented == ServedSpec => []AnsweredAsDocumented
<1>1. ServedInit => AnswerInv
  <2> SUFFICES ASSUME ServedInit PROVE AnswerInv
    OBVIOUS
  <2>1. conf \in Configurations
    BY DEF ServedInit, Init
  <2>2. OptionLists(conf)
    BY <2>1, ConfigurationsAssumption DEF OptionLists, AreLists
  <2>3. path = None /\ list = <<>> /\ outcome = None /\ answer = None
    BY DEF ServedInit, R!Init
  <2> QED
    BY <2>2, <2>3 DEF AnswerInv
<1>2. RulesState /\ AnswerInv /\ [ServedNext]_servedVars => AnswerInv'
    BY AnswerStep
<1>3. AnswerInv => AnsweredAsDocumented
  <2>1. CASE answer = None
    BY <2>1 DEF AnsweredAsDocumented
  <2>2. CASE answer # None
    BY <2>2, AnswerDocumented DEF AnswerInv
  <2> QED
    BY <2>1, <2>2
<1> QED
    BY <1>1, <1>2, <1>3, ServedInvariance, PTL DEF ServedSpec

-----------------------------------------------------------------------------
(* The order of rewrite rules.                                             *)

PathMatchers == [path : Words, exact : BOOLEAN]

LEMMA RewriteOperators ==
    /\ \A p, q : R!IsPrefix(p, q) <=> IsPrefix(p, q)
    /\ \A p, q : R!PathBefore(p, q) <=> PathBefore(p, q)
    /\ \A l, C : R!M!Selected(l, C) = Selected(l, C)
    /\ \A m, n : R!MatcherBefore(m, n) <=>
           PathBefore(m.path, n.path) \/ (m.path = n.path /\ ~m.exact /\ n.exact)
<1>1. \A p, q : R!IsPrefix(p, q) <=> IsPrefix(p, q)
    BY DEF R!IsPrefix, IsPrefix
<1>2. \A p, q : R!PathBefore(p, q) <=> PathBefore(p, q)
    BY <1>1 DEF R!PathBefore, PathBefore, R!IsStrictPrefix, IsStrictPrefix
<1>3. \A l, C : R!M!Selected(l, C) = Selected(l, C)
    BY DEF R!M!Selected, Selected
<1> QED
    BY <1>1, <1>2, <1>3 DEF R!MatcherBefore

LEMMA PathMatcherOrder ==
    /\ \A m \in PathMatchers : ~R!MatcherBefore(m, m)
    /\ \A m, n, o \in PathMatchers :
           R!MatcherBefore(m, n) /\ R!MatcherBefore(n, o) => R!MatcherBefore(m, o)
    /\ \A m, n \in PathMatchers : m = n \/ R!MatcherBefore(m, n) \/ R!MatcherBefore(n, m)
<1>1. \A m \in PathMatchers : m.path \in Words /\ m.exact \in BOOLEAN
    BY DEF PathMatchers
<1>2. \A m, n \in PathMatchers : m.path = n.path /\ m.exact = n.exact => m = n
    BY DEF PathMatchers
<1>3. \A m \in PathMatchers : ~R!MatcherBefore(m, m)
    BY <1>1, PathOrder, RewriteOperators
<1>4. ASSUME NEW m \in PathMatchers, NEW n \in PathMatchers, NEW o \in PathMatchers,
             R!MatcherBefore(m, n), R!MatcherBefore(n, o)
      PROVE  R!MatcherBefore(m, o)
  <2> DEFINE Less(a, b) == PathBefore(a.path, b.path) \/ (a.path = b.path /\ ~a.exact /\ b.exact)
  <2>1. Less(m, n) /\ Less(n, o)
    BY <1>4, RewriteOperators
  <2>2. CASE PathBefore(m.path, n.path) /\ PathBefore(n.path, o.path)
    <3>1. PathBefore(m.path, o.path)
      BY <1>1, <2>2, PathOrder
    <3> QED
      BY <3>1, RewriteOperators
  <2>3. CASE m.path = n.path \/ n.path = o.path
    <3>1. Less(m, o)
      BY <2>1, <2>3
    <3> QED
      BY <3>1, RewriteOperators
  <2> QED
    BY <2>1, <2>2, <2>3
<1>5. ASSUME NEW m \in PathMatchers, NEW n \in PathMatchers
      PROVE  m = n \/ R!MatcherBefore(m, n) \/ R!MatcherBefore(n, m)
  <2>1. m.path = n.path \/ PathBefore(m.path, n.path) \/ PathBefore(n.path, m.path)
    BY <1>1, PathOrder
  <2>2. CASE m.path # n.path
    BY <2>1, <2>2, RewriteOperators
  <2>3. CASE m.path = n.path
    <3>1. m.exact \in BOOLEAN /\ n.exact \in BOOLEAN
      BY <1>1
    <3>2. m.exact = n.exact \/ (~m.exact /\ n.exact) \/ (~n.exact /\ m.exact)
      BY <3>1
    <3> QED
      BY <1>2, <2>3, <3>2, RewriteOperators
  <2> QED
    BY <2>2, <2>3
<1> QED
    BY <1>3, <1>4, <1>5

(* Elements of the merger of rewrite rules.                                *)
SortedByPath(S, V) == \A e \in S : e.sorter \in PathMatchers /\ e.conf \in Seq(V)
LessByPath(S) == {x \in S \X S : R!MatcherBefore(x[1].sorter, x[2].sorter)}

LEMMA PathSorterOrder ==
    ASSUME NEW S, NEW V, SortedByPath(S, V)
    PROVE  /\ WeakOrder(LessByPath(S), S)
           /\ \A e, f \in S : <<e, f>> \in LessByPath(S) <=> R!MatcherBefore(e.sorter, f.sorter)
<1>1. \A e, f \in S : <<e, f>> \in LessByPath(S) <=> R!MatcherBefore(e.sorter, f.sorter)
    BY DEF LessByPath
<1>2. \A e \in S : e.sorter \in PathMatchers
    BY DEF SortedByPath
<1>3. LessByPath(S) \subseteq S \X S
    BY DEF LessByPath
<1>4. \A e \in S : <<e, e>> \notin LessByPath(S)
    BY <1>1, <1>2, PathMatcherOrder
<1>5. \A x, y, z \in S :
          <<x, y>> \in LessByPath(S) /\ <<y, z>> \in LessByPath(S) => <<x, z>> \in LessByPath(S)
    BY <1>1, <1>2, PathMatcherOrder
<1>6. \A x, y, z \in S :
          <<x, z>> \in LessByPath(S) => <<x, y>> \in LessByPath(S) \/ <<y, z>> \in LessByPath(S)
  <2> TAKE x, y, z \in S
  <2>1. x.sorter = y.sorter \/ R!MatcherBefore(x.sorter, y.sorter) \/ R!MatcherBefore(y.sorter, x.sorter)
    BY <1>2, PathMatcherOrder
  <2> QED
    BY <1>1, <1>2, <2>1, PathMatcherOrder
<1> QED
    BY <1>1, <1>3, <1>4, <1>5, <1>6 DEF WeakOrder

LEMMA PathSortedIs ==
    ASSUME NEW l
    PROVE  R!M!Sorted(l) = StableSort(l, LessByPath(Range(l)))
<1>1. \A m, C : R!M!Selected(m, C) = Selected(m, C)
    BY DEF R!M!Selected, Selected
<1>2. \A m, e, L : R!M!Insertion(m, e, L) = Insertion(m, e, L)
    BY <1>1 DEF R!M!Insertion, Insertion, R!M!Range, Range
<1>3. \A m, L : R!M!StableSort(m, L) = StableSort(m, L)
    BY <1>2 DEF R!M!StableSort, StableSort
<1> QED
    BY <1>3 DEF R!M!Sorted, R!M!Range, Range, LessByPath

LEMMA PathJoinOf ==
    ASSUME NEW S, NEW V, SortedByPath(S, V), NEW l \in Seq(S)
    PROVE  /\ R!M!Join(l) \in Seq(V)
           /\ \A x : x \in Range(R!M!Join(l)) <=> \E e \in Range(l) : x \in Range(e.conf)
           /\ \A x, y : Ahead(R!M!Join(l), x, y) <=>
                  \/ \E e \in Range(l) : Ahead(e.conf, x, y)
                  \/ \E e, f \in Range(l) :
                        /\ \/ R!MatcherBefore(e.sorter, f.sorter)
                           \/ ~R!MatcherBefore(f.sorter, e.sorter) /\ Ahead(l, e, f)
                        /\ x \in Range(e.conf) /\ y \in Range(f.conf)
<1> DEFINE T == Range(l)
           confs == ConfsOf(R!M!Sorted(l))
           Prior(e, g) == <<e, g>> \in LessByPath(T) \/ (<<g, e>> \notin LessByPath(T) /\ Ahead(l, e, g))
           Ranked(e, g) == \/ R!MatcherBefore(e.sorter, g.sorter)
                           \/ ~R!MatcherBefore(g.sorter, e.sorter) /\ Ahead(l, e, g)
<1>1. /\ R!M!Sorted(l) = StableSort(l, LessByPath(T))
      /\ l \in Seq(T) /\ SortedByPath(T, V)
  <2>1. \A e \in T : e \in S
    BY RangeOfList
  <2>2. l \in Seq(T)
    BY RangeOfList
  <2> QED
    BY <2>1, <2>2, PathSortedIs DEF SortedByPath
<1>2. R!M!Join(l) = Flatten(confs)
    BY DEF R!M!Join, R!M!Joined, R!M!Flatten, Flatten, ConfsOf
<1>3. JoinedBy(Flatten(confs), l, LessByPath(T), V)
  <2>1. \A e \in T : e.conf \in Seq(V)
    BY <1>1 DEF SortedByPath
  <2> QED
    BY <1>1, <2>1, PathSorterOrder, JoinedList
<1>4. \A e, g \in Range(l) : <<e, g>> \in LessByPath(T) <=> R!MatcherBefore(e.sorter, g.sorter)
    BY <1>1, PathSorterOrder
<1> HIDE DEF confs
<1>5. /\ Flatten(confs) \in Seq(V)
      /\ \A x : x \in Range(Flatten(confs)) <=> \E e \in Range(l) : x \in Range(e.conf)
      /\ \A x, y : Ahead(Flatten(confs), x, y) <=>
            \/ \E e \in Range(l) : Ahead(e.conf, x, y)
            \/ \E e, g \in Range(l) :
                  Prior(e, g) /\ x \in Range(e.conf) /\ y \in Range(g.conf)
    BY <1>3 DEF JoinedBy
<1>6. \A e, g \in Range(l) : Prior(e, g) <=> Ranked(e, g)
    BY <1>4
<1> HIDE DEF Prior, Ranked
<1>7. ASSUME NEW x, NEW y
      PROVE  (\E e, g \in Range(l) :
                  Prior(e, g) /\ x \in Range(e.conf) /\ y \in Range(g.conf)) <=>
             (\E e, g \in Range(l) :
                  Ranked(e, g) /\ x \in Range(e.conf) /\ y \in Range(g.conf))
    BY <1>6
<1>8. \A x, y : Ahead(Flatten(confs), x, y) <=>
            \/ \E e \in Range(l) : Ahead(e.conf, x, y)
            \/ \E e, g \in Range(l) :
                  Ranked(e, g) /\ x \in Range(e.conf) /\ y \in Range(g.conf)
    BY <1>5, <1>7
<1> QED
    BY <1>2, <1>5, <1>8 DEF Ranked

-----------------------------------------------------------------------------
(* The rewrite rules of a configuration, in the order in which the search  *)
(* comes to them last.                                                     *)

RewriteConf(c) == c \in Seq(RewriteRuleType)
RewriteFrom(c, n) == [path |-> c[n].path, exact |-> c[n].exact]

LaterRule(c, x, y) ==
    \/ R!MatcherBefore(RewriteFrom(c, x), RewriteFrom(c, y))
    \/ RewriteFrom(c, x) = RewriteFrom(c, y) /\ y < x
RulesInOrder(c, l) == \A x, y : Ahead(l, x, y) => LaterRule(c, x, y)

(* A list of the rules in a set.                                           *)
RewriteList(c, v, C) ==
    v \in Seq(DOMAIN c) /\ Range(v) = C /\ RulesInOrder(c, v)

LEMMA RewriteShape ==
    ASSUME NEW c, RewriteConf(c)
    PROVE  /\ Len(c) \in Nat /\ DOMAIN c = 1 .. Len(c)
           /\ \A n \in DOMAIN c : /\ c[n].path \in Seq(Nat \ {Empty}) /\ c[n].path \in Words
                                  /\ c[n].exact \in BOOLEAN /\ RewriteFrom(c, n) \in PathMatchers
                                  /\ RewriteFrom(c, n).path = c[n].path
                                  /\ RewriteFrom(c, n).exact = c[n].exact
<1>1. Len(c) \in Nat /\ DOMAIN c = 1 .. Len(c) /\ \A n \in DOMAIN c : c[n] \in RewriteRuleType
    BY DEF RewriteConf
<1>2. ASSUME NEW n \in DOMAIN c
      PROVE  c[n].path \in Seq(Nat \ {Empty}) /\ c[n].exact \in BOOLEAN
    BY <1>1 DEF RewriteRuleType
<1>3. ASSUME NEW s \in Seq(Nat \ {Empty}) PROVE s \in Words
    BY DEF Words
<1>4. \A n \in DOMAIN c : c[n].path \in Words
    BY <1>2, <1>3
<1>5. \A n \in DOMAIN c : /\ RewriteFrom(c, n) \in PathMatchers
                          /\ RewriteFrom(c, n).path = c[n].path
                          /\ RewriteFrom(c, n).exact = c[n].exact
    BY <1>2, <1>4 DEF RewriteFrom, PathMatchers
<1> QED
    BY <1>1, <1>2, <1>4, <1>5

LEMMA LaterIsOther ==
    ASSUME NEW c, RewriteConf(c), NEW x \in DOMAIN c, LaterRule(c, x, x)
    PROVE  FALSE
<1>1. x \in Nat /\ RewriteFrom(c, x) \in PathMatchers
    BY RewriteShape
<1> QED
    BY <1>1, PathMatcherOrder DEF LaterRule

(* What the merger has of a rule.                                          *)
LEMMA OneRule ==
    ASSUME NEW n
    PROVE  Range(<<n>>) = {n} /\ \A x, y : ~Ahead(<<n>>, x, y)
<1>1. DOMAIN <<n>> = {1} /\ <<n>>[1] = n
    OBVIOUS
<1> QED
    BY <1>1 DEF Range, Ahead

RewriteNumber(c, n) == [sorter |-> RewriteFrom(c, n), conf |-> <<n>>]

LEMMA RulesSorted ==
    ASSUME NEW c, RewriteConf(c)
    PROVE  RewriteList(c, R!M!Join([n \in DOMAIN c |-> RewriteNumber(c, (Len(c) + 1) - n)]),
                       DOMAIN c)
<1> DEFINE N == Len(c)
           l == [n \in DOMAIN c |-> RewriteNumber(c, (N + 1) - n)]
           S == {RewriteNumber(c, n) : n \in DOMAIN c}
           V == DOMAIN c
           v == R!M!Join(l)
<1>1. N \in Nat /\ V = 1 .. N /\ DOMAIN c = 1 .. N
    BY RewriteShape
<1>2. ASSUME NEW n
      PROVE  /\ RewriteNumber(c, n).sorter = RewriteFrom(c, n)
             /\ RewriteNumber(c, n).conf = <<n>> /\ Range(RewriteNumber(c, n).conf) = {n}
             /\ \A x, y : ~Ahead(RewriteNumber(c, n).conf, x, y)
    BY OneRule DEF RewriteNumber
<1>3. SortedByPath(S, V)
  <2> SUFFICES ASSUME NEW n \in DOMAIN c
               PROVE  /\ RewriteNumber(c, n).sorter \in PathMatchers
                      /\ RewriteNumber(c, n).conf \in Seq(V)
    BY DEF SortedByPath
  <2>1. <<n>> \in Seq(V)
    OBVIOUS
  <2>2. RewriteNumber(c, n).sorter = RewriteFrom(c, n) /\ RewriteNumber(c, n).conf = <<n>>
    BY <1>2
  <2>3. RewriteFrom(c, n) \in PathMatchers
    BY RewriteShape
  <2> QED
    BY <2>1, <2>2, <2>3
<1>4. /\ DOMAIN l = 1 .. N /\ \A i \in 1 .. N : l[i] = RewriteNumber(c, (N + 1) - i) /\ l[i] \in S
      /\ \A i \in 1 .. N : (N + 1) - i \in DOMAIN c
  <2>1. \A i \in 1 .. N : (N + 1) - i \in DOMAIN c
    BY <1>1
  <2> QED
    BY <1>1, <2>1
<1> HIDE DEF l, S, V
<1>5. l \in Seq(S)
  <2>1. l = [i \in 1 .. N |-> l[i]]
    BY <1>1, <1>4 DEF l
  <2> QED
    BY <1>1, <1>4, <2>1
<1>6. /\ v \in Seq(V)
      /\ \A x : x \in Range(v) <=> \E e \in Range(l) : x \in Range(e.conf)
      /\ \A x, y : Ahead(v, x, y) <=>
            \/ \E e \in Range(l) : Ahead(e.conf, x, y)
            \/ \E e, f \in Range(l) :
                  /\ \/ R!MatcherBefore(e.sorter, f.sorter)
                     \/ ~R!MatcherBefore(f.sorter, e.sorter) /\ Ahead(l, e, f)
                  /\ x \in Range(e.conf) /\ y \in Range(f.conf)
    BY <1>3, <1>5, PathJoinOf
<1> HIDE DEF v
<1>7. \A e : e \in Range(l) <=> \E n \in DOMAIN c : e = RewriteNumber(c, n)
  <2>1. ASSUME NEW e, e \in Range(l) PROVE \E n \in DOMAIN c : e = RewriteNumber(c, n)
    BY <1>4, <2>1 DEF Range
  <2>2. ASSUME NEW n \in DOMAIN c PROVE RewriteNumber(c, n) \in Range(l)
    <3> DEFINE i == (N + 1) - n
    <3>1. i \in 1 .. N /\ (N + 1) - i = n
      BY <1>1
    <3> HIDE DEF i
    <3>2. l[i] = RewriteNumber(c, n)
      BY <1>4, <3>1
    <3> QED
      BY <1>4, <3>1, <3>2 DEF Range
  <2> QED
    BY <2>1, <2>2
<1>8. Range(v) = DOMAIN c
  <2>1. ASSUME NEW x, x \in Range(v) PROVE x \in DOMAIN c
    <3>1. PICK e \in Range(l) : x \in Range(e.conf)
      BY <1>6, <2>1
    <3>2. PICK n \in DOMAIN c : e = RewriteNumber(c, n)
      BY <1>7
    <3> QED
      BY <1>2, <3>1, <3>2
  <2>2. ASSUME NEW x \in DOMAIN c PROVE x \in Range(v)
    <3>1. RewriteNumber(c, x) \in Range(l) /\ x \in Range(RewriteNumber(c, x).conf)
      BY <1>2, <1>7
    <3> QED
      BY <1>6, <3>1
  <2> QED
    BY <2>1, <2>2
<1>9. ASSUME NEW x, NEW y, Ahead(v, x, y)
      PROVE  LaterRule(c, x, y)
  <2>1. \A e \in Range(l) : ~Ahead(e.conf, x, y)
    BY <1>2, <1>7
  <2>2. PICK e \in Range(l), f \in Range(l) :
            /\ \/ R!MatcherBefore(e.sorter, f.sorter)
               \/ ~R!MatcherBefore(f.sorter, e.sorter) /\ Ahead(l, e, f)
            /\ x \in Range(e.conf) /\ y \in Range(f.conf)
    BY <1>6, <1>9, <2>1
  <2>3. /\ x \in DOMAIN c /\ e = RewriteNumber(c, x)
        /\ y \in DOMAIN c /\ f = RewriteNumber(c, y)
    BY <1>2, <1>7, <2>2
  <2>4. CASE R!MatcherBefore(e.sorter, f.sorter)
    BY <1>2, <2>3, <2>4 DEF LaterRule
  <2>5. CASE ~R!MatcherBefore(f.sorter, e.sorter) /\ Ahead(l, e, f)
    <3>1. PICK i \in 1 .. N, j \in 1 .. N : i < j /\ l[i] = e /\ l[j] = f
      BY <1>4, <2>5 DEF Ahead
    <3>2. <<(N + 1) - i>> = <<x>> /\ <<(N + 1) - j>> = <<y>>
      <4>1. l[i] = RewriteNumber(c, (N + 1) - i) /\ l[j] = RewriteNumber(c, (N + 1) - j)
        BY <1>4
      <4>2. /\ RewriteNumber(c, x).conf = <<x>> /\ RewriteNumber(c, y).conf = <<y>>
            /\ RewriteNumber(c, (N + 1) - i).conf = <<(N + 1) - i>>
            /\ RewriteNumber(c, (N + 1) - j).conf = <<(N + 1) - j>>
        BY <1>2
      <4> QED
        BY <2>3, <3>1, <4>1, <4>2
    <3>3. x = (N + 1) - i /\ y = (N + 1) - j
      BY <3>2
    <3>4. y < x
      BY <1>1, <3>1, <3>3
    <3>5. \/ RewriteFrom(c, x) = RewriteFrom(c, y)
          \/ R!MatcherBefore(RewriteFrom(c, x), RewriteFrom(c, y))
      BY <1>2, <2>3, <2>5, RewriteShape, PathMatcherOrder
    <3> QED
      BY <3>4, <3>5 DEF LaterRule
  <2> QED
    BY <2>2, <2>4, <2>5
<1>10. RewriteList(c, v, DOMAIN c)
    BY <1>6, <1>8, <1>9 DEF RewriteList, RulesInOrder, V
<1> QED
    BY <1>10 DEF v, l

-----------------------------------------------------------------------------
(* The merger of rewrite rules while they are pushed.                      *)

RewriteElement(c, n) ==
    [matcher |-> RewriteFrom(c, n), sorter |-> RewriteFrom(c, n), conf |-> <<n>>]
RewriteElements(c) == {RewriteElement(c, n) : n \in DOMAIN c}

RewriteCovers(c, n, p) == ~c[n].exact /\ IsPrefix(c[n].path, p)
RewriteHits(c, n, p) == c[n].path = p \/ RewriteCovers(c, n, p)

(* The list of a path has the rules of P that match it.                    *)
RewriteEntry(c, l, P, p) ==
    /\ l \in Seq(RewriteElements(c))
    /\ \A e : e \in Range(l) <=> \E n \in P : RewriteHits(c, n, p) /\ e = RewriteElement(c, n)
    /\ \A e, f : Ahead(l, e, f) =>
           \E x, y \in P :
               e = RewriteElement(c, x) /\ f = RewriteElement(c, y) /\ LaterRule(c, x, y)

RewriteEntries(c, E, P) ==
    /\ DOMAIN E = {c[n].path : n \in P}
    /\ \A p \in DOMAIN E : RewriteEntry(c, E[p], P, p)

RewriteHosts(c, M, P) ==
    IF P = {} THEN M = R!M!NoHosts
    ELSE DOMAIN M = {FallbackHost} /\ RewriteEntries(c, M[FallbackHost], P)

LEMMA PathMatchIs ==
    ASSUME NEW c, NEW n, NEW p, NEW b,
           RewriteFrom(c, n).path = c[n].path, RewriteFrom(c, n).exact = c[n].exact
    PROVE  /\ R!PathMatches(RewriteFrom(c, n), FallbackHost, p, b).any <=> RewriteHits(c, n, p)
           /\ R!PathMatches(RewriteFrom(c, n), FallbackHost, p, b).prefix <=> RewriteCovers(c, n, p)
           /\ R!PathMatches(RewriteFrom(c, n), FallbackHost, p, b).sorter = RewriteFrom(c, n)
<1>1. R!IsPrefix(c[n].path, p) <=> IsPrefix(c[n].path, p)
    BY RewriteOperators
<1>2. R!FallbackHost = FallbackHost
    BY DEF R!FallbackHost, FallbackHost
<1> DEFINE m == RewriteFrom(c, n)
<1>3. m.path = c[n].path /\ m.exact = c[n].exact
    OBVIOUS
<1> HIDE DEF m
<1>4. /\ R!PathMatches(m, FallbackHost, p, b).any <=> RewriteHits(c, n, p)
      /\ R!PathMatches(m, FallbackHost, p, b).prefix <=> RewriteCovers(c, n, p)
      /\ R!PathMatches(m, FallbackHost, p, b).sorter = m
    BY <1>1, <1>2, <1>3 DEF R!PathMatches, RewriteHits, RewriteCovers
<1> QED
    BY <1>4 DEF m

LEMMA RewriteElementIs ==
    ASSUME NEW c, RewriteConf(c), NEW n \in DOMAIN c
    PROVE  /\ RewriteElement(c, n) \in RewriteElements(c)
           /\ RewriteElement(c, n).matcher = RewriteFrom(c, n)
           /\ RewriteElement(c, n).sorter = RewriteFrom(c, n)
           /\ RewriteElement(c, n).conf = <<n>>
           /\ \A p, b : LET result == R!PathMatches(RewriteElement(c, n).matcher, FallbackHost, p, b)
                        IN  /\ result.any <=> RewriteHits(c, n, p)
                            /\ result.prefix <=> RewriteCovers(c, n, p)
                            /\ result.sorter = RewriteElement(c, n).sorter
<1>1. /\ RewriteElement(c, n).matcher = RewriteFrom(c, n)
      /\ RewriteElement(c, n).sorter = RewriteFrom(c, n)
      /\ RewriteElement(c, n).conf = <<n>>
    BY DEF RewriteElement
<1>2. RewriteElement(c, n) \in RewriteElements(c)
    BY DEF RewriteElements
<1>3. RewriteFrom(c, n).path = c[n].path /\ RewriteFrom(c, n).exact = c[n].exact
    BY RewriteShape
<1>4. \A p, b : /\ R!PathMatches(RewriteFrom(c, n), FallbackHost, p, b).any <=> RewriteHits(c, n, p)
                /\ R!PathMatches(RewriteFrom(c, n), FallbackHost, p, b).prefix <=> RewriteCovers(c, n, p)
                /\ R!PathMatches(RewriteFrom(c, n), FallbackHost, p, b).sorter = RewriteFrom(c, n)
    BY <1>3, PathMatchIs
<1> QED
    BY <1>1, <1>2, <1>4

(* An entry that was added: what the closest parent has, as far as it      *)
(* matches.                                                                *)
PathKept(l, p) ==
    Selected(l, {e \in Range(l) : R!PathMatches(e.matcher, FallbackHost, p, FALSE).any})
PathCopied(l, p) ==
    [i \in DOMAIN PathKept(l, p) |->
        [PathKept(l, p)[i] EXCEPT
            !.sorter = R!PathMatches(PathKept(l, p)[i].matcher, FallbackHost, p, FALSE).sorter]]

LEMMA PathEnsured ==
    ASSUME NEW E, NEW p
    PROVE  Grows(R!M!EnsureEntry(E, FallbackHost, p), E, p, PathCopied(ParentEntry(E, p), p))
<1> DEFINE new == PathCopied(ParentEntry(E, p), p)
<1>1. R!M!EnsureEntry(E, FallbackHost, p) = IF p \in DOMAIN E THEN E ELSE R!M!Extended(E, p, new)
    BY DEF R!M!EnsureEntry, PathCopied, PathKept, ParentEntry, R!M!ParentsOf, R!M!Closest, Closest,
           R!M!Selected, Selected, R!M!Range, Range, R!M!IsStrictPrefix, IsStrictPrefix,
           R!M!IsPrefix, IsPrefix
<1> HIDE DEF new
<1>2. R!M!Extended(E, p, new) = [x \in DOMAIN E \union {p} |-> IF x = p THEN new ELSE E[x]]
    BY DEF R!M!Extended
<1>3. CASE p \in DOMAIN E
    BY <1>1, <1>3 DEF Grows
<1>4. CASE p \notin DOMAIN E
    BY <1>1, <1>2, <1>4 DEF Grows, new
<1> QED
    BY <1>3, <1>4

LEMMA PathCopyIs ==
    ASSUME NEW c, RewriteConf(c), NEW p, NEW l \in Seq(RewriteElements(c))
    PROVE  /\ PathCopied(l, p) \in Seq(RewriteElements(c))
           /\ \A e : e \in Range(PathCopied(l, p)) <=>
                  \E n \in DOMAIN c :
                      e = RewriteElement(c, n) /\ e \in Range(l) /\ RewriteHits(c, n, p)
           /\ \A e, f : Ahead(PathCopied(l, p), e, f) => Ahead(l, e, f)
<1> DEFINE C == {e \in Range(l) : R!PathMatches(e.matcher, FallbackHost, p, FALSE).any}
           kept == Selected(l, C)
<1>1. /\ kept \in Seq(RewriteElements(c)) /\ Range(kept) = Range(l) \intersect C
      /\ \A e, f : Ahead(kept, e, f) <=> Ahead(l, e, f) /\ e \in C /\ f \in C
    BY SelectedList
<1>2. kept = PathKept(l, p)
    BY DEF PathKept
<1> HIDE DEF kept
<1>3. \A i \in DOMAIN kept : kept[i] \in RewriteElements(c)
    BY <1>1
<1>4. ASSUME NEW i \in DOMAIN kept
      PROVE  [kept[i] EXCEPT !.sorter = R!PathMatches(kept[i].matcher, FallbackHost, p, FALSE).sorter]
                 = kept[i]
  <2>1. PICK n \in DOMAIN c : kept[i] = RewriteElement(c, n)
    BY <1>3 DEF RewriteElements
  <2>2. R!PathMatches(kept[i].matcher, FallbackHost, p, FALSE).sorter = RewriteFrom(c, n)
    BY <2>1, RewriteElementIs
  <2> DEFINE m == RewriteFrom(c, n)
             v == <<n>>
  <2>3. kept[i] = [matcher |-> m, sorter |-> m, conf |-> v]
    BY <2>1 DEF RewriteElement
  <2> HIDE DEF m, v
  <2>4. [kept[i] EXCEPT !.sorter = m] = kept[i]
    BY <2>3
  <2> QED
    BY <2>2, <2>4 DEF m
<1>5. PathCopied(l, p) = kept
  <2>1. PathCopied(l, p) = [i \in DOMAIN kept |-> kept[i]]
    BY <1>2, <1>4 DEF PathCopied
  <2>2. kept = [i \in DOMAIN kept |-> kept[i]]
    BY <1>1
  <2> QED
    BY <2>1, <2>2
<1>6. ASSUME NEW e
      PROVE  e \in Range(kept) <=>
                  \E n \in DOMAIN c :
                      e = RewriteElement(c, n) /\ e \in Range(l) /\ RewriteHits(c, n, p)
  <2>1. ASSUME e \in Range(l) PROVE \E n \in DOMAIN c : e = RewriteElement(c, n)
    <3>1. e \in RewriteElements(c)
      BY <2>1, RangeOfList
    <3> QED
      BY <3>1 DEF RewriteElements
  <2>2. ASSUME NEW n \in DOMAIN c, e = RewriteElement(c, n)
        PROVE  R!PathMatches(e.matcher, FallbackHost, p, FALSE).any <=> RewriteHits(c, n, p)
    BY <2>2, RewriteElementIs
  <2>3. e \in Range(kept) <=> e \in Range(l) /\ R!PathMatches(e.matcher, FallbackHost, p, FALSE).any
    BY <1>1
  <2> QED
    BY <2>1, <2>2, <2>3
<1> QED
    BY <1>1, <1>5, <1>6

LEMMA PathEntryEnsured ==
    ASSUME NEW c, RewriteConf(c), NEW P \in SUBSET DOMAIN c, NEW E, RewriteEntries(c, E, P),
           NEW q \in Words, NEW F, Grows(F, E, q, PathCopied(ParentEntry(E, q), q))
    PROVE  /\ DOMAIN F = DOMAIN E \union {q}
           /\ \A p \in DOMAIN F : RewriteEntry(c, F[p], P, p)
<1>1. DOMAIN F = DOMAIN E \union {q} /\ \A p \in DOMAIN E : F[p] = E[p]
    BY DEF Grows
<1>2. \A p \in DOMAIN E : RewriteEntry(c, F[p], P, p)
    BY <1>1 DEF RewriteEntries
<1>3. ASSUME q \notin DOMAIN E PROVE RewriteEntry(c, F[q], P, q)
  <2> DEFINE l == ParentEntry(E, q)
             new == PathCopied(l, q)
  <2>1. F[q] = new
    BY <1>3 DEF Grows
  <2>2. DOMAIN E \in SUBSET Words /\ \A n \in P : c[n].path \in DOMAIN E /\ c[n].path \in Words
    BY RewriteShape DEF RewriteEntries
  <2>3. \/ /\ l = <<>>
           /\ \A r \in DOMAIN E : ~IsPrefix(r, q)
        \/ \E r \in DOMAIN E :
              /\ l = E[r] /\ r # q /\ IsPrefix(r, q)
              /\ \A x \in DOMAIN E : IsPrefix(x, q) => IsPrefix(x, r)
    BY <1>3, <2>2, ParentIs
  <2> HIDE DEF l
  <2>4. ASSUME NEW n \in P, RewriteHits(c, n, q)
        PROVE  RewriteCovers(c, n, q)
    BY <1>3, <2>2, <2>4 DEF RewriteHits
  <2>5. /\ l \in Seq(RewriteElements(c))
        /\ \A n \in P : RewriteHits(c, n, q) => RewriteElement(c, n) \in Range(l)
        /\ \A e \in Range(l) : \E n \in P : e = RewriteElement(c, n)
        /\ \A e, f : Ahead(l, e, f) =>
               \E x, y \in P :
                   e = RewriteElement(c, x) /\ f = RewriteElement(c, y) /\ LaterRule(c, x, y)
    <3>1. CASE l = <<>> /\ \A r \in DOMAIN E : ~IsPrefix(r, q)
      <4>1. \A n \in P : ~RewriteHits(c, n, q)
        BY <2>2, <2>4, <3>1 DEF RewriteCovers
      <4>2. l \in Seq(RewriteElements(c)) /\ Range(l) = {} /\ \A e, f : ~Ahead(l, e, f)
        BY <3>1, EmptyList
      <4> QED
        BY <4>1, <4>2
    <3>2. CASE \E r \in DOMAIN E :
                  /\ l = E[r] /\ r # q /\ IsPrefix(r, q)
                  /\ \A x \in DOMAIN E : IsPrefix(x, q) => IsPrefix(x, r)
      <4>1. PICK r \in DOMAIN E :
                  /\ l = E[r] /\ r # q /\ IsPrefix(r, q)
                  /\ \A x \in DOMAIN E : IsPrefix(x, q) => IsPrefix(x, r)
        BY <3>2
      <4>2. RewriteEntry(c, l, P, r)
        BY <4>1 DEF RewriteEntries
      <4>3. /\ l \in Seq(RewriteElements(c))
            /\ \A e : e \in Range(l) <=> \E n \in P : RewriteHits(c, n, r) /\ e = RewriteElement(c, n)
            /\ \A e, f : Ahead(l, e, f) =>
                   \E x, y \in P :
                       e = RewriteElement(c, x) /\ f = RewriteElement(c, y) /\ LaterRule(c, x, y)
        BY <4>2 DEF RewriteEntry
      <4>4. \A n \in P : RewriteHits(c, n, q) => RewriteHits(c, n, r)
        BY <2>2, <2>4, <4>1 DEF RewriteCovers, RewriteHits
      <4> QED
        BY <4>3, <4>4
    <3> QED
      BY <2>3, <3>1, <3>2
  <2>6. /\ new \in Seq(RewriteElements(c))
        /\ \A e : e \in Range(new) <=>
               \E n \in DOMAIN c :
                   e = RewriteElement(c, n) /\ e \in Range(l) /\ RewriteHits(c, n, q)
        /\ \A e, f : Ahead(new, e, f) => Ahead(l, e, f)
    BY <2>5, PathCopyIs
  <2> HIDE DEF new
  <2>7. ASSUME NEW e
        PROVE  e \in Range(new) <=> \E n \in P : RewriteHits(c, n, q) /\ e = RewriteElement(c, n)
    <3>1. ASSUME e \in Range(new)
          PROVE  \E n \in P : RewriteHits(c, n, q) /\ e = RewriteElement(c, n)
      <4>1. PICK n \in DOMAIN c : e = RewriteElement(c, n) /\ e \in Range(l) /\ RewriteHits(c, n, q)
        BY <2>6, <3>1
      <4>2. PICK m \in P : e = RewriteElement(c, m)
        BY <2>5, <4>1
      <4>3. <<n>> = <<m>>
        BY <4>1, <4>2, RewriteElementIs
      <4> QED
        BY <4>1, <4>2, <4>3
    <3> QED
      BY <2>5, <2>6, <3>1
  <2> QED
    BY <2>1, <2>5, <2>6, <2>7 DEF RewriteEntry
<1> QED
    BY <1>1, <1>2, <1>3

-----------------------------------------------------------------------------
(* The rule is appended to the entries it matches.                         *)
PathElement(m, h, p, v) ==
    [matcher |-> m, sorter |-> R!PathMatches(m, h, p, FALSE).sorter, conf |-> v]
PathAppended(m, h, p, v) ==
    IF R!PathMatches(m, h, p, FALSE).any THEN <<PathElement(m, h, p, v)>> ELSE <<>>

LEMMA PathPushed ==
    ASSUME NEW m, NEW M, NEW v 
    PROVE  LET grown == R!M!EnsureLocation(M, <<FallbackHost, m.path>>)
           IN  R!M!Push(M, m, v) =
                   [h \in DOMAIN grown |-> [p \in DOMAIN grown[h] |->
                        grown[h][p] \o PathAppended(m, h, p, v)]]
<1> DEFINE L == R!MatcherLocations(m)
           N == Len(L)
           Step(f) == [i \in 0 .. N |-> IF i = 0 THEN M ELSE R!M!EnsureLocation(f[i - 1], L[i])]
           made == CHOOSE f : f = Step(f)
           grown == made[N]
           F == R!M!EnsureLocation(M, <<FallbackHost, m.path>>)
           g == [i \in 0 .. 1 |-> IF i = 0 THEN M ELSE F]
<1>1. N = 1 /\ L[1] = <<FallbackHost, m.path>>
    BY DEF R!MatcherLocations, R!FallbackHost, FallbackHost
<1>2. R!M!Push(M, m, v) =
          [h \in DOMAIN grown |-> [p \in DOMAIN grown[h] |->
              grown[h][p] \o PathAppended(m, h, p, v)]]
    BY DEF R!M!Push, PathAppended, PathElement
<1> HIDE DEF L, N
<1>3. g = Step(g)
    BY <1>1
<1>4. made = Step(made)
    BY <1>3
<1> HIDE DEF made
<1>5. made[0] = M
    BY <1>1, <1>4
<1>6. made[1] = F
    BY <1>1, <1>4, <1>5
<1> QED
    BY <1>1, <1>2, <1>6

(* The merger has entries for the fallback host only.                      *)
EntriesOf(M, P) == IF P = {} THEN <<>> ELSE M[FallbackHost]

LEMMA PathLocated ==
    ASSUME NEW c, NEW P, NEW M, RewriteHosts(c, M, P), NEW p
    PROVE  LET grown == R!M!EnsureLocation(M, <<FallbackHost, p>>)
           IN  /\ RewriteEntries(c, EntriesOf(M, P), P)
               /\ DOMAIN grown = {FallbackHost}
               /\ grown[FallbackHost] = R!M!EnsureEntry(EntriesOf(M, P), FallbackHost, p)
<1> DEFINE known == R!M!EnsureHost(M, FallbackHost)
           E == EntriesOf(M, P)
           grown == R!M!EnsureLocation(M, <<FallbackHost, p>>)
<1>1. RewriteEntries(c, E, P) /\ DOMAIN known = {FallbackHost} /\ known[FallbackHost] = E
  <2>1. CASE P = {}
    <3>1. DOMAIN M = {} /\ E = <<>>
      BY <2>1 DEF RewriteHosts, R!M!NoHosts, EntriesOf
    <3>2. FallbackHost \notin DOMAIN M
      BY <3>1
    <3>3. known = [k \in DOMAIN M \union {FallbackHost} |-> IF k = FallbackHost THEN <<>> ELSE M[k]]
      BY <3>2 DEF R!M!EnsureHost, R!M!Extended, R!M!RulesOf, R!M!FallbackHost, FallbackHost
    <3>4. RewriteEntries(c, E, P)
      <4>1. DOMAIN E = {} /\ {c[n].path : n \in P} = {}
        BY <2>1, <3>1
      <4> HIDE DEF E
      <4> QED
        BY <4>1 DEF RewriteEntries
    <3> HIDE DEF known
    <3> QED
      BY <3>1, <3>3, <3>4
  <2>2. CASE P # {}
    <3>1. DOMAIN M = {FallbackHost} /\ RewriteEntries(c, E, P) /\ E = M[FallbackHost]
      BY <2>2 DEF RewriteHosts, EntriesOf
    <3>2. known = M
      BY <3>1 DEF R!M!EnsureHost
    <3> QED
      BY <3>1, <3>2
  <2> QED
    BY <2>1, <2>2
<1>2. grown = [h \in DOMAIN known |->
                  IF FallbackHost \in {h, FallbackHost} THEN R!M!EnsureEntry(known[h], h, p)
                  ELSE known[h]]
    BY DEF R!M!EnsureLocation, R!M!FallbackHost, FallbackHost
<1> HIDE DEF known, E, grown
<1>3. DOMAIN grown = {FallbackHost} /\ grown[FallbackHost] = R!M!EnsureEntry(E, FallbackHost, p)
    BY <1>1, <1>2
<1> QED
    BY <1>1, <1>3 DEF E, grown

LEMMA RuleAppended ==
    ASSUME NEW c, RewriteConf(c), NEW n \in DOMAIN c, NEW p
    PROVE  PathAppended(RewriteFrom(c, n), FallbackHost, p, <<n>>) =
               IF RewriteHits(c, n, p) THEN <<RewriteElement(c, n)>> ELSE <<>>
<1> DEFINE m == RewriteFrom(c, n)
           result == R!PathMatches(m, FallbackHost, p, FALSE)
           v == <<n>>
<1>1. (result.any <=> RewriteHits(c, n, p)) /\ result.sorter = m
    BY RewriteShape, PathMatchIs
<1>2. RewriteElement(c, n) = [matcher |-> m, sorter |-> m, conf |-> v]
    BY DEF RewriteElement
<1>3. PathAppended(m, FallbackHost, p, v) =
          IF result.any THEN <<[matcher |-> m, sorter |-> result.sorter, conf |-> v]>> ELSE <<>>
    BY DEF PathAppended, PathElement
<1> HIDE DEF m, result, v
<1> DEFINE hits == RewriteHits(c, n, p)
           e == RewriteElement(c, n)
<1>4. (result.any <=> hits) /\ e = [matcher |-> m, sorter |-> m, conf |-> v]
    BY <1>1, <1>2
<1> HIDE DEF hits, e
<1>5. PathAppended(m, FallbackHost, p, v) = IF hits THEN <<e>> ELSE <<>>
    BY <1>1, <1>3, <1>4
<1> QED
    BY <1>5 DEF m, v, hits, e

LEMMA EntryAppended ==
    ASSUME NEW c, RewriteConf(c), NEW P \in SUBSET DOMAIN c, NEW n \in DOMAIN c,
           \A x \in P : LaterRule(c, x, n), NEW p, NEW l, RewriteEntry(c, l, P, p)
    PROVE  RewriteEntry(c, l \o PathAppended(RewriteFrom(c, n), FallbackHost, p, <<n>>),
                        P \union {n}, p)
<1> DEFINE e0 == RewriteElement(c, n)
           a == PathAppended(RewriteFrom(c, n), FallbackHost, p, <<n>>)
           S == RewriteElements(c)
           k == l \o a
<1>1. a = IF RewriteHits(c, n, p) THEN <<e0>> ELSE <<>>
    BY RuleAppended
<1>2. e0 \in S
    BY RewriteElementIs
<1>3. /\ l \in Seq(S)
      /\ \A e : e \in Range(l) <=> \E x \in P : RewriteHits(c, x, p) /\ e = RewriteElement(c, x)
      /\ \A e, f : Ahead(l, e, f) =>
             \E x, y \in P :
                 e = RewriteElement(c, x) /\ f = RewriteElement(c, y) /\ LaterRule(c, x, y)
    BY DEF RewriteEntry
<1> HIDE DEF S, a
<1>4. /\ a \in Seq(S) /\ \A e, f : ~Ahead(a, e, f)
      /\ \A e : e \in Range(a) <=> RewriteHits(c, n, p) /\ e = e0
  <2>1. CASE RewriteHits(c, n, p)
    <3> HIDE DEF e0
    <3>1. a = <<e0>> /\ <<e0>> \in Seq(S)
      BY <1>1, <1>2, <2>1
    <3>2. Range(<<e0>>) = {e0} /\ \A x, y : ~Ahead(<<e0>>, x, y)
      BY OneRule
    <3> QED
      BY <2>1, <3>1, <3>2
  <2>2. CASE ~RewriteHits(c, n, p)
    BY <1>1, <2>2, EmptyList
  <2> QED
    BY <2>1, <2>2
<1>5. /\ k \in Seq(S) /\ Range(k) = Range(l) \union Range(a)
      /\ \A x, y : Ahead(k, x, y) <=>
             \/ Ahead(l, x, y) \/ Ahead(a, x, y)
             \/ x \in Range(l) /\ y \in Range(a)
    BY <1>3, <1>4, JoinedLists
<1> HIDE DEF k
<1>6. ASSUME NEW e
      PROVE  e \in Range(k) <=>
                 \E x \in P \union {n} : RewriteHits(c, x, p) /\ e = RewriteElement(c, x)
    BY <1>3, <1>4, <1>5
<1>7. ASSUME NEW e, NEW f, Ahead(k, e, f)
      PROVE  \E x, y \in P \union {n} :
                 e = RewriteElement(c, x) /\ f = RewriteElement(c, y) /\ LaterRule(c, x, y)
  <2>1. CASE Ahead(l, e, f)
    BY <1>3, <2>1
  <2>2. CASE e \in Range(l) /\ f \in Range(a)
    <3>1. PICK x \in P : e = RewriteElement(c, x)
      BY <1>3, <2>2
    <3>2. f = RewriteElement(c, n) /\ LaterRule(c, x, n)
      BY <1>4, <2>2
    <3> QED
      BY <3>1, <3>2
  <2> QED
    BY <1>4, <1>5, <1>7, <2>1, <2>2
<1> QED
    BY <1>5, <1>6, <1>7 DEF RewriteEntry, k, a, S

LEMMA RewritePushed ==
    ASSUME NEW c, RewriteConf(c), NEW P \in SUBSET DOMAIN c, NEW M, RewriteHosts(c, M, P),
           NEW n \in DOMAIN c, \A x \in P : LaterRule(c, x, n)
    PROVE  RewriteHosts(c, R!M!Push(M, RewriteFrom(c, n), <<n>>), P \union {n})
<1> DEFINE m == RewriteFrom(c, n)
           v == <<n>>
           q == c[n].path
           E == EntriesOf(M, P)
           grown == R!M!EnsureLocation(M, <<FallbackHost, m.path>>)
           K == R!M!Push(M, m, v)
           G == grown[FallbackHost]
<1>1. m.path = q /\ q \in Words
    BY RewriteShape
<1>2. K = [h \in DOMAIN grown |-> [p \in DOMAIN grown[h] |->
              grown[h][p] \o PathAppended(m, h, p, v)]]
    BY PathPushed
<1>3. RewriteEntries(c, E, P) /\ DOMAIN grown = {FallbackHost} /\ G = R!M!EnsureEntry(E, FallbackHost, q)
    BY <1>1, PathLocated
<1> HIDE DEF m, E, grown, K, v, q
<1>4. Grows(G, E, q, PathCopied(ParentEntry(E, q), q))
    BY <1>3, PathEnsured
<1> HIDE DEF G
<1>5. DOMAIN G = DOMAIN E \union {q} /\ \A p \in DOMAIN G : RewriteEntry(c, G[p], P, p)
  <2>1. RewriteEntries(c, E, P) /\ q \in Words /\ Grows(G, E, q, PathCopied(ParentEntry(E, q), q))
    BY <1>1, <1>3, <1>4
  <2>2. DOMAIN G = DOMAIN E \union {q}
    BY <2>1 DEF Grows
  <2>3. \A p \in DOMAIN G : RewriteEntry(c, G[p], P, p)
    BY <2>1, PathEntryEnsured
  <2> QED
    BY <2>2, <2>3
<1>6. DOMAIN K = {FallbackHost} /\ K[FallbackHost] = [p \in DOMAIN G |-> G[p] \o PathAppended(m, FallbackHost, p, v)]
    BY <1>2, <1>3 DEF G
<1> DEFINE F == K[FallbackHost]
           Q == P \union {n}
<1>7. \A p \in DOMAIN G : RewriteEntry(c, F[p], Q, p)
  <2> TAKE p \in DOMAIN G
  <2> DEFINE l == G[p]
  <2>1. RewriteEntry(c, l, P, p)
    BY <1>5
  <2>2. F[p] = l \o PathAppended(m, FallbackHost, p, v)
    BY <1>6
  <2> HIDE DEF l, F
  <2>3. RewriteEntry(c, l \o PathAppended(RewriteFrom(c, n), FallbackHost, p, <<n>>), Q, p)
    BY <2>1, EntryAppended
  <2> QED
    BY <2>2, <2>3 DEF m, v
<1>8. DOMAIN F = {c[x].path : x \in Q}
    BY <1>3, <1>5, <1>6 DEF RewriteEntries, q
<1>9. RewriteEntries(c, F, Q)
    BY <1>5, <1>6, <1>7, <1>8 DEF RewriteEntries
<1> HIDE DEF F
<1>10. Q # {}
    OBVIOUS
<1>11. RewriteHosts(c, K, Q)
    BY <1>6, <1>9, <1>10 DEF RewriteHosts, F
<1> QED
    BY <1>11 DEF K, m, v, Q

-----------------------------------------------------------------------------
(* The merged lists of rules.                                              *)

LEMMA SameElement ==
    ASSUME NEW c, RewriteConf(c), NEW x \in DOMAIN c, NEW y,
           y \in Range(RewriteElement(c, x).conf)
    PROVE  y = x
BY RewriteElementIs, OneRule

LEMMA ChosenJoined ==
    ASSUME NEW c, RewriteConf(c), NEW P \in SUBSET DOMAIN c, NEW p, NEW l,
           RewriteEntry(c, l, P, p), NEW C, NEW D \in SUBSET P,
           \A n \in P : (RewriteHits(c, n, p) /\ RewriteElement(c, n) \in C) <=> n \in D
    PROVE  RewriteList(c, R!M!Join(R!M!Selected(l, C)), D)
<1> DEFINE S == RewriteElements(c)
           V == DOMAIN c
           k == Selected(l, C)
           v == R!M!Join(k)
<1>1. /\ l \in Seq(S)
      /\ \A e : e \in Range(l) <=> \E n \in P : RewriteHits(c, n, p) /\ e = RewriteElement(c, n)
      /\ \A e, f : Ahead(l, e, f) =>
             \E x, y \in P :
                 e = RewriteElement(c, x) /\ f = RewriteElement(c, y) /\ LaterRule(c, x, y)
    BY DEF RewriteEntry
<1>2. R!M!Selected(l, C) = k
    BY RewriteOperators
<1>3. SortedByPath(S, V)
  <2> SUFFICES ASSUME NEW n \in DOMAIN c
               PROVE  /\ RewriteElement(c, n).sorter \in PathMatchers
                      /\ RewriteElement(c, n).conf \in Seq(V)
    BY DEF SortedByPath, RewriteElements
  <2>1. <<n>> \in Seq(V)
    OBVIOUS
  <2>2. RewriteElement(c, n).sorter = RewriteFrom(c, n) /\ RewriteElement(c, n).conf = <<n>>
    BY RewriteElementIs
  <2>3. RewriteFrom(c, n) \in PathMatchers
    BY RewriteShape
  <2> QED
    BY <2>1, <2>2, <2>3
<1> HIDE DEF S, V
<1>4. /\ k \in Seq(S) /\ Range(k) = Range(l) \intersect C
      /\ \A x, y : Ahead(k, x, y) <=> Ahead(l, x, y) /\ x \in C /\ y \in C
    BY <1>1, SelectedList
<1> HIDE DEF k
<1>5. /\ v \in Seq(V)
      /\ \A x : x \in Range(v) <=> \E e \in Range(k) : x \in Range(e.conf)
      /\ \A x, y : Ahead(v, x, y) <=>
            \/ \E e \in Range(k) : Ahead(e.conf, x, y)
            \/ \E e, f \in Range(k) :
                  /\ \/ R!MatcherBefore(e.sorter, f.sorter)
                     \/ ~R!MatcherBefore(f.sorter, e.sorter) /\ Ahead(k, e, f)
                  /\ x \in Range(e.conf) /\ y \in Range(f.conf)
    BY <1>3, <1>4, PathJoinOf
<1> HIDE DEF v
<1>6. \A e : e \in Range(k) <=> \E n \in D : e = RewriteElement(c, n)
    BY <1>1, <1>4
<1>7. \A x : x \in Range(v) <=> x \in D
  <2> TAKE x
  <2>1. ASSUME x \in Range(v) PROVE x \in D
    <3>1. PICK e \in Range(k) : x \in Range(e.conf)
      BY <1>5, <2>1
    <3>2. PICK n \in D : e = RewriteElement(c, n)
      BY <1>6
    <3> QED
      BY <3>1, <3>2, SameElement
  <2>2. ASSUME x \in D PROVE x \in Range(v)
    <3>1. RewriteElement(c, x) \in Range(k)
      BY <1>6, <2>2
    <3>2. x \in Range(RewriteElement(c, x).conf)
      BY <2>2, RewriteElementIs, OneRule
    <3> QED
      BY <1>5, <3>1, <3>2
  <2> QED
    BY <2>1, <2>2
<1>8. ASSUME NEW x, NEW y, Ahead(v, x, y) PROVE LaterRule(c, x, y)
  <2>1. \A e \in Range(k) : ~Ahead(e.conf, x, y)
    <3> TAKE e \in Range(k)
    <3>1. PICK n \in D : e = RewriteElement(c, n)
      BY <1>6
    <3>2. e.conf = <<n>>
      BY <3>1, RewriteElementIs
    <3> QED
      BY <3>2, OneRule
  <2>2. PICK e \in Range(k), f \in Range(k) :
                  /\ \/ R!MatcherBefore(e.sorter, f.sorter)
                     \/ ~R!MatcherBefore(f.sorter, e.sorter) /\ Ahead(k, e, f)
                  /\ x \in Range(e.conf) /\ y \in Range(f.conf)
    BY <1>5, <1>8, <2>1
  <2>3. /\ x \in D /\ e = RewriteElement(c, x)
        /\ y \in D /\ f = RewriteElement(c, y)
    <3>1. PICK n \in D : e = RewriteElement(c, n)
      BY <1>6
    <3>2. PICK m \in D : f = RewriteElement(c, m)
      BY <1>6
    <3> QED
      BY <2>2, <3>1, <3>2, SameElement
  <2>4. CASE R!MatcherBefore(e.sorter, f.sorter)
    BY <2>3, <2>4, RewriteElementIs DEF LaterRule
  <2>5. CASE Ahead(k, e, f)
    <3>1. PICK a \in P, b \in P :
              e = RewriteElement(c, a) /\ f = RewriteElement(c, b) /\ LaterRule(c, a, b)
      BY <1>1, <1>4, <2>5
    <3>2. a = x /\ b = y
      BY <2>2, <3>1, SameElement
    <3> QED
      BY <3>1, <3>2
  <2> QED
    BY <2>2, <2>4, <2>5
<1>9. Range(v) = D
    BY <1>7
<1>10. RewriteList(c, v, D)
    BY <1>5, <1>8, <1>9 DEF RewriteList, RulesInOrder, V
<1> QED
    BY <1>2, <1>10 DEF v

Hitting(c, p) == {n \in DOMAIN c : RewriteHits(c, n, p)}
Covered(c, p) == {n \in DOMAIN c : RewriteCovers(c, n, p)}

LEMMA PathResults ==
    ASSUME NEW c, RewriteConf(c), NEW p, NEW l, RewriteEntry(c, l, DOMAIN c, p)
    PROVE  /\ RewriteList(c, R!M!MergeExact(FallbackHost, p, l), Hitting(c, p))
           /\ RewriteList(c, R!M!MergePrefix(FallbackHost, p, l), Covered(c, p))
<1> DEFINE any == {e \in Range(l) : R!PathMatches(e.matcher, FallbackHost, p, FALSE).any}
           below == {e \in Range(l) : R!PathMatches(e.matcher, FallbackHost, p, TRUE).prefix}
           P == DOMAIN c
<1>1. \A e : e \in Range(l) <=> \E n \in P : RewriteHits(c, n, p) /\ e = RewriteElement(c, n)
    BY DEF RewriteEntry
<1>2. /\ R!M!MergeExact(FallbackHost, p, l) = R!M!Join(R!M!Selected(l, any))
      /\ R!M!MergePrefix(FallbackHost, p, l) = R!M!Join(R!M!Selected(l, below))
    BY DEF R!M!MergeExact, R!M!MergePrefix, R!M!Range, Range
<1>3. \A n \in P : (RewriteHits(c, n, p) /\ RewriteElement(c, n) \in any) <=> n \in Hitting(c, p)
  <2> TAKE n \in P
  <2>1. R!PathMatches(RewriteElement(c, n).matcher, FallbackHost, p, FALSE).any <=> RewriteHits(c, n, p)
    BY RewriteElementIs
  <2> QED
    BY <1>1, <2>1 DEF Hitting
<1>4. \A n \in P : (RewriteHits(c, n, p) /\ RewriteElement(c, n) \in below) <=> n \in Covered(c, p)
  <2> TAKE n \in P
  <2>1. R!PathMatches(RewriteElement(c, n).matcher, FallbackHost, p, TRUE).prefix <=> RewriteCovers(c, n, p)
    BY RewriteElementIs
  <2>2. RewriteCovers(c, n, p) => RewriteHits(c, n, p)
    BY DEF RewriteHits
  <2> QED
    BY <1>1, <2>1, <2>2 DEF Covered
<1>5. Hitting(c, p) \in SUBSET P /\ Covered(c, p) \in SUBSET P /\ P \in SUBSET DOMAIN c
    BY DEF Hitting, Covered
<1>6. RewriteEntry(c, l, P, p)
    OBVIOUS
<1> HIDE DEF any, below, P
<1>7. RewriteList(c, R!M!Join(R!M!Selected(l, any)), Hitting(c, p))
    BY <1>3, <1>5, <1>6, ChosenJoined
<1>8. RewriteList(c, R!M!Join(R!M!Selected(l, below)), Covered(c, p))
    BY <1>4, <1>5, <1>6, ChosenJoined
<1> QED
    BY <1>2, <1>7, <1>8

LEMMA SameRedundant ==
    ASSUME NEW values, NEW p
    PROVE  R!M!Redundant(values, p) <=> Strict!Redundant(values, p)
BY DEF R!M!Redundant, Strict!Redundant, R!M!ParentsOf, Strict!ParentsOf, R!M!Closest,
       Strict!Closest, R!M!IsStrictPrefix, Strict!IsStrictPrefix, R!M!IsPrefix, Strict!IsPrefix

LEMMA PathsMerged ==
    ASSUME NEW M, NEW h \in DOMAIN M
    PROVE  /\ DOMAIN R!M!Merge(M) = DOMAIN M
           /\ R!M!Merge(M)[h] = [p \in KeptIn(R!M!MergeEntries(h, M[h])) |->
                                    R!M!MergeEntries(h, M[h])[p]]
<1> DEFINE values == R!M!MergeEntries(h, M[h])
<1>1. /\ DOMAIN R!M!Merge(M) = DOMAIN M
      /\ R!M!Merge(M)[h] = [p \in {q \in DOMAIN values : ~R!M!Redundant(values, q)} |-> values[p]]
    BY DEF R!M!Merge
<1> HIDE DEF values
<1>2. {q \in DOMAIN values : ~R!M!Redundant(values, q)} = KeptIn(values)
    BY SameRedundant DEF KeptIn
<1> QED
    BY <1>1, <1>2 DEF values

LEMMA SameLookup ==
    ASSUME NEW r, NEW key
    PROVE  R!LookupRoute(r, FallbackHost, key) = BestMatch(RulesOf(r, FallbackHost), key)
<1> DEFINE rules0 == RulesOf(r, FallbackHost)
<1>1. R!RulesOf(r, R!FallbackHost) = rules0 /\ R!FallbackHost = FallbackHost
    BY DEF R!RulesOf, RulesOf, R!FallbackHost, FallbackHost
<1>2. R!LookupRoute(r, FallbackHost, key) = R!BestMatch(R!RulesOf(r, R!FallbackHost), key)
    BY <1>1 DEF R!LookupRoute
<1> HIDE DEF rules0
<1>3. R!BestMatch(rules0, key) = BestMatch(rules0, key)
    BY DEF R!BestMatch, BestMatch, R!Inherited, Inherited, R!Closest, Closest, R!IsPrefix, IsPrefix
<1> QED
    BY <1>1, <1>2, <1>3 DEF rules0

-----------------------------------------------------------------------------
(* What a request finds: the rules that match its path.                    *)

IsRewriteResult(c, r, key) == r # None /\ RewriteList(c, r, Hitting(c, key))

LEMMA ListIsSome ==
    ASSUME NEW c, RewriteConf(c), NEW v, NEW C, RewriteList(c, v, C)
    PROVE  v # None
<1>1. v \in Seq(DOMAIN c) /\ DOMAIN c \subseteq Nat
    BY RewriteShape DEF RewriteList
<1>2. v \in Seq(Nat)
    BY <1>1
<1> QED
    BY <1>2, NonePathAssumption

LEMMA HitsBelow ==
    ASSUME NEW c, RewriteConf(c), NEW D \in SUBSET Words, D = {c[n].path : n \in DOMAIN c},
           NEW key \in Words
    PROVE  /\ (\A q \in D : ~IsPrefix(q, key)) => Hitting(c, key) = {}
           /\ \A p \in D : Decides(D, p, key) /\ p # key => Hitting(c, key) = Covered(c, p)
<1>1. \A n \in DOMAIN c : c[n].path \in D /\ c[n].path \in Words
    BY RewriteShape
<1>2. \A n \in DOMAIN c : RewriteHits(c, n, key) => IsPrefix(c[n].path, key)
    BY PrefixOrder DEF RewriteHits, RewriteCovers
<1>3. ASSUME NEW p \in D, Decides(D, p, key), p # key
      PROVE  Hitting(c, key) = Covered(c, p)
  <2>1. p \in Words /\ IsPrefix(p, key) /\ \A q \in D : IsPrefix(q, key) => IsPrefix(q, p)
    BY <1>3 DEF Decides
  <2>2. \A n \in DOMAIN c : c[n].path # key
    <3> SUFFICES ASSUME NEW n \in DOMAIN c, c[n].path = key PROVE FALSE
      OBVIOUS
    <3>1. key \in D /\ IsPrefix(key, key)
      BY <1>1, PrefixOrder
    <3>2. IsPrefix(key, p)
      BY <2>1, <3>1
    <3> QED
      BY <1>3, <2>1, <3>2, PrefixOrder
  <2>3. \A n \in DOMAIN c : RewriteHits(c, n, key) <=> RewriteCovers(c, n, p)
    <3> TAKE n \in DOMAIN c
    <3>1. c[n].path # key /\ c[n].path \in D /\ c[n].path \in Words
      BY <1>1, <2>2
    <3>2. IsPrefix(c[n].path, key) <=> IsPrefix(c[n].path, p)
      BY <2>1, <3>1, PrefixOrder
    <3> QED
      BY <3>1, <3>2 DEF RewriteHits, RewriteCovers
  <2> QED
    BY <2>3 DEF Hitting, Covered
<1> QED
  <2>1. (\A q \in D : ~IsPrefix(q, key)) => Hitting(c, key) = {}
    BY <1>1, <1>2 DEF Hitting
  <2> QED
    BY <1>3, <2>1

LEMMA PathsMatched ==
    ASSUME NEW c, RewriteConf(c), NEW E, RewriteEntries(c, E, DOMAIN c), NEW key \in Words,
           NEW kept, kept = [p \in KeptIn(R!M!MergeEntries(FallbackHost, E)) |->
                                R!M!MergeEntries(FallbackHost, E)[p]]
    PROVE  \/ IsRewriteResult(c, BestMatch(kept, key), key)
           \/ BestMatch(kept, key) = None /\ Hitting(c, key) = {}
<1> DEFINE values == R!M!MergeEntries(FallbackHost, E)
           D == DOMAIN E
<1>1. /\ DOMAIN values = D
      /\ \A p \in D : /\ values[p].exact = R!M!MergeExact(FallbackHost, p, E[p])
                      /\ values[p].prefix = R!M!MergePrefix(FallbackHost, p, E[p])
    BY DEF R!M!MergeEntries
<1>2. /\ D = {c[n].path : n \in DOMAIN c} /\ \A p \in D : RewriteEntry(c, E[p], DOMAIN c, p)
    BY DEF RewriteEntries
<1>3. D \in SUBSET Words
    BY <1>2, RewriteShape
<1> HIDE DEF values
<1>4. \A p \in D : /\ RewriteList(c, values[p].exact, Hitting(c, p))
                   /\ RewriteList(c, values[p].prefix, Covered(c, p))
                   /\ values[p].exact # None /\ values[p].prefix # None
  <2> TAKE p \in D
  <2> DEFINE l == E[p]
  <2>1. RewriteEntry(c, l, DOMAIN c, p)
    BY <1>2
  <2>2. values[p].exact = R!M!MergeExact(FallbackHost, p, l) /\ values[p].prefix = R!M!MergePrefix(FallbackHost, p, l)
    BY <1>1
  <2> HIDE DEF l
  <2>3. /\ RewriteList(c, R!M!MergeExact(FallbackHost, p, l), Hitting(c, p))
        /\ RewriteList(c, R!M!MergePrefix(FallbackHost, p, l), Covered(c, p))
    BY <2>1, PathResults
  <2>4. RewriteList(c, values[p].exact, Hitting(c, p)) /\ RewriteList(c, values[p].prefix, Covered(c, p))
    BY <2>2, <2>3
  <2>5. values[p].exact # None /\ values[p].prefix # None
    BY <2>4, ListIsSome
  <2> QED
    BY <2>4, <2>5
<1>5. /\ DOMAIN kept = KeptIn(values) /\ \A p \in KeptIn(values) : kept[p] = values[p]
      /\ KeptIn(values) \subseteq D
    BY <1>1 DEF values, KeptIn
<1> DEFINE above == {k \in DOMAIN kept : IsPrefix(k, key) /\ kept[k].prefix # None}
<1>6. /\ BestMatch(kept, key) = IF key \in DOMAIN kept THEN kept[key].exact
                                ELSE IF above = {} THEN None ELSE kept[Closest(above)].prefix
    BY DEF BestMatch, Inherited
<1>7. \A k : k \in above <=> k \in KeptIn(values) /\ IsPrefix(k, key)
    BY <1>4, <1>5
<1> HIDE DEF above, D
<1>8. ASSUME \A q \in D : ~IsPrefix(q, key)
      PROVE  BestMatch(kept, key) = None /\ Hitting(c, key) = {}
  <2>1. key \notin D
    BY <1>8, PrefixOrder
  <2>2. above = {}
    BY <1>5, <1>7, <1>8
  <2>3. Hitting(c, key) = {}
    BY <1>2, <1>3, <1>8, HitsBelow
  <2> QED
    BY <1>5, <1>6, <2>1, <2>2, <2>3
<1>9. ASSUME \E q \in D : IsPrefix(q, key)
      PROVE  IsRewriteResult(c, BestMatch(kept, key), key)
  <2> DEFINE A == {q \in D : IsPrefix(q, key)}
  <2>1. PICK p \in D : Decides(D, p, key)
    <3>1. A \in SUBSET Words /\ A # {} /\ \A q \in A : IsPrefix(q, key)
      BY <1>3, <1>9
    <3> HIDE DEF A
    <3>2. PICK p \in A : \A q \in A : IsPrefix(q, p)
      BY <3>1, LongestPrefix
    <3>3. Decides(D, p, key) /\ p \in D
      BY <3>2 DEF Decides, A
    <3> QED
      BY <3>3
  <2>2. DOMAIN values \in SUBSET Words /\ p \in DOMAIN values
    BY <1>1, <1>3 DEF D
  <2>3. PICK k : Stands(values, p, k)
    BY <2>2, KeptStands
  <2>4. /\ k \in KeptIn(values) /\ IsPrefix(k, p) /\ values[k].prefix = values[p].prefix
        /\ k # p => p \notin KeptIn(values) /\ values[p].exact = values[p].prefix
        /\ \A x \in KeptIn(values) : IsPrefix(x, p) => IsPrefix(x, k)
    BY <2>3 DEF Stands
  <2>5. IsPrefix(p, key) /\ \A q \in D : IsPrefix(q, key) => IsPrefix(q, p)
    BY <2>1 DEF Decides
  <2>6. k \in Words /\ p \in Words /\ k \in D
    BY <1>3, <1>5, <2>4
  <2>7. CASE key \in DOMAIN kept
    <3>1. key \in D /\ kept[key].exact = values[key].exact
      BY <1>5, <2>7
    <3> QED
      BY <1>4, <1>6, <2>7, <3>1 DEF IsRewriteResult
  <2>8. CASE key \notin DOMAIN kept
    <3>1. k \in above
      BY <1>7, <2>4, <2>5, <2>6, PrefixOrder
    <3>2. \A x \in above : IsPrefix(x, k) /\ x \in Words /\ IsPrefix(x, key)
      BY <1>3, <1>5, <1>7, <2>4, <2>5
    <3>3. above \in SUBSET Words /\ above # {}
      BY <3>1, <3>2
    <3>4. Closest(above) \in above /\ \A x \in above : IsPrefix(x, Closest(above))
      BY <3>2, <3>3, ClosestOne
    <3>5. Closest(above) = k
      BY <2>6, <3>1, <3>2, <3>4, PrefixOrder
    <3>6. BestMatch(kept, key) = values[p].prefix
      BY <1>5, <1>6, <2>4, <2>8, <3>3, <3>5
    <3>7. CASE p # key
      <4>1. Hitting(c, key) = Covered(c, p)
        BY <1>2, <1>3, <2>1, <3>7, HitsBelow
      <4> QED
        BY <1>4, <3>6, <4>1 DEF IsRewriteResult
    <3>8. CASE p = key
      <4>1. k # p
        BY <1>5, <2>4, <2>8, <3>8
      <4>2. BestMatch(kept, key) = values[p].exact
        BY <2>4, <3>6, <4>1
      <4> QED
        BY <1>4, <3>8, <4>2 DEF IsRewriteResult
    <3> QED
      BY <3>7, <3>8
  <2> QED
    BY <2>7, <2>8
<1> QED
  <2>1. CASE \E q \in D : IsPrefix(q, key)
    BY <1>9, <2>1
  <2>2. CASE \A q \in D : ~IsPrefix(q, key)
    BY <1>8, <2>2
  <2> QED
    BY <2>1, <2>2

LEMMA RulesFound ==
    ASSUME NEW c, RewriteConf(c), NEW M, RewriteHosts(c, M, DOMAIN c), NEW key \in Words
    PROVE  LET found == R!LookupRoute(R!M!Merge(M), FallbackHost, key)
           IN  RewriteList(c, IF found = None THEN <<>> ELSE found, Hitting(c, key))
<1> DEFINE r == R!M!Merge(M)
           found == R!LookupRoute(r, FallbackHost, key)
           nobody == Hitting(c, key) = {}
<1>1. found = BestMatch(RulesOf(r, FallbackHost), key)
    BY SameLookup
<1> HIDE DEF r, found
<1>2. IsRewriteResult(c, found, key) \/ (found = None /\ nobody)
  <2>1. CASE DOMAIN c = {}
    <3>1. M = R!M!NoHosts
      BY <2>1 DEF RewriteHosts
    <3>2. DOMAIN r = {}
      BY <3>1 DEF r, R!M!Merge, R!M!NoHosts
    <3>3. RulesOf(r, FallbackHost) = <<>>
      BY <3>2 DEF RulesOf
    <3>4. found = None
      BY <1>1, <3>3, NoEntries
    <3> QED
      BY <2>1, <3>4 DEF Hitting
  <2>2. CASE DOMAIN c # {}
    <3> DEFINE E == M[FallbackHost]
               kept == r[FallbackHost]
    <3>1. FallbackHost \in DOMAIN M /\ RewriteEntries(c, E, DOMAIN c)
      BY <2>2 DEF RewriteHosts
    <3>2. /\ DOMAIN r = DOMAIN M
          /\ kept = [p \in KeptIn(R!M!MergeEntries(FallbackHost, E)) |->
                        R!M!MergeEntries(FallbackHost, E)[p]]
      BY <3>1, PathsMerged DEF r
    <3>3. RulesOf(r, FallbackHost) = kept
      BY <3>1, <3>2 DEF RulesOf
    <3> HIDE DEF E, kept
    <3>4. \/ IsRewriteResult(c, BestMatch(kept, key), key)
          \/ BestMatch(kept, key) = None /\ Hitting(c, key) = {}
      BY <3>1, <3>2, PathsMatched
    <3> QED
      BY <1>1, <3>3, <3>4
  <2> QED
    BY <2>1, <2>2
<1>3. CASE IsRewriteResult(c, found, key)
    BY <1>3 DEF IsRewriteResult, found, r
<1>4. CASE found = None /\ nobody
  <2>1. RewriteList(c, <<>>, {})
    BY EmptyList DEF RewriteList, RulesInOrder
  <2> QED
    BY <1>4, <2>1 DEF found, r
<1> QED
    BY <1>2, <1>3, <1>4

-----------------------------------------------------------------------------
(* Going through the rules.                                                *)

LEMMA TailList ==
    ASSUME NEW c, RewriteConf(c), NEW l \in Seq(DOMAIN c), l # <<>>, RulesInOrder(c, l)
    PROVE  /\ Head(l) \in DOMAIN c /\ Head(l) \in Range(l)
           /\ Tail(l) \in Seq(DOMAIN c) /\ RulesInOrder(c, Tail(l))
           /\ Range(Tail(l)) = Range(l) \ {Head(l)}
           /\ \A y \in Range(Tail(l)) : LaterRule(c, Head(l), y)
<1> DEFINE N == Len(l)
           n == Head(l)
           t == Tail(l)
<1>1. N \in Nat /\ N > 0 /\ DOMAIN l = 1 .. N /\ \A i \in 1 .. N : l[i] \in DOMAIN c
    OBVIOUS
<1>2. n = l[1] /\ t \in Seq(DOMAIN c) /\ DOMAIN t = 1 .. N - 1 /\ \A i \in 1 .. N - 1 : t[i] = l[i + 1]
    OBVIOUS
<1> HIDE DEF N, n, t
<1>3. n \in DOMAIN c /\ n \in Range(l)
    BY <1>1, <1>2 DEF Range
<1>4. ASSUME NEW y, y \in Range(t)
      PROVE  y \in Range(l) /\ Ahead(l, n, y)
  <2>1. PICK i \in 1 .. N - 1 : t[i] = y
    BY <1>2, <1>4 DEF Range
  <2>2. 1 \in DOMAIN l /\ i + 1 \in DOMAIN l /\ 1 < i + 1 /\ l[i + 1] = y
    BY <1>1, <1>2, <2>1
  <2> QED
    BY <1>2, <2>2 DEF Ahead, Range
<1>5. \A y \in Range(t) : LaterRule(c, n, y)
    BY <1>4 DEF RulesInOrder
<1>6. n \notin Range(t)
    BY <1>3, <1>5, LaterIsOther
<1>7. ASSUME NEW y, y \in Range(l), y # n
      PROVE  y \in Range(t)
  <2>1. PICK i \in 1 .. N : l[i] = y
    BY <1>1, <1>7 DEF Range
  <2>2. i # 1
    BY <1>2, <1>7, <2>1
  <2>3. i - 1 \in 1 .. N - 1 /\ (i - 1) + 1 = i
    BY <1>1, <2>2
  <2>4. t[i - 1] = y
    BY <1>2, <2>1, <2>3
  <2> QED
    BY <1>2, <2>3, <2>4 DEF Range
<1>8. Range(t) = Range(l) \ {n}
    BY <1>4, <1>6, <1>7
<1>9. ASSUME NEW x, NEW y, Ahead(t, x, y)
      PROVE  LaterRule(c, x, y)
  <2>1. PICK i \in 1 .. N - 1, j \in 1 .. N - 1 : i < j /\ t[i] = x /\ t[j] = y
    BY <1>2, <1>9 DEF Ahead
  <2>2. i + 1 \in DOMAIN l /\ j + 1 \in DOMAIN l /\ i + 1 < j + 1 /\ l[i + 1] = x /\ l[j + 1] = y
    BY <1>1, <1>2, <2>1
  <2>3. Ahead(l, x, y)
    BY <2>2 DEF Ahead
  <2> QED
    BY <2>3 DEF RulesInOrder
<1> QED
    BY <1>2, <1>3, <1>5, <1>8, <1>9 DEF RulesInOrder, n, t

LEMMA FrontList ==
    ASSUME NEW S, NEW l \in Seq(S), l # <<>>
    PROVE  LET front == SubSeq(l, 1, Len(l) - 1)
           IN  /\ front \in Seq(S) /\ l[Len(l)] \in Range(l)
               /\ \A x : x \in Range(l) <=> x \in Range(front) \/ x = l[Len(l)]
               /\ \A x, y : Ahead(front, x, y) => Ahead(l, x, y)
               /\ \A x \in Range(l) : x = l[Len(l)] \/ Ahead(l, x, l[Len(l)])
<1> DEFINE N == Len(l)
           k == SubSeq(l, 1, Len(l) - 1)
           last == l[Len(l)]
<1>1. N \in Nat /\ N > 0 /\ DOMAIN l = 1 .. N /\ last = l[N]
    OBVIOUS
<1>2. k \in Seq(S) /\ DOMAIN k = 1 .. N - 1 /\ \A i \in 1 .. N - 1 : k[i] = l[i]
    OBVIOUS
<1> HIDE DEF N, k, last
<1>3. \A x : x \in Range(l) <=> \E i \in 1 .. N : l[i] = x
    BY <1>1 DEF Range
<1>4. \A x : x \in Range(k) <=> \E i \in 1 .. N - 1 : l[i] = x
    BY <1>2 DEF Range
<1>5. \A i : i \in 1 .. N <=> i \in 1 .. N - 1 \/ i = N
    BY <1>1
<1>6. \A x : x \in Range(l) <=> x \in Range(k) \/ x = last
    BY <1>1, <1>3, <1>4, <1>5
<1>7. \A x, y : Ahead(k, x, y) => Ahead(l, x, y)
  <2> SUFFICES ASSUME NEW x, NEW y, Ahead(k, x, y) PROVE Ahead(l, x, y)
    OBVIOUS
  <2>1. PICK i \in 1 .. N - 1, j \in 1 .. N - 1 : i < j /\ k[i] = x /\ k[j] = y
    BY <1>2 DEF Ahead
  <2>2. i \in DOMAIN l /\ j \in DOMAIN l /\ l[i] = x /\ l[j] = y
    BY <1>1, <1>2, <2>1
  <2> QED
    BY <2>1, <2>2 DEF Ahead
<1>8. \A x \in Range(l) : x = last \/ Ahead(l, x, last)
  <2> TAKE x \in Range(l)
  <2>1. PICK i \in 1 .. N : l[i] = x
    BY <1>3
  <2>2. CASE i = N
    BY <1>1, <2>1, <2>2
  <2>3. CASE i # N
    <3>1. i \in DOMAIN l /\ N \in DOMAIN l /\ i < N
      BY <1>1, <2>3
    <3> QED
      BY <1>1, <2>1, <3>1 DEF Ahead
  <2> QED
    BY <2>2, <2>3
<1>9. last \in Range(l)
    BY <1>6
<1> QED
    BY <1>2, <1>6, <1>7, <1>8, <1>9 DEF k, last

(* The documented precedence.                                              *)
LEMMA LaterPrecedes ==
    ASSUME RewriteConf(rewrites), NEW key \in Words,
           NEW n \in Hitting(rewrites, key), NEW m \in Hitting(rewrites, key),
           m = n \/ LaterRule(rewrites, m, n)
    PROVE  R!Precedes(n, m)
<1> DEFINE c == rewrites
           p == c[n].path
           q == c[m].path
           F(x) == RewriteFrom(c, x)
<1>1. n \in DOMAIN c /\ m \in DOMAIN c /\ RewriteHits(c, n, key) /\ RewriteHits(c, m, key)
    BY DEF Hitting
<1>2. DOMAIN c \subseteq Nat /\ n \in Nat /\ m \in Nat
    BY <1>1, RewriteShape
<1>3. p \in Words /\ q \in Words /\ c[n].exact \in BOOLEAN /\ c[m].exact \in BOOLEAN
    BY <1>1, RewriteShape
<1>4. IsPrefix(p, key) /\ IsPrefix(q, key)
    BY <1>1, <1>3, PrefixOrder DEF RewriteHits, RewriteCovers
<1>5. \A x : R!From(x) = F(x)
    BY DEF R!From, RewriteFrom
<1>6. R!Precedes(n, m) <=> \/ Len(p) > Len(q)
                           \/ p = q /\ c[n].exact /\ ~c[m].exact
                           \/ F(n) = F(m) /\ n <= m
    BY <1>5 DEF R!Precedes
<1>7. F(n).path = p /\ F(m).path = q /\ F(n).exact = c[n].exact /\ F(m).exact = c[m].exact
    BY <1>1, RewriteShape
<1> HIDE DEF c, p, q, F
<1>8. CASE m = n
    BY <1>2, <1>6, <1>8
<1>9. CASE F(m) = F(n) /\ n < m
    BY <1>2, <1>6, <1>9
<1>10. CASE R!MatcherBefore(F(m), F(n))
  <2>1. PathBefore(q, p) \/ (q = p /\ ~c[m].exact /\ c[n].exact)
    BY <1>7, <1>10, RewriteOperators
  <2>2. CASE PathBefore(q, p)
    <3>1. q # p
      BY <1>3, <2>2, PathOrder
    <3>2. ~IsPrefix(p, q)
      <4> SUFFICES ASSUME IsPrefix(p, q) PROVE FALSE
        OBVIOUS
      <4>1. PathBefore(p, q)
        BY <1>3, <3>1, PathOrder
      <4> QED
        BY <1>3, <2>2, <4>1, PathOrder
    <3>3. IsPrefix(q, p)
      BY <1>3, <1>4, <3>2, PrefixOrder
    <3>4. Len(q) <= Len(p) /\ Len(q) # Len(p) /\ Len(q) \in Nat /\ Len(p) \in Nat
      BY <1>3, <3>1, <3>3, PrefixFacts
    <3>5. Len(p) > Len(q)
      BY <3>4
    <3> QED
      BY <1>6, <3>5
  <2> QED
    BY <1>6, <2>1, <2>2
<1>11. m = n \/ (F(m) = F(n) /\ n < m) \/ R!MatcherBefore(F(m), F(n))
    BY DEF LaterRule, c, F
<1> QED
    BY <1>8, <1>9, <1>10, <1>11

-----------------------------------------------------------------------------
(* The invariant of the rewrite rules.                                     *)

Pushed == DOMAIN rewrites \ Range(todo)

(* The rules pushed so far come before all others.                         *)
RewriteBuild ==
    /\ RewriteConf(rewrites)
    /\ IF todo = None THEN hosts = R!M!NoHosts /\ rewriteRouter = None
       ELSE /\ todo \in Seq(DOMAIN rewrites) /\ RulesInOrder(rewrites, todo)
            /\ RewriteHosts(rewrites, hosts, Pushed)
            /\ \A x \in Pushed : \A y \in Range(todo) : LaterRule(rewrites, x, y)
    /\ rewriteRouter # None =>
           \E M : RewriteHosts(rewrites, M, DOMAIN rewrites) /\ rewriteRouter = R!M!Merge(M)

Fitting == matching \intersect Hitting(rewrites, Segments(path))
Preferred == \A m \in Fitting : R!Precedes(applied, m)

(* No rule that matches has been passed over; the one applied is the last  *)
(* of the list.                                                            *)
RewriteSearch ==
    IF path = None THEN list = <<>> /\ applied = None /\ outcome = None
    ELSE /\ path \in AbsolutePaths /\ matching \subseteq DOMAIN rewrites
         /\ list \in Seq(DOMAIN rewrites)
         /\ RulesInOrder(rewrites, list) /\ Range(list) \subseteq Hitting(rewrites, Segments(path))
         /\ \/ /\ applied = None /\ Fitting \subseteq Range(list)
               /\ outcome # None => Fitting = {}
            \/ list # <<>> /\ applied = list[Len(list)] /\ applied \in Fitting /\ Preferred

LEMMA RewriteStarts == ServedInit => RewriteBuild /\ RewriteSearch
<1> SUFFICES ASSUME ServedInit PROVE RewriteBuild /\ RewriteSearch
    OBVIOUS
<1>1. /\ rewrites \in RewriteConfigurations /\ todo = None /\ hosts = R!M!NoHosts
      /\ rewriteRouter = None /\ path = None /\ list = <<>> /\ applied = None /\ outcome = None
    BY DEF ServedInit, R!Init
<1>2. RewriteConf(rewrites)
    BY <1>1, RewriteRulesAssumption DEF RewriteConf
<1> QED
    BY <1>1, <1>2 DEF RewriteBuild, RewriteSearch

LEMMA SortRulesState ==
    ASSUME RewriteBuild, R!SortRules
    PROVE  RewriteBuild'
<1> DEFINE c == rewrites
           v == R!M!Join([n \in DOMAIN c |-> R!Numbered((Len(c) + 1) - n)])
           w == R!M!Join([n \in DOMAIN c |-> RewriteNumber(c, (Len(c) + 1) - n)])
<1>1. /\ todo = None /\ todo' = v /\ RewriteConf(c) /\ hosts = R!M!NoHosts /\ rewriteRouter = None
      /\ rewrites' = rewrites /\ hosts' = hosts /\ rewriteRouter' = rewriteRouter
    BY DEF R!SortRules, RewriteBuild
<1>2. v = w
    BY DEF R!Numbered, R!From, RewriteNumber, RewriteFrom
<1>3. RewriteList(c, w, DOMAIN c)
    BY <1>1, RulesSorted
<1> HIDE DEF v, w, c
<1>4. /\ v \in Seq(DOMAIN c) /\ Range(v) = DOMAIN c /\ RulesInOrder(c, v) /\ v # None
    BY <1>1, <1>2, <1>3, ListIsSome DEF RewriteList
<1>5. Pushed' = {}
    BY <1>1, <1>4 DEF Pushed, c
<1>6. RewriteHosts(c, R!M!NoHosts, {})
    BY DEF RewriteHosts
<1> QED
    BY <1>1, <1>4, <1>5, <1>6 DEF RewriteBuild, c

LEMMA PushRewriteState ==
    ASSUME RewriteBuild, R!PushRule
    PROVE  RewriteBuild'
<1> DEFINE c == rewrites
           n == Head(todo)
           P == Pushed
           K == R!M!Push(hosts, RewriteFrom(c, n), <<n>>)
           l == todo
<1>1. /\ todo # None /\ todo # <<>> /\ RewriteConf(c) /\ rewriteRouter = None
      /\ todo \in Seq(DOMAIN c) /\ RulesInOrder(c, todo)
      /\ RewriteHosts(c, hosts, P)
      /\ \A x \in P : \A y \in Range(todo) : LaterRule(c, x, y)
      /\ todo' = Tail(todo) /\ rewrites' = rewrites /\ rewriteRouter' = rewriteRouter
    BY DEF R!PushRule, RewriteBuild
<1>2. hosts' = K
    BY DEF R!PushRule, R!From, RewriteFrom
<1>3. /\ n \in DOMAIN c /\ n \in Range(l)
      /\ Tail(l) \in Seq(DOMAIN c) /\ RulesInOrder(c, Tail(l))
      /\ Range(Tail(l)) = Range(l) \ {n}
      /\ \A y \in Range(Tail(l)) : LaterRule(c, n, y)
  <2>1. RewriteConf(c) /\ l \in Seq(DOMAIN c) /\ l # <<>> /\ RulesInOrder(c, l)
    BY <1>1
  <2> HIDE DEF c
  <2> QED
    BY <2>1, TailList
<1>4. P \in SUBSET DOMAIN c /\ \A x \in P : LaterRule(c, x, n)
    BY <1>1, <1>3 DEF Pushed
<1>5. RewriteHosts(c, K, P \union {n})
  <2>1. RewriteConf(c) /\ P \in SUBSET DOMAIN c /\ RewriteHosts(c, hosts, P) /\ n \in DOMAIN c
        /\ \A x \in P : LaterRule(c, x, n)
    BY <1>1, <1>3, <1>4
  <2> HIDE DEF c, P, n
  <2> QED
    BY <2>1, RewritePushed
<1> DEFINE t == Tail(l)
<1>6. t \in Seq(DOMAIN c) /\ RulesInOrder(c, t) /\ t # None
  <2>1. t \in Seq(Nat)
    BY <1>1, <1>3, RewriteShape
  <2> QED
    BY <1>3, <2>1, NonePathAssumption
<1>7. Pushed' = P \union {n}
  <2>1. Pushed' = DOMAIN c \ Range(t)
    BY <1>1 DEF Pushed
  <2>2. P = DOMAIN c \ Range(l)
    BY DEF Pushed
  <2> QED
    BY <1>3, <2>1, <2>2
<1>8. \A x \in P \union {n} : \A y \in Range(t) : LaterRule(c, x, y)
    BY <1>1, <1>3
<1>9. todo' = t /\ rewrites' = c /\ hosts' = K /\ rewriteRouter' = None
    BY <1>1, <1>2
<1> HIDE DEF t, c, P, K, n, l
<1>10. /\ RewriteHosts(rewrites', hosts', Pushed')
       /\ \A x \in Pushed' : \A y \in Range(todo') : LaterRule(rewrites', x, y)
    BY <1>5, <1>7, <1>8, <1>9
<1> QED
    BY <1>1, <1>6, <1>9, <1>10 DEF RewriteBuild

LEMMA BuildRewriteState ==
    ASSUME RewriteBuild, R!BuildRouter
    PROVE  RewriteBuild'
<1>1. /\ todo = <<>> /\ RewriteConf(rewrites) /\ UNCHANGED <<rewrites, todo, hosts>>
      /\ rewriteRouter' = R!M!Merge(hosts)
    BY DEF R!BuildRouter, RewriteBuild
<1>2. todo # None
  <2>1. <<>> \in Seq(Nat)
    OBVIOUS
  <2> QED
    BY <1>1, <2>1, NonePathAssumption
<1>3. Pushed = DOMAIN rewrites
    BY <1>1, EmptyList DEF Pushed
<1>4. /\ todo \in Seq(DOMAIN rewrites) /\ RulesInOrder(rewrites, todo)
      /\ RewriteHosts(rewrites, hosts, Pushed)
      /\ \A x \in Pushed : \A y \in Range(todo) : LaterRule(rewrites, x, y)
    BY <1>2 DEF RewriteBuild
<1>5. Pushed' = Pushed /\ rewrites' = rewrites /\ todo' = todo /\ hosts' = hosts
    BY <1>1 DEF Pushed
<1> QED
    BY <1>1, <1>2, <1>3, <1>4, <1>5 DEF RewriteBuild

LEMMA SameRewriteBuild ==
    ASSUME RewriteBuild, UNCHANGED <<rewrites, todo, hosts, rewriteRouter>>
    PROVE  RewriteBuild'
BY DEF RewriteBuild, Pushed

LEMMA SameRewriteSearch ==
    ASSUME RewriteSearch, UNCHANGED <<rewrites, path, matching, list, applied, outcome>>
    PROVE  RewriteSearch'
BY DEF RewriteSearch, Preferred, Fitting, R!Precedes, R!From

-----------------------------------------------------------------------------
(* The steps of a request.                                                 *)

LEMMA SameSegments ==
    ASSUME NEW p
    PROVE  R!Segments(p) = Segments(p)
BY DEF R!Segments, Segments, R!Empty, Empty

LEMMA AbsoluteIs ==
    ASSUME NEW p \in AbsolutePaths
    PROVE  p \in Words /\ Segments(p) \in Words /\ p # None
<1>1. p \in Words /\ p \in Seq(Nat)
    BY DEF AbsolutePaths, Words
<1> QED
    BY <1>1, SegmentsType, NonePathAssumption

LEMMA RequestFound ==
    ASSUME RewriteBuild, NEW p \in AbsolutePaths, NEW ms \in SUBSET DOMAIN rewrites,
           R!RequestFilter(p, ms)
    PROVE  RewriteSearch'
<1> DEFINE c == rewrites
           key == Segments(p)
           found == R!LookupRoute(rewriteRouter, FallbackHost, key)
           v == IF found = None THEN <<>> ELSE found
<1>1. /\ rewriteRouter # None /\ path' = p /\ matching' = ms /\ applied' = None
      /\ outcome' = None /\ rewrites' = c
    BY DEF R!RequestFilter, R!handler
<1>2. list' = v
    BY SameSegments DEF R!RequestFilter, R!FallbackHost, FallbackHost
<1>3. key \in Words /\ p # None
    BY AbsoluteIs
<1>4. PICK M : RewriteHosts(c, M, DOMAIN c) /\ rewriteRouter = R!M!Merge(M)
    BY <1>1 DEF RewriteBuild
<1>5. RewriteConf(c)
    BY DEF RewriteBuild
<1> DEFINE again == R!LookupRoute(R!M!Merge(M), FallbackHost, key)
<1> HIDE DEF key
<1>6. RewriteList(c, IF again = None THEN <<>> ELSE again, Hitting(c, key))
    BY <1>3, <1>4, <1>5, RulesFound
<1>7. RewriteList(c, v, Hitting(c, key))
    BY <1>4, <1>6
<1> HIDE DEF v, found, again
<1>8. v \in Seq(DOMAIN c) /\ Range(v) = Hitting(c, key) /\ RulesInOrder(c, v)
    BY <1>7 DEF RewriteList
<1>9. Fitting' = ms \intersect Hitting(c, key)
    BY <1>1 DEF Fitting, key
<1>10. /\ path' # None /\ path' \in AbsolutePaths /\ matching' \subseteq DOMAIN rewrites' /\ list' \in Seq(DOMAIN rewrites')
       /\ RulesInOrder(rewrites', list') /\ Range(list') \subseteq Hitting(rewrites', Segments(path'))
       /\ applied' = None /\ Fitting' \subseteq Range(list') /\ outcome' = None
    BY <1>1, <1>2, <1>3, <1>8, <1>9 DEF key
<1> QED
    BY <1>10 DEF RewriteSearch

LEMMA PathAsked ==
    ASSUME RewriteSearch, list # <<>> \/ path # None
    PROVE  /\ path # None /\ path \in AbsolutePaths /\ matching \subseteq DOMAIN rewrites
           /\ list \in Seq(DOMAIN rewrites)
           /\ RulesInOrder(rewrites, list) /\ Range(list) \subseteq Hitting(rewrites, Segments(path))
           /\ \/ /\ applied = None /\ Fitting \subseteq Range(list)
                 /\ outcome # None => Fitting = {}
              \/ list # <<>> /\ applied = list[Len(list)] /\ applied \in Fitting /\ Preferred
BY DEF RewriteSearch

LEMMA NoRuleState ==
    ASSUME RewriteSearch, R!NoRule
    PROVE  RewriteSearch'
<1>1. path # None /\ list = <<>> /\ UNCHANGED <<rewrites, path, matching, list, applied>>
    BY DEF R!NoRule, R!handler
<1>2. applied = None /\ Fitting \subseteq {}
    BY <1>1, PathAsked, EmptyList
<1>3. Fitting' = Fitting
    BY <1>1 DEF Fitting
<1>4. /\ path' # None /\ path' \in AbsolutePaths /\ matching' \subseteq DOMAIN rewrites' /\ list' \in Seq(DOMAIN rewrites')
      /\ RulesInOrder(rewrites', list') /\ Range(list') \subseteq Hitting(rewrites', Segments(path'))
    BY <1>1, PathAsked
<1> QED
    BY <1>1, <1>2, <1>3, <1>4 DEF RewriteSearch

LEMMA SkipRuleState ==
    ASSUME RewriteSearch, R!SkipRule
    PROVE  RewriteSearch'
<1> DEFINE l == list
           c == rewrites
           front == SubSeq(l, 1, Len(l) - 1)
           S == DOMAIN c
           key == Segments(path)
<1>1. /\ outcome = None /\ l # <<>> /\ l[Len(l)] \notin matching /\ list' = front
      /\ UNCHANGED <<rewrites, path, matching, applied, outcome>>
    BY DEF R!SkipRule, R!handler
<1>2. /\ path # None /\ path \in AbsolutePaths /\ matching \subseteq S /\ l \in Seq(S)
      /\ RulesInOrder(c, l) /\ Range(l) \subseteq Hitting(c, key)
    BY <1>1, PathAsked
<1>3. applied = None /\ Fitting \subseteq Range(l)
  <2>1. \A m \in Fitting : m \in matching
    BY DEF Fitting
  <2> QED
    BY <1>1, <2>1, PathAsked
<1> HIDE DEF S
<1>4. /\ front \in Seq(S)
      /\ \A x : x \in Range(l) <=> x \in Range(front) \/ x = l[Len(l)]
      /\ \A x, y : Ahead(front, x, y) => Ahead(l, x, y)
    BY <1>1, <1>2, FrontList
<1> HIDE DEF front
<1>5. RulesInOrder(c, front) /\ Range(front) \subseteq Hitting(c, key)
    BY <1>2, <1>4 DEF RulesInOrder
<1>6. Fitting' = Fitting /\ Fitting \subseteq Range(front)
    BY <1>1, <1>3, <1>4 DEF Fitting
<1>7. /\ path' # None /\ path' \in AbsolutePaths /\ matching' \subseteq DOMAIN rewrites' /\ list' \in Seq(DOMAIN rewrites')
      /\ RulesInOrder(rewrites', list') /\ Range(list') \subseteq Hitting(rewrites', Segments(path'))
      /\ applied' = None /\ Fitting' \subseteq Range(list') /\ outcome' = None
    BY <1>1, <1>2, <1>3, <1>4, <1>5, <1>6 DEF S
<1> QED
    BY <1>7 DEF RewriteSearch

LEMMA PreferredNow ==
    ASSUME \A m \in Fitting : R!Precedes(applied', m), UNCHANGED <<rewrites, path, matching>>
    PROVE  Preferred'
BY DEF Preferred, Fitting, R!Precedes, R!From

LEMMA ApplyRuleState ==
    ASSUME RewriteBuild, RewriteSearch, R!ApplyRule
    PROVE  RewriteSearch'
<1> DEFINE l == list
           c == rewrites
           S == DOMAIN c
           n == l[Len(l)]
           key == Segments(path)
<1>1. /\ l # <<>> /\ n \in matching /\ applied' = n
      /\ UNCHANGED <<rewrites, path, matching, list>>
    BY DEF R!ApplyRule, R!handler
<1>2. /\ path # None /\ path \in AbsolutePaths /\ matching \subseteq S /\ l \in Seq(S)
      /\ RulesInOrder(c, l) /\ Range(l) \subseteq Hitting(c, key)
    BY <1>1, PathAsked
<1>3. key \in Words /\ RewriteConf(c)
    BY <1>2, AbsoluteIs DEF RewriteBuild
<1>4. /\ n \in Range(l)
      /\ \A x \in Range(l) : x = n \/ Ahead(l, x, n)
    BY <1>1, <1>2, FrontList
<1>5. n \in Hitting(c, key) /\ n \in Fitting
    BY <1>1, <1>2, <1>4 DEF Fitting
<1>6. \A m \in Fitting : R!Precedes(n, m)
  <2>1. CASE Preferred /\ applied = n
    BY <2>1 DEF Preferred
  <2>2. CASE Fitting \subseteq Range(l)
    <3> TAKE m \in Fitting
    <3>1. m \in Hitting(c, key) /\ (m = n \/ LaterRule(c, m, n))
      BY <1>2, <1>4, <2>2 DEF RulesInOrder
    <3> HIDE DEF n, key
    <3> QED
      BY <1>3, <1>5, <3>1, LaterPrecedes
  <2> QED
    BY <1>1, <2>1, <2>2, PathAsked
<1>7. Fitting' = Fitting
    BY <1>1 DEF Fitting
<1>8. Preferred'
    BY <1>1, <1>6, PreferredNow
<1>9. /\ path' # None /\ path' \in AbsolutePaths /\ matching' \subseteq DOMAIN rewrites' /\ list' \in Seq(DOMAIN rewrites')
      /\ RulesInOrder(rewrites', list') /\ Range(list') \subseteq Hitting(rewrites', Segments(path'))
      /\ list' # <<>> /\ applied' = list'[Len(list')] /\ applied' \in Fitting'
    BY <1>1, <1>2, <1>5, <1>7
<1> QED
    BY <1>8, <1>9 DEF RewriteSearch

-----------------------------------------------------------------------------
(* The theorem about rewrite rules.                                        *)

LEMMA RewriteStep ==
    ASSUME RewriteBuild, RewriteSearch, [ServedNext]_servedVars
    PROVE  RewriteBuild' /\ RewriteSearch'
<1>1. ASSUME UNCHANGED rewriting PROVE RewriteBuild' /\ RewriteSearch'
    BY <1>1, SameRewriteBuild, SameRewriteSearch DEF rewriting
<1>2. CASE CreateHeaders
    BY <1>1, <1>2 DEF CreateHeaders
<1>3. CASE CreateRewrite
  <2>1. R!SortRules \/ R!PushRule \/ R!BuildRouter
    BY <1>3 DEF CreateRewrite
  <2>2. UNCHANGED <<rewrites, path, matching, list, applied, outcome>>
    BY <2>1 DEF R!SortRules, R!PushRule, R!BuildRouter
  <2> QED
    BY <2>1, <2>2, SortRulesState, PushRewriteState, BuildRewriteState, SameRewriteSearch
<1>4. CASE Rewrite
  <2>1. R!NoRule \/ R!SkipRule \/ R!ApplyRule
    BY <1>4 DEF Rewrite
  <2>2. UNCHANGED <<rewrites, todo, hosts, rewriteRouter>>
    BY <2>1 DEF R!NoRule, R!SkipRule, R!ApplyRule, R!handler
  <2> QED
    BY <2>1, <2>2, NoRuleState, SkipRuleState, ApplyRuleState, SameRewriteBuild
<1>5. CASE \E host \in RequestHosts, p \in RequestPaths, ms \in R!Matchings :
               FilterRequest(host, p, ms)
  <2>1. PICK host \in RequestHosts, p \in RequestPaths, ms \in R!Matchings :
               FilterRequest(host, p, ms)
    BY <1>5
  <2>2. R!RequestFilter(p, ms)
    BY <2>1 DEF FilterRequest
  <2>3. p \in AbsolutePaths /\ ms \in SUBSET DOMAIN rewrites
    BY RequestPathsAssumption DEF R!Matchings
  <2>4. UNCHANGED <<rewrites, todo, hosts, rewriteRouter>>
    BY <2>2 DEF R!RequestFilter, R!handler
  <2> QED
    BY <2>2, <2>3, <2>4, RequestFound, SameRewriteBuild
<1>6. CASE \E headersOfIt \in OwnHeaders : Respond(headersOfIt)
    BY <1>1, <1>6 DEF Respond
<1>7. CASE UNCHANGED servedVars
    BY <1>1, <1>7 DEF servedVars
<1> QED
    BY <1>2, <1>3, <1>4, <1>5, <1>6, <1>7 DEF ServedNext

LEMMA CandidatesFit ==
    ASSUME RewriteBuild, path \in AbsolutePaths, matching \subseteq DOMAIN rewrites
    PROVE  R!Candidates = Fitting
<1> DEFINE key == Segments(path)
<1>1. key \in Words /\ R!Segments(path) = key
    BY AbsoluteIs, SameSegments
<1>2. RewriteConf(rewrites)
    BY DEF RewriteBuild
<1> HIDE DEF key
<1>3. ASSUME NEW n \in matching
      PROVE  (IF rewrites[n].exact THEN rewrites[n].path = key
              ELSE R!IsPrefix(rewrites[n].path, key)) <=> RewriteHits(rewrites, n, key)
  <2>1. n \in DOMAIN rewrites
    OBVIOUS
  <2>2. rewrites[n].path \in Words /\ rewrites[n].exact \in BOOLEAN
    BY <1>2, <2>1, RewriteShape
  <2>3. R!IsPrefix(rewrites[n].path, key) <=> IsPrefix(rewrites[n].path, key)
    BY RewriteOperators
  <2>4. IsPrefix(key, key)
    BY <1>1, PrefixOrder
  <2> QED
    BY <2>2, <2>3, <2>4 DEF RewriteHits, RewriteCovers
<1>4. \A n : n \in R!Candidates <=>
          n \in matching /\ IF rewrites[n].exact THEN rewrites[n].path = key
                            ELSE R!IsPrefix(rewrites[n].path, key)
    BY <1>1 DEF R!Candidates
<1>5. \A n : n \in Fitting <=> n \in matching /\ RewriteHits(rewrites, n, key)
    BY DEF Fitting, Hitting, key
<1> QED
    BY <1>3, <1>4, <1>5

LEMMA SameRemoval ==
    ASSUME NEW prefix, NEW p
    PROVE  R!RemovePrefix(prefix, p) = RemovePrefix(prefix, p)
BY DEF R!RemovePrefix, RemovePrefix, R!RemoveSegment, RemoveSegment, R!SkipSeparators,
       SkipSeparators, R!Empty, Empty

LEMMA TailIs ==
    ASSUME RewriteBuild, path \in AbsolutePaths, applied \in Fitting
    PROVE  R!TailBelowRule
<1> DEFINE p == rewrites[applied].path
           t == RemovePrefix(p, path)
           tail == R!TailOf(applied)
<1>1. applied \in DOMAIN rewrites /\ RewriteHits(rewrites, applied, Segments(path))
    BY DEF Fitting, Hitting
<1>2. RewriteConf(rewrites)
    BY DEF RewriteBuild
<1>3. p \in Seq(Nat \ {Empty}) /\ p \in Words
    BY <1>1, <1>2, RewriteShape
<1>4. Segments(path) \in Words
    BY AbsoluteIs
<1>5. IsPrefix(p, Segments(path))
    BY <1>1, <1>3, <1>4, PrefixOrder DEF RewriteHits, RewriteCovers
<1>6. tail = IF t = None THEN path ELSE t
    BY SameRemoval DEF R!TailOf
<1> HIDE DEF p, t, tail
<1>7. tail \in AbsolutePaths /\ p \o Segments(tail) = Segments(path)
  <2>1. CASE p = <<>>
    <3>1. t = None
      BY <2>1 DEF t, RemovePrefix
    <3>2. <<>> \o Segments(path) = Segments(path)
      BY <1>4, ConcatFacts
    <3> QED
      BY <1>6, <2>1, <3>1, <3>2
  <2>2. CASE p # <<>>
    <3>1. t # None /\ t \in AbsolutePaths /\ p \o Segments(t) = Segments(path)
      BY <1>3, <1>5, <2>2, PrefixRemoved DEF t
    <3> QED
      BY <1>6, <3>1
  <2> QED
    BY <2>1, <2>2
<1>8. Len(tail) > 1 /\ Head(tail) = Empty
    BY <1>7 DEF AbsolutePaths
<1>9. R!Segments(tail) = Segments(tail) /\ R!Segments(path) = Segments(path) /\ R!Empty = Empty
    BY SameSegments DEF R!Empty, Empty
<1> QED
    BY <1>7, <1>8, <1>9 DEF R!TailBelowRule, p, tail

(* The rule applied to a request takes precedence over all others that     *)
(* match, none is left out, and the tail is what the rule's path leaves of *)
(* the requested one: whatever rules are configured, in whatever order,    *)
(* and whichever regular expressions match.                                *)
THEOREM RewritesAsDocumented == ServedSpec => []RewrittenAsDocumented
<1>1. ServedInit => RewriteBuild /\ RewriteSearch
    BY RewriteStarts
<1>2. RewriteBuild /\ RewriteSearch /\ [ServedNext]_servedVars => RewriteBuild' /\ RewriteSearch'
    BY RewriteStep
<1>3. RewriteBuild /\ RewriteSearch => RewrittenAsDocumented
  <2> SUFFICES ASSUME RewriteBuild, RewriteSearch
               PROVE  R!PrecedenceKept /\ R!TailBelowRule
    BY DEF RewrittenAsDocumented
  <2>1. CASE path = None
    BY <2>1 DEF RewriteSearch, R!PrecedenceKept, R!TailBelowRule
  <2>2. CASE path # None
    <3>1. /\ path \in AbsolutePaths /\ matching \subseteq DOMAIN rewrites
          /\ \/ applied = None /\ (outcome # None => Fitting = {})
             \/ applied \in Fitting /\ Preferred
      BY <2>2, PathAsked
    <3>2. R!Candidates = Fitting
      BY <3>1, CandidatesFit
    <3>3. R!PrecedenceKept
      BY <3>1, <3>2 DEF R!PrecedenceKept, Preferred
    <3>4. R!TailBelowRule
      <4>1. CASE applied = None
        BY <4>1 DEF R!TailBelowRule
      <4>2. CASE applied \in Fitting
        BY <3>1, <4>2, TailIs
      <4> QED
        BY <3>1, <4>1, <4>2
    <3> QED
      BY <3>3, <3>4
  <2> QED
    BY <2>1, <2>2
<1> QED
    BY <1>1, <1>2, <1>3, PTL DEF ServedSpec
===============================================================================
