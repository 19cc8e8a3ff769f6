------------------------------- MODULE TrieProof -------------------------------
(***************************************************************************)
(* Proofs about Trie, whatever the number, the values and the order of the *)
(* labels that are pushed: the builder's nodes depend on the set of these  *)
(* labels only, its counters are exact, and with the vectors and the       *)
(* lookup it is a routing table.                                           *)
(***************************************************************************)
EXTENDS Trie, SequenceLemmas, FiniteSetTheorems, FunctionTheorems

-----------------------------------------------------------------------------
(* The labels pushed, and the points where two of them part.               *)

Closure(S) == {<<>>} \union {CommonPath(p, q) : p, q \in S}

LEMMA ClosureFacts ==
    ASSUME NEW S \in SUBSET Words
    PROVE  S \subseteq Closure(S) /\ Closure(S) \subseteq Words /\ <<>> \in Closure(S)
<1>1. Closure(S) \subseteq Words
    BY CommonPrefix, PrefixFacts DEF Closure
<1>2. S \subseteq Closure(S)
  <2> SUFFICES ASSUME NEW s \in S PROVE s \in Closure(S)
    OBVIOUS
  <2>1. CommonPath(s, s) = s
    BY CommonPathFacts
  <2> QED
    BY <2>1 DEF Closure
<1> QED
    BY <1>1, <1>2 DEF Closure

(* Where two of these points part is one of them.                          *)
LEMMA ClosureClosed ==
    ASSUME NEW S \in SUBSET Words, NEW x \in Closure(S), NEW y \in Closure(S)
    PROVE  CommonPath(x, y) \in Closure(S)
<1>0. x \in Words /\ y \in Words /\ CommonPath(x, y) \in Words
    BY ClosureFacts, CommonPrefix
<1>1. CASE x = <<>> \/ y = <<>>
  <2>1. CommonPath(x, y) = <<>>
    BY <1>0, <1>1, CommonPathFacts, PrefixOrder
  <2> QED
    BY <2>1, ClosureFacts
<1>2. CASE x # <<>> /\ y # <<>>
  <2>1. PICK a \in S, b \in S : x = CommonPath(a, b)
    BY <1>2 DEF Closure
  <2>2. PICK c \in S, d \in S : y = CommonPath(c, d)
    BY <1>2 DEF Closure
  <2>3. a \in Words /\ c \in Words /\ IsPrefix(x, a) /\ IsPrefix(y, c)
    BY <2>1, <2>2, CommonPrefix
  <2> DEFINE w == CommonPath(x, y)
  <2>4. w \in Words /\ IsPrefix(w, x) /\ IsPrefix(w, y)
    BY <1>0, CommonPrefix
  <2>5. CommonPath(x, a) = x /\ CommonPath(y, c) = y /\ CommonPath(y, x) = w
    BY <1>0, <2>3, CommonPathFacts
  <2>6. CASE w # x /\ w # y
    <3>1. CommonPath(y, a) = w
      BY <1>0, <2>3, <2>4, <2>5, <2>6, Fork
    <3>2. CommonPath(a, y) = w
      BY <1>0, <2>3, <3>1, CommonPathFacts
    <3>3. CommonPath(a, c) = w
      BY <1>0, <2>3, <2>4, <2>5, <2>6, <3>2, Fork
    <3> QED
      BY <3>3 DEF Closure
  <2> QED
    BY <2>6
<1> QED
    BY <1>1, <1>2

-----------------------------------------------------------------------------
(***************************************************************************)
(* The invariant.  While a label is pushed, the node it has got to is      *)
(* where the label parts from one that was pushed before; unless it is one *)
(* of the others anyway, it was split off and has no child to go on with.  *)
(***************************************************************************)
Passed ==
    /\ label \in Keys /\ pair.exact # None
    /\ cur \in Words /\ IsPrefix(cur, label)
    /\ cur = <<>> \/ \E q \in Pushed : cur = CommonPath(q, label)
    /\ DOMAIN tree = Closure(Pushed) \union {cur}
    /\ cur \notin Closure(Pushed) => \A node \in DOMAIN tree : ~Match(node)

IInv ==
    /\ Pushed \subseteq Keys
    /\ IF op = "push" THEN Passed ELSE DOMAIN tree = Closure(Pushed)

LEMMA Labels ==
    ASSUME IInv
    PROVE  /\ Pushed \subseteq Words /\ Closure(Pushed) \subseteq Words
           /\ DOMAIN tree \subseteq Words
           /\ op = "push" => label \in Words /\ cur \in Words
<1>1. Keys \subseteq Words
    BY KeysAssumption DEF Words
<1>2. Pushed \subseteq Words /\ Closure(Pushed) \subseteq Words
    BY <1>1, ClosureFacts DEF IInv
<1>3. op = "push" => label \in Words /\ cur \in Words
    BY <1>1 DEF IInv, Passed
<1>4. DOMAIN tree \subseteq Words
  <2>1. CASE op = "push"
    <3>1. DOMAIN tree = Closure(Pushed) \union {cur}
      BY <2>1 DEF IInv, Passed
    <3> QED
      BY <1>2, <1>3, <2>1, <3>1
  <2>2. CASE op # "push"
    BY <1>2, <2>2 DEF IInv
  <2> QED
    BY <2>1, <2>2
<1> QED
    BY <1>2, <1>3, <1>4

(* What a child is that shares a segment with the label.                   *)
LEMMA Matching ==
    ASSUME IInv, op = "push", NEW node \in DOMAIN tree, Match(node)
    PROVE  /\ cur \in Words /\ label \in Words /\ node \in Words
           /\ cur \in Closure(Pushed) /\ DOMAIN tree = Closure(Pushed)
           /\ Common(node) = CommonPath(node, label) /\ Common(node) \in Words
           /\ IsPrefix(Common(node), node) /\ IsPrefix(Common(node), label)
           /\ IsPrefix(cur, Common(node)) /\ cur # Common(node)
           /\ IsPrefix(cur, node) /\ cur # node
           /\ \A m \in DOMAIN tree :
                 IsPrefix(cur, m) /\ cur # m => ~(IsPrefix(m, node) /\ m # node)
<1>1. Passed /\ cur \in Words /\ label \in Words /\ node \in Words
    BY Labels DEF IInv, Passed
<1>2. cur \in Closure(Pushed) /\ DOMAIN tree = Closure(Pushed)
    BY <1>1 DEF Passed
<1>3. Common(node) = CommonPath(node, label)
    BY DEF Common
<1>4. /\ Common(node) \in Words /\ IsPrefix(Common(node), node)
      /\ IsPrefix(Common(node), label)
    BY <1>1, <1>3, CommonPrefix
<1>5. /\ IsPrefix(cur, node) /\ cur # node
      /\ \A m \in DOMAIN tree :
            IsPrefix(cur, m) /\ cur # m => ~(IsPrefix(m, node) /\ m # node)
    BY DEF Match, Children, Below, IsStrictPrefix
<1>6. IsPrefix(cur, label)
    BY <1>1 DEF Passed
<1>7. IsPrefix(cur, Common(node))
    BY <1>1, <1>3, <1>5, <1>6, CommonPrefix
<1>8. Len(cur) < Len(Common(node))
    BY <1>1, <1>4, PrefixFacts DEF Match
<1> QED
    BY <1>1, <1>2, <1>3, <1>4, <1>5, <1>7, <1>8, PrefixFacts

LEMMA InitInv ==
    Init => IInv
<1> SUFFICES ASSUME Init PROVE IInv
    OBVIOUS
<1>1. op = "idle" /\ DOMAIN tree = {<<>>} /\ Pushed = {}
    BY DEF Init, Pushed, NoRule
<1>2. Closure({}) = {<<>>}
    BY DEF Closure
<1> QED
    BY <1>1, <1>2 DEF IInv

LEMMA PushInv ==
    ASSUME IInv, NEW key \in Keys, NEW e \in Values, NEW p,
           Push(key, [exact |-> e, prefix |-> p])
    PROVE  IInv'
<1>1. /\ op = "idle" /\ op' = "push" /\ label' = key /\ cur' = <<>> /\ tree' = tree
      /\ pair' = [exact |-> e, prefix |-> p]
    BY DEF Push
<1>2. Pushed' = Pushed
    BY <1>1 DEF Pushed
<1>3. DOMAIN tree = Closure(Pushed) /\ Pushed \subseteq Keys
    BY <1>1 DEF IInv
<1>4. <<>> \in Closure(Pushed)
    BY DEF Closure
<1>5. label' \in Words
    BY <1>1, KeysAssumption DEF Words
<1>6. Passed'
  <2>1. pair'.exact # None
    BY <1>1, NoneAssumption
  <2>2. cur' \in Words /\ IsPrefix(cur', label')
    BY <1>1, <1>5, PrefixOrder, PrefixFacts
  <2>3. DOMAIN tree' = Closure(Pushed') \union {cur'} /\ cur' \in Closure(Pushed')
    BY <1>1, <1>2, <1>3, <1>4
  <2> QED
    BY <1>1, <2>1, <2>2, <2>3 DEF Passed
<1> QED
    BY <1>1, <1>2, <1>3, <1>6 DEF IInv

LEMMA DescendInv ==
    ASSUME IInv, Descend
    PROVE  IInv'
<1>1. /\ op = "push" /\ op' = "push" /\ tree' = tree /\ label' = label /\ pair' = pair
    BY DEF Descend, builder
<1>2. PICK node \in DOMAIN tree : Match(node) /\ Common(node) = node /\ cur' = node
    BY DEF Descend
<1>3. Pushed' = Pushed
    BY <1>1 DEF Pushed
<1>4. Passed /\ Pushed \subseteq Keys /\ Pushed \subseteq Words
    BY <1>1, Labels DEF IInv
<1>5. /\ node \in Words /\ DOMAIN tree = Closure(Pushed) /\ label \in Words
      /\ CommonPath(node, label) = node /\ IsPrefix(node, label)
    BY <1>1, <1>2, Matching
<1>6. cur' = <<>> \/ \E q \in Pushed' : cur' = CommonPath(q, label')
  <2>1. CASE node # <<>>
    <3>1. PICK a \in Pushed, b \in Pushed : node = CommonPath(a, b)
      BY <1>5, <2>1 DEF Closure
    <3>2. CASE CommonPath(label, a) = node
      BY <1>1, <1>2, <1>3, <1>4, <1>5, <3>2, CommonPathFacts
    <3>3. CASE CommonPath(label, a) # node
      <4>1. a \in Words /\ b \in Words /\ IsPrefix(node, a) /\ IsPrefix(node, b)
        BY <1>4, <3>1, CommonPrefix
      <4> DEFINE c == CommonPath(a, label)
      <4>2. c \in Words /\ IsPrefix(node, c) /\ c # node /\ CommonPath(label, a) = c /\ CommonPath(a, label) = c
        BY <1>5, <3>3, <4>1, CommonPrefix, CommonPathFacts
      <4>3. CommonPath(b, a) = node
        BY <3>1, <4>1, CommonPathFacts
      <4>4. CommonPath(b, label) = node
        BY <1>5, <4>1, <4>2, <4>3, Fork
      <4> QED
        BY <1>1, <1>2, <1>3, <4>4
    <3> QED
      BY <3>2, <3>3
  <2> QED
    BY <1>2, <2>1
<1>7. Passed'
  <2>1. cur' \in Closure(Pushed') /\ DOMAIN tree' = Closure(Pushed') \union {cur'}
    BY <1>1, <1>2, <1>3, <1>5
  <2> QED
    BY <1>1, <1>2, <1>4, <1>5, <1>6, <2>1 DEF Passed
<1> QED
    BY <1>1, <1>3, <1>4, <1>7 DEF IInv

(* The node split off is not in the tree yet and has no child that shares  *)
(* another segment with the label.                                         *)
LEMMA SplitInv ==
    ASSUME IInv, Split
    PROVE  IInv'
<1>1. PICK node \in DOMAIN tree :
         /\ Match(node) /\ Common(node) # node
         /\ tree' = WithRule(Common(node), NoRule) /\ cur' = Common(node)
    BY DEF Split
<1> DEFINE c == Common(node)
<1>2. op = "push" /\ op' = "push" /\ label' = label /\ pair' = pair
    BY DEF Split
<1>3. Passed /\ Pushed \subseteq Keys /\ Pushed \subseteq Words
    BY <1>2, Labels DEF IInv
<1>4. /\ cur \in Words /\ label \in Words /\ node \in Words
      /\ cur \in Closure(Pushed) /\ DOMAIN tree = Closure(Pushed)
      /\ c = CommonPath(node, label) /\ c \in Words
      /\ IsPrefix(c, node) /\ IsPrefix(c, label)
      /\ IsPrefix(cur, c) /\ cur # c /\ IsPrefix(cur, node) /\ cur # node
    BY <1>1, <1>2, Matching
<1>5. \A m \in DOMAIN tree :
         IsPrefix(cur, m) /\ cur # m => ~(IsPrefix(m, node) /\ m # node)
    BY <1>1, <1>2, Matching
<1>6. c # node /\ tree' = WithRule(c, NoRule) /\ cur' = c
    BY <1>1
<1> HIDE DEF c
<1>7. c \notin DOMAIN tree
    BY <1>4, <1>5, <1>6
<1>8. DOMAIN tree' = DOMAIN tree \union {c}
    BY <1>6 DEF WithRule
<1>9. Pushed' = Pushed
    BY <1>6, <1>7 DEF Pushed, WithRule, NoRule
<1>10. \E q \in Pushed : c = CommonPath(q, label)
  <2>1. node # <<>>
    BY <1>4, PrefixFacts
  <2>2. PICK a \in Pushed, b \in Pushed : node = CommonPath(a, b)
    BY <1>4, <2>1 DEF Closure
  <2>3. a \in Words /\ IsPrefix(node, a)
    BY <1>3, <2>2, CommonPrefix
  <2>4. CommonPath(label, node) = c /\ CommonPath(node, a) = node
    BY <1>4, <2>3, CommonPathFacts
  <2>5. CommonPath(label, a) = c
    BY <1>4, <1>6, <2>3, <2>4, Fork
  <2> QED
    BY <1>4, <2>3, <2>5, CommonPathFacts
<1>11. ASSUME NEW m \in DOMAIN tree', IsPrefix(c, m), c # m
       PROVE  CommonPath(m, label) = c
  <2>1. m \in DOMAIN tree /\ m \in Words
    BY <1>8, <1>11, Labels
  <2> DEFINE y == CommonPath(label, m)
  <2>2. y \in Words /\ IsPrefix(c, y)
    BY <1>4, <1>11, <2>1, CommonPrefix
  <2>3. CASE y # c
    <3>1. CommonPath(node, m) = c
      BY <1>4, <2>1, <2>2, <2>3, Fork
    <3>2. c \in Closure(Pushed)
      BY <1>3, <1>4, <2>1, <3>1, ClosureClosed
    <3> QED
      BY <1>4, <1>7, <3>2
  <2> QED
    BY <1>4, <2>1, <2>3, CommonPathFacts
<1>12. \A m \in DOMAIN tree' : ~Match(m)'
  <2> SUFFICES ASSUME NEW m \in DOMAIN tree', Match(m)' PROVE FALSE
    OBVIOUS
  <2>1. IsPrefix(c, m) /\ c # m
    BY <1>6 DEF Match, Children, Below, IsStrictPrefix
  <2>2. Common(m)' = CommonPath(m, label)
    BY <1>2 DEF Common
  <2>3. Len(c) > Len(c)
    BY <1>6, <1>11, <2>1, <2>2 DEF Match
  <2> QED
    BY <1>4, <2>3, PrefixFacts
<1>13. Passed'
    BY <1>2, <1>3, <1>4, <1>6, <1>8, <1>9, <1>10, <1>12 DEF Passed
<1> QED
    BY <1>2, <1>3, <1>9, <1>13 DEF IInv

(* Without a child to go on with, the node got to is where the label parts *)
(* from all that was pushed below it.                                      *)
LEMMA NoChildLeft ==
    ASSUME IInv, op = "push", \A node \in DOMAIN tree : ~Match(node), NEW q \in Pushed
    PROVE  CommonPath(q, label) \in DOMAIN tree
<1>1. Passed /\ Pushed \subseteq Words /\ label \in Words /\ cur \in Words
    BY Labels DEF IInv
<1>2. /\ IsPrefix(cur, label) /\ cur \in DOMAIN tree /\ Closure(Pushed) \subseteq DOMAIN tree
      /\ DOMAIN tree \subseteq Words
      /\ cur = <<>> \/ \E r \in Pushed : cur = CommonPath(r, label)
    BY <1>1, Labels DEF Passed
<1>3. q \in DOMAIN tree /\ q \in Words
    BY <1>1, <1>2, ClosureFacts
<1>4. CommonPath(cur, label) = cur
    BY <1>1, <1>2, CommonPathFacts
<1>5. CASE IsPrefix(cur, q) /\ cur # q
  <2> DEFINE Between == {n \in DOMAIN tree : IsPrefix(cur, n) /\ cur # n /\ IsPrefix(n, q)}
             Lengths == {Len(n) : n \in Between}
  <2>1. q \in Between
    BY <1>3, <1>5, PrefixOrder
  <2>2. Lengths \in SUBSET Nat /\ Lengths # {}
    BY <1>2, <2>1, PrefixFacts
  <2>3. PICK l \in Lengths : \A k \in Lengths : ~(k < l)
    BY <2>2, LeastNumber
  <2>4. PICK n \in Between : l = Len(n)
    OBVIOUS
  <2>5. \A m \in Between : ~(Len(m) < Len(n))
    BY <2>3, <2>4
  <2>6. /\ n \in DOMAIN tree /\ n \in Words /\ IsPrefix(cur, n) /\ cur # n /\ IsPrefix(n, q)
    BY <1>2
  <2>7. n \in Children(cur)
    <3>1. n \in Below(cur)
      BY <2>6 DEF Below, IsStrictPrefix
    <3>2. ASSUME NEW m \in Below(cur), IsStrictPrefix(m, n)
          PROVE  FALSE
      <4>1. /\ m \in DOMAIN tree /\ m \in Words /\ IsPrefix(cur, m) /\ cur # m
            /\ IsPrefix(m, n) /\ m # n
        BY <1>2, <3>2 DEF Below, IsStrictPrefix
      <4>2. m \in Between
        BY <1>3, <2>6, <4>1, PrefixOrder
      <4>3. Len(m) <= Len(n) /\ Len(m) # Len(n)
        BY <2>6, <4>1, PrefixFacts
      <4>4. Len(m) < Len(n)
        BY <2>6, <4>1, <4>3, PrefixFacts
      <4> QED
        BY <2>5, <4>2, <4>4
    <3> QED
      BY <3>1, <3>2 DEF Children
  <2> HIDE DEF Between, Lengths
  <2>8. CommonPath(n, label) = cur
    <3> DEFINE w == CommonPath(n, label)
    <3>1. w \in Words /\ IsPrefix(cur, w)
      BY <1>1, <1>2, <2>6, CommonPrefix
    <3>2. ~(Len(w) > Len(cur))
      BY <2>6, <2>7 DEF Match, Common
    <3> HIDE DEF w
    <3>3. Len(cur) <= Len(w) /\ Len(w) \in Nat /\ Len(cur) \in Nat
      BY <1>1, <3>1, PrefixFacts
    <3>4. Len(cur) = Len(w)
      BY <3>2, <3>3
    <3>5. w = cur
      BY <1>1, <3>1, <3>4, PrefixFacts
    <3> QED
      BY <3>5 DEF w
  <2>9. CommonPath(label, n) = cur /\ CommonPath(n, q) = n
    BY <1>1, <1>3, <2>6, <2>8, CommonPathFacts
  <2>10. CommonPath(label, q) = cur
    BY <1>1, <1>3, <2>6, <2>9, Fork
  <2> QED
    BY <1>1, <1>2, <1>3, <2>10, CommonPathFacts
<1>6. CASE cur = q
    BY <1>2, <1>4, <1>6
<1>7. CASE ~IsPrefix(cur, q)
  <2>1. PICK r \in Pushed : cur = CommonPath(r, label)
    BY <1>2, <1>3, <1>7, PrefixOrder
  <2>2. r \in Words /\ IsPrefix(cur, r)
    BY <1>1, <2>1, CommonPrefix
  <2>3. CommonPath(cur, r) = cur
    BY <1>1, <2>2, CommonPathFacts
  <2> DEFINE w == CommonPath(q, cur)
  <2>4. w \in Words /\ IsPrefix(w, cur) /\ w # cur
    BY <1>1, <1>3, <1>7, CommonPrefix
  <2>5. CommonPath(q, label) = w
    BY <1>1, <1>3, <1>4, <2>4, Fork
  <2>6. CommonPath(q, r) = w
    BY <1>1, <1>3, <2>2, <2>3, <2>4, Fork
  <2>7. CommonPath(q, r) \in Closure(Pushed)
    BY DEF Closure
  <2> QED
    BY <1>2, <2>5, <2>6, <2>7
<1> QED
    BY <1>5, <1>6, <1>7

LEMMA StoreInv ==
    ASSUME IInv, Store
    PROVE  IInv'
<1>1. /\ op = "push" /\ op' = "idle" /\ tree' = WithRule(label, pair)
      /\ \A node \in DOMAIN tree : ~Match(node)
    BY DEF Store
<1>2. Passed /\ Pushed \subseteq Keys /\ Pushed \subseteq Words /\ label \in Words
    BY <1>1, Labels DEF IInv
<1>3. /\ label \in Keys /\ pair.exact # None /\ DOMAIN tree = Closure(Pushed) \union {cur}
      /\ cur = <<>> \/ \E q \in Pushed : cur = CommonPath(q, label)
    BY <1>2 DEF Passed
<1>4. DOMAIN tree' = DOMAIN tree \union {label} /\ Pushed' = Pushed \union {label}
    BY <1>1, <1>3 DEF WithRule, Pushed
<1> DEFINE S == Pushed \union {label}
<1>5. S \in SUBSET Words /\ CommonPath(label, label) = label
    BY <1>2, CommonPathFacts
<1>6. Closure(Pushed) \subseteq Closure(S) /\ label \in Closure(S) /\ cur \in Closure(S)
  <2>1. Closure(Pushed) \subseteq Closure(S)
    BY DEF Closure
  <2>2. label \in Closure(S)
    BY <1>5, ClosureFacts
  <2>3. cur \in Closure(S)
    BY <1>3 DEF Closure
  <2> QED
    BY <2>1, <2>2, <2>3
<1>7. ASSUME NEW x \in Closure(S)
      PROVE  x \in DOMAIN tree \union {label}
  <2>1. CASE x = <<>>
    BY <1>3, <2>1 DEF Closure
  <2>2. CASE x # <<>>
    <3>1. PICK p \in S, q \in S : x = CommonPath(p, q)
      BY <2>2 DEF Closure
    <3>2. CASE p \in Pushed /\ q \in Pushed
      BY <1>3, <3>1, <3>2 DEF Closure
    <3>3. CASE p \in Pushed /\ q = label
      BY <1>1, <3>1, <3>3, NoChildLeft
    <3>4. CASE p = label /\ q \in Pushed
      <4>1. x = CommonPath(q, label)
        BY <1>2, <3>1, <3>4, CommonPathFacts
      <4> QED
        BY <1>1, <3>4, <4>1, NoChildLeft
    <3>5. CASE p = label /\ q = label
      BY <1>5, <3>1, <3>5
    <3> QED
      BY <3>2, <3>3, <3>4, <3>5
  <2> QED
    BY <2>1, <2>2
<1>8. DOMAIN tree' = Closure(Pushed')
  <2> HIDE DEF S
  <2>1. DOMAIN tree \union {label} = Closure(S)
    BY <1>3, <1>6, <1>7
  <2> QED
    BY <1>4, <2>1 DEF S
<1> QED
    BY <1>1, <1>2, <1>3, <1>4, <1>8 DEF IInv

(* Neither the translation nor a lookup touches the tree.                  *)
LEMMA ReadersInv ==
    ASSUME IInv, op # "push", op' # "push", tree' = tree
    PROVE  IInv'
<1>1. Pushed' = Pushed
    BY DEF Pushed
<1> QED
    BY <1>1 DEF IInv

LEMMA StutterInv ==
    ASSUME IInv, UNCHANGED vars
    PROVE  IInv'
<1>1. op' = op /\ tree' = tree /\ label' = label /\ pair' = pair /\ cur' = cur
    BY DEF vars, builder
<1>2. Pushed' = Pushed /\ \A node : Match(node)' <=> Match(node)
    BY <1>1 DEF Pushed, Match, Children, Below, Common
<1>3. Passed' <=> Passed
    BY <1>1, <1>2 DEF Passed
<1> QED
    BY <1>1, <1>2, <1>3 DEF IInv

LEMMA Invariance ==
    Spec => []IInv
<1>1. ASSUME IInv, [Next]_vars
      PROVE  IInv'
  <2>1. ASSUME NEW key \in Keys, NEW e \in Values, NEW p \in Values \union {None},
               Push(key, [exact |-> e, prefix |-> p])
        PROVE  IInv'
    BY <1>1, <2>1, PushInv
  <2>2. CASE Descend
    BY <1>1, <2>2, DescendInv
  <2>3. CASE Split
    BY <1>1, <2>3, SplitInv
  <2>4. CASE Store
    BY <1>1, <2>4, StoreInv
  <2>5. CASE Build \/ Transfer \/ Built
    BY <1>1, <2>5, ReadersInv DEF Build, Transfer, Built, builder
  <2>6. ASSUME NEW key \in Keys, Lookup(key)
        PROVE  IInv'
    BY <1>1, <2>6, ReadersInv DEF Lookup, builder
  <2>7. CASE EnterChild \/ EndOfLabel \/ NoMatch
    BY <1>1, <2>7, ReadersInv DEF EnterChild, EndOfLabel, NoMatch, Answer, builder
  <2>8. CASE UNCHANGED vars
    BY <1>1, <2>8, StutterInv
  <2> QED
    BY <1>1, <2>1, <2>2, <2>3, <2>4, <2>5, <2>6, <2>7, <2>8 DEF Next
<1> QED
    BY <1>1, InitInv, PTL DEF Spec

(* The nodes of the builder are the labels that were pushed and the points *)
(* where two of them part, for any number of labels, in any order and with *)
(* any values: splitting nodes leaves no trace of the order.               *)
THEOREM NodesAlwaysCanonical ==
    Spec => []NodesCanonical
<1>1. IInv => NodesCanonical
    BY DEF IInv, NodesCanonical, Closure
<1> QED
    BY <1>1, Invariance, PTL


-----------------------------------------------------------------------------
(***************************************************************************)
(* The tree is a table: what is looked up in it.                           *)
(***************************************************************************)

Rules == [p \in Pushed |-> tree[p]]

(* The rules that count below a path, and the value of the closest one.    *)
Above(u) == {k \in Pushed : IsPrefix(k, u) /\ tree[k].prefix # None}
Nearest(u) == CHOOSE p \in Above(u) : \A q \in Above(u) : IsPrefix(q, p)
PrefixValue(u) == IF Above(u) = {} THEN None ELSE tree[Nearest(u)].prefix

LEMMA NearestIs ==
    ASSUME IInv, NEW u \in Words, NEW p \in Above(u), \A q \in Above(u) : IsPrefix(q, p)
    PROVE  Nearest(u) = p /\ PrefixValue(u) = tree[p].prefix
<1>1. Above(u) \subseteq Words
    BY Labels DEF Above
<1>2. /\ Nearest(u) \in Above(u) /\ \A q \in Above(u) : IsPrefix(q, Nearest(u))
    BY DEF Nearest
<1>3. Nearest(u) = p
    BY <1>1, <1>2, PrefixOrder
<1> QED
    BY <1>3 DEF PrefixValue

LEMMA NearestExists ==
    ASSUME IInv, NEW u \in Words, Above(u) # {}
    PROVE  /\ Nearest(u) \in Above(u)
           /\ PrefixValue(u) = tree[Nearest(u)].prefix /\ PrefixValue(u) # None
<1>1. Above(u) \subseteq Words /\ \A q \in Above(u) : IsPrefix(q, u)
    BY Labels DEF Above
<1>2. \E p \in Above(u) : \A q \in Above(u) : IsPrefix(q, p)
    BY <1>1, LongestPrefix
<1>3. Nearest(u) \in Above(u)
    BY <1>2 DEF Nearest
<1> QED
    BY <1>3 DEF PrefixValue, Above

LEMMA MatchIs ==
    ASSUME IInv, NEW u \in Words
    PROVE  Table!BestMatch(Rules, u) = IF u \in Pushed THEN tree[u].exact ELSE PrefixValue(u)
<1>1. /\ DOMAIN Rules = Pushed /\ \A k \in Pushed : Rules[k] = tree[k]
    BY DEF Rules
<1>2. {k \in DOMAIN Rules : Table!IsPrefix(k, u) /\ Rules[k].prefix # None} = Above(u)
    BY <1>1 DEF Above, IsPrefix, Table!IsPrefix
<1>3. Table!Closest(Above(u)) = Nearest(u)
    BY DEF Table!Closest, Nearest, IsPrefix, Table!IsPrefix
<1>4. ASSUME Above(u) # {}
      PROVE  Nearest(u) \in Pushed
    BY <1>4, NearestExists DEF Above
<1>5. Table!Inherited(Rules, u) = PrefixValue(u)
    BY <1>1, <1>2, <1>3, <1>4 DEF Table!Inherited, PrefixValue
<1> QED
    BY <1>1, <1>5 DEF Table!BestMatch

(* What a path inherits depends on its ancestors in the tree only: on its  *)
(* way down a lookup takes the value of each node that has one.            *)
LEMMA SameAncestors ==
    ASSUME NEW u, NEW v,
           \A k \in DOMAIN tree : IsPrefix(k, u) <=> IsPrefix(k, v)
    PROVE  PrefixValue(u) = PrefixValue(v)
<1>1. Above(u) = Above(v)
    BY DEF Above, Pushed
<1> QED
    BY <1>1 DEF PrefixValue, Nearest

(* Nodes that were split off have no values.                               *)
RulesInv ==
    /\ IsFiniteSet(DOMAIN tree)
    /\ \A p \in DOMAIN tree :
           /\ tree[p].exact \in Values \union {None} /\ tree[p].prefix \in Values \union {None}
           /\ tree[p].exact = None => tree[p].prefix = None
    /\ op = "push" => /\ pair.exact \in Values /\ pair.prefix \in Values \union {None}
                      /\ pair = [exact |-> pair.exact, prefix |-> pair.prefix]

LEMMA RootValue ==
    ASSUME IInv, RulesInv
    PROVE  PrefixValue(<<>>) = tree[<<>>].prefix
<1>1. <<>> \in DOMAIN tree /\ <<>> \in Words
    BY ClosureFacts, Labels DEF IInv, Passed
<1>2. \A k \in DOMAIN tree : IsPrefix(k, <<>>) <=> k = <<>>
    BY <1>1, Labels, PrefixFacts
<1>3. CASE tree[<<>>].prefix = None
  <2>1. Above(<<>>) = {}
    BY <1>2, <1>3 DEF Above, Pushed
  <2> QED
    BY <1>3, <2>1 DEF PrefixValue
<1>4. CASE tree[<<>>].prefix # None
  <2>1. <<>> \in Above(<<>>) /\ \A q \in Above(<<>>) : IsPrefix(q, <<>>)
    BY <1>1, <1>2, <1>4 DEF Above, Pushed, RulesInv
  <2> QED
    BY <1>1, <2>1, NearestIs
<1> QED
    BY <1>3, <1>4

LEMMA ChildValue ==
    ASSUME IInv, RulesInv, NEW p \in DOMAIN tree, NEW c \in Children(p)
    PROVE  PrefixValue(c) = IF tree[c].prefix = None THEN PrefixValue(p) ELSE tree[c].prefix
<1>1. /\ c \in DOMAIN tree /\ IsPrefix(p, c) /\ p # c /\ c \in Words /\ p \in Words
      /\ DOMAIN tree \subseteq Words
    BY Labels DEF Children, Below, IsStrictPrefix
<1>2. ASSUME NEW k \in DOMAIN tree, IsPrefix(k, c), k # c
      PROVE  IsPrefix(k, p)
  <2>1. IsPrefix(k, p) \/ IsPrefix(p, k)
    BY <1>1, <1>2, PrefixOrder
  <2>2. CASE IsPrefix(p, k) /\ p # k
    BY <1>2, <2>2 DEF Children, Below, IsStrictPrefix
  <2> QED
    BY <1>1, <2>1, <2>2, PrefixOrder
<1>3. \A k \in DOMAIN tree : IsPrefix(k, p) => IsPrefix(k, c)
    BY <1>1, PrefixOrder
<1>4. CASE tree[c].prefix = None
  <2>1. Above(c) = Above(p)
    BY <1>1, <1>2, <1>3, <1>4, PrefixOrder DEF Above, Pushed
  <2> QED
    BY <1>4, <2>1 DEF PrefixValue, Nearest
<1>5. CASE tree[c].prefix # None
  <2>1. c \in Above(c) /\ \A q \in Above(c) : IsPrefix(q, c)
    BY <1>1, <1>5, PrefixOrder DEF Above, Pushed, RulesInv
  <2> QED
    BY <1>1, <1>5, <2>1, NearestIs
<1> QED
    BY <1>4, <1>5

LEMMA RulesInit ==
    Init => RulesInv
<1> SUFFICES ASSUME Init PROVE RulesInv
    OBVIOUS
<1>1. DOMAIN tree = {<<>>} /\ tree[<<>>] = NoRule /\ op = "idle"
    BY DEF Init
<1>2. IsFiniteSet({<<>>})
    BY FS_Singleton
<1> QED
    BY <1>1, <1>2 DEF RulesInv, NoRule

LEMMA RulesGrow ==
    ASSUME RulesInv, NEW path, NEW e \in Values \union {None}, NEW p \in Values \union {None},
           e = None => p = None, tree' = WithRule(path, [exact |-> e, prefix |-> p]),
           op' = "push" => op = "push" /\ pair' = pair
    PROVE  RulesInv'
<1>1. /\ DOMAIN tree' = DOMAIN tree \union {path}
      /\ \A q \in DOMAIN tree' :
             tree'[q] = IF q = path THEN [exact |-> e, prefix |-> p] ELSE tree[q]
    BY DEF WithRule
<1>2. IsFiniteSet(DOMAIN tree')
    BY <1>1, FS_AddElement DEF RulesInv
<1> QED
    BY <1>1, <1>2 DEF RulesInv

LEMMA RulesNext ==
    IInv /\ RulesInv /\ [Next]_vars => RulesInv'
<1> SUFFICES ASSUME IInv, RulesInv, [Next]_vars PROVE RulesInv'
    OBVIOUS
<1>1. ASSUME tree' = tree, op' = "push" => op = "push" /\ pair' = pair
      PROVE  RulesInv'
    BY <1>1 DEF RulesInv
<1>2. ASSUME NEW key \in Keys, NEW e \in Values, NEW p \in Values \union {None},
             Push(key, [exact |-> e, prefix |-> p])
      PROVE  RulesInv'
    BY <1>2 DEF Push, RulesInv
<1>3. CASE Descend
    BY <1>1, <1>3 DEF Descend, builder
<1>4. CASE Split
  <2>1. PICK node \in DOMAIN tree : tree' = WithRule(Common(node), NoRule)
    BY <1>4 DEF Split
  <2>2. op' = op /\ pair' = pair
    BY <1>4 DEF Split
  <2> QED
    BY <2>1, <2>2, RulesGrow DEF NoRule
<1>5. CASE Store
  <2>1. op = "push" /\ op' = "idle" /\ tree' = WithRule(label, pair)
    BY <1>5 DEF Store
  <2>2. /\ pair.exact \in Values /\ pair.prefix \in Values \union {None}
        /\ pair = [exact |-> pair.exact, prefix |-> pair.prefix] /\ pair.exact # None
    BY <2>1, NoneAssumption DEF RulesInv
  <2> QED
    BY <2>1, <2>2, RulesGrow
<1>6. CASE Build \/ Transfer \/ Built
    BY <1>1, <1>6 DEF Build, Transfer, Built, builder
<1>7. ASSUME NEW key \in Keys, Lookup(key)
      PROVE  RulesInv'
    BY <1>1, <1>7 DEF Lookup, builder
<1>8. CASE EnterChild \/ EndOfLabel \/ NoMatch
    BY <1>1, <1>8 DEF EnterChild, EndOfLabel, NoMatch, Answer, builder
<1>9. CASE UNCHANGED vars
    BY <1>1, <1>9 DEF vars, builder
<1> QED
    BY <1>2, <1>3, <1>4, <1>5, <1>6, <1>7, <1>8, <1>9 DEF Next

-----------------------------------------------------------------------------
(***************************************************************************)
(* The vectors represent the tree: path says which node of the tree each   *)
(* node of the vector is, lab which label it has or will get.              *)
(***************************************************************************)

Node == [label : Words, exact : Nat \union {None}, prefix : Nat \union {None},
         children : SUBSET Nat]
Call == [path : DOMAIN tree, label : Words, index : DOMAIN nodes]

Indexed(i, v, vs) == IF v = None THEN i = None ELSE i \in DOMAIN vs /\ vs[i] = v

(* A node that into_trie_node has set up.                                  *)
SetUp(i, path, lab) ==
    /\ nodes[i].label = lab[i]
    /\ Indexed(nodes[i].exact, tree[path[i]].exact, values)
    /\ Indexed(nodes[i].prefix, tree[path[i]].prefix, values)
    /\ nodes[i].children \subseteq DOMAIN nodes
    /\ \A c \in nodes[i].children :
           path[c] \in Children(path[i]) /\ lab[c] = From(Len(path[i]), path[c])
    /\ \A n \in Children(path[i]) : \E c \in nodes[i].children : path[c] = n

Pending(i) == \E j \in DOMAIN todo : todo[j].index = i

(* Calls still to be made, each for another node of the vector.            *)
CallsFor(path, lab) ==
    /\ todo \in Seq(Call)
    /\ \A j \in DOMAIN todo :
           todo[j].path = path[todo[j].index] /\ todo[j].label = lab[todo[j].index]
    /\ \A j, k \in DOMAIN todo : todo[j].index = todo[k].index => j = k

(* A node each, set up by its parent.                                      *)
Family(path, lab) ==
    /\ lab[1] = <<>>
    /\ \A i, j \in DOMAIN nodes : path[i] = path[j] => i = j
    /\ \A i \in DOMAIN nodes \ {1} :
           \E k \in DOMAIN nodes :
              ~Pending(k) /\ path[i] \in Children(path[k]) /\ lab[i] = From(Len(path[k]), path[i])

Represents(path, lab) ==
    /\ nodes \in Seq(Node) /\ 1 \in DOMAIN nodes
    /\ path \in [DOMAIN nodes -> DOMAIN tree] /\ lab \in [DOMAIN nodes -> Words]
    /\ path[1] = <<>>
    /\ CallsFor(path, lab) /\ Family(path, lab)
    /\ \A i \in DOMAIN nodes : Pending(i) \/ SetUp(i, path, lab)

(* How far a lookup has got.                                               *)
Searching(path) ==
    /\ label \in Keys /\ at \in DOMAIN nodes
    /\ IsPrefix(path[at], label) /\ rest = From(Len(path[at]), label)
    /\ Indexed(best, PrefixValue(path[at]), values)

Translated == \E path, lab : Represents(path, lab)
Searched == \E path, lab : Represents(path, lab) /\ Searching(path)

VectorInv ==
    /\ values \in Seq(Values)
    /\ op \in {"idle", "push", "build", "ready", "lookup"}
    /\ op \in {"build", "ready"} => Translated
    /\ op = "lookup" => Searched
    /\ op \in {"ready", "lookup"} => todo = <<>>

-----------------------------------------------------------------------------
(* into_trie_node                                                          *)

LEMMA Added ==
    ASSUME NEW vs \in Seq(Values), NEW v \in Values \union {None}
    PROVE  /\ AddValue(v, vs) \in Seq(Values)
           /\ \A i \in DOMAIN vs : i \in DOMAIN AddValue(v, vs) /\ AddValue(v, vs)[i] = vs[i]
           /\ v # None => \E i \in DOMAIN AddValue(v, vs) : AddValue(v, vs)[i] = v
<1>1. CASE v = None
    BY <1>1 DEF AddValue
<1>2. CASE v # None /\ v \in Range(vs)
  <2>1. \E i \in DOMAIN vs : vs[i] = v
    BY <1>2 DEF Range
  <2> QED
    BY <1>2, <2>1 DEF AddValue
<1>3. CASE v # None /\ v \notin Range(vs)
  <2>1. AddValue(v, vs) = Append(vs, v)
    BY <1>3 DEF AddValue
  <2>2. /\ Append(vs, v) \in Seq(Values) /\ Len(Append(vs, v)) = Len(vs) + 1
        /\ Append(vs, v)[Len(vs) + 1] = v /\ Len(vs) \in Nat
        /\ \A i \in 1 .. Len(vs) : Append(vs, v)[i] = vs[i]
    BY <1>3
  <2>3. DOMAIN vs = 1 .. Len(vs) /\ DOMAIN Append(vs, v) = 1 .. (Len(vs) + 1)
    BY <2>2
  <2> QED
    BY <2>1, <2>2, <2>3
<1> QED
    BY <1>1, <1>2, <1>3

(* The vector of values only grows, and has what was added.                *)
LEMMA ValuesGrow ==
    ASSUME values \in Seq(Values), NEW e \in Values \union {None}, NEW p \in Values \union {None},
           values' = AddValue(p, AddValue(e, values))
    PROVE  /\ values' \in Seq(Values)
           /\ \A i \in DOMAIN values : i \in DOMAIN values' /\ values'[i] = values[i]
           /\ Indexed(IndexOf(e, values'), e, values') /\ Indexed(IndexOf(p, values'), p, values')
<1> DEFINE middle == AddValue(e, values)
<1>1. /\ middle \in Seq(Values)
      /\ \A i \in DOMAIN values : i \in DOMAIN middle /\ middle[i] = values[i]
      /\ e # None => \E i \in DOMAIN middle : middle[i] = e
    BY Added
<1> HIDE DEF middle
<1>2. /\ values' \in Seq(Values)
      /\ \A i \in DOMAIN middle : i \in DOMAIN values' /\ values'[i] = middle[i]
      /\ p # None => \E i \in DOMAIN values' : values'[i] = p
    BY <1>1, Added DEF middle
<1>3. e # None => \E i \in DOMAIN values' : values'[i] = e
    BY <1>1, <1>2
<1>4. \A i \in DOMAIN values : i \in DOMAIN values' /\ values'[i] = values[i]
    BY <1>1, <1>2
<1>5. ASSUME NEW v, v # None => \E i \in DOMAIN values' : values'[i] = v
      PROVE  IF v = None THEN IndexOf(v, values') = None
             ELSE IndexOf(v, values') \in DOMAIN values' /\ values'[IndexOf(v, values')] = v
    BY <1>5 DEF IndexOf
<1> QED
    BY <1>2, <1>3, <1>4, <1>5 DEF Indexed

Joined(c, s, t) ==
    /\ Len(c) = Len(s) + Len(t)
    /\ \A i \in 1 .. Len(s) : c[i] = s[i]
    /\ \A i \in 1 .. Len(t) : c[Len(s) + i] = t[i]

LEMMA Extended ==
    ASSUME NEW S, NEW s \in Seq(S), NEW t \in Seq(S)
    PROVE  s \o t \in Seq(S) /\ Joined(s \o t, s, t)
BY DEF Joined

LEMMA Listed ==
    ASSUME NEW S, NEW K \in Nat, NEW f \in [1 .. K -> S]
    PROVE  f \in Seq(S) /\ Len(f) = K
OBVIOUS

LEMMA Remaining ==
    ASSUME NEW S, NEW s \in Seq(S), s # <<>>
    PROVE  /\ Head(s) \in S /\ Head(s) = s[1] /\ 1 \in DOMAIN s
           /\ Tail(s) \in Seq(S) /\ Len(s) \in Nat /\ Len(s) > 0 /\ Len(Tail(s)) = Len(s) - 1
           /\ DOMAIN s = 1 .. Len(s)
           /\ \A i \in 1 .. Len(s) - 1 : Tail(s)[i] = s[i + 1]
OBVIOUS

LEMMA Kids ==
    ASSUME IInv, RulesInv, NEW p \in DOMAIN tree, NEW kids \in SortedChildren(p)
    PROVE  /\ Len(kids) \in Nat /\ kids \in [1 .. Len(kids) -> Children(p)]
           /\ \A n \in Children(p) : \E i \in 1 .. Len(kids) : kids[i] = n
           /\ \A i, j \in 1 .. Len(kids) : kids[i] = kids[j] => i = j
<1>1. Children(p) \in SUBSET (DOMAIN tree)
    BY DEF Children, Below
<1>2. Cardinality(Children(p)) \in Nat
    BY <1>1, FS_Subset, FS_CardinalityType DEF RulesInv
<1>3. /\ kids \in [1 .. Cardinality(Children(p)) -> Children(p)]
      /\ Range(kids) = Children(p)
    BY DEF SortedChildren
<1>4. Len(kids) = Cardinality(Children(p)) /\ DOMAIN kids = 1 .. Len(kids)
    BY <1>2, <1>3
<1>5. ASSUME NEW i \in 1 .. Len(kids), NEW j \in 1 .. Len(kids), i < j
      PROVE  kids[i] # kids[j]
  <2>1. kids[i][Len(p) + 1] < kids[j][Len(p) + 1]
    BY <1>4, <1>5 DEF SortedChildren
  <2>2. kids[i] \in DOMAIN tree /\ IsPrefix(p, kids[i]) /\ p # kids[i]
    BY <1>3, <1>4 DEF Children, Below, IsStrictPrefix
  <2>3. kids[i] \in Words /\ p \in Words
    BY <2>2, Labels
  <2>4. Len(p) \in Nat /\ Len(kids[i]) \in Nat /\ Len(p) < Len(kids[i])
    BY <2>2, <2>3, PrefixFacts
  <2>5. kids[i][Len(p) + 1] \in Nat
    BY <2>3, <2>4 DEF Words
  <2> QED
    BY <2>1, <2>5
<1>6. \A i, j \in 1 .. Len(kids) : i < j \/ j < i \/ i = j
    BY <1>2, <1>4
<1> QED
    BY <1>2, <1>3, <1>4, <1>5, <1>6 DEF Range

LEMMA OneParent ==
    ASSUME IInv, NEW p \in DOMAIN tree, NEW q \in DOMAIN tree,
           NEW n \in Children(p), n \in Children(q)
    PROVE  p = q
<1>1. /\ p \in Words /\ q \in Words /\ n \in Words
      /\ IsPrefix(p, n) /\ IsPrefix(q, n) /\ p # n /\ q # n
    BY Labels DEF Children, Below, IsStrictPrefix
<1>2. IsPrefix(p, q) \/ IsPrefix(q, p)
    BY <1>1, PrefixOrder
<1> QED
    BY <1>1, <1>2 DEF Children, Below, IsStrictPrefix

LEMMA TransferRepresents ==
    ASSUME IInv, RulesInv, values \in Seq(Values), Transfer,
           NEW path, NEW lab, Represents(path, lab)
    PROVE  values' \in Seq(Values) /\ Translated'
<1> DEFINE call == Head(todo)
           N == Len(nodes)
           v == values'
           new(K) == [label |-> call.label,
                      exact |-> IndexOf(tree[call.path].exact, v),
                      prefix |-> IndexOf(tree[call.path].prefix, v),
                      children |-> N + 1 .. N + K]
<1>1. /\ nodes \in Seq(Node) /\ 1 \in DOMAIN nodes
      /\ path \in [DOMAIN nodes -> DOMAIN tree] /\ lab \in [DOMAIN nodes -> Words]
      /\ path[1] = <<>> /\ CallsFor(path, lab) /\ Family(path, lab)
      /\ \A i \in DOMAIN nodes : Pending(i) \/ SetUp(i, path, lab)
    BY DEF Represents
<1>2. /\ N \in Nat /\ DOMAIN nodes = 1 .. N
    BY <1>1
<1>3. todo # <<>> /\ tree' = tree
    BY DEF Transfer, builder
<1>4. /\ todo \in Seq(Call)
      /\ \A j \in DOMAIN todo :
             todo[j].path = path[todo[j].index] /\ todo[j].label = lab[todo[j].index]
      /\ \A j, k \in DOMAIN todo : todo[j].index = todo[k].index => j = k
    BY <1>1 DEF CallsFor
<1>5. /\ call \in Call /\ call = todo[1] /\ 1 \in DOMAIN todo
      /\ Tail(todo) \in Seq(Call) /\ Len(todo) \in Nat /\ Len(todo) > 0
      /\ Len(Tail(todo)) = Len(todo) - 1 /\ DOMAIN todo = 1 .. Len(todo)
      /\ \A i \in 1 .. Len(todo) - 1 : Tail(todo)[i] = todo[i + 1]
    BY <1>3, <1>4, Remaining
<1>6. /\ call.index \in 1 .. N /\ call.path = path[call.index] /\ call.label = lab[call.index]
      /\ call.path \in DOMAIN tree /\ call.label \in Words
    BY <1>2, <1>4, <1>5 DEF Call
<1>7. PICK kids \in SortedChildren(call.path) :
        /\ nodes' = [nodes EXCEPT ![call.index] = new(Len(kids))]
                      \o [i \in DOMAIN kids |-> NewNode]
        /\ todo' = [i \in DOMAIN kids |->
                       [path |-> kids[i], index |-> N + i,
                        label |-> From(Len(call.path), kids[i])]] \o Tail(todo)
    BY DEF Transfer
<1> DEFINE K == Len(kids)
           calls == [i \in 1 .. K |-> [path |-> kids[i], index |-> N + i,
                                       label |-> From(Len(call.path), kids[i])]]
<1>8. /\ K \in Nat /\ kids \in [1 .. K -> Children(call.path)]
      /\ \A n \in Children(call.path) : \E i \in 1 .. K : kids[i] = n
      /\ \A i, j \in 1 .. K : kids[i] = kids[j] => i = j
    BY <1>6, Kids
<1>9. /\ v \in Seq(Values)
      /\ \A i \in DOMAIN values : i \in DOMAIN v /\ v[i] = values[i]
      /\ Indexed(new(K).exact, tree[call.path].exact, v)
      /\ Indexed(new(K).prefix, tree[call.path].prefix, v)
  <2>1. /\ tree[call.path].exact \in Values \union {None}
        /\ tree[call.path].prefix \in Values \union {None}
    BY <1>6 DEF RulesInv
  <2>2. values' = AddValue(tree[call.path].prefix, AddValue(tree[call.path].exact, values))
    BY DEF Transfer
  <2> QED
    BY <2>1, <2>2, ValuesGrow
<1>10. \A i \in 1 .. K : /\ kids[i] \in DOMAIN tree /\ kids[i] \in Words
                         /\ From(Len(call.path), kids[i]) \in Words
  <2>1. Children(call.path) \subseteq DOMAIN tree /\ DOMAIN tree \subseteq Words
    BY Labels DEF Children, Below
  <2>2. Len(call.path) \in Nat
    BY <1>6, <2>1, PrefixFacts
  <2>3. \A s \in Words : From(Len(call.path), s) \in Words
    BY <2>2 DEF From, Words
  <2> QED
    BY <1>8, <2>1, <2>3
<1>11. new(K) \in Node
  <2>1. /\ new(K).exact \in Nat \union {None} /\ new(K).prefix \in Nat \union {None}
    BY <1>9 DEF Indexed
  <2>2. N + 1 .. N + K \subseteq Nat
    BY <1>2, <1>8
  <2> QED
    BY <1>6, <2>1, <2>2 DEF Node
<1>12. NewNode \in Node
    BY DEF NewNode, Node, Words
<1> DEFINE old == [nodes EXCEPT ![call.index] = new(K)]
<1>13. /\ old \in Seq(Node) /\ Len(old) = N /\ DOMAIN old = 1 .. N
       /\ old[call.index] = new(K) /\ \A i \in 1 .. N : i # call.index => old[i] = nodes[i]
  <2> HIDE DEF new, call
  <2> QED
    BY <1>1, <1>2, <1>6, <1>11
<1> DEFINE path2 == [i \in 1 .. N + K |-> IF i <= N THEN path[i] ELSE kids[i - N]]
           lab2 == [i \in 1 .. N + K |-> IF i <= N THEN lab[i]
                                         ELSE From(Len(call.path), kids[i - N])]
<1>14. /\ nodes' \in Seq(Node) /\ DOMAIN nodes' = 1 .. N + K
       /\ nodes'[call.index] = new(K)
       /\ \A i \in 1 .. N : i # call.index => nodes'[i] = nodes[i]
  <2> DEFINE room == [i \in 1 .. K |-> NewNode]
  <2>1. DOMAIN kids = 1 .. K /\ room \in [1 .. K -> Node] /\ K \in Nat
    BY <1>8, <1>12
  <2>2. nodes' = old \o room
    BY <1>7, <2>1
  <2> HIDE DEF old, new, K, call, N, room
  <2>3. room \in Seq(Node) /\ Len(room) = K
    BY <2>1, Listed
  <2>4. nodes' \in Seq(Node) /\ Joined(nodes', old, room)
    BY <1>13, <2>2, <2>3, Extended
  <2>5. Len(nodes') = N + K /\ \A i \in 1 .. N : nodes'[i] = old[i]
    BY <1>13, <2>3, <2>4 DEF Joined
  <2>6. DOMAIN nodes' = 1 .. N + K
    BY <2>4, <2>5
  <2> QED
    BY <1>6, <1>13, <2>4, <2>5, <2>6
<1>15. /\ path2 \in [DOMAIN nodes' -> DOMAIN tree'] /\ lab2 \in [DOMAIN nodes' -> Words]
       /\ \A i \in 1 .. N : path2[i] = path[i] /\ lab2[i] = lab[i]
       /\ \A i \in 1 .. K : /\ path2[N + i] = kids[i]
                            /\ lab2[N + i] = From(Len(call.path), kids[i])
  <2> HIDE DEF call, N, K
  <2>1. ASSUME NEW i \in 1 .. N + K, ~(i <= N)
        PROVE  i - N \in 1 .. K
    BY <1>2, <1>8, <2>1
  <2>2. ASSUME NEW i \in 1 .. N + K
        PROVE  path2[i] \in DOMAIN tree /\ lab2[i] \in Words
    <3>1. CASE i <= N
      <4>1. i \in DOMAIN nodes /\ path2[i] = path[i] /\ lab2[i] = lab[i]
        BY <1>2, <1>8, <3>1
      <4> QED
        BY <1>1, <4>1
    <3>2. CASE ~(i <= N)
      <4>1. /\ i - N \in 1 .. K /\ path2[i] = kids[i - N]
            /\ lab2[i] = From(Len(call.path), kids[i - N])
        BY <2>1, <3>2
      <4> QED
        BY <1>10, <4>1
    <3> QED
      BY <3>1, <3>2
  <2>3. \A i \in 1 .. N : i \in 1 .. N + K /\ i <= N
    BY <1>2, <1>8
  <2>4. \A i \in 1 .. K : N + i \in 1 .. N + K /\ ~(N + i <= N) /\ (N + i) - N = i
    BY <1>2, <1>8
  <2> QED
    BY <1>3, <1>14, <2>2, <2>3, <2>4
<1> HIDE DEF call, N, K, v, new, old, path2, lab2
<1>16. PICK p2, l2 :
         /\ p2 \in [DOMAIN nodes' -> DOMAIN tree'] /\ l2 \in [DOMAIN nodes' -> Words]
         /\ \A i \in 1 .. N : p2[i] = path[i] /\ l2[i] = lab[i]
         /\ \A i \in 1 .. K : p2[N + i] = kids[i] /\ l2[N + i] = From(Len(call.path), kids[i])
    BY <1>15
<1>17. /\ CallsFor(p2, l2)'
       /\ \A i \in 1 .. K : \E j \in DOMAIN todo' : todo'[j].index = N + i
       /\ \A i \in 1 .. N : Pending(i) /\ i # call.index => \E j \in DOMAIN todo' : todo'[j].index = i
       /\ \A i \in 1 .. N : ~Pending(i) \/ i = call.index => \A j \in DOMAIN todo' : todo'[j].index # i
  <2>1. calls \in [1 .. K -> Call']
    <3>1. ASSUME NEW i \in 1 .. K
          PROVE  calls[i] \in Call'
      <4>1. N + i \in DOMAIN nodes'
        BY <1>2, <1>8, <1>14
      <4> QED
        BY <1>3, <1>10, <4>1 DEF Call
    <3> QED
      BY <3>1
  <2>2. Tail(todo) \in Seq(Call')
    <3>1. Call \subseteq Call'
      BY <1>2, <1>3, <1>8, <1>14 DEF Call
    <3> QED
      BY <1>5, <3>1
  <2>3. todo' = calls \o Tail(todo)
    BY <1>7, <1>8 DEF N
  <2>4. \A i \in 1 .. K : /\ calls[i].path = kids[i] /\ calls[i].index = N + i
                         /\ calls[i].label = From(Len(call.path), kids[i])
    OBVIOUS
  <2> HIDE DEF calls
  <2> DEFINE L == Len(todo)
  <2>5. calls \in Seq(Call') /\ Len(calls) = K
    BY <1>8, <2>1, Listed
  <2>10. todo' \in Seq(Call') /\ Joined(todo', calls, Tail(todo))
    BY <2>2, <2>3, <2>5, Extended
  <2>11. /\ Len(todo') = K + (L - 1)
         /\ \A i \in 1 .. K : todo'[i] = calls[i]
         /\ \A i \in 1 .. L - 1 : todo'[K + i] = Tail(todo)[i]
    BY <1>5, <2>5, <2>10 DEF Joined
  <2>12. DOMAIN todo' = 1 .. K + (L - 1)
    BY <2>10, <2>11
  <2>6. ASSUME NEW j \in 1 .. L
        PROVE  /\ todo[j].index \in 1 .. N /\ todo[j].path = path[todo[j].index]
               /\ todo[j].label = lab[todo[j].index]
    <3>1. j \in DOMAIN todo /\ todo[j] \in Call
      BY <1>4, <1>5
    <3> QED
      BY <1>2, <1>4, <3>1 DEF Call
  <2>7. ASSUME NEW j \in DOMAIN todo'
        PROVE  \/ j \in 1 .. K /\ todo'[j] = calls[j]
               \/ /\ j - K \in 1 .. L - 1 /\ j - K + 1 \in 1 .. L
                  /\ todo'[j] = todo[j - K + 1]
    <3>1. j \in 1 .. K + (L - 1) /\ L \in Nat /\ K \in Nat
      BY <1>5, <1>8, <2>12
    <3>2. CASE j <= K
      <4>1. j \in 1 .. K
        BY <3>1, <3>2
      <4> QED
        BY <2>11, <4>1
    <3>3. CASE ~(j <= K)
      <4>1. j - K \in 1 .. L - 1 /\ j - K + 1 \in 1 .. L /\ K + (j - K) = j
        BY <3>1, <3>3
      <4>2. todo'[K + (j - K)] = Tail(todo)[j - K]
        BY <2>11, <4>1
      <4>3. Tail(todo)[j - K] = todo[j - K + 1]
        BY <1>5, <4>1
      <4> QED
        BY <4>1, <4>2, <4>3
    <3> QED
      BY <3>2, <3>3
  <2>8. L \in Nat /\ K \in Nat /\ N \in Nat /\ DOMAIN todo = 1 .. L
    BY <1>2, <1>5, <1>8
  <2> HIDE DEF L
  <2>9. ASSUME NEW j \in DOMAIN todo'
        PROVE  todo'[j].path = p2[todo'[j].index] /\ todo'[j].label = l2[todo'[j].index]
    <3>1. CASE j \in 1 .. K /\ todo'[j] = calls[j]
      BY <1>16, <2>4, <3>1
    <3>2. CASE j - K + 1 \in 1 .. L /\ todo'[j] = todo[j - K + 1]
      BY <1>16, <2>6, <3>2
    <3> QED
      BY <2>7, <3>1, <3>2
  <2>13. ASSUME NEW j \in DOMAIN todo', NEW k \in DOMAIN todo', todo'[j].index = todo'[k].index
         PROVE  j = k
    <3>1. j \in Int /\ k \in Int
      BY <2>8, <2>12
    <3>2. CASE j \in 1 .. K /\ todo'[j] = calls[j] /\ k \in 1 .. K /\ todo'[k] = calls[k]
      BY <2>4, <2>8, <2>13, <3>2
    <3>3. CASE j \in 1 .. K /\ todo'[j] = calls[j] /\ k - K + 1 \in 1 .. L /\ todo'[k] = todo[k - K + 1]
      <4>1. N + j \in 1 .. N
        BY <2>4, <2>6, <2>13, <3>3
      <4> QED
        BY <2>8, <3>3, <4>1
    <3>4. CASE k \in 1 .. K /\ todo'[k] = calls[k] /\ j - K + 1 \in 1 .. L /\ todo'[j] = todo[j - K + 1]
      <4>1. N + k \in 1 .. N
        BY <2>4, <2>6, <2>13, <3>4
      <4> QED
        BY <2>8, <3>4, <4>1
    <3>5. CASE /\ j - K + 1 \in 1 .. L /\ todo'[j] = todo[j - K + 1]
               /\ k - K + 1 \in 1 .. L /\ todo'[k] = todo[k - K + 1]
      <4>1. j - K + 1 = k - K + 1
        BY <1>4, <2>8, <2>13, <3>5
      <4> QED
        BY <2>8, <3>1, <4>1
    <3> QED
      BY <2>7, <3>2, <3>3, <3>4, <3>5
  <2>14. ASSUME NEW i \in 1 .. K
         PROVE  \E j \in DOMAIN todo' : todo'[j].index = N + i
    <3>1. i \in DOMAIN todo'
      BY <1>5, <2>8, <2>12 DEF L
    <3> QED
      BY <2>4, <2>11, <3>1
  <2>15. ASSUME NEW i \in 1 .. N, Pending(i), i # call.index
         PROVE  \E j \in DOMAIN todo' : todo'[j].index = i
    <3>1. PICK j \in DOMAIN todo : todo[j].index = i
      BY <2>15 DEF Pending
    <3>2. j # 1
      BY <1>5, <2>15, <3>1
    <3>3. /\ j - 1 \in 1 .. L - 1 /\ K + (j - 1) \in 1 .. K + (L - 1)
          /\ (j - 1) + 1 = j /\ j - 1 \in 1 .. Len(todo) - 1
      BY <2>8, <3>1, <3>2 DEF L
    <3>4. todo'[K + (j - 1)] = todo[(j - 1) + 1]
      BY <1>5, <2>11, <3>3
    <3> QED
      BY <2>12, <3>1, <3>3, <3>4
  <2>16. CallsFor(p2, l2)'
    BY <2>10, <2>9, <2>13 DEF CallsFor
  <2>17. ASSUME NEW i \in 1 .. N, ~Pending(i) \/ i = call.index, NEW j \in DOMAIN todo'
         PROVE  todo'[j].index # i
    <3>1. CASE j \in 1 .. K /\ todo'[j] = calls[j]
      <4>1. todo'[j].index = N + j /\ N + j > i
        BY <2>4, <2>8, <3>1
      <4> QED
        BY <2>8, <4>1
    <3>2. CASE j - K \in 1 .. L - 1 /\ j - K + 1 \in 1 .. L /\ todo'[j] = todo[j - K + 1]
      <4>1. j - K + 1 # 1
        BY <2>8, <3>2
      <4>2. todo[j - K + 1].index # call.index
        BY <1>4, <1>5, <2>8, <3>2, <4>1
      <4>3. ~Pending(i) => todo[j - K + 1].index # i
        BY <2>8, <3>2 DEF Pending
      <4> QED
        BY <2>17, <3>2, <4>2, <4>3
    <3> QED
      BY <2>7, <3>1, <3>2
  <2> QED
    BY <2>14, <2>15, <2>16, <2>17
<1>18. \A i \in DOMAIN nodes' : (\E j \in DOMAIN todo' : todo'[j].index = i) \/ SetUp(i, p2, l2)'
  <2> SUFFICES ASSUME NEW i \in 1 .. N + K, ~\E j \in DOMAIN todo' : todo'[j].index = i
               PROVE  SetUp(i, p2, l2)'
    BY <1>14
  <2>1. i \in 1 .. N
    <3>1. CASE i > N
      <4>1. i - N \in 1 .. K /\ N + (i - N) = i
        BY <1>2, <1>8, <3>1
      <4> QED
        BY <1>17, <4>1
    <3> QED
      BY <1>2, <1>8, <3>1
  <2>2. \A n : Children(n)' = Children(n)
    BY <1>3 DEF Children, Below
  <2>3. CASE i = call.index
    <3>1. nodes'[i] = new(K) /\ p2[i] = call.path /\ l2[i] = call.label
      BY <1>6, <1>14, <1>16, <2>1, <2>3
    <3>2. /\ new(K).label = call.label /\ new(K).children = N + 1 .. N + K
      BY DEF new
    <3>3. ASSUME NEW c \in N + 1 .. N + K
          PROVE  /\ c \in DOMAIN nodes' /\ p2[c] \in Children(call.path)
                 /\ l2[c] = From(Len(call.path), p2[c])
      <4>1. c - N \in 1 .. K /\ N + (c - N) = c /\ c \in 1 .. N + K
        BY <1>2, <1>8, <3>3
      <4>2. p2[c] = kids[c - N] /\ l2[c] = From(Len(call.path), kids[c - N])
        BY <1>16, <4>1
      <4>3. kids[c - N] \in Children(call.path) /\ c \in DOMAIN nodes'
        BY <1>8, <1>14, <4>1
      <4> QED
        BY <4>2, <4>3
    <3>4. ASSUME NEW n \in Children(call.path)
          PROVE  \E c \in N + 1 .. N + K : p2[c] = n
      <4>1. PICK k \in 1 .. K : kids[k] = n
        BY <1>8
      <4>2. N + k \in N + 1 .. N + K
        BY <1>2, <1>8
      <4> QED
        BY <1>16, <4>1, <4>2
    <3>5. /\ Indexed(nodes'[i].exact, tree'[p2[i]].exact, values')
          /\ Indexed(nodes'[i].prefix, tree'[p2[i]].prefix, values')
      BY <1>3, <1>9, <3>1 DEF v
    <3> QED
      BY <2>2, <3>1, <3>2, <3>3, <3>4, <3>5 DEF SetUp
  <2>4. CASE i # call.index
    <3>1. SetUp(i, path, lab) /\ nodes'[i] = nodes[i] /\ p2[i] = path[i] /\ l2[i] = lab[i]
      BY <1>1, <1>2, <1>14, <1>16, <1>17, <2>1, <2>4
    <3>2. \A c \in nodes[i].children :
             /\ c \in DOMAIN nodes' /\ p2[c] = path[c] /\ l2[c] = lab[c]
      <4>1. \A c \in nodes[i].children : c \in 1 .. N
        BY <1>2, <3>1 DEF SetUp
      <4>2. \A c \in 1 .. N : c \in 1 .. N + K
        BY <1>2, <1>8
      <4> QED
        BY <1>14, <1>16, <4>1, <4>2
    <3>3. \A k, w : Indexed(k, w, values) => Indexed(k, w, values')
      BY <1>9 DEF Indexed, v
    <3>4. /\ Indexed(nodes'[i].exact, tree'[p2[i]].exact, values')
          /\ Indexed(nodes'[i].prefix, tree'[p2[i]].prefix, values')
      BY <1>3, <3>1, <3>3 DEF SetUp
    <3> QED
      BY <2>2, <3>1, <3>2, <3>4 DEF SetUp
  <2> QED
    BY <2>3, <2>4
<1>19. 1 \in DOMAIN nodes' /\ p2[1] = <<>>
  <2>1. 1 \in 1 .. N /\ 1 \in 1 .. N + K
    BY <1>1, <1>2, <1>8
  <2> QED
    BY <1>1, <1>14, <1>16, <2>1
<1>21. Family(p2, l2)'
  <2>1. \A n : Children(n)' = Children(n)
    BY <1>3 DEF Children, Below
  <2>2. /\ lab[1] = <<>>
        /\ \A i, j \in 1 .. N : path[i] = path[j] => i = j
        /\ \A i \in 1 .. N : i # 1 =>
               \E k \in 1 .. N : /\ ~Pending(k) /\ path[i] \in Children(path[k])
                                 /\ lab[i] = From(Len(path[k]), path[i])
    BY <1>1, <1>2 DEF Family
  <2>3. \A i \in 1 .. N + K : \/ i \in 1 .. N
                              \/ i - N \in 1 .. K /\ N + (i - N) = i
    BY <1>2, <1>8
  (* The children are new: their parent would have been set up already.    *)
  <2>4. ASSUME NEW i \in 1 .. N, NEW j \in 1 .. K
        PROVE  path[i] # kids[j]
    <3> SUFFICES ASSUME path[i] = kids[j] PROVE FALSE
      OBVIOUS
    <3>1. kids[j] \in Children(call.path) /\ call.path = path[call.index]
      BY <1>6, <1>8
    <3>2. i # 1
      <4>1. call.path \in Words /\ IsPrefix(call.path, kids[j]) /\ call.path # kids[j]
        BY <1>6, <3>1, Labels DEF Children, Below, IsStrictPrefix
      <4>2. kids[j] # <<>>
        BY <4>1, PrefixFacts
      <4> QED
        BY <1>1, <4>2
    <3>3. PICK k \in 1 .. N : ~Pending(k) /\ path[i] \in Children(path[k])
      BY <2>2, <3>2
    <3>4. path[k] \in DOMAIN tree
      BY <1>1, <1>2
    <3>5. path[k] = call.path
      BY <1>6, <3>1, <3>3, <3>4, OneParent
    <3>6. k = call.index
      BY <1>6, <2>2, <3>5
    <3>7. Pending(call.index)
      BY <1>5 DEF Pending
    <3> QED
      BY <3>3, <3>6, <3>7
  <2>5. ASSUME NEW i \in 1 .. N + K, NEW j \in 1 .. N + K, p2[i] = p2[j]
        PROVE  i = j
    <3>1. CASE i \in 1 .. N /\ j \in 1 .. N
      BY <1>16, <2>2, <2>5, <3>1
    <3>2. CASE i \in 1 .. N /\ j - N \in 1 .. K /\ N + (j - N) = j
      <4>1. p2[i] = path[i] /\ p2[j] = kids[j - N]
        BY <1>16, <3>2
      <4> QED
        BY <2>4, <2>5, <3>2, <4>1
    <3>3. CASE j \in 1 .. N /\ i - N \in 1 .. K /\ N + (i - N) = i
      <4>1. p2[j] = path[j] /\ p2[i] = kids[i - N]
        BY <1>16, <3>3
      <4> QED
        BY <2>4, <2>5, <3>3, <4>1
    <3>4. CASE /\ i - N \in 1 .. K /\ N + (i - N) = i
               /\ j - N \in 1 .. K /\ N + (j - N) = j
      <4>1. p2[i] = kids[i - N] /\ p2[j] = kids[j - N]
        BY <1>16, <3>4
      <4>2. i - N = j - N
        BY <1>8, <2>5, <3>4, <4>1
      <4> QED
        BY <3>4, <4>2
    <3> QED
      BY <2>3, <3>1, <3>2, <3>3, <3>4
  <2>6. ASSUME NEW k \in 1 .. N, ~Pending(k) \/ k = call.index
        PROVE  k \in DOMAIN nodes' /\ \A j \in DOMAIN todo' : todo'[j].index # k
    <3>1. k \in 1 .. N + K
      BY <1>2, <1>8
    <3> QED
      BY <1>14, <1>17, <2>6, <3>1
  <2>7. ASSUME NEW i \in 1 .. N + K, i # 1
        PROVE  \E k \in DOMAIN nodes' : /\ \A j \in DOMAIN todo' : todo'[j].index # k
                                        /\ p2[i] \in Children(p2[k])
                                        /\ l2[i] = From(Len(p2[k]), p2[i])
    <3>1. CASE i \in 1 .. N
      <4>1. PICK k \in 1 .. N : /\ ~Pending(k) /\ path[i] \in Children(path[k])
                                /\ lab[i] = From(Len(path[k]), path[i])
        BY <2>2, <2>7, <3>1
      <4>2. k \in DOMAIN nodes' /\ \A j \in DOMAIN todo' : todo'[j].index # k
        BY <2>6, <4>1
      <4>3. p2[k] = path[k] /\ p2[i] = path[i] /\ l2[i] = lab[i]
        BY <1>16, <3>1
      <4> QED
        BY <4>1, <4>2, <4>3
    <3>2. CASE i - N \in 1 .. K /\ N + (i - N) = i
      <4>1. /\ p2[i] = kids[i - N] /\ l2[i] = From(Len(call.path), kids[i - N])
            /\ p2[call.index] = call.path /\ kids[i - N] \in Children(call.path)
        BY <1>6, <1>8, <1>16, <3>2
      <4>2. PICK k \in 1 .. N : k = call.index
        BY <1>6
      <4>3. k \in DOMAIN nodes' /\ \A j \in DOMAIN todo' : todo'[j].index # k
        BY <2>6, <4>2
      <4> QED
        BY <4>1, <4>2, <4>3
    <3> QED
      BY <2>3, <3>1, <3>2
  <2>8. l2[1] = <<>>
    <3>1. 1 \in 1 .. N
      BY <1>1, <1>2
    <3> QED
      BY <1>16, <2>2, <3>1
  <2> QED
    BY <1>14, <2>1, <2>5, <2>7, <2>8 DEF Family, Pending
<1>20. Represents(p2, l2)'
  <2>1. \A i \in DOMAIN nodes' : Pending(i)' \/ SetUp(i, p2, l2)'
    BY <1>18 DEF Pending
  <2>2. Node' = Node
    BY DEF Node
  <2> QED
    BY <1>14, <1>16, <1>17, <1>19, <1>21, <2>1, <2>2 DEF Represents
<1> QED
  <2>1. values' \in Seq(Values)
    BY <1>9 DEF v
  <2> QED
    BY <1>20, <2>1 DEF Translated


-----------------------------------------------------------------------------
(* What is left of a label below one of its prefixes.                      *)

LEMMA FromFacts ==
    ASSUME NEW p \in Words, NEW t \in Words, IsPrefix(p, t)
    PROVE  /\ From(Len(p), t) \in Words /\ Len(From(Len(p), t)) = Len(t) - Len(p)
           /\ \A i \in 1 .. Len(t) - Len(p) : From(Len(p), t)[i] = t[Len(p) + i]
           /\ From(Len(p), t) = <<>> <=> p = t
<1>1. Len(p) \in Nat /\ Len(t) \in Nat /\ Len(p) <= Len(t)
    BY PrefixFacts
<1>2. /\ From(Len(p), t) \in Words /\ Len(From(Len(p), t)) = Len(t) - Len(p)
      /\ \A i \in 1 .. Len(t) - Len(p) : From(Len(p), t)[i] = t[Len(p) + i]
    BY <1>1 DEF From, Words
<1>3. From(Len(p), t) = <<>> <=> Len(From(Len(p), t)) = 0
    BY <1>2 DEF Words
<1>4. Len(p) = Len(t) => p = t
    BY PrefixFacts
<1> QED
    BY <1>1, <1>2, <1>3, <1>4

LEMMA FromSelf ==
    ASSUME NEW t \in Words
    PROVE  From(0, t) = t
<1>1. /\ From(0, t) \in Words /\ Len(From(0, t)) = Len(t)
      /\ \A i \in 1 .. Len(t) : From(0, t)[i] = t[i]
    BY DEF From, Words
<1> QED
    BY <1>1, Equal

(* Going on with a child whose label is what it adds to its parent.        *)
LEMMA FromChild ==
    ASSUME NEW p \in Words, NEW c \in Words, NEW t \in Words, IsPrefix(p, c), IsPrefix(p, t)
    PROVE  /\ IsPrefix(From(Len(p), c), From(Len(p), t)) <=> IsPrefix(c, t)
           /\ IsPrefix(c, t) => From(Len(From(Len(p), c)), From(Len(p), t)) = From(Len(c), t)
<1> DEFINE P == Len(p)
           fc == From(P, c)
           ft == From(P, t)
<1>1. /\ P \in Nat /\ Len(c) \in Nat /\ Len(t) \in Nat /\ P <= Len(c) /\ P <= Len(t)
      /\ \A i \in 1 .. P : c[i] = p[i] /\ t[i] = p[i]
    BY PrefixFacts, PrefixIs
<1>2. /\ fc \in Words /\ Len(fc) = Len(c) - P
      /\ \A i \in 1 .. Len(c) - P : fc[i] = c[P + i]
      /\ ft \in Words /\ Len(ft) = Len(t) - P
      /\ \A i \in 1 .. Len(t) - P : ft[i] = t[P + i]
    BY FromFacts
<1> HIDE DEF P, fc, ft
<1>3. ASSUME IsPrefix(c, t)
      PROVE  IsPrefix(fc, ft)
  <2>1. Len(c) <= Len(t) /\ \A i \in 1 .. Len(c) : c[i] = t[i]
    BY <1>3, PrefixIs
  <2>2. Len(fc) <= Len(ft)
    BY <1>1, <1>2, <2>1
  <2>3. ASSUME NEW i \in 1 .. Len(fc)
        PROVE  fc[i] = ft[i]
    <3>1. i \in 1 .. Len(c) - P /\ i \in 1 .. Len(t) - P /\ P + i \in 1 .. Len(c)
      BY <1>1, <1>2, <2>1
    <3> QED
      BY <1>2, <2>1, <3>1
  <2> QED
    BY <1>2, <2>2, <2>3, PrefixIs
<1>4. ASSUME IsPrefix(fc, ft)
      PROVE  IsPrefix(c, t)
  <2>1. Len(fc) <= Len(ft) /\ \A i \in 1 .. Len(fc) : fc[i] = ft[i]
    BY <1>2, <1>4, PrefixIs
  <2>2. Len(c) <= Len(t)
    BY <1>1, <1>2, <2>1
  <2>3. ASSUME NEW i \in 1 .. Len(c)
        PROVE  c[i] = t[i]
    <3>1. CASE i <= P
      <4>1. i \in 1 .. P
        BY <1>1, <3>1
      <4> QED
        BY <1>1, <4>1
    <3>2. CASE ~(i <= P)
      <4>1. /\ i - P \in 1 .. Len(fc) /\ i - P \in 1 .. Len(c) - P
            /\ i - P \in 1 .. Len(t) - P /\ P + (i - P) = i
        BY <1>1, <1>2, <2>2, <3>2
      <4>2. fc[i - P] = ft[i - P] /\ fc[i - P] = c[P + (i - P)] /\ ft[i - P] = t[P + (i - P)]
        BY <1>2, <2>1, <4>1
      <4> QED
        BY <4>1, <4>2
    <3> QED
      BY <3>1, <3>2
  <2> QED
    BY <2>2, <2>3, PrefixIs
<1>5. ASSUME IsPrefix(c, t)
      PROVE  From(Len(fc), ft) = From(Len(c), t)
  <2> DEFINE a == From(Len(fc), ft)
             b == From(Len(c), t)
  <2>1. /\ a \in Words /\ Len(a) = Len(ft) - Len(fc)
        /\ \A i \in 1 .. Len(ft) - Len(fc) : a[i] = ft[Len(fc) + i]
    BY <1>2, <1>3, <1>5, FromFacts
  <2>2. /\ b \in Words /\ Len(b) = Len(t) - Len(c)
        /\ \A i \in 1 .. Len(t) - Len(c) : b[i] = t[Len(c) + i]
    BY <1>5, FromFacts
  <2>3. Len(c) <= Len(t)
    BY <1>5, PrefixFacts
  <2> HIDE DEF a, b
  <2>4. Len(a) = Len(b)
    BY <1>1, <1>2, <2>1, <2>2
  <2>5. ASSUME NEW i \in 1 .. Len(a)
        PROVE  a[i] = b[i]
    <3>1. /\ i \in 1 .. Len(ft) - Len(fc) /\ i \in 1 .. Len(t) - Len(c)
          /\ Len(fc) + i \in 1 .. Len(t) - P /\ P + (Len(fc) + i) = Len(c) + i
      BY <1>1, <1>2, <2>1, <2>2, <2>3
    <3>2. a[i] = ft[Len(fc) + i] /\ ft[Len(fc) + i] = t[P + (Len(fc) + i)] /\ b[i] = t[Len(c) + i]
      BY <1>2, <2>1, <2>2, <3>1
    <3> QED
      BY <3>1, <3>2
  <2>6. a = b
    BY <2>1, <2>2, <2>4, <2>5, Equal
  <2> QED
    BY <2>6 DEF a, b
<1> QED
    BY <1>3, <1>4, <1>5 DEF P, fc, ft

-----------------------------------------------------------------------------
(* The invariant of the vectors                                            *)

LEMMA Kept ==
    ASSUME tree' = tree, nodes' = nodes, values' = values, todo' = todo,
           NEW path, NEW lab, Represents(path, lab)
    PROVE  Represents(path, lab)'
<1>1. \A p : Children(p)' = Children(p)
    BY DEF Children, Below
<1>2. \A i : SetUp(i, path, lab)' <=> SetUp(i, path, lab)
    BY <1>1 DEF SetUp
<1>3. \A i : Pending(i)' <=> Pending(i)
    BY DEF Pending
<1>4. CallsFor(path, lab)' <=> CallsFor(path, lab)
    BY DEF CallsFor, Call
<1>5. Node' = Node
    BY DEF Node
<1>6. Family(path, lab)' <=> Family(path, lab)
    BY <1>1, <1>3 DEF Family
<1> QED
    BY <1>2, <1>3, <1>4, <1>5, <1>6 DEF Represents

LEMMA BuildRepresents ==
    ASSUME IInv, Build
    PROVE  Translated'
<1> DEFINE call == [path |-> <<>>, label |-> <<>>, index |-> 1]
<1>1. /\ op = "idle" /\ tree' = tree
      /\ nodes' = <<NewNode>> /\ todo' = <<call>>
    BY DEF Build, builder
<1>2. <<>> \in DOMAIN tree' /\ <<>> \in Words
    BY <1>1, Labels, PrefixFacts DEF IInv, Closure
<1>3. NewNode \in Node
    BY <1>2 DEF NewNode, Node
<1>4. PICK path, lab : /\ path \in [{1} -> DOMAIN tree'] /\ lab \in [{1} -> Words]
                       /\ path[1] = <<>> /\ lab[1] = <<>>
  <2>1. \E path : path \in [{1} -> DOMAIN tree'] /\ path[1] = <<>>
    <3>1. [i \in {1} |-> <<>>] \in [{1} -> DOMAIN tree'] /\ [i \in {1} |-> <<>>][1] = <<>>
      BY <1>2
    <3> QED
      BY <3>1
  <2>2. \E lab : lab \in [{1} -> Words] /\ lab[1] = <<>>
    <3>1. [i \in {1} |-> <<>>] \in [{1} -> Words] /\ [i \in {1} |-> <<>>][1] = <<>>
      BY <1>2
    <3> QED
      BY <3>1
  <2> QED
    BY <2>1, <2>2
<1>5. nodes' \in Seq(Node) /\ DOMAIN nodes' = {1}
    BY <1>1, <1>3
<1>6. call \in Call' /\ call.path = <<>> /\ call.label = <<>> /\ call.index = 1
    BY <1>2, <1>5 DEF Call
<1> HIDE DEF call
<1>7. todo' \in Seq(Call') /\ DOMAIN todo' = {1} /\ todo'[1] = call
    BY <1>1, <1>6
<1>8. CallsFor(path, lab)'
    BY <1>4, <1>6, <1>7 DEF CallsFor
<1>9. \A i \in DOMAIN nodes' : Pending(i)'
    BY <1>5, <1>6, <1>7 DEF Pending
<1>10. Node' = Node
    BY DEF Node
<1>11. Family(path, lab)'
    BY <1>4, <1>5 DEF Family
<1>12. Represents(path, lab)'
    BY <1>4, <1>5, <1>8, <1>9, <1>10, <1>11 DEF Represents
<1> QED
    BY <1>12 DEF Translated

(* With no call left every node is set up.                                 *)
LEMMA AllSetUp ==
    ASSUME IInv, NEW path, NEW lab, Represents(path, lab), todo = <<>>
    PROVE  /\ 1 \in DOMAIN nodes /\ path[1] = <<>>
           /\ \A i \in DOMAIN nodes :
                 /\ SetUp(i, path, lab) /\ path[i] \in DOMAIN tree /\ path[i] \in Words
                 /\ lab[i] \in Words
<1>1. /\ \A i \in DOMAIN nodes : Pending(i) \/ SetUp(i, path, lab)
      /\ 1 \in DOMAIN nodes /\ path[1] = <<>>
      /\ path \in [DOMAIN nodes -> DOMAIN tree] /\ lab \in [DOMAIN nodes -> Words]
    BY DEF Represents
<1>2. \A i : ~Pending(i)
    BY DEF Pending
<1>3. DOMAIN tree \subseteq Words
    BY Labels
<1> QED
    BY <1>1, <1>2, <1>3

LEMMA LookupSearches ==
    ASSUME IInv, RulesInv, VectorInv, NEW key \in Keys, Lookup(key)
    PROVE  Searched'
<1>1. /\ op = "ready" /\ label' = key /\ at' = 1 /\ rest' = key /\ best' = PrefixAt(1, None)
      /\ tree' = tree /\ nodes' = nodes /\ values' = values /\ todo' = todo
    BY DEF Lookup, builder, trie
<1>2. PICK path, lab : Represents(path, lab)
    BY <1>1 DEF VectorInv, Translated
<1>3. /\ 1 \in DOMAIN nodes /\ path[1] = <<>> /\ SetUp(1, path, lab)
    BY <1>1, <1>2, AllSetUp DEF VectorInv
<1>4. key \in Words
    BY KeysAssumption DEF Words
<1>5. IsPrefix(<<>>, key) /\ From(Len(<<>>), key) = key
    BY <1>4, FromSelf, PrefixOrder
<1>6. Indexed(best', PrefixValue(<<>>), values)
  <2>1. Indexed(nodes[1].prefix, tree[<<>>].prefix, values)
    BY <1>3 DEF SetUp
  <2>2. PrefixValue(<<>>) = tree[<<>>].prefix
    BY RootValue
  <2>3. best' = nodes[1].prefix
    BY <1>1 DEF PrefixAt
  <2> QED
    BY <2>1, <2>2, <2>3
<1>7. \A p : PrefixValue(p)' = PrefixValue(p)
    BY <1>1 DEF PrefixValue, Nearest, Above, Pushed
<1>8. Searching(path)'
    BY <1>1, <1>3, <1>5, <1>6, <1>7 DEF Searching
<1>9. Represents(path, lab)'
    BY <1>1, <1>2, Kept
<1> QED
    BY <1>8, <1>9 DEF Searched

LEMMA EnterSearches ==
    ASSUME IInv, RulesInv, VectorInv, EnterChild
    PROVE  Searched'
<1>1. /\ op = "lookup" /\ label' = label
      /\ tree' = tree /\ nodes' = nodes /\ values' = values /\ todo' = todo
    BY DEF EnterChild, builder, trie
<1>2. PICK c \in nodes[at].children :
         /\ IsPrefix(nodes[c].label, rest) /\ at' = c
         /\ rest' = From(Len(nodes[c].label), rest) /\ best' = PrefixAt(c, best)
    BY DEF EnterChild
<1>3. PICK path, lab : Represents(path, lab) /\ Searching(path)
    BY <1>1 DEF VectorInv, Searched
<1>4. todo = <<>>
    BY <1>1 DEF VectorInv
<1>5. /\ label \in Keys /\ at \in DOMAIN nodes /\ IsPrefix(path[at], label)
      /\ rest = From(Len(path[at]), label) /\ Indexed(best, PrefixValue(path[at]), values)
    BY <1>3 DEF Searching
<1>6. /\ SetUp(at, path, lab) /\ path[at] \in DOMAIN tree /\ path[at] \in Words
    BY <1>3, <1>4, <1>5, AllSetUp
<1>7. /\ c \in DOMAIN nodes /\ path[c] \in Children(path[at])
      /\ lab[c] = From(Len(path[at]), path[c])
    BY <1>6 DEF SetUp
<1>8. SetUp(c, path, lab) /\ path[c] \in Words
    BY <1>3, <1>4, <1>7, AllSetUp
<1>9. nodes[c].label = From(Len(path[at]), path[c]) /\ Indexed(nodes[c].prefix, tree[path[c]].prefix, values)
    BY <1>7, <1>8 DEF SetUp
<1>10. IsPrefix(path[at], path[c]) /\ label \in Words
    BY <1>5, <1>7, KeysAssumption DEF Children, Below, IsStrictPrefix, Words
<1>11. IsPrefix(path[c], label) /\ rest' = From(Len(path[c]), label)
    BY <1>2, <1>5, <1>6, <1>8, <1>9, <1>10, FromChild
<1>12. Indexed(best', PrefixValue(path[c]), values)
  <2>1. PrefixValue(path[c]) = IF tree[path[c]].prefix = None THEN PrefixValue(path[at])
                               ELSE tree[path[c]].prefix
    BY <1>6, <1>7, ChildValue
  <2>2. tree[path[c]].prefix = None <=> nodes[c].prefix = None
    <3>1. VectorInv /\ DOMAIN values \subseteq Nat
      BY DEF VectorInv
    <3> QED
      BY <1>9, <3>1, NoneAssumption DEF Indexed
  <2>3. best' = IF nodes[c].prefix = None THEN best ELSE nodes[c].prefix
    BY <1>2 DEF PrefixAt
  <2> QED
    BY <1>5, <1>9, <2>1, <2>2, <2>3
<1>13. \A p : PrefixValue(p)' = PrefixValue(p)
    BY <1>1 DEF PrefixValue, Nearest, Above, Pushed
<1>14. Searching(path)'
    BY <1>1, <1>2, <1>5, <1>7, <1>11, <1>12, <1>13 DEF Searching
<1>15. Represents(path, lab)'
    BY <1>1, <1>3, Kept
<1> QED
    BY <1>14, <1>15 DEF Searched

LEMMA VectorInit ==
    Init => VectorInv
BY DEF Init, VectorInv

LEMMA VectorNext ==
    IInv /\ RulesInv /\ VectorInv /\ [Next]_vars => VectorInv'
<1> SUFFICES ASSUME IInv, RulesInv, VectorInv, [Next]_vars PROVE VectorInv'
    OBVIOUS
<1>1. ASSUME op' \in {"idle", "push"}, values' = values
      PROVE  VectorInv'
    BY <1>1 DEF VectorInv
<1>2. ASSUME NEW key \in Keys, NEW e \in Values, NEW p \in Values \union {None},
             Push(key, [exact |-> e, prefix |-> p])
      PROVE  VectorInv'
    BY <1>1, <1>2 DEF Push, trie
<1>3. CASE Descend \/ Split \/ Store
    BY <1>1, <1>3 DEF Descend, Split, Store, trie
<1>4. CASE Build
    BY <1>4, BuildRepresents DEF Build, VectorInv
<1>5. CASE Transfer
  <2>1. op = "build" /\ op' = "build"
    BY <1>5 DEF Transfer
  <2>2. PICK path, lab : Represents(path, lab)
    BY <2>1 DEF VectorInv, Translated
  <2>3. values' \in Seq(Values) /\ Translated'
    BY <1>5, <2>2, TransferRepresents DEF VectorInv
  <2> QED
    BY <2>1, <2>3 DEF VectorInv
<1>6. ASSUME tree' = tree, nodes' = nodes, values' = values, todo' = todo
      PROVE  (Translated => Translated') /\ (Searched => Translated)
  <2>1. Translated => Translated'
    BY <1>6, Kept DEF Translated
  <2> QED
    BY <2>1 DEF Translated, Searched
<1>7. CASE Built
  <2>1. /\ op = "build" /\ op' = "ready" /\ todo = <<>>
        /\ tree' = tree /\ nodes' = nodes /\ values' = values /\ todo' = todo
    BY <1>7 DEF Built, builder, trie
  <2> QED
    BY <1>6, <2>1 DEF VectorInv
<1>8. ASSUME NEW key \in Keys, Lookup(key)
      PROVE  VectorInv'
  <2>1. op = "ready" /\ op' = "lookup" /\ values' = values /\ todo' = todo
    BY <1>8 DEF Lookup, trie
  <2> QED
    BY <1>8, <2>1, LookupSearches DEF VectorInv
<1>9. CASE EnterChild
  <2>1. op = "lookup" /\ op' = "lookup" /\ values' = values /\ todo' = todo
    BY <1>9 DEF EnterChild, trie
  <2> QED
    BY <1>9, <2>1, EnterSearches DEF VectorInv
<1>10. CASE EndOfLabel \/ NoMatch
  <2>1. /\ op = "lookup" /\ op' = "ready"
        /\ tree' = tree /\ nodes' = nodes /\ values' = values /\ todo' = todo
    BY <1>10 DEF EndOfLabel, NoMatch, Answer, builder, trie
  <2> QED
    BY <1>6, <2>1 DEF VectorInv
<1>11. CASE UNCHANGED vars
  <2>1. /\ op' = op /\ label' = label /\ at' = at /\ rest' = rest /\ best' = best
        /\ tree' = tree /\ nodes' = nodes /\ values' = values /\ todo' = todo
    BY <1>11 DEF vars, builder, trie, search
  <2>2. ASSUME Searched
        PROVE  Searched'
    <3>1. PICK path, lab : Represents(path, lab) /\ Searching(path)
      BY <2>2 DEF Searched
    <3>2. \A p : PrefixValue(p)' = PrefixValue(p)
      BY <2>1 DEF PrefixValue, Nearest, Above, Pushed
    <3>3. Searching(path)'
      BY <2>1, <3>1, <3>2 DEF Searching
    <3>4. Represents(path, lab)'
      BY <2>1, <3>1, Kept
    <3> QED
      BY <3>3, <3>4 DEF Searched
  <2> QED
    BY <1>6, <2>1, <2>2 DEF VectorInv
<1> QED
    BY <1>2, <1>3, <1>4, <1>5, <1>7, <1>8, <1>9, <1>10, <1>11 DEF Next

-----------------------------------------------------------------------------
(***************************************************************************)
(* What a lookup that stops has found.                                     *)
(***************************************************************************)

(* A path in the tree below a node is below one of its children.           *)
LEMMA ChildTowards ==
    ASSUME IInv, NEW p \in DOMAIN tree, NEW k \in DOMAIN tree, IsPrefix(p, k), p # k
    PROVE  \E n \in Children(p) : IsPrefix(n, k)
<1>1. p \in Words /\ k \in Words /\ DOMAIN tree \subseteq Words
    BY Labels
<1> DEFINE Between == {n \in DOMAIN tree : IsPrefix(p, n) /\ p # n /\ IsPrefix(n, k)}
           Lengths == {Len(n) : n \in Between}
<1>2. k \in Between
    BY <1>1, PrefixOrder
<1>3. Lengths \in SUBSET Nat /\ Lengths # {}
  <2>1. Between \subseteq Words /\ Between # {}
    BY <1>1, <1>2
  <2>2. \A n \in Words : Len(n) \in Nat
    BY PrefixFacts
  <2> HIDE DEF Between
  <2> QED
    BY <2>1, <2>2
<1>4. PICK l \in Lengths : \A j \in Lengths : ~(j < l)
    BY <1>3, LeastNumber
<1>5. PICK n \in Between : l = Len(n)
    OBVIOUS
<1>6. \A m \in Between : ~(Len(m) < Len(n))
    BY <1>4, <1>5
<1>7. n \in DOMAIN tree /\ n \in Words /\ IsPrefix(p, n) /\ p # n /\ IsPrefix(n, k)
    BY <1>1
<1>8. n \in Below(p)
    BY <1>7 DEF Below, IsStrictPrefix
<1>9. ASSUME NEW m \in Below(p), IsStrictPrefix(m, n)
      PROVE  FALSE
  <2>1. /\ m \in DOMAIN tree /\ m \in Words /\ IsPrefix(p, m) /\ p # m
        /\ IsPrefix(m, n) /\ m # n
    BY <1>1, <1>9 DEF Below, IsStrictPrefix
  <2>2. m \in Between
    BY <1>1, <1>7, <2>1, PrefixOrder
  <2>3. Len(m) <= Len(n) /\ Len(m) # Len(n) /\ Len(m) \in Nat /\ Len(n) \in Nat
    BY <1>7, <2>1, PrefixFacts
  <2>4. Len(m) < Len(n)
    BY <2>3
  <2> QED
    BY <1>6, <2>2, <2>4
<1> QED
    BY <1>7, <1>8, <1>9 DEF Children

(* Children of a node part right below it.                                 *)
LEMMA ChildrenPart ==
    ASSUME IInv, op # "push", NEW p \in DOMAIN tree, NEW n \in Children(p), NEW m \in Children(p),
           n[Len(p) + 1] = m[Len(p) + 1]
    PROVE  n = m
<1>1. /\ p \in Words /\ n \in DOMAIN tree /\ m \in DOMAIN tree /\ n \in Words /\ m \in Words
      /\ IsPrefix(p, n) /\ p # n /\ IsPrefix(p, m) /\ p # m
    BY Labels DEF Children, Below, IsStrictPrefix
<1> DEFINE w == CommonPath(n, m)
           q == SubSeq(n, 1, Len(p) + 1)
<1>2. /\ Len(p) \in Nat /\ Len(n) \in Nat /\ Len(m) \in Nat /\ Len(p) <= Len(n) /\ Len(p) <= Len(m)
      /\ Len(p) # Len(n) /\ Len(p) # Len(m)
      /\ \A i \in 1 .. Len(p) : p[i] = n[i] /\ p[i] = m[i]
    BY <1>1, PrefixFacts, PrefixIs
<1>3. /\ q \in Words /\ Len(q) = Len(p) + 1
      /\ \A i \in 1 .. Len(p) + 1 : q[i] = n[i]
    BY <1>1, <1>2 DEF Words
<1> HIDE DEF q
<1>4. \A i \in 1 .. Len(p) + 1 : i \in 1 .. Len(p) \/ i = Len(p) + 1
    BY <1>2
<1>5. IsPrefix(q, n) /\ IsPrefix(q, m)
  <2>1. IsPrefix(q, n)
    BY <1>1, <1>2, <1>3, PrefixIs
  <2>2. Len(q) <= Len(m)
    BY <1>2, <1>3
  <2>3. \A i \in 1 .. Len(q) : q[i] = m[i]
    BY <1>2, <1>3, <1>4
  <2> QED
    BY <1>1, <1>3, <2>1, <2>2, <2>3, PrefixIs
<1>6. w \in Words /\ IsPrefix(q, w) /\ IsPrefix(w, n) /\ IsPrefix(w, m) /\ IsPrefix(p, w)
    BY <1>1, <1>3, <1>5, CommonPrefix
<1>7. w \in DOMAIN tree
  <2>1. DOMAIN tree = Closure(Pushed) /\ Pushed \subseteq Words
    BY Labels DEF IInv
  <2> QED
    BY <1>1, <2>1, ClosureClosed
<1>8. p # w
  <2>1. Len(q) <= Len(w)
    BY <1>3, <1>6, PrefixFacts
  <2> QED
    BY <1>2, <1>3, <2>1
<1> HIDE DEF w
<1>9. w = n /\ w = m
    BY <1>6, <1>7, <1>8 DEF Children, Below, IsStrictPrefix
<1> QED
    BY <1>9

(* A lookup that finds no child to enter is below no other node.           *)
LEMMA NothingBelow ==
    ASSUME IInv, op = "lookup", NEW path, NEW lab, Represents(path, lab), Searching(path),
           todo = <<>>,
           rest # <<>>, \A c \in nodes[at].children : Candidate(c) => ~IsPrefix(nodes[c].label, rest),
           NEW k \in DOMAIN tree, IsPrefix(k, label)
    PROVE  IsPrefix(k, path[at])
<1> DEFINE p == path[at]
<1>1. /\ label \in Words /\ at \in DOMAIN nodes /\ IsPrefix(p, label)
      /\ rest = From(Len(p), label)
    BY KeysAssumption DEF Searching, Words
<1>2. SetUp(at, path, lab) /\ p \in DOMAIN tree /\ p \in Words /\ k \in Words
    BY <1>1, AllSetUp, Labels
<1> SUFFICES ASSUME ~IsPrefix(k, p) PROVE FALSE
    OBVIOUS
<1>3. IsPrefix(p, k) /\ p # k
    BY <1>1, <1>2, PrefixOrder
<1>4. PICK n \in Children(p) : IsPrefix(n, k)
    BY <1>2, <1>3, ChildTowards
<1>5. /\ n \in Words /\ IsPrefix(p, n) /\ p # n /\ IsPrefix(n, label)
  <2>1. n \in DOMAIN tree /\ IsPrefix(p, n) /\ p # n
    BY DEF Children, Below, IsStrictPrefix
  <2> QED
    BY <1>1, <1>2, <1>4, <2>1, Labels, PrefixOrder
(* What a child's label is: its first segment tells the children apart.    *)
<1>6. ASSUME NEW c \in nodes[at].children
      PROVE  /\ c \in DOMAIN nodes /\ path[c] \in Children(p) /\ path[c] \in Words
             /\ nodes[c].label = From(Len(p), path[c])
             /\ nodes[c].label[1] = path[c][Len(p) + 1]
  <2>1. c \in DOMAIN nodes /\ path[c] \in Children(p) /\ lab[c] = From(Len(p), path[c])
    BY <1>2 DEF SetUp
  <2>2. SetUp(c, path, lab) /\ path[c] \in Words
    BY <2>1, AllSetUp
  <2>3. nodes[c].label = From(Len(p), path[c])
    BY <2>1, <2>2 DEF SetUp
  <2>4. IsPrefix(p, path[c]) /\ p # path[c]
    BY <2>1 DEF Children, Below, IsStrictPrefix
  <2>5. /\ Len(p) \in Nat /\ Len(path[c]) \in Nat /\ Len(p) <= Len(path[c])
        /\ Len(p) # Len(path[c])
    BY <1>2, <2>2, <2>4, PrefixFacts
  <2>6. 1 \in 1 .. Len(path[c]) - Len(p)
    BY <2>5
  <2>7. From(Len(p), path[c])[1] = path[c][Len(p) + 1]
    BY <1>2, <2>2, <2>4, <2>6, FromFacts
  <2> QED
    BY <2>1, <2>2, <2>3, <2>7
<1>7. rest[1] = n[Len(p) + 1]
  <2> HIDE DEF p
  <2>1. /\ Len(p) \in Nat /\ Len(n) \in Nat /\ Len(p) <= Len(n) /\ Len(p) # Len(n)
        /\ Len(label) \in Nat /\ Len(n) <= Len(label)
    BY <1>1, <1>2, <1>5, PrefixFacts
  <2>2. 1 \in 1 .. Len(label) - Len(p) /\ Len(p) + 1 \in 1 .. Len(n)
    BY <2>1
  <2>3. rest[1] = label[Len(p) + 1]
    <3>1. p \in Words /\ label \in Words /\ IsPrefix(p, label)
      BY <1>1, <1>2
    <3>2. \A i \in 1 .. Len(label) - Len(p) : From(Len(p), label)[i] = label[Len(p) + i]
      BY <3>1, FromFacts
    <3> QED
      BY <1>1, <2>2, <3>2
  <2>4. n[Len(p) + 1] = label[Len(p) + 1]
    BY <1>1, <1>5, <2>2, PrefixIs
  <2> QED
    BY <2>3, <2>4
<1> HIDE DEF p
<1>8. PICK c \in nodes[at].children : path[c] = n
    BY <1>2 DEF SetUp, p
<1>9. c \in Candidates
    BY <1>6, <1>7, <1>8 DEF Candidates
<1>10. Candidates \in SUBSET Nat
  <2>1. Candidates \subseteq DOMAIN nodes
    BY <1>6 DEF Candidates
  <2>2. DOMAIN nodes \subseteq Nat
    BY DEF Represents
  <2> QED
    BY <2>1, <2>2
<1>11. PICK d \in Candidates : \A e \in Candidates : ~(e < d)
    BY <1>9, <1>10, LeastNumber
<1>12. d \in nodes[at].children /\ nodes[d].label[1] = rest[1]
    BY DEF Candidates
<1>13. Candidate(d)
  <2>1. \A e \in Candidates : d <= e
    BY <1>10, <1>11
  <2> QED
    BY <2>1 DEF Candidate
<1>14. path[d] = n
  <2>1. path[d] \in Children(p) /\ path[d][Len(p) + 1] = n[Len(p) + 1]
    BY <1>6, <1>7, <1>12
  <2> QED
    BY <1>2, <2>1, ChildrenPart
<1>15. IsPrefix(nodes[d].label, rest)
  <2>1. nodes[d].label = From(Len(p), n)
    BY <1>6, <1>12, <1>14
  <2> QED
    BY <1>1, <1>2, <1>5, <2>1, FromChild
<1> QED
    BY <1>12, <1>13, <1>15

-----------------------------------------------------------------------------
(***************************************************************************)
(* Each step is one of a routing table, or none.                           *)
(***************************************************************************)

IsOpen == op \in {"idle", "push"}
Asked == IF op = "lookup" THEN label ELSE None
TableVars == <<Rules, IsOpen, Asked, answer>>

LEMMA TableStutters ==
    ASSUME Rules' = Rules, IsOpen' = IsOpen, Asked' = Asked, answer' = answer
    PROVE  [Table!Next]_(Table!vars)
BY DEF Table!vars, Rules, IsOpen, Asked

LEMMA SameRules ==
    ASSUME tree' = tree
    PROVE  Rules' = Rules
BY DEF Rules, Pushed

LEMMA InitTable ==
    Init => Table!Init
<1> SUFFICES ASSUME Init PROVE Table!Init
    OBVIOUS
<1>1. Pushed = {} /\ op = "idle" /\ answer = None
    BY DEF Init, Pushed, NoRule
<1>2. [p \in Pushed |-> tree[p]] = <<>>
    BY <1>1
<1> QED
    BY <1>1, <1>2 DEF Table!Init

LEMMA SplitTable ==
    ASSUME IInv, Split
    PROVE  Rules' = Rules
<1>1. PICK node \in DOMAIN tree :
         Match(node) /\ Common(node) # node /\ tree' = WithRule(Common(node), NoRule)
    BY DEF Split
<1>2. op = "push"
    BY DEF Split
<1>3. Common(node) \notin DOMAIN tree
    BY <1>1, <1>2, Matching
<1>4. Pushed' = Pushed /\ \A p \in Pushed : tree'[p] = tree[p]
    BY <1>1, <1>3 DEF Pushed, WithRule, NoRule
<1> QED
    BY <1>4 DEF Rules

LEMMA StoreTable ==
    ASSUME IInv, RulesInv, Store
    PROVE  Table!Next
<1>1. /\ op = "push" /\ op' = "idle" /\ tree' = WithRule(label, pair) /\ answer' = answer
    BY DEF Store
<1>2. label \in Keys /\ pair.exact # None
    BY <1>1 DEF IInv, Passed
<1>3. PICK e \in Values, p \in Values \union {None} : pair = [exact |-> e, prefix |-> p]
    BY <1>1 DEF RulesInv
<1>4. Pushed' = Pushed \union {label}
    BY <1>1, <1>2 DEF WithRule, Pushed
<1>5. \A k \in Pushed' : tree'[k] = IF k = label THEN pair ELSE tree[k]
    BY <1>1, <1>4 DEF WithRule, Pushed
<1>6. Rules' = [k \in DOMAIN Rules \union {label} |-> IF k = label THEN pair ELSE Rules[k]]
    BY <1>4, <1>5 DEF Rules
<1>7. IsOpen /\ IsOpen' /\ Asked = None /\ Asked' = None
    BY <1>1 DEF IsOpen, Asked
<1>8. Table!Add(label, [exact |-> e, prefix |-> p])
    BY <1>1, <1>3, <1>6, <1>7 DEF Table!Add, Rules, IsOpen, Asked
<1> QED
    BY <1>2, <1>8 DEF Table!Next

LEMMA StopTable ==
    ASSUME IInv, RulesInv, VectorInv, EndOfLabel \/ NoMatch
    PROVE  Table!Next
<1>1. op = "lookup" /\ todo = <<>>
    BY DEF EndOfLabel, NoMatch, VectorInv
<1>2. PICK path, lab : Represents(path, lab) /\ Searching(path)
    BY <1>1 DEF VectorInv, Searched
<1> DEFINE p == path[at]
<1>3. /\ label \in Keys /\ label \in Words /\ at \in DOMAIN nodes /\ IsPrefix(p, label)
      /\ rest = From(Len(p), label) /\ Indexed(best, PrefixValue(p), values)
    BY <1>2, KeysAssumption DEF Searching, Words
<1>4. SetUp(at, path, lab) /\ p \in DOMAIN tree /\ p \in Words
    BY <1>1, <1>2, <1>3, AllSetUp
<1>5. rest = <<>> <=> p = label
    BY <1>3, <1>4, FromFacts
<1>6. ASSUME NEW i, NEW w, Indexed(i, w, values)
      PROVE  ValueAt(i) = w /\ (i = None <=> w = None)
  <2>1. DOMAIN values \subseteq Nat
    BY DEF VectorInv
  <2> QED
    BY <1>6, <2>1, NoneAssumption DEF Indexed, ValueAt
<1> HIDE DEF p
<1>7. Table!BestMatch(Rules, label) = IF label \in Pushed THEN tree[label].exact
                                      ELSE PrefixValue(label)
    BY <1>3, MatchIs
<1>10. ASSUME NEW i, Answer(i), ValueAt(i) = Table!BestMatch(Rules, label)
       PROVE  Table!Next
  <2>1. /\ answer' = [key |-> label, value |-> Table!BestMatch(Rules, label)]
        /\ op' = "ready" /\ tree' = tree
    BY <1>10 DEF Answer, builder
  <2>2. IsOpen' = IsOpen /\ Asked = label /\ Asked' = None /\ label # None
    BY <1>1, <1>3, <2>1, NoneAssumption DEF IsOpen, Asked
  <2>3. Rules' = Rules
    BY <2>1, SameRules
  <2>4. Table!Reply
    BY <2>1, <2>2, <2>3 DEF Table!Reply, Rules, IsOpen, Asked
  <2> QED
    BY <2>4 DEF Table!Next
<1>8. CASE EndOfLabel
  <2>1. /\ p = label /\ Answer(IF nodes[at].exact = None THEN best ELSE nodes[at].exact)
    BY <1>5, <1>8 DEF EndOfLabel
  <2>2. Indexed(nodes[at].exact, tree[label].exact, values)
    BY <1>4, <2>1 DEF SetUp, p
  <2>3. label \in Pushed <=> nodes[at].exact # None
    BY <1>4, <1>6, <2>1, <2>2 DEF Pushed
  <2>4. ValueAt(IF nodes[at].exact = None THEN best ELSE nodes[at].exact)
          = Table!BestMatch(Rules, label)
    BY <1>3, <1>6, <1>7, <2>1, <2>2, <2>3
  <2> QED
    BY <1>10, <2>1, <2>4
<1>9. CASE NoMatch
  <2>1. /\ p # label /\ Answer(best)
        /\ rest # <<>> /\ \A c \in nodes[at].children : Candidate(c) => ~IsPrefix(nodes[c].label, rest)
    BY <1>5, <1>9 DEF NoMatch
  <2>2. ASSUME NEW k \in DOMAIN tree
        PROVE  IsPrefix(k, label) <=> IsPrefix(k, p)
    <3>1. k \in Words
      BY Labels
    <3>2. IsPrefix(k, label) => IsPrefix(k, p)
      BY <1>1, <1>2, <2>1, NothingBelow DEF p
    <3> QED
      BY <1>3, <1>4, <3>1, <3>2, PrefixOrder
  <2>3. label \notin Pushed
    <3>1. CASE label \in DOMAIN tree
      <4>1. IsPrefix(label, label)
        BY <1>3, PrefixOrder
      <4> QED
        BY <1>3, <1>4, <2>1, <2>2, <3>1, <4>1, PrefixOrder
    <3> QED
      BY <3>1 DEF Pushed
  <2>4. PrefixValue(label) = PrefixValue(p)
    BY <2>2, SameAncestors
  <2> QED
    BY <1>3, <1>6, <1>7, <1>10, <2>1, <2>3, <2>4
<1> QED
    BY <1>8, <1>9

LEMMA StepTable ==
    IInv /\ RulesInv /\ VectorInv /\ [Next]_vars => [Table!Next]_(Table!vars)
<1> SUFFICES ASSUME IInv, RulesInv, VectorInv, [Next]_vars
             PROVE  [Table!Next]_(Table!vars)
    OBVIOUS
<1>1. ASSUME tree' = tree, answer' = answer, IsOpen' = IsOpen, Asked' = Asked
      PROVE  [Table!Next]_(Table!vars)
    BY <1>1, SameRules, TableStutters
<1>2. ASSUME NEW key \in Keys, NEW e \in Values, NEW p \in Values \union {None},
             Push(key, [exact |-> e, prefix |-> p])
      PROVE  [Table!Next]_(Table!vars)
    BY <1>1, <1>2 DEF Push, IsOpen, Asked
<1>3. CASE Descend
    BY <1>1, <1>3 DEF Descend, builder, IsOpen, Asked
<1>4. CASE Split
  <2>1. op' = op /\ label' = label /\ answer' = answer
    BY <1>4 DEF Split
  <2>2. IsOpen' = IsOpen /\ Asked' = Asked
    BY <2>1 DEF IsOpen, Asked
  <2> QED
    BY <1>4, <2>1, <2>2, SplitTable, TableStutters
<1>5. CASE Store
    BY <1>5, StoreTable
<1>6. CASE Build
  <2>1. op = "idle" /\ op' = "build" /\ tree' = tree /\ answer' = answer
    BY <1>6 DEF Build, builder
  <2>2. IsOpen /\ ~IsOpen' /\ Asked = None /\ Asked' = None
    BY <2>1 DEF IsOpen, Asked
  <2>3. Rules' = Rules
    BY <2>1, SameRules
  <2>4. Table!Close
    BY <2>1, <2>2, <2>3 DEF Table!Close, Rules, IsOpen, Asked
  <2> QED
    BY <2>4 DEF Table!Next
<1>7. CASE Transfer \/ Built
    BY <1>1, <1>7 DEF Transfer, Built, builder, IsOpen, Asked
<1>8. ASSUME NEW key \in Keys, Lookup(key)
      PROVE  [Table!Next]_(Table!vars)
  <2>1. op = "ready" /\ op' = "lookup" /\ tree' = tree /\ label' = key /\ answer' = None
    BY <1>8 DEF Lookup, builder
  <2>2. ~IsOpen /\ ~IsOpen' /\ Asked = None /\ Asked' = key
    BY <2>1 DEF IsOpen, Asked
  <2>3. Rules' = Rules
    BY <2>1, SameRules
  <2>4. Table!Ask(key)
    BY <2>1, <2>2, <2>3 DEF Table!Ask, Rules, IsOpen, Asked
  <2> QED
    BY <1>8, <2>4 DEF Table!Next
<1>9. CASE EnterChild
    BY <1>1, <1>9 DEF EnterChild, builder, IsOpen, Asked
<1>10. CASE EndOfLabel \/ NoMatch
    BY <1>10, StopTable
<1>11. CASE UNCHANGED vars
    BY <1>1, <1>11 DEF vars, builder, IsOpen, Asked
<1> QED
    BY <1>2, <1>3, <1>4, <1>5, <1>6, <1>7, <1>8, <1>9, <1>10, <1>11 DEF Next

(* Whatever is pushed, in whichever order, and looked up once the vectors  *)
(* have been built: the trie answers like a routing table, with the value  *)
(* of the label itself or else of its closest ancestor that has one.       *)
THEOREM TrieIsRouteTable ==
    Spec => IsRouteTable
<1>1. Init => IInv /\ RulesInv /\ VectorInv
    BY InitInv, RulesInit, VectorInit
<1>2. Spec => [](RulesInv /\ VectorInv)
    BY <1>1, Invariance, RulesNext, VectorNext, PTL DEF Spec
<1> QED
    BY <1>2, Invariance, InitTable, StepTable, PTL DEF Spec, IsRouteTable, Table!Spec


-----------------------------------------------------------------------------
(***************************************************************************)
(* The counters.  A byte of a label is a segment, named by the path that   *)
(* ends in it, or the separator behind one: there is one separator for     *)
(* each segment that does not end a node.                                  *)
(***************************************************************************)

Spelled == {w \in Words \ {<<>>} : \E p \in DOMAIN tree : IsPrefix(w, p)}

CountInv ==
    /\ count = Cardinality(DOMAIN tree)
    /\ IsFiniteSet(Spelled)
    /\ size = Cardinality(Spelled) + Cardinality(Spelled \ DOMAIN tree)

Between(q, p) == {w \in Words : IsPrefix(w, p) /\ ~IsPrefix(w, q)}

LEMMA BetweenCounted ==
    ASSUME NEW q \in Words, NEW p \in Words, IsPrefix(q, p)
    PROVE  /\ IsFiniteSet(Between(q, p)) /\ Cardinality(Between(q, p)) = Len(p) - Len(q)
           /\ <<>> \notin Between(q, p)
<1> DEFINE D == Between(q, p)
           I == Len(q) + 1 .. Len(p)
           f == [i \in I |-> SubSeq(p, 1, i)]
<1>1. Len(q) \in Nat /\ Len(p) \in Nat /\ Len(q) <= Len(p)
    BY PrefixFacts
<1>2. ASSUME NEW i \in I
      PROVE  /\ SubSeq(p, 1, i) \in Words /\ Len(SubSeq(p, 1, i)) = i
             /\ IsPrefix(SubSeq(p, 1, i), p)
  <2>1. i \in 1 .. Len(p)
    BY <1>1
  <2>2. /\ SubSeq(p, 1, i) \in Words /\ Len(SubSeq(p, 1, i)) = i
        /\ \A j \in 1 .. i : SubSeq(p, 1, i)[j] = p[j]
    BY <2>1 DEF Words
  <2> DEFINE v == SubSeq(p, 1, i)
  <2>3. i <= Len(p) /\ \A j \in 1 .. i : v[j] = p[j]
    BY <2>1, <2>2
  <2>4. v \in Words /\ Len(v) = i
    BY <2>2
  <2> HIDE DEF v
  <2>5. IsPrefix(v, p)
    BY <2>3, <2>4, PrefixIs
  <2> QED
    BY <2>4, <2>5 DEF v
<1>3. ASSUME NEW i \in I
      PROVE  SubSeq(p, 1, i) \in D
  <2>1. ~IsPrefix(SubSeq(p, 1, i), q)
    <3> DEFINE v == SubSeq(p, 1, i)
    <3>1. ~(i <= Len(q))
      BY <1>1
    <3>2. v \in Words /\ Len(v) = i
      BY <1>2
    <3> HIDE DEF v
    <3>3. ~IsPrefix(v, q)
      BY <3>1, <3>2, PrefixFacts
    <3> QED
      BY <3>3 DEF v
  <2> QED
    BY <1>2, <2>1 DEF Between
<1>4. ASSUME NEW w \in D
      PROVE  Len(w) \in I /\ w = SubSeq(p, 1, Len(w))
  <2>1. w \in Words /\ IsPrefix(w, p) /\ ~IsPrefix(w, q)
    BY DEF Between
  <2>2. Len(w) \in Nat /\ Len(w) <= Len(p)
    BY <2>1, PrefixFacts
  <2>3. ~(Len(w) <= Len(q))
    BY <2>1, PrefixFacts
  <2>4. Len(w) \in I
    BY <1>1, <2>2, <2>3
  <2> DEFINE v == SubSeq(p, 1, Len(w))
  <2>5. v \in Words /\ Len(v) = Len(w) /\ IsPrefix(v, p)
    BY <1>2, <2>4
  <2> HIDE DEF v
  <2>6. IsPrefix(w, v)
    BY <2>1, <2>2, <2>5, PrefixFacts
  <2>7. w = v
    BY <2>1, <2>5, <2>6, PrefixFacts
  <2> QED
    BY <2>4, <2>7 DEF v
<1> HIDE DEF D
<1>5. f \in [I -> D] /\ \A i \in I : Len(f[i]) = i
    BY <1>2, <1>3
<1>6. \A a, b \in I : f[a] = f[b] => a = b
    BY <1>5
<1>7. \A w \in D : \E i \in I : f[i] = w
    BY <1>4
<1> HIDE DEF f, I
<1>8. ExistsBijection(I, D)
  <2>1. f \in Bijection(I, D)
    BY <1>5, <1>6, <1>7, Fun_IsBij
  <2> QED
    BY <2>1 DEF ExistsBijection
<1>9. IsFiniteSet(I) /\ Cardinality(I) = Len(p) - Len(q)
  <2>1. Len(q) + 1 \in Int /\ Len(p) \in Int
    BY <1>1
  <2>2. IsFiniteSet(I) /\ Cardinality(I) = IF Len(q) + 1 > Len(p) THEN 0 ELSE Len(p) - (Len(q) + 1) + 1
    BY <2>1, FS_Interval DEF I
  <2> QED
    BY <1>1, <2>2
<1>10. IsFiniteSet(D) /\ Cardinality(D) = Cardinality(I)
    BY <1>8, <1>9, FS_Bijection
<1>11. <<>> \notin D
    BY PrefixOrder DEF D, Between
<1> QED
    BY <1>9, <1>10, <1>11 DEF D

(* Segments and separators that are added to others.                       *)
LEMMA Together ==
    ASSUME NEW S, NEW T, NEW N, IsFiniteSet(S), IsFiniteSet(T), S \cap T = {}
    PROVE  /\ IsFiniteSet(S \union T)
           /\ Cardinality(S \union T) = Cardinality(S) + Cardinality(T)
           /\ Cardinality((S \union T) \ N) = Cardinality(S \ N) + Cardinality(T \ N)
           /\ Cardinality(S) \in Nat /\ Cardinality(T) \in Nat
           /\ Cardinality(S \ N) \in Nat /\ Cardinality(T \ N) \in Nat
<1>1. IsFiniteSet({}) /\ Cardinality({}) = 0
    BY FS_EmptySet
<1>2. ASSUME NEW A, NEW B, IsFiniteSet(A), IsFiniteSet(B), A \cap B = {}
      PROVE  /\ IsFiniteSet(A \union B) /\ Cardinality(A) \in Nat /\ Cardinality(B) \in Nat
             /\ Cardinality(A \union B) = Cardinality(A) + Cardinality(B)
  <2>1. Cardinality(A) \in Nat /\ Cardinality(B) \in Nat
    BY <1>2, FS_CardinalityType
  <2>2. /\ IsFiniteSet(A \union B)
        /\ Cardinality(A \union B) = Cardinality(A) + Cardinality(B) - Cardinality(A \cap B)
    BY <1>2, FS_Union
  <2>3. Cardinality(A \cap B) = 0
    BY <1>1, <1>2
  <2> QED
    BY <2>1, <2>2, <2>3
<1>3. IsFiniteSet(S \ N) /\ IsFiniteSet(T \ N)
    BY FS_Difference
<1>4. (S \ N) \cap (T \ N) = {} /\ (S \union T) \ N = (S \ N) \union (T \ N)
    OBVIOUS
<1>5. Cardinality((S \ N) \union (T \ N)) = Cardinality(S \ N) + Cardinality(T \ N)
    BY <1>2, <1>3, <1>4
<1>6. Cardinality(S \ N) \in Nat /\ Cardinality(T \ N) \in Nat
    BY <1>3, FS_CardinalityType
<1> QED
    BY <1>2, <1>4, <1>5, <1>6

LEMMA SizeOf ==
    ASSUME NEW p \in Words, NEW t \in Words, IsPrefix(p, t), p # t
    PROVE  /\ Size(From(Len(p), t)) = (Len(t) - Len(p)) + ((Len(t) - Len(p)) - 1)
           /\ Len(p) \in Nat /\ Len(t) \in Nat /\ Len(p) < Len(t)
<1>1. Len(p) \in Nat /\ Len(t) \in Nat /\ Len(p) <= Len(t) /\ Len(p) # Len(t)
    BY PrefixFacts
<1>2. Len(From(Len(p), t)) = Len(t) - Len(p) /\ From(Len(p), t) # <<>>
    BY FromFacts
<1> QED
    BY <1>1, <1>2 DEF Size

-----------------------------------------------------------------------------
(* The builder's counters                                                  *)

LEMMA CountInit ==
    Init => CountInv
<1> SUFFICES ASSUME Init PROVE CountInv
    OBVIOUS
<1>1. DOMAIN tree = {<<>>} /\ count = 1 /\ size = 0
    BY DEF Init
<1>2. Spelled = {}
  <2>1. \A w \in Words : IsPrefix(w, <<>>) => w = <<>>
    BY PrefixFacts
  <2> QED
    BY <1>1, <2>1 DEF Spelled
<1>3. Cardinality({}) = 0 /\ IsFiniteSet({}) /\ {} \ {<<>>} = {}
    BY FS_EmptySet
<1>4. Cardinality({<<>>}) = 1
    BY FS_Singleton
<1>5. Spelled \ DOMAIN tree = {}
    BY <1>2
<1> QED
    BY <1>1, <1>2, <1>3, <1>4, <1>5 DEF CountInv

LEMMA SplitCounts ==
    ASSUME IInv, RulesInv, CountInv, Split
    PROVE  CountInv'
<1>1. PICK node \in DOMAIN tree :
         Match(node) /\ Common(node) # node /\ tree' = WithRule(Common(node), NoRule)
    BY DEF Split
<1>2. op = "push" /\ count' = count + 1 /\ size' = size - 1
    BY DEF Split
<1> DEFINE c == Common(node)
<1>3. /\ c \notin DOMAIN tree /\ c \in Words /\ node \in Words /\ IsPrefix(c, node)
      /\ IsPrefix(cur, c) /\ cur # c /\ cur \in Words
    BY <1>1, <1>2, Matching
<1>4. DOMAIN tree' = DOMAIN tree \union {c}
    BY <1>1 DEF WithRule
<1> HIDE DEF c
<1>5. c # <<>>
    BY <1>3, PrefixFacts
<1>6. Spelled' = Spelled
  <2>1. \A w \in Words : IsPrefix(w, c) => IsPrefix(w, node)
    BY <1>3, PrefixOrder
  <2> QED
    BY <1>4, <2>1 DEF Spelled
<1>7. c \in Spelled /\ Spelled' \ DOMAIN tree' = (Spelled \ DOMAIN tree) \ {c}
    BY <1>3, <1>4, <1>5, <1>6 DEF Spelled
<1> DEFINE seps == Spelled \ DOMAIN tree
<1>8. IsFiniteSet(seps) /\ c \in seps
    BY <1>3, <1>7, FS_Difference DEF CountInv
<1> HIDE DEF seps
<1>9. Cardinality(seps \ {c}) = Cardinality(seps) - 1
    BY <1>8, FS_RemoveElement
<1>10. Cardinality(DOMAIN tree \union {c}) = Cardinality(DOMAIN tree) + 1
    BY <1>3, FS_AddElement DEF RulesInv
<1>11. Cardinality(seps) \in Nat /\ Cardinality(Spelled) \in Nat
    BY <1>8, FS_CardinalityType DEF CountInv
<1>12. /\ count' = Cardinality(DOMAIN tree')
       /\ size' = Cardinality(Spelled') + Cardinality(Spelled' \ DOMAIN tree')
  <2>1. size = Cardinality(Spelled) + Cardinality(seps)
    BY DEF CountInv, seps
  <2>2. Cardinality(Spelled' \ DOMAIN tree') = Cardinality(seps \ {c})
    BY <1>7 DEF seps
  <2>3. count' = Cardinality(DOMAIN tree')
    BY <1>2, <1>4, <1>10 DEF CountInv
  <2>4. Cardinality(Spelled' \ DOMAIN tree') = Cardinality(seps) - 1
    BY <1>9, <2>2
  <2>5. Cardinality(Spelled') = Cardinality(Spelled)
    BY <1>6
  <2> QED
    BY <1>2, <1>11, <2>1, <2>3, <2>4, <2>5
<1> QED
    BY <1>6, <1>12 DEF CountInv

LEMMA StoreCounts ==
    ASSUME IInv, RulesInv, CountInv, Store
    PROVE  CountInv'
<1>1. /\ op = "push" /\ tree' = WithRule(label, pair)
      /\ \A node \in DOMAIN tree : ~Match(node)
    BY DEF Store
<1>2. /\ label \in Words /\ cur \in Words /\ IsPrefix(cur, label) /\ cur \in DOMAIN tree
      /\ DOMAIN tree \subseteq Words
    BY <1>1, Labels DEF IInv, Passed
<1>3. DOMAIN tree' = DOMAIN tree \union {label}
    BY <1>1 DEF WithRule
<1>4. CASE label = cur
  <2>1. DOMAIN tree' = DOMAIN tree /\ count' = count /\ size' = size
    BY <1>2, <1>3, <1>4 DEF Store
  <2> QED
    BY <2>1 DEF CountInv, Spelled
<1>5. CASE label # cur
  <2> DEFINE new == Between(cur, label)
             M == Len(label) - Len(cur)
  <2>1. count' = count + 1 /\ size' = size + Size(From(Len(cur), label))
    BY <1>5 DEF Store
  <2>2. Size(From(Len(cur), label)) = M + (M - 1) /\ M \in Nat
    <3>1. /\ Size(From(Len(cur), label)) = M + (M - 1)
          /\ Len(cur) \in Nat /\ Len(label) \in Nat /\ Len(cur) < Len(label)
      BY <1>2, <1>5, SizeOf
    <3> QED
      BY <3>1
  <2>3. IsFiniteSet(new) /\ Cardinality(new) = M /\ <<>> \notin new
    BY <1>2, BetweenCounted
  <2>4. label \in new
    <3>1. IsPrefix(label, label) /\ ~IsPrefix(label, cur)
      BY <1>2, <1>5, PrefixOrder
    <3> QED
      BY <1>2, <3>1 DEF Between
  (* Otherwise there would have been a child to go on with.                *)
  <2>5. ASSUME NEW w \in new, NEW m \in DOMAIN tree, IsPrefix(w, m)
        PROVE  FALSE
    <3>1. /\ w \in Words /\ m \in Words /\ IsPrefix(w, label) /\ ~IsPrefix(w, cur)
      BY <1>2 DEF Between
    <3>2. IsPrefix(cur, w) /\ cur # w
      BY <1>2, <3>1, PrefixOrder
    <3>3. IsPrefix(cur, m) /\ cur # m
      BY <1>2, <2>5, <3>1, <3>2, PrefixOrder
    <3>4. PICK n \in Children(cur) : IsPrefix(n, m)
      BY <1>2, <3>3, ChildTowards
    <3>5. n \in DOMAIN tree /\ n \in Words /\ IsPrefix(cur, n) /\ cur # n
      BY <1>2 DEF Children, Below, IsStrictPrefix
    <3> DEFINE c == CommonPath(n, label)
    <3>6. c \in Words /\ \A d \in Words : IsPrefix(d, n) /\ IsPrefix(d, label) => IsPrefix(d, c)
      BY <1>2, <3>5, CommonPrefix
    <3>7. ~(Len(c) > Len(cur))
      BY <1>1, <3>5 DEF Match, Common
    <3> HIDE DEF c
    <3>8. CASE IsPrefix(n, w)
      <4>1. IsPrefix(n, label) /\ IsPrefix(n, n)
        BY <1>2, <3>1, <3>5, <3>8, PrefixOrder
      <4>2. Len(n) <= Len(c) /\ Len(cur) <= Len(n) /\ Len(cur) # Len(n)
        BY <1>2, <3>5, <3>6, <4>1, PrefixFacts
      <4>3. Len(n) \in Nat /\ Len(c) \in Nat /\ Len(cur) \in Nat
        BY <1>2, <3>5, <3>6, PrefixFacts
      <4> QED
        BY <3>7, <4>2, <4>3
    <3>9. CASE IsPrefix(w, n)
      <4>1. Len(w) <= Len(c) /\ Len(cur) <= Len(w) /\ Len(cur) # Len(w)
        BY <1>2, <3>1, <3>2, <3>6, <3>9, PrefixFacts
      <4>2. Len(w) \in Nat /\ Len(c) \in Nat /\ Len(cur) \in Nat
        BY <1>2, <3>1, <3>6, PrefixFacts
      <4> QED
        BY <3>7, <4>1, <4>2
    <3> QED
      BY <2>5, <3>1, <3>4, <3>5, <3>8, <3>9, PrefixOrder
  <2>6. new \cap DOMAIN tree = {} /\ Spelled \cap new = {}
    <3>1. ASSUME NEW w \in new
          PROVE  w \notin DOMAIN tree
      <4>1. IsPrefix(w, w)
        BY PrefixOrder DEF Between
      <4> QED
        BY <2>5, <4>1
    <3> QED
      BY <2>5, <3>1 DEF Spelled
  <2>7. Spelled' = Spelled \union new
    <3>1. ASSUME NEW w \in Words, w # <<>>
          PROVE  IsPrefix(w, label) <=> w \in new \/ IsPrefix(w, cur)
      BY <1>2, PrefixOrder DEF Between
    <3>2. \A w \in new : w \in Words /\ w # <<>>
      BY <2>3 DEF Between
    <3> HIDE DEF new
    <3> QED
      BY <1>2, <1>3, <3>1, <3>2 DEF Spelled
  <2> HIDE DEF new, M
  <2>8. Spelled' \ DOMAIN tree' = (Spelled \ DOMAIN tree) \union (new \ {label})
    BY <1>3, <2>4, <2>6, <2>7
  <2> DEFINE seps == Spelled \ DOMAIN tree
  <2>9. IsFiniteSet(Spelled) /\ IsFiniteSet(seps) /\ Cardinality(seps) \in Nat
    <3>1. IsFiniteSet(Spelled)
      BY DEF CountInv
    <3>2. IsFiniteSet(seps)
      BY <3>1, FS_Difference
    <3> QED
      BY <3>1, <3>2, FS_CardinalityType
  <2>10. /\ IsFiniteSet(Spelled \union new) /\ Cardinality(Spelled) \in Nat
         /\ Cardinality(Spelled \union new) = Cardinality(Spelled) + M
    BY <2>3, <2>6, <2>9, Together
  <2>11. IsFiniteSet(new \ {label}) /\ Cardinality(new \ {label}) = M - 1
    BY <2>3, <2>4, FS_RemoveElement
  <2>12. Cardinality(seps \union (new \ {label})) = Cardinality(seps) + (M - 1)
    <3>1. seps \cap (new \ {label}) = {}
      BY <2>6
    <3> DEFINE ends == new \ {label}
    <3>2. IsFiniteSet(ends) /\ Cardinality(ends) = M - 1 /\ seps \cap ends = {}
      BY <2>11, <3>1
    <3> HIDE DEF seps, ends
    <3>3. Cardinality(seps \union ends) = Cardinality(seps) + Cardinality(ends)
      BY <2>9, <3>2, Together
    <3>4. Cardinality(seps \union ends) = Cardinality(seps) + (M - 1)
      BY <3>2, <3>3
    <3> QED
      BY <3>4 DEF ends
  <2>13. Cardinality(DOMAIN tree \union {label}) = Cardinality(DOMAIN tree) + 1
    BY <2>4, <2>6, FS_AddElement DEF RulesInv
  <2>14. size = Cardinality(Spelled) + Cardinality(seps) /\ count = Cardinality(DOMAIN tree)
    BY DEF CountInv
  <2>15. size' = Cardinality(Spelled') + Cardinality(Spelled' \ DOMAIN tree')
    <3>1. Cardinality(Spelled' \ DOMAIN tree') = Cardinality(seps) + (M - 1)
      BY <2>8, <2>12
    <3>2. Cardinality(Spelled') = Cardinality(Spelled) + M
      BY <2>7, <2>10
    <3>3. /\ size' = size + (M + (M - 1)) /\ M \in Nat
          /\ Cardinality(seps) \in Nat /\ Cardinality(Spelled) \in Nat
      BY <2>1, <2>2, <2>9, <2>10
    <3> HIDE DEF seps
    <3> QED
      BY <2>14, <3>1, <3>2, <3>3
  <2> QED
    BY <1>3, <2>1, <2>7, <2>10, <2>13, <2>14, <2>15 DEF CountInv
<1> QED
    BY <1>4, <1>5

LEMMA CountNext ==
    IInv /\ RulesInv /\ CountInv /\ [Next]_vars => CountInv'
<1> SUFFICES ASSUME IInv, RulesInv, CountInv, [Next]_vars PROVE CountInv'
    OBVIOUS
<1>1. ASSUME tree' = tree, count' = count, size' = size
      PROVE  CountInv'
    BY <1>1 DEF CountInv, Spelled
<1>2. ASSUME NEW key \in Keys, NEW e \in Values, NEW p \in Values \union {None},
             Push(key, [exact |-> e, prefix |-> p])
      PROVE  CountInv'
    BY <1>1, <1>2 DEF Push
<1>3. CASE Descend \/ Build \/ Transfer \/ Built
    BY <1>1, <1>3 DEF Descend, Build, Transfer, Built, builder
<1>4. CASE Split
    BY <1>4, SplitCounts
<1>5. CASE Store
    BY <1>5, StoreCounts
<1>6. ASSUME NEW key \in Keys, Lookup(key)
      PROVE  CountInv'
    BY <1>1, <1>6 DEF Lookup, builder
<1>7. CASE EnterChild \/ EndOfLabel \/ NoMatch
    BY <1>1, <1>7 DEF EnterChild, EndOfLabel, NoMatch, Answer, builder
<1>8. CASE UNCHANGED vars
    BY <1>1, <1>8 DEF vars, builder
<1> QED
    BY <1>2, <1>3, <1>4, <1>5, <1>6, <1>7, <1>8 DEF Next


-----------------------------------------------------------------------------
(* What the translation produces                                           *)

(* The bytes are a sum of the labels' sizes, one node after the other.     *)
SumOfLabels(sum, L) ==
    /\ sum[0] = 0
    /\ \A n \in 1 .. L : sum[n] = sum[n - 1] + Size(nodes[n].label)

LEMMA BytesSum ==
    ASSUME nodes \in Seq(Node)
    PROVE  \E sum : SumOfLabels(sum, Len(nodes)) /\ Bytes = sum[Len(nodes)]
<1> DEFINE L == Len(nodes)
           G == [c \in Nat \X Int |->
                    IF c[1] \in 1 .. L THEN c[2] + Size(nodes[c[1]].label) ELSE c[2]]
           Step(f) == [n \in 0 .. L |->
                          IF n = 0 THEN 0 ELSE f[n - 1] + Size(nodes[n].label)]
           sum == CHOOSE f : f = Step(f)
<1>1. L \in Nat /\ \A n \in 1 .. L : Size(nodes[n].label) \in Int
  <2>4. L \in Nat /\ \A n \in 1 .. L : nodes[n] \in Node
    OBVIOUS
  <2>5. \A node \in Node : node.label \in Words
    BY DEF Node
  <2>1. L \in Nat /\ \A n \in 1 .. L : nodes[n].label \in Words
    BY <2>4, <2>5
  <2>2. \A w \in Words : Len(w) \in Nat
    BY PrefixFacts
  <2>3. \A w \in Words : Size(w) \in Int
    BY <2>2 DEF Size
  <2> QED
    BY <2>1, <2>3
<1>2. G \in [Nat \X Int -> Int]
  <2> HIDE DEF L
  <2> QED
    BY <1>1
<1> HIDE DEF L
<1>3. PICK f : MadeWith(f, Int, 0, G, L)
  <2> DEFINE V == Int
             v == 0
  <2>1. v \in V /\ G \in [Nat \X V -> V]
    BY <1>2
  <2> HIDE DEF G, V, v
  <2>2. \E f : MadeWith(f, V, v, G, L)
    BY <1>1, <2>1, Recursion
  <2> QED
    BY <2>2 DEF V, v
<1>4. \A n \in 1 .. L : f[n] = f[n - 1] + Size(nodes[n].label)
  <2> SUFFICES ASSUME NEW n \in 1 .. L PROVE f[n] = f[n - 1] + Size(nodes[n].label)
    OBVIOUS
  <2>1. n \in Nat /\ n - 1 \in 0 .. L
    BY <1>1
  <2>2. f[n - 1] \in Int /\ f[n] = G[<<n, f[n - 1]>>]
    BY <1>3, <2>1 DEF MadeWith
  <2> QED
    BY <2>1, <2>2
<1>5. f = Step(f)
  <2>1. \A n \in 0 .. L : n = 0 \/ n \in 1 .. L
    BY <1>1
  <2>2. \A n \in 0 .. L : f[n] = Step(f)[n]
    BY <1>3, <1>4, <2>1 DEF MadeWith
  <2>3. f = [n \in 0 .. L |-> f[n]]
    BY <1>3 DEF MadeWith
  <2> QED
    BY <2>2, <2>3
<1>6. sum = Step(sum)
    BY <1>5
<1>7. Bytes = sum[L]
    BY DEF Bytes, L
<1> HIDE DEF sum
<1>8. sum[0] = 0 /\ \A n \in 1 .. L : sum[n] = sum[n - 1] + Size(nodes[n].label)
  <2>1. sum[0] = Step(sum)[0] /\ \A n \in 1 .. L : sum[n] = Step(sum)[n]
    BY <1>6
  <2>2. 0 \in 0 .. L /\ \A n \in 1 .. L : n \in 0 .. L /\ n # 0
    BY <1>1
  <2> QED
    BY <2>1, <2>2
<1> QED
    BY <1>7, <1>8 DEF SumOfLabels, L

(* Every node of the tree has got one in the vector.                       *)
LEMMA EachNodeOnce ==
    ASSUME IInv, RulesInv, NEW path, NEW lab, Represents(path, lab), todo = <<>>
    PROVE  /\ \A p \in DOMAIN tree : \E i \in DOMAIN nodes : path[i] = p
           /\ \A i \in DOMAIN nodes : path[i] \in DOMAIN tree
           /\ \A i, j \in DOMAIN nodes : path[i] = path[j] => i = j
           /\ Len(nodes) \in Nat /\ Cardinality(DOMAIN tree) = Len(nodes)
<1>1. /\ 1 \in DOMAIN nodes /\ path[1] = <<>>
      /\ \A i \in DOMAIN nodes : /\ SetUp(i, path, lab) /\ path[i] \in DOMAIN tree
                                 /\ path[i] \in Words
    BY AllSetUp
<1>2. \A i, j \in DOMAIN nodes : path[i] = path[j] => i = j
    BY DEF Represents, Family
<1>3. ASSUME NEW k \in DOMAIN tree
      PROVE  \E i \in DOMAIN nodes : path[i] = k
  <2> DEFINE S == {p \in DOMAIN tree : IsPrefix(p, k) /\ \E i \in DOMAIN nodes : path[i] = p}
  <2>1. k \in Words /\ S \in SUBSET Words
    BY Labels
  <2>2. <<>> \in S
    BY <1>1, <2>1, PrefixOrder
  <2>3. PICK p \in S : \A s \in S : IsPrefix(s, p)
    <3>1. S # {} /\ \A s \in S : IsPrefix(s, k)
      BY <2>2
    <3> HIDE DEF S
    <3> QED
      BY <2>1, <3>1, LongestPrefix
  <2>4. PICK i \in DOMAIN nodes : path[i] = p
    BY <2>3
  <2> SUFFICES ASSUME p # k PROVE FALSE
    BY <2>4
  <2>5. PICK n \in Children(p) : IsPrefix(n, k)
    BY <2>3, ChildTowards
  <2>6. PICK c \in nodes[i].children : path[c] = n
    BY <1>1, <2>4 DEF SetUp
  <2>7. n \in DOMAIN tree /\ n \in Words /\ IsPrefix(p, n) /\ p # n /\ p \in Words
    BY <2>1, Labels DEF Children, Below, IsStrictPrefix
  <2>8. c \in DOMAIN nodes
    BY <1>1 DEF SetUp
  <2>9. IsPrefix(n, p)
    BY <2>3, <2>5, <2>6, <2>7, <2>8
  <2> QED
    BY <2>7, <2>9, PrefixOrder
<1>4. nodes \in Seq(Node) /\ path \in [DOMAIN nodes -> DOMAIN tree]
    BY DEF Represents
<1>5. Len(nodes) \in Nat /\ DOMAIN nodes = 1 .. Len(nodes)
    BY <1>4
<1> DEFINE D == DOMAIN nodes
           T == DOMAIN tree
<1>6. IsFiniteSet(D) /\ Cardinality(D) = Len(nodes)
  <2>1. /\ IsFiniteSet(1 .. Len(nodes))
        /\ Cardinality(1 .. Len(nodes)) = IF 1 > Len(nodes) THEN 0 ELSE Len(nodes) - 1 + 1
    BY <1>5, FS_Interval
  <2> QED
    BY <1>5, <2>1
<1>7. ExistsBijection(D, T)
  <2>1. path \in [D -> T] /\ (\A a, b \in D : path[a] = path[b] => a = b)
    BY <1>2, <1>4
  <2>2. \A t \in T : \E s \in D : path[s] = t
    BY <1>3
  <2> HIDE DEF D, T
  <2>3. path \in Bijection(D, T)
    BY <2>1, <2>2, Fun_IsBij
  <2> QED
    BY <2>3 DEF ExistsBijection
<1>8. Cardinality(T) = Cardinality(D)
  <2> HIDE DEF D, T
  <2> QED
    BY <1>6, <1>7, FS_Bijection
<1> QED
    BY <1>1, <1>2, <1>3, <1>5, <1>6, <1>8

(* The segments of a node: of its path, but of no node above it.           *)
Own(p) == {w \in Words \ {<<>>} :
              /\ IsPrefix(w, p)
              /\ \A m \in DOMAIN tree : IsPrefix(w, m) /\ IsPrefix(m, p) => m = p}

LEMMA OwnBelow ==
    ASSUME IInv, NEW q \in DOMAIN tree, NEW p \in Children(q)
    PROVE  Own(p) = Between(q, p) /\ Own(p) \ DOMAIN tree = Between(q, p) \ {p} /\ p \in Between(q, p)
<1>1. /\ p \in DOMAIN tree /\ p \in Words /\ q \in Words /\ IsPrefix(q, p) /\ q # p
      /\ DOMAIN tree \subseteq Words
    BY Labels DEF Children, Below, IsStrictPrefix
<1>2. ASSUME NEW w \in Own(p)
      PROVE  w \in Between(q, p)
    BY <1>1 DEF Own, Between
<1>3. ASSUME NEW w \in Between(q, p)
      PROVE  w \in Own(p)
  <2>1. w \in Words /\ IsPrefix(w, p) /\ ~IsPrefix(w, q)
    BY DEF Between
  <2>2. w # <<>>
    BY <1>1, <2>1, PrefixOrder
  <2>3. ASSUME NEW m \in DOMAIN tree, IsPrefix(w, m), IsPrefix(m, p)
        PROVE  m = p
    <3>1. m \in Words
      BY <1>1
    <3>2. ~IsPrefix(m, q)
      BY <1>1, <2>1, <2>3, <3>1, PrefixOrder
    <3>3. IsPrefix(q, m) /\ q # m
      BY <1>1, <2>3, <3>1, <3>2, PrefixOrder
    <3> QED
      BY <2>3, <3>3 DEF Children, Below, IsStrictPrefix
  <2> QED
    BY <2>1, <2>2, <2>3 DEF Own
<1>4. Own(p) = Between(q, p)
    BY <1>2, <1>3
<1>5. p \in Between(q, p)
    BY <1>1, PrefixOrder DEF Between
<1>6. ASSUME NEW w \in Own(p), w \in DOMAIN tree
      PROVE  w = p
  <2>1. w \in Words /\ IsPrefix(w, p)
    BY DEF Own
  <2> QED
    BY <1>6, <2>1, PrefixOrder DEF Own
<1> QED
    BY <1>1, <1>4, <1>5, <1>6

LEMMA OwnCounted ==
    ASSUME IInv, NEW path, NEW lab, Represents(path, lab), todo = <<>>, NEW i \in DOMAIN nodes
    PROVE  /\ IsFiniteSet(Own(path[i]))
           /\ Size(nodes[i].label)
                = Cardinality(Own(path[i])) + Cardinality(Own(path[i]) \ DOMAIN tree)
<1>1. SetUp(i, path, lab) /\ path[1] = <<>> /\ path[i] \in Words
    BY AllSetUp
<1>2. nodes[i].label = lab[i] /\ Family(path, lab)
    BY <1>1 DEF SetUp, Represents
<1>3. CASE i = 1
  <2>1. nodes[i].label = <<>> /\ path[i] = <<>>
    BY <1>1, <1>2, <1>3 DEF Family
  <2>2. Own(path[i]) = {} /\ Own(path[i]) \ DOMAIN tree = {}
    <3>1. \A w \in Words : IsPrefix(w, <<>>) => w = <<>>
      BY PrefixFacts
    <3> QED
      BY <2>1, <3>1 DEF Own
  <2>3. IsFiniteSet({}) /\ Cardinality({}) = 0
    BY FS_EmptySet
  <2>4. Cardinality(Own(path[i])) = 0 /\ Cardinality(Own(path[i]) \ DOMAIN tree) = 0
    BY <2>2, <2>3
  <2>5. Size(<<>>) = 0
    BY DEF Size
  <2>6. IsFiniteSet(Own(path[i]))
    BY <2>2, <2>3
  <2> QED
    BY <2>1, <2>4, <2>5, <2>6
<1>4. CASE i # 1
  <2>1. PICK k \in DOMAIN nodes :
           path[i] \in Children(path[k]) /\ lab[i] = From(Len(path[k]), path[i])
    BY <1>2, <1>4 DEF Family
  <2> DEFINE p == path[i]
             q == path[k]
             M == Len(p) - Len(q)
             D == Between(q, p)
  <2>2. q \in DOMAIN tree /\ q \in Words /\ p \in Words /\ p \in Children(q)
    BY <1>1, <2>1, AllSetUp
  <2>3. IsPrefix(q, p) /\ p # q
    BY <2>2 DEF Children, Below, IsStrictPrefix
  <2>4. nodes[i].label = From(Len(q), p)
    BY <1>2, <2>1
  <2> HIDE DEF p, q
  <2>5. /\ Size(From(Len(q), p)) = M + (M - 1)
        /\ Len(q) \in Nat /\ Len(p) \in Nat /\ Len(q) < Len(p)
    BY <2>2, <2>3, SizeOf
  <2>6. IsFiniteSet(D) /\ Cardinality(D) = M
    BY <2>2, <2>3, BetweenCounted
  <2>7. Own(p) = D /\ Own(p) \ DOMAIN tree = D \ {p} /\ p \in D
    BY <2>2, OwnBelow
  <2> HIDE DEF D, M
  <2>8. Cardinality(D \ {p}) = M - 1
    BY <2>6, <2>7, FS_RemoveElement
  <2>9. Cardinality(Own(p)) = M /\ Cardinality(Own(p) \ DOMAIN tree) = M - 1 /\ IsFiniteSet(Own(p))
    BY <2>6, <2>7, <2>8
  <2> QED
    BY <2>4, <2>5, <2>9 DEF p
<1> QED
    BY <1>3, <1>4

(* No segment belongs to two nodes, and none to no node.                   *)
LEMMA OwnOnce ==
    ASSUME IInv, op # "push", NEW p \in DOMAIN tree, NEW q \in DOMAIN tree,
           NEW w \in Own(p), w \in Own(q)
    PROVE  p = q
<1>1. /\ w \in Words /\ IsPrefix(w, p) /\ IsPrefix(w, q) /\ p \in Words /\ q \in Words
    BY Labels DEF Own
<1> DEFINE m == CommonPath(p, q)
<1>2. m \in Words /\ IsPrefix(m, p) /\ IsPrefix(m, q) /\ IsPrefix(w, m)
    BY <1>1, CommonPrefix
<1>3. m \in DOMAIN tree
  <2>1. DOMAIN tree = Closure(Pushed) /\ Pushed \subseteq Words
    BY Labels DEF IInv
  <2> QED
    BY <2>1, ClosureClosed
<1> HIDE DEF m
<1> QED
    BY <1>2, <1>3 DEF Own

LEMMA SpelledOwned ==
    ASSUME IInv, NEW w \in Spelled
    PROVE  \E p \in DOMAIN tree : w \in Own(p)
<1>1. PICK k \in DOMAIN tree : IsPrefix(w, k) /\ w \in Words /\ w # <<>>
    BY DEF Spelled
<1>2. DOMAIN tree \subseteq Words
    BY Labels
<1> DEFINE Ends == {m \in DOMAIN tree : IsPrefix(w, m)}
           Lengths == {Len(m) : m \in Ends}
<1>3. Lengths \in SUBSET Nat /\ Lengths # {}
  <2>1. Ends \subseteq Words /\ Ends # {}
    BY <1>1, <1>2
  <2>2. \A n \in Words : Len(n) \in Nat
    BY PrefixFacts
  <2> HIDE DEF Ends
  <2> QED
    BY <2>1, <2>2
<1>4. PICK l \in Lengths : \A j \in Lengths : ~(j < l)
    BY <1>3, LeastNumber
<1>5. PICK p \in Ends : l = Len(p)
    OBVIOUS
<1>6. \A m \in Ends : ~(Len(m) < Len(p))
    BY <1>4, <1>5
<1>7. ASSUME NEW m \in DOMAIN tree, IsPrefix(w, m), IsPrefix(m, p)
      PROVE  m = p
  <2>1. ~(Len(m) < Len(p))
    BY <1>6, <1>7
  <2>2. m \in Words /\ p \in Words
    BY <1>2
  <2>3. Len(m) <= Len(p) /\ Len(m) \in Nat /\ Len(p) \in Nat
    BY <1>7, <2>2, PrefixFacts
  <2>4. Len(m) = Len(p)
    BY <2>1, <2>3
  <2> QED
    BY <1>7, <2>2, <2>4, PrefixFacts
<1> QED
    BY <1>1, <1>7 DEF Own

LEMMA Counted ==
    ASSUME IInv, RulesInv, CountInv, op = "build", todo = <<>>,
           NEW path, NEW lab, Represents(path, lab)
    PROVE  Len(nodes) = count /\ Bytes = size
<1> DEFINE L == Len(nodes)
           N == DOMAIN tree
           Upto(n) == {w \in Spelled : \E i \in 1 .. n : w \in Own(path[i])}
           Total(n) == Cardinality(Upto(n)) + Cardinality(Upto(n) \ N)
<1>1. /\ L \in Nat /\ DOMAIN nodes = 1 .. L /\ nodes \in Seq(Node)
      /\ \A p \in N : \E i \in 1 .. L : path[i] = p
      /\ \A i \in 1 .. L : path[i] \in N
      /\ \A i, j \in 1 .. L : path[i] = path[j] => i = j
      /\ Cardinality(N) = L
  <2>1. nodes \in Seq(Node)
    BY DEF Represents
  <2>2. DOMAIN nodes = 1 .. L
    BY <2>1
  <2> QED
    BY <2>1, <2>2, EachNodeOnce
<1>2. PICK sum : SumOfLabels(sum, L) /\ Bytes = sum[L]
    BY <1>1, BytesSum
<1> HIDE DEF L
<1> DEFINE S == {n \in Nat : n <= L => sum[n] = Total(n) /\ IsFiniteSet(Upto(n))}
<1>3. 0 \in S
  <2>1. Upto(0) = {} /\ Upto(0) \ N = {}
    OBVIOUS
  <2>2. IsFiniteSet({}) /\ Cardinality({}) = 0
    BY FS_EmptySet
  <2>3. Cardinality(Upto(0)) = 0 /\ Cardinality(Upto(0) \ N) = 0 /\ IsFiniteSet(Upto(0))
    BY <2>1, <2>2
  <2> HIDE DEF Upto
  <2>4. sum[0] = 0
    BY <1>2 DEF SumOfLabels
  <2> QED
    BY <2>3, <2>4
<1>4. ASSUME NEW n \in S, n + 1 <= L
      PROVE  sum[n + 1] = Total(n + 1) /\ IsFiniteSet(Upto(n + 1))
  <2> DEFINE A == Upto(n)
             B == Own(path[n + 1])
  <2>1. /\ n \in Nat /\ n + 1 \in 1 .. L /\ (n + 1) - 1 = n
        /\ sum[n] = Total(n) /\ IsFiniteSet(A)
    BY <1>1, <1>4
  <2>2. /\ IsFiniteSet(B)
        /\ Size(nodes[n + 1].label) = Cardinality(B) + Cardinality(B \ N)
    BY <1>1, <2>1, OwnCounted
  <2>3. sum[n + 1] = sum[n] + Size(nodes[n + 1].label)
    BY <1>2, <2>1 DEF SumOfLabels
  <2>4. B \subseteq Spelled
    BY <1>1, <2>1 DEF Own, Spelled
  <2>5. \A i \in 1 .. n + 1 : i \in 1 .. n \/ i = n + 1
    BY <2>1
  <2>6. \A i \in 1 .. n : i \in 1 .. n + 1 /\ i \in 1 .. L /\ i # n + 1
    BY <1>1, <2>1
  <2>7. Upto(n + 1) = A \union B
    <3>1. n + 1 \in 1 .. n + 1
      BY <2>1
    <3> QED
      BY <2>4, <2>5, <2>6, <3>1
  <2>8. A \cap B = {}
    BY <1>1, <2>1, <2>6, OwnOnce
  <2>9. Total(n) = Cardinality(A) + Cardinality(A \ N)
    OBVIOUS
  <2> HIDE DEF A, B, Upto
  <2>10. /\ IsFiniteSet(A \union B)
         /\ Cardinality(A \union B) = Cardinality(A) + Cardinality(B)
         /\ Cardinality((A \union B) \ N) = Cardinality(A \ N) + Cardinality(B \ N)
         /\ Cardinality(A) \in Nat /\ Cardinality(B) \in Nat
         /\ Cardinality(A \ N) \in Nat /\ Cardinality(B \ N) \in Nat
    BY <2>1, <2>2, <2>8, Together
  <2>11. Total(n + 1) = Cardinality(A \union B) + Cardinality((A \union B) \ N)
    BY <2>7
  <2> HIDE DEF Total
  <2>12. sum[n + 1] = Total(n + 1)
    BY <2>1, <2>2, <2>3, <2>9, <2>10, <2>11
  <2> QED
    BY <2>7, <2>10, <2>12
<1>5. L \in S
  <2> HIDE DEF Upto, Total
  <2>1. \A n \in S : n + 1 \in S
    BY <1>1, <1>4
  <2>2. S \in SUBSET Nat
    OBVIOUS
  <2> HIDE DEF S
  <2> QED
    BY <1>1, <1>3, <2>1, <2>2, Induction
<1>6. Upto(L) = Spelled
  <2>1. ASSUME NEW w \in Spelled
        PROVE  \E i \in 1 .. L : w \in Own(path[i])
    <3>1. PICK p \in N : w \in Own(p)
      BY SpelledOwned
    <3> QED
      BY <1>1, <3>1
  <2> QED
    BY <2>1
<1>7. sum[L] = Cardinality(Spelled) + Cardinality(Spelled \ N)
  <2>1. sum[L] = Total(L)
    BY <1>1, <1>5
  <2>2. Total(L) = Cardinality(Upto(L)) + Cardinality(Upto(L) \ N)
    OBVIOUS
  <2> HIDE DEF Upto, Total
  <2> QED
    BY <1>6, <2>1, <2>2
<1>8. Bytes = size
    BY <1>2, <1>7 DEF CountInv
<1> QED
    BY <1>1, <1>8 DEF CountInv, L

(* The assertions in build() hold for whatever has been pushed: the nodes  *)
(* and the bytes that the builder counted, through every split, are what   *)
(* the translation produces.                                               *)
THEOREM CountersAlwaysExact ==
    Spec => []CountersExact
<1>1. Init => RulesInv /\ VectorInv /\ CountInv
    BY RulesInit, VectorInit, CountInit
<1>2. Spec => [](RulesInv /\ VectorInv /\ CountInv)
    BY <1>1, Invariance, RulesNext, VectorNext, CountNext, PTL DEF Spec
<1>3. IInv /\ RulesInv /\ VectorInv /\ CountInv => CountersExact
  <2> SUFFICES ASSUME IInv, RulesInv, VectorInv, CountInv, op = "build", todo = <<>>
               PROVE  Len(nodes) = count /\ Bytes = size
    BY DEF CountersExact
  <2>1. PICK path, lab : Represents(path, lab)
    BY DEF VectorInv, Translated
  <2> QED
    BY <2>1, Counted
<1> QED
    BY <1>2, <1>3, Invariance, PTL
=============================================================================
