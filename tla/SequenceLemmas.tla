---------------------------- MODULE SequenceLemmas ----------------------------
(***************************************************************************)
(* Lemmas that several proofs rest on: induction over the natural numbers  *)
(* for a property given by the set of numbers that have it, functions      *)
(* defined by recursion, the lists of Lists and the paths of Paths.        *)
(***************************************************************************)
EXTENDS Paths, NaturalsInduction, WellFoundedInduction, TLAPS

LEMMA LeastNumber ==
    ASSUME NEW T \in SUBSET Nat, T # {}
    PROVE  \E n \in T : \A m \in T : ~(m < n)
<1>1. IsWellFoundedOn(OpToRel(<, Nat), Nat)
    BY NatLessThanWellFounded
<1>2. \E n \in T : \A m \in T : <<m, n>> \notin OpToRel(<, Nat)
    BY <1>1, WFMin
<1> QED
    BY <1>2 DEF OpToRel

LEMMA Induction ==
    ASSUME NEW S \in SUBSET Nat, 0 \in S, \A n \in S : n + 1 \in S
    PROVE  \A n \in Nat : n \in S
<1> DEFINE T == Nat \ S
<1>1. ASSUME T # {} PROVE FALSE
  <2>1. PICK n \in T : \A m \in T : ~(m < n)
    BY <1>1, LeastNumber
  <2>2. n - 1 \in S
    BY <2>1
  <2> QED
    BY <2>1, <2>2
<1> QED
    BY <1>1

(* Values that are made from each other, one after the other.              *)
MadeWith(f, V, v, G, N) ==
    /\ f \in [0 .. N -> V]
    /\ f[0] = v
    /\ \A n \in 1 .. N : f[n] = G[<<n, f[n - 1]>>]

LEMMA Recursion ==
    ASSUME NEW V, NEW v \in V, NEW G \in [Nat \X V -> V], NEW N \in Nat
    PROVE  \E f : MadeWith(f, V, v, G, N)
<1> DEFINE Made(f, M) == f[0] = v /\ \A n \in 1 .. M : f[n] = G[<<n, f[n - 1]>>]
           S == {M \in Nat : \E f \in [0 .. M -> V] : Made(f, M)}
<1>1. 0 \in S
  <2>1. [n \in 0 .. 0 |-> v] \in [0 .. 0 -> V] /\ Made([n \in 0 .. 0 |-> v], 0)
    OBVIOUS
  <2> QED
    BY <2>1
<1>2. ASSUME NEW M \in S
      PROVE  M + 1 \in S
  <2>1. PICK f \in [0 .. M -> V] : Made(f, M)
    OBVIOUS
  <2> DEFINE w == G[<<M + 1, f[M]>>]
             g == [n \in 0 .. (M + 1) |-> IF n = M + 1 THEN w ELSE f[n]]
  <2>2. M \in Nat /\ M \in 0 .. M /\ f[M] \in V /\ w \in V
    OBVIOUS
  <2> HIDE DEF w, S
  <2>3. g \in [0 .. (M + 1) -> V] /\ g[0] = v
    BY <2>1, <2>2
  <2>4. \A n \in 1 .. (M + 1) : g[n] = G[<<n, g[n - 1]>>]
    <3> SUFFICES ASSUME NEW n \in 1 .. (M + 1) PROVE g[n] = G[<<n, g[n - 1]>>]
      OBVIOUS
    <3>1. CASE n = M + 1
      <4>1. g[n] = w /\ g[n - 1] = f[M]
        BY <2>2, <3>1
      <4> QED
        BY <3>1, <4>1 DEF w
    <3>2. CASE n \in 1 .. M
      <4>1. g[n] = f[n] /\ g[n - 1] = f[n - 1]
        BY <2>2, <3>2
      <4> QED
        BY <2>1, <3>2, <4>1
    <3> QED
      BY <2>2, <3>1, <3>2
  <2> HIDE DEF g
  <2> QED
    BY <2>2, <2>3, <2>4 DEF S
<1>3. N \in S
  <2> HIDE DEF S
  <2>1. S \in SUBSET Nat
    BY DEF S
  <2> QED
    BY <1>1, <1>2, <2>1, Induction
<1> QED
    BY <1>3 DEF MadeWith

-----------------------------------------------------------------------------
(* Prefixes                                                                *)

Words == Seq(Nat)

LEMMA Equal ==
    ASSUME NEW s \in Words, NEW t \in Words, Len(s) = Len(t),
           \A i \in 1 .. Len(s) : s[i] = t[i]
    PROVE  s = t
BY DEF Words

LEMMA PrefixIs ==
    ASSUME NEW s \in Words, NEW t \in Words
    PROVE  IsPrefix(s, t) <=> /\ Len(s) <= Len(t)
                              /\ \A i \in 1 .. Len(s) : s[i] = t[i]
<1>1. ASSUME Len(s) <= Len(t)
      PROVE  /\ SubSeq(t, 1, Len(s)) \in Words /\ Len(SubSeq(t, 1, Len(s))) = Len(s)
             /\ \A i \in 1 .. Len(s) : SubSeq(t, 1, Len(s))[i] = t[i]
    BY <1>1 DEF Words
<1> QED
    BY <1>1, Equal DEF IsPrefix

(* Where prefixes come from, and how they relate to each other.            *)
LEMMA PrefixFacts ==
    /\ <<>> \in Words
    /\ \A s \in Words : Len(s) \in Nat /\ IsPrefix(s, s) /\ IsPrefix(<<>>, s)
    /\ \A s, t \in Words : IsPrefix(s, t) => Len(s) <= Len(t)
    /\ \A s, t \in Words : IsPrefix(s, t) /\ Len(s) = Len(t) => s = t
    /\ \A s, t \in Words : IsPrefix(s, t) /\ t = <<>> => s = <<>>
    /\ \A s, t, u \in Words : IsPrefix(s, t) /\ IsPrefix(t, u) => IsPrefix(s, u)
    /\ \A s, t, u \in Words :
           IsPrefix(s, u) /\ IsPrefix(t, u) /\ Len(s) <= Len(t) => IsPrefix(s, t)
<1>1. <<>> \in Words /\ \A s \in Words : Len(s) \in Nat
    BY DEF Words
<1>2. \A s \in Words : IsPrefix(s, s) /\ IsPrefix(<<>>, s)
    BY <1>1, PrefixIs
<1>3. \A s, t \in Words : IsPrefix(s, t) => Len(s) <= Len(t)
    BY PrefixIs
<1>4. \A s, t \in Words : IsPrefix(s, t) /\ Len(s) = Len(t) => s = t
    BY PrefixIs, Equal
<1>5. \A s, t \in Words : IsPrefix(s, t) /\ t = <<>> => s = <<>>
  <2> TAKE s, t \in Words
  <2> HAVE IsPrefix(s, t) /\ t = <<>>
  <2>1. Len(s) = 0
    BY <1>1, <1>3
  <2> QED
    BY <1>1, <1>4, <2>1
<1>6. \A s, t, u \in Words : IsPrefix(s, t) /\ IsPrefix(t, u) => IsPrefix(s, u)
  <2> TAKE s, t, u \in Words
  <2> HAVE IsPrefix(s, t) /\ IsPrefix(t, u)
  <2>1. /\ Len(s) <= Len(t) /\ Len(t) <= Len(u)
        /\ \A i \in 1 .. Len(s) : s[i] = t[i]
        /\ \A i \in 1 .. Len(t) : t[i] = u[i]
    BY PrefixIs
  <2>2. Len(s) <= Len(u) /\ \A i \in 1 .. Len(s) : s[i] = u[i]
    BY <1>1, <2>1
  <2> QED
    BY <2>2, PrefixIs
<1>7. \A s, t, u \in Words :
          IsPrefix(s, u) /\ IsPrefix(t, u) /\ Len(s) <= Len(t) => IsPrefix(s, t)
  <2> TAKE s, t, u \in Words
  <2> HAVE IsPrefix(s, u) /\ IsPrefix(t, u) /\ Len(s) <= Len(t)
  <2>1. /\ \A i \in 1 .. Len(s) : s[i] = u[i]
        /\ \A i \in 1 .. Len(t) : t[i] = u[i]
    BY PrefixIs
  <2>2. \A i \in 1 .. Len(s) : s[i] = t[i]
    BY <1>1, <2>1
  <2> QED
    BY <2>2, PrefixIs
<1> QED
    BY <1>1, <1>2, <1>3, <1>4, <1>5, <1>6, <1>7

(* Of some prefixes of a sequence, one is the longest.                     *)
LEMMA LongestPrefix ==
    ASSUME NEW S \in SUBSET Words, S # {}, NEW u \in Words,
           \A s \in S : IsPrefix(s, u)
    PROVE  \E p \in S : \A s \in S : IsPrefix(s, p)
<1> DEFINE T == {Len(u) - Len(s) : s \in S}
<1>1. \A s \in S : s \in Words /\ Len(s) \in Nat /\ Len(s) <= Len(u) /\ Len(u) \in Nat
    BY PrefixFacts
<1>2. T \in SUBSET Nat /\ T # {}
    BY <1>1
<1>3. PICK n \in T : \A m \in T : ~(m < n)
    BY <1>2, LeastNumber
<1>4. PICK p \in S : n = Len(u) - Len(p)
    OBVIOUS
<1>5. ASSUME NEW s \in S PROVE Len(s) <= Len(p)
  <2>1. ~(Len(u) - Len(s) < Len(u) - Len(p))
    BY <1>3, <1>4
  <2> QED
    BY <1>1, <2>1
<1>6. \A s \in S : IsPrefix(s, p)
    BY <1>1, <1>5, PrefixFacts
<1> QED
    BY <1>6

-----------------------------------------------------------------------------
(* Putting sequences together and taking them apart.                       *)

LEMMA ConcatFacts ==
    \A a, b \in Words :
        /\ a \o b \in Words /\ Len(a \o b) = Len(a) + Len(b)
        /\ \A i \in 1 .. Len(a) : (a \o b)[i] = a[i]
        /\ \A i \in 1 .. Len(b) : (a \o b)[Len(a) + i] = b[i]
        /\ <<>> \o a = a /\ a \o <<>> = a
<1>1. \A a, b \in Words : a \o b \in Words /\ Len(a \o b) = Len(a) + Len(b)
    BY DEF Words
<1>2. \A a, b \in Words : \A i \in 1 .. Len(a) : (a \o b)[i] = a[i]
    BY DEF Words
<1>3. \A a, b \in Words : \A i \in 1 .. Len(b) : (a \o b)[Len(a) + i] = b[i]
    BY DEF Words
<1>4. \A a \in Words : <<>> \o a = a /\ a \o <<>> = a
    BY DEF Words
<1> QED
    BY <1>1, <1>2, <1>3, <1>4

LEMMA ConcatAssoc ==
    \A a, b, c \in Words : (a \o b) \o c = a \o (b \o c)
BY DEF Words

LEMMA AppendConcat ==
    ASSUME NEW a \in Words, NEW b \in Words, NEW s \in Nat
    PROVE  Append(a \o b, s) = a \o Append(b, s)
<1> DEFINE u == <<s>>
<1>1. u \in Words /\ \A t \in Words : Append(t, s) = t \o u
    BY DEF Words
<1> HIDE DEF u
<1>2. (a \o b) \o u = a \o (b \o u)
    BY <1>1, ConcatAssoc
<1> QED
    BY <1>1, <1>2, ConcatFacts

LEMMA Single ==
    ASSUME NEW x \in Nat
    PROVE  <<x>> \in Words /\ Len(<<x>>) = 1 /\ <<x>>[1] = x
BY DEF Words

LEMMA ConsFacts ==
    ASSUME NEW w \in Words, Len(w) = 1, NEW t \in Words
    PROVE  /\ w \o t \in Words /\ Len(w \o t) = 1 + Len(t) /\ (w \o t)[1] = w[1]
           /\ \A i \in 1 .. Len(t) : (w \o t)[1 + i] = t[i]
<1>1. 1 \in 1 .. Len(w)
    BY DEF Words
<1>2. w \o t \in Words /\ Len(w \o t) = 1 + Len(t)
  <2>1. w \o t \in Words /\ Len(w \o t) = Len(w) + Len(t)
    BY ConcatFacts
  <2> QED
    BY <2>1
<1>3. (w \o t)[1] = w[1]
    BY <1>1, ConcatFacts
<1>4. \A i \in 1 .. Len(t) : (w \o t)[1 + i] = t[i]
  <2>1. \A i \in 1 .. Len(t) : (w \o t)[Len(w) + i] = t[i]
    BY ConcatFacts
  <2> QED
    BY <2>1
<1> QED
    BY <1>2, <1>3, <1>4

LEMMA ConsHeadTail ==
    ASSUME NEW x \in Nat, NEW u \in Words
    PROVE  /\ <<x>> \o u \in Words /\ <<x>> \o u # <<>>
           /\ Head(<<x>> \o u) = x /\ Tail(<<x>> \o u) = u
BY DEF Words

LEMMA WholeSubSeq ==
    ASSUME NEW p \in Words
    PROVE  SubSeq(p, 1, Len(p)) = p
<1> DEFINE q == SubSeq(p, 1, Len(p))
<1>1. q \in Words
    BY DEF Words
<1>2. Len(q) = Len(p)
    BY DEF Words
<1>3. \A i \in 1 .. Len(p) : q[i] = p[i]
    BY DEF Words
<1> HIDE DEF q
<1>4. q = p
    BY <1>1, <1>2, <1>3, Equal
<1> QED
    BY <1>4 DEF q

LEMMA Rests ==
    ASSUME NEW p \in Words, NEW i \in 1 .. Len(p)
    PROVE  /\ p[i] \in Nat /\ SubSeq(p, i + 1, Len(p)) \in Words
           /\ SubSeq(p, i, Len(p)) = <<p[i]>> \o SubSeq(p, i + 1, Len(p))
           /\ i = Len(p) => SubSeq(p, i + 1, Len(p)) = <<>>
<1> DEFINE s == SubSeq(p, i, Len(p))
           t == SubSeq(p, i + 1, Len(p))
           u == <<p[i]>> \o t
<1>1. p[i] \in Nat /\ Len(p) \in Nat
    BY DEF Words
<1>2. s \in Words /\ Len(s) = Len(p) - i + 1
         /\ \A j \in 1 .. Len(p) - i + 1 : s[j] = p[i + j - 1]
    BY DEF Words
<1>3. t \in Words /\ Len(t) = Len(p) - i
         /\ \A j \in 1 .. Len(p) - i : t[j] = p[i + j]
    BY DEF Words
<1>4. i = Len(p) => t = <<>>
    BY <1>1, <1>3 DEF Words
<1> HIDE DEF s, t, u
<1>5. u \in Words /\ Len(u) = Len(p) - i + 1 /\ u[1] = p[i]
         /\ \A j \in 1 .. Len(p) - i : u[j + 1] = t[j]
  <2> DEFINE w == <<p[i]>>
  <2>1. w \in Words /\ Len(w) = 1 /\ w[1] = p[i]
    BY <1>1, Single
  <2>2. u = w \o t
    BY DEF u
  <2> HIDE DEF w
  <2>3. w \o t \in Words /\ Len(w \o t) = 1 + Len(t) /\ (w \o t)[1] = w[1]
    BY <1>3, <2>1, ConsFacts
  <2>4. \A j \in 1 .. Len(t) : (w \o t)[1 + j] = t[j]
    BY <1>3, <2>1, ConsFacts
  <2> QED
    BY <1>1, <1>3, <2>1, <2>2, <2>3, <2>4
<1>6. \A j \in 1 .. Len(s) : s[j] = u[j]
  <2> SUFFICES ASSUME NEW j \in 1 .. Len(s) PROVE s[j] = u[j]
    OBVIOUS
  <2>1. CASE j = 1
    BY <1>1, <1>2, <1>5, <2>1
  <2>2. CASE j # 1
    <3>1. j - 1 \in 1 .. Len(p) - i /\ j \in 1 .. Len(p) - i + 1 /\ (j - 1) + 1 = j
             /\ i + j - 1 = i + (j - 1)
      BY <1>1, <1>2, <2>2
    <3>2. u[j] = t[j - 1]
      BY <1>5, <3>1
    <3>3. t[j - 1] = p[i + (j - 1)]
      BY <1>3, <3>1
    <3>4. s[j] = p[i + j - 1]
      BY <1>2, <3>1
    <3> QED
      BY <3>1, <3>2, <3>3, <3>4
  <2> QED
    BY <2>1, <2>2
<1>7. s = u
    BY <1>2, <1>5, <1>6, Equal
<1> QED
    BY <1>1, <1>3, <1>4, <1>7 DEF s, t, u

-----------------------------------------------------------------------------
(* The longest common prefix of two sequences                              *)

LEMMA CommonPrefix ==
    \A p, q \in Words :
        /\ CommonPath(p, q) \in Words
        /\ IsPrefix(CommonPath(p, q), p) /\ IsPrefix(CommonPath(p, q), q)
        /\ \A d \in Words : IsPrefix(d, p) /\ IsPrefix(d, q) => IsPrefix(d, CommonPath(p, q))
<1> TAKE p, q \in Words
<1> DEFINE C == {n \in 0 .. Len(p) : n <= Len(q) /\ SubSeq(p, 1, n) = SubSeq(q, 1, n)}
           n == CHOOSE k \in C : \A m \in C : m <= k
           D == {Len(p) - m : m \in C}
<1>1. CommonPath(p, q) = SubSeq(p, 1, n)
    BY DEF CommonPath
<1>2. Len(p) \in Nat /\ Len(q) \in Nat
    BY DEF Words
<1>3. \A m : m \in C <=> /\ m \in Nat /\ m <= Len(p) /\ m <= Len(q)
                        /\ \A i \in 1 .. m : p[i] = q[i]
  <2> TAKE m
  <2> SUFFICES ASSUME m \in Nat, m <= Len(p), m <= Len(q)
               PROVE  SubSeq(p, 1, m) = SubSeq(q, 1, m) <=> \A i \in 1 .. m : p[i] = q[i]
    BY <1>2
  <2>1. /\ SubSeq(p, 1, m) \in Words /\ SubSeq(q, 1, m) \in Words
        /\ Len(SubSeq(p, 1, m)) = m /\ Len(SubSeq(q, 1, m)) = m
        /\ \A i \in 1 .. m : SubSeq(p, 1, m)[i] = p[i] /\ SubSeq(q, 1, m)[i] = q[i]
    BY <1>2 DEF Words
  <2> QED
    BY <2>1, Equal
<1> HIDE DEF C
<1>4. \E k \in C : \A m \in C : m <= k
  <2>1. 0 \in C /\ \A m \in C : m \in Nat /\ m <= Len(p)
    BY <1>2, <1>3
  <2>2. D \in SUBSET Nat /\ D # {}
    BY <1>2, <2>1
  <2>3. PICK e \in D : \A x \in D : ~(x < e)
    BY <2>2, LeastNumber
  <2>4. PICK k \in C : e = Len(p) - k
    OBVIOUS
  <2>5. \A m \in C : ~(Len(p) - m < Len(p) - k)
    BY <2>3, <2>4
  <2> QED
    BY <1>2, <2>1, <2>5
<1>5. n \in C /\ \A m \in C : m <= n
    BY <1>4
<1> HIDE DEF n
<1> DEFINE c == SubSeq(p, 1, n)
<1>6. /\ n \in Nat /\ n <= Len(p) /\ n <= Len(q)
      /\ \A i \in 1 .. n : p[i] = q[i]
    BY <1>3, <1>5
<1>7. c \in Words /\ Len(c) = n /\ \A i \in 1 .. n : c[i] = p[i]
    BY <1>2, <1>6 DEF Words
<1>8. c = CommonPath(p, q)
    BY <1>1
<1> HIDE DEF c
<1>9. IsPrefix(c, p) /\ IsPrefix(c, q)
    BY <1>6, <1>7, PrefixIs
<1>10. ASSUME NEW d \in Words, IsPrefix(d, p), IsPrefix(d, q) PROVE IsPrefix(d, c)
  <2>1. /\ Len(d) \in Nat /\ Len(d) <= Len(p) /\ Len(d) <= Len(q)
        /\ \A i \in 1 .. Len(d) : d[i] = p[i] /\ d[i] = q[i]
    BY <1>10, PrefixIs DEF Words
  <2>2. Len(d) \in C
    BY <1>3, <2>1
  <2>3. Len(d) <= n
    BY <1>5, <2>2
  <2> QED
    BY <1>6, <1>7, <2>1, <2>3, PrefixIs
<1> QED
    BY <1>7, <1>8, <1>9, <1>10

LEMMA PrefixOrder ==
    /\ \A s \in Words : IsPrefix(s, s) /\ IsPrefix(<<>>, s)
    /\ \A s, t \in Words : IsPrefix(s, t) /\ IsPrefix(t, s) => s = t
    /\ \A s, t, u \in Words : IsPrefix(s, t) /\ IsPrefix(t, u) => IsPrefix(s, u)
    /\ \A s, t, u \in Words :
           IsPrefix(s, u) /\ IsPrefix(t, u) => IsPrefix(s, t) \/ IsPrefix(t, s)
<1>1. \A s, t \in Words : Len(s) \in Nat /\ Len(t) \in Nat
    BY PrefixFacts
<1>2. \A s, t \in Words : IsPrefix(s, t) /\ IsPrefix(t, s) => s = t
    BY <1>1, PrefixFacts
<1>3. \A s, t, u \in Words :
          IsPrefix(s, u) /\ IsPrefix(t, u) => IsPrefix(s, t) \/ IsPrefix(t, s)
  <2> TAKE s, t, u \in Words
  <2>1. Len(s) <= Len(t) \/ Len(t) <= Len(s)
    BY <1>1
  <2> QED
    BY <2>1, PrefixFacts
<1> QED
    BY <1>2, <1>3, PrefixFacts

LEMMA CommonPathFacts ==
    /\ \A p, q \in Words : CommonPath(p, q) = CommonPath(q, p)
    /\ \A p, q \in Words : IsPrefix(p, q) => CommonPath(p, q) = p
    /\ \A p \in Words : CommonPath(p, p) = p
<1>1. \A p, q \in Words : CommonPath(p, q) = CommonPath(q, p)
    BY CommonPrefix, PrefixOrder
<1>2. \A p, q \in Words : IsPrefix(p, q) => CommonPath(p, q) = p
    BY CommonPrefix, PrefixOrder
<1> QED
    BY <1>1, <1>2, PrefixOrder

(* Where q goes along with r further than with p, so does r part from p.   *)
LEMMA Fork ==
    ASSUME NEW p \in Words, NEW q \in Words, NEW r \in Words,
           IsPrefix(CommonPath(p, q), CommonPath(q, r)), CommonPath(p, q) # CommonPath(q, r)
    PROVE  CommonPath(p, r) = CommonPath(p, q)
<1> DEFINE x == CommonPath(p, q)
           y == CommonPath(q, r)
           z == CommonPath(p, r)
<1>1. /\ x \in Words /\ IsPrefix(x, p) /\ IsPrefix(x, q)
      /\ \A d \in Words : IsPrefix(d, p) /\ IsPrefix(d, q) => IsPrefix(d, x)
    BY CommonPrefix
<1>2. y \in Words /\ IsPrefix(y, q) /\ IsPrefix(y, r)
    BY CommonPrefix
<1>3. /\ z \in Words /\ IsPrefix(z, p) /\ IsPrefix(z, r)
      /\ \A d \in Words : IsPrefix(d, p) /\ IsPrefix(d, r) => IsPrefix(d, z)
    BY CommonPrefix
<1>4. IsPrefix(x, y) /\ x # y
    OBVIOUS
<1> HIDE DEF x, y, z
<1>5. IsPrefix(x, z)
    BY <1>1, <1>2, <1>3, <1>4, PrefixOrder
<1>6. IsPrefix(z, x)
  <2>1. CASE IsPrefix(z, y)
    BY <1>1, <1>2, <1>3, <2>1, PrefixOrder
  <2>2. CASE IsPrefix(y, z)
    <3>1. IsPrefix(y, x)
      BY <1>1, <1>2, <1>3, <2>2, PrefixOrder
    <3> QED
      BY <1>1, <1>2, <1>4, <3>1, PrefixOrder
  <2> QED
    BY <1>2, <1>3, <2>1, <2>2, PrefixOrder
<1>7. z = x
    BY <1>1, <1>3, <1>5, <1>6, PrefixOrder
<1> QED
    BY <1>7 DEF x, z

-----------------------------------------------------------------------------
(* Lists: what is in them, and in which order.                             *)

(* An element stands before another one.                                   *)
Ahead(l, x, y) == \E i, j \in DOMAIN l : i < j /\ l[i] = x /\ l[j] = y

LEMMA AheadRange ==
    ASSUME NEW l, NEW x, NEW y, Ahead(l, x, y)
    PROVE  x \in Range(l) /\ y \in Range(l)
BY DEF Ahead, Range

LEMMA EmptyList ==
    /\ Range(<<>>) = {}
    /\ \A x, y : ~Ahead(<<>>, x, y)
    /\ \A S : <<>> \in Seq(S)
BY DEF Ahead, Range

LEMMA RangeOfList ==
    ASSUME NEW S, NEW l \in Seq(S)
    PROVE  /\ Range(l) = {l[i] : i \in 1 .. Len(l)}
           /\ \A x : x \in Range(l) => x \in S
           /\ Len(l) \in Nat /\ DOMAIN l = 1 .. Len(l)
           /\ (Range(l) = {} <=> l = <<>>)
<1>1. Len(l) \in Nat /\ DOMAIN l = 1 .. Len(l) /\ \A i \in 1 .. Len(l) : l[i] \in S
    OBVIOUS
<1>2. Range(l) = {l[i] : i \in 1 .. Len(l)}
    BY <1>1 DEF Range
<1>3. \A x : x \in Range(l) => x \in S
    BY <1>1, <1>2
<1>4. ASSUME Range(l) = {} PROVE l = <<>>
  <2>1. Len(l) = 0
    <3>1. 1 \notin 1 .. Len(l)
      BY <1>2, <1>4
    <3> QED
      BY <1>1, <3>1
  <2> QED
    BY <2>1
<1>5. ASSUME l = <<>> PROVE Range(l) = {}
    BY <1>5 DEF Range
<1> QED
    BY <1>1, <1>2, <1>3, <1>4, <1>5

LEMMA AppendedList ==
    ASSUME NEW S, NEW l \in Seq(S), NEW e \in S
    PROVE  /\ Append(l, e) \in Seq(S) /\ Len(Append(l, e)) = Len(l) + 1
           /\ Range(Append(l, e)) = Range(l) \union {e}
           /\ \A x, y : Ahead(Append(l, e), x, y) <=>
                  Ahead(l, x, y) \/ (x \in Range(l) /\ y = e)
<1> DEFINE m == Append(l, e)
<1>1. /\ m \in Seq(S) /\ Len(m) = Len(l) + 1 /\ Len(l) \in Nat
      /\ DOMAIN m = 1 .. (Len(l) + 1) /\ DOMAIN l = 1 .. Len(l)
      /\ \A i \in 1 .. Len(l) : m[i] = l[i]
      /\ m[Len(l) + 1] = e
    OBVIOUS
<1> HIDE DEF m
<1>2. Range(m) = Range(l) \union {e}
    BY <1>1 DEF Range
<1>3. ASSUME NEW x, NEW y, Ahead(m, x, y)
      PROVE  Ahead(l, x, y) \/ (x \in Range(l) /\ y = e)
  <2>1. PICK i, j \in 1 .. (Len(l) + 1) : i < j /\ m[i] = x /\ m[j] = y
    BY <1>1, <1>3 DEF Ahead
  <2>2. i \in 1 .. Len(l) /\ l[i] = x
    BY <1>1, <2>1
  <2>3. j = Len(l) + 1 \/ (j \in 1 .. Len(l) /\ l[j] = y)
    BY <1>1, <2>1
  <2> QED
    BY <1>1, <2>1, <2>2, <2>3 DEF Ahead, Range
<1>4. ASSUME NEW x, NEW y, Ahead(l, x, y) \/ (x \in Range(l) /\ y = e)
      PROVE  Ahead(m, x, y)
  <2>1. CASE Ahead(l, x, y)
    BY <1>1, <2>1 DEF Ahead
  <2>2. CASE x \in Range(l) /\ y = e
    <3>1. PICK i \in 1 .. Len(l) : l[i] = x
      BY <1>1, <2>2 DEF Range
    <3>2. i \in DOMAIN m /\ Len(l) + 1 \in DOMAIN m /\ i < Len(l) + 1 /\ m[i] = x
      BY <1>1, <3>1
    <3> QED
      BY <1>1, <2>2, <3>2 DEF Ahead
  <2> QED
    BY <1>4, <2>1, <2>2
<1> QED
    BY <1>1, <1>2, <1>3, <1>4 DEF m

LEMMA JoinedLists ==
    ASSUME NEW S, NEW a \in Seq(S), NEW b \in Seq(S)
    PROVE  /\ a \o b \in Seq(S) /\ Len(a \o b) = Len(a) + Len(b)
           /\ Range(a \o b) = Range(a) \union Range(b)
           /\ \A x, y : Ahead(a \o b, x, y) <=>
                  \/ Ahead(a, x, y) \/ Ahead(b, x, y)
                  \/ x \in Range(a) /\ y \in Range(b)
<1> DEFINE m == a \o b
<1>1. /\ m \in Seq(S) /\ Len(m) = Len(a) + Len(b) /\ Len(a) \in Nat /\ Len(b) \in Nat
      /\ DOMAIN m = 1 .. (Len(a) + Len(b)) /\ DOMAIN a = 1 .. Len(a) /\ DOMAIN b = 1 .. Len(b)
      /\ \A i \in 1 .. Len(a) : m[i] = a[i]
      /\ \A i \in 1 .. Len(b) : m[Len(a) + i] = b[i]
    OBVIOUS
<1> HIDE DEF m
<1>2. \A i \in DOMAIN m : \/ i \in DOMAIN a /\ m[i] = a[i]
                          \/ i - Len(a) \in DOMAIN b /\ m[i] = b[i - Len(a)] /\ i > Len(a)
  <2> TAKE i \in DOMAIN m
  <2>1. CASE i \in 1 .. Len(a)
    BY <1>1, <2>1
  <2>2. CASE i > Len(a)
    <3>1. i - Len(a) \in 1 .. Len(b) /\ Len(a) + (i - Len(a)) = i
      BY <1>1, <2>2
    <3> QED
      BY <1>1, <2>2, <3>1
  <2> QED
    BY <1>1, <2>1, <2>2
<1>3. \A i \in DOMAIN b : Len(a) + i \in DOMAIN m /\ m[Len(a) + i] = b[i]
    BY <1>1
<1>4. \A i \in DOMAIN a : i \in DOMAIN m /\ m[i] = a[i]
    BY <1>1
<1>5. Range(m) = Range(a) \union Range(b)
    BY <1>2, <1>3, <1>4 DEF Range
<1>6. ASSUME NEW x, NEW y, Ahead(m, x, y)
      PROVE  \/ Ahead(a, x, y) \/ Ahead(b, x, y)
             \/ x \in Range(a) /\ y \in Range(b)
  <2>1. PICK i, j \in DOMAIN m : i < j /\ m[i] = x /\ m[j] = y
    BY <1>6 DEF Ahead
  <2>2. CASE j \in DOMAIN a
    <3>1. i \in DOMAIN a
      BY <1>1, <2>1, <2>2
    <3> QED
      BY <1>4, <2>1, <2>2, <3>1 DEF Ahead
  <2>3. CASE i \in DOMAIN a /\ j \notin DOMAIN a
    <3>1. y \in Range(b) /\ x \in Range(a)
      BY <1>2, <1>4, <2>1, <2>3 DEF Range
    <3> QED
      BY <3>1
  <2>4. CASE i \notin DOMAIN a
    <3>1. /\ i - Len(a) \in DOMAIN b /\ m[i] = b[i - Len(a)]
          /\ j - Len(a) \in DOMAIN b /\ m[j] = b[j - Len(a)]
          /\ i - Len(a) < j - Len(a)
      <4>1. i - Len(a) \in DOMAIN b /\ m[i] = b[i - Len(a)] /\ i > Len(a)
        BY <1>2, <2>4
      <4>2. j \notin DOMAIN a
        BY <1>1, <2>1, <4>1
      <4> QED
        BY <1>1, <1>2, <2>1, <4>1, <4>2
    <3> QED
      BY <2>1, <3>1 DEF Ahead
  <2> QED
    BY <2>2, <2>3, <2>4
<1>7. ASSUME NEW x, NEW y, Ahead(a, x, y) PROVE Ahead(m, x, y)
    BY <1>4, <1>7 DEF Ahead
<1>8. ASSUME NEW x, NEW y, Ahead(b, x, y) PROVE Ahead(m, x, y)
  <2>1. PICK i, j \in DOMAIN b : i < j /\ b[i] = x /\ b[j] = y
    BY <1>8 DEF Ahead
  <2>2. Len(a) + i < Len(a) + j
    BY <1>1, <2>1
  <2> QED
    BY <1>3, <2>1, <2>2 DEF Ahead
<1>9. ASSUME NEW x \in Range(a), NEW y \in Range(b) PROVE Ahead(m, x, y)
  <2>1. PICK i \in DOMAIN a, j \in DOMAIN b : a[i] = x /\ b[j] = y
    BY DEF Range
  <2>2. i < Len(a) + j
    BY <1>1, <2>1
  <2> QED
    BY <1>3, <1>4, <2>1, <2>2 DEF Ahead
<1> QED
    BY <1>1, <1>5, <1>6, <1>7, <1>8, <1>9 DEF m

(* A list is built by appending its elements.                              *)
Builds(g, l, S) ==
    /\ g \in [0 .. Len(l) -> Seq(S)]
    /\ g[0] = <<>> /\ g[Len(l)] = l
    /\ \A n \in 1 .. Len(l) : g[n] = Append(g[n - 1], l[n])

LEMMA ListBuilt ==
    ASSUME NEW S, NEW l \in Seq(S)
    PROVE  \E g : Builds(g, l, S)
<1> DEFINE First(n) == SubSeq(l, 1, n)
           g == [n \in 0 .. Len(l) |-> First(n)]
<1>1. Len(l) \in Nat /\ First(0) = <<>> /\ First(Len(l)) = l
    OBVIOUS
<1>2. \A n \in 0 .. Len(l) : First(n) \in Seq(S)
    OBVIOUS
<1>3. ASSUME NEW n \in 1 .. Len(l)
      PROVE  First(n) = Append(First(n - 1), l[n])
  <2> DEFINE a == First(n)
             b == Append(First(n - 1), l[n])
  <2>1. a \in Seq(S) /\ Len(a) = n /\ \A i \in 1 .. n : a[i] = l[i]
    BY <1>1
  <2>2. b \in Seq(S) /\ Len(b) = n /\ \A i \in 1 .. n : b[i] = l[i]
    BY <1>1
  <2> HIDE DEF a, b
  <2>3. a = b
    BY <2>1, <2>2
  <2> QED
    BY <2>3 DEF a, b
<1> HIDE DEF First
<1>4. /\ g \in [0 .. Len(l) -> Seq(S)] /\ g[0] = <<>> /\ g[Len(l)] = l
    BY <1>1, <1>2
<1>5. \A n \in 1 .. Len(l) : g[n] = Append(g[n - 1], l[n])
    BY <1>1, <1>3
<1> HIDE DEF g
<1> QED
    BY <1>4, <1>5 DEF Builds

(* Selected and Flatten, one element after the other.                      *)
Selects(f, l, C, S) ==
    /\ f \in [0 .. Len(l) -> Seq(S)]
    /\ f[0] = <<>> /\ Selected(l, C) = f[Len(l)]
    /\ \A n \in 1 .. Len(l) :
           f[n] = IF l[n] \in C THEN Append(f[n - 1], l[n]) ELSE f[n - 1]

LEMMA SelectedSteps ==
    ASSUME NEW S, NEW l \in Seq(S), NEW C
    PROVE  \E f : Selects(f, l, C, S)
<1> DEFINE V == Seq(S)
           N == Len(l)
           G == [x \in Nat \X V |->
                    IF x[1] \in 1 .. N /\ l[x[1]] \in C THEN Append(x[2], l[x[1]]) ELSE x[2]]
           Step(f) == [n \in 0 .. N |->
                          IF n = 0 THEN <<>>
                          ELSE IF l[n] \in C THEN Append(f[n - 1], l[n]) ELSE f[n - 1]]
           kept == CHOOSE f : f = Step(f)
<1>1. N \in Nat /\ <<>> \in V /\ \A n \in 1 .. N : l[n] \in S
    OBVIOUS
<1>2. G \in [Nat \X V -> V]
    OBVIOUS
<1>3. PICK f : MadeWith(f, V, <<>>, G, N)
  <2> HIDE DEF G, V, N
  <2> QED
    BY <1>1, <1>2, Recursion
<1>4. f \in [0 .. N -> V] /\ f[0] = <<>> /\ \A n \in 1 .. N : f[n] = G[<<n, f[n - 1]>>]
    BY <1>3 DEF MadeWith
<1>5. \A n \in 1 .. N : /\ n - 1 \in 0 .. N /\ f[n - 1] \in V
                        /\ f[n] = IF l[n] \in C THEN Append(f[n - 1], l[n]) ELSE f[n - 1]
  <2> TAKE n \in 1 .. N
  <2>1. n - 1 \in 0 .. N /\ n \in Nat /\ f[n - 1] \in V
    BY <1>1, <1>4
  <2>2. G[<<n, f[n - 1]>>] = IF l[n] \in C THEN Append(f[n - 1], l[n]) ELSE f[n - 1]
    BY <2>1
  <2> HIDE DEF G
  <2> QED
    BY <1>4, <2>1, <2>2
<1> HIDE DEF G
<1>6. f = Step(f)
  <2>1. \A n \in 0 .. N : f[n] = Step(f)[n]
    <3> TAKE n \in 0 .. N
    <3>1. n = 0 \/ n \in 1 .. N
      BY <1>1
    <3> QED
      BY <1>4, <1>5, <3>1
  <2>2. f = [n \in 0 .. N |-> f[n]]
    BY <1>4
  <2> QED
    BY <2>1, <2>2
<1>7. kept = Step(kept)
    BY <1>6
<1>8. Selected(l, C) = kept[N]
    BY DEF Selected
<1> HIDE DEF kept
<1>9. \A n \in Nat : n \in {m \in Nat : m <= N => kept[m] = f[m]}
  <2> DEFINE T == {m \in Nat : m <= N => kept[m] = f[m]}
  <2>1. 0 \in T
    <3>1. kept[0] = Step(kept)[0]
      BY <1>7
    <3> QED
      BY <1>1, <1>4, <3>1
  <2>2. ASSUME NEW n \in T
        PROVE  n + 1 \in T
    <3>1. CASE n + 1 <= N
      <4>1. n + 1 \in 1 .. N /\ n + 1 \in 0 .. N /\ n \in Nat /\ n <= N /\ (n + 1) - 1 = n
        BY <1>1, <3>1
      <4>2. kept[n + 1] = Step(kept)[n + 1]
        BY <1>7
      <4>3. kept[n + 1] = IF l[n + 1] \in C THEN Append(kept[n], l[n + 1]) ELSE kept[n]
        BY <4>1, <4>2
      <4>4. f[n + 1] = IF l[n + 1] \in C THEN Append(f[n], l[n + 1]) ELSE f[n]
        BY <1>5, <4>1
      <4> QED
        BY <2>2, <4>1, <4>3, <4>4
    <3> QED
      BY <1>1, <3>1
  <2>3. T \in SUBSET Nat
    OBVIOUS
  <2> HIDE DEF T
  <2>4. \A n \in Nat : n \in T
    BY <2>1, <2>2, <2>3, Induction
  <2> QED
    BY <2>4 DEF T
<1>10. kept[N] = f[N]
    BY <1>1, <1>9
<1> QED
    BY <1>4, <1>5, <1>8, <1>10 DEF Selects

LEMMA SelectedList ==
    ASSUME NEW S, NEW l \in Seq(S), NEW C
    PROVE  /\ Selected(l, C) \in Seq(S) /\ Range(Selected(l, C)) = Range(l) \intersect C
           /\ \A x, y : Ahead(Selected(l, C), x, y) <=> Ahead(l, x, y) /\ x \in C /\ y \in C
           /\ Len(Selected(l, C)) <= Len(l)
<1>0. PICK f : Selects(f, l, C, S)
    BY SelectedSteps
<1>1. /\ f \in [0 .. Len(l) -> Seq(S)]
      /\ f[0] = <<>> /\ Selected(l, C) = f[Len(l)]
      /\ \A n \in 1 .. Len(l) :
             f[n] = IF l[n] \in C THEN Append(f[n - 1], l[n]) ELSE f[n - 1]
    BY <1>0 DEF Selects
<1>b. PICK g : Builds(g, l, S)
    BY ListBuilt
<1>2. /\ g \in [0 .. Len(l) -> Seq(S)] /\ g[0] = <<>> /\ g[Len(l)] = l
      /\ \A n \in 1 .. Len(l) : g[n] = Append(g[n - 1], l[n]) /\ l[n] \in S
      /\ Len(l) \in Nat
    BY <1>b DEF Builds
<1> DEFINE Right(n) == /\ Range(f[n]) = Range(g[n]) \intersect C
                       /\ \A x, y : Ahead(f[n], x, y) <=> Ahead(g[n], x, y) /\ x \in C /\ y \in C
                       /\ Len(f[n]) <= n
           T == {n \in Nat : n <= Len(l) => Right(n)}
<1>3. 0 \in T
  <2>1. f[0] = <<>> /\ g[0] = <<>> /\ Len(<<>>) = 0
    BY <1>1, <1>2
  <2>2. Range(f[0]) = Range(g[0]) \intersect C
    BY <2>1, EmptyList
  <2>3. \A x, y : Ahead(f[0], x, y) <=> Ahead(g[0], x, y) /\ x \in C /\ y \in C
    BY <2>1, EmptyList
  <2> QED
    BY <2>1, <2>2, <2>3
<1>4. ASSUME NEW n \in T
      PROVE  n + 1 \in T
  <2>1. CASE n + 1 <= Len(l)
    <3>0. n + 1 \in 1 .. Len(l) /\ (n + 1) - 1 = n /\ n \in 0 .. Len(l)
      BY <1>2, <2>1
    <3>1. /\ n + 1 \in 1 .. Len(l) /\ (n + 1) - 1 = n /\ n \in 0 .. Len(l) /\ l[n + 1] \in S
          /\ f[n] \in Seq(S) /\ g[n] \in Seq(S) /\ Len(f[n]) \in Nat
      BY <1>1, <1>2, <3>0
    <3>2. g[n + 1] = Append(g[n], l[n + 1])
      BY <1>2, <3>1
    <3>3. Right(n)
      BY <1>2, <1>4, <3>1
    <3>4. CASE l[n + 1] \in C
      <4>1. f[n + 1] = Append(f[n], l[n + 1])
        BY <1>1, <3>1, <3>4
      <4>2. /\ Range(f[n + 1]) = Range(f[n]) \union {l[n + 1]}
            /\ \A x, y : Ahead(f[n + 1], x, y) <=> Ahead(f[n], x, y) \/ (x \in Range(f[n]) /\ y = l[n + 1])
            /\ Len(f[n + 1]) = Len(f[n]) + 1
        BY <3>1, <4>1, AppendedList
      <4>3. /\ Range(g[n + 1]) = Range(g[n]) \union {l[n + 1]}
            /\ \A x, y : Ahead(g[n + 1], x, y) <=> Ahead(g[n], x, y) \/ (x \in Range(g[n]) /\ y = l[n + 1])
        BY <3>1, <3>2, AppendedList
      <4>4. Right(n + 1)
        BY <3>1, <3>3, <3>4, <4>2, <4>3
      <4> QED
        BY <4>4
    <3>5. CASE l[n + 1] \notin C
      <4>1. f[n + 1] = f[n]
        BY <1>1, <3>1, <3>5
      <4>3. /\ Range(g[n + 1]) = Range(g[n]) \union {l[n + 1]}
            /\ \A x, y : Ahead(g[n + 1], x, y) <=> Ahead(g[n], x, y) \/ (x \in Range(g[n]) /\ y = l[n + 1])
        BY <3>1, <3>2, AppendedList
      <4>4. Right(n + 1)
        BY <3>1, <3>3, <3>5, <4>1, <4>3
      <4> QED
        BY <4>4
    <3> QED
      BY <3>4, <3>5
  <2> QED
    BY <1>2, <2>1
<1>5. Right(Len(l))
  <2>1. T \in SUBSET Nat
    OBVIOUS
  <2>2. \A n \in Nat : n \in T
    <3> HIDE DEF T
    <3> QED
      BY <1>3, <1>4, <2>1, Induction
  <2>3. Len(l) \in T
    BY <1>2, <2>2
  <2> QED
    BY <1>2, <2>3
<1>6. f[Len(l)] \in Seq(S)
    BY <1>1, <1>2
<1> QED
    BY <1>1, <1>2, <1>5, <1>6

Flattens(f, l, S) ==
    /\ f \in [0 .. Len(l) -> Seq(S)]
    /\ f[0] = <<>> /\ Flatten(l) = f[Len(l)]
    /\ \A n \in 1 .. Len(l) :
           f[n] = f[n - 1] \o l[n]

LEMMA FlattenSteps ==
    ASSUME NEW S, NEW l \in Seq(Seq(S))
    PROVE  \E f : Flattens(f, l, S)
<1> DEFINE V == Seq(S)
           N == Len(l)
           G == [x \in Nat \X V |->
                    IF x[1] \in 1 .. N THEN x[2] \o l[x[1]] ELSE x[2]]
           Step(f) == [n \in 0 .. N |->
                          IF n = 0 THEN <<>> ELSE f[n - 1] \o l[n]]
           flat == CHOOSE f : f = Step(f)
<1>1. N \in Nat /\ <<>> \in V /\ \A n \in 1 .. N : l[n] \in V
    OBVIOUS
<1>2. G \in [Nat \X V -> V]
    OBVIOUS
<1> HIDE DEF V
<1>3. PICK f : MadeWith(f, V, <<>>, G, N)
  <2> HIDE DEF G, N
  <2> QED
    BY <1>1, <1>2, Recursion
<1>4. f \in [0 .. N -> V] /\ f[0] = <<>> /\ \A n \in 1 .. N : f[n] = G[<<n, f[n - 1]>>]
    BY <1>3 DEF MadeWith
<1>5. \A n \in 1 .. N : /\ n - 1 \in 0 .. N /\ f[n - 1] \in V
                        /\ f[n] = f[n - 1] \o l[n]
  <2> TAKE n \in 1 .. N
  <2>0. n - 1 \in 0 .. N /\ n \in Nat
    BY <1>1
  <2>1. n - 1 \in 0 .. N /\ n \in Nat /\ f[n - 1] \in V
    BY <1>4, <2>0
  <2>2. G[<<n, f[n - 1]>>] = f[n - 1] \o l[n]
    BY <2>1
  <2> HIDE DEF G
  <2> QED
    BY <1>4, <2>1, <2>2
<1> HIDE DEF G
<1>6. f = Step(f)
  <2>1. \A n \in 0 .. N : f[n] = Step(f)[n]
    <3> TAKE n \in 0 .. N
    <3>1. n = 0 \/ n \in 1 .. N
      BY <1>1
    <3> QED
      BY <1>4, <1>5, <3>1
  <2>2. f = [n \in 0 .. N |-> f[n]]
    BY <1>4
  <2> QED
    BY <2>1, <2>2
<1>7. flat = Step(flat)
    BY <1>6
<1>8. Flatten(l) = flat[N]
    BY DEF Flatten
<1> HIDE DEF flat
<1>9. \A n \in Nat : n \in {m \in Nat : m <= N => flat[m] = f[m]}
  <2> DEFINE T == {m \in Nat : m <= N => flat[m] = f[m]}
  <2>1. 0 \in T
    <3>1. flat[0] = Step(flat)[0]
      BY <1>7
    <3> QED
      BY <1>1, <1>4, <3>1
  <2>2. ASSUME NEW n \in T
        PROVE  n + 1 \in T
    <3>1. CASE n + 1 <= N
      <4>1. n + 1 \in 1 .. N /\ n + 1 \in 0 .. N /\ n \in Nat /\ n <= N /\ (n + 1) - 1 = n
        BY <1>1, <3>1
      <4>2. flat[n + 1] = Step(flat)[n + 1]
        BY <1>7
      <4>3. flat[n + 1] = flat[n] \o l[n + 1]
        <5> DEFINE More(m) == flat[m - 1] \o l[m]
        <5>1. Step(flat) = [m \in 0 .. N |-> IF m = 0 THEN <<>> ELSE More(m)]
          OBVIOUS
        <5> HIDE DEF More
        <5>2. flat[n + 1] = [m \in 0 .. N |-> IF m = 0 THEN <<>> ELSE More(m)][n + 1]
          <6> HIDE DEF Step
          <6> QED
            BY <4>2, <5>1
        <5>3. flat[n + 1] = More(n + 1)
          BY <4>1, <5>2
        <5> QED
          BY <4>1, <5>3 DEF More
      <4>4. f[n + 1] = f[n] \o l[n + 1]
        BY <1>5, <4>1
      <4>5. flat[n] = f[n]
        BY <2>2, <4>1
      <4>6. flat[n + 1] = f[n + 1]
        BY <4>3, <4>4, <4>5
      <4> QED
        BY <4>6
    <3> QED
      BY <1>1, <3>1
  <2>3. T \in SUBSET Nat
    OBVIOUS
  <2> HIDE DEF T
  <2>4. \A n \in Nat : n \in T
    BY <2>1, <2>2, <2>3, Induction
  <2> QED
    BY <2>4 DEF T
<1>10. flat[N] = f[N]
    BY <1>1, <1>9
<1> QED
    BY <1>4, <1>5, <1>8, <1>10 DEF Flattens, V

LEMMA FlattenList ==
    ASSUME NEW S, NEW l \in Seq(Seq(S))
    PROVE  /\ Flatten(l) \in Seq(S)
           /\ \A x : x \in Range(Flatten(l)) <=> \E k \in Range(l) : x \in Range(k)
           /\ \A x, y : Ahead(Flatten(l), x, y) <=>
                  \/ \E k \in Range(l) : Ahead(k, x, y)
                  \/ \E k, m : Ahead(l, k, m) /\ x \in Range(k) /\ y \in Range(m)
<1>0. PICK f : Flattens(f, l, S)
    BY FlattenSteps
<1>1. /\ f \in [0 .. Len(l) -> Seq(S)]
      /\ f[0] = <<>> /\ Flatten(l) = f[Len(l)]
      /\ \A n \in 1 .. Len(l) : f[n] = f[n - 1] \o l[n]
    BY <1>0 DEF Flattens
<1>b. PICK g : Builds(g, l, Seq(S))
    BY ListBuilt
<1>2. /\ g \in [0 .. Len(l) -> Seq(Seq(S))] /\ g[0] = <<>> /\ g[Len(l)] = l
      /\ \A n \in 1 .. Len(l) : g[n] = Append(g[n - 1], l[n]) /\ l[n] \in Seq(S)
      /\ Len(l) \in Nat
    BY <1>b DEF Builds
<1> DEFINE In(n) == \A x : x \in Range(f[n]) <=> \E k \in Range(g[n]) : x \in Range(k)
           Order(n) == \A x, y : Ahead(f[n], x, y) <=>
                  \/ \E k \in Range(g[n]) : Ahead(k, x, y)
                  \/ \E k, m : Ahead(g[n], k, m) /\ x \in Range(k) /\ y \in Range(m)
           T == {n \in Nat : n <= Len(l) => In(n) /\ Order(n)}
<1>3. 0 \in T
  <2>1. In(0) /\ Order(0)
    BY <1>1, <1>2, EmptyList
  <2> QED
    BY <2>1
<1>4. ASSUME NEW n \in T
      PROVE  n + 1 \in T
  <2>1. CASE n + 1 <= Len(l)
    <3>0. n + 1 \in 1 .. Len(l) /\ (n + 1) - 1 = n /\ n \in 0 .. Len(l)
      BY <1>2, <2>1
    <3>1. /\ l[n + 1] \in Seq(S) /\ f[n] \in Seq(S) /\ g[n] \in Seq(Seq(S))
          /\ f[n + 1] = f[n] \o l[n + 1] /\ g[n + 1] = Append(g[n], l[n + 1])
      BY <1>1, <1>2, <3>0
    <3>2. In(n) /\ Order(n)
      BY <1>2, <1>4, <3>0
    <3>3. /\ Range(f[n + 1]) = Range(f[n]) \union Range(l[n + 1])
          /\ \A x, y : Ahead(f[n + 1], x, y) <=>
                 \/ Ahead(f[n], x, y) \/ Ahead(l[n + 1], x, y)
                 \/ x \in Range(f[n]) /\ y \in Range(l[n + 1])
      BY <3>1, JoinedLists
    <3>4. /\ Range(g[n + 1]) = Range(g[n]) \union {l[n + 1]}
          /\ \A x, y : Ahead(g[n + 1], x, y) <=>
                 Ahead(g[n], x, y) \/ (x \in Range(g[n]) /\ y = l[n + 1])
      BY <3>1, AppendedList
    <3>5. In(n + 1)
      BY <3>2, <3>3, <3>4
    <3>6. Order(n + 1)
      BY <3>2, <3>3, <3>4
    <3> QED
      BY <3>5, <3>6
  <2> QED
    BY <1>2, <2>1
<1>5. In(Len(l)) /\ Order(Len(l))
  <2>1. T \in SUBSET Nat
    OBVIOUS
  <2>2. \A n \in Nat : n \in T
    <3> HIDE DEF T
    <3> QED
      BY <1>3, <1>4, <2>1, Induction
  <2>3. Len(l) \in T
    BY <1>2, <2>2
  <2> QED
    BY <1>2, <2>3
<1>6. f[Len(l)] \in Seq(S)
  <2>1. Len(l) \in 0 .. Len(l)
    BY <1>2
  <2> QED
    BY <1>1, <2>1
<1> QED
    BY <1>1, <1>2, <1>5, <1>6

-----------------------------------------------------------------------------
(* Insertion sort by a relation of pairs, e. g. of elements by their sorter. *)

(* A strict weak order.                                                    *)
WeakOrder(Less, S) ==
    /\ Less \subseteq S \X S
    /\ \A x \in S : <<x, x>> \notin Less
    /\ \A x, y, z \in S : <<x, y>> \in Less /\ <<y, z>> \in Less => <<x, z>> \in Less
    /\ \A x, y, z \in S : <<x, z>> \in Less => <<x, y>> \in Less \/ <<y, z>> \in Less

LEMMA InsertedList ==
    ASSUME NEW S, NEW l \in Seq(S), NEW e \in S, NEW Less
    PROVE  /\ Insertion(l, e, Less) \in Seq(S)
           /\ Range(Insertion(l, e, Less)) = Range(l) \union {e}
           /\ \A x, y : Ahead(Insertion(l, e, Less), x, y) <=>
                  \/ Ahead(l, x, y) /\ (<<e, x>> \in Less <=> <<e, y>> \in Less)
                  \/ x \in Range(l) /\ y \in Range(l) /\ <<e, x>> \notin Less /\ <<e, y>> \in Less
                  \/ x \in Range(l) /\ <<e, x>> \notin Less /\ y = e
                  \/ x = e /\ y \in Range(l) /\ <<e, y>> \in Less
<1> DEFINE after == {x \in Range(l) : <<e, x>> \in Less}
           low == Selected(l, Range(l) \ after)
           high == Selected(l, after)
           middle == <<e>>
<1>1. /\ low \in Seq(S) /\ Range(low) = Range(l) \intersect (Range(l) \ after)
      /\ \A x, y : Ahead(low, x, y) <=> Ahead(l, x, y) /\ x \in Range(l) \ after /\ y \in Range(l) \ after
    BY SelectedList
<1>2. /\ high \in Seq(S) /\ Range(high) = Range(l) \intersect after
      /\ \A x, y : Ahead(high, x, y) <=> Ahead(l, x, y) /\ x \in after /\ y \in after
    BY SelectedList
<1>3. middle \in Seq(S) /\ Range(middle) = {e} /\ \A x, y : ~Ahead(middle, x, y)
  <2>1. /\ middle \in Seq(S) /\ DOMAIN middle = {1} /\ middle[1] = e
    OBVIOUS
  <2> QED
    BY <2>1 DEF Range, Ahead
<1> HIDE DEF low, high, middle
<1>4. /\ low \o middle \in Seq(S) /\ Range(low \o middle) = Range(low) \union {e}
      /\ \A x, y : Ahead(low \o middle, x, y) <=> Ahead(low, x, y) \/ (x \in Range(low) /\ y = e)
    BY <1>1, <1>3, JoinedLists
<1> DEFINE start == low \o middle
<1> HIDE DEF start
<1>5. /\ start \in Seq(S) /\ Range(start) = Range(low) \union {e}
      /\ \A x, y : Ahead(start, x, y) <=> Ahead(low, x, y) \/ (x \in Range(low) /\ y = e)
    BY <1>4 DEF start
<1>6. /\ start \o high \in Seq(S) /\ Range(start \o high) = Range(start) \union Range(high)
      /\ \A x, y : Ahead(start \o high, x, y) <=>
            Ahead(start, x, y) \/ Ahead(high, x, y) \/ (x \in Range(start) /\ y \in Range(high))
    BY <1>2, <1>5, JoinedLists
<1>7. Insertion(l, e, Less) = start \o high
    BY DEF Insertion, start, low, middle, high
<1> DEFINE m == start \o high
<1> HIDE DEF m
<1>8. m = Insertion(l, e, Less)
    BY <1>7 DEF m
<1>9. Range(m) = Range(l) \union {e}
    BY <1>1, <1>2, <1>5, <1>6 DEF m
<1>10. \A x, y : Ahead(m, x, y) <=>
            \/ Ahead(low, x, y) \/ (x \in Range(low) /\ y = e)
            \/ Ahead(high, x, y) \/ ((x \in Range(low) \/ x = e) /\ y \in Range(high))
    BY <1>5, <1>6 DEF m
<1>11. \A x, y : Ahead(l, x, y) => x \in Range(l) /\ y \in Range(l)
    BY AheadRange
<1>12. \A x : x \in Range(low) <=> x \in Range(l) /\ <<e, x>> \notin Less
    BY <1>1
<1>13. \A x : x \in Range(high) <=> x \in Range(l) /\ <<e, x>> \in Less
    BY <1>2
<1>14. \A x, y : Ahead(low, x, y) <=> Ahead(l, x, y) /\ <<e, x>> \notin Less /\ <<e, y>> \notin Less
    BY <1>1, <1>11
<1>15. \A x, y : Ahead(high, x, y) <=> Ahead(l, x, y) /\ <<e, x>> \in Less /\ <<e, y>> \in Less
    BY <1>2, <1>11
<1> HIDE DEF after
<1>16. \A x, y : Ahead(m, x, y) <=>
                  \/ Ahead(l, x, y) /\ (<<e, x>> \in Less <=> <<e, y>> \in Less)
                  \/ x \in Range(l) /\ y \in Range(l) /\ <<e, x>> \notin Less /\ <<e, y>> \in Less
                  \/ x \in Range(l) /\ <<e, x>> \notin Less /\ y = e
                  \/ x = e /\ y \in Range(l) /\ <<e, y>> \in Less
    BY <1>10, <1>12, <1>13, <1>14, <1>15
<1>17. m \in Seq(S)
    BY <1>6 DEF m
<1> QED
    BY <1>8, <1>9, <1>16, <1>17

Inserts(f, l, Less, S) ==
    /\ f \in [0 .. Len(l) -> Seq(S)]
    /\ f[0] = <<>>
    /\ \A n \in 1 .. Len(l) : f[n] = Insertion(f[n - 1], l[n], Less)

LEMMA InsertsExists ==
    ASSUME NEW S, NEW l \in Seq(S), NEW Less
    PROVE  \E f : Inserts(f, l, Less, S)
<1> DEFINE V == Seq(S)
           N == Len(l)
           Next(n, q) == IF n \in 1 .. N THEN Insertion(q, l[n], Less) ELSE q
           G == [x \in Nat \X V |-> Next(x[1], x[2])]
<1>1. N \in Nat /\ <<>> \in V /\ \A n \in 1 .. N : l[n] \in S
    OBVIOUS
<1>2. \A n \in 1 .. N, q \in V : Insertion(q, l[n], Less) \in V
    BY <1>1, InsertedList
<1> HIDE DEF V, N
<1>3. \A n \in Nat, q \in V : Next(n, q) \in V
    BY <1>2
<1>4. /\ G \in [Nat \X V -> V]
      /\ \A n \in 1 .. N, q \in V : n \in Nat /\ G[<<n, q>>] = Insertion(q, l[n], Less)
  <2>1. \A n \in 1 .. N, q \in V : n \in Nat /\ Next(n, q) = Insertion(q, l[n], Less)
    BY <1>1
  <2> HIDE DEF Next
  <2>2. G \in [Nat \X V -> V]
    BY <1>3
  <2> QED
    BY <2>1, <2>2
<1> HIDE DEF G
<1>5. PICK f : MadeWith(f, V, <<>>, G, N)
    BY <1>1, <1>4, Recursion
<1>6. f \in [0 .. N -> V] /\ f[0] = <<>> /\ \A n \in 1 .. N : f[n] = G[<<n, f[n - 1]>>]
    BY <1>5 DEF MadeWith
<1>7. \A n \in 1 .. N : f[n] = Insertion(f[n - 1], l[n], Less)
  <2> TAKE n \in 1 .. N
  <2>1. n - 1 \in 0 .. N
    BY <1>1
  <2>2. f[n - 1] \in V
    BY <1>6, <2>1
  <2> QED
    BY <1>4, <1>6, <2>2
<1> QED
    BY <1>6, <1>7 DEF Inserts, V, N

LEMMA InsertionsSort ==
    ASSUME NEW S, NEW l \in Seq(S), NEW Less, WeakOrder(Less, S),
           NEW f, Inserts(f, l, Less, S)
    PROVE  /\ f[Len(l)] \in Seq(S) /\ Range(f[Len(l)]) = Range(l)
           /\ \A x, y : Ahead(f[Len(l)], x, y) <=>
                  /\ x \in Range(l) /\ y \in Range(l)
                  /\ <<x, y>> \in Less \/ (<<y, x>> \notin Less /\ Ahead(l, x, y))
<1>1. /\ f \in [0 .. Len(l) -> Seq(S)] /\ f[0] = <<>>
      /\ \A n \in 1 .. Len(l) : f[n] = Insertion(f[n - 1], l[n], Less)
    BY DEF Inserts
<1>b. PICK g : Builds(g, l, S)
    BY ListBuilt
<1>2. /\ g \in [0 .. Len(l) -> Seq(S)] /\ g[0] = <<>> /\ g[Len(l)] = l
      /\ \A n \in 1 .. Len(l) : g[n] = Append(g[n - 1], l[n]) /\ l[n] \in S
      /\ Len(l) \in Nat
    BY <1>b DEF Builds
<1> DEFINE In(n) == Range(f[n]) = Range(g[n])
           Order(n) == \A x, y : Ahead(f[n], x, y) <=>
                  /\ x \in Range(g[n]) /\ y \in Range(g[n])
                  /\ <<x, y>> \in Less \/ (<<y, x>> \notin Less /\ Ahead(g[n], x, y))
           T == {n \in Nat : n <= Len(l) => In(n) /\ Order(n)}
<1>3. 0 \in T
  <2>1. In(0) /\ Order(0)
    BY <1>1, <1>2, EmptyList
  <2> QED
    BY <2>1
<1>4. ASSUME NEW n \in T
      PROVE  n + 1 \in T
  <2>1. CASE n + 1 <= Len(l)
    <3>0. n + 1 \in 1 .. Len(l) /\ (n + 1) - 1 = n /\ n \in 0 .. Len(l)
      BY <1>2, <2>1
    <3> DEFINE e == l[n + 1]
               a == f[n]
               b == f[n + 1]
               c == g[n]
               d == g[n + 1]
    <3>1. /\ e \in S /\ a \in Seq(S) /\ c \in Seq(S)
          /\ b = Insertion(a, e, Less) /\ d = Append(c, e)
      BY <1>1, <1>2, <3>0
    <3>2. In(n) /\ Order(n)
      BY <1>2, <1>4, <3>0
    <3> HIDE DEF e, b, d
    <3>3. /\ Range(b) = Range(a) \union {e}
          /\ \A x, y : Ahead(b, x, y) <=>
                  \/ Ahead(a, x, y) /\ (<<e, x>> \in Less <=> <<e, y>> \in Less)
                  \/ x \in Range(a) /\ y \in Range(a) /\ <<e, x>> \notin Less /\ <<e, y>> \in Less
                  \/ x \in Range(a) /\ <<e, x>> \notin Less /\ y = e
                  \/ x = e /\ y \in Range(a) /\ <<e, y>> \in Less
      BY <3>1, InsertedList
    <3>4. /\ Range(d) = Range(c) \union {e}
          /\ \A x, y : Ahead(d, x, y) <=> Ahead(c, x, y) \/ (x \in Range(c) /\ y = e)
      BY <3>1, AppendedList
    <3>5. /\ Range(a) = Range(c)
          /\ \A x, y : Ahead(a, x, y) <=>
                  /\ x \in Range(c) /\ y \in Range(c)
                  /\ <<x, y>> \in Less \/ (<<y, x>> \notin Less /\ Ahead(c, x, y))
      BY <3>2
    <3> HIDE DEF a, c
    <3>6. Range(c) \subseteq S
      BY <3>1, RangeOfList
    <3>7. \A x, y : Ahead(c, x, y) => x \in Range(c) /\ y \in Range(c)
      BY AheadRange
    <3>8. Range(b) = Range(d)
      BY <3>3, <3>4, <3>5
    <3>9. ASSUME NEW x \in Range(d), NEW y \in Range(d)
          PROVE  Ahead(b, x, y) <=> <<x, y>> \in Less \/ (<<y, x>> \notin Less /\ Ahead(d, x, y))
      <4>1. x \in S /\ y \in S
        BY <3>1, <3>4, <3>6
      <4>2. CASE x = e /\ y = e /\ e \notin Range(c)
        BY <3>3, <3>4, <3>5, <3>7, <4>1, <4>2 DEF WeakOrder
      <4>3. CASE x = e /\ y # e
        BY <3>1, <3>3, <3>4, <3>5, <3>7, <4>1, <4>3 DEF WeakOrder
      <4>4. CASE x # e /\ y = e
        BY <3>1, <3>3, <3>4, <3>5, <3>7, <4>1, <4>4 DEF WeakOrder
      <4>5. CASE x # e /\ y # e
        BY <3>1, <3>3, <3>4, <3>5, <3>7, <4>1, <4>5 DEF WeakOrder
      <4>6. CASE x = e /\ y = e /\ e \in Range(c)
        BY <3>3, <3>4, <3>5, <3>7, <4>1, <4>6 DEF WeakOrder
      <4> QED
        BY <4>2, <4>3, <4>4, <4>5, <4>6
    <3>10. \A x, y : Ahead(b, x, y) => x \in Range(d) /\ y \in Range(d)
      BY <3>8, AheadRange
    <3>11. In(n + 1) /\ Order(n + 1)
      BY <3>8, <3>9, <3>10 DEF b, d
    <3> QED
      BY <3>11
  <2> QED
    BY <1>2, <2>1
<1>5. In(Len(l)) /\ Order(Len(l))
  <2>1. T \in SUBSET Nat
    OBVIOUS
  <2>2. \A n \in Nat : n \in T
    <3> HIDE DEF T
    <3> QED
      BY <1>3, <1>4, <2>1, Induction
  <2>3. Len(l) \in T
    BY <1>2, <2>2
  <2> QED
    BY <1>2, <2>3
<1>6. f[Len(l)] \in Seq(S)
  <2>1. Len(l) \in 0 .. Len(l)
    BY <1>2
  <2> QED
    BY <1>1, <2>1
<1> QED
    BY <1>1, <1>2, <1>5, <1>6

(* A list made from another one, element by element.                       *)
Mapped(m, l, G, S, V) ==
    /\ l \in Seq(S) /\ m \in Seq(V) /\ Len(m) = Len(l)
    /\ \A y : y \in Range(m) <=> \E x \in Range(l) : y = G[x]
    /\ \A y, z : Ahead(m, y, z) <=>
          \E v, w \in Range(l) : Ahead(l, v, w) /\ y = G[v] /\ z = G[w]

LEMMA StableSortSteps ==
    ASSUME NEW S, NEW l \in Seq(S), NEW Less
    PROVE  \E f : Inserts(f, l, Less, S) /\ StableSort(l, Less) = f[Len(l)]
<1> DEFINE N == Len(l)
           Step(f) == [n \in 0 .. N |-> IF n = 0 THEN <<>> ELSE Insertion(f[n - 1], l[n], Less)]
           made == CHOOSE f : f = Step(f)
<1>1. N \in Nat /\ \A n \in 1 .. N : l[n] \in S
    OBVIOUS
<1>2. PICK f : Inserts(f, l, Less, S)
    BY InsertsExists
<1>3. /\ f \in [0 .. N -> Seq(S)] /\ f[0] = <<>>
      /\ \A n \in 1 .. N : f[n] = Insertion(f[n - 1], l[n], Less)
    BY <1>2 DEF Inserts
<1>4. StableSort(l, Less) = made[N]
    BY DEF StableSort
<1>5. f = Step(f)
  <2>1. \A n \in 0 .. N : f[n] = Step(f)[n]
    <3> TAKE n \in 0 .. N
    <3>1. n = 0 \/ n \in 1 .. N
      BY <1>1
    <3> QED
      BY <1>3, <3>1
  <2>2. f = [n \in 0 .. N |-> f[n]]
    BY <1>3
  <2> QED
    BY <2>1, <2>2
<1>6. made = Step(made)
    BY <1>5
<1> HIDE DEF made
<1>7. \A n \in Nat : n \in {m \in Nat : m <= N => made[m] = f[m]}
  <2> DEFINE T == {m \in Nat : m <= N => made[m] = f[m]}
  <2>1. 0 \in T
    <3>1. made[0] = Step(made)[0]
      BY <1>6
    <3> QED
      BY <1>1, <1>3, <3>1
  <2>2. ASSUME NEW n \in T
        PROVE  n + 1 \in T
    <3>1. CASE n + 1 <= N
      <4>1. n + 1 \in 1 .. N /\ n + 1 \in 0 .. N /\ n \in Nat /\ n <= N /\ (n + 1) - 1 = n
        BY <1>1, <3>1
      <4>2. made[n + 1] = Step(made)[n + 1]
        BY <1>6
      <4>3. made[n + 1] = Insertion(made[n], l[n + 1], Less)
        BY <4>1, <4>2
      <4>4. f[n + 1] = Insertion(f[n], l[n + 1], Less)
        BY <1>3, <4>1
      <4> QED
        BY <2>2, <4>1, <4>3, <4>4
    <3> QED
      BY <1>1, <3>1
  <2>3. T \in SUBSET Nat
    OBVIOUS
  <2> HIDE DEF T
  <2>4. \A n \in Nat : n \in T
    BY <2>1, <2>2, <2>3, Induction
  <2> QED
    BY <2>4 DEF T
<1>8. made[N] = f[N]
    BY <1>1, <1>7
<1> QED
    BY <1>2, <1>4, <1>8

LEMMA SortedList ==
    ASSUME NEW S, NEW l \in Seq(S), NEW Less, WeakOrder(Less, S)
    PROVE  /\ StableSort(l, Less) \in Seq(S) /\ Range(StableSort(l, Less)) = Range(l)
           /\ \A x, y : Ahead(StableSort(l, Less), x, y) <=>
                  /\ x \in Range(l) /\ y \in Range(l)
                  /\ <<x, y>> \in Less \/ (<<y, x>> \notin Less /\ Ahead(l, x, y))
<1>1. PICK f : Inserts(f, l, Less, S) /\ StableSort(l, Less) = f[Len(l)]
    BY StableSortSteps
<1> QED
    BY <1>1, InsertionsSort

LEMMA MappedList ==
    ASSUME NEW S, NEW V, NEW l \in Seq(S), NEW G, \A x \in S : G[x] \in V,
           NEW m \in [1 .. Len(l) -> V], \A i \in 1 .. Len(l) : m[i] = G[l[i]]
    PROVE  Mapped(m, l, G, S, V)
<1>1. Len(l) \in Nat /\ DOMAIN l = 1 .. Len(l) /\ \A i \in 1 .. Len(l) : l[i] \in S
    OBVIOUS
<1>4. m \in Seq(V) /\ Len(m) = Len(l) /\ DOMAIN m = DOMAIN l
    BY <1>1
<1>5. \A y : y \in Range(m) <=> \E x \in Range(l) : y = G[x]
    BY <1>1, <1>4 DEF Range
<1>6. ASSUME NEW y, NEW z
      PROVE  Ahead(m, y, z) <=>
                  \E v, w \in Range(l) : Ahead(l, v, w) /\ y = G[v] /\ z = G[w]
  <2>1. ASSUME Ahead(m, y, z)
        PROVE  \E v, w \in Range(l) : Ahead(l, v, w) /\ y = G[v] /\ z = G[w]
    <3>1. PICK i \in DOMAIN l, j \in DOMAIN l : i < j /\ m[i] = y /\ m[j] = z
      BY <1>4, <2>1 DEF Ahead
    <3>2. l[i] \in Range(l) /\ l[j] \in Range(l) /\ Ahead(l, l[i], l[j])
      BY <3>1 DEF Ahead, Range
    <3> QED
      BY <1>1, <3>1, <3>2
  <2>2. ASSUME NEW v \in Range(l), NEW w \in Range(l), Ahead(l, v, w), y = G[v], z = G[w]
        PROVE  Ahead(m, y, z)
    <3>1. PICK i \in DOMAIN l, j \in DOMAIN l : i < j /\ l[i] = v /\ l[j] = w
      BY <2>2 DEF Ahead
    <3>2. m[i] = y /\ m[j] = z
      BY <1>1, <2>2, <3>1
    <3> QED
      BY <1>4, <3>1, <3>2 DEF Ahead
  <2> QED
    BY <2>1, <2>2
<1> QED
    BY <1>4, <1>5, <1>6 DEF Mapped

(* What the elements of a sorted list hold, one after the other: v is      *)
(* that of l, sorted by a relation.                                        *)
ConfsOf(s) == [i \in DOMAIN s |-> s[i].conf]
JoinedBy(v, l, Less, V) ==
    /\ v \in Seq(V)
    /\ \A x : x \in Range(v) <=> \E e \in Range(l) : x \in Range(e.conf)
    /\ \A x, y : Ahead(v, x, y) <=>
           \/ \E e \in Range(l) : Ahead(e.conf, x, y)
           \/ \E e, f \in Range(l) :
                 /\ \/ <<e, f>> \in Less
                    \/ <<f, e>> \notin Less /\ Ahead(l, e, f)
                 /\ x \in Range(e.conf) /\ y \in Range(f.conf)

LEMMA JoinedList ==
    ASSUME NEW S, NEW V, \A e \in S : e.conf \in Seq(V), NEW Less, WeakOrder(Less, S),
           NEW l \in Seq(S)
    PROVE  JoinedBy(Flatten(ConfsOf(StableSort(l, Less))), l, Less, V)
<1> DEFINE s == StableSort(l, Less)
           confs == ConfsOf(s)
           G == [e \in S |-> e.conf]
           Prior(e, g) == <<e, g>> \in Less \/ (<<g, e>> \notin Less /\ Ahead(l, e, g))
<1>2. /\ s \in Seq(S) /\ Range(s) = Range(l)
      /\ \A x, y : Ahead(s, x, y) <=>
            /\ x \in Range(l) /\ y \in Range(l)
            /\ <<x, y>> \in Less \/ (<<y, x>> \notin Less /\ Ahead(l, x, y))
    BY SortedList
<1> HIDE DEF s
<1>4. \A i \in DOMAIN s : s[i] \in S
    BY <1>2
<1>6. \A e \in S : G[e] \in Seq(V) /\ G[e] = e.conf
    OBVIOUS
<1>7. /\ confs \in [1 .. Len(s) -> Seq(V)]
      /\ \A i \in 1 .. Len(s) : confs[i] = G[s[i]]
  <2>1. DOMAIN s = 1 .. Len(s)
    BY <1>2
  <2> QED
    BY <1>4, <1>6, <2>1 DEF ConfsOf
<1> HIDE DEF confs, G
<1>8. Mapped(confs, s, G, S, Seq(V))
  <2> DEFINE W == Seq(V)
  <2>1. (\A x \in S : G[x] \in W) /\ confs \in [1 .. Len(s) -> W]
    BY <1>6, <1>7
  <2> HIDE DEF W
  <2>2. s \in Seq(S) /\ \A i \in 1 .. Len(s) : confs[i] = G[s[i]]
    BY <1>2, <1>7
  <2>3. Mapped(confs, s, G, S, W)
    BY <2>1, <2>2, MappedList
  <2> QED
    BY <2>3 DEF W
<1>9. /\ Flatten(confs) \in Seq(V)
      /\ \A x : x \in Range(Flatten(confs)) <=> \E k \in Range(confs) : x \in Range(k)
      /\ \A x, y : Ahead(Flatten(confs), x, y) <=>
            \/ \E k \in Range(confs) : Ahead(k, x, y)
            \/ \E k, m : Ahead(confs, k, m) /\ x \in Range(k) /\ y \in Range(m)
    BY <1>8, FlattenList DEF Mapped
<1>10. \A e : e \in Range(l) => e \in S /\ G[e] = e.conf
    BY <1>6, RangeOfList
<1>a. \A y : y \in Range(confs) <=> \E e \in Range(l) : y = e.conf
    BY <1>2, <1>8, <1>10 DEF Mapped
<1>b. \A y, z : Ahead(confs, y, z) <=>
            \E e, g \in Range(l) : Ahead(s, e, g) /\ y = e.conf /\ z = g.conf
  <2>1. \A y, z : Ahead(confs, y, z) <=>
            \E e, g \in Range(s) : Ahead(s, e, g) /\ y = G[e] /\ z = G[g]
    BY <1>8 DEF Mapped
  <2>2. Range(s) = Range(l)
    BY <1>2
  <2>3. \A e \in Range(l) : G[e] = e.conf
    BY <1>10
  <2> QED
    BY <2>1, <2>2, <2>3
<1>11. \A x : x \in Range(Flatten(confs)) <=> \E e \in Range(l) : x \in Range(e.conf)
    BY <1>9, <1>a
<1>c. \A e, g \in Range(l) : Ahead(s, e, g) <=> Prior(e, g)
    BY <1>2
<1> HIDE DEF Prior
<1>13. \A k, m : Ahead(confs, k, m) <=>
            \E e, g \in Range(l) : Prior(e, g) /\ k = e.conf /\ m = g.conf
    BY <1>b, <1>c
<1>14. ASSUME NEW x, NEW y
       PROVE  Ahead(Flatten(confs), x, y) <=>
                  \/ \E e \in Range(l) : Ahead(e.conf, x, y)
                  \/ \E e, g \in Range(l) :
                        Prior(e, g) /\ x \in Range(e.conf) /\ y \in Range(g.conf)
  <2>1. (\E k \in Range(confs) : Ahead(k, x, y)) <=> \E e \in Range(l) : Ahead(e.conf, x, y)
    BY <1>a
  <2>2. (\E k, m : Ahead(confs, k, m) /\ x \in Range(k) /\ y \in Range(m)) <=>
          \E e, g \in Range(l) :
              Prior(e, g) /\ x \in Range(e.conf) /\ y \in Range(g.conf)
    <3>1. ASSUME NEW k, NEW m, Ahead(confs, k, m), x \in Range(k), y \in Range(m)
          PROVE  \E e, g \in Range(l) :
                     Prior(e, g) /\ x \in Range(e.conf) /\ y \in Range(g.conf)
      <4>1. PICK e \in Range(l), g \in Range(l) : Prior(e, g) /\ k = e.conf /\ m = g.conf
        BY <1>13, <3>1
      <4> QED
        BY <3>1, <4>1
    <3>2. ASSUME NEW e \in Range(l), NEW g \in Range(l), Prior(e, g),
                 x \in Range(e.conf), y \in Range(g.conf)
          PROVE  \E k, m : Ahead(confs, k, m) /\ x \in Range(k) /\ y \in Range(m)
      <4>1. Ahead(confs, e.conf, g.conf)
        BY <1>13, <3>2
      <4> QED
        BY <3>2, <4>1
    <3> QED
      BY <3>1, <3>2
  <2> QED
    BY <1>9, <2>1, <2>2
<1>15. JoinedBy(Flatten(confs), l, Less, V)
    BY <1>9, <1>11, <1>14 DEF JoinedBy, Prior
<1> QED
    BY <1>15 DEF confs, s

(* Two elements of a list that are not the same stand in some order.       *)
LEMMA SomeOrder ==
    ASSUME NEW S, NEW l \in Seq(S), NEW x \in Range(l), NEW y \in Range(l), x # y
    PROVE  Ahead(l, x, y) \/ Ahead(l, y, x)
<1>1. PICK i \in DOMAIN l, j \in DOMAIN l : l[i] = x /\ l[j] = y
    BY DEF Range
<1>2. i \in Nat /\ j \in Nat /\ (i < j \/ j < i)
    BY <1>1
<1> QED
    BY <1>1, <1>2 DEF Ahead

(* Some of the elements of a list have a maximal one.                      *)
LEMMA MaximalElement ==
    ASSUME NEW S, NEW l \in Seq(S), NEW Less,
           \A x \in S : <<x, x>> \notin Less,
           \A x, y, z \in S : <<x, y>> \in Less /\ <<y, z>> \in Less => <<x, z>> \in Less,
           NEW C \in SUBSET Range(l), C # {}
    PROVE  \E x \in C : \A y \in C : <<x, y>> \notin Less
<1> DEFINE First(n) == {l[i] : i \in 1 .. n}
           Has(D) == \E x \in D : \A y \in D : <<x, y>> \notin Less
           T == {n \in Nat : n <= Len(l) =>
                    \A D \in SUBSET First(n) : D # {} => Has(D)}
<1>1. Len(l) \in Nat /\ \A i \in 1 .. Len(l) : l[i] \in S
    OBVIOUS
<1>2. 0 \in T
    OBVIOUS
<1>3. ASSUME NEW n \in T PROVE n + 1 \in T
  <2>0. n \in Nat /\ n + 1 \in Nat
    BY <1>3
  <2> HIDE DEF Has
  <2>1. SUFFICES ASSUME n + 1 <= Len(l), NEW D \in SUBSET First(n + 1), D # {}
                 PROVE  Has(D)
    BY <2>0
  <2>2. n \in Nat /\ n <= Len(l) /\ \A E \in SUBSET First(n) : E # {} => Has(E)
    BY <1>1, <1>3, <2>0, <2>1
  <2> USE DEF Has
  <2>3. First(n) \subseteq S /\ First(n + 1) = First(n) \union {l[n + 1]} /\ l[n + 1] \in S
    <3>1. 1 .. (n + 1) = (1 .. n) \union {n + 1} /\ n + 1 \in 1 .. Len(l)
      BY <1>1, <2>1, <2>2
    <3> QED
      BY <1>1, <2>2, <3>1
  <2> DEFINE e == l[n + 1]
             E == D \ {e}
  <2> HIDE DEF First
  <2>4. E \in SUBSET First(n)
    BY <2>3
  <2>5. CASE E = {}
    <3>1. D = {e}
      BY <2>1, <2>5
    <3> HIDE DEF e
    <3>2. e \in S
      BY <2>3 DEF e
    <3> QED
      BY <3>1, <3>2
  <2>6. CASE E # {}
    <3>1. PICK x \in E : \A y \in E : <<x, y>> \notin Less
      BY <2>2, <2>4, <2>6
    <3> HIDE DEF e
    <3>2. x \in S /\ e \in S /\ D \subseteq S
      BY <2>3, <2>4 DEF e
    <3>3. CASE <<x, e>> \in Less /\ e \in D
      <4>1. \A y \in D : <<e, y>> \notin Less
        BY <3>1, <3>2, <3>3
      <4> QED
        BY <3>3, <4>1
    <3>4. CASE ~(<<x, e>> \in Less /\ e \in D)
      BY <3>1, <3>4
    <3> QED
      BY <3>3, <3>4
  <2> QED
    BY <2>5, <2>6
<1>4. Len(l) \in T
  <2>1. T \in SUBSET Nat
    OBVIOUS
  <2> HIDE DEF T
  <2> QED
    BY <1>1, <1>2, <1>3, <2>1, Induction
<1>5. C \in SUBSET First(Len(l))
    BY <1>1, RangeOfList
<1> QED
    BY <1>1, <1>4, <1>5

-----------------------------------------------------------------------------
(* Segments yields a path as it could be configured.                       *)

WithSegment(t, s) == IF s = Empty THEN t ELSE Append(t, s)

(* The segments that are kept of the first n ones, for every n up to N.    *)
Keeps(f, path, N) ==
    /\ f \in [0 .. N -> Words] /\ f[0] = <<>>
    /\ \A n \in 1 .. N : f[n] = WithSegment(f[n - 1], path[n])

LEMMA KeptType ==
    ASSUME NEW t \in Words, NEW s \in Nat
    PROVE  WithSegment(t, s) \in Words
BY DEF WithSegment, Words

LEMMA KeepsExists ==
    ASSUME NEW path \in Words
    PROVE  \E f : Keeps(f, path, Len(path))
<1> DEFINE S == {n \in Nat : n <= Len(path) => \E f : Keeps(f, path, n)}
<1>1. 0 \in S
  <2>1. Keeps([n \in 0 .. 0 |-> <<>>], path, 0)
    BY PrefixFacts DEF Keeps
  <2> QED
    BY <2>1
<1>2. ASSUME NEW N \in S, N + 1 <= Len(path)
      PROVE  \E f : Keeps(f, path, N + 1)
  <2>1. PICK f : Keeps(f, path, N)
    BY <1>2, PrefixFacts
  <2> DEFINE t == WithSegment(f[N], path[N + 1])
             g == [n \in 0 .. (N + 1) |-> IF n = N + 1 THEN t ELSE f[n]]
  <2>2. t \in Words
    <3>1. f[N] \in Words
      BY <2>1 DEF Keeps
    <3>2. path[N + 1] \in Nat
      BY <1>2 DEF Words
    <3> QED
      BY <3>1, <3>2, KeptType
  <2>3. g \in [0 .. (N + 1) -> Words] /\ g[0] = <<>>
    BY <1>2, <2>1, <2>2 DEF Keeps
  <2>4. \A n \in 1 .. (N + 1) : g[n] = WithSegment(g[n - 1], path[n])
    <3> SUFFICES ASSUME NEW n \in 1 .. (N + 1)
                 PROVE  g[n] = WithSegment(g[n - 1], path[n])
      OBVIOUS
    <3>1. CASE n = N + 1
      <4>1. g[n] = t /\ g[n - 1] = f[N]
        BY <1>2, <3>1
      <4> QED
        BY <3>1, <4>1
    <3>2. CASE n \in 1 .. N
      <4>1. g[n] = f[n] /\ g[n - 1] = f[n - 1]
        BY <1>2, <3>2
      <4> QED
        BY <2>1, <3>2, <4>1 DEF Keeps
    <3> QED
      BY <1>2, <3>1, <3>2
  <2> QED
    BY <2>3, <2>4 DEF Keeps
<1>3. \A n \in S : n + 1 \in S
    BY <1>2
<1>4. \A n \in Nat : n \in S
  <2> HIDE DEF S
  <2> QED
    BY <1>1, <1>3, Induction DEF S
<1> QED
    BY <1>4, PrefixFacts

LEMMA SegmentsAreKept ==
    ASSUME NEW path \in Words
    PROVE  \E f : Keeps(f, path, Len(path)) /\ Segments(path) = f[Len(path)]
<1> DEFINE Step(f) == [n \in 0 .. Len(path) |->
                          IF n = 0 THEN <<>>
                          ELSE IF path[n] = Empty THEN f[n - 1]
                          ELSE Append(f[n - 1], path[n])]
           kept == CHOOSE f : f = Step(f)
<1>0. Len(path) \in Nat
    BY PrefixFacts
<1>1. PICK f : Keeps(f, path, Len(path))
    BY KeepsExists
<1>2. f = Step(f)
  <2>1. \A n \in 0 .. Len(path) : f[n] = Step(f)[n]
    <3>1. f[0] = Step(f)[0]
      BY <1>0, <1>1 DEF Keeps
    <3>2. \A n \in 1 .. Len(path) : f[n] = Step(f)[n]
      BY <1>0, <1>1 DEF Keeps, WithSegment
    <3>3. \A n \in 0 .. Len(path) : n = 0 \/ n \in 1 .. Len(path)
      BY <1>0
    <3> QED
      BY <3>1, <3>2, <3>3
  <2>2. f = [n \in 0 .. Len(path) |-> f[n]]
    BY <1>1 DEF Keeps
  <2> QED
    BY <2>1, <2>2
<1>3. kept = Step(kept)
    BY <1>2
<1>4. Segments(path) = kept[Len(path)]
    BY DEF Segments
<1> HIDE DEF kept
<1>5. kept[0] = <<>> /\ \A n \in 1 .. Len(path) : kept[n] = WithSegment(kept[n - 1], path[n])
  <2>1. \A n \in 0 .. Len(path) : kept[n] = Step(kept)[n]
    BY <1>3
  <2> QED
    BY <1>0, <2>1 DEF WithSegment
<1>6. \A n \in 0 .. Len(path) : kept[n] \in Words
  <2> DEFINE S == {n \in Nat : n <= Len(path) => kept[n] \in Words}
  <2>1. 0 \in S
    BY <1>5, PrefixFacts
  <2>2. ASSUME NEW n \in S
        PROVE  n + 1 \in S
    <3>1. CASE n + 1 <= Len(path)
      <4>1. n + 1 \in 1 .. Len(path) /\ (n + 1) - 1 = n /\ path[n + 1] \in Nat
        BY <1>0, <3>1 DEF Words
      <4>2. kept[n + 1] = WithSegment(kept[n], path[n + 1])
        BY <1>5, <4>1
      <4>3. kept[n] \in Words
        BY <1>0, <2>2, <3>1
      <4> QED
        BY <4>1, <4>2, <4>3, KeptType
    <3> QED
      BY <1>0, <3>1
  <2>3. \A n \in Nat : n \in S
    <3> HIDE DEF S
    <3>1. S \in SUBSET Nat
      BY DEF S
    <3> QED
      BY <2>1, <2>2, <3>1, Induction
  <2> QED
    BY <1>0, <2>3
<1>7. kept \in [0 .. Len(path) -> Words]
  <2>1. kept = [n \in 0 .. Len(path) |-> Step(kept)[n]]
    BY <1>3
  <2>2. kept = [n \in 0 .. Len(path) |-> kept[n]]
    BY <1>3, <2>1
  <2> QED
    BY <1>6, <2>2
<1> QED
    BY <1>4, <1>5, <1>7 DEF Keeps

LEMMA SegmentsType ==
    ASSUME NEW path \in Words
    PROVE  Segments(path) \in Words
BY SegmentsAreKept, PrefixFacts DEF Keeps

(* The first segment of a path counts, unless it is empty.                 *)
LEMMA SegmentsCons ==
    ASSUME NEW x \in Nat, NEW t \in Words
    PROVE  Segments(<<x>> \o t) = (IF x = Empty THEN <<>> ELSE <<x>>) \o Segments(t)
<1> DEFINE p == <<x>> \o t
           pre == IF x = Empty THEN <<>> ELSE <<x>>
<1>1. /\ <<x>> \in Words /\ Len(<<x>>) = 1 /\ <<x>>[1] = x /\ pre \in Words
      /\ Len(t) \in Nat
    BY PrefixFacts DEF Words
<1>2. /\ p \in Words /\ Len(p) = Len(t) + 1 /\ p[1] = x
      /\ \A i \in 1 .. Len(t) : p[i + 1] = t[i] /\ t[i] \in Nat
  <2>1. p \in Words /\ Len(p) = 1 + Len(t) /\ p[1] = x
    BY <1>1, ConcatFacts
  <2>2. \A i \in 1 .. Len(t) : p[1 + i] = t[i]
    BY <1>1, ConcatFacts
  <2>3. \A i \in 1 .. Len(t) : t[i] \in Nat
    BY DEF Words
  <2> QED
    BY <1>1, <2>1, <2>2, <2>3
<1> HIDE DEF p, pre
<1>3. PICK f : Keeps(f, p, Len(p)) /\ Segments(p) = f[Len(p)]
    BY <1>2, SegmentsAreKept
<1>4. PICK g : Keeps(g, t, Len(t)) /\ Segments(t) = g[Len(t)]
    BY SegmentsAreKept
<1> DEFINE S == {n \in Nat : n <= Len(t) => f[n + 1] = pre \o g[n]}
<1>5. 0 \in S
  <2>1. f[1] = WithSegment(<<>>, x)
    BY <1>1, <1>2, <1>3 DEF Keeps
  <2>2. WithSegment(<<>>, x) = pre
    BY DEF WithSegment, pre
  <2>3. pre \o g[0] = pre
    BY <1>1, <1>4, ConcatFacts DEF Keeps
  <2> QED
    BY <2>1, <2>2, <2>3
<1>6. ASSUME NEW n \in S
      PROVE  n + 1 \in S
  <2>1. CASE n + 1 <= Len(t)
    <3>1. f[n + 1] = pre \o g[n] /\ g[n] \in Words /\ n + 1 \in 1 .. Len(t)
      <4>1. n \in 0 .. Len(t) /\ n <= Len(t) /\ n + 1 \in 1 .. Len(t)
        BY <1>1, <2>1
      <4>2. f[n + 1] = pre \o g[n]
        BY <4>1
      <4>3. g[n] \in Words
        BY <1>4, <4>1 DEF Keeps
      <4> QED
        BY <4>1, <4>2, <4>3
    <3>2. f[(n + 1) + 1] = WithSegment(f[n + 1], t[n + 1])
      <4>1. (n + 1) + 1 \in 1 .. Len(p) /\ ((n + 1) + 1) - 1 = n + 1
        BY <1>1, <1>2, <2>1
      <4>2. p[(n + 1) + 1] = t[n + 1]
        BY <1>2, <3>1
      <4> QED
        BY <1>3, <4>1, <4>2 DEF Keeps
    <3>3. g[n + 1] = WithSegment(g[n], t[n + 1])
      <4>1. (n + 1) - 1 = n
        OBVIOUS
      <4> QED
        BY <1>4, <3>1, <4>1 DEF Keeps
    <3>4. WithSegment(pre \o g[n], t[n + 1]) = pre \o WithSegment(g[n], t[n + 1])
      <4>1. t[n + 1] \in Nat
        BY <1>2, <3>1
      <4>2. Append(pre \o g[n], t[n + 1]) = pre \o Append(g[n], t[n + 1])
        BY <1>1, <3>1, <4>1, AppendConcat
      <4> QED
        BY <4>2 DEF WithSegment
    <3> QED
      BY <3>1, <3>2, <3>3, <3>4
  <2> QED
    BY <1>1, <2>1
<1>7. Len(t) \in S
  <2> HIDE DEF S
  <2>1. S \in SUBSET Nat
    BY DEF S
  <2> QED
    BY <1>1, <1>5, <1>6, <2>1, Induction
<1>8. Segments(p) = pre \o Segments(t)
    BY <1>1, <1>2, <1>3, <1>4, <1>7
<1> QED
    BY <1>8 DEF p, pre

LEMMA NoSegments ==
    Segments(<<>>) = <<>> /\ Segments(<<Empty>>) = <<>> /\ Segments(<<Empty, Empty>>) = <<>>
<1>1. Segments(<<>>) = <<>>
  <2>1. PICK f : Keeps(f, <<>>, Len(<<>>)) /\ Segments(<<>>) = f[Len(<<>>)]
    BY PrefixFacts, SegmentsAreKept
  <2> QED
    BY <2>1 DEF Keeps
<1>2. \A t \in Words : Segments(<<Empty>> \o t) = Segments(t)
  <2>1. \A t \in Words : Segments(<<Empty>> \o t) = <<>> \o Segments(t)
    BY SegmentsCons DEF Empty
  <2> QED
    BY <2>1, SegmentsType, ConcatFacts
<1>3. <<Empty>> = <<Empty>> \o <<>> /\ <<Empty, Empty>> = <<Empty>> \o <<Empty>>
         /\ <<Empty>> \in Words
    BY DEF Words, Empty
<1> QED
    BY <1>1, <1>2, <1>3, PrefixFacts

-----------------------------------------------------------------------------
(* RemovePrefix takes the segments of the prefix off a path.               *)

(* Separators at the start of a path do not count.                         *)
LEMMA Skipped ==
    ASSUME NEW p \in Words, p # <<>>
    PROVE  \E i \in 1 .. Len(p) :
              LET x == p[i]
                  u == SubSeq(p, i + 1, Len(p))
              IN  /\ x \in Nat /\ u \in Words
                  /\ SkipSeparators(p) = <<x>> \o u /\ (x = Empty => u = <<>>)
                  /\ Segments(p) = Segments(<<x>> \o u)
                  /\ \A j \in 1 .. i - 1 : p[j] = Empty
<1> DEFINE L == Len(p)
           Start(i) == /\ p[i] # Empty \/ i = L
                       /\ \A j \in 1 .. i - 1 : p[j] = Empty
           start == CHOOSE i \in DOMAIN p : Start(i)
           T == {i \in 1 .. L : p[i] # Empty \/ i = L}
<1>0. DOMAIN p = 1 .. L
    BY DEF Words
<1>1. L \in Nat /\ L >= 1
    BY DEF Words
<1>a. \E i \in DOMAIN p : Start(i)
  <2>1. T \in SUBSET Nat /\ L \in T
    BY <1>1
  <2>2. PICK n \in T : \A m \in T : ~(m < n)
    BY <2>1, LeastNumber
  <2>3. n \in 1 .. L /\ n \in Nat /\ (p[n] # Empty \/ n = L)
    BY <1>1, <2>2
  <2>4. ASSUME NEW j \in 1 .. n - 1
        PROVE  p[j] = Empty
    <3>1. j \in 1 .. L /\ j < n
      BY <1>1, <2>3, <2>4
    <3>2. j \notin T
      <4> HIDE DEF T
      <4> QED
        BY <2>2, <3>1
    <3> QED
      BY <3>1, <3>2
  <2> QED
    BY <1>0, <2>3, <2>4
<1>b. start \in DOMAIN p /\ Start(start)
    BY <1>a
<1>2. /\ start \in 1 .. L /\ start \in Nat
      /\ \A j \in 1 .. start - 1 : p[j] = Empty
      /\ p[start] # Empty \/ start = L
    BY <1>0, <1>1, <1>b
<1>3. SkipSeparators(p) = SubSeq(p, start, L)
    BY DEF SkipSeparators
<1> HIDE DEF start
<1> DEFINE S == {n \in Nat : n + 1 <= start => Segments(SubSeq(p, n + 1, L)) = Segments(p)}
<1>4. 0 \in S
  <2>1. 0 + 1 = 1 /\ SubSeq(p, 1, L) = p
    BY WholeSubSeq
  <2> QED
    BY <2>1
<1>5. ASSUME NEW n \in S
      PROVE  n + 1 \in S
  <2>1. CASE (n + 1) + 1 <= start
    <3>1. n + 1 \in 1 .. L /\ n + 1 \in 1 .. start - 1 /\ n + 1 <= start
      <4>1. start \in Nat /\ start <= L
        BY <1>1, <1>2
      <4>2. n \in Nat
        OBVIOUS
      <4> HIDE DEF S
      <4> QED
        BY <1>1, <2>1, <4>1, <4>2
    <3>2. p[n + 1] = Empty
      BY <1>2, <3>1
    <3>3. /\ SubSeq(p, n + 1, L) = <<Empty>> \o SubSeq(p, (n + 1) + 1, L)
          /\ SubSeq(p, (n + 1) + 1, L) \in Words
      BY <3>1, <3>2, Rests
    <3>4. Segments(SubSeq(p, n + 1, L)) = Segments(SubSeq(p, (n + 1) + 1, L))
      <4> DEFINE q == SubSeq(p, (n + 1) + 1, L)
      <4>1. q \in Words /\ SubSeq(p, n + 1, L) = <<Empty>> \o q
        BY <3>3
      <4> HIDE DEF q
      <4>2. Segments(<<Empty>> \o q) = <<>> \o Segments(q)
        BY <4>1, SegmentsCons DEF Empty
      <4>3. Segments(SubSeq(p, n + 1, L)) = Segments(q)
        BY <4>1, <4>2, SegmentsType, ConcatFacts
      <4> QED
        BY <4>3 DEF q
    <3> QED
      BY <3>1, <3>4
  <2> QED
    BY <1>2, <2>1
<1>6. \A n \in Nat : n \in S
  <2> HIDE DEF S
  <2>1. S \in SUBSET Nat
    BY DEF S
  <2> QED
    BY <1>4, <1>5, <2>1, Induction
<1>7. Segments(SubSeq(p, start, L)) = Segments(p)
  <2>1. start - 1 \in Nat /\ (start - 1) + 1 = start /\ start - 1 \in S
    BY <1>2, <1>6
  <2> QED
    BY <2>1
<1> DEFINE u == SubSeq(p, start + 1, L)
<1>8. /\ p[start] \in Nat /\ u \in Words /\ SubSeq(p, start, L) = <<p[start]>> \o u
      /\ start = L => u = <<>>
    BY <1>2, Rests
<1> QED
    BY <1>2, <1>3, <1>7, <1>8

LEMMA SegmentRemoved ==
    ASSUME NEW p \in Words, p # <<>>, NEW s \in Nat, s # Empty, NEW rest \in Words,
           Segments(p) = <<s>> \o rest
    PROVE  \E u \in Words :
              RemoveSegment(p, s) = <<Empty>> \o u /\ Segments(<<Empty>> \o u) = rest
<1>0. \E x \in Nat, u \in Words :
         /\ SkipSeparators(p) = <<x>> \o u /\ (x = Empty => u = <<>>)
         /\ Segments(p) = Segments(<<x>> \o u)
    BY Skipped
<1>1. PICK x \in Nat, u \in Words :
         /\ SkipSeparators(p) = <<x>> \o u /\ (x = Empty => u = <<>>)
         /\ Segments(p) = Segments(<<x>> \o u)
    BY <1>0
<1>2. x # Empty
  <2> SUFFICES ASSUME x = Empty PROVE FALSE
    OBVIOUS
  <2>1. <<Empty>> \o <<>> = <<Empty>>
    BY DEF Words
  <2>2. Segments(p) = <<>>
    BY <1>1, <2>1, NoSegments
  <2> QED
    BY <2>2, ConsHeadTail
<1>3. Segments(p) = <<x>> \o Segments(u) /\ Segments(u) \in Words
    BY <1>1, <1>2, SegmentsCons, SegmentsType
<1>4. x = s /\ Segments(u) = rest
  <2>1. Head(<<x>> \o Segments(u)) = x /\ Tail(<<x>> \o Segments(u)) = Segments(u)
    BY <1>3, ConsHeadTail
  <2>2. Head(<<s>> \o rest) = s /\ Tail(<<s>> \o rest) = rest
    BY ConsHeadTail
  <2> QED
    BY <1>3, <2>1, <2>2
<1>5. RemoveSegment(p, s) = <<Empty>> \o u
  <2>1. p # None
    BY NonePathAssumption DEF Words
  <2>2. Head(<<x>> \o u) = x /\ Tail(<<x>> \o u) = u
    BY ConsHeadTail
  <2> QED
    BY <1>1, <1>4, <2>1, <2>2 DEF RemoveSegment
<1>6. Segments(<<Empty>> \o u) = Segments(u)
    BY <1>3, SegmentsCons, ConcatFacts DEF Empty
<1> QED
    BY <1>4, <1>5, <1>6

(* What is left of a path after each of the first N segments of a prefix.  *)
Leaves(f, prefix, path, N) ==
    /\ f \in [0 .. N -> Words] /\ f[0] = path
    /\ \A n \in 1 .. N : f[n] = RemoveSegment(f[n - 1], prefix[n])

(* It is the part of the path below these segments.                        *)
IsBelow(rest, n, path) ==
    /\ rest # <<>> /\ Head(rest) = Empty
    /\ Segments(rest) = SubSeq(Segments(path), n + 1, Len(Segments(path)))

LEMMA NextLeft ==
    ASSUME NEW path \in Words, NEW rest \in Words, NEW n \in Nat,
           n + 1 <= Len(Segments(path)), IsBelow(rest, n, path),
           NEW s \in Nat, s # Empty, s = Segments(path)[n + 1]
    PROVE  /\ RemoveSegment(rest, s) \in Words
           /\ IsBelow(RemoveSegment(rest, s), n + 1, path)
<1> DEFINE K == Segments(path)
<1>1. K \in Words /\ Len(K) \in Nat
    BY SegmentsType, PrefixFacts
<1> HIDE DEF K
<1> DEFINE below == SubSeq(K, (n + 1) + 1, Len(K))
<1>2. n + 1 \in 1 .. Len(K)
    BY <1>1 DEF K
<1>3. below \in Words /\ SubSeq(K, n + 1, Len(K)) = <<K[n + 1]>> \o below
    BY <1>1, <1>2, Rests
<1>4. Segments(rest) = <<s>> \o below
    BY <1>3 DEF IsBelow, K
<1> HIDE DEF below
<1>5. PICK u \in Words :
         RemoveSegment(rest, s) = <<Empty>> \o u /\ Segments(<<Empty>> \o u) = below
    BY <1>3, <1>4, SegmentRemoved DEF IsBelow
<1>6. <<Empty>> \o u \in Words /\ <<Empty>> \o u # <<>> /\ Head(<<Empty>> \o u) = Empty
    BY ConsHeadTail DEF Empty
<1> QED
    BY <1>5, <1>6 DEF IsBelow, below, K

LEMMA LeavesExist ==
    ASSUME NEW prefix \in Seq(Nat \ {Empty}), NEW path \in AbsolutePaths,
           IsPrefix(prefix, Segments(path))
    PROVE  \E f : /\ Leaves(f, prefix, path, Len(prefix))
                  /\ IsBelow(f[Len(prefix)], Len(prefix), path)
<1> DEFINE K == Segments(path)
           S == {n \in Nat : n <= Len(prefix) =>
                    \E f : Leaves(f, prefix, path, n) /\ IsBelow(f[n], n, path)}
<1>1. path \in Words /\ path # <<>> /\ Head(path) = Empty
    BY DEF AbsolutePaths, Words
<1>2. prefix \in Words /\ Len(prefix) \in Nat
         /\ \A n \in 1 .. Len(prefix) : prefix[n] \in Nat /\ prefix[n] # Empty
    BY DEF Words
<1>3. K \in Words /\ Len(K) \in Nat
    BY <1>1, SegmentsType, PrefixFacts
<1>4. Len(prefix) <= Len(K) /\ \A n \in 1 .. Len(prefix) : prefix[n] = K[n]
    BY <1>2, <1>3, PrefixIs
<1>5. 0 \in S
  <2> DEFINE f == [n \in 0 .. 0 |-> path]
  <2>1. Leaves(f, prefix, path, 0)
    BY <1>1 DEF Leaves
  <2>2. SubSeq(K, 1, Len(K)) = K
    BY <1>3, WholeSubSeq
  <2>3. IsBelow(f[0], 0, path)
    BY <1>1, <2>2 DEF IsBelow
  <2> QED
    BY <2>1, <2>3
<1>6. ASSUME NEW N \in S, N + 1 <= Len(prefix)
      PROVE  \E f : Leaves(f, prefix, path, N + 1) /\ IsBelow(f[N + 1], N + 1, path)
  <2>0. N \in Nat /\ N <= Len(prefix) /\ N + 1 \in 1 .. Len(prefix) /\ N + 1 <= Len(K)
    BY <1>2, <1>3, <1>4, <1>6
  <2>1. PICK f : Leaves(f, prefix, path, N) /\ IsBelow(f[N], N, path)
    BY <2>0
  <2> HIDE DEF S, K
  <2> DEFINE t == RemoveSegment(f[N], prefix[N + 1])
             g == [n \in 0 .. (N + 1) |-> IF n = N + 1 THEN t ELSE f[n]]
  <2>2. t \in Words /\ IsBelow(t, N + 1, path)
    <3>1. f[N] \in Words
      BY <2>0, <2>1 DEF Leaves
    <3>2. prefix[N + 1] \in Nat /\ prefix[N + 1] # Empty /\ prefix[N + 1] = K[N + 1]
      BY <1>2, <1>4, <2>0
    <3> QED
      BY <1>1, <2>0, <2>1, <3>1, <3>2, NextLeft DEF K
  <2> HIDE DEF t
  <2>3. g \in [0 .. (N + 1) -> Words] /\ g[0] = path
    BY <2>0, <2>1, <2>2 DEF Leaves
  <2>4. \A n \in 1 .. (N + 1) : g[n] = RemoveSegment(g[n - 1], prefix[n])
    <3> SUFFICES ASSUME NEW n \in 1 .. (N + 1)
                 PROVE  g[n] = RemoveSegment(g[n - 1], prefix[n])
      OBVIOUS
    <3>1. CASE n = N + 1
      <4>1. g[n] = t /\ g[n - 1] = f[N]
        BY <2>0, <3>1
      <4> QED
        BY <3>1, <4>1 DEF t
    <3>2. CASE n \in 1 .. N
      <4>1. g[n] = f[n] /\ g[n - 1] = f[n - 1]
        BY <2>0, <3>2
      <4> QED
        BY <2>1, <3>2, <4>1 DEF Leaves
    <3> QED
      BY <2>0, <3>1, <3>2
  <2>5. g[N + 1] = t
    BY <2>0
  <2> QED
    BY <2>2, <2>3, <2>4, <2>5 DEF Leaves
<1>7. \A n \in Nat : n \in S
  <2>1. \A n \in S : n + 1 \in S
    BY <1>6
  <2> HIDE DEF S
  <2>2. S \in SUBSET Nat
    BY DEF S
  <2> QED
    BY <1>5, <2>1, <2>2, Induction
<1> QED
  <2>1. Len(prefix) \in S
    BY <1>2, <1>7
  <2> QED
    BY <1>2, <2>1

(* The function that RemovePrefix recurs through is this one.              *)
LEMMA RemovesSegments ==
    ASSUME NEW prefix \in Words, prefix # <<>>, NEW path \in Words,
           NEW f, Leaves(f, prefix, path, Len(prefix))
    PROVE  RemovePrefix(prefix, path) =
               IF f[Len(prefix)] = <<Empty>> THEN <<Empty, Empty>> ELSE f[Len(prefix)]
<1> DEFINE L == Len(prefix)
           Step(h) == [n \in 0 .. L |->
                          IF n = 0 THEN path ELSE RemoveSegment(h[n - 1], prefix[n])]
           left == CHOOSE h : h = Step(h)
<1>0. L \in Nat
    BY PrefixFacts
<1> HIDE DEF L
<1>1. f \in [0 .. L -> Words] /\ f[0] = path
         /\ \A n \in 1 .. L : f[n] = RemoveSegment(f[n - 1], prefix[n])
    BY DEF Leaves, L
<1>2. f = Step(f)
  <2>1. \A n \in 0 .. L : f[n] = Step(f)[n]
    <3>1. f[0] = Step(f)[0]
      BY <1>0, <1>1
    <3>2. \A n \in 1 .. L : f[n] = Step(f)[n]
      BY <1>0, <1>1
    <3>3. \A n \in 0 .. L : n = 0 \/ n \in 1 .. L
      BY <1>0
    <3> QED
      BY <3>1, <3>2, <3>3
  <2>2. f = [n \in 0 .. L |-> f[n]]
    BY <1>1
  <2> QED
    BY <2>1, <2>2
<1>3. left = Step(left)
    BY <1>2
<1> HIDE DEF left
<1>4. left[0] = path /\ \A n \in 1 .. L : left[n] = RemoveSegment(left[n - 1], prefix[n])
  <2>1. left[0] = Step(left)[0] /\ \A n \in 1 .. L : left[n] = Step(left)[n]
    BY <1>3
  <2>2. 0 \in 0 .. L /\ \A n \in 1 .. L : n \in 0 .. L /\ n # 0
    BY <1>0
  <2> QED
    BY <2>1, <2>2
<1> DEFINE S == {n \in Nat : n <= L => left[n] = f[n]}
<1>5. 0 \in S
    BY <1>1, <1>4
<1>6. ASSUME NEW n \in S
      PROVE  n + 1 \in S
  <2>1. CASE n + 1 <= L
    <3>1. n + 1 \in 1 .. L /\ (n + 1) - 1 = n /\ left[n] = f[n]
      BY <1>0, <2>1
    <3> QED
      BY <1>1, <1>4, <3>1
  <2> QED
    BY <1>0, <2>1
<1>7. L \in S
  <2> HIDE DEF S
  <2>1. S \in SUBSET Nat
    BY DEF S
  <2> QED
    BY <1>0, <1>5, <1>6, <2>1, Induction
<1>8. left[L] = f[L]
    BY <1>0, <1>7
<1>9. RemovePrefix(prefix, path) = IF left[L] = <<Empty>> THEN <<Empty, Empty>> ELSE left[L]
    BY DEF RemovePrefix, left, L
<1> QED
    BY <1>8, <1>9 DEF L

LEMMA LongPath ==
    ASSUME NEW w \in Words, w # <<>>, Head(w) = Empty, w # <<Empty>>
    PROVE  w \in AbsolutePaths
<1>1. Len(w) \in Nat /\ Len(w) # 0
    BY DEF Words
<1>2. Len(w) # 1
    BY DEF Words
<1>3. Len(w) > 1
  <2>1. \A n \in Nat : n # 0 /\ n # 1 => n > 1
    OBVIOUS
  <2> QED
    BY <1>1, <1>2, <2>1
<1> QED
    BY <1>3 DEF AbsolutePaths, Words

(* What remains is the part of the path below the prefix, as an absolute   *)
(* path.                                                                   *)
LEMMA PrefixRemoved ==
    ASSUME NEW prefix \in Seq(Nat \ {Empty}), prefix # <<>>, NEW path \in AbsolutePaths,
           IsPrefix(prefix, Segments(path))
    PROVE  /\ RemovePrefix(prefix, path) # None
           /\ RemovePrefix(prefix, path) \in AbsolutePaths
           /\ prefix \o Segments(RemovePrefix(prefix, path)) = Segments(path)
<1> DEFINE K == Segments(path)
           L == Len(prefix)
           new == RemovePrefix(prefix, path)
<1>1. PICK f : Leaves(f, prefix, path, L) /\ IsBelow(f[L], L, path)
    BY LeavesExist
<1> DEFINE rest == f[L]
<1>2. path \in Words /\ prefix \in Words /\ L \in Nat /\ K \in Words /\ Len(K) \in Nat
  <2>1. path \in Words /\ prefix \in Words
    BY DEF AbsolutePaths, Words
  <2> QED
    BY <2>1, SegmentsType, PrefixFacts
<1>3. new = IF rest = <<Empty>> THEN <<Empty, Empty>> ELSE rest
    BY <1>1, <1>2, RemovesSegments
<1>4. rest \in Words /\ rest # <<>> /\ Head(rest) = Empty
    BY <1>1, <1>2 DEF Leaves, IsBelow
<1>5. Segments(rest) = SubSeq(K, L + 1, Len(K))
    BY <1>1 DEF IsBelow
<1> HIDE DEF new, rest, K, L
<1>6. Segments(new) = Segments(rest)
    BY <1>3, NoSegments
<1>7. new \in AbsolutePaths
  <2>1. CASE rest = <<Empty>>
    BY <1>3, <2>1 DEF AbsolutePaths, Empty
  <2>2. CASE rest # <<Empty>>
    BY <1>3, <1>4, <2>2, LongPath
  <2> QED
    BY <2>1, <2>2
<1>8. new # None
    BY <1>7, NonePathAssumption DEF AbsolutePaths
<1>9. prefix \o SubSeq(K, L + 1, Len(K)) = K
  <2> DEFINE t == SubSeq(K, L + 1, Len(K))
             u == prefix \o t
  <2>1. L <= Len(K) /\ \A i \in 1 .. L : prefix[i] = K[i]
    BY <1>2, PrefixIs DEF K, L
  <2>2. t \in Words /\ Len(t) = Len(K) - L /\ \A i \in 1 .. Len(t) : t[i] = K[L + i]
    BY <1>2, <2>1 DEF Words
  <2> HIDE DEF t
  <2>3. /\ u \in Words /\ Len(u) = L + Len(t)
        /\ \A i \in 1 .. L : u[i] = prefix[i]
        /\ \A i \in 1 .. Len(t) : u[L + i] = t[i]
    BY <1>2, <2>2, ConcatFacts DEF L
  <2> HIDE DEF u
  <2>4. Len(u) = Len(K)
    BY <1>2, <2>2, <2>3
  <2>5. \A i \in 1 .. Len(u) : u[i] = K[i]
    <3> SUFFICES ASSUME NEW i \in 1 .. Len(u) PROVE u[i] = K[i]
      OBVIOUS
    <3>1. CASE i <= L
      <4>1. i \in 1 .. L
        BY <1>2, <2>4, <3>1
      <4> QED
        BY <2>1, <2>3, <4>1
    <3>2. CASE ~(i <= L)
      <4>1. i - L \in 1 .. Len(t) /\ L + (i - L) = i
        BY <1>2, <2>2, <2>4, <3>2
      <4>2. u[L + (i - L)] = t[i - L]
        BY <2>3, <4>1
      <4>3. t[i - L] = K[L + (i - L)]
        BY <2>2, <4>1
      <4> QED
        BY <4>1, <4>2, <4>3
    <3> QED
      BY <3>1, <3>2
  <2>6. u = K
    BY <1>2, <2>3, <2>4, <2>5, Equal
  <2> QED
    BY <2>6 DEF u, t
<1> QED
    BY <1>5, <1>6, <1>7, <1>8, <1>9 DEF new, K
===============================================================================
