--------------------------- MODULE SelectionProofs ---------------------------
(***************************************************************************)
(* What a filter keeps, and the two principles the proofs about loops and  *)
(* recursive functions rest on: induction over the natural numbers, and    *)
(* that a function defined step by step exists.                            *)
(***************************************************************************)
EXTENDS Selection, SequenceTheorems, WellFoundedInduction, TLAPS

\* Induction, with the property as the set of the numbers that have it.
LEMMA Induction ==
  ASSUME NEW T, 0 \in T, \A n \in Nat : n \in T => n + 1 \in T
  PROVE  Nat \subseteq T
<1> DEFINE R == {ss \in Nat \X Nat : ss[1] < ss[2]}
           S == Nat \ T
<1> SUFFICES ASSUME S # {} PROVE FALSE
  OBVIOUS
<1>1. IsWellFoundedOn(R, Nat)
  BY NatLessThanWellFounded DEF OpToRel
<1>2. \A x, y \in Nat : <<y, x>> \in R <=> y < x
  OBVIOUS
<1>3. S \subseteq Nat /\ S # {}
  OBVIOUS
<1> HIDE DEF R, S
<1>4. PICK x \in S : \A y \in S : ~ (<<y, x>> \in R)
  BY <1>1, <1>3, WFMin
<1>5. x # 0 /\ x - 1 \in Nat /\ x - 1 < x
  BY <1>3 DEF S
<1>6. x - 1 \notin S
  BY <1>2, <1>3, <1>4, <1>5
<1> QED
  BY <1>3, <1>5, <1>6 DEF S

\* What is defined step by step is defined.
StepsStayIn(V, m, G) == \A i \in 1 .. m : \A x \in V : G[<<i, x>>] \in V
FollowsSteps(f, v, m, G) == f[0] = v /\ \A i \in 1 .. m : f[i] = G[<<i, f[i - 1]>>]

LEMMA Recursion ==
  ASSUME NEW V, NEW v \in V, NEW m \in Nat, NEW G, StepsStayIn(V, m, G)
  PROVE  \E f \in [0 .. m -> V] : FollowsSteps(f, v, m, G)
<1> USE DEF StepsStayIn, FollowsSteps
<1> DEFINE OK(n, f) == f[0] = v /\ \A i \in 1 .. n : f[i] = G[<<i, f[i - 1]>>]
           T == {n \in Nat : n <= m => \E f \in [0 .. n -> V] : OK(n, f)}
<1>1. 0 \in T
  <2> DEFINE g == [i \in 0 .. 0 |-> v]
  <2>1. g \in [0 .. 0 -> V] /\ g[0] = v /\ 1 .. 0 = {}
    OBVIOUS
  <2> HIDE DEF g
  <2>2. \E f \in [0 .. 0 -> V] : OK(0, f)
    BY <2>1
  <2> QED
    BY <2>2
<1>2. ASSUME NEW n \in Nat, n \in T
      PROVE  n + 1 \in T
  <2> SUFFICES ASSUME n + 1 <= m
               PROVE  \E f \in [0 .. n + 1 -> V] : OK(n + 1, f)
    OBVIOUS
  <2>1. PICK f \in [0 .. n -> V] : OK(n, f)
    BY <1>2
  <2> DEFINE g == [i \in 0 .. n + 1 |-> IF i = n + 1 THEN G[<<n + 1, f[n]>>] ELSE f[i]]
  <2>2. G[<<n + 1, f[n]>>] \in V
    OBVIOUS
  <2>3. g \in [0 .. n + 1 -> V]
    BY <2>2
  <2>a. g[n + 1] = G[<<n + 1, f[n]>>] /\ g[n] = f[n] /\ g[0] = f[0]
    OBVIOUS
  <2>4. g[n + 1] = G[<<n + 1, g[n]>>] /\ g[0] = v
    BY <2>1, <2>a
  <2>5. \A i \in 1 .. n : g[i] = f[i] /\ g[i - 1] = f[i - 1]
    OBVIOUS
  <2> HIDE DEF g
  <2>6. \A i \in 1 .. n + 1 : i \in 1 .. n \/ i = n + 1
    OBVIOUS
  <2>7. \A i \in 1 .. n + 1 : g[i] = G[<<i, g[i - 1]>>]
    <3>1. \A i \in 1 .. n : g[i] = G[<<i, g[i - 1]>>]
      BY <2>1, <2>5
    <3>2. n + 1 - 1 = n
      OBVIOUS
    <3> QED
      BY <2>4, <2>6, <3>1, <3>2
  <2> QED
    BY <2>3, <2>4, <2>7
<1> HIDE DEF T
<1>3. m \in T
  BY <1>1, <1>2, Induction
<1> QED
  BY <1>3 DEF T

----------------------------------------------------------------------------
(* EntriesAt *)

\* e has the entries of s at the first n positions that are in D: f says where each
\* comes from.
Keeps(s, D, n, e, f) ==
  /\ Len(e) <= n
  /\ f \in [1 .. Len(e) -> 1 .. n]
  /\ \A k \in 1 .. Len(e) : f[k] \in D /\ e[k] = s[f[k]]
  /\ \A i, j \in 1 .. Len(e) : i < j => f[i] < f[j]
  /\ \A p \in 1 .. n : p \in D => \E k \in 1 .. Len(e) : f[k] = p

\* The entries at positions of D are kept, in their order, and no others.
LEMMA EntriesFacts ==
  ASSUME NEW S, NEW s \in Seq(S), NEW D
  PROVE  /\ EntriesAt(s, D) \in Seq(S)
         /\ \E f : Keeps(s, D, Len(s), EntriesAt(s, D), f)
<1> DEFINE m == Len(s)
           V == Seq(S)
           Body(g) == [n \in 0 .. m |->
             IF n = 0 THEN <<>> ELSE IF n \in D THEN Append(g[n - 1], s[n]) ELSE g[n - 1]]
           kept == CHOOSE g : g = Body(g)
           G == [p \in (1 .. m) \X V |-> IF p[1] \in D THEN Append(p[2], s[p[1]]) ELSE p[2]]
<1>1. m \in Nat /\ <<>> \in V /\ \A i \in 1 .. m : s[i] \in S
  OBVIOUS
<1>2. EntriesAt(s, D) = kept[m]
  BY DEF EntriesAt
<1>3. \A i \in 1 .. m : \A x \in V :
        /\ G[<<i, x>>] = IF i \in D THEN Append(x, s[i]) ELSE x
        /\ G[<<i, x>>] \in V
  BY <1>1
<1>4. StepsStayIn(V, m, G)
  BY <1>3 DEF StepsStayIn
<1> HIDE DEF G, V, m, Body, kept
<1>5. \E g \in [0 .. m -> V] : FollowsSteps(g, <<>>, m, G)
  BY <1>1, <1>4, Recursion, Zenon
<1>6. PICK g \in [0 .. m -> V] : g[0] = <<>> /\ \A i \in 1 .. m : g[i] = G[<<i, g[i - 1]>>]
  BY <1>5 DEF FollowsSteps
<1>7. \A i \in 1 .. m : g[i - 1] \in V /\ g[i] = IF i \in D THEN Append(g[i - 1], s[i]) ELSE g[i - 1]
  <2> TAKE i \in 1 .. m
  <2>1. i - 1 \in 0 .. m
    BY <1>1
  <2>2. g[i - 1] \in V
    BY <1>6, <2>1
  <2> QED
    BY <1>3, <1>6, <2>2
<1>8. g = Body(g)
  <2>1. \A n \in 0 .. m : g[n] = IF n = 0 THEN <<>>
                                 ELSE IF n \in D THEN Append(g[n - 1], s[n]) ELSE g[n - 1]
    <3> TAKE n \in 0 .. m
    <3>1. n = 0 \/ n \in 1 .. m
      BY <1>1
    <3>2. \A i \in 1 .. m : i # 0
      BY <1>1
    <3> QED
      BY <1>6, <1>7, <3>1, <3>2
  <2> QED
    BY <1>6, <2>1 DEF Body
<1>9. kept = Body(kept)
  BY <1>8 DEF kept
<1> DEFINE T == {n \in Nat : n <= m => kept[n] = g[n]}
<1>10. \A n \in 0 .. m : kept[n] = IF n = 0 THEN <<>>
                    ELSE IF n \in D THEN Append(kept[n - 1], s[n]) ELSE kept[n - 1]
  BY <1>9 DEF Body
<1>11. 0 \in T
  BY <1>1, <1>6, <1>10
<1>12. \A n \in Nat : n \in T => n + 1 \in T
  <2> TAKE n \in Nat
  <2> SUFFICES ASSUME n + 1 <= m, kept[n] = g[n] PROVE kept[n + 1] = g[n + 1]
    BY <1>1
  <2>1. n + 1 \in 0 .. m /\ n + 1 \in 1 .. m /\ n + 1 # 0 /\ n + 1 - 1 = n
    BY <1>1
  <2> QED
    BY <1>7, <1>10, <2>1
<1>13. Nat \subseteq T
  <2> HIDE DEF T
  <2> QED
    BY <1>11, <1>12, Induction
<1>14. kept[m] = g[m] /\ g[m] \in V
  BY <1>1, <1>6, <1>13
<1> DEFINE U == {n \in Nat : n <= m => \E f : Keeps(s, D, n, g[n], f)}
<1>15. 0 \in U
  <2> DEFINE none == [i \in 1 .. 0 |-> 0]
  <2>1. Len(g[0]) = 0 /\ 1 .. 0 = {}
    BY <1>6
  <2>2. Keeps(s, D, 0, g[0], none)
    BY <2>1 DEF Keeps
  <2> QED
    BY <2>2
<1>16. ASSUME NEW n \in Nat, n \in U
       PROVE  n + 1 \in U
  <2> SUFFICES ASSUME n + 1 <= m
               PROVE  \E f : Keeps(s, D, n + 1, g[n + 1], f)
    OBVIOUS
  <2>1. PICK f : Keeps(s, D, n, g[n], f)
    BY <1>1, <1>16
  <2>2. n + 1 \in 1 .. m /\ n + 1 - 1 = n /\ n \in 0 .. m
    BY <1>1
  <2>3. g[n] \in Seq(S) /\ s[n + 1] \in S
    BY <1>1, <1>6, <2>2 DEF V
  <2> DEFINE l == Len(g[n])
  <2>4. l \in Nat
    BY <2>3
  <2>5. CASE n + 1 \notin D
    <3>1. g[n + 1] = g[n]
      BY <1>7, <2>2, <2>5
    <3>2. f \in [1 .. l -> 1 .. n + 1]
      BY <2>1 DEF Keeps
    <3>3. \A p \in 1 .. n + 1 : p \in D => p \in 1 .. n
      BY <2>5
    <3>4. Keeps(s, D, n + 1, g[n], f)
      BY <2>1, <3>2, <3>3 DEF Keeps
    <3> QED
      BY <3>1, <3>4
  <2>6. CASE n + 1 \in D
    <3> DEFINE e == g[n + 1]
               h == [k \in 1 .. l + 1 |-> IF k = l + 1 THEN n + 1 ELSE f[k]]
    <3>1. e = Append(g[n], s[n + 1])
      <4> HIDE DEF h
      <4>0. e = IF n + 1 \in D THEN Append(g[n + 1 - 1], s[n + 1]) ELSE g[n + 1 - 1]
        BY <1>7, <2>2
      <4>1. e = Append(g[n + 1 - 1], s[n + 1])
        BY <2>6, <4>0, Zenon
      <4> QED
        BY <2>2, <4>1, Zenon
    <3>2. Len(e) = l + 1 /\ e[l + 1] = s[n + 1] /\ \A k \in 1 .. l : e[k] = g[n][k]
      BY <2>3, <3>1
    <3>a. \A k \in 1 .. l : h[k] = f[k]
      BY <2>4
    <3>b. \A k \in 1 .. l : f[k] \in 1 .. n /\ f[k] \in D /\ g[n][k] = s[f[k]]
      BY <2>1 DEF Keeps
    <3>3. \A k \in 1 .. l : h[k] = f[k] /\ f[k] \in 1 .. n /\ f[k] \in D /\ g[n][k] = s[f[k]]
      BY <3>a, <3>b
    <3>4. h[l + 1] = n + 1 /\ DOMAIN h = 1 .. l + 1
      BY <2>4
    <3>5. \A k \in 1 .. l + 1 : k = l + 1 \/ k \in 1 .. l
      BY <2>4
    <3> HIDE DEF l, e
    <3>6. h \in [1 .. l + 1 -> 1 .. n + 1]
      <4>1. \A k \in 1 .. l + 1 : (IF k = l + 1 THEN n + 1 ELSE f[k]) \in 1 .. n + 1
        BY <3>b, <3>5
      <4> QED
        BY <4>1
    <3> HIDE DEF h
    <3>7. \A k \in 1 .. l + 1 : h[k] \in D /\ e[k] = s[h[k]]
      BY <2>6, <3>2, <3>3, <3>4, <3>5
    <3>8. \A i, j \in 1 .. l + 1 : i < j => h[i] < h[j]
      <4> TAKE i, j \in 1 .. l + 1
      <4> HAVE i < j
      <4>1. i \in 1 .. l
        BY <2>4
      <4>2. CASE j = l + 1
        BY <3>3, <3>4, <4>1, <4>2
      <4>3. CASE j \in 1 .. l
        <5>1. f[i] < f[j]
          BY <2>1, <4>1, <4>3 DEF Keeps, l
        <5> QED
          BY <3>3, <4>1, <4>3, <5>1
      <4> QED
        BY <3>5, <4>2, <4>3
    <3>9. \A p \in 1 .. n + 1 : p \in D => \E k \in 1 .. l + 1 : h[k] = p
      <4> TAKE p \in 1 .. n + 1
      <4> HAVE p \in D
      <4>1. CASE p = n + 1
        <5>1. l + 1 \in 1 .. l + 1
          BY <2>4
        <5> QED
          BY <3>4, <4>1, <5>1
      <4>2. CASE p \in 1 .. n
        <5>1. PICK k \in 1 .. l : f[k] = p
          BY <2>1, <4>2 DEF Keeps, l
        <5>2. k \in 1 .. l + 1
          BY <2>4
        <5> QED
          BY <3>3, <5>1, <5>2
      <4> QED
        BY <4>1, <4>2
    <3>10. Keeps(s, D, n + 1, e, h)
      <4>1. Len(e) <= n + 1
        BY <2>1, <2>4, <3>2 DEF Keeps, l
      <4> QED
        BY <3>2, <3>6, <3>7, <3>8, <3>9, <4>1 DEF Keeps
    <3> QED
      BY <3>10 DEF e
  <2> QED
    BY <2>5, <2>6
<1>17. m \in U
  <2> HIDE DEF U
  <2>1. Nat \subseteq U
    BY <1>15, <1>16, Induction
  <2> QED
    BY <1>1, <2>1
<1>18. /\ kept[m] \in Seq(S)
       /\ \E f : Keeps(s, D, m, kept[m], f)
  BY <1>1, <1>14, <1>17 DEF V
<1> QED
  BY <1>2, <1>18 DEF m
=============================================================================
