------------------------------ MODULE Numbers ------------------------------
(***************************************************************************)
(* Facts about sets of numbers and about recursive functions, for the      *)
(* proofs.                                                                 *)
(***************************************************************************)
EXTENDS Integers, FiniteSetsExt, NaturalsInduction, WellFoundedInduction, TLAPS

(* A set of numbers has a least one.                                       *)
LEMMA LeastNumber ==
  ASSUME NEW T, T \subseteq Nat, T # {}
  PROVE  \E x \in T : \A y \in T : x <= y
<1>1. IsWellFoundedOn(OpToRel(<, Nat), Nat)
  BY NatLessThanWellFounded
<1>2. PICK x \in T : \A y \in T : ~ (<<y, x>> \in OpToRel(<, Nat))
  BY <1>1, WFMin
<1>3. \A y \in T : ~ (<<y, x>> \in {ss \in Nat \X Nat : ss[1] < ss[2]})
  BY <1>2 DEF OpToRel
<1>4. \A y \in T : ~(y < x)
  <2> TAKE y \in T
  <2>1. x \in Nat /\ y \in Nat
    OBVIOUS
  <2>2. <<y, x>> \in Nat \X Nat /\ <<y, x>>[1] = y /\ <<y, x>>[2] = x
    BY <2>1
  <2> QED
    BY <1>3, <2>2
<1> QED
  BY <1>4

(* Induction, about a set of numbers instead of a predicate.               *)
LEMMA SetInduction ==
  ASSUME NEW S, 0 \in S, \A n \in Nat : n \in S => n + 1 \in S
  PROVE  Nat \subseteq S
<1> SUFFICES ASSUME ~(Nat \subseteq S) PROVE FALSE
  OBVIOUS
<1> DEFINE T == {n \in Nat : n \notin S}
<1>1. PICK x \in T : \A y \in T : x <= y
  BY LeastNumber
<1>2. x \in Nat /\ x \notin S /\ x # 0
  OBVIOUS
<1>3. x - 1 \in Nat /\ x - 1 + 1 = x /\ ~(x <= x - 1)
  BY <1>2
<1>4. x - 1 \in S
  BY <1>1, <1>3
<1> QED
  BY <1>2, <1>3, <1>4

(* A set of numbers up to n has a maximum.                                 *)
LEMMA MaxUpTo ==
  ASSUME NEW n \in Nat, NEW S, S \subseteq 0 .. n, S # {}
  PROVE  /\ Max(S) \in S
         /\ \A k \in S : k <= Max(S)
<1> DEFINE T == {n - k : k \in S}
<1>1. T \subseteq Nat /\ T # {}
  <2>1. \A k \in S : k \in 0 .. n
    OBVIOUS
  <2>2. \A k \in S : n - k \in Nat
    BY <2>1
  <2> QED
    BY <2>2
<1>2. PICK t \in T : \A u \in T : t <= u
  BY <1>1, LeastNumber
<1>3. PICK m \in S : t = n - m
  BY <1>2
<1>4. \A k \in S : m >= k
  <2> TAKE k \in S
  <2>1. n - m <= n - k
    BY <1>2, <1>3
  <2> QED
    BY <2>1, <1>3
<1>5. Max(S) \in S /\ \A k \in S : Max(S) >= k
  BY <1>3, <1>4, Zenon DEF Max
<1> HIDE DEF T
<1>6. Max(S) \in 0 .. n /\ \A k \in S : k \in 0 .. n
  BY <1>5, Zenon
<1> QED
  BY <1>5, <1>6

(* The larger and the smaller of two.                                      *)
LEMMA MaxMinOfTwo ==
  ASSUME NEW a \in Int, NEW b \in Int
  PROVE  /\ Max({a, b}) = IF a >= b THEN a ELSE b
         /\ Min({a, b}) = IF a <= b THEN a ELSE b
<1>1. \E x \in {a, b} : \A y \in {a, b} : x >= y
  OBVIOUS
<1>2. Max({a, b}) \in {a, b} /\ \A y \in {a, b} : Max({a, b}) >= y
  BY <1>1, Zenon DEF Max
<1>3. \E x \in {a, b} : \A y \in {a, b} : x <= y
  OBVIOUS
<1>4. Min({a, b}) \in {a, b} /\ \A y \in {a, b} : Min({a, b}) <= y
  BY <1>3, Zenon DEF Min
<1> QED
  BY <1>2, <1>4

(* A function f that is recursive: stop says where it ends, with what base *)
(* says; otherwise next is what it calls itself for, and combine what it   *)
(* makes of the result.                                                    *)
Recursive(f, D, stop, base, next, combine) ==
  \A d \in D : f[d] = IF d \in stop THEN base[d] ELSE combine[<<d, f[next[d]]>>]

(* Each call is for something smaller.                                     *)
Falls(D, measure, stop, next) ==
  \A d \in D : d \notin stop => measure[next[d]] < measure[d]

(* A recursive function exists when each call is for something smaller.    *)
LEMMA RecursionExists ==
  ASSUME NEW D, NEW V, NEW measure, NEW stop, NEW base, NEW next, NEW combine,
         measure \in [D -> Nat], base \in [D -> V], next \in [D -> D],
         combine \in [D \X V -> V], Falls(D, measure, stop, next)
  PROVE  \E f \in [D -> V] : Recursive(f, D, stop, base, next, combine)
<1> USE DEF Falls
<1> DEFINE Body(f, d) == IF d \in stop THEN base[d] ELSE combine[<<d, f[next[d]]>>]
           Upto(n, f) == \A d \in D : measure[d] < n => f[d] = Body(f, d)
<1>1. \A f \in [D -> V], d \in D : Body(f, d) \in V
  OBVIOUS
<1>2. ASSUME NEW f, NEW g, NEW d \in D,
             d \notin stop => f[next[d]] = g[next[d]]
      PROVE  Body(f, d) = Body(g, d)
  BY <1>2
<1>3. \A d \in D : measure[d] \in Nat /\ next[d] \in D
  OBVIOUS
<1> HIDE DEF Body
<1>4. \A n \in Nat : \E f \in [D -> V] : Upto(n, f)
  <2> DEFINE S == {n \in Nat : \E f \in [D -> V] : Upto(n, f)}
  <2>1. 0 \in S
    <3>1. Upto(0, base)
      BY <1>3
    <3> QED
      BY <3>1
  <2>2. ASSUME NEW n \in Nat, n \in S PROVE n + 1 \in S
    <3>1. PICK f \in [D -> V] : Upto(n, f)
      BY <2>2
    <3> DEFINE g == [d \in D |-> Body(f, d)]
    <3>2. g \in [D -> V]
      BY <1>1
    <3>3. ASSUME NEW d \in D, measure[d] < n + 1 PROVE g[d] = Body(g, d)
      <4>1. ASSUME d \notin stop PROVE f[next[d]] = g[next[d]]
        <5>1. measure[next[d]] < n /\ next[d] \in D
          BY <1>3, <3>3, <4>1
        <5> QED
          BY <3>1, <5>1
      <4>2. Body(f, d) = Body(g, d)
        BY <1>2, <4>1
      <4> QED
        BY <4>2
    <3>4. Upto(n + 1, g)
      BY <3>3
    <3> HIDE DEF g
    <3> QED
      BY <3>2, <3>4
  <2> HIDE DEF S
  <2>3. Nat \subseteq S
    BY <2>1, <2>2, SetInduction
  <2> QED
    BY <2>3 DEF S
<1>5. \A n \in Nat : \A f, g \in [D -> V] : Upto(n, f) /\ Upto(n, g) =>
        \A d \in D : measure[d] < n => f[d] = g[d]
  <2> DEFINE S == {n \in Nat : \A f, g \in [D -> V] : Upto(n, f) /\ Upto(n, g) =>
                     \A d \in D : measure[d] < n => f[d] = g[d]}
  <2>1. 0 \in S
    BY <1>3
  <2>2. ASSUME NEW n \in Nat, n \in S PROVE n + 1 \in S
    <3> SUFFICES ASSUME NEW f \in [D -> V], NEW g \in [D -> V],
                        Upto(n + 1, f), Upto(n + 1, g),
                        NEW d \in D, measure[d] < n + 1
                 PROVE  f[d] = g[d]
      OBVIOUS
    <3>1. Upto(n, f) /\ Upto(n, g)
      BY <1>3
    <3>2. \A e \in D : measure[e] < n => f[e] = g[e]
      BY <2>2, <3>1
    <3>3. ASSUME d \notin stop PROVE f[next[d]] = g[next[d]]
      <4>1. measure[next[d]] < n /\ next[d] \in D
        BY <1>3, <3>3
      <4> QED
        BY <3>2, <4>1
    <3>4. Body(f, d) = Body(g, d)
      BY <1>2, <3>3
    <3> QED
      BY <3>4
  <2> HIDE DEF S
  <2>3. Nat \subseteq S
    BY <2>1, <2>2, SetInduction
  <2> QED
    BY <2>3 DEF S
<1> DEFINE F(n) == CHOOSE f \in [D -> V] : Upto(n, f)
<1>6. \A n \in Nat : F(n) \in [D -> V] /\ Upto(n, F(n))
  BY <1>4
<1> DEFINE h == [d \in D |-> F(measure[d] + 1)[d]]
<1> HIDE DEF F
<1>7. h \in [D -> V]
  BY <1>3, <1>6
<1>8. ASSUME NEW d \in D PROVE h[d] = Body(h, d)
  <2> DEFINE n == measure[d] + 1
  <2>1. n \in Nat /\ measure[d] < n
    BY <1>3
  <2>2. h[d] = F(n)[d] /\ F(n)[d] = Body(F(n), d)
    BY <1>6, <2>1
  <2>3. ASSUME d \notin stop PROVE F(n)[next[d]] = h[next[d]]
    <3> DEFINE k == measure[next[d]] + 1
    <3>1. k \in Nat /\ k <= n /\ measure[next[d]] < k /\ next[d] \in D
      BY <1>3, <2>3
    <3>2. h[next[d]] = F(k)[next[d]]
      BY <3>1
    <3> HIDE DEF k, n
    <3>3. Upto(k, F(n)) /\ Upto(k, F(k))
      BY <1>3, <1>6, <2>1, <3>1
    <3>4. F(n) \in [D -> V] /\ F(k) \in [D -> V]
      BY <1>6, <2>1, <3>1
    <3>5. F(n)[next[d]] = F(k)[next[d]]
      BY <1>5, <3>1, <3>3, <3>4
    <3> QED
      BY <3>2, <3>5
  <2>4. Body(F(n), d) = Body(h, d)
    BY <1>2, <2>3
  <2> QED
    BY <2>2, <2>4
<1>9. \A d \in D : h[d] = IF d \in stop THEN base[d] ELSE combine[<<d, h[next[d]]>>]
  BY <1>8 DEF Body
<1> HIDE DEF h
<1> QED
  BY <1>7, <1>9 DEF Recursive
=============================================================================
