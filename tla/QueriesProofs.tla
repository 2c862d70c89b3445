--------------------------- MODULE QueriesProofs ---------------------------
(***************************************************************************)
(* Theorems about Queries, for any lists, times, limits and numbers of     *)
(* pages.                                                                  *)
(*                                                                         *)
(* The first part is about single calls: the halving of LowerBound splits  *)
(* a range that is in order, whatever its length, and a page is a run of   *)
(* positions that its limit cuts.  Inv is about the pages together: what   *)
(* they have given is what is asked for of the positions they have gone    *)
(* over, Covered; Ahead are the others.  The last part counts: the loops   *)
(* of CountPerTime put each time in its own bucket.                        *)
(***************************************************************************)
EXTENDS Queries, Numbers, SequenceTheorems, FiniteSetTheorems

(* One call of the search of LowerBound.                                   *)
Halve(range, t) ==
  LET first == range[1]
      len   == range[2]
      half  == len \div 2
  IN IF TimeOf(first + half) < t THEN <<first + half + 1, len - half - 1>>
                                 ELSE <<first, half>>

(* The times of the positions from lo to hi are in order.                  *)
Sorted(lo, hi) == \A i, j \in lo .. hi - 1 : i <= j => TimeOf(i) <= TimeOf(j)

(* The call is for fewer positions.                                        *)
LEMMA HalveSmaller ==
  ASSUME NEW first \in Nat, NEW len \in Nat, len > 0, NEW t
  PROVE  LET half == len \div 2
         IN /\ half \in Nat /\ half < len
            /\ Halve(<<first, len>>, t) =
                 IF TimeOf(first + half) < t THEN <<first + half + 1, len - half - 1>>
                                             ELSE <<first, half>>
<1>1. len \div 2 \in Nat /\ len \div 2 < len
  OBVIOUS
<1>2. <<first, len>>[1] = first /\ <<first, len>>[2] = len
  OBVIOUS
<1> QED
  BY <1>1, <1>2 DEF Halve

(* The search of LowerBound is a function.                                 *)
LEMMA SearchExists ==
  ASSUME NEW t
  PROVE  \E f \in [Nat \X Nat -> Nat] :
           f = [range \in Nat \X Nat |-> IF range[2] = 0 THEN range[1]
                                         ELSE f[Halve(range, t)]]
<1> DEFINE D == Nat \X Nat
           measure == [range \in D |-> range[2]]
           stop == {range \in D : range[2] = 0}
           base == [range \in D |-> range[1]]
           step == [range \in D |-> IF range[2] = 0 THEN range ELSE Halve(range, t)]
           combine == [x \in D \X Nat |-> x[2]]
<1>1. ASSUME NEW range \in D, range[2] # 0
      PROVE  Halve(range, t) \in D /\ Halve(range, t)[2] < range[2]
  <2>1. PICK first \in Nat, len \in Nat : range = <<first, len>>
    OBVIOUS
  <2>2. len > 0 /\ range[2] = len
    BY <1>1, <2>1
  <2> DEFINE half == len \div 2
  <2>3. half \in Nat /\ half < len
    BY <2>2
  <2>4. Halve(range, t) \in {<<first + half + 1, len - half - 1>>, <<first, half>>}
    BY <2>1, <2>2, HalveSmaller
  <2> HIDE DEF half
  <2>5. /\ <<first + half + 1, len - half - 1>> \in D /\ <<first, half>> \in D
        /\ <<first + half + 1, len - half - 1>>[2] < len /\ <<first, half>>[2] < len
    BY <2>3
  <2> QED
    BY <2>2, <2>4, <2>5
<1>2. /\ measure \in [D -> Nat] /\ base \in [D -> Nat]
      /\ combine \in [D \X Nat -> Nat]
  OBVIOUS
<1>3. step \in [D -> D]
  BY <1>1
<1>4. Falls(D, measure, stop, step)
  BY <1>1 DEF Falls
<1> HIDE DEF D, measure, stop, base, step, combine
<1>5. PICK f \in [D -> Nat] : Recursive(f, D, stop, base, step, combine)
  BY <1>2, <1>3, <1>4, RecursionExists
<1> USE DEF D
<1>6. ASSUME NEW d \in D
      PROVE  f[d] = IF d[2] = 0 THEN d[1] ELSE f[Halve(d, t)]
  <2>1. f[d] = IF d \in stop THEN base[d] ELSE combine[<<d, f[step[d]]>>]
    BY <1>5 DEF Recursive
  <2>2. CASE d[2] = 0
    BY <2>1, <2>2 DEF stop, base
  <2>3. CASE d[2] # 0
    <3>1. step[d] = Halve(d, t) /\ step[d] \in D /\ d \notin stop
      BY <1>3, <2>3 DEF step, stop
    <3>2. f[step[d]] \in Nat
      BY <3>1
    <3>3. combine[<<d, f[step[d]]>>] = f[step[d]]
      BY <3>2 DEF combine
    <3> QED
      BY <2>1, <2>3, <3>1, <3>3
  <2> QED
    BY <2>2, <2>3
<1> DEFINE Body == [d \in D |-> IF d[2] = 0 THEN d[1] ELSE f[Halve(d, t)]]
<1>7. f = Body
  <2>1. f = [d \in D |-> f[d]]
    OBVIOUS
  <2> QED
    BY <1>6, <2>1
<1> QED
  BY <1>7

(* What LowerBound is, without the CHOOSE of a recursive definition.       *)
LEMMA LowerBoundSearch ==
  ASSUME NEW t
  PROVE  \E f :
           /\ \A first, len \in Nat :
                f[<<first, len>>] = IF len = 0 THEN first
                                    ELSE f[Halve(<<first, len>>, t)]
           /\ \A lo \in Nat, hi \in Int :
                LowerBound(lo, hi, t) = f[<<lo, IF hi > lo THEN hi - lo ELSE 0>>]
<1> DEFINE search[range \in Nat \X Nat] ==
             LET first == range[1]
                 len   == range[2]
                 half  == len \div 2
             IN IF len = 0 THEN first
                ELSE IF TimeOf(first + half) < t
                     THEN search[<<first + half + 1, len - half - 1>>]
                     ELSE search[<<first, half>>]
           Loop(f) == [range \in Nat \X Nat |->
             LET first == range[1]
                 len   == range[2]
                 half  == len \div 2
             IN IF len = 0 THEN first
                ELSE IF TimeOf(first + half) < t
                     THEN f[<<first + half + 1, len - half - 1>>]
                     ELSE f[<<first, half>>]]
           Body(f) == [range \in Nat \X Nat |-> IF range[2] = 0 THEN range[1]
                                                ELSE f[Halve(range, t)]]
<1>1. \A lo, hi : LowerBound(lo, hi, t) = search[<<lo, IF hi > lo THEN hi - lo ELSE 0>>]
  BY DEF LowerBound
<1>2. search = CHOOSE f : f = Loop(f)
  OBVIOUS
<1>3. ASSUME NEW f PROVE Loop(f) = Body(f)
  BY DEF Halve
<1> HIDE DEF search, Loop
<1>4. PICK f \in [Nat \X Nat -> Nat] : f = Body(f)
  BY SearchExists
<1>5. search = Loop(search)
  BY <1>2, <1>3, <1>4, Zenon
<1>6. search = Body(search)
  BY <1>3, <1>5, Zenon
<1>7. ASSUME NEW first \in Nat, NEW len \in Nat
      PROVE  search[<<first, len>>] = IF len = 0 THEN first
                                      ELSE search[Halve(<<first, len>>, t)]
  <2>1. <<first, len>> \in Nat \X Nat /\ <<first, len>>[1] = first /\ <<first, len>>[2] = len
    OBVIOUS
  <2>2. search[<<first, len>>] = Body(search)[<<first, len>>]
    BY <1>6
  <2> QED
    BY <2>1, <2>2
<1> QED
  BY <1>1, <1>7

(* A position of the list has a time.                                      *)
LEMMA TimeIsNumber ==
  ASSUME times \in Seq(Times), NEW i \in 0 .. Size - 1
  PROVE  TimeOf(i) \in Nat
<1>1. Len(times) \in Nat /\ \A k \in 1 .. Len(times) : times[k] \in Times
  OBVIOUS
<1>2. Times \subseteq Nat
  BY ConstantsAssumption DEF ConstantsAssumption
<1>3. i + 1 \in 1 .. Len(times)
  BY <1>1 DEF Size
<1> QED
  BY <1>1, <1>2, <1>3 DEF TimeOf

(* p splits the positions from lo to hi: before it the times are before t. *)
Splits(p, lo, hi, t) ==
  /\ \A i \in lo .. p - 1 : TimeOf(i) < t
  /\ \A i \in p .. hi - 1 : TimeOf(i) >= t

(* LowerBound stays within the positions it searches, and when their times *)
(* are in order, it splits them.                                           *)
LEMMA LowerBoundSplits ==
  ASSUME NEW lo \in Nat, NEW hi \in Int, NEW t
  PROVE  /\ LowerBound(lo, hi, t) \in lo .. (IF hi > lo THEN hi ELSE lo)
         /\ times \in Seq(Times) /\ hi <= Size /\ t \in Int /\ Sorted(lo, hi) =>
              Splits(LowerBound(lo, hi, t), lo, hi, t)
<1>1. PICK f :
        /\ \A first, len \in Nat :
             f[<<first, len>>] = IF len = 0 THEN first ELSE f[Halve(<<first, len>>, t)]
        /\ \A first \in Nat, last \in Int :
             LowerBound(first, last, t) = f[<<first, IF last > first THEN last - first ELSE 0>>]
  BY LowerBoundSearch
<1> DEFINE Known(first, len) == times \in Seq(Times) /\ first + len <= Size
                                  /\ t \in Int /\ Sorted(first, first + len)
           Found(first, len) ==
             /\ f[<<first, len>>] \in first .. first + len
             /\ Known(first, len) => Splits(f[<<first, len>>], first, first + len, t)
           S == {n \in Nat : \A len \in 0 .. n : \A first \in Nat : Found(first, len)}
<1>2. 0 \in S
  <2>1. ASSUME NEW first \in Nat PROVE Found(first, 0)
    <3>1. f[<<first, 0>>] = first
      BY <1>1
    <3> QED
      BY <3>1 DEF Splits
  <2>2. \A len \in 0 .. 0 : len = 0
    OBVIOUS
  <2> HIDE DEF Found
  <2> QED
    BY <2>1, <2>2
<1>3. ASSUME NEW n \in Nat, n \in S PROVE n + 1 \in S
  <2>1. ASSUME NEW first \in Nat PROVE Found(first, n + 1)
    <3> DEFINE len == n + 1
               half == len \div 2
               mid == first + half
    <3>1. len \in Nat /\ len > 0
      OBVIOUS
    <3>2. /\ half \in Nat /\ half < len
          /\ Halve(<<first, len>>, t) =
               IF TimeOf(mid) < t THEN <<mid + 1, len - half - 1>> ELSE <<first, half>>
      BY <3>1, HalveSmaller
    <3>3. f[<<first, len>>] = f[Halve(<<first, len>>, t)]
      BY <1>1, <3>1
    <3> HIDE DEF half
    <3>4. half \in 0 .. n /\ len - half - 1 \in 0 .. n /\ mid + 1 \in Nat /\ mid \in Nat
      BY <3>2
    <3>5. Found(first, half) /\ Found(mid + 1, len - half - 1)
      <4> HIDE DEF Found, len
      <4> QED
        BY <1>3, <3>4
    <3>6. mid + 1 + (len - half - 1) = first + len
      BY <3>2
    <3>7. CASE TimeOf(mid) < t
      <4> DEFINE p == f[<<mid + 1, len - half - 1>>]
      <4>1. f[<<first, len>>] = p
        BY <3>2, <3>3, <3>7
      <4>2. p \in mid + 1 .. first + len
        BY <3>5, <3>6
      <4> HIDE DEF p
      <4>3. p \in first .. first + len
        BY <3>2, <4>2
      <4>4. ASSUME Known(first, len) PROVE Splits(p, first, first + len, t)
        <5>1. Sorted(mid + 1, first + len) /\ mid + 1 + (len - half - 1) <= Size
          BY <3>2, <3>6, <4>4 DEF Sorted
        <5>2. Splits(p, mid + 1, first + len, t)
          BY <3>5, <3>6, <4>4, <5>1 DEF p
        <5>3. ASSUME NEW i \in first .. mid PROVE TimeOf(i) < t
          <6>1. i \in 0 .. Size - 1 /\ mid \in 0 .. Size - 1
            BY <3>2, <4>4, <5>3 DEF Size
          <6>2. TimeOf(i) \in Nat /\ TimeOf(mid) \in Nat
            BY <4>4, <6>1, TimeIsNumber
          <6>3. TimeOf(i) <= TimeOf(mid)
            BY <3>2, <4>4, <5>3 DEF Sorted
          <6> QED
            BY <3>7, <4>4, <6>2, <6>3
        <5>4. \A i \in first .. p - 1 : i \in first .. mid \/ i \in mid + 1 .. p - 1
          BY <3>2, <4>2
        <5> QED
          BY <5>2, <5>3, <5>4 DEF Splits
      <4> QED
        BY <4>1, <4>3, <4>4
    <3>8. CASE ~(TimeOf(mid) < t)
      <4> DEFINE p == f[<<first, half>>]
      <4>1. f[<<first, len>>] = p
        BY <3>2, <3>3, <3>8
      <4>2. p \in first .. mid
        BY <3>5
      <4> HIDE DEF p
      <4>3. p \in first .. first + len
        BY <3>2, <4>2
      <4>4. ASSUME Known(first, len) PROVE Splits(p, first, first + len, t)
        <5>1. Sorted(first, first + half) /\ first + half <= Size
          BY <3>2, <4>4 DEF Sorted, Size
        <5>2. Splits(p, first, mid, t)
          BY <3>5, <4>4, <5>1 DEF p
        <5>3. ASSUME NEW i \in mid .. first + len - 1 PROVE TimeOf(i) >= t
          <6>1. i \in 0 .. Size - 1 /\ mid \in 0 .. Size - 1
            BY <3>2, <4>4, <5>3 DEF Size
          <6>2. TimeOf(i) \in Nat /\ TimeOf(mid) \in Nat
            BY <4>4, <6>1, TimeIsNumber
          <6>3. TimeOf(mid) <= TimeOf(i)
            BY <3>2, <4>4, <5>3 DEF Sorted
          <6> QED
            BY <3>8, <4>4, <6>2, <6>3
        <5>4. \A i \in p .. first + len - 1 :
                i \in p .. mid - 1 \/ i \in mid .. first + len - 1
          BY <3>2, <4>2
        <5>5. \A i \in p .. mid - 1 : TimeOf(i) >= t
          BY <5>2 DEF Splits
        <5>6. \A i \in p .. first + len - 1 : TimeOf(i) >= t
          <6> HIDE DEF len, mid
          <6> QED
            BY <5>3, <5>4, <5>5
        <5>7. \A i \in first .. p - 1 : TimeOf(i) < t
          BY <5>2 DEF Splits
        <5> QED
          BY <5>6, <5>7 DEF Splits
      <4> QED
        BY <4>1, <4>3, <4>4
    <3> HIDE DEF Found, len
    <3> QED
      BY <3>7, <3>8 DEF len
  <2>2. \A len \in 0 .. n + 1 : len \in 0 .. n \/ len = n + 1
    OBVIOUS
  <2> HIDE DEF Found
  <2> QED
    BY <1>3, <2>1, <2>2
<1> HIDE DEF S
<1>4. Nat \subseteq S
  BY <1>2, <1>3, SetInduction
<1>5. \A len, first \in Nat : Found(first, len)
  <2>1. \A len \in Nat : len \in 0 .. len
    OBVIOUS
  <2> HIDE DEF Found
  <2> QED
    BY <1>4, <2>1 DEF S
<1> DEFINE len == IF hi > lo THEN hi - lo ELSE 0
<1>6. len \in Nat /\ LowerBound(lo, hi, t) = f[<<lo, len>>]
  BY <1>1
<1>7. Found(lo, len)
  BY <1>5, <1>6
<1>8. LowerBound(lo, hi, t) \in lo .. (IF hi > lo THEN hi ELSE lo)
  BY <1>6, <1>7
<1>9. ASSUME times \in Seq(Times), hi <= Size, t \in Int, Sorted(lo, hi)
      PROVE  Splits(LowerBound(lo, hi, t), lo, hi, t)
  <2> DEFINE p == LowerBound(lo, hi, t)
  <2>1. CASE hi > lo
    <3>1. len = hi - lo /\ lo + len = hi
      BY <2>1
    <3> HIDE DEF len
    <3> QED
      BY <1>6, <1>7, <1>9, <3>1
  <2>2. CASE ~(hi > lo)
    <3>1. p = lo
      BY <1>8, <2>2
    <3> HIDE DEF p
    <3> QED
      BY <2>2, <3>1 DEF Splits, p
  <2> QED
    BY <2>1, <2>2
<1> QED
  BY <1>8, <1>9
-----------------------------------------------------------------------------
(* The k-th item of a page that starts at s, whatever ends it.             *)
Nth(r, s, k) == IF r.reverse THEN s - (k - 1) ELSE s + (k - 1)

(* An item that does not end the page.                                     *)
Shown(r, j) == j \in 0 .. Size - 1 /\ Passes(r, j)

(* The number of items of a page without a limit.                          *)
RunLength(r, s) == Max({m \in 0 .. Size : \A k \in 1 .. m : Shown(r, Nth(r, s, k))})
(* The number of items of n that a limit lets through.                     *)
Limit(n, c) == IF Fits(n, c) THEN n ELSE c

(* Where a page starts.                                                    *)
Start(r, a) == IF r.reverse THEN StartReverse(r, a) ELSE StartForward(r, a)

(* The arguments that the schema allows.                                   *)
LEMMA RequestType ==
  ASSUME NEW r \in Requests
  PROVE  /\ r \in [list : Lists, count : Int, reverse : BOOLEAN,
                   time_after : Times \cup {None}, time_before : Times \cup {None}]
         /\ r.reverse => r.list = "blocks"
         /\ r.list = "accounts" => r.time_after = None /\ r.time_before = None
BY ConstantsAssumption DEF ConstantsAssumption

(* Another limit changes nothing else of a request.                        *)
LEMMA OtherLimit ==
  ASSUME NEW r \in Requests, NEW c \in Int
  PROVE  LET q == [r EXCEPT !.count = c]
         IN /\ q.count = c /\ q.reverse = r.reverse /\ q.list = r.list
            /\ q.time_after = r.time_after /\ q.time_before = r.time_before
BY RequestType

(* A page without a limit ends at the first item that ends it.             *)
LEMMA RunLengthIs ==
  ASSUME Size \in Nat, NEW r \in Requests, NEW s \in Int
  PROVE  LET n == RunLength(r, s)
         IN /\ n \in 0 .. Size
            /\ \A k \in 1 .. n : Shown(r, Nth(r, s, k))
            /\ ~Shown(r, Nth(r, s, n + 1))
<1> DEFINE R == {m \in 0 .. Size : \A k \in 1 .. m : Shown(r, Nth(r, s, k))}
           n == RunLength(r, s)
<1>1. 0 \in R
  OBVIOUS
<1>2. R \subseteq 0 .. Size /\ R # {}
  BY <1>1
<1> HIDE DEF R
<1>3. Max(R) \in R /\ \A m \in R : m <= Max(R)
  BY <1>2, MaxUpTo
<1>4. n = Max(R)
  BY DEF RunLength, R
<1> HIDE DEF n
<1>5. n \in 0 .. Size /\ \A k \in 1 .. n : Shown(r, Nth(r, s, k))
  BY <1>3, <1>4 DEF R
<1>6. ASSUME Shown(r, Nth(r, s, n + 1)) PROVE FALSE
  <2>1. \A k \in 1 .. n + 1 : k \in 1 .. n \/ k = n + 1
    BY <1>5
  <2>2. \A k \in 1 .. n + 1 : Shown(r, Nth(r, s, k))
    BY <1>5, <1>6, <2>1
  <2>3. CASE n = Size
    <3>1. Nth(r, s, 1) = s /\ Nth(r, s, n + 1) = IF r.reverse THEN s - n ELSE s + n
      BY <1>5 DEF Nth
    <3>2. s \in 0 .. Size - 1
      <4>1. 1 \in 1 .. n + 1
        BY <1>5
      <4> QED
        BY <2>2, <3>1, <4>1 DEF Shown
    <3>3. Nth(r, s, n + 1) \in 0 .. Size - 1
      BY <1>6 DEF Shown
    <3> QED
      BY <2>3, <3>1, <3>2, <3>3
  <2>4. CASE n # Size
    <3>1. n + 1 \in 0 .. Size
      BY <1>5, <2>4
    <3>2. n + 1 \in R
      BY <2>2, <3>1 DEF R
    <3> QED
      BY <1>3, <1>4, <1>5, <3>2
  <2> QED
    BY <2>3, <2>4
<1> QED
  BY <1>5, <1>6 DEF n

(* A page is the beginning of the page without a limit.                    *)
LEMMA ItemsFromIs ==
  ASSUME Size \in Nat, NEW r \in Requests, NEW s \in Int, NEW c \in Int
  PROVE  ItemsFrom([r EXCEPT !.count = c], s) =
           [k \in 1 .. Limit(RunLength(r, s), c) |-> Nth(r, s, k)]
<1> DEFINE q == [r EXCEPT !.count = c]
           step == IF q.reverse THEN -1 ELSE 1
           n == RunLength(r, s)
           R == {m \in 0 .. Size :
                   /\ Fits(m, q.count)
                   /\ \A k \in 1 .. m :
                        s + (k - 1) * step \in 0 .. Size - 1 /\ Passes(q, s + (k - 1) * step)}
           T == {m \in 0 .. Size : Fits(m, c) /\ \A k \in 1 .. m : Shown(r, Nth(r, s, k))}
<1>1. ItemsFrom(q, s) = [k \in 1 .. Max(R) |-> s + (k - 1) * step]
  BY DEF ItemsFrom
<1>2. /\ q.count = c /\ q.reverse = r.reverse
      /\ q.time_after = r.time_after /\ q.time_before = r.time_before
  BY OtherLimit
<1> HIDE DEF q
<1>3. \A k \in Int : s + (k - 1) * step = Nth(r, s, k)
  <2>1. CASE r.reverse
    BY <1>2, <2>1 DEF Nth
  <2>2. CASE ~r.reverse
    BY <1>2, <2>2 DEF Nth
  <2> QED
    BY <2>1, <2>2
<1>4. \A j : Passes(q, j) = Passes(r, j)
  BY <1>2 DEF Passes
<1> HIDE DEF step
<1>5. R = T
  <2>1. \A m \in 0 .. Size : \A k \in 1 .. m : k \in Int
    OBVIOUS
  <2>2. \A k \in Int : (s + (k - 1) * step \in 0 .. Size - 1 /\ Passes(q, s + (k - 1) * step))
                         <=> Shown(r, Nth(r, s, k))
    BY <1>3, <1>4 DEF Shown
  <2> QED
    BY <1>2, <2>1, <2>2
<1> HIDE DEF R
<1>6. /\ n \in 0 .. Size
      /\ \A k \in 1 .. n : Shown(r, Nth(r, s, k))
      /\ ~Shown(r, Nth(r, s, n + 1))
  BY RunLengthIs
<1> HIDE DEF n
<1> DEFINE l == Limit(n, c)
<1>7. l \in 0 .. n /\ Fits(l, c)
  BY <1>6 DEF Limit, Fits
<1>8. l \in T
  BY <1>6, <1>7
<1>9. \A m \in T : m <= l
  <2> TAKE m \in T
  <2>1. m \in 0 .. Size /\ Fits(m, c) /\ \A k \in 1 .. m : Shown(r, Nth(r, s, k))
    OBVIOUS
  <2>2. m <= n
    <3>1. ASSUME m > n PROVE n + 1 \in 1 .. m
      BY <1>6, <2>1, <3>1
    <3>2. ~(m > n)
      BY <1>6, <2>1, <3>1
    <3> QED
      BY <1>6, <2>1, <3>2
  <2> HIDE DEF T
  <2> QED
    BY <1>6, <2>1, <2>2 DEF Limit, Fits
<1>10. Max(T) = l
  <2>1. T \subseteq 0 .. Size
    OBVIOUS
  <2>2. T # {}
    BY <1>8
  <2> HIDE DEF T, l
  <2>3. Max(T) \in T /\ \A m \in T : m <= Max(T)
    BY <2>1, <2>2, MaxUpTo
  <2>4. Max(T) \in 0 .. Size /\ l \in 0 .. Size
    BY <1>8, <2>1, <2>3
  <2>5. Max(T) <= l /\ l <= Max(T)
    BY <1>8, <1>9, <2>3
  <2> QED
    BY <2>4, <2>5
<1> HIDE DEF T, l
<1>11. [k \in 1 .. l |-> s + (k - 1) * step] = [k \in 1 .. l |-> Nth(r, s, k)]
  <2>1. \A k \in 1 .. l : s + (k - 1) * step = Nth(r, s, k)
    BY <1>3
  <2> QED
    BY <2>1
<1> QED
  BY <1>1, <1>5, <1>10, <1>11 DEF l, n, q
-----------------------------------------------------------------------------
(* The types of the variables.                                             *)
Types ==
  /\ times \in Seq(Times)
  /\ request \in Requests
  /\ after \in Int \cup {None}
  /\ seen \in Seq(Int)
  /\ total \in 0 .. Size

(* Where the last page may have ended.                                     *)
Ended ==
  after # None => IF request.reverse THEN after \in 0 .. total
                                     ELSE after \in -1 .. Size - 1

(* The first position after the last page, in the direction pages go.      *)
From == IF request.reverse THEN (IF after = None THEN Size ELSE after) - 1
                           ELSE IF after = None THEN 0 ELSE after + 1

(* The list is finite.                                                     *)
LEMMA SizeIsNat ==
  ASSUME times \in Seq(Times)
  PROVE  Size \in Nat
BY DEF Size

(* A page starts at that position or beyond it.                            *)
LEMMA StartIs ==
  ASSUME Types, Ended
  PROVE  LET s == Start(request, after)
         IN IF request.reverse THEN From \in -1 .. Size - 1 /\ s \in -1 .. From
                               ELSE From \in 0 .. Size /\ s \in From .. Size
<1> DEFINE s == Start(request, after)
<1>1. Size \in Nat /\ total \in 0 .. Size /\ (after # None => after \in Int)
  BY SizeIsNat DEF Types
<1>2. CASE request.reverse
  <2>1. From = (IF after = None THEN Size ELSE after) - 1
    BY <1>2 DEF From
  <2>2. From \in -1 .. Size - 1
    BY <1>1, <1>2, <2>1 DEF Ended
  <2>3. s = IF request.time_before = None THEN From
            ELSE Min({From, LowerBound(0, From, request.time_before) - 1})
    BY <1>2, <2>1 DEF Start, StartReverse
  <2> DEFINE p == LowerBound(0, From, request.time_before)
  <2>4. p \in 0 .. (IF From > 0 THEN From ELSE 0)
    BY <2>2, LowerBoundSplits
  <2> HIDE DEF p
  <2>5. Min({From, p - 1}) = IF From <= p - 1 THEN From ELSE p - 1
    <3>1. From \in Int /\ p - 1 \in Int
      BY <1>1, <2>2, <2>4
    <3> QED
      BY <3>1, MaxMinOfTwo
  <2>6. s = From \/ (s = IF From <= p - 1 THEN From ELSE p - 1)
    BY <2>3, <2>5 DEF p
  <2> HIDE DEF s
  <2> QED
    BY <1>2, <2>2, <2>4, <2>6 DEF s
<1>3. CASE ~request.reverse
  <2>1. From = IF after = None THEN 0 ELSE after + 1
    BY <1>3 DEF From
  <2>2. From \in 0 .. Size
    BY <1>1, <1>3, <2>1 DEF Ended
  <2>3. s = IF request.time_after = None THEN From
            ELSE Max({From, LowerBound(From, Size, request.time_after)})
    BY <1>3, <2>1 DEF Start, StartForward
  <2> DEFINE p == LowerBound(From, Size, request.time_after)
  <2>4. p \in From .. Size
    <3>1. From \in Nat /\ Size \in Int
      BY <1>1, <2>2
    <3>2. p \in From .. (IF Size > From THEN Size ELSE From)
      BY <3>1, LowerBoundSplits
    <3> HIDE DEF p
    <3> QED
      BY <1>1, <2>2, <3>2
  <2> HIDE DEF p
  <2>5. Max({From, p}) = IF From >= p THEN From ELSE p
    BY <2>2, <2>4, MaxMinOfTwo
  <2>6. s = From \/ (s = IF From >= p THEN From ELSE p)
    BY <2>3, <2>5 DEF p
  <2> HIDE DEF s
  <2> QED
    BY <1>1, <1>3, <2>2, <2>4, <2>6 DEF s
<1> QED
  BY <1>2, <1>3

(* The pages of a list without times, as a run without them.               *)
LEMMA PlainItemsAreFrom ==
  ASSUME Types, Ended, request.list = "accounts", NEW c \in Int
  PROVE  PlainItems([request EXCEPT !.count = c], after) =
           ItemsFrom([request EXCEPT !.count = c], Start(request, after))
<1> DEFINE q == [request EXCEPT !.count = c]
           i == IF after = None THEN 0 ELSE after + 1
           step == IF q.reverse THEN -1 ELSE 1
           P == {m \in 0 .. Size : Fits(m, q.count) /\ i + m <= Size} \cup {0}
           R == {m \in 0 .. Size :
                   /\ Fits(m, q.count)
                   /\ \A k \in 1 .. m :
                        i + (k - 1) * step \in 0 .. Size - 1 /\ Passes(q, i + (k - 1) * step)}
<1>1. PlainItems(q, after) = [k \in 1 .. Max(P) |-> i + k - 1]
  BY DEF PlainItems
<1>2. ItemsFrom(q, i) = [k \in 1 .. Max(R) |-> i + (k - 1) * step]
  BY DEF ItemsFrom
<1>3. ~request.reverse /\ request.time_after = None /\ request.time_before = None
  <2>1. request \in Requests
    BY DEF Types
  <2>2. request.reverse => request.list = "blocks"
    BY <2>1, RequestType
  <2>3. ~request.reverse
    BY <2>2
  <2> QED
    BY <2>1, <2>3, RequestType
<1>4. Start(request, after) = i
  BY <1>3 DEF Start, StartForward
<1>5. q.count = c /\ q.reverse = request.reverse /\ q.time_before = request.time_before
  BY OtherLimit DEF Types
<1>6. step = 1
  BY <1>3, <1>5
<1>7. \A j : Passes(q, j)
  BY <1>3, <1>5 DEF Passes
<1>8. Size \in Nat /\ i \in 0 .. Size
  <2>1. Size \in Nat
    BY SizeIsNat DEF Types
  <2> QED
    BY <1>3, <2>1 DEF Ended
<1> HIDE DEF q, i, step
<1>9. P = R
  <2>1. 0 \in R
    BY <1>8 DEF Fits
  <2>2. ASSUME NEW m \in 0 .. Size
        PROVE  m = 0 \/ i + m <= Size <=> \A k \in 1 .. m : i + (k - 1) * step \in 0 .. Size - 1
    <3>1. \A k \in 1 .. m : i + (k - 1) * step = i + (k - 1)
      BY <1>6
    <3>2. ASSUME i + m <= Size, NEW k \in 1 .. m PROVE i + (k - 1) \in 0 .. Size - 1
      BY <1>8, <3>2
    <3>3. ASSUME m # 0, \A k \in 1 .. m : i + (k - 1) \in 0 .. Size - 1
          PROVE  i + m <= Size
      <4>1. m \in 1 .. m
        BY <3>3
      <4>2. i + (m - 1) \in 0 .. Size - 1
        BY <3>3, <4>1
      <4> QED
        BY <1>8, <4>2
    <3> QED
      BY <3>1, <3>2, <3>3
  <2>3. ASSUME NEW m PROVE m \in P <=> m \in R
    <3>1. Fits(0, q.count)
      BY <1>5 DEF Fits
    <3>2. 0 \in 0 .. Size
      BY <1>8
    <3> QED
      BY <1>7, <2>1, <2>2, <3>1, <3>2
  <2> HIDE DEF P, R
  <2> QED
    BY <2>3
<1>10. \A k \in Int : i + (k - 1) * step = i + k - 1
  BY <1>6, <1>8
<1> HIDE DEF P, R
<1>11. [k \in 1 .. Max(R) |-> i + k - 1] = [k \in 1 .. Max(R) |-> i + (k - 1) * step]
  <2> DEFINE n == Max(R)
  <2> HIDE DEF n
  <2>1. \A k \in 1 .. n : i + k - 1 = i + (k - 1) * step
    BY <1>10
  <2>2. [k \in 1 .. n |-> i + k - 1] = [k \in 1 .. n |-> i + (k - 1) * step]
    BY <2>1
  <2> QED
    BY <2>2 DEF n
<1> QED
  BY <1>1, <1>2, <1>4, <1>9, <1>11 DEF q

(* A page is the beginning, as long as its limit lets it be, of a run of   *)
(* items.                                                                  *)
LEMMA PageIs ==
  ASSUME Types, Ended, NEW c \in Int
  PROVE  LET s == Start(request, after)
         IN Items([request EXCEPT !.count = c], after) =
              [k \in 1 .. Limit(RunLength(request, s), c) |-> Nth(request, s, k)]
<1> DEFINE s == Start(request, after)
           q == [request EXCEPT !.count = c]
<1>1. request \in Requests /\ Size \in Nat
  BY SizeIsNat DEF Types
<1>2. s \in Int
  <2>1. IF request.reverse THEN From \in -1 .. Size - 1 /\ s \in -1 .. From
                           ELSE From \in 0 .. Size /\ s \in From .. Size
    BY StartIs
  <2> HIDE DEF s
  <2> QED
    BY <1>1, <2>1
<1>3. ItemsFrom(q, s) = [k \in 1 .. Limit(RunLength(request, s), c) |-> Nth(request, s, k)]
  BY <1>1, <1>2, ItemsFromIs
<1>4. /\ q.reverse = request.reverse /\ q.list = request.list
      /\ q.time_after = request.time_after /\ q.time_before = request.time_before
  BY <1>1, OtherLimit
<1>5. (q.reverse => q.list # "accounts") /\ q.list \in Lists
  BY <1>1, <1>4, RequestType
<1>6. CASE q.list = "accounts"
  <2>1. Items(q, after) = PlainItems(q, after)
    BY <1>6 DEF Items
  <2>2. PlainItems(q, after) = ItemsFrom(q, s)
    BY <1>4, <1>6, PlainItemsAreFrom
  <2> QED
    BY <1>3, <2>1, <2>2
<1>7. CASE q.list # "accounts"
  <2>1. CASE q.reverse
    <3>1. Items(q, after) = ItemsFrom(q, StartReverse(q, after))
      BY <1>7, <2>1 DEF Items
    <3>2. StartReverse(q, after) = s
      BY <1>4, <2>1 DEF Start, StartReverse
    <3> QED
      BY <1>3, <3>1, <3>2
  <2>2. CASE ~q.reverse
    <3>1. Items(q, after) = ItemsFrom(q, StartForward(q, after))
      BY <1>7, <2>2 DEF Items
    <3>2. StartForward(q, after) = s
      BY <1>4, <2>2 DEF Start, StartForward
    <3> QED
      BY <1>3, <3>1, <3>2
  <2> QED
    BY <2>1, <2>2
<1> QED
  BY <1>6, <1>7
-----------------------------------------------------------------------------
(* A limit keeps the beginning of a run, all of which is shown.            *)
LEMMA LimitIs ==
  ASSUME NEW n \in Nat, NEW c \in Int
  PROVE  /\ Limit(n, c) \in 0 .. n
         /\ Limit(n, -1) = n
BY DEF Limit, Fits

(* What is known of a page with any limit: where it starts, how long its   *)
(* run is, and that its items are the positions from there on.             *)
LEMMA PageShape ==
  ASSUME Types, Ended, NEW c \in Int
  PROVE  LET s == Start(request, after)
             n == Limit(RunLength(request, s), c)
             page == Items([request EXCEPT !.count = c], after)
         IN /\ Size \in Nat /\ s \in Int
            /\ RunLength(request, s) \in 0 .. Size
            /\ n \in 0 .. RunLength(request, s)
            /\ page \in Seq(Int) /\ Len(page) = n
            /\ \A k \in 1 .. n : page[k] = Nth(request, s, k) /\ Shown(request, page[k])
            /\ ~Shown(request, Nth(request, s, RunLength(request, s) + 1))
<1> DEFINE s == Start(request, after)
           l == RunLength(request, s)
           n == Limit(l, c)
           page == Items([request EXCEPT !.count = c], after)
<1>1. request \in Requests /\ Size \in Nat
  BY SizeIsNat DEF Types
<1>2. s \in Int
  <2>1. IF request.reverse THEN From \in -1 .. Size - 1 /\ s \in -1 .. From
                           ELSE From \in 0 .. Size /\ s \in From .. Size
    BY StartIs
  <2> HIDE DEF s
  <2> QED
    BY <1>1, <2>1
<1>3. page = [k \in 1 .. n |-> Nth(request, s, k)]
  BY PageIs
<1> HIDE DEF s, page
<1>4. l \in 0 .. Size /\ (\A k \in 1 .. l : Shown(request, Nth(request, s, k)))
        /\ ~Shown(request, Nth(request, s, l + 1))
  BY <1>1, <1>2, RunLengthIs
<1> HIDE DEF l
<1>5. n \in 0 .. l
  <2>1. l \in Nat
    BY <1>1, <1>4
  <2> QED
    BY <2>1, LimitIs
<1> HIDE DEF n
<1>6. \A k \in 1 .. n : k \in 1 .. l /\ Nth(request, s, k) \in Int
  BY <1>2, <1>4, <1>5 DEF Nth
<1>7. page \in Seq(Int) /\ Len(page) = n
  BY <1>3, <1>4, <1>5, <1>6
<1>8. \A k \in 1 .. n : page[k] = Nth(request, s, k) /\ Shown(request, page[k])
  BY <1>3, <1>4, <1>6
<1> QED
  BY <1>1, <1>2, <1>4, <1>5, <1>7, <1>8 DEF l, n, s, page

(* A request with its own limit.                                           *)
LEMMA OwnLimit ==
  ASSUME Types
  PROVE  request.count \in Int /\ [request EXCEPT !.count = request.count] = request
<1>1. request \in [list : Lists, count : Int, reverse : BOOLEAN,
                   time_after : Times \cup {None}, time_before : Times \cup {None}]
  BY RequestType DEF Types
<1> QED
  BY <1>1

(* The next page is the beginning of the rest.                             *)
LEMMA TypesShortPageIsLast ==
  ASSUME Types, Ended
  PROVE  ShortPageIsLast
<1> DEFINE s == Start(request, after)
           l == RunLength(request, s)
           c == request.count
           n == Limit(l, c)
           page == Items(request, after)
           all == Items([request EXCEPT !.count = -1], after)
<1>1. c \in Int /\ page = Items([request EXCEPT !.count = c], after)
  BY OwnLimit, Zenon
<1> HIDE DEF c
<1>2. /\ Size \in Nat /\ s \in Int /\ l \in 0 .. Size
      /\ n \in 0 .. l /\ page \in Seq(Int) /\ Len(page) = n
      /\ \A k \in 1 .. n : page[k] = Nth(request, s, k)
  BY <1>1, PageShape
<1>3. /\ all \in Seq(Int) /\ Len(all) = Limit(l, -1)
      /\ \A k \in 1 .. Limit(l, -1) : all[k] = Nth(request, s, k)
  BY PageShape
<1> HIDE DEF page, all, s, l, n
<1>4. Limit(l, -1) = l
  BY <1>2, LimitIs
<1>5. Len(page) <= Len(all) /\ Len(page) = n /\ Len(all) = l
  BY <1>2, <1>3, <1>4
<1>6. \A k \in 1 .. n : page[k] = all[k]
  BY <1>2, <1>3, <1>4
<1>7. SubSeq(page, 1, n) = SubSeq(all, 1, n)
  BY <1>2, <1>3, <1>5, <1>6
<1>8. IsPrefix(page, all)
  BY <1>5, <1>7 DEF IsPrefix
<1>9. n = IF Fits(l, c) THEN l ELSE c
  BY DEF n, Limit
<1> QED
  BY <1>5, <1>8, <1>9 DEF ShortPageIsLast, Rest, page, all, c
-----------------------------------------------------------------------------
(* The last item seen is where the last page ended.                        *)
LastSeen ==
  /\ after = None => seen = <<>>
  /\ seen # <<>> => Last(seen) = after

(* Items one after another go on in the direction of the pages.            *)
GoesOn(pages) == \A k \in 2 .. Len(pages) : Beyond(pages[k], pages[k - 1])

(* What a page goes on after.                                              *)
LEMMA NthGoesOn ==
  ASSUME Types, Ended, LastSeen
  PROVE  LET s == Start(request, after)
         IN /\ \A k \in 1 .. Size : k + 1 \in Int /\
                 Beyond(Nth(request, s, k + 1), Nth(request, s, k))
            /\ seen # <<>> => Beyond(Nth(request, s, 1), Last(seen))
<1> DEFINE s == Start(request, after)
<1>1. Size \in Nat /\ total \in 0 .. Size
  BY SizeIsNat DEF Types
<1>2. IF request.reverse THEN From \in -1 .. Size - 1 /\ s \in -1 .. From
                         ELSE From \in 0 .. Size /\ s \in From .. Size
  BY StartIs
<1> HIDE DEF s
<1>3. s \in Int /\ From \in Int
  BY <1>1, <1>2
<1>4. \A k \in 1 .. Size : k + 1 \in Int /\ Beyond(Nth(request, s, k + 1), Nth(request, s, k))
  BY <1>1, <1>3 DEF Beyond, Nth
<1>5. ASSUME seen # <<>> PROVE Beyond(Nth(request, s, 1), Last(seen))
  <2>1. after # None /\ Last(seen) = after /\ after \in Int
    BY <1>5 DEF LastSeen, Types
  <2>2. From = IF request.reverse THEN after - 1 ELSE after + 1
    BY <2>1 DEF From
  <2>3. Nth(request, s, 1) = s
    BY <1>3 DEF Nth
  <2>4. CASE request.reverse
    BY <1>2, <1>3, <2>1, <2>2, <2>3, <2>4 DEF Beyond
  <2>5. CASE ~request.reverse
    BY <1>1, <1>2, <1>3, <2>1, <2>2, <2>3, <2>5 DEF Beyond
  <2> QED
    BY <2>4, <2>5
<1> QED
  BY <1>4, <1>5 DEF s

(* The pages seen and another one go on.                                   *)
LEMMA PagesGoOn ==
  ASSUME Types, Ended, LastSeen, GoesOn(seen), NEW c \in Int
  PROVE  GoesOn(seen \o Items([request EXCEPT !.count = c], after))
<1> DEFINE s == Start(request, after)
           n == Limit(RunLength(request, s), c)
           page == Items([request EXCEPT !.count = c], after)
           pages == seen \o page
           o == Len(seen)
<1>1. /\ Size \in Nat /\ n \in 0 .. Size /\ page \in Seq(Int) /\ Len(page) = n
      /\ \A k \in 1 .. n : page[k] = Nth(request, s, k)
  BY PageShape
<1>2. /\ \A k \in 1 .. Size : Beyond(Nth(request, s, k + 1), Nth(request, s, k))
      /\ seen # <<>> => Beyond(Nth(request, s, 1), Last(seen))
  BY NthGoesOn
<1> HIDE DEF s, n, page
<1>3. seen \in Seq(Int) /\ o \in Nat /\ \A k \in 2 .. o : Beyond(seen[k], seen[k - 1])
  BY DEF Types, GoesOn
<1>4. /\ Len(pages) = o + n
      /\ \A k \in 1 .. o + n : pages[k] = IF k <= o THEN seen[k] ELSE page[k - o]
  BY <1>1, <1>3, ConcatProperties
<1> HIDE DEF pages
<1>5. ASSUME NEW k \in 2 .. o + n PROVE Beyond(pages[k], pages[k - 1])
  <2>1. k \in 1 .. o + n /\ k - 1 \in 1 .. o + n
    BY <1>1, <1>3
  <2>2. CASE k <= o
    <3>1. pages[k] = seen[k] /\ pages[k - 1] = seen[k - 1] /\ k \in 2 .. o
      BY <1>3, <1>4, <2>1, <2>2
    <3> QED
      BY <1>3, <3>1
  <2>3. CASE k = o + 1
    <3>1. ~(k <= o) /\ k - o = 1 /\ k - 1 = o /\ 1 \in 1 .. n /\ k - 1 <= o
      BY <1>1, <1>3, <2>3
    <3>2. pages[k] = page[1] /\ pages[k - 1] = seen[o] /\ page[1] = Nth(request, s, 1)
      BY <1>1, <1>4, <2>1, <3>1
    <3>3. seen # <<>> /\ seen[o] = Last(seen)
      BY <1>3, <2>3 DEF Last
    <3> QED
      BY <1>2, <3>2, <3>3
  <2>4. CASE k > o + 1
    <3> DEFINE i == k - o - 1
    <3>1. i \in 1 .. n /\ i + 1 \in 1 .. n /\ i \in 1 .. Size /\ k - o = i + 1 /\ k - 1 - o = i
            /\ ~(k <= o) /\ ~(k - 1 <= o)
      BY <1>1, <1>3, <2>4
    <3> HIDE DEF i
    <3>2. pages[k] = page[i + 1] /\ pages[k - 1] = page[i]
      BY <1>4, <2>1, <3>1
    <3>3. page[i + 1] = Nth(request, s, i + 1) /\ page[i] = Nth(request, s, i)
      BY <1>1, <3>1
    <3> QED
      BY <1>2, <3>1, <3>2, <3>3
  <2> QED
    BY <1>1, <1>3, <2>2, <2>3, <2>4
<1> QED
  BY <1>4, <1>5 DEF GoesOn, pages, page

(* When times are asked for, those of all positions are in order.          *)
LEMMA AllSorted ==
  ASSUME Types, InOrder, request.time_after # None \/ request.time_before # None
  PROVE  Sorted(0, Size)
<1>1. \A i, j \in DOMAIN times : i <= j => times[i] <= times[j]
  BY DEF InOrder
<1>2. DOMAIN times = 1 .. Size /\ Size \in Nat
  BY DEF Types, Size
<1>3. ASSUME NEW i \in 0 .. Size - 1, NEW j \in 0 .. Size - 1, i <= j
      PROVE  TimeOf(i) <= TimeOf(j)
  <2>1. i + 1 \in 1 .. Size /\ j + 1 \in 1 .. Size /\ i + 1 <= j + 1
    BY <1>2, <1>3
  <2> QED
    BY <1>1, <1>2, <2>1 DEF TimeOf
<1> QED
  BY <1>3 DEF Sorted

(* In order, what a page leaves out before it starts is not asked for, and *)
(* from there on the side of the times it starts from is kept.             *)
LEMMA StartSplits ==
  ASSUME Types, Ended, InOrder
  PROVE  LET s == Start(request, after)
         IN IF request.reverse
            THEN /\ \A j \in 0 .. s : UntilTime(j)
                 /\ request.time_before = None => s = From
            ELSE /\ \A j \in From .. s - 1 : ~FromTime(j)
                 /\ \A j \in s .. Size - 1 : FromTime(j)
<1> DEFINE s == Start(request, after)
<1>1. Size \in Nat /\ total \in 0 .. Size /\ (after # None => after \in Int)
  BY SizeIsNat DEF Types
<1>2. IF request.reverse THEN From \in -1 .. Size - 1 /\ s \in -1 .. From
                         ELSE From \in 0 .. Size /\ s \in From .. Size
  BY StartIs
<1>3. /\ times \in Seq(Times)
      /\ request.time_after # None => request.time_after \in Int
      /\ request.time_before # None => request.time_before \in Int
  <2>1. request \in Requests /\ times \in Seq(Times)
    BY DEF Types
  <2>2. request.time_after \in Times \cup {None} /\ request.time_before \in Times \cup {None}
    BY <2>1, RequestType
  <2>3. \A t \in Times : t \in Int
    BY ConstantsAssumption DEF ConstantsAssumption
  <2>4. request.time_after # None => request.time_after \in Times
    BY <2>2
  <2>5. request.time_before # None => request.time_before \in Times
    BY <2>2
  <2>6. request.time_after # None => request.time_after \in Int
    BY <2>3, <2>4
  <2>7. request.time_before # None => request.time_before \in Int
    BY <2>3, <2>5
  <2> QED
    BY <2>1, <2>6, <2>7
<1>4. CASE request.reverse
  <2>1. From = (IF after = None THEN Size ELSE after) - 1
    BY <1>4 DEF From
  <2> DEFINE t == request.time_before
             p == LowerBound(0, From, t)
  <2>2. s = IF t = None THEN From ELSE Min({From, p - 1})
    BY <1>4, <2>1 DEF Start, StartReverse
  <2>3. CASE t = None
    BY <1>4, <2>2, <2>3 DEF UntilTime
  <2>4. CASE t # None
    <3>1. From \in Int /\ From <= Size /\ 0 \in Nat /\ From \in -1 .. Size - 1
      BY <1>1, <1>2, <1>4
    <3>2. Sorted(0, Size)
      BY <2>4, AllSorted
    <3>3. Sorted(0, From)
      <4>1. \A i \in 0 .. From - 1 : i \in 0 .. Size - 1
        BY <1>1, <3>1
      <4> QED
        BY <3>2, <4>1 DEF Sorted
    <3> HIDE DEF t
    <3>4. t \in Int
      BY <1>3, <2>4 DEF t
    <3>5. Splits(p, 0, From, t) /\ p \in 0 .. (IF From > 0 THEN From ELSE 0)
      BY <1>3, <3>1, <3>3, <3>4, LowerBoundSplits
    <3> HIDE DEF p
    <3>6. p - 1 \in Int
      BY <3>1, <3>5
    <3>7. Min({From, p - 1}) = IF From <= p - 1 THEN From ELSE p - 1
      BY <3>1, <3>6, MaxMinOfTwo
    <3>8. s <= p - 1 /\ s \in Int
      <4>1. s = IF From <= p - 1 THEN From ELSE p - 1
        BY <2>2, <2>4, <3>7
      <4> HIDE DEF s
      <4> QED
        BY <3>1, <3>6, <4>1
    <3> HIDE DEF s
    <3>9. \A j \in 0 .. s : TimeOf(j) < t
      <4>1. \A j \in 0 .. s : j \in 0 .. p - 1
        BY <3>6, <3>8
      <4> QED
        BY <3>5, <4>1 DEF Splits
    <3> QED
      BY <1>4, <2>4, <3>9 DEF UntilTime, s, t
  <2> QED
    BY <2>3, <2>4
<1>5. CASE ~request.reverse
  <2>1. From = IF after = None THEN 0 ELSE after + 1
    BY <1>5 DEF From
  <2> DEFINE t == request.time_after
             p == LowerBound(From, Size, t)
  <2>2. s = IF t = None THEN From ELSE Max({From, p})
    BY <1>5, <2>1 DEF Start, StartForward
  <2>3. CASE t = None
    <3>1. s = From
      BY <2>2, <2>3
    <3>2. \A j \in From .. From - 1 : FALSE
      BY <1>2, <1>5
    <3> QED
      BY <1>5, <2>3, <3>1, <3>2 DEF FromTime
  <2>4. CASE t # None
    <3>1. From \in Nat /\ Size \in Int /\ From <= Size /\ Size <= Size
      BY <1>1, <1>2, <1>5
    <3>2. Sorted(0, Size)
      BY <2>4, AllSorted
    <3>3. Sorted(From, Size)
      <4>1. \A i \in From .. Size - 1 : i \in 0 .. Size - 1
        BY <1>1, <3>1
      <4> QED
        BY <3>2, <4>1 DEF Sorted
    <3> HIDE DEF t
    <3>4. t \in Int
      BY <1>3, <2>4 DEF t
    <3>5. Splits(p, From, Size, t) /\ p \in From .. (IF Size > From THEN Size ELSE From)
      BY <1>3, <3>1, <3>3, <3>4, LowerBoundSplits
    <3> HIDE DEF p
    <3>6. p \in Int /\ p >= From
      BY <3>1, <3>5
    <3>7. Max({From, p}) = IF From >= p THEN From ELSE p
      BY <3>1, <3>6, MaxMinOfTwo
    <3>8. s = p
      <4>1. s = IF From >= p THEN From ELSE p
        BY <2>2, <2>4, <3>7
      <4> HIDE DEF s
      <4> QED
        BY <3>1, <3>6, <4>1
    <3> HIDE DEF s
    <3>9. (\A j \in From .. s - 1 : TimeOf(j) < t) /\ (\A j \in s .. Size - 1 : TimeOf(j) >= t)
      BY <3>5, <3>8 DEF Splits
    <3>10. \A j \in From .. s - 1 : ~(TimeOf(j) >= t)
      <4> TAKE j \in From .. s - 1
      <4>1. j \in 0 .. Size - 1
        BY <1>1, <3>1, <3>5, <3>8
      <4>2. TimeOf(j) \in Nat
        BY <1>3, <4>1, TimeIsNumber
      <4> QED
        BY <3>4, <3>9, <4>2
    <3> QED
      BY <1>5, <2>4, <3>9, <3>10 DEF FromTime, s, t
  <2> QED
    BY <2>3, <2>4
<1> QED
  BY <1>4, <1>5
-----------------------------------------------------------------------------
(* The positions the pages have gone over.                                 *)
Covered ==
  IF after = None THEN {} ELSE IF request.reverse THEN after .. total - 1 ELSE 0 .. after
(* The positions ahead of them.                                            *)
Ahead == IF request.reverse THEN 0 .. From ELSE From .. Size - 1

(* Pages tile a list in order, unless they start before a time.            *)
Tiling == InOrder /\ ~(request.reverse /\ request.time_before # None)

(* The pages have given everything that was asked for where they went.     *)
Tiled == Tiling => Range(seen) = {j \in Covered : Matches(j)}

(* The inductive invariant.                                                *)
Inv == Types /\ Ended /\ LastSeen /\ NothingForeign /\ Tiled

(* The positions of the first n items of a run that starts at s.           *)
Run(s, n) == IF request.reverse THEN s - n + 1 .. s ELSE s .. s + n - 1

(* Those are the positions a page would give one by one.                   *)
LEMMA RunIsNths ==
  ASSUME NEW s \in Int, NEW n \in Nat
  PROVE  Run(s, n) = {Nth(request, s, k) : k \in 1 .. n}
<1>1. CASE request.reverse
  <2>1. \A k \in 1 .. n : Nth(request, s, k) = s - (k - 1)
    BY <1>1 DEF Nth
  <2>2. \A j \in s - n + 1 .. s : s - j + 1 \in 1 .. n /\ j = s - (s - j + 1 - 1)
    OBVIOUS
  <2>3. \A k \in 1 .. n : s - (k - 1) \in s - n + 1 .. s
    OBVIOUS
  <2>4. Run(s, n) = s - n + 1 .. s
    BY <1>1 DEF Run
  <2>5. \A j \in s - n + 1 .. s : Nth(request, s, s - j + 1) = j
    BY <1>1, <2>2 DEF Nth
  <2>6. \A j \in s - n + 1 .. s : j \in {Nth(request, s, k) : k \in 1 .. n}
    BY <2>2, <2>5
  <2>7. \A k \in 1 .. n : Nth(request, s, k) \in s - n + 1 .. s
    BY <2>1, <2>3
  <2> QED
    BY <2>4, <2>6, <2>7
<1>2. CASE ~request.reverse
  <2>1. \A k \in 1 .. n : Nth(request, s, k) = s + (k - 1)
    BY <1>2 DEF Nth
  <2>2. \A j \in s .. s + n - 1 : j - s + 1 \in 1 .. n /\ j = s + (j - s + 1 - 1)
    OBVIOUS
  <2>3. \A k \in 1 .. n : s + (k - 1) \in s .. s + n - 1
    OBVIOUS
  <2>4. Run(s, n) = s .. s + n - 1
    BY <1>2 DEF Run
  <2>5. \A j \in s .. s + n - 1 : Nth(request, s, j - s + 1) = j
    BY <1>2, <2>2 DEF Nth
  <2>6. \A j \in s .. s + n - 1 : j \in {Nth(request, s, k) : k \in 1 .. n}
    BY <2>2, <2>5
  <2>7. \A k \in 1 .. n : Nth(request, s, k) \in s .. s + n - 1
    BY <2>1, <2>3
  <2> QED
    BY <2>4, <2>6, <2>7
<1> QED
  BY <1>1, <1>2

(* A page gives exactly the first positions of its run.                    *)
LEMMA PageRange ==
  ASSUME Types, Ended, NEW c \in Int
  PROVE  LET s == Start(request, after)
         IN Range(Items([request EXCEPT !.count = c], after)) =
              Run(s, Limit(RunLength(request, s), c))
<1> DEFINE s == Start(request, after)
           n == Limit(RunLength(request, s), c)
           page == Items([request EXCEPT !.count = c], after)
<1>1. /\ Size \in Nat /\ s \in Int /\ RunLength(request, s) \in 0 .. Size
      /\ n \in 0 .. RunLength(request, s) /\ page \in Seq(Int) /\ Len(page) = n
      /\ \A k \in 1 .. n : page[k] = Nth(request, s, k)
  BY PageShape
<1> HIDE DEF s, n, page
<1>2. n \in Nat
  BY <1>1
<1>3. Range(page) = {page[k] : k \in 1 .. n}
  BY <1>1 DEF Range
<1>4. {page[k] : k \in 1 .. n} = {Nth(request, s, k) : k \in 1 .. n}
  BY <1>1
<1>5. Run(s, n) = {Nth(request, s, k) : k \in 1 .. n}
  BY <1>1, <1>2, RunIsNths
<1> QED
  BY <1>3, <1>4, <1>5 DEF page, n, s

(* In order, the run of a page is all of what is asked for ahead.          *)
LEMMA RunMatches ==
  ASSUME Types, Ended, Tiling
  PROVE  LET s == Start(request, after)
             l == RunLength(request, s)
         IN \A j \in Ahead : Matches(j) <=> j \in Run(s, l)
<1> DEFINE s == Start(request, after)
           l == RunLength(request, s)
<1>1. -1 \in Int
  OBVIOUS
<1>2. /\ Size \in Nat /\ s \in Int /\ l \in 0 .. Size /\ ~Shown(request, Nth(request, s, l + 1))
  BY <1>1, PageShape
<1>3. IF request.reverse THEN From \in -1 .. Size - 1 /\ s \in -1 .. From
                         ELSE From \in 0 .. Size /\ s \in From .. Size
  BY StartIs
<1>4. IF request.reverse
      THEN /\ \A j \in 0 .. s : UntilTime(j)
           /\ request.time_before = None => s = From
      ELSE /\ \A j \in From .. s - 1 : ~FromTime(j)
           /\ \A j \in s .. Size - 1 : FromTime(j)
  BY StartSplits DEF Tiling
<1>5. \A j \in Run(s, l) : Shown(request, j)
  <2>1. l = Limit(l, -1)
    BY <1>2, LimitIs
  <2> DEFINE n == Limit(l, -1)
             page == Items([request EXCEPT !.count = -1], after)
  <2>2. \A k \in 1 .. n : page[k] = Nth(request, s, k) /\ Shown(request, page[k])
    BY <1>1, PageShape
  <2> HIDE DEF l, s, page
  <2>3. \A k \in 1 .. l : Shown(request, Nth(request, s, k))
    BY <2>1, <2>2
  <2>4. l \in Nat
    BY <1>2
  <2>5. Run(s, l) = {Nth(request, s, k) : k \in 1 .. l}
    BY <1>2, <2>4, RunIsNths
  <2> QED
    BY <2>3, <2>5
<1> HIDE DEF l, s
<1>6. times \in Seq(Times)
  BY DEF Types
<1>7. \A i, j \in 0 .. Size - 1 :
        request.time_after # None \/ request.time_before # None =>
          TimeOf(i) \in Nat /\ TimeOf(j) \in Nat /\ (i <= j => TimeOf(i) <= TimeOf(j))
  <2>1. \A i \in 0 .. Size - 1 : TimeOf(i) \in Nat
    BY <1>6, TimeIsNumber
  <2>2. ASSUME request.time_after # None \/ request.time_before # None PROVE Sorted(0, Size)
    BY <2>2, AllSorted DEF Tiling
  <2> QED
    BY <1>2, <2>1, <2>2 DEF Sorted
<1>8. /\ request.time_after # None => request.time_after \in Int
      /\ request.time_before # None => request.time_before \in Int
  <2>1. request \in Requests
    BY DEF Types
  <2>2. request.time_after \in Times \cup {None} /\ request.time_before \in Times \cup {None}
    BY <2>1, RequestType
  <2>3. \A t \in Times : t \in Int
    BY ConstantsAssumption DEF ConstantsAssumption
  <2>4. request.time_after # None => request.time_after \in Times
    BY <2>2
  <2>5. request.time_before # None => request.time_before \in Times
    BY <2>2
  <2>6. request.time_after # None => request.time_after \in Int
    BY <2>3, <2>4
  <2>7. request.time_before # None => request.time_before \in Int
    BY <2>3, <2>5
  <2> QED
    BY <2>6, <2>7
<1>9. CASE request.reverse
  <2>1. request.time_before = None /\ s = From /\ From \in -1 .. Size - 1
    BY <1>3, <1>4, <1>9 DEF Tiling
  <2>2. \A j : UntilTime(j)
    BY <2>1 DEF UntilTime
  <2>3. Run(s, l) = s - l + 1 .. s /\ Nth(request, s, l + 1) = s - l
    BY <1>2, <1>9 DEF Run, Nth
  <2>4. \A j \in s - l + 1 .. s : FromTime(j)
    BY <1>5, <1>9, <2>3 DEF Shown, Passes, FromTime
  <2>5. ASSUME NEW j \in 0 .. s - l PROVE ~FromTime(j)
    <3>1. s - l \in 0 .. Size - 1 /\ j \in 0 .. Size - 1 /\ j <= s - l
      BY <1>2, <2>1, <2>5
    <3>2. ~Passes(request, s - l)
      BY <1>2, <2>3, <3>1 DEF Shown
    <3>3. request.time_after # None /\ ~(TimeOf(s - l) >= request.time_after)
      BY <1>9, <3>2 DEF Passes
    <3>4. TimeOf(j) <= TimeOf(s - l) /\ TimeOf(j) \in Nat /\ TimeOf(s - l) \in Nat
      BY <1>7, <3>1, <3>3
    <3>5. ~(TimeOf(j) >= request.time_after)
      BY <1>8, <3>3, <3>4
    <3> QED
      BY <3>3, <3>5 DEF FromTime
  <2>6. Ahead = 0 .. s
    BY <1>9, <2>1 DEF Ahead
  <2>7. ASSUME NEW j \in 0 .. s PROVE Matches(j) <=> j \in s - l + 1 .. s
    <3>1. j \in s - l + 1 .. s \/ (j \in 0 .. s - l /\ ~(j \in s - l + 1 .. s))
      BY <1>2
    <3> QED
      BY <2>2, <2>4, <2>5, <3>1 DEF Matches
  <2> QED
    BY <2>3, <2>6, <2>7 DEF l, s
<1>10. CASE ~request.reverse
  <2>1. From \in 0 .. Size /\ s \in From .. Size
    BY <1>3, <1>10
  <2>2. (\A j \in From .. s - 1 : ~FromTime(j)) /\ (\A j \in s .. Size - 1 : FromTime(j))
    BY <1>4, <1>10
  <2>3. Run(s, l) = s .. s + l - 1 /\ Nth(request, s, l + 1) = s + l
    BY <1>2, <1>10 DEF Run, Nth
  <2>4. \A j \in s .. s + l - 1 : UntilTime(j) /\ j \in 0 .. Size - 1
    BY <1>5, <1>10, <2>3 DEF Shown, Passes, UntilTime
  <2>5. ASSUME NEW j \in s + l .. Size - 1 PROVE ~UntilTime(j)
    <3>1. s + l \in 0 .. Size - 1 /\ j \in 0 .. Size - 1 /\ s + l <= j
      BY <1>2, <2>1, <2>5
    <3>2. ~Passes(request, s + l)
      BY <1>2, <2>3, <3>1 DEF Shown
    <3>3. request.time_before # None /\ ~(TimeOf(s + l) < request.time_before)
      BY <1>10, <3>2 DEF Passes
    <3>4. TimeOf(s + l) <= TimeOf(j) /\ TimeOf(j) \in Nat /\ TimeOf(s + l) \in Nat
      BY <1>7, <3>1, <3>3
    <3>5. ~(TimeOf(j) < request.time_before)
      BY <1>8, <3>3, <3>4
    <3> QED
      BY <3>3, <3>5 DEF UntilTime
  <2>6. Ahead = From .. Size - 1
    BY <1>10 DEF Ahead
  <2>7. ASSUME NEW j \in From .. Size - 1 PROVE Matches(j) <=> j \in s .. s + l - 1
    <3>1. \/ j \in From .. s - 1 /\ ~(j \in s .. s + l - 1)
          \/ j \in s .. s + l - 1 /\ j \in s .. Size - 1
          \/ j \in s + l .. Size - 1 /\ ~(j \in s .. s + l - 1)
      BY <1>2, <2>1
    <3> QED
      BY <2>2, <2>4, <2>5, <3>1 DEF Matches
  <2> QED
    BY <2>3, <2>6, <2>7 DEF l, s
<1> QED
  BY <1>9, <1>10

(* What the pages have gone over and what is ahead are the list.           *)
LEMMA CoveredAndAhead ==
  ASSUME Types, Ended
  PROVE  Covered \cup Ahead = 0 .. (IF request.reverse /\ after # None THEN total ELSE Size) - 1
<1>1. Size \in Nat /\ total \in 0 .. Size
  BY SizeIsNat DEF Types
<1>2. CASE after = None
  BY <1>1, <1>2 DEF Covered, Ahead, From
<1>3. CASE after # None
  <2>1. after \in Int
    BY <1>3 DEF Types
  <2>2. CASE request.reverse
    <3>1. after \in 0 .. total
      BY <1>3, <2>2 DEF Ended
    <3>2. Covered = after .. total - 1 /\ Ahead = 0 .. after - 1
      BY <1>3, <2>2 DEF Covered, Ahead, From
    <3>3. (after .. total - 1) \cup (0 .. after - 1) = 0 .. total - 1
      BY <1>1, <3>1
    <3> QED
      BY <1>3, <2>2, <3>2, <3>3
  <2>3. CASE ~request.reverse
    <3>1. after \in -1 .. Size - 1
      BY <1>3, <2>3 DEF Ended
    <3>2. Covered = 0 .. after /\ Ahead = after + 1 .. Size - 1
      BY <1>3, <2>3 DEF Covered, Ahead, From
    <3>3. (0 .. after) \cup (after + 1 .. Size - 1) = 0 .. Size - 1
      BY <1>1, <3>1
    <3> QED
      BY <2>3, <3>2, <3>3
  <2> QED
    BY <2>2, <2>3
<1> QED
  BY <1>2, <1>3

(* The pages tile the list.                                                *)
LEMMA InvPagesTile ==
  ASSUME Inv
  PROVE  PagesTile
<1> SUFFICES ASSUME Tiling PROVE EveryPageTiles
  BY DEF PagesTile, Tiling
<1> DEFINE s == Start(request, after)
           l == RunLength(request, s)
           pages == seen \o Rest
           n == IF request.reverse /\ after # None THEN total ELSE Size
<1>1. Types /\ Ended /\ LastSeen /\ NothingForeign /\ Range(seen) = {j \in Covered : Matches(j)}
  BY DEF Inv, Tiled
<1>2. -1 \in Int /\ Rest = Items([request EXCEPT !.count = -1], after)
  BY DEF Rest
<1>3. Size \in Nat /\ s \in Int /\ l \in 0 .. Size /\ Rest \in Seq(Int)
  BY <1>1, <1>2, PageShape
<1> HIDE DEF s, l
<1>4. Range(Rest) = Run(s, l)
  <2>1. Range(Rest) = Run(s, Limit(l, -1))
    BY <1>1, <1>2, PageRange DEF l, s
  <2>2. l \in Nat
    BY <1>3
  <2> QED
    BY <2>1, <2>2, LimitIs
<1>5. \A j \in Ahead : Matches(j) <=> j \in Run(s, l)
  BY <1>1, RunMatches DEF l, s
<1>6. Run(s, l) \subseteq Ahead
  <2>1. IF request.reverse THEN From \in -1 .. Size - 1 /\ s \in -1 .. From
                           ELSE From \in 0 .. Size /\ s \in From .. Size
    BY <1>1, StartIs DEF s
  <2>2. \A k \in 1 .. l : Shown(request, Nth(request, s, k))
    <3>1. request \in Requests
      BY <1>1 DEF Types
    <3> QED
      BY <1>3, <3>1, RunLengthIs DEF l
  <2>3. l \in Nat
    BY <1>3
  <2>4. Run(s, l) = {Nth(request, s, k) : k \in 1 .. l}
    BY <1>3, <2>3, RunIsNths
  <2>5. \A j \in Run(s, l) : j \in 0 .. Size - 1
    BY <2>2, <2>4 DEF Shown
  <2>6. CASE request.reverse
    <3>1. Run(s, l) = s - l + 1 .. s /\ Ahead = 0 .. From
      BY <2>6 DEF Run, Ahead
    <3> QED
      BY <1>3, <2>1, <2>5, <2>6, <3>1
  <2>7. CASE ~request.reverse
    <3>1. Run(s, l) = s .. s + l - 1 /\ Ahead = From .. Size - 1
      BY <2>7 DEF Run, Ahead
    <3>2. From \in Int /\ s \in Int /\ From <= s
      BY <1>3, <2>1, <2>7
    <3>3. \A j \in s .. s + l - 1 : j \in Int /\ From <= j /\ j <= Size - 1
      <4> TAKE j \in s .. s + l - 1
      <4>1. j \in 0 .. Size - 1
        BY <2>5, <3>1
      <4>2. j \in Int /\ s <= j
        BY <1>3
      <4> QED
        BY <1>3, <3>2, <4>1, <4>2
    <3>4. \A j \in s .. s + l - 1 : j \in From .. Size - 1
      BY <1>3, <3>2, <3>3
    <3> QED
      BY <3>1, <3>4
  <2> QED
    BY <2>6, <2>7
<1>7. Covered \cup Ahead = 0 .. n - 1
  BY <1>1, CoveredAndAhead
<1>8. Range(pages) = Range(seen) \cup Range(Rest)
  <2>1. seen \in Seq(Int)
    BY <1>1 DEF Types
  <2> QED
    BY <1>3, <2>1, RangeConcatenation
<1> HIDE DEF pages, n
<1>9. Range(pages) = {j \in 0 .. n - 1 : Matches(j)}
  BY <1>1, <1>4, <1>5, <1>6, <1>7, <1>8
<1>10. GoesOn(pages)
  <2>1. GoesOn(seen)
    BY <1>1 DEF NothingForeign, GoesOn
  <2> QED
    BY <1>1, <1>2, <2>1, PagesGoOn DEF pages
<1> QED
  BY <1>9, <1>10 DEF EveryPageTiles, GoesOn, pages, n
-----------------------------------------------------------------------------
(* Before the first page nothing is gone over.                             *)
LEMMA InitInv ==
  ASSUME Init
  PROVE  Inv
<1>1. Size = 0
  BY DEF Init, Size
<1>2. Types
  BY <1>1 DEF Init, Types
<1>3. Ended /\ LastSeen
  BY DEF Init, Ended, LastSeen
<1>4. NothingForeign
  BY DEF Init, NothingForeign
<1>5. Range(seen) = {} /\ Covered = {}
  BY DEF Init, Range, Covered
<1>6. Tiled
  BY <1>5 DEF Tiled
<1> QED
  BY <1>2, <1>3, <1>4, <1>6 DEF Inv

(* Adding an item changes nothing of what is said of the items before it.  *)
LEMMA GrowInv ==
  ASSUME Inv, Grow
  PROVE  Inv'
<1>1. Types /\ Ended /\ LastSeen /\ NothingForeign /\ Tiled
  BY DEF Inv
<1>2. PICK t \in Times : times' = Append(times, t)
  BY DEF Grow
<1>3. request' = request /\ after' = after /\ seen' = seen /\ total' = total
  BY DEF Grow
<1>4. times \in Seq(Times)
  BY <1>1 DEF Types
<1>5. /\ times' \in Seq(Times) /\ Size \in Nat /\ Size' = Size + 1
      /\ \A i \in 1 .. Size : times'[i] = times[i]
      /\ DOMAIN times = 1 .. Size /\ DOMAIN times' = 1 .. Size + 1
  BY <1>2, <1>4 DEF Size
<1>6. Types'
  BY <1>1, <1>3, <1>5 DEF Types
<1>7. Ended'
  <2>1. total \in 0 .. Size /\ (after # None => after \in Int)
    BY <1>1 DEF Types
  <2>2. ASSUME after # None
        PROVE  IF request.reverse THEN after \in 0 .. total ELSE after \in -1 .. Size
    BY <1>1, <1>5, <2>2 DEF Ended
  <2>3. Size' - 1 = Size
    BY <1>5
  <2> QED
    BY <1>3, <2>2, <2>3 DEF Ended
<1>8. LastSeen'
  BY <1>1, <1>3 DEF LastSeen
<1>9. \A j \in 0 .. Size - 1 : (TimeOf(j))' = TimeOf(j)
  <2>1. \A j \in 0 .. Size - 1 : j + 1 \in 1 .. Size
    BY <1>5
  <2> QED
    BY <1>5, <2>1 DEF TimeOf
<1>10. \A j \in 0 .. Size - 1 :
         /\ (FromTime(j))' <=> FromTime(j)
         /\ (UntilTime(j))' <=> UntilTime(j)
         /\ (Matches(j))' <=> Matches(j)
  BY <1>3, <1>9 DEF FromTime, UntilTime, Matches
<1>11. InOrder' => InOrder
  <2>1. \A i \in 1 .. Size : i \in 1 .. Size + 1
    BY <1>5
  <2> QED
    BY <1>3, <1>5, <2>1 DEF InOrder
<1>12. \A j \in 0 .. Size - 1 : j \in 0 .. Size' - 1
  BY <1>5
<1>13. NothingForeign'
  <2>1. ASSUME NEW k \in DOMAIN seen
        PROVE  /\ seen[k] \in 0 .. Size' - 1
               /\ IF request.reverse THEN (FromTime(seen[k]))' ELSE (UntilTime(seen[k]))'
               /\ InOrder' => (Matches(seen[k]))'
    <3>1. /\ seen[k] \in 0 .. Size - 1
          /\ IF request.reverse THEN FromTime(seen[k]) ELSE UntilTime(seen[k])
          /\ InOrder => Matches(seen[k])
      BY <1>1 DEF NothingForeign
    <3>2. /\ (FromTime(seen[k]))' <=> FromTime(seen[k])
          /\ (UntilTime(seen[k]))' <=> UntilTime(seen[k])
          /\ (Matches(seen[k]))' <=> Matches(seen[k])
      BY <1>3, <1>10, <3>1 DEF FromTime, UntilTime, Matches, TimeOf
    <3> QED
      BY <1>11, <1>12, <3>1, <3>2
  <2>2. \A k \in 2 .. Len(seen) : Beyond(seen[k], seen[k - 1])
    BY <1>1 DEF NothingForeign
  <2> QED
    BY <1>3, <2>1, <2>2 DEF NothingForeign, Beyond, FromTime, UntilTime, Matches, TimeOf
<1>14. Tiled'
  <2> SUFFICES ASSUME Tiling' PROVE (Range(seen) = {j \in Covered : Matches(j)})'
    BY DEF Tiled
  <2>1. Tiling
    BY <1>3, <1>11 DEF Tiling
  <2>2. Covered' = Covered
    BY <1>3 DEF Covered
  <2>3. Covered \subseteq 0 .. Size - 1
    <3>1. total \in 0 .. Size /\ (after # None => after \in Int)
      BY <1>1 DEF Types
    <3>2. CASE after = None
      BY <3>2 DEF Covered
    <3>3. CASE after # None /\ request.reverse
      <4>1. after \in 0 .. total /\ Covered = after .. total - 1
        BY <1>1, <3>3 DEF Ended, Covered
      <4> QED
        BY <1>5, <3>1, <4>1
    <3>4. CASE after # None /\ ~request.reverse
      <4>1. after \in -1 .. Size - 1 /\ Covered = 0 .. after
        BY <1>1, <3>4 DEF Ended, Covered
      <4> QED
        BY <1>5, <4>1
    <3> QED
      BY <3>2, <3>3, <3>4
  <2>4. Range(seen) = {j \in Covered : Matches(j)}
    BY <1>1, <2>1 DEF Tiled
  <2>5. {j \in Covered : Matches(j)} = {j \in Covered : (Matches(j))'}
    BY <1>10, <2>3
  <2> QED
    BY <1>3, <2>2, <2>4, <2>5
<1> QED
  BY <1>6, <1>7, <1>8, <1>13, <1>14 DEF Inv

(* A page goes on from where the last one ended, and gives all that is     *)
(* asked for up to where it ends.                                          *)
LEMMA NextPageInv ==
  ASSUME Inv, NextPage
  PROVE  Inv'
<1> DEFINE page == Items(request, after)
           s == Start(request, after)
           l == RunLength(request, s)
           n == Limit(l, request.count)
<1>1. Types /\ Ended /\ LastSeen /\ NothingForeign /\ Tiled
  BY DEF Inv
<1>2. /\ after' = NextAfter(request, after, page)
      /\ seen' = seen \o page
      /\ total' = IF after = None THEN Size ELSE total
      /\ times' = times /\ request' = request
  BY DEF NextPage
<1>3. request.count \in Int /\ page = Items([request EXCEPT !.count = request.count], after)
  BY <1>1, OwnLimit, Zenon
<1>4. /\ Size \in Nat /\ s \in Int /\ l \in 0 .. Size
      /\ n \in 0 .. l
      /\ page \in Seq(Int) /\ Len(page) = n
      /\ \A k \in 1 .. n : page[k] = Nth(request, s, k) /\ Shown(request, page[k])
  BY <1>1, <1>3, PageShape
<1>5. IF request.reverse THEN From \in -1 .. Size - 1 /\ s \in -1 .. From
                         ELSE From \in 0 .. Size /\ s \in From .. Size
  BY <1>1, StartIs
<1>6. Range(page) = Run(s, n)
  BY <1>1, <1>3, PageRange
<1>7. GoesOn(seen \o page)
  <2>1. GoesOn(seen)
    BY <1>1 DEF NothingForeign, GoesOn
  <2> QED
    BY <1>1, <1>3, <2>1, PagesGoOn
<1>8. Tiling => \A j \in Ahead : Matches(j) <=> j \in Run(s, l)
  BY <1>1, RunMatches
<1>9. InOrder => IF request.reverse THEN \A j \in 0 .. s : UntilTime(j)
                                    ELSE \A j \in s .. Size - 1 : FromTime(j)
  BY <1>1, StartSplits
<1> HIDE DEF page, s, l, n
<1>10. total \in 0 .. Size /\ after \in Int \cup {None} /\ seen \in Seq(Int) /\ None \notin Int
  BY <1>1, ConstantsAssumption DEF Types, ConstantsAssumption
<1>11. Size' = Size
  BY <1>2 DEF Size
<1>12. total' \in 0 .. Size
  BY <1>2, <1>4, <1>10
<1>13. seen' \in Seq(Int) /\ Len(seen') = Len(seen) + n
         /\ \A k \in 1 .. Len(seen) + n :
              seen'[k] = IF k <= Len(seen) THEN seen[k] ELSE page[k - Len(seen)]
  BY <1>2, <1>4, <1>10, ConcatProperties
<1>14. n \in Nat /\ Len(seen) \in Nat
  BY <1>4, <1>10
<1>15. CASE n = 0
  <2>1. page = <<>>
    BY <1>4, <1>15
  <2>2. seen' = seen
    BY <1>2, <1>10, <2>1
  <2>3. after' = IF after # None THEN after ELSE IF request.reverse THEN Size ELSE -1
    BY <1>2, <2>1 DEF NextAfter
  <2>4. after' \in Int /\ after' # None
    BY <1>4, <1>10, <2>3
  <2>5. Types'
    BY <1>1, <1>2, <1>10, <1>11, <1>12, <2>2, <2>4 DEF Types
  <2>6. Ended'
    <3>1. CASE after # None
      <4>1. after' = after /\ total' = total
        BY <1>2, <2>3, <3>1
      <4> QED
        BY <1>1, <1>2, <1>11, <4>1 DEF Ended
    <3>2. CASE after = None
      <4>1. after' = (IF request.reverse THEN Size ELSE -1) /\ total' = Size
        BY <1>2, <2>3, <3>2
      <4>2. Size \in 0 .. Size /\ -1 \in -1 .. Size - 1
        BY <1>4
      <4>3. CASE request.reverse
        BY <1>2, <1>11, <4>1, <4>2, <4>3 DEF Ended
      <4>4. CASE ~request.reverse
        BY <1>2, <1>11, <4>1, <4>2, <4>4 DEF Ended
      <4> QED
        BY <4>3, <4>4
    <3> QED
      BY <3>1, <3>2
  <2>7. LastSeen'
    <3>1. seen # <<>> => after # None /\ Last(seen) = after
      BY <1>1 DEF LastSeen
    <3> QED
      BY <2>2, <2>3, <2>4, <3>1 DEF LastSeen
  <2>8. Covered' = Covered
    <3>1. CASE after # None
      <4>1. after' = after /\ total' = total
        BY <1>2, <2>3, <3>1
      <4> QED
        BY <1>2, <4>1 DEF Covered
    <3>2. CASE after = None
      <4>1. after' = (IF request.reverse THEN Size ELSE -1) /\ total' = Size
        BY <1>2, <2>3, <3>2
      <4>2. Covered' = {}
        BY <1>2, <1>4, <2>4, <4>1 DEF Covered
      <4> QED
        BY <3>2, <4>2 DEF Covered
    <3> QED
      BY <3>1, <3>2
  <2>9. Tiled'
    BY <1>1, <1>2, <2>2, <2>8 DEF Tiled, Tiling, InOrder, Matches, FromTime, UntilTime, TimeOf
  <2>10. NothingForeign'
    BY <1>1, <1>2, <1>11, <2>2
    DEF NothingForeign, InOrder, Matches, FromTime, UntilTime, TimeOf, Beyond
  <2> QED
    BY <2>5, <2>6, <2>7, <2>9, <2>10 DEF Inv
<1>16. CASE n # 0
  <2>1. n \in 1 .. n /\ n - 1 \in Nat
    BY <1>14, <1>16
  <2>2. page # <<>> /\ Last(page) = page[n]
    BY <1>4, <1>16 DEF Last
  <2>3. after' = Nth(request, s, n) /\ after' \in 0 .. Size - 1
    <3>1. after' = Last(page)
      BY <1>2, <2>2 DEF NextAfter
    <3>2. page[n] = Nth(request, s, n) /\ page[n] \in 0 .. Size - 1
      BY <1>4, <2>1 DEF Shown
    <3> QED
      BY <2>2, <3>1, <3>2
  <2>4. after' \in Int /\ after' # None
    BY <1>4, <1>10, <2>3
  <2>5. IF request.reverse THEN after' = s - n + 1 ELSE after' = s + n - 1
    BY <1>4, <1>14, <2>3 DEF Nth
  <2>6. Types'
    BY <1>1, <1>2, <1>10, <1>11, <1>12, <1>13, <2>4 DEF Types
  <2>7. Ended'
    <3>1. CASE request.reverse
      <4>1. From = (IF after = None THEN Size ELSE after) - 1
        BY <3>1 DEF From
      <4>2. after # None => after \in 0 .. total
        BY <1>1, <3>1 DEF Ended
      <4>3. From <= total' - 1 /\ From \in Int /\ total' \in Int
        BY <1>2, <1>4, <1>5, <1>10, <1>12, <3>1, <4>1, <4>2
      <4>4. s <= From
        BY <1>4, <1>5, <3>1
      <4>5. after' <= s /\ 0 <= after'
        BY <1>4, <1>14, <2>1, <2>3, <2>5, <3>1
      <4>6. ASSUME NEW a \in Int, NEW f \in Int, NEW m \in Int,
                   a <= s, 0 <= a, s <= f, f <= m - 1
            PROVE  a \in 0 .. m
        BY <1>4, <4>6
      <4>7. after' \in 0 .. total'
        BY <2>4, <4>3, <4>4, <4>5, <4>6
      <4> QED
        BY <1>2, <3>1, <4>7 DEF Ended
    <3>2. CASE ~request.reverse
      <4>1. after' \in -1 .. Size - 1
        BY <1>4, <2>3
      <4> QED
        BY <1>2, <1>11, <3>2, <4>1 DEF Ended
    <3> QED
      BY <3>1, <3>2
  <2>8. LastSeen'
    <3> DEFINE m == Len(seen) + n
    <3>1. m \in 1 .. Len(seen) + n /\ ~(m <= Len(seen)) /\ m - Len(seen) = n
      BY <1>14, <1>16
    <3>2. Len(seen') = m
      BY <1>13
    <3> HIDE DEF m
    <3>3. seen'[m] = page[m - Len(seen)]
      <4>1. seen'[m] = IF m <= Len(seen) THEN seen[m] ELSE page[m - Len(seen)]
        BY <1>13, <3>1
      <4> QED
        BY <3>1, <4>1, Zenon
    <3>4. seen'[Len(seen')] = page[n]
      BY <3>1, <3>2, <3>3, Zenon
    <3>5. (Last(seen))' = after'
      BY <1>4, <2>1, <2>3, <3>4 DEF Last
    <3> QED
      BY <2>4, <3>5 DEF LastSeen
  <2>9. NothingForeign'
    <3>1. ASSUME NEW k \in DOMAIN seen'
          PROVE  /\ seen'[k] \in 0 .. Size - 1
                 /\ IF request.reverse THEN FromTime(seen'[k]) ELSE UntilTime(seen'[k])
                 /\ InOrder => Matches(seen'[k])
      <4>1. k \in 1 .. Len(seen) + n
        BY <1>13, <3>1
      <4>2. CASE k <= Len(seen)
        <5>1. seen'[k] = seen[k] /\ k \in DOMAIN seen
          BY <1>10, <1>13, <1>14, <4>1, <4>2
        <5> QED
          BY <1>1, <5>1 DEF NothingForeign
      <4>3. CASE ~(k <= Len(seen))
        <5> DEFINE i == k - Len(seen)
        <5>1. i \in 1 .. n /\ seen'[k] = page[i]
          BY <1>13, <1>14, <4>1, <4>3
        <5> HIDE DEF i
        <5>2. page[i] = Nth(request, s, i) /\ Shown(request, page[i])
          BY <1>4, <5>1
        <5>3. page[i] \in 0 .. Size - 1
          BY <5>2 DEF Shown
        <5>4. CASE request.reverse
          <6>1. FromTime(page[i])
            BY <5>2, <5>4 DEF Shown, Passes, FromTime
          <6>2. page[i] \in 0 .. s
            BY <1>4, <1>14, <5>1, <5>2, <5>3, <5>4 DEF Nth
          <6> QED
            BY <1>9, <5>1, <5>3, <5>4, <6>1, <6>2 DEF Matches
        <5>5. CASE ~request.reverse
          <6>1. UntilTime(page[i])
            BY <5>2, <5>5 DEF Shown, Passes, UntilTime
          <6>2. page[i] \in s .. Size - 1
            BY <1>4, <1>14, <5>1, <5>2, <5>3, <5>5 DEF Nth
          <6> QED
            BY <1>9, <5>1, <5>3, <5>5, <6>1, <6>2 DEF Matches
        <5> QED
          BY <5>4, <5>5
      <4> QED
        BY <4>2, <4>3
    <3>2. \A k \in 2 .. Len(seen') : Beyond(seen'[k], seen'[k - 1])
      BY <1>2, <1>7 DEF GoesOn
    <3> QED
      BY <1>2, <1>11, <3>1, <3>2
      DEF NothingForeign, InOrder, Matches, FromTime, UntilTime, TimeOf, Beyond
  <2>10. Tiling => Range(seen') = {j \in Covered' : Matches(j)}
    <3> SUFFICES ASSUME Tiling PROVE Range(seen') = {j \in Covered' : Matches(j)}
      OBVIOUS
    <3>1. Range(seen') = Range(seen) \cup Run(s, n)
      BY <1>2, <1>4, <1>6, <1>10, RangeConcatenation
    <3>2. Range(seen) = {j \in Covered : Matches(j)}
      BY <1>1 DEF Tiled
    <3> DEFINE Between == IF request.reverse THEN after' .. From ELSE From .. after'
    <3>3. Covered' = Covered \cup Between
      <4>1. CASE request.reverse
        <5>1. From = (IF after = None THEN Size ELSE after) - 1
          BY <4>1 DEF From
        <5>2. after # None => after \in 0 .. total
          BY <1>1, <4>1 DEF Ended
        <5>3. after' <= From /\ From \in Int
          BY <1>4, <1>5, <1>14, <2>1, <2>4, <2>5, <4>1
        <5>4. Covered' = after' .. total' - 1
          BY <1>2, <2>4, <4>1 DEF Covered
        <5>5. CASE after = None
          <6>1. Covered = {} /\ total' - 1 = From
            BY <1>2, <5>1, <5>5 DEF Covered
          <6> QED
            BY <4>1, <5>4, <6>1
        <5>6. CASE after # None
          <6>1. Covered = after .. total - 1 /\ total' = total /\ From = after - 1
                  /\ after \in Int /\ total \in Int /\ after <= total
            BY <1>2, <1>4, <1>10, <4>1, <5>1, <5>2, <5>6 DEF Covered
          <6>2. after' .. total - 1 = (after .. total - 1) \cup (after' .. after - 1)
            BY <2>4, <5>3, <6>1
          <6> QED
            BY <4>1, <5>4, <6>1, <6>2
        <5> QED
          BY <5>5, <5>6
      <4>2. CASE ~request.reverse
        <5>1. From = IF after = None THEN 0 ELSE after + 1
          BY <4>2 DEF From
        <5>2. From \in Nat /\ From <= after'
          BY <1>4, <1>5, <1>14, <2>1, <2>4, <2>5, <4>2
        <5>3. Covered' = 0 .. after'
          BY <1>2, <2>4, <4>2 DEF Covered
        <5>4. Covered = 0 .. From - 1
          <6>1. CASE after = None
            BY <5>1, <6>1 DEF Covered
          <6>2. CASE after # None
            BY <1>10, <4>2, <5>1, <6>2 DEF Covered
          <6> QED
            BY <6>1, <6>2
        <5>5. 0 .. after' = (0 .. From - 1) \cup (From .. after')
          BY <2>4, <5>2
        <5> QED
          BY <4>2, <5>3, <5>4, <5>5
      <4> QED
        BY <4>1, <4>2
    <3>4. ASSUME NEW j \in Between PROVE Matches(j) <=> j \in Run(s, n)
      <4>1. CASE request.reverse
        <5>1. j \in after' .. From /\ after' = s - n + 1 /\ after' \in 0 .. Size - 1
          BY <2>3, <2>5, <4>1
        <5>2. Ahead = 0 .. From /\ Run(s, l) = s - l + 1 .. s /\ Run(s, n) = s - n + 1 .. s
          BY <4>1 DEF Ahead, Run
        <5>3. j \in Ahead
          BY <1>4, <1>5, <4>1, <5>1, <5>2
        <5>4. j \in s - l + 1 .. s <=> j \in s - n + 1 .. s
          BY <1>4, <1>5, <1>14, <4>1, <5>1
        <5> QED
          BY <1>8, <5>2, <5>3, <5>4
      <4>2. CASE ~request.reverse
        <5>1. j \in From .. after' /\ after' = s + n - 1 /\ after' \in 0 .. Size - 1
          BY <2>3, <2>5, <4>2
        <5>2. Ahead = From .. Size - 1 /\ Run(s, l) = s .. s + l - 1 /\ Run(s, n) = s .. s + n - 1
          BY <4>2 DEF Ahead, Run
        <5>3. j \in Ahead
          BY <1>4, <1>5, <4>2, <5>1, <5>2
        <5>4. j \in s .. s + l - 1 <=> j \in s .. s + n - 1
          BY <1>4, <1>5, <1>14, <4>2, <5>1
        <5> QED
          BY <1>8, <5>2, <5>3, <5>4
      <4> QED
        BY <4>1, <4>2
    <3>5. Run(s, n) \subseteq Between
      <4>1. CASE request.reverse
        BY <1>4, <1>5, <1>14, <2>5, <4>1 DEF Run
      <4>2. CASE ~request.reverse
        BY <1>4, <1>5, <1>14, <2>5, <4>2 DEF Run
      <4> QED
        BY <4>1, <4>2
    <3> HIDE DEF Between
    <3> QED
      BY <3>1, <3>2, <3>3, <3>4, <3>5
  <2>11. Tiled'
    <3>1. Tiling' => Tiling
      BY <1>2 DEF Tiling, InOrder
    <3>2. \A j : (Matches(j))' <=> Matches(j)
      BY <1>2 DEF Matches, FromTime, UntilTime, TimeOf
    <3> QED
      BY <2>10, <3>1, <3>2 DEF Tiled
  <2> QED
    BY <2>6, <2>7, <2>8, <2>9, <2>11 DEF Inv
<1> QED
  BY <1>15, <1>16

(* A step that changes nothing.                                            *)
LEMMA StutterInv ==
  ASSUME Inv, UNCHANGED vars
  PROVE  Inv'
<1>1. times' = times /\ request' = request /\ after' = after /\ seen' = seen /\ total' = total
  BY DEF vars
<1>2. Size' = Size
  BY <1>1 DEF Size
<1>3. Types' /\ Ended' /\ LastSeen'
  BY <1>1, <1>2 DEF Inv, Types, Ended, LastSeen
<1>4. NothingForeign'
  BY <1>1, <1>2
  DEF Inv, NothingForeign, InOrder, Matches, FromTime, UntilTime, TimeOf, Beyond
<1>5. Tiled'
  BY <1>1 DEF Inv, Tiled, Tiling, Covered, InOrder, Matches, FromTime, UntilTime, TimeOf
<1> QED
  BY <1>3, <1>4, <1>5 DEF Inv
-----------------------------------------------------------------------------
(* Where the bucket starts that is b before the last.                      *)
Low(now, step, b) == TruncNow(now, step) - b * step

(* Buckets are next to each other, each before the last one that was       *)
(* gone through.                                                           *)
LEMMA LowIs ==
  ASSUME NEW now \in Nat, NEW step \in Nat, step > 0
  PROVE  /\ \A b \in Nat : Low(now, step, b) \in Int
         /\ \A b \in Nat : Low(now, step, b) = Low(now, step, b + 1) + step
         /\ \A a, b \in Nat : a <= b => Low(now, step, b) <= Low(now, step, a)
<1> DEFINE t == TruncNow(now, step)
<1>1. t \in Int
  BY DEF TruncNow
<1> HIDE DEF t
<1>2. ASSUME NEW b \in Nat PROVE b * step \in Int /\ (b + 1) * step = b * step + step
  OBVIOUS
<1>3. ASSUME NEW a \in Nat, NEW b \in Nat, a <= b PROVE a * step <= b * step
  <2>1. PICK d \in Nat : b = a + d
    <3>1. b - a \in Nat /\ b = a + (b - a)
      BY <1>3
    <3> QED
      BY <3>1
  <2>2. d * step \in Nat /\ a * step \in Int
    OBVIOUS
  <2>3. b * step = a * step + d * step
    BY <2>1
  <2> QED
    BY <2>2, <2>3
<1>4. \A b \in Nat : Low(now, step, b) = t - b * step
  BY DEF Low, t
<1>5. ASSUME NEW b \in Nat
      PROVE  Low(now, step, b) \in Int /\ Low(now, step, b) = Low(now, step, b + 1) + step
  <2>1. b + 1 \in Nat
    OBVIOUS
  <2>2. Low(now, step, b) = t - b * step /\ Low(now, step, b + 1) = t - (b * step + step)
    BY <1>2, <1>4, <2>1
  <2> QED
    BY <1>1, <1>2, <2>2
<1>6. ASSUME NEW a \in Nat, NEW b \in Nat, a <= b
      PROVE  Low(now, step, b) <= Low(now, step, a)
  <2>1. a * step <= b * step /\ a * step \in Int /\ b * step \in Int
    BY <1>2, <1>3, <1>6
  <2>2. Low(now, step, a) = t - a * step /\ Low(now, step, b) = t - b * step
    BY <1>4
  <2> HIDE DEF Low
  <2>3. ASSUME NEW x \in Int, NEW y \in Int, x <= y PROVE t - y <= t - x
    BY <1>1, <2>3
  <2> QED
    BY <2>1, <2>2, <2>3
<1> QED
  BY <1>5, <1>6

(* The items among the first n whose time is in bucket k.                  *)
InBucket(now, step, steps, n, k) ==
  {i \in 1 .. n : /\ times[i] >= Low(now, step, steps - k)
                  /\ k < steps => times[i] < Low(now, step, steps - k) + step}

(* Whether a call of the loops of CountPerTime counts its time.            *)
Counts(now, step, at) == times[Size - at[1]] >= Low(now, step, at[2])
(* Where a call goes on.                                                   *)
Further(now, step, at) ==
  IF Counts(now, step, at) THEN <<at[1] + 1, at[2]>> ELSE <<at[1], at[2] + 1>>
(* What it makes of the counts it gets.                                    *)
Counted(now, step, steps, at, counts) ==
  IF Counts(now, step, at) THEN [counts EXCEPT ![steps - at[2]] = @ + 1] ELSE counts

(* The whole function, given f for the calls in it.                        *)
Counting(f, now, step, steps) ==
  [at \in (0 .. Size) \X (0 .. steps) |->
     IF at[1] = Size \/ at[2] = steps THEN [k \in 1 .. steps |-> 0]
     ELSE Counted(now, step, steps, at, f[Further(now, step, at)])]

(* The loops of CountPerTime are a function.                               *)
LEMMA CountingExists ==
  ASSUME Size \in Nat, NEW now \in Nat, NEW step \in Nat, NEW steps \in Nat
  PROVE  \E f \in [(0 .. Size) \X (0 .. steps) -> [1 .. steps -> Nat]] :
           f = Counting(f, now, step, steps)
<1> DEFINE D == (0 .. Size) \X (0 .. steps)
           V == [1 .. steps -> Nat]
           measure == [at \in D |-> (Size - at[1]) + (steps - at[2])]
           stop == {at \in D : at[1] = Size \/ at[2] = steps}
           zeros == [k \in 1 .. steps |-> 0]
           base == [at \in D |-> zeros]
           next == [at \in D |-> IF at[1] = Size \/ at[2] = steps THEN at
                                 ELSE Further(now, step, at)]
           combine == [x \in D \X V |-> Counted(now, step, steps, x[1], x[2])]
<1>1. ASSUME NEW at \in D, ~(at[1] = Size \/ at[2] = steps)
      PROVE  /\ Further(now, step, at) \in D
             /\ measure[Further(now, step, at)] < measure[at]
  <2>1. PICK done \in 0 .. Size, bucket \in 0 .. steps : at = <<done, bucket>>
    OBVIOUS
  <2>2. at[1] = done /\ at[2] = bucket /\ done # Size /\ bucket # steps
    BY <1>1, <2>1
  <2>3. Further(now, step, at) \in {<<done + 1, bucket>>, <<done, bucket + 1>>}
    BY <2>2 DEF Further
  <2>4. <<done + 1, bucket>> \in D /\ <<done, bucket + 1>> \in D
    BY <2>2
  <2>5. /\ measure[<<done + 1, bucket>>] = Size - (done + 1) + (steps - bucket)
        /\ measure[<<done, bucket + 1>>] = Size - done + (steps - (bucket + 1))
        /\ measure[at] = Size - done + (steps - bucket)
    BY <2>1, <2>2, <2>4
  <2> HIDE DEF measure, D
  <2> QED
    BY <2>3, <2>4, <2>5
<1>2. measure \in [D -> Nat]
  <2>1. \A at \in D : at[1] \in 0 .. Size /\ at[2] \in 0 .. steps
    OBVIOUS
  <2>2. \A at \in D : (Size - at[1]) + (steps - at[2]) \in Nat
    BY <2>1
  <2> QED
    BY <2>2
<1>3. zeros \in V
  OBVIOUS
<1>4. base \in [D -> V]
  BY <1>3
<1>5. next \in [D -> D]
  BY <1>1
<1>6. combine \in [D \X V -> V]
  <2>1. ASSUME NEW at \in D, NEW v \in V PROVE Counted(now, step, steps, at, v) \in V
    <3> DEFINE i == steps - at[2]
    <3>1. CASE i \in 1 .. steps
      BY <3>1 DEF Counted
    <3>2. CASE i \notin 1 .. steps
      BY <3>2 DEF Counted
    <3> QED
      BY <3>1, <3>2
  <2> HIDE DEF D, V
  <2> QED
    BY <2>1
<1>7. Falls(D, measure, stop, next)
  BY <1>1 DEF Falls
<1> HIDE DEF D, V, measure, stop, base, next, combine, zeros
<1>8. PICK f \in [D -> V] : Recursive(f, D, stop, base, next, combine)
  BY <1>2, <1>4, <1>5, <1>6, <1>7, RecursionExists
<1>9. ASSUME NEW at \in D
      PROVE  f[at] = IF at[1] = Size \/ at[2] = steps THEN zeros
                     ELSE Counted(now, step, steps, at, f[Further(now, step, at)])
  <2>1. f[at] = IF at \in stop THEN base[at] ELSE combine[<<at, f[next[at]]>>]
    BY <1>8 DEF Recursive
  <2>2. CASE at[1] = Size \/ at[2] = steps
    BY <2>1, <2>2 DEF stop, base
  <2>3. CASE ~(at[1] = Size \/ at[2] = steps)
    <3>1. next[at] = Further(now, step, at) /\ next[at] \in D /\ at \notin stop
      BY <1>5, <2>3 DEF next, stop
    <3>2. f[next[at]] \in V
      BY <3>1
    <3>3. combine[<<at, f[next[at]]>>] = Counted(now, step, steps, at, f[next[at]])
      <4> DEFINE v == f[next[at]]
      <4>1. v \in V
        BY <3>2
      <4> HIDE DEF v
      <4>2. <<at, v>> \in D \X V /\ <<at, v>>[1] = at /\ <<at, v>>[2] = v
        BY <4>1
      <4>3. combine[<<at, v>>] = Counted(now, step, steps, at, v)
        BY <4>2 DEF combine
      <4> QED
        BY <4>3 DEF v
    <3> QED
      BY <2>1, <2>3, <3>1, <3>3
  <2> QED
    BY <2>2, <2>3
<1> DEFINE Body == [at \in D |-> IF at[1] = Size \/ at[2] = steps THEN zeros
                     ELSE Counted(now, step, steps, at, f[Further(now, step, at)])]
<1>10. f = Body
  <2>1. f = [at \in D |-> f[at]]
    OBVIOUS
  <2> QED
    BY <1>9, <2>1
<1> QED
  BY <1>10 DEF D, V, zeros, Counting

(* What CountPerTime is, without the CHOOSE of a recursive definition.     *)
LEMMA CountPerTimeCounts ==
  ASSUME Size \in Nat, NEW now \in Nat, NEW step \in Nat, NEW steps \in Nat
  PROVE  \E f :
           /\ \A done \in 0 .. Size, bucket \in 0 .. steps :
                f[<<done, bucket>>] =
                  IF done = Size \/ bucket = steps THEN [k \in 1 .. steps |-> 0]
                  ELSE Counted(now, step, steps, <<done, bucket>>,
                               f[Further(now, step, <<done, bucket>>)])
           /\ CountPerTime(now, step, steps) = f[<<0, 0>>]
<1> DEFINE D == (0 .. Size) \X (0 .. steps)
           count[at \in (0 .. Size) \X (0 .. steps)] ==
             LET done   == at[1]
                 bucket == at[2]
             IN IF done = Size \/ bucket = steps
                THEN [k \in 1 .. steps |-> 0]
                ELSE IF times[Size - done] >= TruncNow(now, step) - bucket * step
                     THEN [count[<<done + 1, bucket>>] EXCEPT ![steps - bucket] = @ + 1]
                     ELSE count[<<done, bucket + 1>>]
           Loop(f) == [at \in (0 .. Size) \X (0 .. steps) |->
             LET done   == at[1]
                 bucket == at[2]
             IN IF done = Size \/ bucket = steps
                THEN [k \in 1 .. steps |-> 0]
                ELSE IF times[Size - done] >= TruncNow(now, step) - bucket * step
                     THEN [f[<<done + 1, bucket>>] EXCEPT ![steps - bucket] = @ + 1]
                     ELSE f[<<done, bucket + 1>>]]
<1>1. CountPerTime(now, step, steps) = count[<<0, 0>>]
  BY DEF CountPerTime
<1>2. count = CHOOSE f : f = Loop(f)
  OBVIOUS
<1>3. ASSUME NEW f PROVE Loop(f) = Counting(f, now, step, steps)
  BY DEF Counting, Counted, Further, Counts, Low
<1> HIDE DEF count, Loop
<1>4. PICK f \in [D -> [1 .. steps -> Nat]] : f = Counting(f, now, step, steps)
  BY CountingExists
<1>5. count = Loop(count)
  BY <1>2, <1>3, <1>4, Zenon
<1>6. count = Counting(count, now, step, steps)
  BY <1>3, <1>5, Zenon
<1>7. ASSUME NEW done \in 0 .. Size, NEW bucket \in 0 .. steps
      PROVE  count[<<done, bucket>>] =
               IF done = Size \/ bucket = steps THEN [k \in 1 .. steps |-> 0]
               ELSE Counted(now, step, steps, <<done, bucket>>,
                            count[Further(now, step, <<done, bucket>>)])
  <2>1. <<done, bucket>> \in D /\ <<done, bucket>>[1] = done /\ <<done, bucket>>[2] = bucket
    OBVIOUS
  <2>2. count[<<done, bucket>>] = Counting(count, now, step, steps)[<<done, bucket>>]
    BY <1>6
  <2> QED
    BY <2>1, <2>2 DEF Counting
<1> QED
  BY <1>1, <1>7

(* The times are in order.                                                 *)
TimesSorted == \A i, j \in DOMAIN times : i <= j => times[i] <= times[j]

(* The items that go into a bucket are those in it before, and the next.   *)
LEMMA BucketGrows ==
  ASSUME times \in Seq(Nat), NEW now \in Nat, NEW step \in Nat, step > 0,
         NEW steps \in Nat, NEW n \in 1 .. Size, NEW k
  PROVE  /\ IsFiniteSet(InBucket(now, step, steps, n - 1, k))
         /\ n \in InBucket(now, step, steps, n, k) =>
              InBucket(now, step, steps, n, k) = InBucket(now, step, steps, n - 1, k) \cup {n}
         /\ n \notin InBucket(now, step, steps, n, k) =>
              InBucket(now, step, steps, n, k) = InBucket(now, step, steps, n - 1, k)
         /\ n \notin InBucket(now, step, steps, n - 1, k)
<1>1. Size \in Nat /\ n \in Nat /\ n - 1 \in Nat
  BY DEF Size
<1>2. IsFiniteSet(1 .. n - 1)
  BY <1>1, FS_Interval
<1>3. InBucket(now, step, steps, n - 1, k) \subseteq 1 .. n - 1
  BY DEF InBucket
<1>4. IsFiniteSet(InBucket(now, step, steps, n - 1, k))
  BY <1>2, <1>3, FS_Subset
<1>5. n \notin InBucket(now, step, steps, n - 1, k)
  BY <1>1, <1>3
<1>6. \A i : i \in 1 .. n <=> i \in 1 .. n - 1 \/ i = n
  BY <1>1
<1>7. \A i : i \in InBucket(now, step, steps, n, k) <=>
               \/ i \in InBucket(now, step, steps, n - 1, k)
               \/ i = n /\ n \in InBucket(now, step, steps, n, k)
  BY <1>6 DEF InBucket
<1>8. ASSUME n \in InBucket(now, step, steps, n, k)
      PROVE  InBucket(now, step, steps, n, k) = InBucket(now, step, steps, n - 1, k) \cup {n}
  BY <1>7, <1>8
<1>9. ASSUME n \notin InBucket(now, step, steps, n, k)
      PROVE  InBucket(now, step, steps, n, k) = InBucket(now, step, steps, n - 1, k)
  BY <1>7, <1>9
<1> QED
  BY <1>4, <1>5, <1>8, <1>9

(* The counts of the buckets from the first n times.                       *)
Tally(now, step, steps, n) ==
  [k \in 1 .. steps |-> Cardinality(InBucket(now, step, steps, n, k))]

(* Times that are before the bucket that the loops are at are in none that *)
(* the loops are done with.                                                *)
LEMMA NoneInBucket ==
  ASSUME times \in Seq(Nat), NEW now \in Nat, NEW step \in Nat, step > 0,
         NEW steps \in Nat, NEW n \in 0 .. Size, NEW b \in 1 .. steps,
         \A i \in 1 .. n : times[i] < Low(now, step, b - 1),
         NEW k \in 1 .. steps, k > steps - b
  PROVE  InBucket(now, step, steps, n, k) = {}
<1>1. b - 1 \in Nat /\ steps - k \in Nat /\ steps - k <= b - 1
  OBVIOUS
<1>2. /\ Low(now, step, b - 1) \in Int /\ Low(now, step, steps - k) \in Int
      /\ Low(now, step, b - 1) <= Low(now, step, steps - k)
  BY <1>1, LowIs
<1>3. \A i \in 1 .. n : times[i] \in Nat
  BY DEF Size
<1>4. \A i \in 1 .. n : ~(times[i] >= Low(now, step, steps - k))
  <2> TAKE i \in 1 .. n
  <2>1. times[i] \in Nat /\ times[i] < Low(now, step, b - 1)
    BY <1>3
  <2> QED
    BY <1>2, <2>1
<1> QED
  BY <1>4 DEF InBucket

(* The next time goes into the bucket the loops are at, and no other.      *)
LEMMA OneBucket ==
  ASSUME times \in Seq(Nat), NEW now \in Nat, NEW step \in Nat, step > 0,
         NEW steps \in Nat, NEW n \in 1 .. Size, NEW b \in 0 .. steps, b # steps,
         b # 0 => times[n] < Low(now, step, b - 1),
         times[n] >= Low(now, step, b)
  PROVE  \A k \in 1 .. steps : n \in InBucket(now, step, steps, n, k) <=> k = steps - b
<1>1. n \in 1 .. n /\ times[n] \in Nat
  BY DEF Size
<1> TAKE k \in 1 .. steps
<1>2. steps - k \in Nat /\ b \in Nat /\ Low(now, step, steps - k) \in Int /\ Low(now, step, b) \in Int
  <2>1. steps - k \in Nat /\ b \in Nat
    OBVIOUS
  <2> QED
    BY <2>1, LowIs
<1>3. CASE k = steps - b
  <2>1. steps - k = b
    BY <1>3
  <2>2. ASSUME k < steps PROVE times[n] < Low(now, step, steps - k) + step
    <3>1. b # 0 /\ b - 1 \in Nat /\ b - 1 + 1 = b
      BY <1>3, <2>2
    <3>2. Low(now, step, b - 1) = Low(now, step, b - 1 + 1) + step
      BY <3>1, LowIs
    <3>3. Low(now, step, b - 1) = Low(now, step, b) + step
      BY <3>1, <3>2
    <3> QED
      BY <2>1, <3>1, <3>3
  <2>3. times[n] >= Low(now, step, steps - k)
    BY <2>1
  <2> QED
    BY <1>1, <1>3, <2>2, <2>3 DEF InBucket
<1>4. CASE k > steps - b
  <2>1. b # 0 /\ b - 1 \in Nat /\ steps - k <= b - 1
    BY <1>2, <1>4
  <2>2. Low(now, step, b - 1) <= Low(now, step, steps - k) /\ Low(now, step, b - 1) \in Int
    BY <1>2, <2>1, LowIs
  <2>3. ~(times[n] >= Low(now, step, steps - k))
    BY <1>1, <1>2, <2>1, <2>2
  <2> QED
    BY <1>4, <2>3 DEF InBucket
<1>5. CASE k < steps - b
  <2> DEFINE c == steps - k - 1
  <2>1. c \in Nat /\ c + 1 = steps - k /\ b <= c /\ k < steps
    BY <1>5
  <2> HIDE DEF c
  <2>2. Low(now, step, c) = Low(now, step, c + 1) + step
    BY <2>1, LowIs
  <2>3. Low(now, step, c) = Low(now, step, steps - k) + step
    BY <2>1, <2>2
  <2>4. Low(now, step, c) <= Low(now, step, b) /\ Low(now, step, c) \in Int
    BY <1>2, <2>1, LowIs
  <2>5. ~(times[n] < Low(now, step, steps - k) + step)
    <3>1. ~(times[n] < Low(now, step, c))
      BY <1>1, <1>2, <2>4
    <3> QED
      BY <2>3, <3>1
  <2> QED
    BY <1>5, <2>1, <2>5 DEF InBucket
<1> QED
  BY <1>2, <1>3, <1>4, <1>5

(* The loops count right the times that are left, from the bucket they are *)
(* at back.                                                                *)
LEMMA LoopsTally ==
  ASSUME times \in Seq(Nat), TimesSorted, NEW now \in Nat, NEW step \in Nat, step > 0,
         NEW steps \in Nat
  PROVE  CountPerTime(now, step, steps) = Tally(now, step, steps, Size)
<1>1. Size \in Nat /\ DOMAIN times = 1 .. Size /\ \A i \in 1 .. Size : times[i] \in Nat
  BY DEF Size
<1>2. PICK f :
        /\ \A done \in 0 .. Size, bucket \in 0 .. steps :
             f[<<done, bucket>>] =
               IF done = Size \/ bucket = steps THEN [k \in 1 .. steps |-> 0]
               ELSE Counted(now, step, steps, <<done, bucket>>,
                            f[Further(now, step, <<done, bucket>>)])
        /\ CountPerTime(now, step, steps) = f[<<0, 0>>]
  BY <1>1, CountPerTimeCounts
<1> DEFINE Before(n, b) == b # 0 => \A i \in 1 .. n : times[i] < Low(now, step, b - 1)
           Right(n, b) == Before(n, b) => f[<<Size - n, b>>] = Tally(now, step, steps, n)
           S == {m \in Nat : \A n \in 0 .. Size, b \in 0 .. steps :
                               n + (steps - b) <= m => Right(n, b)}
<1>3. ASSUME NEW n \in 0 .. Size, NEW b \in 0 .. steps, n = 0 \/ b = steps
      PROVE  Right(n, b)
  <2> SUFFICES ASSUME Before(n, b) PROVE f[<<Size - n, b>>] = Tally(now, step, steps, n)
    OBVIOUS
  <2>1. Size - n \in 0 .. Size /\ (Size - n = Size <=> n = 0)
    BY <1>1
  <2>2. f[<<Size - n, b>>] = [k \in 1 .. steps |-> 0]
    BY <1>2, <1>3, <2>1
  <2>3. ASSUME NEW k \in 1 .. steps PROVE InBucket(now, step, steps, n, k) = {}
    <3>1. CASE n = 0
      <4>1. 1 .. n = {}
        BY <3>1
      <4> QED
        BY <4>1 DEF InBucket
    <3>2. CASE b = steps
      <4>1. b \in 1 .. steps /\ b # 0 /\ k > steps - b
        BY <2>3, <3>2
      <4>2. \A i \in 1 .. n : times[i] < Low(now, step, b - 1)
        BY <4>1
      <4> QED
        BY <4>1, <4>2, NoneInBucket
    <3> QED
      BY <1>3, <3>1, <3>2
  <2>4. \A k \in 1 .. steps : Cardinality(InBucket(now, step, steps, n, k)) = 0
    BY <2>3, FS_EmptySet
  <2> QED
    BY <2>2, <2>4 DEF Tally
<1>4. ASSUME NEW n \in 1 .. Size, NEW b \in 0 .. steps, b # steps, times[n] >= Low(now, step, b),
             Right(n - 1, b)
      PROVE  Right(n, b)
  <2> SUFFICES ASSUME Before(n, b) PROVE f[<<Size - n, b>>] = Tally(now, step, steps, n)
    OBVIOUS
  <2> DEFINE done == Size - n
  <2>1. done \in 0 .. Size /\ done # Size /\ Size - done = n /\ done + 1 = Size - (n - 1)
          /\ n \in 1 .. n /\ n - 1 \in 0 .. Size
    BY <1>1
  <2> HIDE DEF done
  <2>2. Counts(now, step, <<done, b>>)
    <3>1. <<done, b>>[1] = done /\ <<done, b>>[2] = b
      OBVIOUS
    <3> QED
      BY <1>4, <2>1, <3>1 DEF Counts
  <2>3. Further(now, step, <<done, b>>) = <<done + 1, b>>
    BY <2>2 DEF Further
  <2> DEFINE rest == f[<<done + 1, b>>]
  <2>4. f[<<done, b>>] = [rest EXCEPT ![steps - b] = @ + 1]
    <3>1. f[<<done, b>>] = Counted(now, step, steps, <<done, b>>, rest)
      BY <1>2, <1>4, <2>1, <2>3
    <3>2. <<done, b>>[2] = b
      OBVIOUS
    <3> HIDE DEF rest
    <3> QED
      BY <2>2, <3>1, <3>2 DEF Counted
  <2>5. \A i \in 1 .. n - 1 : i \in 1 .. n
    BY <1>1
  <2>6. Before(n - 1, b)
    BY <2>5
  <2>7. rest = Tally(now, step, steps, n - 1)
    BY <1>4, <2>1, <2>6
  <2> HIDE DEF rest
  <2>8. \A k \in 1 .. steps : n \in InBucket(now, step, steps, n, k) <=> k = steps - b
    <3>1. b # 0 => times[n] < Low(now, step, b - 1)
      BY <2>1
    <3> HIDE DEF Before
    <3> QED
      BY <1>4, <3>1, OneBucket
  <2>9. ASSUME NEW k \in 1 .. steps
        PROVE  Cardinality(InBucket(now, step, steps, n, k)) =
                 IF k = steps - b THEN rest[k] + 1 ELSE rest[k]
    <3> DEFINE old == InBucket(now, step, steps, n - 1, k)
    <3>1. /\ IsFiniteSet(old) /\ n \notin old
          /\ n \in InBucket(now, step, steps, n, k) =>
               InBucket(now, step, steps, n, k) = old \cup {n}
          /\ n \notin InBucket(now, step, steps, n, k) =>
               InBucket(now, step, steps, n, k) = old
      BY BucketGrows
    <3>2. rest[k] = Cardinality(old)
      BY <2>7 DEF Tally
    <3>3. Cardinality(old \cup {n}) = Cardinality(old) + 1
      BY <3>1, FS_AddElement
    <3> HIDE DEF old
    <3> QED
      BY <2>8, <3>1, <3>2, <3>3
  <2>10. [rest EXCEPT ![steps - b] = @ + 1] =
           [k \in 1 .. steps |-> IF k = steps - b THEN rest[k] + 1 ELSE rest[k]]
    <3>1. rest = [k \in 1 .. steps |-> rest[k]]
      BY <2>7 DEF Tally
    <3> QED
      BY <3>1
  <2> QED
    BY <2>4, <2>9, <2>10 DEF Tally, done
<1>5. ASSUME NEW n \in 1 .. Size, NEW b \in 0 .. steps, b # steps, ~(times[n] >= Low(now, step, b)),
             Right(n, b + 1)
      PROVE  Right(n, b)
  <2> SUFFICES ASSUME Before(n, b) PROVE f[<<Size - n, b>>] = Tally(now, step, steps, n)
    OBVIOUS
  <2> DEFINE done == Size - n
  <2>1. done \in 0 .. Size /\ done # Size /\ Size - done = n /\ b + 1 - 1 = b /\ b + 1 # 0
    BY <1>1
  <2> HIDE DEF done
  <2>2. ~Counts(now, step, <<done, b>>)
    <3>1. <<done, b>>[1] = done /\ <<done, b>>[2] = b
      OBVIOUS
    <3> QED
      BY <1>5, <2>1, <3>1 DEF Counts
  <2>3. f[<<done, b>>] = f[<<done, b + 1>>]
    <3>1. Further(now, step, <<done, b>>) = <<done, b + 1>>
      BY <2>2 DEF Further
    <3> QED
      BY <1>2, <1>5, <2>1, <2>2, <3>1 DEF Counted
  <2>4. Before(n, b + 1)
    <3>1. Low(now, step, b) \in Int
      BY LowIs
    <3>2. ASSUME NEW i \in 1 .. n PROVE times[i] < Low(now, step, b)
      <4>1. i \in 1 .. Size /\ n \in 1 .. Size /\ i <= n
        BY <1>1
      <4>2. times[i] <= times[n] /\ times[i] \in Nat /\ times[n] \in Nat
        BY <1>1, <4>1 DEF TimesSorted
      <4> QED
        BY <1>5, <3>1, <4>2
    <3>3. \A i \in 1 .. n : times[i] < Low(now, step, b + 1 - 1)
      BY <2>1, <3>2
    <3> QED
      BY <3>3
  <2> QED
    BY <1>5, <2>3, <2>4 DEF done
<1> HIDE DEF Right
<1>6. 0 \in S
  <2>1. ASSUME NEW n \in 0 .. Size, NEW b \in 0 .. steps, n + (steps - b) <= 0 PROVE n = 0
    BY <1>1, <2>1
  <2> QED
    BY <1>3, <2>1
<1>7. ASSUME NEW m \in Nat, m \in S PROVE m + 1 \in S
  <2> SUFFICES ASSUME NEW n \in 0 .. Size, NEW b \in 0 .. steps, n + (steps - b) <= m + 1
               PROVE  Right(n, b)
    OBVIOUS
  <2>1. CASE n = 0 \/ b = steps
    BY <1>3, <2>1
  <2>2. CASE n # 0 /\ b # steps
    <3>1. n \in 1 .. Size /\ n - 1 \in 0 .. Size /\ b + 1 \in 0 .. steps
            /\ n - 1 + (steps - b) <= m /\ n + (steps - (b + 1)) <= m
      BY <1>1, <2>2
    <3>2. Right(n - 1, b) /\ Right(n, b + 1)
      BY <1>7, <3>1
    <3> QED
      BY <1>4, <1>5, <2>2, <3>1, <3>2
  <2> QED
    BY <2>1, <2>2
<1>8. Nat \subseteq S
  <2> HIDE DEF S
  <2> QED
    BY <1>6, <1>7, SetInduction
<1>9. Right(Size, 0)
  <2>1. Size + steps \in Nat /\ Size \in 0 .. Size /\ 0 \in 0 .. steps
          /\ Size + (steps - 0) <= Size + steps
    BY <1>1
  <2>2. Size + steps \in S
    BY <1>8, <2>1
  <2> QED
    BY <2>1, <2>2
<1>10. Size - Size = 0
  BY <1>1
<1>11. f[<<0, 0>>] = Tally(now, step, steps, Size)
  BY <1>9, <1>10 DEF Right
<1> QED
  BY <1>2, <1>11

(* The counts are those that HistogramRight states.                        *)
LEMMA TypesHistogramRight ==
  ASSUME Types
  PROVE  HistogramRight
<1> SUFFICES ASSUME TimesSorted,
                    NEW now \in Times, NEW step \in 1 .. MaxSteps, NEW steps \in 0 .. MaxSteps
             PROVE  CountPerTime(now, step, steps) =
                      [k \in 1 .. steps |->
                         LET from == now - (now % step) - (steps - k) * step
                         IN Quantify(DOMAIN times,
                                     LAMBDA i : /\ times[i] >= from
                                                /\ k < steps => times[i] < from + step)]
  BY Zenon DEF HistogramRight, TimesSorted
<1>1. /\ times \in Seq(Nat) /\ now \in Nat
      /\ step \in Nat /\ step > 0 /\ steps \in Nat
  <2>1. times \in Seq(Times) /\ Times \subseteq Nat /\ MaxSteps \in Nat
    BY ConstantsAssumption DEF Types, ConstantsAssumption
  <2>2. now \in Nat /\ step \in Nat /\ step > 0 /\ steps \in Nat
    BY <2>1
  <2>3. times \in Seq(Nat)
    BY <2>1, SeqMonotonic
  <2> QED
    BY <2>2, <2>3
<1>2. CountPerTime(now, step, steps) = Tally(now, step, steps, Size)
  BY <1>1, LoopsTally
<1>3. DOMAIN times = 1 .. Size
  BY <1>1 DEF Size
<1> QED
  BY <1>2, <1>3 DEF Tally, InBucket, Low, TruncNow, Quantify

-----------------------------------------------------------------------------
(* The pages have given what is asked for where they went, and nothing     *)
(* else, however the list grows between them.                              *)
THEOREM InvAlways == Spec => []Inv
<1>1. Init => Inv
  BY InitInv
<1>2. Inv /\ [Next]_vars => Inv'
  BY GrowInv, NextPageInv, StutterInv DEF Next
<1> QED
  BY <1>1, <1>2, PTL DEF Spec

(* In a list in order, paging with nextAfter (List::make, blockList and    *)
(* transactionList) skips and repeats nothing.                             *)
THEOREM PagesTileAlways == Spec => []PagesTile
BY InvAlways, InvPagesTile, PTL

(* A page that is not full is the last, whatever the order of the times and *)
(* the sign of the count.                                                  *)
THEOREM ShortPageIsLastAlways == Spec => []ShortPageIsLast
<1>1. Inv => ShortPageIsLast
  BY TypesShortPageIsLast DEF Inv
<1> QED
  BY <1>1, InvAlways, PTL

(* Pages go in one direction and, whatever the order of the times, not      *)
(* beyond the time where they end; if the times are in order, they also     *)
(* show nothing from before the time where they begin.                      *)
THEOREM NothingForeignAlways == Spec => []NothingForeign
<1>1. Inv => NothingForeign
  BY DEF Inv
<1> QED
  BY <1>1, InvAlways, PTL

(* countPerTime gives each minute or hour the number of its items.         *)
THEOREM HistogramRightAlways == Spec => []HistogramRight
<1>1. Inv => HistogramRight
  BY TypesHistogramRight DEF Inv
<1> QED
  BY <1>1, InvAlways, PTL
=============================================================================
