------------------------- MODULE XrpcHistoryProofs -------------------------
(***************************************************************************)
(* Theorems about XrpcHistory, for any accounts, names, requests and       *)
(* bounds and any width of int: what a page of a history holds, the names  *)
(* in it, and what a client that reads all pages has seen.                 *)
(***************************************************************************)
EXTENDS XrpcHistory, FunctionTheorems, FiniteSetTheorems, WellFoundedInduction, TLAPS
-----------------------------------------------------------------------------
(* int *)

Width == 2 * (IntMax + 1)

LEMMA WidthType == IntMax \in Nat /\ Width \in Nat \ {0} /\ IntMax + 1 \in Int
<1>1. IntMax \in Nat
  BY HistoryConstants
<1> QED BY <1>1 DEF Width

LEMMA WrapRange ==
    ASSUME NEW n \in Int
    PROVE  Wrap(n) \in Int /\ -(IntMax + 1) <= Wrap(n) /\ Wrap(n) <= IntMax
<1>1. (n + (IntMax + 1)) % Width \in 0..(Width - 1)
  BY WidthType
<1>2. Wrap(n) = ((n + (IntMax + 1)) % Width) - (IntMax + 1)
  BY DEF Wrap, Width
<1>3. Width - 1 = 2 * IntMax + 1
  BY WidthType DEF Width
<1> QED BY <1>1, <1>2, <1>3, WidthType

LEMMA WrapFits ==
    ASSUME NEW n \in 0..IntMax
    PROVE  Wrap(n) = n
<1>1. n + (IntMax + 1) \in Nat /\ n + (IntMax + 1) < Width
  BY WidthType DEF Width
<1>2. (n + (IntMax + 1)) % Width = n + (IntMax + 1)
  BY <1>1, WidthType
<1> QED BY <1>2, WidthType DEF Wrap, Width

\* What overflows is off by a multiple of the width.
LEMMA WrapShift ==
    ASSUME NEW n \in Int
    PROVE  \E m \in Int : Wrap(n) = n + (m * Width)
<1> DEFINE h == n + (IntMax + 1)
           m == h \div Width
<1>1. h \in Int /\ m \in Int /\ h = (Width * m) + (h % Width) /\ h % Width \in Int
  BY WidthType
<1>2. Wrap(n) = (h % Width) - (IntMax + 1)
  BY DEF Wrap, Width
<1>3. Wrap(n) = n - (Width * m)
  BY <1>1, <1>2, WidthType
<1>4. -m \in Int /\ (-m) * Width = -(Width * m)
  BY <1>1, WidthType
<1> QED BY <1>1, <1>3, <1>4, WidthType

LEMMA StartEndType ==
    ASSUME NEW request \in [count : Int, per_page : Int]
    PROVE  /\ start_num(request) \in Int /\ end_num(request) \in Int
           /\ -(IntMax + 1) <= start_num(request) /\ start_num(request) <= IntMax
           /\ -(IntMax + 1) <= end_num(request) /\ end_num(request) <= IntMax
<1>1. request.count * request.per_page \in Int
  OBVIOUS
<1>2. Wrap(request.count + 1) \in Int
  BY WrapRange
<1>3. Wrap(request.count + 1) * request.per_page \in Int
  BY <1>2
<1> QED BY <1>1, <1>3, WrapRange DEF start_num, end_num

\* Whatever overflows, the numbers of a page are no more than were asked for.
LEMMA PageWidth ==
    ASSUME NEW request \in [count : Int, per_page : Int], request.per_page >= 0
    PROVE  end_num(request) - start_num(request) <= request.per_page
<1> DEFINE c == request.count
           p == request.per_page
<1>1. c \in Int /\ p \in Nat /\ Width \in Nat \ {0}
  BY WidthType
<1>2. PICK k \in Int : start_num(request) = (c * p) + (k * Width)
  <2>1. c * p \in Int
    BY <1>1
  <2> QED BY <2>1, WrapShift DEF start_num
<1>3. PICK m \in Int : Wrap(c + 1) = (c + 1) + (m * Width)
  <2>1. c + 1 \in Int
    BY <1>1
  <2> QED BY <2>1, WrapShift
<1>4. PICK l \in Int : end_num(request) = (Wrap(c + 1) * p) + (l * Width)
  <2>1. Wrap(c + 1) \in Int
    BY <1>1, WrapRange
  <2>2. Wrap(c + 1) * p \in Int
    BY <1>1, <2>1
  <2> QED BY <2>2, WrapShift DEF end_num
<1>5. Wrap(c + 1) * p = (c * p) + p + ((m * p) * Width)
  <2> HIDE DEF c, p
  <2>1. ((c + 1) + (m * Width)) * p = (c * p) + p + ((m * p) * Width)
    BY <1>1
  <2> QED BY <1>3, <2>1
<1> DEFINE d == end_num(request) - start_num(request)
           n == (m * p) + l - k
<1>6. d = p + (n * Width) /\ n \in Int /\ d \in Int
  <2> HIDE DEF c, p, Width
  <2>1. m * p \in Int /\ c * p \in Int
    BY <1>1
  <2>2. (n * Width) = ((m * p) * Width) + (l * Width) - (k * Width)
    BY <1>1, <2>1
  <2>3. (m * p) * Width \in Int /\ l * Width \in Int /\ k * Width \in Int
    BY <1>1, <2>1
  <2>4. d \in Int
    BY <1>1, StartEndType
  <2> QED BY <1>1, <1>2, <1>4, <1>5, <2>1, <2>2, <2>3, <2>4
<1>7. d < Width
  BY StartEndType, WidthType DEF Width
<1>8. ASSUME n > 0 PROVE FALSE
  <2> HIDE DEF d, n, p
  <2>1. n * Width >= Width
    BY <1>1, <1>6, <1>8
  <2> QED BY <1>1, <1>6, <1>7, <2>1
<1>9. n * Width <= 0
  <2> HIDE DEF n
  <2> QED BY <1>1, <1>6, <1>8
<1> QED BY <1>1, <1>6, <1>9
-----------------------------------------------------------------------------
(* The numbers of the transactions in a list *)

\* A set of positions of a list.
Positions(S) == \E n \in Nat : S \subseteq 1..n

LEMMA NumType ==
    ASSUME NEW S, Positions(S), NEW i
    PROVE  /\ IsFiniteSet(S) /\ Cardinality(S) \in Nat
           /\ IsFiniteSet({k \in S : k < i}) /\ num(S, i) \in Nat
<1> PICK n \in Nat : S \subseteq 1..n
  BY DEF Positions
<1>1. IsFiniteSet(1..n)
  BY FS_Interval
<1>2. IsFiniteSet(S)
  BY <1>1, FS_Subset
<1>3. {k \in S : k < i} \in SUBSET S
  OBVIOUS
<1>4. IsFiniteSet({k \in S : k < i})
  BY <1>2, <1>3, FS_Subset
<1> QED BY <1>2, <1>4, FS_CardinalityType DEF num

\* Numbers grow with the positions, and stay below the number of all.
LEMMA NumGrows ==
    ASSUME NEW S, Positions(S)
    PROVE  /\ \A i, k \in S : i < k => num(S, i) < num(S, k)
           /\ \A i \in S : num(S, i) < Cardinality(S)
<1> PICK n \in Nat : S \subseteq 1..n
  BY DEF Positions
<1> DEFINE Below(i) == {k \in S : k < i}
<1>1. ASSUME NEW T, NEW U, T \in SUBSET U, U \in SUBSET S, T # U
      PROVE  Cardinality(T) < Cardinality(U)
  <2>1. IsFiniteSet(S)
    BY NumType
  <2>2. IsFiniteSet(U)
    BY <1>1, <2>1, FS_Subset
  <2>3. /\ IsFiniteSet(T) /\ Cardinality(T) <= Cardinality(U)
        /\ Cardinality(U) = Cardinality(T) => U = T
    BY <1>1, <2>2, FS_Subset
  <2>4. Cardinality(T) \in Nat /\ Cardinality(U) \in Nat
    BY <2>2, <2>3, FS_CardinalityType
  <2> QED BY <1>1, <2>3, <2>4
<1>2. ASSUME NEW i \in S, NEW k \in S, i < k
      PROVE  num(S, i) < num(S, k)
  <2>1. \A q \in S : q \in Nat
    OBVIOUS
  <2>2. Below(i) \in SUBSET Below(k)
    <3>1. ASSUME NEW q \in S, q < i PROVE q < k
      <4>1. q \in Nat /\ i \in Nat /\ k \in Nat
        BY <2>1
      <4> QED BY <1>2, <3>1, <4>1
    <3> QED BY <3>1
  <2>3. i \in Below(k) /\ i \notin Below(i)
    BY <1>2, <2>1
  <2>4. Below(i) # Below(k) /\ Below(k) \in SUBSET S
    BY <2>3
  <2> QED BY <1>1, <2>2, <2>4 DEF num
<1>3. ASSUME NEW i \in S
      PROVE  num(S, i) < Cardinality(S)
  <2>1. Below(i) \in SUBSET S /\ S \in SUBSET S
    OBVIOUS
  <2>2. i \notin Below(i)
    OBVIOUS
  <2>3. Below(i) # S
    BY <1>3, <2>2
  <2> QED BY <1>1, <2>1, <2>3 DEF num
<1> QED BY <1>2, <1>3

\* As many transactions have their numbers in an interval as it is long, at most.
LEMMA NumbersIn ==
    ASSUME NEW S, Positions(S), NEW s \in Int, NEW e \in Int,
           NEW P, P = {i \in S : num(S, i) \in s..(e - 1)}
    PROVE  /\ IsFiniteSet(P) /\ Cardinality(P) \in Nat
           /\ Cardinality(P) <= IF s > e - 1 THEN 0 ELSE e - s
<1> PICK n \in Nat : S \subseteq 1..n
  BY DEF Positions
<1> DEFINE f == [i \in P |-> num(S, i)]
<1>1. P \subseteq 1..n /\ IsFiniteSet(P) /\ Cardinality(P) \in Nat
  <2>1. P \subseteq 1..n
    OBVIOUS
  <2> QED BY <2>1, NumType DEF Positions
<1>2. f \in [P -> s..(e - 1)]
  OBVIOUS
<1>3. \A i, k \in P : f[i] = f[k] => i = k
  <2>1. ASSUME NEW i \in P, NEW k \in P, num(S, i) = num(S, k)
        PROVE  i = k
    <3>1. i \in S /\ k \in S /\ i \in Nat /\ k \in Nat
      OBVIOUS
    <3>2. num(S, i) \in Nat /\ num(S, k) \in Nat
      BY NumType
    <3>3. (i < k => num(S, i) < num(S, k)) /\ (k < i => num(S, k) < num(S, i))
      BY <3>1, NumGrows
    <3> QED BY <2>1, <3>1, <3>2, <3>3
  <2> QED BY <2>1
<1>4. f \in Injection(P, s..(e - 1))
  BY <1>2, <1>3, Fun_IsInj
<1>5. IsFiniteSet(s..(e - 1)) /\ Cardinality(s..(e - 1)) = IF s > e - 1 THEN 0 ELSE (e - 1) - s + 1
  BY FS_Interval
<1>6. Cardinality(P) <= Cardinality(s..(e - 1))
  BY <1>4, <1>5, FS_Injection
<1> QED BY <1>1, <1>5, <1>6

\* A page has as many as were asked for, at most.
LEMMA PageHolds ==
    ASSUME NEW S, Positions(S),
           NEW request \in [count : Int, per_page : Int], request.per_page >= 0
    PROVE  Cardinality(Page(S, request)) <= request.per_page
<1> DEFINE s == start_num(request)
           e == end_num(request)
           P == Page(S, request)
           p == request.per_page
<1>1. s \in Int /\ e \in Int /\ p \in Nat
  BY StartEndType
<1>2. e - s <= p
  BY PageWidth
<1>3. P = {i \in S : num(S, i) \in s..(e - 1)}
  BY DEF Page
<1> HIDE DEF s, e, P, p
<1>4. /\ Cardinality(P) \in Nat
      /\ Cardinality(P) <= IF s > e - 1 THEN 0 ELSE e - s
  BY <1>1, <1>3, NumbersIn
<1>5. Cardinality(P) <= p
  BY <1>1, <1>2, <1>4
<1> QED BY <1>5 DEF P, p

\* Every set of positions can be put in order, the last position at the end.
LEMMA OrderExists ==
    ASSUME NEW S, Positions(S)
    PROVE  \E all : all \in InOrder(S)
<1> PICK n \in Nat : S \subseteq 1..n
  BY DEF Positions
<1> DEFINE Bad == {m \in Nat : \E T \in SUBSET (1..m) : ~ \E all : all \in InOrder(T)}
<1> SUFFICES ASSUME Bad # {} PROVE FALSE
  OBVIOUS
<1>1. IsWellFoundedOn(OpToRel(<, Nat), Nat)
  BY NatLessThanWellFounded, Zenon
<1>2. Bad \subseteq Nat
  OBVIOUS
<1> HIDE DEF Bad
<1>3. PICK m \in Bad : \A y \in Bad : ~ (<<y, m>> \in OpToRel(<, Nat))
  BY <1>1, <1>2, WFMin, Zenon
<1>4. m \in Nat /\ \A y \in Bad : ~ (y < m)
  BY <1>2, <1>3 DEF OpToRel
<1>5. PICK T \in SUBSET (1..m) : ~ \E all : all \in InOrder(T)
  BY <1>3 DEF Bad
<1>6. IsFiniteSet(T) /\ Cardinality(T) \in Nat
  BY <1>4, <1>5, NumType DEF Positions
<1>7. CASE m \in T
  <2> DEFINE U == T \ {m}
             c == Cardinality(T)
  <2>1. m \in Nat \ {0} /\ m - 1 \in Nat /\ U \subseteq 1..(m - 1)
    BY <1>4, <1>5, <1>7
  <2>2. m - 1 \notin Bad
    BY <1>4, <2>1
  <2>3. PICK all : all \in InOrder(U)
    BY <2>1, <2>2 DEF Bad
  <2>4. Cardinality(U) = c - 1 /\ c - 1 \in Nat
    <3>1. Cardinality(U) = c - 1
      BY <1>6, <1>7, FS_RemoveElement
    <3>2. IsFiniteSet(U)
      BY <1>6, FS_RemoveElement
    <3> QED BY <3>1, <3>2, FS_CardinalityType
  <2>5. all \in [1..(c - 1) -> U] /\ \A i, j \in 1..(c - 1) : i < j => all[i] < all[j]
    BY <2>3, <2>4 DEF InOrder
  <2> DEFINE new == [i \in 1..c |-> IF i = c THEN m ELSE all[i]]
  <2>6. \A i \in 1..c : i = c \/ i \in 1..(c - 1)
    BY <1>6
  <2>7. \A i \in 1..c : new[i] \in T
    BY <1>7, <2>5, <2>6
  <2>8. \A i \in 1..(c - 1) : new[i] = all[i] /\ all[i] < m
    <3>1. ASSUME NEW i \in 1..(c - 1) PROVE all[i] \in U
      BY <2>5, <3>1
    <3>2. \A u \in U : u < m
      BY <2>1
    <3>3. \A i \in 1..(c - 1) : i \in 1..c /\ i # c
      BY <1>6
    <3> QED BY <3>1, <3>2, <3>3
  <2>9. ASSUME NEW i \in 1..c, NEW j \in 1..c, i < j PROVE new[i] < new[j]
    <3>1. i \in 1..(c - 1) /\ (j = c \/ j \in 1..(c - 1))
      BY <1>6, <2>9
    <3>2. CASE j = c
      BY <2>8, <3>1, <3>2
    <3>3. CASE j \in 1..(c - 1)
      BY <2>5, <2>8, <2>9, <3>1, <3>3
    <3> QED BY <3>1, <3>2, <3>3
  <2>10. new \in InOrder(T)
    BY <2>7, <2>9 DEF InOrder
  <2> QED BY <1>5, <2>10
<1>8. CASE m \notin T
  <2>1. CASE m = 0
    <3>1. T = {} /\ Cardinality(T) = 0
      <4>1. T = {}
        BY <1>5, <2>1
      <4> QED BY <4>1, FS_EmptySet
    <3>2. [i \in 1..0 |-> 0] \in InOrder(T)
      BY <3>1 DEF InOrder
    <3> QED BY <1>5, <3>2
  <2>2. CASE m # 0
    <3>1. m - 1 \in Nat /\ T \subseteq 1..(m - 1) /\ m - 1 < m
      BY <1>4, <1>5, <1>8, <2>2
    <3> QED BY <1>4, <1>5, <3>1 DEF Bad
  <2> QED BY <2>1, <2>2
<1> QED BY <1>7, <1>8

\* A set in order has its members in different places, and leaves none out.
LEMMA OrderCovers ==
    ASSUME NEW S, Positions(S), NEW all \in InOrder(S)
    PROVE  /\ \A i, j \in 1..Cardinality(S) : all[i] = all[j] => i = j
           /\ \A s \in S : \E i \in 1..Cardinality(S) : all[i] = s
<1> PICK n \in Nat : S \subseteq 1..n
  BY DEF Positions
<1> DEFINE c == Cardinality(S)
<1>1. IsFiniteSet(S) /\ c \in Nat
  BY NumType
<1>2. all \in [1..c -> S] /\ \A i, j \in 1..c : i < j => all[i] < all[j]
  BY DEF InOrder
<1>3. \A i \in 1..c : all[i] \in S /\ all[i] \in Nat
  <2>1. \A s \in S : s \in Nat
    OBVIOUS
  <2> QED BY <1>2, <2>1
<1> HIDE DEF c
<1>4. \A i, j \in 1..c : all[i] = all[j] => i = j
  <2>1. ASSUME NEW i \in 1..c, NEW j \in 1..c, i < j PROVE all[i] # all[j]
    BY <1>2, <1>3, <2>1
  <2>2. \A i, j \in 1..c : i = j \/ i < j \/ j < i
    BY <1>1
  <2> QED BY <2>1, <2>2
<1>5. \A s \in S : \E i \in 1..c : all[i] = s
  <2>1. all \in Injection(1..c, S)
    BY <1>2, <1>4, Fun_IsInj
  <2>2. Cardinality(1..c) = c
    BY <1>1, FS_Interval
  <2>3. all \in Surjection(1..c, S)
    BY <1>1, <2>1, <2>2, FS_Injection DEF c
  <2> QED BY <2>3 DEF Surjection
<1> QED BY <1>4, <1>5 DEF c

\* In their order, position i has number i - 1.
LEMMA OrderNumbers ==
    ASSUME NEW S, Positions(S), NEW all \in InOrder(S),
           NEW i \in 1..Cardinality(S)
    PROVE  all[i] \in S /\ num(S, all[i]) = i - 1
<1> PICK n \in Nat : S \subseteq 1..n
  BY DEF Positions
<1> DEFINE c == Cardinality(S)
<1>1. IsFiniteSet(S) /\ c \in Nat /\ i \in 1..c
  BY NumType
<1>2. all \in [1..c -> S] /\ \A k, j \in 1..c : k < j => all[k] < all[j]
  BY DEF InOrder
<1>3. \A j \in 1..c : all[j] \in S /\ all[j] \in Nat
  <2>1. \A s \in S : s \in Nat
    OBVIOUS
  <2> QED BY <1>2, <2>1
<1>4. /\ \A k, j \in 1..c : all[k] = all[j] => k = j
      /\ \A s \in S : \E k \in 1..c : all[k] = s
  BY OrderCovers, Zenon
<1> HIDE DEF c
<1> DEFINE B == {k \in S : k < all[i]}
           g == [j \in 1..(i - 1) |-> all[j]]
<1>5. i \in Nat /\ \A j \in 1..(i - 1) : j \in 1..c /\ j < i
  BY <1>1
<1>6. g \in [1..(i - 1) -> B]
  <2>1. ASSUME NEW j \in 1..(i - 1) PROVE all[j] \in B
    BY <1>1, <1>2, <1>3, <1>5
  <2> QED BY <2>1
<1>7. \A j, k \in 1..(i - 1) : g[j] = g[k] => j = k
  BY <1>4, <1>5
<1>8. ASSUME NEW k \in B PROVE \E j \in 1..(i - 1) : g[j] = k
  <2>1. PICK j \in 1..c : all[j] = k
    BY <1>4
  <2>2. ~ (i < j) /\ i # j
    BY <1>1, <1>2, <1>3, <1>8, <2>1
  <2>3. j \in 1..(i - 1)
    BY <1>1, <2>2
  <2> QED BY <2>1, <2>3
<1> HIDE DEF B, g
<1>9. g \in Injection(1..(i - 1), B)
  BY <1>6, <1>7, Fun_IsInj
<1>10. g \in Surjection(1..(i - 1), B)
  BY <1>6, <1>8, Fun_IsSurj
<1>11. IsFiniteSet(B) /\ IsFiniteSet(1..(i - 1))
  BY <1>1, <1>5, FS_Subset, FS_Interval DEF B
<1>12. Cardinality(1..(i - 1)) = Cardinality(B)
  BY <1>9, <1>10, <1>11, FS_Injection
<1>13. Cardinality(1..(i - 1)) = i - 1
  BY <1>5, FS_Interval
<1> QED BY <1>3, <1>12, <1>13 DEF B, num, c

\* A page that fits an int starts and ends where its number says.
LEMMA PageFits ==
    ASSUME NEW request \in [count : Int, per_page : Int], Fits(request),
           NEW start, start = request.count * request.per_page
    PROVE  /\ start \in Nat /\ start_num(request) = start
           /\ end_num(request) = start + request.per_page
<1> DEFINE c == request.count
           p == request.per_page
<1>1. c \in Nat /\ p \in Nat
  BY DEF Fits
<1>2. start \in Nat /\ (c + 1) * p = start + p
  <2> HIDE DEF c, p
  <2>1. start = c * p
    BY DEF c, p
  <2> QED BY <1>1, <2>1
<1>3. end_num(request) = start + p
  BY <1>2 DEF Fits
<1>4. start + p <= IntMax
  BY <1>3, StartEndType
<1>5. start \in 0..IntMax
  BY <1>1, <1>2, <1>4, WidthType
<1> QED BY <1>2, <1>3, <1>5, WrapFits DEF start_num

\* p numbers from start on, and p places from start on.
Numbered(S, start, p) == {s \in S : num(S, s) \in start..((start + p) - 1)}
Slice(S, all, start, p) ==
    {all[i] : i \in {i \in 1..Cardinality(S) : start < i /\ i <= start + p}}

LEMMA SliceOf ==
    ASSUME NEW S, Positions(S), NEW all \in InOrder(S),
           NEW start \in Nat, NEW p \in Nat
    PROVE  Numbered(S, start, p) = Slice(S, all, start, p)
<1> DEFINE c == Cardinality(S)
           P == {s \in S : num(S, s) \in start..((start + p) - 1)}
<1>1. c \in Nat
  BY NumType
<1>2. \A i \in 1..c : all[i] \in S /\ num(S, all[i]) = i - 1
  BY OrderNumbers
<1>3. \A s \in S : \E i \in 1..c : all[i] = s
  BY OrderCovers, Zenon
<1> HIDE DEF c
<1>4. ASSUME NEW i \in 1..c
      PROVE  num(S, all[i]) \in start..((start + p) - 1) <=> start < i /\ i <= start + p
  BY <1>1, <1>2
<1>5. ASSUME NEW s \in P
      PROVE  \E i \in 1..c : start < i /\ i <= start + p /\ all[i] = s
  BY <1>3, <1>4
<1>6. ASSUME NEW i \in 1..c, start < i, i <= start + p
      PROVE  all[i] \in P
  BY <1>2, <1>4, <1>6
<1> QED BY <1>5, <1>6 DEF c, Numbered, Slice

\* A page that fits is the slice of the list that its number names.
LEMMA PageSlice ==
    ASSUME NEW S, Positions(S),
           NEW request \in [count : Int, per_page : Int], Fits(request),
           NEW all \in InOrder(S)
    PROVE  LET start == request.count * request.per_page
               slice == {i \in 1..Cardinality(S) :
                           start < i /\ i <= start + request.per_page}
           IN  Page(S, request) = {all[i] : i \in slice}
<1>1. PICK start : start = request.count * request.per_page
  OBVIOUS
<1>2. PICK p : p = request.per_page
  OBVIOUS
<1>3. /\ start \in Nat /\ start_num(request) = start /\ end_num(request) = start + p
      /\ p \in Nat
  BY <1>1, <1>2, PageFits DEF Fits
<1>4. Page(S, request) = Numbered(S, start, p)
  BY <1>3 DEF Page, Numbered
<1>5. Numbered(S, start, p) = Slice(S, all, start, p)
  BY <1>3, SliceOf
<1> QED BY <1>1, <1>2, <1>4, <1>5 DEF Slice
-----------------------------------------------------------------------------
(* What every state satisfies                                               *)

HandlerTypes ==
    \/ handler = Idle
    \/ /\ handler = [at |-> handler.at, who |-> handler.who,
                     request |-> handler.request, list |-> handler.list,
                     page |-> handler.page, items |-> handler.items,
                     user_tag |-> handler.user_tag]
       /\ handler.at \in {"source", "destination"}
       /\ handler.who \in {"client", "anybody"}

\* The page of the history that is served.
Serving ==
    handler # Idle =>
        /\ handler.request \in [count : Int, per_page : Int]
        /\ handler.list \in Seq(Transaction) /\ Len(handler.list) <= MaxBlocks
        /\ handler.page = Page(Transfers(handler.list), handler.request)
        /\ handler.who = "client" => client.page >= 0

ClientTypes ==
    /\ client = [page |-> client.page, per_page |-> client.per_page,
                 goal |-> client.goal, seen |-> client.seen, done |-> client.done]
    /\ client.page \in Int /\ client.per_page \in Nat /\ client.done \in BOOLEAN
    /\ client.page >= 0 => client.per_page \in ClientPerPage
    /\ client.done => client.page >= 0

BlocksType == blocks \in Seq(Transaction) /\ Len(blocks) <= MaxBlocks

\* The answers that show a page of a list, and the one that cuts a list short.
Shown ==
    /\ reply.query \in {"account_history", "query_online_tx"} =>
        /\ reply.request \in [count : Int, per_page : Int]
        /\ Positions(reply.shown)
        /\ reply.page = Page(reply.shown, reply.request)
        /\ reply.count = Cardinality(reply.shown)
    /\ reply.query = "account_pending" =>
        /\ reply.request \in [count : Int, per_page : Int]
        /\ \E n \in Nat : reply.page = {i \in 1..n : i - 1 < reply.request.count}

\* The accounts of every item are in tags, with the name the item shows.
Agree(items, tags) ==
    /\ \E S : items \in Seq(S)
    /\ \A k \in DOMAIN items :
        /\ items[k].source \in DOMAIN tags
        /\ items[k].source_tag = tags[items[k].source]
        /\ items[k].destination \in DOMAIN tags
        /\ items[k].destination_tag = tags[items[k].destination]

Tags ==
    /\ handler # Idle =>
        /\ Agree(handler.items, handler.user_tag)
        /\ handler.at = "destination" => NextItem.source \in DOMAIN handler.user_tag
    /\ reply.query = "account_history" => \E tags : Agree(reply.items, tags)

\* The number that the history gives to the transaction at place g of the store.
Rank(list, g) == num(Transfers(list), (Len(list) + 1) - g)

\* What the client is after is in the store, and is seen already or comes at
\* the next page or after it; the page it asked for shows the same.
Reading ==
    /\ client.goal \subseteq Transfers(blocks)
    /\ client.page >= 0 /\ ~ client.done =>
        /\ client.page * client.per_page <= MaxBlocks
        /\ \A g \in client.goal :
            g \in client.seen \/ client.page * client.per_page <= Rank(Reverse(blocks), g)
    /\ handler # Idle /\ handler.who = "client" =>
        /\ client.page >= 0 /\ ~ client.done
        /\ handler.request = [count |-> client.page, per_page |-> client.per_page]
        /\ \A g \in client.goal :
            /\ (Len(handler.list) + 1) - g \in Transfers(handler.list)
            /\ Rank(handler.list, g) <= Rank(Reverse(blocks), g)
            /\ g \in client.seen \/ client.page * client.per_page <= Rank(handler.list, g)
    /\ NothingSkipped

-----------------------------------------------------------------------------
(* The store, the handler and the answers                                   *)

LEMMA TransfersPositions ==
    ASSUME NEW S, NEW list \in Seq(S)
    PROVE  Positions(Transfers(list)) /\ Transfers(list) \subseteq 1..Len(list)
<1>1. Len(list) \in Nat /\ DOMAIN list = 1..Len(list)
  OBVIOUS
<1>2. Transfers(list) \subseteq 1..Len(list)
  BY <1>1 DEF Transfers
<1> QED BY <1>1, <1>2 DEF Positions

LEMMA ReverseType ==
    ASSUME NEW S, NEW s \in Seq(S)
    PROVE  /\ Reverse(s) \in Seq(S) /\ Len(Reverse(s)) = Len(s)
           /\ \A i \in 1..Len(s) : Reverse(s)[i] = s[(Len(s) - i) + 1]
<1>1. Len(s) \in Nat /\ \A i \in 1..Len(s) : s[i] \in S
  OBVIOUS
<1>2. \A i \in 1..Len(s) : (Len(s) - i) + 1 \in 1..Len(s)
  BY <1>1
<1> DEFINE n == Len(s)
           r == [i \in 1..n |-> s[(n - i) + 1]]
<1>3. r = Reverse(s)
  BY DEF Reverse
<1>4. n \in Nat /\ r \in [1..n -> S]
  BY <1>1, <1>2
<1> HIDE DEF n, r
<1>5. r \in Seq(S) /\ Len(r) = n
  BY <1>4
<1> QED BY <1>2, <1>3, <1>5 DEF n, r

LEMMA ClientRequest ==
    ASSUME ClientTypes
    PROVE  [count |-> client.page, per_page |-> client.per_page]
               \in [count : Int, per_page : Int]
BY DEF ClientTypes

LEMMA StartTypes ==
    ASSUME BlocksType, NEW who \in {"client", "anybody"},
           NEW request \in [count : Int, per_page : Int],
           account_history(who, request), who = "client" => client'.page >= 0
    PROVE  HandlerTypes' /\ Serving' /\ BlocksType'
<1>1. handler' = [at |-> "source", who |-> who, request |-> request,
                  list |-> Reverse(blocks), page |-> Page(Transfers(Reverse(blocks)), request),
                  items |-> <<>>, user_tag |-> <<>>]
  BY DEF account_history
<1>2. Reverse(blocks) \in Seq(Transaction) /\ Len(Reverse(blocks)) <= MaxBlocks
  BY ReverseType DEF BlocksType
<1>3. HandlerTypes'
  BY <1>1 DEF HandlerTypes
<1>4. Serving'
  BY <1>1, <1>2 DEF Serving
<1>5. BlocksType'
  BY DEF account_history, store, BlocksType
<1> QED BY <1>3, <1>4, <1>5

\* What the steps that go on with a history leave alone.
LEMMA ItemTypes ==
    ASSUME HandlerTypes, Serving, BlocksType, ClientTypes,
           set_property_value_source \/ set_property_value_destination
    PROVE  HandlerTypes' /\ Serving' /\ BlocksType' /\ ClientTypes'
<1>1. handler # Idle
  BY DEF set_property_value_source, set_property_value_destination, Idle
<1>2. \E at \in {"source", "destination"} : \E items, tags :
        handler' = [handler EXCEPT !.at = at, !.items = items, !.user_tag = tags]
  <2>1. CASE set_property_value_source
    <3>1. handler' = [handler EXCEPT !.at = "destination",
                                     !.user_tag = user_tag(NextItem.source)]
      BY <2>1 DEF set_property_value_source
    <3>2. handler' = [handler EXCEPT !.at = "destination", !.items = handler.items,
                                     !.user_tag = user_tag(NextItem.source)]
      BY <1>1, <3>1 DEF HandlerTypes
    <3> QED BY <3>2
  <2>2. CASE set_property_value_destination
    <3>1. PICK item, tags :
            handler' = [handler EXCEPT !.at = "source", !.user_tag = tags,
                                       !.items = Append(@, item)]
      BY <2>2 DEF set_property_value_destination
    <3>2. handler' = [handler EXCEPT !.at = "source", !.items = Append(handler.items, item),
                                     !.user_tag = tags]
      BY <1>1, <3>1 DEF HandlerTypes
    <3> QED BY <3>2
  <2> QED BY <2>1, <2>2
<1>3. PICK at \in {"source", "destination"} : \E items, tags :
        handler' = [at |-> at, who |-> handler.who, request |-> handler.request,
                    list |-> handler.list, page |-> handler.page,
                    items |-> items, user_tag |-> tags]
  BY <1>1, <1>2 DEF HandlerTypes
<1>4. PICK items, tags :
        handler' = [at |-> at, who |-> handler.who, request |-> handler.request,
                    list |-> handler.list, page |-> handler.page,
                    items |-> items, user_tag |-> tags]
  BY <1>3
<1>5. HandlerTypes'
  BY <1>1, <1>3, <1>4 DEF HandlerTypes
<1>6. Serving'
  <2>1. UNCHANGED client
    BY DEF set_property_value_source, set_property_value_destination
  <2> QED BY <1>1, <1>4, <2>1 DEF Serving
<1>7. BlocksType' /\ ClientTypes'
  BY DEF set_property_value_source, set_property_value_destination, store, BlocksType,
         ClientTypes
<1> QED BY <1>5, <1>6, <1>7

Types == HandlerTypes /\ Serving /\ BlocksType /\ ClientTypes

LEMMA BoundTypes == MaxBlocks \in Nat /\ ClientPerPage \subseteq Nat \ {0}
BY HistoryConstants

LEMMA TypesInit == Init => Types
<1> SUFFICES ASSUME Init PROVE Types
  OBVIOUS
<1>1. BlocksType
  <2>1. <<>> \in Seq(Transaction) /\ Len(<<>>) = 0
    OBVIOUS
  <2>2. blocks = <<>>
    BY DEF Init
  <2>3. 0 <= MaxBlocks
    BY BoundTypes
  <2> QED BY <2>1, <2>2, <2>3 DEF BlocksType
<1>2. HandlerTypes /\ Serving
  BY DEF Init, HandlerTypes, Serving
<1>3. ClientTypes
  <2>1. client = [page |-> -1, per_page |-> 0, goal |-> {}, seen |-> {}, done |-> FALSE]
    BY DEF Init
  <2> QED BY <2>1 DEF ClientTypes
<1> QED BY <1>1, <1>2, <1>3 DEF Types

LEMMA TypesNext == Types /\ [Next]_vars => Types'
<1> SUFFICES ASSUME Types, [Next]_vars PROVE Types'
  OBVIOUS
<1> USE DEF Types
<1>1. CASE UNCHANGED vars
  BY <1>1 DEF vars, store, HandlerTypes, Serving, BlocksType, ClientTypes
<1>2. CASE Ask
  <2>1. CASE /\ client.page >= 0
             /\ account_history("client",
                    [count |-> client.page, per_page |-> client.per_page])
             /\ UNCHANGED client
    <3>1. ClientTypes'
      BY <2>1 DEF ClientTypes
    <3>2. client'.page >= 0
      BY <2>1
    <3> QED BY <2>1, <3>1, <3>2, ClientRequest, StartTypes
  <2>2. ASSUME NEW request \in Request, account_history("anybody", request), UNCHANGED client
        PROVE  Types'
    <3>1. ClientTypes'
      BY <2>2 DEF ClientTypes
    <3>2. request \in [count : Int, per_page : Int]
      BY HistoryConstants
    <3> QED BY <2>2, <3>1, <3>2, StartTypes
  <2>3. ASSUME NEW request \in Request, account_pending(request) \/ query_online_tx(request)
        PROVE  Types'
    <3>1. UNCHANGED <<blocks, name, handler, client>>
      BY <2>3 DEF account_pending, query_online_tx, store
    <3> QED BY <3>1 DEF HandlerTypes, Serving, BlocksType, ClientTypes
  <2> QED BY <1>2, <2>1, <2>2, <2>3 DEF Ask
<1>3. CASE Answered
  <2>0. handler # Idle
    BY <1>3 DEF Answered, account_history_reply, Idle
  <2>1. handler' = Idle /\ BlocksType'
    BY <1>3 DEF Answered, account_history_reply, store, BlocksType
  <2>2. HandlerTypes' /\ Serving'
    BY <2>1 DEF HandlerTypes, Serving
  <2>3. ClientTypes'
    <3>1. CASE handler.who = "client"
      <4>1. client.page >= 0 /\ client.page \in Int
        BY <2>0, <3>1 DEF Serving, ClientTypes
      <4> DEFINE seen == client.seen \cup
                             {Len(handler.list) + 1 - i : i \in handler.page}
                 done == reply'.count <= (client.page + 1) * client.per_page
      <4>2. client' = [client EXCEPT !.page = @ + 1,
                !.seen = @ \cup {Len(handler.list) + 1 - i : i \in handler.page},
                !.done = reply'.count <= (client.page + 1) * client.per_page]
        BY <1>3, <3>1, Zenon DEF Answered
      <4>3. client' = [page |-> client.page + 1, per_page |-> client.per_page,
                       goal |-> client.goal, seen |-> seen, done |-> done]
        BY <4>2 DEF ClientTypes
      <4>4. done \in BOOLEAN
        OBVIOUS
      <4> HIDE DEF seen, done
      <4> QED BY <4>1, <4>3, <4>4 DEF ClientTypes
    <3>2. CASE handler.who # "client"
      BY <1>3, <3>2 DEF Answered, ClientTypes
    <3> QED BY <3>1, <3>2
  <2> QED BY <2>1, <2>2, <2>3
<1>4. CASE set_property_value_source \/ set_property_value_destination
  BY <1>4, ItemTypes
<1>5. CASE Settle
  <2>1. BlocksType'
    <3>1. PICK t \in Transaction : blocks' = Append(blocks, t)
      BY <1>5 DEF Settle
    <3>2. Len(blocks) < MaxBlocks /\ Len(blocks) \in Nat /\ MaxBlocks \in Nat
      BY <1>5, BoundTypes DEF Settle, BlocksType
    <3>3. Append(blocks, t) \in Seq(Transaction) /\ Len(Append(blocks, t)) = Len(blocks) + 1
      BY DEF BlocksType
    <3> QED BY <3>1, <3>2, <3>3 DEF BlocksType
  <2>2. UNCHANGED <<handler, client>>
    BY <1>5 DEF Settle
  <2>3. HandlerTypes' /\ Serving' /\ ClientTypes'
    BY <2>2 DEF HandlerTypes, Serving, ClientTypes
  <2> QED BY <2>1, <2>3
<1>6. CASE SetName
  BY <1>6 DEF SetName, HandlerTypes, Serving, BlocksType, ClientTypes
<1>7. CASE Begin
  <2>1. UNCHANGED <<blocks, handler>>
    BY <1>7 DEF Begin, store
  <2>2. PICK per_page \in ClientPerPage :
          client' = [page |-> 0, per_page |-> per_page, goal |-> Transfers(blocks),
                     seen |-> {}, done |-> FALSE]
    BY <1>7 DEF Begin
  <2>3. ClientTypes'
    BY <2>2, BoundTypes DEF ClientTypes
  <2>4. client'.page >= 0
    BY <2>2
  <2> QED BY <2>1, <2>3, <2>4 DEF HandlerTypes, Serving, BlocksType
<1>8. ASSUME NEW a \in Account, account_delete(a)
      PROVE  Types'
  <2>1. UNCHANGED handler /\ (blocks' = <<>> \/ blocks' = blocks)
    BY <1>8 DEF account_delete
  <2>2. <<>> \in Seq(Transaction) /\ Len(<<>>) = 0 /\ 0 <= MaxBlocks
    BY BoundTypes
  <2>3. BlocksType'
    BY <2>1, <2>2 DEF BlocksType
  <2>4. client' = client \/ client' = [client EXCEPT !.goal = {}]
    BY <1>8 DEF account_delete
  <2>5. \E goal : client' = [page |-> client.page, per_page |-> client.per_page,
                             goal |-> goal, seen |-> client.seen, done |-> client.done]
    BY <2>4 DEF ClientTypes
  <2>6. ClientTypes' /\ client'.page = client.page
    BY <2>5 DEF ClientTypes
  <2> QED BY <2>1, <2>3, <2>6 DEF HandlerTypes, Serving
<1> QED BY <1>1, <1>2, <1>3, <1>4, <1>5, <1>6, <1>7, <1>8 DEF Next
-----------------------------------------------------------------------------
(* Pages                                                                    *)

LEMMA ShownNext == Types /\ Shown /\ [Next]_vars => Shown'
<1> SUFFICES ASSUME Types, Shown, [Next]_vars PROVE Shown'
  OBVIOUS
<1>1. CASE UNCHANGED vars
  BY <1>1 DEF vars, Shown
<1>2. CASE reply' = NoReply
  BY <1>2 DEF NoReply, Shown
<1>3. CASE Answered
  <2>1. handler # Idle
    BY <1>3 DEF Answered, account_history_reply, Idle
  <2>2. reply' = [query |-> "account_history", request |-> handler.request,
                  shown |-> Transfers(handler.list), page |-> handler.page,
                  items |-> handler.items, count |-> Cardinality(Transfers(handler.list))]
    BY <1>3 DEF Answered, account_history_reply, Reply
  <2>3. /\ handler.request \in [count : Int, per_page : Int]
        /\ Positions(Transfers(handler.list))
        /\ handler.page = Page(Transfers(handler.list), handler.request)
    BY <2>1, TransfersPositions DEF Types, Serving
  <2> QED BY <2>2, <2>3 DEF Shown, Positions
<1>4. ASSUME NEW request \in Request, account_pending(request)
      PROVE  Shown'
  <2>1. PICK n \in 0..MaxBlocks :
          reply' = [query |-> "account_pending", request |-> request, shown |-> 1..n,
                    page |-> {i \in 1..n : i - 1 < request.count}, items |-> <<>>,
                    count |-> Cardinality(1..n)]
    BY <1>4 DEF account_pending, Reply
  <2>2. request \in [count : Int, per_page : Int]
    BY HistoryConstants
  <2> QED BY <2>1, <2>2 DEF Shown
<1>5. ASSUME NEW request \in Request, query_online_tx(request)
      PROVE  Shown'
  <2>1. CASE reply' = [query |-> "xrpc_server_unkown_err"]
    BY <2>1 DEF Shown
  <2>2. ASSUME NEW n \in 0..MaxBlocks,
               Reply("query_online_tx", request, 1..n, Page(1..n, request), <<>>)
        PROVE  Shown'
    <3>1. request \in [count : Int, per_page : Int]
      BY HistoryConstants
    <3>2. Positions(1..n)
      <4>1. n \in Nat
        BY <2>2, BoundTypes
      <4> QED BY <4>1 DEF Positions
    <3>3. reply' = [query |-> "query_online_tx", request |-> request, shown |-> 1..n,
                    page |-> Page(1..n, request), items |-> <<>>, count |-> Cardinality(1..n)]
      BY <2>2 DEF Reply
    <3> QED BY <3>1, <3>2, <3>3 DEF Shown, Positions
  <2> QED BY <1>5, <2>1, <2>2 DEF query_online_tx
<1>6. ASSUME NEW who, NEW request, account_history(who, request)
      PROVE  reply' = NoReply
  BY <1>6 DEF account_history
<1> QED BY <1>1, <1>2, <1>3, <1>4, <1>5, <1>6 DEF Next, Ask, set_property_value_source,
       set_property_value_destination, Settle, SetName, Begin, account_delete

PagesInv == Types /\ Shown

LEMMA PagesInvariant == Spec => []PagesInv
<1>1. Init => PagesInv
  <2>1. Init => Shown
    <3>1. Init => reply = NoReply
      BY DEF Init
    <3> QED BY <3>1 DEF NoReply, Shown
  <2> QED BY <2>1, TypesInit DEF PagesInv
<1>2. PagesInv /\ [Next]_vars => PagesInv'
  BY TypesNext, ShownNext DEF PagesInv
<1> QED BY <1>1, <1>2, PTL DEF Spec

\* Whatever overflows, no page of a history, of the online transactions or of
\* the pending ones has more transactions than a request asked for, unless a
\* negative number was (xrpc_handler.cpp:291, 310, 370, 576 and 589).
THEOREM PageBoundedHolds == Spec => []PageBounded
<1>1. PagesInv => PageBounded
  <2> SUFFICES ASSUME PagesInv PROVE PageBounded
    OBVIOUS
  <2>1. ASSUME reply.query \in {"account_history", "query_online_tx"},
               reply.request.per_page >= 0
        PROVE  Cardinality(reply.page) <= reply.request.per_page
    <3>1. PICK request \in [count : Int, per_page : Int] : reply.request = request
      BY <2>1 DEF PagesInv, Shown
    <3>2. Positions(reply.shown) /\ reply.page = Page(reply.shown, request)
      BY <2>1, <3>1 DEF PagesInv, Shown
    <3> QED BY <2>1, <3>1, <3>2, PageHolds
  <2>2. ASSUME reply.query = "account_pending", reply.request.count >= 0
        PROVE  Cardinality(reply.page) <= reply.request.count
    <3>1. PICK c \in Nat : c = reply.request.count
      BY <2>2 DEF PagesInv, Shown
    <3>2. PICK n \in Nat : reply.page = {i \in 1..n : i - 1 < c}
      BY <2>2, <3>1 DEF PagesInv, Shown
    <3>3. reply.page \in SUBSET (1..c)
      <4>1. \A i \in 1..n : i - 1 < c => i \in 1..c
        BY <3>1
      <4> QED BY <3>2, <4>1
    <3>4. IsFiniteSet(1..c) /\ Cardinality(1..c) = c
      <4>1. c \in Int /\ 1 \in Int
        BY <3>1
      <4>2. IsFiniteSet(1..c) /\ Cardinality(1..c) = IF 1 > c THEN 0 ELSE c - 1 + 1
        BY <4>1, FS_Interval
      <4> QED BY <3>1, <4>2
    <3>5. Cardinality(reply.page) <= Cardinality(1..c)
      BY <3>3, <3>4, FS_Subset
    <3> QED BY <3>1, <3>4, <3>5
  <2> QED BY <2>1, <2>2 DEF PageBounded
<1> QED BY <1>1, PagesInvariant, PTL

\* A page whose end fits an int is the slice of the transfers that its number
\* names (xrpc_handler.cpp:289-332 and 574-602).
THEOREM PageIsSliceHolds == Spec => []PageIsSlice
<1>1. PagesInv => PageIsSlice
  <2> SUFFICES ASSUME PagesInv, reply.query \in {"account_history", "query_online_tx"},
                      Fits(reply.request)
               PROVE  LET start == reply.request.count * reply.request.per_page
                          slice == {i \in 1..reply.count :
                                      start < i /\ i <= start + reply.request.per_page}
                      IN  \E all \in InOrder(reply.shown) : reply.page = {all[i] : i \in slice}
    BY DEF PageIsSlice
  <2>1. /\ reply.request \in [count : Int, per_page : Int]
        /\ Positions(reply.shown)
        /\ reply.page = Page(reply.shown, reply.request)
        /\ reply.count = Cardinality(reply.shown)
    BY DEF PagesInv, Shown
  <2>2. PICK all : all \in InOrder(reply.shown)
    BY <2>1, OrderExists
  <2>3. LET start == reply.request.count * reply.request.per_page
            slice == {i \in 1..Cardinality(reply.shown) :
                        start < i /\ i <= start + reply.request.per_page}
        IN  Page(reply.shown, reply.request) = {all[i] : i \in slice}
    BY <2>1, <2>2, PageSlice
  <2> QED BY <2>1, <2>2, <2>3
<1> QED BY <1>1, PagesInvariant, PTL
-----------------------------------------------------------------------------
(* Names                                                                    *)

LEMMA AgreeGrows ==
    ASSUME NEW items, NEW tags, NEW new, Agree(items, tags),
           DOMAIN tags \subseteq DOMAIN new, \A b \in DOMAIN tags : new[b] = tags[b]
    PROVE  Agree(items, new)
BY DEF Agree

LEMMA AgreeAppend ==
    ASSUME NEW items, NEW tags, NEW item, Agree(items, tags),
           item.source \in DOMAIN tags, item.source_tag = tags[item.source],
           item.destination \in DOMAIN tags, item.destination_tag = tags[item.destination]
    PROVE  Agree(Append(items, item), tags)
<1> DEFINE new == Append(items, item)
<1>1. PICK S : items \in Seq(S)
  BY DEF Agree
<1>2. items \in Seq(S \cup {item})
  BY <1>1
<1>3. new \in Seq(S \cup {item}) /\ DOMAIN new = 1..(Len(items) + 1)
  BY <1>2
<1>4. \A k \in DOMAIN new : new[k] = item \/ (k \in DOMAIN items /\ new[k] = items[k])
  BY <1>2
<1> HIDE DEF new
<1>5. ASSUME NEW k \in DOMAIN new
      PROVE  /\ new[k].source \in DOMAIN tags
             /\ new[k].source_tag = tags[new[k].source]
             /\ new[k].destination \in DOMAIN tags
             /\ new[k].destination_tag = tags[new[k].destination]
  <2>1. CASE new[k] = item
    BY <2>1
  <2>2. CASE k \in DOMAIN items /\ new[k] = items[k]
    BY <2>2 DEF Agree
  <2> QED BY <1>4, <2>1, <2>2
<1> QED BY <1>3, <1>5 DEF Agree, new

\* A name that is known stays as it is.
LEMMA UserTag ==
    ASSUME NEW a
    PROVE  /\ a \in DOMAIN user_tag(a)
           /\ DOMAIN handler.user_tag \subseteq DOMAIN user_tag(a)
           /\ \A b \in DOMAIN handler.user_tag : user_tag(a)[b] = handler.user_tag[b]
BY DEF user_tag

LEMMA TagsNext == Types /\ Tags /\ [Next]_vars => Tags'
<1> SUFFICES ASSUME Types, Tags, [Next]_vars PROVE Tags'
  OBVIOUS
<1>1. CASE UNCHANGED vars
  BY <1>1 DEF vars, Tags, NextItem
<1>2. CASE UNCHANGED handler /\ reply'.query # "account_history"
  BY <1>2 DEF Tags, NextItem
<1>3. CASE Answered
  <2>1. handler # Idle
    BY <1>3 DEF Answered, account_history_reply, Idle
  <2>2. handler' = Idle /\ reply'.items = handler.items
    BY <1>3 DEF Answered, account_history_reply, Reply
  <2>3. Agree(handler.items, handler.user_tag)
    BY <2>1 DEF Tags
  <2> QED BY <2>2, <2>3 DEF Tags
<1>4. ASSUME NEW who, NEW request, account_history(who, request)
      PROVE  Tags'
  <2>1. /\ handler'.at = "source" /\ handler'.items = <<>> /\ handler'.user_tag = <<>>
        /\ reply' = NoReply
    BY <1>4 DEF account_history
  <2>2. reply'.query # "account_history"
    BY <2>1 DEF NoReply
  <2>3. Agree(<<>>, <<>>)
    BY DEF Agree
  <2> QED BY <2>1, <2>2, <2>3 DEF Tags
<1>5. CASE set_property_value_source
  <2> DEFINE new == user_tag(NextItem.source)
  <2>1. handler # Idle
    BY <1>5 DEF set_property_value_source, Idle
  <2>2. PICK tags : tags = new
    OBVIOUS
  <2>3. handler' = [at |-> "destination", who |-> handler.who, request |-> handler.request,
                    list |-> handler.list, page |-> handler.page,
                    items |-> handler.items, user_tag |-> tags]
    <3>1. handler' = [handler EXCEPT !.at = "destination", !.user_tag = tags]
      BY <1>5, <2>2 DEF set_property_value_source
    <3> QED BY <2>1, <3>1 DEF Types, HandlerTypes
  <2>4. reply'.query # "account_history"
    BY <1>5 DEF set_property_value_source, NoReply
  <2>5. Agree(handler.items, tags)
    <3>1. Agree(handler.items, handler.user_tag)
      BY <2>1 DEF Tags
    <3>2. /\ DOMAIN handler.user_tag \subseteq DOMAIN tags
          /\ \A b \in DOMAIN handler.user_tag : tags[b] = handler.user_tag[b]
      BY <2>2, UserTag, Zenon
    <3> QED BY <3>1, <3>2, AgreeGrows, Zenon
  <2>6. NextItem' = NextItem
    BY <2>3 DEF NextItem
  <2>7. NextItem.source \in DOMAIN tags
    BY <2>2, UserTag
  <2> QED BY <2>3, <2>4, <2>5, <2>6, <2>7 DEF Tags
<1>6. CASE set_property_value_destination
  <2>1. handler # Idle /\ handler.at = "destination"
    BY <1>6 DEF set_property_value_destination, Idle
  <2>2. PICK tags : tags = user_tag(NextItem.destination)
    OBVIOUS
  <2> DEFINE item == [source          |-> NextItem.source,
                      source_tag      |-> handler.user_tag[NextItem.source],
                      destination     |-> NextItem.destination,
                      destination_tag |-> tags[NextItem.destination]]
  <2>3. handler' = [at |-> "source", who |-> handler.who, request |-> handler.request,
                    list |-> handler.list, page |-> handler.page,
                    items |-> Append(handler.items, item), user_tag |-> tags]
    <3>1. handler' = [handler EXCEPT !.at = "source", !.user_tag = tags,
                                     !.items = Append(handler.items, item)]
      BY <1>6, <2>2 DEF set_property_value_destination
    <3> QED BY <2>1, <3>1 DEF Types, HandlerTypes
  <2>4. reply'.query # "account_history"
    BY <1>6 DEF set_property_value_destination, NoReply
  <2>5. /\ NextItem.destination \in DOMAIN tags
        /\ DOMAIN handler.user_tag \subseteq DOMAIN tags
        /\ \A b \in DOMAIN handler.user_tag : tags[b] = handler.user_tag[b]
    BY <2>2, UserTag, Zenon
  <2>6. Agree(handler.items, handler.user_tag) /\ NextItem.source \in DOMAIN handler.user_tag
    BY <2>1 DEF Tags
  <2>7. Agree(handler.items, tags)
    BY <2>5, <2>6, AgreeGrows, Zenon
  <2>8. Agree(Append(handler.items, item), tags)
    <3>1. /\ item.source \in DOMAIN tags /\ item.source_tag = tags[item.source]
          /\ item.destination \in DOMAIN tags /\ item.destination_tag = tags[item.destination]
      BY <2>5, <2>6
    <3> HIDE DEF item
    <3> QED BY <2>7, <3>1, AgreeAppend, Zenon
  <2> HIDE DEF item
  <2> QED BY <2>3, <2>4, <2>8 DEF Tags
<1>7. ASSUME NEW request \in Request, account_pending(request) \/ query_online_tx(request)
      PROVE  UNCHANGED handler /\ reply'.query # "account_history"
  BY <1>7 DEF account_pending, query_online_tx, Reply
<1>8. CASE Settle \/ SetName \/ Begin
  BY <1>2, <1>8 DEF Settle, SetName, Begin, NoReply, store
<1>9. ASSUME NEW a \in Account, account_delete(a)
      PROVE  Tags'
  <2>1. UNCHANGED handler /\ reply' = NoReply
    BY <1>9 DEF account_delete
  <2> QED BY <1>2, <2>1 DEF NoReply
<1> QED BY <1>1, <1>2, <1>3, <1>4, <1>5, <1>6, <1>7, <1>8, <1>9 DEF Next, Ask

NamesInv == Types /\ Tags

LEMMA NamesInvariant == Spec => []NamesInv
<1>1. Init => NamesInv
  <2>1. Init => handler = Idle /\ reply = NoReply
    BY DEF Init
  <2>2. Init => Tags
    BY <2>1 DEF Tags, NoReply
  <2> QED BY <2>2, TypesInit DEF NamesInv
<1>2. NamesInv /\ [Next]_vars => NamesInv'
  BY TypesNext, TagsNext DEF NamesInv
<1> QED BY <1>1, <1>2, PTL DEF Spec

\* In one answer of account_history an account has one name throughout, although
\* names change while the items are put together (xrpc_handler.cpp:240-283 and
\* 300-330).
THEOREM OneNameEachHolds == Spec => []OneNameEach
<1>1. NamesInv => OneNameEach
  <2> SUFFICES ASSUME NamesInv, reply.query = "account_history"
               PROVE  OneNameEach
    BY DEF OneNameEach
  <2>1. PICK tags : Agree(reply.items, tags)
    BY DEF NamesInv, Tags
  <2> DEFINE named == {<<reply.items[i].source, reply.items[i].source_tag>> :
                           i \in DOMAIN reply.items}
                      \cup {<<reply.items[i].destination, reply.items[i].destination_tag>> :
                           i \in DOMAIN reply.items}
  <2>2. ASSUME NEW x \in named PROVE x[2] = tags[x[1]]
    BY <2>1 DEF Agree
  <2>3. \A x, y \in named : x[1] = y[1] => x[2] = y[2]
    <3> HIDE DEF named
    <3> QED BY <2>2
  <2> QED BY <2>3 DEF OneNameEach
<1> QED BY <1>1, NamesInvariant, PTL
-----------------------------------------------------------------------------
(* The client that reads all pages                                          *)

LEMMA RankType ==
    ASSUME NEW S, NEW list \in Seq(S), NEW g
    PROVE  Rank(list, g) \in Nat
BY TransfersPositions, NumType DEF Rank

\* The history shows the transaction at place g of the store.
LEMMA PlaceShown ==
    ASSUME NEW S, NEW list \in Seq(S), NEW g \in Transfers(list)
    PROVE  /\ (Len(Reverse(list)) + 1) - g \in Transfers(Reverse(list))
           /\ g \in 1..Len(list)
<1> DEFINE n == Len(list)
           i == (n + 1) - g
<1>1. n \in Nat /\ g \in 1..n
  BY TransfersPositions
<1>2. i \in 1..n /\ (n - i) + 1 = g
  BY <1>1
<1>3. Len(Reverse(list)) = n /\ Reverse(list)[i] = list[g] /\ DOMAIN Reverse(list) = 1..n
  <2>1. Reverse(list) \in Seq(S) /\ Len(Reverse(list)) = n
    BY ReverseType
  <2>2. Reverse(list)[i] = list[(n - i) + 1]
    BY <1>2, ReverseType
  <2> QED BY <1>2, <2>1, <2>2
<1>4. list[g].type \in {"transfer_asset_in", "transfer_asset_out"}
  BY DEF Transfers
<1> HIDE DEF i
<1> QED BY <1>1, <1>2, <1>3, <1>4 DEF Transfers, i

\* A new block moves the transactions to later places of the history.
LEMMA RankGrows ==
    ASSUME NEW S, NEW list \in Seq(S), NEW t \in S, NEW g \in 1..Len(list)
    PROVE  Rank(Reverse(list), g) <= Rank(Reverse(Append(list, t)), g)
<1> DEFINE n == Len(list)
           longer == Append(list, t)
           A == Reverse(list)
           B == Reverse(longer)
           U == {k \in Transfers(A) : k < (n + 1) - g}
           V == {k \in Transfers(B) : k < (n + 2) - g}
<1>1. n \in Nat /\ g \in Int
  OBVIOUS
<1>2. longer \in Seq(S) /\ Len(longer) = n + 1 /\ \A k \in 1..n : longer[k] = list[k]
  OBVIOUS
<1>3. /\ A \in Seq(S) /\ Len(A) = n
      /\ \A k \in 1..n : A[k] = list[(n - k) + 1]
  BY ReverseType
<1>4. /\ B \in Seq(S) /\ Len(B) = n + 1
      /\ \A k \in 1..(n + 1) : B[k] = longer[((n + 1) - k) + 1]
  <2> HIDE DEF longer, n
  <2> QED BY <1>2, ReverseType
<1>5. Rank(A, g) = Cardinality(U) /\ Rank(B, g) = Cardinality(V)
  <2>1. (Len(A) + 1) - g = (n + 1) - g /\ (Len(B) + 1) - g = (n + 2) - g
    <3> HIDE DEF A, B, n
    <3> QED BY <1>1, <1>3, <1>4
  <2> QED BY <2>1 DEF Rank, num
<1>6. DOMAIN A = 1..n /\ DOMAIN B = 1..(n + 1)
  <2> HIDE DEF A, B, n
  <2> QED BY <1>1, <1>3, <1>4
<1>7. ASSUME NEW k \in 1..n PROVE k + 1 \in 1..(n + 1) /\ B[k + 1] = A[k]
  <2> HIDE DEF A, B, n, longer
  <2>1. k + 1 \in 1..(n + 1) /\ ((n + 1) - (k + 1)) + 1 = (n - k) + 1 /\ (n - k) + 1 \in 1..n
    BY <1>1
  <2>2. B[k + 1] = longer[(n - k) + 1]
    BY <1>4, <2>1
  <2> QED BY <1>2, <1>3, <2>1, <2>2
<1>8. ASSUME NEW k \in U PROVE k \in Int /\ k + 1 \in V
  <2>1. k \in DOMAIN A /\ k < (n + 1) - g
        /\ A[k].type \in {"transfer_asset_in", "transfer_asset_out"}
    BY DEF Transfers
  <2> HIDE DEF A, B, n, longer
  <2>2. k \in 1..n /\ k \in Int /\ k + 1 < (n + 2) - g
    BY <1>1, <1>6, <2>1
  <2>3. k + 1 \in DOMAIN B /\ B[k + 1] = A[k]
    BY <1>6, <1>7, <2>2
  <2> QED BY <2>1, <2>2, <2>3 DEF Transfers
<1> DEFINE f == [k \in U |-> k + 1]
<1> HIDE DEF U, V
<1>9. f \in [U -> V]
  BY <1>8
<1>10. \A j, k \in U : f[j] = f[k] => j = k
  BY <1>8
<1>11. IsFiniteSet(V)
  <2>1. Positions(Transfers(B))
    BY <1>4, TransfersPositions
  <2> HIDE DEF B, n
  <2> QED BY <2>1, NumType DEF V
<1>12. f \in Injection(U, V)
  BY <1>9, <1>10, Fun_IsInj
<1>13. Cardinality(U) <= Cardinality(V)
  BY <1>11, <1>12, FS_Injection
<1> QED BY <1>5, <1>13

\* The lists of the model, and a page more, fit an int.
ListsFit == \A p \in ClientPerPage : MaxBlocks + p <= IntMax

LEMMA ClientPage ==
    ASSUME ListsFit, NEW c \in Nat, NEW p \in ClientPerPage, c * p <= MaxBlocks,
           NEW request, request = [count |-> c, per_page |-> p]
    PROVE  /\ start_num(request) = c * p /\ end_num(request) = (c * p) + p
           /\ (c + 1) * p = (c * p) + p /\ c * p \in Nat /\ p \in Nat \ {0}
<1>1. p \in Nat \ {0} /\ MaxBlocks \in Nat /\ MaxBlocks + p <= IntMax /\ IntMax \in Nat
  BY BoundTypes, WidthType DEF ListsFit
<1>2. (c + 1) * p = (c * p) + p /\ c * p \in Nat /\ c <= c * p
  BY <1>1
<1>3. c * p \in 0..IntMax /\ c + 1 \in 0..IntMax /\ (c + 1) * p \in 0..IntMax
  BY <1>1, <1>2
<1>4. Wrap(c * p) = c * p /\ Wrap(c + 1) = c + 1 /\ Wrap((c + 1) * p) = (c + 1) * p
  BY <1>3, WrapFits
<1> QED BY <1>1, <1>2, <1>4 DEF start_num, end_num

\* A step that leaves the client, the store and the request alone.
LEMMA ReadingKept ==
    ASSUME Reading, UNCHANGED <<blocks, client>>,
           handler' # Idle /\ handler'.who = "client" =>
               /\ handler # Idle /\ handler.who = "client"
               /\ handler'.request = handler.request /\ handler'.list = handler.list
    PROVE  Reading'
BY DEF Reading, NothingSkipped

LEMMA ReadingSettle ==
    ASSUME Types, Reading, Settle
    PROVE  Reading'
<1>1. PICK t \in Transaction : blocks' = Append(blocks, t)
  BY DEF Settle
<1>2. UNCHANGED <<handler, client>>
  BY DEF Settle
<1>3. blocks \in Seq(Transaction) /\ blocks' \in Seq(Transaction)
  BY <1>1 DEF Types, BlocksType
<1>4. ASSUME NEW g \in Transfers(blocks) PROVE g \in Transfers(blocks')
  BY <1>1, <1>3 DEF Transfers
<1>5. ASSUME NEW g \in client.goal, NEW r \in Int, r <= Rank(Reverse(blocks), g)
      PROVE  r <= Rank(Reverse(blocks'), g)
  <2>1. g \in 1..Len(blocks)
    BY <1>3, <1>5, PlaceShown DEF Reading
  <2>2. Rank(Reverse(blocks), g) <= Rank(Reverse(blocks'), g)
    BY <1>1, <1>3, <2>1, RankGrows
  <2>3. Reverse(blocks) \in Seq(Transaction) /\ Reverse(blocks') \in Seq(Transaction)
    BY <1>3, ReverseType
  <2>4. Rank(Reverse(blocks), g) \in Nat /\ Rank(Reverse(blocks'), g) \in Nat
    BY <2>3, RankType
  <2> QED BY <1>5, <2>2, <2>4
<1>6. client.page * client.per_page \in Int
  BY DEF Types, ClientTypes
<1>7. ASSUME handler # Idle, NEW g
      PROVE  Rank(handler.list, g) \in Int
  BY <1>7, RankType DEF Types, Serving
<1>8. client.goal \subseteq Transfers(blocks')
  BY <1>4 DEF Reading
<1>9. client.page >= 0 /\ ~ client.done =>
        /\ client.page * client.per_page <= MaxBlocks
        /\ \A g \in client.goal :
            g \in client.seen \/ client.page * client.per_page <= Rank(Reverse(blocks'), g)
  BY <1>5, <1>6 DEF Reading
<1>10. handler # Idle /\ handler.who = "client" =>
        /\ client.page >= 0 /\ ~ client.done
        /\ handler.request = [count |-> client.page, per_page |-> client.per_page]
        /\ \A g \in client.goal :
            /\ (Len(handler.list) + 1) - g \in Transfers(handler.list)
            /\ Rank(handler.list, g) <= Rank(Reverse(blocks'), g)
            /\ g \in client.seen \/ client.page * client.per_page <= Rank(handler.list, g)
  BY <1>5, <1>7 DEF Reading
<1>11. NothingSkipped'
  BY <1>2 DEF Reading, NothingSkipped
<1> QED BY <1>2, <1>8, <1>9, <1>10, <1>11 DEF Reading

LEMMA ReadingBegin ==
    ASSUME Types, Reading, Begin
    PROVE  Reading'
<1>1. client.page = -1 /\ UNCHANGED <<blocks, handler>>
  BY DEF Begin, store
<1>2. PICK per_page \in ClientPerPage :
        client' = [page |-> 0, per_page |-> per_page, goal |-> Transfers(blocks),
                   seen |-> {}, done |-> FALSE]
  BY DEF Begin
<1>3. 0 * per_page = 0 /\ 0 <= MaxBlocks
  <2>1. per_page \in Nat /\ MaxBlocks \in Nat
    BY BoundTypes
  <2> QED BY <2>1
<1>4. ASSUME NEW g PROVE 0 <= Rank(Reverse(blocks), g)
  <2>1. Reverse(blocks) \in Seq(Transaction)
    BY ReverseType DEF Types, BlocksType
  <2>2. Rank(Reverse(blocks), g) \in Nat
    BY <2>1, RankType
  <2> QED BY <2>2
<1>5. ~ (handler # Idle /\ handler.who = "client")
  BY <1>1 DEF Reading
<1>6. /\ client'.page = 0 /\ client'.per_page = per_page
      /\ client'.goal = Transfers(blocks) /\ client'.done = FALSE
  BY <1>2
<1> QED BY <1>1, <1>3, <1>4, <1>5, <1>6 DEF Reading, NothingSkipped

LEMMA ReadingAsk ==
    ASSUME Types, Reading, client.page >= 0, ~ client.done, UNCHANGED client,
           account_history("client", [count |-> client.page, per_page |-> client.per_page])
    PROVE  Reading'
<1>1. PICK request : request = [count |-> client.page, per_page |-> client.per_page]
  OBVIOUS
<1>2. /\ handler'.who = "client" /\ handler'.request = request
      /\ handler'.list = Reverse(blocks) /\ UNCHANGED blocks
  BY <1>1 DEF account_history, store
<1>3. blocks \in Seq(Transaction) /\ Reverse(blocks) \in Seq(Transaction)
  BY ReverseType DEF Types, BlocksType
<1>4. ASSUME NEW g \in client.goal
      PROVE  /\ (Len(Reverse(blocks)) + 1) - g \in Transfers(Reverse(blocks))
             /\ Rank(Reverse(blocks), g) <= Rank(Reverse(blocks), g)
             /\ g \in client.seen
                \/ client.page * client.per_page <= Rank(Reverse(blocks), g)
  <2>1. Rank(Reverse(blocks), g) \in Nat
    BY <1>3, RankType
  <2>2. Rank(Reverse(blocks), g) <= Rank(Reverse(blocks), g)
    BY <2>1
  <2>3. (Len(Reverse(blocks)) + 1) - g \in Transfers(Reverse(blocks))
    BY <1>3, <1>4, PlaceShown DEF Reading
  <2> QED BY <2>2, <2>3 DEF Reading
<1> QED BY <1>1, <1>2, <1>4, Zenon DEF Reading, NothingSkipped

\* What is not on the page that the client got comes after it, and there is
\* something after it unless the client is done.
LEMMA ReadingAnswered ==
    ASSUME ListsFit, Types, Reading, Answered, handler.who = "client"
    PROVE  Reading'
<1>1. handler # Idle
  BY DEF Answered, account_history_reply, Idle
<1> DEFINE list == handler.list
           S == Transfers(list)
<1>2. PICK c \in Nat, p \in ClientPerPage :
        /\ c = client.page /\ p = client.per_page /\ ~ client.done
        /\ handler.request = [count |-> c, per_page |-> p] /\ c * p <= MaxBlocks
  <2>1. client.page >= 0 /\ client.page \in Int
    BY <1>1 DEF Types, ClientTypes, Serving, Reading
  <2>2. client.page \in Nat /\ client.per_page \in ClientPerPage
    BY <2>1 DEF Types, ClientTypes
  <2> QED BY <1>1, <2>1, <2>2 DEF Reading
<1>3. PICK s \in Nat, e \in Nat :
        /\ s = c * p /\ e = s + p /\ (c + 1) * p = e
        /\ start_num(handler.request) = s /\ end_num(handler.request) = e
  BY <1>2, ClientPage
<1>4. /\ list \in Seq(Transaction) /\ Len(list) \in Nat /\ Len(list) <= MaxBlocks
      /\ MaxBlocks \in Nat /\ handler.page = Page(S, handler.request)
  BY <1>1, BoundTypes DEF Types, Serving
<1>5. Positions(S) /\ S \subseteq 1..Len(list)
  BY <1>4, TransfersPositions
<1>6. handler.page = {i \in S : num(S, i) \in s..(e - 1)}
  BY <1>3, <1>4 DEF Page
<1>7. handler' = Idle /\ UNCHANGED blocks /\ reply'.count = Cardinality(S)
  BY DEF Answered, account_history_reply, Reply, store
<1> DEFINE seen == client.seen \cup {Len(list) + 1 - i : i \in handler.page}
<1>8. client' = [page |-> c + 1, per_page |-> p, goal |-> client.goal,
                 seen |-> seen, done |-> Cardinality(S) <= (c + 1) * p]
  <2>1. client' = [client EXCEPT !.page = @ + 1,
                !.seen = @ \cup {Len(handler.list) + 1 - i : i \in handler.page},
                !.done = reply'.count <= (client.page + 1) * client.per_page]
    BY Zenon DEF Answered
  <2>2. client' = [page |-> client.page + 1, per_page |-> client.per_page,
                   goal |-> client.goal, seen |-> seen,
                   done |-> reply'.count <= (client.page + 1) * client.per_page]
    BY <2>1 DEF Types, ClientTypes
  <2> QED BY <1>2, <1>7, <2>2
<1>9. ASSUME NEW g \in client.goal, g \notin seen
      PROVE  e <= Rank(list, g) /\ e < Cardinality(S) /\ e <= Rank(Reverse(blocks), g)
  <2> DEFINE i == (Len(list) + 1) - g
  <2>1. i \in S /\ Rank(list, g) <= Rank(Reverse(blocks), g) /\ s <= Rank(list, g)
    BY <1>1, <1>2, <1>3, <1>9 DEF Reading
  <2>2. g \in Int
    <3>1. blocks \in Seq(Transaction) /\ g \in Transfers(blocks)
      BY <1>9 DEF Types, BlocksType, Reading
    <3> QED BY <3>1, PlaceShown
  <2>3. Rank(list, g) = num(S, i)
    BY DEF Rank
  <2>4. i \notin handler.page
    <3>1. Len(list) + 1 - i = g
      BY <1>4, <2>2
    <3> QED BY <1>9, <3>1
  <2>5. num(S, i) \in Nat /\ num(S, i) < Cardinality(S) /\ Cardinality(S) \in Nat
    <3> HIDE DEF S, i
    <3> QED BY <1>5, <2>1, NumType, NumGrows
  <2>6. num(S, i) \notin s..(e - 1)
    BY <1>6, <2>1, <2>4
  <2>7. e <= num(S, i)
    <3> HIDE DEF S, i
    <3> QED BY <1>3, <2>1, <2>3, <2>5, <2>6
  <2>8. Rank(Reverse(blocks), g) \in Nat
    <3>1. Reverse(blocks) \in Seq(Transaction)
      BY ReverseType DEF Types, BlocksType
    <3> QED BY <3>1, RankType
  <2> HIDE DEF S, i, list
  <2> QED BY <1>3, <2>1, <2>3, <2>5, <2>7, <2>8
<1>10. Cardinality(S) \in Nat /\ Cardinality(S) <= MaxBlocks
  <2>1. IsFiniteSet(1..Len(list)) /\ Cardinality(1..Len(list)) = Len(list)
    <3>1. Len(list) \in Int /\ 1 \in Int
      BY <1>4
    <3>2. IsFiniteSet(1..Len(list))
          /\ Cardinality(1..Len(list)) = IF 1 > Len(list) THEN 0 ELSE Len(list) - 1 + 1
      BY <3>1, FS_Interval
    <3> QED BY <1>4, <3>2
  <2>2. S \in SUBSET (1..Len(list)) /\ Cardinality(S) \in Nat
    BY <1>5, NumType
  <2>3. Cardinality(S) <= Cardinality(1..Len(list))
    BY <2>1, <2>2, FS_Subset
  <2> HIDE DEF S, list
  <2> QED BY <1>4, <2>1, <2>2, <2>3
<1>11. (c + 1) * p = e /\ c + 1 >= 0
  BY <1>3
<1> HIDE DEF S, list, seen
<1>12. client.goal \subseteq Transfers(blocks)
  BY DEF Reading
<1>13. ~ (Cardinality(S) <= e) => e <= MaxBlocks
  BY <1>3, <1>4, <1>10
<1>14. Cardinality(S) <= e => client.goal \subseteq seen
  BY <1>3, <1>9, <1>10
<1>15. /\ client'.page = c + 1 /\ client'.per_page = p /\ client'.goal = client.goal
       /\ client'.seen = seen /\ client'.done = (Cardinality(S) <= e)
  BY <1>8, <1>11
<1>16. client'.page * client'.per_page = e
  BY <1>11, <1>15
<1>17. NothingSkipped'
  BY <1>14, <1>15 DEF NothingSkipped
<1>18. client'.page >= 0 /\ ~ client'.done =>
        /\ client'.page * client'.per_page <= MaxBlocks
        /\ \A g \in client'.goal :
            g \in client'.seen
            \/ client'.page * client'.per_page <= Rank(Reverse(blocks'), g)
  BY <1>7, <1>9, <1>13, <1>15, <1>16
<1> QED BY <1>7, <1>12, <1>15, <1>17, <1>18 DEF Reading

\* Once the blocks are gone the client is after nothing.
LEMMA ReadingDelete ==
    ASSUME Types, Reading, NEW a \in Account, account_delete(a)
    PROVE  Reading'
<1>1. CASE a # Owner
  BY <1>1, ReadingKept DEF account_delete
<1>2. CASE a = Owner
  <2>1. client' = [client EXCEPT !.goal = {}] /\ UNCHANGED handler
    BY <1>2 DEF account_delete
  <2>2. client' = [page |-> client.page, per_page |-> client.per_page,
                   goal |-> {}, seen |-> client.seen, done |-> client.done]
    BY <2>1 DEF Types, ClientTypes
  <2>3. /\ client'.goal = {} /\ client'.page = client.page
        /\ client'.per_page = client.per_page /\ client'.done = client.done
    BY <2>2
  <2> QED BY <2>1, <2>3 DEF Reading, NothingSkipped
<1> QED BY <1>1, <1>2

LEMMA ReadingNext == ListsFit /\ Types /\ Reading /\ [Next]_vars => Reading'
<1> SUFFICES ASSUME ListsFit, Types, Reading, [Next]_vars PROVE Reading'
  OBVIOUS
<1>1. CASE UNCHANGED vars
  BY <1>1, ReadingKept DEF vars, store
<1>2. CASE Answered
  <2>1. CASE handler.who = "client"
    BY <1>2, <2>1, ReadingAnswered
  <2>2. CASE handler.who # "client"
    <3>1. handler' = Idle /\ UNCHANGED <<blocks, client>>
      BY <1>2, <2>2 DEF Answered, account_history_reply, store
    <3> QED BY <3>1, ReadingKept
  <2> QED BY <2>1, <2>2
<1>3. CASE /\ client.page >= 0 /\ ~ client.done
           /\ account_history("client", [count |-> client.page, per_page |-> client.per_page])
           /\ UNCHANGED client
  BY <1>3, ReadingAsk
<1>4. ASSUME NEW request \in Request, account_history("anybody", request), UNCHANGED client
      PROVE  Reading'
  <2>1. handler'.who # "client" /\ UNCHANGED <<blocks, client>>
    BY <1>4 DEF account_history, store
  <2> QED BY <2>1, ReadingKept
<1>5. ASSUME NEW request \in Request, account_pending(request) \/ query_online_tx(request)
      PROVE  Reading'
  <2>1. UNCHANGED <<blocks, handler, client>>
    BY <1>5 DEF account_pending, query_online_tx, store
  <2> QED BY <2>1, ReadingKept
<1>6. CASE set_property_value_source \/ set_property_value_destination
  <2>1. handler # Idle /\ UNCHANGED <<blocks, client>>
    BY <1>6 DEF set_property_value_source, set_property_value_destination, Idle, store
  <2>2. /\ handler'.who = handler.who /\ handler'.request = handler.request
        /\ handler'.list = handler.list
    BY <1>6, <2>1 DEF set_property_value_source, set_property_value_destination, Types,
                      HandlerTypes
  <2> QED BY <2>1, <2>2, ReadingKept
<1>7. CASE SetName
  BY <1>7, ReadingKept DEF SetName
<1> QED BY <1>1, <1>2, <1>3, <1>4, <1>5, <1>6, <1>7, ReadingSettle, ReadingBegin,
          ReadingDelete DEF Next, Ask

ReadingInv == Types /\ Reading

LEMMA ReadingInvariant == ASSUME ListsFit PROVE Spec => []ReadingInv
<1>1. Init => ReadingInv
  <2> SUFFICES ASSUME Init PROVE ReadingInv
    OBVIOUS
  <2>1. /\ client.page = -1 /\ client.goal = {} /\ client.done = FALSE /\ handler = Idle
    BY DEF Init
  <2> QED BY <2>1, TypesInit DEF Reading, NothingSkipped, ReadingInv
<1>2. ReadingInv /\ [Next]_vars => ReadingInv'
  BY TypesNext, ReadingNext DEF ReadingInv
<1> QED BY <1>1, <1>2, PTL DEF Spec

\* A client that reads page after page until it has as many as "count" says
\* has seen every transfer there was when it began, whatever settles meanwhile
\* and except what an account_delete removes (xrpc_handler.cpp:297-334 and
\* 660-668), as long as the lists, and a page more, fit an int.
THEOREM NothingSkippedHolds == ASSUME ListsFit PROVE Spec => []NothingSkipped
<1>1. ReadingInv => NothingSkipped
  BY DEF ReadingInv, Reading
<1> QED BY <1>1, ReadingInvariant, PTL
=============================================================================
