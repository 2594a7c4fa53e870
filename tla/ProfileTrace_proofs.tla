------------------------ MODULE ProfileTrace_proofs ------------------------
(***************************************************************************)
(* For all workloads, grids and word sizes: the stream that KernelGenerator*)
(* makes of a profile is in the order of the merge, complete captures are  *)
(* admitted, counted and moved to other layers rightly, and every sampled  *)
(* CTA is regenerated.                                                     *)
(*                                                                         *)
(* An address comes back in four steps. A rule gives the points it was     *)
(* fitted to, in Python and in C++. The template of a class gives each of  *)
(* its sampled CTAs the instructions that were sampled, paired by slot or  *)
(* by order. Normal form and merge leave addresses and times alone. The    *)
(* merge emits each entry of a template once.                              *)
(***************************************************************************)
EXTENDS ProfileTrace, Extremes, FiniteSetTheorems, TLAPS

-----------------------------------------------------------------------------
(* Orders.                                                                 *)

LEMMA LexOfTwo ==
  ASSUME NEW a \in Int, NEW b \in Int, NEW c \in Int, NEW d \in Int
  PROVE  LexLess(<<a, b>>, <<c, d>>) <=> a < c \/ (a = c /\ b < d)
<1>1. ASSUME LexLess(<<a, b>>, <<c, d>>) PROVE a < c \/ (a = c /\ b < d)
  <2>1. PICK i \in 1..2 : /\ <<a, b>>[i] < <<c, d>>[i]
                          /\ \A j \in 1 .. i - 1 : <<a, b>>[j] = <<c, d>>[j]
    BY <1>1 DEF LexLess
  <2>2. CASE i = 1
    BY <2>1, <2>2
  <2>3. CASE i = 2
    <3>1. 1 \in 1 .. i - 1
      BY <2>3
    <3>. QED BY <2>1, <2>3, <3>1
  <2>. QED BY <2>1, <2>2, <2>3
<1>2. ASSUME a < c PROVE LexLess(<<a, b>>, <<c, d>>)
  BY <1>2 DEF LexLess
<1>3. ASSUME a = c, b < d PROVE LexLess(<<a, b>>, <<c, d>>)
  BY <1>3 DEF LexLess
<1>. QED BY <1>1, <1>2, <1>3

LEMMA LexOfThree ==
  ASSUME NEW a \in Int, NEW b \in Int, NEW c \in Int,
         NEW d \in Int, NEW e \in Int, NEW f \in Int
  PROVE  LexLess(<<a, b, c>>, <<d, e, f>>)
           <=> a < d \/ (a = d /\ (b < e \/ (b = e /\ c < f)))
<1>1. ASSUME LexLess(<<a, b, c>>, <<d, e, f>>)
      PROVE  a < d \/ (a = d /\ (b < e \/ (b = e /\ c < f)))
  <2>1. PICK i \in 1..3 : /\ <<a, b, c>>[i] < <<d, e, f>>[i]
                          /\ \A j \in 1 .. i - 1 : <<a, b, c>>[j] = <<d, e, f>>[j]
    BY <1>1 DEF LexLess
  <2>2. CASE i = 1
    BY <2>1, <2>2
  <2>3. CASE i = 2
    <3>1. 1 \in 1 .. i - 1
      BY <2>3
    <3>. QED BY <2>1, <2>3, <3>1
  <2>4. CASE i = 3
    <3>1. 1 \in 1 .. i - 1 /\ 2 \in 1 .. i - 1
      BY <2>4
    <3>. QED BY <2>1, <2>4, <3>1
  <2>. QED BY <2>1, <2>2, <2>3, <2>4
<1>2. ASSUME a < d PROVE LexLess(<<a, b, c>>, <<d, e, f>>)
  BY <1>2 DEF LexLess
<1>3. ASSUME a = d, b < e PROVE LexLess(<<a, b, c>>, <<d, e, f>>)
  BY <1>3 DEF LexLess
<1>4. ASSUME a = d, b = e, c < f PROVE LexLess(<<a, b, c>>, <<d, e, f>>)
  BY <1>4 DEF LexLess
<1>. QED BY <1>1, <1>2, <1>3, <1>4

(* A cursor before another has a key that is not behind the other's.       *)
LEMMA LexOfFour ==
  ASSUME NEW a \in Int, NEW b \in Int, NEW c \in Int, NEW x \in Int,
         NEW d \in Int, NEW e \in Int, NEW f \in Int, NEW y \in Int
  PROVE  /\ LexLess(<<a, b, c, x>>, <<d, e, f, y>>) => ~LexLess(<<d, e, f>>, <<a, b, c>>)
         /\ LexLess(<<a, b, c>>, <<d, e, f>>) => LexLess(<<a, b, c, x>>, <<d, e, f, y>>)
<1>1. LexLess(<<d, e, f>>, <<a, b, c>>) <=> d < a \/ (d = a /\ (e < b \/ (e = b /\ f < c)))
  BY LexOfThree
<1>2. ASSUME LexLess(<<a, b, c, x>>, <<d, e, f, y>>)
      PROVE  a < d \/ (a = d /\ (b < e \/ (b = e /\ c =< f)))
  <2>. DEFINE s == <<a, b, c, x>>
              t == <<d, e, f, y>>
  <2>1. PICK i \in 1..4 : s[i] < t[i] /\ \A j \in 1 .. i - 1 : s[j] = t[j]
    BY <1>2 DEF LexLess
  <2>2. CASE i = 1
    BY <2>1, <2>2
  <2>3. CASE i = 2
    <3>1. 1 \in 1 .. i - 1
      BY <2>3
    <3>. QED BY <2>1, <2>3, <3>1
  <2>4. CASE i = 3
    <3>1. 1 \in 1 .. i - 1 /\ 2 \in 1 .. i - 1
      BY <2>4
    <3>. QED BY <2>1, <2>4, <3>1
  <2>5. CASE i = 4
    <3>1. 1 \in 1 .. i - 1 /\ 2 \in 1 .. i - 1 /\ 3 \in 1 .. i - 1
      BY <2>5
    <3>. QED BY <2>1, <2>5, <3>1
  <2>. QED BY <2>1, <2>2, <2>3, <2>4, <2>5
<1>3. ASSUME LexLess(<<a, b, c>>, <<d, e, f>>) PROVE LexLess(<<a, b, c, x>>, <<d, e, f, y>>)
  <2>1. a < d \/ (a = d /\ (b < e \/ (b = e /\ c < f)))
    BY <1>3, LexOfThree
  <2>2. CASE a < d
    BY <2>2 DEF LexLess
  <2>3. CASE a = d /\ b < e
    BY <2>3 DEF LexLess
  <2>4. CASE a = d /\ b = e /\ c < f
    BY <2>4 DEF LexLess
  <2>. QED BY <2>1, <2>2, <2>3, <2>4
<1>. QED BY <1>1, <1>2, <1>3

(* Numbered cursors of different CTAs have a first one.                    *)
Quadruple == Nat \X Nat \X Nat \X Nat

LEMMA FirstCursor ==
  ASSUME NEW S \in SUBSET Quadruple, S # {}, \A c, d \in S : c[3] = d[3] => c = d
  PROVE  \E c \in S : \A d \in S \ {c} : LexLess(c, d)
<1>1. \A c \in S : /\ c[1] \in Nat /\ c[2] \in Nat /\ c[3] \in Nat /\ c[4] \in Nat
                   /\ c = <<c[1], c[2], c[3], c[4]>>
  BY DEF Quadruple
<1>2. ASSUME NEW A \in SUBSET S, A # {}, NEW i \in 1..3
      PROVE  \E c \in A : \A d \in A : c[i] =< d[i]
  <2>. DEFINE N == {c[i] : c \in A}
  <2>1. N \in SUBSET Nat /\ N # {}
    BY <1>1, <1>2
  <2>. HIDE DEF N
  <2>2. Min(N) \in N /\ \A n \in N : Min(N) =< n
    BY <2>1, LeastOf
  <2>. USE DEF N
  <2>3. PICK c \in A : c[i] = Min(N)
    BY <2>2
  <2>. QED BY <2>2, <2>3
<1>3. PICK p \in S : \A d \in S : p[1] =< d[1]
  BY <1>2
<1>. DEFINE A == {c \in S : c[1] = p[1]}
<1>4. PICK q \in A : \A d \in A : q[2] =< d[2]
  <2>1. A \in SUBSET S /\ A # {}
    BY <1>3
  <2>2. 2 \in 1..3
    OBVIOUS
  <2>. HIDE DEF A
  <2>. QED BY <1>2, <2>1, <2>2, Zenon
<1>. DEFINE B == {c \in A : c[2] = q[2]}
<1>5. PICK c \in B : \A d \in B : c[3] =< d[3]
  <2>1. B \in SUBSET S /\ B # {}
    BY <1>4
  <2>2. 3 \in 1..3
    OBVIOUS
  <2>. HIDE DEF A, B
  <2>. QED BY <1>2, <2>1, <2>2, Zenon
<1>6. c \in S /\ c[1] = p[1] /\ c[2] = q[2]
  BY <1>5
<1>7. ASSUME NEW d \in S \ {c}
      PROVE  LexLess(c, d)
  <2>1. c[1] =< d[1] /\ (c[1] = d[1] => c[2] =< d[2])
    BY <1>3, <1>4, <1>6
  <2>2. c[1] = d[1] /\ c[2] = d[2] => c[3] =< d[3]
    BY <1>5, <1>6
  <2>3. c[3] # d[3]
    BY <1>6
  <2>4. c[1] < d[1] \/ (c[1] = d[1] /\ (c[2] < d[2] \/ (c[2] = d[2] /\ c[3] < d[3])))
    BY <1>1, <1>6, <2>1, <2>2, <2>3
  <2>5. LexLess(<<c[1], c[2], c[3]>>, <<d[1], d[2], d[3]>>)
    BY <1>1, <1>6, <2>4, LexOfThree
  <2>6. LexLess(<<c[1], c[2], c[3], c[4]>>, <<d[1], d[2], d[3], d[4]>>)
    BY <1>1, <1>6, <2>5, LexOfFour
  <2>. QED BY <1>1, <1>6, <2>6
<1>. QED BY <1>6, <1>7

-----------------------------------------------------------------------------
(* A template in the order of a CTA's own times.                           *)

(* A sequence of anything.                                                 *)
IsSequence(s) == Len(s) \in Nat /\ s = [i \in 1 .. Len(s) |-> s[i]]

(* A template of which CTA b has a time for every instruction.             *)
Timed(T, b) == /\ IsSequence(T)
               /\ \A i \in DOMAIN T : /\ {"delta", "by_cta"} \subseteq DOMAIN T[i]
                                      /\ T[i].delta \in Nat /\ Delta(T[i], b) \in Nat

(* The time that an instruction is sorted by, and those before it.         *)
Time(T, b, own, i) == IF own THEN Delta(T[i], b) ELSE T[i].delta

Below(T, b, own, i) ==
  {j \in DOMAIN T : LexLess(OrderKey(T, b, own, j), OrderKey(T, b, own, i))}

LEMMA TimeIs ==
  ASSUME NEW T, NEW b, Timed(T, b), NEW own, NEW i \in DOMAIN T
  PROVE  Time(T, b, own, i) \in Nat /\ i \in Nat /\ OrderKey(T, b, own, i) = <<Time(T, b, own, i), i>>
BY DEF Timed, IsSequence, Time, OrderKey

LEMMA BelowIs ==
  ASSUME NEW T, NEW b, Timed(T, b), NEW own, NEW i \in DOMAIN T
  PROVE  /\ Below(T, b, own, i) =
              {j \in DOMAIN T : \/ Time(T, b, own, j) < Time(T, b, own, i)
                                \/ Time(T, b, own, j) = Time(T, b, own, i) /\ j < i}
         /\ IsFiniteSet(Below(T, b, own, i))
         /\ Cardinality(Below(T, b, own, i)) \in 0 .. Len(T) - 1
<1>. DEFINE n == Len(T)
<1>0. n \in Nat /\ DOMAIN T = 1 .. n
  BY DEF Timed, IsSequence
<1>1. ASSUME NEW j \in DOMAIN T
      PROVE  LexLess(OrderKey(T, b, own, j), OrderKey(T, b, own, i))
               <=> \/ Time(T, b, own, j) < Time(T, b, own, i)
                   \/ Time(T, b, own, j) = Time(T, b, own, i) /\ j < i
  <2>1. Time(T, b, own, j) \in Int /\ Time(T, b, own, i) \in Int /\ i \in Int /\ j \in Int
    BY TimeIs
  <2>2. /\ OrderKey(T, b, own, j) = <<Time(T, b, own, j), j>>
        /\ OrderKey(T, b, own, i) = <<Time(T, b, own, i), i>>
    BY TimeIs
  <2>. QED BY <2>1, <2>2, LexOfTwo
<1>2. Below(T, b, own, i) = {j \in DOMAIN T : \/ Time(T, b, own, j) < Time(T, b, own, i)
                                              \/ /\ Time(T, b, own, j) = Time(T, b, own, i)
                                                 /\ j < i}
  BY <1>1 DEF Below
<1>3. Below(T, b, own, i) \subseteq (1 .. n) \ {i}
  <2>1. Time(T, b, own, i) \in Nat
    BY TimeIs
  <2>. QED BY <1>0, <1>2, <2>1
<1>. HIDE DEF n
<1>4. IsFiniteSet(1 .. n) /\ Cardinality(1 .. n) = n
  BY <1>0, FS_Interval
<1>5. IsFiniteSet((1 .. n) \ {i}) /\ Cardinality((1 .. n) \ {i}) = n - 1
  BY <1>0, <1>4, FS_RemoveElement
<1>6. /\ IsFiniteSet(Below(T, b, own, i)) /\ Cardinality(Below(T, b, own, i)) \in Nat
      /\ Cardinality(Below(T, b, own, i)) =< n - 1
  BY <1>3, <1>5, FS_Subset, FS_CardinalityType
<1>. QED BY <1>0, <1>2, <1>6 DEF n

(* The earlier of two instructions has fewer below it.                     *)
LEMMA BelowGrows ==
  ASSUME NEW T, NEW b, Timed(T, b), NEW own, NEW i \in DOMAIN T, NEW j \in DOMAIN T,
         j \in Below(T, b, own, i)
  PROVE  Cardinality(Below(T, b, own, j)) < Cardinality(Below(T, b, own, i))
<1>1. /\ Time(T, b, own, i) \in Nat /\ Time(T, b, own, j) \in Nat
      /\ \A m \in DOMAIN T : Time(T, b, own, m) \in Nat /\ m \in Nat
  BY TimeIs
<1>2. Below(T, b, own, j) \subseteq Below(T, b, own, i) /\ j \notin Below(T, b, own, j)
  BY <1>1, BelowIs
<1>3. IsFiniteSet(Below(T, b, own, i)) /\ IsFiniteSet(Below(T, b, own, j))
  BY BelowIs
<1>4. /\ Cardinality(Below(T, b, own, i)) \in Nat /\ Cardinality(Below(T, b, own, j)) \in Nat
  BY <1>3, FS_CardinalityType
<1>5. Cardinality(Below(T, b, own, j)) =< Cardinality(Below(T, b, own, i))
  BY <1>2, <1>3, FS_Subset
<1>6. Cardinality(Below(T, b, own, j)) # Cardinality(Below(T, b, own, i))
  <2>1. Below(T, b, own, j) # Below(T, b, own, i)
    BY <1>2
  <2>. QED BY <1>2, <1>3, <2>1, FS_Subset
<1>. QED BY <1>4, <1>5, <1>6

(* So no two have as many, and every place in the order is taken.          *)
LEMMA BelowDiffers ==
  ASSUME NEW T, NEW b, Timed(T, b), NEW own, NEW i \in DOMAIN T, NEW j \in DOMAIN T,
         Cardinality(Below(T, b, own, i)) = Cardinality(Below(T, b, own, j))
  PROVE  i = j
<1>1. Cardinality(Below(T, b, own, i)) \in Nat /\ Cardinality(Below(T, b, own, j)) \in Nat
  BY BelowIs, FS_CardinalityType
<1>2. i \notin Below(T, b, own, j) /\ j \notin Below(T, b, own, i)
  BY <1>1, BelowGrows
<1>3. /\ Time(T, b, own, i) \in Nat /\ Time(T, b, own, j) \in Nat /\ i \in Nat /\ j \in Nat
  BY TimeIs
<1>. QED BY <1>2, <1>3, BelowIs

(* The instruction that Nth chooses.                                       *)
NthIndex(T, b, own, n) ==
  CHOOSE i \in DOMAIN T : Cardinality(Below(T, b, own, i)) = n - 1

LEMMA NthIs ==
  ASSUME NEW T, NEW b, Timed(T, b), NEW own, NEW n \in 1 .. Len(T)
  PROVE  /\ NthIndex(T, b, own, n) \in DOMAIN T
         /\ Nth(T, b, own, n) = T[NthIndex(T, b, own, n)]
         /\ Cardinality(Below(T, b, own, NthIndex(T, b, own, n))) = n - 1
<1>. DEFINE N == Len(T)
            f == [i \in 1 .. N |-> Cardinality(Below(T, b, own, i))]
<1>1. N \in Nat /\ DOMAIN T = 1 .. N /\ n \in 1 .. N /\ N - 1 \in Int
  BY DEF Timed, IsSequence
<1>2. f \in [1 .. N -> 0 .. N - 1]
  BY <1>1, BelowIs
<1>3. \A i, j \in 1 .. N : f[i] = f[j] => i = j
  BY <1>1, BelowDiffers
<1>. HIDE DEF N
<1>4. IsFiniteSet(0 .. N - 1) /\ Cardinality(0 .. N - 1) = N /\ Cardinality(1 .. N) = N
  <2>1. 0 \in Int /\ 1 \in Int /\ N \in Int
    BY <1>1
  <2>2. /\ IsFiniteSet(0 .. N - 1)
        /\ Cardinality(0 .. N - 1) = IF 0 > N - 1 THEN 0 ELSE (N - 1) - 0 + 1
    BY <1>1, <2>1, FS_Interval, Zenon
  <2>3. Cardinality(1 .. N) = IF 1 > N THEN 0 ELSE N - 1 + 1
    BY <2>1, FS_Interval, Zenon
  <2>. QED BY <1>1, <2>2, <2>3
<1>5. f \in Injection(1 .. N, 0 .. N - 1)
  <2>. HIDE DEF f
  <2>. QED BY <1>2, <1>3 DEF Injection, IsInjective
<1>6. f \in Surjection(1 .. N, 0 .. N - 1)
  <2>. HIDE DEF f
  <2>. QED BY <1>4, <1>5, FS_Injection
<1>7. n - 1 \in 0 .. N - 1
  BY <1>1
<1>8. PICK i \in 1 .. N : f[i] = n - 1
  <2>. HIDE DEF f
  <2>. QED BY <1>6, <1>7 DEF Surjection
<1>9. i \in DOMAIN T /\ Cardinality(Below(T, b, own, i)) = n - 1
  BY <1>1, <1>8
<1>10. /\ NthIndex(T, b, own, n) \in DOMAIN T
       /\ Cardinality(Below(T, b, own, NthIndex(T, b, own, n))) = n - 1
  BY <1>9 DEF NthIndex
<1>11. Nth(T, b, own, n) = T[NthIndex(T, b, own, n)]
  BY DEF Nth, NthIndex, Below
<1>. QED BY <1>10, <1>11

(* Every instruction has its place.                                        *)
Covered(T, b, own) == \A i \in DOMAIN T : \E n \in 1 .. Len(T) : NthIndex(T, b, own, n) = i

LEMMA NthCovers ==
  ASSUME NEW T, NEW b, Timed(T, b), NEW own
  PROVE  Covered(T, b, own)
<1>. SUFFICES ASSUME NEW i \in DOMAIN T PROVE \E n \in 1 .. Len(T) : NthIndex(T, b, own, n) = i
  BY DEF Covered
<1>. DEFINE c == Cardinality(Below(T, b, own, i))
<1>1. c \in 0 .. Len(T) - 1 /\ Len(T) \in Nat
  BY BelowIs DEF Timed, IsSequence
<1>. HIDE DEF c
<1>2. c + 1 \in 1 .. Len(T) /\ (c + 1) - 1 = c
  BY <1>1
<1>3. /\ NthIndex(T, b, own, c + 1) \in DOMAIN T
      /\ Cardinality(Below(T, b, own, NthIndex(T, b, own, c + 1))) = c
  BY <1>2, NthIs
<1>4. NthIndex(T, b, own, c + 1) = i
  BY <1>3, BelowDiffers DEF c
<1>. QED BY <1>2, <1>4

(* And their times do not fall.                                            *)
LEMMA NthSorted ==
  ASSUME NEW T, NEW b, Timed(T, b), NEW n \in 1 .. Len(T), n + 1 \in 1 .. Len(T)
  PROVE  /\ Delta(Nth(T, b, TRUE, n), b) \in Nat /\ Delta(Nth(T, b, TRUE, n + 1), b) \in Nat
         /\ Delta(Nth(T, b, TRUE, n), b) =< Delta(Nth(T, b, TRUE, n + 1), b)
<1>. DEFINE own == TRUE
            i == NthIndex(T, b, own, n)
            j == NthIndex(T, b, own, n + 1)
<1>0. \A m \in DOMAIN T : Time(T, b, own, m) = Delta(T[m], b) /\ Delta(T[m], b) \in Nat
  BY DEF Time, Timed
<1>. HIDE DEF own
<1>1. i \in DOMAIN T /\ Nth(T, b, own, n) = T[i] /\ Cardinality(Below(T, b, own, i)) = n - 1
  BY NthIs
<1>2. /\ j \in DOMAIN T /\ Nth(T, b, own, n + 1) = T[j]
      /\ Cardinality(Below(T, b, own, j)) = (n + 1) - 1
  BY NthIs
<1>. HIDE DEF i, j
<1>3. n \in Nat /\ Delta(T[i], b) \in Nat /\ Delta(T[j], b) \in Nat
  BY <1>0, <1>1, <1>2 DEF Timed, IsSequence
<1>4. j \notin Below(T, b, own, i)
  BY <1>1, <1>2, <1>3, BelowGrows
<1>5. Below(T, b, own, i) =
        {m \in DOMAIN T : \/ Time(T, b, own, m) < Time(T, b, own, i)
                          \/ Time(T, b, own, m) = Time(T, b, own, i) /\ m < i}
  BY <1>1, BelowIs
<1>6. ~(Delta(T[j], b) < Delta(T[i], b))
  BY <1>0, <1>1, <1>2, <1>4, <1>5
<1>7. Delta(T[i], b) =< Delta(T[j], b)
  BY <1>3, <1>6
<1>8. /\ Delta(Nth(T, b, own, n), b) \in Nat /\ Delta(Nth(T, b, own, n + 1), b) \in Nat
      /\ Delta(Nth(T, b, own, n), b) =< Delta(Nth(T, b, own, n + 1), b)
  BY <1>1, <1>2, <1>3, <1>7, Zenon
<1>. QED BY <1>8 DEF own

-----------------------------------------------------------------------------
(* The workloads.                                                          *)

LEMMA LeastIs ==
  ASSUME NEW S \in SUBSET Nat, S # {}
  PROVE  Least(S) \in S /\ \A n \in S : Least(S) =< n
<1>1. PICK m \in S : \A n \in S : m =< n
  BY LeastOf
<1>. QED BY <1>1 DEF Least

LEMMA GridIs ==
  ASSUME NEW k \in Workloads
  PROVE  Grid(k.grid) \in SUBSET Nat /\ IsFiniteSet(Grid(k.grid))
<1>1. k.grid[1] \in Int /\ k.grid[2] \in Int /\ k.grid[3] \in Int
  BY WorkloadsAssumption
<1>2. GridSize(k.grid) \in Int
  BY <1>1 DEF GridSize
<1>3. GridSize(k.grid) - 1 \in Int /\ 0 \in Int
  BY <1>2
<1>4. IsFiniteSet(0 .. GridSize(k.grid) - 1)
  BY <1>3, FS_Interval, Zenon
<1>. QED BY <1>3, <1>4 DEF Grid

LEMMA RecordsTyped ==
  ASSUME NEW k \in Workloads, NEW b \in Grid(k.grid)
  PROVE  k.recs[b] \in Seq(Instruction) /\ k.place[b].start \in Nat /\ k.place[b].sm \in Nat
<1>1. /\ k.recs \in [Grid(k.grid) -> Seq(Instruction)]
      /\ k.place \in [Grid(k.grid) -> [start : Nat, sm : Nat]]
  BY WorkloadsAssumption
<1>. QED BY <1>1

(* No instruction is before the first of its CTA.                          *)
LEMMA Elapsed ==
  ASSUME NEW recs \in Seq(Instruction), NEW i \in DOMAIN recs
  PROVE  recs[i].ts - StartTime(recs) \in Nat
<1>. DEFINE S == {recs[j].ts : j \in DOMAIN recs}
<1>1. \A j \in DOMAIN recs : recs[j].ts \in Nat
  <2>1. \A j \in DOMAIN recs : recs[j] \in Instruction
    OBVIOUS
  <2>. QED BY <2>1 DEF Instruction
<1>2. S \in SUBSET Nat /\ recs[i].ts \in S
  BY <1>1
<1>. HIDE DEF S
<1>3. Least(S) \in Nat /\ Least(S) =< recs[i].ts
  BY <1>2, LeastIs
<1>4. StartTime(recs) = Least(S)
  BY DEF StartTime, S
<1>. QED BY <1>1, <1>3, <1>4

LEMMA SlotElapsed ==
  ASSUME NEW recs \in Seq(Instruction), NEW slot \in Structure(recs)
  PROVE  RecordAt(recs, slot).ts - StartTime(recs) \in Nat
<1>1. \E i \in DOMAIN recs : Slot(recs, i) = slot
  BY DEF Structure
<1>2. PICK i \in DOMAIN recs : RecordAt(recs, slot) = recs[i]
  BY <1>1 DEF RecordAt
<1>. QED BY <1>2, Elapsed

-----------------------------------------------------------------------------
(* The fit.                                                                *)

(* A function of a sequence's domain is as long.                           *)
LEMMA LenIs ==
  ASSUME NEW n \in Nat, NEW T, T = [i \in 1 .. n |-> T[i]]
  PROVE  Len(T) = n
<1>. DEFINE S == {T[i] : i \in 1 .. n}
<1>1. T \in [1 .. n -> S]
  OBVIOUS
<1>2. T \in Seq(S)
  <2>. HIDE DEF S
  <2>. QED BY <1>1
<1>3. DOMAIN T = 1 .. Len(T) /\ Len(T) \in Nat
  <2>. HIDE DEF S
  <2>. QED BY <1>2
<1>4. DOMAIN T = 1 .. n
  BY <1>1
<1>. QED BY <1>3, <1>4

(* What ClassTemplate fits has a time for every CTA of the class, and for  *)
(* every CTA at all when the grid was not sampled completely.              *)
LEMMA TemplateTimed ==
  ASSUME NEW k \in Workloads, Train(k) \subseteq Grid(k.grid),
         NEW ctas \in SUBSET Train(k), ctas # {}, NEW s,
         \A c \in ctas : Structure(k.recs[c]) = s,
         NEW b \in Grid(k.grid), Complete(k) => b \in ctas, NEW fitting, NEW flat
  PROVE  Timed(Template(k, ctas, fitting, flat), b)
<1>. DEFINE a == Least(ctas)
            recs == k.recs[a]
            T == Template(k, ctas, fitting, flat)
<1>1. a \in ctas
  BY GridIs, LeastIs
<1>2. recs \in Seq(Instruction) /\ Structure(recs) = s
  BY <1>1, RecordsTyped
<1>. HIDE DEF a
<1>3. Len(recs) \in Nat /\ DOMAIN recs = 1 .. Len(recs)
  BY <1>2
<1>4. T = [i \in DOMAIN recs |-> Entry(k, ctas, fitting, flat, i)]
  BY DEF Template, a
<1>. HIDE DEF T
<1>5. DOMAIN T = 1 .. Len(recs) /\ T = [i \in 1 .. Len(recs) |-> T[i]]
  BY <1>3, <1>4
<1>6. Len(T) = Len(recs)
  BY <1>3, <1>5, LenIs
<1>7. ASSUME NEW i \in DOMAIN T
      PROVE  /\ {"delta", "by_cta"} \subseteq DOMAIN T[i]
             /\ T[i].delta \in Nat /\ Delta(T[i], b) \in Nat
  <2>. DEFINE slot == Slot(recs, i)
              table == [c \in ctas |-> RecordAt(k.recs[c], slot).ts - StartTime(k.recs[c])]
  <2>1. i \in DOMAIN recs /\ slot \in s
    BY <1>2, <1>3, <1>5 DEF Structure
  <2>2. T[i] = Entry(k, ctas, fitting, flat, i)
    BY <1>4, <2>1
  <2>3. /\ DOMAIN T[i] = {"slot", "rule", "delta", "by_cta"}
        /\ T[i].delta = recs[i].ts - StartTime(recs)
        /\ T[i].by_cta = IF Complete(k) THEN table ELSE << >>
    BY <2>2 DEF Entry, a
  <2>. HIDE DEF slot
  <2>4. T[i].delta \in Nat
    BY <1>2, <2>1, <2>3, Elapsed
  <2>5. ASSUME Complete(k) PROVE T[i].by_cta[b] \in Nat
    <3>1. b \in ctas /\ k.recs[b] \in Seq(Instruction) /\ slot \in Structure(k.recs[b])
      BY <2>1, <2>5, RecordsTyped
    <3>2. T[i].by_cta[b] = RecordAt(k.recs[b], slot).ts - StartTime(k.recs[b])
      BY <2>3, <2>5, <3>1
    <3>. QED BY <3>1, <3>2, SlotElapsed
  <2>6. Delta(T[i], b) \in Nat
    BY <2>3, <2>4, <2>5 DEF Delta
  <2>. QED BY <2>3, <2>4, <2>6
<1>8. Timed(T, b)
  BY <1>3, <1>5, <1>6, <1>7 DEF Timed, IsSequence
<1>. QED BY <1>8 DEF T

(* Every CTA of the grid finds a class that was fitted, and its own one    *)
(* when it was sampled.                                                    *)
LEMMA ClassOfFitted ==
  ASSUME NEW k \in Workloads, SelectionAdmitted(k), StructureAdmitted(k), NEW b \in Grid(k.grid)
  PROVE  /\ Train(k) \subseteq Grid(k.grid)
         /\ ClassOf(k, b) \in StructuresOf(k, Train(k))
         /\ Complete(k) => b \in Train(k) /\ Structure(k.recs[b]) = ClassOf(k, b)
<1>. DEFINE S == StructuresOf(k, Train(k))
<1>1. /\ Sampled(k) \subseteq Grid(k.grid) /\ k.plan.train \subseteq Sampled(k)
      /\ Complete(k) => Train(k) = Grid(k.grid)
  BY DEF SelectionAdmitted, Sampled
<1>2. Train(k) \subseteq Grid(k.grid) /\ k.plan.train \subseteq Train(k)
  BY <1>1 DEF Train
<1>3. \A c \in Train(k) : Structure(k.recs[c]) \in S
  BY DEF StructuresOf
<1>4. S # {}
  BY <1>2, <1>3, WorkloadsAssumption
<1>5. ASSUME OneClass(k)
      PROVE  ClassOf(k, b) \in S /\ (Complete(k) => Structure(k.recs[b]) = ClassOf(k, b))
  <2>1. ClassOf(k, b) = TheOnly(S)
    BY <1>5 DEF ClassOf
  <2>. HIDE DEF S
  <2>2. TheOnly(S) \in S
    BY <1>4 DEF TheOnly
  <2>3. ASSUME Complete(k) PROVE Structure(k.recs[b]) = TheOnly(S)
    <3>1. Train(k) = Sampled(k)
      BY <2>3 DEF Train
    <3>2. Cardinality(S) = 1
      BY <1>5, <3>1 DEF OneClass, S
    <3>3. IsFiniteSet(Train(k))
      BY <1>2, GridIs, FS_Subset
    <3>4. [c \in Train(k) |-> Structure(k.recs[c])] \in Surjection(Train(k), S)
      BY DEF Surjection, S, StructuresOf
    <3>5. IsFiniteSet(S)
      BY <3>3, <3>4, FS_Surjection
    <3>6. \E x : S = {x}
      BY <3>2, <3>5, FS_Singleton
    <3>. QED BY <1>1, <1>3, <2>2, <2>3, <3>6
  <2>. QED BY <2>1, <2>2, <2>3
<1>6. ASSUME ~OneClass(k), Complete(k)
      PROVE  ClassOf(k, b) \in S /\ Structure(k.recs[b]) = ClassOf(k, b)
  <2>1. ClassOf(k, b) = Structure(k.recs[b])
    BY <1>6 DEF ClassOf
  <2>. QED BY <1>1, <1>3, <1>6, <2>1
<1>7. ASSUME ~OneClass(k), ~Complete(k) PROVE ClassOf(k, b) \in S
  <2>. DEFINE R == StructuresOf(k, Row(k, b) \cap Train(k))
  <2>1. ClassOf(k, b) = TheOnly(R)
    BY <1>7 DEF ClassOf
  <2>2. Cardinality(R) = 1
    BY <1>7 DEF StructureAdmitted
  <2>3. R \subseteq S
    BY DEF StructuresOf
  <2>. HIDE DEF R, S
  <2>4. R # {}
    BY <2>2, FS_EmptySet
  <2>5. TheOnly(R) \in R
    BY <2>4 DEF TheOnly
  <2>. QED BY <2>1, <2>3, <2>5
<1>. QED BY <1>1, <1>2, <1>5, <1>6, <1>7

(* A profile that has a class for every CTA, and in it a time for every    *)
(* instruction.                                                            *)
ProfileTimed(p, ctas) ==
  /\ {"version", "classes", "class_of"} \subseteq DOMAIN p
  /\ \A b \in ctas : /\ p.class_of[b] \in DOMAIN p.classes
                     /\ Timed(p.classes[p.class_of[b]], b)

LEMMA FittedTimed ==
  ASSUME NEW k \in Workloads, SelectionAdmitted(k), StructureAdmitted(k)
  PROVE  ProfileTimed(ProfileOf(k), Grid(k.grid))
<1>. DEFINE p == ProfileOf(k)
<1>1. /\ {"version", "classes", "class_of"} \subseteq DOMAIN p
      /\ p.classes = [s \in StructuresOf(k, Train(k)) |-> ClassTemplate(k, s)]
      /\ p.class_of = [b \in Grid(k.grid) |-> ClassOf(k, b)]
  BY DEF ProfileOf, Fitted
<1>. HIDE DEF p
<1>2. ASSUME NEW b \in Grid(k.grid)
      PROVE  p.class_of[b] \in DOMAIN p.classes /\ Timed(p.classes[p.class_of[b]], b)
  <2>. DEFINE s == ClassOf(k, b)
              ctas == {c \in Train(k) : Structure(k.recs[c]) = s}
  <2>1. /\ Train(k) \subseteq Grid(k.grid) /\ s \in StructuresOf(k, Train(k))
        /\ Complete(k) => b \in ctas
    BY <1>2, ClassOfFitted
  <2>2. ctas \in SUBSET Train(k) /\ ctas # {}
    BY <2>1 DEF StructuresOf
  <2>3. p.class_of[b] = s /\ p.classes[s] = ClassTemplate(k, s)
    BY <1>1, <2>1
  <2>4. \E fitting, flat : ClassTemplate(k, s) = Template(k, ctas, fitting, flat)
    BY DEF ClassTemplate
  <2>. HIDE DEF ctas
  <2>5. \A c \in ctas : Structure(k.recs[c]) = s
    BY DEF ctas
  <2>. HIDE DEF s
  <2>6. Timed(ClassTemplate(k, s), b)
    BY <2>1, <2>2, <2>4, <2>5, TemplateTimed
  <2>. QED BY <1>1, <2>1, <2>3, <2>6
<1>. QED BY <1>1, <1>2 DEF ProfileTimed, p

(* A change of rules changes no time.                                      *)
LEMMA SameTimes ==
  ASSUME NEW T, NEW b, Timed(T, b), NEW rule,
         NEW U, U = [i \in DOMAIN T |-> [T[i] EXCEPT !.rule = rule[i]]]
  PROVE  Timed(U, b)
<1>1. Len(T) \in Nat /\ DOMAIN T = 1 .. Len(T)
  BY DEF Timed, IsSequence
<1>2. DOMAIN U = 1 .. Len(T) /\ U = [i \in 1 .. Len(T) |-> U[i]]
  BY <1>1
<1>3. Len(U) = Len(T)
  BY <1>1, <1>2, LenIs
<1>4. ASSUME NEW i \in DOMAIN U
      PROVE  /\ {"delta", "by_cta"} \subseteq DOMAIN U[i]
             /\ U[i].delta \in Nat /\ Delta(U[i], b) \in Nat
  <2>1. /\ {"delta", "by_cta"} \subseteq DOMAIN T[i]
        /\ T[i].delta \in Nat /\ Delta(T[i], b) \in Nat
    BY <1>1, <1>2 DEF Timed, IsSequence
  <2>2. /\ DOMAIN U[i] = DOMAIN T[i] /\ U[i].delta = T[i].delta /\ U[i].by_cta = T[i].by_cta
    BY <1>1, <1>2, <2>1
  <2>. QED BY <2>1, <2>2 DEF Delta
<1>. QED BY <1>1, <1>2, <1>3, <1>4 DEF Timed, IsSequence

(* Neither the normal form of the rules nor another layer's rules change   *)
(* a class or a time.                                                      *)
LEMMA NormaliseTimed ==
  ASSUME NEW p, NEW ctas, ProfileTimed(p, ctas)
  PROVE  ProfileTimed(Normalise(p), ctas)
<1>. DEFINE q == Normalise(p)
<1>1. {"version", "classes", "class_of"} \subseteq DOMAIN p
  BY DEF ProfileTimed
<1>2. /\ DOMAIN q = DOMAIN p /\ q.class_of = p.class_of
      /\ q.classes = [s \in DOMAIN p.classes |-> [i \in DOMAIN p.classes[s] |->
            [p.classes[s][i] EXCEPT !.rule = Normalized(@, w.grid)]]]
  BY <1>1 DEF Normalise
<1>. HIDE DEF q
<1>3. ASSUME NEW b \in ctas
      PROVE  q.class_of[b] \in DOMAIN q.classes /\ Timed(q.classes[q.class_of[b]], b)
  <2>. DEFINE s == p.class_of[b]
              T == p.classes[s]
              rule == [i \in DOMAIN T |-> Normalized(T[i].rule, w.grid)]
              U == q.classes[s]
  <2>1. s \in DOMAIN p.classes /\ Timed(T, b)
    BY DEF ProfileTimed
  <2>2. U = [i \in DOMAIN T |-> [T[i] EXCEPT !.rule = rule[i]]]
    <3>1. U = [i \in DOMAIN T |-> [T[i] EXCEPT !.rule = Normalized(T[i].rule, w.grid)]]
      BY <1>2, <2>1
    <3>2. \A i \in DOMAIN T : rule[i] = Normalized(T[i].rule, w.grid)
      OBVIOUS
    <3>. HIDE DEF U, T, rule
    <3>. QED BY <3>1, <3>2
  <2>3. s \in DOMAIN q.classes /\ q.class_of[b] = s
    BY <1>2, <2>1
  <2>. HIDE DEF T, U, rule
  <2>4. Timed(U, b)
    BY <2>1, <2>2, SameTimes
  <2>. QED BY <2>3, <2>4 DEF U
<1>4. ProfileTimed(q, ctas)
  BY <1>1, <1>2, <1>3 DEF ProfileTimed
<1>. QED BY <1>4 DEF q

LEMMA ReboundTimed ==
  ASSUME NEW p, NEW ctas, ProfileTimed(p, ctas)
  PROVE  ProfileTimed(Rebound(p), ctas)
<1>. DEFINE q == Rebound(p)
<1>2. /\ DOMAIN q = {"version", "classes", "class_of"} /\ q.class_of = p.class_of
      /\ q.classes = [s \in DOMAIN p.classes |-> [i \in DOMAIN p.classes[s] |->
            [p.classes[s][i] EXCEPT !.rule = Translated(@, Shift(p, <<s, i>>))]]]
  BY DEF Rebound
<1>. HIDE DEF q
<1>3. ASSUME NEW b \in ctas
      PROVE  q.class_of[b] \in DOMAIN q.classes /\ Timed(q.classes[q.class_of[b]], b)
  <2>. DEFINE s == p.class_of[b]
              T == p.classes[s]
              rule == [i \in DOMAIN T |-> Translated(T[i].rule, Shift(p, <<s, i>>))]
              U == q.classes[s]
  <2>1. s \in DOMAIN p.classes /\ Timed(T, b)
    BY DEF ProfileTimed
  <2>2. U = [i \in DOMAIN T |-> [T[i] EXCEPT !.rule = rule[i]]]
    <3>1. U = [i \in DOMAIN T |-> [T[i] EXCEPT !.rule = Translated(T[i].rule, Shift(p, <<s, i>>))]]
      BY <1>2, <2>1
    <3>2. \A i \in DOMAIN T : rule[i] = Translated(T[i].rule, Shift(p, <<s, i>>))
      OBVIOUS
    <3>. HIDE DEF U, T, rule
    <3>. QED BY <3>1, <3>2
  <2>3. s \in DOMAIN q.classes /\ q.class_of[b] = s
    BY <1>2, <2>1
  <2>. HIDE DEF T, U, rule
  <2>4. Timed(U, b)
    BY <2>1, <2>2, SameTimes
  <2>. QED BY <2>3, <2>4 DEF U
<1>4. ProfileTimed(q, ctas)
  BY <1>2, <1>3 DEF ProfileTimed
<1>. QED BY <1>4 DEF q

-----------------------------------------------------------------------------
(* The cursors.                                                            *)

(* The instructions of a CTA come in the order of their times; a cursor    *)
(* that passes the check at the pop has not wrapped.                       *)
LEMMA CursorTimes ==
  ASSUME w \in Workloads, ProfileTimed(profile, Grid(w.grid)),
         NEW b \in Grid(w.grid), NEW n \in 1 .. Len(TemplateOf(b))
  PROVE  /\ n \in Nat /\ b \in Nat
         /\ TimeAt(b, n) \in Nat /\ w.place[b].start \in Nat /\ w.place[b].sm \in Nat
         /\ Delta(EntryAt(b, n), b) \in Nat
         /\ ~Overflows(EntryAt(b, n), b)
              => TimeAt(b, n) = w.place[b].start + Delta(EntryAt(b, n), b)
         /\ n < Len(TemplateOf(b))
              => /\ n + 1 \in 1 .. Len(TemplateOf(b))
                 /\ Native => Delta(EntryAt(b, n), b) =< Delta(EntryAt(b, n + 1), b)
<1>. DEFINE T == TemplateOf(b)
            own == Native \/ Structural(profile)
            start == w.place[b].start
            D == Delta(EntryAt(b, n), b)
<1>1. Timed(T, b) /\ Len(T) \in Nat
  BY DEF ProfileTimed, IsSequence, TemplateOf, Timed
<1>2. \A m : EntryAt(b, m) = Nth(T, b, own, m)
  BY DEF EntryAt
<1>. HIDE DEF T
<1>3. n \in 1 .. Len(T) /\ n \in Nat
  BY <1>1 DEF T
<1>4. D \in Nat
  <2>. HIDE DEF own
  <2>1. Nth(T, b, own, n) = T[NthIndex(T, b, own, n)] /\ NthIndex(T, b, own, n) \in DOMAIN T
    BY <1>1, <1>3, NthIs
  <2>. QED BY <1>1, <1>2, <2>1 DEF Timed, IsSequence
<1>5. start \in Nat /\ w.place[b].sm \in Nat /\ b \in Nat
  BY RecordsTyped, GridIs
<1>6. WordSize \in Nat /\ WordSize > 0
  BY ConstantsAssumption
<1>7. TimeAt(b, n) = IF Native THEN (start + D) % WordSize ELSE start + D
  BY DEF TimeAt
<1>8. Native => (Overflows(EntryAt(b, n), b) <=> start > (WordSize - 1) - D)
  BY DEF Overflows
<1>11. ASSUME n < Len(T)
       PROVE  n + 1 \in 1 .. Len(T) /\ (Native => D =< Delta(EntryAt(b, n + 1), b))
  <2>1. n + 1 \in 1 .. Len(T)
    BY <1>1, <1>3, <1>11
  <2>2. Delta(Nth(T, b, TRUE, n), b) =< Delta(Nth(T, b, TRUE, n + 1), b)
    BY <1>1, <1>3, <2>1, NthSorted
  <2>3. ASSUME Native
        PROVE  EntryAt(b, n) = Nth(T, b, TRUE, n) /\ EntryAt(b, n + 1) = Nth(T, b, TRUE, n + 1)
    BY <1>2, <2>3
  <2>. QED BY <2>1, <2>2, <2>3 DEF D
<1>. HIDE DEF D, start
<1>9. TimeAt(b, n) \in Nat
  BY <1>4, <1>5, <1>6, <1>7
<1>10. ASSUME ~Overflows(EntryAt(b, n), b) PROVE TimeAt(b, n) = start + D
  <2>1. Native => start + D \in Nat /\ start + D < WordSize
    BY <1>4, <1>5, <1>6, <1>8, <1>10
  <2>. QED BY <1>6, <1>7, <2>1
<1>. QED BY <1>3, <1>4, <1>5, <1>9, <1>10, <1>11 DEF D, start, T

(* Append, for sequences of anything.                                      *)
LEMMA AppendOf ==
  ASSUME NEW s, IsSequence(s), NEW x
  PROVE  /\ IsSequence(Append(s, x))
         /\ DOMAIN s = 1 .. Len(s) /\ Len(Append(s, x)) = Len(s) + 1
         /\ \A i \in 1 .. Len(s) : Append(s, x)[i] = s[i]
         /\ Append(s, x)[Len(s) + 1] = x
<1>. DEFINE S == {s[i] : i \in 1 .. Len(s)}
            t == Append(s, x)
<1>1. Len(s) \in Nat /\ s \in [1 .. Len(s) -> S]
  BY DEF IsSequence
<1>2. s \in Seq(S \cup {x})
  <2>. HIDE DEF S
  <2>. QED BY <1>1
<1>. HIDE DEF S
<1>3. t \in Seq(S \cup {x}) /\ Len(t) = Len(s) + 1
  BY <1>2
<1>4. t = [i \in 1 .. Len(t) |-> t[i]] /\ Len(t) \in Nat
  <2>. HIDE DEF t
  <2>. QED BY <1>3
<1>5. (\A i \in 1 .. Len(s) : t[i] = s[i]) /\ t[Len(s) + 1] = x
  BY <1>1, <1>2
<1>. QED BY <1>1, <1>3, <1>4, <1>5 DEF IsSequence

-----------------------------------------------------------------------------
(* The invariant.                                                          *)

Key(c) == <<c[1], c[2], c[3]>>

(* The workload is one of them, its profile has a time for every           *)
(* instruction of every CTA, and nothing is emitted before the merge.      *)
Prepared ==
  /\ w \in Workloads /\ who \in w.by
  /\ phase \in {"profiled", "bound", "merging"} => ProfileTimed(profile, Grid(w.grid))
  /\ phase \in {"sampled", "profiled", "bound"} => out = << >>

(* What was emitted.                                                       *)
Emissions ==
  /\ IsSequence(out)
  /\ \A i \in 1 .. Len(out) : /\ out[i].cta \in Grid(w.grid) /\ out[i].time \in Nat
                              /\ out[i].time >= w.place[out[i].cta].start
  /\ InMergeOrder

(* The heap holds at most one cursor of a CTA, with its time.              *)
CursorsKept ==
  /\ \A c \in heap : /\ c[3] \in Grid(w.grid) /\ c[4] \in 1 .. Len(TemplateOf(c[3]))
                     /\ c = Cursor(c[3], c[4])
  /\ \A c, d \in heap : c[3] = d[3] => c = d

(* A cursor is not behind what was emitted, or its sum has wrapped and it  *)
(* will be refused when it is popped.                                      *)
NoneBehind ==
  out # << >> => \A c \in heap : \/ Overflows(EntryAt(c[3], c[4]), c[3])
                                 \/ ~LexLess(Key(c), MergeKey(out[Len(out)]))

IInv == /\ Prepared
        /\ Native => Emissions
        /\ phase = "merging" => CursorsKept /\ (Native => NoneBehind)

LEMMA EmptyStream == IsSequence(<< >>) /\ Len(<< >>) = 0
BY DEF IsSequence

LEMMA Initially == Init => IInv
<1>. SUFFICES ASSUME Init PROVE IInv
  OBVIOUS
<1>1. Prepared
  BY DEF Init, Prepared
<1>2. Emissions
  BY EmptyStream DEF Init, Emissions, InMergeOrder
<1>. QED BY <1>1, <1>2 DEF Init, IInv

(* The cursor on top of the heap is the first, and whole.                  *)
LEMMA TopIs ==
  ASSUME w \in Workloads, ProfileTimed(profile, Grid(w.grid)), CursorsKept, heap # {}
  PROVE  /\ Top \in heap
         /\ \A c \in heap \ {Top} : LexLess(Top, c)
         /\ heap \in SUBSET Quadruple
<1>1. ASSUME NEW c \in heap PROVE c \in Quadruple
  <2>1. /\ c[3] \in Grid(w.grid) /\ c[4] \in 1 .. Len(TemplateOf(c[3]))
        /\ c = Cursor(c[3], c[4])
    BY DEF CursorsKept
  <2>2. /\ c[4] \in Nat /\ c[3] \in Nat /\ TimeAt(c[3], c[4]) \in Nat
        /\ w.place[c[3]].sm \in Nat
    BY <2>1, CursorTimes
  <2>3. c = <<TimeAt(c[3], c[4]), w.place[c[3]].sm, c[3], c[4]>>
    BY <2>1 DEF Cursor
  <2>. QED BY <2>2, <2>3 DEF Quadruple
<1>2. \E c \in heap : \A d \in heap \ {c} : LexLess(c, d)
  <2>1. heap \in SUBSET Quadruple /\ \A c, d \in heap : c[3] = d[3] => c = d
    BY <1>1 DEF CursorsKept
  <2>. QED BY <2>1, FirstCursor
<1>. QED BY <1>1, <1>2 DEF Top

LEMMA OpenKeeps == IInv /\ Open => IInv'
<1>. SUFFICES ASSUME IInv, Open PROVE IInv'
  OBVIOUS
<1>1. /\ phase \in {"profiled", "bound"} /\ w' = w /\ profile' = profile /\ who' = who /\ out' = out
      /\ out = << >> /\ w \in Workloads /\ ProfileTimed(profile, Grid(w.grid)) /\ who \in w.by
  BY DEF IInv, Prepared, Open
<1>2. Prepared'
  BY <1>1 DEF Open, Prepared
<1>3. (Native' <=> Native) /\ (Emissions' <=> Emissions)
  BY <1>1 DEF Native, Emissions, InMergeOrder, MergeKey
<1>4. ASSUME phase' = "merging" PROVE CursorsKept' /\ NoneBehind'
  <2>1. heap' = {Cursor(b, 1) : b \in {c \in Grid(w.grid) : TemplateOf(c) # << >>}}
    BY <1>4 DEF Open
  <2>2. \A b, n : Cursor(b, n)' = Cursor(b, n) /\ TemplateOf(b)' = TemplateOf(b)
    BY <1>1 DEF Cursor, TimeAt, EntryAt, TemplateOf, Native
  <2>3. ASSUME NEW b \in Grid(w.grid), TemplateOf(b) # << >> PROVE 1 \in 1 .. Len(TemplateOf(b))
    <3>1. Timed(TemplateOf(b), b)
      BY <1>1 DEF ProfileTimed, TemplateOf
    <3>. QED BY <2>3, <3>1 DEF Timed, IsSequence
  <2>4. ASSUME NEW c \in heap'
        PROVE  /\ c[3] \in Grid(w.grid) /\ c[4] \in 1 .. Len(TemplateOf(c[3]))
               /\ c = Cursor(c[3], c[4]) /\ c[4] = 1
    <3>1. PICK b \in Grid(w.grid) : TemplateOf(b) # << >> /\ c = Cursor(b, 1)
      BY <2>1
    <3>2. c[3] = b /\ c[4] = 1
      BY <3>1 DEF Cursor
    <3>. QED BY <2>3, <3>1, <3>2
  <2>5. CursorsKept'
    BY <1>1, <2>2, <2>4 DEF CursorsKept
  <2>. QED BY <1>1, <2>5 DEF NoneBehind
<1>. QED BY <1>2, <1>3, <1>4 DEF IInv

(* One more instruction, that of the top, keeps the order.                 *)
LEMMA EmissionKept ==
  ASSUME Emissions, w \in Workloads, w' = w, NEW o, out' = Append(out, o),
         o.cta \in Grid(w.grid), o.time \in Nat, o.time >= w.place[o.cta].start,
         out # << >> => ~LexLess(MergeKey(o), MergeKey(out[Len(out)]))
  PROVE  Emissions' /\ out'[Len(out')] = o
<1>. DEFINE n == Len(out)
            s == Append(out, o)
<1>1. n \in Nat /\ IsSequence(out) /\ DOMAIN out = 1 .. n
  BY AppendOf DEF Emissions, IsSequence
<1>2. /\ IsSequence(s) /\ Len(s) = n + 1 /\ s[n + 1] = o
      /\ \A i \in 1 .. n : s[i] = out[i]
  BY <1>1, AppendOf
<1>. HIDE DEF s
<1>3. ASSUME NEW i \in 1 .. Len(s)
      PROVE  s[i].cta \in Grid(w.grid) /\ s[i].time \in Nat /\ s[i].time >= w.place[s[i].cta].start
  <2>1. CASE i \in 1 .. n
    BY <1>2, <2>1 DEF Emissions
  <2>2. CASE i = n + 1
    BY <1>2, <2>2
  <2>. QED BY <1>1, <1>2, <2>1, <2>2
<1>4. ASSUME NEW i \in 1 .. Len(s) - 1
      PROVE  ~LexLess(MergeKey(s[i + 1]), MergeKey(s[i]))
  <2>1. i \in 1 .. n
    BY <1>1, <1>2
  <2>2. CASE i \in 1 .. n - 1
    <3>1. i + 1 \in 1 .. n
      BY <1>1, <2>2
    <3>2. ~LexLess(MergeKey(out[i + 1]), MergeKey(out[i]))
      BY <2>2 DEF Emissions, InMergeOrder
    <3>. QED BY <1>2, <2>1, <3>1, <3>2
  <2>3. CASE i = n
    <3>1. out # << >>
      BY <1>1, <2>1, <2>3
    <3>. QED BY <1>2, <2>1, <2>3, <3>1
  <2>4. i \in 1 .. n - 1 \/ i = n
    <3>1. n \in Nat /\ i \in 1 .. n
      BY <1>1, <2>1
    <3>. HIDE DEF n
    <3>. QED BY <3>1
  <2>. QED BY <2>2, <2>3, <2>4
<1>5. out' = s /\ \A x : MergeKey(x)' = MergeKey(x)
  BY DEF s, MergeKey
<1>6. InMergeOrder'
  BY <1>4, <1>5 DEF InMergeOrder
<1>. QED BY <1>2, <1>3, <1>5, <1>6 DEF Emissions

(* What a pop does: the instruction of the first cursor is emitted, and    *)
(* the cursor moves on.                                                    *)
Emission(b, n) == [cta |-> b, slot |-> EntryAt(b, n).slot, base |-> BaseOf(EntryAt(b, n), b),
                   time |-> TimeAt(b, n)]

Pops(b, n) ==
  /\ b \in Grid(w.grid) /\ n \in 1 .. Len(TemplateOf(b))
  /\ Top \in heap /\ Top = Cursor(b, n)
  /\ ~Overflows(EntryAt(b, n), b) /\ BaseOf(EntryAt(b, n), b) # Refused
  /\ out' = Append(out, Emission(b, n))
  /\ \A c \in heap' : \/ c \in heap \ {Top} /\ c[3] # b
                      \/ /\ n < Len(TemplateOf(b))
                         /\ c = Cursor(b, n + 1) /\ c[3] = b /\ c[4] = n + 1
  /\ \A c \in heap \ {Top} : c \in heap'
  /\ n < Len(TemplateOf(b)) => Cursor(b, n + 1) \in heap'

LEMMA EmitPops ==
  ASSUME w \in Workloads, ProfileTimed(profile, Grid(w.grid)), CursorsKept, Emit, phase' = "merging"
  PROVE  (\E b, n : Pops(b, n)) /\ CursorsKept'
<1>. DEFINE b == Top[3]
            n == Top[4]
            e == EntryAt(b, n)
            rest == heap \ {Top}
<1>1. /\ phase = "merging" /\ heap # {} /\ w' = w /\ profile' = profile /\ who' = who
      /\ ~Overflows(e, b) /\ BaseOf(e, b) # Refused /\ out' = Append(out, Emission(b, n))
      /\ heap' = IF n < Len(TemplateOf(b)) THEN rest \cup {Cursor(b, n + 1)} ELSE rest
  BY DEF Emit, Emission
<1>2. Top \in heap
  BY <1>1, TopIs
<1>3. b \in Grid(w.grid) /\ n \in 1 .. Len(TemplateOf(b)) /\ Top = Cursor(b, n)
  BY <1>2 DEF CursorsKept
<1>4. ASSUME NEW c \in heap'
      PROVE  \/ c \in rest /\ c[3] # b
             \/ /\ n < Len(TemplateOf(b))
                /\ c = Cursor(b, n + 1) /\ c[3] = b /\ c[4] = n + 1
  <2>1. c \in rest => c[3] # b
    BY <1>2 DEF CursorsKept
  <2>2. Cursor(b, n + 1)[3] = b /\ Cursor(b, n + 1)[4] = n + 1
    BY DEF Cursor
  <2>. QED BY <1>1, <2>1, <2>2
<1>. HIDE DEF b, n
<1>5. n < Len(TemplateOf(b)) => n + 1 \in 1 .. Len(TemplateOf(b))
  BY <1>3, CursorTimes
<1>6. Pops(b, n)
  BY <1>1, <1>2, <1>3, <1>4 DEF Pops
<1>7. CursorsKept'
  <2>1. /\ \A c, m : Cursor(c, m)' = Cursor(c, m)
        /\ \A c : TemplateOf(c)' = TemplateOf(c)
    BY <1>1 DEF Cursor, TimeAt, EntryAt, TemplateOf, Native
  <2>2. ASSUME NEW c \in heap'
        PROVE  /\ c[3] \in Grid(w.grid) /\ c[4] \in 1 .. Len(TemplateOf(c[3]))
               /\ c = Cursor(c[3], c[4])
    BY <1>3, <1>4, <1>5 DEF CursorsKept
  <2>3. ASSUME NEW c \in heap', NEW d \in heap', c[3] = d[3] PROVE c = d
    BY <1>4, <2>3 DEF CursorsKept
  <2>. QED BY <1>1, <2>1, <2>2, <2>3 DEF CursorsKept
<1>. QED BY <1>6, <1>7

LEMMA EmitKeeps == IInv /\ Emit => IInv'
<1>. SUFFICES ASSUME IInv, Emit PROVE IInv'
  OBVIOUS
<1>1. /\ phase = "merging" /\ heap # {} /\ w' = w /\ profile' = profile /\ who' = who
      /\ phase' \in {"merging", "failed"}
      /\ w \in Workloads /\ ProfileTimed(profile, Grid(w.grid)) /\ CursorsKept /\ who \in w.by
  BY DEF IInv, Prepared, Emit
<1>2. Prepared'
  BY <1>1 DEF Prepared
<1>3. Native' <=> Native
  BY <1>1 DEF Native
<1>4. CASE phase' = "failed"
  <2>1. out' = out
    BY <1>1, <1>4 DEF Emit
  <2>2. Emissions' <=> Emissions
    BY <1>1, <2>1 DEF Emissions, InMergeOrder, MergeKey
  <2>. QED BY <1>2, <1>3, <1>4, <2>2 DEF IInv
<1>5. CASE phase' = "merging"
  <2>1. PICK b, n : Pops(b, n)
    BY <1>1, <1>5, EmitPops
  <2>2. CursorsKept'
    BY <1>1, <1>5, EmitPops
  <2>3. ASSUME Native PROVE Emissions' /\ NoneBehind'
    <3>. DEFINE e == EntryAt(b, n)
                o == Emission(b, n)
    <3>1. Emissions /\ NoneBehind
      BY <1>1, <2>3 DEF IInv
    <3>2. /\ b \in Grid(w.grid) /\ n \in 1 .. Len(TemplateOf(b)) /\ Top = Cursor(b, n)
          /\ Top \in heap /\ ~Overflows(e, b) /\ out' = Append(out, o)
      BY <2>1 DEF Pops
    <3>3. heap \in SUBSET Quadruple /\ \A c \in heap \ {Top} : LexLess(Top, c)
      BY <1>1, TopIs
    <3>4. /\ n \in Nat /\ b \in Nat
          /\ TimeAt(b, n) \in Nat /\ w.place[b].start \in Nat /\ w.place[b].sm \in Nat
          /\ Delta(e, b) \in Nat
          /\ TimeAt(b, n) = w.place[b].start + Delta(e, b)
          /\ n < Len(TemplateOf(b))
               => n + 1 \in 1 .. Len(TemplateOf(b)) /\ Delta(e, b) =< Delta(EntryAt(b, n + 1), b)
      BY <1>1, <2>3, <3>2, CursorTimes
    <3>5. /\ Key(Top) = MergeKey(o) /\ Key(Top) = <<TimeAt(b, n), w.place[b].sm, b>>
          /\ Top[3] = b /\ Top[4] = n
      BY <3>2 DEF Key, MergeKey, Cursor, Emission
    <3>6. out # << >> => ~LexLess(MergeKey(o), MergeKey(out[Len(out)]))
      BY <3>1, <3>2, <3>5 DEF NoneBehind
    <3>7. o.cta \in Grid(w.grid) /\ o.time \in Nat /\ o.time >= w.place[o.cta].start
      BY <3>2, <3>4 DEF Emission
    <3>. HIDE DEF o
    <3>8. Emissions' /\ out'[Len(out')] = o
      BY <1>1, <3>1, <3>2, <3>6, <3>7, EmissionKept
    <3>9. /\ \A c, m : EntryAt(c, m)' = EntryAt(c, m)
          /\ \A x, c : Overflows(x, c)' <=> Overflows(x, c)
          /\ \A x : MergeKey(x)' = MergeKey(x)
      BY <1>1 DEF EntryAt, TemplateOf, Native, Overflows, MergeKey
    <3>10. ASSUME NEW c \in heap'
           PROVE  Overflows(EntryAt(c[3], c[4]), c[3]) \/ ~LexLess(Key(c), MergeKey(o))
      <4>1. CASE c \in heap \ {Top}
        <5>1. LexLess(Top, c) /\ c \in Quadruple /\ Top \in Quadruple
          BY <3>2, <3>3, <4>1
        <5>2. /\ c = <<c[1], c[2], c[3], c[4]>> /\ Top = <<Top[1], Top[2], Top[3], Top[4]>>
              /\ c[1] \in Int /\ c[2] \in Int /\ c[3] \in Int /\ c[4] \in Int
              /\ Top[1] \in Int /\ Top[2] \in Int /\ Top[3] \in Int /\ Top[4] \in Int
          BY <5>1 DEF Quadruple
        <5>3. ~LexLess(Key(c), Key(Top))
          BY <5>1, <5>2, LexOfFour DEF Key
        <5>. QED BY <3>5, <5>3
      <4>2. CASE /\ n < Len(TemplateOf(b))
                 /\ c = Cursor(b, n + 1) /\ c[3] = b /\ c[4] = n + 1
        <5>. DEFINE t == TimeAt(b, n + 1)
        <5>1. ASSUME ~Overflows(EntryAt(b, n + 1), b)
              PROVE  t \in Nat /\ TimeAt(b, n) =< t
          <6>1. /\ n + 1 \in 1 .. Len(TemplateOf(b))
                /\ Delta(e, b) =< Delta(EntryAt(b, n + 1), b)
            BY <3>4, <4>2
          <6>2. /\ t \in Nat /\ Delta(EntryAt(b, n + 1), b) \in Nat
                /\ t = w.place[b].start + Delta(EntryAt(b, n + 1), b)
            BY <1>1, <3>2, <5>1, <6>1, CursorTimes
          <6>. HIDE DEF t, e
          <6>. QED BY <3>4, <6>1, <6>2, SMTT(30)
        <5>2. Key(c) = <<t, w.place[b].sm, b>>
          BY <4>2 DEF Key, Cursor
        <5>. HIDE DEF t
        <5>3. ASSUME ~Overflows(EntryAt(b, n + 1), b) PROVE ~LexLess(Key(c), MergeKey(o))
          <6>1. /\ t \in Int /\ TimeAt(b, n) \in Int /\ w.place[b].sm \in Int /\ b \in Int
                /\ TimeAt(b, n) =< t
            BY <3>4, <5>1, <5>3
          <6>2. ~LexLess(<<t, w.place[b].sm, b>>, <<TimeAt(b, n), w.place[b].sm, b>>)
            BY <6>1, LexOfThree
          <6>. QED BY <3>5, <5>2, <6>2
        <5>. QED BY <4>2, <5>3
      <4>. QED BY <2>1, <4>1, <4>2 DEF Pops
    <3>11. NoneBehind'
      <4>1. \A c : Key(c)' = Key(c)
        BY DEF Key
      <4>. QED BY <3>8, <3>9, <3>10, <4>1 DEF NoneBehind
    <3>. QED BY <3>8, <3>11
  <2>. QED BY <1>2, <1>3, <2>2, <2>3 DEF IInv
<1>. QED BY <1>1, <1>4, <1>5

LEMMA ProfileKeeps == IInv /\ Profile => IInv'
<1>. SUFFICES ASSUME IInv, Profile PROVE IInv'
  OBVIOUS
<1>1. /\ phase = "sampled" /\ w' = w /\ who' = who /\ out' = out
      /\ out = << >> /\ w \in Workloads
  BY DEF IInv, Prepared, Profile
<1>2. (Native' <=> Native) /\ (Emissions' <=> Emissions)
  BY <1>1 DEF Native, Emissions, InMergeOrder, MergeKey
<1>3. CASE Admitted(w) /\ phase' = "profiled" /\ profile' = ProfileOf(w)
  <2>1. ProfileTimed(ProfileOf(w), Grid(w.grid))
    BY <1>1, <1>3, FittedTimed DEF Admitted
  <2>. QED BY <1>1, <1>2, <1>3, <2>1 DEF IInv, Prepared
<1>4. CASE phase' = "refused"
  BY <1>1, <1>2, <1>4 DEF IInv, Prepared
<1>. QED BY <1>3, <1>4 DEF Profile

LEMMA RebindKeeps == IInv /\ Rebind => IInv'
<1>. SUFFICES ASSUME IInv, Rebind PROVE IInv'
  OBVIOUS
<1>1. /\ phase = "profiled" /\ w' = w /\ who' = who /\ out' = out
      /\ out = << >> /\ w \in Workloads /\ ProfileTimed(profile, Grid(w.grid))
  BY DEF IInv, Prepared, Rebind
<1>2. (Native' <=> Native) /\ (Emissions' <=> Emissions)
  BY <1>1 DEF Native, Emissions, InMergeOrder, MergeKey
<1>3. CASE /\ phase' = "bound"
           /\ profile' \in {Normalise(profile), Rebound(Normalise(profile))}
  <2>1. ProfileTimed(profile', Grid(w.grid))
    BY <1>1, <1>3, NormaliseTimed, ReboundTimed
  <2>. QED BY <1>1, <1>2, <1>3, <2>1 DEF IInv, Prepared
<1>4. CASE phase' = "refused"
  BY <1>1, <1>2, <1>4 DEF IInv, Prepared
<1>. QED BY <1>3, <1>4 DEF Rebind

LEMMA CloseKeeps == IInv /\ Close => IInv'
<1>. SUFFICES ASSUME IInv, Close PROVE IInv'
  OBVIOUS
<1>1. /\ phase' = "done" /\ w' = w /\ who' = who /\ out' = out /\ w \in Workloads
  BY DEF IInv, Prepared, Close
<1>2. (Native' <=> Native) /\ (Emissions' <=> Emissions)
  BY <1>1 DEF Native, Emissions, InMergeOrder, MergeKey
<1>. QED BY <1>1, <1>2 DEF IInv, Prepared

LEMMA NothingKeeps == IInv /\ UNCHANGED vars => IInv'
<1>. SUFFICES ASSUME IInv, UNCHANGED vars PROVE IInv'
  OBVIOUS
<1>1. /\ w' = w /\ phase' = phase /\ profile' = profile /\ who' = who /\ heap' = heap /\ out' = out
  BY DEF vars
<1>2. (Native' <=> Native) /\ (Emissions' <=> Emissions) /\ (Prepared' <=> Prepared)
  BY <1>1 DEF Native, Emissions, InMergeOrder, MergeKey, Prepared
<1>3. (CursorsKept' <=> CursorsKept) /\ (NoneBehind' <=> NoneBehind)
  BY <1>1 DEF CursorsKept, NoneBehind, Cursor, TimeAt, EntryAt, TemplateOf, Native, Overflows,
              MergeKey, Key
<1>. QED BY <1>1, <1>2, <1>3 DEF IInv

-----------------------------------------------------------------------------
(* The order of the stream.                                                *)

(* In every reachable state, for all workloads and every word size, the    *)
(* profile that is expanded times every instruction of every CTA, and the  *)
(* heap of KernelGenerator holds one current cursor of each open CTA, none *)
(* behind what was emitted unless its 64-bit sum has wrapped.              *)
THEOREM Invariance == Spec => []IInv
<1>1. IInv /\ [Next]_vars => IInv'
  BY ProfileKeeps, RebindKeeps, OpenKeeps, EmitKeeps, CloseKeeps, NothingKeeps DEF Next
<1>. QED BY Initially, <1>1, PTL DEF Spec

(* What KernelGenerator emits is always in the order of the merge by time, *)
(* SM and CTA, and no time of it has wrapped below its CTA's start:        *)
(* next's check comes late, at the pop, and still early enough.            *)
THEOREM StreamInOrder == Spec => []StreamOrdered
<1>1. IInv => StreamOrdered
  <2>. SUFFICES ASSUME IInv, Native PROVE StreamOrdered
    BY DEF StreamOrdered
  <2>1. Emissions
    BY DEF IInv
  <2>2. DOMAIN out = 1 .. Len(out)
    BY <2>1 DEF Emissions, IsSequence
  <2>. QED BY <2>1, <2>2 DEF Emissions, StreamOrdered
<1>. QED BY Invariance, <1>1, PTL

-----------------------------------------------------------------------------
(* Rules.                                                                  *)

(* Grids, and the points that a rule is fitted to.                         *)
Sizes == [1..3 -> Nat \ {0}]
Points(g) == UNION {[D -> Nat] : D \in (SUBSET Grid(g)) \ {{}}}

(* A CTA has a place on each axis.                                         *)
LEMMA CoordinateIs ==
  ASSUME NEW g \in Sizes, NEW b \in Grid(g)
  PROVE  /\ b \in Nat /\ g[1] \in Nat /\ g[2] \in Nat /\ g[3] \in Nat
         /\ g[1] > 0 /\ g[2] > 0 /\ g[3] > 0
         /\ Coordinate(g, b)[1] = b % g[1]
         /\ Coordinate(g, b)[2] = (b \div g[1]) % g[2]
         /\ Coordinate(g, b)[3] = b \div (g[1] * g[2])
         /\ \A i \in 1..3 : Coordinate(g, b)[i] \in Nat
         /\ Coordinate(g, b)[1] < g[1] /\ Coordinate(g, b)[2] < g[2]
         /\ Coordinate(g, b)[2] + 1 \in 1 .. g[2]
<1>1. /\ g[1] \in Nat /\ g[2] \in Nat /\ g[3] \in Nat
      /\ g[1] > 0 /\ g[2] > 0 /\ g[3] > 0
  BY DEF Sizes
<1>2. g[1] * g[2] \in Nat /\ g[1] * g[2] > 0
  BY <1>1
<1>3. GridSize(g) \in Int
  BY <1>1 DEF GridSize
<1>4. b \in Nat
  BY <1>3 DEF Grid
<1>5. b % g[1] \in 0 .. g[1] - 1 /\ b \div g[1] \in Nat
  BY <1>1, <1>4
<1>6. (b \div g[1]) % g[2] \in 0 .. g[2] - 1
  BY <1>1, <1>5
<1>7. b \div (g[1] * g[2]) \in Nat
  BY <1>2, <1>4
<1>8. /\ Coordinate(g, b)[1] = b % g[1]
      /\ Coordinate(g, b)[2] = (b \div g[1]) % g[2]
      /\ Coordinate(g, b)[3] = b \div (g[1] * g[2])
  BY DEF Coordinate
<1>9. \A i \in 1..3 : Coordinate(g, b)[i] \in Nat
  <2>1. /\ Coordinate(g, b)[1] \in Nat /\ Coordinate(g, b)[2] \in Nat /\ Coordinate(g, b)[3] \in Nat
    BY <1>1, <1>5, <1>6, <1>7, <1>8
  <2>. QED BY <2>1
<1>. QED BY <1>1, <1>4, <1>5, <1>6, <1>8, <1>9

LEMMA QuotientIs ==
  ASSUME NEW n \in Int, NEW d \in Int, Divides(d, n)
  PROVE  Quotient(n, d) \in Int
<1>1. d # 0
  BY DEF Divides
<1>2. CASE d > 0
  BY <1>2 DEF Quotient
<1>3. CASE d < 0
  <2>1. -d \in Nat /\ -d > 0 /\ -n \in Int
    BY <1>3
  <2>2. (-n) \div (-d) \in Int
    BY <2>1
  <2>. QED BY <1>3, <2>2 DEF Quotient
<1>. QED BY <1>1, <1>2, <1>3

LEMMA PointsAre ==
  ASSUME NEW g \in Sizes, NEW p \in Points(g)
  PROVE  /\ DOMAIN p \subseteq Grid(g) /\ DOMAIN p # {} /\ Anchor(p) \in DOMAIN p
         /\ \A b \in DOMAIN p : p[b] \in Nat /\ b \in Grid(g) /\ b \in Nat
<1>1. DOMAIN p \subseteq Grid(g) /\ DOMAIN p # {} /\ \A b \in DOMAIN p : p[b] \in Nat
  BY DEF Points
<1>2. \A b \in Grid(g) : b \in Nat
  BY CoordinateIs
<1>3. DOMAIN p \in SUBSET Nat
  BY <1>1, <1>2
<1>. QED BY <1>1, <1>2, <1>3, LeastIs DEF Anchor

(* A step along an axis is an integer.                                     *)
LEMMA StepIs ==
  ASSUME NEW g \in Sizes, NEW p \in Points(g), NEW axis \in 1..3,
         NEW points \in SUBSET DOMAIN p, NEW s \in StepAlong(p, g, axis, points)
  PROVE  s \in Int
<1>. DEFINE D(b) == Coordinate(g, b)[axis] - Coordinate(g, Anchor(p))[axis]
            N(b) == p[b] - p[Anchor(p)]
<1>1. PICK b \in points : Divides(D(b), N(b)) /\ s = Quotient(N(b), D(b))
  BY DEF StepAlong
<1>2. D(b) \in Int /\ N(b) \in Int
  <2>1. p[b] \in Nat /\ p[Anchor(p)] \in Nat /\ b \in Grid(g) /\ Anchor(p) \in Grid(g)
    BY PointsAre
  <2>2. Coordinate(g, b)[axis] \in Nat /\ Coordinate(g, Anchor(p))[axis] \in Nat
    BY <2>1, CoordinateIs
  <2>. QED BY <2>1, <2>2
<1>. HIDE DEF D, N
<1>. QED BY <1>1, <1>2, QuotientIs

LEMMA AxisStepIs ==
  ASSUME NEW g \in Sizes, NEW p \in Points(g), NEW axis \in 1..3, AxisStep(p, g, axis) # {}
  PROVE  TheOnly(AxisStep(p, g, axis)) \in Int
<1>1. TheOnly(AxisStep(p, g, axis)) \in AxisStep(p, g, axis)
  BY DEF TheOnly
<1>2. AlignedWith(p, g, axis) \in SUBSET DOMAIN p
  BY DEF AlignedWith
<1>3. AxisStep(p, g, axis) = {0} \/ AxisStep(p, g, axis) = StepAlong(p, g, axis, AlignedWith(p, g, axis))
  BY DEF AxisStep
<1>. QED BY <1>1, <1>2, <1>3, StepIs

LEMMA HalvesAre ==
  ASSUME NEW g \in Sizes, NEW p \in Points(g), HasHalves(p, g)
  PROVE  TheOnly(LowerStep(p, g)) \in Int /\ UpperStep(p, g) \in Int
<1>. DEFINE t == TheOnly(LowerStep(p, g))
            b == Least(UpperZ(p, g))
<1>1. t \in LowerStep(p, g)
  BY DEF TheOnly, HasHalves
<1>2. LowerZ(p, g) \in SUBSET DOMAIN p /\ UpperZ(p, g) \in SUBSET DOMAIN p
  BY DEF LowerZ, UpperZ, AlignedWith
<1>3. t \in Int
  BY <1>1, <1>2, StepIs DEF LowerStep
<1>4. b \in DOMAIN p
  <2>1. UpperZ(p, g) \in SUBSET Nat /\ UpperZ(p, g) # {}
    BY <1>2, PointsAre DEF HasHalves
  <2>. QED BY <1>2, <2>1, LeastIs
<1>5. p[b] \in Nat /\ p[Anchor(p)] \in Nat /\ Coordinate(g, b)[3] \in Nat
  BY <1>4, PointsAre, CoordinateIs
<1>6. UpperStep(p, g) = p[b] - p[Anchor(p)] - t * Coordinate(g, b)[3]
  BY DEF UpperStep
<1>. HIDE DEF t, b
<1>7. t * Coordinate(g, b)[3] \in Int
  BY <1>3, <1>5
<1>. QED BY <1>3, <1>5, <1>6, <1>7 DEF t

LEMMA OffsetsAre ==
  ASSUME NEW g \in Sizes, NEW p \in Points(g), HasYColumn(p, g)
  PROVE  YOffsets(p, g) \in [1 .. g[2] -> Int]
<1>1. ASSUME NEW y \in 1 .. g[2] PROVE p[YColumn(p, g)[y]] - p[Anchor(p)] \in Int
  BY PointsAre DEF HasYColumn
<1>. QED BY <1>1 DEF YOffsets

(* A rule and the points it gives.                                         *)
Explains(r, g, p) == \A b \in DOMAIN p : PredictBase(r, g, b) = p[b]

LEMMA ExplainingIs ==
  ASSUME NEW r, NEW g, NEW p
  PROVE  Explaining(r, g, p) = NoRule \/ (Explaining(r, g, p) = r /\ Explains(r, g, p))
BY DEF Explaining, Explains

LEMMA UniqueIs ==
  ASSUME NEW S
  PROVE  Unique(S) = NoRule \/ Unique(S) \in S
<1>1. CASE Cardinality(S) = 1
  <2>1. S # {}
    BY <1>1, FS_EmptySet
  <2>. QED BY <2>1 DEF Unique, TheOnly
<1>. QED BY <1>1 DEF Unique

(* What the z part of a tiled rule is made of.                             *)
LEMMA TiledZIs ==
  ASSUME NEW g \in Sizes, NEW p \in Points(g),
         g[3] \in 2..3 => AxisStep(p, g, 3) # {}, g[3] >= 4 => HasHalves(p, g)
  PROVE  /\ TiledZ(p, g).zs \in Int
         /\ \A b \in Grid(g) : HalfStep(TiledZ(p, g), Coordinate(g, b)[3]) \in Int
         /\ \/ TiledZ(p, g) = [zs |-> TiledZ(p, g).zs]
            \/ TiledZ(p, g) = [zs |-> TiledZ(p, g).zs, half |-> Half(g), hs |-> UpperStep(p, g)]
               /\ UpperStep(p, g) \in Int
<1>. DEFINE z == TiledZ(p, g)
<1>1. g[3] \in Nat /\ g[3] > 0
  BY DEF Sizes
<1>2. CASE g[3] = 1
  <2>1. z = [zs |-> 0]
    BY <1>2 DEF TiledZ
  <2>. QED BY <2>1 DEF HalfStep
<1>3. CASE g[3] \in 2..3
  <2>1. z = [zs |-> TheOnly(AxisStep(p, g, 3))]
    BY <1>3 DEF TiledZ
  <2>2. z.zs \in Int
    BY <1>3, <2>1, AxisStepIs
  <2>3. "half" \notin DOMAIN z
    BY <2>1
  <2>. HIDE DEF z
  <2>4. \A x : HalfStep(z, x) = 0
    BY <2>3 DEF HalfStep
  <2>5. z = [zs |-> z.zs]
    BY <2>1
  <2>. QED BY <2>2, <2>4, <2>5 DEF z
<1>4. CASE g[3] >= 4
  <2>1. z = [zs |-> TheOnly(LowerStep(p, g)), half |-> Half(g), hs |-> UpperStep(p, g)]
    BY <1>1, <1>4 DEF TiledZ
  <2>2. TheOnly(LowerStep(p, g)) \in Int /\ UpperStep(p, g) \in Int
    BY <1>4, HalvesAre
  <2>3. z.zs = TheOnly(LowerStep(p, g)) /\ z.hs = UpperStep(p, g) /\ "half" \in DOMAIN z
    BY <2>1
  <2>. HIDE DEF z
  <2>4. \A x : HalfStep(z, x) \in Int
    BY <2>2, <2>3 DEF HalfStep
  <2>5. z = [zs |-> z.zs, half |-> Half(g), hs |-> UpperStep(p, g)]
    BY <2>1, <2>3
  <2>. QED BY <2>2, <2>3, <2>4, <2>5 DEF z
<1>5. g[3] = 1 \/ g[3] \in 2..3 \/ g[3] >= 4
  BY <1>1
<1>. QED BY <1>2, <1>3, <1>4, <1>5

(* The strides that two x determine are integers.                          *)
LEMMA StridesAre ==
  ASSUME NEW v, DOMAIN v \subseteq Nat, \A x \in DOMAIN v : v[x] \in Int,
         NEW d \in Nat, d > 0, NEW t \in TiledStrides(v, d)
  PROVE  t[1] \in Int /\ t[2] \in Int
<1>. DEFINE det(m, n) == (m \div d) * (n % d) - (n \div d) * (m % d)
            quot(m, n) == v[m] * (n % d) - v[n] * (m % d)
            rem(m, n) == (m \div d) * v[n] - (n \div d) * v[m]
<1>1. PICK e \in (DOMAIN v) \X (DOMAIN v) :
         /\ Divides(det(e[1], e[2]), quot(e[1], e[2])) /\ Divides(det(e[1], e[2]), rem(e[1], e[2]))
         /\ t = <<Quotient(quot(e[1], e[2]), det(e[1], e[2])), Quotient(rem(e[1], e[2]), det(e[1], e[2]))>>
  BY DEF TiledStrides
<1>2. e[1] \in DOMAIN v /\ e[2] \in DOMAIN v
  OBVIOUS
<1>3. ASSUME NEW m \in DOMAIN v, NEW n \in DOMAIN v
      PROVE  det(m, n) \in Int /\ quot(m, n) \in Int /\ rem(m, n) \in Int
  <2>1. m \in Nat /\ n \in Nat /\ v[m] \in Int /\ v[n] \in Int
    OBVIOUS
  <2>2. m \div d \in Int /\ n \div d \in Int /\ m % d \in Int /\ n % d \in Int
    BY <2>1
  <2>3. \A i, j \in Int : i * j \in Int
    OBVIOUS
  <2>. QED BY <2>1, <2>2, <2>3
<1>4. det(e[1], e[2]) \in Int /\ quot(e[1], e[2]) \in Int /\ rem(e[1], e[2]) \in Int
  BY <1>2, <1>3
<1>. HIDE DEF det, quot, rem
<1>5. /\ Quotient(quot(e[1], e[2]), det(e[1], e[2])) \in Int
      /\ Quotient(rem(e[1], e[2]), det(e[1], e[2])) \in Int
  BY <1>1, <1>4, QuotientIs
<1>. QED BY <1>1, <1>5

(* What With adds and keeps.                                               *)
LEMMA WithIs ==
  ASSUME NEW r, NEW s
  PROVE  /\ DOMAIN With(r, s) = DOMAIN r \cup DOMAIN s
         /\ \A f \in DOMAIN r : With(r, s)[f] = r[f]
         /\ \A f \in DOMAIN s \ DOMAIN r : With(r, s)[f] = s[f]
BY DEF With

(* A candidate gives every point: what it gives x is what all points at x  *)
(* have left without their y and z parts.                                  *)
ZTerm(z, g) ==
  /\ z.zs \in Int /\ \A b \in Grid(g) : HalfStep(z, Coordinate(g, b)[3]) \in Int
  /\ z = [zs |-> z.zs] \/ z = [zs |-> z.zs, half |-> z.half, hs |-> z.hs]

TiledRule(r, z, yoff) ==
  /\ r.kind = "tiled" /\ r.at \in Int /\ r.qs \in Int /\ r.rs \in Int
  /\ r.width \in Nat /\ r.width > 1 /\ r.yoff = yoff /\ r.zs = z.zs
  /\ DOMAIN r = {"kind", "at", "width", "qs", "rs", "yoff"} \cup DOMAIN z
  /\ "half" \in DOMAIN z => r.half = z.half /\ r.hs = z.hs

LEMMA CandidateExplains ==
  ASSUME NEW g \in Sizes, NEW p \in Points(g), 0 \in DOMAIN p,
         NEW yoff \in [1 .. g[2] -> Int], NEW z, ZTerm(z, g),
         NEW r \in TiledCandidates(p, g, z, yoff)
  PROVE  Explains(r, g, p) /\ TiledRule(r, z, yoff)
<1>. DEFINE x(b) == Coordinate(g, b)[1]
            y(b) == yoff[Coordinate(g, b)[2] + 1]
            zt(b) == z.zs * Coordinate(g, b)[3]
            h(b) == HalfStep(z, Coordinate(g, b)[3])
            rest(b) == p[b] - y(b) - zt(b) - h(b)
            xs == {x(b) : b \in DOMAIN p}
            v == [n \in xs |-> rest(CHOOSE b \in DOMAIN p : x(b) = n) - p[0]]
            base(t) == [kind |-> "tiled", at |-> p[0], width |-> t[1], qs |-> t[2][1],
                        rs |-> t[2][2], yoff |-> yoff]
<1>1. /\ \A b, e \in DOMAIN p : x(b) = x(e) => rest(b) = rest(e)
      /\ \E t \in UNION {{d} \X TiledStrides(v, d) : d \in ProperDivisors(g[1])} :
           /\ \A n \in xs : t[2][1] * (n \div t[1]) + t[2][2] * (n % t[1]) = v[n]
           /\ r = With(base(t), z)
  BY DEF TiledCandidates
<1>2. PICK t \in UNION {{d} \X TiledStrides(v, d) : d \in ProperDivisors(g[1])} :
           /\ \A n \in xs : t[2][1] * (n \div t[1]) + t[2][2] * (n % t[1]) = v[n]
           /\ r = With(base(t), z)
  BY <1>1
<1>. DEFINE d == t[1]
            s == t[2]
<1>0. d \in ProperDivisors(g[1]) /\ s \in TiledStrides(v, d)
  <2>1. PICK e \in ProperDivisors(g[1]) : t \in {e} \X TiledStrides(v, e)
    BY <1>2
  <2>. HIDE DEF v, xs, base
  <2>. QED BY <2>1
<1>3. d \in Nat /\ d > 1
  BY <1>0 DEF ProperDivisors, Sizes
<1>4. ASSUME NEW b \in DOMAIN p
      PROVE  /\ p[b] \in Int /\ y(b) \in Int /\ zt(b) \in Int /\ h(b) \in Int /\ x(b) \in Nat
             /\ rest(b) \in Int /\ Coordinate(g, b)[3] \in Nat
  <2>1. b \in Grid(g) /\ p[b] \in Int
    BY PointsAre
  <2>2. h(b) \in Int /\ x(b) \in Nat /\ Coordinate(g, b)[3] \in Nat /\ y(b) \in Int
    BY <2>1, CoordinateIs DEF ZTerm
  <2>3. zt(b) \in Int
    BY <2>2 DEF ZTerm
  <2>. QED BY <2>1, <2>2, <2>3
<1>5. ASSUME NEW b \in DOMAIN p
      PROVE  x(b) \in xs /\ v[x(b)] = rest(b) - p[0]
  <2>. DEFINE e == CHOOSE e \in DOMAIN p : x(e) = x(b)
  <2>1. e \in DOMAIN p /\ x(e) = x(b)
    OBVIOUS
  <2>2. rest(e) = rest(b)
    BY <1>1, <2>1
  <2>3. v[x(b)] = rest(e) - p[0]
    OBVIOUS
  <2>. QED BY <2>2, <2>3
<1>6. s[1] \in Int /\ s[2] \in Int
  <2>1. \A n \in xs : v[n] \in Int /\ n \in Nat
    <3>1. p[0] \in Int
      BY <1>4
    <3>. QED BY <1>4, <1>5, <3>1, SMTT(30)
  <2>2. DOMAIN v = xs
    OBVIOUS
  <2>. HIDE DEF v, xs
  <2>. QED BY <1>0, <1>3, <2>1, <2>2, StridesAre
<1>7. /\ DOMAIN base(t) = {"kind", "at", "width", "qs", "rs", "yoff"}
      /\ base(t).kind = "tiled" /\ base(t).at = p[0] /\ base(t).width = d
      /\ base(t).qs = s[1] /\ base(t).rs = s[2] /\ base(t).yoff = yoff
  OBVIOUS
<1>. HIDE DEF v, xs, base, d, s
<1>8. DOMAIN z = {"zs"} \/ DOMAIN z = {"zs", "half", "hs"}
  <2>1. CASE z = [zs |-> z.zs]
    <3>1. DOMAIN z = DOMAIN [zs |-> z.zs]
      BY <2>1
    <3>. QED BY <3>1
  <2>2. CASE z = [zs |-> z.zs, half |-> z.half, hs |-> z.hs]
    <3>1. DOMAIN z = DOMAIN [zs |-> z.zs, half |-> z.half, hs |-> z.hs]
      BY <2>2
    <3>. QED BY <3>1
  <2>. QED BY <2>1, <2>2 DEF ZTerm
<1>9. /\ r.kind = "tiled" /\ r.at = p[0] /\ r.width = d /\ r.qs = s[1] /\ r.rs = s[2]
      /\ r.yoff = yoff /\ r.zs = z.zs
      /\ DOMAIN r = {"kind", "at", "width", "qs", "rs", "yoff"} \cup DOMAIN z
      /\ "half" \in DOMAIN z => r.half = z.half /\ r.hs = z.hs
  <2>. DEFINE q == base(t)
  <2>1. DOMAIN q \cap DOMAIN z = {}
    BY <1>7, <1>8
  <2>2. /\ DOMAIN r = DOMAIN q \cup DOMAIN z
        /\ \A f \in DOMAIN q : r[f] = q[f]
        /\ \A f \in DOMAIN z : r[f] = z[f]
    <3>1. r = With(q, z)
      BY <1>2
    <3>2. \A f \in DOMAIN z : f \in DOMAIN z \ DOMAIN q
      BY <2>1
    <3>. HIDE DEF q
    <3>3. /\ DOMAIN With(q, z) = DOMAIN q \cup DOMAIN z
          /\ \A f \in DOMAIN q : With(q, z)[f] = q[f]
          /\ \A f \in DOMAIN z \ DOMAIN q : With(q, z)[f] = z[f]
      BY WithIs
    <3>. QED BY <3>1, <3>2, <3>3
  <2>3. "zs" \in DOMAIN z /\ ("half" \in DOMAIN z => "hs" \in DOMAIN z)
    BY <1>8
  <2>. QED BY <1>7, <2>2, <2>3
<1>10. ASSUME NEW b \in DOMAIN p
       PROVE  PredictBase(r, g, b) = p[b]
  <2>1. HalfStep(r, Coordinate(g, b)[3]) = h(b)
    BY <1>8, <1>9 DEF HalfStep
  <2>2. s[1] * (x(b) \div d) + s[2] * (x(b) % d) = rest(b) - p[0]
    BY <1>2, <1>5 DEF d, s
  <2>3. PredictBase(r, g, b) = r.at + r.qs * (x(b) \div r.width) + r.rs * (x(b) % r.width)
                                    + r.yoff[Coordinate(g, b)[2] + 1] + r.zs * Coordinate(g, b)[3]
                                    + HalfStep(r, Coordinate(g, b)[3])
    BY <1>9 DEF PredictBase, Tiled
  <2>4. PredictBase(r, g, b) = p[0] + s[1] * (x(b) \div d) + s[2] * (x(b) % d) + y(b) + zt(b) + h(b)
    BY <1>9, <2>1, <2>3
  <2>5. s[1] * (x(b) \div d) \in Int /\ s[2] * (x(b) % d) \in Int
    <3>1. x(b) \div d \in Int /\ x(b) % d \in Int
      BY <1>3, <1>4
    <3>. HIDE DEF x
    <3>. QED BY <1>6, <3>1
  <2>6. /\ p[0] \in Int /\ p[b] \in Int /\ y(b) \in Int /\ zt(b) \in Int /\ h(b) \in Int
        /\ rest(b) = p[b] - y(b) - zt(b) - h(b)
    BY <1>4
  <2>. DEFINE A == s[1] * (x(b) \div d)
              B == s[2] * (x(b) % d)
              Y == y(b)
              Z == zt(b)
              H == h(b)
              R == rest(b)
              P == PredictBase(r, g, b)
              O == p[0]
              T == p[b]
  <2>7. /\ A \in Int /\ B \in Int /\ A + B = R - O /\ P = O + A + B + Y + Z + H
    BY <2>2, <2>4, <2>5
  <2>8. O \in Int /\ T \in Int /\ Y \in Int /\ Z \in Int /\ H \in Int /\ R = T - Y - Z - H
    BY <2>6
  <2>. HIDE DEF A, B, Y, Z, H, R, P, O, T
  <2>9. R \in Int
    BY <2>8
  <2>10. O + A + B = R
    BY <2>7, <2>8, <2>9
  <2>11. P = R + Y + Z + H
    BY <2>7, <2>10
  <2>12. R + Y + Z + H = T
    BY <2>8
  <2>. QED BY <2>11, <2>12 DEF P, T
<1>11. p[0] \in Int
  BY <1>4
<1>. QED BY <1>3, <1>6, <1>9, <1>10, <1>11 DEF Explains, TiledRule

(* A rule that is a sum of a part for each axis has integers for its parts. *)
Summed(r, g) ==
  /\ {"at", "zs"} \subseteq DOMAIN r /\ r.at \in Int /\ r.zs \in Int
  /\ "half" \in DOMAIN r <=> "hs" \in DOMAIN r
  /\ "hs" \in DOMAIN r => r.hs \in Int
  /\ "yoff" \in DOMAIN r => r.yoff \in [1 .. g[2] -> Int]
  /\ r.kind = "coordinate" => /\ "xs" \in DOMAIN r /\ r.xs \in Int
                              /\ "yoff" \notin DOMAIN r => "ys" \in DOMAIN r /\ r.ys \in Int
  /\ r.kind = "tiled" => /\ {"width", "qs", "rs", "yoff"} \subseteq DOMAIN r
                         /\ r.width \in Nat /\ r.width > 1 /\ r.qs \in Int /\ r.rs \in Int

(* The others are of x alone.                                              *)
Permuting(r, g) ==
  /\ DOMAIN r = {"kind", "at", "extents", "order", "step"}
  /\ g[2] = 1 /\ g[3] = 1 /\ r.at \in Int /\ r.step \in Int /\ r.order \in Permutation3
  /\ \A i \in 1..3 : r.extents[i] \in Nat \ {0}
  /\ r.extents[1] * r.extents[2] * r.extents[3] = g[1]

Flooring(r, g) ==
  /\ DOMAIN r = {"kind", "at", "width", "qs"}
  /\ g[2] = 1 /\ g[3] = 1 /\ r.at \in Int /\ r.qs \in Int /\ r.width \in Nat /\ r.width > 1

(* The rules of a grid: fit_coordinate_rule's, and tables.                 *)
GridRule(r, g) ==
  /\ "kind" \in DOMAIN r
  /\ \/ r.kind = "table" /\ DOMAIN r = {"kind", "bases"} /\ DOMAIN r.bases \subseteq Grid(g)
     \/ r.kind = "permutation" /\ Permuting(r, g)
     \/ r.kind = "floor" /\ Flooring(r, g)
     \/ r.kind \in {"tiled", "coordinate"} /\ Summed(r, g)

(* A fit finds such a rule, which gives every point, or none.              *)
Fits(r, g, p) == r # NoRule => GridRule(r, g) /\ Explains(r, g, p)

LEMMA XYZFits ==
  ASSUME NEW g \in Sizes, NEW p \in Points(g)
  PROVE  Fits(FitXYZ(p, g), g, p)
<1>. DEFINE a == Anchor(p)
            c == Coordinate(g, a)
            steps == [axis \in 1..3 |-> AxisStep(p, g, axis)]
            s == [axis \in 1..3 |-> TheOnly(steps[axis])]
            r == [kind |-> "coordinate",
                  at |-> p[a] - s[1] * c[1] - s[2] * c[2] - s[3] * c[3],
                  xs |-> s[1], ys |-> s[2], zs |-> s[3]]
<1>1. CASE Cardinality(DOMAIN p) < 2 \/ \E axis \in 1..3 : steps[axis] = {}
  <2>1. FitXYZ(p, g) = NoRule
    BY <1>1 DEF FitXYZ
  <2>. QED BY <2>1 DEF Fits
<1>2. CASE ~(Cardinality(DOMAIN p) < 2 \/ \E axis \in 1..3 : steps[axis] = {})
  <2>1. FitXYZ(p, g) = Explaining(r, g, p)
    BY <1>2 DEF FitXYZ
  <2>2. \A axis \in 1..3 : s[axis] \in Int
    BY <1>2, AxisStepIs
  <2>3. p[a] \in Int /\ \A i \in 1..3 : c[i] \in Nat
    BY PointsAre, CoordinateIs
  <2>4. p[a] - s[1] * c[1] - s[2] * c[2] - s[3] * c[3] \in Int
    <3>. DEFINE s1 == s[1]
                s2 == s[2]
                s3 == s[3]
                c1 == c[1]
                c2 == c[2]
                c3 == c[3]
                O == p[a]
    <3>1. s1 \in Int /\ s2 \in Int /\ s3 \in Int /\ c1 \in Int /\ c2 \in Int /\ c3 \in Int /\ O \in Int
      BY <2>2, <2>3
    <3>2. O - s1 * c1 - s2 * c2 - s3 * c3 \in Int
      <4>. HIDE DEF s1, s2, s3, c1, c2, c3, O
      <4>1. s1 * c1 \in Int /\ s2 * c2 \in Int /\ s3 * c3 \in Int
        BY <3>1
      <4>. QED BY <3>1, <4>1
    <3>. QED BY <3>2
  <2>5. /\ DOMAIN r = {"kind", "at", "xs", "ys", "zs"} /\ r.kind = "coordinate"
        /\ r.at \in Int /\ r.xs \in Int /\ r.ys \in Int /\ r.zs \in Int
    BY <2>2, <2>4
  <2>. HIDE DEF r
  <2>6. GridRule(r, g)
    BY <2>5 DEF GridRule, Summed
  <2>. QED BY <2>1, <2>6, ExplainingIs DEF Fits
<1>. QED BY <1>1, <1>2

LEMMA YTableFits ==
  ASSUME NEW g \in Sizes, NEW p \in Points(g)
  PROVE  Fits(FitYTable(p, g), g, p)
<1>. DEFINE a == Anchor(p)
            c == Coordinate(g, a)
            x == AxisStep(p, g, 1)
            z == AxisStep(p, g, 3)
            r == [kind |-> "coordinate",
                  at |-> p[a] - TheOnly(x) * c[1] - TheOnly(z) * c[3],
                  xs |-> TheOnly(x), zs |-> TheOnly(z), yoff |-> YOffsets(p, g)]
<1>1. CASE Cardinality(DOMAIN p) < 2 \/ x = {} \/ z = {} \/ ~HasYColumn(p, g)
  <2>1. FitYTable(p, g) = NoRule
    BY <1>1 DEF FitYTable
  <2>. QED BY <2>1 DEF Fits
<1>2. CASE ~(Cardinality(DOMAIN p) < 2 \/ x = {} \/ z = {} \/ ~HasYColumn(p, g))
  <2>1. FitYTable(p, g) = Explaining(r, g, p)
    BY <1>2 DEF FitYTable
  <2>2. TheOnly(x) \in Int /\ TheOnly(z) \in Int /\ YOffsets(p, g) \in [1 .. g[2] -> Int]
    BY <1>2, AxisStepIs, OffsetsAre
  <2>3. p[a] \in Int /\ c[1] \in Int /\ c[3] \in Int
    BY PointsAre, CoordinateIs
  <2>4. p[a] - TheOnly(x) * c[1] - TheOnly(z) * c[3] \in Int
    <3>1. TheOnly(x) * c[1] \in Int /\ TheOnly(z) * c[3] \in Int
      BY <2>2, <2>3
    <3>. QED BY <2>3, <3>1
  <2>5. /\ DOMAIN r = {"kind", "at", "xs", "zs", "yoff"} /\ r.kind = "coordinate"
        /\ r.at \in Int /\ r.xs \in Int /\ r.zs \in Int /\ r.yoff \in [1 .. g[2] -> Int]
    BY <2>2, <2>4
  <2>. HIDE DEF r
  <2>6. GridRule(r, g)
    BY <2>5 DEF GridRule, Summed
  <2>. QED BY <2>1, <2>6, ExplainingIs DEF Fits
<1>. QED BY <1>1, <1>2

LEMMA ZHalfFits ==
  ASSUME NEW g \in Sizes, NEW p \in Points(g)
  PROVE  Fits(FitZHalf(p, g), g, p)
<1>. DEFINE a == Anchor(p)
            x == AxisStep(p, g, 1)
            r == [kind |-> "coordinate",
                  at |-> p[a] - TheOnly(x) * Coordinate(g, a)[1],
                  xs |-> TheOnly(x), yoff |-> YOffsets(p, g),
                  zs |-> TheOnly(LowerStep(p, g)),
                  half |-> Half(g), hs |-> UpperStep(p, g)]
<1>1. CASE \/ g[3] < 4 \/ Coordinate(g, a)[3] # 0
           \/ x = {} \/ ~HasHalves(p, g) \/ ~HasYColumn(p, g)
  <2>1. FitZHalf(p, g) = NoRule
    BY <1>1 DEF FitZHalf
  <2>. QED BY <2>1 DEF Fits
<1>2. CASE ~(\/ g[3] < 4 \/ Coordinate(g, a)[3] # 0
             \/ x = {} \/ ~HasHalves(p, g) \/ ~HasYColumn(p, g))
  <2>1. FitZHalf(p, g) = Explaining(r, g, p)
    BY <1>2 DEF FitZHalf
  <2>2. /\ TheOnly(x) \in Int /\ YOffsets(p, g) \in [1 .. g[2] -> Int]
        /\ TheOnly(LowerStep(p, g)) \in Int /\ UpperStep(p, g) \in Int
    BY <1>2, AxisStepIs, OffsetsAre, HalvesAre
  <2>3. p[a] \in Int /\ Coordinate(g, a)[1] \in Int
    BY PointsAre, CoordinateIs
  <2>4. p[a] - TheOnly(x) * Coordinate(g, a)[1] \in Int
    <3>1. TheOnly(x) * Coordinate(g, a)[1] \in Int
      BY <2>2, <2>3
    <3>. QED BY <2>3, <3>1
  <2>5. /\ DOMAIN r = {"kind", "at", "xs", "yoff", "zs", "half", "hs"} /\ r.kind = "coordinate"
        /\ r.at \in Int /\ r.xs \in Int /\ r.zs \in Int /\ r.hs \in Int
        /\ r.yoff \in [1 .. g[2] -> Int]
    BY <2>2, <2>4
  <2>. HIDE DEF r
  <2>6. GridRule(r, g)
    BY <2>5 DEF GridRule, Summed
  <2>. QED BY <2>1, <2>6, ExplainingIs DEF Fits
<1>. QED BY <1>1, <1>2

LEMMA TiledFits ==
  ASSUME NEW g \in Sizes, NEW p \in Points(g)
  PROVE  Fits(FitTiled(p, g), g, p)
<1>. DEFINE r == FitTiled(p, g)
            z == TiledZ(p, g)
<1>. SUFFICES ASSUME r # NoRule PROVE GridRule(r, g) /\ Explains(r, g, p)
  BY DEF Fits
<1>1. /\ Anchor(p) = 0 /\ HasYColumn(p, g)
      /\ g[3] \in 2..3 => AxisStep(p, g, 3) # {}
      /\ g[3] >= 4 => HasHalves(p, g)
      /\ r = Unique(TiledCandidates(p, g, z, YOffsets(p, g)))
  BY DEF FitTiled
<1>2. r \in TiledCandidates(p, g, z, YOffsets(p, g))
  BY <1>1, UniqueIs
<1>3. 0 \in DOMAIN p /\ YOffsets(p, g) \in [1 .. g[2] -> Int]
  BY <1>1, PointsAre, OffsetsAre
<1>4. /\ z.zs \in Int
      /\ \A b \in Grid(g) : HalfStep(z, Coordinate(g, b)[3]) \in Int
      /\ \/ z = [zs |-> z.zs]
         \/ z = [zs |-> z.zs, half |-> Half(g), hs |-> UpperStep(p, g)] /\ UpperStep(p, g) \in Int
  BY <1>1, TiledZIs
<1>. HIDE DEF r, z
<1>5. /\ z = [zs |-> z.zs] \/ z = [zs |-> z.zs, half |-> z.half, hs |-> z.hs]
      /\ DOMAIN z = {"zs"} \/ (DOMAIN z = {"zs", "half", "hs"} /\ z.hs \in Int)
  <2>1. CASE z = [zs |-> z.zs]
    <3>1. DOMAIN z = DOMAIN [zs |-> z.zs]
      BY <2>1
    <3>. QED BY <2>1, <3>1
  <2>2. CASE z = [zs |-> z.zs, half |-> Half(g), hs |-> UpperStep(p, g)] /\ UpperStep(p, g) \in Int
    <3>. DEFINE u == [zs |-> z.zs, half |-> Half(g), hs |-> UpperStep(p, g)]
    <3>1. u.half = Half(g) /\ u.hs = UpperStep(p, g) /\ DOMAIN u = {"zs", "half", "hs"}
      OBVIOUS
    <3>2. z = u
      BY <2>2
    <3>3. z.half = Half(g) /\ z.hs = UpperStep(p, g) /\ DOMAIN z = {"zs", "half", "hs"}
      BY <3>1, <3>2
    <3>. QED BY <2>2, <3>3
  <2>. QED BY <1>4, <2>1, <2>2
<1>6. Explains(r, g, p) /\ TiledRule(r, z, YOffsets(p, g))
  <2>1. ZTerm(z, g)
    BY <1>4, <1>5 DEF ZTerm
  <2>. QED BY <1>2, <1>3, <2>1, CandidateExplains
<1>7. Summed(r, g)
  BY <1>3, <1>4, <1>5, <1>6 DEF Summed, TiledRule
<1>. QED BY <1>6, <1>7 DEF GridRule, TiledRule

LEMMA FloorFits ==
  ASSUME NEW g \in Sizes, NEW p \in Points(g)
  PROVE  Fits(FitFloor(p, g), g, p)
<1>. DEFINE r == FitFloor(p, g)
            changed == {b \in DOMAIN p : p[b] # p[0]}
            image == {p[b] : b \in DOMAIN p}
<1>. SUFFICES ASSUME r # NoRule PROVE GridRule(r, g) /\ Explains(r, g, p)
  BY DEF Fits
<1>1. /\ g[2] = 1 /\ g[3] = 1 /\ Anchor(p) = 0 /\ ~(Cardinality(image) < 3)
      /\ r = Unique({FloorRule(p, g, d) : d \in 2..Least(changed)} \ {NoRule})
  BY DEF FitFloor
<1>2. PICK d \in 2..Least(changed) : r = FloorRule(p, g, d)
  BY <1>1, UniqueIs
<1>3. 0 \in DOMAIN p /\ DOMAIN p \in SUBSET Nat /\ \A n \in DOMAIN p : p[n] \in Nat
  BY <1>1, PointsAre
<1>4. d \in Nat /\ d > 1
  <2>1. changed # {}
    <3>1. ASSUME changed = {} PROVE FALSE
      <4>1. image = {p[0]}
        BY <1>3, <3>1
      <4>2. Cardinality(image) = 1
        BY <4>1, FS_Singleton
      <4>. QED BY <1>1, <4>2
    <3>. QED BY <3>1
  <2>2. Least(changed) \in Nat
    <3>1. changed \in SUBSET Nat
      BY <1>3
    <3>. QED BY <2>1, <3>1, LeastIs
  <2>. HIDE DEF changed
  <2>. QED BY <2>2
<1>. DEFINE others == {n \in DOMAIN p : n \div d # 0}
            b == Least(others)
            q == [kind |-> "floor", at |-> p[0], width |-> d, qs |-> Quotient(p[b] - p[0], b \div d)]
<1>5. r = Explaining(q, g, p) /\ others # {} /\ Divides(b \div d, p[b] - p[0])
  BY <1>2 DEF FloorRule
<1>6. b \in DOMAIN p
  <2>1. others \in SUBSET Nat /\ others \subseteq DOMAIN p
    BY <1>3
  <2>2. b \in others
    BY <1>5, <2>1, LeastIs
  <2>. QED BY <2>1, <2>2
<1>7. Quotient(p[b] - p[0], b \div d) \in Int
  <2>1. b \in Nat /\ p[b] - p[0] \in Int
    BY <1>3, <1>6
  <2>. HIDE DEF b
  <2>2. b \div d \in Int
    BY <1>4, <2>1
  <2>. QED BY <1>5, <2>1, <2>2, QuotientIs DEF b
<1>8. /\ q.kind = "floor" /\ DOMAIN q = {"kind", "at", "width", "qs"}
      /\ q.at = p[0] /\ q.width = d /\ q.qs = Quotient(p[b] - p[0], b \div d)
  OBVIOUS
<1>. HIDE DEF q, r, b
<1>9. GridRule(q, g)
  BY <1>1, <1>3, <1>4, <1>7, <1>8 DEF GridRule, Flooring
<1>. QED BY <1>5, <1>9, ExplainingIs

LEMMA DivisionIs ==
  ASSUME NEW a \in Nat, NEW d \in Nat, d > 0
  PROVE  a \div d \in Nat /\ a % d \in 0 .. d - 1 /\ (a % d) + d * (a \div d) = a
<1>1. a \div d \in Nat /\ a % d \in 0 .. d - 1
  OBVIOUS
<1>2. (a % d) + d * (a \div d) = a
  OBVIOUS
<1>. QED BY <1>1, <1>2

(* The index of a CTA with its digits exchanged.                           *)
Digit(e, b) == <<b \div (e[2] * e[3]), (b \div e[3]) % e[2], b % e[3]>>

LEMMA IndexIs ==
  ASSUME NEW e, \A i \in 1..3 : e[i] \in Nat \ {0}, NEW o \in Permutation3, NEW b \in Nat
  PROVE  PermutedIndex(e, o, b) \in Int
<1>1. /\ o[1] \in 1..3 /\ o[2] \in 1..3 /\ o[3] \in 1..3
      /\ e[1] \in Nat /\ e[2] \in Nat /\ e[3] \in Nat /\ e[2] > 0 /\ e[3] > 0
  BY DEF Permutation3
<1>2. e[2] * e[3] \in Nat /\ e[2] * e[3] > 0
  BY <1>1
<1>3. b \div (e[2] * e[3]) \in Int /\ b % e[3] \in Int /\ b \div e[3] \in Nat
  BY <1>1, <1>2
<1>4. (b \div e[3]) % e[2] \in Int
  BY <1>1, <1>3
<1>5. \A i \in 1..3 : Digit(e, b)[i] \in Int
  BY <1>3, <1>4 DEF Digit
<1>. DEFINE d1 == Digit(e, b)[o[1]]
            d2 == Digit(e, b)[o[2]]
            d3 == Digit(e, b)[o[3]]
            e2 == e[o[2]]
            e3 == e[o[3]]
<1>6. PermutedIndex(e, o, b) = (d1 * e2 + d2) * e3 + d3
  BY DEF PermutedIndex, Digit
<1>7. d1 \in Int /\ d2 \in Int /\ d3 \in Int /\ e2 \in Int /\ e3 \in Int
  BY <1>1, <1>5
<1>. HIDE DEF d1, d2, d3, e2, e3
<1>8. d1 * e2 + d2 \in Int
  BY <1>7
<1>9. (d1 * e2 + d2) * e3 + d3 \in Int
  BY <1>7, <1>8
<1>. QED BY <1>6, <1>9

LEMMA ExtentsAre ==
  ASSUME NEW n \in Nat, NEW e \in Extents(n)
  PROVE  (\A i \in 1..3 : e[i] \in Nat \ {0}) /\ e[1] * e[2] * e[3] = n
<1>1. PICK t \in ProperDivisors(n) \X ProperDivisors(n) :
        /\ n % (t[1] * t[2]) = 0 /\ n \div (t[1] * t[2]) >= 2
        /\ e = <<t[1], t[2], n \div (t[1] * t[2])>>
  BY DEF Extents
<1>2. t[1] \in Nat /\ t[1] > 0 /\ t[2] \in Nat /\ t[2] > 0
  BY DEF ProperDivisors
<1>. DEFINE d == t[1] * t[2]
<1>3. d \in Nat /\ d > 0
  BY <1>2
<1>4. e[1] = t[1] /\ e[2] = t[2] /\ e[3] = n \div d /\ n % d = 0 /\ n \div d >= 2
  BY <1>1
<1>5. e[1] * e[2] = d
  BY <1>4
<1>. HIDE DEF d
<1>6. n \div d \in Nat /\ (n % d) + d * (n \div d) = n
  BY <1>3, DivisionIs
<1>7. e[1] \in Nat \ {0} /\ e[2] \in Nat \ {0} /\ e[3] \in Nat \ {0}
  BY <1>2, <1>4, <1>6
<1>8. d * e[3] = n
  BY <1>3, <1>4, <1>6
<1>. QED BY <1>5, <1>7, <1>8

LEMMA PermutationFits ==
  ASSUME NEW g \in Sizes, NEW p \in Points(g)
  PROVE  Fits(FitPermutation(p, g), g, p)
<1>. DEFINE r == FitPermutation(p, g)
<1>. SUFFICES ASSUME r # NoRule PROVE GridRule(r, g) /\ Explains(r, g, p)
  BY DEF Fits
<1>1. /\ g[2] = 1 /\ g[3] = 1
      /\ r = Unique({PermutationRule(p, g, eo[1], eo[2]) : eo \in Extents(g[1]) \X Permutation3}
                      \ {NoRule})
  BY DEF FitPermutation
<1>2. PICK eo \in Extents(g[1]) \X Permutation3 : r = PermutationRule(p, g, eo[1], eo[2])
  BY <1>1, UniqueIs
<1>3. g[1] \in Nat /\ eo[1] \in Extents(g[1]) /\ eo[2] \in Permutation3
  BY DEF Sizes
<1>4. (\A i \in 1..3 : eo[1][i] \in Nat \ {0}) /\ eo[1][1] * eo[1][2] * eo[1][3] = g[1]
  BY <1>3, ExtentsAre
<1>. DEFINE index(n) == PermutedIndex(eo[1], eo[2], n)
            a == Anchor(p)
            others == {n \in DOMAIN p : index(n) # index(a)}
            b == Least(others)
            s == Quotient(p[b] - p[a], index(b) - index(a))
            q == [kind |-> "permutation", at |-> p[a] - s * index(a),
                  extents |-> eo[1], order |-> eo[2], step |-> s]
<1>5. r = Explaining(q, g, p) /\ others # {} /\ Divides(index(b) - index(a), p[b] - p[a])
  BY <1>2 DEF PermutationRule
<1>6. a \in DOMAIN p /\ DOMAIN p \in SUBSET Nat /\ \A n \in DOMAIN p : p[n] \in Nat
  BY PointsAre
<1>7. b \in DOMAIN p
  <2>1. others \in SUBSET Nat /\ others \subseteq DOMAIN p
    BY <1>6
  <2>2. b \in others
    BY <1>5, <2>1, LeastIs
  <2>. QED BY <2>1, <2>2
<1>. HIDE DEF a, b
<1>8. index(a) \in Int /\ index(b) \in Int
  BY <1>3, <1>4, <1>6, <1>7, IndexIs
<1>. HIDE DEF index
<1>9. s \in Int
  <2>1. p[b] - p[a] \in Int /\ index(b) - index(a) \in Int
    BY <1>6, <1>7, <1>8
  <2>. QED BY <1>5, <2>1, QuotientIs
<1>10. p[a] - s * index(a) \in Int
  <2>1. p[a] \in Int /\ s * index(a) \in Int
    BY <1>6, <1>8, <1>9
  <2>. QED BY <2>1
<1>11. /\ q.kind = "permutation" /\ DOMAIN q = {"kind", "at", "extents", "order", "step"}
       /\ q.at = p[a] - s * index(a) /\ q.step = s /\ q.extents = eo[1] /\ q.order = eo[2]
  OBVIOUS
<1>. HIDE DEF q, r, s
<1>12. GridRule(q, g)
  BY <1>1, <1>3, <1>4, <1>9, <1>10, <1>11 DEF GridRule, Permuting
<1>. QED BY <1>5, <1>12, ExplainingIs

LEMMA SingleFits ==
  ASSUME NEW p \in Points(<<1, 1, 1>>)
  PROVE  Fits([kind |-> "coordinate", at |-> p[0], xs |-> 0, ys |-> 0, zs |-> 0], <<1, 1, 1>>, p)
<1>. DEFINE g == <<1, 1, 1>>
            r == [kind |-> "coordinate", at |-> p[0], xs |-> 0, ys |-> 0, zs |-> 0]
<1>0. p \in Points(g)
  OBVIOUS
<1>1. g \in Sizes /\ g[1] = 1 /\ g[2] = 1 /\ g[3] = 1
  BY DEF Sizes
<1>2. \A b \in DOMAIN p : b = 0 /\ p[b] \in Nat
  <2>1. GridSize(g) = 1
    BY <1>1 DEF GridSize
  <2>2. \A b \in Grid(g) : b = 0
    BY <2>1 DEF Grid
  <2>. HIDE DEF g
  <2>. QED BY <1>0, <1>1, <2>2, PointsAre
<1>3. DOMAIN p # {}
  BY <1>0, <1>1, PointsAre
<1>4. p[0] \in Nat
  BY <1>2, <1>3
<1>5. /\ DOMAIN r = {"kind", "at", "xs", "ys", "zs"} /\ r.kind = "coordinate"
      /\ r.at = p[0] /\ r.xs = 0 /\ r.ys = 0 /\ r.zs = 0
  OBVIOUS
<1>. HIDE DEF r, g
<1>6. GridRule(r, g)
  BY <1>4, <1>5 DEF GridRule, Summed
<1>7. ASSUME NEW b \in DOMAIN p PROVE PredictBase(r, g, b) = p[b]
  <2>. DEFINE c == Coordinate(g, b)
  <2>1. c[1] \in Nat /\ c[2] \in Nat /\ c[3] \in Nat
    BY <1>0, <1>1, PointsAre, CoordinateIs
  <2>2. HalfStep(r, c[3]) = 0
    BY <1>5 DEF HalfStep
  <2>3. PredictBase(r, g, b) = r.at + r.xs * c[1] + r.zs * c[3] + HalfStep(r, c[3]) + r.ys * c[2]
    BY <1>5 DEF PredictBase, Coordinated
  <2>4. r.xs * c[1] = 0 /\ r.zs * c[3] = 0 /\ r.ys * c[2] = 0
    BY <1>5, <2>1
  <2>5. PredictBase(r, g, b) = p[0] + 0 + 0 + 0 + 0
    BY <1>5, <2>2, <2>3, <2>4
  <2>. QED BY <1>2, <1>4, <2>5
<1>8. Fits(r, g, p)
  BY <1>6, <1>7 DEF Fits, Explains
<1>. QED BY <1>8 DEF r, g

(* So every rule that is fitted gives every point it was fitted to, and a  *)
(* complete grid is never without one.                                     *)
LEMMA ProfileRuleFits ==
  ASSUME NEW g \in Sizes, NEW p \in Points(g), NEW exact \in BOOLEAN
  PROVE  /\ Fits(FitProfileRule(p, g, exact), g, p)
         /\ exact => FitProfileRule(p, g, exact) # NoRule
<1>. DEFINE one == [kind |-> "coordinate", at |-> p[0], xs |-> 0, ys |-> 0, zs |-> 0]
            table == [kind |-> "table", bases |-> p]
<1>1. Fits(NoRule, g, p)
  BY DEF Fits
<1>2. Fits(FitCoordinateRule(p, g), g, p)
  <2>1. CASE Cardinality(DOMAIN p) = 1
    <3>1. CASE g = <<1, 1, 1>>
      <4>1. FitCoordinateRule(p, g) = one
        BY <2>1, <3>1 DEF FitCoordinateRule
      <4>2. p \in Points(<<1, 1, 1>>)
        BY <3>1
      <4>. HIDE DEF one
      <4>3. Fits(one, <<1, 1, 1>>, p)
        BY <4>2, SingleFits DEF one
      <4>. QED BY <3>1, <4>1, <4>3
    <3>2. CASE g # <<1, 1, 1>>
      <4>1. FitCoordinateRule(p, g) = NoRule
        BY <2>1, <3>2 DEF FitCoordinateRule
      <4>. QED BY <1>1, <4>1
    <3>. QED BY <3>1, <3>2
  <2>2. CASE Cardinality(DOMAIN p) # 1
    <3>1. FitCoordinateRule(p, g) \in {FitXYZ(p, g), FitYTable(p, g), FitZHalf(p, g),
                                       FitTiled(p, g), FitFloor(p, g), FitPermutation(p, g)}
      BY <2>2 DEF FitCoordinateRule, Or
    <3>. QED BY <3>1, XYZFits, YTableFits, ZHalfFits, TiledFits, FloorFits, PermutationFits
  <2>. QED BY <2>1, <2>2
<1>3. Fits(table, g, p) /\ table # NoRule
  <2>1. DOMAIN table = {"kind", "bases"} /\ table.kind = "table" /\ table.bases = p
    OBVIOUS
  <2>2. NoRule.kind = "none"
    BY DEF NoRule
  <2>. HIDE DEF table
  <2>3. table # NoRule
    BY <2>1, <2>2
  <2>4. GridRule(table, g)
    BY <2>1, PointsAre DEF GridRule
  <2>5. Explains(table, g, p)
    BY <2>1 DEF Explains, PredictBase
  <2>. QED BY <2>3, <2>4, <2>5 DEF Fits
<1>4. FitProfileRule(p, g, exact) = Or(FitCoordinateRule(p, g), IF exact THEN table ELSE NoRule)
  BY DEF FitProfileRule
<1>. HIDE DEF table
<1>. QED BY <1>1, <1>2, <1>3, <1>4 DEF Or

-----------------------------------------------------------------------------
(* The generator's arithmetic.                                             *)

LEMMA QuotientUnique ==
  ASSUME NEW d \in Nat, d > 0, NEW q \in Int, NEW e \in Int, NEW r \in 0 .. d - 1,
         NEW s \in 0 .. d - 1,
         d * q + r = d * e + s
  PROVE  q = e
<1>1. ASSUME NEW x \in Int, NEW y \in Int, x < y, NEW m \in 0 .. d - 1, NEW n \in 0 .. d - 1
      PROVE  d * x + m < d * y + n
  <2>1. y - x - 1 \in Nat
    BY <1>1
  <2>2. d * (y - x - 1) \in Nat
    BY <2>1
  <2>3. d * (y - x - 1) = d * y - d * x - d
    OBVIOUS
  <2>4. d * x \in Int /\ d * y \in Int
    OBVIOUS
  <2>. QED BY <2>2, <2>3, <2>4
<1>2. q < e \/ q = e \/ e < q
  OBVIOUS
<1>3. d * q + r \in Int /\ d * e + s \in Int
  OBVIOUS
<1>. QED BY <1>1, <1>2, <1>3

(* C++ divides twice where Python divides once.                            *)
LEMMA DivideTwice ==
  ASSUME NEW b \in Nat, NEW m \in Nat, m > 0, NEW n \in Nat, n > 0
  PROVE  (b \div m) \div n = b \div (m * n)
<1>. DEFINE q == b \div m
            r == b % m
            e == q \div n
            s == q % n
            d == m * n
<1>1. q \in Nat /\ r \in 0 .. m - 1 /\ r + m * q = b
  BY DivisionIs
<1>2. e \in Nat /\ s \in 0 .. n - 1 /\ s + n * e = q
  BY <1>1, DivisionIs
<1>3. d \in Nat /\ d > 0
  OBVIOUS
<1>4. b \div d \in Nat /\ b % d \in 0 .. d - 1 /\ (b % d) + d * (b \div d) = b
  BY <1>3, DivisionIs
<1>. HIDE DEF q, r, e, s
<1>5. b = d * e + (m * s + r)
  <2>1. m * (n * e + s) = m * n * e + m * s
    BY <1>2
  <2>. QED BY <1>1, <1>2, <2>1
<1>6. m * s + r \in 0 .. d - 1
  <2>1. m * s \in Nat
    BY <1>2
  <2>2. m * (n - 1 - s) \in Nat
    <3>1. n - 1 - s \in Nat
      BY <1>2
    <3>. QED BY <3>1
  <2>3. m * (n - 1 - s) = m * n - m - m * s
    BY <1>2
  <2>. QED BY <1>1, <1>3, <2>1, <2>2, <2>3
<1>7. e = b \div d
  <2>. DEFINE f == b \div d
              t == b % d
              u == m * s + r
  <2>1. /\ f \in Int /\ t \in 0 .. d - 1 /\ u \in 0 .. d - 1 /\ e \in Int
        /\ d * f + t = d * e + u
    <3>1. f \in Int /\ t \in 0 .. d - 1 /\ b = d * f + t
      BY <1>4
    <3>2. u \in 0 .. d - 1 /\ b = d * e + u
      BY <1>5, <1>6
    <3>. HIDE DEF f, t, u, d
    <3>. QED BY <1>2, <3>1, <3>2
  <2>. HIDE DEF f, t, u, d
  <2>2. e = f
    BY <1>3, <2>1, QuotientUnique
  <2>. QED BY <2>2 DEF f
<1>. QED BY <1>7 DEF e, q

Defaults == [xs |-> 0, ys |-> 0, zs |-> 0, yoff |-> << >>, half |-> NoPartition, hs |-> 0]

LEMMA ParsedIs ==
  ASSUME NEW r
  PROVE  /\ \A f \in DOMAIN r : ParseRule(r)[f] = r[f]
         /\ \A f \in DOMAIN Defaults \ DOMAIN r : ParseRule(r)[f] = Defaults[f]
         /\ DOMAIN Defaults = {"xs", "ys", "zs", "yoff", "half", "hs"}
         /\ Defaults.xs = 0 /\ Defaults.ys = 0 /\ Defaults.zs = 0 /\ Defaults.yoff = << >>
         /\ Defaults.hs = 0
<1>1. ParseRule(r) = With(r, Defaults)
  BY DEF ParseRule, Defaults
<1>2. /\ DOMAIN Defaults = {"xs", "ys", "zs", "yoff", "half", "hs"}
      /\ Defaults.xs = 0 /\ Defaults.ys = 0 /\ Defaults.zs = 0 /\ Defaults.yoff = << >>
      /\ Defaults.hs = 0
  BY DEF Defaults
<1>3. /\ \A f \in DOMAIN r : With(r, Defaults)[f] = r[f]
      /\ \A f \in DOMAIN Defaults \ DOMAIN r : With(r, Defaults)[f] = Defaults[f]
  BY WithIs
<1>. QED BY <1>1, <1>2, <1>3

(* The z term of the two programs.                                         *)
LEMMA ZTermsAgree ==
  ASSUME NEW r, NEW g, Summed(r, g), NEW z \in Nat
  PROVE  LET q == ParseRule(r)
         IN  /\ q.zs * z + (IF z >= q.half THEN q.hs ELSE 0) = r.zs * z + HalfStep(r, z)
             /\ HalfStep(r, z) \in Int /\ r.zs * z \in Int
<1>. DEFINE q == ParseRule(r)
<1>1. q.zs = r.zs /\ r.zs \in Int
  BY ParsedIs DEF Summed
<1>2. CASE "half" \in DOMAIN r
  <2>1. q.half = r.half /\ q.hs = r.hs /\ r.hs \in Int
    BY <1>2, ParsedIs DEF Summed
  <2>2. (IF z >= q.half THEN q.hs ELSE 0) = HalfStep(r, z)
    BY <1>2, <2>1 DEF HalfStep
  <2>3. HalfStep(r, z) \in Int
    BY <2>1 DEF HalfStep
  <2>. QED BY <1>1, <2>2, <2>3
<1>3. CASE "half" \notin DOMAIN r
  <2>1. q.hs = 0
    BY <1>3, ParsedIs DEF Summed
  <2>2. (IF z >= q.half THEN q.hs ELSE 0) = 0 /\ HalfStep(r, z) = 0
    BY <1>3, <2>1 DEF HalfStep
  <2>. QED BY <1>1, <2>2
<1>. QED BY <1>2, <1>3

(* The address that the generator computes is that of predict_bases, or it *)
(* refuses.                                                                *)
LEMMA CppAgrees ==
  ASSUME NEW g \in Sizes, NEW r, GridRule(r, g), NEW b \in Grid(g)
  PROVE  AddressBase(ParseRule(r), g, b, MaxAddress) \in {Refused, PredictBase(r, g, b)}
<1>. DEFINE q == ParseRule(r)
            c == Coordinate(g, b)
            x == b % g[1]
            y == (b \div g[1]) % g[2]
            z == (b \div g[1]) \div g[2]
            z_term == q.zs * z + IF z >= q.half THEN q.hs ELSE 0
            A == AddressBase(q, g, b, MaxAddress)
            P == PredictBase(r, g, b)
<1>1. /\ b \in Nat /\ g[1] \in Nat /\ g[2] \in Nat /\ g[1] > 0 /\ g[2] > 0
      /\ c[1] = x /\ c[2] = y /\ c[3] = b \div (g[1] * g[2])
      /\ c[1] \in Nat /\ c[2] \in Nat /\ c[3] \in Nat /\ c[2] + 1 \in 1 .. g[2]
  BY CoordinateIs
<1>2. c[3] = z
  BY <1>1, DivideTwice
<1>. HIDE DEF c
<1>3. /\ "kind" \in DOMAIN r /\ q.kind = r.kind
      /\ \A f \in DOMAIN r : q[f] = r[f]
  BY ParsedIs DEF GridRule
<1>4. CASE r.kind = "table"
  <2>1. q.kind = "table" /\ q.bases = r.bases
    BY <1>3, <1>4 DEF GridRule
  <2>2. A \in {Refused, q.bases[b]}
    BY <2>1 DEF AddressBase
  <2>3. P = r.bases[b]
    BY <1>4 DEF PredictBase
  <2>. QED BY <2>1, <2>2, <2>3
<1>5. CASE r.kind = "floor"
  <2>1. q.kind = "floor" /\ q.at = r.at /\ q.width = r.width /\ q.qs = r.qs
    BY <1>3, <1>5 DEF GridRule, Flooring
  <2>2. A \in {Refused, q.at + q.qs * (x \div q.width)}
    BY <2>1 DEF AddressBase
  <2>3. P = r.at + r.qs * (c[1] \div r.width)
    BY <1>5 DEF PredictBase, c
  <2>. QED BY <1>1, <2>1, <2>2, <2>3
<1>6. CASE r.kind = "permutation"
  <2>1. /\ q.kind = "permutation" /\ q.at = r.at /\ q.step = r.step
        /\ q.extents = r.extents /\ q.order = r.order
    BY <1>3, <1>6 DEF GridRule, Permuting
  <2>2. A = Refused \/ (A = q.at + q.step * PermutedIndex(q.extents, q.order, x) /\ g[2] = 1 /\ g[3] = 1)
    BY <2>1 DEF AddressBase
  <2>3. P = r.at + r.step * PermutedIndex(r.extents, r.order, b)
    BY <1>6 DEF PredictBase
  <2>4. g[2] = 1 /\ g[3] = 1 => x = b
    <3>1. ASSUME g[2] = 1, g[3] = 1 PROVE b < g[1]
      BY <1>1, <3>1 DEF Grid, GridSize
    <3>2. \A n \in Nat : n > b => b % n = b
      BY <1>1
    <3>. QED BY <1>1, <3>1, <3>2
  <2>. QED BY <2>1, <2>2, <2>3, <2>4
<1>7. ASSUME r.kind \in {"tiled", "coordinate"}
      PROVE  /\ Summed(r, g) /\ q.at = r.at /\ r.at \in Int
             /\ z_term = r.zs * c[3] + HalfStep(r, c[3])
             /\ HalfStep(r, c[3]) \in Int /\ r.zs * c[3] \in Int
  <2>1. Summed(r, g)
    BY <1>7 DEF GridRule
  <2>2. q.at = r.at /\ r.at \in Int
    BY <1>3, <2>1 DEF Summed
  <2>. QED BY <1>1, <1>2, <2>1, <2>2, ZTermsAgree
<1>8. CASE r.kind = "tiled"
  <2>1. /\ q.kind = "tiled" /\ q.qs = r.qs /\ q.rs = r.rs /\ q.width = r.width /\ q.yoff = r.yoff
        /\ r.qs \in Int /\ r.rs \in Int /\ r.width \in Nat /\ r.width > 1
        /\ r.yoff \in [1 .. g[2] -> Int]
    BY <1>3, <1>7, <1>8 DEF Summed
  <2>2. A \in {Refused, q.at + q.qs * (x \div q.width) + q.rs * (x % q.width) + q.yoff[y + 1] + z_term}
    <3>. HIDE DEF x, y, z_term
    <3>. QED BY <2>1 DEF AddressBase, x, y, z_term
  <2>3. P = r.at + r.qs * (c[1] \div r.width) + r.rs * (c[1] % r.width)
                 + r.yoff[c[2] + 1] + r.zs * c[3] + HalfStep(r, c[3])
    BY <1>8 DEF PredictBase, Tiled, c
  <2>. DEFINE Q == r.qs * (c[1] \div r.width)
              R == r.rs * (c[1] % r.width)
              Y == r.yoff[c[2] + 1]
              Z == r.zs * c[3]
              H == HalfStep(r, c[3])
  <2>4. /\ Q \in Int /\ R \in Int /\ Y \in Int /\ Z \in Int /\ H \in Int /\ r.at \in Int
        /\ P = r.at + Q + R + Y + Z + H
        /\ A \in {Refused, r.at + Q + R + Y + (Z + H)}
    <3>1. c[1] \div r.width \in Int /\ c[1] % r.width \in Int
      BY <1>1, <2>1, SMTT(30)
    <3>2. Q \in Int /\ R \in Int
      BY <2>1, <3>1
    <3>3. A \in {Refused, r.at + Q + R + Y + (Z + H)}
      BY <1>1, <1>7, <1>8, <2>1, <2>2
    <3>. QED BY <1>1, <1>7, <1>8, <2>1, <2>3, <3>2, <3>3
  <2>. HIDE DEF Q, R, Y, Z, H, A, P
  <2>5. r.at + Q + R + Y + Z + H = r.at + Q + R + Y + (Z + H)
    BY <2>4
  <2>6. A \in {Refused, P}
    BY <2>4, <2>5
  <2>. QED BY <2>6 DEF A, P
<1>9. CASE r.kind = "coordinate"
  <2>1. /\ q.kind = "coordinate" /\ q.xs = r.xs /\ r.xs \in Int /\ "zs" \in DOMAIN r
        /\ "yoff" \in DOMAIN r => q.yoff = r.yoff /\ r.yoff \in [1 .. g[2] -> Int]
        /\ "yoff" \notin DOMAIN r => q.ys = r.ys /\ r.ys \in Int /\ q.yoff = << >>
    BY <1>3, <1>7, <1>9, ParsedIs DEF Summed
  <2>. DEFINE yt == IF q.yoff = << >> THEN q.ys * y ELSE q.yoff[y + 1]
              Y == IF "yoff" \in DOMAIN r THEN r.yoff[c[2] + 1] ELSE r.ys * c[2]
              X == r.xs * c[1]
              Z == r.zs * c[3]
              H == HalfStep(r, c[3])
  <2>2. A \in {Refused, q.at + q.xs * x + z_term + yt}
    <3>. HIDE DEF x, y, z_term
    <3>. QED BY <2>1 DEF AddressBase, x, y, z_term
  <2>3. P = r.at + X + Z + H + Y
    BY <1>9, <2>1 DEF PredictBase, Coordinated, c
  <2>4. yt = Y /\ Y \in Int
    <3>1. CASE "yoff" \in DOMAIN r
      <4>1. r.yoff # << >>
        BY <1>1, <2>1, <3>1
      <4>. QED BY <1>1, <2>1, <3>1, <4>1
    <3>2. CASE "yoff" \notin DOMAIN r
      BY <1>1, <2>1, <3>2
    <3>. QED BY <3>1, <3>2
  <2>5. /\ X \in Int /\ Y \in Int /\ Z \in Int /\ H \in Int /\ r.at \in Int
        /\ P = r.at + X + Z + H + Y
        /\ A \in {Refused, r.at + X + (Z + H) + Y}
    <3>. HIDE DEF yt
    <3>1. X \in Int
      BY <1>1, <2>1, SMTT(30)
    <3>2. A \in {Refused, r.at + X + (Z + H) + Y}
      BY <1>1, <1>7, <1>9, <2>1, <2>2, <2>4
    <3>. QED BY <1>7, <1>9, <2>3, <2>4, <3>1, <3>2
  <2>. HIDE DEF X, Y, Z, H, A, P
  <2>6. r.at + X + Z + H + Y = r.at + X + (Z + H) + Y
    BY <2>5
  <2>7. A \in {Refused, P}
    BY <2>5, <2>6
  <2>. QED BY <2>7 DEF A, P
<1>. QED BY <1>4, <1>5, <1>6, <1>8, <1>9 DEF GridRule

-----------------------------------------------------------------------------
(* Slots: instructions of equal signature, told apart by rank.             *)

(* A one-to-one correspondence.                                            *)
LEMMA SameSize ==
  ASSUME NEW S, NEW T, IsFiniteSet(S), NEW f \in [S -> T],
         \A x, y \in S : f[x] = f[y] => x = y, \A t \in T : \E x \in S : f[x] = t
  PROVE  IsFiniteSet(T) /\ Cardinality(T) = Cardinality(S)
<1>1. f \in Injection(S, T) /\ f \in Surjection(S, T)
  BY DEF Injection, Surjection, IsInjective
<1>. QED BY <1>1, FS_Surjection

LEMMA RecordsAre ==
  ASSUME NEW recs \in Seq(Instruction)
  PROVE  /\ Len(recs) \in Nat /\ DOMAIN recs = 1 .. Len(recs)
         /\ IsFiniteSet(DOMAIN recs) /\ Cardinality(DOMAIN recs) = Len(recs)
         /\ \A i \in DOMAIN recs : /\ i \in Nat /\ recs[i].base \in Nat /\ recs[i].ts \in Nat
<1>1. Len(recs) \in Nat /\ DOMAIN recs = 1 .. Len(recs)
  OBVIOUS
<1>2. \A i \in DOMAIN recs : recs[i] \in Instruction
  OBVIOUS
<1>3. \A i \in DOMAIN recs : /\ i \in Nat /\ recs[i].base \in Nat /\ recs[i].ts \in Nat
  BY <1>1, <1>2 DEF Instruction
<1>4. IsFiniteSet(1 .. Len(recs)) /\ Cardinality(1 .. Len(recs)) = Len(recs)
  <2>1. 1 \in Int /\ Len(recs) \in Int
    BY <1>1
  <2>2. IsFiniteSet(1 .. Len(recs))
    BY <2>1, FS_Interval, Zenon
  <2>3. Cardinality(1 .. Len(recs)) = IF 1 > Len(recs) THEN 0 ELSE Len(recs) - 1 + 1
    BY <2>1, FS_Interval, Zenon
  <2>. QED BY <1>1, <2>2, <2>3
<1>. QED BY <1>1, <1>3, <1>4

Before(recs, i, j) == LexLess(RankKey(recs, i), RankKey(recs, j))

LEMMA BeforeIs ==
  ASSUME NEW recs \in Seq(Instruction), NEW i \in DOMAIN recs, NEW j \in DOMAIN recs
  PROVE  Before(recs, i, j)
           <=> \/ recs[i].base < recs[j].base
               \/ /\ recs[i].base = recs[j].base
                  /\ recs[i].ts < recs[j].ts \/ (recs[i].ts = recs[j].ts /\ i < j)
<1>1. /\ recs[i].base \in Int /\ recs[i].ts \in Int /\ i \in Int
      /\ recs[j].base \in Int /\ recs[j].ts \in Int /\ j \in Int
  BY RecordsAre
<1>2. RankKey(recs, i) = <<recs[i].base, recs[i].ts, i>> /\ RankKey(recs, j) = <<recs[j].base, recs[j].ts, j>>
  BY DEF RankKey
<1>. DEFINE a == recs[i].base
            t == recs[i].ts
            c == recs[j].base
            u == recs[j].ts
<1>. HIDE DEF a, t, c, u
<1>3. /\ a \in Int /\ t \in Int /\ i \in Int /\ c \in Int /\ u \in Int /\ j \in Int
      /\ Before(recs, i, j) <=> LexLess(<<a, t, i>>, <<c, u, j>>)
  BY <1>1, <1>2 DEF a, t, c, u, Before
<1>4. Before(recs, i, j) <=> a < c \/ (a = c /\ (t < u \/ (t = u /\ i < j)))
  BY <1>3, LexOfThree
<1>. QED BY <1>4 DEF a, t, c, u

LEMMA BeforeOrders ==
  ASSUME NEW recs \in Seq(Instruction),
         NEW i \in DOMAIN recs, NEW j \in DOMAIN recs, NEW m \in DOMAIN recs
  PROVE  /\ ~Before(recs, i, i)
         /\ Before(recs, i, j) /\ Before(recs, j, m) => Before(recs, i, m)
         /\ i # j => Before(recs, i, j) \/ Before(recs, j, i)
<1>1. /\ recs[i].base \in Int /\ recs[i].ts \in Int /\ i \in Int
      /\ recs[j].base \in Int /\ recs[j].ts \in Int /\ j \in Int
      /\ recs[m].base \in Int /\ recs[m].ts \in Int /\ m \in Int
  BY RecordsAre
<1>. QED BY <1>1, BeforeIs, SMTT(30)

Ranked(recs, i) == {j \in DOMAIN recs : recs[j].sig = recs[i].sig /\ Before(recs, j, i)}

(* Instructions have different slots.                                      *)
LEMMA SlotDiffers ==
  ASSUME NEW recs \in Seq(Instruction), NEW i \in DOMAIN recs, NEW j \in DOMAIN recs,
         Slot(recs, i) = Slot(recs, j)
  PROVE  i = j
<1>1. \A n \in DOMAIN recs : Slot(recs, n) = <<recs[n].sig, Cardinality(Ranked(recs, n))>>
  BY DEF Slot, Ranked, Before
<1>2. \A n \in DOMAIN recs : IsFiniteSet(Ranked(recs, n)) /\ Cardinality(Ranked(recs, n)) \in Nat
  <2>1. \A n \in DOMAIN recs : Ranked(recs, n) \in SUBSET DOMAIN recs
    BY DEF Ranked
  <2>. QED BY <2>1, RecordsAre, FS_Subset, FS_CardinalityType
<1>3. ASSUME NEW m \in DOMAIN recs,
             NEW n \in DOMAIN recs, recs[m].sig = recs[n].sig, Before(recs, m, n)
      PROVE  Cardinality(Ranked(recs, m)) # Cardinality(Ranked(recs, n))
  <2>1. m \in Ranked(recs, n) /\ m \notin Ranked(recs, m)
    BY <1>3, BeforeOrders DEF Ranked
  <2>2. Ranked(recs, m) \in SUBSET Ranked(recs, n)
    BY <1>3, BeforeOrders DEF Ranked
  <2>. QED BY <1>2, <2>1, <2>2, FS_Subset
<1>4. recs[i].sig = recs[j].sig /\ Cardinality(Ranked(recs, i)) = Cardinality(Ranked(recs, j))
  BY <1>1
<1>. QED BY <1>3, <1>4, BeforeOrders

(* The instruction of a slot.                                              *)
SlotIndex(recs, slot) == CHOOSE i \in DOMAIN recs : Slot(recs, i) = slot

LEMMA SlotIndexIs ==
  ASSUME NEW recs \in Seq(Instruction)
  PROVE  /\ \A slot \in Structure(recs) : /\ SlotIndex(recs, slot) \in DOMAIN recs
                                          /\ Slot(recs, SlotIndex(recs, slot)) = slot
                                          /\ RecordAt(recs, slot) = recs[SlotIndex(recs, slot)]
                                          /\ slot[1] = RecordAt(recs, slot).sig
         /\ \A i \in DOMAIN recs : Slot(recs, i) \in Structure(recs) /\ SlotIndex(recs, Slot(recs, i)) = i
<1>1. ASSUME NEW slot \in Structure(recs)
      PROVE  /\ SlotIndex(recs, slot) \in DOMAIN recs
             /\ Slot(recs, SlotIndex(recs, slot)) = slot
             /\ RecordAt(recs, slot) = recs[SlotIndex(recs, slot)]
             /\ slot[1] = RecordAt(recs, slot).sig
  <2>1. \E i \in DOMAIN recs : Slot(recs, i) = slot
    BY DEF Structure
  <2>2. SlotIndex(recs, slot) \in DOMAIN recs /\ Slot(recs, SlotIndex(recs, slot)) = slot
    BY <2>1 DEF SlotIndex
  <2>3. RecordAt(recs, slot) = recs[SlotIndex(recs, slot)]
    BY DEF RecordAt, SlotIndex
  <2>. DEFINE i == SlotIndex(recs, slot)
  <2>4. Slot(recs, i)[1] = recs[i].sig
    BY DEF Slot
  <2>. QED BY <2>2, <2>3, <2>4
<1>2. ASSUME NEW i \in DOMAIN recs
      PROVE  Slot(recs, i) \in Structure(recs) /\ SlotIndex(recs, Slot(recs, i)) = i
  <2>1. Slot(recs, i) \in Structure(recs)
    BY DEF Structure
  <2>. QED BY <1>1, <2>1, SlotDiffers
<1>. QED BY <1>1, <1>2

(* CTAs of one structure have as many instructions, slot by slot.          *)
LEMMA SameStructure ==
  ASSUME NEW r \in Seq(Instruction), NEW s \in Seq(Instruction), Structure(r) = Structure(s)
  PROVE  /\ Len(r) = Len(s)
         /\ LET f == [i \in DOMAIN r |-> SlotIndex(s, Slot(r, i))]
            IN  /\ f \in [DOMAIN r -> DOMAIN s]
                /\ \A i, j \in DOMAIN r : f[i] = f[j] => i = j
                /\ \A n \in DOMAIN s : \E i \in DOMAIN r : f[i] = n
                /\ \A i \in DOMAIN r : Slot(s, f[i]) = Slot(r, i)
<1>. DEFINE f == [i \in DOMAIN r |-> SlotIndex(s, Slot(r, i))]
<1>1. ASSUME NEW i \in DOMAIN r
      PROVE  f[i] \in DOMAIN s /\ Slot(s, f[i]) = Slot(r, i)
  <2>1. Slot(r, i) \in Structure(s)
    BY SlotIndexIs
  <2>. QED BY <2>1, SlotIndexIs
<1>2. f \in [DOMAIN r -> DOMAIN s]
  BY <1>1
<1>3. ASSUME NEW n \in DOMAIN s PROVE \E i \in DOMAIN r : f[i] = n
  <2>1. Slot(s, n) \in Structure(r)
    BY SlotIndexIs
  <2>2. PICK i \in DOMAIN r : Slot(r, i) = Slot(s, n)
    BY <2>1 DEF Structure
  <2>3. f[i] = SlotIndex(s, Slot(s, n))
    BY <2>2
  <2>. QED BY <2>3, SlotIndexIs
<1>. HIDE DEF f
<1>4. \A i, j \in DOMAIN r : f[i] = f[j] => i = j
  BY <1>1, SlotDiffers
<1>5. Cardinality(DOMAIN s) = Cardinality(DOMAIN r)
  BY <1>2, <1>3, <1>4, RecordsAre, SameSize
<1>6. Len(r) = Len(s)
  BY <1>5, RecordsAre
<1>. QED BY <1>1, <1>2, <1>3, <1>4, <1>6 DEF f

-----------------------------------------------------------------------------
(* What is fitted to the sampled CTAs.                                     *)

Fields == {"slot", "rule", "delta", "by_cta"}

(* A template for the instructions of a CTA: an entry for each slot.       *)
Slotted(T, recs) ==
  /\ IsSequence(T) /\ Len(T) = Len(recs)
  /\ \A i \in DOMAIN T : DOMAIN T[i] = Fields /\ T[i].slot \in Structure(recs)
  /\ \A i, j \in DOMAIN T : T[i].slot = T[j].slot => i = j
  /\ \A slot \in Structure(recs) : \E i \in DOMAIN T : T[i].slot = slot

(* One stride per flattened CTA.                                           *)
FlatRule(r) == /\ DOMAIN r = {"kind", "at", "xs"} /\ r.kind = "coordinate"
               /\ r.at \in Int /\ r.xs \in Int

LEMMA AffineFits ==
  ASSUME NEW g \in Sizes, NEW p \in Points(g), FitAffine(p, g) # NoRule
  PROVE  FlatRule(FitAffine(p, g)) /\ Explains(FitAffine(p, g), g, p)
<1>. DEFINE a == Anchor(p)
            b == Least(DOMAIN p \ {a})
            s == Quotient(p[b] - p[a], b - a)
            r == [kind |-> "coordinate", at |-> p[a] - s * a, xs |-> s]
<1>1. /\ Cardinality(DOMAIN p) >= 2 \/ ~(Cardinality(DOMAIN p) >= 2)
      /\ ~(Cardinality(DOMAIN p) < 2) /\ Divides(b - a, p[b] - p[a])
      /\ FitAffine(p, g) = Explaining(r, g, p)
  BY DEF FitAffine
<1>2. a \in DOMAIN p /\ a \in Nat /\ p[a] \in Nat /\ DOMAIN p \subseteq Nat
  BY PointsAre
<1>3. b \in DOMAIN p
  <2>1. DOMAIN p \ {a} # {}
    <3>1. ASSUME DOMAIN p = {a} PROVE FALSE
      <4>1. Cardinality(DOMAIN p) = 1
        BY <3>1, FS_Singleton
      <4>. QED BY <1>1, <4>1
    <3>. QED BY <1>2, <3>1
  <2>2. DOMAIN p \ {a} \in SUBSET Nat
    BY <1>2
  <2>. HIDE DEF a
  <2>. QED BY <2>1, <2>2, LeastIs
<1>4. b \in Nat /\ p[b] \in Nat
  BY <1>3, PointsAre
<1>5. s \in Int
  <2>1. p[b] - p[a] \in Int /\ b - a \in Int
    BY <1>2, <1>4
  <2>. QED BY <1>1, <2>1, QuotientIs
<1>. HIDE DEF a, b, s
<1>6. FlatRule(r)
  <2>1. s * a \in Int /\ p[a] \in Int
    BY <1>2, <1>5
  <2>2. p[a] - s * a \in Int
    BY <2>1
  <2>. QED BY <1>5, <2>2 DEF FlatRule
<1>. HIDE DEF r
<1>. QED BY <1>1, <1>6, ExplainingIs

LEMMA TemplateSlotted ==
  ASSUME NEW k \in Workloads, NEW ctas \in SUBSET Grid(k.grid), ctas # {},
         NEW recs \in Seq(Instruction),
         \A c \in ctas : Structure(k.recs[c]) = Structure(recs), NEW fitting, NEW flat
  PROVE  Slotted(Template(k, ctas, fitting, flat), recs)
<1>. DEFINE a == Least(ctas)
            first == k.recs[a]
            T == Template(k, ctas, fitting, flat)
<1>1. a \in ctas
  BY GridIs, LeastIs
<1>2. first \in Seq(Instruction) /\ Structure(first) = Structure(recs)
  BY <1>1, RecordsTyped
<1>3. T = [i \in DOMAIN first |-> Entry(k, ctas, fitting, flat, i)]
  BY DEF Template
<1>4. \A i : LET e == Entry(k, ctas, fitting, flat, i)
             IN  DOMAIN e = Fields /\ e.slot = Slot(first, i)
  BY DEF Entry, Fields
<1>. HIDE DEF first
<1>5. Len(first) \in Nat /\ DOMAIN first = 1 .. Len(first)
  BY <1>2
<1>6. Len(first) = Len(recs)
  BY <1>2, SameStructure
<1>. HIDE DEF T
<1>7. DOMAIN T = 1 .. Len(first) /\ T = [i \in 1 .. Len(first) |-> T[i]]
  BY <1>3, <1>5
<1>8. Len(T) = Len(first)
  BY <1>5, <1>7, LenIs
<1>9. IsSequence(T)
  BY <1>5, <1>7, <1>8 DEF IsSequence
<1>10. \A i \in DOMAIN T : DOMAIN T[i] = Fields /\ T[i].slot = Slot(first, i) /\ i \in DOMAIN first
  BY <1>3, <1>4, <1>5, <1>7
<1>11. \A i \in DOMAIN T : T[i].slot \in Structure(recs)
  BY <1>2, <1>10 DEF Structure
<1>12. \A i, j \in DOMAIN T : T[i].slot = T[j].slot => i = j
  BY <1>2, <1>10, SlotDiffers
<1>13. ASSUME NEW slot \in Structure(recs) PROVE \E i \in DOMAIN T : T[i].slot = slot
  <2>1. PICK i \in DOMAIN first : Slot(first, i) = slot
    BY <1>2 DEF Structure
  <2>. QED BY <1>5, <1>7, <1>10, <2>1
<1>14. Slotted(T, recs)
  BY <1>6, <1>8, <1>9, <1>10, <1>11, <1>12, <1>13 DEF Slotted
<1>. QED BY <1>14 DEF T

(* Its rules give the addresses of the CTAs that they were fitted to.      *)
Ruled(T, g, flat) ==
  \A i \in DOMAIN T : GridRule(T[i].rule, g) \/ (flat /\ FlatRule(T[i].rule))

Predicts(T, g, b, recs) ==
  \A i \in DOMAIN T : PredictBase(T[i].rule, g, b) = RecordAt(recs, T[i].slot).base

LEMMA TemplateRuled ==
  ASSUME NEW k \in Workloads, NEW fitting \in SUBSET Grid(k.grid),
         NEW ctas \in SUBSET fitting, ctas # {},
         NEW s, \A c \in ctas : Structure(k.recs[c]) = s, NEW flat \in BOOLEAN
  PROVE  LET T == Template(k, ctas, fitting, flat)
         IN  /\ RulesFound(T) => Ruled(T, k.grid, flat) /\ \A b \in ctas : Predicts(T, k.grid, b, k.recs[b])
             /\ Complete(k) /\ ~flat => RulesFound(T)
<1>. DEFINE a == Least(ctas)
            first == k.recs[a]
            T == Template(k, ctas, fitting, flat)
            g == k.grid
<1>0. g \in Sizes
  BY WorkloadsAssumption DEF Sizes
<1>1. a \in ctas
  BY GridIs, LeastIs
<1>2. \A b \in fitting : k.recs[b] \in Seq(Instruction)
  BY RecordsTyped
<1>3. DOMAIN T = DOMAIN first /\ \A i \in DOMAIN first : T[i] = Entry(k, ctas, fitting, flat, i)
  BY DEF Template
<1>4. Structure(first) = s /\ Complete(k) \in BOOLEAN
  BY <1>1, WorkloadsAssumption DEF Complete
<1>5. ASSUME NEW i \in DOMAIN first
      PROVE  LET r == Entry(k, ctas, fitting, flat, i).rule
                 slot == Entry(k, ctas, fitting, flat, i).slot
             IN  /\ Complete(k) /\ ~flat => r # NoRule
                 /\ r # NoRule =>
                      /\ GridRule(r, g) \/ (flat /\ FlatRule(r))
                      /\ \A b \in ctas : PredictBase(r, g, b) = RecordAt(k.recs[b], slot).base
  <2>. DEFINE slot == Slot(first, i)
              D == {c \in fitting : slot \in Structure(k.recs[c])}
              p == [b \in D |-> RecordAt(k.recs[b], slot).base]
              e == Entry(k, ctas, fitting, flat, i)
              exact == Complete(k)
  <2>1. e.slot = slot /\ e.rule = IF flat THEN FitAffine(p, g) ELSE FitProfileRule(p, g, exact)
    BY DEF Entry
  <2>2. slot \in s
    BY <1>4 DEF Structure
  <2>. HIDE DEF slot, e, exact
  <2>3. ctas \subseteq D /\ D \in (SUBSET Grid(g)) \ {{}}
    BY <1>1, <2>2
  <2>4. \A b \in D : p[b] \in Nat
    <3>. SUFFICES ASSUME NEW b \in D PROVE RecordAt(k.recs[b], slot).base \in Nat
      OBVIOUS
    <3>1. k.recs[b] \in Seq(Instruction) /\ slot \in Structure(k.recs[b])
      BY <1>2
    <3>2. \E j \in DOMAIN k.recs[b] : RecordAt(k.recs[b], slot) = k.recs[b][j]
      BY <3>1, SlotIndexIs
    <3>. QED BY <3>1, <3>2, RecordsAre
  <2>. HIDE DEF D
  <2>5. p \in [D -> Nat] /\ DOMAIN p = D /\ \A b \in D : p[b] = RecordAt(k.recs[b], slot).base
    BY <2>4
  <2>. HIDE DEF p
  <2>6. p \in Points(g)
    BY <2>3, <2>5 DEF Points
  <2>. HIDE DEF g
  <2>7. exact \in BOOLEAN
    BY <1>4 DEF exact
  <2>8. /\ Fits(FitProfileRule(p, g, exact), g, p)
        /\ exact => FitProfileRule(p, g, exact) # NoRule
    BY <1>0, <2>6, <2>7, ProfileRuleFits
  <2>9. /\ exact /\ ~flat => e.rule # NoRule
        /\ e.rule # NoRule => /\ GridRule(e.rule, g) \/ (flat /\ FlatRule(e.rule))
                              /\ Explains(e.rule, g, p)
    <3>1. CASE flat
      BY <1>0, <2>1, <2>6, <3>1, AffineFits
    <3>2. CASE ~flat
      BY <2>1, <2>8, <3>2 DEF Fits
    <3>. QED BY <3>1, <3>2
  <2>10. Explains(e.rule, g, p) => \A b \in ctas : PredictBase(e.rule, g, b) = RecordAt(k.recs[b], e.slot).base
    BY <2>1, <2>3, <2>5 DEF Explains
  <2>. QED BY <2>9, <2>10 DEF e, exact
<1>. HIDE DEF T, first, g
<1>6. RulesFound(T) => Ruled(T, g, flat) /\ \A b \in ctas : Predicts(T, g, b, k.recs[b])
  BY <1>3, <1>5 DEF RulesFound, Ruled, Predicts
<1>7. Complete(k) /\ ~flat => RulesFound(T)
  BY <1>3, <1>5 DEF RulesFound
<1>. QED BY <1>6, <1>7 DEF T, g

(* The class of a sampled CTA is its own.                                  *)
LEMMA OneStructure ==
  ASSUME NEW S, Cardinality(S) = 1, IsFiniteSet(S)
  PROVE  S # {} /\ \A x \in S : TheOnly(S) = x
<1>1. PICK x : S = {x}
  BY FS_Singleton
<1>. QED BY <1>1 DEF TheOnly

LEMMA StructuresAre ==
  ASSUME NEW k \in Workloads, NEW D \in SUBSET Grid(k.grid)
  PROVE  /\ IsFiniteSet(StructuresOf(k, D))
         /\ \A b \in D : Structure(k.recs[b]) \in StructuresOf(k, D)
         /\ StructuresOf(k, D) = {} => D = {}
<1>1. IsFiniteSet(D)
  BY GridIs, FS_Subset
<1>2. [b \in D |-> Structure(k.recs[b])] \in Surjection(D, StructuresOf(k, D))
  BY DEF Surjection, StructuresOf
<1>3. IsFiniteSet(StructuresOf(k, D))
  BY <1>1, <1>2, FS_Surjection
<1>. QED BY <1>3 DEF StructuresOf

LEMMA ClassOfSampled ==
  ASSUME NEW k \in Workloads, SelectionAdmitted(k), StructureAdmitted(k), NEW b \in Sampled(k)
  PROVE  /\ b \in Grid(k.grid) /\ ClassOf(k, b) = Structure(k.recs[b])
         /\ ClassOf(k, b) \in StructuresOf(k, Train(k))
<1>1. /\ Sampled(k) \subseteq Grid(k.grid) /\ Train(k) \subseteq Sampled(k)
      /\ b \in Train(k) \cup Held(k)
  BY DEF SelectionAdmitted, Sampled, Train, Held
<1>2. b \in Grid(k.grid) /\ ClassOf(k, b) \in StructuresOf(k, Train(k))
  BY <1>1, ClassOfFitted
<1>3. CASE b \in Held(k)
  BY <1>2, <1>3 DEF StructureAdmitted
<1>4. CASE b \in Train(k) /\ OneClass(k)
  <2>. DEFINE S == StructuresOf(k, Train(k))
              A == StructuresOf(k, Sampled(k))
  <2>1. IsFiniteSet(S) /\ IsFiniteSet(A) /\ Structure(k.recs[b]) \in S /\ Structure(k.recs[b]) \in A
    BY <1>1, <1>4, StructuresAre
  <2>2. S \subseteq A
    BY <1>1 DEF StructuresOf
  <2>3. Cardinality(S) = 1 \/ Cardinality(A) = 1
    BY <1>4 DEF OneClass
  <2>4. ClassOf(k, b) = TheOnly(S)
    BY <1>4 DEF ClassOf
  <2>. HIDE DEF S, A
  <2>5. CASE Cardinality(S) = 1
    BY <1>2, <2>1, <2>4, <2>5, OneStructure
  <2>6. CASE Cardinality(A) = 1
    <3>1. PICK x : A = {x}
      BY <2>1, <2>6, FS_Singleton
    <3>2. S = {x} /\ Structure(k.recs[b]) = x
      BY <2>1, <2>2, <3>1
    <3>. QED BY <1>2, <2>4, <3>2 DEF TheOnly
  <2>. QED BY <1>2, <2>3, <2>5, <2>6
<1>5. CASE b \in Train(k) /\ ~OneClass(k) /\ Complete(k)
  BY <1>2, <1>5 DEF ClassOf
<1>6. CASE b \in Train(k) /\ ~OneClass(k) /\ ~Complete(k)
  <2>. DEFINE R == StructuresOf(k, Row(k, b) \cap Train(k))
  <2>1. ClassOf(k, b) = TheOnly(R) /\ Cardinality(R) = 1
    BY <1>2, <1>6 DEF ClassOf, StructureAdmitted
  <2>2. b \in Row(k, b) \cap Train(k) /\ Row(k, b) \cap Train(k) \in SUBSET Grid(k.grid)
    BY <1>1, <1>2, <1>6 DEF Row
  <2>3. IsFiniteSet(R) /\ Structure(k.recs[b]) \in R
    BY <2>2, StructuresAre
  <2>. HIDE DEF R
  <2>4. TheOnly(R) = Structure(k.recs[b])
    BY <2>1, <2>3, OneStructure
  <2>. QED BY <1>2, <2>1, <2>4
<1>. QED BY <1>1, <1>2, <1>3, <1>4, <1>5, <1>6

(* A class is fitted from its CTAs, and from others that execute some of   *)
(* its instructions; to a flat rule for the two schemas only.              *)
LEMMA ClassTemplateIs ==
  ASSUME NEW k \in Workloads, SelectionAdmitted(k), StructureAdmitted(k),
         NEW s \in StructuresOf(k, Train(k))
  PROVE  LET ctas == {b \in Train(k) : Structure(k.recs[b]) = s}
         IN  /\ ctas # {}
             /\ \E fitting \in SUBSET Grid(k.grid), flat \in BOOLEAN :
                  /\ ctas \subseteq fitting
                  /\ ClassTemplate(k, s) = Template(k, ctas, fitting, flat)
                  /\ flat => Version(k) \in {1, 11}
<1>. DEFINE ctas == {b \in Train(k) : Structure(k.recs[b]) = s}
            fitting == IF SelectedByRow(k) THEN Train(k) ELSE ctas
            flat == Version(k) = 1
<1>1. Train(k) \subseteq Grid(k.grid)
  BY DEF SelectionAdmitted, Sampled, Train
<1>2. ctas # {}
  BY DEF StructuresOf
<1>3. ctas \in SUBSET Grid(k.grid) /\ fitting \in SUBSET Grid(k.grid) /\ ctas \subseteq fitting
  BY <1>1
<1>4. flat \in BOOLEAN /\ (flat => Version(k) \in {1, 11})
  OBVIOUS
<1>5. \/ ClassTemplate(k, s) = Template(k, ctas, fitting, flat)
      \/ ClassTemplate(k, s) = Template(k, ctas, ctas, TRUE) /\ Version(k) \in {1, 11}
  BY DEF ClassTemplate
<1>. HIDE DEF ctas, fitting, flat
<1>6. CASE ClassTemplate(k, s) = Template(k, ctas, fitting, flat)
  BY <1>2, <1>3, <1>4, <1>6 DEF ctas
<1>7. CASE ClassTemplate(k, s) = Template(k, ctas, ctas, TRUE) /\ Version(k) \in {1, 11}
  <2>. DEFINE yes == TRUE
  <2>1. ClassTemplate(k, s) = Template(k, ctas, ctas, yes) /\ yes \in BOOLEAN
    BY <1>7
  <2>. HIDE DEF yes
  <2>. QED BY <1>2, <1>3, <1>7, <2>1 DEF ctas
<1>. QED BY <1>5, <1>6, <1>7

(* A template gives the instructions of CTA b: one entry to each, with its *)
(* signature and its address.                                              *)
OneToOne(f, S, T) == /\ f \in [S -> T] /\ \A x, y \in S : f[x] = f[y] => x = y
                     /\ \A t \in T : \E x \in S : f[x] = t

Gives(e, g, b, r) == e.slot[1] = r.sig /\ PredictBase(e.rule, g, b) = r.base

Matches(T, g, b, recs) ==
  \E f : /\ OneToOne(f, DOMAIN T, DOMAIN recs)
         /\ \A i \in DOMAIN T : Gives(T[i], g, b, recs[f[i]])

(* By slots.                                                               *)
LEMMA SlotsMatch ==
  ASSUME NEW g, NEW b, NEW recs \in Seq(Instruction), NEW T, Slotted(T, recs)
  PROVE  LET f == [i \in DOMAIN T |-> SlotIndex(recs, T[i].slot)]
         IN  /\ OneToOne(f, DOMAIN T, DOMAIN recs)
             /\ Predicts(T, g, b, recs) => \A i \in DOMAIN T : Gives(T[i], g, b, recs[f[i]])
<1>. DEFINE f == [i \in DOMAIN T |-> SlotIndex(recs, T[i].slot)]
<1>1. ASSUME NEW i \in DOMAIN T
      PROVE  /\ f[i] \in DOMAIN recs /\ Slot(recs, f[i]) = T[i].slot
             /\ recs[f[i]] = RecordAt(recs, T[i].slot) /\ T[i].slot[1] = recs[f[i]].sig
  <2>1. T[i].slot \in Structure(recs)
    BY DEF Slotted
  <2>2. f[i] = SlotIndex(recs, T[i].slot)
    OBVIOUS
  <2>. HIDE DEF f
  <2>. QED BY <2>1, <2>2, SlotIndexIs
<1>2. f \in [DOMAIN T -> DOMAIN recs]
  BY <1>1
<1>. HIDE DEF f
<1>3. \A i, j \in DOMAIN T : f[i] = f[j] => i = j
  BY <1>1 DEF Slotted
<1>4. ASSUME NEW n \in DOMAIN recs PROVE \E i \in DOMAIN T : f[i] = n
  <2>1. Slot(recs, n) \in Structure(recs)
    BY SlotIndexIs
  <2>2. PICK i \in DOMAIN T : T[i].slot = Slot(recs, n)
    BY <2>1 DEF Slotted
  <2>3. Slot(recs, f[i]) = Slot(recs, n) /\ f[i] \in DOMAIN recs
    BY <1>1, <2>2
  <2>. QED BY <2>2, <2>3, SlotDiffers
<1>5. OneToOne(f, DOMAIN T, DOMAIN recs)
  BY <1>2, <1>3, <1>4 DEF OneToOne
<1>6. Predicts(T, g, b, recs) => \A i \in DOMAIN T : Gives(T[i], g, b, recs[f[i]])
  BY <1>1 DEF Predicts, Gives
<1>. QED BY <1>5, <1>6 DEF f

(* By the order of the CTA's own times.                                    *)
InOrder(T, g, b, recs) ==
  /\ Len(T) = Len(recs)
  /\ \A n \in DOMAIN recs : Gives(Nth(T, b, TRUE, n), g, b, recs[n])

LEMMA OrderMatches ==
  ASSUME NEW g, NEW b, NEW recs \in Seq(Instruction), NEW T, Timed(T, b), InOrder(T, g, b, recs)
  PROVE  Matches(T, g, b, recs)
<1>. DEFINE own == TRUE
            f == [i \in DOMAIN T |-> Cardinality(Below(T, b, own, i)) + 1]
<1>1. \A n \in DOMAIN recs : Gives(Nth(T, b, own, n), g, b, recs[n])
  BY DEF InOrder
<1>. HIDE DEF own
<1>2. /\ Len(T) \in Nat /\ DOMAIN T = 1 .. Len(T) /\ DOMAIN recs = 1 .. Len(T)
  BY RecordsAre DEF InOrder, Timed, IsSequence
<1>3. \A i \in DOMAIN T : /\ Cardinality(Below(T, b, own, i)) \in 0 .. Len(T) - 1
                          /\ f[i] = Cardinality(Below(T, b, own, i)) + 1
  BY BelowIs
<1>. HIDE DEF f
<1>4. ASSUME NEW i \in DOMAIN T PROVE f[i] \in 1 .. Len(T) /\ f[i] - 1 = Cardinality(Below(T, b, own, i))
  BY <1>2, <1>3
<1>5. ASSUME NEW n \in 1 .. Len(T)
      PROVE  /\ NthIndex(T, b, own, n) \in DOMAIN T /\ f[NthIndex(T, b, own, n)] = n
             /\ Nth(T, b, own, n) = T[NthIndex(T, b, own, n)]
  <2>1. /\ NthIndex(T, b, own, n) \in DOMAIN T
        /\ Cardinality(Below(T, b, own, NthIndex(T, b, own, n))) = n - 1
        /\ Nth(T, b, own, n) = T[NthIndex(T, b, own, n)]
    BY NthIs
  <2>2. f[NthIndex(T, b, own, n)] = (n - 1) + 1
    BY <1>3, <2>1
  <2>. QED BY <1>2, <2>1, <2>2
<1>6. f \in [DOMAIN T -> DOMAIN recs]
  <2>1. f = [i \in DOMAIN T |-> f[i]]
    BY DEF f
  <2>. QED BY <1>2, <1>4, <2>1
<1>7. \A i, j \in DOMAIN T : f[i] = f[j] => i = j
  BY <1>4, BelowDiffers
<1>8. \A n \in DOMAIN recs : \E i \in DOMAIN T : f[i] = n
  BY <1>2, <1>5
<1>9. ASSUME NEW i \in DOMAIN T PROVE Gives(T[i], g, b, recs[f[i]])
  <2>1. NthIndex(T, b, own, f[i]) = i
    BY <1>4, <1>5, <1>7
  <2>2. Nth(T, b, own, f[i]) = T[i]
    BY <1>4, <1>5, <2>1
  <2>. QED BY <1>1, <1>2, <1>4, <2>2
<1>. QED BY <1>6, <1>7, <1>8, <1>9 DEF Matches, OneToOne

(* The times of a CTA of a complete grid.                                  *)
Recorded(T, b, recs) ==
  \A i \in DOMAIN T : Delta(T[i], b) = RecordAt(recs, T[i].slot).ts - StartTime(recs)

LEMMA TemplateRecorded ==
  ASSUME NEW k \in Workloads, Complete(k), NEW ctas, NEW b \in ctas, NEW fitting, NEW flat
  PROVE  Recorded(Template(k, ctas, fitting, flat), b, k.recs[b])
<1>. DEFINE first == k.recs[Least(ctas)]
            T == Template(k, ctas, fitting, flat)
<1>1. \A i \in DOMAIN T : T[i] = Entry(k, ctas, fitting, flat, i)
  BY DEF Template
<1>. HIDE DEF T
<1>2. ASSUME NEW i \in DOMAIN T
      PROVE  Delta(T[i], b) = RecordAt(k.recs[b], T[i].slot).ts - StartTime(k.recs[b])
  <2>. DEFINE slot == Slot(first, i)
              time(c) == RecordAt(k.recs[c], slot).ts - StartTime(k.recs[c])
              table == [c \in ctas |-> time(c)]
  <2>0. /\ Entry(k, ctas, fitting, flat, i).slot = slot
        /\ Entry(k, ctas, fitting, flat, i).by_cta = IF Complete(k) THEN table ELSE << >>
    BY DEF Entry
  <2>. HIDE DEF slot
  <2>1. T[i].slot = slot /\ T[i].by_cta = table
    <3>. HIDE DEF table
    <3>. QED BY <1>1, <2>0
  <2>2. table[b] = time(b) /\ table # << >>
    <3>1. DOMAIN table = ctas /\ ctas # {}
      OBVIOUS
    <3>2. DOMAIN << >> = {}
      OBVIOUS
    <3>. HIDE DEF time
    <3>3. table[b] = time(b)
      OBVIOUS
    <3>. HIDE DEF table
    <3>. QED BY <3>1, <3>2, <3>3
  <2>. QED BY <2>1, <2>2 DEF Delta
<1>. QED BY <1>2 DEF T, Recorded

(* The times of sglang are positions, so that the template's own order is  *)
(* that of the samples.                                                    *)
LEMMA PositionsInOrder ==
  ASSUME NEW g, NEW b, NEW recs \in Seq(Instruction), NEW T, Slotted(T, recs), Timed(T, b),
         Predicts(T, g, b, recs), Recorded(T, b, recs), \A n \in DOMAIN recs : recs[n].ts = n - 1
  PROVE  InOrder(T, g, b, recs)
<1>. DEFINE own == TRUE
            f == [i \in DOMAIN T |-> SlotIndex(recs, T[i].slot)]
<1>1. OneToOne(f, DOMAIN T, DOMAIN recs) /\ \A i \in DOMAIN T : Gives(T[i], g, b, recs[f[i]])
  BY SlotsMatch
<1>2. /\ Len(T) = Len(recs) /\ Len(recs) \in Nat /\ DOMAIN recs = 1 .. Len(recs)
      /\ DOMAIN T = 1 .. Len(recs)
  BY RecordsAre DEF Slotted, IsSequence
<1>3. ASSUME NEW i \in DOMAIN T PROVE f[i] \in DOMAIN recs /\ RecordAt(recs, T[i].slot) = recs[f[i]]
  BY SlotIndexIs DEF Slotted
<1>. HIDE DEF f
<1>4. ASSUME NEW n \in DOMAIN recs PROVE StartTime(recs) = 0
  <2>. DEFINE S == {recs[i].ts : i \in DOMAIN recs}
  <2>1. S \in SUBSET Nat
    BY RecordsAre
  <2>2. 1 \in DOMAIN recs
    BY <1>2
  <2>3. 0 \in S
    BY <2>2
  <2>. HIDE DEF S
  <2>4. Least(S) \in Nat /\ Least(S) =< 0
    BY <2>1, <2>3, LeastIs
  <2>5. StartTime(recs) = Least(S)
    BY DEF StartTime, S
  <2>. QED BY <2>4, <2>5
<1>5. ASSUME NEW i \in DOMAIN T
      PROVE  Time(T, b, own, i) = f[i] - 1 /\ f[i] \in Nat /\ f[i] >= 1 /\ f[i] =< Len(recs)
  <2>1. Delta(T[i], b) = recs[f[i]].ts - StartTime(recs) /\ f[i] \in DOMAIN recs
    BY <1>3 DEF Recorded
  <2>2. recs[f[i]].ts = f[i] - 1 /\ StartTime(recs) = 0 /\ f[i] \in Nat /\ f[i] >= 1 /\ f[i] =< Len(recs)
    BY <1>2, <1>4, <2>1
  <2>3. Delta(T[i], b) = f[i] - 1
    BY <2>1, <2>2
  <2>. QED BY <2>2, <2>3 DEF Time
<1>. HIDE DEF own
<1>6. ASSUME NEW i \in DOMAIN T PROVE Cardinality(Below(T, b, own, i)) = f[i] - 1
  <2>. DEFINE B == Below(T, b, own, i)
              N == 1 .. f[i] - 1
              h == [j \in B |-> f[j]]
  <2>1. B = {j \in DOMAIN T : f[j] < f[i]}
    <3>1. B = {j \in DOMAIN T : \/ Time(T, b, own, j) < Time(T, b, own, i)
                                \/ Time(T, b, own, j) = Time(T, b, own, i) /\ j < i}
      BY BelowIs
    <3>2. ASSUME NEW j \in DOMAIN T
          PROVE  (\/ Time(T, b, own, j) < Time(T, b, own, i)
                  \/ Time(T, b, own, j) = Time(T, b, own, i) /\ j < i) <=> f[j] < f[i]
      <4>1. /\ Time(T, b, own, j) = f[j] - 1 /\ f[j] \in Nat
            /\ Time(T, b, own, i) = f[i] - 1 /\ f[i] \in Nat
        BY <1>5
      <4>2. f[j] = f[i] => j = i
        BY <1>1 DEF OneToOne
      <4>3. j \in Nat /\ i \in Nat
        BY <1>2
      <4>. QED BY <4>1, <4>2, <4>3
    <3>. QED BY <3>1, <3>2
  <2>2. \A j \in B : h[j] = f[j] /\ f[j] \in N
    BY <1>5, <2>1
  <2>. HIDE DEF B, N
  <2>3. h \in [B -> N]
    BY <2>2
  <2>. HIDE DEF h
  <2>4. \A j, m \in B : h[j] = h[m] => j = m
    BY <1>1, <2>1, <2>2 DEF OneToOne
  <2>5. ASSUME NEW n \in N PROVE \E j \in B : h[j] = n
    <3>1. n \in DOMAIN recs /\ n < f[i]
      BY <1>2, <1>5 DEF N
    <3>2. PICK j \in DOMAIN T : f[j] = n
      BY <1>1, <3>1 DEF OneToOne
    <3>. QED BY <2>1, <2>2, <3>1, <3>2
  <2>6. IsFiniteSet(B)
    BY BelowIs DEF B
  <2>7. Cardinality(N) = Cardinality(B)
    BY <2>3, <2>4, <2>5, <2>6, SameSize
  <2>8. f[i] - 1 \in Nat
    BY <1>5
  <2>. DEFINE m == f[i] - 1
  <2>9. N = 1 .. m /\ m \in Nat
    BY <2>8 DEF N
  <2>. HIDE DEF m
  <2>10. Cardinality(1 .. m) = m
    BY <2>9, FS_Interval
  <2>. QED BY <2>7, <2>9, <2>10 DEF m, B
<1>7. ASSUME NEW n \in DOMAIN recs PROVE Gives(Nth(T, b, own, n), g, b, recs[n])
  <2>. DEFINE i == NthIndex(T, b, own, n)
  <2>1. i \in DOMAIN T /\ Nth(T, b, own, n) = T[i] /\ Cardinality(Below(T, b, own, i)) = n - 1
    BY <1>2, NthIs
  <2>. HIDE DEF i
  <2>2. f[i] - 1 = n - 1 /\ f[i] \in Nat /\ n \in Nat
    BY <1>2, <1>5, <1>6, <2>1
  <2>3. f[i] = n
    BY <2>2
  <2>. QED BY <1>1, <2>1, <2>3
<1>. QED BY <1>2, <1>7 DEF InOrder, own

(* The template of a CTA in a fit.                                         *)
FittedTo(k, b) == ClassTemplate(k, ClassOf(k, b))

LEMMA FittedToIs ==
  ASSUME NEW k \in Workloads, SelectionAdmitted(k), StructureAdmitted(k), NEW b \in Sampled(k)
  PROVE  LET T == FittedTo(k, b)
         IN  /\ Slotted(T, k.recs[b]) /\ Timed(T, b)
             /\ Complete(k) => Recorded(T, b, k.recs[b])
             /\ RulesFound(T) => /\ Ruled(T, k.grid, Version(k) \in {1, 11})
                                 /\ b \in Train(k) => Predicts(T, k.grid, b, k.recs[b])
<1>. DEFINE s == ClassOf(k, b)
            T == FittedTo(k, b)
            ctas == {c \in Train(k) : Structure(k.recs[c]) = s}
            recs == k.recs[b]
<1>1. b \in Grid(k.grid) /\ s = Structure(recs) /\ s \in StructuresOf(k, Train(k))
  BY ClassOfSampled
<1>2. Complete(k) => b \in Train(k)
  BY DEF Train
<1>3. recs \in Seq(Instruction) /\ Train(k) \subseteq Grid(k.grid)
  BY <1>1, RecordsTyped DEF SelectionAdmitted, Sampled, Train
<1>4. /\ ctas # {} /\ T = ClassTemplate(k, s)
      /\ \E fitting \in SUBSET Grid(k.grid), flat \in BOOLEAN :
           /\ ctas \subseteq fitting /\ T = Template(k, ctas, fitting, flat)
           /\ flat => Version(k) \in {1, 11}
  BY <1>1, ClassTemplateIs DEF FittedTo
<1>5. PICK fitting \in SUBSET Grid(k.grid), flat \in BOOLEAN :
        /\ ctas \subseteq fitting /\ T = Template(k, ctas, fitting, flat)
        /\ flat => Version(k) \in {1, 11}
  BY <1>4
<1>6. /\ \A c \in ctas : Structure(k.recs[c]) = s
      /\ ctas \in SUBSET Train(k) /\ ctas \in SUBSET Grid(k.grid) /\ ctas # {}
      /\ b \in Train(k) => b \in ctas
  BY <1>1, <1>3, <1>4
<1>. HIDE DEF ctas, T, s, recs
<1>7. Slotted(T, recs)
  <2>1. \A c \in ctas : Structure(k.recs[c]) = Structure(recs)
    BY <1>1, <1>6
  <2>. QED BY <1>3, <1>5, <1>6, <2>1, TemplateSlotted
<1>8. Timed(T, b)
  BY <1>1, <1>2, <1>3, <1>5, <1>6, TemplateTimed
<1>9. Complete(k) => Recorded(T, b, recs)
  BY <1>2, <1>5, <1>6, TemplateRecorded DEF recs
<1>10. RulesFound(T) => /\ Ruled(T, k.grid, flat)
                        /\ \A c \in ctas : Predicts(T, k.grid, c, k.recs[c])
  BY <1>5, <1>6, TemplateRuled
<1>11. ASSUME RulesFound(T)
       PROVE  /\ Ruled(T, k.grid, Version(k) \in {1, 11})
              /\ b \in Train(k) => Predicts(T, k.grid, b, recs)
  BY <1>5, <1>6, <1>10, <1>11 DEF Ruled, recs
<1>. QED BY <1>7, <1>8, <1>9, <1>11 DEF T, recs

(* Every sampled CTA gets its instructions from an admitted profile: the   *)
(* fitted ones by the rules, the others by the check of the samples.       *)
LEMMA FittedMatches ==
  ASSUME NEW k \in Workloads, Admitted(k), NEW b \in Sampled(k)
  PROVE  /\ Matches(FittedTo(k, b), k.grid, b, k.recs[b])
         /\ Ruled(FittedTo(k, b), k.grid, Version(k) \in {1, 11})
<1>. DEFINE T == FittedTo(k, b)
            s == ClassOf(k, b)
            p == Fitted(k)
            recs == k.recs[b]
<1>1. SelectionAdmitted(k) /\ StructureAdmitted(k) /\ SamplesExact(k, p)
  BY DEF Admitted
<1>2. /\ b \in Grid(k.grid) /\ s \in StructuresOf(k, Train(k)) /\ recs \in Seq(Instruction)
      /\ b \in Train(k) \cup Held(k)
  BY <1>1, ClassOfSampled, RecordsTyped DEF Sampled, Train, Held
<1>3. p.classes[p.class_of[b]] = T /\ s \in DOMAIN p.classes /\ p.classes[s] = T
  BY <1>2 DEF Fitted, FittedTo
<1>4. RulesFound(T)
  BY <1>3 DEF Admitted
<1>. HIDE DEF p, T, recs
<1>5. /\ Slotted(T, recs) /\ Timed(T, b) /\ Ruled(T, k.grid, Version(k) \in {1, 11})
      /\ b \in Train(k) => Predicts(T, k.grid, b, recs)
  BY <1>1, <1>4, FittedToIs DEF T, recs
<1>6. ASSUME k.fitter = "r15" PROVE Matches(T, k.grid, b, recs)
  <2>1. Predicts(T, k.grid, b, recs)
    <3>1. CASE b \in Train(k)
      BY <1>5, <3>1
    <3>2. CASE b \in Held(k)
      BY <1>1, <1>3, <1>6, <3>2 DEF SamplesExact, Predicts, recs
    <3>. QED BY <1>2, <3>1, <3>2
  <2>. QED BY <1>2, <1>5, <2>1, SlotsMatch DEF Matches
<1>7. ASSUME k.fitter = "sglang" PROVE Matches(T, k.grid, b, recs)
  <2>1. k.fitter # "r15"
    BY <1>7
  <2>2. InOrder(T, k.grid, b, recs)
    BY <1>1, <1>3, <2>1 DEF SamplesExact, InOrder, Gives, recs
  <2>. QED BY <1>2, <1>5, <2>2, OrderMatches
<1>8. k.fitter \in {"r15", "sglang"}
  BY WorkloadsAssumption
<1>. QED BY <1>5, <1>6, <1>7, <1>8 DEF T, recs

(* A complete capture is admitted.                                         *)
LEMMA CompleteIsAdmitted ==
  ASSUME NEW k \in Workloads, Complete(k), k.format = "memc"
  PROVE  Admitted(k) /\ Version(k) \in {5, 6, 9} /\ Sampled(k) = Grid(k.grid)
<1>1. /\ k.plan.train \cap k.plan.holdout = {} /\ Sampled(k) \subseteq Grid(k.grid)
      /\ k.plan.train \subseteq Sampled(k) /\ k.fitter \in {"r15", "sglang"}
      /\ k.plan.complete => k.plan.train = Grid(k.grid)
  BY WorkloadsAssumption DEF Sampled
<1>2. Sampled(k) = Grid(k.grid)
  BY <1>1 DEF Complete
<1>3. Train(k) = Grid(k.grid) /\ Held(k) = {}
  BY <1>2 DEF Train, Held
<1>4. SelectionAdmitted(k) /\ StructureAdmitted(k)
  BY <1>1, <1>2, <1>3 DEF SelectionAdmitted, StructureAdmitted
<1>5. Version(k) \in {5, 6, 9}
  BY DEF Version
<1>6. ASSUME NEW s \in StructuresOf(k, Train(k)) PROVE RulesFound(ClassTemplate(k, s))
  <2>. DEFINE ctas == {b \in Train(k) : Structure(k.recs[b]) = s}
              T == ClassTemplate(k, s)
  <2>1. /\ ctas # {}
        /\ \E fitting \in SUBSET Grid(k.grid), flat \in BOOLEAN :
             /\ ctas \subseteq fitting /\ T = Template(k, ctas, fitting, flat)
             /\ flat => Version(k) \in {1, 11}
    BY <1>4, ClassTemplateIs
  <2>2. PICK fitting \in SUBSET Grid(k.grid), flat \in BOOLEAN :
             /\ ctas \subseteq fitting /\ T = Template(k, ctas, fitting, flat)
             /\ flat => Version(k) \in {1, 11}
    BY <2>1
  <2>3. ~flat
    BY <1>5, <2>2
  <2>4. \A c \in ctas : Structure(k.recs[c]) = s
    OBVIOUS
  <2>. HIDE DEF ctas, T
  <2>. QED BY <2>1, <2>2, <2>3, <2>4, TemplateRuled DEF T
<1>. DEFINE p == Fitted(k)
<1>7. /\ DOMAIN p.classes = StructuresOf(k, Train(k))
      /\ \A s \in DOMAIN p.classes : p.classes[s] = ClassTemplate(k, s)
      /\ \A b \in Grid(k.grid) : p.class_of[b] = ClassOf(k, b)
  BY DEF Fitted
<1>. HIDE DEF p
<1>8. SamplesExact(k, p)
  <2>1. CASE k.fitter = "r15"
    BY <1>3, <2>1 DEF SamplesExact
  <2>2. CASE k.fitter = "sglang"
    <3>1. ASSUME NEW b \in Sampled(k)
          PROVE  InOrder(p.classes[p.class_of[b]], k.grid, b, k.recs[b])
      <4>. DEFINE T == FittedTo(k, b)
                  recs == k.recs[b]
                  s == ClassOf(k, b)
      <4>1. b \in Grid(k.grid) /\ s \in DOMAIN p.classes /\ b \in Train(k)
        BY <1>2, <1>3, <1>4, <1>7, ClassOfSampled
      <4>2. T = p.classes[p.class_of[b]] /\ T = ClassTemplate(k, s)
        BY <1>7, <4>1 DEF FittedTo
      <4>3. RulesFound(T)
        BY <1>6, <1>7, <4>1, <4>2
      <4>4. /\ Slotted(T, recs) /\ Timed(T, b) /\ Recorded(T, b, recs) /\ Predicts(T, k.grid, b, recs)
        BY <1>4, <4>1, <4>3, FittedToIs
      <4>5. recs \in Seq(Instruction) /\ \A n \in DOMAIN recs : recs[n].ts = n - 1
        BY <2>2, <4>1, RecordsTyped, WorkloadsAssumption
      <4>. HIDE DEF T, recs
      <4>6. InOrder(T, k.grid, b, recs)
        BY <4>4, <4>5, PositionsInOrder
      <4>. QED BY <4>2, <4>6 DEF recs
    <3>2. k.fitter # "r15"
      BY <2>2
    <3>. QED BY <3>1, <3>2 DEF SamplesExact, InOrder, Gives
  <2>. QED BY <1>1, <2>1, <2>2
<1>9. \A s \in DOMAIN p.classes : RulesFound(p.classes[s])
  BY <1>6, <1>7
<1>. QED BY <1>2, <1>4, <1>5, <1>8, <1>9 DEF Admitted, p

-----------------------------------------------------------------------------
(* Profiles in normal form, and of other layers.                           *)

(* The flat index of a CTA from its places on the axes.                    *)
LEMMA FlatIndex ==
  ASSUME NEW g \in Sizes, NEW b \in Grid(g)
  PROVE  LET c == Coordinate(g, b)
         IN  b = c[1] + g[1] * c[2] + g[1] * g[2] * c[3]
<1>. DEFINE c == Coordinate(g, b)
            m == g[1]
            n == g[2]
            q == b \div m
<1>1. /\ b \in Nat /\ m \in Nat /\ n \in Nat /\ m > 0 /\ n > 0
      /\ c[1] = b % m /\ c[2] = q % n /\ c[3] = b \div (m * n)
      /\ c[1] \in Nat /\ c[2] \in Nat /\ c[3] \in Nat
  BY CoordinateIs
<1>2. q \in Nat /\ (b % m) + m * q = b
  BY <1>1, DivisionIs
<1>0. q \div n = b \div (m * n)
  <2>. HIDE DEF m, n
  <2>. QED BY <1>1, DivideTwice
<1>. HIDE DEF c, q, m, n
<1>3. (q % n) + n * (q \div n) = q /\ q \div n = b \div (m * n)
  BY <1>0, <1>1, <1>2, DivisionIs
<1>4. c[1] + m * q = b /\ c[2] + n * c[3] = q
  BY <1>1, <1>2, <1>3
<1>. DEFINE x == c[1]
            y == c[2]
            z == c[3]
<1>5. x \in Nat /\ y \in Nat /\ z \in Nat /\ x + m * q = b /\ y + n * z = q
  BY <1>1, <1>4
<1>. HIDE DEF x, y, z
<1>6. m * q = m * y + m * n * z
  <2>1. m * (y + n * z) = m * y + m * n * z
    BY <1>1, <1>5
  <2>. QED BY <1>5, <2>1
<1>7. b = x + m * y + m * n * z
  <2>1. m * y \in Int /\ m * n * z \in Int
    BY <1>1, <1>5
  <2>. QED BY <1>5, <1>6, <2>1
<1>. QED BY <1>7 DEF x, y, z, c, m, n

(* One stride per CTA, written as one per axis, gives the same addresses.  *)
LEMMA NormalizedIs ==
  ASSUME NEW g \in Sizes, NEW r
  PROVE  /\ GridRule(r, g) => Normalized(r, g) = r
         /\ FlatRule(r) =>
              /\ GridRule(Normalized(r, g), g) \/ (FlatRule(Normalized(r, g)) /\ ~(g[2] > 1))
              /\ \A b \in Grid(g) : PredictBase(Normalized(r, g), g, b) = PredictBase(r, g, b)
<1>1. ASSUME GridRule(r, g) PROVE Normalized(r, g) = r
  <2>1. r.kind = "coordinate" => "zs" \in DOMAIN r
    BY <1>1 DEF GridRule, Summed
  <2>. QED BY <2>1 DEF Normalized
<1>2. ASSUME FlatRule(r), g[2] * g[3] > 1
      PROVE  /\ GridRule(Normalized(r, g), g)
             /\ \A b \in Grid(g) : PredictBase(Normalized(r, g), g, b) = PredictBase(r, g, b)
  <2>. DEFINE x == r.xs
              m == g[1]
              n == g[2]
              ys == x * m
              zs == x * m * n
              s == [ys |-> ys, zs |-> zs]
              q == With(r, s)
  <2>1. /\ DOMAIN r = {"kind", "at", "xs"} /\ r.kind = "coordinate" /\ r.at \in Int /\ x \in Int
        /\ m \in Nat /\ n \in Nat
    BY <1>2 DEF FlatRule, Sizes
  <2>2. Normalized(r, g) = q
    BY <1>2, <2>1 DEF Normalized
  <2>. HIDE DEF x, m, n
  <2>3. ys \in Int /\ zs \in Int
    BY <2>1
  <2>. HIDE DEF ys, zs
  <2>4. DOMAIN s = {"ys", "zs"} /\ s.ys = ys /\ s.zs = zs
    OBVIOUS
  <2>. HIDE DEF s
  <2>5. /\ DOMAIN q = {"kind", "at", "xs", "ys", "zs"} /\ q.kind = "coordinate" /\ q.at = r.at
        /\ q.xs = x /\ q.ys = ys /\ q.zs = zs
    <3>1. /\ DOMAIN q = DOMAIN r \cup DOMAIN s
          /\ \A f \in DOMAIN r : q[f] = r[f]
          /\ \A f \in DOMAIN s \ DOMAIN r : q[f] = s[f]
      BY WithIs
    <3>. HIDE DEF q
    <3>2. DOMAIN q = {"kind", "at", "xs", "ys", "zs"}
      BY <2>1, <2>4, <3>1
    <3>3. q.kind = r.kind /\ q.at = r.at /\ q.xs = r.xs
      BY <2>1, <3>1
    <3>4. q.ys = s.ys /\ q.zs = s.zs
      BY <2>1, <2>4, <3>1
    <3>. QED BY <2>1, <2>4, <3>2, <3>3, <3>4 DEF x
  <2>. HIDE DEF q
  <2>6. GridRule(q, g)
    BY <2>1, <2>3, <2>5 DEF GridRule, Summed
  <2>7. ASSUME NEW b \in Grid(g) PROVE PredictBase(q, g, b) = PredictBase(r, g, b)
    <3>. DEFINE c1 == Coordinate(g, b)[1]
                c2 == Coordinate(g, b)[2]
                c3 == Coordinate(g, b)[3]
                O == r.at
    <3>1. c1 \in Nat /\ c2 \in Nat /\ c3 \in Nat /\ b = c1 + m * c2 + m * n * c3 /\ O \in Int
      BY <2>1, CoordinateIs, FlatIndex DEF m, n
    <3>2. HalfStep(q, c3) = 0
      BY <2>5 DEF HalfStep
    <3>3. PredictBase(q, g, b) = O + x * c1 + zs * c3 + HalfStep(q, c3) + ys * c2
      BY <2>5 DEF PredictBase, Coordinated
    <3>4. PredictBase(r, g, b) = O + x * b
      BY <2>1 DEF PredictBase, x
    <3>. HIDE DEF c1, c2, c3, O
    <3>5. x * b = x * c1 + zs * c3 + ys * c2
      <4>1. x * (c1 + m * c2 + m * n * c3) = x * c1 + x * m * n * c3 + x * m * c2
        BY <2>1, <3>1
      <4>. QED BY <3>1, <4>1 DEF ys, zs
    <3>. DEFINE A == x * c1
                B == zs * c3
                C == ys * c2
                D == x * b
    <3>6. A \in Int /\ B \in Int /\ C \in Int /\ D = A + B + C
      BY <2>1, <2>3, <3>1, <3>5
    <3>7. PredictBase(q, g, b) = O + A + B + 0 + C
      BY <3>2, <3>3
    <3>8. PredictBase(r, g, b) = O + D
      BY <3>4
    <3>. HIDE DEF A, B, C, D
    <3>. QED BY <3>1, <3>6, <3>7, <3>8
  <2>. QED BY <2>2, <2>6, <2>7
<1>3. ASSUME FlatRule(r), ~(g[2] * g[3] > 1)
      PROVE  Normalized(r, g) = r /\ ~(g[2] > 1)
  <2>1. Normalized(r, g) = r
    BY <1>3 DEF Normalized
  <2>2. g[2] \in Nat /\ g[3] \in Nat /\ g[3] >= 1
    BY DEF Sizes
  <2>. DEFINE n == g[2]
              e == g[3]
              m == e - 1
  <2>0. n \in Nat /\ e \in Nat /\ e >= 1 /\ g[2] * g[3] = n * e
    BY <2>2
  <2>. HIDE DEF n, e
  <2>3. n \in Nat /\ m \in Nat /\ g[2] * g[3] = n + n * m
    BY <2>0
  <2>. HIDE DEF m
  <2>4. n * m \in Nat
    BY <2>3
  <2>. QED BY <1>3, <2>1, <2>3, <2>4 DEF n
<1>. QED BY <1>1, <1>2, <1>3

(* A template with other rules has the same slots and times.               *)
WithRules(T, rule) == [i \in DOMAIN T |-> [T[i] EXCEPT !.rule = rule[i]]]

LEMMA WithRulesIs ==
  ASSUME NEW T, NEW recs, Slotted(T, recs), NEW rule
  PROVE  LET U == WithRules(T, rule)
         IN  /\ Slotted(U, recs) /\ DOMAIN U = DOMAIN T
             /\ \A b : Recorded(T, b, recs) => Recorded(U, b, recs)
             /\ \A i \in DOMAIN T : U[i].slot = T[i].slot /\ U[i].rule = rule[i]
<1>. DEFINE U == WithRules(T, rule)
<1>1. DOMAIN U = DOMAIN T /\ \A i \in DOMAIN T : U[i] = [T[i] EXCEPT !.rule = rule[i]]
  BY DEF WithRules
<1>2. IsSequence(T) /\ Len(T) \in Nat /\ DOMAIN T = 1 .. Len(T)
  BY DEF Slotted, IsSequence
<1>3. U = [i \in 1 .. Len(T) |-> U[i]]
  BY <1>1, <1>2 DEF WithRules
<1>4. Len(U) = Len(T)
  <2>. HIDE DEF U
  <2>. QED BY <1>2, <1>3, LenIs
<1>. HIDE DEF U
<1>5. ASSUME NEW i \in DOMAIN T
      PROVE  /\ DOMAIN U[i] = Fields /\ U[i].slot = T[i].slot /\ U[i].rule = rule[i]
             /\ U[i].delta = T[i].delta /\ U[i].by_cta = T[i].by_cta
  <2>1. DOMAIN T[i] = {"slot", "rule", "delta", "by_cta"}
    BY DEF Slotted, Fields
  <2>. QED BY <1>1, <2>1 DEF Fields
<1>6. Slotted(U, recs)
  BY <1>1, <1>2, <1>3, <1>4, <1>5 DEF Slotted, IsSequence
<1>7. \A b : Recorded(T, b, recs) => Recorded(U, b, recs)
  BY <1>1, <1>5 DEF Recorded, Delta
<1>. QED BY <1>1, <1>5, <1>6, <1>7 DEF U

(* In normal form they give what they gave, all by a stride per axis.      *)
LEMMA NormalForm ==
  ASSUME NEW g \in Sizes, NEW b \in Grid(g), NEW recs, NEW T, Slotted(T, recs),
         Matches(T, g, b, recs), NEW flat, Ruled(T, g, flat)
  PROVE  LET U == WithRules(T, [i \in DOMAIN T |-> Normalized(T[i].rule, g)])
         IN  /\ Matches(U, g, b, recs)
             /\ Ruled(U, g, flat /\ ~(g[2] > 1))
<1>. DEFINE rule == [i \in DOMAIN T |-> Normalized(T[i].rule, g)]
            U == WithRules(T, rule)
<1>1. \A i \in DOMAIN T : rule[i] = Normalized(T[i].rule, g)
  OBVIOUS
<1>. HIDE DEF rule
<1>2. DOMAIN U = DOMAIN T /\ \A i \in DOMAIN T : U[i].slot = T[i].slot /\ U[i].rule = rule[i]
  BY WithRulesIs
<1>. HIDE DEF U
<1>3. ASSUME NEW i \in DOMAIN T
      PROVE  /\ PredictBase(U[i].rule, g, b) = PredictBase(T[i].rule, g, b)
             /\ GridRule(U[i].rule, g) \/ (flat /\ ~(g[2] > 1) /\ FlatRule(U[i].rule))
  <2>1. GridRule(T[i].rule, g) \/ (flat /\ FlatRule(T[i].rule))
    BY DEF Ruled
  <2>. DEFINE r == T[i].rule
              s == Normalized(r, g)
  <2>2. U[i].rule = s
    BY <1>1, <1>2
  <2>3. GridRule(r, g) \/ (flat /\ FlatRule(r))
    BY <2>1
  <2>. HIDE DEF r
  <2>4. /\ GridRule(r, g) => s = r
        /\ FlatRule(r) => /\ GridRule(s, g) \/ (FlatRule(s) /\ ~(g[2] > 1))
                          /\ PredictBase(s, g, b) = PredictBase(r, g, b)
    BY NormalizedIs
  <2>. HIDE DEF s
  <2>5. /\ PredictBase(s, g, b) = PredictBase(r, g, b)
        /\ GridRule(s, g) \/ (flat /\ ~(g[2] > 1) /\ FlatRule(s))
    BY <2>3, <2>4
  <2>. QED BY <2>2, <2>5 DEF r
<1>4. Matches(U, g, b, recs)
  <2>1. PICK f : /\ OneToOne(f, DOMAIN T, DOMAIN recs)
                 /\ \A i \in DOMAIN T : Gives(T[i], g, b, recs[f[i]])
    BY DEF Matches
  <2>2. \A i \in DOMAIN U : Gives(U[i], g, b, recs[f[i]])
    BY <1>2, <1>3, <2>1 DEF Gives
  <2>. QED BY <1>2, <2>1, <2>2 DEF Matches
<1>5. Ruled(U, g, flat /\ ~(g[2] > 1))
  BY <1>2, <1>3 DEF Ruled
<1>. QED BY <1>4, <1>5 DEF U, rule

(* What the two changes do to the template of a CTA.                       *)
HasClass(p, b) ==
  {"version", "classes", "class_of"} \subseteq DOMAIN p /\ p.class_of[b] \in DOMAIN p.classes

LEMMA NormaliseIs ==
  ASSUME NEW p, NEW b, HasClass(p, b)
  PROVE  LET q == Normalise(p)
             T == p.classes[p.class_of[b]]
         IN  /\ q.version = p.version
             /\ q.classes[q.class_of[b]] = WithRules(T, [i \in DOMAIN T |-> Normalized(T[i].rule, w.grid)])
             /\ HasClass(q, b)
<1>. DEFINE q == Normalise(p)
            s == p.class_of[b]
            T == p.classes[s]
            rule == [i \in DOMAIN T |-> Normalized(T[i].rule, w.grid)]
<1>1. {"version", "classes", "class_of"} \subseteq DOMAIN p /\ s \in DOMAIN p.classes
  BY DEF HasClass
<1>2. /\ DOMAIN q = DOMAIN p /\ q.class_of = p.class_of /\ q.version = p.version
      /\ q.classes = [x \in DOMAIN p.classes |-> [i \in DOMAIN p.classes[x] |->
            [p.classes[x][i] EXCEPT !.rule = Normalized(@, w.grid)]]]
  BY <1>1 DEF Normalise
<1>. HIDE DEF q
<1>3. q.classes[s] = [i \in DOMAIN T |-> [T[i] EXCEPT !.rule = Normalized(T[i].rule, w.grid)]]
  BY <1>1, <1>2
<1>4. \A i \in DOMAIN T : rule[i] = Normalized(T[i].rule, w.grid)
  OBVIOUS
<1>. HIDE DEF T, rule
<1>5. q.classes[s] = WithRules(T, rule)
  BY <1>3, <1>4 DEF WithRules
<1>6. HasClass(q, b)
  BY <1>1, <1>2 DEF HasClass
<1>. QED BY <1>2, <1>5, <1>6 DEF q, rule, T

LEMMA ReboundIs ==
  ASSUME NEW p, NEW b, HasClass(p, b)
  PROVE  LET q == Rebound(p)
             T == p.classes[p.class_of[b]]
         IN  /\ q.version = p.version
             /\ \E rule : q.classes[q.class_of[b]] = WithRules(T, rule)
<1>. DEFINE q == Rebound(p)
            s == p.class_of[b]
            T == p.classes[s]
            rule == [i \in DOMAIN T |-> Translated(T[i].rule, Shift(p, <<s, i>>))]
<1>1. s \in DOMAIN p.classes
  BY DEF HasClass
<1>2. /\ q.class_of = p.class_of /\ q.version = p.version
      /\ q.classes = [x \in DOMAIN p.classes |-> [i \in DOMAIN p.classes[x] |->
            [p.classes[x][i] EXCEPT !.rule = Translated(@, Shift(p, <<x, i>>))]]]
  BY DEF Rebound
<1>. HIDE DEF q
<1>3. q.classes[s] = [i \in DOMAIN T |-> [T[i] EXCEPT !.rule = Translated(T[i].rule, Shift(p, <<s, i>>))]]
  BY <1>1, <1>2
<1>4. \A i \in DOMAIN T : rule[i] = Translated(T[i].rule, Shift(p, <<s, i>>))
  OBVIOUS
<1>. HIDE DEF T, rule
<1>5. q.classes[s] = WithRules(T, rule)
  BY <1>3, <1>4 DEF WithRules
<1>. QED BY <1>2, <1>5 DEF q, T

-----------------------------------------------------------------------------
(* The profile that is expanded.                                           *)

(* The rules are still those of the sampled launch.                        *)
Unmoved == (who = "expanded" /\ phase # "profiled") => w.own

(* Rules of one stride per CTA, which the generator would misread.         *)
Loose == Version(w) = 1 \/ (Version(w) = 11 /\ (who # "expanded" \/ phase = "profiled"))

(* The template of a sampled CTA has its slots; in a complete grid its     *)
(* times, and until the rules are moved its addresses.                     *)
Known(b) ==
  /\ Slotted(TemplateOf(b), w.recs[b])
  /\ Complete(w) => Recorded(TemplateOf(b), b, w.recs[b])
  /\ Unmoved => /\ Matches(TemplateOf(b), w.grid, b, w.recs[b])
                /\ Ruled(TemplateOf(b), w.grid, Loose)

Profiled == phase \in {"profiled", "bound", "merging", "done"}

(* An admitted profile knows what was sampled.                             *)
Faithful ==
  Profiled => /\ Admitted(w) /\ profile.version = Version(w)
              /\ ProfileTimed(profile, Grid(w.grid))
              /\ \A b \in Sampled(w) : Known(b)

LEMMA ProfileKnows == w \in Workloads /\ Profile => Faithful'
<1>. SUFFICES ASSUME w \in Workloads, Profile, Profiled' PROVE Faithful'
  BY DEF Faithful
<1>1. Admitted(w) /\ phase' = "profiled" /\ profile' = ProfileOf(w) /\ w' = w /\ who' = who
  BY DEF Profile, Profiled
<1>2. SelectionAdmitted(w) /\ StructureAdmitted(w)
  BY <1>1 DEF Admitted
<1>3. ProfileTimed(profile, Grid(w.grid))'
  BY <1>1, <1>2, FittedTimed
<1>4. profile'.version = Version(w)
  BY <1>1 DEF ProfileOf, Fitted
<1>5. ASSUME NEW b \in Sampled(w) PROVE Known(b)'
  <2>. DEFINE T == FittedTo(w, b)
  <2>1. b \in Grid(w.grid) /\ ClassOf(w, b) \in StructuresOf(w, Train(w))
    BY <1>2, ClassOfSampled
  <2>2. TemplateOf(b)' = T
    <3>1. /\ profile'.classes = [s \in StructuresOf(w, Train(w)) |-> ClassTemplate(w, s)]
          /\ profile'.class_of = [c \in Grid(w.grid) |-> ClassOf(w, c)]
      BY <1>1 DEF ProfileOf, Fitted
    <3>2. profile'.class_of[b] = ClassOf(w, b)
      BY <2>1, <3>1
    <3>3. profile'.classes[ClassOf(w, b)] = ClassTemplate(w, ClassOf(w, b))
      BY <2>1, <3>1
    <3>. QED BY <3>2, <3>3 DEF TemplateOf, FittedTo
  <2>. HIDE DEF T
  <2>3. Slotted(T, w.recs[b]) /\ (Complete(w) => Recorded(T, b, w.recs[b]))
    BY <1>2, FittedToIs DEF T
  <2>4. Matches(T, w.grid, b, w.recs[b]) /\ Ruled(T, w.grid, Version(w) \in {1, 11})
    BY <1>1, FittedMatches DEF T
  <2>5. Loose' <=> Version(w) \in {1, 11}
    BY <1>1 DEF Loose
  <2>6. Ruled(T, w.grid, Loose')
    BY <2>4, <2>5 DEF Ruled
  <2>. QED BY <1>1, <2>2, <2>3, <2>4, <2>6 DEF Known
<1>. QED BY <1>1, <1>3, <1>4, <1>5 DEF Faithful

LEMMA RebindKnows == w \in Workloads /\ Faithful /\ Rebind => Faithful'
<1>. SUFFICES ASSUME w \in Workloads, Faithful, Rebind, Profiled' PROVE Faithful'
  BY DEF Faithful
<1>. DEFINE normal == Normalise(profile)
<1>1. /\ phase = "profiled" /\ phase' = "bound" /\ who = "expanded" /\ w' = w /\ who' = who
      /\ \/ w.own /\ profile' = normal
         \/ ~w.own /\ profile' = Rebound(normal)
  BY DEF Rebind, Profiled
<1>2. /\ Admitted(w) /\ profile.version = Version(w) /\ ProfileTimed(profile, Grid(w.grid))
      /\ \A b \in Sampled(w) : Known(b)
  BY <1>1 DEF Faithful, Profiled
<1>3. ProfileTimed(profile', Grid(w.grid))
  BY <1>1, <1>2, NormaliseTimed, ReboundTimed
<1>4. Sampled(w) \subseteq Grid(w.grid) /\ w.grid \in Sizes
  BY <1>2, WorkloadsAssumption DEF Admitted, SelectionAdmitted, Sizes
<1>5. 0 \in Grid(w.grid)
  <2>1. w.plan.train # {} /\ w.plan.train \subseteq Grid(w.grid)
    BY WorkloadsAssumption
  <2>2. GridSize(w.grid) \in Int
    <3>1. w.grid[1] \in Int /\ w.grid[2] \in Int /\ w.grid[3] \in Int
      BY <1>4 DEF Sizes
    <3>. QED BY <3>1 DEF GridSize
  <2>. QED BY <2>1, <2>2 DEF Grid
<1>. HIDE DEF normal
<1>6. ASSUME NEW b \in Grid(w.grid)
      PROVE  /\ normal.version = profile.version /\ HasClass(normal, b)
             /\ normal.classes[normal.class_of[b]] =
                  WithRules(TemplateOf(b), [i \in DOMAIN TemplateOf(b) |->
                                              Normalized(TemplateOf(b)[i].rule, w.grid)])
  <2>1. HasClass(profile, b)
    BY <1>2 DEF ProfileTimed, HasClass
  <2>. QED BY <2>1, NormaliseIs DEF normal, TemplateOf
<1>7. profile'.version = Version(w)
  BY <1>1, <1>2, <1>5, <1>6, ReboundIs
<1>8. ASSUME NEW b \in Sampled(w) PROVE Known(b)'
  <2>. DEFINE T == TemplateOf(b)
              recs == w.recs[b]
              rule == [i \in DOMAIN T |-> Normalized(T[i].rule, w.grid)]
              U == WithRules(T, rule)
  <2>1. /\ Slotted(T, recs) /\ (Complete(w) => Recorded(T, b, recs))
        /\ Matches(T, w.grid, b, recs) /\ Ruled(T, w.grid, Loose)
    BY <1>1, <1>2 DEF Known, Unmoved
  <2>2. b \in Grid(w.grid) /\ normal.classes[normal.class_of[b]] = U /\ HasClass(normal, b)
    BY <1>4, <1>6
  <2>3. /\ Slotted(U, recs) /\ (Complete(w) => Recorded(U, b, recs))
    <3>. HIDE DEF T, rule, recs
    <3>. QED BY <2>1, WithRulesIs
  <2>4. Matches(U, w.grid, b, recs) /\ Ruled(U, w.grid, Loose /\ ~(w.grid[2] > 1))
    <3>. DEFINE flat == Loose
    <3>. HIDE DEF T, recs, U, flat
    <3>1. Ruled(T, w.grid, flat)
      BY <2>1 DEF flat
    <3>2. Matches(U, w.grid, b, recs) /\ Ruled(U, w.grid, flat /\ ~(w.grid[2] > 1))
      BY <1>4, <2>1, <2>2, <3>1, NormalForm DEF U, rule
    <3>. QED BY <3>2 DEF flat
  <2>. HIDE DEF U, T
  <2>5. CASE w.own
    <3>1. TemplateOf(b)' = U
      BY <1>1, <2>2, <2>5 DEF TemplateOf
    <3>2. Version(w) = 11 => w.grid[2] > 1
      <4>1. StructureAdmitted(w)
        BY <1>2 DEF Admitted
      <4>2. Version(w) = 11 => ~OneClass(w) /\ ~Complete(w)
        <5>1. w.format = "raw" \/ w.format = "memc"
          BY WorkloadsAssumption
        <5>. QED BY <5>1 DEF Version
      <4>. QED BY <4>1, <4>2 DEF StructureAdmitted
    <3>3. (Loose /\ ~(w.grid[2] > 1)) => Loose'
      BY <1>1, <3>2 DEF Loose
    <3>4. Ruled(U, w.grid, Loose')
      BY <2>4, <3>3 DEF Ruled
    <3>. QED BY <1>1, <2>3, <2>4, <3>1, <3>4 DEF Known
  <2>6. CASE ~w.own
    <3>1. \E x : TemplateOf(b)' = WithRules(U, x)
      BY <1>1, <2>2, <2>6, ReboundIs DEF TemplateOf
    <3>2. PICK x : TemplateOf(b)' = WithRules(U, x)
      BY <3>1
    <3>3. Slotted(WithRules(U, x), recs) /\ (Complete(w) => Recorded(WithRules(U, x), b, recs))
      BY <2>3, WithRulesIs
    <3>4. ~Unmoved'
      BY <1>1, <2>6 DEF Unmoved
    <3>. QED BY <1>1, <3>2, <3>3, <3>4 DEF Known
  <2>. QED BY <2>5, <2>6
<1>. QED BY <1>1, <1>2, <1>3, <1>7, <1>8 DEF Faithful

LEMMA OthersKnow == Faithful /\ (Open \/ Emit \/ Close \/ UNCHANGED vars) => Faithful'
<1>. SUFFICES ASSUME Faithful, Open \/ Emit \/ Close \/ UNCHANGED vars, Profiled' PROVE Faithful'
  BY DEF Faithful
<1>1. /\ w' = w /\ who' = who /\ profile' = profile /\ Profiled
      /\ phase' # "profiled" \/ phase' = phase
      /\ (phase = "profiled" /\ phase' # phase) => who # "expanded"
  BY DEF Open, Emit, Close, vars, Profiled
<1>2. (Unmoved' => Unmoved) /\ (Loose => Loose')
  BY <1>1 DEF Unmoved, Loose
<1>3. ASSUME NEW b, Known(b) PROVE Known(b)'
  <2>1. TemplateOf(b)' = TemplateOf(b)
    BY <1>1 DEF TemplateOf
  <2>2. Ruled(TemplateOf(b), w.grid, Loose) => Ruled(TemplateOf(b), w.grid, Loose')
    BY <1>2 DEF Ruled
  <2>. QED BY <1>1, <1>2, <1>3, <2>1, <2>2 DEF Known
<1>. QED BY <1>1, <1>3 DEF Faithful

(* In every reachable state, until the stream is done, the profile is an   *)
(* admitted one whose template for a sampled CTA pairs one to one with the *)
(* CTA's instructions: normalize_backend_rules changes no address, and     *)
(* binding a layer no slot and no time.                                    *)
THEOREM Faithfulness == Spec => []Faithful
<1>1. Init => Faithful
  BY DEF Init, Faithful, Profiled
<1>2. IInv /\ Faithful /\ [Next]_vars => Faithful'
  BY ProfileKnows, RebindKnows, OthersKnow DEF Next, IInv, Prepared
<1>. QED BY Invariance, <1>1, <1>2, PTL DEF Spec

-----------------------------------------------------------------------------
(* Refusals.                                                               *)

(* A single template without instructions is that of a kernel without any. *)
LEMMA NoneEmpty ==
  ASSUME w \in Workloads, Faithful, Profiled, Complete(w), w.format = "memc",
         ~Structural(profile), NEW b \in Grid(w.grid), TemplateOf(b) = << >>
  PROVE  w.fitter = "r15" /\ \A c \in Grid(w.grid) : w.recs[c] = << >>
<1>1. /\ Admitted(w) /\ profile.version = Version(w) /\ \A c \in Sampled(w) : Known(c)
      /\ Version(w) \in {5, 6, 9} /\ Sampled(w) = Grid(w.grid)
  BY CompleteIsAdmitted DEF Faithful
<1>2. OneClass(w)
  BY <1>1 DEF Structural, Version
<1>3. SelectionAdmitted(w) /\ StructureAdmitted(w)
  BY <1>1 DEF Admitted
<1>4. Structure(w.recs[b]) = {}
  <2>1. Len(w.recs[b]) = 0 /\ w.recs[b] \in Seq(Instruction)
    BY <1>1, RecordsTyped DEF Known, Slotted
  <2>2. DOMAIN w.recs[b] = {}
    BY <2>1
  <2>. QED BY <2>2 DEF Structure
<1>5. ASSUME NEW c \in Grid(w.grid) PROVE Structure(w.recs[c]) = {}
  <2>1. Structure(w.recs[c]) = ClassOf(w, c) /\ Structure(w.recs[b]) = ClassOf(w, b)
    BY <1>1, <1>3, ClassOfSampled
  <2>2. ClassOf(w, c) = ClassOf(w, b)
    BY <1>2 DEF ClassOf
  <2>. QED BY <1>4, <2>1, <2>2
<1>6. ASSUME NEW c \in Grid(w.grid) PROVE w.recs[c] = << >>
  <2>1. w.recs[c] \in Seq(Instruction) /\ DOMAIN w.recs[c] = {}
    BY <1>5, RecordsTyped DEF Structure
  <2>. DEFINE recs == w.recs[c]
              n == Len(recs)
  <2>. HIDE DEF recs
  <2>2. recs \in Seq(Instruction) /\ DOMAIN recs = {}
    BY <2>1 DEF recs
  <2>3. n \in Nat /\ DOMAIN recs = 1 .. n
    BY <2>2
  <2>4. n = 0
    <3>. HIDE DEF n
    <3>1. 1 .. n = {}
      BY <2>2, <2>3
    <3>2. n >= 1 => 1 \in 1 .. n
      BY <2>3
    <3>. QED BY <2>3, <3>1, <3>2
  <2>5. recs = << >>
    BY <2>2, <2>4
  <2>. QED BY <2>5 DEF recs
<1>7. w.fitter # "sglang"
  <2>1. {} \in StructuresOf(w, Sampled(w))
    BY <1>1, <1>4 DEF StructuresOf
  <2>. QED BY <1>2, <2>1 DEF OneClass
<1>8. w.fitter \in {"r15", "sglang"}
  BY WorkloadsAssumption
<1>. QED BY <1>6, <1>7, <1>8

LEMMA RefusalsRight ==
  ASSUME w \in Workloads, Faithful, ProfileTimed(profile, Grid(w.grid)) \/ ~Profiled,
         CompleteGridAdmitted, [Next]_vars
  PROVE  CompleteGridAdmitted'
<1>. SUFFICES ASSUME (phase = "refused")', Complete(w)', (w.format = "memc")'
              PROVE  (\/ who = "text" /\ w.fitter = "sglang"
                      \/ w.fitter = "r15" /\ \A b \in Grid(w.grid) : w.recs[b] = << >>
                      \/ profile # NoProfile /\ who = "expanded" /\ ~w.own)'
  BY DEF CompleteGridAdmitted
<1>1. w' = w /\ who' = who /\ Complete(w) /\ w.format = "memc" /\ phase' = "refused"
  BY DEF Next, Profile, Rebind, Open, Emit, Close, vars
<1>2. Admitted(w) /\ Version(w) \in {5, 6, 9}
  BY <1>1, CompleteIsAdmitted
<1>3. ~Profile
  BY <1>1, <1>2 DEF Profile
<1>4. CASE Rebind
  <2>1. phase = "profiled" /\ who = "expanded" /\ ~w.own /\ profile' = profile
    BY <1>1, <1>4 DEF Rebind
  <2>2. "classes" \in DOMAIN profile
    BY <2>1 DEF Faithful, Profiled, ProfileTimed
  <2>3. "classes" \notin DOMAIN NoProfile
    BY DEF NoProfile
  <2>4. profile # NoProfile
    BY <2>2, <2>3
  <2>. QED BY <1>1, <2>1, <2>4
<1>5. CASE Open
  <2>1. phase \in {"profiled", "bound"} /\ ~Readable
    BY <1>1, <1>5 DEF Open
  <2>2. Profiled /\ profile.version = Version(w)
    BY <2>1 DEF Profiled, Faithful
  <2>3. Version(w) >= 4
    BY <1>2
  <2>4. \/ who = "text" /\ w.fitter # "r15"
        \/ ~Structural(profile) /\ \E b \in Grid(w.grid) : TemplateOf(b) = << >>
    BY <2>1, <2>2, <2>3 DEF Readable
  <2>5. w.fitter \in {"r15", "sglang"}
    BY WorkloadsAssumption
  <2>. QED BY <1>1, <2>2, <2>4, <2>5, NoneEmpty
<1>6. CASE UNCHANGED vars
  <2>1. phase = "refused" /\ profile' = profile
    BY <1>1, <1>6 DEF vars
  <2>. QED BY <1>1, <2>1 DEF CompleteGridAdmitted
<1>7. ~Emit /\ ~Close
  BY <1>1 DEF Emit, Close
<1>. QED BY <1>3, <1>4, <1>5, <1>6, <1>7 DEF Next

(* A complete capture is refused for the three named reasons only: every   *)
(* CTA finds its class, every address a rule or a table, every sample its  *)
(* place, in r15's fits as in sglang's.                                    *)
THEOREM CompleteAdmitted == Spec => []CompleteGridAdmitted
<1>1. Init => CompleteGridAdmitted
  BY DEF Init, CompleteGridAdmitted
<1>2. IInv /\ Faithful /\ CompleteGridAdmitted /\ [Next]_vars => CompleteGridAdmitted'
  BY RefusalsRight DEF IInv, Prepared, Faithful, Profiled
<1>. QED BY Invariance, Faithfulness, <1>1, <1>2, PTL DEF Spec

-----------------------------------------------------------------------------
(* The merge gives every CTA its template, once.                           *)

(* An emitted instruction is the n-th of its CTA.                          *)
Emits(o, n) ==
  /\ o.cta \in Grid(w.grid) /\ n \in 1 .. Len(TemplateOf(o.cta)) /\ o = Emission(o.cta, n)
  /\ BaseOf(EntryAt(o.cta, n), o.cta) # Refused /\ ~Overflows(EntryAt(o.cta, n), o.cta)

(* No instruction is emitted twice, each before its CTA's cursor; and what *)
(* is not emitted is not before the cursor.                                *)
Placed(pos) ==
  /\ \A i \in 1 .. Len(out) : Emits(out[i], pos[i])
  /\ \A i, j \in 1 .. Len(out) : out[i].cta = out[j].cta /\ pos[i] = pos[j] => i = j
  /\ \A i \in 1 .. Len(out) : \A c \in heap : out[i].cta = c[3] => pos[i] < c[4]
  /\ \A b \in Grid(w.grid) : \A n \in 1 .. Len(TemplateOf(b)) :
       \/ \E i \in 1 .. Len(out) : out[i].cta = b /\ pos[i] = n
       \/ \E c \in heap : c[3] = b /\ c[4] =< n

(* A finished merge has left nothing behind.                               *)
Traced ==
  /\ phase \in {"merging", "done"} => IsSequence(out) /\ \E pos : Placed(pos)
  /\ phase = "done" => heap = {}
  /\ phase \in {"merging", "done"} /\ Native => profile.version >= 4

LEMMA OpenTraces == IInv /\ Open => Traced'
<1>. SUFFICES ASSUME IInv, Open, (phase \in {"merging", "done"})' PROVE Traced'
  BY DEF Traced
<1>1. /\ w' = w /\ profile' = profile /\ who' = who /\ out' = out /\ out = << >>
      /\ w \in Workloads /\ ProfileTimed(profile, Grid(w.grid))
      /\ phase' = "merging"
      /\ heap' = {Cursor(b, 1) : b \in {c \in Grid(w.grid) : TemplateOf(c) # << >>}}
  BY DEF IInv, Prepared, Open
<1>2. Len(out) = 0 /\ IsSequence(out)
  BY <1>1, EmptyStream
<1>3. \A i \in 1 .. Len(out') : FALSE
  BY <1>1, <1>2
<1>4. ASSUME NEW b \in Grid(w.grid), NEW n \in 1 .. Len(TemplateOf(b))
      PROVE  \E c \in heap' : c[3] = b /\ c[4] =< n
  <2>1. Timed(TemplateOf(b), b)
    BY <1>1 DEF ProfileTimed, TemplateOf
  <2>2. Len(TemplateOf(b)) \in Nat
    BY <2>1 DEF Timed, IsSequence
  <2>3. TemplateOf(b) # << >> /\ 1 =< n
    <3>1. TemplateOf(b) = << >> => Len(TemplateOf(b)) = 0
      OBVIOUS
    <3>. QED BY <2>2, <3>1
  <2>4. Cursor(b, 1) \in heap'
    BY <1>1, <2>3
  <2>5. Cursor(b, 1)[3] = b /\ Cursor(b, 1)[4] = 1
    BY DEF Cursor
  <2>. QED BY <2>3, <2>4, <2>5
<1>5. \A b : TemplateOf(b)' = TemplateOf(b)
  BY <1>1 DEF TemplateOf
<1>6. \A pos : Placed(pos)'
  BY <1>1, <1>3, <1>4, <1>5 DEF Placed
<1>7. Native' => profile'.version >= 4
  BY <1>1 DEF Open, Readable, Native
<1>. QED BY <1>1, <1>2, <1>6, <1>7 DEF Traced

LEMMA EmitTraces == IInv /\ Traced /\ Emit => Traced'
<1>. SUFFICES ASSUME IInv, Traced, Emit, (phase \in {"merging", "done"})' PROVE Traced'
  BY DEF Traced
<1>1. /\ phase = "merging" /\ w' = w /\ profile' = profile /\ who' = who
      /\ w \in Workloads /\ ProfileTimed(profile, Grid(w.grid)) /\ CursorsKept
      /\ phase' = "merging"
  BY DEF IInv, Prepared, Emit
<1>2. PICK b, n : Pops(b, n)
  BY <1>1, EmitPops
<1>3. IsSequence(out) /\ \E pos : Placed(pos)
  BY <1>1 DEF Traced
<1>4. PICK pos : Placed(pos)
  BY <1>3
<1>. DEFINE N == Len(out)
            o == Emission(b, n)
<1>5. /\ b \in Grid(w.grid) /\ n \in 1 .. Len(TemplateOf(b))
      /\ Top \in heap /\ Top = Cursor(b, n) /\ out' = Append(out, o) /\ o.cta = b
      /\ BaseOf(EntryAt(b, n), b) # Refused /\ ~Overflows(EntryAt(b, n), b)
  BY <1>2 DEF Pops, Emission
<1>6. n \in Nat /\ Top[3] = b /\ Top[4] = n
  BY <1>1, <1>5, CursorTimes DEF Cursor
<1>7. Emits(o, n)
  BY <1>5 DEF Emits
<1>. HIDE DEF o
<1>8. /\ N \in Nat /\ IsSequence(out') /\ Len(out') = N + 1 /\ out'[N + 1] = o
      /\ \A i \in 1 .. N : out'[i] = out[i]
  BY <1>3, <1>5, AppendOf DEF IsSequence
<1>9. PICK q : q = [i \in 1 .. N + 1 |-> IF i = N + 1 THEN n ELSE pos[i]]
  OBVIOUS
<1>. HIDE DEF N
<1>10. \A i \in 1 .. N + 1 : \/ i \in 1 .. N /\ out'[i] = out[i] /\ q[i] = pos[i]
                             \/ i = N + 1 /\ out'[i] = o /\ q[i] = n
  <2>1. ASSUME NEW i \in 1 .. N + 1 PROVE i \in 1 .. N \/ i = N + 1
    BY <1>8
  <2>2. ASSUME NEW i \in 1 .. N PROVE i \in 1 .. N + 1 /\ i # N + 1
    BY <1>8
  <2>3. N + 1 \in 1 .. N + 1
    BY <1>8
  <2>. QED BY <1>8, <1>9, <2>1, <2>2, <2>3
<1>11. \A i \in 1 .. N : i \in 1 .. N + 1 /\ out'[i] = out[i] /\ q[i] = pos[i]
  <2>1. ASSUME NEW i \in 1 .. N PROVE i \in 1 .. N + 1 /\ i # N + 1
    BY <1>8
  <2>. QED BY <1>8, <1>9, <2>1
<1>12. N + 1 \in 1 .. N + 1 /\ q[N + 1] = n
  BY <1>8, <1>9
<1>13. /\ \A x, m : Emits(x, m)' <=> Emits(x, m)
       /\ \A c : TemplateOf(c)' = TemplateOf(c)
  BY <1>1 DEF Emits, TemplateOf, Emission, EntryAt, BaseOf, TimeAt, Native, Overflows
<1>14. /\ \A i \in 1 .. N : Emits(out[i], pos[i])
       /\ \A i, j \in 1 .. N : out[i].cta = out[j].cta /\ pos[i] = pos[j] => i = j
       /\ \A i \in 1 .. N : \A c \in heap : out[i].cta = c[3] => pos[i] < c[4]
       /\ \A c \in Grid(w.grid) : \A m \in 1 .. Len(TemplateOf(c)) :
            \/ \E i \in 1 .. N : out[i].cta = c /\ pos[i] = m
            \/ \E d \in heap : d[3] = c /\ d[4] =< m
  BY <1>4 DEF Placed, N
<1>15. ASSUME NEW i \in 1 .. N PROVE out[i].cta = b => pos[i] < n /\ pos[i] \in Nat
  <2>1. out[i].cta = b => pos[i] < n
    BY <1>5, <1>6, <1>14
  <2>2. out[i].cta = b => pos[i] \in 1 .. Len(TemplateOf(b))
    BY <1>14 DEF Emits
  <2>. QED BY <2>1, <2>2
<1>16. \A i \in 1 .. N + 1 : Emits(out'[i], q[i])
  BY <1>7, <1>10, <1>14
<1>17. ASSUME NEW i \in 1 .. N + 1, NEW j \in 1 .. N + 1, out'[i].cta = out'[j].cta, q[i] = q[j]
       PROVE  i = j
  <2>1. \A m \in 1 .. N : ~(out[m].cta = b /\ pos[m] = n)
    BY <1>6, <1>15
  <2>2. CASE i \in 1 .. N /\ j \in 1 .. N
    BY <1>11, <1>14, <1>17, <2>2
  <2>3. CASE i \in 1 .. N /\ j = N + 1
    <3>1. out[i].cta = b /\ pos[i] = n
      BY <1>5, <1>8, <1>11, <1>12, <1>17, <2>3
    <3>. QED BY <2>1, <2>3, <3>1
  <2>4. CASE i = N + 1 /\ j \in 1 .. N
    <3>1. out[j].cta = b /\ pos[j] = n
      BY <1>5, <1>8, <1>11, <1>12, <1>17, <2>4
    <3>. QED BY <2>1, <2>4, <3>1
  <2>. QED BY <1>10, <2>2, <2>3, <2>4
<1>18. ASSUME NEW i \in 1 .. N + 1, NEW c \in heap', out'[i].cta = c[3] PROVE q[i] < c[4]
  <2>1. \/ c \in heap \ {Top} /\ c[3] # b
        \/ c[3] = b /\ c[4] = n + 1
    BY <1>2 DEF Pops
  <2>2. CASE c \in heap \ {Top} /\ c[3] # b
    BY <1>5, <1>10, <1>14, <1>18, <2>2
  <2>3. CASE c[3] = b /\ c[4] = n + 1
    <3>1. CASE i \in 1 .. N /\ out'[i] = out[i] /\ q[i] = pos[i]
      BY <1>6, <1>15, <1>18, <2>3, <3>1
    <3>2. CASE q[i] = n
      BY <1>6, <2>3, <3>2
    <3>. QED BY <1>10, <3>1, <3>2
  <2>. QED BY <2>1, <2>2, <2>3
<1>19. ASSUME NEW c \in Grid(w.grid), NEW m \in 1 .. Len(TemplateOf(c))
       PROVE  \/ \E i \in 1 .. N + 1 : out'[i].cta = c /\ q[i] = m
              \/ \E d \in heap' : d[3] = c /\ d[4] =< m
  <2>1. CASE \E i \in 1 .. N : out[i].cta = c /\ pos[i] = m
    BY <1>11, <2>1
  <2>2. CASE \E d \in heap \ {Top} : d[3] = c /\ d[4] =< m
    BY <1>2, <2>2 DEF Pops
  <2>3. CASE c = b /\ n = m
    BY <1>5, <1>8, <1>12, <2>3
  <2>4. CASE c = b /\ n =< m /\ n # m
    <3>1. m \in Nat /\ n < Len(TemplateOf(b)) /\ n + 1 =< m
      <4>1. Timed(TemplateOf(b), b)
        BY <1>1, <1>5 DEF ProfileTimed, TemplateOf
      <4>2. Len(TemplateOf(b)) \in Nat
        BY <4>1 DEF Timed, IsSequence
      <4>. QED BY <1>6, <2>4, <4>2
    <3>2. Cursor(b, n + 1) \in heap'
      BY <1>2, <3>1 DEF Pops
    <3>3. Cursor(b, n + 1)[3] = b /\ Cursor(b, n + 1)[4] = n + 1
      BY DEF Cursor
    <3>. QED BY <2>4, <3>1, <3>2, <3>3
  <2>5. \/ \E i \in 1 .. N : out[i].cta = c /\ pos[i] = m
        \/ \E d \in heap : d[3] = c /\ d[4] =< m
    BY <1>14
  <2>. QED BY <1>6, <2>1, <2>2, <2>3, <2>4, <2>5
<1>20. Placed(q)'
  BY <1>1, <1>8, <1>13, <1>16, <1>17, <1>18, <1>19, SMTT(30) DEF Placed
<1>21. Native' => profile'.version >= 4
  BY <1>1 DEF Traced, Native
<1>. QED BY <1>1, <1>8, <1>20, <1>21 DEF Traced

LEMMA CloseTraces == Traced /\ (Close \/ UNCHANGED vars) => Traced'
<1>. SUFFICES ASSUME Traced, Close \/ UNCHANGED vars PROVE Traced'
  OBVIOUS
<1>1. /\ w' = w /\ profile' = profile /\ who' = who /\ out' = out /\ heap' = heap
      /\ phase' \in {"merging", "done"} => phase \in {"merging", "done"}
      /\ phase' = "done" => heap = {}
  BY DEF Close, vars, Traced
<1>2. \A pos : Placed(pos) => Placed(pos)'
  <2>1. /\ \A x, m : Emits(x, m)' <=> Emits(x, m)
        /\ \A c : TemplateOf(c)' = TemplateOf(c)
    BY <1>1 DEF Emits, TemplateOf, Emission, EntryAt, BaseOf, TimeAt, Native, Overflows
  <2>. QED BY <1>1, <2>1 DEF Placed
<1>. QED BY <1>1, <1>2 DEF Traced, Native

(* KernelGenerator's merge emits every entry of every CTA's template once, *)
(* in the template's places: none is lost at a pop, none is pushed twice.  *)
THEOREM Tracing == Spec => []Traced
<1>1. Init => Traced
  BY DEF Init, Traced
<1>2. IInv /\ Traced /\ [Next]_vars => Traced'
  <2>1. Profile \/ Rebind => Traced'
    BY DEF Profile, Rebind, Traced
  <2>. QED BY <2>1, OpenTraces, EmitTraces, CloseTraces DEF Next
<1>. QED BY Invariance, <1>1, <1>2, PTL DEF Spec

-----------------------------------------------------------------------------
(* Regeneration.                                                           *)

(* An address that is given is the predicted one.                          *)
LEMMA BaseIs ==
  ASSUME w \in Workloads, NEW b \in Grid(w.grid), NEW e, BaseOf(e, b) # Refused,
         Native => GridRule(e.rule, w.grid)
  PROVE  BaseOf(e, b) = PredictBase(e.rule, w.grid, b)
<1>1. w.grid \in Sizes
  BY WorkloadsAssumption DEF Sizes
<1>2. CASE Native
  <2>. DEFINE r == e.rule
              g == w.grid
              A == AddressBase(ParseRule(r), g, b, MaxAddress)
  <2>1. BaseOf(e, b) = A /\ GridRule(r, g)
    BY <1>2 DEF BaseOf
  <2>. HIDE DEF r, g
  <2>2. A \in {Refused, PredictBase(r, g, b)}
    BY <1>1, <2>1, CppAgrees DEF g
  <2>. HIDE DEF A
  <2>. QED BY <2>1, <2>2 DEF r, g
<1>3. CASE ~Native
  BY <1>3 DEF BaseOf
<1>. QED BY <1>2, <1>3

(* When the merge is done, the instructions of a sampled CTA have been     *)
(* emitted: as often as they were executed, and no others.                 *)
LEMMA Regenerates ==
  ASSUME w \in Workloads, Faithful, Traced, phase = "done", Unmoved, Native => ~Loose,
         NEW b \in Sampled(w), NEW sig, NEW base
  PROVE  Emitted(b, sig, base) = Executed(b, sig, base)
<1>. DEFINE T == TemplateOf(b)
            recs == w.recs[b]
            g == w.grid
            own == Native \/ Structural(profile)
            E == {i \in DOMAIN out : out[i].cta = b /\ out[i].slot[1] = sig /\ out[i].base = base}
            X == {m \in DOMAIN recs : recs[m].sig = sig /\ recs[m].base = base}
<1>1. /\ Admitted(w) /\ ProfileTimed(profile, Grid(g)) /\ Known(b)
      /\ IsSequence(out) /\ heap = {} /\ \E pos : Placed(pos)
  BY DEF Faithful, Profiled, Traced
<1>2. PICK pos : Placed(pos)
  BY <1>1
<1>3. b \in Grid(g)
  BY <1>1 DEF Admitted, SelectionAdmitted
<1>4. Timed(T, b) /\ Matches(T, g, b, recs) /\ Ruled(T, g, Loose)
  BY <1>1, <1>3 DEF ProfileTimed, TemplateOf, Known
<1>5. PICK f : /\ OneToOne(f, DOMAIN T, DOMAIN recs)
               /\ \A i \in DOMAIN T : Gives(T[i], g, b, recs[f[i]])
  BY <1>4 DEF Matches
<1>6. DOMAIN out = 1 .. Len(out)
  BY <1>1 DEF IsSequence
<1>. DEFINE at(n) == NthIndex(T, b, own, n)
<1>7. \A n : EntryAt(b, n) = Nth(T, b, own, n)
  BY DEF EntryAt
<1>. HIDE DEF own, T
<1>8. ASSUME NEW n \in 1 .. Len(T)
      PROVE  /\ at(n) \in DOMAIN T /\ EntryAt(b, n) = T[at(n)]
             /\ Cardinality(Below(T, b, own, at(n))) = n - 1
  BY <1>4, <1>7, NthIs
<1>9. Len(T) \in Nat
  BY <1>4 DEF Timed, IsSequence
<1>10. \A n, m \in 1 .. Len(T) : at(n) = at(m) => n = m
  <2>1. ASSUME NEW n \in 1 .. Len(T), NEW m \in 1 .. Len(T), at(n) = at(m) PROVE n = m
    <3>1. n - 1 = m - 1
      BY <1>8, <2>1
    <3>. QED BY <1>9, <3>1
  <2>. QED BY <2>1
<1>11. \A i \in DOMAIN T : \E n \in 1 .. Len(T) : at(n) = i
  <2>1. Covered(T, b, own)
    BY <1>4, NthCovers
  <2>. QED BY <2>1 DEF Covered
<1>. HIDE DEF at
<1>12. ASSUME NEW i \in DOMAIN out, out[i].cta = b
       PROVE  /\ pos[i] \in 1 .. Len(T) /\ at(pos[i]) \in DOMAIN T
              /\ f[at(pos[i])] \in DOMAIN recs
              /\ out[i].slot[1] = recs[f[at(pos[i])]].sig
              /\ out[i].base = recs[f[at(pos[i])]].base
  <2>. DEFINE n == pos[i]
              e == EntryAt(b, n)
  <2>1. n \in 1 .. Len(T) /\ out[i] = Emission(b, n) /\ BaseOf(e, b) # Refused
    BY <1>2, <1>6, <1>12 DEF Placed, Emits, T
  <2>2. out[i].slot = e.slot /\ out[i].base = BaseOf(e, b)
    BY <2>1 DEF Emission
  <2>3. at(n) \in DOMAIN T /\ e = T[at(n)]
    BY <1>8, <2>1
  <2>4. Native => GridRule(e.rule, g)
    BY <1>4, <2>3 DEF Ruled
  <2>. HIDE DEF n, e
  <2>5. BaseOf(e, b) = PredictBase(e.rule, g, b)
    BY <1>3, <2>1, <2>4, BaseIs
  <2>6. Gives(e, g, b, recs[f[at(n)]]) /\ f[at(n)] \in DOMAIN recs
    BY <1>5, <2>3 DEF OneToOne
  <2>7. e.slot[1] = recs[f[at(n)]].sig /\ PredictBase(e.rule, g, b) = recs[f[at(n)]].base
    BY <2>6 DEF Gives
  <2>. QED BY <2>1, <2>2, <2>3, <2>5, <2>6, <2>7 DEF n
<1>. HIDE DEF recs, g
<1>13. ASSUME NEW m \in DOMAIN recs
       PROVE  \E i \in DOMAIN out : out[i].cta = b /\ f[at(pos[i])] = m
  <2>1. PICK j \in DOMAIN T : f[j] = m
    BY <1>5 DEF OneToOne
  <2>2. PICK n \in 1 .. Len(T) : at(n) = j
    BY <1>11
  <2>3. PICK i \in 1 .. Len(out) : out[i].cta = b /\ pos[i] = n
    BY <1>1, <1>2, <1>3 DEF Placed, T, g
  <2>. QED BY <1>6, <2>1, <2>2, <2>3
<1>. DEFINE h == [i \in E |-> f[at(pos[i])]]
<1>14. \A i \in E : i \in DOMAIN out /\ out[i].cta = b /\ h[i] = f[at(pos[i])] /\ h[i] \in X
  BY <1>12
<1>15. h \in [E -> X]
  BY <1>14
<1>16. ASSUME NEW m \in X PROVE \E i \in E : h[i] = m
  <2>1. PICK i \in DOMAIN out : out[i].cta = b /\ f[at(pos[i])] = m
    BY <1>13
  <2>2. i \in E
    BY <1>12, <2>1
  <2>. QED BY <2>1, <2>2
<1>. HIDE DEF E, X, h
<1>17. ASSUME NEW i \in E, NEW j \in E, h[i] = h[j] PROVE i = j
  <2>1. /\ i \in 1 .. Len(out) /\ j \in 1 .. Len(out) /\ out[i].cta = b /\ out[j].cta = b
        /\ f[at(pos[i])] = f[at(pos[j])]
    BY <1>6, <1>14, <1>17
  <2>2. /\ at(pos[i]) \in DOMAIN T /\ at(pos[j]) \in DOMAIN T
        /\ pos[i] \in 1 .. Len(T) /\ pos[j] \in 1 .. Len(T)
    BY <1>6, <1>12, <2>1
  <2>3. at(pos[i]) = at(pos[j])
    BY <1>5, <2>1, <2>2 DEF OneToOne
  <2>4. pos[i] = pos[j]
    BY <1>10, <2>2, <2>3
  <2>. QED BY <1>2, <2>1, <2>4 DEF Placed
<1>18. IsFiniteSet(E)
  <2>1. E \subseteq 1 .. Len(out) /\ Len(out) \in Nat
    BY <1>1, <1>6 DEF E, IsSequence
  <2>2. IsFiniteSet(1 .. Len(out))
    BY <2>1, FS_Interval
  <2>. QED BY <2>1, <2>2, FS_Subset
<1>19. Cardinality(X) = Cardinality(E)
  BY <1>15, <1>16, <1>17, <1>18, SameSize
<1>20. Emitted(b, sig, base) = Cardinality(E) /\ Executed(b, sig, base) = Cardinality(X)
  BY DEF Emitted, Executed, E, X, recs
<1>. QED BY <1>19, <1>20

(* A sampled CTA that is expanded, in the rules of its own launch and      *)
(* without a stride that the generator takes for another, executes what    *)
(* was sampled.                                                            *)
SampledRegenerated ==
  phase = "done" /\ (who = "expanded" => w.own) /\ (who = "stream" => Version(w) # 11) =>
    \A b \in Sampled(w) :
      /\ \A i \in DOMAIN w.recs[b] :
           LET r == w.recs[b][i] IN Emitted(b, r.sig, r.base) = Executed(b, r.sig, r.base)
      /\ \A i \in DOMAIN out : out[i].cta = b => Executed(b, out[i].slot[1], out[i].base) > 0

LEMMA NotLoose ==
  ASSUME w \in Workloads, who \in {"stream", "expanded", "text"}, Faithful, Traced, phase = "done",
         who = "stream" => Version(w) # 11
  PROVE  Native => ~Loose
<1>1. Native => Version(w) >= 4
  BY DEF Traced, Faithful, Profiled
<1>. QED BY <1>1 DEF Loose, Native

LEMMA SomeExecuted ==
  ASSUME IsSequence(out), NEW i \in DOMAIN out, NEW b, out[i].cta = b,
         Emitted(b, out[i].slot[1], out[i].base) = Executed(b, out[i].slot[1], out[i].base)
  PROVE  Executed(b, out[i].slot[1], out[i].base) > 0
<1>. DEFINE E == {j \in DOMAIN out : /\ out[j].cta = b /\ out[j].slot[1] = out[i].slot[1]
                                     /\ out[j].base = out[i].base}
<1>1. i \in E /\ E \subseteq 1 .. Len(out) /\ Len(out) \in Nat
  BY DEF IsSequence
<1>2. Emitted(b, out[i].slot[1], out[i].base) = Cardinality(E)
  BY DEF Emitted
<1>. HIDE DEF E
<1>3. IsFiniteSet(E)
  <2>1. IsFiniteSet(1 .. Len(out))
    BY <1>1, FS_Interval
  <2>. QED BY <1>1, <2>1, FS_Subset
<1>4. Cardinality(E) \in Nat /\ Cardinality(E) # 0
  BY <1>1, <1>3, FS_EmptySet, FS_CardinalityType
<1>. QED BY <1>2, <1>4

LEMMA SampledExact ==
  ASSUME w \in Workloads, who \in {"stream", "expanded", "text"}, Faithful, Traced
  PROVE  SampledRegenerated
<1>. SUFFICES ASSUME phase = "done", who = "expanded" => w.own, who = "stream" => Version(w) # 11,
                     NEW b \in Sampled(w)
              PROVE  /\ \A i \in DOMAIN w.recs[b] :
                          LET r == w.recs[b][i] IN Emitted(b, r.sig, r.base) = Executed(b, r.sig, r.base)
                     /\ \A i \in DOMAIN out : out[i].cta = b =>
                          Executed(b, out[i].slot[1], out[i].base) > 0
  BY DEF SampledRegenerated
<1>1. Unmoved /\ (Native => ~Loose) /\ IsSequence(out)
  BY NotLoose DEF Unmoved, Traced
<1>2. \A sig, base : Emitted(b, sig, base) = Executed(b, sig, base)
  BY <1>1, Regenerates
<1>. QED BY <1>1, <1>2, SomeExecuted

(* A generator that comes to its end executes for every sampled CTA just   *)
(* the instructions and addresses that were sampled, as often as they were;*)
(* rules of one stride per CTA only after normalize_backend_rules.         *)
THEOREM SamplesRegenerated == Spec => []SampledRegenerated
<1>1. IInv /\ Faithful /\ Traced => SampledRegenerated
  <2>. SUFFICES ASSUME IInv, Faithful, Traced PROVE SampledRegenerated
    OBVIOUS
  <2>1. w \in Workloads /\ who \in w.by
    BY DEF IInv, Prepared
  <2>2. who \in {"stream", "expanded", "text"}
    BY <2>1, WorkloadsAssumption
  <2>. QED BY <2>1, <2>2, SampledExact
<1>. QED BY Invariance, Faithfulness, Tracing, <1>1, PTL

(* The times of a complete grid.                                           *)
LEMMA TimesExact ==
  ASSUME w \in Workloads, Faithful, Traced, phase = "done", Complete(w), NEW i \in DOMAIN out
  PROVE  LET recs == w.recs[out[i].cta]
         IN  out[i].time - w.place[out[i].cta].start = RecordAt(recs, out[i].slot).ts - StartTime(recs)
<1>. DEFINE b == out[i].cta
            recs == w.recs[b]
            T == TemplateOf(b)
            own == Native \/ Structural(profile)
<1>1. /\ Admitted(w) /\ ProfileTimed(profile, Grid(w.grid)) /\ \A c \in Sampled(w) : Known(c)
      /\ IsSequence(out) /\ \E pos : Placed(pos)
  BY DEF Faithful, Profiled, Traced
<1>2. PICK pos : Placed(pos)
  BY <1>1
<1>3. DOMAIN out = 1 .. Len(out)
  BY <1>1 DEF IsSequence
<1>. DEFINE n == pos[i]
            e == EntryAt(b, n)
<1>4. b \in Grid(w.grid) /\ n \in 1 .. Len(T) /\ out[i] = Emission(b, n) /\ ~Overflows(e, b)
  BY <1>2, <1>3 DEF Placed, Emits
<1>5. b \in Sampled(w)
  <2>1. Sampled(w) = Grid(w.grid)
    <3>1. Train(w) = Grid(w.grid)
      BY <1>1 DEF Admitted, SelectionAdmitted
    <3>. QED BY <3>1 DEF Train
  <2>. QED BY <1>4, <2>1
<1>6. Timed(T, b) /\ Recorded(T, b, recs)
  BY <1>1, <1>4, <1>5 DEF ProfileTimed, TemplateOf, Known
<1>7. EntryAt(b, n) = Nth(T, b, own, n)
  BY DEF EntryAt
<1>8. /\ out[i].slot = e.slot /\ out[i].time = TimeAt(b, n)
  BY <1>4 DEF Emission
<1>. HIDE DEF b
<1>9. /\ TimeAt(b, n) = w.place[b].start + Delta(e, b)
      /\ w.place[b].start \in Nat /\ Delta(e, b) \in Nat
  BY <1>1, <1>4, CursorTimes
<1>. HIDE DEF n, T, own, e
<1>10. e = T[NthIndex(T, b, own, n)] /\ NthIndex(T, b, own, n) \in DOMAIN T
  BY <1>4, <1>6, <1>7, NthIs DEF e
<1>11. Delta(e, b) = RecordAt(recs, e.slot).ts - StartTime(recs)
  BY <1>6, <1>10 DEF Recorded
<1>12. out[i].time - w.place[b].start = Delta(e, b)
  BY <1>8, <1>9
<1>13. out[i].time - w.place[b].start = RecordAt(recs, out[i].slot).ts - StartTime(recs)
  BY <1>8, <1>11, <1>12
<1>. QED BY <1>13 DEF b

(* A kernel that was sampled completely is regenerated as it was: every    *)
(* instruction of every CTA, at its address and at its time.               *)
THEOREM CompleteRegenerated == Spec => [](Complete(w) => TraceRegenerated)
<1>1. IInv /\ Faithful /\ Traced /\ SampledRegenerated => (Complete(w) => TraceRegenerated)
  <2>. SUFFICES ASSUME IInv, Faithful, Traced, SampledRegenerated, Complete(w),
                       phase = "done", who = "expanded" => w.own
                PROVE  TraceRegenerated
    BY DEF TraceRegenerated
  <2>1. w \in Workloads /\ Admitted(w) /\ IsSequence(out) /\ \E pos : Placed(pos)
    BY DEF IInv, Prepared, Faithful, Profiled, Traced
  <2>2. Train(w) = Grid(w.grid) /\ w.format = "memc"
    BY <2>1 DEF Admitted, SelectionAdmitted
  <2>3. Sampled(w) = Grid(w.grid) /\ Version(w) # 11
    BY <2>1, <2>2, CompleteIsAdmitted
  <2>4. ASSUME NEW b \in Grid(w.grid)
        PROVE  /\ \A i \in DOMAIN w.recs[b] :
                     LET r == w.recs[b][i] IN Emitted(b, r.sig, r.base) = Executed(b, r.sig, r.base)
               /\ \A i \in DOMAIN out : out[i].cta = b => Executed(b, out[i].slot[1], out[i].base) > 0
    BY <2>3 DEF SampledRegenerated
  <2>5. \A i \in DOMAIN out : out[i].cta \in Grid(w.grid)
    <3>1. PICK pos : Placed(pos)
      BY <2>1
    <3>2. DOMAIN out = 1 .. Len(out)
      BY <2>1 DEF IsSequence
    <3>. QED BY <3>1, <3>2 DEF Placed, Emits
  <2>6. \A i \in DOMAIN out : Executed(out[i].cta, out[i].slot[1], out[i].base) > 0
    BY <2>4, <2>5
  <2>. QED BY <2>1, <2>4, <2>6, TimesExact DEF TraceRegenerated
<1>. QED BY Invariance, Faithfulness, Tracing, SamplesRegenerated, <1>1, PTL

-----------------------------------------------------------------------------
(* Sums over finite sets.                                                  *)

Pick(s) == CHOOSE x \in s : TRUE
Iterates(f, S, iter) ==
  iter = [s \in SUBSET S |-> IF s = {} THEN 0 ELSE f[Pick(s)] + iter[s \ {Pick(s)}]]

(* What grows with each element by its summand.                            *)
Accumulates(G, f, S) ==
  /\ G[{}] = 0
  /\ \A s \in SUBSET S : \A x \in s : G[s] = f[x] + G[s \ {x}]

(* Such a thing is the sum.                                                *)
LEMMA SumIs ==
  ASSUME NEW S, IsFiniteSet(S), NEW f, NEW G, Accumulates(G, f, S)
  PROVE  SumFunctionOnSet(f, S) = G[S]
<1>. DEFINE c == CHOOSE iter : Iterates(f, S, iter)
<1>1. SumFunctionOnSet(f, S) = c[S]
  BY DEF SumFunctionOnSet, FoldFunctionOnSet, MapThenFoldSet, Iterates, Pick
<1>2. \A s \in SUBSET S : s # {} => Pick(s) \in s
  BY DEF Pick
<1>3. \E iter : Iterates(f, S, iter)
  <2>. DEFINE g == [s \in SUBSET S |-> G[s]]
              h == [s \in SUBSET S |-> IF s = {} THEN 0 ELSE f[Pick(s)] + g[s \ {Pick(s)}]]
  <2>1. ASSUME NEW s \in SUBSET S PROVE g[s] = h[s]
    <3>1. CASE s = {}
      BY <3>1 DEF Accumulates
    <3>2. CASE s # {}
      <4>1. Pick(s) \in s /\ s \ {Pick(s)} \in SUBSET S
        BY <1>2, <3>2
      <4>2. G[s] = f[Pick(s)] + G[s \ {Pick(s)}]
        BY <4>1 DEF Accumulates
      <4>. QED BY <3>2, <4>1, <4>2
    <3>. QED BY <3>1, <3>2
  <2>2. g = h
    BY <2>1
  <2>. QED BY <2>2 DEF Iterates
<1>4. Iterates(f, S, c)
  BY <1>3
<1>. HIDE DEF c
<1>5. \A s \in SUBSET S : c[s] = IF s = {} THEN 0 ELSE f[Pick(s)] + c[s \ {Pick(s)}]
  <2>1. c = [s \in SUBSET S |-> IF s = {} THEN 0 ELSE f[Pick(s)] + c[s \ {Pick(s)}]]
    BY <1>4 DEF Iterates
  <2>. QED BY <2>1
<1>6. \A s \in SUBSET S : IsFiniteSet(s) /\ Cardinality(s) \in Nat
  BY FS_Subset, FS_CardinalityType
<1>. DEFINE Bad == {n \in Nat : \E s \in SUBSET S : Cardinality(s) = n /\ c[s] # G[s]}
<1>7. ASSUME Bad # {} PROVE FALSE
  <2>1. Min(Bad) \in Bad /\ \A n \in Bad : Min(Bad) =< n
    BY <1>7, LeastOf
  <2>2. PICK s \in SUBSET S : Cardinality(s) = Min(Bad) /\ c[s] # G[s]
    BY <2>1
  <2>3. s # {}
    BY <1>5, <2>2 DEF Accumulates
  <2>4. Pick(s) \in s /\ s \ {Pick(s)} \in SUBSET S
    BY <1>2, <2>3
  <2>5. Cardinality(s \ {Pick(s)}) = Cardinality(s) - 1
    BY <1>6, <2>4, FS_RemoveElement
  <2>6. s \ {Pick(s)} \in SUBSET S /\ Cardinality(s \ {Pick(s)}) < Min(Bad)
    BY <1>6, <2>2, <2>4, <2>5
  <2>7. c[s \ {Pick(s)}] = G[s \ {Pick(s)}]
    <3>. DEFINE t == s \ {Pick(s)}
    <3>. SUFFICES ASSUME c[t] # G[t] PROVE FALSE
      OBVIOUS
    <3>1. t \in SUBSET S /\ Cardinality(t) \in Nat /\ Cardinality(t) < Min(Bad)
      BY <1>6, <2>6
    <3>2. Cardinality(t) \in Bad
      BY <3>1
    <3>. QED BY <2>1, <3>1, <3>2
  <2>8. G[s] = f[Pick(s)] + G[s \ {Pick(s)}]
    BY <2>4 DEF Accumulates
  <2>. QED BY <1>5, <2>2, <2>3, <2>7, <2>8
<1>8. c[S] = G[S]
  <2>1. Cardinality(S) \in Nat /\ S \in SUBSET S
    BY <1>6
  <2>. QED BY <1>7, <2>1
<1>. QED BY <1>1, <1>8

(* A sum counts units.                                                     *)
Units(f, S) == {u \in S \X Nat : u[2] < f[u[1]]}

LEMMA UnitsOf ==
  ASSUME NEW S, IsFiniteSet(S), NEW f, \A x \in S : f[x] \in Nat
  PROVE  /\ \A s \in SUBSET S : IsFiniteSet(Units(f, s))
         /\ \A s \in SUBSET S : \A x \in s :
              Cardinality(Units(f, s)) = f[x] + Cardinality(Units(f, s \ {x}))
<1>1. ASSUME NEW x \in S
      PROVE  IsFiniteSet(Units(f, {x})) /\ Cardinality(Units(f, {x})) = f[x]
  <2>1. f[x] \in Nat /\ 0 \in Int /\ f[x] - 1 \in Int
    OBVIOUS
  <2>2. IsFiniteSet(0 .. f[x] - 1) /\ Cardinality(0 .. f[x] - 1) = f[x]
    <3>1. /\ IsFiniteSet(0 .. f[x] - 1)
          /\ Cardinality(0 .. f[x] - 1) = IF 0 > f[x] - 1 THEN 0 ELSE (f[x] - 1) - 0 + 1
      BY <2>1, FS_Interval
    <3>. QED BY <2>1, <3>1
  <2>. DEFINE h == [n \in 0 .. f[x] - 1 |-> <<x, n>>]
  <2>3. h \in [0 .. f[x] - 1 -> Units(f, {x})]
    BY <2>1 DEF Units
  <2>4. \A m, n \in 0 .. f[x] - 1 : h[m] = h[n] => m = n
    OBVIOUS
  <2>5. \A u \in Units(f, {x}) : \E n \in 0 .. f[x] - 1 : h[n] = u
    BY <2>1 DEF Units
  <2>. HIDE DEF h
  <2>6. PICK D : D = 0 .. f[x] - 1
    OBVIOUS
  <2>7. /\ h \in [D -> Units(f, {x})] /\ \A m, n \in D : h[m] = h[n] => m = n
        /\ \A u \in Units(f, {x}) : \E n \in D : h[n] = u
        /\ IsFiniteSet(D) /\ Cardinality(D) = f[x]
    BY <2>2, <2>3, <2>4, <2>5, <2>6
  <2>8. IsFiniteSet(Units(f, {x})) /\ Cardinality(Units(f, {x})) = Cardinality(D)
    BY <2>7, SameSize
  <2>. QED BY <2>7, <2>8
<1>2. ASSUME NEW s \in SUBSET S, NEW x \in s, IsFiniteSet(Units(f, s \ {x}))
      PROVE  /\ IsFiniteSet(Units(f, s))
             /\ Cardinality(Units(f, s)) = f[x] + Cardinality(Units(f, s \ {x}))
  <2>1. Units(f, s) = Units(f, {x}) \cup Units(f, s \ {x})
    BY DEF Units
  <2>2. Units(f, {x}) \cap Units(f, s \ {x}) = {}
    BY DEF Units
  <2>3. x \in S
    OBVIOUS
  <2>4. IsFiniteSet(Units(f, {x})) /\ Cardinality(Units(f, {x})) = f[x] /\ f[x] \in Nat
    BY <1>1, <2>3
  <2>5. Cardinality(Units(f, s \ {x})) \in Nat
    BY <1>2, FS_CardinalityType
  <2>6. /\ IsFiniteSet(Units(f, s))
        /\ Cardinality(Units(f, s)) = Cardinality(Units(f, {x})) + Cardinality(Units(f, s \ {x}))
    <3>. DEFINE A == Units(f, {x})
                B == Units(f, s \ {x})
    <3>1. /\ IsFiniteSet(A \cup B)
          /\ Cardinality(A \cup B) = Cardinality(A) + Cardinality(B) - Cardinality(A \cap B)
      BY <1>2, <2>4, FS_Union
    <3>2. Cardinality(A \cap B) = 0
      BY <2>2, FS_EmptySet
    <3>. QED BY <2>1, <2>4, <2>5, <3>1, <3>2
  <2>. QED BY <2>4, <2>6
<1>3. \A s \in SUBSET S : IsFiniteSet(Units(f, s))
  <2>. DEFINE Bad == {n \in Nat : \E s \in SUBSET S : Cardinality(s) = n /\ ~IsFiniteSet(Units(f, s))}
  <2>1. \A s \in SUBSET S : IsFiniteSet(s) /\ Cardinality(s) \in Nat
    BY FS_Subset, FS_CardinalityType
  <2>2. ASSUME Bad # {} PROVE FALSE
    <3>1. Min(Bad) \in Bad /\ \A n \in Bad : Min(Bad) =< n
      BY <2>2, LeastOf
    <3>2. PICK s \in SUBSET S : Cardinality(s) = Min(Bad) /\ ~IsFiniteSet(Units(f, s))
      BY <3>1
    <3>3. CASE s = {}
      <4>1. Units(f, s) = {}
        BY <3>3 DEF Units
      <4>. QED BY <3>2, <4>1, FS_EmptySet
    <3>4. CASE s # {}
      <4>1. PICK x \in s : TRUE
        BY <3>4
      <4>. DEFINE t == s \ {x}
      <4>2. Cardinality(t) = Cardinality(s) - 1
        BY <2>1, <4>1, FS_RemoveElement
      <4>3. t \in SUBSET S /\ Cardinality(t) \in Nat /\ Cardinality(t) < Min(Bad)
        BY <2>1, <3>2, <4>2
      <4>4. IsFiniteSet(Units(f, t))
        <5>. SUFFICES ASSUME ~IsFiniteSet(Units(f, t)) PROVE FALSE
          OBVIOUS
        <5>. HIDE DEF t
        <5>1. Cardinality(t) \in Bad
          BY <4>3
        <5>2. Min(Bad) \in Nat
          BY <3>1
        <5>. HIDE DEF Bad
        <5>. QED BY <3>1, <4>3, <5>1, <5>2
      <4>. QED BY <1>2, <3>2, <4>4
    <3>. QED BY <3>3, <3>4
  <2>3. ASSUME NEW s \in SUBSET S, ~IsFiniteSet(Units(f, s)) PROVE FALSE
    <3>1. Cardinality(s) \in Bad
      BY <2>1, <2>3
    <3>. QED BY <2>2, <3>1
  <2>. QED BY <2>3
<1>. QED BY <1>2, <1>3

LEMMA SumCounts ==
  ASSUME NEW S, IsFiniteSet(S), NEW f, \A x \in S : f[x] \in Nat
  PROVE  /\ SumFunctionOnSet(f, S) = Cardinality(Units(f, S))
         /\ IsFiniteSet(Units(f, S)) /\ SumFunctionOnSet(f, S) \in Nat
<1>. DEFINE G == [s \in SUBSET S |-> Cardinality(Units(f, s))]
<1>1. G[{}] = 0
  <2>1. Units(f, {}) = {}
    BY DEF Units
  <2>. QED BY <2>1, FS_EmptySet
<1>2. \A s \in SUBSET S : \A x \in s : G[s] = f[x] + G[s \ {x}]
  <2>1. ASSUME NEW s \in SUBSET S, NEW x \in s
        PROVE  Cardinality(Units(f, s)) = f[x] + Cardinality(Units(f, s \ {x}))
    BY UnitsOf
  <2>2. \A s \in SUBSET S : \A x \in s : s \ {x} \in SUBSET S
    OBVIOUS
  <2>. QED BY <2>1, <2>2
<1>3. Accumulates(G, f, S)
  BY <1>1, <1>2 DEF Accumulates
<1>4. SumFunctionOnSet(f, S) = G[S]
  BY <1>3, SumIs
<1>. QED BY <1>4, UnitsOf, FS_CardinalityType

-----------------------------------------------------------------------------
(* The census: an address counts by its place in its sector.               *)
Multiple(n) == n \in Int /\ \E q \in Int : n = SectorBytes * q

LEMMA RemainderIs ==
  ASSUME NEW n \in Int, NEW d \in Nat, d > 0
  PROVE  n \div d \in Int /\ n % d \in 0 .. d - 1 /\ n = d * (n \div d) + (n % d)
<1>1. n \div d \in Int /\ n % d \in 0 .. d - 1
  OBVIOUS
<1>2. n = d * (n \div d) + (n % d)
  OBVIOUS
<1>. QED BY <1>1, <1>2

LEMMA SectorIs == SectorBytes \in Nat /\ SectorBytes > 0 /\ Span \in Nat /\ Span > 0
BY ConstantsAssumption, BindingAssumption

LEMMA MultiplesAre ==
  /\ \A n \in Int : n % SectorBytes = 0 => Multiple(n)
  /\ \A m, n : Multiple(m) /\ Multiple(n) => Multiple(m + n) /\ Multiple(m - n)
  /\ \A n, x : Multiple(n) /\ x \in Int => Multiple(n * x)
  /\ Multiple(0)
<1>. DEFINE d == SectorBytes
<1>0. d \in Nat /\ d > 0 /\ \A n : Multiple(n) <=> (n \in Int /\ \E q \in Int : n = d * q)
  BY SectorIs DEF Multiple
<1>. HIDE DEF d
<1>1. ASSUME NEW n \in Int, n % d = 0 PROVE Multiple(n)
  <2>1. n = d * (n \div d) + (n % d) /\ n \div d \in Int
    BY <1>0, RemainderIs
  <2>2. n = d * (n \div d)
    BY <1>0, <1>1, <2>1
  <2>. QED BY <1>0, <2>1, <2>2
<1>2. ASSUME NEW m, NEW n, Multiple(m), Multiple(n) PROVE Multiple(m + n) /\ Multiple(m - n)
  <2>1. PICK q \in Int : m = d * q
    BY <1>0, <1>2
  <2>2. PICK e \in Int : n = d * e
    BY <1>0, <1>2
  <2>3. m + n = d * (q + e) /\ m - n = d * (q - e) /\ q + e \in Int /\ q - e \in Int
    BY <1>0, <2>1, <2>2
  <2>4. m + n \in Int /\ m - n \in Int
    BY <1>0, <1>2
  <2>. QED BY <1>0, <2>3, <2>4
<1>3. ASSUME NEW n, NEW x, Multiple(n), x \in Int PROVE Multiple(n * x)
  <2>1. PICK q \in Int : n = d * q
    BY <1>0, <1>3
  <2>2. n * x = d * (q * x) /\ q * x \in Int
    BY <1>0, <1>3, <2>1
  <2>3. n * x \in Int
    BY <1>0, <1>3
  <2>. QED BY <1>0, <2>2, <2>3
<1>4. Multiple(0)
  <2>1. 0 = d * 0
    BY <1>0
  <2>. QED BY <1>0, <2>1
<1>. QED BY <1>1, <1>2, <1>3, <1>4 DEF d

(* Equal residues are a distance of whole sectors, and make for as many.   *)
LEMMA ResiduesAre ==
  ASSUME NEW m \in Int, NEW n \in Int
  PROVE  m % SectorBytes = n % SectorBytes <=> Multiple(m - n)
<1>. DEFINE d == SectorBytes
            a == m \div d
            b == n \div d
            r == m % d
            s == n % d
<1>1. d \in Nat /\ d > 0
  BY SectorIs
<1>2. /\ a \in Int /\ r \in 0 .. d - 1 /\ m = d * a + r
      /\ b \in Int /\ s \in 0 .. d - 1 /\ n = d * b + s
  BY <1>1, RemainderIs
<1>3. \A x : Multiple(x) <=> (x \in Int /\ \E q \in Int : x = d * q)
  BY DEF Multiple
<1>. HIDE DEF d, a, b, r, s
<1>4. ASSUME r = s PROVE Multiple(m - n)
  <2>1. m - n = d * (a - b) /\ a - b \in Int
    BY <1>1, <1>2, <1>4
  <2>. QED BY <1>3, <2>1
<1>5. ASSUME Multiple(m - n) PROVE r = s
  <2>1. PICK q \in Int : m - n = d * q
    BY <1>3, <1>5
  <2>2. b + q \in Int /\ d * a + r = d * (b + q) + s
    BY <1>1, <1>2, <2>1
  <2>3. a = b + q
    BY <1>1, <1>2, <2>2, QuotientUnique
  <2>4. d * a = d * (b + q) /\ d * a \in Int
    BY <1>1, <1>2, <2>3
  <2>. QED BY <1>1, <1>2, <2>2, <2>4
<1>. QED BY <1>4, <1>5 DEF d, r, s

LEMMA SectorsAre ==
  ASSUME NEW base \in Nat
  PROVE  /\ Sectors(base) \in Nat
         /\ Sectors(base) = ((base % SectorBytes) + (Span - 1)) \div SectorBytes + 1
<1>. DEFINE d == SectorBytes
            q == base \div d
            r == base % d
            u == r + (Span - 1)
            e == u \div d
            s == u % d
            f == (base + Span - 1) \div d
            t == (base + Span - 1) % d
<1>1. d \in Nat /\ d > 0 /\ Span \in Nat /\ Span > 0
  BY SectorIs
<1>2. q \in Int /\ r \in 0 .. d - 1 /\ base = d * q + r
  BY <1>1, RemainderIs
<1>. HIDE DEF r
<1>3. u \in Nat
  BY <1>1, <1>2
<1>4. e \in Nat /\ s \in 0 .. d - 1 /\ u = d * e + s
  <2>. HIDE DEF u, d
  <2>1. e \in Nat
    BY <1>1, <1>3, DivisionIs
  <2>2. s \in 0 .. d - 1 /\ u = d * e + s
    BY <1>1, <1>3, RemainderIs
  <2>. QED BY <2>1, <2>2
<1>5. base + Span - 1 \in Int
  BY <1>1
<1>6. f \in Int /\ t \in 0 .. d - 1 /\ base + Span - 1 = d * f + t
  BY <1>1, <1>5, RemainderIs
<1>7. Sectors(base) = f - q + 1
  BY DEF Sectors
<1>8. base + Span - 1 = d * q + u
  BY <1>1, <1>2
<1>. HIDE DEF d, q, e, s, f, t, u
<1>9. d * f + t = d * (q + e) + s /\ q + e \in Int
  BY <1>1, <1>2, <1>4, <1>6, <1>8
<1>10. f = q + e
  BY <1>1, <1>2, <1>4, <1>6, <1>9, QuotientUnique
<1>11. Sectors(base) = e + 1
  BY <1>2, <1>4, <1>7, <1>10
<1>. QED BY <1>4, <1>11 DEF e, u, r, d

LEMMA OnlyOne ==
  ASSUME NEW S, IsFiniteSet(S), NEW f, f = [z \in S |-> f[z]], Cardinality({f[x] : x \in S}) = 1,
         NEW x \in S, NEW y \in S
  PROVE  f[x] = f[y]
<1>. DEFINE T == {f[z] : z \in S}
<1>1. f \in Surjection(S, T)
  <2>1. f \in [S -> T]
    <3>1. \A z \in S : f[z] \in T
      OBVIOUS
    <3>. HIDE DEF T
    <3>. QED BY <3>1
  <2>. QED BY <2>1 DEF Surjection
<1>2. IsFiniteSet(T)
  BY <1>1, FS_Surjection
<1>3. PICK t : T = {t}
  BY <1>2, FS_Singleton
<1>. QED BY <1>3

(* A stride of whole sectors moves by whole sectors.                       *)
LEMMA StrideMoves ==
  ASSUME NEW s, Multiple(s), NEW m \in Int, NEW n \in Int
  PROVE  s * m \in Int /\ s * n \in Int /\ Multiple(s * m - s * n)
<1>1. Multiple(s * m) /\ Multiple(s * n)
  BY MultiplesAre
<1>. QED BY <1>1, MultiplesAre DEF Multiple

(* So do terms.                                                            *)
Moves(m, n) == m \in Int /\ n \in Int /\ Multiple(m - n)

LEMMA MovesAdd ==
  ASSUME NEW m, NEW n, NEW x, NEW y, Moves(m, n), Moves(x, y)
  PROVE  Moves(m + x, n + y)
<1>1. m \in Int /\ n \in Int /\ x \in Int /\ y \in Int
  BY DEF Moves
<1>2. Multiple((m - n) + (x - y))
  BY MultiplesAre DEF Moves
<1>3. (m + x) - (n + y) = (m - n) + (x - y)
  BY <1>1
<1>. QED BY <1>1, <1>2, <1>3 DEF Moves

LEMMA ModuloSame ==
  ASSUME NEW g \in Sizes, NEW r, GridRule(r, g),
         NEW ctas \in SUBSET Grid(g), IsFiniteSet(ctas),
         InvariantModulo(r, ctas), NEW b \in ctas, NEW c \in ctas,
         PredictBase(r, g, b) \in Nat, PredictBase(r, g, c) \in Nat
  PROVE  PredictBase(r, g, b) % SectorBytes = PredictBase(r, g, c) % SectorBytes
<1>. DEFINE P(n) == PredictBase(r, g, n)
            C(n, i) == Coordinate(g, n)[i]
<1>1. b \in Grid(g) /\ c \in Grid(g)
  OBVIOUS
<1>2. \A n \in Grid(g) : /\ n \in Nat /\ \A i \in 1..3 : C(n, i) \in Nat
                         /\ C(n, 2) + 1 \in 1 .. g[2]
  BY CoordinateIs
<1>. HIDE DEF C
<1>3. CASE r.kind = "table"
  <2>. DEFINE f == [n \in ctas |-> r.bases[n] % SectorBytes]
  <2>1. {f[n] : n \in ctas} = {r.bases[n] % SectorBytes : n \in ctas} /\ f = [n \in ctas |-> f[n]]
    OBVIOUS
  <2>2. Cardinality({f[n] : n \in ctas}) = 1
    BY <1>3, <2>1 DEF InvariantModulo
  <2>3. f[b] = f[c]
    <3>. HIDE DEF f
    <3>. QED BY <1>1, <2>1, <2>2, OnlyOne
  <2>. QED BY <1>3, <2>3 DEF PredictBase
<1>4. CASE r.kind # "table"
  <2>1. ASSUME NEW f \in {"xs", "ys", "zs", "qs", "rs", "hs", "step"} \cap DOMAIN r, r[f] \in Int
        PROVE  Multiple(r[f])
    <3>1. r[f] % SectorBytes = 0
      BY <1>4 DEF InvariantModulo, Strides
    <3>. QED BY <2>1, <3>1, MultiplesAre
  <2>2. ASSUME "yoff" \in DOMAIN r, r.yoff \in [1 .. g[2] -> Int]
        PROVE  Moves(r.yoff[C(b, 2) + 1], r.yoff[C(c, 2) + 1])
    <3>. DEFINE f == [y \in 1 .. g[2] |-> r.yoff[y] % SectorBytes]
    <3>1. {f[y] : y \in 1 .. g[2]} = {o % SectorBytes : o \in OffsetsOf(r)}
      BY <2>2 DEF OffsetsOf
    <3>2. Cardinality({f[y] : y \in 1 .. g[2]}) = 1
      BY <1>4, <3>1 DEF InvariantModulo
    <3>3. IsFiniteSet(1 .. g[2])
      <4>1. g[2] \in Nat
        BY DEF Sizes
      <4>2. 1 \in Int /\ g[2] \in Int
        BY <4>1
      <4>. QED BY <4>2, FS_Interval, Zenon
    <3>4. C(b, 2) + 1 \in 1 .. g[2] /\ C(c, 2) + 1 \in 1 .. g[2] /\ f = [y \in 1 .. g[2] |-> f[y]]
      BY <1>1, <1>2
    <3>5. f[C(b, 2) + 1] = f[C(c, 2) + 1]
      <4>1. PICK D : D = 1 .. g[2]
        OBVIOUS
      <4>. HIDE DEF f
      <4>2. /\ IsFiniteSet(D) /\ Cardinality({f[y] : y \in D}) = 1 /\ f = [y \in D |-> f[y]]
            /\ C(b, 2) + 1 \in D /\ C(c, 2) + 1 \in D
        BY <3>2, <3>3, <3>4, <4>1
      <4>. QED BY <4>2, OnlyOne
    <3>6. /\ r.yoff[C(b, 2) + 1] \in Int /\ r.yoff[C(c, 2) + 1] \in Int
          /\ r.yoff[C(b, 2) + 1] % SectorBytes = r.yoff[C(c, 2) + 1] % SectorBytes
      BY <2>2, <3>4, <3>5
    <3>. QED BY <3>6, ResiduesAre DEF Moves
  <2>3. Moves(P(b), P(c))
    <3>1. CASE r.kind = "permutation"
      <4>1. /\ r.at \in Int /\ r.step \in Int /\ r.order \in Permutation3
            /\ \A i \in 1..3 : r.extents[i] \in Nat \ {0}
            /\ "step" \in DOMAIN r
        BY <3>1 DEF GridRule, Permuting
      <4>. DEFINE I(n) == PermutedIndex(r.extents, r.order, n)
      <4>2. I(b) \in Int /\ I(c) \in Int
        BY <1>1, <1>2, <4>1, IndexIs
      <4>3. P(b) = r.at + r.step * I(b) /\ P(c) = r.at + r.step * I(c)
        BY <3>1 DEF PredictBase
      <4>. HIDE DEF I
      <4>4. Moves(r.step * I(b), r.step * I(c))
        BY <2>1, <4>1, <4>2, StrideMoves DEF Moves
      <4>5. Moves(r.at, r.at)
        BY <4>1, MultiplesAre DEF Moves
      <4>. QED BY <4>3, <4>4, <4>5, MovesAdd
    <3>2. CASE r.kind = "floor"
      <4>1. r.at \in Int /\ r.qs \in Int /\ r.width \in Nat /\ r.width > 1 /\ "qs" \in DOMAIN r
        BY <3>2 DEF GridRule, Flooring
      <4>2. C(b, 1) \div r.width \in Int /\ C(c, 1) \div r.width \in Int
        BY <1>1, <1>2, <4>1
      <4>3. /\ P(b) = r.at + r.qs * (C(b, 1) \div r.width)
            /\ P(c) = r.at + r.qs * (C(c, 1) \div r.width)
        BY <3>2 DEF PredictBase, C
      <4>4. Moves(r.qs * (C(b, 1) \div r.width), r.qs * (C(c, 1) \div r.width))
        BY <2>1, <4>1, <4>2, StrideMoves DEF Moves
      <4>5. Moves(r.at, r.at)
        BY <4>1, MultiplesAre DEF Moves
      <4>. QED BY <4>3, <4>4, <4>5, MovesAdd
    <3>3. ASSUME r.kind \in {"tiled", "coordinate"}
          PROVE  /\ Summed(r, g)
                 /\ Moves(r.at, r.at) /\ Moves(r.zs * C(b, 3), r.zs * C(c, 3))
                 /\ Moves(HalfStep(r, C(b, 3)), HalfStep(r, C(c, 3)))
      <4>1. Summed(r, g)
        BY <3>3 DEF GridRule
      <4>2. r.at \in Int /\ r.zs \in Int /\ "zs" \in DOMAIN r
        BY <4>1 DEF Summed
      <4>3. Moves(r.at, r.at)
        BY <4>2, MultiplesAre DEF Moves
      <4>4. Moves(r.zs * C(b, 3), r.zs * C(c, 3))
        BY <1>1, <1>2, <2>1, <4>2, StrideMoves DEF Moves
      <4>5. HalfStep(r, C(b, 3)) \in {0} \cup {r.hs : n \in {1} \cap {m \in {1} : "hs" \in DOMAIN r}}
        BY <4>1 DEF HalfStep, Summed
      <4>6. HalfStep(r, C(c, 3)) \in {0} \cup {r.hs : n \in {1} \cap {m \in {1} : "hs" \in DOMAIN r}}
        BY <4>1 DEF HalfStep, Summed
      <4>7. "hs" \in DOMAIN r => Multiple(r.hs)
        BY <2>1, <4>1 DEF Summed
      <4>8. Multiple(HalfStep(r, C(b, 3))) /\ Multiple(HalfStep(r, C(c, 3)))
        BY <4>5, <4>6, <4>7, MultiplesAre
      <4>9. Moves(HalfStep(r, C(b, 3)), HalfStep(r, C(c, 3)))
        BY <4>8, MultiplesAre DEF Moves, Multiple
      <4>. QED BY <4>1, <4>3, <4>4, <4>9
    <3>4. CASE r.kind = "tiled"
      <4>1. /\ r.qs \in Int /\ r.rs \in Int /\ r.width \in Nat /\ r.width > 1
            /\ {"qs", "rs", "yoff"} \subseteq DOMAIN r /\ r.yoff \in [1 .. g[2] -> Int]
        BY <3>3, <3>4 DEF Summed
      <4>. DEFINE Q(n) == r.qs * (C(n, 1) \div r.width)
                  R(n) == r.rs * (C(n, 1) % r.width)
                  Y(n) == r.yoff[C(n, 2) + 1]
                  Z(n) == r.zs * C(n, 3)
                  H(n) == HalfStep(r, C(n, 3))
      <4>2. \A n \in {b, c} : C(n, 1) \div r.width \in Int /\ C(n, 1) % r.width \in Int
        <5>1. C(b, 1) \in Nat /\ C(c, 1) \in Nat
          BY <1>1, <1>2
        <5>2. \A m \in Nat : m \div r.width \in Int /\ m % r.width \in Int
          BY <4>1, RemainderIs
        <5>. QED BY <5>1, <5>2
      <4>3. Moves(Q(b), Q(c)) /\ Moves(R(b), R(c))
        BY <2>1, <4>1, <4>2, StrideMoves DEF Moves
      <4>4. Moves(Y(b), Y(c)) /\ Moves(Z(b), Z(c)) /\ Moves(H(b), H(c)) /\ Moves(r.at, r.at)
        BY <2>2, <3>3, <3>4, <4>1
      <4>5. /\ P(b) = r.at + Q(b) + R(b) + Y(b) + Z(b) + H(b)
            /\ P(c) = r.at + Q(c) + R(c) + Y(c) + Z(c) + H(c)
        BY <3>4 DEF PredictBase, Tiled, C
      <4>. HIDE DEF Q, R, Y, Z, H
      <4>6. Moves(r.at + Q(b), r.at + Q(c))
        BY <4>3, <4>4, MovesAdd
      <4>7. Moves(r.at + Q(b) + R(b), r.at + Q(c) + R(c))
        BY <4>3, <4>6, MovesAdd
      <4>8. Moves(r.at + Q(b) + R(b) + Y(b), r.at + Q(c) + R(c) + Y(c))
        BY <4>4, <4>7, MovesAdd
      <4>9. Moves(r.at + Q(b) + R(b) + Y(b) + Z(b), r.at + Q(c) + R(c) + Y(c) + Z(c))
        BY <4>4, <4>8, MovesAdd
      <4>10. Moves(r.at + Q(b) + R(b) + Y(b) + Z(b) + H(b), r.at + Q(c) + R(c) + Y(c) + Z(c) + H(c))
        BY <4>4, <4>9, MovesAdd
      <4>. QED BY <4>5, <4>10
    <3>5. CASE r.kind = "coordinate"
      <4>1. /\ r.xs \in Int /\ "xs" \in DOMAIN r /\ "zs" \in DOMAIN r
            /\ "yoff" \in DOMAIN r => r.yoff \in [1 .. g[2] -> Int]
            /\ "yoff" \notin DOMAIN r => "ys" \in DOMAIN r /\ r.ys \in Int
        BY <3>3, <3>5 DEF Summed
      <4>. DEFINE X(n) == r.xs * C(n, 1)
                  Z(n) == r.zs * C(n, 3)
                  H(n) == HalfStep(r, C(n, 3))
                  Y(n) == IF "yoff" \in DOMAIN r THEN r.yoff[C(n, 2) + 1] ELSE r.ys * C(n, 2)
      <4>2. Moves(X(b), X(c))
        <5>1. Multiple(r.xs) /\ C(b, 1) \in Int /\ C(c, 1) \in Int
          BY <1>1, <1>2, <2>1, <4>1
        <5>. QED BY <5>1, StrideMoves DEF Moves
      <4>3. Moves(Y(b), Y(c))
        <5>1. CASE "yoff" \in DOMAIN r
          BY <2>2, <4>1, <5>1
        <5>2. CASE "yoff" \notin DOMAIN r
          <6>1. Moves(r.ys * C(b, 2), r.ys * C(c, 2))
            <7>1. Multiple(r.ys) /\ C(b, 2) \in Int /\ C(c, 2) \in Int
              BY <1>1, <1>2, <2>1, <4>1, <5>2
            <7>. QED BY <7>1, StrideMoves DEF Moves
          <6>. QED BY <5>2, <6>1
        <5>. QED BY <5>1, <5>2
      <4>4. Moves(Z(b), Z(c)) /\ Moves(H(b), H(c)) /\ Moves(r.at, r.at)
        BY <3>3, <3>5
      <4>5. /\ P(b) = r.at + X(b) + Z(b) + H(b) + Y(b)
            /\ P(c) = r.at + X(c) + Z(c) + H(c) + Y(c)
        BY <3>5, <4>1 DEF PredictBase, Coordinated, C
      <4>. HIDE DEF X, Y, Z, H
      <4>6. Moves(r.at + X(b), r.at + X(c))
        BY <4>2, <4>4, MovesAdd
      <4>7. Moves(r.at + X(b) + Z(b), r.at + X(c) + Z(c))
        BY <4>4, <4>6, MovesAdd
      <4>8. Moves(r.at + X(b) + Z(b) + H(b), r.at + X(c) + Z(c) + H(c))
        BY <4>4, <4>7, MovesAdd
      <4>9. Moves(r.at + X(b) + Z(b) + H(b) + Y(b), r.at + X(c) + Z(c) + H(c) + Y(c))
        BY <4>3, <4>8, MovesAdd
      <4>. QED BY <4>5, <4>9
    <3>. QED BY <1>4, <3>1, <3>2, <3>4, <3>5 DEF GridRule
  <2>. QED BY <2>3, ResiduesAre DEF Moves
<1>. QED BY <1>3, <1>4

(* A sum of equal summands.                                                *)
LEMMA SumConstant ==
  ASSUME NEW S, IsFiniteSet(S), NEW f, NEW v \in Nat, \A x \in S : f[x] = v
  PROVE  SumFunctionOnSet(f, S) = Cardinality(S) * v
<1>. DEFINE G == [s \in SUBSET S |-> Cardinality(s) * v]
<1>1. \A s \in SUBSET S : IsFiniteSet(s) /\ Cardinality(s) \in Nat
  BY FS_Subset, FS_CardinalityType
<1>2. G[{}] = 0
  <2>1. Cardinality({}) = 0 /\ {} \in SUBSET S
    BY FS_EmptySet
  <2>. QED BY <2>1
<1>3. ASSUME NEW s \in SUBSET S, NEW x \in s PROVE G[s] = f[x] + G[s \ {x}]
  <2>. DEFINE n == Cardinality(s)
  <2>1. Cardinality(s \ {x}) = n - 1 /\ s \ {x} \in SUBSET S /\ n \in Nat
    BY <1>1, FS_RemoveElement
  <2>. HIDE DEF n
  <2>2. n * v = v + (n - 1) * v
    BY <2>1
  <2>3. G[s] = n * v /\ G[s \ {x}] = (n - 1) * v
    BY <2>1 DEF n
  <2>. HIDE DEF G
  <2>. QED BY <2>2, <2>3
<1>4. Accumulates(G, f, S)
  <2>. HIDE DEF G
  <2>. QED BY <1>2, <1>3 DEF Accumulates
<1>5. SumFunctionOnSet(f, S) = G[S]
  BY <1>4, SumIs
<1>. QED BY <1>5

(* What is counted by parts.                                               *)
LEMMA SumFibres ==
  ASSUME NEW S, IsFiniteSet(S), NEW W, IsFiniteSet(W), NEW part \in [W -> S],
         NEW f, \A x \in S : f[x] = Cardinality({u \in W : part[u] = x})
  PROVE  SumFunctionOnSet(f, S) = Cardinality(W)
<1>. DEFINE In(s) == {u \in W : part[u] \in s}
            G == [s \in SUBSET S |-> Cardinality(In(s))]
<1>1. \A s : IsFiniteSet(In(s)) /\ Cardinality(In(s)) \in Nat
  <2>1. \A s : In(s) \in SUBSET W
    OBVIOUS
  <2>. QED BY <2>1, FS_Subset, FS_CardinalityType
<1>2. G[{}] = 0
  <2>1. In({}) = {} /\ {} \in SUBSET S
    OBVIOUS
  <2>. QED BY <2>1, FS_EmptySet
<1>3. ASSUME NEW s \in SUBSET S, NEW x \in s PROVE G[s] = f[x] + G[s \ {x}]
  <2>. DEFINE A == In({x})
              B == In(s \ {x})
  <2>1. In(s) = A \cup B /\ A \cap B = {}
    OBVIOUS
  <2>2. f[x] = Cardinality(A)
    <3>1. A = {u \in W : part[u] = x} /\ x \in S
      OBVIOUS
    <3>. QED BY <3>1
  <2>3. G[s] = Cardinality(In(s)) /\ G[s \ {x}] = Cardinality(B)
    OBVIOUS
  <2>4. IsFiniteSet(A) /\ IsFiniteSet(B) /\ Cardinality(A) \in Nat /\ Cardinality(B) \in Nat
    BY <1>1
  <2>. HIDE DEF A, B, G
  <2>5. Cardinality(A \cup B) = Cardinality(A) + Cardinality(B) - Cardinality(A \cap B)
    BY <2>4, FS_Union
  <2>6. Cardinality(A \cap B) = 0
    BY <2>1, FS_EmptySet
  <2>7. G[s] = Cardinality(A \cup B)
    BY <2>1, <2>3
  <2>8. Cardinality(A \cup B) = Cardinality(A) + Cardinality(B)
    BY <2>4, <2>5, <2>6
  <2>. QED BY <2>2, <2>3, <2>7, <2>8
<1>4. Accumulates(G, f, S)
  <2>. HIDE DEF G
  <2>. QED BY <1>2, <1>3 DEF Accumulates
<1>5. SumFunctionOnSet(f, S) = G[S]
  BY <1>4, SumIs
<1>6. In(S) = W
  OBVIOUS
<1>. QED BY <1>5, <1>6

(* The sums of two indices, and of one that replaces another.              *)
Joined(S, T) == UNION {{x} \X T[x] : x \in S}

LEMMA JoinedIs ==
  ASSUME NEW S, IsFiniteSet(S), NEW T, \A x \in S : IsFiniteSet(T[x])
  PROVE  /\ IsFiniteSet(Joined(S, T))
         /\ \A p : p \in Joined(S, T) <=> \E x \in S : \E y \in T[x] : p = <<x, y>>
<1>. DEFINE parts == {{x} \X T[x] : x \in S}
            part == [x \in S |-> {x} \X T[x]]
<1>1. part \in Surjection(S, parts)
  BY DEF Surjection
<1>2. IsFiniteSet(parts)
  <2>. HIDE DEF parts, part
  <2>. QED BY <1>1, FS_Surjection
<1>3. \A q \in parts : IsFiniteSet(q)
  <2>1. ASSUME NEW x \in S PROVE IsFiniteSet({x} \X T[x])
    <3>1. IsFiniteSet({x}) /\ IsFiniteSet(T[x])
      BY FS_Singleton
    <3>. QED BY <3>1, FS_Product
  <2>. QED BY <2>1
<1>4. IsFiniteSet(UNION parts)
  <2>. HIDE DEF parts
  <2>. QED BY <1>2, <1>3, FS_UNION
<1>5. \A p : p \in Joined(S, T) <=> \E x \in S : \E y \in T[x] : p = <<x, y>>
  BY DEF Joined
<1>. QED BY <1>4, <1>5 DEF Joined

LEMMA SumAlong ==
  ASSUME NEW S, IsFiniteSet(S), NEW T, NEW phi, OneToOne(phi, S, T),
         NEW f, NEW h, \A x \in S : f[x] \in Nat /\ h[phi[x]] = f[x]
  PROVE  SumFunctionOnSet(h, T) = SumFunctionOnSet(f, S)
<1>1. /\ phi \in [S -> T] /\ (\A x, y \in S : phi[x] = phi[y] => x = y)
      /\ \A t \in T : \E x \in S : phi[x] = t
  BY DEF OneToOne
<1>2. IsFiniteSet(T)
  BY <1>1, SameSize
<1>3. \A t \in T : h[t] \in Nat
  BY <1>1
<1>4. /\ SumFunctionOnSet(f, S) = Cardinality(Units(f, S)) /\ IsFiniteSet(Units(f, S))
      /\ SumFunctionOnSet(h, T) = Cardinality(Units(h, T))
  BY <1>2, <1>3, SumCounts
<1>. DEFINE U == Units(f, S)
            V == Units(h, T)
            psi == [u \in U |-> <<phi[u[1]], u[2]>>]
<1>5. \A u \in U : u[1] \in S /\ u[2] \in Nat /\ u[2] < f[u[1]] /\ u = <<u[1], u[2]>>
  BY DEF Units
<1>6. \A u \in U : psi[u] = <<phi[u[1]], u[2]>> /\ psi[u] \in V
  <2>1. ASSUME NEW u \in U PROVE <<phi[u[1]], u[2]>> \in V
    BY <1>1, <1>5 DEF Units
  <2>. QED BY <2>1
<1>7. psi \in [U -> V]
  BY <1>6
<1>8. ASSUME NEW v \in V PROVE \E u \in U : psi[u] = v
  <2>1. v[1] \in T /\ v[2] \in Nat /\ v[2] < h[v[1]] /\ v = <<v[1], v[2]>>
    BY DEF Units
  <2>2. PICK x \in S : phi[x] = v[1]
    BY <1>1, <2>1
  <2>3. <<x, v[2]>> \in U
    BY <2>1, <2>2 DEF Units
  <2>4. psi[<<x, v[2]>>] = v
    BY <1>6, <2>1, <2>2, <2>3
  <2>. QED BY <2>3, <2>4
<1>. HIDE DEF psi, U, V
<1>9. \A u, v \in U : psi[u] = psi[v] => u = v
  <2>. SUFFICES ASSUME NEW u \in U, NEW v \in U, psi[u] = psi[v] PROVE u = v
    OBVIOUS
  <2>1. phi[u[1]] = phi[v[1]] /\ u[2] = v[2]
    BY <1>6
  <2>. QED BY <1>1, <1>5, <2>1
<1>10. Cardinality(V) = Cardinality(U)
  BY <1>4, <1>7, <1>8, <1>9, SameSize DEF U
<1>. QED BY <1>4, <1>10 DEF U, V

LEMMA SumNested ==
  ASSUME NEW S, IsFiniteSet(S), NEW T, \A x \in S : IsFiniteSet(T[x]),
         NEW h, \A p \in Joined(S, T) : h[p] \in Nat,
         NEW f, \A x \in S : f[x] = SumFunctionOnSet([y \in T[x] |-> h[<<x, y>>]], T[x])
  PROVE  /\ SumFunctionOnSet(f, S) = SumFunctionOnSet(h, Joined(S, T))
         /\ \A x \in S : f[x] \in Nat
<1>. DEFINE P == Joined(S, T)
            W == Units(h, P)
            part == [u \in W |-> u[1][1]]
<1>1. IsFiniteSet(P) /\ \A p : p \in P <=> \E x \in S : \E y \in T[x] : p = <<x, y>>
  BY JoinedIs
<1>2. SumFunctionOnSet(h, P) = Cardinality(W) /\ IsFiniteSet(W)
  <2>. HIDE DEF P
  <2>. QED BY <1>1, SumCounts DEF P
<1>3. \A u : u \in W <=> u[1] \in P /\ u[2] \in Nat /\ u = <<u[1], u[2]>> /\ u[2] < h[u[1]]
  BY DEF Units
<1>. HIDE DEF P, W
<1>4. \A u \in W : part[u] = u[1][1] /\ part[u] \in S
  BY <1>1, <1>3
<1>5. part \in [W -> S]
  BY <1>4
<1>. HIDE DEF part
<1>6. ASSUME NEW x \in S
      PROVE  f[x] = Cardinality({u \in W : part[u] = x}) /\ f[x] \in Nat
  <2>. DEFINE hx == [y \in T[x] |-> h[<<x, y>>]]
              U == Units(hx, T[x])
              V == {u \in W : part[u] = x}
              psi == [u \in U |-> <<<<x, u[1]>>, u[2]>>]
  <2>1. \A y \in T[x] : hx[y] \in Nat /\ hx[y] = h[<<x, y>>] /\ <<x, y>> \in P
    BY <1>1 DEF P
  <2>. HIDE DEF hx
  <2>2. /\ SumFunctionOnSet(hx, T[x]) = Cardinality(U) /\ IsFiniteSet(U)
        /\ SumFunctionOnSet(hx, T[x]) \in Nat
    BY <2>1, SumCounts
  <2>3. f[x] = SumFunctionOnSet(hx, T[x])
    BY DEF hx
  <2>4. \A u : u \in U <=> u[1] \in T[x] /\ u[2] \in Nat /\ u = <<u[1], u[2]>> /\ u[2] < hx[u[1]]
    BY DEF Units
  <2>. HIDE DEF U
  <2>5. \A u \in U : psi[u] = <<<<x, u[1]>>, u[2]>> /\ psi[u] \in V
    <3>. SUFFICES ASSUME NEW u \in U PROVE <<<<x, u[1]>>, u[2]>> \in V
      OBVIOUS
    <3>1. <<<<x, u[1]>>, u[2]>> \in W
      BY <1>3, <2>1, <2>4
    <3>. QED BY <1>4, <3>1
  <2>6. psi \in [U -> V]
    BY <2>5
  <2>. HIDE DEF psi
  <2>7. \A u, v \in U : psi[u] = psi[v] => u = v
    <3>. SUFFICES ASSUME NEW u \in U, NEW v \in U, psi[u] = psi[v] PROVE u = v
      OBVIOUS
    <3>1. u[1] = v[1] /\ u[2] = v[2]
      BY <2>5
    <3>. QED BY <2>4, <3>1
  <2>8. ASSUME NEW v \in V PROVE \E u \in U : psi[u] = v
    <3>1. v[1] \in P /\ v[2] \in Nat /\ v = <<v[1], v[2]>> /\ v[2] < h[v[1]] /\ v[1][1] = x
      BY <1>3, <1>4
    <3>2. PICK y \in T[x] : v[1] = <<x, y>>
      BY <1>1, <3>1
    <3>3. <<y, v[2]>> \in U
      BY <2>1, <2>4, <3>1, <3>2
    <3>4. psi[<<y, v[2]>>] = v
      BY <2>5, <3>1, <3>2, <3>3
    <3>. QED BY <3>3, <3>4
  <2>. HIDE DEF V
  <2>9. Cardinality(V) = Cardinality(U)
    BY <2>2, <2>6, <2>7, <2>8, SameSize
  <2>. QED BY <2>2, <2>3, <2>9 DEF V
<1>7. SumFunctionOnSet(f, S) = Cardinality(W)
  BY <1>2, <1>5, <1>6, SumFibres
<1>. QED BY <1>2, <1>6, <1>7 DEF P

(* An entry is counted as its rule has it, once for all CTAs or for each.  *)
LEMMA EntryCensusIs ==
  ASSUME NEW g \in Sizes, NEW r, GridRule(r, g),
         NEW ctas \in SUBSET Grid(g), IsFiniteSet(ctas), ctas # {},
         NEW f, \A b \in ctas : PredictBase(r, g, b) \in Nat /\ f[b] = Sectors(PredictBase(r, g, b)),
         f = [b \in ctas |-> f[b]]
  PROVE  EntryCensus(g, r, ctas) = SumFunctionOnSet(f, ctas)
<1>. DEFINE a == Least(ctas)
            v == Sectors(PredictBase(r, g, a))
<1>1. a \in ctas
  <2>1. ctas \in SUBSET Nat
    BY CoordinateIs
  <2>. QED BY <2>1, LeastIs
<1>2. CASE InvariantModulo(r, ctas)
  <2>1. \A b \in ctas : PredictBase(r, g, b) % SectorBytes = PredictBase(r, g, a) % SectorBytes
    BY <1>1, <1>2, ModuloSame
  <2>2. v \in Nat /\ \A b \in ctas : Sectors(PredictBase(r, g, b)) = v
    BY <1>1, <2>1, SectorsAre
  <2>3. EntryCensus(g, r, ctas) = Cardinality(ctas) * v
    BY <1>2 DEF EntryCensus
  <2>. HIDE DEF v
  <2>. QED BY <2>2, <2>3, SumConstant
<1>3. CASE ~InvariantModulo(r, ctas)
  <2>. DEFINE h == [b \in ctas |-> Sectors(PredictBase(r, g, b))]
  <2>1. EntryCensus(g, r, ctas) = SumFunctionOnSet(h, ctas)
    <3>1. EntryCensus(g, r, ctas) = SumFunction(h)
      BY <1>3 DEF EntryCensus
    <3>2. DOMAIN h = ctas
      OBVIOUS
    <3>. HIDE DEF h
    <3>. QED BY <3>1, <3>2 DEF SumFunction
  <2>2. h = f
    OBVIOUS
  <2>. QED BY <2>1, <2>2
<1>. QED BY <1>2, <1>3

(* What a complete capture is fitted to.                                   *)
LEMMA CompleteFit ==
  ASSUME NEW k \in Workloads, Complete(k), Admitted(k), NEW b \in Grid(k.grid)
  PROVE  LET T == ClassTemplate(k, ClassOf(k, b))
             recs == k.recs[b]
         IN  /\ ClassOf(k, b) \in StructuresOf(k, Train(k)) /\ recs \in Seq(Instruction)
             /\ Slotted(T, recs) /\ Ruled(T, k.grid, FALSE) /\ Predicts(T, k.grid, b, recs)
<1>. DEFINE s == ClassOf(k, b)
            T == ClassTemplate(k, s)
            recs == k.recs[b]
            p == Fitted(k)
<1>1. SelectionAdmitted(k) /\ StructureAdmitted(k)
  BY DEF Admitted
<1>2. k.format = "memc" /\ Train(k) = Sampled(k) /\ Train(k) = Grid(k.grid)
  BY <1>1 DEF SelectionAdmitted, Train
<1>3. Version(k) \in {5, 6, 9}
  BY <1>2, CompleteIsAdmitted
<1>4. s \in StructuresOf(k, Train(k)) /\ recs \in Seq(Instruction)
  BY <1>1, <1>2, ClassOfSampled, RecordsTyped
<1>5. s \in DOMAIN p.classes /\ p.classes[s] = T
  BY <1>4 DEF Fitted
<1>6. RulesFound(T)
  BY <1>5 DEF Admitted
<1>. HIDE DEF p, T, recs, s
<1>7. T = FittedTo(k, b)
  BY DEF FittedTo, T, s
<1>8. Slotted(T, recs) /\ Ruled(T, k.grid, Version(k) \in {1, 11}) /\ Predicts(T, k.grid, b, recs)
  BY <1>1, <1>2, <1>6, <1>7, FittedToIs DEF recs
<1>9. Ruled(T, k.grid, FALSE)
  BY <1>3, <1>8 DEF Ruled
<1>. QED BY <1>4, <1>8, <1>9 DEF T, recs, s

LEMMA CensusCounts ==
  ASSUME NEW k \in Workloads, Complete(k), Admitted(k)
  PROVE  LET fit == Fitted(k)
             census(b) == [i \in DOMAIN k.recs[b] |-> Sectors(k.recs[b][i].base)]
         IN  CensusOf(k, fit.classes, fit.class_of)
               = SumFunction([b \in Grid(k.grid) |-> SumFunction(census(b))])
<1>. DEFINE G == Grid(k.grid)
            S == StructuresOf(k, Train(k))
            T == [s \in S |-> ClassTemplate(k, s)]
            class == [b \in G |-> ClassOf(k, b)]
            I == [s \in S |-> DOMAIN T[s]]
            J == Joined(S, I)
            C == [p \in J |-> {b \in G : class[b] = p[1]}]
            K == Joined(J, C)
            h == [n \in K |-> Sectors(RecordAt(k.recs[n[2]], T[n[1][1]][n[1][2]].slot).base)]
            e == [p \in J |-> EntryCensus(k.grid, T[p[1]][p[2]].rule, C[p])]
            F == [s \in S |-> SumFunction([i \in DOMAIN T[s] |->
                    EntryCensus(k.grid, T[s][i].rule, {b \in G : class[b] = s})])]
            D == [b \in G |-> DOMAIN k.recs[b]]
            L == Joined(G, D)
            m == [q \in L |-> Sectors(k.recs[q[1]][q[2]].base)]
            E == [b \in G |-> SumFunction([i \in DOMAIN k.recs[b] |-> Sectors(k.recs[b][i].base)])]
            phi == [n \in K |-> <<n[2], SlotIndex(k.recs[n[2]], T[n[1][1]][n[1][2]].slot)>>]
<1>1. /\ Fitted(k).classes = T /\ Fitted(k).class_of = class
  BY DEF Fitted
<1>2. CensusOf(k, T, class) = SumFunctionOnSet(F, S)
  <2>1. CensusOf(k, T, class) = SumFunction(F)
    <3>1. DOMAIN T = S
      OBVIOUS
    <3>. HIDE DEF T, class, S
    <3>. QED BY <3>1 DEF CensusOf
  <2>2. DOMAIN F = S
    OBVIOUS
  <2>. HIDE DEF F
  <2>. QED BY <2>1, <2>2 DEF SumFunction
<1>3. k.grid \in Sizes /\ IsFiniteSet(G) /\ G = Grid(k.grid)
  BY GridIs, WorkloadsAssumption DEF Sizes
<1>4. SelectionAdmitted(k) /\ Train(k) = G
  BY DEF Admitted, SelectionAdmitted
<1>5. ASSUME NEW b \in G
      PROVE  /\ class[b] \in S /\ k.recs[b] \in Seq(Instruction)
             /\ Slotted(T[class[b]], k.recs[b]) /\ Ruled(T[class[b]], k.grid, FALSE)
             /\ Predicts(T[class[b]], k.grid, b, k.recs[b])
             /\ IsFiniteSet(DOMAIN k.recs[b]) /\ IsFiniteSet(DOMAIN T[class[b]])
  <2>1. class[b] = ClassOf(k, b) /\ class[b] \in S /\ T[class[b]] = ClassTemplate(k, class[b])
    BY CompleteFit
  <2>2. /\ k.recs[b] \in Seq(Instruction)
        /\ Slotted(T[class[b]], k.recs[b]) /\ Ruled(T[class[b]], k.grid, FALSE)
        /\ Predicts(T[class[b]], k.grid, b, k.recs[b])
    <3>. HIDE DEF T, class
    <3>. QED BY <2>1, CompleteFit
  <2>. HIDE DEF T, class
  <2>3. IsFiniteSet(DOMAIN k.recs[b]) /\ DOMAIN T[class[b]] = DOMAIN k.recs[b]
    BY <2>2, RecordsAre DEF Slotted, IsSequence
  <2>. QED BY <2>1, <2>2, <2>3
<1>6. IsFiniteSet(S) /\ \A s \in S : \E b \in G : class[b] = s
  <2>1. IsFiniteSet(S)
    BY <1>4, StructuresAre
  <2>2. ASSUME NEW s \in S PROVE \E b \in G : class[b] = s
    <3>1. PICK b \in Train(k) : Structure(k.recs[b]) = s
      BY DEF StructuresOf
    <3>2. b \in G /\ b \in Sampled(k)
      BY <1>4, <3>1 DEF Train
    <3>3. ClassOf(k, b) = s
      BY <3>1, <3>2, ClassOfSampled DEF Admitted
    <3>. QED BY <3>2, <3>3
  <2>. QED BY <2>1, <2>2
<1>. HIDE DEF S, T, class, G
<1>7. \A s \in S : IsFiniteSet(I[s]) /\ I[s] = DOMAIN T[s]
  BY <1>5, <1>6
<1>. HIDE DEF I
<1>8. IsFiniteSet(J) /\ \A p : p \in J <=> \E s \in S : \E i \in I[s] : p = <<s, i>>
  BY <1>6, <1>7, JoinedIs
<1>. HIDE DEF J
<1>9. ASSUME NEW p \in J
      PROVE  /\ p[1] \in S /\ p[2] \in DOMAIN T[p[1]] /\ p = <<p[1], p[2]>>
             /\ C[p] = {b \in G : class[b] = p[1]} /\ C[p] \in SUBSET G /\ IsFiniteSet(C[p]) /\ C[p] # {}
  <2>1. p[1] \in S /\ p[2] \in DOMAIN T[p[1]] /\ p = <<p[1], p[2]>>
    BY <1>7, <1>8
  <2>2. C[p] = {b \in G : class[b] = p[1]}
    OBVIOUS
  <2>. HIDE DEF C
  <2>3. C[p] \in SUBSET G /\ C[p] # {}
    BY <1>6, <2>1, <2>2
  <2>. QED BY <1>3, <2>1, <2>2, <2>3, FS_Subset
<1>. HIDE DEF C
<1>10. /\ IsFiniteSet(K)
       /\ \A n : n \in K <=> \E p \in J : \E b \in C[p] : n = <<p, b>>
  BY <1>8, <1>9, JoinedIs
<1>. HIDE DEF K
<1>11. ASSUME NEW n \in K
       PROVE  /\ n[1] \in J /\ n[2] \in C[n[1]] /\ n = <<n[1], n[2]>> /\ n[2] \in G
              /\ class[n[2]] = n[1][1]
              /\ LET recs == k.recs[n[2]]
                     x == T[class[n[2]]][n[1][2]]
                 IN  /\ n[1][2] \in DOMAIN T[class[n[2]]]
                     /\ SlotIndex(recs, x.slot) \in DOMAIN recs
                     /\ RecordAt(recs, x.slot) = recs[SlotIndex(recs, x.slot)]
                     /\ PredictBase(x.rule, k.grid, n[2]) = RecordAt(recs, x.slot).base
                     /\ RecordAt(recs, x.slot).base \in Nat
                     /\ h[n] = Sectors(RecordAt(recs, x.slot).base)
                     /\ phi[n] = <<n[2], SlotIndex(recs, x.slot)>>
  <2>1. /\ n[1] \in J /\ n[2] \in C[n[1]] /\ n = <<n[1], n[2]>>
    BY <1>10
  <2>2. n[2] \in G /\ class[n[2]] = n[1][1] /\ n[1][2] \in DOMAIN T[class[n[2]]]
    BY <1>9, <2>1
  <2>. DEFINE recs == k.recs[n[2]]
              x == T[class[n[2]]][n[1][2]]
  <2>3. /\ h[n] = Sectors(RecordAt(recs, x.slot).base)
        /\ phi[n] = <<n[2], SlotIndex(recs, x.slot)>>
    BY <2>2
  <2>4. x.slot \in Structure(recs) /\ PredictBase(x.rule, k.grid, n[2]) = RecordAt(recs, x.slot).base
    <3>. DEFINE U == T[class[n[2]]]
    <3>1. Slotted(U, recs) /\ Predicts(U, k.grid, n[2], recs) /\ n[1][2] \in DOMAIN U
      BY <1>5, <2>2
    <3>2. x = U[n[1][2]]
      OBVIOUS
    <3>. HIDE DEF U, x, recs
    <3>. QED BY <3>1, <3>2 DEF Slotted, Predicts
  <2>5. recs \in Seq(Instruction)
    BY <1>5, <2>2
  <2>. HIDE DEF recs, x, h, phi
  <2>6. SlotIndex(recs, x.slot) \in DOMAIN recs /\ RecordAt(recs, x.slot) = recs[SlotIndex(recs, x.slot)]
    BY <2>4, <2>5, SlotIndexIs
  <2>7. RecordAt(recs, x.slot).base \in Nat
    BY <2>5, <2>6, RecordsAre
  <2>. QED BY <2>1, <2>2, <2>3, <2>4, <2>6, <2>7 DEF recs, x
<1>. HIDE DEF h, phi
<1>12. ASSUME NEW p \in J
       PROVE  e[p] = SumFunctionOnSet([b \in C[p] |-> h[<<p, b>>]], C[p])
  <2>. DEFINE f == [b \in C[p] |-> h[<<p, b>>]]
              r == T[p[1]][p[2]].rule
  <2>1. e[p] = EntryCensus(k.grid, r, C[p])
    OBVIOUS
  <2>2. GridRule(r, k.grid)
    <3>1. PICK b \in G : class[b] = p[1]
      BY <1>6, <1>9
    <3>. QED BY <1>5, <1>9, <3>1 DEF Ruled
  <2>3. ASSUME NEW b \in C[p]
        PROVE  PredictBase(r, k.grid, b) \in Nat /\ f[b] = Sectors(PredictBase(r, k.grid, b))
    <3>1. <<p, b>> \in K
      BY <1>10
    <3>2. f[b] = h[<<p, b>>]
      OBVIOUS
    <3>. HIDE DEF f
    <3>3. class[b] = p[1] /\ b \in G
      BY <1>9
    <3>. DEFINE n == <<p, b>>
    <3>4. n[1] = p /\ n[2] = b /\ n \in K
      BY <3>1
    <3>5. h[n] = Sectors(RecordAt(k.recs[b], T[class[b]][p[2]].slot).base)
      <4>. HIDE DEF n
      <4>. QED BY <1>11, <3>4
    <3>6. /\ PredictBase(r, k.grid, b) = RecordAt(k.recs[b], T[class[b]][p[2]].slot).base
          /\ RecordAt(k.recs[b], T[class[b]][p[2]].slot).base \in Nat
      <4>. HIDE DEF n
      <4>. QED BY <1>11, <3>3, <3>4
    <3>. QED BY <3>2, <3>5, <3>6
  <2>4. f = [b \in C[p] |-> f[b]]
    OBVIOUS
  <2>5. C[p] \in SUBSET Grid(k.grid) /\ IsFiniteSet(C[p]) /\ C[p] # {}
    BY <1>3, <1>9
  <2>. HIDE DEF f, r, e
  <2>6. EntryCensus(k.grid, r, C[p]) = SumFunctionOnSet(f, C[p])
    BY <1>3, <2>2, <2>3, <2>4, <2>5, EntryCensusIs
  <2>. QED BY <2>1, <2>6 DEF f
<1>13. SumFunctionOnSet(e, J) = SumFunctionOnSet(h, K) /\ \A p \in J : e[p] \in Nat
  <2>1. \A n \in K : h[n] \in Nat
    BY <1>11, SectorsAre
  <2>2. \A p \in J : IsFiniteSet(C[p])
    BY <1>9
  <2>3. \A p \in J : e[p] = SumFunctionOnSet([b \in C[p] |-> h[<<p, b>>]], C[p])
    <3>. HIDE DEF e
    <3>. QED BY <1>12
  <2>. HIDE DEF e
  <2>4. \A n \in Joined(J, C) : h[n] \in Nat
    BY <2>1 DEF K
  <2>5. /\ SumFunctionOnSet(e, J) = SumFunctionOnSet(h, Joined(J, C))
        /\ \A p \in J : e[p] \in Nat
    <3>1. IsFiniteSet(J)
      BY <1>8
    <3>. QED BY <2>2, <2>3, <2>4, <3>1, SumNested, SMTT(30)
  <2>. QED BY <2>5 DEF K
<1>14. SumFunctionOnSet(F, S) = SumFunctionOnSet(e, J)
  <2>1. ASSUME NEW s \in S PROVE F[s] = SumFunctionOnSet([i \in I[s] |-> e[<<s, i>>]], I[s])
    <3>. DEFINE u == [i \in DOMAIN T[s] |->
                        EntryCensus(k.grid, T[s][i].rule, {b \in G : class[b] = s})]
                v == [i \in I[s] |-> e[<<s, i>>]]
    <3>1. F[s] = SumFunction(u) /\ DOMAIN u = I[s]
      BY <1>7
    <3>2. ASSUME NEW i \in I[s]
          PROVE  e[<<s, i>>] = EntryCensus(k.grid, T[s][i].rule, {b \in G : class[b] = s})
      <4>1. <<s, i>> \in J
        BY <1>8
      <4>2. C[<<s, i>>] = {b \in G : class[b] = s}
        BY <1>9, <4>1
      <4>3. e[<<s, i>>] = EntryCensus(k.grid, T[s][i].rule, C[<<s, i>>])
        BY <4>1
      <4>. QED BY <4>2, <4>3
    <3>3. u = v
      <4>. HIDE DEF e
      <4>. QED BY <1>7, <3>2
    <3>. HIDE DEF u, F
    <3>4. F[s] = SumFunctionOnSet(u, I[s])
      BY <3>1 DEF SumFunction
    <3>. QED BY <3>3, <3>4
  <2>. HIDE DEF e, F
  <2>2. \A s \in S : F[s] = SumFunctionOnSet([i \in I[s] |-> e[<<s, i>>]], I[s])
    BY <2>1
  <2>3. \A p \in Joined(S, I) : e[p] \in Nat
    BY <1>13 DEF J
  <2>4. SumFunctionOnSet(F, S) = SumFunctionOnSet(e, Joined(S, I))
    BY <1>6, <1>7, <2>2, <2>3, SumNested
  <2>. QED BY <2>4 DEF J
<1>15. \A b \in G : IsFiniteSet(D[b]) /\ D[b] = DOMAIN k.recs[b]
  BY <1>5
<1>. HIDE DEF D
<1>16. /\ IsFiniteSet(L)
       /\ \A q : q \in L <=> \E b \in G : \E i \in D[b] : q = <<b, i>>
  BY <1>3, <1>15, JoinedIs
<1>. HIDE DEF L
<1>17. OneToOne(phi, K, L)
  <2>1. phi \in [K -> L]
    <3>1. ASSUME NEW n \in K PROVE phi[n] \in L
      <4>. DEFINE i == SlotIndex(k.recs[n[2]], T[class[n[2]]][n[1][2]].slot)
      <4>1. phi[n] = <<n[2], i>> /\ n[2] \in G /\ i \in DOMAIN k.recs[n[2]]
        BY <1>11
      <4>. HIDE DEF i
      <4>. QED BY <1>15, <1>16, <4>1
    <3>2. phi = [n \in K |-> phi[n]]
      BY DEF phi
    <3>. QED BY <3>1, <3>2
  <2>2. ASSUME NEW n \in K, NEW o \in K, phi[n] = phi[o] PROVE n = o
    <3>1. n[2] = o[2] /\ n[2] \in G /\ class[n[2]] = n[1][1] /\ class[o[2]] = o[1][1]
      <4>1. /\ n[2] \in G /\ class[n[2]] = n[1][1] /\ class[o[2]] = o[1][1]
            /\ phi[n] = <<n[2], SlotIndex(k.recs[n[2]], T[class[n[2]]][n[1][2]].slot)>>
            /\ phi[o] = <<o[2], SlotIndex(k.recs[o[2]], T[class[o[2]]][o[1][2]].slot)>>
        BY <1>11
      <4>2. phi[n][1] = n[2] /\ phi[o][1] = o[2]
        BY <4>1
      <4>. QED BY <2>2, <4>1, <4>2
    <3>. DEFINE b == n[2]
                U == T[class[b]]
                recs == k.recs[b]
                f == [i \in DOMAIN U |-> SlotIndex(recs, U[i].slot)]
    <3>2. OneToOne(f, DOMAIN U, DOMAIN recs)
      <4>1. recs \in Seq(Instruction) /\ Slotted(U, recs)
        BY <1>5, <3>1
      <4>. HIDE DEF U, recs
      <4>. QED BY <4>1, SlotsMatch
    <3>3. /\ n[1][2] \in DOMAIN U /\ o[1][2] \in DOMAIN U
          /\ SlotIndex(recs, U[n[1][2]].slot) = SlotIndex(recs, U[o[1][2]].slot)
      <4>1. phi[n] = <<b, SlotIndex(recs, U[n[1][2]].slot)>> /\ n[1][2] \in DOMAIN U
        BY <1>11
      <4>2. phi[o] = <<b, SlotIndex(recs, U[o[1][2]].slot)>> /\ o[1][2] \in DOMAIN U
        BY <1>11, <3>1
      <4>. DEFINE i == SlotIndex(recs, U[n[1][2]].slot)
                  j == SlotIndex(recs, U[o[1][2]].slot)
      <4>3. <<b, i>> = <<b, j>>
        BY <2>2, <4>1, <4>2
      <4>. HIDE DEF i, j, b
      <4>4. i = j
        BY <4>3
      <4>. QED BY <4>1, <4>2, <4>4 DEF i, j
    <3>4. n[1][2] = o[1][2]
      <4>1. f[n[1][2]] = f[o[1][2]]
        BY <3>3
      <4>. HIDE DEF f
      <4>. QED BY <3>2, <3>3, <4>1 DEF OneToOne
    <3>5. n[1] = o[1]
      <4>1. n[1] \in J /\ o[1] \in J
        BY <1>11
      <4>2. n[1] = <<n[1][1], n[1][2]>> /\ o[1] = <<o[1][1], o[1][2]>>
        BY <1>9, <4>1
      <4>. QED BY <3>1, <3>4, <4>2
    <3>. QED BY <1>11, <3>1, <3>5
  <2>3. ASSUME NEW q \in L PROVE \E n \in K : phi[n] = q
    <3>1. PICK b \in G : \E i \in DOMAIN k.recs[b] : q = <<b, i>>
      BY <1>15, <1>16
    <3>2. PICK j \in DOMAIN k.recs[b] : q = <<b, j>>
      BY <3>1
    <3>. DEFINE U == T[class[b]]
                recs == k.recs[b]
                f == [i \in DOMAIN U |-> SlotIndex(recs, U[i].slot)]
    <3>3. OneToOne(f, DOMAIN U, DOMAIN recs)
      <4>1. recs \in Seq(Instruction) /\ Slotted(U, recs)
        BY <1>5
      <4>. HIDE DEF U, recs
      <4>. QED BY <4>1, SlotsMatch
    <3>4. PICK i \in DOMAIN U : f[i] = j
      BY <3>2, <3>3 DEF OneToOne
    <3>. DEFINE p == <<class[b], i>>
                n == <<p, b>>
    <3>5. p \in J
      BY <1>5, <1>7, <1>8
    <3>6. b \in C[p]
      BY <1>9, <3>5
    <3>7. n \in K
      BY <1>10, <3>5, <3>6
    <3>8. n[1][2] = i /\ n[2] = b
      OBVIOUS
    <3>. HIDE DEF n
    <3>9. phi[n] = <<b, SlotIndex(recs, U[i].slot)>>
      BY <1>11, <3>7, <3>8
    <3>. QED BY <3>2, <3>4, <3>7, <3>9
  <2>. QED BY <2>1, <2>2, <2>3 DEF OneToOne
<1>18. SumFunctionOnSet(m, L) = SumFunctionOnSet(h, K)
  <2>1. ASSUME NEW n \in K PROVE h[n] \in Nat /\ m[phi[n]] = h[n]
    <3>1. phi[n] \in L
      BY <1>17 DEF OneToOne
    <3>2. m[phi[n]] = Sectors(k.recs[phi[n][1]][phi[n][2]].base)
      BY <3>1
    <3>. DEFINE recs == k.recs[n[2]]
                x == T[class[n[2]]][n[1][2]]
                i == SlotIndex(recs, x.slot)
    <3>3. /\ phi[n] = <<n[2], i>> /\ RecordAt(recs, x.slot) = recs[i]
          /\ RecordAt(recs, x.slot).base \in Nat /\ h[n] = Sectors(RecordAt(recs, x.slot).base)
      BY <1>11
    <3>. HIDE DEF i, x, m
    <3>4. m[phi[n]] = Sectors(recs[i].base)
      BY <3>2, <3>3
    <3>. QED BY <3>3, <3>4, SectorsAre
  <2>. HIDE DEF m
  <2>. QED BY <1>10, <1>17, <2>1, SumAlong
<1>19. SumFunctionOnSet(E, G) = SumFunctionOnSet(m, L)
  <2>1. ASSUME NEW b \in G PROVE E[b] = SumFunctionOnSet([i \in D[b] |-> m[<<b, i>>]], D[b])
    <3>. DEFINE u == [i \in DOMAIN k.recs[b] |-> Sectors(k.recs[b][i].base)]
                v == [i \in D[b] |-> m[<<b, i>>]]
    <3>1. E[b] = SumFunction(u) /\ DOMAIN u = D[b]
      BY <1>15
    <3>2. ASSUME NEW i \in D[b] PROVE m[<<b, i>>] = Sectors(k.recs[b][i].base)
      <4>1. <<b, i>> \in L
        BY <1>16
      <4>. QED BY <4>1
    <3>3. u = v
      <4>. HIDE DEF m
      <4>. QED BY <1>15, <3>2
    <3>. HIDE DEF u, E
    <3>4. E[b] = SumFunctionOnSet(u, D[b])
      BY <3>1 DEF SumFunction
    <3>. QED BY <3>3, <3>4
  <2>2. ASSUME NEW q \in L PROVE m[q] \in Nat
    <3>0. PICK b \in G : \E i \in DOMAIN k.recs[b] : q = <<b, i>>
      BY <1>15, <1>16
    <3>1. PICK i \in DOMAIN k.recs[b] : q = <<b, i>>
      BY <3>0
    <3>2. m[q] = Sectors(k.recs[b][i].base)
      BY <3>1
    <3>3. k.recs[b][i].base \in Nat
      BY <1>5, RecordsAre
    <3>. QED BY <3>2, <3>3, SectorsAre
  <2>. HIDE DEF m, E
  <2>3. \A b \in G : E[b] = SumFunctionOnSet([i \in D[b] |-> m[<<b, i>>]], D[b])
    BY <2>1
  <2>4. \A q \in Joined(G, D) : m[q] \in Nat
    BY <2>2 DEF L
  <2>5. IsFiniteSet(G) /\ \A b \in G : IsFiniteSet(D[b])
    BY <1>3, <1>15
  <2>6. SumFunctionOnSet(E, G) = SumFunctionOnSet(m, Joined(G, D))
    BY <2>3, <2>4, <2>5, SumNested, SMTT(30)
  <2>. QED BY <2>6 DEF L
<1>20. SumFunction(E) = SumFunctionOnSet(E, G)
  <2>1. DOMAIN E = G
    OBVIOUS
  <2>. HIDE DEF E
  <2>. QED BY <2>1 DEF SumFunction
<1>21. CensusOf(k, T, class) = SumFunction(E)
  BY <1>2, <1>13, <1>14, <1>18, <1>19, <1>20
<1>. HIDE DEF F
<1>. QED BY <1>1, <1>21 DEF E, G

(* A profile that is admitted is the fit of the samples.                   *)
Fit == w \in Workloads /\ (phase = "profiled" => Admitted(w) /\ profile = ProfileOf(w))

THEOREM Fitting == Spec => []Fit
<1>1. Init => Fit
  BY DEF Init, Fit
<1>2. Fit /\ [Next]_vars => Fit'
  <2>. SUFFICES ASSUME Fit, [Next]_vars PROVE Fit'
    OBVIOUS
  <2>1. CASE Profile
    BY <2>1 DEF Fit, Profile
  <2>2. CASE Rebind
    BY <2>2 DEF Fit, Rebind
  <2>3. CASE Open
    BY <2>3 DEF Fit, Open
  <2>4. CASE Emit
    <3>1. phase # "profiled" /\ phase' # "profiled" /\ w' = w
      BY <2>4 DEF Emit
    <3>. QED BY <3>1 DEF Fit
  <2>5. CASE Close
    BY <2>5 DEF Fit, Close
  <2>6. CASE UNCHANGED vars
    BY <2>6 DEF Fit, vars
  <2>. QED BY <2>1, <2>2, <2>3, <2>4, <2>5, <2>6 DEF Next
<1>. QED BY <1>1, <1>2, PTL DEF Spec

(* The census of a completely sampled kernel, multiplied for the rules     *)
(* that keep the residue and summed for the others, is the number of       *)
(* sectors that all its CTAs request.                                      *)
THEOREM CompleteCounted == Spec => [](Complete(w) => CensusExact)
<1>1. Fit => (Complete(w) => CensusExact)
  <2>. SUFFICES ASSUME Fit, Complete(w), phase = "profiled", w.fitter = "sglang"
                PROVE  LET census(b) == [i \in DOMAIN w.recs[b] |-> Sectors(w.recs[b][i].base)]
                       IN  profile.census
                             = SumFunction([b \in Grid(w.grid) |-> SumFunction(census(b))])
    BY DEF CensusExact
  <2>1. profile.census = CensusOf(w, Fitted(w).classes, Fitted(w).class_of)
    <3>1. profile = ProfileOf(w) /\ w.fitter # "r15"
      BY DEF Fit
    <3>. QED BY <3>1 DEF ProfileOf
  <2>. QED BY <2>1, CensusCounts DEF Fit
<1>. QED BY <1>1, Fitting, PTL

-----------------------------------------------------------------------------
(* Finite sets of numbers, and pages.                                      *)

(* The image of a finite set.                                              *)
LEMMA ImageIs ==
  ASSUME NEW S, IsFiniteSet(S), NEW f, f = [x \in S |-> f[x]]
  PROVE  IsFiniteSet({f[x] : x \in S})
<1>. DEFINE T == {f[x] : x \in S}
<1>1. f \in Surjection(S, T)
  BY DEF Surjection
<1>. QED BY <1>1, FS_Surjection

(* Finite sets of integers have a least and a greatest member: there are   *)
(* fewest below it, or above.                                              *)
LEMMA LeastInt ==
  ASSUME NEW S, IsFiniteSet(S), S \subseteq Int, S # {}
  PROVE  Min(S) \in S /\ \A y \in S : Min(S) =< y
<1>. DEFINE below(x) == {y \in S : y < x}
            R == {Cardinality(below(x)) : x \in S}
<1>1. \A x \in S : IsFiniteSet(below(x)) /\ Cardinality(below(x)) \in Nat
  <2>1. \A x \in S : below(x) \in SUBSET S
    OBVIOUS
  <2>. QED BY <2>1, FS_Subset, FS_CardinalityType
<1>2. R \in SUBSET Nat /\ R # {}
  BY <1>1
<1>3. Min(R) \in R /\ \A n \in R : Min(R) =< n
  <2>. HIDE DEF R
  <2>. QED BY <1>2, LeastOf
<1>4. PICK x \in S : \A y \in S : Cardinality(below(x)) =< Cardinality(below(y))
  BY <1>3
<1>5. ASSUME NEW y \in S, y < x
      PROVE  FALSE
  <2>1. (\A z \in S : z < y => z < x) /\ ~(y < y)
    BY <1>5
  <2>2. below(y) \subseteq below(x) /\ y \in below(x) /\ y \notin below(y)
    BY <1>5, <2>1, Zenon
  <2>3. Cardinality(below(y)) =< Cardinality(below(x)) /\ Cardinality(below(y)) # Cardinality(below(x))
    <3>. HIDE DEF below
    <3>1. below(y) # below(x)
      BY <2>2
    <3>. QED BY <1>1, <2>2, <3>1, FS_Subset
  <2>. HIDE DEF below
  <2>. QED BY <1>1, <1>4, <2>3
<1>6. \A y \in S : x =< y
  BY <1>5
<1>. HIDE DEF below, R
<1>. QED BY <1>6 DEF Min

LEMMA GreatestInt ==
  ASSUME NEW S, IsFiniteSet(S), S \subseteq Int, S # {}
  PROVE  Max(S) \in S /\ \A y \in S : y =< Max(S)
<1>. DEFINE T == {-x : x \in S}
            f == [x \in S |-> -x]
<1>1. IsFiniteSet(T)
  <2>1. \A x \in S : f[x] = -x
    OBVIOUS
  <2>2. T = {f[x] : x \in S} /\ f = [x \in S |-> f[x]]
    BY <2>1
  <2>. HIDE DEF f, T
  <2>. QED BY <2>2, ImageIs
<1>2. T \subseteq Int /\ T # {}
  <2>1. \A x \in S : x \in Int /\ -x \in Int
    OBVIOUS
  <2>. QED BY <2>1
<1>. HIDE DEF T
<1>3. Min(T) \in T /\ \A t \in T : Min(T) =< t
  BY <1>1, <1>2, LeastInt
<1>4. PICK x \in S : \A y \in S : -x =< -y
  BY <1>3 DEF T
<1>5. \A y \in S : x >= y
  BY <1>4
<1>. QED BY <1>5 DEF Max

(* The pages below and above an address.                                   *)
LEMMA PagesAre ==
  ASSUME NEW n \in Int
  PROVE  /\ PageDown(n) \in Int /\ PageDown(n) % Page = 0 /\ PageDown(n) =< n
         /\ PageUp(n) \in Int /\ PageUp(n) % Page = 0 /\ n =< PageUp(n)
         /\ n \in Nat => PageDown(n) \in Nat /\ PageUp(n) \in Nat
<1>1. Page \in Nat /\ Page > 0
  BY BindingAssumption
<1>2. \A q \in Int : q * Page \in Int /\ (q * Page) % Page = 0
  <2>. TAKE q \in Int
  <2>1. PICK m \in Int : m = q * Page
    BY <1>1
  <2>2. m \div Page \in Int /\ m % Page \in 0 .. Page - 1 /\ m = Page * (m \div Page) + (m % Page)
    BY <1>1, RemainderIs
  <2>. QED BY <1>1, <2>1, <2>2
<1>3. ASSUME NEW m \in Int
      PROVE  /\ PageDown(m) \in Int /\ PageDown(m) % Page = 0
             /\ PageDown(m) =< m /\ m < PageDown(m) + Page
             /\ m \in Nat => PageDown(m) \in Nat
  <2>1. m \div Page \in Int /\ m % Page \in 0 .. Page - 1 /\ m = Page * (m \div Page) + (m % Page)
    BY <1>1, RemainderIs
  <2>2. PageDown(m) = (m \div Page) * Page
    BY DEF PageDown
  <2>3. m \in Nat => m \div Page \in Nat
    BY <1>1
  <2>4. PageDown(m) \in Int /\ PageDown(m) % Page = 0
    BY <1>2, <2>1, <2>2
  <2>5. (m \div Page) * Page = Page * (m \div Page)
    BY <1>1, <2>1
  <2>6. PageDown(m) = m - (m % Page)
    BY <1>1, <2>1, <2>2, <2>5
  <2>7. m \in Nat => PageDown(m) \in Nat
    BY <1>1, <2>2, <2>3
  <2>. QED BY <1>1, <2>1, <2>4, <2>6, <2>7
<1>. QED BY <1>1, <1>3 DEF PageUp

-----------------------------------------------------------------------------
(* The private objects of a binding.                                       *)

(* An interval [lo, hi) of addresses.                                      *)
IsInterval(i) == i.lo \in Nat /\ i.hi \in Nat /\ i.lo < i.hi

(* Every interval lies in the cluster that begins last at or before it, no *)
(* cluster's interval reaches the beginning of the next one.               *)
LEMMA ClustersAre ==
  ASSUME NEW P, \A i \in P : IsInterval(i), NEW i \in P
  PROVE  /\ Begins(P) \subseteq Nat
         /\ ClusterOf(i, P) \in Begins(P) /\ ClusterOf(i, P) =< i.lo
         /\ \A b \in Begins(P) : b > ClusterOf(i, P) => i.hi < b
<1>. DEFINE B == {b \in Begins(P) : b =< i.lo}
            L == {n.lo : n \in P}
<1>1. Begins(P) \subseteq Nat
  BY DEF Begins, IsInterval
<1>2. B # {}
  <2>1. L \in SUBSET Nat /\ L # {}
    BY DEF IsInterval
  <2>. HIDE DEF L
  <2>2. Min(L) \in L /\ \A y \in L : Min(L) =< y
    BY <2>1, LeastOf
  <2>3. PICK n \in P : \A m \in P : n.lo =< m.lo
    BY <2>2 DEF L
  <2>4. \A m \in P : ~(m.lo < n.lo)
    BY <2>3 DEF IsInterval
  <2>5. n.lo \in Begins(P)
    BY <2>4 DEF Begins
  <2>. QED BY <2>3, <2>5
<1>3. B \in SUBSET (0 .. i.lo) /\ i.lo \in Nat
  BY <1>1 DEF IsInterval
<1>. HIDE DEF B
<1>4. Max(B) \in B /\ \A y \in B : y =< Max(B)
  BY <1>2, <1>3, GreatestOf
<1>5. ClusterOf(i, P) = Max(B)
  BY DEF ClusterOf, B
<1>6. ASSUME NEW b \in Begins(P), b > ClusterOf(i, P)
      PROVE  i.hi < b
  <2>1. ~(b =< i.lo)
    BY <1>1, <1>3, <1>4, <1>5, <1>6 DEF B
  <2>2. i.lo < b
    BY <1>1, <1>3, <2>1
  <2>3. PICK n \in P : b = n.lo /\ \A m \in P : m.lo < n.lo => m.hi < n.lo
    BY DEF Begins
  <2>. QED BY <2>2, <2>3
<1>. QED BY <1>1, <1>4, <1>5, <1>6 DEF B

(* What one more member adds to a sum.                                     *)
LEMMA UnitsStep ==
  ASSUME NEW S, IsFiniteSet(S), NEW f, \A x \in S : f[x] \in Nat, NEW x \in S
  PROVE  Cardinality(Units(f, S)) = f[x] + Cardinality(Units(f, S \ {x}))
BY UnitsOf

(* Pages are taken for each cluster: those before one cluster, it and the  *)
(* page after it end before those of any later one.                        *)
LEMMA TakenGrows ==
  ASSUME NEW B, IsFiniteSet(B), B \subseteq Nat, NEW P,
         \A b \in B : PrivateBytes(b, P) \in Nat, NEW b \in B, NEW c \in B, b < c
  PROVE  /\ Taken({d \in B : d < b}, P) \in Nat /\ Taken({d \in B : d < c}, P) \in Nat
         /\ Taken({d \in B : d < b}, P) + PrivateBytes(b, P) + Page =< Taken({d \in B : d < c}, P)
<1>. DEFINE f == [d \in B |-> PrivateBytes(d, P) + Page]
            S == {d \in B : d < b}
            T == {d \in B : d < c}
<1>1. \A d \in B : f[d] \in Nat
  BY BindingAssumption
<1>2. S \in SUBSET B /\ T \in SUBSET B /\ b \notin S /\ S \cup {b} \subseteq T
  <2>1. (\A d \in B : d < b => d < c) /\ ~(b < b)
    OBVIOUS
  <2>. QED BY <2>1, Zenon
<1>3. IsFiniteSet(S) /\ IsFiniteSet(T)
  BY <1>2, FS_Subset
<1>4. ASSUME NEW U \in SUBSET B, IsFiniteSet(U)
      PROVE  /\ Taken(U, P) = Cardinality(Units(f, U)) /\ Taken(U, P) \in Nat
             /\ IsFiniteSet(Units(f, U))
  <2>. DEFINE h == [d \in U |-> PrivateBytes(d, P) + Page]
  <2>1. DOMAIN h = U /\ \A d \in U : h[d] = f[d]
    OBVIOUS
  <2>2. Taken(U, P) = SumFunctionOnSet(h, U)
    BY <2>1 DEF Taken, SumFunction
  <2>. HIDE DEF h, f
  <2>3. \A d \in U : h[d] \in Nat
    BY <1>1, <2>1
  <2>4. Units(h, U) = Units(f, U)
    BY <2>1 DEF Units
  <2>. QED BY <1>4, <2>2, <2>3, <2>4, SumCounts
<1>5. T = S \cup (T \ S) /\ b \in T
  BY <1>2
<1>. DEFINE U == S \cup {b}
<1>6. U \in SUBSET B /\ IsFiniteSet(U)
  BY <1>2, <1>3, FS_AddElement
<1>. HIDE DEF f, S, T
<1>7. Cardinality(Units(f, U)) = f[b] + Cardinality(Units(f, S))
  <2>1. U \ {b} = S /\ b \in U
    BY <1>2
  <2>2. \A d \in U : f[d] \in Nat
    BY <1>1, <1>6
  <2>. HIDE DEF U
  <2>3. Cardinality(Units(f, U)) = f[b] + Cardinality(Units(f, U \ {b}))
    BY <1>6, <2>1, <2>2, UnitsStep
  <2>. QED BY <2>1, <2>3
<1>8. Cardinality(Units(f, U)) =< Cardinality(Units(f, T))
  <2>1. Units(f, U) \in SUBSET Units(f, T)
    BY <1>2 DEF Units
  <2>. QED BY <1>2, <1>3, <1>4, <2>1, FS_Subset
<1>9. f[b] = PrivateBytes(b, P) + Page
  BY DEF f
<1>10. /\ Taken(S, P) \in Nat /\ Taken(T, P) \in Nat
       /\ Taken(S, P) + f[b] =< Taken(T, P)
  BY <1>1, <1>2, <1>3, <1>4, <1>6, <1>7, <1>8
<1>. QED BY <1>9, <1>10, BindingAssumption DEF S, T

(* Whole pages.                                                            *)
Pages(n) == n \in Int /\ \E q \in Int : n = Page * q

(* They are the multiples of Page.                                         *)
LEMMA PagesWhole ==
  /\ \A n \in Int : n % Page = 0 <=> Pages(n)
  /\ \A m, n : Pages(m) /\ Pages(n) => Pages(m + n) /\ Pages(m - n)
<1>1. Page \in Nat /\ Page > 0
  BY BindingAssumption
<1>2. ASSUME NEW n \in Int
      PROVE  n % Page = 0 <=> Pages(n)
  <2>1. n \div Page \in Int /\ n % Page \in 0 .. Page - 1 /\ n = Page * (n \div Page) + (n % Page)
    BY <1>1, RemainderIs
  <2>2. ASSUME n % Page = 0
        PROVE  Pages(n)
    <3>1. Page * (n \div Page) \in Int
      BY <1>1, <2>1
    <3>2. n = Page * (n \div Page)
      BY <2>1, <2>2, <3>1
    <3>. QED BY <2>1, <3>2, Zenon DEF Pages
  <2>3. ASSUME Pages(n)
        PROVE  n % Page = 0
    <3>1. PICK q \in Int : n = Page * q
      BY <2>3 DEF Pages
    <3>2. PICK d \in Int : d = q - (n \div Page)
      BY <2>1
    <3>3. Page * d = Page * q - Page * (n \div Page)
      BY <1>1, <2>1, <3>2
    <3>4. Page * d = n % Page /\ Page * d \in Int
      BY <1>1, <2>1, <3>1, <3>3
    <3>5. ~(d >= 1) /\ ~(d =< -1)
      <4>1. d >= 1 => Page * d >= Page
        BY <1>1
      <4>2. d =< -1 => Page * d =< -Page
        BY <1>1
      <4>. QED BY <1>1, <2>1, <3>4, <4>1, <4>2
    <3>6. d = 0
      BY <3>5
    <3>. QED BY <1>1, <3>4, <3>6
  <2>. QED BY <2>2, <2>3
<1>3. ASSUME NEW m, NEW n, Pages(m), Pages(n)
      PROVE  Pages(m + n) /\ Pages(m - n)
  <2>1. PICK p \in Int : m = Page * p
    BY <1>3 DEF Pages
  <2>2. PICK q \in Int : n = Page * q
    BY <1>3 DEF Pages
  <2>3. m + n = Page * (p + q) /\ m - n = Page * (p - q)
    BY <1>1, <2>1, <2>2
  <2>4. p + q \in Int /\ p - q \in Int /\ m + n \in Int /\ m - n \in Int
    BY <1>3 DEF Pages
  <2>. QED BY <2>3, <2>4, Zenon DEF Pages
<1>. QED BY <1>2, <1>3

(* A sum of whole pages.                                                   *)
LEMMA SumPages ==
  ASSUME NEW S, IsFiniteSet(S), NEW f, \A x \in S : f[x] \in Nat /\ Pages(f[x])
  PROVE  Pages(SumFunctionOnSet(f, S))
<1>. DEFINE q == [x \in S |-> CHOOSE m \in Int : f[x] = Page * m]
            G == [s \in SUBSET S |-> Page * Cardinality(Units(q, s))]
<1>1. Page \in Nat /\ Page > 0
  BY BindingAssumption
<1>2. ASSUME NEW x \in S
      PROVE  q[x] \in Nat /\ f[x] = Page * q[x]
  <2>1. \E m \in Int : f[x] = Page * m
    BY DEF Pages
  <2>2. q[x] \in Int /\ f[x] = Page * q[x]
    BY <2>1
  <2>. HIDE DEF q
  <2>3. PICK m \in Int : m = q[x]
    BY <2>2
  <2>4. m < 0 => Page * m < 0
    BY <1>1
  <2>. QED BY <2>2, <2>3, <2>4
<1>. HIDE DEF q
<1>3. \A s \in SUBSET S : IsFiniteSet(s) /\ IsFiniteSet(Units(q, s)) /\ Cardinality(Units(q, s)) \in Nat
  BY <1>2, UnitsOf, FS_Subset, FS_CardinalityType
<1>4. Accumulates(G, f, S)
  <2>1. G[{}] = 0
    <3>1. Units(q, {}) = {}
      BY DEF Units
    <3>. QED BY <1>1, <3>1, FS_EmptySet
  <2>2. ASSUME NEW s \in SUBSET S, NEW x \in s
        PROVE  G[s] = f[x] + G[s \ {x}]
    <3>1. \A y \in s : q[y] \in Nat
      BY <1>2
    <3>2. Cardinality(Units(q, s)) = q[x] + Cardinality(Units(q, s \ {x}))
      BY <1>3, <3>1, UnitsStep
    <3>3. Cardinality(Units(q, s \ {x})) \in Nat /\ q[x] \in Nat /\ s \ {x} \in SUBSET S
      BY <1>2, <1>3
    <3>4. PICK m \in Nat : m = Cardinality(Units(q, s \ {x}))
      BY <3>3
    <3>5. Page * (q[x] + m) = Page * q[x] + Page * m
      BY <1>1, <3>3
    <3>6. G[s] = Page * (q[x] + m) /\ G[s \ {x}] = Page * m
      BY <3>2, <3>3, <3>4
    <3>7. f[x] = Page * q[x]
      BY <1>2
    <3>. QED BY <3>5, <3>6, <3>7
  <2>. HIDE DEF G
  <2>. QED BY <2>1, <2>2 DEF Accumulates
<1>5. SumFunctionOnSet(f, S) = G[S]
  <2>. HIDE DEF G
  <2>. QED BY <1>4, SumIs
<1>6. PICK m \in Nat : G[S] = Page * m
  BY <1>3
<1>. QED BY <1>1, <1>5, <1>6 DEF Pages

(* What the private objects are promised: each interval moves by whole     *)
(* pages to or above the cursor, and two of them move together or are      *)
(* apart before and after.                                                 *)
Apart(i, s, j, t) == i.hi =< j.lo /\ i.hi + s =< j.lo + t

(* Private objects go to pages of their own.                               *)
LEMMA PrivateIs ==
  ASSUME NEW P, IsFiniteSet(P), \A i \in P : IsInterval(i), NEW F \in Nat, F % Page = 0
  PROVE  LET shift(i) == PrivateShift(i, P, F)
         IN  /\ \A i \in P : shift(i) \in Int /\ shift(i) % Page = 0 /\ F =< i.lo + shift(i)
             /\ \A i, j \in P : \/ shift(i) = shift(j)
                                \/ Apart(i, shift(i), j, shift(j)) \/ Apart(j, shift(j), i, shift(i))
<1>. DEFINE shift(i) == PrivateShift(i, P, F)
            B == Begins(P)
            before(b) == Taken({c \in B : c < b}, P)
            lo == [i \in P |-> i.lo]
<1>1. Page \in Nat /\ Page > 0
  BY BindingAssumption
<1>2. B \subseteq Nat
  BY DEF Begins, IsInterval
<1>3. IsFiniteSet(B)
  <2>1. IsFiniteSet({lo[i] : i \in P})
    <3>1. lo = [i \in P |-> lo[i]]
      OBVIOUS
    <3>. HIDE DEF lo
    <3>. QED BY <3>1, ImageIs
  <2>2. \A i \in P : lo[i] = i.lo
    OBVIOUS
  <2>. HIDE DEF lo
  <2>3. B \in SUBSET {lo[i] : i \in P}
    BY <2>2 DEF Begins
  <2>. QED BY <2>1, <2>3, FS_Subset
<1>. HIDE DEF B, lo
<1>4. \A i \in P : /\ ClusterOf(i, P) \in B /\ ClusterOf(i, P) =< i.lo
                   /\ \A b \in B : b > ClusterOf(i, P) => i.hi < b
  BY ClustersAre DEF B
<1>5. ASSUME NEW i \in P
      PROVE  /\ i.hi =< ClusterEnd(ClusterOf(i, P), P)
  <2>. DEFINE b == ClusterOf(i, P)
              Q == {n \in P : ClusterOf(n, P) = b}
              hi == [n \in Q |-> n.hi]
              E == {hi[n] : n \in Q}
  <2>1. i \in Q /\ Q \in SUBSET P
    OBVIOUS
  <2>2. \A n \in Q : hi[n] = n.hi /\ n.hi \in Nat
    BY DEF IsInterval
  <2>3. E = {n.hi : n \in Q} /\ hi = [n \in Q |-> hi[n]]
    OBVIOUS
  <2>4. IsFiniteSet(Q)
    BY <2>1, FS_Subset
  <2>5. ClusterEnd(b, P) = Max(E)
    BY <2>3 DEF ClusterEnd
  <2>. HIDE DEF b, Q, hi
  <2>6. IsFiniteSet(E)
    BY <2>3, <2>4, ImageIs
  <2>7. E \subseteq Int /\ i.hi \in E
    BY <2>1, <2>2
  <2>. HIDE DEF E
  <2>8. i.hi =< Max(E)
    BY <2>6, <2>7, GreatestInt
  <2>. QED BY <2>5, <2>8 DEF b
<1>6. \A b \in B : ClusterEnd(b, P) \in Int /\ ClusterEnd(b, P) > b
  <2>. SUFFICES ASSUME NEW b \in B
                PROVE  ClusterEnd(b, P) \in Int /\ ClusterEnd(b, P) > b
    OBVIOUS
  <2>1. PICK i \in P : b = i.lo
    BY DEF B, Begins
  <2>2. ClusterOf(i, P) = b
    <3>1. i.lo < i.hi /\ i.lo \in Nat /\ i.hi \in Nat
      BY DEF IsInterval
    <3>2. ~(b > ClusterOf(i, P))
      BY <1>4, <2>1, <3>1
    <3>. QED BY <1>2, <1>4, <2>1, <3>1, <3>2
  <2>3. i.hi =< ClusterEnd(b, P) /\ i.hi > b /\ i.hi \in Nat /\ b \in Nat
    BY <1>5, <2>1, <2>2 DEF IsInterval
  <2>. DEFINE Q == {n \in P : ClusterOf(n, P) = b}
              hi == [n \in Q |-> n.hi]
              E == {hi[n] : n \in Q}
  <2>4. i \in Q /\ Q \in SUBSET P
    BY <2>2
  <2>5. E \subseteq Int /\ E # {}
    <3>1. \A n \in Q : hi[n] = n.hi /\ n.hi \in Nat
      BY DEF IsInterval
    <3>. QED BY <2>4, <3>1
  <2>6. ClusterEnd(b, P) = Max(E) /\ hi = [n \in Q |-> hi[n]]
    BY DEF ClusterEnd
  <2>7. IsFiniteSet(Q)
    BY <2>4, FS_Subset
  <2>. HIDE DEF Q, hi
  <2>8. IsFiniteSet(E)
    BY <2>6, <2>7, ImageIs
  <2>. HIDE DEF E
  <2>9. Max(E) \in E
    BY <2>5, <2>8, GreatestInt
  <2>. QED BY <2>3, <2>5, <2>6, <2>9
<1>7. \A b \in B : /\ PrivateBytes(b, P) \in Nat
                   /\ ClusterEnd(b, P) - PageDown(b) =< PrivateBytes(b, P)
  <2>. SUFFICES ASSUME NEW b \in B
                PROVE  /\ PrivateBytes(b, P) \in Nat
                       /\ ClusterEnd(b, P) - PageDown(b) =< PrivateBytes(b, P)
    OBVIOUS
  <2>1. PageDown(b) \in Int /\ PageDown(b) =< b /\ b \in Nat
    BY <1>2, PagesAre
  <2>2. ClusterEnd(b, P) - PageDown(b) \in Nat
    BY <1>6, <2>1
  <2>. QED BY <2>2, PagesAre DEF PrivateBytes
<1>8. \A b \in B : before(b) \in Nat /\ Pages(before(b))
  <2>. SUFFICES ASSUME NEW b \in B
                PROVE  before(b) \in Nat /\ Pages(before(b))
    OBVIOUS
  <2>. DEFINE S == {c \in B : c < b}
              h == [c \in S |-> PrivateBytes(c, P) + Page]
  <2>1. S \in SUBSET B
    OBVIOUS
  <2>2. IsFiniteSet(S)
    BY <1>3, <2>1, FS_Subset
  <2>3. Taken(S, P) = SumFunctionOnSet(h, S) /\ \A c \in S : h[c] = PrivateBytes(c, P) + Page
    BY DEF Taken, SumFunction
  <2>4. \A c \in S : Pages(PrivateBytes(c, P)) /\ Pages(Page)
    <3>1. Pages(Page)
      BY <1>1 DEF Pages
    <3>2. \A c \in S : ClusterEnd(c, P) - PageDown(c) \in Int
      BY <1>2, <1>6, <2>1, PagesAre
    <3>3. \A c \in S : PrivateBytes(c, P) \in Int /\ PrivateBytes(c, P) % Page = 0
      BY <3>2, PagesAre DEF PrivateBytes
    <3>. QED BY <3>1, <3>3, PagesWhole
  <2>5. \A c \in S : h[c] \in Nat /\ Pages(h[c])
    BY <1>1, <1>7, <2>1, <2>3, <2>4, PagesWhole
  <2>. HIDE DEF h, S
  <2>6. SumFunctionOnSet(h, S) \in Nat /\ Pages(SumFunctionOnSet(h, S))
    BY <2>2, <2>5, SumCounts, SumPages
  <2>. QED BY <2>3, <2>6 DEF S
<1>9. \A i \in P : /\ ClusterOf(i, P) \in Nat
                   /\ shift(i) = F + before(ClusterOf(i, P)) - PageDown(ClusterOf(i, P))
                   /\ PageDown(ClusterOf(i, P)) \in Int /\ PageDown(ClusterOf(i, P)) =< ClusterOf(i, P)
                   /\ Pages(PageDown(ClusterOf(i, P)))
  <2>1. \A i \in P : ClusterOf(i, P) \in Nat
    BY <1>2, <1>4
  <2>2. \A n \in Nat : PageDown(n) \in Int /\ PageDown(n) =< n /\ Pages(PageDown(n))
    BY PagesAre, PagesWhole
  <2>. QED BY <2>1, <2>2 DEF PrivateShift, B
<1>10. Pages(F)
  BY PagesWhole
<1>. HIDE DEF before, shift
<1>11. ASSUME NEW i \in P
       PROVE  shift(i) \in Int /\ shift(i) % Page = 0 /\ F =< i.lo + shift(i)
  <2>. DEFINE b == ClusterOf(i, P)
  <2>1. b \in B /\ b =< i.lo /\ i.lo \in Nat /\ b \in Nat
    BY <1>2, <1>4 DEF IsInterval
  <2>2. before(b) \in Nat /\ Pages(before(b))
    BY <1>8, <2>1
  <2>3. /\ shift(i) = F + before(b) - PageDown(b) /\ Pages(PageDown(b))
        /\ PageDown(b) \in Int /\ PageDown(b) =< b
    BY <1>9
  <2>. HIDE DEF b
  <2>4. Pages(F + before(b) - PageDown(b))
    BY <1>10, <2>2, <2>3, PagesWhole, Zenon
  <2>5. shift(i) \in Int /\ F =< i.lo + shift(i)
    BY <2>1, <2>2, <2>3
  <2>. QED BY <2>3, <2>4, <2>5, PagesWhole
<1>12. ASSUME NEW i \in P, NEW j \in P, ClusterOf(i, P) < ClusterOf(j, P)
       PROVE  Apart(i, shift(i), j, shift(j))
  <2>. DEFINE b == ClusterOf(i, P)
              c == ClusterOf(j, P)
  <2>1. /\ b \in B /\ c \in B /\ b \in Nat /\ c \in Nat /\ c =< j.lo /\ i.hi < c
        /\ i.lo \in Nat /\ j.lo \in Nat /\ i.hi \in Nat
    BY <1>2, <1>4, <1>12 DEF IsInterval
  <2>2. i.hi - PageDown(b) =< PrivateBytes(b, P) /\ PrivateBytes(b, P) \in Nat
    <3>1. ClusterEnd(b, P) \in Int /\ i.hi =< ClusterEnd(b, P)
      BY <1>5, <1>6, <2>1
    <3>2. PageDown(b) \in Int /\ PrivateBytes(b, P) \in Nat /\ ClusterEnd(b, P) - PageDown(b) =< PrivateBytes(b, P)
      BY <1>7, <1>9, <2>1
    <3>. HIDE DEF b, c
    <3>. QED BY <2>1, <3>1, <3>2
  <2>3. /\ shift(i) = F + before(b) - PageDown(b) /\ PageDown(b) \in Int
        /\ shift(j) = F + before(c) - PageDown(c) /\ PageDown(c) \in Int /\ PageDown(c) =< c
    BY <1>9
  <2>4. before(b) \in Nat /\ before(c) \in Nat /\ before(b) + PrivateBytes(b, P) + Page =< before(c)
    <3>1. \A d \in B : PrivateBytes(d, P) \in Nat
      BY <1>7
    <3>2. b < c
      BY <1>12
    <3>. HIDE DEF b, c
    <3>. QED BY <1>2, <1>3, <2>1, <3>1, <3>2, TakenGrows DEF before
  <2>. HIDE DEF b, c
  <2>. QED BY <1>1, <2>1, <2>2, <2>3, <2>4 DEF Apart
<1>13. ASSUME NEW i \in P, NEW j \in P
       PROVE  \/ shift(i) = shift(j)
              \/ Apart(i, shift(i), j, shift(j)) \/ Apart(j, shift(j), i, shift(i))
  <2>1. ClusterOf(i, P) = ClusterOf(j, P) => shift(i) = shift(j)
    BY <1>9
  <2>2. ClusterOf(i, P) \in Nat /\ ClusterOf(j, P) \in Nat
    BY <1>9
  <2>. QED BY <1>12, <2>1, <2>2
<1>. QED BY <1>11, <1>13 DEF shift

(* Private objects start behind all tensors, on a page.                    *)
LEMMA FirstPrivateIs ==
  ASSUME w \in Workloads, "expanded" \in w.by
  PROVE  /\ FirstPrivate \in Nat /\ FirstPrivate % Page = 0
         /\ \A v \in w.views : v.begin \in Nat /\ v.bytes \in Nat /\ v.begin + v.bytes =< FirstPrivate
<1>. DEFINE last == [v \in w.views |-> v.begin + v.bytes]
            L == {last[v] : v \in w.views} \cup {0}
            U == PageUp(Max(L) + Slack)
            C == Max({PrivateBase, U})
<1>1. /\ w.taken \in Nat /\ w.taken % Page = 0 /\ IsFiniteSet(w.views)
      /\ \A v \in w.views : v.begin \in Nat /\ v.bytes \in Nat
  BY WorkloadsAssumption
<1>2. \A v \in w.views : last[v] = v.begin + v.bytes /\ last[v] \in Nat
  BY <1>1
<1>3. {v.begin + v.bytes : v \in w.views} \cup {0} = L /\ last = [v \in w.views |-> last[v]]
  OBVIOUS
<1>. HIDE DEF last
<1>4. IsFiniteSet(L)
  <2>. DEFINE I == {last[v] : v \in w.views}
  <2>1. IsFiniteSet(I)
    BY <1>1, <1>3, ImageIs
  <2>. HIDE DEF I
  <2>2. IsFiniteSet(I \cup {0})
    BY <2>1, FS_AddElement
  <2>. QED BY <2>2 DEF I
<1>5. L \subseteq Nat /\ L # {} /\ \A v \in w.views : last[v] \in L
  BY <1>2
<1>. HIDE DEF L
<1>6. Max(L) \in L /\ \A y \in L : y =< Max(L)
  <2>1. L \subseteq Int
    BY <1>5
  <2>. QED BY <1>4, <1>5, <2>1, GreatestInt
<1>7. Max(L) + Slack \in Nat /\ \A v \in w.views : v.begin + v.bytes =< Max(L) + Slack
  <2>1. Max(L) \in Nat /\ Slack \in Nat
    BY <1>5, <1>6, BindingAssumption
  <2>2. \A v \in w.views : last[v] =< Max(L) /\ last[v] = v.begin + v.bytes /\ last[v] \in Nat
    BY <1>2, <1>5, <1>6
  <2>. QED BY <2>1, <2>2
<1>8. U \in Nat /\ U % Page = 0 /\ Max(L) + Slack =< U
  BY <1>7, PagesAre
<1>9. PrivateBase \in Nat /\ Pages(PrivateBase)
  <2>1. PICK n \in 0 .. MaxAddress : PrivateBase = n * Page
    BY BindingAssumption
  <2>2. n \in Nat /\ Page \in Nat
    BY BindingAssumption
  <2>3. n * Page \in Nat /\ n * Page = Page * n
    BY <2>2
  <2>. QED BY <2>1, <2>2, <2>3 DEF Pages
<1>. HIDE DEF U
<1>10. C \in {PrivateBase, U} /\ C \in Nat /\ C >= U
  BY <1>8, <1>9, LaterOf
<1>11. FirstPrivate = C + w.taken
  BY <1>3 DEF FirstPrivate, UnknownCursor, U
<1>12. Pages(C) /\ Pages(w.taken)
  BY <1>1, <1>8, <1>9, <1>10, PagesWhole
<1>. HIDE DEF C
<1>13. FirstPrivate \in Nat /\ Pages(FirstPrivate)
  BY <1>1, <1>10, <1>11, <1>12, PagesWhole
<1>14. FirstPrivate % Page = 0
  BY <1>13, PagesWhole
<1>15. ASSUME NEW v \in w.views
       PROVE  v.begin + v.bytes =< FirstPrivate
  <2>1. v.begin + v.bytes =< Max(L) + Slack /\ v.begin + v.bytes \in Nat
    BY <1>1, <1>7
  <2>. QED BY <1>1, <1>7, <1>8, <1>10, <1>11, <2>1
<1>. QED BY <1>1, <1>13, <1>14, <1>15

-----------------------------------------------------------------------------
(* A quotient and a remainder are determined.                              *)
LEMMA DividedIs ==
  ASSUME NEW d \in Nat, NEW q \in Nat, NEW r \in Nat, r < d
  PROVE  /\ d * q + r \in Nat /\ (d * q + r) \div d = q /\ (d * q + r) % d = r
<1>1. d \in Nat /\ d > 0
  OBVIOUS
<1>2. PICK n \in Nat : n = d * q + r
  OBVIOUS
<1>3. n \div d \in Int /\ n % d \in 0 .. d - 1 /\ n = d * (n \div d) + (n % d)
  BY <1>1, <1>2, RemainderIs
<1>. DEFINE e == (n \div d) - q
<1>4. e \in Int
  BY <1>3
<1>5. d * e = d * (n \div d) - d * q
  BY <1>3
<1>. HIDE DEF e
<1>6. d * e = r - (n % d) /\ d * e \in Int
  BY <1>2, <1>3, <1>4, <1>5
<1>7. (e >= 1 => d * e >= d) /\ (e =< -1 => d * e =< -d)
  BY <1>1, <1>4
<1>8. e = 0
  BY <1>1, <1>3, <1>4, <1>6, <1>7
<1>9. d * e = 0
  BY <1>8
<1>. QED BY <1>2, <1>3, <1>6, <1>8, <1>9 DEF e

(* Every coordinate is that of a CTA.                                      *)
LEMMA CoordinateOf ==
  ASSUME NEW g \in Sizes, NEW x \in 0 .. g[1] - 1, NEW y \in 0 .. g[2] - 1, NEW z \in 0 .. g[3] - 1
  PROVE  LET b == BlockId(g, <<x, y, z>>)
         IN  b \in Grid(g) /\ Coordinate(g, b) = <<x, y, z>>
<1>. DEFINE b == x + g[1] * (y + g[2] * z)
<1>1. /\ g[1] \in Nat /\ g[2] \in Nat /\ g[3] \in Nat /\ g[1] > 0 /\ g[2] > 0 /\ g[3] > 0
      /\ x \in Nat /\ y \in Nat /\ z \in Nat /\ x < g[1] /\ y < g[2] /\ z < g[3]
  BY DEF Sizes
<1>2. PICK m \in Nat : m = g[2] * z + y
  BY <1>1
<1>3. b = g[1] * m + x
  BY <1>1, <1>2
<1>4. BlockId(g, <<x, y, z>>) = b
  BY DEF BlockId
<1>. HIDE DEF b
<1>5. b % g[1] = x /\ b \div g[1] = m /\ b \in Nat
  BY <1>1, <1>3, DividedIs
<1>6. m % g[2] = y /\ m \div g[2] = z
  BY <1>1, <1>2, DividedIs
<1>7. b \div (g[1] * g[2]) = z
  <2>1. PICK d \in Nat : d = g[1] * g[2]
    BY <1>1
  <2>2. PICK r \in Nat : r = g[1] * y + x
    BY <1>1
  <2>3. b = d * z + r
    <3>1. g[1] * m = g[1] * (g[2] * z) + g[1] * y
      BY <1>1, <1>2
    <3>2. g[1] * (g[2] * z) = d * z
      BY <1>1, <2>1
    <3>. QED BY <1>1, <1>3, <2>1, <2>2, <3>1, <3>2
  <2>4. r < d
    <3>1. g[1] * y =< g[1] * (g[2] - 1)
      BY <1>1
    <3>2. g[1] * (g[2] - 1) = d - g[1]
      BY <1>1, <2>1
    <3>. QED BY <1>1, <2>1, <2>2, <3>1, <3>2
  <2>. QED BY <1>1, <2>1, <2>3, <2>4, DividedIs
<1>8. b < g[1] * g[2] * g[3]
  <2>1. m =< g[2] * g[3] - 1
    <3>1. g[2] * z =< g[2] * (g[3] - 1)
      BY <1>1
    <3>2. g[2] * (g[3] - 1) = g[2] * g[3] - g[2] /\ g[2] * g[3] \in Nat
      BY <1>1
    <3>. QED BY <1>1, <1>2, <3>1, <3>2
  <2>2. PICK n \in Nat : n = g[2] * g[3]
    BY <1>1
  <2>3. g[1] * m =< g[1] * (n - 1)
    BY <1>1, <2>1, <2>2
  <2>4. g[1] * (n - 1) = g[1] * n - g[1]
    BY <1>1, <2>2
  <2>5. g[1] * n = g[1] * g[2] * g[3]
    BY <1>1, <2>2
  <2>. QED BY <1>1, <1>3, <2>2, <2>3, <2>4, <2>5
<1>9. b \in Grid(g)
  BY <1>1, <1>5, <1>8 DEF Grid, GridSize
<1>10. Coordinate(g, b) = <<x, y, z>>
  BY <1>5, <1>6, <1>7 DEF Coordinate
<1>. QED BY <1>4, <1>9, <1>10

-----------------------------------------------------------------------------
(* The bounds of a rule.                                                   *)

(* The extremes of P are those of f on the n coordinates of an axis.       *)
Spans(P, f, n) ==
  /\ Min(P) \in Int /\ Max(P) \in Int
  /\ \A x \in 0 .. n - 1 : f[x] \in Int /\ Min(P) =< f[x] /\ f[x] =< Max(P)
  /\ (\E x \in 0 .. n - 1 : f[x] = Min(P)) /\ (\E x \in 0 .. n - 1 : f[x] = Max(P))

(* The extremes of a set of values on an axis.                             *)
LEMMA ImageSpans ==
  ASSUME NEW n \in Nat, n > 0, NEW f, f = [x \in 0 .. n - 1 |-> f[x]],
         \A x \in 0 .. n - 1 : f[x] \in Int
  PROVE  Spans({f[x] : x \in 0 .. n - 1}, f, n)
<1>. DEFINE D == 0 .. n - 1
            P == {f[x] : x \in D}
<1>1. 0 \in Int /\ n - 1 \in Int /\ 0 \in D
  OBVIOUS
<1>2. IsFiniteSet(D)
  BY <1>1, FS_Interval, Zenon
<1>. HIDE DEF D
<1>3. IsFiniteSet(P) /\ P \subseteq Int /\ P # {}
  BY <1>1, <1>2, ImageIs DEF D
<1>4. \A x \in D : f[x] \in P
  OBVIOUS
<1>5. \A v \in P : \E x \in D : f[x] = v
  OBVIOUS
<1>. HIDE DEF P
<1>6. Min(P) \in P /\ \A y \in P : Min(P) =< y
  BY <1>3, LeastInt
<1>7. Max(P) \in P /\ \A y \in P : y =< Max(P)
  BY <1>3, GreatestInt
<1>8. Spans(P, f, n)
  BY <1>3, <1>4, <1>5, <1>6, <1>7 DEF Spans, D
<1>. QED BY <1>8 DEF P, D

(* The ends of a stride are its extremes, in whatever order it is taken.   *)
LEMMA EndsSpan ==
  ASSUME NEW n \in Nat, n > 0, NEW s \in Int, NEW index, \A x \in 0 .. n - 1 : index[x] \in 0 .. n - 1,
         NEW a \in 0 .. n - 1, index[a] = 0, NEW b \in 0 .. n - 1, index[b] = n - 1,
         NEW f, \A x \in 0 .. n - 1 : f[x] = s * index[x]
  PROVE  Spans({0, (n - 1) * s}, f, n)
<1>. DEFINE e == (n - 1) * s
            P == {0, e}
<1>1. e \in Int /\ f[a] = 0 /\ f[b] = e
  <2>1. n - 1 \in Int /\ s * (n - 1) = (n - 1) * s
    OBVIOUS
  <2>2. f[a] = s * 0 /\ f[b] = s * (n - 1)
    OBVIOUS
  <2>. QED BY <2>1, <2>2
<1>2. \A i \in 0 .. n - 1 : s * i \in Int /\ (s >= 0 => 0 =< s * i /\ s * i =< e)
                                          /\ (s < 0 => e =< s * i /\ s * i =< 0)
  <2>. SUFFICES ASSUME NEW i \in 0 .. n - 1
                PROVE  s * i \in Int /\ (s >= 0 => 0 =< s * i /\ s * i =< e)
                                     /\ (s < 0 => e =< s * i /\ s * i =< 0)
    OBVIOUS
  <2>1. i \in Nat /\ n - 1 - i \in Nat
    OBVIOUS
  <2>2. \A j \in Nat : s * j \in Int /\ (s >= 0 => s * j >= 0) /\ (s < 0 => s * j =< 0)
    OBVIOUS
  <2>3. e = s * i + s * (n - 1 - i)
    BY <2>1
  <2>4. s * i \in Int /\ (s >= 0 => s * i >= 0) /\ (s < 0 => s * i =< 0)
    BY <2>1, <2>2
  <2>5. s * (n - 1 - i) \in Int /\ (s >= 0 => s * (n - 1 - i) >= 0) /\ (s < 0 => s * (n - 1 - i) =< 0)
    BY <2>1, <2>2
  <2>. HIDE DEF e
  <2>. QED BY <2>3, <2>4, <2>5, <1>1
<1>3. \A x \in 0 .. n - 1 : f[x] \in Int /\ (s >= 0 => 0 =< f[x] /\ f[x] =< e)
                                          /\ (s < 0 => e =< f[x] /\ f[x] =< 0)
  BY <1>2
<1>. HIDE DEF e
<1>4. Min(P) = IF s >= 0 THEN 0 ELSE e
  <2>1. IsFiniteSet(P) /\ P \subseteq Int /\ P # {}
    <3>1. IsFiniteSet({0}) /\ P = {0} \cup {e}
      BY FS_Singleton
    <3>. QED BY <1>1, <3>1, FS_AddElement
  <2>2. Min(P) \in P /\ \A y \in P : Min(P) =< y
    BY <2>1, LeastInt
  <2>. QED BY <1>1, <1>3, <2>2
<1>5. Max(P) = IF s >= 0 THEN e ELSE 0
  <2>1. IsFiniteSet(P) /\ P \subseteq Int /\ P # {}
    <3>1. IsFiniteSet({0}) /\ P = {0} \cup {e}
      BY FS_Singleton
    <3>. QED BY <1>1, <3>1, FS_AddElement
  <2>2. Max(P) \in P /\ \A y \in P : y =< Max(P)
    BY <2>1, GreatestInt
  <2>. QED BY <1>1, <1>3, <2>2
<1>. HIDE DEF P
<1>6. Min(P) \in Int /\ Max(P) \in Int
  BY <1>1, <1>4, <1>5
<1>7. \A x \in 0 .. n - 1 : f[x] \in Int /\ Min(P) =< f[x] /\ f[x] =< Max(P)
  BY <1>3, <1>4, <1>5
<1>8. \E x \in 0 .. n - 1 : f[x] = Min(P)
  BY <1>1, <1>4
<1>9. \E x \in 0 .. n - 1 : f[x] = Max(P)
  BY <1>1, <1>5
<1>10. Spans(P, f, n)
  BY <1>6, <1>7, <1>8, <1>9 DEF Spans
<1>. QED BY <1>10 DEF e, P

(* The coordinates of a CTA lie in the grid.                               *)
LEMMA CoordinateIn ==
  ASSUME NEW g \in Sizes, NEW b \in Grid(g)
  PROVE  \A i \in 1..3 : Coordinate(g, b)[i] \in 0 .. g[i] - 1
<1>. DEFINE c == Coordinate(g, b)
<1>1. /\ b \in Nat /\ g[1] \in Nat /\ g[2] \in Nat /\ g[3] \in Nat
      /\ g[1] > 0 /\ g[2] > 0 /\ g[3] > 0
      /\ c[1] \in Nat /\ c[2] \in Nat /\ c[3] \in Nat /\ c[1] < g[1] /\ c[2] < g[2]
      /\ c[3] = b \div (g[1] * g[2])
  BY CoordinateIs
<1>. HIDE DEF c
<1>2. b < g[1] * g[2] * g[3]
  BY <1>1 DEF Grid, GridSize
<1>3. c[3] < g[3]
  <2>1. PICK d \in Nat : d = g[1] * g[2] /\ d > 0
    BY <1>1
  <2>2. b \div d \in Nat /\ b % d \in 0 .. d - 1 /\ (b % d) + d * (b \div d) = b
    BY <1>1, <2>1, DivisionIs
  <2>3. b < d * g[3]
    BY <1>1, <1>2, <2>1
  <2>4. d * c[3] =< b
    BY <1>1, <2>1, <2>2
  <2>5. c[3] >= g[3] => d * c[3] >= d * g[3]
    BY <1>1, <2>1
  <2>6. d * c[3] \in Nat /\ d * g[3] \in Nat
    BY <1>1, <2>1
  <2>. QED BY <1>1, <2>3, <2>4, <2>5, <2>6
<1>. QED BY <1>1, <1>3 DEF c

(* The bounds hold for the addresses of these CTAs, and are among them.    *)
Exact(bounds, r, g, ctas) ==
  /\ bounds.lo \in Int /\ bounds.hi \in Int
  /\ \A b \in ctas : /\ PredictBase(r, g, b) \in Int
                     /\ bounds.lo =< PredictBase(r, g, b) /\ PredictBase(r, g, b) =< bounds.hi
  /\ \E b \in ctas : PredictBase(r, g, b) = bounds.lo
  /\ \E b \in ctas : PredictBase(r, g, b) = bounds.hi

SumOf(r, g, at, fx, fy, fz) ==
  \A b \in Grid(g) : LET c == Coordinate(g, b)
                     IN  PredictBase(r, g, b) = at + fx[c[1]] + fy[c[2]] + fz[c[3]]
SumBounds(bounds, at, X, Y, Z) ==
  /\ bounds.lo = at + Min(X) + Min(Y) + Min(Z)
  /\ bounds.hi = at + Max(X) + Max(Y) + Max(Z)

(* The extremes of a sum of three parts, each of its own axis, are the     *)
(* sums of the extremes: some CTA has the three coordinates that attain    *)
(* them.                                                                   *)
LEMMA SumSpans ==
  ASSUME NEW g \in Sizes, NEW r, NEW at \in Int,
         NEW X, NEW Y, NEW Z, NEW fx, NEW fy, NEW fz,
         Spans(X, fx, g[1]), Spans(Y, fy, g[2]), Spans(Z, fz, g[3]),
         SumOf(r, g, at, fx, fy, fz), NEW bounds, SumBounds(bounds, at, X, Y, Z)
  PROVE  Exact(bounds, r, g, Grid(g))
<1>. USE DEF SumOf, SumBounds
<1>1. bounds.lo \in Int /\ bounds.hi \in Int
  BY DEF Spans
<1>2. ASSUME NEW b \in Grid(g)
      PROVE  /\ PredictBase(r, g, b) \in Int
             /\ bounds.lo =< PredictBase(r, g, b) /\ PredictBase(r, g, b) =< bounds.hi
  <2>. DEFINE c == Coordinate(g, b)
  <2>1. c[1] \in 0 .. g[1] - 1 /\ c[2] \in 0 .. g[2] - 1 /\ c[3] \in 0 .. g[3] - 1
    BY CoordinateIn
  <2>2. PredictBase(r, g, b) = at + fx[c[1]] + fy[c[2]] + fz[c[3]]
    OBVIOUS
  <2>. HIDE DEF c
  <2>. QED BY <2>1, <2>2 DEF Spans
<1>3. ASSUME NEW x \in 0 .. g[1] - 1, NEW y \in 0 .. g[2] - 1, NEW z \in 0 .. g[3] - 1
      PROVE  \E b \in Grid(g) : PredictBase(r, g, b) = at + fx[x] + fy[y] + fz[z]
  <2>. DEFINE b == BlockId(g, <<x, y, z>>)
  <2>1. b \in Grid(g) /\ Coordinate(g, b) = <<x, y, z>>
    BY CoordinateOf
  <2>. HIDE DEF b
  <2>2. PredictBase(r, g, b) = at + fx[x] + fy[y] + fz[z]
    BY <2>1
  <2>. QED BY <2>1, <2>2
<1>4. \E b \in Grid(g) : PredictBase(r, g, b) = bounds.lo
  <2>1. PICK x \in 0 .. g[1] - 1 : fx[x] = Min(X)
    BY DEF Spans
  <2>2. PICK y \in 0 .. g[2] - 1 : fy[y] = Min(Y)
    BY DEF Spans
  <2>3. PICK z \in 0 .. g[3] - 1 : fz[z] = Min(Z)
    BY DEF Spans
  <2>. QED BY <1>3, <2>1, <2>2, <2>3
<1>5. \E b \in Grid(g) : PredictBase(r, g, b) = bounds.hi
  <2>1. PICK x \in 0 .. g[1] - 1 : fx[x] = Max(X)
    BY DEF Spans
  <2>2. PICK y \in 0 .. g[2] - 1 : fy[y] = Max(Y)
    BY DEF Spans
  <2>3. PICK z \in 0 .. g[3] - 1 : fz[z] = Max(Z)
    BY DEF Spans
  <2>. QED BY <1>3, <2>1, <2>2, <2>3
<1>. QED BY <1>1, <1>2, <1>4, <1>5 DEF Exact

(* A quotient is less than the number of the groups.                       *)
LEMMA QuotientLess ==
  ASSUME NEW b \in Nat, NEW d \in Nat, d > 0, NEW m \in Nat, b < d * m
  PROVE  b \div d < m
<1>1. b \div d \in Nat /\ b % d \in 0 .. d - 1 /\ (b % d) + d * (b \div d) = b
  BY DivisionIs
<1>. DEFINE q == b \div d
<1>2. q \in Nat /\ d * q =< b
  BY <1>1
<1>. HIDE DEF q
<1>3. q >= m => d * q >= d * m
  BY <1>2
<1>4. d * q \in Nat /\ d * m \in Nat
  BY <1>2
<1>5. q < m
  BY <1>2, <1>3, <1>4
<1>. QED BY <1>5 DEF q

(* The digits of an index in the extents e.                                *)
LEMMA DigitsAre ==
  ASSUME NEW e, \A i \in 1..3 : e[i] \in Nat \ {0}, NEW b \in 0 .. e[1] * e[2] * e[3] - 1
  PROVE  /\ \A i \in 1..3 : Digit(e, b)[i] \in 0 .. e[i] - 1
         /\ b = 0 => \A i \in 1..3 : Digit(e, b)[i] = 0
         /\ b = e[1] * e[2] * e[3] - 1 => \A i \in 1..3 : Digit(e, b)[i] = e[i] - 1
<1>1. /\ e[1] \in Nat /\ e[2] \in Nat /\ e[3] \in Nat /\ e[1] > 0 /\ e[2] > 0 /\ e[3] > 0
  OBVIOUS
<1>. DEFINE x == e[1]
            y == e[2]
            z == e[3]
<1>2. x \in Nat /\ y \in Nat /\ z \in Nat /\ x > 0 /\ y > 0 /\ z > 0
  BY <1>1
<1>3. b \in 0 .. x * y * z - 1 /\ Digit(e, b) = <<b \div (y * z), (b \div z) % y, b % z>>
  BY DEF Digit
<1>. HIDE DEF x, y, z
<1>4. PICK d \in Nat : d = y * z /\ d > 0
  BY <1>2
<1>5. b \in Nat /\ b < d * x
  <2>1. x * y * z \in Nat /\ x * y * z = d * x
    BY <1>2, <1>4
  <2>. QED BY <1>3, <2>1
<1>6. b \div d < x /\ b \div d \in Nat
  BY <1>2, <1>4, <1>5, QuotientLess, DivisionIs
<1>7. b \div z \in Nat /\ b % z \in 0 .. z - 1
  BY <1>2, <1>5, DivisionIs
<1>8. (b \div z) % y \in 0 .. y - 1
  BY <1>2, <1>7, DivisionIs
<1>9. ASSUME b = 0
      PROVE  b \div d = 0 /\ (b \div z) % y = 0 /\ b % z = 0
  <2>1. d * 0 + 0 = 0 /\ z * 0 + 0 = 0 /\ y * 0 + 0 = 0
    BY <1>2
  <2>2. 0 \div d = 0 /\ 0 \div z = 0 /\ 0 % z = 0 /\ 0 % y = 0
    BY <1>2, <1>4, <2>1
  <2>. QED BY <1>9, <2>2
<1>10. ASSUME b = d * x - 1
       PROVE  b \div d = x - 1 /\ (b \div z) % y = y - 1 /\ b % z = z - 1
  <2>1. x - 1 \in Nat /\ d - 1 \in Nat /\ y - 1 \in Nat /\ z - 1 \in Nat
    BY <1>2, <1>4
  <2>2. b = d * (x - 1) + (d - 1)
    BY <1>2, <1>4, <1>10
  <2>3. b \div d = x - 1
    <3>1. PICK q \in Nat : q = x - 1
      BY <2>1
    <3>2. PICK r \in Nat : r = d - 1
      BY <2>1
    <3>3. b = d * q + r /\ r < d
      BY <1>4, <2>2, <3>1, <3>2
    <3>. QED BY <1>4, <3>1, <3>3, DividedIs
  <2>4. PICK m \in Nat : m = y * (x - 1) + (y - 1)
    BY <1>2, <2>1
  <2>5. b = z * m + (z - 1)
    <3>1. z * m = z * (y * (x - 1)) + z * (y - 1)
      BY <1>2, <2>1, <2>4
    <3>2. z * (y * (x - 1)) = d * (x - 1)
      BY <1>2, <1>4, <2>1
    <3>3. z * (y - 1) = d - z
      BY <1>2, <1>4
    <3>. QED BY <1>2, <1>4, <2>2, <3>1, <3>2, <3>3
  <2>6. b \div z = m /\ b % z = z - 1
    <3>1. PICK r \in Nat : r = z - 1
      BY <2>1
    <3>2. b = z * m + r /\ r < z
      BY <1>2, <2>5, <3>1
    <3>. QED BY <1>2, <3>1, <3>2, DividedIs
  <2>7. m % y = y - 1
    <3>1. PICK q \in Nat : q = x - 1
      BY <2>1
    <3>2. PICK r \in Nat : r = y - 1
      BY <2>1
    <3>3. m = y * q + r /\ r < y
      BY <1>2, <2>4, <3>1, <3>2
    <3>4. y \in Nat
      BY <1>2
    <3>5. (y * q + r) % y = r
      BY <3>3, <3>4, DividedIs
    <3>. QED BY <3>2, <3>3, <3>5
  <2>. QED BY <2>3, <2>6, <2>7
<1>11. x * y * z = d * x
  BY <1>2, <1>4
<1>12. \A i \in 1..3 : i = 1 \/ i = 2 \/ i = 3
  OBVIOUS
<1>13. Digit(e, b) = <<b \div d, (b \div z) % y, b % z>>
  BY <1>3, <1>4
<1>14. \A i \in 1..3 : Digit(e, b)[i] \in 0 .. e[i] - 1
  BY <1>6, <1>7, <1>8, <1>12, <1>13 DEF x, y, z
<1>15. b = 0 => \A i \in 1..3 : Digit(e, b)[i] = 0
  BY <1>9, <1>12, <1>13
<1>16. b = e[1] * e[2] * e[3] - 1 => \A i \in 1..3 : Digit(e, b)[i] = e[i] - 1
  <2>1. e[1] * e[2] * e[3] = d * x
    BY <1>11 DEF x, y, z
  <2>. QED BY <1>10, <1>12, <1>13, <2>1 DEF x, y, z
<1>. QED BY <1>14, <1>15, <1>16

(* Digits written together.                                                *)
LEMMA WrittenIs ==
  ASSUME NEW x \in Nat, NEW y \in Nat, NEW z \in Nat,
         NEW a \in 0 .. x - 1, NEW b \in 0 .. y - 1, NEW c \in 0 .. z - 1
  PROVE  /\ (a * y + b) * z + c \in 0 .. x * y * z - 1
         /\ a = 0 /\ b = 0 /\ c = 0 => (a * y + b) * z + c = 0
         /\ a = x - 1 /\ b = y - 1 /\ c = z - 1 => (a * y + b) * z + c = x * y * z - 1
<1>1. PICK m \in Nat : m = a * y + b
  OBVIOUS
<1>2. m =< x * y - 1 /\ x * y \in Nat
  <2>1. a * y =< (x - 1) * y
    OBVIOUS
  <2>2. (x - 1) * y = x * y - y /\ x * y \in Nat /\ a * y \in Nat
    OBVIOUS
  <2>. QED BY <1>1, <2>1, <2>2
<1>3. PICK n \in Nat : n = x * y
  OBVIOUS
<1>4. m * z =< (n - 1) * z
  BY <1>2, <1>3
<1>5. (n - 1) * z = n * z - z /\ n * z \in Nat /\ m * z \in Nat /\ n * z = x * y * z
  BY <1>3
<1>6. m * z + c \in 0 .. x * y * z - 1
  BY <1>4, <1>5
<1>7. a = 0 /\ b = 0 /\ c = 0 => m * z + c = 0
  BY <1>1
<1>8. a = x - 1 /\ b = y - 1 /\ c = z - 1 => m * z + c = x * y * z - 1
  <2>. SUFFICES ASSUME a = x - 1, b = y - 1, c = z - 1
                PROVE  m * z + c = x * y * z - 1
    OBVIOUS
  <2>1. m = n - 1
    <3>1. (x - 1) * y = x * y - y /\ x * y \in Nat
      OBVIOUS
    <3>. QED BY <1>1, <1>3, <3>1
  <2>. QED BY <1>5, <2>1
<1>. QED BY <1>1, <1>6, <1>7, <1>8

(* The order of the digits is irrelevant for the extremes of the index.    *)
LEMMA IndexIn ==
  ASSUME NEW e, \A i \in 1..3 : e[i] \in Nat \ {0}, NEW o \in Permutation3,
         NEW n, n = e[1] * e[2] * e[3], NEW b \in 0 .. n - 1
  PROVE  /\ PermutedIndex(e, o, b) \in 0 .. n - 1
         /\ b = 0 => PermutedIndex(e, o, b) = 0
         /\ b = n - 1 => PermutedIndex(e, o, b) = n - 1
<1>1. o[1] \in 1..3 /\ o[2] \in 1..3 /\ o[3] \in 1..3 /\ {o[i] : i \in 1..3} = 1..3
  <2>1. o \in [1..3 -> 1..3] /\ {o[i] : i \in 1..3} = 1..3
    BY Zenon DEF Permutation3
  <2>2. o[1] \in 1..3 /\ o[2] \in 1..3 /\ o[3] \in 1..3
    BY <2>1
  <2>. QED BY <2>1, <2>2, Zenon
<1>2. o[1] # o[2] /\ o[1] # o[3] /\ o[2] # o[3]
  <2>1. \A j \in 1..3 : \E i \in 1..3 : o[i] = j
    BY <1>1
  <2>2. \A i \in 1..3 : i = 1 \/ i = 2 \/ i = 3
    OBVIOUS
  <2>3. \A j \in 1..3 : j = o[1] \/ j = o[2] \/ j = o[3]
    BY <2>1, <2>2, Zenon
  <2>4. (1 = o[1] \/ 1 = o[2] \/ 1 = o[3]) /\ (2 = o[1] \/ 2 = o[2] \/ 2 = o[3])
        /\ (3 = o[1] \/ 3 = o[2] \/ 3 = o[3])
    BY <2>3
  <2>. QED BY <2>4
<1>. DEFINE d1 == Digit(e, b)[o[1]]
            d2 == Digit(e, b)[o[2]]
            d3 == Digit(e, b)[o[3]]
            e1 == e[o[1]]
            e2 == e[o[2]]
            e3 == e[o[3]]
<1>3. PermutedIndex(e, o, b) = (d1 * e2 + d2) * e3 + d3
  BY DEF PermutedIndex, Digit
<1>4. e1 \in Nat /\ e2 \in Nat /\ e3 \in Nat
  BY <1>1
<1>5. e1 * e2 * e3 = n
  <2>1. e[1] \in Nat /\ e[2] \in Nat /\ e[3] \in Nat
    OBVIOUS
  <2>2. \A x, y, z \in Nat : /\ x * y * z = x * z * y /\ x * y * z = y * x * z /\ x * y * z = y * z * x
                             /\ x * y * z = z * x * y /\ x * y * z = z * y * x
    OBVIOUS
  <2>3. \/ (o[1] = 1 /\ o[2] = 2 /\ o[3] = 3)
        \/ (o[1] = 1 /\ o[2] = 3 /\ o[3] = 2)
        \/ (o[1] = 2 /\ o[2] = 1 /\ o[3] = 3)
        \/ (o[1] = 2 /\ o[2] = 3 /\ o[3] = 1)
        \/ (o[1] = 3 /\ o[2] = 1 /\ o[3] = 2)
        \/ (o[1] = 3 /\ o[2] = 2 /\ o[3] = 1)
    <3>1. \A x, y, z \in 1..3 : x # y /\ x # z /\ y # z =>
             \/ (x = 1 /\ y = 2 /\ z = 3)
             \/ (x = 1 /\ y = 3 /\ z = 2)
             \/ (x = 2 /\ y = 1 /\ z = 3)
             \/ (x = 2 /\ y = 3 /\ z = 1)
             \/ (x = 3 /\ y = 1 /\ z = 2)
             \/ (x = 3 /\ y = 2 /\ z = 1)
      OBVIOUS
    <3>2. o[1] \in 1..3 /\ o[2] \in 1..3 /\ o[3] \in 1..3
      BY <1>1, Zenon
    <3>. QED BY <1>2, <3>1, <3>2
  <2>4. PICK x \in Nat : x = e[1]
    BY <2>1
  <2>5. PICK y \in Nat : y = e[2]
    BY <2>1
  <2>6. PICK z \in Nat : z = e[3]
    BY <2>1
  <2>7. n = x * y * z
    BY <2>4, <2>5, <2>6
  <2>8. /\ n = x * y * z /\ n = x * z * y /\ n = y * x * z /\ n = y * z * x
        /\ n = z * x * y /\ n = z * y * x
    BY <2>2, <2>7
  <2>9. /\ o[1] = 1 /\ o[2] = 2 /\ o[3] = 3 => e1 = x /\ e2 = y /\ e3 = z
        /\ o[1] = 1 /\ o[2] = 3 /\ o[3] = 2 => e1 = x /\ e2 = z /\ e3 = y
        /\ o[1] = 2 /\ o[2] = 1 /\ o[3] = 3 => e1 = y /\ e2 = x /\ e3 = z
        /\ o[1] = 2 /\ o[2] = 3 /\ o[3] = 1 => e1 = y /\ e2 = z /\ e3 = x
        /\ o[1] = 3 /\ o[2] = 1 /\ o[3] = 2 => e1 = z /\ e2 = x /\ e3 = y
        /\ o[1] = 3 /\ o[2] = 2 /\ o[3] = 1 => e1 = z /\ e2 = y /\ e3 = x
    BY <2>4, <2>5, <2>6
  <2>. HIDE DEF e1, e2, e3
  <2>. QED BY <2>3, <2>8, <2>9
<1>6. /\ d1 \in 0 .. e1 - 1 /\ d2 \in 0 .. e2 - 1 /\ d3 \in 0 .. e3 - 1
      /\ b = 0 => d1 = 0 /\ d2 = 0 /\ d3 = 0
      /\ b = n - 1 => d1 = e1 - 1 /\ d2 = e2 - 1 /\ d3 = e3 - 1
  <2>1. b \in 0 .. e[1] * e[2] * e[3] - 1
    OBVIOUS
  <2>2. /\ \A i \in 1..3 : Digit(e, b)[i] \in 0 .. e[i] - 1
        /\ b = 0 => \A i \in 1..3 : Digit(e, b)[i] = 0
        /\ b = e[1] * e[2] * e[3] - 1 => \A i \in 1..3 : Digit(e, b)[i] = e[i] - 1
    BY <2>1, DigitsAre, Zenon
  <2>. QED BY <1>1, <2>2
<1>. HIDE DEF d1, d2, d3, e1, e2, e3
<1>7. /\ (d1 * e2 + d2) * e3 + d3 \in 0 .. e1 * e2 * e3 - 1
      /\ d1 = 0 /\ d2 = 0 /\ d3 = 0 => (d1 * e2 + d2) * e3 + d3 = 0
      /\ d1 = e1 - 1 /\ d2 = e2 - 1 /\ d3 = e3 - 1 => (d1 * e2 + d2) * e3 + d3 = e1 * e2 * e3 - 1
  BY <1>4, <1>6, WrittenIs
<1>. QED BY <1>3, <1>5, <1>6, <1>7

(* The parts of a rule's address that the three coordinates give.          *)
ByX(r, x) ==
  CASE r.kind = "permutation" -> r.step * PermutedIndex(r.extents, r.order, x)
    [] r.kind = "floor" -> r.qs * (x \div r.width)
    [] r.kind = "tiled" -> r.qs * (x \div r.width) + r.rs * (x % r.width)
    [] r.kind = "coordinate" -> r.xs * x
AlongX(r, g) == [x \in 0 .. g[1] - 1 |-> ByX(r, x)]
AlongY(r, g) == [y \in 0 .. g[2] - 1 |-> IF "yoff" \in DOMAIN r THEN r.yoff[y + 1]
                                         ELSE IF "ys" \in DOMAIN r THEN r.ys * y ELSE 0]
AlongZ(r, g) == [z \in 0 .. g[3] - 1 |-> IF "zs" \in DOMAIN r THEN r.zs * z + HalfStep(r, z) ELSE 0]

(* Along an axis with a stride the ends are the extremes.                  *)
LEMMA StrideSpans ==
  ASSUME NEW n \in Nat, n > 0, NEW s \in Int, NEW f, \A x \in 0 .. n - 1 : f[x] = s * x
  PROVE  Spans({0, (n - 1) * s}, f, n)
<1>. DEFINE index == [x \in 0 .. n - 1 |-> x]
<1>1. 0 \in 0 .. n - 1 /\ n - 1 \in 0 .. n - 1
  OBVIOUS
<1>2. \A x \in 0 .. n - 1 : index[x] \in 0 .. n - 1 /\ f[x] = s * index[x]
  OBVIOUS
<1>3. index[0] = 0 /\ index[n - 1] = n - 1
  BY <1>1
<1>. HIDE DEF index
<1>. QED BY <1>1, <1>2, <1>3, EndsSpan

(* Where a rule has no part for an axis.                                   *)
LEMMA ZeroSpans ==
  ASSUME NEW n \in Nat, n > 0, NEW f, f = [x \in 0 .. n - 1 |-> f[x]], \A x \in 0 .. n - 1 : f[x] = 0
  PROVE  Spans({0}, f, n)
<1>1. 0 \in 0 .. n - 1
  OBVIOUS
<1>2. {0} = {f[x] : x \in 0 .. n - 1}
  BY <1>1
<1>. QED BY <1>2, ImageSpans

(* The y part of rule_bounds: a table or a stride.                         *)
LEMMA YSpans ==
  ASSUME NEW g \in Sizes, NEW r, GridRule(r, g), r.kind # "table"
  PROVE  Spans(YPart(r, g), AlongY(r, g), g[2])
<1>1. PICK n \in Nat : n = g[2] /\ n > 0
  BY DEF Sizes
<1>. DEFINE f == AlongY(r, g)
<1>2. f = [y \in 0 .. n - 1 |-> f[y]]
  BY <1>1 DEF AlongY
<1>3. \A y \in 0 .. n - 1 : f[y] = IF "yoff" \in DOMAIN r THEN r.yoff[y + 1]
                                   ELSE IF "ys" \in DOMAIN r THEN r.ys * y ELSE 0
  BY <1>1 DEF AlongY
<1>. HIDE DEF f
<1>4. CASE "yoff" \in DOMAIN r
  <2>1. r.yoff \in [1 .. n -> Int]
    BY <1>1, <1>4 DEF GridRule, Permuting, Flooring, Summed
  <2>2. \A y \in 0 .. n - 1 : f[y] = r.yoff[y + 1]
    BY <1>3, <1>4
  <2>3. \A y \in 0 .. n - 1 : y + 1 \in 1 .. n
    BY <1>1
  <2>4. \A y \in 1 .. n : r.yoff[y] \in Int
    BY <2>1
  <2>5. \A y \in 0 .. n - 1 : f[y] \in Int
    BY <2>2, <2>3, <2>4
  <2>6. \A y \in 1 .. n : y - 1 \in 0 .. n - 1 /\ (y - 1) + 1 = y
    BY <1>1
  <2>7. \A y \in 1 .. n : f[y - 1] = r.yoff[y]
    BY <2>2, <2>6
  <2>8. YPart(r, g) = {r.yoff[y] : y \in 1 .. n}
    BY <1>4, <2>1 DEF YPart
  <2>9. YPart(r, g) = {f[y] : y \in 0 .. n - 1}
    <3>1. ASSUME NEW v \in YPart(r, g)
          PROVE  v \in {f[y] : y \in 0 .. n - 1}
      <4>1. PICK y \in 1 .. n : v = r.yoff[y]
        BY <2>8
      <4>. QED BY <2>6, <2>7, <4>1
    <3>2. \A y \in 0 .. n - 1 : f[y] \in YPart(r, g)
      BY <2>2, <2>3, <2>8
    <3>. QED BY <3>1, <3>2
  <2>10. Spans({f[y] : y \in 0 .. n - 1}, f, n)
    BY <1>1, <1>2, <2>5, ImageSpans
  <2>. QED BY <1>1, <2>9, <2>10 DEF f
<1>5. CASE "yoff" \notin DOMAIN r /\ "ys" \in DOMAIN r
  <2>1. YPart(r, g) = {0, (n - 1) * r.ys}
    BY <1>1, <1>5 DEF YPart
  <2>2. r.ys \in Int
    BY <1>5 DEF GridRule, Permuting, Flooring, Summed
  <2>3. \A y \in 0 .. n - 1 : f[y] = r.ys * y
    BY <1>3, <1>5
  <2>4. Spans({0, (n - 1) * r.ys}, f, n)
    BY <1>1, <2>2, <2>3, StrideSpans
  <2>. QED BY <1>1, <2>1, <2>4 DEF f
<1>6. CASE "yoff" \notin DOMAIN r /\ "ys" \notin DOMAIN r
  <2>1. YPart(r, g) = {0}
    BY <1>6 DEF YPart
  <2>2. \A y \in 0 .. n - 1 : f[y] = 0
    BY <1>3, <1>6
  <2>3. Spans({0}, f, n)
    BY <1>1, <1>2, <2>2, ZeroSpans
  <2>. QED BY <1>1, <2>1, <2>3 DEF f
<1>. QED BY <1>4, <1>5, <1>6

(* The z part: a stride, with a step at the half.                          *)
LEMMA ZSpans ==
  ASSUME NEW g \in Sizes, NEW r, GridRule(r, g), r.kind # "table"
  PROVE  Spans(ZPart(r, g), AlongZ(r, g), g[3])
<1>1. PICK n \in Nat : n = g[3] /\ n > 0
  BY DEF Sizes
<1>. DEFINE f == AlongZ(r, g)
<1>2. f = [z \in 0 .. n - 1 |-> f[z]]
  BY <1>1 DEF AlongZ
<1>3. \A z \in 0 .. n - 1 : f[z] = IF "zs" \in DOMAIN r THEN r.zs * z + HalfStep(r, z) ELSE 0
  BY <1>1 DEF AlongZ
<1>. HIDE DEF f
<1>4. CASE "zs" \in DOMAIN r
  <2>1. r.zs \in Int /\ ("half" \in DOMAIN r => r.hs \in Int)
    BY <1>4 DEF GridRule, Permuting, Flooring, Summed
  <2>2. \A z \in 0 .. n - 1 : HalfStep(r, z) \in Int
    BY <2>1 DEF HalfStep
  <2>3. \A z \in 0 .. n - 1 : f[z] = r.zs * z + HalfStep(r, z)
    BY <1>3, <1>4
  <2>4. \A z \in 0 .. n - 1 : r.zs * z \in Int
    BY <1>1, <2>1
  <2>5. \A z \in 0 .. n - 1 : f[z] \in Int
    BY <2>2, <2>3, <2>4
  <2>6. ZPart(r, g) = {r.zs * z + HalfStep(r, z) : z \in 0 .. n - 1}
    BY <1>1, <1>4 DEF ZPart
  <2>7. ZPart(r, g) = {f[z] : z \in 0 .. n - 1}
    BY <2>3, <2>6
  <2>8. Spans({f[z] : z \in 0 .. n - 1}, f, n)
    BY <1>1, <1>2, <2>5, ImageSpans
  <2>. QED BY <1>1, <2>7, <2>8 DEF f
<1>5. CASE "zs" \notin DOMAIN r
  <2>1. ZPart(r, g) = {0}
    BY <1>5 DEF ZPart
  <2>2. \A z \in 0 .. n - 1 : f[z] = 0
    BY <1>3, <1>5
  <2>3. Spans({0}, f, n)
    BY <1>1, <1>2, <2>2, ZeroSpans
  <2>. QED BY <1>1, <2>1, <2>3 DEF f
<1>. QED BY <1>4, <1>5

(* The x part: tiles, groups, permuted digits or a stride.                 *)
LEMMA XSpans ==
  ASSUME NEW g \in Sizes, NEW r, GridRule(r, g), r.kind # "table"
  PROVE  Spans(XPart(r, g), AlongX(r, g), g[1])
<1>1. PICK n \in Nat : n = g[1] /\ n > 0
  BY DEF Sizes
<1>2. 0 \in 0 .. n - 1 /\ n - 1 \in 0 .. n - 1
  BY <1>1
<1>. DEFINE f == AlongX(r, g)
<1>3. f = [x \in 0 .. n - 1 |-> f[x]]
  BY <1>1 DEF AlongX
<1>4. CASE r.kind = "permutation"
  <2>1. \A x \in 0 .. n - 1 : f[x] = r.step * PermutedIndex(r.extents, r.order, x)
    BY <1>1, <1>4 DEF AlongX, ByX
  <2>2. XPart(r, g) = {0, (n - 1) * r.step}
    BY <1>1, <1>4 DEF XPart
  <2>3. /\ r.step \in Int /\ r.order \in Permutation3 /\ \A i \in 1..3 : r.extents[i] \in Nat \ {0}
        /\ n = r.extents[1] * r.extents[2] * r.extents[3]
    BY <1>1, <1>4 DEF GridRule, Permuting
  <2>. HIDE DEF f
  <2>4. \A x \in 0 .. n - 1 : /\ PermutedIndex(r.extents, r.order, x) \in 0 .. n - 1
                              /\ x = 0 => PermutedIndex(r.extents, r.order, x) = 0
                              /\ x = n - 1 => PermutedIndex(r.extents, r.order, x) = n - 1
    BY <2>3, IndexIn
  <2>. DEFINE index == [x \in 0 .. n - 1 |-> PermutedIndex(r.extents, r.order, x)]
  <2>5. \A x \in 0 .. n - 1 : index[x] = PermutedIndex(r.extents, r.order, x)
    OBVIOUS
  <2>6. index[0] = 0 /\ index[n - 1] = n - 1
    BY <1>2, <2>4, <2>5
  <2>. HIDE DEF index
  <2>7. \A x \in 0 .. n - 1 : index[x] \in 0 .. n - 1
    BY <2>4, <2>5
  <2>8. \A x \in 0 .. n - 1 : f[x] = r.step * index[x]
    BY <2>1, <2>5
  <2>9. PICK s \in Int : s = r.step
    BY <2>3
  <2>10. Spans({0, (n - 1) * r.step}, f, n)
    <3>1. \A x \in 0 .. n - 1 : f[x] = s * index[x]
      BY <2>8, <2>9
    <3>2. Spans({0, (n - 1) * s}, f, n)
      BY <1>1, <1>2, <2>6, <2>7, <3>1, EndsSpan
    <3>. QED BY <2>9, <3>2
  <2>. QED BY <1>1, <2>2, <2>10 DEF f
<1>5. CASE r.kind = "coordinate"
  <2>1. \A x \in 0 .. n - 1 : f[x] = r.xs * x
    BY <1>1, <1>5 DEF AlongX, ByX
  <2>2. r.xs \in Int /\ "zs" \in DOMAIN r
    BY <1>5 DEF GridRule, Summed
  <2>3. XPart(r, g) = {0, (n - 1) * r.xs}
    BY <1>1, <1>5, <2>2 DEF XPart
  <2>. HIDE DEF f
  <2>4. Spans({0, (n - 1) * r.xs}, f, n)
    BY <1>1, <2>1, <2>2, StrideSpans
  <2>. QED BY <1>1, <2>3, <2>4 DEF f
<1>6. CASE r.kind = "floor"
  <2>1. \A x \in 0 .. n - 1 : f[x] = r.qs * (x \div r.width)
    BY <1>1, <1>6 DEF AlongX, ByX
  <2>2. r.qs \in Int /\ r.width \in Nat /\ r.width > 1
    BY <1>6 DEF GridRule, Flooring
  <2>3. XPart(r, g) = {r.qs * (x \div r.width) + 0 : x \in 0 .. n - 1}
    BY <1>1, <1>6 DEF XPart
  <2>. HIDE DEF f
  <2>4. \A x \in 0 .. n - 1 : x \div r.width \in Int
    BY <1>1, <2>2
  <2>5. \A x \in 0 .. n - 1 : r.qs * (x \div r.width) \in Int
    BY <2>2, <2>4
  <2>6. XPart(r, g) = {f[x] : x \in 0 .. n - 1}
    <3>1. \A x \in 0 .. n - 1 : r.qs * (x \div r.width) + 0 = f[x]
      BY <2>1, <2>5
    <3>. QED BY <2>3, <3>1
  <2>7. \A x \in 0 .. n - 1 : f[x] \in Int
    BY <2>1, <2>5
  <2>8. Spans({f[x] : x \in 0 .. n - 1}, f, n)
    BY <1>1, <1>3, <2>7, ImageSpans
  <2>. QED BY <1>1, <2>6, <2>8 DEF f
<1>7. CASE r.kind = "tiled"
  <2>1. \A x \in 0 .. n - 1 : f[x] = r.qs * (x \div r.width) + r.rs * (x % r.width)
    BY <1>1, <1>7 DEF AlongX, ByX
  <2>2. r.qs \in Int /\ r.rs \in Int /\ r.width \in Nat /\ r.width > 1
    BY <1>7 DEF GridRule, Summed
  <2>3. XPart(r, g) = {r.qs * (x \div r.width) + r.rs * (x % r.width) : x \in 0 .. n - 1}
    BY <1>1, <1>7 DEF XPart
  <2>. HIDE DEF f
  <2>4. \A x \in 0 .. n - 1 : x \div r.width \in Int /\ x % r.width \in Int
    BY <1>1, <2>2
  <2>5. \A x \in 0 .. n - 1 : f[x] \in Int
    BY <2>1, <2>2, <2>4
  <2>6. XPart(r, g) = {f[x] : x \in 0 .. n - 1}
    BY <2>1, <2>3
  <2>7. Spans({f[x] : x \in 0 .. n - 1}, f, n)
    BY <1>1, <1>3, <2>5, ImageSpans
  <2>. QED BY <1>1, <2>6, <2>7 DEF f
<1>. QED BY <1>4, <1>5, <1>6, <1>7 DEF GridRule

(* A rule's address is the sum of its parts.                               *)
LEMMA RuleIsSum ==
  ASSUME NEW g \in Sizes, NEW r, GridRule(r, g), r.kind # "table", NEW b \in Grid(g)
  PROVE  LET c == Coordinate(g, b)
         IN  PredictBase(r, g, b) = r.at + AlongX(r, g)[c[1]] + AlongY(r, g)[c[2]] + AlongZ(r, g)[c[3]]
<1>. DEFINE c == Coordinate(g, b)
<1>1. c[1] \in 0 .. g[1] - 1 /\ c[2] \in 0 .. g[2] - 1 /\ c[3] \in 0 .. g[3] - 1
  BY CoordinateIn
<1>2. /\ AlongX(r, g)[c[1]] = ByX(r, c[1])
      /\ AlongY(r, g)[c[2]] = IF "yoff" \in DOMAIN r THEN r.yoff[c[2] + 1]
                              ELSE IF "ys" \in DOMAIN r THEN r.ys * c[2] ELSE 0
      /\ AlongZ(r, g)[c[3]] = IF "zs" \in DOMAIN r THEN r.zs * c[3] + HalfStep(r, c[3]) ELSE 0
  BY <1>1 DEF AlongX, AlongY, AlongZ
<1>3. /\ AlongX(r, g)[c[1]] \in Int /\ AlongY(r, g)[c[2]] \in Int /\ AlongZ(r, g)[c[3]] \in Int
  BY <1>1, XSpans, YSpans, ZSpans DEF Spans
<1>4. g[1] \in Nat /\ g[2] \in Nat /\ g[3] \in Nat /\ g[1] > 0 /\ c[1] = b % g[1] /\ b \in Nat
  BY CoordinateIs
<1>5. CASE r.kind = "permutation"
  <2>1. b = c[1]
    <3>1. b < g[1] * g[2] * g[3] /\ g[2] = 1 /\ g[3] = 1
      BY <1>4, <1>5 DEF Grid, GridSize, GridRule, Permuting
    <3>2. b < g[1]
      BY <1>4, <3>1
    <3>. QED BY <1>4, <3>2
  <2>. HIDE DEF c
  <2>2. r.at \in Int /\ "yoff" \notin DOMAIN r /\ "ys" \notin DOMAIN r /\ "zs" \notin DOMAIN r
    BY <1>5 DEF GridRule, Permuting
  <2>3. PredictBase(r, g, b) = r.at + r.step * PermutedIndex(r.extents, r.order, b)
    BY <1>5 DEF PredictBase
  <2>4. AlongX(r, g)[c[1]] = r.step * PermutedIndex(r.extents, r.order, b)
    BY <1>2, <1>5, <2>1 DEF ByX
  <2>5. AlongY(r, g)[c[2]] = 0 /\ AlongZ(r, g)[c[3]] = 0
    BY <1>2, <2>2
  <2>. QED BY <1>3, <2>2, <2>3, <2>4, <2>5 DEF c
<1>6. CASE r.kind = "floor"
  <2>1. r.at \in Int /\ "yoff" \notin DOMAIN r /\ "ys" \notin DOMAIN r /\ "zs" \notin DOMAIN r
    BY <1>6 DEF GridRule, Flooring
  <2>2. PredictBase(r, g, b) = r.at + r.qs * (c[1] \div r.width)
    BY <1>6 DEF PredictBase
  <2>. HIDE DEF c
  <2>3. AlongX(r, g)[c[1]] = r.qs * (c[1] \div r.width)
    BY <1>2, <1>6 DEF ByX
  <2>4. AlongY(r, g)[c[2]] = 0 /\ AlongZ(r, g)[c[3]] = 0
    BY <1>2, <2>1
  <2>. QED BY <1>3, <2>1, <2>2, <2>3, <2>4 DEF c
<1>7. CASE r.kind = "tiled"
  <2>1. r.at \in Int /\ "yoff" \in DOMAIN r /\ "zs" \in DOMAIN r /\ r.zs \in Int
        /\ r.yoff \in [1 .. g[2] -> Int] /\ r.qs \in Int /\ r.rs \in Int /\ r.width \in Nat /\ r.width > 1
    BY <1>7 DEF GridRule, Summed
  <2>2. PredictBase(r, g, b) = r.at + r.qs * (c[1] \div r.width) + r.rs * (c[1] % r.width)
                                    + r.yoff[c[2] + 1] + r.zs * c[3] + HalfStep(r, c[3])
    BY <1>7 DEF PredictBase, Tiled
  <2>. HIDE DEF c
  <2>3. AlongX(r, g)[c[1]] = r.qs * (c[1] \div r.width) + r.rs * (c[1] % r.width)
    BY <1>2, <1>7 DEF ByX
  <2>4. AlongY(r, g)[c[2]] = r.yoff[c[2] + 1] /\ AlongZ(r, g)[c[3]] = r.zs * c[3] + HalfStep(r, c[3])
    BY <1>2, <2>1
  <2>5. HalfStep(r, c[3]) \in Int
    BY <1>7 DEF HalfStep, GridRule, Summed
  <2>6. r.qs * (c[1] \div r.width) \in Int /\ r.rs * (c[1] % r.width) \in Int /\ r.zs * c[3] \in Int
    <3>1. c[1] \in Nat /\ c[3] \in Nat
      BY <1>1, <1>4
    <3>2. c[1] \div r.width \in Int /\ c[1] % r.width \in Int
      BY <2>1, <3>1
    <3>3. r.qs * (c[1] \div r.width) \in Int
      BY <2>1, <3>2
    <3>4. r.rs * (c[1] % r.width) \in Int
      BY <2>1, <3>2
    <3>5. r.zs * c[3] \in Int
      BY <2>1, <3>1
    <3>. QED BY <3>3, <3>4, <3>5
  <2>. DEFINE a == r.qs * (c[1] \div r.width)
              d == r.rs * (c[1] % r.width)
              e == r.zs * c[3]
              h == HalfStep(r, c[3])
              y == r.yoff[c[2] + 1]
  <2>7. a \in Int /\ d \in Int /\ e \in Int /\ h \in Int /\ y \in Int /\ r.at \in Int
    BY <1>3, <2>1, <2>4, <2>5, <2>6
  <2>8. /\ PredictBase(r, g, b) = r.at + a + d + y + e + h
        /\ AlongX(r, g)[c[1]] = a + d /\ AlongY(r, g)[c[2]] = y /\ AlongZ(r, g)[c[3]] = e + h
    BY <2>2, <2>3, <2>4
  <2>. HIDE DEF a, d, e, h, y
  <2>. QED BY <2>7, <2>8 DEF c
<1>8. CASE r.kind = "coordinate"
  <2>1. r.at \in Int /\ "zs" \in DOMAIN r /\ r.zs \in Int /\ r.xs \in Int
        /\ ("yoff" \notin DOMAIN r => "ys" \in DOMAIN r)
    BY <1>8 DEF GridRule, Summed
  <2>2. PredictBase(r, g, b) = r.at + r.xs * c[1] + r.zs * c[3] + HalfStep(r, c[3])
             + (IF "yoff" \in DOMAIN r THEN r.yoff[c[2] + 1] ELSE r.ys * c[2])
    BY <1>8, <2>1 DEF PredictBase, Coordinated
  <2>. HIDE DEF c
  <2>3. AlongX(r, g)[c[1]] = r.xs * c[1]
    BY <1>2, <1>8 DEF ByX
  <2>4. /\ AlongY(r, g)[c[2]] = IF "yoff" \in DOMAIN r THEN r.yoff[c[2] + 1] ELSE r.ys * c[2]
        /\ AlongZ(r, g)[c[3]] = r.zs * c[3] + HalfStep(r, c[3])
    BY <1>2, <2>1
  <2>5. HalfStep(r, c[3]) \in Int
    BY <1>8 DEF HalfStep, GridRule, Summed
  <2>6. r.xs * c[1] \in Int /\ r.zs * c[3] \in Int
    BY <1>1, <1>4, <2>1
  <2>7. PredictBase(r, g, b) = r.at + r.xs * c[1] + r.zs * c[3] + HalfStep(r, c[3]) + AlongY(r, g)[c[2]]
    BY <2>2, <2>4
  <2>8. AlongZ(r, g)[c[3]] = r.zs * c[3] + HalfStep(r, c[3])
    BY <2>4
  <2>. QED BY <1>3, <2>1, <2>3, <2>5, <2>6, <2>7, <2>8 DEF c
<1>. QED BY <1>5, <1>6, <1>7, <1>8 DEF GridRule

(* rule_bounds of a class: the extremes of the addresses themselves.       *)
LEMMA ClassExact ==
  ASSUME NEW g, NEW r, NEW ctas, IsFiniteSet(ctas), ctas # {},
         \A b \in ctas : PredictBase(r, g, b) \in Int
  PROVE  Exact(ClassBounds(r, g, ctas), r, g, ctas)
<1>. DEFINE f == [b \in ctas |-> PredictBase(r, g, b)]
            V == {f[b] : b \in ctas}
<1>1. f = [b \in ctas |-> f[b]] /\ \A b \in ctas : f[b] = PredictBase(r, g, b)
  OBVIOUS
<1>2. V = {PredictBase(r, g, b) : b \in ctas}
  OBVIOUS
<1>3. ClassBounds(r, g, ctas) = [lo |-> Min(V), hi |-> Max(V)]
  BY <1>2 DEF ClassBounds
<1>. HIDE DEF f
<1>4. IsFiniteSet(V) /\ V # {} /\ V \subseteq Int
  BY <1>1, ImageIs
<1>5. \A b \in ctas : PredictBase(r, g, b) \in V
  BY <1>1
<1>6. \A v \in V : \E b \in ctas : PredictBase(r, g, b) = v
  BY <1>1
<1>. HIDE DEF V
<1>7. Min(V) \in V /\ \A y \in V : Min(V) =< y
  BY <1>4, LeastInt
<1>8. Max(V) \in V /\ \A y \in V : y =< Max(V)
  BY <1>4, GreatestInt
<1>. DEFINE bounds == ClassBounds(r, g, ctas)
<1>9. bounds.lo = Min(V) /\ bounds.hi = Max(V)
  BY <1>3
<1>. HIDE DEF bounds
<1>10. bounds.lo \in Int /\ bounds.hi \in Int
  BY <1>4, <1>7, <1>8, <1>9
<1>11. \A b \in ctas : bounds.lo =< PredictBase(r, g, b) /\ PredictBase(r, g, b) =< bounds.hi
  BY <1>5, <1>7, <1>8, <1>9
<1>12. (\E b \in ctas : PredictBase(r, g, b) = bounds.lo) /\ (\E b \in ctas : PredictBase(r, g, b) = bounds.hi)
  BY <1>6, <1>7, <1>8, <1>9
<1>13. Exact(bounds, r, g, ctas)
  BY <1>10, <1>11, <1>12 DEF Exact
<1>. QED BY <1>13 DEF bounds

(* Those of a grid, computed from the rule: they are its least and its     *)
(* greatest address.                                                       *)
LEMMA GridExact ==
  ASSUME NEW g \in Sizes, NEW r, GridRule(r, g), IsFiniteSet(Grid(g)), Grid(g) # {},
         r.kind = "table" => \A b \in Grid(g) : b \in DOMAIN r.bases /\ r.bases[b] \in Int
  PROVE  Exact(GridBounds(r, g), r, g, Grid(g))
<1>1. CASE r.kind = "table"
  <2>1. DOMAIN r.bases = Grid(g)
    BY <1>1 DEF GridRule
  <2>2. \A b : PredictBase(r, g, b) = r.bases[b]
    BY <1>1 DEF PredictBase
  <2>3. {r.bases[b] : b \in DOMAIN r.bases} = {PredictBase(r, g, b) : b \in Grid(g)}
    BY <2>1, <2>2
  <2>4. GridBounds(r, g) = ClassBounds(r, g, Grid(g))
    BY <1>1, <2>3 DEF GridBounds, ClassBounds
  <2>. QED BY <1>1, <2>2, <2>4, ClassExact
<1>2. CASE r.kind # "table"
  <2>. DEFINE X == XPart(r, g)
              Y == YPart(r, g)
              Z == ZPart(r, g)
              fx == AlongX(r, g)
              fy == AlongY(r, g)
              fz == AlongZ(r, g)
              at == r.at
              bounds == GridBounds(r, g)
  <2>1. at \in Int
    BY <1>2 DEF GridRule, Permuting, Flooring, Summed
  <2>2. SumBounds(bounds, at, X, Y, Z)
    BY <1>2 DEF GridBounds, SumBounds
  <2>3. Spans(X, fx, g[1]) /\ Spans(Y, fy, g[2]) /\ Spans(Z, fz, g[3])
    BY <1>2, XSpans, YSpans, ZSpans
  <2>4. SumOf(r, g, at, fx, fy, fz)
    BY <1>2, RuleIsSum DEF SumOf
  <2>. HIDE DEF X, Y, Z, fx, fy, fz, at, bounds
  <2>5. Exact(bounds, r, g, Grid(g))
    BY <2>1, <2>2, <2>3, <2>4, SumSpans, Zenon
  <2>. QED BY <2>5 DEF bounds
<1>. QED BY <1>1, <1>2

-----------------------------------------------------------------------------
(* A complete capture for another layer.                                   *)

LEMMA ProfileIs ==
  ASSUME NEW k
  PROVE  LET p == ProfileOf(k)
         IN  /\ DOMAIN p = {"version", "classes", "class_of", "census"} /\ p.version = Version(k)
             /\ p.classes = [s \in StructuresOf(k, Train(k)) |-> ClassTemplate(k, s)]
             /\ p.class_of = [b \in Grid(k.grid) |-> ClassOf(k, b)]
<1>. DEFINE c == IF k.fitter = "r15" THEN 0 ELSE CensusOf(k, Fitted(k).classes, Fitted(k).class_of)
            f == Fitted(k)
<1>1. ProfileOf(k) = [version |-> f.version, classes |-> f.classes, class_of |-> f.class_of, census |-> c]
  BY DEF ProfileOf
<1>2. /\ f.version = Version(k)
      /\ f.classes = [s \in StructuresOf(k, Train(k)) |-> ClassTemplate(k, s)]
      /\ f.class_of = [b \in Grid(k.grid) |-> ClassOf(k, b)]
  BY DEF Fitted
<1>. HIDE DEF c, f
<1>. QED BY <1>1, <1>2

(* Its classes, and what they are fitted to.                               *)
LEMMA CompleteClasses ==
  ASSUME NEW k \in Workloads, Complete(k), Admitted(k)
  PROVE  /\ Train(k) = Grid(k.grid) /\ Sampled(k) = Grid(k.grid) /\ Version(k) \in {5, 6, 9}
         /\ \A s : s \in StructuresOf(k, Train(k)) <=> \E b \in Grid(k.grid) : ClassOf(k, b) = s
         /\ \A b \in Grid(k.grid) : ClassOf(k, b) = Structure(k.recs[b])
<1>1. SelectionAdmitted(k) /\ StructureAdmitted(k)
  BY DEF Admitted
<1>2. k.format = "memc" /\ Train(k) = Sampled(k) /\ Train(k) = Grid(k.grid)
  BY <1>1 DEF SelectionAdmitted, Train
<1>3. Version(k) \in {5, 6, 9}
  BY <1>2, CompleteIsAdmitted
<1>4. \A b \in Grid(k.grid) : ClassOf(k, b) = Structure(k.recs[b])
  BY <1>1, <1>2, ClassOfSampled
<1>5. \A s : s \in StructuresOf(k, Train(k)) <=> \E b \in Grid(k.grid) : ClassOf(k, b) = s
  BY <1>2, <1>4 DEF StructuresOf
<1>. QED BY <1>2, <1>3, <1>4, <1>5

(* A profile with the fitted classes and rules.                            *)
Shaped(p) ==
  /\ p.version = Version(w) /\ p.class_of = [b \in Grid(w.grid) |-> ClassOf(w, b)]
  /\ DOMAIN p.classes = StructuresOf(w, Train(w))
  /\ \A s \in DOMAIN p.classes :
       /\ DOMAIN p.classes[s] = DOMAIN ClassTemplate(w, s)
       /\ \A i \in DOMAIN p.classes[s] : /\ p.classes[s][i].rule = ClassTemplate(w, s)[i].rule
                                         /\ p.classes[s][i].slot = ClassTemplate(w, s)[i].slot
                                         /\ DOMAIN p.classes[s][i] = Fields

(* Its rules are in normal form already.                                   *)
LEMMA NormalShaped ==
  ASSUME w \in Workloads, Complete(w), Admitted(w)
  PROVE  Shaped(Normalise(ProfileOf(w)))
<1>. DEFINE p == ProfileOf(w)
            S == StructuresOf(w, Train(w))
            g == w.grid
            q == Normalise(p)
<1>0. g \in Sizes
  BY WorkloadsAssumption DEF Sizes
<1>1. /\ DOMAIN p = {"version", "classes", "class_of", "census"} /\ p.version = Version(w)
      /\ p.classes = [s \in S |-> ClassTemplate(w, s)]
      /\ p.class_of = [b \in Grid(g) |-> ClassOf(w, b)]
  BY ProfileIs
<1>. HIDE DEF p, S
<1>2. /\ q.class_of = p.class_of /\ q.version = p.version
      /\ q.classes = [x \in DOMAIN p.classes |-> [i \in DOMAIN p.classes[x] |->
            [p.classes[x][i] EXCEPT !.rule = Normalized(@, g)]]]
  BY <1>1 DEF Normalise
<1>. HIDE DEF q
<1>3. ASSUME NEW s \in S
      PROVE  LET T == ClassTemplate(w, s)
             IN  /\ DOMAIN q.classes[s] = DOMAIN T
                 /\ \A i \in DOMAIN T : /\ q.classes[s][i].rule = T[i].rule
                                        /\ q.classes[s][i].slot = T[i].slot
                                        /\ DOMAIN q.classes[s][i] = Fields
  <2>. DEFINE T == ClassTemplate(w, s)
  <2>1. PICK b \in Grid(w.grid) : ClassOf(w, b) = s
    BY CompleteClasses DEF S
  <2>2. Slotted(T, w.recs[b]) /\ Ruled(T, w.grid, FALSE)
    BY <2>1, CompleteFit
  <2>3. p.classes[s] = T /\ s \in DOMAIN p.classes
    BY <1>1
  <2>. HIDE DEF T
  <2>4. q.classes[s] = [i \in DOMAIN T |-> [T[i] EXCEPT !.rule = Normalized(T[i].rule, g)]]
    BY <1>2, <2>3
  <2>5. ASSUME NEW i \in DOMAIN T
        PROVE  /\ q.classes[s][i].rule = T[i].rule /\ q.classes[s][i].slot = T[i].slot
               /\ DOMAIN q.classes[s][i] = Fields
    <3>1. DOMAIN T[i] = Fields /\ GridRule(T[i].rule, g)
      BY <2>2 DEF Slotted, Ruled
    <3>2. Normalized(T[i].rule, g) = T[i].rule
      BY <1>0, <3>1, NormalizedIs
    <3>3. q.classes[s][i] = [T[i] EXCEPT !.rule = T[i].rule]
      BY <2>4, <3>2
    <3>. QED BY <3>1, <3>3 DEF Fields
  <2>. QED BY <2>4, <2>5 DEF T
<1>4. DOMAIN q.classes = S
  BY <1>1, <1>2
<1>. QED BY <1>1, <1>2, <1>3, <1>4 DEF Shaped, S, q, p

(* The addresses that the entry e of the profile p has.                    *)
Home(e) == {b \in Grid(w.grid) : ClassOf(w, b) = e[1]}
RuleOf(p, e) == p.classes[e[1]][e[2]].rule

(* An entry has CTAs, and its rule gives each the address it was sampled   *)
(* with.                                                                   *)
LEMMA HomeIs ==
  ASSUME w \in Workloads, Complete(w), Admitted(w), NEW p, Shaped(p), NEW e \in Entries(p)
  PROVE  /\ Home(e) # {} /\ GridRule(RuleOf(p, e), w.grid)
         /\ \A b \in Home(e) : /\ e = <<ClassOf(w, b), e[2]>> /\ e[2] \in DOMAIN ClassTemplate(w, ClassOf(w, b))
                               /\ RuleOf(p, e) = ClassTemplate(w, ClassOf(w, b))[e[2]].rule
                               /\ PredictBase(RuleOf(p, e), w.grid, b) \in Nat
                               /\ PredictBase(RuleOf(p, e), w.grid, b)
                                    = RecordAt(w.recs[b], ClassTemplate(w, ClassOf(w, b))[e[2]].slot).base
<1>1. e[1] \in DOMAIN p.classes /\ e[2] \in DOMAIN p.classes[e[1]] /\ e = <<e[1], e[2]>>
  BY DEF Entries
<1>2. /\ e[1] \in StructuresOf(w, Train(w)) /\ e[2] \in DOMAIN ClassTemplate(w, e[1])
      /\ RuleOf(p, e) = ClassTemplate(w, e[1])[e[2]].rule
  BY <1>1 DEF Shaped, RuleOf
<1>3. Home(e) # {}
  BY <1>2, CompleteClasses DEF Home
<1>4. ASSUME NEW b \in Home(e)
      PROVE  /\ ClassOf(w, b) = e[1] /\ GridRule(RuleOf(p, e), w.grid)
             /\ PredictBase(RuleOf(p, e), w.grid, b) \in Nat
             /\ PredictBase(RuleOf(p, e), w.grid, b)
                  = RecordAt(w.recs[b], ClassTemplate(w, ClassOf(w, b))[e[2]].slot).base
  <2>. DEFINE T == ClassTemplate(w, ClassOf(w, b))
              recs == w.recs[b]
              i == e[2]
  <2>1. b \in Grid(w.grid) /\ ClassOf(w, b) = e[1]
    BY DEF Home
  <2>2. recs \in Seq(Instruction) /\ Slotted(T, recs) /\ Ruled(T, w.grid, FALSE) /\ Predicts(T, w.grid, b, recs)
    BY <2>1, CompleteFit
  <2>3. i \in DOMAIN T /\ RuleOf(p, e) = T[i].rule
    BY <1>2, <2>1
  <2>. HIDE DEF T, recs, i
  <2>4. T[i].slot \in Structure(recs) /\ GridRule(T[i].rule, w.grid)
        /\ PredictBase(T[i].rule, w.grid, b) = RecordAt(recs, T[i].slot).base
    BY <2>2, <2>3 DEF Slotted, Ruled, Predicts
  <2>5. RecordAt(recs, T[i].slot).base \in Nat
    BY <2>2, <2>4, SlotIndexIs, RecordsAre
  <2>. QED BY <2>1, <2>3, <2>4, <2>5 DEF T, recs, i
<1>. QED BY <1>1, <1>2, <1>3, <1>4

(* Its table, if it has one, covers all its CTAs; and its address in b.    *)
Given(p, e) == \A b \in Home(e) : RuleOf(p, e).kind = "table" => b \in DOMAIN RuleOf(p, e).bases
At(p, e, b) == PredictBase(RuleOf(p, e), w.grid, b)

(* The interval I is just what the entry e touches in the sampled launch.  *)
Encloses(I, p, e) ==
  /\ IsInterval(I)
  /\ \A b \in Home(e) : At(p, e, b) \in Nat /\ I.lo =< At(p, e, b) /\ At(p, e, b) + Span =< I.hi
  /\ \E b \in Home(e) : At(p, e, b) = I.lo
  /\ \E b \in Home(e) : At(p, e, b) + Span = I.hi

(* The bounds that the binder reasons with are the true ones.              *)
LEMMA TouchedIs ==
  ASSUME w \in Workloads, Complete(w), Admitted(w), NEW p, Shaped(p), NEW e \in Entries(p), Given(p, e)
  PROVE  Encloses(Touched(p, e), p, e)
<1>. DEFINE r == RuleOf(p, e)
            g == w.grid
            H == Home(e)
            ctas == {b \in Grid(w.grid) : p.class_of[b] = e[1]}
            B == IF Structural(p) THEN ClassBounds(r, g, ctas) ELSE GridBounds(r, g)
            I == Touched(p, e)
<1>0. g \in Sizes /\ IsFiniteSet(Grid(g))
  BY WorkloadsAssumption, GridIs DEF Sizes
<1>1. /\ H # {} /\ GridRule(r, g)
      /\ \A b \in H : PredictBase(r, g, b) \in Nat
  BY HomeIs
<1>2. ctas = H
  BY DEF Shaped, Home
<1>3. H \subseteq Grid(g) /\ IsFiniteSet(H)
  BY <1>0, FS_Subset DEF Home
<1>4. I = [B EXCEPT !.hi = @ + Span]
  BY DEF Touched, Footprint, RuleOf
<1>5. Exact(B, r, g, H)
  <2>1. CASE Structural(p)
    <3>1. B = ClassBounds(r, g, H)
      BY <1>2, <2>1
    <3>. HIDE DEF B, r, g, H
    <3>. QED BY <1>1, <1>3, <3>1, ClassExact
  <2>2. CASE ~Structural(p)
    <3>1. B = GridBounds(r, g)
      BY <2>2
    <3>2. OneClass(w)
      <4>1. ~(Version(w) >= 6) /\ Version(w) \in {5, 6, 9}
        BY <2>2, CompleteClasses DEF Structural, Shaped
      <4>2. ~OneClass(w) => Version(w) \in {6, 9}
        BY DEF Version
      <4>. QED BY <4>1, <4>2
    <3>3. \A b \in Grid(g) : ClassOf(w, b) = TheOnly(StructuresOf(w, Train(w)))
      BY <3>2 DEF ClassOf
    <3>4. H = Grid(g)
      BY <1>1, <3>3 DEF Home
    <3>5. r.kind = "table" => \A b \in Grid(g) : b \in DOMAIN r.bases /\ r.bases[b] \in Int
      <4>1. ASSUME r.kind = "table", NEW b \in Grid(g) PROVE b \in DOMAIN r.bases /\ r.bases[b] \in Int
        <5>1. PredictBase(r, g, b) = r.bases[b]
          BY <4>1 DEF PredictBase
        <5>. QED BY <1>1, <3>4, <4>1, <5>1 DEF Given
      <4>. QED BY <4>1
    <3>. HIDE DEF B, r, g, H
    <3>. QED BY <1>0, <1>1, <3>1, <3>4, <3>5, GridExact
  <2>. QED BY <2>1, <2>2
<1>6. B = [lo |-> B.lo, hi |-> B.hi]
  BY DEF ClassBounds, GridBounds
<1>. HIDE DEF B
<1>7. I.lo = B.lo /\ I.hi = B.hi + Span
  BY <1>4, <1>6
<1>. HIDE DEF I, r, g, H
<1>8. /\ B.lo \in Int /\ B.hi \in Int
      /\ \A b \in H : B.lo =< PredictBase(r, g, b) /\ PredictBase(r, g, b) =< B.hi
      /\ \E b \in H : PredictBase(r, g, b) = B.lo
      /\ \E b \in H : PredictBase(r, g, b) = B.hi
  BY <1>5 DEF Exact
<1>9. Span \in Nat /\ Span > 0
  BY SectorIs
<1>10. B.lo \in Nat /\ B.hi \in Nat /\ B.lo =< B.hi
  BY <1>1, <1>8
<1>11. IsInterval(I)
  BY <1>7, <1>9, <1>10 DEF IsInterval
<1>12. \A b \in H : PredictBase(r, g, b) \in Nat /\ I.lo =< PredictBase(r, g, b) /\ PredictBase(r, g, b) + Span =< I.hi
  BY <1>1, <1>7, <1>8, <1>9, <1>10
<1>13. (\E b \in H : PredictBase(r, g, b) = I.lo) /\ (\E b \in H : PredictBase(r, g, b) + Span = I.hi)
  BY <1>7, <1>8
<1>. QED BY <1>11, <1>12, <1>13 DEF Encloses, At, r, g, H, I

(* What the binder moves an entry by.                                      *)
Alone(p, e) == DeltasOf(p, e) = {}

(* There are finitely many.                                                *)
LEMMA EntriesFinite ==
  ASSUME w \in Workloads, Complete(w), Admitted(w), NEW p, Shaped(p)
  PROVE  IsFiniteSet(Entries(p))
<1>. DEFINE S == DOMAIN p.classes
            T == [s \in S |-> DOMAIN p.classes[s]]
<1>1. IsFiniteSet(S)
  <2>1. Train(w) \in SUBSET Grid(w.grid)
    BY CompleteClasses
  <2>. QED BY <2>1, StructuresAre DEF Shaped
<1>2. ASSUME NEW s \in S PROVE IsFiniteSet(T[s])
  <2>1. s \in StructuresOf(w, Train(w)) /\ DOMAIN p.classes[s] = DOMAIN ClassTemplate(w, s)
    BY DEF Shaped
  <2>2. PICK b \in Grid(w.grid) : ClassOf(w, b) = s
    BY <2>1, CompleteClasses
  <2>3. Slotted(ClassTemplate(w, s), w.recs[b])
    BY <2>2, CompleteFit
  <2>. DEFINE U == ClassTemplate(w, s)
  <2>. HIDE DEF U
  <2>4. Len(U) \in Nat /\ U = [i \in 1 .. Len(U) |-> U[i]]
    BY <2>3 DEF Slotted, IsSequence, U
  <2>5. DOMAIN U = 1 .. Len(U)
    BY <2>4
  <2>6. IsFiniteSet(1 .. Len(U))
    <3>1. 1 \in Int /\ Len(U) \in Int
      BY <2>4
    <3>. QED BY <3>1, FS_Interval, Zenon
  <2>. QED BY <2>1, <2>5, <2>6 DEF U
<1>. HIDE DEF T
<1>3. IsFiniteSet(Joined(S, T))
  BY <1>1, <1>2, JoinedIs
<1>4. \A x \in S : T[x] = DOMAIN p.classes[x]
  BY DEF T
<1>5. \A x : x \in Entries(p) <=> \E s \in S : \E i \in T[s] : x = <<s, i>>
  BY <1>4 DEF Entries
<1>6. \A x : x \in Joined(S, T) <=> \E s \in S : \E i \in T[s] : x = <<s, i>>
  BY <1>1, <1>2, JoinedIs
<1>7. Entries(p) = Joined(S, T)
  BY <1>5, <1>6
<1>. QED BY <1>3, <1>7

(* With a tensor or alone: the shift of a counterpart, or pages of its     *)
(* own.                                                                    *)
LEMMA ShiftIs ==
  ASSUME w \in Workloads, "expanded" \in w.by, NEW p, IsFiniteSet(Entries(p)),
         \A e \in Entries(p) : IsInterval(Touched(p, e))
  PROVE  /\ \A e \in Entries(p) :
              /\ Shift(p, e) \in Int
              /\ ~Alone(p, e) => Shift(p, e) \in DeltasOf(p, e)
              /\ Alone(p, e) => /\ Shift(p, e) % Page = 0
                                /\ FirstPrivate =< Touched(p, e).lo + Shift(p, e)
         /\ \A d, e \in Entries(p) : Alone(p, d) /\ Alone(p, e) =>
              \/ Shift(p, d) = Shift(p, e)
              \/ Apart(Touched(p, d), Shift(p, d), Touched(p, e), Shift(p, e))
              \/ Apart(Touched(p, e), Shift(p, e), Touched(p, d), Shift(p, d))
<1>. DEFINE P == Private(p)
            F == FirstPrivate
            D == {e \in Entries(p) : Alone(p, e)}
            touched == [e \in D |-> Touched(p, e)]
<1>1. FirstPrivate \in Nat /\ FirstPrivate % Page = 0
  BY FirstPrivateIs
<1>2. IsFiniteSet(P)
  <2>1. IsFiniteSet(D)
    BY FS_Subset
  <2>2. P = {touched[e] : e \in D}
    BY DEF Private, Alone
  <2>3. touched = [e \in D |-> touched[e]]
    OBVIOUS
  <2>. HIDE DEF D, P, touched
  <2>. QED BY <2>1, <2>2, <2>3, ImageIs
<1>3. \A e \in Entries(p) : Alone(p, e) => Touched(p, e) \in P
  BY DEF Private, Alone
<1>4. \A i \in P : IsInterval(i)
  BY DEF Private
<1>. DEFINE shift(i) == PrivateShift(i, P, F)
<1>5. \A e \in Entries(p) : Alone(p, e) => Shift(p, e) = shift(Touched(p, e))
  BY DEF Shift, Alone
<1>. HIDE DEF P, F
<1>6. /\ \A i \in P : shift(i) \in Int /\ shift(i) % Page = 0 /\ F =< i.lo + shift(i)
      /\ \A i, j \in P : \/ shift(i) = shift(j)
                         \/ Apart(i, shift(i), j, shift(j)) \/ Apart(j, shift(j), i, shift(i))
  BY <1>1, <1>2, <1>4, PrivateIs DEF F
<1>. HIDE DEF shift
<1>7. ASSUME NEW e \in Entries(p), ~Alone(p, e)
      PROVE  Shift(p, e) \in DeltasOf(p, e) /\ Shift(p, e) \in Int
  <2>1. Shift(p, e) = TheOnly(DeltasOf(p, e)) /\ DeltasOf(p, e) # {}
    BY <1>7 DEF Shift, Alone
  <2>2. Shift(p, e) \in DeltasOf(p, e)
    BY <2>1 DEF TheOnly
  <2>3. \A d \in DeltasOf(p, e) : \E m \in Observed : d = m.delta
    BY DEF DeltasOf, Deltas
  <2>4. \A m \in Observed : m.delta \in Int
    <3>1. \A v \in w.views : v.begin \in Nat /\ v.bytes \in Nat
      BY FirstPrivateIs
    <3>. QED BY <3>1 DEF Observed, Pairs, Counterparts
  <2>. QED BY <2>2, <2>3, <2>4
<1>8. \A e \in Entries(p) : Alone(p, e) => /\ Shift(p, e) \in Int /\ Shift(p, e) % Page = 0
                                           /\ FirstPrivate =< Touched(p, e).lo + Shift(p, e)
  BY <1>3, <1>5, <1>6 DEF F
<1>9. ASSUME NEW d \in Entries(p), NEW e \in Entries(p), Alone(p, d), Alone(p, e)
      PROVE  \/ Shift(p, d) = Shift(p, e)
             \/ Apart(Touched(p, d), Shift(p, d), Touched(p, e), Shift(p, e))
             \/ Apart(Touched(p, e), Shift(p, e), Touched(p, d), Shift(p, d))
  <2>. DEFINE i == Touched(p, d)
              j == Touched(p, e)
  <2>1. i \in P /\ j \in P /\ Shift(p, d) = shift(i) /\ Shift(p, e) = shift(j)
    BY <1>3, <1>5, <1>9
  <2>. HIDE DEF i, j
  <2>2. \/ shift(i) = shift(j)
        \/ Apart(i, shift(i), j, shift(j)) \/ Apart(j, shift(j), i, shift(i))
    BY <1>6, <2>1
  <2>. QED BY <2>1, <2>2 DEF i, j
<1>. QED BY <1>7, <1>8, <1>9

(* A rule that is moved as a whole.                                        *)
LEMMA TranslatedIs ==
  ASSUME NEW g \in Sizes, NEW r, GridRule(r, g), NEW d \in Int
  PROVE  LET t == Translated(r, d)
         IN  /\ GridRule(t, g) /\ t.kind = r.kind
             /\ r.kind = "table" => DOMAIN t.bases = DOMAIN r.bases
             /\ \A b \in Grid(g) : (r.kind = "table" => b \in DOMAIN r.bases) =>
                  PredictBase(t, g, b) = PredictBase(r, g, b) + d
<1>. DEFINE t == Translated(r, d)
<1>1. CASE r.kind = "table"
  <2>1. DOMAIN r = {"kind", "bases"} /\ DOMAIN r.bases \subseteq Grid(g)
    BY <1>1 DEF GridRule
  <2>2. /\ DOMAIN t = {"kind", "bases"} /\ t.kind = "table"
        /\ t.bases = [b \in DOMAIN r.bases |-> r.bases[b] + d]
    BY <1>1, <2>1 DEF Translated
  <2>. HIDE DEF t
  <2>3. GridRule(t, g)
    BY <2>1, <2>2 DEF GridRule
  <2>4. \A b \in DOMAIN r.bases : PredictBase(t, g, b) = PredictBase(r, g, b) + d
    BY <1>1, <2>2 DEF PredictBase
  <2>. QED BY <1>1, <2>2, <2>3, <2>4 DEF t
<1>2. CASE r.kind # "table"
  <2>1. "kind" \in DOMAIN r /\ "at" \in DOMAIN r /\ r.at \in Int
    BY <1>2 DEF GridRule, Permuting, Flooring, Summed
  <2>2. /\ DOMAIN t = DOMAIN r /\ t.at = r.at + d
        /\ \A f \in DOMAIN r : f # "at" => t[f] = r[f]
    BY <1>2, <2>1 DEF Translated
  <2>. HIDE DEF t
  <2>3. t.kind = r.kind /\ t.at \in Int
    BY <2>1, <2>2
  <2>4. GridRule(t, g)
    <3>1. CASE r.kind = "permutation"
      BY <2>2, <2>3, <3>1 DEF GridRule, Permuting
    <3>2. CASE r.kind = "floor"
      BY <2>2, <2>3, <3>2 DEF GridRule, Flooring
    <3>3. CASE r.kind \in {"tiled", "coordinate"}
      <4>1. Summed(r, g)
        BY <3>3 DEF GridRule
      <4>2. Summed(t, g)
        BY <2>2, <2>3, <4>1 DEF Summed
      <4>. QED BY <2>2, <2>3, <3>3, <4>2 DEF GridRule
    <3>. QED BY <1>2, <3>1, <3>2, <3>3 DEF GridRule
  <2>5. ASSUME NEW b \in Grid(g) PROVE PredictBase(t, g, b) = PredictBase(r, g, b) + d
    <3>. DEFINE c == Coordinate(g, b)
                x == AlongX(r, g)[c[1]]
                y == AlongY(r, g)[c[2]]
                z == AlongZ(r, g)[c[3]]
    <3>1. c[1] \in 0 .. g[1] - 1 /\ c[2] \in 0 .. g[2] - 1 /\ c[3] \in 0 .. g[3] - 1
      BY CoordinateIn
    <3>2. x \in Int /\ y \in Int /\ z \in Int
      <4>1. Spans(XPart(r, g), AlongX(r, g), g[1]) /\ Spans(YPart(r, g), AlongY(r, g), g[2])
            /\ Spans(ZPart(r, g), AlongZ(r, g), g[3])
        BY <1>2, XSpans, YSpans, ZSpans
      <4>. QED BY <3>1, <4>1 DEF Spans
    <3>3. AlongX(t, g)[c[1]] = x
      <4>1. AlongX(t, g) = AlongX(r, g)
        <5>1. \A n : ByX(t, n) = ByX(r, n)
          <6>1. CASE r.kind = "permutation"
            BY <2>2, <2>3, <6>1 DEF ByX, GridRule, Permuting
          <6>2. CASE r.kind = "floor"
            BY <2>2, <2>3, <6>2 DEF ByX, GridRule, Flooring
          <6>3. CASE r.kind = "tiled"
            BY <2>2, <2>3, <6>3 DEF ByX, GridRule, Summed
          <6>4. CASE r.kind = "coordinate"
            BY <2>2, <2>3, <6>4 DEF ByX, GridRule, Summed
          <6>. QED BY <1>2, <6>1, <6>2, <6>3, <6>4 DEF GridRule
        <5>. QED BY <5>1 DEF AlongX
      <4>. QED BY <4>1
    <3>4. AlongY(t, g)[c[2]] = y
      <4>1. AlongY(t, g) = AlongY(r, g)
        BY <2>2 DEF AlongY
      <4>. QED BY <4>1
    <3>5. AlongZ(t, g)[c[3]] = z
      <4>1. \A n : HalfStep(t, n) = HalfStep(r, n)
        <5>1. "half" \in DOMAIN r => "hs" \in DOMAIN r
          BY <1>2 DEF GridRule, Permuting, Flooring, Summed
        <5>. QED BY <2>2, <5>1 DEF HalfStep
      <4>2. AlongZ(t, g) = AlongZ(r, g)
        BY <2>2, <4>1 DEF AlongZ
      <4>. QED BY <4>2
    <3>6. PredictBase(r, g, b) = r.at + x + y + z
      BY <1>2, RuleIsSum
    <3>7. PredictBase(t, g, b) = t.at + x + y + z
      <4>1. t.kind # "table"
        BY <1>2, <2>3
      <4>2. PredictBase(t, g, b) = t.at + AlongX(t, g)[c[1]] + AlongY(t, g)[c[2]] + AlongZ(t, g)[c[3]]
        BY <2>4, <4>1, RuleIsSum
      <4>. QED BY <3>3, <3>4, <3>5, <4>2
    <3>. HIDE DEF x, y, z
    <3>. QED BY <2>1, <2>2, <3>2, <3>6, <3>7
  <2>. QED BY <1>2, <2>3, <2>4, <2>5 DEF t
<1>. QED BY <1>1, <1>2

(* The template of a CTA after the binding.                                *)
FitOf(b) == ClassTemplate(w, ClassOf(w, b))
EntryOf(b, n) == <<ClassOf(w, b), n>>

(* Its slots are those of the fit, its rules moved by the shifts of their  *)
(* entries.                                                                *)
LEMMA MovedTemplate ==
  ASSUME w \in Workloads, Complete(w), Admitted(w), NEW p, Shaped(p), profile = Rebound(p),
         NEW b \in Grid(w.grid)
  PROVE  /\ DOMAIN TemplateOf(b) = DOMAIN FitOf(b) /\ profile.class_of[b] = ClassOf(w, b)
         /\ \A n \in DOMAIN FitOf(b) :
              /\ EntryOf(b, n) \in Entries(p) /\ b \in Home(EntryOf(b, n))
              /\ TemplateOf(b)[n].slot = FitOf(b)[n].slot
              /\ TemplateOf(b)[n].rule = Translated(RuleOf(p, EntryOf(b, n)), Shift(p, EntryOf(b, n)))
<1>. DEFINE s == ClassOf(w, b)
            F == FitOf(b)
            T == TemplateOf(b)
<1>1. s \in StructuresOf(w, Train(w))
  BY CompleteClasses
<1>2. /\ p.class_of[b] = s /\ s \in DOMAIN p.classes /\ DOMAIN p.classes[s] = DOMAIN F
      /\ \A n \in DOMAIN F : p.classes[s][n].slot = F[n].slot /\ DOMAIN p.classes[s][n] = Fields
  BY <1>1 DEF Shaped, FitOf
<1>3. /\ profile.class_of = p.class_of
      /\ profile.classes = [x \in DOMAIN p.classes |-> [i \in DOMAIN p.classes[x] |->
            [p.classes[x][i] EXCEPT !.rule = Translated(@, Shift(p, <<x, i>>))]]]
  BY DEF Rebound
<1>4. T = profile.classes[s] /\ profile.class_of[b] = s
  BY <1>2, <1>3 DEF TemplateOf
<1>. HIDE DEF T, F
<1>5. T = [i \in DOMAIN F |-> [p.classes[s][i] EXCEPT !.rule = Translated(p.classes[s][i].rule, Shift(p, <<s, i>>))]]
  <2>. DEFINE c == s
  <2>1. c = s
    OBVIOUS
  <2>. HIDE DEF c
  <2>2. c \in DOMAIN p.classes /\ DOMAIN p.classes[c] = DOMAIN F /\ T = profile.classes[c]
    BY <1>2, <1>4, <2>1
  <2>3. profile.classes[c] = [i \in DOMAIN p.classes[c] |->
                                [p.classes[c][i] EXCEPT !.rule = Translated(p.classes[c][i].rule, Shift(p, <<c, i>>))]]
    BY <1>3, <2>2
  <2>4. T = [i \in DOMAIN F |->
                [p.classes[c][i] EXCEPT !.rule = Translated(p.classes[c][i].rule, Shift(p, <<c, i>>))]]
    BY <2>2, <2>3
  <2>. QED BY <2>1, <2>4
<1>6. ASSUME NEW n \in DOMAIN F
      PROVE  /\ EntryOf(b, n) \in Entries(p) /\ b \in Home(EntryOf(b, n))
             /\ T[n].slot = F[n].slot
             /\ T[n].rule = Translated(RuleOf(p, EntryOf(b, n)), Shift(p, EntryOf(b, n)))
  <2>1. EntryOf(b, n) \in Entries(p)
    BY <1>2 DEF Entries, EntryOf
  <2>2. b \in Home(EntryOf(b, n))
    BY DEF Home, EntryOf
  <2>3. DOMAIN p.classes[s][n] = Fields /\ p.classes[s][n].slot = F[n].slot
    BY <1>2
  <2>4. T[n] = [p.classes[s][n] EXCEPT !.rule = Translated(p.classes[s][n].rule, Shift(p, <<s, n>>))]
    BY <1>5
  <2>5. T[n].slot = F[n].slot /\ T[n].rule = Translated(p.classes[s][n].rule, Shift(p, <<s, n>>))
    BY <2>3, <2>4 DEF Fields
  <2>. QED BY <2>1, <2>2, <2>5 DEF RuleOf, EntryOf
<1>. QED BY <1>4, <1>5, <1>6 DEF T, F

(* When the merge is done, every CTA has executed its template: idx gives  *)
(* the entry of each emitted instruction.                                  *)
Indexed(idx) ==
  /\ \A i \in DOMAIN out :
       LET b == out[i].cta
       IN  /\ b \in Grid(w.grid) /\ idx[i] \in DOMAIN FitOf(b) /\ out[i].slot = FitOf(b)[idx[i]].slot
           /\ out[i].base = BaseOf(TemplateOf(b)[idx[i]], b) /\ out[i].base # Refused
  /\ \A i, j \in DOMAIN out : out[i].cta = out[j].cta /\ idx[i] = idx[j] => i = j
  /\ \A b \in Grid(w.grid) : \A n \in DOMAIN FitOf(b) : \E i \in DOMAIN out : out[i].cta = b /\ idx[i] = n

(* Such an assignment exists.                                              *)
LEMMA IndexedIs ==
  ASSUME w \in Workloads, Complete(w), Faithful, Traced, phase = "done", NEW p, Shaped(p), profile = Rebound(p)
  PROVE  \E idx : Indexed(idx)
<1>. DEFINE own == Native \/ Structural(profile)
            T(b) == TemplateOf(b)
            at(b, n) == NthIndex(T(b), b, own, n)
<1>1. /\ Admitted(w) /\ ProfileTimed(profile, Grid(w.grid))
      /\ IsSequence(out) /\ heap = {} /\ \E pos : Placed(pos)
  BY DEF Faithful, Profiled, Traced
<1>2. PICK pos : Placed(pos)
  BY <1>1
<1>3. DOMAIN out = 1 .. Len(out)
  BY <1>1 DEF IsSequence
<1>4. ASSUME NEW b \in Grid(w.grid)
      PROVE  /\ Timed(T(b), b) /\ DOMAIN T(b) = DOMAIN FitOf(b)
             /\ Len(T(b)) \in Nat
             /\ \A n \in DOMAIN FitOf(b) : T(b)[n].slot = FitOf(b)[n].slot
  <2>1. Timed(T(b), b)
    BY <1>1 DEF ProfileTimed, TemplateOf
  <2>2. /\ DOMAIN T(b) = DOMAIN FitOf(b)
        /\ \A n \in DOMAIN FitOf(b) : T(b)[n].slot = FitOf(b)[n].slot
    BY <1>1, MovedTemplate
  <2>. QED BY <2>1, <2>2 DEF Timed, IsSequence
<1>5. \A b, n : EntryAt(b, n) = Nth(T(b), b, own, n)
  BY DEF EntryAt
<1>. HIDE DEF own, T
<1>6. ASSUME NEW b \in Grid(w.grid), NEW n \in 1 .. Len(T(b))
      PROVE  /\ at(b, n) \in DOMAIN T(b) /\ EntryAt(b, n) = T(b)[at(b, n)]
             /\ Cardinality(Below(T(b), b, own, at(b, n))) = n - 1
  BY <1>4, <1>5, NthIs
<1>7. ASSUME NEW b \in Grid(w.grid), NEW n \in DOMAIN FitOf(b)
      PROVE  \E m \in 1 .. Len(T(b)) : at(b, m) = n
  <2>1. Covered(T(b), b, own)
    BY <1>4, NthCovers
  <2>. QED BY <1>4, <2>1 DEF Covered
<1>. HIDE DEF at
<1>. DEFINE idx == [i \in DOMAIN out |-> at(out[i].cta, pos[i])]
<1>8. \A i \in DOMAIN out : idx[i] = at(out[i].cta, pos[i])
  OBVIOUS
<1>. HIDE DEF idx
<1>9. ASSUME NEW i \in DOMAIN out
      PROVE  LET b == out[i].cta
             IN  /\ b \in Grid(w.grid) /\ pos[i] \in 1 .. Len(T(b)) /\ idx[i] \in DOMAIN FitOf(b)
                 /\ out[i].slot = FitOf(b)[idx[i]].slot
                 /\ out[i].base = BaseOf(T(b)[idx[i]], b) /\ out[i].base # Refused
  <2>. DEFINE b == out[i].cta
              n == pos[i]
              e == EntryAt(b, n)
  <2>1. b \in Grid(w.grid) /\ n \in 1 .. Len(T(b)) /\ out[i] = Emission(b, n) /\ BaseOf(e, b) # Refused
    BY <1>2, <1>3 DEF Placed, Emits, T
  <2>2. out[i].slot = e.slot /\ out[i].base = BaseOf(e, b)
    BY <2>1 DEF Emission
  <2>3. idx[i] = at(b, n)
    BY <1>8
  <2>. HIDE DEF b, n, e
  <2>4. at(b, n) \in DOMAIN T(b) /\ e = T(b)[at(b, n)]
    BY <1>6, <2>1 DEF e
  <2>5. idx[i] \in DOMAIN FitOf(b) /\ e.slot = FitOf(b)[idx[i]].slot
    BY <1>4, <2>1, <2>3, <2>4
  <2>. QED BY <2>1, <2>2, <2>3, <2>4, <2>5 DEF b, n
<1>10. ASSUME NEW i \in DOMAIN out, NEW j \in DOMAIN out, out[i].cta = out[j].cta, idx[i] = idx[j]
       PROVE  i = j
  <2>. DEFINE b == out[i].cta
              m == pos[i]
              n == pos[j]
  <2>1. b \in Grid(w.grid) /\ m \in 1 .. Len(T(b)) /\ n \in 1 .. Len(T(b)) /\ at(b, m) = at(b, n)
    BY <1>8, <1>9, <1>10
  <2>2. m - 1 = n - 1
    <3>. HIDE DEF b, m, n
    <3>. QED BY <1>6, <2>1
  <2>3. m \in Int /\ n \in Int
    BY <2>1
  <2>4. pos[i] = pos[j]
    BY <2>2, <2>3
  <2>. QED BY <1>2, <1>3, <1>10, <2>4 DEF Placed
<1>11. ASSUME NEW b \in Grid(w.grid), NEW n \in DOMAIN FitOf(b)
       PROVE  \E i \in DOMAIN out : out[i].cta = b /\ idx[i] = n
  <2>1. PICK m \in 1 .. Len(T(b)) : at(b, m) = n
    BY <1>7
  <2>2. PICK i \in 1 .. Len(out) : out[i].cta = b /\ pos[i] = m
    BY <1>1, <1>2, <2>1 DEF Placed, T
  <2>. QED BY <1>3, <1>8, <2>1, <2>2
<1>12. Indexed(idx)
  BY <1>9, <1>10, <1>11 DEF Indexed, T
<1>. QED BY <1>12

(* A table that the generator has read for every CTA has them all.         *)
LEMMA GivenIs ==
  ASSUME w \in Workloads, Complete(w), Admitted(w), who = "expanded", NEW p, Shaped(p), profile = Rebound(p),
         NEW idx, Indexed(idx), NEW e \in Entries(p)
  PROVE  Given(p, e)
<1>. SUFFICES ASSUME NEW b \in Home(e), RuleOf(p, e).kind = "table" PROVE b \in DOMAIN RuleOf(p, e).bases
  BY DEF Given
<1>. DEFINE n == e[2]
            r == RuleOf(p, e)
            d == Shift(p, e)
            t == Translated(r, d)
<1>1. e = EntryOf(b, n) /\ n \in DOMAIN FitOf(b) /\ b \in Grid(w.grid) /\ GridRule(r, w.grid)
  BY HomeIs DEF EntryOf, FitOf, Home
<1>. HIDE DEF n
<1>2. TemplateOf(b)[n].rule = t
  BY <1>1, MovedTemplate
<1>3. BaseOf(TemplateOf(b)[n], b) # Refused
  <2>1. PICK i \in DOMAIN out : out[i].cta = b /\ idx[i] = n
    BY <1>1 DEF Indexed
  <2>. QED BY <2>1 DEF Indexed
<1>4. AddressBase(ParseRule(t), w.grid, b, MaxAddress) # Refused
  BY <1>2, <1>3 DEF BaseOf, Native
<1>5. DOMAIN r = {"kind", "bases"} /\ r.kind = "table"
  BY <1>1 DEF GridRule, Permuting, Flooring
<1>6. DOMAIN t = {"kind", "bases"} /\ t.kind = "table" /\ DOMAIN t.bases = DOMAIN r.bases
  BY <1>5 DEF Translated
<1>. HIDE DEF t, r
<1>7. ParseRule(t).kind = "table" /\ ParseRule(t).bases = t.bases
  BY <1>6, ParsedIs
<1>. DEFINE q == ParseRule(t)
<1>. HIDE DEF q
<1>8. q.kind = "table" => b \in DOMAIN q.bases
  BY <1>4 DEF AddressBase, q
<1>. QED BY <1>6, <1>7, <1>8 DEF q, r

(* Every emitted instruction has moved with its entry.                     *)
Moving(idx, p) ==
  \A i \in DOMAIN out :
    LET b == out[i].cta
        e == EntryOf(b, idx[i])
    IN  /\ e \in Entries(p) /\ b \in Home(e)
        /\ SourceBase(out[i]) = At(p, e, b) /\ out[i].base = At(p, e, b) + Shift(p, e)

(* Address for address, as C++ computes them from the moved rules.         *)
LEMMA MovesIs ==
  ASSUME w \in Workloads, Complete(w), Admitted(w), who = "expanded", NEW p, Shaped(p), profile = Rebound(p),
         NEW idx, Indexed(idx), \A e \in Entries(p) : Shift(p, e) \in Int
  PROVE  Moving(idx, p)
<1>. SUFFICES ASSUME NEW i \in DOMAIN out
              PROVE  LET b == out[i].cta
                         e == EntryOf(b, idx[i])
                     IN  /\ e \in Entries(p) /\ b \in Home(e)
                         /\ SourceBase(out[i]) = At(p, e, b) /\ out[i].base = At(p, e, b) + Shift(p, e)
  BY DEF Moving
<1>. DEFINE b == out[i].cta
            n == idx[i]
            e == EntryOf(b, n)
            r == RuleOf(p, e)
            d == Shift(p, e)
            t == Translated(r, d)
            m == TemplateOf(b)[n]
<1>0. w.grid \in Sizes
  BY WorkloadsAssumption DEF Sizes
<1>1. /\ b \in Grid(w.grid) /\ n \in DOMAIN FitOf(b) /\ out[i].slot = FitOf(b)[n].slot
      /\ out[i].base = BaseOf(m, b) /\ BaseOf(m, b) # Refused
  BY DEF Indexed
<1>2. e \in Entries(p) /\ b \in Home(e) /\ m.rule = t
  BY <1>1, MovedTemplate
<1>3. e[2] = n
  BY DEF EntryOf
<1>. HIDE DEF m, e
<1>4. /\ GridRule(r, w.grid) /\ PredictBase(r, w.grid, b) \in Nat
      /\ PredictBase(r, w.grid, b) = RecordAt(w.recs[b], FitOf(b)[n].slot).base
  BY <1>2, <1>3, HomeIs DEF FitOf
<1>5. SourceBase(out[i]) = PredictBase(r, w.grid, b)
  BY <1>1, <1>4 DEF SourceBase
<1>6. d \in Int /\ Given(p, e)
  BY <1>2, GivenIs
<1>7. r.kind = "table" => b \in DOMAIN r.bases
  BY <1>2, <1>6 DEF Given
<1>. HIDE DEF b, r, d
<1>8. GridRule(t, w.grid) /\ PredictBase(t, w.grid, b) = PredictBase(r, w.grid, b) + d
  BY <1>0, <1>1, <1>4, <1>6, <1>7, TranslatedIs
<1>. HIDE DEF t
<1>9. BaseOf(m, b) = PredictBase(t, w.grid, b)
  BY <1>1, <1>2, <1>8, BaseIs
<1>10. out[i].base = PredictBase(r, w.grid, b) + d
  BY <1>1, <1>8, <1>9
<1>. QED BY <1>2, <1>5, <1>10 DEF At, b, r, d, e, n

(* The binding's promises, for every entry.                                *)
Binding(p) ==
  /\ \A e \in Entries(p) :
       /\ Encloses(Touched(p, e), p, e) /\ Shift(p, e) \in Int
       /\ ~Alone(p, e) => Shift(p, e) \in DeltasOf(p, e)
       /\ Alone(p, e) => /\ Shift(p, e) % Page = 0
                         /\ FirstPrivate =< Touched(p, e).lo + Shift(p, e)
  /\ \A d, e \in Entries(p) : Alone(p, d) /\ Alone(p, e) =>
       \/ Shift(p, d) = Shift(p, e)
       \/ Apart(Touched(p, d), Shift(p, d), Touched(p, e), Shift(p, e))
       \/ Apart(Touched(p, e), Shift(p, e), Touched(p, d), Shift(p, d))

(* When the merge has come to its end, they have been kept.                *)
LEMMA BindingIs ==
  ASSUME w \in Workloads, Complete(w), Admitted(w), who = "expanded", who \in w.by,
         NEW p, Shaped(p), profile = Rebound(p), NEW idx, Indexed(idx)
  PROVE  Binding(p) /\ Moving(idx, p)
<1>1. \A e \in Entries(p) : Encloses(Touched(p, e), p, e)
  BY GivenIs, TouchedIs
<1>2. \A e \in Entries(p) : IsInterval(Touched(p, e))
  BY <1>1 DEF Encloses
<1>3. IsFiniteSet(Entries(p)) /\ "expanded" \in w.by
  BY EntriesFinite
<1>4. /\ \A e \in Entries(p) :
            /\ Shift(p, e) \in Int
            /\ ~Alone(p, e) => Shift(p, e) \in DeltasOf(p, e)
            /\ Alone(p, e) => /\ Shift(p, e) % Page = 0
                              /\ FirstPrivate =< Touched(p, e).lo + Shift(p, e)
      /\ \A d, e \in Entries(p) : Alone(p, d) /\ Alone(p, e) =>
            \/ Shift(p, d) = Shift(p, e)
            \/ Apart(Touched(p, d), Shift(p, d), Touched(p, e), Shift(p, e))
            \/ Apart(Touched(p, e), Shift(p, e), Touched(p, d), Shift(p, d))
  BY <1>2, <1>3, ShiftIs
<1>5. Moving(idx, p)
  BY <1>4, MovesIs
<1>. QED BY <1>1, <1>4, <1>5 DEF Binding

-----------------------------------------------------------------------------
(* The promises in terms of what was emitted.                              *)

LEMMA SlotsAre ==
  ASSUME w \in Workloads, Complete(w), Admitted(w), NEW idx, Indexed(idx), NEW b \in Grid(w.grid)
  PROVE  {out[i].slot : i \in {j \in DOMAIN out : out[j].cta = b}} = Structure(w.recs[b])
<1>. DEFINE F == FitOf(b)
            A == {out[i].slot : i \in {j \in DOMAIN out : out[j].cta = b}}
<1>1. Slotted(F, w.recs[b])
  BY CompleteFit DEF FitOf
<1>2. ASSUME NEW i \in DOMAIN out, out[i].cta = b PROVE out[i].slot \in Structure(w.recs[b])
  <2>1. idx[i] \in DOMAIN F /\ out[i].slot = F[idx[i]].slot
    BY <1>2 DEF Indexed
  <2>. QED BY <1>1, <2>1 DEF Slotted
<1>3. ASSUME NEW s \in Structure(w.recs[b]) PROVE \E i \in DOMAIN out : out[i].cta = b /\ out[i].slot = s
  <2>1. PICK n \in DOMAIN F : F[n].slot = s
    BY <1>1 DEF Slotted
  <2>2. PICK i \in DOMAIN out : out[i].cta = b /\ idx[i] = n
    BY <2>1 DEF Indexed
  <2>3. out[i].slot = F[n].slot
    BY <2>2 DEF Indexed
  <2>. QED BY <2>1, <2>2, <2>3
<1>. QED BY <1>2, <1>3

(* As many instructions as were sampled.                                   *)
LEMMA LengthIs ==
  ASSUME w \in Workloads, Complete(w), Admitted(w), IsSequence(out), NEW idx, Indexed(idx)
  PROVE  Len(out) = SumFunction([b \in Grid(w.grid) |-> Len(w.recs[b])])
<1>. DEFINE G == Grid(w.grid)
            W == DOMAIN out
            part == [i \in W |-> out[i].cta]
            f == [b \in G |-> Len(w.recs[b])]
<1>1. Len(out) \in Nat /\ W = 1 .. Len(out)
  BY DEF IsSequence
<1>2. IsFiniteSet(W) /\ Cardinality(W) = Len(out)
  <2>1. 1 \in Int /\ Len(out) \in Int
    BY <1>1
  <2>2. IsFiniteSet(1 .. Len(out)) /\ Cardinality(1 .. Len(out)) = IF 1 > Len(out) THEN 0 ELSE Len(out) - 1 + 1
    BY <2>1, FS_Interval, Zenon
  <2>. QED BY <1>1, <2>2
<1>3. IsFiniteSet(G)
  BY GridIs
<1>4. part \in [W -> G] /\ \A i \in W : part[i] = out[i].cta
  BY DEF Indexed
<1>5. ASSUME NEW b \in G PROVE f[b] = Cardinality({u \in W : part[u] = b})
  <2>. DEFINE X == {u \in W : part[u] = b}
              D == DOMAIN FitOf(b)
              h == [i \in X |-> idx[i]]
  <2>1. Slotted(FitOf(b), w.recs[b])
    BY CompleteFit DEF FitOf
  <2>2. f[b] = Len(w.recs[b])
    OBVIOUS
  <2>3. Len(FitOf(b)) \in Nat /\ D = 1 .. Len(FitOf(b)) /\ Len(FitOf(b)) = Len(w.recs[b])
    BY <2>1 DEF Slotted, IsSequence
  <2>4. Cardinality(D) = Len(w.recs[b])
    <3>. DEFINE n == Len(FitOf(b))
    <3>1. 1 \in Int /\ n \in Int /\ n \in Nat
      BY <2>3
    <3>. HIDE DEF n
    <3>2. Cardinality(1 .. n) = IF 1 > n THEN 0 ELSE n - 1 + 1
      BY <3>1, FS_Interval, Zenon
    <3>3. Cardinality(1 .. n) = n
      BY <3>1, <3>2
    <3>. QED BY <2>3, <3>3 DEF n
  <2>5. \A i \in X : i \in DOMAIN out /\ out[i].cta = b /\ h[i] = idx[i]
    BY <1>4
  <2>6. h \in [X -> D]
    BY <2>5 DEF Indexed
  <2>. HIDE DEF h
  <2>7. \A i, j \in X : h[i] = h[j] => i = j
    BY <2>5 DEF Indexed
  <2>8. ASSUME NEW n \in D PROVE \E i \in X : h[i] = n
    <3>1. PICK i \in DOMAIN out : out[i].cta = b /\ idx[i] = n
      BY DEF Indexed
    <3>2. i \in X
      BY <1>4, <3>1
    <3>. QED BY <2>5, <3>1, <3>2
  <2>9. IsFiniteSet(X)
    BY <1>2, FS_Subset
  <2>10. Cardinality(D) = Cardinality(X)
    <3>. HIDE DEF X, D
    <3>. QED BY <2>6, <2>7, <2>8, <2>9, SameSize
  <2>. QED BY <2>2, <2>4, <2>10
<1>6. SumFunction(f) = SumFunctionOnSet(f, G)
  BY DEF SumFunction
<1>. HIDE DEF W, part, f, G
<1>7. SumFunctionOnSet(f, G) = Cardinality(W)
  BY <1>2, <1>3, <1>4, <1>5, SumFibres
<1>8. Len(out) = SumFunction(f)
  BY <1>2, <1>6, <1>7
<1>. QED BY <1>8 DEF f, G

(* The instructions of one entry are each other's peers.                   *)
EntryAmong(idx, i) == EntryOf(out[i].cta, idx[i])
PeersOf(i) == {j \in DOMAIN out : /\ out[j].slot = out[i].slot
                                  /\ profile.class_of[out[j].cta] = profile.class_of[out[i].cta]}

(* Slot and class tell the entry.                                          *)
LEMMA PeersAre ==
  ASSUME w \in Workloads, Complete(w), Admitted(w), NEW p, Shaped(p), profile = Rebound(p),
         NEW idx, Indexed(idx), NEW i \in DOMAIN out
  PROVE  PeersOf(i) = {j \in DOMAIN out : EntryAmong(idx, j) = EntryAmong(idx, i)}
<1>. DEFINE class(j) == ClassOf(w, out[j].cta)
            T(j) == FitOf(out[j].cta)
<1>1. ASSUME NEW j \in DOMAIN out
      PROVE  /\ profile.class_of[out[j].cta] = class(j) /\ T(j) = ClassTemplate(w, class(j))
             /\ idx[j] \in DOMAIN T(j) /\ out[j].slot = T(j)[idx[j]].slot
             /\ EntryAmong(idx, j) = <<class(j), idx[j]>>
  <2>1. /\ out[j].cta \in Grid(w.grid) /\ idx[j] \in DOMAIN T(j) /\ out[j].slot = T(j)[idx[j]].slot
    BY DEF Indexed
  <2>2. profile.class_of[out[j].cta] = class(j)
    BY <2>1, MovedTemplate
  <2>. QED BY <2>1, <2>2 DEF FitOf, EntryAmong, EntryOf
<1>2. \A m, n \in DOMAIN T(i) : T(i)[m].slot = T(i)[n].slot => m = n
  <2>1. out[i].cta \in Grid(w.grid)
    BY DEF Indexed
  <2>2. Slotted(T(i), w.recs[out[i].cta])
    BY <2>1, CompleteFit DEF FitOf
  <2>. QED BY <2>2 DEF Slotted
<1>. HIDE DEF class, T
<1>3. ASSUME NEW j \in DOMAIN out
      PROVE  (out[j].slot = out[i].slot /\ profile.class_of[out[j].cta] = profile.class_of[out[i].cta])
               <=> EntryAmong(idx, j) = EntryAmong(idx, i)
  <2>1. ASSUME out[j].slot = out[i].slot, profile.class_of[out[j].cta] = profile.class_of[out[i].cta]
        PROVE  EntryAmong(idx, j) = EntryAmong(idx, i)
    <3>1. class(j) = class(i) /\ T(j) = T(i)
      BY <1>1, <2>1
    <3>2. idx[j] = idx[i]
      BY <1>1, <1>2, <2>1, <3>1
    <3>. QED BY <1>1, <3>1, <3>2
  <2>2. ASSUME EntryAmong(idx, j) = EntryAmong(idx, i)
        PROVE  out[j].slot = out[i].slot /\ profile.class_of[out[j].cta] = profile.class_of[out[i].cta]
    <3>1. class(j) = class(i) /\ idx[j] = idx[i]
      BY <1>1, <2>2
    <3>. QED BY <1>1, <3>1
  <2>. QED BY <2>1, <2>2
<1>. QED BY <1>3 DEF PeersOf

(* A tensor that contains all that one of them and its peers touched is    *)
(* one that contains the bounds.                                           *)
TensorsOf(i) == {m \in Observed : \A j \in PeersOf(i) : Bytes(SourceBase(out[j])) \subseteq m.begin .. m.end - 1}

(* The bounds are attained, so the two agree.                              *)
LEMMA TensorsAre ==
  ASSUME w \in Workloads, "expanded" \in w.by, Complete(w), Admitted(w),
         NEW p, Shaped(p), profile = Rebound(p),
         NEW idx, Indexed(idx), Moving(idx, p), Binding(p), NEW i \in DOMAIN out
  PROVE  LET I == Touched(p, EntryAmong(idx, i))
         IN  TensorsOf(i) = {m \in Observed : m.begin =< I.lo /\ I.hi =< m.end}
<1>. DEFINE e == EntryAmong(idx, i)
            I == Touched(p, e)
<1>1. e \in Entries(p) /\ Encloses(I, p, e)
  BY DEF Moving, EntryAmong, Binding
<1>2. \A j : j \in PeersOf(i) <=> j \in DOMAIN out /\ EntryAmong(idx, j) = e
  BY PeersAre
<1>3. \A m \in Observed : m.begin \in Int /\ m.end \in Int
  <2>1. \A v \in w.views : v.begin \in Nat /\ v.bytes \in Nat
    BY FirstPrivateIs
  <2>. QED BY <2>1 DEF Observed, Pairs, Counterparts
<1>4. Span \in Nat /\ Span > 0
  BY SectorIs
<1>5. \A j \in PeersOf(i) : /\ out[j].cta \in Home(e) /\ SourceBase(out[j]) = At(p, e, out[j].cta)
  <2>1. ASSUME NEW j \in PeersOf(i)
        PROVE  out[j].cta \in Home(e) /\ SourceBase(out[j]) = At(p, e, out[j].cta)
    <3>1. j \in DOMAIN out /\ EntryOf(out[j].cta, idx[j]) = e
      BY <1>2 DEF EntryAmong
    <3>. HIDE DEF e
    <3>. QED BY <3>1 DEF Moving
  <2>. QED BY <2>1
<1>6. ASSUME NEW b \in Home(e) PROVE \E j \in PeersOf(i) : SourceBase(out[j]) = At(p, e, b)
  <2>1. e = EntryOf(b, e[2]) /\ e[2] \in DOMAIN FitOf(b) /\ b \in Grid(w.grid)
    BY <1>1, HomeIs DEF EntryOf, FitOf, Home
  <2>. HIDE DEF e
  <2>2. PICK j \in DOMAIN out : out[j].cta = b /\ idx[j] = e[2]
    BY <2>1 DEF Indexed
  <2>3. EntryAmong(idx, j) = e
    BY <2>1, <2>2 DEF EntryAmong
  <2>4. j \in PeersOf(i)
    BY <1>2, <2>3
  <2>. QED BY <1>5, <2>2, <2>4
<1>. HIDE DEF I, e
<1>7. /\ I.lo \in Nat /\ I.hi \in Nat
      /\ \A b \in Home(e) : At(p, e, b) \in Nat /\ I.lo =< At(p, e, b) /\ At(p, e, b) + Span =< I.hi
      /\ \E b \in Home(e) : At(p, e, b) = I.lo
      /\ \E b \in Home(e) : At(p, e, b) + Span = I.hi
  BY <1>1 DEF Encloses, IsInterval
<1>8. ASSUME NEW m \in Observed, m.begin =< I.lo, I.hi =< m.end, NEW j \in PeersOf(i)
      PROVE  Bytes(SourceBase(out[j])) \subseteq m.begin .. m.end - 1
  <2>. DEFINE s == SourceBase(out[j])
  <2>1. s \in Nat /\ I.lo =< s /\ s + Span =< I.hi
    BY <1>5, <1>7
  <2>. HIDE DEF s
  <2>2. s .. s + Span - 1 \subseteq m.begin .. m.end - 1
    BY <1>3, <1>4, <1>7, <1>8, <2>1
  <2>. QED BY <2>2 DEF Bytes, s
<1>9. ASSUME NEW m \in Observed, \A j \in PeersOf(i) : Bytes(SourceBase(out[j])) \subseteq m.begin .. m.end - 1
      PROVE  m.begin =< I.lo /\ I.hi =< m.end
  <2>1. m.begin =< I.lo
    <3>1. PICK b \in Home(e) : At(p, e, b) = I.lo
      BY <1>7
    <3>2. PICK j \in PeersOf(i) : SourceBase(out[j]) = I.lo
      BY <1>6, <3>1
    <3>3. I.lo \in Bytes(SourceBase(out[j]))
      BY <1>4, <1>7, <3>2 DEF Bytes
    <3>4. I.lo \in m.begin .. m.end - 1
      BY <1>9, <3>3
    <3>. QED BY <1>3, <1>7, <3>4
  <2>2. I.hi =< m.end
    <3>1. PICK b \in Home(e) : At(p, e, b) + Span = I.hi
      BY <1>7
    <3>2. PICK j \in PeersOf(i) : SourceBase(out[j]) = At(p, e, b)
      BY <1>6
    <3>. DEFINE s == At(p, e, b)
    <3>3. s \in Nat /\ s + Span = I.hi /\ SourceBase(out[j]) = s
      BY <1>7, <3>1, <3>2
    <3>. HIDE DEF s
    <3>4. s + Span - 1 \in s .. s + Span - 1
      BY <1>4, <3>3
    <3>5. I.hi - 1 \in Bytes(SourceBase(out[j]))
      <4>1. I.hi - 1 = s + Span - 1
        BY <1>4, <3>3
      <4>. QED BY <3>3, <3>4, <4>1 DEF Bytes
    <3>6. I.hi - 1 \in m.begin .. m.end - 1
      BY <1>9, <3>5
    <3>. QED BY <1>3, <1>7, <3>6
  <2>. QED BY <2>1, <2>2
<1>10. TensorsOf(i) = {m \in Observed : m.begin =< I.lo /\ I.hi =< m.end}
  BY <1>8, <1>9 DEF TensorsOf
<1>. QED BY <1>10 DEF I, e

(* How far an emitted instruction has been moved.                          *)
ShiftOf(i) == out[i].base - SourceBase(out[i])

(* What is known of one emitted instruction.                               *)
LEMMA OneMoved ==
  ASSUME w \in Workloads, "expanded" \in w.by, Complete(w), Admitted(w),
         NEW p, Shaped(p), profile = Rebound(p),
         NEW idx, Indexed(idx), Moving(idx, p), Binding(p), NEW i \in DOMAIN out
  PROVE  LET e == EntryAmong(idx, i)
             I == Touched(p, e)
         IN  /\ e \in Entries(p) /\ ShiftOf(i) = Shift(p, e) /\ Shift(p, e) \in Int
             /\ SourceBase(out[i]) \in Nat /\ out[i].base = SourceBase(out[i]) + Shift(p, e)
             /\ I.lo \in Nat /\ I.hi \in Nat
             /\ I.lo =< SourceBase(out[i]) /\ SourceBase(out[i]) + Span =< I.hi
             /\ Alone(p, e) <=> TensorsOf(i) = {}
             /\ ~Alone(p, e) => ShiftOf(i) \in {m.delta : m \in TensorsOf(i)}
             /\ Alone(p, e) => /\ ShiftOf(i) % Page = 0
                               /\ FirstPrivate =< out[i].base
<1>. DEFINE b == out[i].cta
            e == EntryAmong(idx, i)
            I == Touched(p, e)
            s == SourceBase(out[i])
            d == Shift(p, e)
<1>1. e \in Entries(p) /\ b \in Home(e) /\ s = At(p, e, b) /\ out[i].base = At(p, e, b) + d
  BY DEF Moving, EntryAmong
<1>2. /\ Encloses(I, p, e) /\ d \in Int
      /\ ~Alone(p, e) => d \in DeltasOf(p, e)
      /\ Alone(p, e) => d % Page = 0 /\ FirstPrivate =< I.lo + d
  BY <1>1 DEF Binding
<1>3. I.lo \in Nat /\ I.hi \in Nat /\ s \in Nat /\ I.lo =< s /\ s + Span =< I.hi
  BY <1>1, <1>2 DEF Encloses, IsInterval
<1>4. TensorsOf(i) = {m \in Observed : m.begin =< I.lo /\ I.hi =< m.end}
  BY TensorsAre
<1>5. DeltasOf(p, e) = {m.delta : m \in TensorsOf(i)}
  BY <1>4 DEF DeltasOf, Deltas
<1>6. Alone(p, e) <=> TensorsOf(i) = {}
  BY <1>5 DEF Alone
<1>7. ShiftOf(i) = d /\ out[i].base = s + d
  <2>. HIDE DEF s, d
  <2>1. out[i].base = s + d
    BY <1>1
  <2>2. out[i].base - s = d
    BY <1>2, <1>3, <2>1
  <2>. QED BY <2>1, <2>2 DEF ShiftOf, s
<1>8. FirstPrivate \in Nat
  BY FirstPrivateIs
<1>. HIDE DEF s, d, I, e
<1>9. Alone(p, e) => FirstPrivate =< out[i].base
  BY <1>2, <1>3, <1>7, <1>8
<1>. QED BY <1>1, <1>2, <1>3, <1>5, <1>6, <1>7, <1>9 DEF s, d, I, e

(* Bytes meet when the distance of their first is less than Span.          *)
LEMMA BytesMeet ==
  ASSUME NEW s \in Int, NEW t \in Int
  PROVE  Bytes(s) \cap Bytes(t) = {} <=> s + Span =< t \/ t + Span =< s
<1>1. Span \in Nat /\ Span > 0
  BY SectorIs
<1>2. ASSUME s + Span =< t \/ t + Span =< s PROVE Bytes(s) \cap Bytes(t) = {}
  BY <1>1, <1>2 DEF Bytes
<1>3. ASSUME ~(s + Span =< t), ~(t + Span =< s), s =< t PROVE Bytes(s) \cap Bytes(t) # {}
  <2>1. t \in Bytes(s) /\ t \in Bytes(t)
    BY <1>1, <1>3 DEF Bytes
  <2>. QED BY <2>1
<1>4. ASSUME ~(s + Span =< t), ~(t + Span =< s), t =< s PROVE Bytes(s) \cap Bytes(t) # {}
  <2>1. s \in Bytes(s) /\ s \in Bytes(t)
    BY <1>1, <1>4 DEF Bytes
  <2>. QED BY <2>1
<1>5. s =< t \/ t =< s
  OBVIOUS
<1>. QED BY <1>2, <1>3, <1>4, <1>5

(* Two private instructions share a byte after exactly when they did       *)
(* before.                                                                 *)
LEMMA SharingKept ==
  ASSUME w \in Workloads, "expanded" \in w.by, Complete(w), Admitted(w),
         NEW p, Shaped(p), profile = Rebound(p),
         NEW idx, Indexed(idx), Moving(idx, p), Binding(p),
         NEW i \in DOMAIN out, NEW j \in DOMAIN out, TensorsOf(i) = {}, TensorsOf(j) = {}
  PROVE  Bytes(SourceBase(out[i])) \cap Bytes(SourceBase(out[j])) = {}
           <=> Bytes(out[i].base) \cap Bytes(out[j].base) = {}
<1>. DEFINE s == SourceBase(out[i])
            t == SourceBase(out[j])
            x == out[i].base
            y == out[j].base
            d == Shift(p, EntryAmong(idx, i))
            e == Shift(p, EntryAmong(idx, j))
            I == Touched(p, EntryAmong(idx, i))
            J == Touched(p, EntryAmong(idx, j))
<1>1. /\ d \in Int /\ s \in Nat /\ x = s + d /\ I.lo \in Nat /\ I.hi \in Nat /\ I.lo =< s /\ s + Span =< I.hi
      /\ EntryAmong(idx, i) \in Entries(p) /\ Alone(p, EntryAmong(idx, i))
  BY OneMoved
<1>2. /\ e \in Int /\ t \in Nat /\ y = t + e /\ J.lo \in Nat /\ J.hi \in Nat /\ J.lo =< t /\ t + Span =< J.hi
      /\ EntryAmong(idx, j) \in Entries(p) /\ Alone(p, EntryAmong(idx, j))
  BY OneMoved
<1>3. d = e \/ Apart(I, d, J, e) \/ Apart(J, e, I, d)
  BY <1>1, <1>2 DEF Binding
<1>4. Span \in Nat /\ Span > 0
  BY SectorIs
<1>. HIDE DEF s, t, x, y, d, e, I, J
<1>5. (s + Span =< t \/ t + Span =< s) <=> (x + Span =< y \/ y + Span =< x)
  <2>1. CASE d = e
    BY <1>1, <1>2, <1>4, <2>1
  <2>2. CASE Apart(I, d, J, e)
    <3>1. I.hi =< J.lo /\ I.hi + d =< J.lo + e
      BY <2>2 DEF Apart
    <3>2. s + Span =< t
      BY <1>1, <1>2, <1>4, <3>1
    <3>3. x + Span =< y
      BY <1>1, <1>2, <1>4, <3>1
    <3>. QED BY <3>2, <3>3
  <2>3. CASE Apart(J, e, I, d)
    <3>1. J.hi =< I.lo /\ J.hi + e =< I.lo + d
      BY <2>3 DEF Apart
    <3>2. t + Span =< s
      BY <1>1, <1>2, <1>4, <3>1
    <3>3. y + Span =< x
      BY <1>1, <1>2, <1>4, <3>1
    <3>. QED BY <3>2, <3>3
  <2>. QED BY <1>3, <2>1, <2>2, <2>3
<1>6. s \in Int /\ t \in Int /\ x \in Int /\ y \in Int
  BY <1>1, <1>2
<1>7. Bytes(s) \cap Bytes(t) = {} <=> Bytes(x) \cap Bytes(y) = {}
  BY <1>5, <1>6, BytesMeet
<1>. QED BY <1>7 DEF s, t, x, y

(* The property, of a state in which all this holds.                       *)
LEMMA ReboundRight ==
  ASSUME w \in Workloads, "expanded" \in w.by, Complete(w), Admitted(w), IsSequence(out),
         NEW p, Shaped(p), profile = Rebound(p),
         NEW idx, Indexed(idx), Moving(idx, p), Binding(p)
  PROVE  LayerRebound
<1>. DEFINE source == [i \in DOMAIN out |-> SourceBase(out[i])]
            peers == [i \in DOMAIN out |->
                        {j \in DOMAIN out : /\ out[j].slot = out[i].slot
                                            /\ profile.class_of[out[j].cta] = profile.class_of[out[i].cta]}]
            shift(i) == out[i].base - source[i]
            tensors(i) == {m \in Observed : \A j \in peers[i] :
                             Bytes(source[j]) \subseteq m.begin .. m.end - 1}
            private == {i \in DOMAIN out : tensors(i) = {}}
<1>1. ASSUME NEW i \in DOMAIN out
      PROVE  /\ source[i] = SourceBase(out[i]) /\ peers[i] = PeersOf(i) /\ shift(i) = ShiftOf(i)
             /\ tensors(i) = TensorsOf(i)
  <2>1. source[i] = SourceBase(out[i]) /\ peers[i] = PeersOf(i)
    BY DEF PeersOf
  <2>2. shift(i) = ShiftOf(i)
    BY <2>1 DEF ShiftOf
  <2>3. \A j \in PeersOf(i) : j \in DOMAIN out
    BY DEF PeersOf
  <2>4. \A j \in PeersOf(i) : source[j] = SourceBase(out[j])
    BY <2>3
  <2>. HIDE DEF source, peers
  <2>5. tensors(i) = TensorsOf(i)
    BY <2>1, <2>4 DEF TensorsOf
  <2>. QED BY <2>1, <2>2, <2>5
<1>2. \A i : i \in private <=> i \in DOMAIN out /\ TensorsOf(i) = {}
  <2>. HIDE DEF tensors
  <2>. QED BY <1>1
<1>. HIDE DEF source, peers, shift, tensors, private
<1>3. \A b \in Grid(w.grid) : {out[i].slot : i \in {j \in DOMAIN out : out[j].cta = b}} = Structure(w.recs[b])
  BY SlotsAre
<1>4. Len(out) = SumFunction([b \in Grid(w.grid) |-> Len(w.recs[b])])
  BY LengthIs
<1>5. ASSUME NEW i \in DOMAIN out, NEW j \in peers[i] PROVE shift(i) = shift(j)
  <2>1. j \in DOMAIN out /\ EntryAmong(idx, j) = EntryAmong(idx, i)
    BY <1>1, PeersAre
  <2>2. ShiftOf(i) = Shift(p, EntryAmong(idx, i)) /\ ShiftOf(j) = Shift(p, EntryAmong(idx, j))
    BY <2>1, OneMoved
  <2>. QED BY <1>1, <2>1, <2>2
<1>6. ASSUME NEW i \in DOMAIN out \ private PROVE shift(i) \in {m.delta : m \in tensors(i)}
  <2>1. i \in DOMAIN out /\ TensorsOf(i) # {}
    BY <1>2
  <2>2. ShiftOf(i) \in {m.delta : m \in TensorsOf(i)}
    BY <2>1, OneMoved
  <2>. QED BY <1>1, <2>1, <2>2
<1>7. ASSUME NEW i \in private
      PROVE  /\ shift(i) % Page = 0 /\ out[i].base >= FirstPrivate
             /\ \A v \in w.views : Bytes(out[i].base) \cap (v.begin .. v.begin + v.bytes - 1) = {}
  <2>1. i \in DOMAIN out /\ TensorsOf(i) = {}
    BY <1>2
  <2>. DEFINE s == SourceBase(out[i])
              d == Shift(p, EntryAmong(idx, i))
              x == out[i].base
  <2>2. /\ ShiftOf(i) % Page = 0 /\ FirstPrivate =< x
        /\ x = s + d /\ s \in Nat /\ d \in Int
    BY <2>1, OneMoved
  <2>. HIDE DEF s, d, x
  <2>3. x \in Int /\ FirstPrivate \in Nat
    BY <2>2, FirstPrivateIs
  <2>4. x >= FirstPrivate
    BY <2>2, <2>3
  <2>5. ASSUME NEW v \in w.views PROVE Bytes(x) \cap (v.begin .. v.begin + v.bytes - 1) = {}
    <3>1. v.begin \in Nat /\ v.bytes \in Nat /\ v.begin + v.bytes =< FirstPrivate
      BY FirstPrivateIs
    <3>2. Span \in Nat
      BY SectorIs
    <3>. QED BY <2>3, <2>4, <3>1, <3>2 DEF Bytes
  <2>. QED BY <1>1, <2>1, <2>2, <2>4, <2>5 DEF x
<1>8. ASSUME NEW i \in private, NEW j \in private
      PROVE  (Bytes(source[i]) \cap Bytes(source[j]) = {})
               <=> (Bytes(out[i].base) \cap Bytes(out[j].base) = {})
  <2>1. i \in DOMAIN out /\ TensorsOf(i) = {} /\ j \in DOMAIN out /\ TensorsOf(j) = {}
    BY <1>2
  <2>2. source[i] = SourceBase(out[i]) /\ source[j] = SourceBase(out[j])
    BY <1>1, <2>1
  <2>. QED BY <2>1, <2>2, SharingKept
<1>. QED BY <1>3, <1>4, <1>5, <1>6, <1>7, <1>8
       DEF LayerRebound, source, peers, shift, tensors, private

(* The binding of a workload depends on it alone.                          *)
LEMMA BindingStays ==
  ASSUME w' = w, NEW p
  PROVE  Normalise(p)' = Normalise(p) /\ Rebound(p)' = Rebound(p)
<1>1. Observed' = Observed /\ FirstPrivate' = FirstPrivate
  BY DEF Observed, FirstPrivate
<1>2. Normalise(p)' = Normalise(p)
  BY DEF Normalise
<1>3. \A e : Touched(p, e)' = Touched(p, e)
  BY DEF Touched, Structural
<1>4. \A e : DeltasOf(p, e)' = DeltasOf(p, e)
  BY <1>1, <1>3 DEF DeltasOf
<1>5. Private(p)' = Private(p)
  BY <1>3, <1>4 DEF Private
<1>6. \A e : Shift(p, e)' = Shift(p, e)
  BY <1>1, <1>3, <1>4, <1>5 DEF Shift
<1>7. Rebound(p)' = Rebound(p)
  BY <1>6 DEF Rebound
<1>. QED BY <1>2, <1>7

(* So does the normal form.                                                *)
LEMMA NormalStays ==
  ASSUME w' = w
  PROVE  Normalise(ProfileOf(w))' = Normalise(ProfileOf(w))
<1>. DEFINE p == ProfileOf(w)
<1>1. p' = p
  OBVIOUS
<1>. QED BY <1>1 DEF Normalise

(* A profile that has been bound to another layer is the fit of the        *)
(* samples, moved.                                                         *)
Moved == (phase \in {"bound", "merging", "done"} /\ who = "expanded" /\ ~w.own) =>
           \A p : p = Normalise(ProfileOf(w)) => profile = Rebound(p)

(* Rebind is the only step that moves it.                                  *)
THEOREM Rebinding == Spec => []Moved
<1>1. Init => Moved
  BY DEF Init, Moved
<1>2. Fit /\ Moved /\ [Next]_vars => Moved'
  <2>. SUFFICES ASSUME Fit, Moved, [Next]_vars,
                       phase' \in {"bound", "merging", "done"}, who' = "expanded", ~w'.own,
                       NEW p, p = Normalise(ProfileOf(w))'
                PROVE  profile' = Rebound(p)'
    BY DEF Moved
  <2>1. w' = w /\ who' = who
    BY DEF Next, Profile, Rebind, Open, Emit, Close, vars
  <2>2. p = Normalise(ProfileOf(w)) /\ Rebound(p)' = Rebound(p)
    BY <2>1, NormalStays, BindingStays
  <2>3. CASE Rebind
    <3>1. phase = "profiled" /\ profile' = Rebound(Normalise(profile))
      BY <2>1, <2>3 DEF Rebind
    <3>2. profile = ProfileOf(w)
      BY <3>1 DEF Fit
    <3>. QED BY <2>2, <3>1, <3>2
  <2>4. CASE Open \/ Emit \/ Close \/ UNCHANGED vars
    <3>1. profile' = profile /\ phase \in {"bound", "merging", "done"}
      BY <2>1, <2>4 DEF Open, Emit, Close, vars
    <3>2. profile = Rebound(p)
      BY <2>1, <2>2, <3>1 DEF Moved
    <3>. QED BY <2>2, <3>1, <3>2
  <2>5. CASE Profile
    BY <2>5 DEF Profile
  <2>. QED BY <2>3, <2>4, <2>5 DEF Next
<1>. QED BY Fitting, <1>1, <1>2, PTL DEF Spec

(* A kernel that was sampled completely is moved to another layer as the   *)
(* text of LayerRebound says: the bounds computed from its rules are the   *)
(* true ones, so that what is moved with a tensor lies in it, and what is  *)
(* in none has pages of its own.                                           *)
THEOREM CompleteRebound == Spec => [](Complete(w) => LayerRebound)
<1>1. IInv /\ Faithful /\ Traced /\ Moved => (Complete(w) => LayerRebound)
  <2>. SUFFICES ASSUME IInv, Faithful, Traced, Moved, Complete(w),
                       phase = "done", who = "expanded", ~w.own
                PROVE  LayerRebound
    BY DEF LayerRebound
  <2>. DEFINE p == Normalise(ProfileOf(w))
  <2>1. /\ w \in Workloads /\ who \in w.by /\ "expanded" \in w.by /\ Admitted(w) /\ IsSequence(out)
        /\ profile = Rebound(p)
    BY DEF IInv, Prepared, Faithful, Profiled, Traced, Moved
  <2>2. Shaped(p)
    BY <2>1, NormalShaped
  <2>. HIDE DEF p
  <2>3. PICK idx : Indexed(idx)
    BY <2>1, <2>2, IndexedIs
  <2>4. Binding(p) /\ Moving(idx, p)
    BY <2>1, <2>2, <2>3, BindingIs
  <2>. QED BY <2>1, <2>2, <2>3, <2>4, ReboundRight
<1>. QED BY Invariance, Faithfulness, Tracing, Rebinding, <1>1, PTL
=============================================================================
