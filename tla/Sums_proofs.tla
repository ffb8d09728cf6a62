----------------------------- MODULE Sums_proofs ------------------------------
(***************************************************************************)
(* Induction over the naturals and the laws of sums.  The library states   *)
(* induction for an operator; what the provers can use is the least element*)
(* of a set, which the library's theorem on well-founded relations gives.  *)
(***************************************************************************)
EXTENDS Sums, WellFoundedInduction, TLAPS

-----------------------------------------------------------------------------
(* Induction *)

LEMMA LessThan ==
  \E R : IsWellFoundedOn(R, Nat) /\ \A x, y \in Nat : x < y => <<x, y>> \in R
<1>1. IsWellFoundedOn(OpToRel(<, Nat), Nat)
  BY NatLessThanWellFounded
<1>2. \A x, y \in Nat : x < y => <<x, y>> \in OpToRel(<, Nat)
  BY DEF OpToRel
<1> QED
  BY <1>1, <1>2, Zenon

(* A non-empty set of naturals has a least element.                           *)
LEMMA Least ==
  ASSUME NEW T, T \subseteq Nat, T # {}
  PROVE  \E x \in T : \A y \in T : x <= y
<1>1. PICK R : IsWellFoundedOn(R, Nat) /\ \A x, y \in Nat : x < y => <<x, y>> \in R
  BY LessThan
<1>2. PICK x \in T : \A y \in T : ~ (<<y, x>> \in R)
  <2>1. IsWellFoundedOn(R, Nat)
    BY <1>1
  <2> QED
    BY <2>1, WFMin, Zenon
<1>3. \A y \in T : ~ (y < x)
  BY <1>1, <1>2
<1> QED
  BY <1>3

(* A set with 0 and the successor of each of its elements holds all naturals. *)
LEMMA NatSetInduction ==
  ASSUME NEW S, 0 \in S, \A n \in Nat : n \in S => n + 1 \in S
  PROVE  Nat \subseteq S
<1> SUFFICES ASSUME Nat \ S # {} PROVE FALSE
  OBVIOUS
<1>1. PICK x \in Nat \ S : \A y \in Nat \ S : x <= y
  BY Least
<1>2. x # 0 /\ x - 1 \in Nat /\ x - 1 \notin Nat \ S
  BY <1>1
<1>3. (x - 1) + 1 \in S
  BY <1>2
<1> QED
  BY <1>3

-----------------------------------------------------------------------------
(* Sums *)

IsSum(s, n, g) == g = [k \in 0 .. n |-> IF k = 0 THEN 0 ELSE g[k - 1] + s[k]]

LEMMA SumThere == ASSUME NEW s, NEW n \in Nat PROVE \E g : IsSum(s, n, g)
<1> DEFINE S == {m \in Nat : \E g : IsSum(s, m, g)}
<1>1. 0 \in S
  <2> DEFINE g == [k \in 0 .. 0 |-> 0]
  <2>1. IsSum(s, 0, g)
    BY DEF IsSum
  <2> QED
    BY <2>1
<1>2. ASSUME NEW m \in Nat, m \in S PROVE m + 1 \in S
  <2>1. PICK g : IsSum(s, m, g)
    BY <1>2
  <2> DEFINE h == [k \in 0 .. m + 1 |-> IF k = m + 1 THEN g[m] + s[m + 1] ELSE g[k]]
  <2>2. ASSUME NEW k \in 0 .. m + 1 PROVE h[k] = IF k = 0 THEN 0 ELSE h[k - 1] + s[k]
    <3>1. CASE k = m + 1
      <4>1. h[k - 1] = g[m]
        BY <3>1
      <4> QED
        BY <3>1, <4>1
    <3>2. CASE k # m + 1
      <4>1. k \in 0 .. m /\ h[k] = g[k] /\ (k # 0 => h[k - 1] = g[k - 1])
        BY <3>2
      <4> QED
        BY <2>1, <4>1 DEF IsSum
    <3> QED
      BY <3>1, <3>2
  <2>3. IsSum(s, m + 1, h)
    BY <2>2 DEF IsSum
  <2> QED
    BY <2>3
<1> HIDE DEF S
<1>3. n \in S
  BY <1>1, <1>2, NatSetInduction
<1> QED
  BY <1>3 DEF S

LEMMA SumIs == ASSUME NEW s, NEW n \in Nat PROVE \E g : IsSum(s, n, g) /\ SumTo(s, n) = g[n]
BY SumThere DEF SumTo, IsSum

(* Two of these functions agree where both are defined.                       *)
LEMMA SumUnique ==
  ASSUME NEW s, NEW m \in Nat, NEW n \in Nat, NEW g, NEW h, IsSum(s, m, g), IsSum(s, n, h),
         NEW k \in Nat, k <= m, k <= n
  PROVE  g[k] = h[k]
<1> DEFINE S == {i \in Nat : i <= m /\ i <= n => g[i] = h[i]}
<1>1. 0 \in S
  BY DEF IsSum
<1>2. ASSUME NEW i \in Nat, i \in S PROVE i + 1 \in S
  <2> SUFFICES ASSUME i + 1 <= m, i + 1 <= n PROVE g[i + 1] = h[i + 1]
    OBVIOUS
  <2>1. g[i + 1] = g[i] + s[i + 1] /\ h[i + 1] = h[i] + s[i + 1]
    BY DEF IsSum
  <2> QED
    BY <1>2, <2>1
<1> HIDE DEF S
<1>3. k \in S
  BY <1>1, <1>2, NatSetInduction
<1> QED
  BY <1>3 DEF S

(* The equations of a sum.                                                    *)
LEMMA SumZero == ASSUME NEW s PROVE SumTo(s, 0) = 0
BY SumIs DEF IsSum

LEMMA SumNext ==
  ASSUME NEW s, NEW n \in Nat
  PROVE  SumTo(s, n + 1) = SumTo(s, n) + s[n + 1]
<1>1. PICK g : IsSum(s, n, g) /\ SumTo(s, n) = g[n]
  BY SumIs
<1>2. PICK h : IsSum(s, n + 1, h) /\ SumTo(s, n + 1) = h[n + 1]
  BY SumIs
<1>3. g[n] = h[n]
  BY <1>1, <1>2, SumUnique
<1>4. h[n + 1] = h[n] + s[n + 1]
  BY <1>2 DEF IsSum
<1> QED
  BY <1>1, <1>2, <1>3, <1>4

LEMMA SumNat ==
  ASSUME NEW s, NEW n \in Nat, \A k \in 1 .. n : s[k] \in Nat
  PROVE  SumTo(s, n) \in Nat
<1> DEFINE S == {m \in Nat : m <= n => SumTo(s, m) \in Nat}
<1>1. 0 \in S
  BY SumZero
<1>2. ASSUME NEW m \in Nat, m \in S PROVE m + 1 \in S
  <2>1. SumTo(s, m + 1) = SumTo(s, m) + s[m + 1]
    BY SumNext
  <2> QED
    BY <1>2, <2>1
<1> HIDE DEF S
<1>3. n \in S
  BY <1>1, <1>2, NatSetInduction
<1> QED
  BY <1>3 DEF S

(* A sum depends on the elements summed up alone.                             *)
LEMMA SumSame ==
  ASSUME NEW s, NEW t, NEW n \in Nat, \A k \in 1 .. n : s[k] = t[k]
  PROVE  SumTo(s, n) = SumTo(t, n)
<1> DEFINE S == {m \in Nat : m <= n => SumTo(s, m) = SumTo(t, m)}
<1>1. 0 \in S
  BY SumZero
<1>2. ASSUME NEW m \in Nat, m \in S PROVE m + 1 \in S
  <2>1. SumTo(s, m + 1) = SumTo(s, m) + s[m + 1] /\ SumTo(t, m + 1) = SumTo(t, m) + t[m + 1]
    BY SumNext
  <2> QED
    BY <1>2, <2>1
<1> HIDE DEF S
<1>3. n \in S
  BY <1>1, <1>2, NatSetInduction
<1> QED
  BY <1>3 DEF S

(* n elements of at most b each.                                              *)
LEMMA SumBound ==
  ASSUME NEW s, NEW n \in Nat, NEW b \in Nat, \A k \in 1 .. n : s[k] \in 0 .. b
  PROVE  SumTo(s, n) <= n * b
<1> DEFINE S == {m \in Nat : m <= n => SumTo(s, m) \in Nat /\ SumTo(s, m) <= m * b}
<1>1. 0 \in S
  BY SumZero
<1>2. ASSUME NEW m \in Nat, m \in S PROVE m + 1 \in S
  <2> SUFFICES ASSUME m + 1 <= n PROVE SumTo(s, m + 1) \in Nat /\ SumTo(s, m + 1) <= (m + 1) * b
    OBVIOUS
  <2>1. SumTo(s, m + 1) = SumTo(s, m) + s[m + 1]
    BY SumNext
  <2>2. s[m + 1] \in 0 .. b /\ SumTo(s, m) \in Nat /\ SumTo(s, m) <= m * b
    BY <1>2
  <2>3. (m + 1) * b = m * b + b
    OBVIOUS
  <2> QED
    BY <2>1, <2>2, <2>3
<1> HIDE DEF S
<1>3. n \in S
  BY <1>1, <1>2, NatSetInduction
<1> QED
  BY <1>3 DEF S

LEMMA TotalEmpty == Total(<<>>) = 0
BY SumZero DEF Total

LEMMA TotalAppend ==
  ASSUME NEW T, NEW s \in Seq(T), NEW x \in T
  PROVE  Total(Append(s, x)) = Total(s) + x
<1> DEFINE t == Append(s, x)
<1>1. /\ Len(s) \in Nat /\ Len(t) = Len(s) + 1 /\ t[Len(s) + 1] = x
      /\ \A k \in 1 .. Len(s) : s[k] = t[k]
  OBVIOUS
<1> HIDE DEF t
<1>2. SumTo(s, Len(s)) = SumTo(t, Len(s))
  BY <1>1, SumSame
<1>3. SumTo(t, Len(s) + 1) = SumTo(t, Len(s)) + t[Len(s) + 1]
  BY <1>1, SumNext
<1> QED
  BY <1>1, <1>2, <1>3 DEF Total, t
=============================================================================
