-------------------------- MODULE SmbiosCook_proofs --------------------------
(***************************************************************************)
(* Proofs about the text of a structure (SmbiosCook): what a layout reads  *)
(* is part of the structure and, when it is done, all of it; a line fits   *)
(* the array it is assembled in, and the lines together fit the buffer; a  *)
(* string is the one that its number names; a value of a table gets one    *)
(* line.                                                                   *)
(***************************************************************************)
EXTENDS SmbiosCook, Sums_proofs

-----------------------------------------------------------------------------
(* The strings behind a structure *)

Lists == Seq(1 .. MaxString)

LEMMA Element == ASSUME NEW T, NEW q \in Seq(T), NEW k \in 1 .. Len(q) PROVE q[k] \in T
OBVIOUS

(* Each string begins behind the one before it and its zero.                  *)
LEMMA StartNext ==
  ASSUME NEW l \in Lists, NEW k \in 1 .. Len(l)
  PROVE  /\ StartOf(l, 1) = 0
         /\ StartOf(l, k) \in Nat
         /\ StartOf(l, k + 1) = StartOf(l, k) + l[k] + 1
         /\ l[k] \in 1 .. MaxString
<1>1. \A i \in 1 .. k - 1 : l[i] \in Nat
  BY StringAssumption DEF Lists
<1>2. l[k] \in 1 .. MaxString
  BY Element DEF Lists
<1>3. k - 1 \in Nat /\ (k - 1) + 1 = k /\ (k + 1) - 1 = k /\ 1 - 1 = 0
  BY DEF Lists
<1>4. SumTo(l, k - 1) \in Nat
  BY <1>1, <1>3, SumNat
<1>5. SumTo(l, (k - 1) + 1) = SumTo(l, k - 1) + l[(k - 1) + 1]
  BY <1>3, SumNext
<1>6. SumTo(l, 0) = 0
  BY SumZero
<1> QED
  BY <1>2, <1>3, <1>4, <1>5, <1>6, StringAssumption DEF StartOf

LEMMA StartNat ==
  ASSUME NEW l \in Lists, NEW k \in 1 .. Len(l) + 1
  PROVE  StartOf(l, k) \in Nat
<1>1. \A i \in 1 .. k - 1 : l[i] \in Nat
  BY StringAssumption DEF Lists
<1>2. k - 1 \in Nat
  BY DEF Lists
<1>3. SumTo(l, k - 1) \in Nat
  BY <1>1, <1>2, SumNat
<1> QED
  BY <1>2, <1>3 DEF StartOf

(* There is at least one character and a zero between two beginnings.         *)
LEMMA StartsApart ==
  ASSUME NEW l \in Lists, NEW i \in 1 .. Len(l) + 1, NEW k \in 1 .. Len(l) + 1, i < k
  PROVE  StartOf(l, i) + 2 <= StartOf(l, k)
<1> DEFINE n == Len(l)
           S == {m \in Nat : i + m + 1 <= n + 1 => StartOf(l, i) + 2 <= StartOf(l, i + m + 1)}
<1>0. n \in Nat /\ i \in 1 .. n + 1 /\ k \in 1 .. n + 1
  BY DEF Lists
<1>s. \A j \in 1 .. n : StartOf(l, j) \in Nat /\ l[j] \in Nat /\ l[j] >= 1
                          /\ StartOf(l, j + 1) = StartOf(l, j) + l[j] + 1
  BY StartNext, StringAssumption
<1> HIDE DEF n
<1>1. 0 \in S
  <2>1. i + 0 + 1 = i + 1 /\ (i + 1 <= n + 1 => i \in 1 .. n)
    BY <1>0
  <2>2. i + 1 <= n + 1 => StartOf(l, i) + 2 <= StartOf(l, i + 1)
    BY <1>s, <2>1
  <2> QED
    BY <2>1, <2>2
<1>2. ASSUME NEW m \in Nat, m \in S PROVE m + 1 \in S
  <2> SUFFICES ASSUME i + (m + 1) + 1 <= n + 1
               PROVE  StartOf(l, i) + 2 <= StartOf(l, i + (m + 1) + 1)
    OBVIOUS
  <2>1. i + m + 1 \in 1 .. n /\ i + (m + 1) + 1 = (i + m + 1) + 1 /\ i \in 1 .. n
    BY <1>0
  <2>2. StartOf(l, i) + 2 <= StartOf(l, i + m + 1)
    <3>1. i + m + 1 <= n + 1
      BY <1>0
    <3> QED
      BY <1>2, <3>1
  <2> DEFINE j == i + m + 1
  <2>3. j \in 1 .. n /\ i \in 1 .. n /\ i + (m + 1) + 1 = j + 1
    BY <2>1
  <2>4. StartOf(l, i) + 2 <= StartOf(l, j)
    BY <2>2
  <2> HIDE DEF j
  <2>5. /\ StartOf(l, i) \in Nat /\ StartOf(l, j) \in Nat /\ l[j] \in Nat
        /\ StartOf(l, j + 1) = StartOf(l, j) + l[j] + 1
    BY <1>s, <2>3
  <2>6. StartOf(l, i) + 2 <= StartOf(l, j + 1)
    BY <2>4, <2>5
  <2> QED
    BY <2>3, <2>6
<1> HIDE DEF S
<1>3. k - i - 1 \in Nat /\ k - i - 1 \in S
  BY <1>0, <1>1, <1>2, NatSetInduction
<1>4. i + (k - i - 1) + 1 = k
  BY <1>0
<1> QED
  BY <1>0, <1>3, <1>4 DEF S

(* From the beginning of a string to its zero are its characters.             *)
LEMMA StringLength ==
  ASSUME NEW s, s.zeros = Zeros(s.strings), s.strings \in Lists, NEW k \in 1 .. Len(s.strings)
  PROVE  strlen(s, StartOf(s.strings, k)) = s.strings[k]
<1> DEFINE l == s.strings
           n == Len(l)
           p == StartOf(l, k)
           z == StartOf(l, k + 1) - 1
<1>0. l \in Lists /\ n \in Nat /\ k \in 1 .. n /\ k + 1 \in 1 .. n + 1
  BY DEF Lists
<1>1. p \in Nat /\ z = p + l[k] /\ l[k] \in Nat /\ l[k] >= 1 /\ z \in Nat
  <2>1. StartOf(l, k + 1) = StartOf(l, k) + l[k] + 1 /\ StartOf(l, k) \in Nat
        /\ l[k] \in 1 .. MaxString
    BY <1>0, StartNext
  <2> HIDE DEF l
  <2> QED
    BY <2>1, StringAssumption
<1>2. z \in s.zeros
  <2>1. k \in DOMAIN l
    BY <1>0 DEF Lists
  <2> QED
    BY <2>1 DEF Zeros
<1>3. ASSUME NEW q \in s.zeros, q >= p PROVE q \in Nat /\ z <= q
  <2>1. CASE \E j \in 1 .. n : q = StartOf(l, j + 1) - 1
    <3>1. PICK j \in 1 .. n : q = StartOf(l, j + 1) - 1
      BY <2>1
    <3>2. j + 1 \in 1 .. n + 1 /\ StartOf(l, j + 1) \in Nat
      BY <1>0, StartNat
    <3>3. CASE j < k
      <4>1. j + 1 = k \/ j + 1 < k
        BY <1>0, <3>3
      <4>2. StartOf(l, j + 1) <= p
        BY <1>0, <1>1, <3>2, <4>1, StartsApart
      <4> QED
        BY <1>1, <1>3, <3>1, <3>2, <4>2
    <3>4. CASE j >= k
      <4>1. j = k \/ k + 1 < j + 1
        BY <1>0, <3>4
      <4>2. StartOf(l, k + 1) \in Nat
        BY <1>0, StartNat
      <4>3. StartOf(l, k + 1) <= StartOf(l, j + 1)
        <5>1. CASE j = k
          BY <4>2, <5>1
        <5>2. CASE k + 1 < j + 1
          <6>1. StartOf(l, k + 1) + 2 <= StartOf(l, j + 1)
            BY <1>0, <3>2, <5>2, StartsApart
          <6> QED
            BY <3>2, <4>2, <6>1
        <5> QED
          BY <4>1, <5>1, <5>2
      <4>4. z <= StartOf(l, j + 1) - 1
        BY <3>2, <4>2, <4>3
      <4> QED
        BY <1>1, <1>3, <3>1, <3>2, <4>4
    <3> QED
      BY <1>0, <3>3, <3>4
  <2>2. CASE q = StartOf(l, n + 1)
    <3>1. n + 1 = k + 1 \/ k + 1 < n + 1
      BY <1>0
    <3>2. StartOf(l, n + 1) \in Nat /\ StartOf(l, k + 1) \in Nat
            /\ StartOf(l, k + 1) <= StartOf(l, n + 1)
      BY <1>0, <3>1, StartsApart, StartNat
    <3> QED
      BY <2>2, <3>2
  <2>3. l # <<>>
    BY <1>0
  <2> QED
    BY <1>3, <2>1, <2>2, <2>3, <1>0 DEF Zeros, Lists
<1>4. Min({q \in s.zeros : q >= p}) = z
  <2> DEFINE T == {q \in s.zeros : q >= p}
  <2>1. z \in T /\ \A y \in T : z <= y /\ y \in Nat
    BY <1>1, <1>2, <1>3
  <2> HIDE DEF T
  <2>2. \A x \in T : (\A y \in T : x =< y) => x = z
    BY <1>1, <2>1
  <2>3. Min(T) = z
    BY <2>1, <2>2 DEF Min
  <2> QED
    BY <2>3 DEF T
<1> QED
  BY <1>1, <1>4 DEF strlen

(* The loop of GetString, for strings of which there is at least one.         *)
Walk(s, nr, g) ==
  g = [k \in 1 .. nr |->
         IF k = 1 THEN 0
         ELSE LET p == g[k - 1]
                  q == p + strlen(s, p) + 1
              IN IF p = Null \/ q \in s.zeros THEN Null ELSE q]

Reached(l, k) == IF k \in 1 .. Len(l) THEN StartOf(l, k) ELSE Null

(* One round leads from the beginning of a string to that of the next.        *)
LEMMA WalkOn ==
  ASSUME NEW s, s.zeros = Zeros(s.strings), s.strings \in Lists, s.strings # <<>>,
         NEW k \in Nat, k > 1
  PROVE  LET p == Reached(s.strings, k - 1)
             q == p + strlen(s, p) + 1
         IN Reached(s.strings, k) = IF p = Null \/ q \in s.zeros THEN Null ELSE q
<1> DEFINE l == s.strings
           n == Len(l)
           p == Reached(l, k - 1)
           q == p + strlen(s, p) + 1
<1>0. l \in Lists /\ n \in Nat /\ n > 0
  BY DEF Lists
<1>1. CASE k - 1 > n
  <2>1. k - 1 \notin 1 .. n /\ k \notin 1 .. n
    BY <1>0, <1>1
  <2> QED
    BY <2>1 DEF Reached
<1>2. CASE k - 1 <= n
  <2>0. k - 1 \in 1 .. n /\ k \in 1 .. n + 1 /\ (k - 1) + 1 = k
    BY <1>0, <1>2
  <2>1. p = StartOf(l, k - 1)
    BY <2>0 DEF Reached
  <2>2. strlen(s, p) = l[k - 1]
    BY <2>0, <2>1, StringLength
  <2>3. StartOf(l, k) = StartOf(l, k - 1) + l[k - 1] + 1 /\ StartOf(l, k - 1) \in Nat
        /\ StartOf(l, k) \in Nat
    BY <1>0, <2>0, StartNext, StartNat
  <2>4. q = StartOf(l, k) /\ p # Null
    BY <2>1, <2>2, <2>3 DEF Null
  <2>5. CASE k = n + 1
    <3>1. q \in s.zeros
      BY <2>4, <2>5 DEF Zeros
    <3>2. k \notin 1 .. n
      BY <1>0, <2>5
    <3> QED
      BY <3>1, <3>2 DEF Reached
  <2>6. CASE k # n + 1
    <3>0. k \in 1 .. n
      BY <1>0, <2>0, <2>6
    <3>1. ASSUME NEW j \in 1 .. n PROVE StartOf(l, k) # StartOf(l, j + 1) - 1
      <4>0. j + 1 \in 1 .. n + 1 /\ StartOf(l, j + 1) \in Nat /\ j \in 1 .. n + 1
            /\ StartOf(l, j) \in Nat
        BY <1>0, StartNat
      <4>1. CASE j + 1 <= k
        <5>1. j + 1 = k \/ j + 1 < k
          BY <1>0, <4>1
        <5>2. StartOf(l, j + 1) <= StartOf(l, k)
          <6>1. CASE j + 1 = k
            BY <2>3, <6>1
          <6>2. CASE j + 1 < k
            <7>1. StartOf(l, j + 1) + 2 <= StartOf(l, k)
              BY <1>0, <2>0, <4>0, <6>2, StartsApart
            <7> QED
              BY <2>3, <4>0, <7>1
          <6> QED
            BY <5>1, <6>1, <6>2
        <5> QED
          BY <2>3, <4>0, <5>2
      <4>2. CASE j + 1 > k
        <5>1. k < j + 1
          BY <4>2, <1>0, <3>0
        <5>2. StartOf(l, k) + 2 <= StartOf(l, j + 1)
          BY <1>0, <2>0, <4>0, <5>1, StartsApart
        <5> QED
          BY <2>3, <4>0, <5>2
      <4> QED
        BY <4>1, <4>2, <1>0, <3>0
    <3>2. StartOf(l, k) # StartOf(l, n + 1)
      <4>1. n + 1 \in 1 .. n + 1 /\ k < n + 1 /\ StartOf(l, n + 1) \in Nat
        BY <1>0, <3>0, StartNat
      <4>2. StartOf(l, k) + 2 <= StartOf(l, n + 1)
        BY <1>0, <2>0, <4>1, StartsApart
      <4> QED
        BY <2>3, <4>1, <4>2
    <3>3. DOMAIN l = 1 .. n
      BY DEF Lists
    <3>4. q \notin s.zeros
      BY <1>0, <2>4, <3>1, <3>2, <3>3 DEF Zeros
    <3> QED
      BY <2>4, <3>0, <3>4 DEF Reached
  <2> QED
    BY <2>5, <2>6
<1> QED
  BY <1>0, <1>1, <1>2

(* GetString finds string nr, and none if there are not so many.              *)
LEMMA StringFound ==
  ASSUME NEW s, s.zeros = Zeros(s.strings), s.strings \in Lists, NEW nr \in Nat
  PROVE  GetString(s, nr) = Reached(s.strings, nr)
<1> DEFINE l == s.strings
           n == Len(l)
<1>0. l \in Lists /\ n \in Nat
  BY DEF Lists
<1>1. CASE nr = 0
  BY <1>0, <1>1 DEF GetString, Reached
<1>2. CASE l = <<>>
  <2>1. n = 0 /\ StartOf(l, n + 1) = 0
    BY <1>2, SumZero DEF StartOf
  <2>2. {0, 1} \subseteq s.zeros
    BY <1>2, <2>1 DEF Zeros
  <2> QED
    BY <2>1, <2>2 DEF GetString, Reached
<1>3. CASE nr > 0 /\ l # <<>>
  <2>0. n > 0 /\ 1 \in 1 .. n
    BY <1>0, <1>3 DEF Lists
  <2>1. 0 \notin s.zeros
    <3>1. StartOf(l, 1) = 0 /\ DOMAIN l = 1 .. n
      BY <1>0, <2>0, StartNext DEF Lists
    <3>2. ASSUME NEW j \in 1 .. n PROVE StartOf(l, j + 1) \in Nat /\ StartOf(l, j + 1) >= 2
      <4>1. j + 1 \in 1 .. n + 1 /\ 1 < j + 1 /\ 1 \in 1 .. n + 1
        BY <1>0
      <4>2. StartOf(l, 1) + 2 <= StartOf(l, j + 1) /\ StartOf(l, j + 1) \in Nat
        BY <1>0, <4>1, StartsApart, StartNat
      <4> QED
        BY <3>1, <4>2
    <3>3. StartOf(l, n + 1) \in Nat /\ StartOf(l, n + 1) >= 2
      BY <1>0, <2>0, <3>2
    <3>4. \A j \in DOMAIN l : StartOf(l, j + 1) - 1 # 0
      BY <3>1, <3>2
    <3> QED
      BY <1>3, <3>3, <3>4 DEF Zeros
  <2> DEFINE f == [k \in 1 .. nr |-> Reached(l, k)]
  <2>2. Walk(s, nr, f)
    <3>1. ASSUME NEW k \in 1 .. nr
          PROVE  f[k] = IF k = 1 THEN 0
                        ELSE LET p == f[k - 1]
                                 q == p + strlen(s, p) + 1
                             IN IF p = Null \/ q \in s.zeros THEN Null ELSE q
      <4>1. CASE k = 1
        BY <1>0, <2>0, <4>1, StartNext DEF Reached
      <4>2. CASE k # 1
        <5>1. k \in Nat /\ k > 1 /\ k - 1 \in 1 .. nr
          BY <4>2
        <5>2. f[k - 1] = Reached(l, k - 1) /\ f[k] = Reached(l, k)
          BY <5>1
        <5> HIDE DEF f
        <5> QED
          BY <1>3, <4>2, <5>1, <5>2, WalkOn
      <4> QED
        BY <4>1, <4>2
    <3> QED
      BY <3>1 DEF Walk
  <2>3. PICK g : Walk(s, nr, g) /\ GetString(s, nr) = g[nr]
    <3> DEFINE Ptr[k \in 1 .. nr] ==
                 IF k = 1 THEN 0
                 ELSE LET p == Ptr[k - 1]
                          q == p + strlen(s, p) + 1
                      IN IF p = Null \/ q \in s.zeros THEN Null ELSE q
    <3>1. ~ ({0, 1} \subseteq s.zeros) /\ nr # 0
      BY <1>3, <2>1
    <3>2. GetString(s, nr) = Ptr[nr]
      BY <3>1, Zenon DEF GetString
    <3>3. Walk(s, nr, Ptr)
      BY <2>2 DEF Walk
    <3> QED
      BY <3>2, <3>3
  <2> DEFINE S == {k \in Nat : k + 1 <= nr => g[k + 1] = Reached(l, k + 1)}
  <2>4. 0 \in S
    BY <1>0, <1>3, <2>0, <2>3, StartNext DEF Walk, Reached
  <2>5. ASSUME NEW k \in Nat, k \in S PROVE k + 1 \in S
    <3> SUFFICES ASSUME (k + 1) + 1 <= nr PROVE g[(k + 1) + 1] = Reached(l, (k + 1) + 1)
      OBVIOUS
    <3> DEFINE j == (k + 1) + 1
    <3>1. j \in 1 .. nr /\ j # 1 /\ j - 1 = k + 1 /\ j \in Nat /\ j > 1 /\ k + 1 <= nr
      OBVIOUS
    <3>2. g[j - 1] = Reached(l, j - 1)
      BY <2>5, <3>1
    <3> HIDE DEF j
    <3>3. g[j] = LET p == g[j - 1]
                     q == p + strlen(s, p) + 1
                 IN IF p = Null \/ q \in s.zeros THEN Null ELSE q
      BY <2>3, <3>1 DEF Walk
    <3>4. g[j] = Reached(l, j)
      BY <1>3, <3>1, <3>2, <3>3, WalkOn
    <3> QED
      BY <3>4 DEF j
  <2> HIDE DEF S
  <2>6. nr - 1 \in S
    BY <1>3, <2>4, <2>5, NatSetInduction
  <2>7. g[(nr - 1) + 1] = Reached(l, (nr - 1) + 1) /\ (nr - 1) + 1 = nr
    BY <1>3, <2>6 DEF S
  <2> QED
    BY <2>3, <2>7
<1> QED
  BY <1>1, <1>2, <1>3

-----------------------------------------------------------------------------
(* What the printing functions print is made of outcomes and items. *)

In(s) == 0 .. s.length - 1

(* The members that the structure is long enough to have.                     *)
Within(s) == {m \in DOMAIN s.bytes : s.bytes[m] \subseteq In(s)}

Names(s) == DOMAIN s.bytes \union {"header", "handles", "enabled_ecc", "string"}

Outs(s) ==
  {o \in [n : Nat, len : Nat, line : 0 .. LineSize - 1, nr : Nat, ptr : Int] :
     o.ptr = Reached(s.strings, o.nr)}

Items(s) ==
  {x \in [member : Names(s), bytes : SUBSET In(s), outs : SUBSET Outs(s), once : BOOLEAN] :
     x.once => \A o \in x.outs : o.n = 1}

LEMMA StructureIs ==
  ASSUME NEW s \in Structures
  PROVE  /\ s.zeros = Zeros(s.strings) /\ s.strings \in Lists
         /\ s.bytes = BytesOf(Members(s.type))
         /\ s.type \in Byte /\ s.length \in Byte /\ s.length \in Versions(s)
         /\ s.n \in Nat
<1>1. WellFormed(s)
  BY StructuresAssumption
<1>2. s = Structure(s.type, s.length, s.n, s.strings)
  BY <1>1 DEF WellFormed
<1>3. s.zeros = Zeros(s.strings) /\ s.bytes = BytesOf(Members(s.type))
  BY <1>2 DEF Structure
<1>4. /\ s.type \in Byte /\ s.length \in Byte \intersect Versions(s)
      /\ s.strings \in Seq(1 .. MaxString)
  BY <1>1 DEF WellFormed
<1>5. s.n \in Byte
  BY <1>1 DEF WellFormed
<1>6. s.n \in Nat
  BY <1>5 DEF Byte
<1> QED
  BY <1>3, <1>4, <1>6 DEF Lists

(* The longest text of the tables and the longest string fit a line.          *)
LEMMA LineRoom ==
  /\ LineSize \in Nat
  /\ Line(Words127 + 1) < LineSize
  /\ SubLine(MaxString) < LineSize
BY StringAssumption DEF LineSize, Line, SubLine, LabelWidth, Words127

(* A text of the tables fits a line, and so does a string.                    *)
LEMMA Widths ==
  /\ \A w \in 0 .. 63 : Line(w) \in Nat /\ Line(w) < LineSize
  /\ \A w \in 0 .. 61 : SubLine(w) \in Nat /\ SubLine(w) < LineSize
  /\ \A w \in 0 .. MaxString : Line(0) + w < LineSize /\ SubLine(0) + w < LineSize
BY LineRoom, StringAssumption DEF Line, SubLine, LabelWidth, Words127

LEMMA Times == ASSUME NEW n \in Nat, NEW k \in Nat PROVE n * k \in Nat
OBVIOUS

LEMMA LinesSound ==
  ASSUME NEW s \in Structures, NEW n \in Nat, NEW len \in Nat, NEW w \in 0 .. LineSize - 1
  PROVE  Lines(n, len, w) \in Outs(s) /\ Lines(n, len, w).n = n
<1>1. Reached(s.strings, 0) = Null /\ Null \in Int
  BY DEF Reached, Null
<1> QED
  BY <1>1 DEF Lines, Outs

LEMMA OutSound ==
  ASSUME NEW s \in Structures, NEW n \in Nat, NEW w \in 0 .. LineSize - 1
  PROVE  Out(n, w) \in Outs(s) /\ Out(n, w).n = n
<1>1. n * w \in Nat
  BY Times, LineRoom
<1> QED
  BY <1>1, LinesSound DEF Out

LEMMA ItemSound ==
  ASSUME NEW s, NEW m \in Names(s), NEW b, b \subseteq In(s), NEW outs, outs \subseteq Outs(s),
         NEW once \in BOOLEAN, once => \A o \in outs : o.n = 1
  PROVE  Item(m, b, outs, once) \in Items(s)
BY DEF Item, Items

LEMMA NothingSound == ASSUME NEW s \in Structures PROVE Nothing \in Outs(s)
BY OutSound, LineRoom, Widths DEF Nothing

(* A line of some width, once.                                                *)
LEMMA LineSound ==
  ASSUME NEW s \in Structures, NEW m \in Names(s), NEW b, b \subseteq In(s), NEW w \in 0 .. 63
  PROVE  Item(m, b, {Out(1, Line(w))}, TRUE) \in Items(s)
<1>1. Line(w) \in 0 .. LineSize - 1
  BY Widths, LineRoom
<1>2. Out(1, Line(w)) \in Outs(s) /\ Out(1, Line(w)).n = 1
  BY <1>1, OutSound
<1> QED
  BY <1>2, ItemSound

LEMMA PlainSound ==
  ASSUME NEW s \in Structures, NEW m \in Within(s), NEW w \in 0 .. 63
  PROVE  Plain(s, m, w) \in Items(s)
BY LineSound DEF Plain, Within, Names

LEMMA OptionalSound ==
  ASSUME NEW s \in Structures, NEW m \in Within(s), NEW w \in 0 .. 63
  PROVE  Optional(s, m, w) \in Items(s)
<1>1. Line(w) \in 0 .. LineSize - 1
  BY Widths, LineRoom
<1>2. Out(1, Line(w)) \in Outs(s)
  BY <1>1, OutSound
<1> QED
  BY <1>2, ItemSound, NothingSound DEF Optional, Within, Names

LEMMA EnumSound ==
  ASSUME NEW s \in Structures, NEW m \in Within(s), NEW w \in 0 .. 63,
         NEW range, NEW codes
  PROVE  Enum(s, m, range, codes, w) \in Items(s)
<1>1. Line(w) \in 0 .. LineSize - 1 /\ Line(5) \in 0 .. LineSize - 1
  BY Widths, LineRoom
<1>2. /\ Out(1, Line(w)) \in Outs(s) /\ Out(1, Line(w)).n = 1
      /\ Out(1, Line(5)) \in Outs(s) /\ Out(1, Line(5)).n = 1
  BY <1>1, OutSound
<1> DEFINE outs == IF range \subseteq codes THEN {Out(1, Line(w))}
                   ELSE {Out(1, Line(w)), Out(1, Line(5))}
<1>3. outs \subseteq Outs(s) /\ \A o \in outs : o.n = 1
  BY <1>2
<1> HIDE DEF outs
<1>4. Item(m, s.bytes[m], outs, TRUE) \in Items(s)
  BY <1>3, ItemSound DEF Within, Names
<1> QED
  BY <1>4 DEF Enum, outs

(* A string of its width, and six characters for none.                        *)
LEMMA StringOutSound ==
  ASSUME NEW s \in Structures, NEW m, NEW nr \in Nat,
         NEW width \in {Line(0), SubLine(0), LabelWidth + 3}
  PROVE  StringOut(s, m, width, nr) \in Outs(s) /\ StringOut(s, m, width, nr).n = 1
<1> DEFINE ptr == GetString(s, nr)
           w == width + TextWidth(s, ptr)
           o == [Out(1, w) EXCEPT !.nr = nr, !.ptr = ptr]
<1>1. ptr = Reached(s.strings, nr)
  BY StructureIs, StringFound
<1>2. ptr \in Int /\ TextWidth(s, ptr) \in Nat
        /\ (TextWidth(s, ptr) <= 6 \/ TextWidth(s, ptr) <= MaxString)
  <2>1. CASE nr \in 1 .. Len(s.strings)
    <3>1. ptr = StartOf(s.strings, nr) /\ nr \in 1 .. Len(s.strings) + 1
      BY <1>1, <2>1, StructureIs DEF Reached, Lists
    <3>2. ptr \in Nat /\ ptr # Null
      BY <3>1, StartNat, StructureIs DEF Null
    <3>3. TextWidth(s, ptr) = s.strings[nr]
      BY <2>1, <3>1, <3>2, StringLength, StructureIs DEF TextWidth
    <3>4. s.strings[nr] \in 1 .. MaxString
      BY <2>1, StartNext, StructureIs
    <3> QED
      BY <3>2, <3>3, <3>4, StringAssumption
  <2>2. CASE nr \notin 1 .. Len(s.strings)
    BY <1>1, <2>2 DEF Reached, TextWidth, Null, NullWidth
  <2> QED
    BY <2>1, <2>2
<1> HIDE DEF ptr
<1>3. w \in 0 .. LineSize - 1
  BY <1>2, LineRoom, StringAssumption DEF Line, SubLine, LabelWidth, Words127
<1> HIDE DEF w
<1>4. Out(1, w) = [n |-> 1, len |-> w, line |-> w, nr |-> 0, ptr |-> Null]
  BY <1>3, LineRoom DEF Out, Lines
<1> DEFINE r == Out(1, w)
<1>5. o = [n |-> 1, len |-> w, line |-> w, nr |-> nr, ptr |-> ptr]
  <2>1. o = [r EXCEPT !.nr = nr, !.ptr = ptr]
    OBVIOUS
  <2>2. r = [n |-> 1, len |-> w, line |-> w, nr |-> 0, ptr |-> Null]
    BY <1>4
  <2> HIDE DEF r, o
  <2> QED
    BY <2>1, <2>2
<1>6. w \in Nat
  BY <1>3, LineRoom
<1> HIDE DEF o
<1>7. o \in Outs(s) /\ o.n = 1
  BY <1>1, <1>2, <1>3, <1>5, <1>6 DEF Outs
<1> QED
  BY <1>7 DEF StringOut, o, w, ptr

LEMMA TextAtSound ==
  ASSUME NEW s \in Structures, NEW m \in Names(s), NEW b, b \subseteq In(s)
  PROVE  TextAt(s, m, b) \in Items(s)
<1>1. {0, 1, Len(s.strings), Len(s.strings) + 1} \subseteq Nat
  BY StructureIs DEF Lists
<1> DEFINE outs ==
        {StringOut(s, m, Line(0), nr) : nr \in {0, 1, Len(s.strings), Len(s.strings) + 1}}
<1>2. outs \subseteq Outs(s) /\ \A o \in outs : o.n = 1
  BY <1>1, StringOutSound
<1> HIDE DEF outs
<1>3. Item(m, b, outs, TRUE) \in Items(s)
  BY <1>2, ItemSound
<1> QED
  BY <1>3 DEF TextAt, outs

LEMMA TextSound ==
  ASSUME NEW s \in Structures, NEW m \in Within(s)
  PROVE  Text(s, m) \in Items(s)
BY TextAtSound DEF Text, Within, Names

LEMMA LabelSound == ASSUME NEW s \in Structures, NEW m \in Names(s) PROVE Label(m) \in Items(s)
<1>1. LabelWidth + 2 \in 0 .. LineSize - 1
  BY LineRoom DEF LabelWidth, Line, Words127
<1>2. Out(1, LabelWidth + 2) \in Outs(s) /\ Out(1, LabelWidth + 2).n = 1
  BY <1>1, OutSound
<1> QED
  BY <1>2, ItemSound DEF Label

LEMMA BitLinesSound ==
  ASSUME NEW s \in Structures, NEW m \in Names(s), NEW b, b \subseteq In(s),
         NEW bits \in Nat, NEW w \in 0 .. 61
  PROVE  BitLines(m, b, bits, w) \in Items(s)
<1>1. SubLine(w) \in 0 .. LineSize - 1
  BY Widths, LineRoom
<1>2. \A k \in {0, bits} : Out(k, SubLine(w)) \in Outs(s)
  BY <1>1, OutSound
<1> QED
  BY <1>2, ItemSound DEF BitLines

LEMMA BitsSound ==
  ASSUME NEW s \in Structures, NEW m \in Within(s),
         NEW bits \in Nat, NEW w \in 0 .. 61
  PROVE  Bits(s, m, bits, w) \in Seq(Items(s))
BY LabelSound, BitLinesSound DEF Bits, Within, Names

(* Sequences of items.                                                        *)
LEMMA Tuple1 == ASSUME NEW T, NEW a \in T PROVE <<a>> \in Seq(T)
OBVIOUS

LEMMA Tuple2 == ASSUME NEW T, NEW a \in T, NEW b \in T PROVE <<a, b>> \in Seq(T)
OBVIOUS

LEMMA Tuple3 == ASSUME NEW T, NEW a \in T, NEW b \in T, NEW c \in T PROVE <<a, b, c>> \in Seq(T)
OBVIOUS

LEMMA Tuple4 ==
  ASSUME NEW T, NEW a \in T, NEW b \in T, NEW c \in T, NEW d \in T
  PROVE  <<a, b, c, d>> \in Seq(T)
OBVIOUS

LEMMA Tuple5 ==
  ASSUME NEW T, NEW a \in T, NEW b \in T, NEW c \in T, NEW d \in T, NEW e \in T
  PROVE  <<a, b, c, d, e>> \in Seq(T)
OBVIOUS

LEMMA Tuple6 ==
  ASSUME NEW T, NEW a \in T, NEW b \in T, NEW c \in T, NEW d \in T, NEW e \in T, NEW f \in T
  PROVE  <<a, b, c, d, e, f>> \in Seq(T)
OBVIOUS

LEMMA Joined == ASSUME NEW T, NEW a \in Seq(T), NEW b \in Seq(T) PROVE a \o b \in Seq(T)
OBVIOUS

LEMMA HeaderSound ==
        ASSUME NEW s \in Structures, s.length >= 4 PROVE Header(s) \in Seq(Items(s))
<1>1. Digits(1) + 1 + NameWidth \in 0 .. 63 /\ Digits(1) + UnitWidth \in 0 .. 63
        /\ Digits(2) + 1 \in 0 .. 63
  BY DEF Digits, NameWidth, UnitWidth
<1>2. {0} \subseteq In(s) /\ {1} \subseteq In(s) /\ {2, 3} \subseteq In(s)
  BY StructureIs DEF In, Byte
<1>3. "header" \in Names(s)
  BY DEF Names
<1>4. Item("header", {0}, {Out(1, Line(Digits(1) + 1 + NameWidth))}, TRUE) \in Items(s)
  BY <1>1, <1>2, <1>3, LineSound
<1>5. Item("header", {1}, {Out(1, Line(Digits(1) + UnitWidth))}, TRUE) \in Items(s)
  BY <1>1, <1>2, <1>3, LineSound
<1>6. Item("header", {2, 3}, {Out(1, Line(Digits(2) + 1))}, TRUE) \in Items(s)
  BY <1>1, <1>2, <1>3, LineSound
<1> QED
  BY <1>4, <1>5, <1>6, Tuple3, Zenon DEF Header

-----------------------------------------------------------------------------
(* Chains of ifs. *)

(* A sum in which at most one element, number j, is not 0.                    *)
LEMMA SumOne ==
  ASSUME NEW s, NEW n \in Nat, NEW j \in 0 .. n, \A i \in 1 .. n : i # j => s[i] = 0,
         j > 0 => s[j] \in Nat
  PROVE  SumTo(s, n) = IF j = 0 THEN 0 ELSE s[j]
<1> DEFINE S == {m \in Nat : m <= n => SumTo(s, m) = IF j = 0 \/ j > m THEN 0 ELSE s[j]}
<1>1. 0 \in S
  BY SumZero
<1>2. ASSUME NEW m \in Nat, m \in S PROVE m + 1 \in S
  <2>1. SumTo(s, m + 1) = SumTo(s, m) + s[m + 1]
    BY SumNext
  <2>2. m + 1 <= n => SumTo(s, m) = IF j = 0 \/ j > m THEN 0 ELSE s[j]
    BY <1>2
  <2>3. m + 1 <= n /\ j # m + 1 => s[m + 1] = 0
    OBVIOUS
  <2>4. m + 1 <= n => SumTo(s, m + 1) = IF j = 0 \/ j > m + 1 THEN 0 ELSE s[j]
    BY <2>1, <2>2, <2>3
  <2> QED
    BY <2>4
<1> HIDE DEF S
<1>3. n \in S
  BY <1>1, <1>2, NatSetInduction
<1> QED
  BY <1>3 DEF S

LEMMA WidthFits == ASSUME NEW w \in 0 .. 63 PROVE Line(w) \in 0 .. LineSize - 1
BY Widths, LineRoom

(* v is in the set of branch j alone, or, if j is 0, in none.                 *)
Branch(branches, v, j) == \A i \in DOMAIN branches : v \in branches[i][1] <=> i = j

(* Branches that exclude each other make one line.                            *)
LEMMA CasesSound ==
  ASSUME NEW s \in Structures, NEW m \in Within(s), NEW values, NEW branches, NEW n \in Nat,
         NEW once \in BOOLEAN, DOMAIN branches = 1 .. n,
         \A i \in 1 .. n : branches[i][2] \in 0 .. 63,
         \A v \in values : \E j \in 0 .. n : (once => j > 0) /\ Branch(branches, v, j)
  PROVE  Cases(s, m, values, branches, once) \in Items(s)
<1> DEFINE Ones(v) == [i \in DOMAIN branches |-> IF v \in branches[i][1] THEN 1 ELSE 0]
           Lens(v) == [i \in DOMAIN branches |->
                         IF v \in branches[i][1] THEN Line(branches[i][2]) ELSE 0]
<1>1. ASSUME NEW v \in values
      PROVE  /\ Total(Ones(v)) \in Nat /\ Total(Lens(v)) \in 0 .. LineSize - 1
             /\ once => Total(Ones(v)) = 1
  <2>1. PICK j \in 0 .. n : (once => j > 0) /\ Branch(branches, v, j)
    OBVIOUS
  <2>2. Total(Ones(v)) = SumTo(Ones(v), n) /\ Total(Lens(v)) = SumTo(Lens(v), n)
    BY DEF Total
  <2>3. \A i \in 1 .. n : v \in branches[i][1] <=> i = j
    BY <2>1 DEF Branch
  <2>4. /\ \A i \in 1 .. n : i # j => Ones(v)[i] = 0 /\ Lens(v)[i] = 0
        /\ j > 0 => Ones(v)[j] = 1 /\ Lens(v)[j] = Line(branches[j][2])
    BY <2>3
  <2>5. j > 0 => Line(branches[j][2]) \in 0 .. LineSize - 1
    <3>1. j > 0 => branches[j][2] \in 0 .. 63
      OBVIOUS
    <3> DEFINE b == branches[j][2]
    <3> HIDE DEF b
    <3>2. b \in 0 .. 63 => Line(b) \in 0 .. LineSize - 1
      BY WidthFits
    <3> QED
      BY <3>1, <3>2 DEF b
  <2> HIDE DEF Ones, Lens
  <2>6. SumTo(Ones(v), n) = IF j = 0 THEN 0 ELSE Ones(v)[j]
    BY <2>4, SumOne
  <2>7. SumTo(Lens(v), n) = IF j = 0 THEN 0 ELSE Lens(v)[j]
    BY <2>4, <2>5, SumOne, LineRoom
  <2> DEFINE c == Total(Ones(v))
             w == Total(Lens(v))
  <2>8. c = IF j = 0 THEN 0 ELSE 1
    BY <2>2, <2>4, <2>6
  <2>9. w = IF j = 0 THEN 0 ELSE Line(branches[j][2])
    BY <2>2, <2>4, <2>7
  <2> DEFINE b == Line(branches[j][2])
  <2> HIDE DEF c, w, b
  <2>10. c \in Nat /\ w \in 0 .. LineSize - 1 /\ (once => c = 1)
    <3>1. w = IF j = 0 THEN 0 ELSE b
      BY <2>9 DEF b
    <3>2. j > 0 => b \in 0 .. LineSize - 1
      BY <2>5 DEF b
    <3>3. j \in Nat
      OBVIOUS
    <3>4. LineSize \in Nat /\ LineSize > 0
      BY LineRoom DEF Line, Words127, LabelWidth
    <3>5. c \in Nat /\ w \in 0 .. LineSize - 1
      <4>1. CASE j = 0
        BY ONLY <2>8, <3>1, <3>4, <4>1
      <4>2. CASE j > 0
        BY ONLY <2>8, <3>1, <3>2, <3>3, <4>2
      <4> QED
        BY ONLY <3>3, <4>1, <4>2
    <3>6. once => j > 0
      BY <2>1
    <3>7. j > 0 => c = 1
      BY ONLY <2>8, <3>3
    <3> QED
      BY ONLY <3>5, <3>6, <3>7
  <2> QED
    BY <2>10 DEF c, w
<1> HIDE DEF Ones, Lens
<1> DEFINE outs == {Lines(Total(Ones(v)), Total(Lens(v)), Total(Lens(v))) : v \in values}
<1>2. outs \subseteq Outs(s) /\ (once => \A o \in outs : o.n = 1)
  <2>1. ASSUME NEW x \in outs PROVE x \in Outs(s) /\ (once => x.n = 1)
    <3>1. PICK v \in values : x = Lines(Total(Ones(v)), Total(Lens(v)), Total(Lens(v)))
      BY <2>1
    <3> DEFINE c == Total(Ones(v))
               w == Total(Lens(v))
    <3>2. c \in Nat /\ w \in 0 .. LineSize - 1 /\ w \in Nat /\ (once => c = 1)
      BY <1>1, LineRoom
    <3>3. x = Lines(c, w, w)
      BY <3>1
    <3> HIDE DEF c, w
    <3> QED
      BY <3>2, <3>3, LinesSound
  <2> HIDE DEF outs
  <2> QED
    BY <2>1
<1> HIDE DEF outs
<1>3. Item(m, s.bytes[m], outs, once) \in Items(s)
  BY <1>2, ItemSound DEF Within, Names
<1>4. Cases(s, m, values, branches, once) = Item(m, s.bytes[m], outs, once)
  BY Zenon DEF Cases, outs, Ones, Lens
<1> QED
  BY <1>3, <1>4

(* Two, three and four branches.                                             *)
LEMMA Cases2Sound ==
  ASSUME NEW s \in Structures, NEW m \in Within(s), NEW values, NEW once \in BOOLEAN,
         NEW A, NEW B,
         NEW a \in 0 .. 63, NEW b \in 0 .. 63,
         \A v \in values : /\ ~ (v \in A /\ v \in B)
                           /\ once => v \in A \/ v \in B
  PROVE  Cases(s, m, values, << <<A, a>>, <<B, b>> >>, once) \in Items(s)
<1> DEFINE branches == << <<A, a>>, <<B, b>> >>
<1>1. DOMAIN branches = 1 .. 2 /\ \A i \in 1 .. 2 : branches[i][2] \in 0 .. 63
  OBVIOUS
<1>2. branches[1][1] = A /\ branches[2][1] = B
  OBVIOUS
<1> HIDE DEF branches
<1>3. ASSUME NEW v \in values PROVE \E j \in 0 .. 2 : (once => j > 0) /\ Branch(branches, v, j)
  <2>1. CASE v \in A
    <3>1. v \notin B
      BY <1>3, <2>1
    <3>2. Branch(branches, v, 1)
      BY ONLY <1>1, <1>2, <2>1, <3>1 DEF Branch
    <3> QED
      BY <3>2
  <2>2. CASE v \in B
    <3>1. v \notin A
      BY <1>3, <2>2
    <3>2. Branch(branches, v, 2)
      BY ONLY <1>1, <1>2, <2>2, <3>1 DEF Branch
    <3> QED
      BY <3>2
  <2>3. CASE v \notin A /\ v \notin B
    <3>1. ~ once
      BY <1>3, <2>3
    <3>2. Branch(branches, v, 0)
      BY ONLY <1>1, <1>2, <2>3 DEF Branch
    <3> QED
      BY <3>1, <3>2
  <2> QED
    BY <2>1, <2>2, <2>3
<1>4. Cases(s, m, values, branches, once) \in Items(s)
  BY <1>1, <1>3, CasesSound
<1> QED
  BY <1>4 DEF branches

LEMMA Cases3Sound ==
  ASSUME NEW s \in Structures, NEW m \in Within(s), NEW values, NEW once \in BOOLEAN,
         NEW A, NEW B, NEW C,
         NEW a \in 0 .. 63, NEW b \in 0 .. 63, NEW c \in 0 .. 63,
         \A v \in values : /\ ~ (v \in A /\ v \in B)
                           /\ ~ (v \in A /\ v \in C)
                           /\ ~ (v \in B /\ v \in C)
                           /\ once => v \in A \/ v \in B \/ v \in C
  PROVE  Cases(s, m, values, << <<A, a>>, <<B, b>>, <<C, c>> >>, once) \in Items(s)
<1> DEFINE branches == << <<A, a>>, <<B, b>>, <<C, c>> >>
<1>1. DOMAIN branches = 1 .. 3 /\ \A i \in 1 .. 3 : branches[i][2] \in 0 .. 63
  OBVIOUS
<1>2. branches[1][1] = A /\ branches[2][1] = B /\ branches[3][1] = C
  OBVIOUS
<1> HIDE DEF branches
<1>3. ASSUME NEW v \in values PROVE \E j \in 0 .. 3 : (once => j > 0) /\ Branch(branches, v, j)
  <2>1. CASE v \in A
    <3>1. v \notin B /\ v \notin C
      BY <1>3, <2>1
    <3>2. Branch(branches, v, 1)
      BY ONLY <1>1, <1>2, <2>1, <3>1 DEF Branch
    <3> QED
      BY <3>2
  <2>2. CASE v \in B
    <3>1. v \notin A /\ v \notin C
      BY <1>3, <2>2
    <3>2. Branch(branches, v, 2)
      BY ONLY <1>1, <1>2, <2>2, <3>1 DEF Branch
    <3> QED
      BY <3>2
  <2>3. CASE v \in C
    <3>1. v \notin A /\ v \notin B
      BY <1>3, <2>3
    <3>2. Branch(branches, v, 3)
      BY ONLY <1>1, <1>2, <2>3, <3>1 DEF Branch
    <3> QED
      BY <3>2
  <2>4. CASE v \notin A /\ v \notin B /\ v \notin C
    <3>1. ~ once
      BY <1>3, <2>4
    <3>2. Branch(branches, v, 0)
      BY ONLY <1>1, <1>2, <2>4 DEF Branch
    <3> QED
      BY <3>1, <3>2
  <2> QED
    BY <2>1, <2>2, <2>3, <2>4
<1>4. Cases(s, m, values, branches, once) \in Items(s)
  BY <1>1, <1>3, CasesSound
<1> QED
  BY <1>4 DEF branches

LEMMA Cases4Sound ==
  ASSUME NEW s \in Structures, NEW m \in Within(s), NEW values, NEW once \in BOOLEAN,
         NEW A, NEW B, NEW C, NEW D,
         NEW a \in 0 .. 63, NEW b \in 0 .. 63, NEW c \in 0 .. 63, NEW d \in 0 .. 63,
         \A v \in values : /\ ~ (v \in A /\ v \in B)
                           /\ ~ (v \in A /\ v \in C)
                           /\ ~ (v \in A /\ v \in D)
                           /\ ~ (v \in B /\ v \in C)
                           /\ ~ (v \in B /\ v \in D)
                           /\ ~ (v \in C /\ v \in D)
                           /\ once => v \in A \/ v \in B \/ v \in C \/ v \in D
  PROVE  Cases(s, m, values, << <<A, a>>, <<B, b>>, <<C, c>>, <<D, d>> >>, once) \in Items(s)
<1> DEFINE branches == << <<A, a>>, <<B, b>>, <<C, c>>, <<D, d>> >>
<1>1. DOMAIN branches = 1 .. 4 /\ \A i \in 1 .. 4 : branches[i][2] \in 0 .. 63
  OBVIOUS
<1>2. branches[1][1] = A /\ branches[2][1] = B /\ branches[3][1] = C /\ branches[4][1] = D
  OBVIOUS
<1> HIDE DEF branches
<1>3. ASSUME NEW v \in values PROVE \E j \in 0 .. 4 : (once => j > 0) /\ Branch(branches, v, j)
  <2>1. CASE v \in A
    <3>1. v \notin B /\ v \notin C /\ v \notin D
      BY <1>3, <2>1
    <3>2. Branch(branches, v, 1)
      BY ONLY <1>1, <1>2, <2>1, <3>1 DEF Branch
    <3> QED
      BY <3>2
  <2>2. CASE v \in B
    <3>1. v \notin A /\ v \notin C /\ v \notin D
      BY <1>3, <2>2
    <3>2. Branch(branches, v, 2)
      BY ONLY <1>1, <1>2, <2>2, <3>1 DEF Branch
    <3> QED
      BY <3>2
  <2>3. CASE v \in C
    <3>1. v \notin A /\ v \notin B /\ v \notin D
      BY <1>3, <2>3
    <3>2. Branch(branches, v, 3)
      BY ONLY <1>1, <1>2, <2>3, <3>1 DEF Branch
    <3> QED
      BY <3>2
  <2>4. CASE v \in D
    <3>1. v \notin A /\ v \notin B /\ v \notin C
      BY <1>3, <2>4
    <3>2. Branch(branches, v, 4)
      BY ONLY <1>1, <1>2, <2>4, <3>1 DEF Branch
    <3> QED
      BY <3>2
  <2>5. CASE v \notin A /\ v \notin B /\ v \notin C /\ v \notin D
    <3>1. ~ once
      BY <1>3, <2>5
    <3>2. Branch(branches, v, 0)
      BY ONLY <1>1, <1>2, <2>5 DEF Branch
    <3> QED
      BY <3>1, <3>2
  <2> QED
    BY <2>1, <2>2, <2>3, <2>4, <2>5
<1>4. Cases(s, m, values, branches, once) \in Items(s)
  BY <1>1, <1>3, CasesSound
<1> QED
  BY <1>4 DEF branches

LEMMA Words == WordMax \in Nat /\ WordMax > 2
BY DEF WordMax

LEMMA ErrorHandleSound ==
  ASSUME NEW s \in Structures, "error_handle" \in Within(s), NEW w \in 0 .. 63
  PROVE  ErrorHandle(s, w) \in Items(s)
<1> DEFINE A == {WordMax - 1}
           B == {WordMax}
           C == 0 .. WordMax - 2
           values == 0 .. WordMax
<1>1. \A v \in values : /\ ~ (v \in A /\ v \in B) /\ ~ (v \in A /\ v \in C)
                          /\ ~ (v \in B /\ v \in C)
                        /\ v \in A \/ v \in B \/ v \in C
  BY Words
<1> HIDE DEF A, B, C, values
<1>2. Cases(s, "error_handle", values, << <<A, w>>, <<B, w>>, <<C, w>> >>, TRUE) \in Items(s)
  BY <1>1, Cases3Sound
<1> QED
  BY <1>2 DEF ErrorHandle, A, B, C, values

-----------------------------------------------------------------------------
(* Where the members of a table are. *)

LEMMA HeaderBytes == HeaderSize = 4
<1> DEFINE z == Sizes(smbios_header)
<1>1. Len(smbios_header) = 3 /\ DOMAIN smbios_header = 1 .. 3
  BY DEF smbios_header
<1>2. z[1] = 1 /\ z[2] = 1 /\ z[3] = 2 /\ Len(z) = 3
  BY <1>1 DEF smbios_header, Sizes
<1> HIDE DEF z
<1>3. SumTo(z, 0) = 0 /\ SumTo(z, 0 + 1) = SumTo(z, 0) + z[0 + 1]
      /\ SumTo(z, 1 + 1) = SumTo(z, 1) + z[1 + 1] /\ SumTo(z, 2 + 1) = SumTo(z, 2) + z[2 + 1]
  BY SumZero, SumNext
<1> QED
  BY <1>2, <1>3 DEF HeaderSize, SizeOf, Total, z

LEMMA MemberBytes ==
  ASSUME NEW members, NEW n \in Nat, DOMAIN members = 1 .. n,
         \A i, j \in 1 .. n : members[i][1] = members[j][1] => i = j,
         \A i \in 1 .. n : members[i][2] \in Nat,
         NEW k \in 1 .. n
  PROVE  /\ BytesOf(members)[members[k][1]] = Offset(members, k) .. Offset(members, k + 1) - 1
         /\ Offset(members, k + 1) = Offset(members, k) + members[k][2]
         /\ Offset(members, 1) = 4
<1>1. (CHOOSE j \in DOMAIN members : members[j][1] = members[k][1]) = k
  OBVIOUS
<1>2. BytesOf(members)[members[k][1]] = Offset(members, k) .. Offset(members, k + 1) - 1
  BY <1>1 DEF BytesOf
<1>3. SumTo(Sizes(members), (k - 1) + 1)
        = SumTo(Sizes(members), k - 1) + Sizes(members)[(k - 1) + 1]
  BY SumNext
<1>4. (k - 1) + 1 = k /\ (k + 1) - 1 = k /\ Sizes(members)[k] = members[k][2]
  BY DEF Sizes
<1>5. SumTo(Sizes(members), 0) = 0
  BY SumZero
<1>6. \A i \in 1 .. k - 1 : Sizes(members)[i] \in Nat
  BY DEF Sizes
<1>7. SumTo(Sizes(members), k - 1) \in Nat /\ members[k][2] \in Nat
  BY <1>6, SumNat
<1> QED
  BY <1>2, <1>3, <1>4, <1>5, <1>7, HeaderBytes DEF Offset


(* at is where each of the n members begins, and where the last one ends.     *)
Laid(members, n, at) ==
  /\ DOMAIN members = 1 .. n
  /\ \A i \in 1 .. n : members[i][2] \in Nat
  /\ \A i, j \in 1 .. n : members[i][1] = members[j][1] => i = j
  /\ at[1] = 4
  /\ \A k \in 1 .. n : at[k + 1] = at[k] + members[k][2]

LEMMA BytesBy ==
  ASSUME NEW members, NEW n \in Nat, NEW at, Laid(members, n, at)
  PROVE  \A k \in 1 .. n : BytesOf(members)[members[k][1]] = at[k] .. at[k + 1] - 1
<1> USE DEF Laid
<1>1. \A k \in 1 .. n :
         /\ BytesOf(members)[members[k][1]] = Offset(members, k) .. Offset(members, k + 1) - 1
         /\ Offset(members, k + 1) = Offset(members, k) + members[k][2]
         /\ Offset(members, 1) = 4
  BY MemberBytes
<1> DEFINE S == {k \in Nat : k + 1 <= n + 1 /\ n > 0 => Offset(members, k + 1) = at[k + 1]}
<1>2. 0 \in S
  BY <1>1
<1>3. ASSUME NEW k \in Nat, k \in S PROVE k + 1 \in S
  <2> SUFFICES ASSUME (k + 1) + 1 <= n + 1
               PROVE  Offset(members, (k + 1) + 1) = at[(k + 1) + 1]
    OBVIOUS
  <2>1. k + 1 \in 1 .. n /\ k + 1 <= n + 1
    OBVIOUS
  <2>2. Offset(members, k + 1) = at[k + 1]
    BY <1>3, <2>1
  <2> QED
    BY <1>1, <2>1, <2>2
<1> HIDE DEF S
<1>4. ASSUME NEW k \in 1 .. n PROVE Offset(members, k) = at[k]
        /\ Offset(members, k + 1) = at[k + 1]
  <2>1. Nat \subseteq S
    BY <1>2, <1>3, NatSetInduction
  <2>2. k - 1 \in Nat /\ k \in Nat /\ (k - 1) + 1 = k
    OBVIOUS
  <2> QED
    BY <1>2, <2>1, <2>2 DEF S
<1> QED
  BY <1>1, <1>4

LEMMA Bytes0 ==
  LET b == BytesOf(smbios_type_0) IN
  /\ b.vendor = 4 .. 4 /\ b.version = 5 .. 5 /\ b.startaddr = 6 .. 7
  /\ b.reldate = 8 .. 8 /\ b.romsize = 9 .. 9 /\ b.characteristics = 10 .. 17
  /\ b.ext1 = 18 .. 18 /\ b.ext2 = 19 .. 19
  /\ DOMAIN b = {"vendor", "version", "startaddr", "reldate", "romsize",
                 "characteristics", "ext1", "ext2"}
<1> DEFINE m == smbios_type_0
           at == <<4, 5, 6, 8, 9, 10, 18, 19, 20>>
<1>1. Laid(m, 8, at)
  BY DEF Laid, smbios_type_0
<1>2. \A k \in 1 .. 8 : BytesOf(m)[m[k][1]] = at[k] .. at[k + 1] - 1
  <2> HIDE DEF m, at
  <2> QED
    BY <1>1, BytesBy
<1>3. DOMAIN BytesOf(m) = {m[i][1] : i \in 1 .. 8}
  BY <1>1 DEF BytesOf, Laid
<1> QED
  BY <1>2, <1>3, SMTT(60) DEF smbios_type_0

LEMMA Bytes1 ==
  LET b == BytesOf(smbios_type_1) IN
  /\ b.manufacturer = 4 .. 4 /\ b.productname = 5 .. 5 /\ b.version = 6 .. 6
  /\ b.serialnumber = 7 .. 7 /\ b.uuid = 8 .. 23 /\ b.wakeuptype = 24 .. 24
  /\ DOMAIN b = {"manufacturer", "productname", "version", "serialnumber", "uuid",
                 "wakeuptype"}
<1> DEFINE m == smbios_type_1
           at == <<4, 5, 6, 7, 8, 24, 25>>
<1>1. Laid(m, 6, at)
  BY DEF Laid, smbios_type_1
<1>2. \A k \in 1 .. 6 : BytesOf(m)[m[k][1]] = at[k] .. at[k + 1] - 1
  <2> HIDE DEF m, at
  <2> QED
    BY <1>1, BytesBy
<1>3. DOMAIN BytesOf(m) = {m[i][1] : i \in 1 .. 6}
  BY <1>1 DEF BytesOf, Laid
<1> QED
  BY <1>2, <1>3, SMTT(60) DEF smbios_type_1

LEMMA Bytes2 ==
  LET b == BytesOf(smbios_type_2) IN
  /\ b.manufacturer = 4 .. 4 /\ b.product = 5 .. 5 /\ b.version = 6 .. 6
  /\ b.serialnumber = 7 .. 7
  /\ DOMAIN b = {"manufacturer", "product", "version", "serialnumber"}
<1> DEFINE m == smbios_type_2
           at == <<4, 5, 6, 7, 8>>
<1>1. Laid(m, 4, at)
  BY DEF Laid, smbios_type_2
<1>2. \A k \in 1 .. 4 : BytesOf(m)[m[k][1]] = at[k] .. at[k + 1] - 1
  <2> HIDE DEF m, at
  <2> QED
    BY <1>1, BytesBy
<1>3. DOMAIN BytesOf(m) = {m[i][1] : i \in 1 .. 4}
  BY <1>1 DEF BytesOf, Laid
<1> QED
  BY <1>2, <1>3, SMTT(60) DEF smbios_type_2

LEMMA Bytes3 ==
  LET b == BytesOf(smbios_type_3) IN
  /\ b.manufacturer = 4 .. 4 /\ b.type = 5 .. 5 /\ b.version = 6 .. 6
  /\ b.serialnumber = 7 .. 7 /\ b.asset_tag = 8 .. 8 /\ b.bootup_state = 9 .. 9
  /\ b.pwr_supply_state = 10 .. 10 /\ b.thermal_state = 11 .. 11
  /\ b.security_state = 12 .. 12 /\ b.oem_defined = 13 .. 16
  /\ DOMAIN b = {"manufacturer", "type", "version", "serialnumber", "asset_tag",
                 "bootup_state", "pwr_supply_state", "thermal_state",
                 "security_state", "oem_defined"}
<1> DEFINE m == smbios_type_3
           at == <<4, 5, 6, 7, 8, 9, 10, 11, 12, 13, 17>>
<1>1. Laid(m, 10, at)
  BY DEF Laid, smbios_type_3
<1>2. \A k \in 1 .. 10 : BytesOf(m)[m[k][1]] = at[k] .. at[k + 1] - 1
  <2> HIDE DEF m, at
  <2> QED
    BY <1>1, BytesBy
<1>3. DOMAIN BytesOf(m) = {m[i][1] : i \in 1 .. 10}
  BY <1>1 DEF BytesOf, Laid
<1> QED
  BY <1>2, <1>3, SMTT(60) DEF smbios_type_3

LEMMA Bytes4 ==
  LET b == BytesOf(smbios_type_4) IN
  /\ b.socket_designation = 4 .. 4 /\ b.type = 5 .. 5 /\ b.family = 6 .. 6
  /\ b.manufacturer = 7 .. 7 /\ b.id = 8 .. 15 /\ b.version = 16 .. 16
  /\ b.voltage = 17 .. 17 /\ b.external_clock = 18 .. 19 /\ b.max_speed = 20 .. 21
  /\ b.current_speed = 22 .. 23 /\ b.status = 24 .. 24 /\ b.upgrade = 25 .. 25
  /\ b.l1_cache_handle = 26 .. 27 /\ b.l2_cache_handle = 28 .. 29
  /\ b.l3_cache_handle = 30 .. 31 /\ b.serialnumber = 32 .. 32
  /\ b.asset_tag = 33 .. 33 /\ b.part_number = 34 .. 34
  /\ DOMAIN b = {"socket_designation", "type", "family", "manufacturer", "id",
                 "version", "voltage", "external_clock", "max_speed",
                 "current_speed", "status", "upgrade", "l1_cache_handle",
                 "l2_cache_handle", "l3_cache_handle", "serialnumber", "asset_tag",
                 "part_number"}
<1> DEFINE m == smbios_type_4
           at == <<4, 5, 6, 7, 8, 16, 17, 18, 20, 22, 24, 25, 26, 28, 30, 32, 33, 34,
                   35>>
<1>1. Laid(m, 18, at)
  BY DEF Laid, smbios_type_4
<1>2. \A k \in 1 .. 18 : BytesOf(m)[m[k][1]] = at[k] .. at[k + 1] - 1
  <2> HIDE DEF m, at
  <2> QED
    BY <1>1, BytesBy
<1>3. DOMAIN BytesOf(m) = {m[i][1] : i \in 1 .. 18}
  BY <1>1 DEF BytesOf, Laid
<1> QED
  BY <1>2, <1>3, SMTT(60) DEF smbios_type_4

LEMMA Bytes5 ==
  LET b == BytesOf(smbios_type_5) IN
  /\ b.error_detection = 4 .. 4 /\ b.ecc = 5 .. 5 /\ b.supported_interleave = 6 .. 6
  /\ b.current_interleave = 7 .. 7 /\ b.max_mem_module_size = 8 .. 8
  /\ b.supported_speeds = 9 .. 10 /\ b.supported_types = 11 .. 12
  /\ b.voltage = 13 .. 13 /\ b.nr_assoc_slots = 14 .. 14
  /\ DOMAIN b = {"error_detection", "ecc", "supported_interleave",
                 "current_interleave", "max_mem_module_size", "supported_speeds",
                 "supported_types", "voltage", "nr_assoc_slots"}
<1> DEFINE m == smbios_type_5
           at == <<4, 5, 6, 7, 8, 9, 11, 13, 14, 15>>
<1>1. Laid(m, 9, at)
  BY DEF Laid, smbios_type_5
<1>2. \A k \in 1 .. 9 : BytesOf(m)[m[k][1]] = at[k] .. at[k + 1] - 1
  <2> HIDE DEF m, at
  <2> QED
    BY <1>1, BytesBy
<1>3. DOMAIN BytesOf(m) = {m[i][1] : i \in 1 .. 9}
  BY <1>1 DEF BytesOf, Laid
<1> QED
  BY <1>2, <1>3, SMTT(60) DEF smbios_type_5

LEMMA Bytes6 ==
  LET b == BytesOf(smbios_type_6) IN
  /\ b.designation = 4 .. 4 /\ b.connection = 5 .. 5 /\ b.current_speed = 6 .. 6
  /\ b.current_type = 7 .. 8 /\ b.installed_size = 9 .. 9 /\ b.enabled_size = 10 .. 10
  /\ b.status = 11 .. 11
  /\ DOMAIN b = {"designation", "connection", "current_speed", "current_type",
                 "installed_size", "enabled_size", "status"}
<1> DEFINE m == smbios_type_6
           at == <<4, 5, 6, 7, 9, 10, 11, 12>>
<1>1. Laid(m, 7, at)
  BY DEF Laid, smbios_type_6
<1>2. \A k \in 1 .. 7 : BytesOf(m)[m[k][1]] = at[k] .. at[k + 1] - 1
  <2> HIDE DEF m, at
  <2> QED
    BY <1>1, BytesBy
<1>3. DOMAIN BytesOf(m) = {m[i][1] : i \in 1 .. 7}
  BY <1>1 DEF BytesOf, Laid
<1>4. /\ BytesOf(m).designation = 4 .. 4 /\ BytesOf(m).connection = 5 .. 5
      /\ BytesOf(m).current_speed = 6 .. 6 /\ BytesOf(m).current_type = 7 .. 8
  BY <1>2, SMTT(60) DEF smbios_type_6
<1>5. /\ BytesOf(m).installed_size = 9 .. 9 /\ BytesOf(m).enabled_size = 10 .. 10
      /\ BytesOf(m).status = 11 .. 11
  BY <1>2, SMTT(60) DEF smbios_type_6
<1>6. DOMAIN BytesOf(m) = {"designation", "connection", "current_speed", "current_type",
                          "installed_size", "enabled_size", "status"}
  BY <1>3, SMTT(60) DEF smbios_type_6
<1> QED
  BY <1>4, <1>5, <1>6

LEMMA Bytes7 ==
  LET b == BytesOf(smbios_type_7) IN
  /\ b.designation = 4 .. 4 /\ b.configuration = 5 .. 6 /\ b.max_size = 7 .. 8
  /\ b.installed_size = 9 .. 10 /\ b.supported_sram = 11 .. 12
  /\ b.current_sram = 13 .. 14 /\ b.speed = 15 .. 15 /\ b.ecc_type = 16 .. 16
  /\ b.cache_type = 17 .. 17 /\ b.associativity = 18 .. 18
  /\ DOMAIN b = {"designation", "configuration", "max_size", "installed_size",
                 "supported_sram", "current_sram", "speed", "ecc_type", "cache_type",
                 "associativity"}
<1> DEFINE m == smbios_type_7
           at == <<4, 5, 7, 9, 11, 13, 15, 16, 17, 18, 19>>
<1>1. Laid(m, 10, at)
  BY DEF Laid, smbios_type_7
<1>2. \A k \in 1 .. 10 : BytesOf(m)[m[k][1]] = at[k] .. at[k + 1] - 1
  <2> HIDE DEF m, at
  <2> QED
    BY <1>1, BytesBy
<1>3. DOMAIN BytesOf(m) = {m[i][1] : i \in 1 .. 10}
  BY <1>1 DEF BytesOf, Laid
<1> QED
  BY <1>2, <1>3, SMTT(60) DEF smbios_type_7

LEMMA Bytes8 ==
  LET b == BytesOf(smbios_type_8) IN
  /\ b.internal_designation = 4 .. 4 /\ b.internal_type = 5 .. 5
  /\ b.external_designation = 6 .. 6 /\ b.external_type = 7 .. 7 /\ b.type = 8 .. 8
  /\ DOMAIN b = {"internal_designation", "internal_type", "external_designation",
                 "external_type", "type"}
<1> DEFINE m == smbios_type_8
           at == <<4, 5, 6, 7, 8, 9>>
<1>1. Laid(m, 5, at)
  BY DEF Laid, smbios_type_8
<1>2. \A k \in 1 .. 5 : BytesOf(m)[m[k][1]] = at[k] .. at[k + 1] - 1
  <2> HIDE DEF m, at
  <2> QED
    BY <1>1, BytesBy
<1>3. DOMAIN BytesOf(m) = {m[i][1] : i \in 1 .. 5}
  BY <1>1 DEF BytesOf, Laid
<1> QED
  BY <1>2, <1>3, SMTT(60) DEF smbios_type_8

LEMMA Bytes9 ==
  LET b == BytesOf(smbios_type_9) IN
  /\ b.designation = 4 .. 4 /\ b.type = 5 .. 5 /\ b.width = 6 .. 6 /\ b.usage = 7 .. 7
  /\ b.length = 8 .. 8 /\ b.id1 = 9 .. 9 /\ b.id2 = 10 .. 10
  /\ b.characteristics1 = 11 .. 11 /\ b.characteristics2 = 12 .. 12
  /\ DOMAIN b = {"designation", "type", "width", "usage", "length", "id1", "id2",
                 "characteristics1", "characteristics2"}
<1> DEFINE m == smbios_type_9
           at == <<4, 5, 6, 7, 8, 9, 10, 11, 12, 13>>
<1>1. Laid(m, 9, at)
  BY DEF Laid, smbios_type_9
<1>2. \A k \in 1 .. 9 : BytesOf(m)[m[k][1]] = at[k] .. at[k + 1] - 1
  <2> HIDE DEF m, at
  <2> QED
    BY <1>1, BytesBy
<1>3. DOMAIN BytesOf(m) = {m[i][1] : i \in 1 .. 9}
  BY <1>1 DEF BytesOf, Laid
<1> QED
  BY <1>2, <1>3, SMTT(60) DEF smbios_type_9

LEMMA Bytes10 ==
  LET b == BytesOf(smbios_type_10) IN
  /\ b.type = 4 .. 4 /\ b.description = 5 .. 5
  /\ DOMAIN b = {"type", "description"}
<1> DEFINE m == smbios_type_10
           at == <<4, 5, 6>>
<1>1. Laid(m, 2, at)
  BY DEF Laid, smbios_type_10
<1>2. \A k \in 1 .. 2 : BytesOf(m)[m[k][1]] = at[k] .. at[k + 1] - 1
  <2> HIDE DEF m, at
  <2> QED
    BY <1>1, BytesBy
<1>3. DOMAIN BytesOf(m) = {m[i][1] : i \in 1 .. 2}
  BY <1>1 DEF BytesOf, Laid
<1> QED
  BY <1>2, <1>3, SMTT(60) DEF smbios_type_10

LEMMA Bytes11 ==
  LET b == BytesOf(smbios_type_11) IN
  /\ b.nr_of_strings = 4 .. 4
  /\ DOMAIN b = {"nr_of_strings"}
<1> DEFINE m == smbios_type_11
           at == <<4, 5>>
<1>1. Laid(m, 1, at)
  BY DEF Laid, smbios_type_11
<1>2. \A k \in 1 .. 1 : BytesOf(m)[m[k][1]] = at[k] .. at[k + 1] - 1
  <2> HIDE DEF m, at
  <2> QED
    BY <1>1, BytesBy
<1>3. DOMAIN BytesOf(m) = {m[i][1] : i \in 1 .. 1}
  BY <1>1 DEF BytesOf, Laid
<1> QED
  BY <1>2, <1>3, SMTT(60) DEF smbios_type_11

LEMMA Bytes12 ==
  LET b == BytesOf(smbios_type_12) IN
  /\ b.nr_of_strings = 4 .. 4
  /\ DOMAIN b = {"nr_of_strings"}
<1> DEFINE m == smbios_type_12
           at == <<4, 5>>
<1>1. Laid(m, 1, at)
  BY DEF Laid, smbios_type_12
<1>2. \A k \in 1 .. 1 : BytesOf(m)[m[k][1]] = at[k] .. at[k + 1] - 1
  <2> HIDE DEF m, at
  <2> QED
    BY <1>1, BytesBy
<1>3. DOMAIN BytesOf(m) = {m[i][1] : i \in 1 .. 1}
  BY <1>1 DEF BytesOf, Laid
<1> QED
  BY <1>2, <1>3, SMTT(60) DEF smbios_type_12

LEMMA Bytes13 ==
  LET b == BytesOf(smbios_type_13) IN
  /\ b.nr_of_strings = 4 .. 4 /\ b.flags = 5 .. 5 /\ b.reserved = 6 .. 20
  /\ b.current_language = 21 .. 21
  /\ DOMAIN b = {"nr_of_strings", "flags", "reserved", "current_language"}
<1> DEFINE m == smbios_type_13
           at == <<4, 5, 6, 21, 22>>
<1>1. Laid(m, 4, at)
  BY DEF Laid, smbios_type_13
<1>2. \A k \in 1 .. 4 : BytesOf(m)[m[k][1]] = at[k] .. at[k + 1] - 1
  <2> HIDE DEF m, at
  <2> QED
    BY <1>1, BytesBy
<1>3. DOMAIN BytesOf(m) = {m[i][1] : i \in 1 .. 4}
  BY <1>1 DEF BytesOf, Laid
<1> QED
  BY <1>2, <1>3, SMTT(60) DEF smbios_type_13

LEMMA Bytes16 ==
  LET b == BytesOf(smbios_type_16) IN
  /\ b.location = 4 .. 4 /\ b.use = 5 .. 5 /\ b.ecc = 6 .. 6
  /\ b.max_capacity = 7 .. 10 /\ b.error_handle = 11 .. 12
  /\ b.nr_of_devices = 13 .. 14
  /\ DOMAIN b = {"location", "use", "ecc", "max_capacity", "error_handle",
                 "nr_of_devices"}
<1> DEFINE m == smbios_type_16
           at == <<4, 5, 6, 7, 11, 13, 15>>
<1>1. Laid(m, 6, at)
  BY DEF Laid, smbios_type_16
<1>2. \A k \in 1 .. 6 : BytesOf(m)[m[k][1]] = at[k] .. at[k + 1] - 1
  <2> HIDE DEF m, at
  <2> QED
    BY <1>1, BytesBy
<1>3. DOMAIN BytesOf(m) = {m[i][1] : i \in 1 .. 6}
  BY <1>1 DEF BytesOf, Laid
<1> QED
  BY <1>2, <1>3, SMTT(60) DEF smbios_type_16

LEMMA Bytes17 ==
  LET b == BytesOf(smbios_type_17) IN
  /\ b.memory_array_handle = 4 .. 5 /\ b.error_handle = 6 .. 7
  /\ b.total_width = 8 .. 9 /\ b.data_width = 10 .. 11 /\ b.size = 12 .. 13
  /\ b.form_factor = 14 .. 14 /\ b.device_set = 15 .. 15 /\ b.device_locator = 16 .. 16
  /\ b.bank_locator = 17 .. 17 /\ b.mem_type = 18 .. 18 /\ b.type_detail = 19 .. 20
  /\ b.speed = 21 .. 22 /\ b.manufacturer = 23 .. 23 /\ b.serial_number = 24 .. 24
  /\ b.asset_tag = 25 .. 25 /\ b.part_number = 26 .. 26
  /\ DOMAIN b = {"memory_array_handle", "error_handle", "total_width", "data_width",
                 "size", "form_factor", "device_set", "device_locator",
                 "bank_locator", "mem_type", "type_detail", "speed", "manufacturer",
                 "serial_number", "asset_tag", "part_number"}
<1> DEFINE m == smbios_type_17
           at == <<4, 6, 8, 10, 12, 14, 15, 16, 17, 18, 19, 21, 23, 24, 25, 26, 27>>
<1>1. Laid(m, 16, at)
  BY DEF Laid, smbios_type_17
<1>2. \A k \in 1 .. 16 : BytesOf(m)[m[k][1]] = at[k] .. at[k + 1] - 1
  <2> HIDE DEF m, at
  <2> QED
    BY <1>1, BytesBy
<1>3. DOMAIN BytesOf(m) = {m[i][1] : i \in 1 .. 16}
  BY <1>1 DEF BytesOf, Laid
<1> QED
  BY <1>2, <1>3, SMTT(60) DEF smbios_type_17

LEMMA Bytes19 ==
  LET b == BytesOf(smbios_type_19) IN
  /\ b.starting_adr = 4 .. 7 /\ b.ending_adr = 8 .. 11 /\ b.mem_array_handle = 12 .. 13
  /\ b.partition_width = 14 .. 14
  /\ DOMAIN b = {"starting_adr", "ending_adr", "mem_array_handle", "partition_width"}
<1> DEFINE m == smbios_type_19
           at == <<4, 8, 12, 14, 15>>
<1>1. Laid(m, 4, at)
  BY DEF Laid, smbios_type_19
<1>2. \A k \in 1 .. 4 : BytesOf(m)[m[k][1]] = at[k] .. at[k + 1] - 1
  <2> HIDE DEF m, at
  <2> QED
    BY <1>1, BytesBy
<1>3. DOMAIN BytesOf(m) = {m[i][1] : i \in 1 .. 4}
  BY <1>1 DEF BytesOf, Laid
<1> QED
  BY <1>2, <1>3, SMTT(60) DEF smbios_type_19

LEMMA Bytes20 ==
  LET b == BytesOf(smbios_type_20) IN
  /\ b.starting_adr = 4 .. 7 /\ b.ending_adr = 8 .. 11 /\ b.mem_dev_handle = 12 .. 13
  /\ b.mem_array_mapped_adr_handle = 14 .. 15 /\ b.partition_row_position = 16 .. 16
  /\ b.interleave_position = 17 .. 17 /\ b.interleaved_data_depth = 18 .. 18
  /\ DOMAIN b = {"starting_adr", "ending_adr", "mem_dev_handle",
                 "mem_array_mapped_adr_handle", "partition_row_position",
                 "interleave_position", "interleaved_data_depth"}
<1> DEFINE m == smbios_type_20
           at == <<4, 8, 12, 14, 16, 17, 18, 19>>
<1>1. Laid(m, 7, at)
  BY DEF Laid, smbios_type_20
<1>2. \A k \in 1 .. 7 : BytesOf(m)[m[k][1]] = at[k] .. at[k + 1] - 1
  <2> HIDE DEF m, at
  <2> QED
    BY <1>1, BytesBy
<1>3. DOMAIN BytesOf(m) = {m[i][1] : i \in 1 .. 7}
  BY <1>1 DEF BytesOf, Laid
<1> QED
  BY <1>2, <1>3, SMTT(60) DEF smbios_type_20

LEMMA Bytes32 ==
  LET b == BytesOf(smbios_type_32) IN
  /\ b.reserved = 4 .. 9 /\ b.status = 10 .. 10
  /\ DOMAIN b = {"reserved", "status"}
<1> DEFINE m == smbios_type_32
           at == <<4, 10, 11>>
<1>1. Laid(m, 2, at)
  BY DEF Laid, smbios_type_32
<1>2. \A k \in 1 .. 2 : BytesOf(m)[m[k][1]] = at[k] .. at[k + 1] - 1
  <2> HIDE DEF m, at
  <2> QED
    BY <1>1, BytesBy
<1>3. DOMAIN BytesOf(m) = {m[i][1] : i \in 1 .. 2}
  BY <1>1 DEF BytesOf, Laid
<1> QED
  BY <1>2, <1>3, SMTT(60) DEF smbios_type_32

-----------------------------------------------------------------------------
(* The tables. *)

LEMMA Type0Is ==
  ASSUME NEW s \in Structures, s.type = 0
  PROVE  s.bytes = BytesOf(smbios_type_0) /\ s.length \in \h12 .. 255
<1>1. Members(s.type) = smbios_type_0
  BY DEF Members
<1>2. Versions(s) = \h12 .. 255
  BY DEF Versions
<1> QED
  BY <1>1, <1>2, StructureIs

LEMMA Type1Is ==
  ASSUME NEW s \in Structures, s.type = 1
  PROVE  s.bytes = BytesOf(smbios_type_1) /\ s.length \in {\h08} \union \h19 .. 255
<1>1. Members(s.type) = smbios_type_1
  BY DEF Members
<1>2. Versions(s) = {\h08} \union \h19 .. 255
  BY DEF Versions
<1> QED
  BY <1>1, <1>2, StructureIs

LEMMA Type2Is ==
  ASSUME NEW s \in Structures, s.type = 2
  PROVE  s.bytes = BytesOf(smbios_type_2) /\ s.length \in \h08 .. 255
<1>1. Members(s.type) = smbios_type_2
  BY DEF Members
<1>2. Versions(s) = \h08 .. 255
  BY DEF Versions
<1> QED
  BY <1>1, <1>2, StructureIs

LEMMA Type3Is ==
  ASSUME NEW s \in Structures, s.type = 3
  PROVE  s.bytes = BytesOf(smbios_type_3) /\ s.length \in {\h09, \h0D} \union \h11 .. 255
<1>1. Members(s.type) = smbios_type_3
  BY DEF Members
<1>2. Versions(s) = {\h09, \h0D} \union \h11 .. 255
  BY DEF Versions
<1> QED
  BY <1>1, <1>2, StructureIs

LEMMA Type4Is ==
  ASSUME NEW s \in Structures, s.type = 4
  PROVE  s.bytes = BytesOf(smbios_type_4) /\ s.length \in {\h1A, \h20} \union \h23 .. 255
<1>1. Members(s.type) = smbios_type_4
  BY DEF Members
<1>2. Versions(s) = {\h1A, \h20} \union \h23 .. 255
  BY DEF Versions
<1> QED
  BY <1>1, <1>2, StructureIs

LEMMA Type5Is ==
  ASSUME NEW s \in Structures, s.type = 5
  PROVE  s.bytes = BytesOf(smbios_type_5) /\ s.length \in {2 * s.n + \h0F, 2 * s.n + \h10}
<1>1. Members(s.type) = smbios_type_5
  BY DEF Members
<1>2. Versions(s) = {2 * s.n + \h0F, 2 * s.n + \h10}
  BY DEF Versions
<1> QED
  BY <1>1, <1>2, StructureIs

LEMMA Type6Is ==
  ASSUME NEW s \in Structures, s.type = 6
  PROVE  s.bytes = BytesOf(smbios_type_6) /\ s.length \in \h0C .. 255
<1>1. Members(s.type) = smbios_type_6
  BY DEF Members
<1>2. Versions(s) = \h0C .. 255
  BY DEF Versions
<1> QED
  BY <1>1, <1>2, StructureIs

LEMMA Type7Is ==
  ASSUME NEW s \in Structures, s.type = 7
  PROVE  s.bytes = BytesOf(smbios_type_7) /\ s.length \in {\h0F} \union \h13 .. 255
<1>1. Members(s.type) = smbios_type_7
  BY DEF Members
<1>2. Versions(s) = {\h0F} \union \h13 .. 255
  BY DEF Versions
<1> QED
  BY <1>1, <1>2, StructureIs

LEMMA Type8Is ==
  ASSUME NEW s \in Structures, s.type = 8
  PROVE  s.bytes = BytesOf(smbios_type_8) /\ s.length \in \h09 .. 255
<1>1. Members(s.type) = smbios_type_8
  BY DEF Members
<1>2. Versions(s) = \h09 .. 255
  BY DEF Versions
<1> QED
  BY <1>1, <1>2, StructureIs

LEMMA Type9Is ==
  ASSUME NEW s \in Structures, s.type = 9
  PROVE  s.bytes = BytesOf(smbios_type_9) /\ s.length \in \h0C .. 255
<1>1. Members(s.type) = smbios_type_9
  BY DEF Members
<1>2. Versions(s) = \h0C .. 255
  BY DEF Versions
<1> QED
  BY <1>1, <1>2, StructureIs

LEMMA Type10Is ==
  ASSUME NEW s \in Structures, s.type = 10
  PROVE  s.bytes = BytesOf(smbios_type_10)
          /\ s.length \in {HeaderSize + k * DeviceBytes : k \in 0 .. 125}
<1>1. Members(s.type) = smbios_type_10
  BY DEF Members
<1>2. Versions(s) = {HeaderSize + k * DeviceBytes : k \in 0 .. 125}
  BY DEF Versions
<1> QED
  BY <1>1, <1>2, StructureIs

LEMMA Type11Is ==
  ASSUME NEW s \in Structures, s.type = 11
  PROVE  s.bytes = BytesOf(smbios_type_11) /\ s.length \in \h05 .. 255
<1>1. Members(s.type) = smbios_type_11
  BY DEF Members
<1>2. Versions(s) = \h05 .. 255
  BY DEF Versions
<1> QED
  BY <1>1, <1>2, StructureIs

LEMMA Type12Is ==
  ASSUME NEW s \in Structures, s.type = 12
  PROVE  s.bytes = BytesOf(smbios_type_12) /\ s.length \in \h05 .. 255
<1>1. Members(s.type) = smbios_type_12
  BY DEF Members
<1>2. Versions(s) = \h05 .. 255
  BY DEF Versions
<1> QED
  BY <1>1, <1>2, StructureIs

LEMMA Type13Is ==
  ASSUME NEW s \in Structures, s.type = 13
  PROVE  s.bytes = BytesOf(smbios_type_13) /\ s.length \in \h16 .. 255
<1>1. Members(s.type) = smbios_type_13
  BY DEF Members
<1>2. Versions(s) = \h16 .. 255
  BY DEF Versions
<1> QED
  BY <1>1, <1>2, StructureIs

LEMMA Type16Is ==
  ASSUME NEW s \in Structures, s.type = 16
  PROVE  s.bytes = BytesOf(smbios_type_16) /\ s.length \in \h0F .. 255
<1>1. Members(s.type) = smbios_type_16
  BY DEF Members
<1>2. Versions(s) = \h0F .. 255
  BY DEF Versions
<1> QED
  BY <1>1, <1>2, StructureIs

LEMMA Type17Is ==
  ASSUME NEW s \in Structures, s.type = 17
  PROVE  s.bytes = BytesOf(smbios_type_17) /\ s.length \in {\h15, \h17} \union \h1B .. 255
<1>1. Members(s.type) = smbios_type_17
  BY DEF Members
<1>2. Versions(s) = {\h15, \h17} \union \h1B .. 255
  BY DEF Versions
<1> QED
  BY <1>1, <1>2, StructureIs

LEMMA Type19Is ==
  ASSUME NEW s \in Structures, s.type = 19
  PROVE  s.bytes = BytesOf(smbios_type_19) /\ s.length \in \h0F .. 255
<1>1. Members(s.type) = smbios_type_19
  BY DEF Members
<1>2. Versions(s) = \h0F .. 255
  BY DEF Versions
<1> QED
  BY <1>1, <1>2, StructureIs

LEMMA Type20Is ==
  ASSUME NEW s \in Structures, s.type = 20
  PROVE  s.bytes = BytesOf(smbios_type_20) /\ s.length \in \h13 .. 255
<1>1. Members(s.type) = smbios_type_20
  BY DEF Members
<1>2. Versions(s) = \h13 .. 255
  BY DEF Versions
<1> QED
  BY <1>1, <1>2, StructureIs

LEMMA Type32Is ==
  ASSUME NEW s \in Structures, s.type = 32
  PROVE  s.bytes = BytesOf(smbios_type_32) /\ s.length \in \h0B .. 255
<1>1. Members(s.type) = smbios_type_32
  BY DEF Members
<1>2. Versions(s) = \h0B .. 255
  BY DEF Versions
<1> QED
  BY <1>1, <1>2, StructureIs

-----------------------------------------------------------------------------
(* Types 0 to 9: items that are part of the structure. *)

LEMMA Type0Sound == ASSUME NEW s \in Structures, s.type = 0 PROVE Type0(s) \in Seq(Items(s))
<1>1. {"vendor", "version", "startaddr", "reldate", "romsize", "characteristics"}
        \subseteq Within(s)
  BY Type0Is, Bytes0 DEF Within, In
<1>2. /\ s.length > \h12 => "ext1" \in Within(s)
      /\ s.length > \h13 => "ext2" \in Within(s)
  BY Type0Is, Bytes0 DEF Within, In
<1>3. << Text(s, "vendor"), Text(s, "version"), Plain(s, "startaddr", 4), Text(s, "reldate"),
         Plain(s, "romsize", Digits(2) + UnitWidth) >> \in Seq(Items(s))
  BY <1>1, TextSound, PlainSound DEF Digits, UnitWidth
<1>4. BiosCharacteristics(s) \in Seq(Items(s))
  BY <1>1, BitsSound DEF BiosCharacteristics, Words0
<1>5. s.length > \h12 => BitLines("ext1", s.bytes.ext1, 8, Words0.ext1) \in Items(s)
  BY <1>2, BitLinesSound DEF Words0, Within, Names
<1>6. s.length > \h13 => BitLines("ext2", s.bytes.ext2, 2, Words0.ext2) \in Items(s)
  BY <1>2, BitLinesSound DEF Words0, Within, Names
<1>7. BiosExtensions(s) \in Seq(Items(s))
  BY <1>5, <1>6 DEF BiosExtensions
<1> QED
  BY <1>3, <1>4, <1>7, Joined, Zenon DEF Type0

LEMMA Type1Sound == ASSUME NEW s \in Structures, s.type = 1 PROVE Type1(s) \in Seq(Items(s))
<1>1. {"manufacturer", "productname", "version", "serialnumber"} \subseteq Within(s)
  BY Type1Is, Bytes1 DEF Within, In
<1>2. s.length > \h08 => {"uuid", "wakeuptype"} \subseteq Within(s)
  <2> SUFFICES ASSUME s.length > \h08 PROVE {"uuid", "wakeuptype"} \subseteq Within(s)
    OBVIOUS
  <2>0. s.length >= 25 /\ s.length \in Nat
    BY Type1Is
  <2>1. "uuid" \in Within(s)
    BY <2>0, Type1Is, Bytes1 DEF Within, In
  <2>2. "wakeuptype" \in Within(s)
    BY <2>0, Type1Is, Bytes1 DEF Within, In
  <2> QED
    BY <2>1, <2>2
<1>3. << Text(s, "manufacturer"), Text(s, "productname"), Text(s, "version"),
         Text(s, "serialnumber") >> \in Seq(Items(s))
  BY <1>1, TextSound
<1>4. s.length > \h08 =>
        <<Plain(s, "uuid", 48), Enum(s, "wakeuptype", Byte, 0 .. 8, Words1.wakeuptype)>>
          \in Seq(Items(s))
  BY <1>2, PlainSound, EnumSound DEF Words1
<1>5. <<>> \in Seq(Items(s))
  OBVIOUS
<1> QED
  BY <1>3, <1>4, <1>5, Joined, Zenon DEF Type1

LEMMA Type2Sound == ASSUME NEW s \in Structures, s.type = 2 PROVE Type2(s) \in Seq(Items(s))
<1>1. {"manufacturer", "product", "version", "serialnumber"} \subseteq Within(s)
  BY Type2Is, Bytes2 DEF Within, In
<1> QED
  BY <1>1, TextSound DEF Type2

LEMMA Type3Sound == ASSUME NEW s \in Structures, s.type = 3 PROVE Type3(s) \in Seq(Items(s))
<1>1. {"manufacturer", "version", "serialnumber", "asset_tag", "type"} \subseteq Within(s)
  BY Type3Is, Bytes3 DEF Within, In
<1>2. /\ s.length > \h09 => {"bootup_state", "pwr_supply_state", "thermal_state",
                             "security_state"} \subseteq Within(s)
      /\ s.length > \h0D => "oem_defined" \in Within(s)
  BY Type3Is, Bytes3 DEF Within, In
<1>3. << Text(s, "manufacturer"), Text(s, "version"), Text(s, "serialnumber"), Text(s,
        "asset_tag"),
         Plain(s, "type", Words3.lock), Enum(s, "type", 0 .. 127, 1 .. 24, Words3.type) >>
        \in Seq(Items(s))
  BY <1>1, TextSound, PlainSound, EnumSound DEF Words3
<1>4. (IF s.length > \h09 THEN EnclosureStates(s) ELSE <<>>) \in Seq(Items(s))
  BY <1>2, EnumSound DEF EnclosureStates, Words3
<1>5. (IF s.length > \h0D THEN <<Plain(s, "oem_defined", 10)>> ELSE <<>>) \in Seq(Items(s))
  BY <1>2, PlainSound
<1> DEFINE a == << Text(s, "manufacturer"), Text(s, "version"), Text(s, "serialnumber"),
                   Text(s, "asset_tag"), Plain(s, "type", Words3.lock),
                   Enum(s, "type", 0 .. 127, 1 .. 24, Words3.type) >>
           b == IF s.length > \h09 THEN EnclosureStates(s) ELSE <<>>
           c == IF s.length > \h0D THEN <<Plain(s, "oem_defined", 10)>> ELSE <<>>
<1>6. Type3(s) = a \o b \o c
  BY Zenon DEF Type3
<1>7. a \in Seq(Items(s)) /\ b \in Seq(Items(s)) /\ c \in Seq(Items(s))
  BY <1>3, <1>4, <1>5, Zenon
<1> HIDE DEF a, b, c
<1> QED
  BY <1>6, <1>7, Joined, Zenon

LEMMA Type5Sound == ASSUME NEW s \in Structures, s.type = 5 PROVE Type5(s) \in Seq(Items(s))
<1> DEFINE n == s.n
           l == s.length
<1>0. n \in Nat /\ l \in {2 * n + \h0F, 2 * n + \h10}
  BY Type5Is, StructureIs
<1> HIDE DEF n, l
<1>a. l \in Nat /\ l >= 15
  BY <1>0
<1>1. {"error_detection", "ecc", "supported_interleave", "current_interleave",
       "max_mem_module_size", "supported_speeds", "supported_types", "voltage",
       "nr_assoc_slots"} \subseteq Within(s)
  BY <1>a, Type5Is, Bytes5 DEF Within, In, l
<1>2. << Enum(s, "error_detection", Byte, 1 .. 8, Words5.detection) >> \in Seq(Items(s))
  BY <1>1, EnumSound DEF Words5
<1>3. Bits(s, "ecc", 6, Words5.ecc) \in Seq(Items(s))
  BY <1>1, BitsSound DEF Words5
<1>4. << Enum(s, "supported_interleave", Byte, 1 .. 7, Words5.interleave),
         Enum(s, "current_interleave", Byte, 1 .. 7, Words5.interleave),
         Plain(s, "max_mem_module_size", pow2 + UnitWidth) >> \in Seq(Items(s))
  BY <1>1, EnumSound, PlainSound DEF Words5, pow2, UnitWidth
<1>5. ControllerSpeeds(s) \in Seq(Items(s))
  BY <1>1, BitsSound DEF ControllerSpeeds, Words5
<1>6. ControllerTypes(s) \in Seq(Items(s))
  <2>1. Bits(s, "supported_types", 11, Words5.types) \in Seq(Items(s))
    BY <1>1, BitsSound DEF Words5
  <2>2. Bits(s, "voltage", 3, Words5.voltage) \in Seq(Items(s))
    BY <1>1, BitsSound DEF Words5
  <2> QED
    BY <2>1, <2>2, Joined DEF ControllerTypes
<1>7. "handles" \in Names(s) /\ "enabled_ecc" \in Names(s)
  BY DEF Names
<1>8. SlotHandles(s) \in Seq(Items(s))
  <2>1. <<Plain(s, "nr_assoc_slots", Digits(1) + 7), Label("handles")>> \in Seq(Items(s))
    BY <1>1, <1>7, PlainSound, LabelSound DEF Digits
  <2>2. SubLine(7 + Digits(1)) \in 0 .. LineSize - 1
    BY Widths, LineRoom DEF Digits
  <2>3. Out(1, SubLine(7 + Digits(1))) \in Outs(s) /\ Out(1, SubLine(7 + Digits(1))).n = 1
    BY <2>2, OutSound
  <2>4. ASSUME NEW i \in 1 .. n
        PROVE  Item("handles", {\h0F + 2 * (i - 1)}, {Out(1, SubLine(7 + Digits(1)))}, TRUE)
                 \in Items(s)
    <3>1. \h0F + 2 * (i - 1) \in 0 .. l - 1
      BY <1>0
    <3>2. {\h0F + 2 * (i - 1)} \subseteq In(s)
      BY <3>1 DEF In, l
    <3> QED
      BY <1>7, <2>3, <3>2, ItemSound
  <2> DEFINE h == [i \in 1 .. n |->
                     Item("handles", {\h0F + 2 * (i - 1)}, {Out(1, SubLine(7 + Digits(1)))},
                             TRUE)]
  <2>5. h \in [1 .. n -> Items(s)]
    BY <2>4
  <2> HIDE DEF h
  <2>6. h \in Seq(Items(s))
    BY <1>0, <2>5
  <2> QED
    BY <2>1, <2>6, Joined, Zenon DEF SlotHandles, h, n
<1>9. EnabledEcc(s) \in Seq(Items(s))
  <2>1. s.length = 2 * s.n + 16 => {2 * s.n + \h0F} \subseteq In(s)
    <3>1. l = 2 * n + 16 => 2 * n + \h0F \in 0 .. l - 1
      BY <1>0
    <3> QED
      BY <3>1 DEF In, l, n
  <2>2. s.length = 2 * s.n + 16 =>
          BitLines("enabled_ecc", {2 * s.n + \h0F}, 6, Words5.ecc) \in Items(s)
    BY <1>7, <2>1, BitLinesSound DEF Words5
  <2>3. Label("enabled_ecc") \in Items(s)
    BY <1>7, LabelSound
  <2>4. <<>> \in Seq(Items(s))
    OBVIOUS
  <2> QED
    BY <2>2, <2>3, <2>4, Tuple2, Zenon DEF EnabledEcc
<1> QED
  BY <1>2, <1>3, <1>4, <1>5, <1>6, <1>8, <1>9, Joined, Zenon DEF Type5

LEMMA BankSizeSound ==
  ASSUME NEW s \in Structures, NEW m \in Within(s)
  PROVE  BankSize(s, m) \in Seq(Items(s))
<1> DEFINE A == {\h7F}
           B == {\h7E}
           C == {\h7D}
           D == 0 .. \h7C
           values == 0 .. \h7F
           w == Words6.size
           p == pow2 + UnitWidth
<1>1. \A v \in values : /\ ~ (v \in A /\ v \in B) /\ ~ (v \in A /\ v \in C)
                          /\ ~ (v \in A /\ v \in D)
                        /\ ~ (v \in B /\ v \in C) /\ ~ (v \in B /\ v \in D)
                                /\ ~ (v \in C /\ v \in D)
                        /\ v \in A \/ v \in B \/ v \in C \/ v \in D
  OBVIOUS
<1>2. w \in 0 .. 63 /\ p \in 0 .. 63
  BY DEF Words6, pow2, UnitWidth
<1> HIDE DEF A, B, C, D, values, w, p
<1>3. Cases(s, m, values, << <<A, w>>, <<B, w>>, <<C, w>>, <<D, p>> >>, TRUE) \in Items(s)
  BY <1>1, <1>2, Cases4Sound
<1>4. Plain(s, m, w) \in Items(s)
  BY <1>2, PlainSound
<1> DEFINE x == Cases(s, m, values, << <<A, w>>, <<B, w>>, <<C, w>>, <<D, p>> >>, TRUE)
<1>5. BankSize(s, m) = <<Plain(s, m, w), x>>
  BY Zenon DEF BankSize, A, B, C, D, values, w, p
<1> HIDE DEF x
<1> QED
  BY <1>3, <1>4, <1>5, Tuple2 DEF x

LEMMA Type6Sound == ASSUME NEW s \in Structures, s.type = 6 PROVE Type6(s) \in Seq(Items(s))
<1>1. {"designation", "connection", "current_speed", "current_type", "installed_size",
       "enabled_size", "status"} \subseteq Within(s)
  BY Type6Is, Bytes6 DEF Within, In
<1>2. << Text(s, "designation"), Plain(s, "connection", 7),
         Optional(s, "current_speed", Digits(1) + UnitWidth) >> \in Seq(Items(s))
  BY <1>1, TextSound, PlainSound, OptionalSound DEF Digits, UnitWidth
<1>3. Bits(s, "current_type", 11, Words6.types) \in Seq(Items(s))
  BY <1>1, BitsSound DEF Words6
<1>4. BankSize(s, "installed_size") \in Seq(Items(s))
        /\ BankSize(s, "enabled_size") \in Seq(Items(s))
  BY <1>1, BankSizeSound
<1>5. Bits(s, "status", 3, Words6.status) \in Seq(Items(s))
  BY <1>1, BitsSound DEF Words6
<1> QED
  BY <1>2, <1>3, <1>4, <1>5, Joined, Zenon DEF Type6

LEMMA Type7Sound == ASSUME NEW s \in Structures, s.type = 7 PROVE Type7(s) \in Seq(Items(s))
<1>1. {"designation", "configuration", "max_size", "installed_size", "supported_sram",
       "current_sram"} \subseteq Within(s)
  BY Type7Is, Bytes7 DEF Within, In
<1>2. s.length > \h0F => {"speed", "ecc_type", "cache_type", "associativity"}
        \subseteq Within(s)
  BY Type7Is, Bytes7 DEF Within, In
<1>3. <<Text(s, "designation")>> \in Seq(Items(s))
  BY <1>1, TextSound
<1>4. CacheConfiguration(s) \in Seq(Items(s))
  BY <1>1, EnumSound, PlainSound DEF CacheConfiguration, Words7
<1>5. <<Plain(s, "max_size", 7 + UnitWidth), Plain(s, "installed_size", 7 + UnitWidth)>>
        \in Seq(Items(s))
  BY <1>1, PlainSound DEF UnitWidth
<1>6. /\ Bits(s, "supported_sram", 7, Words7.sram) \in Seq(Items(s))
      /\ Bits(s, "current_sram", 7, Words7.sram) \in Seq(Items(s))
  BY <1>1, BitsSound DEF Words7
<1>7. CacheKind(s) \in Seq(Items(s))
  BY <1>2, OptionalSound, EnumSound DEF CacheKind, Words7, Digits, UnitWidth
<1> QED
  BY <1>3, <1>4, <1>5, <1>6, <1>7, Joined, Zenon DEF Type7

LEMMA Type8Sound == ASSUME NEW s \in Structures, s.type = 8 PROVE Type8(s) \in Seq(Items(s))
<1>1. {"internal_designation", "internal_type", "external_designation", "external_type",
       "type"} \subseteq Within(s)
  BY Type8Is, Bytes8 DEF Within, In
<1> QED
  BY <1>1, TextSound, EnumSound DEF Type8, Words8Connector, Words8Port

LEMMA Type9Sound == ASSUME NEW s \in Structures, s.type = 9 PROVE Type9(s) \in Seq(Items(s))
<1>1. {"designation", "type", "width", "usage", "length", "id1", "id2", "characteristics1"}
        \subseteq Within(s)
  BY Type9Is, Bytes9 DEF Within, In
<1>2. s.length > \h0C => "characteristics2" \in Within(s)
  BY Type9Is, Bytes9 DEF Within, In
<1>3. << Text(s, "designation"),
         Enum(s, "type", {s.n}, (1 .. 18) \union (160 .. 164), Words9.type),
         Enum(s, "width", Byte, 1 .. 7, Words9.width), Enum(s, "usage", Byte, 1 .. 4,
                 Words9.usage),
         Enum(s, "length", Byte, 1 .. 4, Words9.length) >> \in Seq(Items(s))
  BY <1>1, TextSound, EnumSound DEF Words9
<1>4. SlotNumber(s) \in Seq(Items(s))
  <2>1. Digits(1) \in 0 .. 63
    BY DEF Digits
  <2>2. /\ Optional(s, "id1", Digits(1)) \in Items(s) /\ Plain(s, "id1", Digits(1)) \in Items(s)
        /\ Plain(s, "id2", Digits(1)) \in Items(s)
    BY <1>1, <2>1, OptionalSound, PlainSound
  <2>3. <<>> \in Seq(Items(s))
    OBVIOUS
  <2> DEFINE one == IF s.n \notin Numbered THEN <<>>
                    ELSE IF s.n \in {4, 5} THEN <<Optional(s, "id1", Digits(1))>>
                    ELSE <<Plain(s, "id1", Digits(1))>>
             two == IF s.n \in Socketed THEN <<Plain(s, "id2", Digits(1))>> ELSE <<>>
  <2>4. one \in Seq(Items(s))
    BY <2>2, <2>3, Tuple1, Zenon
  <2>5. two \in Seq(Items(s))
    BY <2>2, <2>3, Tuple1, Zenon
  <2>6. SlotNumber(s) = one \o two
    BY Zenon DEF SlotNumber
  <2> HIDE DEF one, two
  <2> QED
    BY <2>4, <2>5, <2>6, Joined, Zenon
<1>5. Bits(s, "characteristics1", 8, Words9.characteristics) \in Seq(Items(s))
  BY <1>1, BitsSound DEF Words9
<1>6. s.length > \h0C =>
        BitLines("characteristics2", s.bytes.characteristics2, 3,
                Words9.characteristics) \in Items(s)
  BY <1>2, BitLinesSound DEF Words9, Within, Names
<1>7. <<>> \in Seq(Items(s))
  OBVIOUS
<1>8. SlotCharacteristics(s) \in Seq(Items(s))
  BY <1>5, <1>6, <1>7, Tuple1, Joined, Zenon DEF SlotCharacteristics
<1> DEFINE a == << Text(s, "designation"),
                   Enum(s, "type", {s.n}, (1 .. 18) \union (160 .. 164), Words9.type),
                   Enum(s, "width", Byte, 1 .. 7, Words9.width),
                   Enum(s, "usage", Byte, 1 .. 4, Words9.usage),
                   Enum(s, "length", Byte, 1 .. 4, Words9.length) >>
<1>9. Type9(s) = a \o SlotNumber(s) \o SlotCharacteristics(s)
  BY Zenon DEF Type9
<1>10. a \in Seq(Items(s))
  BY <1>3, Zenon
<1> HIDE DEF a
<1> QED
  BY <1>4, <1>8, <1>9, <1>10, Joined, Zenon

-----------------------------------------------------------------------------
(* Types 10 to 127. *)

(* A sequence of sequences, one after the other.                              *)
LEMMA Flattening ==
  ASSUME NEW T, NEW n \in Nat, n > 0, NEW q \in [1 .. n -> Seq(T)]
  PROVE  \E g : /\ g = [i \in 1 .. n |-> IF i = 1 THEN q[i] ELSE g[i - 1] \o q[i]]
               /\ FlattenSeq(q) = g[n]
<1> DEFINE Flat(m, g) == g = [i \in 1 .. m |-> IF i = 1 THEN q[i] ELSE g[i - 1] \o q[i]]
           S == {m \in Nat : \E g : Flat(m, g)}
<1>0. Len(q) = n
  OBVIOUS
<1>1. 0 \in S
  <2>1. Flat(0, [i \in 1 .. 0 |-> q[i]])
    OBVIOUS
  <2> QED
    BY <2>1
<1>2. ASSUME NEW m \in Nat, m \in S PROVE m + 1 \in S
  <2>1. PICK g : Flat(m, g)
    BY <1>2
  <2> DEFINE h == [i \in 1 .. m + 1 |-> IF i = 1 THEN q[i] ELSE g[i - 1] \o q[i]]
  <2>2. ASSUME NEW i \in 1 .. m + 1 PROVE h[i] = IF i = 1 THEN q[i] ELSE h[i - 1] \o q[i]
    <3>1. CASE i = 1
      BY <3>1
    <3>2. CASE i # 1
      <4>1. i - 1 \in 1 .. m /\ i - 1 \in 1 .. m + 1
        BY <3>2
      <4>2. g[i - 1] = IF i - 1 = 1 THEN q[i - 1] ELSE g[(i - 1) - 1] \o q[i - 1]
        BY <2>1, <4>1
      <4>3. h[i - 1] = g[i - 1]
        BY <4>1, <4>2
      <4> QED
        BY <3>2, <4>3
    <3> QED
      BY <3>1, <3>2
  <2>3. Flat(m + 1, h)
    BY <2>2
  <2> HIDE DEF h
  <2>4. \E f : Flat(m + 1, f)
    BY <2>3
  <2> HIDE DEF Flat
  <2> QED
    BY <2>4
<1> HIDE DEF S
<1>3. n \in S
  BY <1>1, <1>2, NatSetInduction
<1>4. \E g : Flat(n, g)
  BY <1>3 DEF S
<1> DEFINE flatten[i \in 1 .. n] == IF i = 1 THEN q[i] ELSE flatten[i - 1] \o q[i]
<1>5. FlattenSeq(q) = flatten[n]
  BY <1>0 DEF FlattenSeq
<1>6. Flat(n, flatten)
  BY <1>4
<1> QED
  BY <1>5, <1>6

LEMMA Flattened ==
  ASSUME NEW T, NEW n \in Nat, NEW q \in [1 .. n -> Seq(T)]
  PROVE  FlattenSeq(q) \in Seq(T)
<1>1. CASE n = 0
  BY <1>1 DEF FlattenSeq
<1>2. CASE n > 0
  <2>1. PICK g : /\ g = [i \in 1 .. n |-> IF i = 1 THEN q[i] ELSE g[i - 1] \o q[i]]
                 /\ FlattenSeq(q) = g[n]
    BY <1>2, Flattening
  <2> DEFINE R == {m \in Nat : m + 1 <= n => g[m + 1] \in Seq(T)}
  <2>2. 0 \in R
    <3>1. 1 \in 1 .. n /\ 0 + 1 = 1
      BY <1>2
    <3>2. g[1] = q[1]
      BY <2>1, <3>1
    <3> QED
      BY <3>1, <3>2
  <2>3. ASSUME NEW m \in Nat, m \in R PROVE m + 1 \in R
    <3> SUFFICES ASSUME (m + 1) + 1 <= n PROVE g[(m + 1) + 1] \in Seq(T)
      OBVIOUS
    <3>1. (m + 1) + 1 \in 1 .. n /\ (m + 1) + 1 # 1 /\ ((m + 1) + 1) - 1 = m + 1 /\ m + 1 <= n
      OBVIOUS
    <3>2. g[(m + 1) + 1] = g[m + 1] \o q[(m + 1) + 1]
      BY <2>1, <3>1
    <3>3. g[m + 1] \in Seq(T) /\ q[(m + 1) + 1] \in Seq(T)
      BY <2>3, <3>1
    <3> QED
      BY <3>2, <3>3
  <2> HIDE DEF R
  <2>4. n - 1 \in R
    <3>1. R \subseteq Nat
      BY DEF R
    <3>2. Nat \subseteq R
      BY <2>2, <2>3, <3>1, NatSetInduction
    <3> QED
      BY <1>2, <3>2
  <2>5. (n - 1) + 1 = n /\ g[(n - 1) + 1] \in Seq(T)
    BY <1>2, <2>4 DEF R
  <2> QED
    BY <2>1, <2>5
<1> QED
  BY <1>1, <1>2

LEMMA DeviceSize2 == DeviceBytes = 2
<1> DEFINE z == Sizes(smbios_type_10)
<1>1. Len(smbios_type_10) = 2 /\ DOMAIN smbios_type_10 = 1 .. 2
  BY DEF smbios_type_10
<1>2. z[1] = 1 /\ z[2] = 1 /\ Len(z) = 2
  BY <1>1 DEF smbios_type_10, Sizes
<1> HIDE DEF z
<1>3. SumTo(z, 0) = 0 /\ SumTo(z, 0 + 1) = SumTo(z, 0) + z[0 + 1]
      /\ SumTo(z, 1 + 1) = SumTo(z, 1) + z[1 + 1]
  BY SumZero, SumNext
<1> QED
  BY <1>2, <1>3 DEF DeviceBytes, SizeOf, Total, z

(* The bytes of device i are behind the header and inside the structure.      *)
LEMMA DevicesSound ==
  ASSUME NEW s \in Structures, s.type = 10
  PROVE  /\ nr_of_devices(s) \in Nat
         /\ [i \in 1 .. nr_of_devices(s) |-> Device(s, i)]
              \in [1 .. nr_of_devices(s) -> Seq(Items(s))]
<1>1. PICK k \in 0 .. 125 : s.length = 4 + k * 2
  BY Type10Is, DeviceSize2, HeaderBytes
<1>2. k \in Nat /\ nr_of_devices(s) = k
  BY <1>1, DeviceSize2, HeaderBytes DEF nr_of_devices
<1>3. {"type", "description"} \subseteq Names(s)
  BY Type10Is, Bytes10 DEF Names
<1>4. ASSUME NEW i \in 1 .. k PROVE Device(s, i) \in Seq(Items(s))
  <2> DEFINE at == HeaderSize + (i - 1) * DeviceBytes
  <2>1. at = 4 + (i - 1) * 2
    BY DeviceSize2, HeaderBytes
  <2>2. at \in 0 .. s.length - 1 /\ at + 1 \in 0 .. s.length - 1
    BY <1>1, <1>2, <2>1
  <2>3. {at} \subseteq In(s) /\ {at + 1} \subseteq In(s)
    BY <2>2 DEF In
  <2> HIDE DEF at
  <2>4. TextAt(s, "description", {at + 1}) \in Items(s)
    BY <1>3, <2>3, TextAtSound
  <2>5. Digits(1) \in 0 .. 63 /\ Words10.status \in 0 .. 63 /\ Words10.type \in 0 .. 63
    BY DEF Digits, Words10
  <2>6. /\ Item("type", {at}, {Out(1, Line(Digits(1)))}, TRUE) \in Items(s)
        /\ Item("type", {at}, {Out(1, Line(Words10.status))}, TRUE) \in Items(s)
        /\ Item("type", {at}, {Out(1, Line(Words10.type))}, TRUE) \in Items(s)
    BY <1>3, <2>3, <2>5, LineSound
  <2> QED
    BY <2>4, <2>6, Tuple4, Zenon DEF Device, at
<1>5. [i \in 1 .. k |-> Device(s, i)] \in [1 .. k -> Seq(Items(s))]
  BY <1>4
<1> QED
  BY <1>1, <1>2, <1>5

LEMMA Type10Sound == ASSUME NEW s \in Structures, s.type = 10 PROVE Type10(s) \in Seq(Items(s))
BY DevicesSound, Flattened DEF Type10

LEMMA StringsSound ==
  ASSUME NEW s \in Structures, "nr_of_strings" \in Within(s),
         NEW width \in {SubLine(0), LabelWidth + 3}
  PROVE  Strings(s, width) \in Seq(Items(s))
<1>1. Item("nr_of_strings", s.bytes.nr_of_strings, {Nothing}, FALSE) \in Items(s)
  BY ItemSound, NothingSound DEF Within, Names
<1>2. "string" \in Names(s) /\ s.n \in Nat
  BY StructureIs DEF Names
<1>3. ASSUME NEW i \in 1 .. s.n
      PROVE  Item("string", {}, {StringOut(s, "string", width, i)}, TRUE) \in Items(s)
  <2>1. i \in Nat
    BY <1>2
  <2>2. StringOut(s, "string", width, i) \in Outs(s) /\ StringOut(s, "string", width, i).n = 1
    BY <2>1, StringOutSound
  <2> QED
    BY <1>2, <2>2, ItemSound
<1> DEFINE h == [i \in 1 .. s.n |->
                   Item("string", {}, {StringOut(s, "string", width, i)}, TRUE)]
<1>4. h \in [1 .. s.n -> Items(s)]
  BY <1>3
<1> HIDE DEF h
<1>5. h \in Seq(Items(s))
  BY <1>2, <1>4
<1> QED
  BY <1>1, <1>5, Tuple1, Joined, Zenon DEF Strings, h

LEMMA Type11Sound == ASSUME NEW s \in Structures, s.type = 11 PROVE Type11(s) \in Seq(Items(s))
<1>1. "nr_of_strings" \in Within(s)
  BY Type11Is, Bytes11 DEF Within, In
<1> QED
  BY <1>1, StringsSound DEF Type11

LEMMA Type12Sound == ASSUME NEW s \in Structures, s.type = 12 PROVE Type12(s) \in Seq(Items(s))
<1>1. "nr_of_strings" \in Within(s)
  BY Type12Is, Bytes12 DEF Within, In
<1> QED
  BY <1>1, StringsSound DEF Type12

LEMMA Type13Sound == ASSUME NEW s \in Structures, s.type = 13 PROVE Type13(s) \in Seq(Items(s))
<1>1. {"nr_of_strings", "current_language"} \subseteq Within(s)
  BY Type13Is, Bytes13 DEF Within, In
<1>2. Strings(s, SubLine(0)) \in Seq(Items(s))
  BY <1>1, StringsSound
<1>3. Label("string") \in Items(s) /\ Text(s, "current_language") \in Items(s)
  BY <1>1, LabelSound, TextSound DEF Names
<1> QED
  BY <1>2, <1>3, Tuple1, Joined, Zenon DEF Type13

LEMMA Type16Sound == ASSUME NEW s \in Structures, s.type = 16 PROVE Type16(s) \in Seq(Items(s))
<1>1. {"location", "use", "ecc", "max_capacity", "error_handle", "nr_of_devices"}
        \subseteq Within(s)
  BY Type16Is, Bytes16 DEF Within, In
<1>2. ErrorHandle(s, Words16.error) \in Items(s)
  BY <1>1, ErrorHandleSound DEF Words16
<1>3. /\ Enum(s, "location", Byte, (1 .. 10) \union (160 .. 164), Words16.location) \in Items(s)
      /\ Enum(s, "use", Byte, 1 .. 7, Words16.use) \in Items(s)
      /\ Enum(s, "ecc", Byte, 1 .. 7, Words16.ecc) \in Items(s)
  BY <1>1, EnumSound DEF Words16
<1>4. /\ Plain(s, "max_capacity", Digits(4) + UnitWidth) \in Items(s)
      /\ Plain(s, "nr_of_devices", Digits(2)) \in Items(s)
  BY <1>1, PlainSound DEF Digits, UnitWidth
<1> DEFINE a == Enum(s, "location", Byte, (1 .. 10) \union (160 .. 164), Words16.location)
           b == Enum(s, "use", Byte, 1 .. 7, Words16.use)
           c == Enum(s, "ecc", Byte, 1 .. 7, Words16.ecc)
           d == Plain(s, "max_capacity", Digits(4) + UnitWidth)
           e == ErrorHandle(s, Words16.error)
           f == Plain(s, "nr_of_devices", Digits(2))
<1>5. Type16(s) = <<a, b, c, d, e, f>>
  BY Zenon DEF Type16
<1>6. /\ a \in Items(s) /\ b \in Items(s) /\ c \in Items(s) /\ d \in Items(s)
      /\ e \in Items(s) /\ f \in Items(s)
  BY <1>2, <1>3, <1>4
<1> HIDE DEF a, b, c, d, e, f
<1>7. <<a, b, c, d, e, f>> \in Seq(Items(s))
  BY <1>6
<1> QED
  BY <1>5, <1>7

LEMMA DeviceSizeSound ==
  ASSUME NEW s \in Structures, {"total_width", "data_width", "size"} \subseteq Within(s)
  PROVE  DeviceSize(s) \in Seq(Items(s))
<1> DEFINE A == {0}
           B == {WordMax}
           C == 1 .. WordMax - 1
           values == 0 .. WordMax
           w == Digits(2) + UnitWidth
<1>1. \A v \in values : /\ ~ (v \in A /\ v \in B) /\ ~ (v \in A /\ v \in C)
                          /\ ~ (v \in B /\ v \in C)
                        /\ v \in A \/ v \in B \/ v \in C
  BY Words
<1>2. w \in 0 .. 63 /\ Words17.size \in 0 .. 63 /\ Words17.unknown \in 0 .. 63
  BY DEF Words17, Digits, UnitWidth
<1> HIDE DEF A, B, C, values, w
<1>3. Cases(s, "size", values, << <<A, Words17.size>>, <<B, Words17.unknown>>, <<C, w>> >>,
        TRUE)
        \in Items(s)
  BY <1>1, <1>2, Cases3Sound
<1>4. Plain(s, "total_width", w) \in Items(s) /\ Plain(s, "data_width", w) \in Items(s)
  BY <1>2, PlainSound
<1> QED
  BY <1>3, <1>4, Tuple3, Zenon DEF DeviceSize, A, B, C, values, w

LEMMA DeviceSetSound ==
  ASSUME NEW s \in Structures, "device_set" \in Within(s)
  PROVE  DeviceSet(s) \in Seq(Items(s))
<1> DEFINE A == {0}
           B == {\hFF}
           C == 1 .. \hFE
           values == Byte
<1>1. \A v \in values : /\ ~ (v \in A /\ v \in B) /\ ~ (v \in A /\ v \in C)
                          /\ ~ (v \in B /\ v \in C)
                        /\ v \in A \/ v \in B \/ v \in C
  BY DEF Byte
<1>2. Digits(1) \in 0 .. 63 /\ Words17.set \in 0 .. 63 /\ Words17.unknown \in 0 .. 63
  BY DEF Words17, Digits
<1> HIDE DEF A, B, C, values
<1>3. Cases(s, "device_set", values,
            << <<A, Words17.set>>, <<B, Words17.unknown>>, <<C, Digits(1)>> >>,
                    TRUE) \in Items(s)
  BY <1>1, <1>2, Cases3Sound
<1> QED
  BY <1>3, Tuple1, Zenon DEF DeviceSet, A, B, C, values

LEMMA Type17Sound == ASSUME NEW s \in Structures, s.type = 17 PROVE Type17(s) \in Seq(Items(s))
<1>1. {"memory_array_handle", "error_handle", "total_width", "data_width", "size",
        "form_factor",
       "device_set", "device_locator", "bank_locator", "mem_type", "type_detail"}
               \subseteq Within(s)
  <2>1. {"memory_array_handle", "error_handle", "total_width", "data_width"} \subseteq Within(s)
    BY Type17Is, Bytes17 DEF Within, In
  <2>2. {"size", "form_factor", "device_set", "device_locator"} \subseteq Within(s)
    BY Type17Is, Bytes17 DEF Within, In
  <2>3. {"bank_locator", "mem_type", "type_detail"} \subseteq Within(s)
    BY Type17Is, Bytes17 DEF Within, In
  <2> QED
    BY <2>1, <2>2, <2>3
<1>2. /\ s.length > \h15 => "speed" \in Within(s)
      /\ s.length > \h17 => {"manufacturer", "serial_number", "asset_tag", "part_number"}
                              \subseteq Within(s)
  BY Type17Is, Bytes17 DEF Within, In
<1>3. Plain(s, "memory_array_handle", Digits(2)) \in Items(s)
  BY <1>1, PlainSound DEF Digits
<1>4. ErrorHandle(s, Words17.error) \in Items(s)
  BY <1>1, ErrorHandleSound DEF Words17
<1>5. DeviceSize(s) \in Seq(Items(s)) /\ DeviceSet(s) \in Seq(Items(s))
  BY <1>1, DeviceSizeSound, DeviceSetSound
<1>6. Enum(s, "form_factor", Byte, 1 .. 14, Words17.form) \in Items(s)
  BY <1>1, EnumSound DEF Words17
<1>7. << Text(s, "device_locator"), Text(s, "bank_locator"),
         Enum(s, "mem_type", Byte, 1 .. 18, Words17.type) >> \in Seq(Items(s))
  BY <1>1, TextSound, EnumSound DEF Words17
<1>8. TypeDetail(s) \in Seq(Items(s))
  BY <1>1, BitsSound DEF TypeDetail, Words17
<1>9. (IF s.length > \h15 THEN <<Optional(s, "speed", Digits(2) + UnitWidth)>> ELSE <<>>)
        \in Seq(Items(s))
  BY <1>2, OptionalSound DEF Digits, UnitWidth
<1>10. (IF s.length > \h17
        THEN << Text(s, "manufacturer"), Text(s, "serial_number"), Text(s, "asset_tag"),
                Text(s, "part_number") >>
        ELSE <<>>) \in Seq(Items(s))
  BY <1>2, TextSound
<1>11. DeviceTexts(s) \in Seq(Items(s))
  BY <1>9, <1>10, Joined, Zenon DEF DeviceTexts
<1> QED
  BY <1>3, <1>4, <1>5, <1>6, <1>7, <1>8, <1>11, Tuple1, Tuple2, Joined, Zenon DEF Type17

LEMMA Type19Sound == ASSUME NEW s \in Structures, s.type = 19 PROVE Type19(s) \in Seq(Items(s))
<1>1. {"starting_adr", "ending_adr", "mem_array_handle", "partition_width"} \subseteq Within(s)
  BY Type19Is, Bytes19 DEF Within, In
<1> QED
  BY <1>1, PlainSound DEF Type19, Digits

LEMMA InterleavingSound ==
  ASSUME NEW s \in Structures,
         {"partition_row_position", "interleave_position", "interleaved_data_depth"}
           \subseteq Within(s)
  PROVE  Interleaving(s) \in Seq(Items(s))
<1> DEFINE A == {0}
           B == {\hFF}
           C == 1 .. \hFE
           values == Byte
           p == Words20.position
           u == Words20.unknown
           d == Digits(1)
<1>1. \A v \in values : /\ ~ (v \in A /\ v \in B) /\ ~ (v \in A /\ v \in C)
                          /\ ~ (v \in B /\ v \in C)
                        /\ v \in A \/ v \in B \/ v \in C
  BY DEF Byte
<1>2. p \in 0 .. 63 /\ u \in 0 .. 63 /\ d \in 0 .. 63
  BY DEF Words20, Digits
<1> HIDE DEF A, B, C, values, p, u, d
<1> DEFINE special == << <<A, p>>, <<B, u>>, <<C, d>> >>
<1>3. Tail(special) = << <<B, u>>, <<C, d>> >>
  OBVIOUS
<1>4. Cases(s, "partition_row_position", values, << <<B, u>>, <<C, d>> >>, FALSE) \in Items(s)
  BY <1>1, <1>2, Cases2Sound
<1>5. /\ Cases(s, "interleave_position", values, special, TRUE) \in Items(s)
      /\ Cases(s, "interleaved_data_depth", values, special, TRUE) \in Items(s)
  BY <1>1, <1>2, Cases3Sound
<1> HIDE DEF special
<1>6. << Cases(s, "partition_row_position", values, Tail(special), FALSE),
         Cases(s, "interleave_position", values, special, TRUE),
         Cases(s, "interleaved_data_depth", values, special, TRUE) >> \in Seq(Items(s))
  BY <1>3, <1>4, <1>5, Tuple3
<1> QED
  BY <1>6, Zenon DEF Interleaving, special, A, B, C, values, p, u, d

LEMMA Type20Sound == ASSUME NEW s \in Structures, s.type = 20 PROVE Type20(s) \in Seq(Items(s))
<1>1. {"starting_adr", "ending_adr", "mem_dev_handle", "mem_array_mapped_adr_handle",
       "partition_row_position", "interleave_position", "interleaved_data_depth"}
               \subseteq Within(s)
  BY Type20Is, Bytes20 DEF Within, In
<1>2. << Plain(s, "starting_adr", 10), Plain(s, "ending_adr", 10),
         Plain(s, "mem_dev_handle", Digits(2)),
         Plain(s, "mem_array_mapped_adr_handle", Digits(2)) >> \in Seq(Items(s))
  BY <1>1, PlainSound DEF Digits
<1>3. Interleaving(s) \in Seq(Items(s))
  BY <1>1, InterleavingSound
<1> QED
  BY <1>2, <1>3, Joined, Zenon DEF Type20

LEMMA Type32Sound == ASSUME NEW s \in Structures, s.type = 32 PROVE Type32(s) \in Seq(Items(s))
<1>1. "status" \in Within(s)
  BY Type32Is, Bytes32 DEF Within, In
<1> QED
  BY <1>1, EnumSound DEF Type32, Words32

LEMMA OthersSound ==
  ASSUME NEW s \in Structures
  PROVE  Type127(s) \in Seq(Items(s)) /\ NotSupported(s) \in Seq(Items(s))
<1>1. "header" \in Names(s) /\ {} \subseteq In(s)
  BY DEF Names
<1>2. Item("header", {}, {Out(1, Line(Words127 + 1))}, TRUE) \in Items(s)
  <2>1. Words127 + 1 \in 0 .. 63
    BY DEF Words127
  <2> QED
    BY <1>1, <2>1, LineSound
<1>3. NotSupportedWidth + 3 \in 0 .. LineSize - 1
  BY LineRoom DEF NotSupportedWidth, Line, Words127, LabelWidth
<1>4. Out(1, NotSupportedWidth + 3) \in Outs(s) /\ Out(1, NotSupportedWidth + 3).n = 1
  BY <1>3, OutSound
<1>5. Item("header", {}, {Out(1, NotSupportedWidth + 3)}, TRUE) \in Items(s)
  BY <1>1, <1>4, ItemSound
<1> QED
  BY <1>2, <1>5, Tuple1, Zenon DEF Type127, NotSupported

-----------------------------------------------------------------------------
(* Type 4. *)

LEMMA ProcessorVoltageSound ==
  ASSUME NEW s \in Structures, "voltage" \in Within(s)
  PROVE  ProcessorVoltage(s) \in Seq(Items(s))
<1>1. \A o \in CurrentVoltage : o \in Outs(s) /\ o.n = 1
  <2>1. Line(6) \in 0 .. LineSize - 1
    BY Widths, LineRoom
  <2> QED
    BY <2>1, OutSound DEF CurrentVoltage
<1>2. \A o \in Voltages : o \in Outs(s) /\ o.n = 1
  <2>1. SubLine(Words4.voltage) \in 0 .. LineSize - 1
    BY Widths, LineRoom DEF Words4
  <2>2. \A k \in 0 .. 3 : LabelWidth + 2 + k * SubLine(Words4.voltage) \in Nat
    BY DEF Words4, LabelWidth, SubLine
  <2> QED
    BY <2>1, <2>2, LinesSound DEF Voltages
<1>3. Item("voltage", s.bytes.voltage, CurrentVoltage \union Voltages, TRUE) \in Items(s)
  BY <1>1, <1>2, ItemSound DEF Within, Names
<1> QED
  BY <1>3, Tuple1, Zenon DEF ProcessorVoltage

LEMMA Type4Sound ==
  ASSUME NEW s \in Structures, s.type = 4
  PROVE  Type4(s) \in Seq(Items(s))
<1>1. s.bytes = BytesOf(smbios_type_4) /\ s.length \in {\h1A, \h20} \union \h23 .. 255
  BY Type4Is
<1>2. {"socket_designation", "type", "family", "manufacturer", "id", "version",
        "voltage", "external_clock", "max_speed", "current_speed", "status", "upgrade"}
                \subseteq Within(s)
  BY <1>1, Bytes4 DEF Within, In
<1>3. s.length > \h1A => {"l1_cache_handle", "l2_cache_handle", "l3_cache_handle"}
        \subseteq Within(s)
  BY <1>1, Bytes4 DEF Within, In
<1>4. s.length > \h20 => {"serialnumber", "asset_tag", "part_number"} \subseteq Within(s)
  BY <1>1, Bytes4 DEF Within, In
<1>5. << Text(s, "socket_designation"), Enum(s, "type", Byte, 1 .. 6, Words4.type),
         Enum(s, "family", Byte, ProcessorFamilies, Words4Family), Text(s, "manufacturer"),
         Plain(s, "id", 24), Text(s, "version") >> \in Seq(Items(s))
  BY <1>2, TextSound, EnumSound, PlainSound DEF Words4, Words4Family
<1>6. ProcessorSpeeds(s) \in Seq(Items(s))
  BY <1>2, OptionalSound DEF ProcessorSpeeds, Digits, UnitWidth
<1>7. << Enum(s, "status", 0 .. 7, (0 .. 4) \union {7}, Words4.status),
         Plain(s, "status", Words4.socket),
         Enum(s, "upgrade", Byte, 1 .. 15, Words4.upgrade) >> \in Seq(Items(s))
  BY <1>2, EnumSound, PlainSound DEF Words4
<1>8. ProcessorCaches(s) \in Seq(Items(s))
  BY <1>3, OptionalSound DEF ProcessorCaches, Digits
<1>9. ProcessorTexts(s) \in Seq(Items(s))
  BY <1>4, TextSound DEF ProcessorTexts
<1>10. ProcessorVoltage(s) \in Seq(Items(s))
  BY <1>2, ProcessorVoltageSound
<1> QED
  BY <1>5, <1>6, <1>7, <1>8, <1>9, <1>10, Joined, Zenon DEF Type4

-----------------------------------------------------------------------------
(* Every layout. *)

LEMMA LengthSound == ASSUME NEW s \in Structures PROVE s.length >= 4 /\ s.length \in Nat
<1>1. s.length \in Versions(s) /\ s.length \in Byte /\ s.n \in Nat
  BY StructureIs
<1>2. CASE s.type = 10
  BY <1>2, Type10Is, DeviceSize2, HeaderBytes
<1>3. CASE s.type = 5
  BY <1>1, <1>3, Type5Is
<1>4. CASE s.type \in {0, 1, 2, 3, 4, 6, 7, 8, 9}
  BY <1>4, Type0Is, Type1Is, Type2Is, Type3Is, Type4Is, Type6Is, Type7Is, Type8Is, Type9Is
<1>5. CASE s.type \in {11, 12, 13, 16, 17, 19, 20, 32}
  BY <1>5, Type11Is, Type12Is, Type13Is, Type16Is, Type17Is, Type19Is, Type20Is, Type32Is
<1>6. CASE s.type \notin {0, 1, 2, 3, 4, 5, 6, 7, 8, 9, 10, 11, 12, 13, 16, 17, 19, 20, 32}
  <2>1. Versions(s) = HeaderSize .. 255
    BY <1>6 DEF Versions
  <2> QED
    BY <1>1, <2>1, HeaderBytes
<1>7. s.length \in Nat
  BY <1>1 DEF Byte
<1> QED
  BY <1>2, <1>3, <1>4, <1>5, <1>6, <1>7

(* The layout of a structure is made of items that read and show what they    *)
(* should.                                                                    *)
LEMMA LayoutSound == ASSUME NEW s \in Structures PROVE Layout(s) \in Seq(Items(s))
<1> DEFINE body ==
      CASE s.type = 0 -> Type0(s)
        [] s.type = 1 -> Type1(s)
        [] s.type = 2 -> Type2(s)
        [] s.type = 3 -> Type3(s)
        [] s.type = 4 -> Type4(s)
        [] s.type = 5 -> Type5(s)
        [] s.type = 6 -> Type6(s)
        [] s.type = 7 -> Type7(s)
        [] s.type = 8 -> Type8(s)
        [] s.type = 9 -> Type9(s)
        [] s.type = 10 -> Type10(s)
        [] s.type = 11 -> Type11(s)
        [] s.type = 12 -> Type12(s)
        [] s.type = 13 -> Type13(s)
        [] s.type = 16 -> Type16(s)
        [] s.type = 17 -> Type17(s)
        [] s.type = 19 -> Type19(s)
        [] s.type = 20 -> Type20(s)
        [] s.type = 32 -> Type32(s)
        [] s.type = 127 -> Type127(s)
        [] OTHER -> NotSupported(s)
<1>1. Header(s) \in Seq(Items(s))
  BY LengthSound, HeaderSound
<1>2. body \in Seq(Items(s))
  <2>1. CASE s.type = 0
    <3>1. body = Type0(s)
      BY <2>1
    <3> HIDE DEF body
    <3> QED
      BY <2>1, <3>1, Type0Sound
  <2>2. CASE s.type = 1
    <3>1. body = Type1(s)
      BY <2>2
    <3> HIDE DEF body
    <3> QED
      BY <2>2, <3>1, Type1Sound
  <2>3. CASE s.type = 2
    <3>1. body = Type2(s)
      BY <2>3
    <3> HIDE DEF body
    <3> QED
      BY <2>3, <3>1, Type2Sound
  <2>4. CASE s.type = 3
    <3>1. body = Type3(s)
      BY <2>4
    <3> HIDE DEF body
    <3> QED
      BY <2>4, <3>1, Type3Sound
  <2>5. CASE s.type = 4
    <3>1. body = Type4(s)
      BY <2>5
    <3> HIDE DEF body
    <3> QED
      BY <2>5, <3>1, Type4Sound
  <2>6. CASE s.type = 5
    <3>1. body = Type5(s)
      BY <2>6
    <3> HIDE DEF body
    <3> QED
      BY <2>6, <3>1, Type5Sound
  <2>7. CASE s.type = 6
    <3>1. body = Type6(s)
      BY <2>7
    <3> HIDE DEF body
    <3> QED
      BY <2>7, <3>1, Type6Sound
  <2>8. CASE s.type = 7
    <3>1. body = Type7(s)
      BY <2>8
    <3> HIDE DEF body
    <3> QED
      BY <2>8, <3>1, Type7Sound
  <2>9. CASE s.type = 8
    <3>1. body = Type8(s)
      BY <2>9
    <3> HIDE DEF body
    <3> QED
      BY <2>9, <3>1, Type8Sound
  <2>10. CASE s.type = 9
    <3>1. body = Type9(s)
      BY <2>10
    <3> HIDE DEF body
    <3> QED
      BY <2>10, <3>1, Type9Sound
  <2>11. CASE s.type = 10
    <3>1. body = Type10(s)
      BY <2>11
    <3> HIDE DEF body
    <3> QED
      BY <2>11, <3>1, Type10Sound
  <2>12. CASE s.type = 11
    <3>1. body = Type11(s)
      BY <2>12
    <3> HIDE DEF body
    <3> QED
      BY <2>12, <3>1, Type11Sound
  <2>13. CASE s.type = 12
    <3>1. body = Type12(s)
      BY <2>13
    <3> HIDE DEF body
    <3> QED
      BY <2>13, <3>1, Type12Sound
  <2>14. CASE s.type = 13
    <3>1. body = Type13(s)
      BY <2>14
    <3> HIDE DEF body
    <3> QED
      BY <2>14, <3>1, Type13Sound
  <2>15. CASE s.type = 16
    <3>1. body = Type16(s)
      BY <2>15
    <3> HIDE DEF body
    <3> QED
      BY <2>15, <3>1, Type16Sound
  <2>16. CASE s.type = 17
    <3>1. body = Type17(s)
      BY <2>16
    <3> HIDE DEF body
    <3> QED
      BY <2>16, <3>1, Type17Sound
  <2>17. CASE s.type = 19
    <3>1. body = Type19(s)
      BY <2>17
    <3> HIDE DEF body
    <3> QED
      BY <2>17, <3>1, Type19Sound
  <2>18. CASE s.type = 20
    <3>1. body = Type20(s)
      BY <2>18
    <3> HIDE DEF body
    <3> QED
      BY <2>18, <3>1, Type20Sound
  <2>19. CASE s.type = 32
    <3>1. body = Type32(s)
      BY <2>19
    <3> HIDE DEF body
    <3> QED
      BY <2>19, <3>1, Type32Sound
  <2>20. CASE s.type = 127
    <3>1. body = Type127(s)
      BY <2>20
    <3> HIDE DEF body
    <3> QED
      BY <3>1, OthersSound
  <2>21. CASE s.type \notin {0, 1, 2, 3, 4, 5, 6, 7, 8, 9, 10, 11, 12, 13, 16, 17, 19, 20, 32,
          127}
    <3>1. body = NotSupported(s)
      BY <2>21
    <3> HIDE DEF body
    <3> QED
      BY <3>1, OthersSound
  <2> HIDE DEF body
  <2> QED
    BY <2>1, <2>2, <2>3, <2>4, <2>5, <2>6, <2>7, <2>8, <2>9, <2>10,
       <2>11, <2>12, <2>13, <2>14, <2>15, <2>16, <2>17, <2>18, <2>19, <2>20, <2>21
<1> HIDE DEF body
<1> QED
  BY <1>1, <1>2, Joined, Zenon DEF Layout, body

-----------------------------------------------------------------------------
(* The specification. *)

(* The inductive invariant: what the last step printed is an outcome that the *)
(* structure allows, and what has been read is part of it; items before next  *)
(* have been read, and a text that is not empty is complete when it is done.  *)
CookInv ==
  /\ st \in Structures
  /\ pc \in {"idle", "cook", "done"}
  /\ next \in Nat \ {0}
  /\ file \in Nat
  /\ read \subseteq In(st)
  /\ line.out \in Outs(st)
  /\ line.once => line.out.n = 1
  /\ \A i \in 1 .. Len(Layout(st)) : i < next => Layout(st)[i].bytes \subseteq read
  /\ pc = "idle" => file = 0
  /\ pc = "done" /\ file > 0 => next > Len(Layout(st))

LEMMA InitCook == Init => CookInv
<1> SUFFICES ASSUME Init PROVE CookInv
  OBVIOUS
<1>1. Nothing \in Outs(st)
  BY NothingSound DEF Init
<1> QED
  BY <1>1 DEF Init, CookInv, NoLine, In

(* What Show does with the item that it shows.                                *)
LEMMA ShowIs ==
  ASSUME CookInv, Show
  PROVE  /\ next \in 1 .. Len(Layout(st)) /\ Layout(st)[next] \in Items(st)
         /\ \E out \in Layout(st)[next].outs :
              /\ line'.once = Layout(st)[next].once /\ line'.out = out
              /\ file' = file + out.len
         /\ read' = read \union Layout(st)[next].bytes
         /\ next' = next + 1 /\ st' = st /\ pc' = pc /\ pc = "cook"
<1>1. st \in Structures
  BY DEF CookInv
<1>2. Layouts[st] = Layout(st)
  BY <1>1 DEF Layouts
<1>3. Layout(st) \in Seq(Items(st))
  BY <1>1, LayoutSound
<1>4. next \in 1 .. Len(Layout(st))
  BY <1>2, <1>3 DEF Show, CookInv
<1>5. Layout(st)[next] \in Items(st)
  BY <1>3, <1>4, Element
<1> QED
  BY <1>2, <1>4, <1>5 DEF Show

LEMMA CookStep ==
  ASSUME CookInv, [Next]_vars
  PROVE  CookInv'
<1>1. CASE Begin
  BY <1>1 DEF Begin, CookInv
<1>2. CASE BeginFails
  BY <1>2 DEF BeginFails, CookInv
<1>3. CASE Show
  <2> DEFINE q == Layout(st)
             x == q[next]
  <2>1. next \in 1 .. Len(q) /\ x \in Items(st) /\ read' = read \union x.bytes
        /\ next' = next + 1 /\ st' = st /\ pc' = pc /\ pc = "cook"
    BY <1>3, ShowIs
  <2>2. PICK out \in x.outs : line'.once = x.once /\ line'.out = out /\ file' = file + out.len
    BY <1>3, ShowIs
  <2>3. /\ x.bytes \subseteq In(st) /\ x.outs \subseteq Outs(st)
        /\ x.once => \A o \in x.outs : o.n = 1
    BY <2>1 DEF Items
  <2>4. out \in Outs(st) /\ out.len \in Nat
    BY <2>2, <2>3 DEF Outs
  <2>5. (\A i \in 1 .. Len(q) : i < next => q[i].bytes \subseteq read)
    BY DEF CookInv
  <2>6. next \in Nat \ {0} /\ file \in Nat /\ st \in Structures /\ read \subseteq In(st)
    BY DEF CookInv
  <2>7. q' = q
    BY <2>1
  <2>8. ASSUME NEW i \in 1 .. Len(q), i < next + 1 PROVE q[i].bytes \subseteq read'
    <3>1. i < next \/ i = next
      BY <2>1, <2>8
    <3> QED
      BY <2>1, <2>5, <3>1
  <2> HIDE DEF q, x
  <2>9. next' \in Nat \ {0} /\ file' \in Nat
    BY <2>1, <2>2, <2>4, <2>6
  <2>10. read' \subseteq In(st) /\ line'.out \in Outs(st) /\ (line'.once => line'.out.n = 1)
    BY <2>1, <2>2, <2>3, <2>4, <2>6
  <2>11. In(st)' = In(st) /\ Outs(st)' = Outs(st)
    BY <2>1
  <2>12. (\A i \in 1 .. Len(q) : i < next => q[i].bytes \subseteq read)'
    BY <2>1, <2>7, <2>8
  <2> QED
    BY <2>1, <2>6, <2>9, <2>10, <2>11, <2>12 DEF CookInv, q
<1>4. CASE Finish
  <2>1. st \in Structures
    BY DEF CookInv
  <2>2. Nothing \in Outs(st) /\ Layouts[st] = Layout(st)
    BY <2>1, NothingSound DEF Layouts
  <2> QED
    BY <1>4, <2>2 DEF Finish, CookInv, NoLine
<1>5. CASE Free
  BY <1>5 DEF Free, CookInv
<1>6. CASE UNCHANGED vars
  BY <1>6 DEF CookInv, vars
<1> QED
  BY <1>1, <1>2, <1>3, <1>4, <1>5, <1>6 DEF Next

LEMMA CookInvariant == Spec => []CookInv
<1>1. Init => CookInv
  BY InitCook
<1>2. CookInv /\ [Next]_vars => CookInv'
  BY CookStep
<1> QED
  BY <1>1, <1>2, PTL DEF Spec

(* Every variable has its type.                                               *)
THEOREM TypeCorrect == Spec => []TypeOK
<1>1. CookInv => TypeOK
  <2> SUFFICES ASSUME CookInv PROVE TypeOK
    OBVIOUS
  <2>1. st.type \in Byte /\ st.length \in Byte
    BY StructureIs DEF CookInv
  <2>2. In(st) \subseteq Nat
    BY DEF In
  <2>3. line.out.n \in Nat
    BY DEF CookInv, Outs
  <2> QED
    BY <2>1, <2>2, <2>3 DEF CookInv, TypeOK
<1> QED
  BY <1>1, CookInvariant, PTL

(* No function of cooking.c reads a byte behind the structure that it prints. *)
THEOREM InsideCorrect == Spec => []InsideStructure
<1>1. CookInv => InsideStructure
  BY DEF CookInv, InsideStructure, In
<1> QED
  BY <1>1, CookInvariant, PTL

(* No line that a function of cooking.c assembles is longer than the array in *)
(* which it does, as long as the BIOS keeps its strings to 64 characters.     *)
THEOREM LineCorrect == Spec => []LineFits
<1>1. CookInv => LineFits
  BY LineRoom DEF CookInv, LineFits, Outs
<1> QED
  BY <1>1, CookInvariant, PTL

(* The chains of ifs of cooking.c give every value of their member exactly    *)
(* one line; a switch, and a member printed as it is, do by construction.     *)
THEOREM OneLineCorrect == Spec => []OneLinePerMember
<1>1. CookInv => OneLinePerMember
  BY DEF CookInv, OneLinePerMember
<1> QED
  BY <1>1, CookInvariant, PTL

(* smbios_get_string returns the text that the number of a string names, and  *)
(* NULL for a number that the structure does not have.                        *)
THEOREM StringsCorrect == Spec => []StringsRight
<1>1. CookInv => StringsRight
  <2> SUFFICES ASSUME CookInv PROVE StringsRight
    OBVIOUS
  <2>1. line.out.ptr = Reached(st.strings, line.out.nr)
    BY DEF CookInv, Outs
  <2>2. DOMAIN st.strings = 1 .. Len(st.strings)
    BY StructureIs DEF CookInv, Lists
  <2> QED
    BY <2>1, <2>2 DEF StringsRight, Reached
<1> QED
  BY <1>1, CookInvariant, PTL

-----------------------------------------------------------------------------
(* What a layout reads. *)

(* What the items of a layout read together: all bytes of the named members.  *)
Covers(s, q, names) ==
  \E T : /\ q \in Seq(T)
         /\ \A m \in names : s.bytes[m] \subseteq UNION {q[i].bytes : i \in 1 .. Len(q)}

(* Item x reads the bytes of member m.                                        *)
Reads(s, x, m) == s.bytes[m] \subseteq x.bytes

LEMMA CoversSome ==
  ASSUME NEW s, NEW T, NEW q \in Seq(T), NEW names,
         \A m \in names : \E i \in 1 .. Len(q) : s.bytes[m] \subseteq q[i].bytes
  PROVE  Covers(s, q, names)
<1>1. ASSUME NEW m \in names
      PROVE  s.bytes[m] \subseteq UNION {q[i].bytes : i \in 1 .. Len(q)}
  <2>1. PICK i \in 1 .. Len(q) : s.bytes[m] \subseteq q[i].bytes
    OBVIOUS
  <2> QED
    BY <2>1
<1> QED
  BY <1>1 DEF Covers

LEMMA CoversNone == ASSUME NEW s PROVE Covers(s, <<>>, {})
<1>1. <<>> \in Seq({})
  OBVIOUS
<1> QED
  BY <1>1, CoversSome

(* A list of whatever length.                                                 *)
LEMMA CoversList ==
  ASSUME NEW s, NEW n \in Nat, NEW f, DOMAIN f = 1 .. n, f = [i \in 1 .. n |-> f[i]]
  PROVE  Covers(s, f, {})
<1> DEFINE T == {f[i] : i \in 1 .. n}
<1>1. \A i \in 1 .. n : f[i] \in T
  OBVIOUS
<1> HIDE DEF T
<1>2. f \in [1 .. n -> T]
  BY <1>1
<1>3. f \in Seq(T)
  BY <1>2
<1> QED
  BY <1>3, CoversSome

LEMMA CoversJoined ==
  ASSUME NEW s, NEW q, NEW r, NEW M, NEW N, Covers(s, q, M), Covers(s, r, N)
  PROVE  Covers(s, q \o r, M \union N)
<1>1. PICK T : /\ q \in Seq(T)
               /\ \A m \in M : s.bytes[m] \subseteq UNION {q[i].bytes : i \in 1 .. Len(q)}
  BY DEF Covers
<1>2. PICK S : /\ r \in Seq(S)
               /\ \A m \in N : s.bytes[m] \subseteq UNION {r[i].bytes : i \in 1 .. Len(r)}
  BY DEF Covers
<1> DEFINE c == q \o r
<1>3. q \in Seq(T \union S) /\ r \in Seq(T \union S)
  BY <1>1, <1>2
<1>4. c \in Seq(T \union S)
  BY <1>3
<1>5. \A i \in 1 .. Len(q) : i \in 1 .. Len(c) /\ c[i] = q[i]
  BY <1>3
<1>6. \A i \in 1 .. Len(r) : Len(q) + i \in 1 .. Len(c) /\ c[Len(q) + i] = r[i]
  BY <1>3
<1> HIDE DEF c
<1> DEFINE all == UNION {c[i].bytes : i \in 1 .. Len(c)}
<1>7. UNION {q[i].bytes : i \in 1 .. Len(q)} \subseteq all
  BY <1>5
<1>8. UNION {r[i].bytes : i \in 1 .. Len(r)} \subseteq all
  <2>1. ASSUME NEW i \in 1 .. Len(r) PROVE r[i].bytes \subseteq all
    <3>1. c[Len(q) + i].bytes \subseteq all
      BY <1>6
    <3> QED
      BY <1>6, <3>1
  <2> HIDE DEF all
  <2> QED
    BY <2>1
<1> HIDE DEF all
<1>9. \A m \in M \union N : s.bytes[m] \subseteq all
  BY <1>1, <1>2, <1>7, <1>8
<1>10. Covers(s, c, M \union N)
  BY <1>4, <1>9 DEF Covers, all
<1> QED
  BY <1>10 DEF c

LEMMA Cover1 ==
  ASSUME NEW s, NEW a,
         NEW A,
         Reads(s, a, A)
  PROVE  Covers(s, <<a>>, {A})
<1> DEFINE q == <<a>>
<1>1. q \in Seq({a})
  OBVIOUS
<1>2. \A m \in {A} : \E i \in 1 .. Len(q) : s.bytes[m] \subseteq q[i].bytes
  <2>1. 1 \in 1 .. Len(q) /\ s.bytes[A] \subseteq q[1].bytes
    BY DEF Reads
  <2> HIDE DEF q
  <2> QED
    BY <2>1
<1> HIDE DEF q
<1>3. Covers(s, q, {A})
  BY <1>1, <1>2, CoversSome
<1> QED
  BY <1>3 DEF q

LEMMA Cover2 ==
  ASSUME NEW s, NEW a, NEW b,
         NEW A, NEW B,
         Reads(s, a, A), Reads(s, b, B)
  PROVE  Covers(s, <<a, b>>, {A, B})
<1> DEFINE q == <<a, b>>
<1>1. q \in Seq({a, b})
  OBVIOUS
<1>2. \A m \in {A, B} : \E i \in 1 .. Len(q) : s.bytes[m] \subseteq q[i].bytes
  <2>1. 1 \in 1 .. Len(q) /\ s.bytes[A] \subseteq q[1].bytes
    BY DEF Reads
  <2>2. 2 \in 1 .. Len(q) /\ s.bytes[B] \subseteq q[2].bytes
    BY DEF Reads
  <2> HIDE DEF q
  <2> QED
    BY <2>1, <2>2
<1> HIDE DEF q
<1>3. Covers(s, q, {A, B})
  BY <1>1, <1>2, CoversSome
<1> QED
  BY <1>3 DEF q

LEMMA Cover3 ==
  ASSUME NEW s, NEW a, NEW b, NEW c,
         NEW A, NEW B, NEW C,
         Reads(s, a, A), Reads(s, b, B), Reads(s, c, C)
  PROVE  Covers(s, <<a, b, c>>, {A, B, C})
<1> DEFINE q == <<a, b, c>>
<1>1. q \in Seq({a, b, c})
  OBVIOUS
<1>2. \A m \in {A, B, C} : \E i \in 1 .. Len(q) : s.bytes[m] \subseteq q[i].bytes
  <2>1. 1 \in 1 .. Len(q) /\ s.bytes[A] \subseteq q[1].bytes
    BY DEF Reads
  <2>2. 2 \in 1 .. Len(q) /\ s.bytes[B] \subseteq q[2].bytes
    BY DEF Reads
  <2>3. 3 \in 1 .. Len(q) /\ s.bytes[C] \subseteq q[3].bytes
    BY DEF Reads
  <2> HIDE DEF q
  <2> QED
    BY <2>1, <2>2, <2>3
<1> HIDE DEF q
<1>3. Covers(s, q, {A, B, C})
  BY <1>1, <1>2, CoversSome
<1> QED
  BY <1>3 DEF q

LEMMA Cover4 ==
  ASSUME NEW s, NEW a, NEW b, NEW c, NEW d,
         NEW A, NEW B, NEW C, NEW D,
         Reads(s, a, A), Reads(s, b, B), Reads(s, c, C), Reads(s, d, D)
  PROVE  Covers(s, <<a, b, c, d>>, {A, B, C, D})
<1> DEFINE q == <<a, b, c, d>>
<1>1. q \in Seq({a, b, c, d})
  OBVIOUS
<1>2. \A m \in {A, B, C, D} : \E i \in 1 .. Len(q) : s.bytes[m] \subseteq q[i].bytes
  <2>1. 1 \in 1 .. Len(q) /\ s.bytes[A] \subseteq q[1].bytes
    BY DEF Reads
  <2>2. 2 \in 1 .. Len(q) /\ s.bytes[B] \subseteq q[2].bytes
    BY DEF Reads
  <2>3. 3 \in 1 .. Len(q) /\ s.bytes[C] \subseteq q[3].bytes
    BY DEF Reads
  <2>4. 4 \in 1 .. Len(q) /\ s.bytes[D] \subseteq q[4].bytes
    BY DEF Reads
  <2> HIDE DEF q
  <2> QED
    BY <2>1, <2>2, <2>3, <2>4
<1> HIDE DEF q
<1>3. Covers(s, q, {A, B, C, D})
  BY <1>1, <1>2, CoversSome
<1> QED
  BY <1>3 DEF q

LEMMA Cover5 ==
  ASSUME NEW s, NEW a, NEW b, NEW c, NEW d, NEW e,
         NEW A, NEW B, NEW C, NEW D, NEW E,
         Reads(s, a, A), Reads(s, b, B), Reads(s, c, C), Reads(s, d, D), Reads(s, e, E)
  PROVE  Covers(s, <<a, b, c, d, e>>, {A, B, C, D, E})
<1> DEFINE q == <<a, b, c, d, e>>
<1>1. q \in Seq({a, b, c, d, e})
  OBVIOUS
<1>2. \A m \in {A, B, C, D, E} : \E i \in 1 .. Len(q) : s.bytes[m] \subseteq q[i].bytes
  <2>1. 1 \in 1 .. Len(q) /\ s.bytes[A] \subseteq q[1].bytes
    BY DEF Reads
  <2>2. 2 \in 1 .. Len(q) /\ s.bytes[B] \subseteq q[2].bytes
    BY DEF Reads
  <2>3. 3 \in 1 .. Len(q) /\ s.bytes[C] \subseteq q[3].bytes
    BY DEF Reads
  <2>4. 4 \in 1 .. Len(q) /\ s.bytes[D] \subseteq q[4].bytes
    BY DEF Reads
  <2>5. 5 \in 1 .. Len(q) /\ s.bytes[E] \subseteq q[5].bytes
    BY DEF Reads
  <2> HIDE DEF q
  <2> QED
    BY <2>1, <2>2, <2>3, <2>4, <2>5
<1> HIDE DEF q
<1>3. Covers(s, q, {A, B, C, D, E})
  BY <1>1, <1>2, CoversSome
<1> QED
  BY <1>3 DEF q

LEMMA Cover6 ==
  ASSUME NEW s, NEW a, NEW b, NEW c, NEW d, NEW e, NEW f,
         NEW A, NEW B, NEW C, NEW D, NEW E, NEW F,
         Reads(s, a, A), Reads(s, b, B), Reads(s, c, C), Reads(s, d, D), Reads(s, e, E),
         Reads(s, f, F)
  PROVE  Covers(s, <<a, b, c, d, e, f>>, {A, B, C, D, E, F})
<1> DEFINE q == <<a, b, c, d, e, f>>
<1>1. q \in Seq({a, b, c, d, e, f})
  OBVIOUS
<1>2. \A m \in {A, B, C, D, E, F} : \E i \in 1 .. Len(q) : s.bytes[m] \subseteq q[i].bytes
  <2>1. 1 \in 1 .. Len(q) /\ s.bytes[A] \subseteq q[1].bytes
    BY DEF Reads
  <2>2. 2 \in 1 .. Len(q) /\ s.bytes[B] \subseteq q[2].bytes
    BY DEF Reads
  <2>3. 3 \in 1 .. Len(q) /\ s.bytes[C] \subseteq q[3].bytes
    BY DEF Reads
  <2>4. 4 \in 1 .. Len(q) /\ s.bytes[D] \subseteq q[4].bytes
    BY DEF Reads
  <2>5. 5 \in 1 .. Len(q) /\ s.bytes[E] \subseteq q[5].bytes
    BY DEF Reads
  <2>6. 6 \in 1 .. Len(q) /\ s.bytes[F] \subseteq q[6].bytes
    BY DEF Reads
  <2> HIDE DEF q
  <2> QED
    BY <2>1, <2>2, <2>3, <2>4, <2>5, <2>6
<1> HIDE DEF q
<1>3. Covers(s, q, {A, B, C, D, E, F})
  BY <1>1, <1>2, CoversSome
<1> QED
  BY <1>3 DEF q


LEMMA ItemReads ==
  ASSUME NEW s, NEW m, NEW b, NEW outs, NEW once, s.bytes[m] \subseteq b
  PROVE  Reads(s, Item(m, b, outs, once), m)
BY DEF Item, Reads

LEMMA PlainReads == ASSUME NEW s, NEW m, NEW w PROVE Reads(s, Plain(s, m, w), m)
BY ItemReads DEF Plain

LEMMA OptionalReads == ASSUME NEW s, NEW m, NEW w PROVE Reads(s, Optional(s, m, w), m)
BY ItemReads DEF Optional

LEMMA TextReads == ASSUME NEW s, NEW m PROVE Reads(s, Text(s, m), m)
BY ItemReads DEF Text, TextAt

LEMMA EnumReads ==
  ASSUME NEW s, NEW m, NEW range, NEW codes, NEW w
  PROVE  Reads(s, Enum(s, m, range, codes, w), m)
<1>1. Enum(s, m, range, codes, w).bytes = s.bytes[m]
  BY DEF Enum, Item
<1> QED
  BY <1>1 DEF Reads

LEMMA BitLinesReads ==
  ASSUME NEW s, NEW m, NEW bits, NEW w
  PROVE  Reads(s, BitLines(m, s.bytes[m], bits, w), m)
BY ItemReads DEF BitLines

LEMMA CasesReads ==
  ASSUME NEW s, NEW m, NEW values, NEW branches, NEW once
  PROVE  Reads(s, Cases(s, m, values, branches, once), m)
<1>1. Cases(s, m, values, branches, once).bytes = s.bytes[m]
  BY DEF Cases, Item
<1> QED
  BY <1>1 DEF Reads

LEMMA ErrorHandleReads == ASSUME NEW s, NEW w PROVE Reads(s, ErrorHandle(s, w), "error_handle")
BY CasesReads, Zenon DEF ErrorHandle

LEMMA BitsCover ==
        ASSUME NEW s, NEW m, NEW bits, NEW w PROVE Covers(s, Bits(s, m, bits, w), {m})
<1> DEFINE q == Bits(s, m, bits, w)
<1>1. q \in Seq({Label(m), BitLines(m, s.bytes[m], bits, w)})
  BY DEF Bits
<1>2. 2 \in 1 .. Len(q) /\ q[2] = BitLines(m, s.bytes[m], bits, w)
  BY DEF Bits
<1> HIDE DEF q
<1>3. s.bytes[m] \subseteq q[2].bytes
  BY <1>2, BitLinesReads DEF Reads
<1>4. Covers(s, q, {m})
  BY <1>1, <1>2, <1>3, CoversSome
<1> QED
  BY <1>4 DEF q

-----------------------------------------------------------------------------
(* Every member is read, type by type. *)

LEMMA CoversFewer ==
  ASSUME NEW s, NEW q, NEW M, NEW N, Covers(s, q, M), N \subseteq M
  PROVE  Covers(s, q, N)
BY DEF Covers

LEMMA Inside ==
  ASSUME NEW s \in Structures, NEW m \in Within(s), NEW b \in s.bytes[m]
  PROVE  b < s.length
<1>1. s.length \in Nat
  BY LengthSound
<1>2. b \in In(s)
  BY <1>1 DEF Within
<1> QED
  BY <1>1, <1>2 DEF In

LEMMA BankCover == ASSUME NEW s, NEW m PROVE Covers(s, BankSize(s, m), {m})
<1> DEFINE q == BankSize(s, m)
<1>1. q \in Seq({q[1], q[2]}) /\ 1 \in 1 .. Len(q) /\ q[1] = Plain(s, m, Words6.size)
  BY DEF BankSize
<1> HIDE DEF q
<1>2. s.bytes[m] \subseteq q[1].bytes
  BY <1>1, PlainReads DEF Reads
<1>3. Covers(s, q, {m})
  BY <1>1, <1>2, CoversSome
<1> QED
  BY <1>3 DEF q

LEMMA StringsCover ==
  ASSUME NEW s \in Structures, NEW width
  PROVE  Covers(s, Strings(s, width), {"nr_of_strings"} \union {})
<1> DEFINE q == << Item("nr_of_strings", s.bytes.nr_of_strings, {Nothing}, FALSE) >>
           h == [i \in 1 .. s.n |-> Item("string", {}, {StringOut(s, "string", width, i)},
                   TRUE)]
<1>1. s.n \in Nat
  BY StructureIs
<1>2. DOMAIN h = 1 .. s.n /\ h = [i \in 1 .. s.n |-> h[i]]
  OBVIOUS
<1>3. Covers(s, q, {"nr_of_strings"})
  BY ItemReads, Cover1
<1> HIDE DEF q, h
<1>4. Covers(s, h, {})
  BY <1>1, <1>2, CoversList
<1> QED
  BY <1>3, <1>4, CoversJoined, Zenon DEF Strings, q, h

LEMMA Type0Complete ==
  ASSUME NEW s \in Structures, s.type = 0
  PROVE  Covers(s, Type0(s), Within(s) \ Silent(s))
<1>1. Covers(s, << Text(s, "vendor"), Text(s, "version"), Plain(s, "startaddr", 4),
                  Text(s, "reldate"), Plain(s, "romsize", Digits(2) + UnitWidth) >>,
               {"vendor", "version", "startaddr", "reldate", "romsize"})
  <2>1. Reads(s, Text(s, "vendor"), "vendor")
    BY TextReads
  <2>2. Reads(s, Text(s, "version"), "version")
    BY TextReads
  <2>3. Reads(s, Plain(s, "startaddr", 4), "startaddr")
    BY PlainReads
  <2>4. Reads(s, Text(s, "reldate"), "reldate")
    BY TextReads
  <2>5. Reads(s, Plain(s, "romsize", Digits(2) + UnitWidth), "romsize")
    BY PlainReads
  <2> QED
    BY <2>1, <2>2, <2>3, <2>4, <2>5, Cover5, Zenon
<1>2. Covers(s, BiosCharacteristics(s), {"characteristics"})
  BY BitsCover DEF BiosCharacteristics
<1>3. Covers(s, BiosExtensions(s), (IF s.length > \h12 THEN {"ext1"} ELSE {})
               \union (IF s.length > \h13 THEN {"ext2"} ELSE {}))
  <2>1. Covers(s, <<BitLines("ext1", s.bytes.ext1, 8, Words0.ext1)>>, {"ext1"})
    BY BitLinesReads, Cover1, Zenon
  <2>2. Covers(s, <<BitLines("ext2", s.bytes.ext2, 2, Words0.ext2)>>, {"ext2"})
    BY BitLinesReads, Cover1, Zenon
  <2>3. Covers(s, IF s.length > \h12
          THEN <<BitLines("ext1", s.bytes.ext1, 8, Words0.ext1)>> ELSE <<>>,
                IF s.length > \h12 THEN {"ext1"} ELSE {})
    BY <2>1, CoversNone, Zenon
  <2>4. Covers(s, IF s.length > \h13
          THEN <<BitLines("ext2", s.bytes.ext2, 2, Words0.ext2)>> ELSE <<>>,
                IF s.length > \h13 THEN {"ext2"} ELSE {})
    BY <2>2, CoversNone, Zenon
  <2> QED
    BY <2>3, <2>4, CoversJoined, Zenon DEF BiosExtensions
<1> DEFINE N == {"vendor", "version", "startaddr", "reldate", "romsize"}
                  \union {"characteristics"}
                  \union ((IF s.length > \h12
                          THEN {"ext1"} ELSE {}) \union (IF s.length > \h13
                          THEN {"ext2"} ELSE {}))
<1>4. Covers(s, Type0(s), N)
  BY <1>1, <1>2, <1>3, CoversJoined, Zenon DEF Type0
<1>5. 18 \in s.bytes.ext1
  BY Type0Is, Bytes0
<1>6. \A m \in {"ext1"} : m \in Within(s) => s.length > \h12
  <2>1. "ext1" \in Within(s) => 18 < s.length
    BY <1>5, Inside
  <2>l. s.length \in Nat
    BY LengthSound
  <2> QED
    BY <2>1, <2>l
<1>7. 19 \in s.bytes.ext2
  BY Type0Is, Bytes0
<1>8. \A m \in {"ext2"} : m \in Within(s) => s.length > \h13
  <2>1. "ext2" \in Within(s) => 19 < s.length
    BY <1>7, Inside
  <2>l. s.length \in Nat
    BY LengthSound
  <2> QED
    BY <2>1, <2>l
<1>9. Within(s) \subseteq DOMAIN s.bytes
  BY DEF Within
<1>10. Within(s) \ Silent(s) \subseteq N
  BY <1>6, <1>8, <1>9, Type0Is, Bytes0
<1> HIDE DEF N
<1> QED
  BY <1>4, <1>10, CoversFewer

LEMMA Type1Complete ==
  ASSUME NEW s \in Structures, s.type = 1
  PROVE  Covers(s, Type1(s), Within(s) \ Silent(s))
<1>1. Covers(s, << Text(s, "manufacturer"), Text(s, "productname"), Text(s, "version"),
                  Text(s, "serialnumber") >>,
               {"manufacturer", "productname", "version", "serialnumber"})
  BY TextReads, Cover4, Zenon
<1>2. Covers(s, IF s.length > \h08
        THEN << Plain(s, "uuid", 48), Enum(s, "wakeuptype", Byte, 0 .. 8,
        Words1.wakeuptype) >> ELSE <<>>,
               IF s.length > \h08 THEN {"uuid", "wakeuptype"} ELSE {})
  <2>1. Covers(s, << Plain(s, "uuid", 48), Enum(s, "wakeuptype", Byte, 0 .. 8,
          Words1.wakeuptype) >>,
                  {"uuid", "wakeuptype"})
    BY PlainReads, EnumReads, Cover2, Zenon
  <2> QED
    BY <2>1, CoversNone, Zenon
<1> DEFINE N == {"manufacturer", "productname", "version", "serialnumber"}
                  \union (IF s.length > \h08 THEN {"uuid", "wakeuptype"} ELSE {})
<1>3. Covers(s, Type1(s), N)
  BY <1>1, <1>2, CoversJoined, Zenon DEF Type1
<1>4. 23 \in s.bytes.uuid /\ 24 \in s.bytes.wakeuptype
  BY Type1Is, Bytes1
<1>5. \A m \in {"uuid", "wakeuptype"} : m \in Within(s) => s.length > \h08
  <2>1. "uuid" \in Within(s) => 23 < s.length
    BY <1>4, Inside
  <2>2. "wakeuptype" \in Within(s) => 24 < s.length
    BY <1>4, Inside
  <2>l. s.length \in Nat
    BY LengthSound
  <2> QED
    BY <2>1, <2>2, <2>l
<1>6. Within(s) \subseteq DOMAIN s.bytes
  BY DEF Within
<1>7. Within(s) \ Silent(s) \subseteq N
  BY <1>5, <1>6, Type1Is, Bytes1
<1> HIDE DEF N
<1> QED
  BY <1>3, <1>7, CoversFewer

LEMMA Type2Complete ==
  ASSUME NEW s \in Structures, s.type = 2
  PROVE  Covers(s, Type2(s), Within(s) \ Silent(s))
<1>1. Covers(s, << Text(s, "manufacturer"), Text(s, "product"), Text(s, "version"),
                  Text(s, "serialnumber") >>,
               {"manufacturer", "product", "version", "serialnumber"})
  BY TextReads, Cover4, Zenon
<1> DEFINE N == {"manufacturer", "product", "version", "serialnumber"}
<1>2. Covers(s, Type2(s), N)
  BY <1>1, Zenon DEF Type2
<1>3. Within(s) \subseteq DOMAIN s.bytes
  BY DEF Within
<1>4. Within(s) \ Silent(s) \subseteq N
  BY <1>3, Type2Is, Bytes2
<1> HIDE DEF N
<1> QED
  BY <1>2, <1>4, CoversFewer

LEMMA Type3Complete ==
  ASSUME NEW s \in Structures, s.type = 3
  PROVE  Covers(s, Type3(s), Within(s) \ Silent(s))
<1>1. Covers(s, << Text(s, "manufacturer"), Text(s, "version"), Text(s, "serialnumber"),
                  Text(s, "asset_tag"), Plain(s, "type", Words3.lock),
                  Enum(s, "type", 0 .. 127, 1 .. 24, Words3.type) >>,
               {"manufacturer", "version", "serialnumber", "asset_tag", "type"})
  <2>a. {"manufacturer", "version", "serialnumber", "asset_tag", "type", "type"}
          = {"manufacturer", "version", "serialnumber", "asset_tag", "type"}
    OBVIOUS
  <2>1. Reads(s, Text(s, "manufacturer"), "manufacturer")
    BY TextReads
  <2>2. Reads(s, Text(s, "version"), "version")
    BY TextReads
  <2>3. Reads(s, Text(s, "serialnumber"), "serialnumber")
    BY TextReads
  <2>4. Reads(s, Text(s, "asset_tag"), "asset_tag")
    BY TextReads
  <2>5. Reads(s, Plain(s, "type", Words3.lock), "type")
    BY PlainReads
  <2>6. Reads(s, Enum(s, "type", 0 .. 127, 1 .. 24, Words3.type), "type")
    BY EnumReads
  <2>b. Covers(s, << Text(s, "manufacturer"), Text(s, "version"), Text(s, "serialnumber"),
                     Text(s, "asset_tag"), Plain(s, "type", Words3.lock),
                     Enum(s, "type", 0 .. 127, 1 .. 24, Words3.type) >>,
                  {"manufacturer", "version", "serialnumber", "asset_tag", "type", "type"})
    <3> DEFINE a == Text(s, "manufacturer")
               b == Text(s, "version")
               c == Text(s, "serialnumber")
               d == Text(s, "asset_tag")
               e == Plain(s, "type", Words3.lock)
               f == Enum(s, "type", 0 .. 127, 1 .. 24, Words3.type)
    <3>1. /\ Reads(s, a, "manufacturer") /\ Reads(s, b, "version")
          /\ Reads(s, c, "serialnumber") /\ Reads(s, d, "asset_tag")
          /\ Reads(s, e, "type") /\ Reads(s, f, "type")
      BY <2>1, <2>2, <2>3, <2>4, <2>5, <2>6
    <3> HIDE DEF a, b, c, d, e, f
    <3>2. Covers(s, << a, b, c, d, e, f >>,
                 {"manufacturer", "version", "serialnumber", "asset_tag", "type", "type"})
      BY <3>1, Cover6, Zenon
    <3> QED
      BY <3>2, Zenon DEF a, b, c, d, e, f
  <2> QED
    BY <2>a, <2>b
<1>2. Covers(s, IF s.length > \h09 THEN EnclosureStates(s) ELSE <<>>,
               IF s.length > \h09
                       THEN {"bootup_state", "pwr_supply_state", "thermal_state",
                       "security_state"} ELSE {})
  <2>1. Covers(s, EnclosureStates(s),
                  {"bootup_state", "pwr_supply_state", "thermal_state", "security_state"})
    BY EnumReads, Cover4, Zenon DEF EnclosureStates
  <2> QED
    BY <2>1, CoversNone, Zenon
<1>3. Covers(s, IF s.length > \h0D THEN << Plain(s, "oem_defined", 10) >> ELSE <<>>,
               IF s.length > \h0D THEN {"oem_defined"} ELSE {})
  <2>1. Covers(s, << Plain(s, "oem_defined", 10) >>, {"oem_defined"})
    BY PlainReads, Cover1, Zenon
  <2> QED
    BY <2>1, CoversNone, Zenon
<1> DEFINE q1 ==
        << Text(s, "manufacturer"), Text(s, "version"), Text(s, "serialnumber"), Text(s,
        "asset_tag"), Plain(s, "type", Words3.lock), Enum(s, "type", 0 .. 127, 1 .. 24,
        Words3.type) >>
           q2 == IF s.length > \h09 THEN EnclosureStates(s) ELSE <<>>
           q3 == IF s.length > \h0D THEN << Plain(s, "oem_defined", 10) >> ELSE <<>>
           N1 == {"manufacturer", "version", "serialnumber", "asset_tag", "type"}
           N2 == (IF s.length > \h09
                   THEN {"bootup_state", "pwr_supply_state", "thermal_state",
                   "security_state"} ELSE {})
           N3 == (IF s.length > \h0D THEN {"oem_defined"} ELSE {})
           N == N1 \union N2 \union N3
<1>4. Covers(s, Type3(s), N)
  <2>1. Covers(s, q1, N1) /\ Covers(s, q2, N2) /\ Covers(s, q3, N3)
    BY <1>1, <1>2, <1>3
  <2>2. Type3(s) = q1 \o q2 \o q3
    BY Zenon DEF Type3
  <2> HIDE DEF q1, q2, q3, N1, N2, N3
  <2>3. Covers(s, q1 \o q2 \o q3, N)
    BY <2>1, CoversJoined, Zenon
  <2> QED
    BY <2>2, <2>3
<1>5. 9 \in s.bytes.bootup_state /\ 10 \in s.bytes.pwr_supply_state
        /\ 11 \in s.bytes.thermal_state /\ 12 \in s.bytes.security_state
  BY Type3Is, Bytes3
<1>6. \A m \in {"bootup_state", "pwr_supply_state", "thermal_state",
        "security_state"} : m \in Within(s) => s.length > \h09
  <2>1. "bootup_state" \in Within(s) => 9 < s.length
    BY <1>5, Inside
  <2>2. "pwr_supply_state" \in Within(s) => 10 < s.length
    BY <1>5, Inside
  <2>3. "thermal_state" \in Within(s) => 11 < s.length
    BY <1>5, Inside
  <2>4. "security_state" \in Within(s) => 12 < s.length
    BY <1>5, Inside
  <2>l. s.length \in Nat
    BY LengthSound
  <2> QED
    BY <2>1, <2>2, <2>3, <2>4, <2>l
<1>7. 16 \in s.bytes.oem_defined
  BY Type3Is, Bytes3
<1>8. \A m \in {"oem_defined"} : m \in Within(s) => s.length > \h0D
  <2>1. "oem_defined" \in Within(s) => 16 < s.length
    BY <1>7, Inside
  <2>l. s.length \in Nat
    BY LengthSound
  <2> QED
    BY <2>1, <2>l
<1>9. Within(s) \subseteq DOMAIN s.bytes
  BY DEF Within
<1>10. Within(s) \ Silent(s) \subseteq N
  BY <1>6, <1>8, <1>9, Type3Is, Bytes3
<1> HIDE DEF N
<1> QED
  BY <1>4, <1>10, CoversFewer

LEMMA Type4Complete ==
  ASSUME NEW s \in Structures, s.type = 4
  PROVE  Covers(s, Type4(s), Within(s) \ Silent(s))
<1>1. Covers(s, << Text(s, "socket_designation"), Enum(s, "type", Byte, 1 .. 6, Words4.type),
                  Enum(s, "family", Byte, ProcessorFamilies, Words4Family),
                  Text(s, "manufacturer"), Plain(s, "id", 24), Text(s, "version") >>,
               {"socket_designation", "type", "family", "manufacturer", "id", "version"})
  <2>1. Reads(s, Text(s, "socket_designation"), "socket_designation")
    BY TextReads
  <2>2. Reads(s, Enum(s, "type", Byte, 1 .. 6, Words4.type), "type")
    BY EnumReads
  <2>3. Reads(s, Enum(s, "family", Byte, ProcessorFamilies, Words4Family), "family")
    BY EnumReads
  <2>4. Reads(s, Text(s, "manufacturer"), "manufacturer")
    BY TextReads
  <2>5. Reads(s, Plain(s, "id", 24), "id")
    BY PlainReads
  <2>6. Reads(s, Text(s, "version"), "version")
    BY TextReads
  <2> QED
    BY <2>1, <2>2, <2>3, <2>4, <2>5, <2>6, Cover6, Zenon
<1>2. Covers(s, ProcessorVoltage(s), {"voltage"})
  <2>1. Reads(s, Item("voltage", s.bytes.voltage, CurrentVoltage
          \union Voltages, TRUE), "voltage")
    BY ItemReads
  <2> QED
    BY <2>1, Cover1, Zenon DEF ProcessorVoltage
<1>3. Covers(s, ProcessorSpeeds(s), {"external_clock", "max_speed", "current_speed"})
  BY OptionalReads, Cover3, Zenon DEF ProcessorSpeeds
<1>4. Covers(s, << Enum(s, "status", 0 .. 7, (0 .. 4) \union {7}, Words4.status),
                  Plain(s, "status", Words4.socket),
                  Enum(s, "upgrade", Byte, 1 .. 15, Words4.upgrade) >>,
               {"status", "upgrade"})
  <2>a. {"status", "status", "upgrade"}
          = {"status", "upgrade"}
    OBVIOUS
  <2>1. Reads(s, Enum(s, "status", 0 .. 7, (0 .. 4) \union {7}, Words4.status), "status")
    BY EnumReads
  <2>2. Reads(s, Plain(s, "status", Words4.socket), "status")
    BY PlainReads
  <2>3. Reads(s, Enum(s, "upgrade", Byte, 1 .. 15, Words4.upgrade), "upgrade")
    BY EnumReads
  <2>b. Covers(s, << Enum(s, "status", 0 .. 7, (0 .. 4) \union {7}, Words4.status),
                     Plain(s, "status", Words4.socket),
                     Enum(s, "upgrade", Byte, 1 .. 15, Words4.upgrade) >>,
                  {"status", "status", "upgrade"})
    BY <2>1, <2>2, <2>3, Cover3, Zenon
  <2> QED
    BY <2>a, <2>b
<1>5. Covers(s, ProcessorCaches(s),
               IF s.length > \h1A
                       THEN {"l1_cache_handle", "l2_cache_handle", "l3_cache_handle"} ELSE {})
  <2>1. Covers(s, << Optional(s, "l1_cache_handle", Digits(2)),
                     Optional(s, "l2_cache_handle", Digits(2)),
                     Optional(s, "l3_cache_handle", Digits(2)) >>,
                  {"l1_cache_handle", "l2_cache_handle", "l3_cache_handle"})
    BY OptionalReads, Cover3, Zenon
  <2> QED
    BY <2>1, CoversNone, Zenon DEF ProcessorCaches
<1>6. Covers(s, ProcessorTexts(s),
               IF s.length > \h20 THEN {"serialnumber", "asset_tag", "part_number"} ELSE {})
  <2>1. Covers(s, << Text(s, "serialnumber"), Text(s, "asset_tag"), Text(s, "part_number") >>,
                  {"serialnumber", "asset_tag", "part_number"})
    BY TextReads, Cover3, Zenon
  <2> QED
    BY <2>1, CoversNone, Zenon DEF ProcessorTexts
<1> DEFINE N == {"socket_designation", "type", "family", "manufacturer", "id", "version"}
                  \union {"voltage"}
                  \union {"external_clock", "max_speed", "current_speed"}
                  \union {"status", "upgrade"}
                  \union (IF s.length > \h1A
                          THEN {"l1_cache_handle", "l2_cache_handle", "l3_cache_handle"}
                          ELSE {})
                  \union (IF s.length > \h20
                          THEN {"serialnumber", "asset_tag", "part_number"} ELSE {})
<1>7. Covers(s, Type4(s), N)
  <2> DEFINE first  ==
          << Text(s, "socket_designation"), Enum(s, "type", Byte, 1 .. 6, Words4.type),
                          Enum(s, "family", Byte, ProcessorFamilies, Words4Family),
                          Text(s, "manufacturer"), Plain(s, "id", 24), Text(s, "version") >>
             second == << Enum(s, "status", 0 .. 7, (0 .. 4) \union {7}, Words4.status),
                          Plain(s, "status", Words4.socket),
                          Enum(s, "upgrade", Byte, 1 .. 15, Words4.upgrade) >>
             A == {"socket_designation", "type", "family", "manufacturer", "id", "version"}
             B == {"external_clock", "max_speed", "current_speed"}
             C == {"status", "upgrade"}
             D == IF s.length > \h1A
                  THEN {"l1_cache_handle", "l2_cache_handle", "l3_cache_handle"} ELSE {}
             E == IF s.length > \h20 THEN {"serialnumber", "asset_tag", "part_number"} ELSE {}
  <2>1. Covers(s, first, A) /\ Covers(s, ProcessorSpeeds(s), B) /\ Covers(s, second, C)
        /\ Covers(s, ProcessorCaches(s), D) /\ Covers(s, ProcessorTexts(s), E)
    BY <1>1, <1>3, <1>4, <1>5, <1>6
  <2>2. /\ Type4(s) = first \o ProcessorVoltage(s) \o ProcessorSpeeds(s) \o second
                      \o ProcessorCaches(s) \o ProcessorTexts(s)
        /\ N = A \union {"voltage"} \union B \union C \union D \union E
    BY Zenon DEF Type4
  <2> HIDE DEF first, second, A, B, C, D, E, N
  <2>3. Covers(s, first \o ProcessorVoltage(s), A \union {"voltage"})
    BY <1>2, <2>1, CoversJoined
  <2>4. Covers(s, first \o ProcessorVoltage(s)
          \o ProcessorSpeeds(s), A \union {"voltage"} \union B)
    BY <2>1, <2>3, CoversJoined
  <2>5. Covers(s, first \o ProcessorVoltage(s) \o ProcessorSpeeds(s) \o second,
               A \union {"voltage"} \union B \union C)
    BY <2>1, <2>4, CoversJoined
  <2>6. Covers(s, first \o ProcessorVoltage(s) \o ProcessorSpeeds(s) \o second
          \o ProcessorCaches(s),
               A \union {"voltage"} \union B \union C \union D)
    BY <2>1, <2>5, CoversJoined
  <2>7. Covers(s, first \o ProcessorVoltage(s) \o ProcessorSpeeds(s) \o second
                  \o ProcessorCaches(s) \o ProcessorTexts(s),
               A \union {"voltage"} \union B \union C \union D \union E)
    BY <2>1, <2>6, CoversJoined
  <2> QED
    BY <2>2, <2>7
<1>8. 27 \in s.bytes.l1_cache_handle /\ 29 \in s.bytes.l2_cache_handle
        /\ 31 \in s.bytes.l3_cache_handle
  BY Type4Is, Bytes4
<1>9. \A m \in {"l1_cache_handle", "l2_cache_handle",
        "l3_cache_handle"} : m \in Within(s) => s.length > \h1A
  <2>1. "l1_cache_handle" \in Within(s) => 27 < s.length
    BY <1>8, Inside
  <2>2. "l2_cache_handle" \in Within(s) => 29 < s.length
    BY <1>8, Inside
  <2>3. "l3_cache_handle" \in Within(s) => 31 < s.length
    BY <1>8, Inside
  <2>l. s.length \in Nat
    BY LengthSound
  <2> QED
    BY <2>1, <2>2, <2>3, <2>l
<1>10. 32 \in s.bytes.serialnumber /\ 33 \in s.bytes.asset_tag /\ 34 \in s.bytes.part_number
  BY Type4Is, Bytes4
<1>11. \A m \in {"serialnumber", "asset_tag",
        "part_number"} : m \in Within(s) => s.length > \h20
  <2>1. "serialnumber" \in Within(s) => 32 < s.length
    BY <1>10, Inside
  <2>2. "asset_tag" \in Within(s) => 33 < s.length
    BY <1>10, Inside
  <2>3. "part_number" \in Within(s) => 34 < s.length
    BY <1>10, Inside
  <2>l. s.length \in Nat
    BY LengthSound
  <2> QED
    BY <2>1, <2>2, <2>3, <2>l
<1>12. Within(s) \subseteq DOMAIN s.bytes
  BY DEF Within
<1>13. Within(s) \ Silent(s) \subseteq N
  BY <1>9, <1>11, <1>12, Type4Is, Bytes4
<1> HIDE DEF N
<1> QED
  BY <1>7, <1>13, CoversFewer

LEMMA Type5Complete ==
  ASSUME NEW s \in Structures, s.type = 5
  PROVE  Covers(s, Type5(s), Within(s) \ Silent(s))
<1>1. Covers(s, << Enum(s, "error_detection", Byte, 1 .. 8, Words5.detection) >>,
               {"error_detection"})
  BY EnumReads, Cover1, Zenon
<1>2. Covers(s, Bits(s, "ecc", 6, Words5.ecc), {"ecc"})
  BY BitsCover
<1>3. Covers(s, << Enum(s, "supported_interleave", Byte, 1 .. 7, Words5.interleave),
                  Enum(s, "current_interleave", Byte, 1 .. 7, Words5.interleave),
                  Plain(s, "max_mem_module_size", pow2 + UnitWidth) >>,
               {"supported_interleave", "current_interleave", "max_mem_module_size"})
  BY EnumReads, PlainReads, Cover3, Zenon
<1>4. Covers(s, ControllerSpeeds(s), {"supported_speeds"})
  BY BitsCover DEF ControllerSpeeds
<1>5. Covers(s, ControllerTypes(s), {"supported_types"} \union {"voltage"})
  <2>1. Covers(s, Bits(s, "supported_types", 11, Words5.types), {"supported_types"})
    BY BitsCover
  <2>2. Covers(s, Bits(s, "voltage", 3, Words5.voltage), {"voltage"})
    BY BitsCover
  <2> QED
    BY <2>1, <2>2, CoversJoined, Zenon DEF ControllerTypes
<1>6. Covers(s, SlotHandles(s), {"nr_assoc_slots"} \union {})
  <2> DEFINE q == << Plain(s, "nr_assoc_slots", Digits(1) + 7), Label("handles") >>
             h == [i \in 1 .. s.n |->
                     Item("handles", {\h0F + 2 * (i - 1)}, {Out(1, SubLine(7 + Digits(1)))},
                             TRUE)]
             x == Plain(s, "nr_assoc_slots", Digits(1) + 7)
             y == Label("handles")
  <2>1. s.n \in Nat /\ s.bytes.nr_assoc_slots \subseteq x.bytes
    BY StructureIs, PlainReads DEF Reads
  <2>2. DOMAIN h = 1 .. s.n /\ h = [i \in 1 .. s.n |-> h[i]]
    OBVIOUS
  <2> HIDE DEF h, x, y
  <2>3. q \in Seq({x, y}) /\ 1 \in 1 .. Len(q) /\ q[1] = x
    BY DEF x, y
  <2> HIDE DEF q
  <2>4. Covers(s, h, {})
    BY <2>1, <2>2, CoversList
  <2>5. Covers(s, q, {"nr_assoc_slots"})
    BY <2>1, <2>3, CoversSome
  <2> QED
    BY <2>4, <2>5, CoversJoined, Zenon DEF SlotHandles, q, h
<1>7. Covers(s, EnabledEcc(s), {})
  <2> DEFINE q == << Label("enabled_ecc"),
                     BitLines("enabled_ecc", {2 * s.n + \h0F}, 6, Words5.ecc) >>
  <2>1. q \in Seq({q[1], q[2]})
    OBVIOUS
  <2> HIDE DEF q
  <2>2. Covers(s, q, {})
    BY <2>1, CoversSome
  <2> QED
    BY <2>2, CoversNone, Zenon DEF EnabledEcc, q
<1> DEFINE q1 == << Enum(s, "error_detection", Byte, 1 .. 8, Words5.detection) >>
           q2 == Bits(s, "ecc", 6, Words5.ecc)
           q3 == << Enum(s, "supported_interleave", Byte, 1 .. 7, Words5.interleave), Enum(s,
                   "current_interleave", Byte, 1 .. 7, Words5.interleave), Plain(s,
                   "max_mem_module_size", pow2 + UnitWidth) >>
           q4 == ControllerSpeeds(s)
           q5 == ControllerTypes(s)
           q6 == SlotHandles(s)
           q7 == EnabledEcc(s)
           N1 == {"error_detection"}
           N2 == {"ecc"}
           N3 == {"supported_interleave", "current_interleave", "max_mem_module_size"}
           N4 == {"supported_speeds"}
           N5 == {"supported_types"} \union {"voltage"}
           N6 == ({"nr_assoc_slots"} \union {})
           N7 == {}
           N == N1 \union N2 \union N3 \union N4 \union N5 \union N6 \union N7
<1>8. Covers(s, Type5(s), N)
  <2>1. Covers(s, q1, N1) /\ Covers(s, q2, N2) /\ Covers(s, q3, N3) /\ Covers(s, q4, N4)
          /\ Covers(s, q5, N5) /\ Covers(s, q6, N6) /\ Covers(s, q7, N7)
    BY <1>1, <1>2, <1>3, <1>4, <1>5, <1>6, <1>7
  <2>2. Type5(s) = q1 \o q2 \o q3 \o q4 \o q5 \o q6 \o q7
    BY Zenon DEF Type5
  <2> HIDE DEF q1, q2, q3, q4, q5, q6, q7, N1, N2, N3, N4, N5, N6, N7
  <2>3. Covers(s, q1 \o q2 \o q3 \o q4 \o q5 \o q6 \o q7, N)
    BY <2>1, CoversJoined, Zenon
  <2> QED
    BY <2>2, <2>3
<1>9. Within(s) \subseteq DOMAIN s.bytes
  BY DEF Within
<1>10. Within(s) \ Silent(s) \subseteq N
  BY <1>9, Type5Is, Bytes5
<1> HIDE DEF N
<1> QED
  BY <1>8, <1>10, CoversFewer

LEMMA Type6Complete ==
  ASSUME NEW s \in Structures, s.type = 6
  PROVE  Covers(s, Type6(s), Within(s) \ Silent(s))
<1>1. Covers(s, << Text(s, "designation"), Plain(s, "connection", 7),
                  Optional(s, "current_speed", Digits(1) + UnitWidth) >>,
               {"designation", "connection", "current_speed"})
  BY TextReads, PlainReads, OptionalReads, Cover3, Zenon
<1>2. Covers(s, Bits(s, "current_type", 11, Words6.types), {"current_type"})
  BY BitsCover
<1>3. Covers(s, BankSize(s, "installed_size"), {"installed_size"})
  BY BankCover
<1>4. Covers(s, BankSize(s, "enabled_size"), {"enabled_size"})
  BY BankCover
<1>5. Covers(s, Bits(s, "status", 3, Words6.status), {"status"})
  BY BitsCover
<1> DEFINE N == {"designation", "connection", "current_speed"}
                  \union {"current_type"}
                  \union {"installed_size"}
                  \union {"enabled_size"}
                  \union {"status"}
<1>6. Covers(s, Type6(s), N)
  BY <1>1, <1>2, <1>3, <1>4, <1>5, CoversJoined, Zenon DEF Type6
<1>7. Within(s) \subseteq DOMAIN s.bytes
  BY DEF Within
<1>8. Within(s) \ Silent(s) \subseteq N
  BY <1>7, Type6Is, Bytes6
<1> HIDE DEF N
<1> QED
  BY <1>6, <1>8, CoversFewer

LEMMA Type7Complete ==
  ASSUME NEW s \in Structures, s.type = 7
  PROVE  Covers(s, Type7(s), Within(s) \ Silent(s))
<1>1. Covers(s, << Text(s, "designation") >>, {"designation"})
  BY TextReads, Cover1, Zenon
<1>2. Covers(s, CacheConfiguration(s), {"configuration"})
  <2>1. {"configuration", "configuration", "configuration", "configuration", "configuration"}
          = {"configuration"}
    OBVIOUS
  <2>2. Covers(s, CacheConfiguration(s),
               {"configuration", "configuration", "configuration", "configuration",
                "configuration"})
    BY EnumReads, PlainReads, Cover5, Zenon DEF CacheConfiguration
  <2> QED
    BY <2>1, <2>2
<1>3. Covers(s, << Plain(s, "max_size", 7 + UnitWidth),
                  Plain(s, "installed_size", 7 + UnitWidth) >>,
               {"max_size", "installed_size"})
  BY PlainReads, Cover2, Zenon
<1>4. Covers(s, Bits(s, "supported_sram", 7, Words7.sram), {"supported_sram"})
  BY BitsCover
<1>5. Covers(s, Bits(s, "current_sram", 7, Words7.sram), {"current_sram"})
  BY BitsCover
<1>6. Covers(s, CacheKind(s),
               IF s.length > \h0F
                       THEN {"speed", "ecc_type", "cache_type", "associativity"} ELSE {})
  <2>1. Covers(s, << Optional(s, "speed", Digits(1) + UnitWidth),
                     Enum(s, "ecc_type", Byte, 1 .. 6, Words7.ecc),
                     Enum(s, "cache_type", Byte, 1 .. 5, Words7.type),
                     Enum(s, "associativity", Byte, 1 .. 8, Words7.associativity) >>,
                  {"speed", "ecc_type", "cache_type", "associativity"})
    BY OptionalReads, EnumReads, Cover4, Zenon
  <2> QED
    BY <2>1, CoversNone, Zenon DEF CacheKind
<1> DEFINE N == {"designation"}
                  \union {"configuration"}
                  \union {"max_size", "installed_size"}
                  \union {"supported_sram"}
                  \union {"current_sram"}
                  \union (IF s.length > \h0F
                          THEN {"speed", "ecc_type", "cache_type", "associativity"} ELSE {})
<1>7. Covers(s, Type7(s), N)
  BY <1>1, <1>2, <1>3, <1>4, <1>5, <1>6, CoversJoined, Zenon DEF Type7
<1>8. 15 \in s.bytes.speed /\ 16 \in s.bytes.ecc_type /\ 17 \in s.bytes.cache_type
        /\ 18 \in s.bytes.associativity
  BY Type7Is, Bytes7
<1>9. \A m \in {"speed", "ecc_type", "cache_type",
        "associativity"} : m \in Within(s) => s.length > \h0F
  <2>1. "speed" \in Within(s) => 15 < s.length
    BY <1>8, Inside
  <2>2. "ecc_type" \in Within(s) => 16 < s.length
    BY <1>8, Inside
  <2>3. "cache_type" \in Within(s) => 17 < s.length
    BY <1>8, Inside
  <2>4. "associativity" \in Within(s) => 18 < s.length
    BY <1>8, Inside
  <2>l. s.length \in Nat
    BY LengthSound
  <2> QED
    BY <2>1, <2>2, <2>3, <2>4, <2>l
<1>10. Within(s) \subseteq DOMAIN s.bytes
  BY DEF Within
<1>11. Within(s) \ Silent(s) \subseteq N
  BY <1>9, <1>10, Type7Is, Bytes7
<1> HIDE DEF N
<1> QED
  BY <1>7, <1>11, CoversFewer

LEMMA Type8Complete ==
  ASSUME NEW s \in Structures, s.type = 8
  PROVE  Covers(s, Type8(s), Within(s) \ Silent(s))
<1>1. Covers(s, << Text(s, "internal_designation"),
                  Enum(s, "internal_type", Byte, Connectors, Words8Connector),
                  Text(s, "external_designation"),
                  Enum(s, "external_type", Byte, Connectors, Words8Connector),
                  Enum(s, "type", Byte, PortTypes, Words8Port) >>,
               {"internal_designation", "internal_type", "external_designation",
                       "external_type", "type"})
  <2>1. Reads(s, Text(s, "internal_designation"), "internal_designation")
    BY TextReads
  <2>2. Reads(s, Enum(s, "internal_type", Byte, Connectors, Words8Connector), "internal_type")
    BY EnumReads
  <2>3. Reads(s, Text(s, "external_designation"), "external_designation")
    BY TextReads
  <2>4. Reads(s, Enum(s, "external_type", Byte, Connectors, Words8Connector), "external_type")
    BY EnumReads
  <2>5. Reads(s, Enum(s, "type", Byte, PortTypes, Words8Port), "type")
    BY EnumReads
  <2> QED
    BY <2>1, <2>2, <2>3, <2>4, <2>5, Cover5, Zenon
<1> DEFINE N ==
        {"internal_designation", "internal_type", "external_designation", "external_type",
        "type"}
<1>2. Covers(s, Type8(s), N)
  BY <1>1, Zenon DEF Type8
<1>3. Within(s) \subseteq DOMAIN s.bytes
  BY DEF Within
<1>4. Within(s) \ Silent(s) \subseteq N
  BY <1>3, Type8Is, Bytes8
<1> HIDE DEF N
<1> QED
  BY <1>2, <1>4, CoversFewer

LEMMA Type9Complete ==
  ASSUME NEW s \in Structures, s.type = 9
  PROVE  Covers(s, Type9(s), Within(s) \ Silent(s))
<1>1. Covers(s, << Text(s, "designation"),
                  Enum(s, "type", {s.n}, (1 .. 18) \union (160 .. 164), Words9.type),
                  Enum(s, "width", Byte, 1 .. 7, Words9.width),
                  Enum(s, "usage", Byte, 1 .. 4, Words9.usage),
                  Enum(s, "length", Byte, 1 .. 4, Words9.length) >>,
               {"designation", "type", "width", "usage", "length"})
  <2>1. Reads(s, Text(s, "designation"), "designation")
    BY TextReads
  <2>2. Reads(s, Enum(s, "type", {s.n}, (1 .. 18) \union (160 .. 164), Words9.type), "type")
    BY EnumReads
  <2>3. Reads(s, Enum(s, "width", Byte, 1 .. 7, Words9.width), "width")
    BY EnumReads
  <2>4. Reads(s, Enum(s, "usage", Byte, 1 .. 4, Words9.usage), "usage")
    BY EnumReads
  <2>5. Reads(s, Enum(s, "length", Byte, 1 .. 4, Words9.length), "length")
    BY EnumReads
  <2> QED
    BY <2>1, <2>2, <2>3, <2>4, <2>5, Cover5
<1>2. Covers(s, SlotNumber(s), (IF s.n \in Numbered THEN {"id1"} ELSE {})
                                 \union (IF s.n \in Socketed THEN {"id2"} ELSE {}))
  <2> DEFINE x == Optional(s, "id1", Digits(1))
             y == Plain(s, "id1", Digits(1))
             z == Plain(s, "id2", Digits(1))
             one == IF s.n \notin Numbered THEN <<>>
                    ELSE IF s.n \in {4, 5} THEN <<x>> ELSE <<y>>
             two == IF s.n \in Socketed THEN <<z>> ELSE <<>>
  <2>1. Reads(s, x, "id1") /\ Reads(s, y, "id1") /\ Reads(s, z, "id2")
    BY OptionalReads, PlainReads
  <2>2. SlotNumber(s) = one \o two
    BY Zenon DEF SlotNumber
  <2> HIDE DEF x, y, z
  <2>3. Covers(s, <<x>>, {"id1"}) /\ Covers(s, <<y>>, {"id1"}) /\ Covers(s, <<z>>, {"id2"})
    BY <2>1, Cover1, Zenon
  <2>4. Covers(s, one, IF s.n \in Numbered THEN {"id1"} ELSE {})
    BY <2>3, CoversNone, Zenon
  <2>5. Covers(s, two, IF s.n \in Socketed THEN {"id2"} ELSE {})
    BY <2>3, CoversNone, Zenon
  <2> DEFINE M == IF s.n \in Numbered THEN {"id1"} ELSE {}
             N == IF s.n \in Socketed THEN {"id2"} ELSE {}
  <2>6. Covers(s, one, M) /\ Covers(s, two, N)
    BY <2>4, <2>5
  <2> HIDE DEF one, two, M, N
  <2>7. Covers(s, one \o two, M \union N)
    BY <2>6, CoversJoined
  <2> QED
    BY <2>2, <2>7 DEF M, N
<1>3. Covers(s, SlotCharacteristics(s), {"characteristics1"} \union (IF s.length > \h0C
        THEN {"characteristics2"} ELSE {}))
  <2> DEFINE later == <<BitLines("characteristics2", s.bytes.characteristics2, 3,
                                  Words9.characteristics)>>
  <2>1. Covers(s, later, {"characteristics2"})
    BY BitLinesReads, Cover1, Zenon
  <2> HIDE DEF later
  <2>2. Covers(s, IF s.length > \h0C THEN later ELSE <<>>,
                IF s.length > \h0C THEN {"characteristics2"} ELSE {})
    BY <2>1, CoversNone, Zenon
  <2>3. Covers(s, Bits(s, "characteristics1", 8, Words9.characteristics), {"characteristics1"})
    BY BitsCover
  <2> QED
    BY <2>2, <2>3, CoversJoined, Zenon DEF SlotCharacteristics, later
<1> DEFINE q1 == << Text(s, "designation"), Enum(s, "type", {s.n}, (1 .. 18)
        \union (160 .. 164), Words9.type), Enum(s, "width", Byte, 1 .. 7, Words9.width),
        Enum(s, "usage", Byte, 1 .. 4, Words9.usage), Enum(s, "length", Byte, 1 .. 4,
        Words9.length) >>
           q2 == SlotNumber(s)
           q3 == SlotCharacteristics(s)
           N1 == {"designation", "type", "width", "usage", "length"}
           N2 == (IF s.n \in Numbered THEN {"id1"} ELSE {})
                   \union (IF s.n \in Socketed THEN {"id2"} ELSE {})
           N3 == ({"characteristics1"} \union (IF s.length > \h0C
                   THEN {"characteristics2"} ELSE {}))
           N == N1 \union N2 \union N3
<1>4. Covers(s, Type9(s), N)
  <2>1. Covers(s, q1, N1) /\ Covers(s, q2, N2) /\ Covers(s, q3, N3)
    BY <1>1, <1>2, <1>3
  <2>2. Type9(s) = q1 \o q2 \o q3
    BY Zenon DEF Type9
  <2> HIDE DEF q1, q2, q3, N1, N2, N3
  <2>3. Covers(s, q1 \o q2 \o q3, N)
    BY <2>1, CoversJoined, Zenon
  <2> QED
    BY <2>2, <2>3
<1>5. 12 \in s.bytes.characteristics2
  BY Type9Is, Bytes9
<1>6. \A m \in {"characteristics2"} : m \in Within(s) => s.length > \h0C
  <2>1. "characteristics2" \in Within(s) => 12 < s.length
    BY <1>5, Inside
  <2>l. s.length \in Nat
    BY LengthSound
  <2> QED
    BY <2>1, <2>l
<1>7. Within(s) \subseteq DOMAIN s.bytes
  BY DEF Within
<1>8. Within(s) \ Silent(s) \subseteq N
  BY <1>6, <1>7, Type9Is, Bytes9 DEF Silent
<1> HIDE DEF N
<1> QED
  BY <1>4, <1>8, CoversFewer

LEMMA Type11Complete ==
  ASSUME NEW s \in Structures, s.type = 11
  PROVE  Covers(s, Type11(s), Within(s) \ Silent(s))
<1>1. Covers(s, Strings(s, LabelWidth + 3), {"nr_of_strings"} \union {})
  BY StringsCover
<1> DEFINE N == ({"nr_of_strings"} \union {})
<1>2. Covers(s, Type11(s), N)
  BY <1>1, Zenon DEF Type11
<1>3. Within(s) \subseteq DOMAIN s.bytes
  BY DEF Within
<1>4. Within(s) \ Silent(s) \subseteq N
  BY <1>3, Type11Is, Bytes11
<1> HIDE DEF N
<1> QED
  BY <1>2, <1>4, CoversFewer

LEMMA Type12Complete ==
  ASSUME NEW s \in Structures, s.type = 12
  PROVE  Covers(s, Type12(s), Within(s) \ Silent(s))
<1>1. Covers(s, Strings(s, LabelWidth + 3), {"nr_of_strings"} \union {})
  BY StringsCover
<1> DEFINE N == ({"nr_of_strings"} \union {})
<1>2. Covers(s, Type12(s), N)
  BY <1>1, Zenon DEF Type12
<1>3. Within(s) \subseteq DOMAIN s.bytes
  BY DEF Within
<1>4. Within(s) \ Silent(s) \subseteq N
  BY <1>3, Type12Is, Bytes12
<1> HIDE DEF N
<1> QED
  BY <1>2, <1>4, CoversFewer

LEMMA Type13Complete ==
  ASSUME NEW s \in Structures, s.type = 13
  PROVE  Covers(s, Type13(s), Within(s) \ Silent(s))
<1>1. Covers(s, <<Label("string")>>, {})
  <2>1. <<Label("string")>> \in Seq({Label("string")})
    OBVIOUS
  <2> QED
    BY <2>1, CoversSome
<1>2. Covers(s, Strings(s, SubLine(0)), {"nr_of_strings"} \union {})
  BY StringsCover
<1>3. Covers(s, << Text(s, "current_language") >>, {"current_language"})
  BY TextReads, Cover1, Zenon
<1> DEFINE N == {}
                  \union ({"nr_of_strings"} \union {})
                  \union {"current_language"}
<1>4. Covers(s, Type13(s), N)
  BY <1>1, <1>2, <1>3, CoversJoined, Zenon DEF Type13
<1>5. Within(s) \subseteq DOMAIN s.bytes
  BY DEF Within
<1>6. Within(s) \ Silent(s) \subseteq N
  BY <1>5, Type13Is, Bytes13 DEF Silent
<1> HIDE DEF N
<1> QED
  BY <1>4, <1>6, CoversFewer

LEMMA Type16Complete ==
  ASSUME NEW s \in Structures, s.type = 16
  PROVE  Covers(s, Type16(s), Within(s) \ Silent(s))
<1>1. Covers(s, << Enum(s, "location", Byte, (1 .. 10) \union (160 .. 164), Words16.location),
                  Enum(s, "use", Byte, 1 .. 7, Words16.use),
                  Enum(s, "ecc", Byte, 1 .. 7, Words16.ecc),
                  Plain(s, "max_capacity", Digits(4) + UnitWidth),
                  ErrorHandle(s, Words16.error), Plain(s, "nr_of_devices", Digits(2)) >>,
               {"location", "use", "ecc", "max_capacity", "error_handle", "nr_of_devices"})
  <2>1. Reads(s, Enum(s, "location", Byte, (1 .. 10)
          \union (160 .. 164), Words16.location), "location")
    BY EnumReads
  <2>2. Reads(s, Enum(s, "use", Byte, 1 .. 7, Words16.use), "use")
    BY EnumReads
  <2>3. Reads(s, Enum(s, "ecc", Byte, 1 .. 7, Words16.ecc), "ecc")
    BY EnumReads
  <2>4. Reads(s, Plain(s, "max_capacity", Digits(4) + UnitWidth), "max_capacity")
    BY PlainReads
  <2>5. Reads(s, ErrorHandle(s, Words16.error), "error_handle")
    BY ErrorHandleReads
  <2>6. Reads(s, Plain(s, "nr_of_devices", Digits(2)), "nr_of_devices")
    BY PlainReads
  <2> QED
    BY <2>1, <2>2, <2>3, <2>4, <2>5, <2>6, Cover6
<1> DEFINE N == {"location", "use", "ecc", "max_capacity", "error_handle", "nr_of_devices"}
<1>2. Covers(s, Type16(s), N)
  BY <1>1, Zenon DEF Type16
<1>3. Within(s) \subseteq DOMAIN s.bytes
  BY DEF Within
<1>4. Within(s) \ Silent(s) \subseteq N
  BY <1>3, Type16Is, Bytes16
<1> HIDE DEF N
<1> QED
  BY <1>2, <1>4, CoversFewer

LEMMA Type17Complete ==
  ASSUME NEW s \in Structures, s.type = 17
  PROVE  Covers(s, Type17(s), Within(s) \ Silent(s))
<1>1. Covers(s, << Plain(s, "memory_array_handle", Digits(2)), ErrorHandle(s, Words17.error) >>,
               {"memory_array_handle", "error_handle"})
  BY PlainReads, ErrorHandleReads, Cover2, Zenon
<1>2. Covers(s, DeviceSize(s), {"total_width", "data_width", "size"})
  BY PlainReads, CasesReads, Cover3, Zenon DEF DeviceSize
<1>3. Covers(s, << Enum(s, "form_factor", Byte, 1 .. 14, Words17.form) >>, {"form_factor"})
  BY EnumReads, Cover1, Zenon
<1>4. Covers(s, DeviceSet(s), {"device_set"})
  <2> DEFINE values == Byte
             branches == << <<{0}, Words17.set>>, <<{\hFF}, Words17.unknown>>,
                            <<1 .. \hFE, Digits(1)>> >>
             x == Cases(s, "device_set", values, branches, TRUE)
  <2> HIDE DEF values, branches
  <2>1. Reads(s, x, "device_set")
    BY CasesReads
  <2>2. DeviceSet(s) = <<x>>
    BY Zenon DEF DeviceSet, values, branches
  <2> HIDE DEF x
  <2> QED
    BY <2>1, <2>2, Cover1
<1>5. Covers(s, << Text(s, "device_locator"), Text(s, "bank_locator"),
                  Enum(s, "mem_type", Byte, 1 .. 18, Words17.type) >>,
               {"device_locator", "bank_locator", "mem_type"})
  BY TextReads, EnumReads, Cover3, Zenon
<1>6. Covers(s, TypeDetail(s), {"type_detail"})
  BY BitsCover DEF TypeDetail
<1>7. Covers(s, DeviceTexts(s), (IF s.length > \h15 THEN {"speed"} ELSE {})
               \union (IF s.length > \h17
                       THEN {"manufacturer", "serial_number", "asset_tag", "part_number"}
                       ELSE {}))
  <2> DEFINE q == <<Optional(s, "speed", Digits(2) + UnitWidth)>>
             r == << Text(s, "manufacturer"), Text(s, "serial_number"), Text(s, "asset_tag"),
                     Text(s, "part_number") >>
  <2>1. Covers(s, q, {"speed"})
    BY OptionalReads, Cover1, Zenon
  <2>2. Covers(s, r, {"manufacturer", "serial_number", "asset_tag", "part_number"})
    BY TextReads, Cover4, Zenon
  <2> HIDE DEF q, r
  <2>3. Covers(s, IF s.length > \h15 THEN q ELSE <<>>,
                IF s.length > \h15 THEN {"speed"} ELSE {})
    BY <2>1, CoversNone, Zenon
  <2>4. Covers(s, IF s.length > \h17 THEN r ELSE <<>>,
                IF s.length > \h17
                        THEN {"manufacturer", "serial_number", "asset_tag", "part_number"}
                        ELSE {})
    BY <2>2, CoversNone, Zenon
  <2> QED
    BY <2>3, <2>4, CoversJoined, Zenon DEF DeviceTexts, q, r
<1> DEFINE N == {"memory_array_handle", "error_handle"}
                  \union {"total_width", "data_width", "size"}
                  \union {"form_factor"}
                  \union {"device_set"}
                  \union {"device_locator", "bank_locator", "mem_type"}
                  \union {"type_detail"}
                  \union ((IF s.length > \h15
                          THEN {"speed"} ELSE {}) \union (IF s.length > \h17
                          THEN {"manufacturer", "serial_number", "asset_tag", "part_number"}
                          ELSE {}))
<1>8. Covers(s, Type17(s), N)
  <2> DEFINE a ==
          << Plain(s, "memory_array_handle", Digits(2)), ErrorHandle(s, Words17.error) >>
             c == << Enum(s, "form_factor", Byte, 1 .. 14, Words17.form) >>
             e == << Text(s, "device_locator"), Text(s, "bank_locator"),
                     Enum(s, "mem_type", Byte, 1 .. 18, Words17.type) >>
             A == {"memory_array_handle", "error_handle"}
             B == {"total_width", "data_width", "size"}
             C == {"form_factor"}
             D == {"device_set"}
             E == {"device_locator", "bank_locator", "mem_type"}
             F == {"type_detail"}
             G == (IF s.length > \h15 THEN {"speed"} ELSE {})
                  \union (IF s.length > \h17
                          THEN {"manufacturer", "serial_number", "asset_tag", "part_number"}
                          ELSE {})
  <2>1. /\ Covers(s, a, A) /\ Covers(s, DeviceSize(s), B) /\ Covers(s, c, C)
        /\ Covers(s, DeviceSet(s), D) /\ Covers(s, e, E) /\ Covers(s, TypeDetail(s), F)
        /\ Covers(s, DeviceTexts(s), G)
    BY <1>1, <1>2, <1>3, <1>4, <1>5, <1>6, <1>7, Zenon
  <2>2. Type17(s) = a \o DeviceSize(s) \o c \o DeviceSet(s) \o e \o TypeDetail(s)
          \o DeviceTexts(s)
    BY Zenon DEF Type17
  <2>3. N = A \union B \union C \union D \union E \union F \union G
    OBVIOUS
  <2> HIDE DEF a, c, e, A, B, C, D, E, F, G, N
  <2>4. Covers(s, a \o DeviceSize(s) \o c, A \union B \union C)
    BY <2>1, CoversJoined, Zenon
  <2>5. Covers(s, a \o DeviceSize(s) \o c \o DeviceSet(s) \o e,
               A \union B \union C \union D \union E)
    BY <2>1, <2>4, CoversJoined, Zenon
  <2>6. Covers(s, a \o DeviceSize(s) \o c \o DeviceSet(s) \o e \o TypeDetail(s)
          \o DeviceTexts(s),
               A \union B \union C \union D \union E \union F \union G)
    BY <2>1, <2>5, CoversJoined, Zenon
  <2> QED
    BY <2>2, <2>3, <2>6, Zenon
<1>9. 22 \in s.bytes.speed
  BY Type17Is, Bytes17
<1>10. \A m \in {"speed"} : m \in Within(s) => s.length > \h15
  <2>1. "speed" \in Within(s) => 22 < s.length
    BY <1>9, Inside
  <2>l. s.length \in Nat
    BY LengthSound
  <2> QED
    BY <2>1, <2>l
<1>11. 23 \in s.bytes.manufacturer /\ 24 \in s.bytes.serial_number /\ 25 \in s.bytes.asset_tag
        /\ 26 \in s.bytes.part_number
  BY Type17Is, Bytes17
<1>12. \A m \in {"manufacturer", "serial_number", "asset_tag",
        "part_number"} : m \in Within(s) => s.length > \h17
  <2>1. "manufacturer" \in Within(s) => 23 < s.length
    BY <1>11, Inside
  <2>2. "serial_number" \in Within(s) => 24 < s.length
    BY <1>11, Inside
  <2>3. "asset_tag" \in Within(s) => 25 < s.length
    BY <1>11, Inside
  <2>4. "part_number" \in Within(s) => 26 < s.length
    BY <1>11, Inside
  <2>l. s.length \in Nat
    BY LengthSound
  <2> QED
    BY <2>1, <2>2, <2>3, <2>4, <2>l
<1>13. Within(s) \subseteq DOMAIN s.bytes
  BY DEF Within
<1>14. Within(s) \ Silent(s) \subseteq N
  BY <1>10, <1>12, <1>13, Type17Is, Bytes17
<1> HIDE DEF N
<1> QED
  BY <1>8, <1>14, CoversFewer

LEMMA Type19Complete ==
  ASSUME NEW s \in Structures, s.type = 19
  PROVE  Covers(s, Type19(s), Within(s) \ Silent(s))
<1>1. Covers(s, << Plain(s, "starting_adr", 10), Plain(s, "ending_adr", 10),
                  Plain(s, "mem_array_handle", Digits(2)),
                  Plain(s, "partition_width", Digits(1)) >>,
               {"starting_adr", "ending_adr", "mem_array_handle", "partition_width"})
  BY PlainReads, Cover4, Zenon
<1> DEFINE N == {"starting_adr", "ending_adr", "mem_array_handle", "partition_width"}
<1>2. Covers(s, Type19(s), N)
  BY <1>1, Zenon DEF Type19
<1>3. Within(s) \subseteq DOMAIN s.bytes
  BY DEF Within
<1>4. Within(s) \ Silent(s) \subseteq N
  BY <1>3, Type19Is, Bytes19
<1> HIDE DEF N
<1> QED
  BY <1>2, <1>4, CoversFewer

LEMMA Type20Complete ==
  ASSUME NEW s \in Structures, s.type = 20
  PROVE  Covers(s, Type20(s), Within(s) \ Silent(s))
<1>1. Covers(s, << Plain(s, "starting_adr", 10), Plain(s, "ending_adr", 10),
                  Plain(s, "mem_dev_handle", Digits(2)),
                  Plain(s, "mem_array_mapped_adr_handle", Digits(2)) >>,
               {"starting_adr", "ending_adr", "mem_dev_handle", "mem_array_mapped_adr_handle"})
  BY PlainReads, Cover4, Zenon
<1>2. Covers(s, Interleaving(s),
               {"partition_row_position", "interleave_position", "interleaved_data_depth"})
  <2> DEFINE special == << <<{0}, Words20.position>>, <<{\hFF}, Words20.unknown>>,
                            <<1 .. \hFE, Digits(1)>> >>
             values == Byte
             x == Cases(s, "partition_row_position", values, Tail(special), FALSE)
             y == Cases(s, "interleave_position", values, special, TRUE)
             z == Cases(s, "interleaved_data_depth", values, special, TRUE)
  <2> HIDE DEF special, values
  <2>1. /\ Reads(s, x, "partition_row_position")
        /\ Reads(s, y, "interleave_position")
        /\ Reads(s, z, "interleaved_data_depth")
    BY CasesReads
  <2>2. Interleaving(s) = <<x, y, z>>
    BY Zenon DEF Interleaving, special, values
  <2> HIDE DEF x, y, z
  <2> QED
    BY <2>1, <2>2, Cover3
<1> DEFINE N == {"starting_adr", "ending_adr", "mem_dev_handle", "mem_array_mapped_adr_handle"}
                  \union {"partition_row_position", "interleave_position",
                          "interleaved_data_depth"}
<1>3. Covers(s, Type20(s), N)
  BY <1>1, <1>2, CoversJoined, Zenon DEF Type20
<1>4. Within(s) \subseteq DOMAIN s.bytes
  BY DEF Within
<1>5. Within(s) \ Silent(s) \subseteq N
  BY <1>4, Type20Is, Bytes20
<1> HIDE DEF N
<1> QED
  BY <1>3, <1>5, CoversFewer

LEMMA Type32Complete ==
  ASSUME NEW s \in Structures, s.type = 32
  PROVE  Covers(s, Type32(s), Within(s) \ Silent(s))
<1>1. Covers(s, << Enum(s, "status", Byte, 0 .. 8, Words32) >>, {"status"})
  BY EnumReads, Cover1, Zenon
<1> DEFINE N == {"status"}
<1>2. Covers(s, Type32(s), N)
  BY <1>1, Zenon DEF Type32
<1>3. Within(s) \subseteq DOMAIN s.bytes
  BY DEF Within
<1>4. Within(s) \ Silent(s) \subseteq N
  BY <1>3, Type32Is, Bytes32 DEF Silent
<1> HIDE DEF N
<1> QED
  BY <1>2, <1>4, CoversFewer

-----------------------------------------------------------------------------
(* Nothing is left out. *)

(* A layout reads every member that is within the structure.                  *)
LEMMA LayoutComplete ==
  ASSUME NEW s \in Structures, s.type # 10
  PROVE  Covers(s, Layout(s), Within(s) \ Silent(s))
<1> DEFINE body ==
      CASE s.type = 0 -> Type0(s)
        [] s.type = 1 -> Type1(s)
        [] s.type = 2 -> Type2(s)
        [] s.type = 3 -> Type3(s)
        [] s.type = 4 -> Type4(s)
        [] s.type = 5 -> Type5(s)
        [] s.type = 6 -> Type6(s)
        [] s.type = 7 -> Type7(s)
        [] s.type = 8 -> Type8(s)
        [] s.type = 9 -> Type9(s)
        [] s.type = 10 -> Type10(s)
        [] s.type = 11 -> Type11(s)
        [] s.type = 12 -> Type12(s)
        [] s.type = 13 -> Type13(s)
        [] s.type = 16 -> Type16(s)
        [] s.type = 17 -> Type17(s)
        [] s.type = 19 -> Type19(s)
        [] s.type = 20 -> Type20(s)
        [] s.type = 32 -> Type32(s)
        [] s.type = 127 -> Type127(s)
        [] OTHER -> NotSupported(s)
<1>1. Covers(s, Header(s), {})
  <2>1. Header(s) \in Seq(Items(s))
    BY LengthSound, HeaderSound
  <2> QED
    BY <2>1, CoversSome
<1>2. Covers(s, body, Within(s) \ Silent(s))
  <2>1. CASE s.type = 0
    <3>1. body = Type0(s)
      BY <2>1
    <3> HIDE DEF body
    <3> QED
      BY <2>1, <3>1, Type0Complete
  <2>2. CASE s.type = 1
    <3>1. body = Type1(s)
      BY <2>2
    <3> HIDE DEF body
    <3> QED
      BY <2>2, <3>1, Type1Complete
  <2>3. CASE s.type = 2
    <3>1. body = Type2(s)
      BY <2>3
    <3> HIDE DEF body
    <3> QED
      BY <2>3, <3>1, Type2Complete
  <2>4. CASE s.type = 3
    <3>1. body = Type3(s)
      BY <2>4
    <3> HIDE DEF body
    <3> QED
      BY <2>4, <3>1, Type3Complete
  <2>5. CASE s.type = 4
    <3>1. body = Type4(s)
      BY <2>5
    <3> HIDE DEF body
    <3> QED
      BY <2>5, <3>1, Type4Complete
  <2>6. CASE s.type = 5
    <3>1. body = Type5(s)
      BY <2>6
    <3> HIDE DEF body
    <3> QED
      BY <2>6, <3>1, Type5Complete
  <2>7. CASE s.type = 6
    <3>1. body = Type6(s)
      BY <2>7
    <3> HIDE DEF body
    <3> QED
      BY <2>7, <3>1, Type6Complete
  <2>8. CASE s.type = 7
    <3>1. body = Type7(s)
      BY <2>8
    <3> HIDE DEF body
    <3> QED
      BY <2>8, <3>1, Type7Complete
  <2>9. CASE s.type = 8
    <3>1. body = Type8(s)
      BY <2>9
    <3> HIDE DEF body
    <3> QED
      BY <2>9, <3>1, Type8Complete
  <2>10. CASE s.type = 9
    <3>1. body = Type9(s)
      BY <2>10
    <3> HIDE DEF body
    <3> QED
      BY <2>10, <3>1, Type9Complete
  <2>11. CASE s.type = 11
    <3>1. body = Type11(s)
      BY <2>11
    <3> HIDE DEF body
    <3> QED
      BY <2>11, <3>1, Type11Complete
  <2>12. CASE s.type = 12
    <3>1. body = Type12(s)
      BY <2>12
    <3> HIDE DEF body
    <3> QED
      BY <2>12, <3>1, Type12Complete
  <2>13. CASE s.type = 13
    <3>1. body = Type13(s)
      BY <2>13
    <3> HIDE DEF body
    <3> QED
      BY <2>13, <3>1, Type13Complete
  <2>14. CASE s.type = 16
    <3>1. body = Type16(s)
      BY <2>14
    <3> HIDE DEF body
    <3> QED
      BY <2>14, <3>1, Type16Complete
  <2>15. CASE s.type = 17
    <3>1. body = Type17(s)
      BY <2>15
    <3> HIDE DEF body
    <3> QED
      BY <2>15, <3>1, Type17Complete
  <2>16. CASE s.type = 19
    <3>1. body = Type19(s)
      BY <2>16
    <3> HIDE DEF body
    <3> QED
      BY <2>16, <3>1, Type19Complete
  <2>17. CASE s.type = 20
    <3>1. body = Type20(s)
      BY <2>17
    <3> HIDE DEF body
    <3> QED
      BY <2>17, <3>1, Type20Complete
  <2>18. CASE s.type = 32
    <3>1. body = Type32(s)
      BY <2>18
    <3> HIDE DEF body
    <3> QED
      BY <2>18, <3>1, Type32Complete
  <2>19. CASE s.type \notin {0, 1, 2, 3, 4, 5, 6, 7, 8, 9, 11, 12, 13, 16, 17, 19, 20, 32}
    <3>1. Members(s.type) = <<>>
      BY <2>19 DEF Members
    <3>2. DOMAIN s.bytes = {}
      <4> DEFINE empty == <<>>
      <4>1. DOMAIN empty = {}
        OBVIOUS
      <4> HIDE DEF empty
      <4>2. s.bytes = BytesOf(empty)
        BY <3>1, StructureIs DEF empty
      <4>3. DOMAIN BytesOf(empty) = {empty[i][1] : i \in DOMAIN empty}
        BY DEF BytesOf
      <4> QED
        BY <4>1, <4>2, <4>3
    <3>3. Within(s) \ Silent(s) \subseteq {}
      BY <3>2 DEF Within
    <3>4. body = Type127(s) \/ body = NotSupported(s)
      BY <2>19
    <3>5. body \in Seq(Items(s))
      <4> HIDE DEF body
      <4> QED
        BY <3>4, OthersSound
    <3> HIDE DEF body
    <3> QED
      BY <3>3, <3>5, CoversSome
  <2> HIDE DEF body
  <2> QED
    BY <2>1, <2>2, <2>3, <2>4, <2>5, <2>6, <2>7, <2>8, <2>9, <2>10,
       <2>11, <2>12, <2>13, <2>14, <2>15, <2>16, <2>17, <2>18, <2>19
<1> HIDE DEF body
<1>3. Covers(s, Header(s) \o body, {} \union (Within(s) \ Silent(s)))
  BY <1>1, <1>2, CoversJoined
<1>4. {} \union (Within(s) \ Silent(s)) = Within(s) \ Silent(s)
  OBVIOUS
<1> QED
  BY <1>3, <1>4, Zenon DEF Layout, body

(* A text that is complete has looked at every member that the structure is   *)
(* long enough to have, and that a slot of its type has.                      *)
THEOREM NothingLeftOutCorrect == Spec => []NothingLeftOut
<1>1. CookInv => NothingLeftOut
  <2> SUFFICES ASSUME CookInv, pc = "done", file > 0, st.type # 10,
                      NEW m \in DOMAIN st.bytes \ Silent(st),
                      st.bytes[m] \subseteq 0 .. st.length - 1
               PROVE  st.bytes[m] \subseteq read
    BY DEF NothingLeftOut
  <2> DEFINE q == Layout(st)
             all == UNION {q[i].bytes : i \in 1 .. Len(q)}
  <2>1. st \in Structures /\ q \in Seq(Items(st))
    BY LayoutSound DEF CookInv
  <2>2. \A i \in 1 .. Len(q) : q[i].bytes \subseteq read
    <3>1. next > Len(q) /\ next \in Nat /\ Len(q) \in Nat
      BY <2>1 DEF CookInv
    <3> QED
      BY <3>1 DEF CookInv
  <2>3. Covers(st, q, Within(st) \ Silent(st))
    BY <2>1, LayoutComplete
  <2>4. m \in Within(st) \ Silent(st)
    BY DEF Within, In
  <2> HIDE DEF q
  <2>5. st.bytes[m] \subseteq all
    BY <2>3, <2>4 DEF Covers
  <2>6. all \subseteq read
    BY <2>2
  <2> QED
    BY <2>5, <2>6
<1> QED
  BY <1>1, CookInvariant, PTL

-----------------------------------------------------------------------------
(* How long a text is. *)

-----------------------------------------------------------------------------
(* The length of a text *)

(* Whatever item x prints has at most n characters.                           *)
Short(x, n) == n \in Nat /\ \A o \in x.outs : o.len \in Nat /\ o.len <= n

(* And so for the items of q together.                                        *)
Fits(q, n) ==
  /\ n \in Nat
  /\ \E T, caps : /\ q \in Seq(T) /\ caps \in Seq(Nat) /\ Len(caps) = Len(q)
                  /\ \A i \in 1 .. Len(q) : Short(q[i], caps[i])
                  /\ Total(caps) <= n

LEMMA TotalJoined ==
  ASSUME NEW a \in Seq(Nat), NEW b \in Seq(Nat)
  PROVE  Total(a \o b) = Total(a) + Total(b) /\ Total(a) \in Nat /\ Total(b) \in Nat
<1> DEFINE c == a \o b
           n == Len(a)
           S == {k \in Nat : k <= Len(b) => SumTo(c, n + k) = SumTo(a, n) + SumTo(b, k)}
<1>0. n \in Nat /\ Len(b) \in Nat /\ Len(c) = n + Len(b)
      /\ (\A i \in 1 .. n : c[i] = a[i]) /\ (\A i \in 1 .. Len(b) : c[n + i] = b[i])
      /\ (\A i \in 1 .. n : a[i] \in Nat) /\ (\A i \in 1 .. Len(b) : b[i] \in Nat)
  OBVIOUS
<1> HIDE DEF c, n
<1>1. SumTo(a, n) \in Nat /\ SumTo(b, Len(b)) \in Nat
  BY <1>0, SumNat
<1>2. 0 \in S
  <2>1. SumTo(c, n) = SumTo(a, n)
    BY <1>0, SumSame
  <2>2. n + 0 = n
    BY <1>0
  <2> QED
    BY <1>1, <2>1, <2>2, SumZero
<1>3. ASSUME NEW k \in Nat, k \in S PROVE k + 1 \in S
  <2> SUFFICES ASSUME k + 1 <= Len(b) PROVE SumTo(c, n + (k + 1))
          = SumTo(a, n) + SumTo(b, k + 1)
    OBVIOUS
  <2>0. n + k \in Nat
    BY <1>0
  <2>1. SumTo(c, (n + k) + 1) = SumTo(c, n + k) + c[(n + k) + 1]
    BY <2>0, SumNext
  <2>2. SumTo(b, k + 1) = SumTo(b, k) + b[k + 1]
    BY SumNext
  <2>3. k + 1 \in 1 .. Len(b) /\ n + (k + 1) = (n + k) + 1 /\ k <= Len(b)
    BY <1>0
  <2>4. \A i \in 1 .. k : b[i] \in Nat
    BY <1>0, <2>3
  <2>5. SumTo(b, k) \in Nat
    BY <2>4, SumNat
  <2>6. c[(n + k) + 1] = b[k + 1] /\ b[k + 1] \in Nat
          /\ SumTo(c, n + k) = SumTo(a, n) + SumTo(b, k)
    BY <1>0, <1>3, <2>3
  <2> QED
    BY <1>1, <2>1, <2>2, <2>3, <2>5, <2>6
<1> HIDE DEF S
<1>4. Len(b) \in S
  BY <1>0, <1>2, <1>3, NatSetInduction
<1> QED
  BY <1>0, <1>1, <1>4 DEF S, Total, c, n

LEMMA FitsJoined ==
  ASSUME NEW q, NEW r, NEW m, NEW n, Fits(q, m), Fits(r, n)
  PROVE  Fits(q \o r, m + n)
<1>1. PICK T, a : /\ q \in Seq(T) /\ a \in Seq(Nat) /\ Len(a) = Len(q)
                  /\ \A i \in 1 .. Len(q) : Short(q[i], a[i])
                  /\ Total(a) <= m
  BY DEF Fits
<1>2. PICK S, b : /\ r \in Seq(S) /\ b \in Seq(Nat) /\ Len(b) = Len(r)
                  /\ \A i \in 1 .. Len(r) : Short(r[i], b[i])
                  /\ Total(b) <= n
  BY DEF Fits
<1> DEFINE c == q \o r
           d == a \o b
<1>3. q \in Seq(T \union S) /\ r \in Seq(T \union S)
  BY <1>1, <1>2
<1>4. c \in Seq(T \union S) /\ d \in Seq(Nat) /\ Len(d) = Len(c) /\ Len(c) = Len(q) + Len(r)
  <2>1. c \in Seq(T \union S) /\ Len(c) = Len(q) + Len(r)
    BY <1>3
  <2>a. a \in Seq(Nat) /\ b \in Seq(Nat)
    BY <1>1, <1>2
  <2>2. d \in Seq(Nat) /\ Len(d) = Len(a) + Len(b)
    BY ONLY <2>a
  <2> QED
    BY <1>1, <1>2, <2>1, <2>2
<1>5. \A i \in 1 .. Len(q) : c[i] = q[i] /\ d[i] = a[i]
  BY <1>1, <1>2, <1>3
<1>6. \A i \in 1 .. Len(r) : c[Len(q) + i] = r[i] /\ d[Len(q) + i] = b[i]
  BY <1>1, <1>2, <1>3
<1>7. Total(d) <= m + n /\ m + n \in Nat
  <2>1. m \in Nat /\ n \in Nat
    BY DEF Fits
  <2> QED
    BY <1>1, <1>2, <2>1, TotalJoined
<1> HIDE DEF c, d
<1>8. ASSUME NEW i \in 1 .. Len(c) PROVE Short(c[i], d[i])
  <2>0. Len(q) \in Nat /\ Len(r) \in Nat
    BY <1>1, <1>2
  <2>1. CASE i <= Len(q)
    <3>1. i \in 1 .. Len(q)
      BY <2>0, <2>1, <1>4
    <3> QED
      BY <1>1, <1>5, <3>1
  <2>2. CASE i > Len(q)
    <3> DEFINE k == i - Len(q)
    <3>1. k \in 1 .. Len(r) /\ i = Len(q) + k
      BY <2>0, <2>2, <1>4
    <3> HIDE DEF k
    <3> QED
      BY <1>2, <1>6, <3>1
  <2> QED
    BY <2>0, <2>1, <2>2, <1>4
<1>9. Fits(c, m + n)
  BY <1>4, <1>7, <1>8 DEF Fits
<1> QED
  BY <1>9 DEF c

LEMMA FitsMore ==
  ASSUME NEW q, NEW m, NEW n \in Nat, Fits(q, m), m <= n
  PROVE  Fits(q, n)
<1>1. PICK T, a : /\ q \in Seq(T) /\ a \in Seq(Nat) /\ Len(a) = Len(q)
                  /\ \A i \in 1 .. Len(q) : Short(q[i], a[i])
                  /\ Total(a) <= m
  BY DEF Fits
<1>2. m \in Nat /\ Total(a) \in Nat
  <2>1. <<>> \in Seq(Nat)
    OBVIOUS
  <2> QED
    BY <1>1, <2>1, TotalJoined DEF Fits
<1>3. Total(a) <= n
  BY <1>1, <1>2
<1> QED
  BY <1>1, <1>3 DEF Fits

LEMMA FitsNothing == ASSUME NEW n \in Nat PROVE Fits(<<>>, n)
<1> DEFINE e == <<>>
<1>1. e \in Seq(Nat) /\ Len(e) = 0 /\ Total(e) <= n
  BY TotalEmpty
<1> HIDE DEF e
<1>2. \A i \in 1 .. Len(e) : Short(e[i], e[i])
  BY <1>1
<1>3. Fits(e, n)
  BY <1>1, <1>2 DEF Fits
<1> QED
  BY <1>3 DEF e

(* A list of n items that are alike.                                          *)
LEMMA FitsList ==
  ASSUME NEW n \in Nat, NEW c \in Nat, NEW f, DOMAIN f = 1 .. n, f = [i \in 1 .. n |-> f[i]],
         \A i \in 1 .. n : Short(f[i], c)
  PROVE  Fits(f, n * c)
<1> DEFINE T == {f[i] : i \in 1 .. n}
           caps == [i \in 1 .. n |-> c]
<1>1. \A i \in 1 .. n : f[i] \in T
  OBVIOUS
<1>2. caps \in Seq(Nat) /\ Len(caps) = n /\ \A i \in 1 .. n : caps[i] = c
  OBVIOUS
<1> HIDE DEF T, caps
<1>3. f \in [1 .. n -> T]
  BY <1>1
<1>4. f \in Seq(T) /\ Len(f) = n
  BY <1>3
<1>5. \A i \in 1 .. n : caps[i] \in 0 .. c
  BY <1>2
<1>6. SumTo(caps, n) <= n * c
  BY <1>5, SumBound
<1>7. n * c \in Nat
  BY Times
<1> QED
  BY <1>2, <1>4, <1>6, <1>7 DEF Fits, Total

LEMMA Fit1 ==
  ASSUME NEW a, NEW A,
         Short(a, A)
  PROVE  Fits(<<a>>, A)
<1> DEFINE q == <<a>>
           z == <<A>>
           n == A
<1>0. A \in Nat
  BY DEF Short
<1>1. q \in Seq({a}) /\ Len(q) = 1 /\ z \in Seq(Nat) /\ Len(z) = 1
  BY <1>0
<1>2. z[1] = A
  OBVIOUS
<1>3. \A i \in 1 .. 1 : Short(q[i], z[i])
  <2>1. Short(q[1], z[1])
    OBVIOUS
  <2> HIDE DEF q, z
  <2> QED
    BY <2>1
<1> HIDE DEF q, z
<1>4. SumTo(z, 0) = 0
      /\ SumTo(z, 0 + 1) = SumTo(z, 0) + z[0 + 1]
  BY SumZero, SumNext
<1>5. Total(z) <= n /\ n \in Nat
  BY <1>0, <1>1, <1>2, <1>4 DEF Total
<1> HIDE DEF n
<1>6. Fits(q, n)
  BY <1>1, <1>3, <1>5 DEF Fits
<1> QED
  BY <1>6 DEF q, n

LEMMA Fit2 ==
  ASSUME NEW a, NEW b, NEW A, NEW B,
         Short(a, A), Short(b, B)
  PROVE  Fits(<<a, b>>, A + B)
<1> DEFINE q == <<a, b>>
           z == <<A, B>>
           n == A + B
<1>0. A \in Nat /\ B \in Nat
  BY DEF Short
<1>1. q \in Seq({a, b}) /\ Len(q) = 2 /\ z \in Seq(Nat) /\ Len(z) = 2
  BY <1>0
<1>2. z[1] = A /\ z[2] = B
  OBVIOUS
<1>3. \A i \in 1 .. 2 : Short(q[i], z[i])
  <2>1. Short(q[1], z[1])
    OBVIOUS
  <2>2. Short(q[2], z[2])
    OBVIOUS
  <2> HIDE DEF q, z
  <2> QED
    BY <2>1, <2>2
<1> HIDE DEF q, z
<1>4. SumTo(z, 0) = 0
      /\ SumTo(z, 0 + 1) = SumTo(z, 0) + z[0 + 1]
      /\ SumTo(z, 1 + 1) = SumTo(z, 1) + z[1 + 1]
  BY SumZero, SumNext
<1>5. Total(z) <= n /\ n \in Nat
  BY <1>0, <1>1, <1>2, <1>4 DEF Total
<1> HIDE DEF n
<1>6. Fits(q, n)
  BY <1>1, <1>3, <1>5 DEF Fits
<1> QED
  BY <1>6 DEF q, n

LEMMA Fit3 ==
  ASSUME NEW a, NEW b, NEW c, NEW A, NEW B, NEW C,
         Short(a, A), Short(b, B), Short(c, C)
  PROVE  Fits(<<a, b, c>>, A + B + C)
<1> DEFINE q == <<a, b, c>>
           z == <<A, B, C>>
           n == A + B + C
<1>0. A \in Nat /\ B \in Nat /\ C \in Nat
  BY DEF Short
<1>1. q \in Seq({a, b, c}) /\ Len(q) = 3 /\ z \in Seq(Nat) /\ Len(z) = 3
  BY <1>0
<1>2. z[1] = A /\ z[2] = B /\ z[3] = C
  OBVIOUS
<1>3. \A i \in 1 .. 3 : Short(q[i], z[i])
  <2>1. Short(q[1], z[1])
    OBVIOUS
  <2>2. Short(q[2], z[2])
    OBVIOUS
  <2>3. Short(q[3], z[3])
    OBVIOUS
  <2> HIDE DEF q, z
  <2> QED
    BY <2>1, <2>2, <2>3
<1> HIDE DEF q, z
<1>4. SumTo(z, 0) = 0
      /\ SumTo(z, 0 + 1) = SumTo(z, 0) + z[0 + 1]
      /\ SumTo(z, 1 + 1) = SumTo(z, 1) + z[1 + 1]
      /\ SumTo(z, 2 + 1) = SumTo(z, 2) + z[2 + 1]
  BY SumZero, SumNext
<1>5. Total(z) <= n /\ n \in Nat
  BY <1>0, <1>1, <1>2, <1>4 DEF Total
<1> HIDE DEF n
<1>6. Fits(q, n)
  BY <1>1, <1>3, <1>5 DEF Fits
<1> QED
  BY <1>6 DEF q, n

LEMMA Fit4 ==
  ASSUME NEW a, NEW b, NEW c, NEW d, NEW A, NEW B, NEW C, NEW D,
         Short(a, A), Short(b, B), Short(c, C), Short(d, D)
  PROVE  Fits(<<a, b, c, d>>, A + B + C + D)
<1> DEFINE q == <<a, b, c, d>>
           z == <<A, B, C, D>>
           n == A + B + C + D
<1>0. A \in Nat /\ B \in Nat /\ C \in Nat /\ D \in Nat
  BY DEF Short
<1>1. q \in Seq({a, b, c, d}) /\ Len(q) = 4 /\ z \in Seq(Nat) /\ Len(z) = 4
  BY <1>0
<1>2. z[1] = A /\ z[2] = B /\ z[3] = C /\ z[4] = D
  OBVIOUS
<1>3. \A i \in 1 .. 4 : Short(q[i], z[i])
  <2>1. Short(q[1], z[1])
    OBVIOUS
  <2>2. Short(q[2], z[2])
    OBVIOUS
  <2>3. Short(q[3], z[3])
    OBVIOUS
  <2>4. Short(q[4], z[4])
    OBVIOUS
  <2> HIDE DEF q, z
  <2> QED
    BY <2>1, <2>2, <2>3, <2>4
<1> HIDE DEF q, z
<1>4. SumTo(z, 0) = 0
      /\ SumTo(z, 0 + 1) = SumTo(z, 0) + z[0 + 1]
      /\ SumTo(z, 1 + 1) = SumTo(z, 1) + z[1 + 1]
      /\ SumTo(z, 2 + 1) = SumTo(z, 2) + z[2 + 1]
      /\ SumTo(z, 3 + 1) = SumTo(z, 3) + z[3 + 1]
  BY SumZero, SumNext
<1>5. Total(z) <= n /\ n \in Nat
  BY <1>0, <1>1, <1>2, <1>4 DEF Total
<1> HIDE DEF n
<1>6. Fits(q, n)
  BY <1>1, <1>3, <1>5 DEF Fits
<1> QED
  BY <1>6 DEF q, n

LEMMA Fit5 ==
  ASSUME NEW a, NEW b, NEW c, NEW d, NEW e, NEW A, NEW B, NEW C, NEW D, NEW E,
         Short(a, A), Short(b, B), Short(c, C), Short(d, D), Short(e, E)
  PROVE  Fits(<<a, b, c, d, e>>, A + B + C + D + E)
<1> DEFINE q == <<a, b, c, d, e>>
           z == <<A, B, C, D, E>>
           n == A + B + C + D + E
<1>0. A \in Nat /\ B \in Nat /\ C \in Nat /\ D \in Nat /\ E \in Nat
  BY DEF Short
<1>1. q \in Seq({a, b, c, d, e}) /\ Len(q) = 5 /\ z \in Seq(Nat) /\ Len(z) = 5
  BY <1>0
<1>2. z[1] = A /\ z[2] = B /\ z[3] = C /\ z[4] = D /\ z[5] = E
  OBVIOUS
<1>3. \A i \in 1 .. 5 : Short(q[i], z[i])
  <2>1. Short(q[1], z[1])
    OBVIOUS
  <2>2. Short(q[2], z[2])
    OBVIOUS
  <2>3. Short(q[3], z[3])
    OBVIOUS
  <2>4. Short(q[4], z[4])
    OBVIOUS
  <2>5. Short(q[5], z[5])
    OBVIOUS
  <2> HIDE DEF q, z
  <2> QED
    BY <2>1, <2>2, <2>3, <2>4, <2>5
<1> HIDE DEF q, z
<1>4. SumTo(z, 0) = 0
      /\ SumTo(z, 0 + 1) = SumTo(z, 0) + z[0 + 1]
      /\ SumTo(z, 1 + 1) = SumTo(z, 1) + z[1 + 1]
      /\ SumTo(z, 2 + 1) = SumTo(z, 2) + z[2 + 1]
      /\ SumTo(z, 3 + 1) = SumTo(z, 3) + z[3 + 1]
      /\ SumTo(z, 4 + 1) = SumTo(z, 4) + z[4 + 1]
  BY SumZero, SumNext
<1>5. Total(z) <= n /\ n \in Nat
  BY <1>0, <1>1, <1>2, <1>4 DEF Total
<1> HIDE DEF n
<1>6. Fits(q, n)
  BY <1>1, <1>3, <1>5 DEF Fits
<1> QED
  BY <1>6 DEF q, n

LEMMA Fit6 ==
  ASSUME NEW a, NEW b, NEW c, NEW d, NEW e, NEW f, NEW A, NEW B, NEW C, NEW D, NEW E, NEW F,
         Short(a, A), Short(b, B), Short(c, C), Short(d, D), Short(e, E), Short(f, F)
  PROVE  Fits(<<a, b, c, d, e, f>>, A + B + C + D + E + F)
<1> DEFINE q == <<a, b, c, d, e, f>>
           z == <<A, B, C, D, E, F>>
           n == A + B + C + D + E + F
<1>0. A \in Nat /\ B \in Nat /\ C \in Nat /\ D \in Nat /\ E \in Nat /\ F \in Nat
  BY DEF Short
<1>1. q \in Seq({a, b, c, d, e, f}) /\ Len(q) = 6 /\ z \in Seq(Nat) /\ Len(z) = 6
  BY <1>0
<1>2. z[1] = A /\ z[2] = B /\ z[3] = C /\ z[4] = D /\ z[5] = E /\ z[6] = F
  OBVIOUS
<1>3. \A i \in 1 .. 6 : Short(q[i], z[i])
  <2>1. Short(q[1], z[1])
    OBVIOUS
  <2>2. Short(q[2], z[2])
    OBVIOUS
  <2>3. Short(q[3], z[3])
    OBVIOUS
  <2>4. Short(q[4], z[4])
    OBVIOUS
  <2>5. Short(q[5], z[5])
    OBVIOUS
  <2>6. Short(q[6], z[6])
    OBVIOUS
  <2> HIDE DEF q, z
  <2> QED
    BY <2>1, <2>2, <2>3, <2>4, <2>5, <2>6
<1> HIDE DEF q, z
<1>4. SumTo(z, 0) = 0
      /\ SumTo(z, 0 + 1) = SumTo(z, 0) + z[0 + 1]
      /\ SumTo(z, 1 + 1) = SumTo(z, 1) + z[1 + 1]
      /\ SumTo(z, 2 + 1) = SumTo(z, 2) + z[2 + 1]
      /\ SumTo(z, 3 + 1) = SumTo(z, 3) + z[3 + 1]
      /\ SumTo(z, 4 + 1) = SumTo(z, 4) + z[4 + 1]
      /\ SumTo(z, 5 + 1) = SumTo(z, 5) + z[5 + 1]
  BY SumZero, SumNext
<1>5. Total(z) <= n /\ n \in Nat
  <2>1. /\ SumTo(z, 1) = A /\ SumTo(z, 2) = A + B /\ SumTo(z, 3) = A + B + C
    BY <1>0, <1>2, <1>4
  <2>2. SumTo(z, 4) = A + B + C + D /\ SumTo(z, 5) = A + B + C + D + E
    BY <1>0, <1>2, <1>4, <2>1
  <2>3. SumTo(z, 6) = A + B + C + D + E + F
    BY <1>0, <1>2, <1>4, <2>2
  <2> QED
    BY <1>0, <1>1, <2>3 DEF Total
<1> HIDE DEF n
<1>6. Fits(q, n)
  BY <1>1, <1>3, <1>5 DEF Fits
<1> QED
  BY <1>6 DEF q, n

(* The length of one item.                                                    *)
LEMMA OutLength == ASSUME NEW k \in Nat, NEW w \in Nat PROVE Out(k, w).len = k * w
        /\ k * w \in Nat
BY Times DEF Out, Lines

LEMMA LineLength == ASSUME NEW w \in Nat PROVE Out(1, w).len = w
<1>1. Out(1, w).len = 1 * w
  BY OutLength
<1>2. 1 * w = w
  OBVIOUS
<1> QED
  BY <1>1, <1>2

LEMMA LineShort ==
  ASSUME NEW m, NEW b, NEW once, NEW w \in Nat, NEW n \in Nat, w <= n
  PROVE  Short(Item(m, b, {Out(1, w)}, once), n)
<1>1. Out(1, w).len = w
  BY LineLength
<1> QED
  BY <1>1 DEF Short, Item

LEMMA LineIs == ASSUME NEW w \in Nat PROVE Line(w) = 39 + w /\ SubLine(w) = 41 + w
        /\ Line(w) \in Nat
BY DEF Line, SubLine, LabelWidth

LEMMA PlainShort ==
  ASSUME NEW s, NEW m, NEW w \in Nat, NEW n \in Nat, 39 + w <= n
  PROVE  Short(Plain(s, m, w), n)
<1>1. Line(w) \in Nat /\ Line(w) <= n
  BY LineIs
<1> QED
  BY <1>1, LineShort DEF Plain

LEMMA NothingShort == Nothing.len = 0
BY DEF Nothing, Out, Lines

LEMMA OptionalShort ==
  ASSUME NEW s, NEW m, NEW w \in Nat, NEW n \in Nat, 39 + w <= n
  PROVE  Short(Optional(s, m, w), n)
<1>1. Out(1, Line(w)).len = 39 + w
  <2>1. Line(w) = 39 + w /\ Line(w) \in Nat
    BY LineIs
  <2> QED
    BY <2>1, LineLength
<1> QED
  BY <1>1, NothingShort DEF Optional, Short, Item

LEMMA EnumShort ==
  ASSUME NEW s, NEW m, NEW range, NEW codes, NEW w \in Nat, NEW n \in Nat, 39 + w <= n, 44 <= n
  PROVE  Short(Enum(s, m, range, codes, w), n)
<1>1. Out(1, Line(w)).len = 39 + w
  <2>1. Line(w) = 39 + w /\ Line(w) \in Nat
    BY LineIs
  <2> QED
    BY <2>1, LineLength
<1>2. Out(1, Line(5)).len = 44
  <2>1. Line(5) = 44 /\ Line(5) \in Nat
    BY LineIs
  <2> QED
    BY <2>1, LineLength
<1> DEFINE outs == IF range \subseteq codes THEN {Out(1, Line(w))}
                   ELSE {Out(1, Line(w)), Out(1, Line(5))}
<1>3. \A o \in outs : o.len \in Nat /\ o.len <= n
  BY <1>1, <1>2
<1> HIDE DEF outs
<1>4. Enum(s, m, range, codes, w).outs = outs
  BY DEF Enum, Item, outs
<1> QED
  BY <1>3, <1>4 DEF Short

(* The longest text that a string has, NULL being one too.                    *)
Longest == IF MaxString < NullWidth THEN NullWidth ELSE MaxString

LEMMA LongestIs ==
  /\ Longest \in Nat /\ Line(Longest) = 39 + Longest /\ SubLine(Longest) = 41 + Longest
  /\ Longest <= 64
BY StringAssumption, LineIs DEF Longest, NullWidth

LEMMA StringWidth ==
  ASSUME NEW s \in Structures, NEW nr \in Nat
  PROVE  TextWidth(s, GetString(s, nr)) \in 0 .. Longest
<1> DEFINE ptr == GetString(s, nr)
<1>1. ptr = Reached(s.strings, nr)
  BY StructureIs, StringFound
<1>2. CASE nr \in 1 .. Len(s.strings)
  <2>1. ptr = StartOf(s.strings, nr) /\ nr \in 1 .. Len(s.strings) + 1
    BY <1>1, <1>2, StructureIs DEF Reached, Lists
  <2>2. ptr \in Nat /\ ptr # Null
    BY <2>1, StartNat, StructureIs DEF Null
  <2>3. TextWidth(s, ptr) = s.strings[nr]
    BY <1>2, <2>1, <2>2, StringLength, StructureIs DEF TextWidth
  <2>4. s.strings[nr] \in 1 .. MaxString
    BY <1>2, StartNext, StructureIs
  <2> QED
    BY <2>3, <2>4, StringAssumption DEF Longest, NullWidth
<1>3. CASE nr \notin 1 .. Len(s.strings)
  BY <1>1, <1>3, StringAssumption DEF Reached, TextWidth, Null, Longest, NullWidth
<1> QED
  BY <1>2, <1>3

LEMMA StringShort ==
  ASSUME NEW s \in Structures, NEW m, NEW nr \in Nat, NEW width \in Nat
  PROVE  /\ StringOut(s, m, width, nr).len \in Nat
         /\ StringOut(s, m, width, nr).len <= width + Longest
<1> DEFINE ptr == GetString(s, nr)
           w == width + TextWidth(s, ptr)
           r == Out(1, w)
<1>1. w \in Nat /\ w <= width + Longest
  BY StringWidth, LongestIs
<1> HIDE DEF w, ptr
<1>2. r = [n |-> 1, len |-> w, line |-> w, nr |-> 0, ptr |-> Null]
  BY <1>1 DEF Out, Lines
<1>3. [r EXCEPT !.nr = nr, !.ptr = ptr]
        = [n |-> 1, len |-> w, line |-> w, nr |-> nr, ptr |-> ptr]
  <2> DEFINE o == [r EXCEPT !.nr = nr, !.ptr = ptr]
  <2>1. o = [r EXCEPT !.nr = nr, !.ptr = ptr]
    OBVIOUS
  <2>2. r = [n |-> 1, len |-> w, line |-> w, nr |-> 0, ptr |-> Null]
    BY <1>2
  <2> HIDE DEF r, o
  <2>3. o = [n |-> 1, len |-> w, line |-> w, nr |-> nr, ptr |-> ptr]
    BY <2>1, <2>2
  <2> QED
    BY <2>3 DEF o
<1>4. StringOut(s, m, width, nr) = [n |-> 1, len |-> w, line |-> w, nr |-> nr, ptr |-> ptr]
  BY <1>3 DEF StringOut, w, ptr
<1> QED
  BY <1>1, <1>4

LEMMA TextAtShort ==
  ASSUME NEW s \in Structures, NEW m, NEW b
  PROVE  Short(TextAt(s, m, b), Line(Longest))
<1>1. {0, 1, Len(s.strings), Len(s.strings) + 1} \subseteq Nat
  BY StructureIs DEF Lists
<1>2. Line(0) = 39 /\ Line(Longest) = 39 + Longest /\ Line(Longest) \in Nat /\ Line(0) \in Nat
  BY LineIs, LongestIs
<1> DEFINE outs ==
        {StringOut(s, m, Line(0), nr) : nr \in {0, 1, Len(s.strings), Len(s.strings) + 1}}
<1>3. \A o \in outs : o.len \in Nat /\ o.len <= Line(Longest)
  BY <1>1, <1>2, StringShort
<1> HIDE DEF outs
<1>4. TextAt(s, m, b).outs = outs
  BY DEF TextAt, Item, outs
<1> QED
  BY <1>2, <1>3, <1>4 DEF Short

LEMMA TextShort == ASSUME NEW s \in Structures, NEW m PROVE Short(Text(s, m), Line(Longest))
BY TextAtShort DEF Text

LEMMA LabelShort == ASSUME NEW m PROVE Short(Label(m), 37)
<1>1. LabelWidth + 2 = 37
  BY DEF LabelWidth
<1>2. Out(1, 37).len = 37
  BY LineLength
<1>3. Label(m).outs = {Out(1, 37)}
  BY <1>1 DEF Label, Item
<1> QED
  BY <1>2, <1>3 DEF Short

LEMMA BitLinesShort ==
  ASSUME NEW m, NEW b, NEW bits \in Nat, NEW w \in Nat, NEW n \in Nat, bits * (41 + w) <= n
  PROVE  Short(BitLines(m, b, bits, w), n)
<1>1. SubLine(w) = 41 + w /\ SubLine(w) \in Nat
  BY LineIs
<1>2. Out(0, SubLine(w)).len = 0 * SubLine(w) /\ 0 * SubLine(w) = 0
  BY <1>1, OutLength
<1>3. Out(bits, SubLine(w)).len = bits * SubLine(w) /\ bits * SubLine(w) \in Nat
      /\ bits * SubLine(w) <= n
  BY <1>1, OutLength
<1>4. \A o \in {Out(k, SubLine(w)) : k \in {0, bits}} : o.len \in Nat /\ o.len <= n
  BY <1>2, <1>3
<1> QED
  BY <1>4 DEF BitLines, Short, Item

LEMMA BitsFit ==
  ASSUME NEW s, NEW m, NEW bits \in Nat, NEW w \in Nat, NEW n \in Nat, bits * (41 + w) <= n
  PROVE  Fits(Bits(s, m, bits, w), 37 + n)
BY LabelShort, BitLinesShort, Fit2, Zenon DEF Bits

(* Chains of ifs, whether or not the conditions exclude each other.           *)
LEMMA CasesShort ==
  ASSUME NEW s, NEW m, NEW values, NEW branches, NEW n \in Nat, NEW once, DOMAIN branches
          = 1 .. n,
         \A i \in 1 .. n : branches[i][2] \in 0 .. 63
  PROVE  Short(Cases(s, m, values, branches, once), n * 102)
<1> DEFINE Ones(v) == [i \in DOMAIN branches |-> IF v \in branches[i][1] THEN 1 ELSE 0]
           Lens(v) == [i \in DOMAIN branches |->
                         IF v \in branches[i][1] THEN Line(branches[i][2]) ELSE 0]
<1>1. ASSUME NEW v PROVE Total(Lens(v)) \in Nat /\ Total(Lens(v)) <= n * 102
  <2>1. ASSUME NEW i \in 1 .. n PROVE Lens(v)[i] \in 0 .. 102
    <3> DEFINE w == branches[i][2]
    <3>1. w \in 0 .. 63
      OBVIOUS
    <3>2. Lens(v)[i] = IF v \in branches[i][1] THEN Line(w) ELSE 0
      OBVIOUS
    <3> HIDE DEF w, Lens
    <3>3. Line(w) \in 0 .. 102
      BY ONLY <3>1, LineIs
    <3> QED
      BY <3>2, <3>3
  <2>2. Total(Lens(v)) = SumTo(Lens(v), n)
    BY DEF Total
  <2> HIDE DEF Lens
  <2>3. \A i \in 1 .. n : Lens(v)[i] \in Nat
    BY ONLY <2>1
  <2>4. SumTo(Lens(v), n) \in Nat
    BY <2>3, SumNat
  <2>5. SumTo(Lens(v), n) <= n * 102
    BY <2>1, SumBound
  <2> QED
    BY <2>2, <2>4, <2>5
<1> HIDE DEF Ones, Lens
<1> DEFINE outs == {Lines(Total(Ones(v)), Total(Lens(v)), Total(Lens(v))) : v \in values}
<1>2. \A o \in outs : o.len \in Nat /\ o.len <= n * 102
  BY <1>1 DEF Lines
<1> HIDE DEF outs
<1>3. Cases(s, m, values, branches, once) = Item(m, s.bytes[m], outs, once)
  BY Zenon DEF Cases, outs, Ones, Lens
<1>4. Cases(s, m, values, branches, once).outs = outs
  BY <1>3 DEF Item
<1>5. n * 102 \in Nat
  BY Times
<1> QED
  BY <1>2, <1>4, <1>5 DEF Short

-----------------------------------------------------------------------------
(* Every text, type by type. *)

(* What is printed beside the strings, at most: the header; the header and    *)
(* type 0, which has the most to say of the types without a list; the header  *)
(* and the label of a list; a memory controller without its slots; a device.  *)
HeaderText ==
  Line(Digits(1) + 1 + NameWidth) + Line(Digits(1) + UnitWidth) + Line(Digits(2) + 1)

TablesText ==
  HeaderText + Line(4) + Line(Digits(2) + UnitWidth) + LabelWidth + 2
  + 32 * SubLine(Words0.characteristics) + 8 * SubLine(Words0.ext1) + 2 * SubLine(Words0.ext2)

ListText == HeaderText + LabelWidth + 2

ControllerText ==
  HeaderText + Line(Words5.detection) + 2 * Line(Words5.interleave) + Line(pow2 + UnitWidth)
  + Line(Digits(1) + 7) + 6 * (LabelWidth + 2) + (6 + 6) * SubLine(Words5.ecc)
  + 5 * SubLine(Words5.speeds) + 11 * SubLine(Words5.types) + 3 * SubLine(Words5.voltage)

DeviceText == Line(Digits(1)) + Line(Words10.status) + Line(Words10.type)

(* What is left of the buffer behind the header.                              *)
Room == BufferSize - 1 - HeaderText

LEMMA RoomIs ==
  /\ Room \in Nat /\ Room + HeaderText = BufferSize - 1 /\ HeaderText = 167
  /\ 3298 + 6 * Line(Longest) <= Room
  /\ 37 + MaxStrings * SubLine(Longest) + Line(Longest) <= Room
  /\ 2296 + MaxSlots * 51 <= Room
  /\ MaxDevices * (143 + Line(Longest)) <= Room
<1>1. HeaderText = 167
  BY DEF HeaderText, Line, LabelWidth, Digits, NameWidth, UnitWidth
<1>2. TablesText = 3465 /\ ListText = 204
  BY <1>1 DEF TablesText, ListText, Line, SubLine, LabelWidth, Digits, UnitWidth, Words0
<1>3. ControllerText = 2463
  BY <1>1 DEF ControllerText, Line, SubLine, LabelWidth, Digits, UnitWidth, pow2, Words5
<1>4. DeviceText = 143 /\ SubLine(7 + Digits(1)) = 51
  BY DEF DeviceText, Line, SubLine, LabelWidth, Digits, Words10
<1>5. Line(Longest) \in Nat
  BY LongestIs
<1> DEFINE strings == MaxStrings * SubLine(Longest)
           slots   == MaxSlots * 51
           devices == MaxDevices * (143 + Line(Longest))
<1>6. strings \in Nat /\ slots \in Nat /\ devices \in Nat
  BY <1>5, LongestIs, Times DEF MaxStrings, MaxSlots, MaxDevices
<1>7. /\ BufferSize \in Nat
      /\ 3465 + 6 * Line(Longest) < BufferSize
      /\ 204 + strings + Line(Longest) < BufferSize
      /\ 2463 + slots < BufferSize
      /\ 167 + devices < BufferSize
  BY LongestIs DEF BufferSize, MaxStrings, MaxSlots, MaxDevices
<1> HIDE DEF strings, slots, devices
<1>8. /\ Room \in Nat /\ Room + HeaderText = BufferSize - 1
      /\ 3298 + 6 * Line(Longest) <= Room
      /\ 37 + strings + Line(Longest) <= Room
      /\ 2296 + slots <= Room
      /\ devices <= Room
  BY <1>1, <1>5, <1>6, <1>7 DEF Room
<1> QED
  BY <1>1, <1>8 DEF strings, slots, devices

(* What one branch of a chain of ifs prints, at most.                         *)
BranchText == 102

LEMMA Cases2Short ==
  ASSUME NEW s, NEW m, NEW values, NEW once, NEW A, NEW B, NEW a \in 0 .. 63, NEW b \in 0 .. 63
  PROVE  Short(Cases(s, m, values, << <<A, a>>, <<B, b>> >>, once), 2 * BranchText)
<1> DEFINE branches == << <<A, a>>, <<B, b>> >>
<1>1. DOMAIN branches = 1 .. 2 /\ \A i \in 1 .. 2 : branches[i][2] \in 0 .. 63
  OBVIOUS
<1> HIDE DEF branches
<1>2. Short(Cases(s, m, values, branches, once), 2 * 102)
  BY <1>1, CasesShort
<1> QED
  BY <1>2 DEF branches, BranchText

LEMMA Cases3Short ==
  ASSUME NEW s, NEW m, NEW values, NEW once, NEW A, NEW B, NEW C,
         NEW a \in 0 .. 63, NEW b \in 0 .. 63, NEW c \in 0 .. 63
  PROVE  Short(Cases(s, m, values, << <<A, a>>, <<B, b>>, <<C, c>> >>, once), 3 * BranchText)
<1> DEFINE branches == << <<A, a>>, <<B, b>>, <<C, c>> >>
<1>1. DOMAIN branches = 1 .. 3 /\ \A i \in 1 .. 3 : branches[i][2] \in 0 .. 63
  OBVIOUS
<1> HIDE DEF branches
<1>2. Short(Cases(s, m, values, branches, once), 3 * 102)
  BY <1>1, CasesShort
<1> QED
  BY <1>2 DEF branches, BranchText

LEMMA ErrorHandleShort ==
  ASSUME NEW s, NEW w, w \in 0 .. 63
  PROVE  Short(ErrorHandle(s, w), 3 * BranchText)
BY Cases3Short, Zenon DEF ErrorHandle

LEMMA DeviceSizeFits == ASSUME NEW s PROVE Fits(DeviceSize(s), 406)
<1> DEFINE w == Digits(2) + UnitWidth
           a == Words17.size
           b == Words17.unknown
           n == 50
           x == Cases(s, "size", 0 .. WordMax,
                      << <<{0}, a>>, <<{WordMax}, b>>, <<1 .. WordMax - 1, w>> >>, TRUE)
<1>1. w = 11 /\ a \in 0 .. 63 /\ b \in 0 .. 63
  BY DEF Digits, UnitWidth, Words17
<1> HIDE DEF w, a, b
<1>2. w \in 0 .. 63 /\ w \in Nat /\ 39 + w <= n /\ n \in Nat
  BY <1>1
<1> HIDE DEF n
<1>3. Short(x, 3 * BranchText)
  BY <1>1, <1>2, Cases3Short, Zenon
<1> HIDE DEF x
<1>4. Short(Plain(s, "total_width", w), n) /\ Short(Plain(s, "data_width", w), n)
  BY <1>2, PlainShort, Zenon
<1>5. Fits(<< Plain(s, "total_width", w), Plain(s, "data_width", w), x >>,
        n + n + 3 * BranchText)
  BY <1>3, <1>4, Fit3, Zenon
<1>6. n + n + 3 * BranchText = 406
  BY DEF n, BranchText
<1>7. DeviceSize(s) = << Plain(s, "total_width", w), Plain(s, "data_width", w), x >>
  BY Zenon DEF DeviceSize, w, a, b, x
<1> QED
  BY <1>5, <1>6, <1>7

LEMMA DeviceSetFits == ASSUME NEW s PROVE Fits(DeviceSet(s), 306)
<1>1. Words17.set \in 0 .. 63 /\ Words17.unknown \in 0 .. 63 /\ Digits(1) \in 0 .. 63
  BY DEF Words17, Digits
<1> DEFINE A == {0}
           B == {\hFF}
           C == 1 .. \hFE
           values == Byte
           p == Words17.set
           u == Words17.unknown
           d == Digits(1)
           x == Cases(s, "device_set", values, << <<A, p>>, <<B, u>>, <<C, d>> >>, TRUE)
<1> HIDE DEF A, B, C, values
<1>2. Short(x, 3 * BranchText)
  BY <1>1, Cases3Short, Zenon
<1>3. DeviceSet(s) = <<x>>
  BY Zenon DEF DeviceSet, A, B, C, values
<1> HIDE DEF x
<1>4. Fits(DeviceSet(s), 3 * BranchText)
  BY <1>2, <1>3, Fit1, Zenon
<1> QED
  BY <1>4 DEF BranchText

LEMMA InterleavingFits == ASSUME NEW s PROVE Fits(Interleaving(s), 816)
<1> DEFINE A == {0}
           B == {\hFF}
           C == 1 .. \hFE
           values == Byte
           p == Words20.position
           u == Words20.unknown
           d == Digits(1)
<1>1. p \in 0 .. 63 /\ u \in 0 .. 63 /\ d \in 0 .. 63
  BY DEF Words20, Digits
<1> HIDE DEF A, B, C, values, p, u, d
<1> DEFINE special == << <<A, p>>, <<B, u>>, <<C, d>> >>
           x == Cases(s, "partition_row_position", values, Tail(special), FALSE)
           y == Cases(s, "interleave_position", values, special, TRUE)
           z == Cases(s, "interleaved_data_depth", values, special, TRUE)
<1>2. Tail(special) = << <<B, u>>, <<C, d>> >>
  OBVIOUS
<1>3. Short(Cases(s, "partition_row_position", values, << <<B, u>>, <<C, d>> >>, FALSE),
            2 * BranchText)
  BY <1>1, Cases2Short, Zenon
<1>4. Short(y, 3 * BranchText) /\ Short(z, 3 * BranchText)
  BY <1>1, Cases3Short, Zenon
<1>5. Short(x, 2 * BranchText)
  BY <1>2, <1>3
<1> HIDE DEF x, y, z
<1>6. Fits(<<x, y, z>>, 2 * BranchText + 3 * BranchText + 3 * BranchText)
  BY <1>4, <1>5, Fit3, Zenon
<1>7. 2 * BranchText + 3 * BranchText + 3 * BranchText = 816
  BY DEF BranchText
<1>8. Interleaving(s) = <<x, y, z>>
  BY Zenon DEF Interleaving, special, A, B, C, values, p, u, d, x, y, z
<1> QED
  BY <1>6, <1>7, <1>8

LEMMA SlotNumberFits == ASSUME NEW s PROVE Fits(SlotNumber(s), 84)
<1> DEFINE w == Digits(1)
           n == 42
           x == Optional(s, "id1", w)
           y == Plain(s, "id1", w)
           z == Plain(s, "id2", w)
           one == IF s.n \notin Numbered THEN <<>>
                  ELSE IF s.n \in {4, 5} THEN <<x>> ELSE <<y>>
           two == IF s.n \in Socketed THEN <<z>> ELSE <<>>
<1>1. w \in Nat /\ 39 + w <= n /\ n \in Nat /\ n + n = 84
  BY DEF Digits
<1>2. SlotNumber(s) = one \o two
  BY Zenon DEF SlotNumber
<1> HIDE DEF w, n
<1>3. Short(x, n) /\ Short(y, n) /\ Short(z, n)
  BY <1>1, OptionalShort, PlainShort, Zenon
<1> HIDE DEF x, y, z
<1>4. Fits(<<x>>, n) /\ Fits(<<y>>, n) /\ Fits(<<z>>, n) /\ Fits(<<>>, n)
  BY <1>1, <1>3, Fit1, FitsNothing, Zenon
<1>5. Fits(one, n)
  BY <1>4, Zenon
<1>6. Fits(two, n)
  BY <1>4, Zenon
<1> HIDE DEF one, two
<1>7. Fits(one \o two, n + n)
  BY <1>5, <1>6, FitsJoined, Zenon
<1> QED
  BY <1>1, <1>2, <1>7

(* A list of sub-lines under the condition c.                                 *)
LEMMA BitLinesFit ==
  ASSUME NEW c \in BOOLEAN, NEW m, NEW b, NEW bits \in Nat, NEW w \in Nat, NEW n \in Nat,
         bits * (41 + w) <= n
  PROVE  Fits(IF c THEN <<BitLines(m, b, bits, w)>> ELSE <<>>, n)
<1>1. Fits(<<BitLines(m, b, bits, w)>>, n)
  BY BitLinesShort, Fit1, Zenon
<1>2. Fits(<<>>, n)
  BY FitsNothing
<1> QED
  BY <1>1, <1>2, Zenon

LEMMA SlotCharacteristicsFit == ASSUME NEW s PROVE Fits(SlotCharacteristics(s), 917)
<1> DEFINE w == Words9.characteristics
<1>1. w = 39
  BY DEF Words9
<1> HIDE DEF w
<1> DEFINE m == 640
           n == 240
<1>2. w \in Nat /\ 8 * (41 + w) <= m /\ 3 * (41 + w) <= n /\ m \in Nat /\ n \in Nat
  BY <1>1
<1> HIDE DEF m, n
<1>3. Fits(Bits(s, "characteristics1", 8, w), 37 + m)
  <2>1. 8 \in Nat
    OBVIOUS
  <2> QED
    BY <2>1, <1>2, BitsFit, Zenon
<1>4. Fits(IF s.length > \h0C
        THEN <<BitLines("characteristics2", s.bytes.characteristics2, 3, w)>>
           ELSE <<>>, n)
  <2>1. 3 \in Nat
    OBVIOUS
  <2> QED
    BY <2>1, <1>2, BitLinesFit, Zenon
<1>5. Fits(SlotCharacteristics(s), (37 + m) + n)
  BY <1>3, <1>4, FitsJoined, Zenon DEF SlotCharacteristics, w
<1>6. (37 + m) + n = 917
  BY DEF m, n
<1> QED
  BY <1>5, <1>6

LEMMA ExtensionsFit == ASSUME NEW s PROVE Fits(BiosExtensions(s), 608)
<1> DEFINE v == Words0.ext1
           w == Words0.ext2
<1>1. v = 14 /\ w = 43
  BY DEF Words0
<1> HIDE DEF v, w
<1> DEFINE m == 440
           n == 168
<1>2. v \in Nat /\ 8 * (41 + v) <= m /\ m \in Nat /\ w \in Nat /\ 2 * (41 + w) <= n /\ n \in Nat
  BY <1>1
<1> HIDE DEF m, n
<1>3. Fits(IF s.length > \h12 THEN <<BitLines("ext1", s.bytes.ext1, 8, v)>> ELSE <<>>, m)
  <2>1. 8 \in Nat
    OBVIOUS
  <2> QED
    BY <2>1, <1>2, BitLinesFit, Zenon
<1>4. Fits(IF s.length > \h13 THEN <<BitLines("ext2", s.bytes.ext2, 2, w)>> ELSE <<>>, n)
  <2>1. 2 \in Nat
    OBVIOUS
  <2> QED
    BY <2>1, <1>2, BitLinesFit, Zenon
<1>5. Fits(BiosExtensions(s), m + n)
  BY <1>3, <1>4, FitsJoined, Zenon DEF BiosExtensions, v, w
<1>6. m + n = 608
  BY DEF m, n
<1> QED
  BY <1>5, <1>6

LEMMA BankFits == ASSUME NEW s, NEW m PROVE Fits(BankSize(s, m), 473)
<1> DEFINE w == Words6.size
           d == pow2 + UnitWidth
           A == {\h7F}
           B == {\h7E}
           C == {\h7D}
           D == 0 .. \h7C
           values == 0 .. \h7F
           x == Cases(s, m, values, << <<A, w>>, <<B, w>>, <<C, w>>, <<D, d>> >>, TRUE)
<1>1. w = 26 /\ d \in 0 .. 63
  BY DEF Words6, pow2, UnitWidth
<1> HIDE DEF w, d, A, B, C, D, values
<1> DEFINE n == 65
<1>2. w \in 0 .. 63 /\ w \in Nat /\ 39 + w <= n /\ n \in Nat
  BY <1>1
<1> HIDE DEF n
<1>3. Short(x, 4 * BranchText)
  <2> DEFINE a == w
             b == w
             c == w
  <2>1. a \in 0 .. 63 /\ b \in 0 .. 63 /\ c \in 0 .. 63
    BY <1>2
  <2>2. a = w /\ b = w /\ c = w
    OBVIOUS
  <2> HIDE DEF a, b, c
  <2> DEFINE branches == << <<A, a>>, <<B, b>>, <<C, c>>, <<D, d>> >>
  <2>3. DOMAIN branches = 1 .. 4 /\ \A i \in 1 .. 4 : branches[i][2] \in 0 .. 63
    BY <1>1, <2>1
  <2>4. x = Cases(s, m, values, branches, TRUE)
    BY <2>2
  <2> HIDE DEF branches, x
  <2>5. Short(Cases(s, m, values, branches, TRUE), 4 * 102)
    BY <2>3, CasesShort
  <2> QED
    BY <2>4, <2>5 DEF BranchText
<1> HIDE DEF x
<1>4. Short(Plain(s, m, w), n)
  BY <1>2, PlainShort, Zenon
<1>5. Fits(<<Plain(s, m, w), x>>, n + 4 * BranchText)
  BY <1>3, <1>4, Fit2, Zenon
<1>6. n + 4 * BranchText = 473
  BY DEF n, BranchText
<1>7. BankSize(s, m) = <<Plain(s, m, w), x>>
  BY Zenon DEF BankSize, w, d, A, B, C, D, values, x
<1> QED
  BY <1>5, <1>6, <1>7

LEMMA ProcessorVoltageFits == ASSUME NEW s PROVE Fits(ProcessorVoltage(s), 202)
<1> DEFINE outs == CurrentVoltage \union Voltages
<1>1. \A o \in CurrentVoltage : o.len = 45
  <2>1. Line(6) = 45
    BY DEF Line, LabelWidth
  <2> QED
    BY <2>1, LineLength DEF CurrentVoltage
<1>2. \A o \in Voltages : o.len \in Nat /\ o.len <= 202
  <2>1. SubLine(Words4.voltage) = 55 /\ LabelWidth + 2 = 37
    BY DEF SubLine, LabelWidth, Words4
  <2>2. \A k \in 0 .. 3 : 37 + k * 55 \in Nat /\ 37 + k * 55 <= 202
    OBVIOUS
  <2>3. \A k \in 0 .. 3 : Lines(1, 37 + k * 55, 55).len = 37 + k * 55
    BY DEF Lines
  <2> QED
    BY <2>1, <2>2, <2>3 DEF Voltages
<1>3. \A o \in outs : o.len \in Nat /\ o.len <= 202
  BY <1>1, <1>2
<1> HIDE DEF outs
<1>4. Short(Item("voltage", s.bytes.voltage, outs, TRUE), 202)
  BY <1>3 DEF Short, Item
<1> QED
  BY <1>4, Fit1, Zenon DEF ProcessorVoltage, outs

LEMMA DeviceTextsFit ==
  ASSUME NEW s \in Structures
  PROVE  Fits(DeviceTexts(s), 50 + 4 * Line(Longest))
<1> DEFINE w == Digits(2) + UnitWidth
           x == Line(Longest)
<1>1. w = 11 /\ x \in Nat
  BY LongestIs DEF Digits, UnitWidth
<1> HIDE DEF w
<1>2. w \in Nat /\ 39 + w <= 50 /\ 50 \in Nat
  BY <1>1
<1>3. Fits(<<Optional(s, "speed", w)>>, 50)
  BY <1>2, OptionalShort, Fit1, Zenon
<1>4. Fits(<< Text(s, "manufacturer"), Text(s, "serial_number"), Text(s, "asset_tag"),
              Text(s, "part_number") >>, x + x + x + x)
  BY TextShort, Fit4, Zenon
<1> HIDE DEF x
<1>5. x + x + x + x = 4 * x /\ 4 * x \in Nat
  BY <1>1
<1>6. Fits(<<>>, 50) /\ Fits(<<>>, 4 * x)
  BY <1>2, <1>5, FitsNothing
<1>7. Fits(IF s.length > \h15 THEN <<Optional(s, "speed", w)>> ELSE <<>>, 50)
  BY <1>3, <1>6, Zenon
<1>8. Fits(IF s.length > \h17
           THEN << Text(s, "manufacturer"), Text(s, "serial_number"), Text(s, "asset_tag"),
                   Text(s, "part_number") >>
           ELSE <<>>, 4 * x)
  <2>1. Fits(<< Text(s, "manufacturer"), Text(s, "serial_number"), Text(s, "asset_tag"),
                Text(s, "part_number") >>, 4 * x)
    BY <1>4, <1>5
  <2> QED
    BY <2>1, <1>6, Zenon
<1> QED
  BY <1>7, <1>8, FitsJoined, Zenon DEF DeviceTexts, w, x

LEMMA Type0Fits ==
  ASSUME NEW s \in Structures, s.type = 0
  PROVE  Fits(Type0(s), Room)
<1> DEFINE n1 == 93 + 3 * Line(Longest)
           n2 == 2597
           n3 == 608
<1>0. n1 + n2 + n3 <= Room /\ Room \in Nat
  BY RoomIs, LongestIs
<1> HIDE DEF n1, n2, n3
<1>1. Fits(<< Text(s, "vendor"), Text(s, "version"), Plain(s, "startaddr", 4), Text(s,
        "reldate"),
                 Plain(s, "romsize", Digits(2) + UnitWidth) >>, n1)
  <2> DEFINE w1 == 43
             w2 == 50
  <2> HIDE DEF w1, w2
  <2>1. Short(Text(s, "vendor"), Line(Longest))
    BY TextShort
  <2>2. Short(Text(s, "version"), Line(Longest))
    BY TextShort
  <2>3. Short(Plain(s, "startaddr", 4), w1)
    <3>1. 4 \in Nat /\ 39 + 4 <= w1 /\ w1 \in Nat
      BY DEF w1
    <3> QED
      BY <3>1, PlainShort, Zenon
  <2>4. Short(Text(s, "reldate"), Line(Longest))
    BY TextShort
  <2>5. Short(Plain(s, "romsize", Digits(2) + UnitWidth), w2)
    <3>1. Digits(2) + UnitWidth \in Nat /\ 39 + (Digits(2) + UnitWidth) <= w2 /\ w2 \in Nat
      BY DEF w2, Digits, UnitWidth
    <3> QED
      BY <3>1, PlainShort, Zenon
  <2>6. Fits(<< Text(s, "vendor"), Text(s, "version"), Plain(s, "startaddr", 4), Text(s,
          "reldate"),
                Plain(s, "romsize", Digits(2) + UnitWidth) >>,
             Line(Longest) + Line(Longest) + w1 + Line(Longest) + w2)
    <3> DEFINE a == Text(s, "vendor")
               b == Text(s, "version")
               c == Plain(s, "startaddr", 4)
               d == Text(s, "reldate")
               e == Plain(s, "romsize", Digits(2) + UnitWidth)
    <3>1. Short(a, Line(Longest)) /\ Short(b, Line(Longest)) /\ Short(c, w1)
            /\ Short(d, Line(Longest)) /\ Short(e, w2)
      BY <2>1, <2>2, <2>3, <2>4, <2>5
    <3> HIDE DEF a, b, c, d, e
    <3>2. Fits(<< a, b, c, d, e >>, Line(Longest) + Line(Longest) + w1 + Line(Longest) + w2)
      BY <3>1, Fit5, Zenon
    <3> QED
      BY <3>2, Zenon DEF a, b, c, d, e
  <2>7. Line(Longest) + Line(Longest) + w1 + Line(Longest) + w2 <= n1 /\ n1 \in Nat
    BY LongestIs DEF n1, w1, w2
  <2> QED
    BY <2>6, <2>7, FitsMore, Zenon
<1>2. Fits(BiosCharacteristics(s), n2)
  <2> DEFINE n == 2560
  <2>1. Words0.characteristics \in Nat /\ 32 * (41 + Words0.characteristics) <= n /\ n \in Nat
          /\ 32 \in Nat
    BY DEF Words0
  <2> HIDE DEF n
  <2>2. Fits(Bits(s, "characteristics", 32, Words0.characteristics), 37 + n)
    BY <2>1, BitsFit, Zenon
  <2>3. 37 + n = n2
    BY DEF n, n2
  <2> QED
    BY <2>2, <2>3 DEF BiosCharacteristics
<1>3. Fits(BiosExtensions(s), n3)
  BY ExtensionsFit DEF n3
<1> DEFINE a ==
        << Text(s, "vendor"), Text(s, "version"), Plain(s, "startaddr", 4), Text(s, "reldate"),
                 Plain(s, "romsize", Digits(2) + UnitWidth) >>
           b == BiosCharacteristics(s)
           c == BiosExtensions(s)
<1>4. Type0(s) = a \o b \o c
  BY Zenon DEF Type0
<1>5. Fits(a, n1) /\ Fits(b, n2) /\ Fits(c, n3)
  BY <1>1, <1>2, <1>3
<1> HIDE DEF a, b, c
<1>6. Fits(a \o b, n1 + n2)
  BY <1>5, FitsJoined, Zenon
<1>7. Fits(a \o b \o c, n1 + n2 + n3)
  BY <1>5, <1>6, FitsJoined, Zenon
<1> QED
  BY <1>0, <1>4, <1>7, FitsMore, Zenon

LEMMA Type1Fits ==
  ASSUME NEW s \in Structures, s.type = 1
  PROVE  Fits(Type1(s), Room)
<1> DEFINE n1 == 4 * Line(Longest)
           n2 == 143
<1>0. n1 + n2 <= Room /\ Room \in Nat
  BY RoomIs, LongestIs
<1> HIDE DEF n1, n2
<1>1. Fits(<< Text(s, "manufacturer"), Text(s, "productname"), Text(s, "version"), Text(s,
        "serialnumber") >>, n1)
  <2>1. Short(Text(s, "manufacturer"), Line(Longest))
    BY TextShort
  <2>2. Short(Text(s, "productname"), Line(Longest))
    BY TextShort
  <2>3. Short(Text(s, "version"), Line(Longest))
    BY TextShort
  <2>4. Short(Text(s, "serialnumber"), Line(Longest))
    BY TextShort
  <2>5. Fits(<< Text(s, "manufacturer"), Text(s, "productname"), Text(s, "version"), Text(s,
          "serialnumber") >>,
             Line(Longest) + Line(Longest) + Line(Longest) + Line(Longest))
    BY <2>1, <2>2, <2>3, <2>4, Fit4, Zenon
  <2>6. Line(Longest) + Line(Longest) + Line(Longest) + Line(Longest) <= n1 /\ n1 \in Nat
    BY LongestIs DEF n1
  <2> QED
    BY <2>5, <2>6, FitsMore, Zenon
<1>2. Fits(IF s.length > \h08
        THEN << Plain(s, "uuid", 48), Enum(s, "wakeuptype", Byte, 0 .. 8,
        Words1.wakeuptype) >> ELSE <<>>, n2)
  <2> DEFINE w1 == 56
             w2 == 87
  <2> HIDE DEF w1, w2
  <2>1. Short(Plain(s, "uuid", 48), w2)
    <3>1. 48 \in Nat /\ 39 + 48 <= w2 /\ w2 \in Nat
      BY DEF w2
    <3> QED
      BY <3>1, PlainShort, Zenon
  <2>2. Short(Enum(s, "wakeuptype", Byte, 0 .. 8, Words1.wakeuptype), w1)
    <3>1. Words1.wakeuptype \in Nat /\ 39 + Words1.wakeuptype <= w1 /\ 44 <= w1 /\ w1 \in Nat
      BY DEF w1, Words1
    <3> QED
      BY <3>1, EnumShort, Zenon
  <2>3. Fits(<< Plain(s, "uuid", 48), Enum(s, "wakeuptype", Byte, 0 .. 8, Words1.wakeuptype) >>,
             w2 + w1)
    BY <2>1, <2>2, Fit2, Zenon
  <2>4. w2 + w1 <= n2 /\ n2 \in Nat
    BY LongestIs DEF n2, w1, w2
  <2>5. Fits(<< Plain(s, "uuid", 48), Enum(s, "wakeuptype", Byte, 0 .. 8, Words1.wakeuptype) >>,
             n2)
    BY <2>3, <2>4, FitsMore, Zenon
  <2>6. Fits(<<>>, n2)
    BY <2>4, FitsNothing
  <2> QED
    BY <2>5, <2>6, Zenon
<1> DEFINE a ==
        << Text(s, "manufacturer"), Text(s, "productname"), Text(s, "version"), Text(s,
        "serialnumber") >>
           b == IF s.length > \h08
                   THEN << Plain(s, "uuid", 48), Enum(s, "wakeuptype", Byte, 0 .. 8,
                   Words1.wakeuptype) >> ELSE <<>>
<1>3. Type1(s) = a \o b
  BY Zenon DEF Type1
<1>4. Fits(a, n1) /\ Fits(b, n2)
  BY <1>1, <1>2
<1> HIDE DEF a, b
<1>5. Fits(a \o b, n1 + n2)
  BY <1>4, FitsJoined, Zenon
<1> QED
  BY <1>0, <1>3, <1>5, FitsMore, Zenon

LEMMA Type2Fits ==
  ASSUME NEW s \in Structures, s.type = 2
  PROVE  Fits(Type2(s), Room)
<1> DEFINE n == 4 * Line(Longest)
<1>0. n <= Room /\ Room \in Nat
  BY RoomIs, LongestIs
<1> HIDE DEF n
<1>1. Fits(<< Text(s, "manufacturer"), Text(s, "product"), Text(s, "version"), Text(s,
        "serialnumber") >>, n)
  <2>1. Short(Text(s, "manufacturer"), Line(Longest))
    BY TextShort
  <2>2. Short(Text(s, "product"), Line(Longest))
    BY TextShort
  <2>3. Short(Text(s, "version"), Line(Longest))
    BY TextShort
  <2>4. Short(Text(s, "serialnumber"), Line(Longest))
    BY TextShort
  <2>5. Fits(<< Text(s, "manufacturer"), Text(s, "product"), Text(s, "version"), Text(s,
          "serialnumber") >>,
             Line(Longest) + Line(Longest) + Line(Longest) + Line(Longest))
    BY <2>1, <2>2, <2>3, <2>4, Fit4, Zenon
  <2>6. Line(Longest) + Line(Longest) + Line(Longest) + Line(Longest) <= n /\ n \in Nat
    BY LongestIs DEF n
  <2> QED
    BY <2>5, <2>6, FitsMore, Zenon
<1> QED
  BY <1>0, <1>1, FitsMore, Zenon DEF Type2

LEMMA Type3Fits ==
  ASSUME NEW s \in Structures, s.type = 3
  PROVE  Fits(Type3(s), Room)
<1> DEFINE n1 == 121 + 4 * Line(Longest)
           n2 == 230
           n3 == 49
<1>0. n1 + n2 + n3 <= Room /\ Room \in Nat
  BY RoomIs, LongestIs
<1> HIDE DEF n1, n2, n3
<1>1. Fits(<< Text(s, "manufacturer"), Text(s, "version"), Text(s, "serialnumber"), Text(s,
        "asset_tag"),
                 Plain(s, "type", Words3.lock), Enum(s, "type", 0 .. 127, 1 .. 24,
                         Words3.type) >>, n1)
  <2> DEFINE w1 == 60
             w2 == 61
  <2> HIDE DEF w1, w2
  <2>1. Short(Text(s, "manufacturer"), Line(Longest))
    BY TextShort
  <2>2. Short(Text(s, "version"), Line(Longest))
    BY TextShort
  <2>3. Short(Text(s, "serialnumber"), Line(Longest))
    BY TextShort
  <2>4. Short(Text(s, "asset_tag"), Line(Longest))
    BY TextShort
  <2>5. Short(Plain(s, "type", Words3.lock), w2)
    <3>1. Words3.lock \in Nat /\ 39 + Words3.lock <= w2 /\ w2 \in Nat
      BY DEF w2, Words3
    <3> QED
      BY <3>1, PlainShort, Zenon
  <2>6. Short(Enum(s, "type", 0 .. 127, 1 .. 24, Words3.type), w1)
    <3>1. Words3.type \in Nat /\ 39 + Words3.type <= w1 /\ 44 <= w1 /\ w1 \in Nat
      BY DEF w1, Words3
    <3> QED
      BY <3>1, EnumShort, Zenon
  <2>7. Fits(<< Text(s, "manufacturer"), Text(s, "version"), Text(s, "serialnumber"), Text(s,
          "asset_tag"),
                Plain(s, "type", Words3.lock), Enum(s, "type", 0 .. 127, 1 .. 24,
                        Words3.type) >>,
             Line(Longest) + Line(Longest) + Line(Longest) + Line(Longest) + w2 + w1)
    <3> DEFINE a == Text(s, "manufacturer")
               b == Text(s, "version")
               c == Text(s, "serialnumber")
               d == Text(s, "asset_tag")
               e == Plain(s, "type", Words3.lock)
               f == Enum(s, "type", 0 .. 127, 1 .. 24, Words3.type)
    <3>1. Short(a, Line(Longest)) /\ Short(b, Line(Longest)) /\ Short(c, Line(Longest))
            /\ Short(d, Line(Longest)) /\ Short(e, w2) /\ Short(f, w1)
      BY <2>1, <2>2, <2>3, <2>4, <2>5, <2>6
    <3> HIDE DEF a, b, c, d, e, f
    <3>2. Fits(<< a, b, c, d, e, f >>,
            Line(Longest) + Line(Longest) + Line(Longest) + Line(Longest) + w2 + w1)
      BY <3>1, Fit6, Zenon
    <3> QED
      BY <3>2, Zenon DEF a, b, c, d, e, f
  <2>8. Line(Longest) + Line(Longest) + Line(Longest) + Line(Longest) + w2 + w1 <= n1
          /\ n1 \in Nat
    BY LongestIs DEF n1, w1, w2
  <2> QED
    BY <2>7, <2>8, FitsMore, Zenon
<1>2. Fits(IF s.length > \h09 THEN EnclosureStates(s) ELSE <<>>, n2)
  <2> DEFINE w1 == 54
             w2 == 68
  <2> HIDE DEF w1, w2
  <2>1. Short(Enum(s, "bootup_state", Byte, 1 .. 6, Words3.state), w1)
    <3>1. Words3.state \in Nat /\ 39 + Words3.state <= w1 /\ 44 <= w1 /\ w1 \in Nat
      BY DEF w1, Words3
    <3> QED
      BY <3>1, EnumShort, Zenon
  <2>2. Short(Enum(s, "pwr_supply_state", Byte, 1 .. 6, Words3.state), w1)
    <3>1. Words3.state \in Nat /\ 39 + Words3.state <= w1 /\ 44 <= w1 /\ w1 \in Nat
      BY DEF w1, Words3
    <3> QED
      BY <3>1, EnumShort, Zenon
  <2>3. Short(Enum(s, "thermal_state", Byte, 1 .. 6, Words3.state), w1)
    <3>1. Words3.state \in Nat /\ 39 + Words3.state <= w1 /\ 44 <= w1 /\ w1 \in Nat
      BY DEF w1, Words3
    <3> QED
      BY <3>1, EnumShort, Zenon
  <2>4. Short(Enum(s, "security_state", Byte, 1 .. 5, Words3.security), w2)
    <3>1. Words3.security \in Nat /\ 39 + Words3.security <= w2 /\ 44 <= w2 /\ w2 \in Nat
      BY DEF w2, Words3
    <3> QED
      BY <3>1, EnumShort, Zenon
  <2>5. Fits(<< Enum(s, "bootup_state", Byte, 1 .. 6, Words3.state),
                Enum(s, "pwr_supply_state", Byte, 1 .. 6, Words3.state),
                Enum(s, "thermal_state", Byte, 1 .. 6, Words3.state),
                Enum(s, "security_state", Byte, 1 .. 5, Words3.security) >>,
             w1 + w1 + w1 + w2)
    BY <2>1, <2>2, <2>3, <2>4, Fit4, Zenon
  <2>6. w1 + w1 + w1 + w2 <= n2 /\ n2 \in Nat
    BY LongestIs DEF n2, w1, w2
  <2>7. Fits(<< Enum(s, "bootup_state", Byte, 1 .. 6, Words3.state),
                Enum(s, "pwr_supply_state", Byte, 1 .. 6, Words3.state),
                Enum(s, "thermal_state", Byte, 1 .. 6, Words3.state),
                Enum(s, "security_state", Byte, 1 .. 5, Words3.security) >>,
             n2)
    BY <2>5, <2>6, FitsMore, Zenon
  <2>8. Fits(<<>>, n2)
    BY <2>6, FitsNothing
  <2> QED
    BY <2>7, <2>8, Zenon DEF EnclosureStates
<1>3. Fits(IF s.length > \h0D THEN << Plain(s, "oem_defined", 10) >> ELSE <<>>, n3)
  <2> DEFINE w1 == 49
  <2> HIDE DEF w1
  <2>1. Short(Plain(s, "oem_defined", 10), w1)
    <3>1. 10 \in Nat /\ 39 + 10 <= w1 /\ w1 \in Nat
      BY DEF w1
    <3> QED
      BY <3>1, PlainShort, Zenon
  <2>2. Fits(<< Plain(s, "oem_defined", 10) >>,
             w1)
    BY <2>1, Fit1, Zenon
  <2>3. w1 <= n3 /\ n3 \in Nat
    BY LongestIs DEF n3, w1
  <2>4. Fits(<< Plain(s, "oem_defined", 10) >>,
             n3)
    BY <2>2, <2>3, FitsMore, Zenon
  <2>5. Fits(<<>>, n3)
    BY <2>3, FitsNothing
  <2> QED
    BY <2>4, <2>5, Zenon
<1> DEFINE a ==
        << Text(s, "manufacturer"), Text(s, "version"), Text(s, "serialnumber"), Text(s,
        "asset_tag"),
                 Plain(s, "type", Words3.lock), Enum(s, "type", 0 .. 127, 1 .. 24,
                         Words3.type) >>
           b == IF s.length > \h09 THEN EnclosureStates(s) ELSE <<>>
           c == IF s.length > \h0D THEN << Plain(s, "oem_defined", 10) >> ELSE <<>>
<1>4. Type3(s) = a \o b \o c
  BY Zenon DEF Type3
<1>5. Fits(a, n1) /\ Fits(b, n2) /\ Fits(c, n3)
  BY <1>1, <1>2, <1>3
<1> HIDE DEF a, b, c
<1>6. Fits(a \o b, n1 + n2)
  BY <1>5, FitsJoined, Zenon
<1>7. Fits(a \o b \o c, n1 + n2 + n3)
  BY <1>5, <1>6, FitsJoined, Zenon
<1> QED
  BY <1>0, <1>4, <1>7, FitsMore, Zenon

LEMMA Type4Fits ==
  ASSUME NEW s \in Structures, s.type = 4
  PROVE  Fits(Type4(s), Room)
<1> DEFINE n1 == 214 + 3 * Line(Longest)
           n2 == 202
           n3 == 150
           n4 == 191
           n5 == 132
           n6 == 3 * Line(Longest)
<1>0. n1 + n2 + n3 + n4 + n5 + n6 <= Room /\ Room \in Nat
  BY RoomIs, LongestIs
<1> HIDE DEF n1, n2, n3, n4, n5, n6
<1>1. Fits(<< Text(s, "socket_designation"), Enum(s, "type", Byte, 1 .. 6, Words4.type),
                 Enum(s, "family", Byte, ProcessorFamilies, Words4Family),
                 Text(s, "manufacturer"), Plain(s, "id", 24), Text(s, "version") >>, n1)
  <2> DEFINE w1 == 56
             w2 == 63
             w3 == 95
  <2> HIDE DEF w1, w2, w3
  <2>1. Short(Text(s, "socket_designation"), Line(Longest))
    BY TextShort
  <2>2. Short(Enum(s, "type", Byte, 1 .. 6, Words4.type), w1)
    <3>1. Words4.type \in Nat /\ 39 + Words4.type <= w1 /\ 44 <= w1 /\ w1 \in Nat
      BY DEF w1, Words4
    <3> QED
      BY <3>1, EnumShort, Zenon
  <2>3. Short(Enum(s, "family", Byte, ProcessorFamilies, Words4Family), w3)
    <3>1. Words4Family \in Nat /\ 39 + Words4Family <= w3 /\ 44 <= w3 /\ w3 \in Nat
      BY DEF w3, Words4Family
    <3> QED
      BY <3>1, EnumShort, Zenon
  <2>4. Short(Text(s, "manufacturer"), Line(Longest))
    BY TextShort
  <2>5. Short(Plain(s, "id", 24), w2)
    <3>1. 24 \in Nat /\ 39 + 24 <= w2 /\ w2 \in Nat
      BY DEF w2
    <3> QED
      BY <3>1, PlainShort, Zenon
  <2>6. Short(Text(s, "version"), Line(Longest))
    BY TextShort
  <2>7. Fits(<< Text(s, "socket_designation"), Enum(s, "type", Byte, 1 .. 6, Words4.type),
                Enum(s, "family", Byte, ProcessorFamilies, Words4Family),
                Text(s, "manufacturer"), Plain(s, "id", 24), Text(s, "version") >>,
             Line(Longest) + w1 + w3 + Line(Longest) + w2 + Line(Longest))
    <3> DEFINE a == Text(s, "socket_designation")
               b == Enum(s, "type", Byte, 1 .. 6, Words4.type)
               c == Enum(s, "family", Byte, ProcessorFamilies, Words4Family)
               d == Text(s, "manufacturer")
               e == Plain(s, "id", 24)
               f == Text(s, "version")
    <3>1. Short(a, Line(Longest)) /\ Short(b, w1) /\ Short(c, w3) /\ Short(d, Line(Longest))
            /\ Short(e, w2) /\ Short(f, Line(Longest))
      BY <2>1, <2>2, <2>3, <2>4, <2>5, <2>6
    <3> HIDE DEF a, b, c, d, e, f
    <3>2. Fits(<< a, b, c, d, e, f >>,
            Line(Longest) + w1 + w3 + Line(Longest) + w2 + Line(Longest))
      BY <3>1, Fit6, Zenon
    <3> QED
      BY <3>2, Zenon DEF a, b, c, d, e, f
  <2>8. Line(Longest) + w1 + w3 + Line(Longest) + w2 + Line(Longest) <= n1 /\ n1 \in Nat
    BY LongestIs DEF n1, w1, w2, w3
  <2> QED
    BY <2>7, <2>8, FitsMore, Zenon
<1>2. Fits(ProcessorVoltage(s), n2)
  BY ProcessorVoltageFits DEF n2
<1>3. Fits(ProcessorSpeeds(s), n3)
  <2> DEFINE w1 == 50
  <2> HIDE DEF w1
  <2>1. Short(Optional(s, "external_clock", Digits(2) + UnitWidth), w1)
    <3>1. Digits(2) + UnitWidth \in Nat /\ 39 + (Digits(2) + UnitWidth) <= w1 /\ w1 \in Nat
      BY DEF w1, Digits, UnitWidth
    <3> QED
      BY <3>1, OptionalShort, Zenon
  <2>2. Short(Optional(s, "max_speed", Digits(2) + UnitWidth), w1)
    <3>1. Digits(2) + UnitWidth \in Nat /\ 39 + (Digits(2) + UnitWidth) <= w1 /\ w1 \in Nat
      BY DEF w1, Digits, UnitWidth
    <3> QED
      BY <3>1, OptionalShort, Zenon
  <2>3. Short(Optional(s, "current_speed", Digits(2) + UnitWidth), w1)
    <3>1. Digits(2) + UnitWidth \in Nat /\ 39 + (Digits(2) + UnitWidth) <= w1 /\ w1 \in Nat
      BY DEF w1, Digits, UnitWidth
    <3> QED
      BY <3>1, OptionalShort, Zenon
  <2>4. Fits(<< Optional(s, "external_clock", Digits(2) + UnitWidth),
                Optional(s, "max_speed", Digits(2) + UnitWidth),
                Optional(s, "current_speed", Digits(2) + UnitWidth) >>,
             w1 + w1 + w1)
    BY <2>1, <2>2, <2>3, Fit3, Zenon
  <2>5. w1 + w1 + w1 <= n3 /\ n3 \in Nat
    BY LongestIs DEF n3, w1
  <2> QED
    BY <2>4, <2>5, FitsMore, Zenon DEF ProcessorSpeeds
<1>4. Fits(<< Enum(s, "status", 0 .. 7, (0 .. 4) \union {7}, Words4.status),
                 Plain(s, "status", Words4.socket),
                 Enum(s, "upgrade", Byte, 1 .. 15, Words4.upgrade) >>, n4)
  <2> DEFINE w1 == 57
             w2 == 60
             w3 == 74
  <2> HIDE DEF w1, w2, w3
  <2>1. Short(Enum(s, "status", 0 .. 7, (0 .. 4) \union {7}, Words4.status), w3)
    <3>1. Words4.status \in Nat /\ 39 + Words4.status <= w3 /\ 44 <= w3 /\ w3 \in Nat
      BY DEF w3, Words4
    <3> QED
      BY <3>1, EnumShort, Zenon
  <2>2. Short(Plain(s, "status", Words4.socket), w1)
    <3>1. Words4.socket \in Nat /\ 39 + Words4.socket <= w1 /\ w1 \in Nat
      BY DEF w1, Words4
    <3> QED
      BY <3>1, PlainShort, Zenon
  <2>3. Short(Enum(s, "upgrade", Byte, 1 .. 15, Words4.upgrade), w2)
    <3>1. Words4.upgrade \in Nat /\ 39 + Words4.upgrade <= w2 /\ 44 <= w2 /\ w2 \in Nat
      BY DEF w2, Words4
    <3> QED
      BY <3>1, EnumShort, Zenon
  <2>4. Fits(<< Enum(s, "status", 0 .. 7, (0 .. 4) \union {7}, Words4.status),
                Plain(s, "status", Words4.socket),
                Enum(s, "upgrade", Byte, 1 .. 15, Words4.upgrade) >>,
             w3 + w1 + w2)
    BY <2>1, <2>2, <2>3, Fit3, Zenon
  <2>5. w3 + w1 + w2 <= n4 /\ n4 \in Nat
    BY LongestIs DEF n4, w1, w2, w3
  <2> QED
    BY <2>4, <2>5, FitsMore, Zenon
<1>5. Fits(ProcessorCaches(s), n5)
  <2> DEFINE w1 == 44
  <2> HIDE DEF w1
  <2>1. Short(Optional(s, "l1_cache_handle", Digits(2)), w1)
    <3>1. Digits(2) \in Nat /\ 39 + Digits(2) <= w1 /\ w1 \in Nat
      BY DEF w1, Digits
    <3> QED
      BY <3>1, OptionalShort, Zenon
  <2>2. Short(Optional(s, "l2_cache_handle", Digits(2)), w1)
    <3>1. Digits(2) \in Nat /\ 39 + Digits(2) <= w1 /\ w1 \in Nat
      BY DEF w1, Digits
    <3> QED
      BY <3>1, OptionalShort, Zenon
  <2>3. Short(Optional(s, "l3_cache_handle", Digits(2)), w1)
    <3>1. Digits(2) \in Nat /\ 39 + Digits(2) <= w1 /\ w1 \in Nat
      BY DEF w1, Digits
    <3> QED
      BY <3>1, OptionalShort, Zenon
  <2>4. Fits(<< Optional(s, "l1_cache_handle", Digits(2)), Optional(s, "l2_cache_handle",
          Digits(2)),
                Optional(s, "l3_cache_handle", Digits(2)) >>,
             w1 + w1 + w1)
    BY <2>1, <2>2, <2>3, Fit3, Zenon
  <2>5. w1 + w1 + w1 <= n5 /\ n5 \in Nat
    BY LongestIs DEF n5, w1
  <2>6. Fits(<< Optional(s, "l1_cache_handle", Digits(2)),
                Optional(s, "l2_cache_handle", Digits(2)),
                Optional(s, "l3_cache_handle", Digits(2)) >>,
             n5)
    BY <2>4, <2>5, FitsMore, Zenon
  <2>7. Fits(<<>>, n5)
    BY <2>5, FitsNothing
  <2> QED
    BY <2>6, <2>7, Zenon DEF ProcessorCaches
<1>6. Fits(ProcessorTexts(s), n6)
  <2>1. Short(Text(s, "serialnumber"), Line(Longest))
    BY TextShort
  <2>2. Short(Text(s, "asset_tag"), Line(Longest))
    BY TextShort
  <2>3. Short(Text(s, "part_number"), Line(Longest))
    BY TextShort
  <2>4. Fits(<< Text(s, "serialnumber"), Text(s, "asset_tag"), Text(s, "part_number") >>,
             Line(Longest) + Line(Longest) + Line(Longest))
    BY <2>1, <2>2, <2>3, Fit3, Zenon
  <2>5. Line(Longest) + Line(Longest) + Line(Longest) <= n6 /\ n6 \in Nat
    BY LongestIs DEF n6
  <2>6. Fits(<< Text(s, "serialnumber"), Text(s, "asset_tag"), Text(s, "part_number") >>,
             n6)
    BY <2>4, <2>5, FitsMore, Zenon
  <2>7. Fits(<<>>, n6)
    BY <2>5, FitsNothing
  <2> QED
    BY <2>6, <2>7, Zenon DEF ProcessorTexts
<1> DEFINE a == << Text(s, "socket_designation"), Enum(s, "type", Byte, 1 .. 6, Words4.type),
                 Enum(s, "family", Byte, ProcessorFamilies, Words4Family),
                 Text(s, "manufacturer"), Plain(s, "id", 24), Text(s, "version") >>
           b == ProcessorVoltage(s)
           c == ProcessorSpeeds(s)
           d == << Enum(s, "status", 0 .. 7, (0 .. 4) \union {7}, Words4.status),
                 Plain(s, "status", Words4.socket),
                 Enum(s, "upgrade", Byte, 1 .. 15, Words4.upgrade) >>
           e == ProcessorCaches(s)
           f == ProcessorTexts(s)
<1>7. Type4(s) = a \o b \o c \o d \o e \o f
  BY Zenon DEF Type4
<1>8. Fits(a, n1) /\ Fits(b, n2) /\ Fits(c, n3) /\ Fits(d, n4) /\ Fits(e, n5) /\ Fits(f, n6)
  BY <1>1, <1>2, <1>3, <1>4, <1>5, <1>6
<1> HIDE DEF a, b, c, d, e, f
<1>9. Fits(a \o b, n1 + n2)
  BY <1>8, FitsJoined, Zenon
<1>10. Fits(a \o b \o c, n1 + n2 + n3)
  BY <1>8, <1>9, FitsJoined, Zenon
<1>11. Fits(a \o b \o c \o d, n1 + n2 + n3 + n4)
  BY <1>8, <1>10, FitsJoined, Zenon
<1>12. Fits(a \o b \o c \o d \o e, n1 + n2 + n3 + n4 + n5)
  BY <1>8, <1>11, FitsJoined, Zenon
<1>13. Fits(a \o b \o c \o d \o e \o f, n1 + n2 + n3 + n4 + n5 + n6)
  BY <1>8, <1>12, FitsJoined, Zenon
<1> QED
  BY <1>0, <1>7, <1>13, FitsMore, Zenon

LEMMA Type6Fits ==
  ASSUME NEW s \in Structures, s.type = 6
  PROVE  Fits(Type6(s), Room)
<1> DEFINE n1 == 94 + Line(Longest)
           n2 == 642
           n3 == 473
           n4 == 473
           n5 == 325
<1>0. n1 + n2 + n3 + n4 + n5 <= Room /\ Room \in Nat
  BY RoomIs, LongestIs
<1> HIDE DEF n1, n2, n3, n4, n5
<1>1. Fits(<< Text(s, "designation"), Plain(s, "connection", 7),
                 Optional(s, "current_speed", Digits(1) + UnitWidth) >>, n1)
  <2> DEFINE w1 == 46
             w2 == 48
  <2> HIDE DEF w1, w2
  <2>1. Short(Text(s, "designation"), Line(Longest))
    BY TextShort
  <2>2. Short(Plain(s, "connection", 7), w1)
    <3>1. 7 \in Nat /\ 39 + 7 <= w1 /\ w1 \in Nat
      BY DEF w1
    <3> QED
      BY <3>1, PlainShort, Zenon
  <2>3. Short(Optional(s, "current_speed", Digits(1) + UnitWidth), w2)
    <3>1. Digits(1) + UnitWidth \in Nat /\ 39 + (Digits(1) + UnitWidth) <= w2 /\ w2 \in Nat
      BY DEF w2, Digits, UnitWidth
    <3> QED
      BY <3>1, OptionalShort, Zenon
  <2>4. Fits(<< Text(s, "designation"), Plain(s, "connection", 7),
                Optional(s, "current_speed", Digits(1) + UnitWidth) >>,
             Line(Longest) + w1 + w2)
    BY <2>1, <2>2, <2>3, Fit3, Zenon
  <2>5. Line(Longest) + w1 + w2 <= n1 /\ n1 \in Nat
    BY LongestIs DEF n1, w1, w2
  <2> QED
    BY <2>4, <2>5, FitsMore, Zenon
<1>2. Fits(Bits(s, "current_type", 11, Words6.types), n2)
  <2> DEFINE n == 605
  <2>1. Words6.types \in Nat /\ 11 * (41 + Words6.types) <= n /\ n \in Nat /\ 11 \in Nat
    BY DEF Words6
  <2> HIDE DEF n
  <2>2. Fits(Bits(s, "current_type", 11, Words6.types), 37 + n)
    BY <2>1, BitsFit, Zenon
  <2>3. 37 + n = n2
    BY DEF n, n2
  <2> QED
    BY <2>2, <2>3
<1>3. Fits(BankSize(s, "installed_size"), n3)
  BY BankFits DEF n3
<1>4. Fits(BankSize(s, "enabled_size"), n4)
  BY BankFits DEF n4
<1>5. Fits(Bits(s, "status", 3, Words6.status), n5)
  <2> DEFINE n == 288
  <2>1. Words6.status \in Nat /\ 3 * (41 + Words6.status) <= n /\ n \in Nat /\ 3 \in Nat
    BY DEF Words6
  <2> HIDE DEF n
  <2>2. Fits(Bits(s, "status", 3, Words6.status), 37 + n)
    BY <2>1, BitsFit, Zenon
  <2>3. 37 + n = n5
    BY DEF n, n5
  <2> QED
    BY <2>2, <2>3
<1> DEFINE a == << Text(s, "designation"), Plain(s, "connection", 7),
                 Optional(s, "current_speed", Digits(1) + UnitWidth) >>
           b == Bits(s, "current_type", 11, Words6.types)
           c == BankSize(s, "installed_size")
           d == BankSize(s, "enabled_size")
           e == Bits(s, "status", 3, Words6.status)
<1>6. Type6(s) = a \o b \o c \o d \o e
  BY Zenon DEF Type6
<1>7. Fits(a, n1) /\ Fits(b, n2) /\ Fits(c, n3) /\ Fits(d, n4) /\ Fits(e, n5)
  BY <1>1, <1>2, <1>3, <1>4, <1>5
<1> HIDE DEF a, b, c, d, e
<1>8. Fits(a \o b, n1 + n2)
  BY <1>7, FitsJoined, Zenon
<1>9. Fits(a \o b \o c, n1 + n2 + n3)
  BY <1>7, <1>8, FitsJoined, Zenon
<1>10. Fits(a \o b \o c \o d, n1 + n2 + n3 + n4)
  BY <1>7, <1>9, FitsJoined, Zenon
<1>11. Fits(a \o b \o c \o d \o e, n1 + n2 + n3 + n4 + n5)
  BY <1>7, <1>10, FitsJoined, Zenon
<1> QED
  BY <1>0, <1>6, <1>11, FitsMore, Zenon

LEMMA Type7Fits ==
  ASSUME NEW s \in Structures, s.type = 7
  PROVE  Fits(Type7(s), Room)
<1> DEFINE n1 == Line(Longest)
           n2 == 263
           n3 == 104
           n4 == 415
           n5 == 415
           n6 == 219
<1>0. n1 + n2 + n3 + n4 + n5 + n6 <= Room /\ Room \in Nat
  BY RoomIs, LongestIs
<1> HIDE DEF n1, n2, n3, n4, n5, n6
<1>1. Fits(<< Text(s, "designation") >>, n1)
  <2>1. Short(Text(s, "designation"), Line(Longest))
    BY TextShort
  <2>2. Fits(<< Text(s, "designation") >>,
             Line(Longest))
    BY <2>1, Fit1, Zenon
  <2>3. Line(Longest) <= n1 /\ n1 \in Nat
    BY LongestIs DEF n1
  <2> QED
    BY <2>2, <2>3, FitsMore, Zenon
<1>2. Fits(CacheConfiguration(s), n2)
  <2> DEFINE w1 == 40
             w2 == 47
             w3 == 58
             w4 == 59
  <2> HIDE DEF w1, w2, w3, w4
  <2>1. Short(Enum(s, "configuration", 0 .. 3, 0 .. 3, Words7.mode), w3)
    <3>1. Words7.mode \in Nat /\ 39 + Words7.mode <= w3 /\ 44 <= w3 /\ w3 \in Nat
      BY DEF w3, Words7
    <3> QED
      BY <3>1, EnumShort, Zenon
  <2>2. Short(Enum(s, "configuration", 0 .. 1, 0 .. 1, Words7.enabled), w4)
    <3>1. Words7.enabled \in Nat /\ 39 + Words7.enabled <= w4 /\ 44 <= w4 /\ w4 \in Nat
      BY DEF w4, Words7
    <3> QED
      BY <3>1, EnumShort, Zenon
  <2>3. Short(Enum(s, "configuration", 0 .. 3, 0 .. 3, Words7.location), w2)
    <3>1. Words7.location \in Nat /\ 39 + Words7.location <= w2 /\ 44 <= w2 /\ w2 \in Nat
      BY DEF w2, Words7
    <3> QED
      BY <3>1, EnumShort, Zenon
  <2>4. Short(Enum(s, "configuration", 0 .. 1, 0 .. 1, Words7.enabled), w4)
    <3>1. Words7.enabled \in Nat /\ 39 + Words7.enabled <= w4 /\ 44 <= w4 /\ w4 \in Nat
      BY DEF w4, Words7
    <3> QED
      BY <3>1, EnumShort, Zenon
  <2>5. Short(Plain(s, "configuration", 1), w1)
    <3>1. 1 \in Nat /\ 39 + 1 <= w1 /\ w1 \in Nat
      BY DEF w1
    <3> QED
      BY <3>1, PlainShort, Zenon
  <2>6. Fits(<< Enum(s, "configuration", 0 .. 3, 0 .. 3, Words7.mode),
                Enum(s, "configuration", 0 .. 1, 0 .. 1, Words7.enabled),
                Enum(s, "configuration", 0 .. 3, 0 .. 3, Words7.location),
                Enum(s, "configuration", 0 .. 1, 0 .. 1, Words7.enabled),
                Plain(s, "configuration", 1) >>,
             w3 + w4 + w2 + w4 + w1)
    <3> DEFINE a == Enum(s, "configuration", 0 .. 3, 0 .. 3, Words7.mode)
               b == Enum(s, "configuration", 0 .. 1, 0 .. 1, Words7.enabled)
               c == Enum(s, "configuration", 0 .. 3, 0 .. 3, Words7.location)
               d == Enum(s, "configuration", 0 .. 1, 0 .. 1, Words7.enabled)
               e == Plain(s, "configuration", 1)
    <3>1. Short(a, w3) /\ Short(b, w4) /\ Short(c, w2) /\ Short(d, w4) /\ Short(e, w1)
      BY <2>1, <2>2, <2>3, <2>4, <2>5
    <3> HIDE DEF a, b, c, d, e
    <3>2. Fits(<< a, b, c, d, e >>, w3 + w4 + w2 + w4 + w1)
      BY <3>1, Fit5, Zenon
    <3> QED
      BY <3>2, Zenon DEF a, b, c, d, e
  <2>7. w3 + w4 + w2 + w4 + w1 <= n2 /\ n2 \in Nat
    BY LongestIs DEF n2, w1, w2, w3, w4
  <2> QED
    BY <2>6, <2>7, FitsMore, Zenon DEF CacheConfiguration
<1>3. Fits(<< Plain(s, "max_size", 7 + UnitWidth), Plain(s, "installed_size",
        7 + UnitWidth) >>, n3)
  <2> DEFINE w1 == 52
  <2> HIDE DEF w1
  <2>1. Short(Plain(s, "max_size", 7 + UnitWidth), w1)
    <3>1. 7 + UnitWidth \in Nat /\ 39 + (7 + UnitWidth) <= w1 /\ w1 \in Nat
      BY DEF w1, UnitWidth
    <3> QED
      BY <3>1, PlainShort, Zenon
  <2>2. Short(Plain(s, "installed_size", 7 + UnitWidth), w1)
    <3>1. 7 + UnitWidth \in Nat /\ 39 + (7 + UnitWidth) <= w1 /\ w1 \in Nat
      BY DEF w1, UnitWidth
    <3> QED
      BY <3>1, PlainShort, Zenon
  <2>3. Fits(<< Plain(s, "max_size", 7 + UnitWidth), Plain(s, "installed_size",
          7 + UnitWidth) >>,
             w1 + w1)
    BY <2>1, <2>2, Fit2, Zenon
  <2>4. w1 + w1 <= n3 /\ n3 \in Nat
    BY LongestIs DEF n3, w1
  <2> QED
    BY <2>3, <2>4, FitsMore, Zenon
<1>4. Fits(Bits(s, "supported_sram", 7, Words7.sram), n4)
  <2> DEFINE n == 378
  <2>1. Words7.sram \in Nat /\ 7 * (41 + Words7.sram) <= n /\ n \in Nat /\ 7 \in Nat
    BY DEF Words7
  <2> HIDE DEF n
  <2>2. Fits(Bits(s, "supported_sram", 7, Words7.sram), 37 + n)
    BY <2>1, BitsFit, Zenon
  <2>3. 37 + n = n4
    BY DEF n, n4
  <2> QED
    BY <2>2, <2>3
<1>5. Fits(Bits(s, "current_sram", 7, Words7.sram), n5)
  <2> DEFINE n == 378
  <2>1. Words7.sram \in Nat /\ 7 * (41 + Words7.sram) <= n /\ n \in Nat /\ 7 \in Nat
    BY DEF Words7
  <2> HIDE DEF n
  <2>2. Fits(Bits(s, "current_sram", 7, Words7.sram), 37 + n)
    BY <2>1, BitsFit, Zenon
  <2>3. 37 + n = n5
    BY DEF n, n5
  <2> QED
    BY <2>2, <2>3
<1>6. Fits(CacheKind(s), n6)
  <2> DEFINE w1 == 48
             w2 == 50
             w3 == 60
             w4 == 61
  <2> HIDE DEF w1, w2, w3, w4
  <2>1. Short(Optional(s, "speed", Digits(1) + UnitWidth), w1)
    <3>1. Digits(1) + UnitWidth \in Nat /\ 39 + (Digits(1) + UnitWidth) <= w1 /\ w1 \in Nat
      BY DEF w1, Digits, UnitWidth
    <3> QED
      BY <3>1, OptionalShort, Zenon
  <2>2. Short(Enum(s, "ecc_type", Byte, 1 .. 6, Words7.ecc), w3)
    <3>1. Words7.ecc \in Nat /\ 39 + Words7.ecc <= w3 /\ 44 <= w3 /\ w3 \in Nat
      BY DEF w3, Words7
    <3> QED
      BY <3>1, EnumShort, Zenon
  <2>3. Short(Enum(s, "cache_type", Byte, 1 .. 5, Words7.type), w2)
    <3>1. Words7.type \in Nat /\ 39 + Words7.type <= w2 /\ 44 <= w2 /\ w2 \in Nat
      BY DEF w2, Words7
    <3> QED
      BY <3>1, EnumShort, Zenon
  <2>4. Short(Enum(s, "associativity", Byte, 1 .. 8, Words7.associativity), w4)
    <3>1. Words7.associativity \in Nat /\ 39 + Words7.associativity <= w4 /\ 44 <= w4
            /\ w4 \in Nat
      BY DEF w4, Words7
    <3> QED
      BY <3>1, EnumShort, Zenon
  <2>5. Fits(<< Optional(s, "speed", Digits(1) + UnitWidth), Enum(s, "ecc_type", Byte, 1 .. 6,
          Words7.ecc),
                Enum(s, "cache_type", Byte, 1 .. 5, Words7.type),
                Enum(s, "associativity", Byte, 1 .. 8, Words7.associativity) >>,
             w1 + w3 + w2 + w4)
    BY <2>1, <2>2, <2>3, <2>4, Fit4, Zenon
  <2>6. w1 + w3 + w2 + w4 <= n6 /\ n6 \in Nat
    BY LongestIs DEF n6, w1, w2, w3, w4
  <2>7. Fits(<< Optional(s, "speed", Digits(1) + UnitWidth),
                Enum(s, "ecc_type", Byte, 1 .. 6, Words7.ecc),
                Enum(s, "cache_type", Byte, 1 .. 5, Words7.type),
                Enum(s, "associativity", Byte, 1 .. 8, Words7.associativity) >>,
             n6)
    BY <2>5, <2>6, FitsMore, Zenon
  <2>8. Fits(<<>>, n6)
    BY <2>6, FitsNothing
  <2> QED
    BY <2>7, <2>8, Zenon DEF CacheKind
<1> DEFINE a == << Text(s, "designation") >>
           b == CacheConfiguration(s)
           c == << Plain(s, "max_size", 7 + UnitWidth), Plain(s, "installed_size",
                   7 + UnitWidth) >>
           d == Bits(s, "supported_sram", 7, Words7.sram)
           e == Bits(s, "current_sram", 7, Words7.sram)
           f == CacheKind(s)
<1>7. Type7(s) = a \o b \o c \o d \o e \o f
  BY Zenon DEF Type7
<1>8. Fits(a, n1) /\ Fits(b, n2) /\ Fits(c, n3) /\ Fits(d, n4) /\ Fits(e, n5) /\ Fits(f, n6)
  BY <1>1, <1>2, <1>3, <1>4, <1>5, <1>6
<1> HIDE DEF a, b, c, d, e, f
<1>9. Fits(a \o b, n1 + n2)
  BY <1>8, FitsJoined, Zenon
<1>10. Fits(a \o b \o c, n1 + n2 + n3)
  BY <1>8, <1>9, FitsJoined, Zenon
<1>11. Fits(a \o b \o c \o d, n1 + n2 + n3 + n4)
  BY <1>8, <1>10, FitsJoined, Zenon
<1>12. Fits(a \o b \o c \o d \o e, n1 + n2 + n3 + n4 + n5)
  BY <1>8, <1>11, FitsJoined, Zenon
<1>13. Fits(a \o b \o c \o d \o e \o f, n1 + n2 + n3 + n4 + n5 + n6)
  BY <1>8, <1>12, FitsJoined, Zenon
<1> QED
  BY <1>0, <1>7, <1>13, FitsMore, Zenon

LEMMA Type8Fits ==
  ASSUME NEW s \in Structures, s.type = 8
  PROVE  Fits(Type8(s), Room)
<1> DEFINE n == 219 + 2 * Line(Longest)
<1>0. n <= Room /\ Room \in Nat
  BY RoomIs, LongestIs
<1> HIDE DEF n
<1>1. Fits(<< Text(s, "internal_designation"), Enum(s, "internal_type", Byte, Connectors,
        Words8Connector),
                 Text(s, "external_designation"),
                 Enum(s, "external_type", Byte, Connectors, Words8Connector),
                 Enum(s, "type", Byte, PortTypes, Words8Port) >>, n)
  <2> DEFINE w1 == 69
             w2 == 75
  <2> HIDE DEF w1, w2
  <2>1. Short(Text(s, "internal_designation"), Line(Longest))
    BY TextShort
  <2>2. Short(Enum(s, "internal_type", Byte, Connectors, Words8Connector), w2)
    <3>1. Words8Connector \in Nat /\ 39 + Words8Connector <= w2 /\ 44 <= w2 /\ w2 \in Nat
      BY DEF w2, Words8Connector
    <3> QED
      BY <3>1, EnumShort, Zenon
  <2>3. Short(Text(s, "external_designation"), Line(Longest))
    BY TextShort
  <2>4. Short(Enum(s, "external_type", Byte, Connectors, Words8Connector), w2)
    <3>1. Words8Connector \in Nat /\ 39 + Words8Connector <= w2 /\ 44 <= w2 /\ w2 \in Nat
      BY DEF w2, Words8Connector
    <3> QED
      BY <3>1, EnumShort, Zenon
  <2>5. Short(Enum(s, "type", Byte, PortTypes, Words8Port), w1)
    <3>1. Words8Port \in Nat /\ 39 + Words8Port <= w1 /\ 44 <= w1 /\ w1 \in Nat
      BY DEF w1, Words8Port
    <3> QED
      BY <3>1, EnumShort, Zenon
  <2>6. Fits(<< Text(s, "internal_designation"), Enum(s, "internal_type", Byte, Connectors,
          Words8Connector),
                Text(s, "external_designation"),
                Enum(s, "external_type", Byte, Connectors, Words8Connector),
                Enum(s, "type", Byte, PortTypes, Words8Port) >>,
             Line(Longest) + w2 + Line(Longest) + w2 + w1)
    <3> DEFINE a == Text(s, "internal_designation")
               b == Enum(s, "internal_type", Byte, Connectors, Words8Connector)
               c == Text(s, "external_designation")
               d == Enum(s, "external_type", Byte, Connectors, Words8Connector)
               e == Enum(s, "type", Byte, PortTypes, Words8Port)
    <3>1. Short(a, Line(Longest)) /\ Short(b, w2) /\ Short(c, Line(Longest)) /\ Short(d, w2)
            /\ Short(e, w1)
      BY <2>1, <2>2, <2>3, <2>4, <2>5
    <3> HIDE DEF a, b, c, d, e
    <3>2. Fits(<< a, b, c, d, e >>, Line(Longest) + w2 + Line(Longest) + w2 + w1)
      BY <3>1, Fit5, Zenon
    <3> QED
      BY <3>2, Zenon DEF a, b, c, d, e
  <2>7. Line(Longest) + w2 + Line(Longest) + w2 + w1 <= n /\ n \in Nat
    BY LongestIs DEF n, w1, w2
  <2> QED
    BY <2>6, <2>7, FitsMore, Zenon
<1> QED
  BY <1>0, <1>1, FitsMore, Zenon DEF Type8

LEMMA Type9Fits ==
  ASSUME NEW s \in Structures, s.type = 9
  PROVE  Fits(Type9(s), Room)
<1> DEFINE n1 == 212 + Line(Longest)
           n2 == 84
           n3 == 917
<1>0. n1 + n2 + n3 <= Room /\ Room \in Nat
  BY RoomIs, LongestIs
<1> HIDE DEF n1, n2, n3
<1>1. Fits(<< Text(s, "designation"), Enum(s, "type", {s.n}, (1 .. 18)
        \union (160 .. 164), Words9.type),
                 Enum(s, "width", Byte, 1 .. 7, Words9.width),
                 Enum(s, "usage", Byte, 1 .. 4, Words9.usage),
                 Enum(s, "length", Byte, 1 .. 4, Words9.length) >>, n1)
  <2> DEFINE w1 == 46
             w2 == 48
             w3 == 51
             w4 == 67
  <2> HIDE DEF w1, w2, w3, w4
  <2>1. Short(Text(s, "designation"), Line(Longest))
    BY TextShort
  <2>2. Short(Enum(s, "type", {s.n}, (1 .. 18) \union (160 .. 164), Words9.type), w4)
    <3>1. Words9.type \in Nat /\ 39 + Words9.type <= w4 /\ 44 <= w4 /\ w4 \in Nat
      BY DEF w4, Words9
    <3> QED
      BY <3>1, EnumShort, Zenon
  <2>3. Short(Enum(s, "width", Byte, 1 .. 7, Words9.width), w1)
    <3>1. Words9.width \in Nat /\ 39 + Words9.width <= w1 /\ 44 <= w1 /\ w1 \in Nat
      BY DEF w1, Words9
    <3> QED
      BY <3>1, EnumShort, Zenon
  <2>4. Short(Enum(s, "usage", Byte, 1 .. 4, Words9.usage), w2)
    <3>1. Words9.usage \in Nat /\ 39 + Words9.usage <= w2 /\ 44 <= w2 /\ w2 \in Nat
      BY DEF w2, Words9
    <3> QED
      BY <3>1, EnumShort, Zenon
  <2>5. Short(Enum(s, "length", Byte, 1 .. 4, Words9.length), w3)
    <3>1. Words9.length \in Nat /\ 39 + Words9.length <= w3 /\ 44 <= w3 /\ w3 \in Nat
      BY DEF w3, Words9
    <3> QED
      BY <3>1, EnumShort, Zenon
  <2>6. Fits(<< Text(s, "designation"), Enum(s, "type", {s.n}, (1 .. 18)
          \union (160 .. 164), Words9.type),
                Enum(s, "width", Byte, 1 .. 7, Words9.width),
                Enum(s, "usage", Byte, 1 .. 4, Words9.usage),
                Enum(s, "length", Byte, 1 .. 4, Words9.length) >>,
             Line(Longest) + w4 + w1 + w2 + w3)
    <3> DEFINE a == Text(s, "designation")
               b == Enum(s, "type", {s.n}, (1 .. 18) \union (160 .. 164), Words9.type)
               c == Enum(s, "width", Byte, 1 .. 7, Words9.width)
               d == Enum(s, "usage", Byte, 1 .. 4, Words9.usage)
               e == Enum(s, "length", Byte, 1 .. 4, Words9.length)
    <3>1. Short(a, Line(Longest)) /\ Short(b, w4) /\ Short(c, w1) /\ Short(d, w2)
            /\ Short(e, w3)
      BY <2>1, <2>2, <2>3, <2>4, <2>5
    <3> HIDE DEF a, b, c, d, e
    <3>2. Fits(<< a, b, c, d, e >>, Line(Longest) + w4 + w1 + w2 + w3)
      BY <3>1, Fit5, Zenon
    <3> QED
      BY <3>2, Zenon DEF a, b, c, d, e
  <2>7. Line(Longest) + w4 + w1 + w2 + w3 <= n1 /\ n1 \in Nat
    BY LongestIs DEF n1, w1, w2, w3, w4
  <2> QED
    BY <2>6, <2>7, FitsMore, Zenon
<1>2. Fits(SlotNumber(s), n2)
  BY SlotNumberFits DEF n2
<1>3. Fits(SlotCharacteristics(s), n3)
  BY SlotCharacteristicsFit DEF n3
<1> DEFINE a == << Text(s, "designation"), Enum(s, "type", {s.n}, (1 .. 18)
        \union (160 .. 164), Words9.type),
                 Enum(s, "width", Byte, 1 .. 7, Words9.width),
                 Enum(s, "usage", Byte, 1 .. 4, Words9.usage),
                 Enum(s, "length", Byte, 1 .. 4, Words9.length) >>
           b == SlotNumber(s)
           c == SlotCharacteristics(s)
<1>4. Type9(s) = a \o b \o c
  BY Zenon DEF Type9
<1>5. Fits(a, n1) /\ Fits(b, n2) /\ Fits(c, n3)
  BY <1>1, <1>2, <1>3
<1> HIDE DEF a, b, c
<1>6. Fits(a \o b, n1 + n2)
  BY <1>5, FitsJoined, Zenon
<1>7. Fits(a \o b \o c, n1 + n2 + n3)
  BY <1>5, <1>6, FitsJoined, Zenon
<1> QED
  BY <1>0, <1>4, <1>7, FitsMore, Zenon

LEMMA Type16Fits ==
  ASSUME NEW s \in Structures, s.type = 16
  PROVE  Fits(Type16(s), Room)
<1> DEFINE n == 582
<1>0. n <= Room /\ Room \in Nat
  BY RoomIs, LongestIs
<1> HIDE DEF n
<1>1. Fits(<< Enum(s, "location", Byte, (1 .. 10) \union (160 .. 164), Words16.location),
                 Enum(s, "use", Byte, 1 .. 7, Words16.use),
                 Enum(s, "ecc", Byte, 1 .. 7, Words16.ecc),
                 Plain(s, "max_capacity", Digits(4) + UnitWidth), ErrorHandle(s, Words16.error),
                 Plain(s, "nr_of_devices", Digits(2)) >>, n)
  <2> DEFINE w1 == 44
             w2 == 53
             w3 == 55
             w4 == 58
             w5 == 66
             w6 == 306
  <2> HIDE DEF w1, w2, w3, w4, w5, w6
  <2>1. Short(Enum(s, "location", Byte, (1 .. 10) \union (160 .. 164), Words16.location), w5)
    <3>1. Words16.location \in Nat /\ 39 + Words16.location <= w5 /\ 44 <= w5 /\ w5 \in Nat
      BY DEF w5, Words16
    <3> QED
      BY <3>1, EnumShort, Zenon
  <2>2. Short(Enum(s, "use", Byte, 1 .. 7, Words16.use), w4)
    <3>1. Words16.use \in Nat /\ 39 + Words16.use <= w4 /\ 44 <= w4 /\ w4 \in Nat
      BY DEF w4, Words16
    <3> QED
      BY <3>1, EnumShort, Zenon
  <2>3. Short(Enum(s, "ecc", Byte, 1 .. 7, Words16.ecc), w2)
    <3>1. Words16.ecc \in Nat /\ 39 + Words16.ecc <= w2 /\ 44 <= w2 /\ w2 \in Nat
      BY DEF w2, Words16
    <3> QED
      BY <3>1, EnumShort, Zenon
  <2>4. Short(Plain(s, "max_capacity", Digits(4) + UnitWidth), w3)
    <3>1. Digits(4) + UnitWidth \in Nat /\ 39 + (Digits(4) + UnitWidth) <= w3 /\ w3 \in Nat
      BY DEF w3, Digits, UnitWidth
    <3> QED
      BY <3>1, PlainShort, Zenon
  <2>5. Short(ErrorHandle(s, Words16.error), w6)
    BY ErrorHandleShort DEF Words16, BranchText, w6
  <2>6. Short(Plain(s, "nr_of_devices", Digits(2)), w1)
    <3>1. Digits(2) \in Nat /\ 39 + Digits(2) <= w1 /\ w1 \in Nat
      BY DEF w1, Digits
    <3> QED
      BY <3>1, PlainShort, Zenon
  <2>7. Fits(<< Enum(s, "location", Byte, (1 .. 10) \union (160 .. 164), Words16.location),
                Enum(s, "use", Byte, 1 .. 7, Words16.use),
                Enum(s, "ecc", Byte, 1 .. 7, Words16.ecc),
                Plain(s, "max_capacity", Digits(4) + UnitWidth), ErrorHandle(s, Words16.error),
                Plain(s, "nr_of_devices", Digits(2)) >>,
             w5 + w4 + w2 + w3 + w6 + w1)
    <3> DEFINE a == Enum(s, "location", Byte, (1 .. 10) \union (160 .. 164), Words16.location)
               b == Enum(s, "use", Byte, 1 .. 7, Words16.use)
               c == Enum(s, "ecc", Byte, 1 .. 7, Words16.ecc)
               d == Plain(s, "max_capacity", Digits(4) + UnitWidth)
               e == ErrorHandle(s, Words16.error)
               f == Plain(s, "nr_of_devices", Digits(2))
    <3>1. Short(a, w5) /\ Short(b, w4) /\ Short(c, w2) /\ Short(d, w3) /\ Short(e, w6)
            /\ Short(f, w1)
      BY <2>1, <2>2, <2>3, <2>4, <2>5, <2>6
    <3> HIDE DEF a, b, c, d, e, f
    <3>2. Fits(<< a, b, c, d, e, f >>, w5 + w4 + w2 + w3 + w6 + w1)
      BY <3>1, Fit6, Zenon
    <3> QED
      BY <3>2, Zenon DEF a, b, c, d, e, f
  <2>8. w5 + w4 + w2 + w3 + w6 + w1 <= n /\ n \in Nat
    BY LongestIs DEF n, w1, w2, w3, w4, w5, w6
  <2> QED
    BY <2>7, <2>8, FitsMore, Zenon
<1> QED
  BY <1>0, <1>1, FitsMore, Zenon DEF Type16

LEMMA Type17Fits ==
  ASSUME NEW s \in Structures, s.type = 17
  PROVE  Fits(Type17(s), Room)
<1> DEFINE n1 == 350
           n2 == 406
           n3 == 55
           n4 == 306
           n5 == 46 + 2 * Line(Longest)
           n6 == 739
           n7 == 50 + 4 * Line(Longest)
<1>0. n1 + n2 + n3 + n4 + n5 + n6 + n7 <= Room /\ Room \in Nat
  BY RoomIs, LongestIs
<1> HIDE DEF n1, n2, n3, n4, n5, n6, n7
<1>1. Fits(<< Plain(s, "memory_array_handle", Digits(2)), ErrorHandle(s, Words17.error) >>, n1)
  <2> DEFINE w1 == 44
             w2 == 306
  <2> HIDE DEF w1, w2
  <2>1. Short(Plain(s, "memory_array_handle", Digits(2)), w1)
    <3>1. Digits(2) \in Nat /\ 39 + Digits(2) <= w1 /\ w1 \in Nat
      BY DEF w1, Digits
    <3> QED
      BY <3>1, PlainShort, Zenon
  <2>2. Short(ErrorHandle(s, Words17.error), w2)
    BY ErrorHandleShort DEF Words17, BranchText, w2
  <2>3. Fits(<< Plain(s, "memory_array_handle", Digits(2)), ErrorHandle(s, Words17.error) >>,
             w1 + w2)
    BY <2>1, <2>2, Fit2, Zenon
  <2>4. w1 + w2 <= n1 /\ n1 \in Nat
    BY LongestIs DEF n1, w1, w2
  <2> QED
    BY <2>3, <2>4, FitsMore, Zenon
<1>2. Fits(DeviceSize(s), n2)
  BY DeviceSizeFits DEF n2
<1>3. Fits(<< Enum(s, "form_factor", Byte, 1 .. 14, Words17.form) >>, n3)
  <2> DEFINE w1 == 55
  <2> HIDE DEF w1
  <2>1. Short(Enum(s, "form_factor", Byte, 1 .. 14, Words17.form), w1)
    <3>1. Words17.form \in Nat /\ 39 + Words17.form <= w1 /\ 44 <= w1 /\ w1 \in Nat
      BY DEF w1, Words17
    <3> QED
      BY <3>1, EnumShort, Zenon
  <2>2. Fits(<< Enum(s, "form_factor", Byte, 1 .. 14, Words17.form) >>,
             w1)
    BY <2>1, Fit1, Zenon
  <2>3. w1 <= n3 /\ n3 \in Nat
    BY LongestIs DEF n3, w1
  <2> QED
    BY <2>2, <2>3, FitsMore, Zenon
<1>4. Fits(DeviceSet(s), n4)
  BY DeviceSetFits DEF n4
<1>5. Fits(<< Text(s, "device_locator"), Text(s, "bank_locator"),
                 Enum(s, "mem_type", Byte, 1 .. 18, Words17.type) >>, n5)
  <2> DEFINE w1 == 46
  <2> HIDE DEF w1
  <2>1. Short(Text(s, "device_locator"), Line(Longest))
    BY TextShort
  <2>2. Short(Text(s, "bank_locator"), Line(Longest))
    BY TextShort
  <2>3. Short(Enum(s, "mem_type", Byte, 1 .. 18, Words17.type), w1)
    <3>1. Words17.type \in Nat /\ 39 + Words17.type <= w1 /\ 44 <= w1 /\ w1 \in Nat
      BY DEF w1, Words17
    <3> QED
      BY <3>1, EnumShort, Zenon
  <2>4. Fits(<< Text(s, "device_locator"), Text(s, "bank_locator"),
                Enum(s, "mem_type", Byte, 1 .. 18, Words17.type) >>,
             Line(Longest) + Line(Longest) + w1)
    BY <2>1, <2>2, <2>3, Fit3, Zenon
  <2>5. Line(Longest) + Line(Longest) + w1 <= n5 /\ n5 \in Nat
    BY LongestIs DEF n5, w1
  <2> QED
    BY <2>4, <2>5, FitsMore, Zenon
<1>6. Fits(TypeDetail(s), n6)
  <2> DEFINE n == 702
  <2>1. Words17.detail \in Nat /\ 13 * (41 + Words17.detail) <= n /\ n \in Nat /\ 13 \in Nat
    BY DEF Words17
  <2> HIDE DEF n
  <2>2. Fits(Bits(s, "type_detail", 13, Words17.detail), 37 + n)
    BY <2>1, BitsFit, Zenon
  <2>3. 37 + n = n6
    BY DEF n, n6
  <2> QED
    BY <2>2, <2>3 DEF TypeDetail
<1>7. Fits(DeviceTexts(s), n7)
  BY DeviceTextsFit DEF n7
<1> DEFINE a == << Plain(s, "memory_array_handle", Digits(2)), ErrorHandle(s, Words17.error) >>
           b == DeviceSize(s)
           c == << Enum(s, "form_factor", Byte, 1 .. 14, Words17.form) >>
           d == DeviceSet(s)
           e == << Text(s, "device_locator"), Text(s, "bank_locator"),
                 Enum(s, "mem_type", Byte, 1 .. 18, Words17.type) >>
           f == TypeDetail(s)
           g == DeviceTexts(s)
<1>8. Type17(s) = a \o b \o c \o d \o e \o f \o g
  BY Zenon DEF Type17
<1>9. Fits(a, n1) /\ Fits(b, n2) /\ Fits(c, n3) /\ Fits(d, n4) /\ Fits(e, n5) /\ Fits(f, n6)
        /\ Fits(g, n7)
  BY <1>1, <1>2, <1>3, <1>4, <1>5, <1>6, <1>7
<1> HIDE DEF a, b, c, d, e, f, g
<1>10. Fits(a \o b, n1 + n2)
  BY <1>9, FitsJoined, Zenon
<1>11. Fits(a \o b \o c, n1 + n2 + n3)
  BY <1>9, <1>10, FitsJoined, Zenon
<1>12. Fits(a \o b \o c \o d, n1 + n2 + n3 + n4)
  BY <1>9, <1>11, FitsJoined, Zenon
<1>13. Fits(a \o b \o c \o d \o e, n1 + n2 + n3 + n4 + n5)
  BY <1>9, <1>12, FitsJoined, Zenon
<1>14. Fits(a \o b \o c \o d \o e \o f, n1 + n2 + n3 + n4 + n5 + n6)
  BY <1>9, <1>13, FitsJoined, Zenon
<1>15. Fits(a \o b \o c \o d \o e \o f \o g, n1 + n2 + n3 + n4 + n5 + n6 + n7)
  BY <1>9, <1>14, FitsJoined, Zenon
<1> QED
  BY <1>0, <1>8, <1>15, FitsMore, Zenon

LEMMA Type19Fits ==
  ASSUME NEW s \in Structures, s.type = 19
  PROVE  Fits(Type19(s), Room)
<1> DEFINE n == 184
<1>0. n <= Room /\ Room \in Nat
  BY RoomIs, LongestIs
<1> HIDE DEF n
<1>1. Fits(<< Plain(s, "starting_adr", 10), Plain(s, "ending_adr", 10),
                 Plain(s, "mem_array_handle", Digits(2)), Plain(s, "partition_width",
                         Digits(1)) >>, n)
  <2> DEFINE w1 == 42
             w2 == 44
             w3 == 49
  <2> HIDE DEF w1, w2, w3
  <2>1. Short(Plain(s, "starting_adr", 10), w3)
    <3>1. 10 \in Nat /\ 39 + 10 <= w3 /\ w3 \in Nat
      BY DEF w3
    <3> QED
      BY <3>1, PlainShort, Zenon
  <2>2. Short(Plain(s, "ending_adr", 10), w3)
    <3>1. 10 \in Nat /\ 39 + 10 <= w3 /\ w3 \in Nat
      BY DEF w3
    <3> QED
      BY <3>1, PlainShort, Zenon
  <2>3. Short(Plain(s, "mem_array_handle", Digits(2)), w2)
    <3>1. Digits(2) \in Nat /\ 39 + Digits(2) <= w2 /\ w2 \in Nat
      BY DEF w2, Digits
    <3> QED
      BY <3>1, PlainShort, Zenon
  <2>4. Short(Plain(s, "partition_width", Digits(1)), w1)
    <3>1. Digits(1) \in Nat /\ 39 + Digits(1) <= w1 /\ w1 \in Nat
      BY DEF w1, Digits
    <3> QED
      BY <3>1, PlainShort, Zenon
  <2>5. Fits(<< Plain(s, "starting_adr", 10), Plain(s, "ending_adr", 10),
                Plain(s, "mem_array_handle", Digits(2)), Plain(s, "partition_width",
                        Digits(1)) >>,
             w3 + w3 + w2 + w1)
    BY <2>1, <2>2, <2>3, <2>4, Fit4, Zenon
  <2>6. w3 + w3 + w2 + w1 <= n /\ n \in Nat
    BY LongestIs DEF n, w1, w2, w3
  <2> QED
    BY <2>5, <2>6, FitsMore, Zenon
<1> QED
  BY <1>0, <1>1, FitsMore, Zenon DEF Type19

LEMMA Type20Fits ==
  ASSUME NEW s \in Structures, s.type = 20
  PROVE  Fits(Type20(s), Room)
<1> DEFINE n1 == 186
           n2 == 816
<1>0. n1 + n2 <= Room /\ Room \in Nat
  BY RoomIs, LongestIs
<1> HIDE DEF n1, n2
<1>1. Fits(<< Plain(s, "starting_adr", 10), Plain(s, "ending_adr", 10),
                 Plain(s, "mem_dev_handle", Digits(2)),
                 Plain(s, "mem_array_mapped_adr_handle", Digits(2)) >>, n1)
  <2> DEFINE w1 == 44
             w2 == 49
  <2> HIDE DEF w1, w2
  <2>1. Short(Plain(s, "starting_adr", 10), w2)
    <3>1. 10 \in Nat /\ 39 + 10 <= w2 /\ w2 \in Nat
      BY DEF w2
    <3> QED
      BY <3>1, PlainShort, Zenon
  <2>2. Short(Plain(s, "ending_adr", 10), w2)
    <3>1. 10 \in Nat /\ 39 + 10 <= w2 /\ w2 \in Nat
      BY DEF w2
    <3> QED
      BY <3>1, PlainShort, Zenon
  <2>3. Short(Plain(s, "mem_dev_handle", Digits(2)), w1)
    <3>1. Digits(2) \in Nat /\ 39 + Digits(2) <= w1 /\ w1 \in Nat
      BY DEF w1, Digits
    <3> QED
      BY <3>1, PlainShort, Zenon
  <2>4. Short(Plain(s, "mem_array_mapped_adr_handle", Digits(2)), w1)
    <3>1. Digits(2) \in Nat /\ 39 + Digits(2) <= w1 /\ w1 \in Nat
      BY DEF w1, Digits
    <3> QED
      BY <3>1, PlainShort, Zenon
  <2>5. Fits(<< Plain(s, "starting_adr", 10), Plain(s, "ending_adr", 10),
                Plain(s, "mem_dev_handle", Digits(2)),
                Plain(s, "mem_array_mapped_adr_handle", Digits(2)) >>,
             w2 + w2 + w1 + w1)
    BY <2>1, <2>2, <2>3, <2>4, Fit4, Zenon
  <2>6. w2 + w2 + w1 + w1 <= n1 /\ n1 \in Nat
    BY LongestIs DEF n1, w1, w2
  <2> QED
    BY <2>5, <2>6, FitsMore, Zenon
<1>2. Fits(Interleaving(s), n2)
  BY InterleavingFits DEF n2
<1> DEFINE a == << Plain(s, "starting_adr", 10), Plain(s, "ending_adr", 10),
                 Plain(s, "mem_dev_handle", Digits(2)),
                 Plain(s, "mem_array_mapped_adr_handle", Digits(2)) >>
           b == Interleaving(s)
<1>3. Type20(s) = a \o b
  BY Zenon DEF Type20
<1>4. Fits(a, n1) /\ Fits(b, n2)
  BY <1>1, <1>2
<1> HIDE DEF a, b
<1>5. Fits(a \o b, n1 + n2)
  BY <1>4, FitsJoined, Zenon
<1> QED
  BY <1>0, <1>3, <1>5, FitsMore, Zenon

LEMMA Type32Fits ==
  ASSUME NEW s \in Structures, s.type = 32
  PROVE  Fits(Type32(s), Room)
<1> DEFINE n == 86
<1>0. n <= Room /\ Room \in Nat
  BY RoomIs, LongestIs
<1> HIDE DEF n
<1>1. Fits(<< Enum(s, "status", Byte, 0 .. 8, Words32) >>, n)
  <2> DEFINE w1 == 86
  <2> HIDE DEF w1
  <2>1. Short(Enum(s, "status", Byte, 0 .. 8, Words32), w1)
    <3>1. Words32 \in Nat /\ 39 + Words32 <= w1 /\ 44 <= w1 /\ w1 \in Nat
      BY DEF w1, Words32
    <3> QED
      BY <3>1, EnumShort, Zenon
  <2>2. Fits(<< Enum(s, "status", Byte, 0 .. 8, Words32) >>,
             w1)
    BY <2>1, Fit1, Zenon
  <2>3. w1 <= n /\ n \in Nat
    BY LongestIs DEF n, w1
  <2> QED
    BY <2>2, <2>3, FitsMore, Zenon
<1> QED
  BY <1>0, <1>1, FitsMore, Zenon DEF Type32

-----------------------------------------------------------------------------
(* The text fits the buffer. *)

LEMMA Grows ==
  ASSUME NEW k \in Nat, NEW n \in Nat, k <= n, NEW c \in Nat
  PROVE  k * c <= n * c
<1> DEFINE d == n - k
<1>1. d \in Nat /\ n = k + d
  OBVIOUS
<1> HIDE DEF d
<1>2. (k + d) * c = k * c + d * c
  BY <1>1
<1>3. d * c \in Nat /\ k * c \in Nat
  BY <1>1, Times
<1> QED
  BY <1>1, <1>2, <1>3

(* A list whose members are lists that are alike.                             *)
LEMMA FitsFlat ==
  ASSUME NEW T, NEW n \in Nat, NEW c \in Nat, NEW q \in [1 .. n -> Seq(T)],
         \A i \in 1 .. n : Fits(q[i], c)
  PROVE  Fits(FlattenSeq(q), n * c)
<1>1. CASE n = 0
  <2>1. FlattenSeq(q) = <<>> /\ n * c \in Nat
    BY <1>1 DEF FlattenSeq
  <2> QED
    BY <2>1, FitsNothing
<1>2. CASE n > 0
  <2>1. PICK g : /\ g = [i \in 1 .. n |-> IF i = 1 THEN q[i] ELSE g[i - 1] \o q[i]]
                 /\ FlattenSeq(q) = g[n]
    BY <1>2, Flattening
  <2> DEFINE R == {m \in Nat : m + 1 <= n => Fits(g[m + 1], (m + 1) * c)}
  <2>2. 0 \in R
    <3>1. 1 \in 1 .. n /\ 0 + 1 = 1 /\ 1 * c = c
      BY <1>2
    <3>2. g[1] = q[1]
      BY <2>1, <3>1
    <3> QED
      BY <3>1, <3>2
  <2>3. ASSUME NEW m \in Nat, m \in R PROVE m + 1 \in R
    <3> SUFFICES ASSUME (m + 1) + 1 <= n PROVE Fits(g[(m + 1) + 1], ((m + 1) + 1) * c)
      OBVIOUS
    <3>1. (m + 1) + 1 \in 1 .. n /\ (m + 1) + 1 # 1 /\ ((m + 1) + 1) - 1 = m + 1 /\ m + 1 <= n
      OBVIOUS
    <3>2. g[(m + 1) + 1] = g[m + 1] \o q[(m + 1) + 1]
      BY <2>1, <3>1
    <3>3. Fits(g[m + 1], (m + 1) * c) /\ Fits(q[(m + 1) + 1], c)
      BY <2>3, <3>1
    <3>4. Fits(g[m + 1] \o q[(m + 1) + 1], (m + 1) * c + c)
      BY <3>3, FitsJoined, Zenon
    <3>5. (m + 1) * c + c = ((m + 1) + 1) * c
      OBVIOUS
    <3> QED
      BY <3>2, <3>4, <3>5
  <2> HIDE DEF R
  <2>4. n - 1 \in R
    <3>1. Nat \subseteq R
      BY <2>2, <2>3, NatSetInduction
    <3> QED
      BY <1>2, <3>1
  <2>5. (n - 1) + 1 = n /\ Fits(g[(n - 1) + 1], ((n - 1) + 1) * c)
    BY <1>2, <2>4 DEF R
  <2> QED
    BY <2>1, <2>5
<1> QED
  BY <1>1, <1>2

LEMMA DeviceFits ==
  ASSUME NEW s \in Structures, NEW i
  PROVE  Fits(Device(s, i), 143 + Line(Longest))
<1> DEFINE at == HeaderSize + (i - 1) * DeviceBytes
           a == Line(Digits(1))
           b == Line(Words10.status)
           c == Line(Words10.type)
<1>1. a \in Nat /\ b \in Nat /\ c \in Nat /\ a + b + c = 143
  BY DEF Line, LabelWidth, Digits, Words10
<1>2. a <= a /\ b <= b /\ c <= c
  BY <1>1
<1>3. Device(s, i)
        = << Item("type", {at}, {Out(1, a)}, TRUE), Item("type", {at}, {Out(1, b)}, TRUE),
                       Item("type", {at}, {Out(1, c)}, TRUE), TextAt(s, "description",
                               {at + 1}) >>
  BY Zenon DEF Device
<1> HIDE DEF at, a, b, c
<1>4. /\ Short(Item("type", {at}, {Out(1, a)}, TRUE), a)
      /\ Short(Item("type", {at}, {Out(1, b)}, TRUE), b)
      /\ Short(Item("type", {at}, {Out(1, c)}, TRUE), c)
  BY <1>1, <1>2, LineShort, Zenon
<1>5. Short(TextAt(s, "description", {at + 1}), Line(Longest))
  BY TextAtShort, Zenon
<1>6. Fits(Device(s, i), a + b + c + Line(Longest))
  BY <1>3, <1>4, <1>5, Fit4, Zenon
<1> QED
  BY <1>1, <1>6

LEMMA Type10Fits ==
  ASSUME NEW s \in Structures, s.type = 10, Entries(s) <= Capacity(s)
  PROVE  Fits(Type10(s), Room)
<1> DEFINE c == 143 + Line(Longest)
           k == nr_of_devices(s)
           q == [i \in 1 .. k |-> Device(s, i)]
<1>1. k \in Nat /\ k <= MaxDevices /\ MaxDevices \in Nat
  BY DevicesSound DEF Entries, Capacity, nr_of_devices, MaxDevices
<1>2. q \in [1 .. k -> Seq(Items(s))]
  BY DevicesSound
<1>3. c \in Nat /\ MaxDevices * c <= Room /\ Room \in Nat
  BY LongestIs, RoomIs
<1>4. \A i \in 1 .. k : Fits(q[i], c)
  <2>1. \A i \in 1 .. k : Fits(Device(s, i), c)
    BY DeviceFits
  <2> HIDE DEF c
  <2> QED
    BY <2>1
<1>5. Type10(s) = FlattenSeq(q)
  BY Zenon DEF Type10
<1> HIDE DEF c, k, q
<1>6. Fits(FlattenSeq(q), k * c)
  BY <1>1, <1>2, <1>3, <1>4, FitsFlat
<1>7. k * c <= MaxDevices * c
  BY <1>1, <1>3, Grows
<1>8. k * c \in Nat /\ MaxDevices * c \in Nat
  BY <1>1, <1>3, Times
<1>9. k * c <= Room
  BY <1>3, <1>7, <1>8
<1> QED
  BY <1>3, <1>5, <1>6, <1>9, FitsMore

(* A list of up to so many items that are alike.                              *)
LEMMA FitsUpTo ==
  ASSUME NEW k \in Nat, NEW n \in Nat, k <= n, NEW c \in Nat, NEW f, DOMAIN f = 1 .. k,
         f = [i \in 1 .. k |-> f[i]], \A i \in 1 .. k : Short(f[i], c)
  PROVE  Fits(f, n * c)
<1>1. Fits(f, k * c)
  BY FitsList
<1>2. k * c <= n * c /\ n * c \in Nat
  BY Grows, Times
<1> QED
  BY <1>1, <1>2, FitsMore

LEMMA NumberIs ==
  ASSUME NEW s \in Structures, Entries(s) <= Capacity(s)
  PROVE  /\ s.n \in Nat /\ MaxSlots \in Nat /\ MaxStrings \in Nat
         /\ s.type = 5 => s.n <= MaxSlots
         /\ s.type \in {11, 12, 13} => s.n <= MaxStrings
<1>1. s.n \in Nat
  BY StructureIs
<1>2. MaxSlots \in Nat /\ MaxStrings \in Nat
  BY DEF MaxSlots, MaxStrings
<1>3. s.type = 5 => Entries(s) = s.n /\ Capacity(s) = MaxSlots
  BY DEF Entries, Capacity
<1>4. s.type \in {11, 12, 13} => Entries(s) = s.n /\ Capacity(s) = MaxStrings
  BY DEF Entries, Capacity
<1> QED
  BY <1>1, <1>2, <1>3, <1>4

LEMMA StringsFit ==
  ASSUME NEW s \in Structures, s.type \in {11, 12, 13}, Entries(s) <= Capacity(s),
         NEW width \in Nat, width <= 41
  PROVE  Fits(Strings(s, width), MaxStrings * SubLine(Longest))
<1> DEFINE c == SubLine(Longest)
           f == [i \in 1 .. s.n |-> Item("string", {}, {StringOut(s, "string", width, i)},
                   TRUE)]
           none == Item("nr_of_strings", s.bytes.nr_of_strings, {Nothing}, FALSE)
<1>1. c \in Nat /\ width + Longest <= c /\ s.n \in Nat /\ s.n <= MaxStrings
        /\ MaxStrings \in Nat
      /\ Longest \in Nat
  BY LongestIs, NumberIs
<1>2. ASSUME NEW i \in 1 .. s.n PROVE Short(f[i], c)
  <2>1. i \in Nat
    BY <1>1
  <2> DEFINE o == StringOut(s, "string", width, i)
  <2>2. o.len \in Nat /\ o.len <= width + Longest
    BY <2>1, StringShort
  <2>3. f[i].outs = {o}
    BY DEF Item
  <2> HIDE DEF o, f, c
  <2> QED
    BY <1>1, <2>2, <2>3 DEF Short
<1>3. DOMAIN f = 1 .. s.n /\ f = [i \in 1 .. s.n |-> f[i]]
  OBVIOUS
<1>4. Short(none, 0)
  <2>1. none.outs = {Nothing}
    BY DEF Item
  <2> HIDE DEF none
  <2> QED
    BY <2>1, NothingShort DEF Short
<1>5. Strings(s, width) = <<none>> \o f
  BY Zenon DEF Strings
<1> HIDE DEF c, f, none
<1>6. Fits(f, MaxStrings * c)
  BY <1>1, <1>2, <1>3, FitsUpTo
<1>7. Fits(<<none>>, 0)
  BY <1>4, Fit1
<1>8. Fits(<<none>> \o f, 0 + MaxStrings * c)
  BY <1>6, <1>7, FitsJoined
<1>9. 0 + MaxStrings * c = MaxStrings * c
  BY <1>1, Times
<1> QED
  BY <1>5, <1>8, <1>9 DEF c

LEMMA StringsRoom ==
  /\ MaxStrings * SubLine(Longest) \in Nat /\ Line(Longest) \in Nat /\ Room \in Nat
  /\ MaxStrings * SubLine(Longest) <= Room
  /\ (37 + MaxStrings * SubLine(Longest)) + Line(Longest) <= Room
<1> DEFINE k == MaxStrings * SubLine(Longest)
<1>1. k \in Nat /\ Line(Longest) \in Nat
  BY LongestIs, Times DEF MaxStrings
<1>2. 37 + k + Line(Longest) <= Room /\ Room \in Nat
  BY RoomIs
<1> HIDE DEF k
<1>3. k <= Room
  BY <1>1, <1>2
<1> QED
  BY <1>1, <1>2, <1>3 DEF k

LEMMA Type11Fits ==
  ASSUME NEW s \in Structures, s.type = 11, Entries(s) <= Capacity(s)
  PROVE  Fits(Type11(s), Room)
<1>1. LabelWidth + 3 \in Nat /\ LabelWidth + 3 <= 41 /\ s.type \in {11, 12, 13}
  BY DEF LabelWidth
<1>2. Fits(Type11(s), MaxStrings * SubLine(Longest))
  BY <1>1, StringsFit DEF Type11
<1> QED
  BY <1>2, StringsRoom, FitsMore

LEMMA Type12Fits ==
  ASSUME NEW s \in Structures, s.type = 12, Entries(s) <= Capacity(s)
  PROVE  Fits(Type12(s), Room)
<1>1. LabelWidth + 3 \in Nat /\ LabelWidth + 3 <= 41 /\ s.type \in {11, 12, 13}
  BY DEF LabelWidth
<1>2. Fits(Type12(s), MaxStrings * SubLine(Longest))
  BY <1>1, StringsFit DEF Type12
<1> QED
  BY <1>2, StringsRoom, FitsMore

LEMMA Type13Fits ==
  ASSUME NEW s \in Structures, s.type = 13, Entries(s) <= Capacity(s)
  PROVE  Fits(Type13(s), Room)
<1> DEFINE a == <<Label("string")>>
           b == Strings(s, SubLine(0))
           c == <<Text(s, "current_language")>>
           k == MaxStrings * SubLine(Longest)
<1>1. SubLine(0) \in Nat /\ SubLine(0) <= 41 /\ s.type \in {11, 12, 13}
  BY DEF SubLine, LabelWidth
<1>2. Fits(b, k)
  BY <1>1, StringsFit
<1>3. Fits(a, 37)
  BY LabelShort, Fit1
<1>4. Fits(c, Line(Longest))
  BY TextShort, Fit1
<1>5. Type13(s) = a \o b \o c
  BY Zenon DEF Type13
<1>6. (37 + k) + Line(Longest) <= Room /\ Room \in Nat
  BY StringsRoom
<1> HIDE DEF a, b, c, k
<1>7. Fits(a \o b, 37 + k)
  BY <1>2, <1>3, FitsJoined
<1>8. Fits((a \o b) \o c, (37 + k) + Line(Longest))
  BY <1>4, <1>7, FitsJoined
<1> QED
  BY <1>5, <1>6, <1>8, FitsMore

LEMMA OthersFit == ASSUME NEW s PROVE Fits(Type127(s), Room) /\ Fits(NotSupported(s), Room)
<1> DEFINE v == Line(Words127 + 1)
           w == NotSupportedWidth + 3
<1>1. v \in Nat /\ w \in Nat /\ v <= v /\ w <= w /\ v <= Room /\ w <= Room /\ Room \in Nat
  BY RoomIs, LongestIs DEF Line, LabelWidth, Words127, NotSupportedWidth
<1>2. /\ Type127(s) = <<Item("header", {}, {Out(1, v)}, TRUE)>>
      /\ NotSupported(s) = <<Item("header", {}, {Out(1, w)}, TRUE)>>
  BY Zenon DEF Type127, NotSupported
<1> HIDE DEF v, w
<1>3. Short(Item("header", {}, {Out(1, v)}, TRUE), v)
        /\ Short(Item("header", {}, {Out(1, w)}, TRUE), w)
  BY <1>1, LineShort, Zenon
<1>4. Fits(Type127(s), v) /\ Fits(NotSupported(s), w)
  BY <1>2, <1>3, Fit1, Zenon
<1> QED
  BY <1>1, <1>4, FitsMore

LEMMA HeaderFits == ASSUME NEW s PROVE Fits(Header(s), HeaderText)
<1> DEFINE a == Line(Digits(1) + 1 + NameWidth)
           b == Line(Digits(1) + UnitWidth)
           c == Line(Digits(2) + 1)
<1>1. a \in Nat /\ b \in Nat /\ c \in Nat /\ a <= a /\ b <= b /\ c <= c
  BY DEF Line, LabelWidth, Digits, NameWidth, UnitWidth
<1>2. /\ Header(s)
        = << Item("header", {0}, {Out(1, a)}, TRUE), Item("header", {1}, {Out(1, b)}, TRUE),
                       Item("header", {2, 3}, {Out(1, c)}, TRUE) >>
      /\ HeaderText = a + b + c
  BY Zenon DEF Header, HeaderText
<1> HIDE DEF a, b, c
<1>3. /\ Short(Item("header", {0}, {Out(1, a)}, TRUE), a)
      /\ Short(Item("header", {1}, {Out(1, b)}, TRUE), b)
      /\ Short(Item("header", {2, 3}, {Out(1, c)}, TRUE), c)
  BY <1>1, LineShort, Zenon
<1>4. Fits(Header(s), a + b + c)
  BY <1>2, <1>3, Fit3, Zenon
<1> QED
  BY <1>2, <1>4

LEMMA SlotHandlesFit ==
  ASSUME NEW s \in Structures, s.type = 5, Entries(s) <= Capacity(s)
  PROVE  Fits(SlotHandles(s), 86 + MaxSlots * 51)
<1> DEFINE u == Digits(1) + 7
           w == SubLine(7 + Digits(1))
           v == 49
           l == 37
           f == [i \in 1 .. s.n |-> Item("handles", {\h0F + 2 * (i - 1)}, {Out(1, w)}, TRUE)]
           g == << Plain(s, "nr_assoc_slots", u), Label("handles") >>
<1>1. u \in Nat /\ 39 + u <= v /\ v \in Nat /\ w \in Nat /\ w = 51 /\ w <= w
  BY DEF Digits, SubLine, LabelWidth
<1>2. Short(Label("handles"), l)
  BY LabelShort
<1>3. SlotHandles(s) = g \o f
  BY Zenon DEF SlotHandles
<1>4. DOMAIN f = 1 .. s.n /\ f = [i \in 1 .. s.n |-> f[i]]
  OBVIOUS
<1>5. v + l = 86
  OBVIOUS
<1> HIDE DEF u, w, v, l
<1>6. ASSUME NEW i \in 1 .. s.n PROVE Short(f[i], w)
  <2>1. f[i] = Item("handles", {\h0F + 2 * (i - 1)}, {Out(1, w)}, TRUE)
    OBVIOUS
  <2> HIDE DEF f
  <2> QED
    BY <1>1, <2>1, LineShort
<1> HIDE DEF f
<1>7. Fits(f, MaxSlots * w)
  BY <1>1, <1>4, <1>6, NumberIs, FitsUpTo
<1>8. Short(Plain(s, "nr_assoc_slots", u), v)
  BY <1>1, PlainShort, Zenon
<1>9. Fits(g, v + l)
  BY <1>2, <1>8, Fit2, Zenon
<1> HIDE DEF g
<1>10. Fits(g \o f, v + l + MaxSlots * w)
  BY <1>7, <1>9, FitsJoined
<1> QED
  BY <1>1, <1>3, <1>5, <1>10

LEMMA ControllerTypesFit == ASSUME NEW s PROVE Fits(ControllerTypes(s), 814)
<1> DEFINE v == Words5.types
           w == Words5.voltage
           m == 605
           n == 135
<1>1. v \in Nat /\ 11 * (41 + v) <= m /\ m \in Nat /\ w \in Nat /\ 3 * (41 + w) <= n
        /\ n \in Nat
      /\ 11 \in Nat /\ 3 \in Nat /\ (37 + m) + (37 + n) = 814
  BY DEF Words5
<1> HIDE DEF v, w, m, n
<1>2. Fits(Bits(s, "supported_types", 11, v), 37 + m)
  BY <1>1, BitsFit
<1>3. Fits(Bits(s, "voltage", 3, w), 37 + n)
  BY <1>1, BitsFit
<1>4. Fits(ControllerTypes(s), (37 + m) + (37 + n))
  BY <1>2, <1>3, FitsJoined, Zenon DEF ControllerTypes, v, w
<1> QED
  BY <1>1, <1>4

LEMMA EnabledEccFits == ASSUME NEW s PROVE Fits(EnabledEcc(s), 445)
<1> DEFINE w == Words5.ecc
           m == 408
           l == 37
           b == {2 * s.n + \h0F}
           q == << Label("enabled_ecc"), BitLines("enabled_ecc", b, 6, w) >>
<1>1. w \in Nat /\ 6 * (41 + w) <= m /\ m \in Nat /\ 6 \in Nat /\ l + m = 445 /\ l + m \in Nat
  BY DEF Words5
<1>2. Short(Label("enabled_ecc"), l)
  BY LabelShort
<1>3. EnabledEcc(s) = IF s.length = 2 * s.n + 16 THEN q ELSE <<>>
  BY Zenon DEF EnabledEcc
<1> HIDE DEF w, m, l, b
<1>4. Short(BitLines("enabled_ecc", b, 6, w), m)
  BY <1>1, BitLinesShort
<1>5. Fits(q, l + m)
  BY <1>2, <1>4, Fit2, Zenon
<1> HIDE DEF q
<1>6. Fits(<<>>, l + m)
  BY <1>1, FitsNothing
<1>7. Fits(EnabledEcc(s), l + m)
  BY <1>3, <1>5, <1>6, Zenon
<1> QED
  BY <1>1, <1>7

LEMMA Type5Fits ==
  ASSUME NEW s \in Structures, s.type = 5, Entries(s) <= Capacity(s)
  PROVE  Fits(Type5(s), Room)
<1> DEFINE n1 == 51
           n2 == 445
           n3 == 178
           n4 == 277
           n5 == 814
           n6 == 86 + MaxSlots * 51
           n7 == 445
<1>0. n1 + n2 + n3 + n4 + n5 + n6 + n7 <= Room /\ Room \in Nat
  <2> DEFINE k == MaxSlots * 51
  <2>1. k \in Nat
    BY Times DEF MaxSlots
  <2>2. 2296 + k <= Room /\ Room \in Nat
    BY RoomIs
  <2> HIDE DEF k
  <2> QED
    BY <2>1, <2>2 DEF k
<1> HIDE DEF n1, n2, n3, n4, n5, n6, n7
<1>1. Fits(<< Enum(s, "error_detection", Byte, 1 .. 8, Words5.detection) >>, n1)
  <2> DEFINE w1 == 51
  <2> HIDE DEF w1
  <2>1. Short(Enum(s, "error_detection", Byte, 1 .. 8, Words5.detection), w1)
    <3>1. Words5.detection \in Nat /\ 39 + Words5.detection <= w1 /\ 44 <= w1 /\ w1 \in Nat
      BY DEF w1, Words5
    <3> QED
      BY <3>1, EnumShort, Zenon
  <2>2. Fits(<< Enum(s, "error_detection", Byte, 1 .. 8, Words5.detection) >>,
             w1)
    BY <2>1, Fit1, Zenon
  <2>3. w1 <= n1 /\ n1 \in Nat
    BY LongestIs DEF n1, w1
  <2> QED
    BY <2>2, <2>3, FitsMore, Zenon
<1>2. Fits(Bits(s, "ecc", 6, Words5.ecc), n2)
  <2> DEFINE n == 408
  <2>1. Words5.ecc \in Nat /\ 6 * (41 + Words5.ecc) <= n /\ n \in Nat /\ 6 \in Nat
    BY DEF Words5
  <2> HIDE DEF n
  <2>2. Fits(Bits(s, "ecc", 6, Words5.ecc), 37 + n)
    BY <2>1, BitsFit, Zenon
  <2>3. 37 + n = n2
    BY DEF n, n2
  <2> QED
    BY <2>2, <2>3
<1>3. Fits(<< Enum(s, "supported_interleave", Byte, 1 .. 7, Words5.interleave),
                 Enum(s, "current_interleave", Byte, 1 .. 7, Words5.interleave),
                 Plain(s, "max_mem_module_size", pow2 + UnitWidth) >>, n3)
  <2> DEFINE w1 == 56
             w2 == 61
  <2> HIDE DEF w1, w2
  <2>1. Short(Enum(s, "supported_interleave", Byte, 1 .. 7, Words5.interleave), w2)
    <3>1. Words5.interleave \in Nat /\ 39 + Words5.interleave <= w2 /\ 44 <= w2 /\ w2 \in Nat
      BY DEF w2, Words5
    <3> QED
      BY <3>1, EnumShort, Zenon
  <2>2. Short(Enum(s, "current_interleave", Byte, 1 .. 7, Words5.interleave), w2)
    <3>1. Words5.interleave \in Nat /\ 39 + Words5.interleave <= w2 /\ 44 <= w2 /\ w2 \in Nat
      BY DEF w2, Words5
    <3> QED
      BY <3>1, EnumShort, Zenon
  <2>3. Short(Plain(s, "max_mem_module_size", pow2 + UnitWidth), w1)
    <3>1. pow2 + UnitWidth \in Nat /\ 39 + (pow2 + UnitWidth) <= w1 /\ w1 \in Nat
      BY DEF w1, UnitWidth, pow2
    <3> QED
      BY <3>1, PlainShort, Zenon
  <2>4. Fits(<< Enum(s, "supported_interleave", Byte, 1 .. 7, Words5.interleave),
                Enum(s, "current_interleave", Byte, 1 .. 7, Words5.interleave),
                Plain(s, "max_mem_module_size", pow2 + UnitWidth) >>,
             w2 + w2 + w1)
    BY <2>1, <2>2, <2>3, Fit3, Zenon
  <2>5. w2 + w2 + w1 <= n3 /\ n3 \in Nat
    BY LongestIs DEF n3, w1, w2
  <2> QED
    BY <2>4, <2>5, FitsMore, Zenon
<1>4. Fits(ControllerSpeeds(s), n4)
  <2> DEFINE n == 240
  <2>1. Words5.speeds \in Nat /\ 5 * (41 + Words5.speeds) <= n /\ n \in Nat /\ 5 \in Nat
    BY DEF Words5
  <2> HIDE DEF n
  <2>2. Fits(Bits(s, "supported_speeds", 5, Words5.speeds), 37 + n)
    BY <2>1, BitsFit, Zenon
  <2>3. 37 + n = n4
    BY DEF n, n4
  <2> QED
    BY <2>2, <2>3 DEF ControllerSpeeds
<1>5. Fits(ControllerTypes(s), n5)
  BY ControllerTypesFit DEF n5
<1>6. Fits(SlotHandles(s), n6)
  BY SlotHandlesFit DEF n6
<1>7. Fits(EnabledEcc(s), n7)
  BY EnabledEccFits DEF n7
<1> DEFINE a == << Enum(s, "error_detection", Byte, 1 .. 8, Words5.detection) >>
           b == Bits(s, "ecc", 6, Words5.ecc)
           c == << Enum(s, "supported_interleave", Byte, 1 .. 7, Words5.interleave),
                 Enum(s, "current_interleave", Byte, 1 .. 7, Words5.interleave),
                 Plain(s, "max_mem_module_size", pow2 + UnitWidth) >>
           d == ControllerSpeeds(s)
           e == ControllerTypes(s)
           f == SlotHandles(s)
           g == EnabledEcc(s)
<1>8. Type5(s) = a \o b \o c \o d \o e \o f \o g
  BY Zenon DEF Type5
<1>9. Fits(a, n1) /\ Fits(b, n2) /\ Fits(c, n3) /\ Fits(d, n4) /\ Fits(e, n5) /\ Fits(f, n6)
        /\ Fits(g, n7)
  BY <1>1, <1>2, <1>3, <1>4, <1>5, <1>6, <1>7
<1> HIDE DEF a, b, c, d, e, f, g
<1>10. Fits(a \o b, n1 + n2)
  BY <1>9, FitsJoined, Zenon
<1>11. Fits(a \o b \o c, n1 + n2 + n3)
  BY <1>9, <1>10, FitsJoined, Zenon
<1>12. Fits(a \o b \o c \o d, n1 + n2 + n3 + n4)
  BY <1>9, <1>11, FitsJoined, Zenon
<1>13. Fits(a \o b \o c \o d \o e, n1 + n2 + n3 + n4 + n5)
  BY <1>9, <1>12, FitsJoined, Zenon
<1>14. Fits(a \o b \o c \o d \o e \o f, n1 + n2 + n3 + n4 + n5 + n6)
  BY <1>9, <1>13, FitsJoined, Zenon
<1>15. Fits(a \o b \o c \o d \o e \o f \o g, n1 + n2 + n3 + n4 + n5 + n6 + n7)
  BY <1>9, <1>14, FitsJoined, Zenon
<1> QED
  BY <1>0, <1>8, <1>15, FitsMore, Zenon

(* A layout, with the final 0, has room in the buffer.                        *)
LEMMA LayoutFits ==
  ASSUME NEW s \in Structures, Entries(s) <= Capacity(s)
  PROVE  Fits(Layout(s), BufferSize - 1)
<1> DEFINE body ==
      CASE s.type = 0 -> Type0(s)
        [] s.type = 1 -> Type1(s)
        [] s.type = 2 -> Type2(s)
        [] s.type = 3 -> Type3(s)
        [] s.type = 4 -> Type4(s)
        [] s.type = 5 -> Type5(s)
        [] s.type = 6 -> Type6(s)
        [] s.type = 7 -> Type7(s)
        [] s.type = 8 -> Type8(s)
        [] s.type = 9 -> Type9(s)
        [] s.type = 10 -> Type10(s)
        [] s.type = 11 -> Type11(s)
        [] s.type = 12 -> Type12(s)
        [] s.type = 13 -> Type13(s)
        [] s.type = 16 -> Type16(s)
        [] s.type = 17 -> Type17(s)
        [] s.type = 19 -> Type19(s)
        [] s.type = 20 -> Type20(s)
        [] s.type = 32 -> Type32(s)
        [] s.type = 127 -> Type127(s)
        [] OTHER -> NotSupported(s)
<1>1. Fits(body, Room)
  <2>1. CASE s.type = 0
    <3>1. body = Type0(s)
      BY <2>1
    <3> HIDE DEF body
    <3> QED
      BY <2>1, <3>1, Type0Fits
  <2>2. CASE s.type = 1
    <3>1. body = Type1(s)
      BY <2>2
    <3> HIDE DEF body
    <3> QED
      BY <2>2, <3>1, Type1Fits
  <2>3. CASE s.type = 2
    <3>1. body = Type2(s)
      BY <2>3
    <3> HIDE DEF body
    <3> QED
      BY <2>3, <3>1, Type2Fits
  <2>4. CASE s.type = 3
    <3>1. body = Type3(s)
      BY <2>4
    <3> HIDE DEF body
    <3> QED
      BY <2>4, <3>1, Type3Fits
  <2>5. CASE s.type = 4
    <3>1. body = Type4(s)
      BY <2>5
    <3> HIDE DEF body
    <3> QED
      BY <2>5, <3>1, Type4Fits
  <2>6. CASE s.type = 5
    <3>1. body = Type5(s)
      BY <2>6
    <3> HIDE DEF body
    <3> QED
      BY <2>6, <3>1, Type5Fits
  <2>7. CASE s.type = 6
    <3>1. body = Type6(s)
      BY <2>7
    <3> HIDE DEF body
    <3> QED
      BY <2>7, <3>1, Type6Fits
  <2>8. CASE s.type = 7
    <3>1. body = Type7(s)
      BY <2>8
    <3> HIDE DEF body
    <3> QED
      BY <2>8, <3>1, Type7Fits
  <2>9. CASE s.type = 8
    <3>1. body = Type8(s)
      BY <2>9
    <3> HIDE DEF body
    <3> QED
      BY <2>9, <3>1, Type8Fits
  <2>10. CASE s.type = 9
    <3>1. body = Type9(s)
      BY <2>10
    <3> HIDE DEF body
    <3> QED
      BY <2>10, <3>1, Type9Fits
  <2>11. CASE s.type = 10
    <3>1. body = Type10(s)
      BY <2>11
    <3> HIDE DEF body
    <3> QED
      BY <2>11, <3>1, Type10Fits
  <2>12. CASE s.type = 11
    <3>1. body = Type11(s)
      BY <2>12
    <3> HIDE DEF body
    <3> QED
      BY <2>12, <3>1, Type11Fits
  <2>13. CASE s.type = 12
    <3>1. body = Type12(s)
      BY <2>13
    <3> HIDE DEF body
    <3> QED
      BY <2>13, <3>1, Type12Fits
  <2>14. CASE s.type = 13
    <3>1. body = Type13(s)
      BY <2>14
    <3> HIDE DEF body
    <3> QED
      BY <2>14, <3>1, Type13Fits
  <2>15. CASE s.type = 16
    <3>1. body = Type16(s)
      BY <2>15
    <3> HIDE DEF body
    <3> QED
      BY <2>15, <3>1, Type16Fits
  <2>16. CASE s.type = 17
    <3>1. body = Type17(s)
      BY <2>16
    <3> HIDE DEF body
    <3> QED
      BY <2>16, <3>1, Type17Fits
  <2>17. CASE s.type = 19
    <3>1. body = Type19(s)
      BY <2>17
    <3> HIDE DEF body
    <3> QED
      BY <2>17, <3>1, Type19Fits
  <2>18. CASE s.type = 20
    <3>1. body = Type20(s)
      BY <2>18
    <3> HIDE DEF body
    <3> QED
      BY <2>18, <3>1, Type20Fits
  <2>19. CASE s.type = 32
    <3>1. body = Type32(s)
      BY <2>19
    <3> HIDE DEF body
    <3> QED
      BY <2>19, <3>1, Type32Fits
  <2>20. CASE s.type \notin {0, 1, 2, 3, 4, 5, 6, 7, 8, 9, 10, 11, 12, 13, 16, 17, 19, 20, 32}
    <3>1. body = Type127(s) \/ body = NotSupported(s)
      BY <2>20
    <3> HIDE DEF body
    <3> QED
      BY <3>1, OthersFit
  <2> HIDE DEF body
  <2> QED
    BY <2>1, <2>2, <2>3, <2>4, <2>5, <2>6, <2>7, <2>8, <2>9, <2>10,
       <2>11, <2>12, <2>13, <2>14, <2>15, <2>16, <2>17, <2>18, <2>19, <2>20
<1> HIDE DEF body
<1>2. Fits(Header(s) \o body, HeaderText + Room)
  BY <1>1, HeaderFits, FitsJoined
<1>3. HeaderText + Room = BufferSize - 1
  BY RoomIs
<1> QED
  BY <1>2, <1>3, Zenon DEF Layout, body

LEMMA SumGrows ==
  ASSUME NEW a \in Seq(Nat), NEW k \in Nat, k <= Len(a)
  PROVE  SumTo(a, k) \in Nat /\ SumTo(a, k) <= Total(a)
<1> DEFINE n == Len(a)
           S == {m \in Nat : k + m <= n => SumTo(a, k + m) \in Nat
                   /\ SumTo(a, k) <= SumTo(a, k + m)}
<1>1. n \in Nat /\ \A i \in 1 .. n : a[i] \in Nat
  OBVIOUS
<1> HIDE DEF n
<1>2. SumTo(a, k) \in Nat
  <2>1. \A i \in 1 .. k : a[i] \in Nat
    BY <1>1 DEF n
  <2> QED
    BY <2>1, SumNat
<1>3. 0 \in S
  <2>1. k + 0 = k
    OBVIOUS
  <2> QED
    BY <1>2, <2>1
<1>4. ASSUME NEW m \in Nat, m \in S PROVE m + 1 \in S
  <2> SUFFICES ASSUME k + (m + 1) <= n
               PROVE  SumTo(a, k + (m + 1)) \in Nat /\ SumTo(a, k) <= SumTo(a, k + (m + 1))
    OBVIOUS
  <2>1. k + (m + 1) = (k + m) + 1 /\ k + m <= n /\ k + m \in Nat /\ (k + m) + 1 \in 1 .. n
    BY <1>1
  <2>2. SumTo(a, (k + m) + 1) = SumTo(a, k + m) + a[(k + m) + 1]
    BY <2>1, SumNext
  <2>3. SumTo(a, k + m) \in Nat /\ SumTo(a, k) <= SumTo(a, k + m) /\ a[(k + m) + 1] \in Nat
    BY <1>1, <1>4, <2>1
  <2> QED
    BY <1>2, <2>1, <2>2, <2>3
<1> HIDE DEF S
<1>5. n - k \in Nat /\ k + (n - k) = n
  BY <1>1 DEF n
<1>6. n - k \in S
  BY <1>3, <1>4, <1>5, NatSetInduction
<1>7. SumTo(a, k) <= SumTo(a, k + (n - k))
  BY <1>5, <1>6 DEF S
<1> QED
  BY <1>2, <1>5, <1>7 DEF Total, n

(* The lengths of the items before next are all that can be in the buffer.    *)
Bounded ==
  /\ next \in Nat \ {0} /\ file \in Nat
  /\ \E caps \in Seq(Nat) :
       /\ Len(caps) = Len(Layout(st)) /\ Total(caps) < BufferSize
       /\ \A i \in 1 .. Len(caps) : Short(Layout(st)[i], caps[i])
       /\ next <= Len(caps) + 1
       /\ file <= SumTo(caps, next - 1)

LEMMA BoundedStarts ==
  ASSUME st \in Structures, next = 1, file = 0, Entries(st) <= Capacity(st)
  PROVE  Bounded
<1>1. PICK T, caps : /\ Layout(st) \in Seq(T) /\ caps \in Seq(Nat)
                       /\ Len(caps) = Len(Layout(st))
                     /\ \A i \in 1 .. Len(Layout(st)) : Short(Layout(st)[i], caps[i])
                     /\ Total(caps) <= BufferSize - 1
  BY LayoutFits DEF Fits
<1>2. Total(caps) \in Nat
  <2>1. 0 <= Len(caps) /\ Len(caps) \in Nat /\ Len(caps) <= Len(caps)
    BY <1>1
  <2> QED
    BY <1>1, <2>1, SumGrows DEF Total
<1>3. BufferSize \in Nat
  BY DEF BufferSize
<1>4. Total(caps) < BufferSize
  BY <1>1, <1>2, <1>3
<1>5. 1 - 1 = 0 /\ 0 <= SumTo(caps, 0) /\ 1 <= Len(caps) + 1
  BY <1>1, SumZero
<1> QED
  BY <1>1, <1>4, <1>5 DEF Bounded

LEMMA BoundedStep ==
  ASSUME CookInv, Bounded, [Next]_vars
  PROVE  Bounded'
<1>1. CASE Show
  <2>1. /\ next \in 1 .. Len(Layout(st)) /\ next' = next + 1 /\ st' = st
        /\ \E out \in Layout(st)[next].outs : file' = file + out.len
    BY <1>1, ShowIs
  <2>2. PICK out \in Layout(st)[next].outs : file' = file + out.len
    BY <2>1
  <2>3. PICK caps \in Seq(Nat) :
          /\ Len(caps) = Len(Layout(st)) /\ Total(caps) < BufferSize
          /\ \A i \in 1 .. Len(caps) : Short(Layout(st)[i], caps[i])
          /\ next <= Len(caps) + 1
          /\ file <= SumTo(caps, next - 1)
    BY DEF Bounded
  <2>4. next \in Nat \ {0} /\ file \in Nat /\ Len(caps) \in Nat /\ next \in 1 .. Len(caps)
    BY <2>1, <2>3 DEF Bounded
  <2>5. out.len \in Nat /\ out.len <= caps[next] /\ caps[next] \in Nat
    BY <2>2, <2>3, <2>4 DEF Short
  <2>6. next - 1 \in Nat /\ next - 1 <= Len(caps) /\ (next - 1) + 1 = next
          /\ (next + 1) - 1 = next
    BY <2>4
  <2>7. SumTo(caps, (next - 1) + 1) = SumTo(caps, next - 1) + caps[(next - 1) + 1]
    BY <2>6, SumNext
  <2>8. SumTo(caps, next - 1) \in Nat
    BY <2>3, <2>6, SumGrows
  <2>9. file' \in Nat /\ file' <= SumTo(caps, next)
    <3> DEFINE a == SumTo(caps, next - 1)
               b == SumTo(caps, next)
               c == caps[next]
    <3>1. b = a + c /\ a \in Nat /\ c \in Nat
      BY <2>5, <2>6, <2>7, <2>8
    <3>2. file <= a /\ file \in Nat /\ out.len \in Nat /\ out.len <= c /\ file' = file + out.len
      BY <2>2, <2>3, <2>4, <2>5
    <3> HIDE DEF a, b, c
    <3>3. file' \in Nat /\ file' <= b
      BY <3>1, <3>2
    <3> QED
      BY <3>3 DEF b
  <2>10. next' \in Nat \ {0} /\ next' <= Len(caps) + 1 /\ file' <= SumTo(caps, next' - 1)
    BY <2>1, <2>4, <2>6, <2>9
  <2>11. Layout(st)' = Layout(st)
    BY <2>1
  <2> QED
    BY <2>3, <2>9, <2>10, <2>11 DEF Bounded
<1>2. CASE Free
  <2>1. st' = st /\ next' = 1 /\ file' = 0
    BY <1>2 DEF Free
  <2>2. PICK caps \in Seq(Nat) :
          /\ Len(caps) = Len(Layout(st)) /\ Total(caps) < BufferSize
          /\ \A i \in 1 .. Len(caps) : Short(Layout(st)[i], caps[i])
    BY DEF Bounded
  <2>3. 1 <= Len(caps) + 1 /\ 1 - 1 = 0 /\ 0 <= SumTo(caps, 0)
    BY <2>2, SumZero
  <2>4. next' <= Len(caps) + 1 /\ file' <= SumTo(caps, next' - 1)
    BY <2>1, <2>3
  <2>5. Layout(st)' = Layout(st) /\ next' \in Nat \ {0} /\ file' \in Nat
    BY <2>1
  <2> QED
    BY <2>2, <2>4, <2>5 DEF Bounded
<1>3. CASE Begin \/ BeginFails \/ Finish \/ UNCHANGED vars
  <2>1. UNCHANGED <<st, next, file>>
    BY <1>3 DEF Begin, BeginFails, Finish, vars
  <2> QED
    BY <2>1 DEF Bounded
<1> QED
  BY <1>1, <1>2, <1>3 DEF Next

TextInv == Entries(st) <= Capacity(st) => Bounded

(* A text never grows over the end of the buffer that it is written to, as    *)
(* long as no string has more than 64 characters and no list more entries     *)
(* than the buffer has room for.                                              *)
THEOREM TextCorrect == Spec => []TextFits
<1>1. Init => TextInv
  BY BoundedStarts DEF Init, TextInv
<1>2. CookInv /\ TextInv /\ [Next]_vars => TextInv'
  <2> SUFFICES ASSUME CookInv, TextInv, [Next]_vars, Entries(st') <= Capacity(st')
               PROVE  Bounded'
    BY DEF TextInv
  <2>1. st' = st
    BY DEF Next, Begin, BeginFails, Show, Finish, Free, vars
  <2>2. Bounded
    BY <2>1 DEF TextInv
  <2> QED
    BY <2>2, BoundedStep
<1>3. TextInv => TextFits
  <2> SUFFICES ASSUME Bounded PROVE file < BufferSize
    BY DEF TextFits, TextInv
  <2>1. PICK caps \in Seq(Nat) :
          /\ Total(caps) < BufferSize /\ next <= Len(caps) + 1 /\ file <= SumTo(caps, next - 1)
    BY DEF Bounded
  <2>2. next \in Nat \ {0} /\ file \in Nat /\ Len(caps) \in Nat
    BY DEF Bounded
  <2>3. next - 1 \in Nat /\ next - 1 <= Len(caps)
    BY <2>1, <2>2
  <2>4. SumTo(caps, next - 1) \in Nat /\ SumTo(caps, next - 1) <= Total(caps)
    BY <2>3, SumGrows
  <2>5. Len(caps) <= Len(caps) /\ Total(caps) \in Nat
    BY <2>2, SumGrows DEF Total
  <2>6. BufferSize \in Nat
    BY DEF BufferSize
  <2> QED
    BY <2>1, <2>2, <2>4, <2>5, <2>6
<1> QED
  BY <1>1, <1>2, <1>3, CookInvariant, PTL DEF Spec
=============================================================================
