--------------------------- MODULE PacketsProofs ---------------------------
(***************************************************************************)
(* Proofs about Packets, for any sizes: what the recursive functions of    *)
(* the codec compute, and that reading undoes writing.                     *)
(***************************************************************************)
EXTENDS Packets, FunctionTheorems, FiniteSetTheorems, SequenceTheorems, WellFoundedInduction, TLAPS

(* Induction, as a statement about sets. *)

\* A set of naturals that has an element has a least one.
LEMMA LeastElement ==
    ASSUME NEW T, T \subseteq Nat, T # {}
    PROVE  \E x \in T : \A y \in T : x <= y
<1>1. PICK x \in T : \A y \in T : ~(<<y, x>> \in OpToRel(<, Nat))
  BY NatLessThanWellFounded, WFMin
<1>2. \A y \in T : ~(y < x)
  BY <1>1 DEF OpToRel
<1> QED
  BY <1>2

\* A set that has each natural as soon as it has the smaller ones has them all.
LEMMA StrongInduction ==
    ASSUME NEW S, \A n \in Nat : (\A m \in 0 .. n - 1 : m \in S) => n \in S
    PROVE  Nat \subseteq S
<1> SUFFICES ASSUME Nat \ S # {} PROVE FALSE
  OBVIOUS
<1>1. PICK x \in Nat \ S : \A y \in Nat \ S : x <= y
  <2> DEFINE T == Nat \ S
  <2> HIDE DEF T
  <2>1. T \subseteq Nat /\ T # {}
    BY DEF T
  <2> QED
    BY <2>1, LeastElement DEF T
<1> QED
  BY <1>1

\* A set that has 0, and with each natural the next, has them all.
LEMMA Induction ==
    ASSUME NEW S, 0 \in S, \A n \in Nat : n \in S => n + 1 \in S
    PROVE  Nat \subseteq S
<1>1. ASSUME NEW n \in Nat, \A m \in 0 .. n - 1 : m \in S PROVE n \in S
  <2>1. CASE n = 0
    BY <2>1
  <2>2. CASE n > 0
    <3>1. n - 1 \in Nat /\ n - 1 \in S /\ (n - 1) + 1 = n
      BY <1>1, <2>2
    <3> QED
      BY <3>1
  <2> QED
    BY <2>1, <2>2
<1> QED
  BY <1>1, StrongInduction

(* A function that is defined by its values at smaller arguments. *)

\* f solves, below k, an equation that reduces n to the smaller step[n].
Solves(f, k, base, first, step, next) ==
    \A n \in 0 .. k - 1 :
        f[n] = IF n \in base THEN first[n] ELSE next[n][f[step[n]]]

\* f solves it for all naturals.
Recurs(f, base, first, step, next) ==
    \A n \in Nat : f[n] = IF n \in base THEN first[n] ELSE next[n][f[step[n]]]

\* Two solutions agree where both are ones.
LEMMA SolutionsAgree ==
    ASSUME NEW base, NEW first, NEW step \in [Nat -> Nat], NEW next,
           \A n \in Nat : n \notin base => step[n] < n,
           NEW f, NEW g, NEW k \in Nat, NEW l \in Nat,
           Solves(f, k, base, first, step, next), Solves(g, l, base, first, step, next)
    PROVE  \A n \in Nat : n < k /\ n < l => f[n] = g[n]
<1> DEFINE B == {n \in Nat : n < k /\ n < l => f[n] = g[n]}
<1>1. ASSUME NEW n \in Nat, \A m \in 0 .. n - 1 : m \in B PROVE n \in B
  <2> SUFFICES ASSUME n < k, n < l PROVE f[n] = g[n]
    OBVIOUS
  <2>1. /\ f[n] = IF n \in base THEN first[n] ELSE next[n][f[step[n]]]
        /\ g[n] = IF n \in base THEN first[n] ELSE next[n][g[step[n]]]
    BY DEF Solves
  <2>2. n \notin base => f[step[n]] = g[step[n]]
    <3> SUFFICES ASSUME n \notin base PROVE f[step[n]] = g[step[n]]
      OBVIOUS
    <3>1. step[n] \in Nat /\ step[n] < n
      OBVIOUS
    <3>2. step[n] \in 0 .. n - 1 /\ step[n] \in B
      BY <1>1, <3>1
    <3> QED
      BY <3>1, <3>2
  <2> QED
    BY <2>1, <2>2
<1> HIDE DEF B
<1>2. Nat \subseteq B
  BY <1>1, StrongInduction
<1> QED
  BY <1>2 DEF B

\* There is a solution for all naturals, with its values where they belong.
LEMMA RecursionExists ==
    ASSUME NEW T, NEW base, NEW first \in [Nat -> T], NEW step \in [Nat -> Nat],
           NEW next \in [Nat -> [T -> T]],
           \A n \in Nat : n \notin base => step[n] < n
    PROVE  \E f \in [Nat -> T] : Recurs(f, base, first, step, next)
<1> DEFINE Sol(f, k) == Solves(f, k, base, first, step, next)
           A == {k \in Nat : \E f \in [Nat -> T] : Sol(f, k)}
<1>1. Nat \subseteq A
  <2>1. 0 \in A
    BY DEF Solves
  <2>2. ASSUME NEW k \in Nat, k \in A PROVE k + 1 \in A
    <3>1. PICK f \in [Nat -> T] : Sol(f, k)
      BY <2>2
    <3> DEFINE new == IF k \in base THEN first[k] ELSE next[k][f[step[k]]]
               g == [f EXCEPT ![k] = new]
    <3>2. new \in T /\ g \in [Nat -> T]
      <4>1. first[k] \in T /\ step[k] \in Nat /\ f[step[k]] \in T /\ next[k] \in [T -> T]
        OBVIOUS
      <4> QED
        BY <4>1
    <3>3. Sol(g, k + 1)
      <4> SUFFICES ASSUME NEW n \in 0 .. k
                   PROVE g[n] = IF n \in base THEN first[n] ELSE next[n][g[step[n]]]
        BY DEF Solves
      <4>1. n \notin base => step[n] \in Nat /\ step[n] < n
        OBVIOUS
      <4>2. \A m \in Nat : m # k => g[m] = f[m]
        OBVIOUS
      <4>3. g[k] = new
        OBVIOUS
      <4>4. CASE n = k
        BY <4>1, <4>2, <4>3, <4>4
      <4>5. CASE n # k
        <5>1. n \in 0 .. k - 1 /\ g[n] = f[n]
          BY <4>2, <4>5
        <5>2. f[n] = IF n \in base THEN first[n] ELSE next[n][f[step[n]]]
          BY <3>1, <5>1 DEF Solves
        <5>3. n \notin base => g[step[n]] = f[step[n]]
          BY <4>1, <4>2
        <5> QED
          BY <5>1, <5>2, <5>3
      <4> QED
        BY <4>4, <4>5
    <3> HIDE DEF g, new
    <3> QED
      BY <3>2, <3>3
  <2> HIDE DEF A
  <2> QED
    BY <2>1, <2>2, Induction
<1> DEFINE Best(k) == CHOOSE f \in [Nat -> T] : Sol(f, k)
<1>3. \A k \in Nat : Best(k) \in [Nat -> T] /\ Sol(Best(k), k)
  BY <1>1
<1> HIDE DEF Best
<1> DEFINE h == [n \in Nat |-> Best(n + 1)[n]]
<1>4. h \in [Nat -> T]
  BY <1>3
<1>5. ASSUME NEW n \in Nat
      PROVE  h[n] = IF n \in base THEN first[n] ELSE next[n][h[step[n]]]
  <2>1. Best(n + 1)[n] = IF n \in base THEN first[n]
                         ELSE next[n][Best(n + 1)[step[n]]]
    <3>1. Sol(Best(n + 1), n + 1) /\ n \in 0 .. (n + 1) - 1
      BY <1>3
    <3> QED
      BY <3>1 DEF Solves
  <2>2. n \notin base => Best(n + 1)[step[n]] = h[step[n]]
    <3> SUFFICES ASSUME n \notin base PROVE Best(n + 1)[step[n]] = h[step[n]]
      OBVIOUS
    <3>1. step[n] \in Nat /\ step[n] < n
      OBVIOUS
    <3>2. h[step[n]] = Best(step[n] + 1)[step[n]]
      BY <3>1
    <3>3. Best(n + 1)[step[n]] = Best(step[n] + 1)[step[n]]
      <4>0. PICK k \in Nat : k = n + 1
        OBVIOUS
      <4>5. PICK l \in Nat : l = step[n] + 1
        BY <3>1
      <4>1. PICK f \in [Nat -> T] : f = Best(k) /\ Sol(f, k)
        BY <1>3
      <4>2. PICK g \in [Nat -> T] : g = Best(l) /\ Sol(g, l)
        BY <1>3
      <4>3. \A m \in Nat : m < k /\ m < l => f[m] = g[m]
        BY <4>1, <4>2, SolutionsAgree, SMTT(30)
      <4>4. f[step[n]] = g[step[n]]
        BY <3>1, <4>0, <4>3, <4>5
      <4> QED
        BY <4>0, <4>1, <4>2, <4>4, <4>5
    <3> QED
      BY <3>2, <3>3
  <2> QED
    BY <2>1, <2>2
<1> QED
  BY <1>4, <1>5 DEF Recurs

-----------------------------------------------------------------------------
(* Powers of two.  The provers know nothing of them; that a set with n        *)
(* elements has 2^n subsets gives what is needed.                             *)

\* A power of two is a positive number.
LEMMA PowerIsNat ==
    ASSUME NEW n \in Nat PROVE 2^n \in Nat /\ 2^n >= 1
<1> DEFINE S == 1 .. n
<1>1. IsFiniteSet(S) /\ Cardinality(S) = n
  BY FS_Interval
<1>2. /\ IsFiniteSet(SUBSET S) /\ Cardinality(SUBSET S) = 2^n
  BY <1>1, FS_SUBSET
<1>3. Cardinality(SUBSET S) \in Nat
  BY <1>2, FS_CardinalityType
<1>4. SUBSET S # {}
  OBVIOUS
<1>5. Cardinality(SUBSET S) # 0
  BY <1>2, <1>4, FS_EmptySet
<1> QED
  BY <1>2, <1>3, <1>5

\* A new element is in as many subsets as there were without it.
LEMMA PowerDoubles ==
    ASSUME NEW n \in Nat PROVE 2^(n + 1) = 2 * 2^n
<1> DEFINE x == n + 1  S == 1 .. n  R == 1 .. n + 1
           Without == SUBSET S  With == {T \cup {x} : T \in Without}
<1>1. /\ IsFiniteSet(S) /\ Cardinality(S) = n
      /\ IsFiniteSet(R) /\ Cardinality(R) = n + 1
  BY FS_Interval
<1>2. /\ IsFiniteSet(Without) /\ Cardinality(Without) = 2^n
      /\ Cardinality(SUBSET R) = 2^(n + 1)
  BY <1>1, FS_SUBSET
<1>3. R = S \cup {x} /\ x \notin S
  OBVIOUS
<1>4. SUBSET R = Without \cup With /\ Without \cap With = {}
  <2> HIDE DEF S, R, x
  <2>1. \A T \in SUBSET R : x \notin T => T \in Without
    BY <1>3
  <2>2. \A T \in SUBSET R : x \in T => T = (T \ {x}) \cup {x} /\ T \ {x} \in Without
    BY <1>3
  <2>3. Without \subseteq SUBSET R /\ With \subseteq SUBSET R
    BY <1>3
  <2>4. \A T \in With : x \in T
    OBVIOUS
  <2>5. \A T \in Without : x \notin T
    BY <1>3
  <2>6. \A T \in SUBSET R : x \in T => T \in With
    BY <2>2
  <2> HIDE DEF Without, With
  <2>7. \A T \in SUBSET R : T \in Without \/ T \in With
    BY <2>1, <2>6
  <2> QED
    BY <2>3, <2>4, <2>5, <2>7
<1>5. IsFiniteSet(With) /\ Cardinality(With) = 2^n
  <2> DEFINE f == [T \in Without |-> T \cup {x}]
  <2>1. f \in Bijection(Without, With)
    <3>1. \A T, U \in Without : f[T] = f[U] => T = U
      <4> SUFFICES ASSUME NEW T \in Without, NEW U \in Without, T \cup {x} = U \cup {x}
                   PROVE  T = U
        OBVIOUS
      <4>1. T = (T \cup {x}) \ {x} /\ U = (U \cup {x}) \ {x}
        BY <1>3
      <4> QED
        BY <4>1
    <3>2. f \in [Without -> With] /\ \A W \in With : \E T \in Without : f[T] = W
      OBVIOUS
    <3>3. DOMAIN f = Without
      OBVIOUS
    <3> HIDE DEF f, Without, With
    <3>4. f \in Injection(Without, With)
      BY <3>1, <3>2, <3>3, Fun_IsInj
    <3>5. f \in Surjection(Without, With)
      BY <3>2, Fun_IsSurj
    <3> QED
      BY <3>4, <3>5, Fun_IsBij
  <2> HIDE DEF f, Without, With
  <2>2. ExistsBijection(Without, With)
    BY <2>1 DEF ExistsBijection
  <2> QED
    BY <1>2, <2>2, FS_Bijection
<1>6. Cardinality(Without \cup With) = 2^n + 2^n
  <2> HIDE DEF Without, With
  <2>1. Cardinality(Without \cup With) =
            Cardinality(Without) + Cardinality(With) - Cardinality(Without \cap With)
    BY <1>2, <1>5, FS_Union
  <2>2. Cardinality(Without \cap With) = 0
    BY <1>4, FS_EmptySet
  <2> QED
    BY <1>2, <1>5, <2>1, <2>2, PowerIsNat
<1> HIDE DEF Without, With, R, S, x
<1>7. 2^(n + 1) = 2^n + 2^n
  BY <1>2, <1>4, <1>6
<1>8. \A p \in Nat : p + p = 2 * p
  OBVIOUS
<1> QED
  BY <1>7, <1>8, PowerIsNat

\* Powers are positive, and grow.
LEMMA PowerSum ==
    ASSUME NEW m \in Nat, NEW n \in Nat PROVE 2^(m + n) = 2^m * 2^n
<1> DEFINE A == {k \in Nat : 2^(m + k) = 2^m * 2^k}
<1>1. 0 \in A
  <2>1. 2^0 = 1 /\ m + 0 = m
    OBVIOUS
  <2> QED
    BY <2>1, PowerIsNat
<1>2. ASSUME NEW k \in Nat, k \in A PROVE k + 1 \in A
  <2>1. 2^(m + k) = 2^m * 2^k
    BY <1>2
  <2>2. /\ 2^((m + k) + 1) = 2 * 2^(m + k) /\ 2^(k + 1) = 2 * 2^k
        /\ (m + k) + 1 = m + (k + 1)
    BY PowerDoubles
  <2>3. 2^m \in Nat /\ 2^k \in Nat
    BY PowerIsNat
  <2>4. \A a, b \in Nat : 2 * (a * b) = a * (2 * b)
    OBVIOUS
  <2> QED
    BY <2>1, <2>2, <2>3, <2>4
<1> HIDE DEF A
<1>3. n \in A
  BY <1>1, <1>2, Induction
<1> QED
  BY <1>3 DEF A

\* A greater exponent gives no smaller power.
LEMMA PowerGrows ==
    ASSUME NEW m \in Nat, NEW n \in Nat, m <= n PROVE 2^m <= 2^n
<1>1. n - m \in Nat /\ m + (n - m) = n
  OBVIOUS
<1>2. 2^n = 2^m * 2^(n - m) /\ 2^m \in Nat /\ 2^(n - m) \in Nat /\ 2^(n - m) >= 1
  BY <1>1, PowerSum, PowerIsNat
<1>3. \A a, b \in Nat : b >= 1 => a <= a * b
  OBVIOUS
<1> QED
  BY <1>2, <1>3

\* The values of a byte without its bit for "more".
Base == 2^Group

\* The sizes are positive numbers.
LEMMA SizesAre ==
    /\ Group \in Nat \ {0} /\ MaxVarint \in Nat \ {0} /\ Width \in Nat \ {0}
    /\ IntWidth \in Nat \ {0} /\ PayloadSize \in Nat \ {0}
  BY PacketsAssumption

\* A group has two values at least.
LEMMA BaseIs == Base \in Nat /\ Base >= 2
<1>1. PICK n \in Nat : n = 1
  OBVIOUS
<1>2. Group \in Nat /\ n <= Group
  BY <1>1, SizesAre
<1>3. 2^n <= 2^Group
  BY <1>2, PowerGrows
<1>4. 2^Group \in Nat
  BY <1>2, PowerIsNat
<1>5. 2^n = 2
  BY <1>1
<1> QED
  BY <1>3, <1>4, <1>5 DEF Base

\* A byte is a group with a bit in front.
LEMMA BytesAre == Byte = 0 .. 2 * Base - 1
<1>1. 2^(Group + 1) = 2 * 2^Group
  BY SizesAre, PowerDoubles
<1> QED
  BY <1>1 DEF Base, Byte

-----------------------------------------------------------------------------
(* What the recursive functions of Packets are. *)

\* The quotient by Base is smaller, and with the rest gives the number again.
LEMMA Division ==
    ASSUME NEW n \in Nat
    PROVE  /\ n \div Base \in Nat /\ n % Base \in 0 .. Base - 1
           /\ n = Base * (n \div Base) + (n % Base)
           /\ n >= Base => n \div Base < n /\ n \div Base >= 1
<1>1. Base \in Nat /\ Base >= 2
  BY BaseIs
<1>2. /\ n \div Base \in Nat /\ n % Base \in 0 .. Base - 1
      /\ n = Base * (n \div Base) + (n % Base)
  BY <1>1
<1>3. ASSUME n >= Base PROVE n \div Base >= 1
  BY <1>1, <1>2, <1>3
<1>4. ASSUME n >= Base PROVE n \div Base < n
  <2>1. \A b, q \in Nat : b >= 2 /\ q >= 1 => q < b * q
    OBVIOUS
  <2>2. n \div Base < Base * (n \div Base)
    BY <1>1, <1>2, <1>3, <1>4, <2>1
  <2> QED
    BY <1>1, <1>2, <2>2
<1> QED
  BY <1>2, <1>3, <1>4

\* A group is a byte, and stays one with the bit for "more".
LEMMA GroupsAreBytes ==
    ASSUME NEW n \in 0 .. Base - 1
    PROVE  n \in Byte /\ Base + n \in Byte /\ ~More(n) /\ More(Base + n)
  BY BaseIs, BytesAre DEF More, Base

\* ToVarint gives bytes: the last group, or a group and the rest.
LEMMA VarintUnfolds ==
    ASSUME NEW v \in Nat
    PROVE  /\ ToVarint(v) \in Seq(Byte)
           /\ ToVarint(v) = IF v < Base THEN <<v>>
                            ELSE <<Base + (v % Base)>> \o ToVarint(v \div Base)
<1> DEFINE Encodes(f) ==
               f = [n \in Nat |-> IF n < 2^Group THEN <<n>>
                                  ELSE <<2^Group + (n % 2^Group)>> \o f[n \div 2^Group]]
           E == CHOOSE f : Encodes(f)
           T == Seq(Byte)
           base == 0 .. Base - 1
           first == [n \in Nat |-> IF n \in base THEN <<n>> ELSE <<>>]
           step == [n \in Nat |-> n \div Base]
           next == [n \in Nat |-> [s \in T |-> <<Base + (n % Base)>> \o s]]
<1>1. /\ first \in [Nat -> T] /\ step \in [Nat -> Nat] /\ next \in [Nat -> [T -> T]]
      /\ \A n \in Nat : n \notin base => step[n] < n
  <2>1. first \in [Nat -> T]
    <3>1. \A n \in base : n \in Byte
      BY BaseIs, BytesAre
    <3> HIDE DEF base
    <3> QED
      BY <3>1
  <2>2. step \in [Nat -> Nat] /\ \A n \in Nat : n \notin base => step[n] < n
    <3>1. \A n \in Nat : n \in base \/ n >= Base
      BY BaseIs
    <3> HIDE DEF base
    <3> QED
      BY <3>1, Division
  <2>3. \A n \in Nat : <<Base + (n % Base)>> \in T
    <3>1. \A n \in Nat : Base + (n % Base) \in Byte
      BY Division, GroupsAreBytes
    <3> QED
      BY <3>1
  <2>4. \A n \in Nat, s \in T : <<Base + (n % Base)>> \o s \in T
    BY <2>3
  <2> QED
    BY <2>1, <2>2, <2>4
<1>2. PICK f \in [Nat -> T] : Recurs(f, base, first, step, next)
  <2> HIDE DEF T, base, first, step, next
  <2> QED
    BY <1>1, RecursionExists
<1>3. Encodes(f)
  <2>1. \A n \in Nat : step[n] \in Nat /\ f[step[n]] \in T
    BY <1>1
  <2>0. 2^Group = Base
    BY DEF Base
  <2>2. \A n \in Nat : n < Base <=> n \in base
    BY BaseIs
  <2>3. \A n \in Nat :
            f[n] = IF n < 2^Group THEN <<n>>
                   ELSE <<2^Group + (n % 2^Group)>> \o f[n \div 2^Group]
    BY <1>2, <2>0, <2>1, <2>2 DEF Recurs
  <2> QED
    BY <2>3
<1>4. Encodes(E)
  <2>1. \E g : Encodes(g)
    BY <1>3
  <2> QED
    BY <2>1
<1>5. \A w : ToVarint(w) = E[w]
  BY DEF ToVarint
<1>6. \A w \in Nat :
          ToVarint(w) = IF w < Base THEN <<w>>
                        ELSE <<Base + (w % Base)>> \o ToVarint(w \div Base)
  <2> HIDE DEF E
  <2>1. \A n \in Nat :
            E[n] = IF n < 2^Group THEN <<n>>
                   ELSE <<2^Group + (n % 2^Group)>> \o E[n \div 2^Group]
    BY <1>4
  <2> QED
    BY <1>5, <2>1 DEF Base
<1> DEFINE A == {n \in Nat : ToVarint(n) \in Seq(Byte)}
<1>7. ASSUME NEW n \in Nat, \A m \in 0 .. n - 1 : m \in A PROVE n \in A
  <2>1. CASE n < Base
    <3>1. ToVarint(n) = <<n>>
      BY <1>6, <2>1
    <3>2. n \in Byte
      BY <2>1, BaseIs, GroupsAreBytes
    <3>3. ToVarint(n) \in Seq(Byte)
      BY <3>1, <3>2
    <3> QED
      BY <3>3
  <2>2. CASE ~(n < Base)
    <3>1. ToVarint(n) = <<Base + (n % Base)>> \o ToVarint(n \div Base)
      BY <1>6, <2>2
    <3>2. n \div Base \in 0 .. n - 1
      <4>1. n >= Base
        BY <2>2, BaseIs
      <4>2. n \div Base \in Nat /\ n \div Base < n
        BY <4>1, Division
      <4> QED
        BY <4>2
    <3>0. n % Base \in 0 .. Base - 1
      BY Division
    <3>3. Base + (n % Base) \in Byte
      BY <3>0, GroupsAreBytes
    <3>4. ToVarint(n \div Base) \in Seq(Byte)
      BY <1>7, <3>2
    <3>5. ToVarint(n) \in Seq(Byte)
      BY <3>1, <3>3, <3>4
    <3> QED
      BY <3>5
  <2> QED
    BY <2>1, <2>2
<1> HIDE DEF A
<1>8. v \in A
  BY <1>7, StrongInduction
<1> QED
  BY <1>6, <1>8 DEF A

-----------------------------------------------------------------------------
(* What a sequence of groups adds up to. *)

\* The partial sums that Value computes.
Sums(s) ==
    CHOOSE f : f = [i \in 0 .. Len(s) |->
                       IF i = 0 THEN 0
                       ELSE f[i - 1] + (s[i] % 2^Group) * 2^(Group * (i - 1))]

\* The weight of the group at place i.
Weight(i) == 2^(Group * (i - 1))

\* Each group weighs Base times the one before it.
LEMMA WeightIs ==
    ASSUME NEW i \in Nat \ {0}
    PROVE  /\ Weight(i) \in Nat /\ Weight(i) >= 1 /\ Weight(1) = 1
           /\ Weight(i + 1) = Base * Weight(i)
<1>1. Group * (i - 1) \in Nat /\ Group \in Nat
  BY SizesAre
<1>2. Group * ((i + 1) - 1) = Group + Group * (i - 1) /\ Group * (1 - 1) = 0
  BY SizesAre
<1>3. 2^(Group + Group * (i - 1)) = 2^Group * 2^(Group * (i - 1))
  BY <1>1, PowerSum
<1>4. 2^(Group * (i - 1)) \in Nat /\ 2^(Group * (i - 1)) >= 1
  BY <1>1, PowerIsNat
<1>5. 2^0 = 1
  OBVIOUS
<1> QED
  BY <1>2, <1>3, <1>4, <1>5 DEF Weight, Base

\* The partial sums, and that Value cuts the last of them to its width.
LEMMA SumsAre ==
    ASSUME NEW s \in Seq(Byte)
    PROVE  /\ Sums(s) \in [0 .. Len(s) -> Nat] /\ Sums(s)[0] = 0
           /\ \A i \in 1 .. Len(s) :
                  Sums(s)[i] = Sums(s)[i - 1] + (s[i] % Base) * Weight(i)
           /\ Value(s) = Signed(Sums(s)[Len(s)], Width)
<1> DEFINE term == [i \in Nat |-> IF i \in 1 .. Len(s) THEN (s[i] % Base) * Weight(i) ELSE 0]
           base == {0}
           first == [n \in Nat |-> 0]
           step == [n \in Nat |-> IF n = 0 THEN 0 ELSE n - 1]
           next == [n \in Nat |-> [m \in Nat |-> m + term[n]]]
           IsSum(g) == g = [i \in 0 .. Len(s) |->
                               IF i = 0 THEN 0
                               ELSE g[i - 1] + (s[i] % 2^Group) * 2^(Group * (i - 1))]
<1>1. ASSUME NEW i \in Nat PROVE term[i] \in Nat
  <2>1. CASE i \in 1 .. Len(s)
    <3>1. s[i] \in Nat
      BY <2>1, BytesAre, BaseIs
    <3>2. s[i] % Base \in Nat
      BY <3>1, BaseIs
    <3>3. Weight(i) \in Nat
      BY <2>1, WeightIs
    <3>4. \A a, b \in Nat : a * b \in Nat
      OBVIOUS
    <3> QED
      BY <2>1, <3>2, <3>3, <3>4
  <2>2. CASE i \notin 1 .. Len(s)
    BY <2>2
  <2> QED
    BY <2>1, <2>2
<1>2. /\ first \in [Nat -> Nat] /\ step \in [Nat -> Nat] /\ next \in [Nat -> [Nat -> Nat]]
      /\ \A n \in Nat : n \notin base => step[n] < n
  <2> HIDE DEF term
  <2>1. next \in [Nat -> [Nat -> Nat]]
    BY <1>1
  <2>2. first \in [Nat -> Nat] /\ step \in [Nat -> Nat]
    OBVIOUS
  <2>3. \A n \in Nat : n \notin base => step[n] < n
    OBVIOUS
  <2> QED
    BY <2>1, <2>2, <2>3
<1>3. PICK f \in [Nat -> Nat] : Recurs(f, base, first, step, next)
  <2> HIDE DEF base, first, step, next
  <2> QED
    BY <1>2, RecursionExists
<1>4. f[0] = 0 /\ \A i \in Nat \ {0} : f[i] = f[i - 1] + term[i]
  <2> HIDE DEF term
  <2>1. f[0] = 0
    BY <1>3 DEF Recurs
  <2>2. ASSUME NEW i \in Nat \ {0} PROVE f[i] = f[i - 1] + term[i]
    <3>1. step[i] = i - 1 /\ i - 1 \in Nat /\ i \in Nat /\ i \notin base
      OBVIOUS
    <3>3. f[i] = next[i][f[step[i]]]
      <4> HIDE DEF next, step, first, base
      <4> QED
        BY <1>3, <3>1 DEF Recurs
    <3>2. \A m \in Nat : next[i][m] = m + term[i]
      OBVIOUS
    <3> HIDE DEF next, step
    <3> QED
      BY <3>1, <3>2, <3>3
  <2> QED
    BY <2>1, <2>2
<1> DEFINE h == [i \in 0 .. Len(s) |-> f[i]]
<1>5. /\ h \in [0 .. Len(s) -> Nat] /\ h[0] = 0
      /\ \A i \in 1 .. Len(s) : h[i] = h[i - 1] + (s[i] % Base) * Weight(i)
  <2>1. Len(s) \in Nat
    OBVIOUS
  <2>2. \A i \in 1 .. Len(s) : term[i] = (s[i] % Base) * Weight(i)
    OBVIOUS
  <2> HIDE DEF term
  <2>3. /\ 0 \in 0 .. Len(s)
        /\ \A i \in 1 .. Len(s) : i \in 0 .. Len(s) /\ i - 1 \in 0 .. Len(s)
                                   /\ i \in Nat \ {0}
    BY <2>1, SMTT(30)
  <2>4. \A i \in 0 .. Len(s) : i \in Nat /\ h[i] = f[i]
    BY <2>1
  <2>5. h \in [0 .. Len(s) -> Nat]
    BY <2>4
  <2> HIDE DEF h
  <2> QED
    BY <1>4, <2>2, <2>3, <2>4, <2>5
<1>6. IsSum(h)
  <2>1. \A i \in 0 .. Len(s) :
            h[i] = IF i = 0 THEN 0
                   ELSE h[i - 1] + (s[i] % 2^Group) * 2^(Group * (i - 1))
    <3>1. \A i \in 1 .. Len(s) :
              (s[i] % 2^Group) * 2^(Group * (i - 1)) = (s[i] % Base) * Weight(i)
      BY DEF Base, Weight
    <3> HIDE DEF h
    <3>2. \A i \in 0 .. Len(s) : i = 0 \/ i \in 1 .. Len(s)
      OBVIOUS
    <3> QED
      BY <1>5, <3>1, <3>2
  <2>2. DOMAIN h = 0 .. Len(s)
    OBVIOUS
  <2> HIDE DEF h
  <2> QED
    BY <1>5, <2>1, <2>2
<1>7. IsSum(Sums(s))
  BY <1>6 DEF Sums
<1>8. /\ DOMAIN Sums(s) = 0 .. Len(s) /\ Sums(s)[0] = 0
      /\ \A i \in 1 .. Len(s) :
             Sums(s)[i] = Sums(s)[i - 1] + (s[i] % Base) * Weight(i)
  <2>1. \A i \in 0 .. Len(s) :
            Sums(s)[i] = IF i = 0 THEN 0
                         ELSE Sums(s)[i - 1] + (s[i] % 2^Group) * 2^(Group * (i - 1))
    BY <1>7
  <2>2. \A i \in 1 .. Len(s) :
            (s[i] % 2^Group) * 2^(Group * (i - 1)) = (s[i] % Base) * Weight(i)
    BY DEF Base, Weight
  <2>3. 0 \in 0 .. Len(s) /\ \A i \in 1 .. Len(s) : i \in 0 .. Len(s) /\ i # 0
    OBVIOUS
  <2> QED
    BY <1>7, <2>1, <2>2, <2>3
<1> DEFINE A == {n \in Nat : n <= Len(s) => Sums(s)[n] = h[n]}
<1>9. \A n \in 0 .. Len(s) : Sums(s)[n] = h[n]
  <2>1. 0 \in A
    BY <1>5, <1>8
  <2>2. ASSUME NEW n \in Nat, n \in A PROVE n + 1 \in A
    <3> SUFFICES ASSUME n + 1 <= Len(s) PROVE Sums(s)[n + 1] = h[n + 1]
      OBVIOUS
    <3>1. n + 1 \in 1 .. Len(s) /\ (n + 1) - 1 = n /\ Sums(s)[n] = h[n]
      BY <2>2
    <3> HIDE DEF h
    <3> QED
      BY <1>5, <1>8, <3>1
  <2> HIDE DEF A
  <2>3. Nat \subseteq A
    BY <2>1, <2>2, Induction
  <2>4. \A n \in 0 .. Len(s) : n \in Nat /\ n <= Len(s)
    OBVIOUS
  <2> HIDE DEF h
  <2> QED
    BY <2>3, <2>4 DEF A
<1>10. Sums(s) \in [0 .. Len(s) -> Nat]
  <2>1. Sums(s) = [i \in 0 .. Len(s) |-> Sums(s)[i]]
    BY <1>7
  <2> HIDE DEF h
  <2> QED
    BY <1>5, <1>9, <2>1
<1>11. Value(s) = Signed(Sums(s)[Len(s)], Width)
  BY DEF Value, Sums
<1> QED
  BY <1>8, <1>10, <1>11

-----------------------------------------------------------------------------
(* What ToVarint writes. *)

\* A group in front of others.
LEMMA Cons ==
    ASSUME NEW b \in Byte, NEW t \in Seq(Byte)
    PROVE  /\ <<b>> \o t \in Seq(Byte) /\ Len(<<b>> \o t) = Len(t) + 1
           /\ (<<b>> \o t)[1] = b
           /\ \A i \in 1 .. Len(t) : (<<b>> \o t)[i + 1] = t[i]
  OBVIOUS

\* A product over a sum, in the form that the sums of groups need.
LEMMA Distributes ==
    ASSUME NEW c \in Nat, NEW B \in Nat, NEW s \in Nat, NEW x \in Nat, NEW W \in Nat
    PROVE  (c + B * s) + x * (B * W) = c + B * (s + x * W)
  OBVIOUS

\* The group counts as it is, the others Base times as much as without it.
LEMMA SumsOfCons ==
    ASSUME NEW b \in Byte, NEW t \in Seq(Byte)
    PROVE  Sums(<<b>> \o t)[Len(t) + 1] = (b % Base) + Base * Sums(t)[Len(t)]
<1> DEFINE u == <<b>> \o t
           A == {i \in Nat : i <= Len(t) =>
                                Sums(u)[i + 1] = (b % Base) + Base * Sums(t)[i]}
<1>1. /\ u \in Seq(Byte) /\ Len(u) = Len(t) + 1 /\ u[1] = b
      /\ \A i \in 1 .. Len(t) : u[i + 1] = t[i]
      /\ Len(t) \in Nat
  BY Cons
<1> HIDE DEF u
<1>2. b \in Nat /\ b % Base \in Nat /\ Base \in Nat
  BY BaseIs, BytesAre
<1>3. 0 \in A
  <2>1. 1 \in 1 .. Len(u) /\ 1 - 1 = 0
    BY <1>1
  <2>2. Sums(u)[1] = Sums(u)[1 - 1] + (u[1] % Base) * Weight(1)
    BY <1>1, <2>1, SumsAre
  <2>3. Sums(u)[1 - 1] = 0 /\ Sums(t)[0] = 0 /\ Weight(1) = 1
    BY <1>1, <2>1, SumsAre, WeightIs
  <2>4. Sums(u)[1] = b % Base
    BY <1>1, <1>2, <2>2, <2>3
  <2> QED
    BY <1>2, <2>3, <2>4
<1>4. ASSUME NEW i \in Nat, i \in A PROVE i + 1 \in A
  <2> SUFFICES ASSUME i + 1 <= Len(t)
               PROVE  Sums(u)[(i + 1) + 1] = (b % Base) + Base * Sums(t)[i + 1]
    OBVIOUS
  <2>1. /\ i + 1 \in 1 .. Len(t) /\ (i + 1) + 1 \in 1 .. Len(u)
        /\ i \in 0 .. Len(t) /\ (i + 1) - 1 = i /\ ((i + 1) + 1) - 1 = i + 1
        /\ i + 1 \in Nat \ {0}
    BY <1>1
  <2>2. Sums(u)[i + 1] = (b % Base) + Base * Sums(t)[i]
    BY <1>4, <2>1
  <2>3. Sums(u)[(i + 1) + 1] =
            Sums(u)[i + 1] + (u[(i + 1) + 1] % Base) * Weight((i + 1) + 1)
    BY <1>1, <2>1, SumsAre
  <2>4. Sums(t)[i + 1] = Sums(t)[i] + (t[i + 1] % Base) * Weight(i + 1)
    BY <2>1, SumsAre
  <2>5. u[(i + 1) + 1] = t[i + 1]
    BY <1>1, <2>1
  <2>6. Weight((i + 1) + 1) = Base * Weight(i + 1) /\ Weight(i + 1) \in Nat
    BY <2>1, WeightIs
  <2>7. t[i + 1] % Base \in Nat
    <3>1. t[i + 1] \in Byte
      BY <2>1
    <3> QED
      BY <3>1, BaseIs, BytesAre
  <2>8. Sums(t)[i] \in Nat
    BY <2>1, SumsAre
  <2>9. PICK c \in Nat, B \in Nat, m \in Nat, x \in Nat, W \in Nat :
            /\ c = b % Base /\ B = Base /\ m = Sums(t)[i]
            /\ x = t[i + 1] % Base /\ W = Weight(i + 1)
    BY <1>2, <2>6, <2>7, <2>8
  <2>10. (c + B * m) + x * (B * W) = c + B * (m + x * W)
    BY Distributes
  <2> QED
    BY <2>2, <2>3, <2>4, <2>5, <2>6, <2>9, <2>10
<1> HIDE DEF A
<1>5. Len(t) \in A
  BY <1>1, <1>3, <1>4, Induction
<1> QED
  BY <1>1, <1>5 DEF A, u

\* A VarInt as ToVarint writes it: all bytes but the last have the bit for
\* "more", the groups add up to the number, and there are no more than it needs.
IsVarint(w, v) ==
    /\ w \in Seq(Byte) /\ Len(w) \in Nat \ {0}
    /\ \A i \in 1 .. Len(w) - 1 : More(w[i])
    /\ ~More(w[Len(w)])
    /\ Sums(w)[Len(w)] = v
    /\ \A k \in Nat \ {0} : v < Weight(k + 1) => Len(w) <= k

\* One group is the VarInt of a number below Base.
LEMMA ShortVarint ==
    ASSUME NEW n \in 0 .. Base - 1 PROVE IsVarint(<<n>>, n)
<1>1. <<n>> \in Seq(Byte) /\ Len(<<n>>) = 1 /\ <<n>>[1] = n /\ ~More(n)
  BY GroupsAreBytes
<1>2. Sums(<<n>>)[1] = n
  <2>1. Sums(<<n>>)[1] = Sums(<<n>>)[0] + (n % Base) * Weight(1)
    <3>1. 1 \in 1 .. Len(<<n>>) /\ 1 - 1 = 0
      BY <1>1
    <3> QED
      BY <1>1, <3>1, SumsAre
  <2>2. Sums(<<n>>)[0] = 0
    BY <1>1, SumsAre
  <2>4. Weight(1) = 1
    BY WeightIs
  <2>3. n % Base = n /\ n \in Nat
    BY BaseIs
  <2> QED
    BY <2>1, <2>2, <2>3, <2>4
<1> QED
  BY <1>1, <1>2 DEF IsVarint

\* A group with the bit set before the VarInt of the quotient is that of the
\* number.
LEMMA LongVarint ==
    ASSUME NEW n \in Nat, n >= Base, NEW t, IsVarint(t, n \div Base)
    PROVE  IsVarint(<<Base + (n % Base)>> \o t, n)
<1> DEFINE q == n \div Base  r == n % Base  b == Base + r  u == <<b>> \o t
<1>1. q \in Nat /\ r \in 0 .. Base - 1 /\ n = Base * q + r
  BY Division
<1> HIDE DEF q, r
<1>2. b \in Byte /\ More(b)
  BY <1>1, GroupsAreBytes
<1>3. t \in Seq(Byte) /\ Len(t) \in Nat \ {0} /\ Sums(t)[Len(t)] = q
  BY DEF IsVarint, q
<1>4. b % Base = r
  BY <1>1, BaseIs
<1> HIDE DEF b
<1>5. /\ u \in Seq(Byte) /\ Len(u) = Len(t) + 1 /\ u[1] = b
      /\ \A i \in 1 .. Len(t) : u[i + 1] = t[i]
  BY <1>2, <1>3, Cons
<1>6. Sums(u)[Len(u)] = n
  <2>1. Sums(u)[Len(t) + 1] = (b % Base) + Base * Sums(t)[Len(t)]
    BY <1>2, <1>3, SumsOfCons
  <2> QED
    BY <1>1, <1>3, <1>4, <1>5, <2>1, BaseIs
<1> HIDE DEF u
<1>7. /\ \A i \in 1 .. Len(u) - 1 : More(u[i])
      /\ ~More(u[Len(u)])
  <2>1. ASSUME NEW i \in 1 .. Len(u) - 1 PROVE More(u[i])
    <3>1. CASE i = 1
      BY <1>2, <1>5, <3>1
    <3>2. CASE i # 1
      <4>1. i - 1 \in 1 .. Len(t) - 1 /\ (i - 1) + 1 = i /\ i - 1 \in 1 .. Len(t)
        BY <1>3, <1>5, <3>2
      <4>2. More(t[i - 1])
        BY <4>1 DEF IsVarint
      <4> QED
        BY <1>5, <4>1, <4>2
    <3> QED
      BY <3>1, <3>2
  <2>2. u[Len(u)] = t[Len(t)]
    BY <1>3, <1>5
  <2> QED
    BY <2>1, <2>2 DEF IsVarint
<1>8. ASSUME NEW k \in Nat \ {0}, n < Weight(k + 1) PROVE Len(u) <= k
  <2>1. Weight(k + 1) = Base * Weight(k) /\ Weight(k) \in Nat /\ Weight(1) = 1
    BY WeightIs
  <2>2. q < Weight(k)
    <3>1. \A B, x, y, z \in Nat : x >= y => B * x + z >= B * y
      <4> SUFFICES ASSUME NEW B \in Nat, NEW x \in Nat, NEW y \in Nat, NEW z \in Nat, x >= y
                   PROVE  B * x + z >= B * y
        OBVIOUS
      <4>1. B * x = B * y + B * (x - y) /\ B * (x - y) >= 0 /\ B * y \in Nat
        OBVIOUS
      <4> QED
        BY <4>1
    <3>2. q >= Weight(k) => Base * q + r >= Base * Weight(k)
      BY <1>1, <2>1, <3>1, BaseIs
    <3>3. Base * q + r \in Nat /\ Base * Weight(k) \in Nat
      BY <1>1, <1>8, <2>1, BaseIs
    <3> QED
      BY <1>1, <1>8, <2>1, <3>2, <3>3
  <2>3. k # 1
    <3>1. q >= 1
      BY Division DEF q
    <3> QED
      BY <1>1, <2>1, <2>2, <3>1
  <2>4. k - 1 \in Nat \ {0} /\ (k - 1) + 1 = k
    BY <2>3
  <2>5. Len(t) <= k - 1
    BY <2>2, <2>4 DEF IsVarint, q
  <2> QED
    BY <1>3, <1>5, <2>5
<1>9. IsVarint(u, n)
  BY <1>3, <1>5, <1>6, <1>7, <1>8 DEF IsVarint
<1> QED
  BY <1>9 DEF u, b, r

\* So it is for every number.
LEMMA VarintIs ==
    ASSUME NEW v \in Nat PROVE IsVarint(ToVarint(v), v)
<1> DEFINE A == {n \in Nat : IsVarint(ToVarint(n), n)}
<1>1. ASSUME NEW n \in Nat, \A m \in 0 .. n - 1 : m \in A PROVE n \in A
  <2>1. CASE n < Base
    <3>1. ToVarint(n) = <<n>>
      BY <2>1, VarintUnfolds
    <3>2. n \in 0 .. Base - 1
      BY <2>1, BaseIs
    <3> QED
      BY <3>1, <3>2, ShortVarint
  <2>2. CASE ~(n < Base)
    <3>1. n >= Base
      BY <2>2, BaseIs
    <3>2. ToVarint(n) = <<Base + (n % Base)>> \o ToVarint(n \div Base)
      BY <2>2, VarintUnfolds
    <3>3. n \div Base \in Nat /\ n \div Base < n
      BY <3>1, Division
    <3>4. IsVarint(ToVarint(n \div Base), n \div Base)
      BY <1>1, <3>3
    <3> QED
      BY <3>1, <3>2, <3>4, LongVarint
  <2> QED
    BY <2>1, <2>2
<1> HIDE DEF A
<1>2. v \in A
  BY <1>1, StrongInduction
<1> QED
  BY <1>2 DEF A

-----------------------------------------------------------------------------
(* Reading VarInts. *)

\* A number of w bits is one, and a small one is what it was.
LEMMA SignedIs ==
    ASSUME NEW v \in Int, NEW w \in Nat \ {0}
    PROVE  /\ Signed(v, w) \in Int
           /\ v \in 0 .. 2^(w - 1) - 1 => Signed(v, w) = v
<1>1. PICK h \in Nat : h = 2^(w - 1) /\ h >= 1
  BY PowerIsNat
<1>2. 2^w = 2 * h
  <2>1. w - 1 \in Nat /\ (w - 1) + 1 = w
    OBVIOUS
  <2>2. 2^((w - 1) + 1) = 2 * 2^(w - 1)
    BY <2>1, PowerDoubles
  <2> QED
    BY <1>1, <2>1, <2>2
<1>3. Signed(v, w) = IF v % (2 * h) < h THEN v % (2 * h) ELSE (v % (2 * h)) - 2 * h
  BY <1>1, <1>2 DEF Signed
<1>4. v % (2 * h) \in Int /\ (v \in 0 .. h - 1 => v % (2 * h) = v)
  BY <1>1
<1> QED
  BY <1>1, <1>3, <1>4

\* Where the loop of Taken may stop; it is one place.
Stops(s, n) ==
    /\ n \in 0 .. MaxVarint /\ n <= Len(s)
    /\ \A i \in 1 .. n - 1 : More(s[i])
    /\ n = Len(s) \/ n = MaxVarint \/ (n > 0 /\ ~More(s[n]))

\* The place that Taken chooses.
LEMMA TakenIs ==
    ASSUME NEW s \in Seq(Byte)
    PROVE  /\ Stops(s, Taken(s)) /\ Taken(s) \in Nat
           /\ \A n \in Nat : Stops(s, n) => Taken(s) = n
<1>1. Len(s) \in Nat /\ MaxVarint \in Nat \ {0}
  BY SizesAre
<1>2. \E n \in 0 .. MaxVarint : Stops(s, n)
  <2> DEFINE T == {n \in Nat : \/ n = Len(s) \/ n = MaxVarint
                               \/ n \in 1 .. Len(s) /\ ~More(s[n])}
  <2>1. T \subseteq Nat /\ Len(s) \in T /\ MaxVarint \in T
    BY <1>1
  <2>2. PICK n \in T : \A m \in T : n <= m
    <3> HIDE DEF T
    <3>1. T # {}
      BY <2>1
    <3> QED
      BY <2>1, <3>1, LeastElement
  <2>3. n \in Nat /\ n <= Len(s) /\ n <= MaxVarint
    BY <2>1, <2>2
  <2>4. ASSUME NEW i \in 1 .. n - 1 PROVE More(s[i])
    <3>1. i \in Nat /\ i < n /\ i \in 1 .. Len(s)
      BY <1>1, <2>3
    <3>2. i \notin T
      BY <2>2, <2>3, <3>1
    <3> QED
      BY <3>1, <3>2
  <2>5. n = Len(s) \/ n = MaxVarint \/ (n > 0 /\ ~More(s[n]))
    OBVIOUS
  <2> HIDE DEF T
  <2>6. n \in 0 .. MaxVarint
    BY <1>1, <2>3
  <2> QED
    BY <2>3, <2>4, <2>5, <2>6 DEF Stops
<1>3. Stops(s, Taken(s))
  <2>1. Taken(s) = CHOOSE n \in 0 .. MaxVarint : Stops(s, n)
    BY DEF Taken, Stops
  <2> QED
    BY <1>2, <2>1
<1>4. ASSUME NEW m \in Nat, NEW n \in Nat, Stops(s, m), Stops(s, n), m < n PROVE FALSE
  <2>1. m < Len(s) /\ m < MaxVarint
    BY <1>1, <1>4 DEF Stops
  <2>2. m > 0 /\ ~More(s[m])
    BY <1>4, <2>1 DEF Stops
  <2>3. m \in 1 .. n - 1
    BY <1>4, <2>2
  <2> QED
    BY <1>4, <2>2, <2>3 DEF Stops
<1>5. Taken(s) \in Nat
  BY <1>1, <1>3 DEF Stops
<1> QED
  BY <1>3, <1>4, <1>5

\* What is read is a number.
LEMMA ValueIs == ASSUME NEW s \in Seq(Byte) PROVE Value(s) \in Int
<1>1. Sums(s)[Len(s)] \in Nat /\ Value(s) = Signed(Sums(s)[Len(s)], Width)
  <2>1. Len(s) \in 0 .. Len(s)
    OBVIOUS
  <2> QED
    BY <2>1, SumsAre
<1>2. Width \in Nat \ {0}
  BY SizesAre
<1>3. Sums(s)[Len(s)] \in Int
  BY <1>1
<1>4. Signed(Sums(s)[Len(s)], Width) \in Int
  BY <1>2, <1>3, SignedIs
<1> QED
  BY <1>1, <1>4

\* The ends of a sequence.
LEMMA EndsAre ==
    ASSUME NEW S, NEW s \in Seq(S), NEW n \in 0 .. Len(s)
    PROVE  /\ SubSeq(s, 1, n) \in Seq(S) /\ Len(SubSeq(s, 1, n)) = n
           /\ Drop(s, n) \in Seq(S) /\ Len(Drop(s, n)) = Len(s) - n
           /\ \A i \in 1 .. n : SubSeq(s, 1, n)[i] = s[i]
           /\ \A i \in 1 .. Len(s) - n : Drop(s, n)[i] = s[n + i]
           /\ s = SubSeq(s, 1, n) \o Drop(s, n)
<1>1. /\ SubSeq(s, 1, n) \in Seq(S) /\ Len(SubSeq(s, 1, n)) = n
      /\ \A i \in 1 .. n : SubSeq(s, 1, n)[i] = s[i]
  OBVIOUS
<1>2. /\ Drop(s, n) \in Seq(S) /\ Len(Drop(s, n)) = Len(s) - n
      /\ \A i \in 1 .. Len(s) - n : Drop(s, n)[i] = s[n + i]
  BY DEF Drop
<1>3. s = SubSeq(s, 1, n) \o Drop(s, n)
  <2> DEFINE a == SubSeq(s, 1, n)  b == Drop(s, n)
  <2>1. a \o b \in Seq(S) /\ Len(a \o b) = Len(s)
    BY <1>1, <1>2
  <2>2. ASSUME NEW i \in 1 .. Len(s) PROVE (a \o b)[i] = s[i]
    <3>0. (a \o b)[i] = IF i <= n THEN a[i] ELSE b[i - n]
      <4> HIDE DEF a, b
      <4> QED
        BY <1>1, <1>2 DEF a, b
    <3>1. CASE i <= n
      BY <1>1, <3>0, <3>1
    <3>2. CASE i > n
      BY <1>2, <3>0, <3>2
    <3>3. i <= n \/ i > n
      OBVIOUS
    <3> QED
      BY <3>1, <3>2, <3>3
  <2> HIDE DEF a, b
  <2>3. a \o b = s
    BY <2>1, <2>2, SeqEqual
  <2> QED
    BY <2>3 DEF a, b
<1> QED
  BY <1>1, <1>2, <1>3

\* The ends of two sequences, one behind the other.
LEMMA JoinedAre ==
    ASSUME NEW S, NEW s \in Seq(S), NEW t \in Seq(S)
    PROVE  /\ s \o t \in Seq(S) /\ Len(s \o t) = Len(s) + Len(t)
           /\ \A i \in 1 .. Len(s) : (s \o t)[i] = s[i]
           /\ \A i \in 1 .. Len(t) : (s \o t)[Len(s) + i] = t[i]
           /\ SubSeq(s \o t, 1, Len(s)) = s
           /\ Drop(s \o t, Len(s)) = t
<1>1. /\ s \o t \in Seq(S) /\ Len(s \o t) = Len(s) + Len(t)
      /\ \A i \in 1 .. Len(s) : (s \o t)[i] = s[i]
      /\ \A i \in 1 .. Len(t) : (s \o t)[Len(s) + i] = t[i]
  OBVIOUS
<1>2. Len(s) \in 0 .. Len(s \o t)
  BY <1>1
<1> DEFINE u == s \o t
<1> HIDE DEF u
<1>3. /\ SubSeq(u, 1, Len(s)) \in Seq(S) /\ Len(SubSeq(u, 1, Len(s))) = Len(s)
      /\ \A i \in 1 .. Len(s) : SubSeq(u, 1, Len(s))[i] = s[i]
      /\ Drop(u, Len(s)) \in Seq(S) /\ Len(Drop(u, Len(s))) = Len(t)
      /\ \A i \in 1 .. Len(t) : Drop(u, Len(s))[i] = t[i]
  <2>1. u \in Seq(S) /\ Len(s) \in 0 .. Len(u)
    BY <1>1, <1>2 DEF u
  <2>2. Len(u) - Len(s) = Len(t)
    BY <1>1 DEF u
  <2>3. /\ \A i \in 1 .. Len(s) : u[i] = s[i]
        /\ \A i \in 1 .. Len(t) : u[Len(s) + i] = t[i]
    BY <1>1 DEF u
  <2> QED
    BY <2>1, <2>2, <2>3, EndsAre
<1>4. SubSeq(u, 1, Len(s)) = s /\ Drop(u, Len(s)) = t
  BY <1>3, SeqEqual
<1> QED
  BY <1>1, <1>4 DEF u

\* It does not matter which two of three are put together first.
LEMMA JoinedTwice ==
    ASSUME NEW r \in Seq(Byte), NEW s \in Seq(Byte), NEW t \in Seq(Byte)
    PROVE  (r \o s) \o t = r \o (s \o t)
  BY ConcatAssociative, SMTT(30)

\* The parts of what ReadVarint returns, with nothing of s lost behind the
\* VarInt.
LEMMA ReadVarintIs ==
    ASSUME NEW s \in Seq(Byte)
    PROVE  /\ ReadVarint(s) = [ok |-> ReadVarint(s).ok, value |-> ReadVarint(s).value,
                               rest |-> ReadVarint(s).rest]
           /\ ReadVarint(s).ok \in BOOLEAN /\ ReadVarint(s).value \in Int
           /\ ReadVarint(s).rest \in Seq(Byte)
           /\ Len(s) = Taken(s) + Len(ReadVarint(s).rest)
           /\ ReadVarint(s).rest = Drop(s, Taken(s))
           /\ ReadVarint(s).ok = (Taken(s) > 0 /\ ~More(s[Taken(s)]))
           /\ ReadVarint(s).ok => ReadVarint(s).value = Value(SubSeq(s, 1, Taken(s)))
<1>1. Taken(s) \in 0 .. Len(s)
  BY TakenIs DEF Stops
<1>2. /\ ReadVarint(s).ok = (Taken(s) > 0 /\ ~More(s[Taken(s)]))
      /\ ReadVarint(s).value = IF ReadVarint(s).ok THEN Value(SubSeq(s, 1, Taken(s))) ELSE 0
      /\ ReadVarint(s).rest = Drop(s, Taken(s))
      /\ ReadVarint(s) = [ok |-> ReadVarint(s).ok, value |-> ReadVarint(s).value,
                          rest |-> ReadVarint(s).rest]
  BY DEF ReadVarint
<1>3. /\ SubSeq(s, 1, Taken(s)) \in Seq(Byte)
      /\ Drop(s, Taken(s)) \in Seq(Byte) /\ Len(Drop(s, Taken(s))) = Len(s) - Taken(s)
  BY <1>1, EndsAre
<1>4. Value(SubSeq(s, 1, Taken(s))) \in Int
  BY <1>3, ValueIs
<1> QED
  BY <1>1, <1>2, <1>3, <1>4

\* What was read from a beginning is read from the whole: bytes that come later
\* do not change a VarInt that was complete.
LEMMA ReadVarintOfMore ==
    ASSUME NEW s \in Seq(Byte), NEW t \in Seq(Byte), ReadVarint(s).ok
    PROVE  ReadVarint(s \o t) = [ok |-> TRUE, value |-> ReadVarint(s).value,
                                 rest |-> ReadVarint(s).rest \o t]
<1>0. PICK u \in Seq(Byte) : u = s \o t
  BY JoinedAre
<1>1. /\ Len(u) = Len(s) + Len(t) /\ Len(s) \in Nat /\ Len(t) \in Nat
      /\ \A i \in 1 .. Len(s) : u[i] = s[i]
  BY <1>0, JoinedAre
<1>2. PICK n : n = Taken(s)
  OBVIOUS
<1>3. n \in 1 .. Len(s) /\ ~More(s[n]) /\ Stops(s, n)
  <2>1. Taken(s) > 0 /\ ~More(s[Taken(s)])
    BY ReadVarintIs
  <2>2. Stops(s, Taken(s)) /\ Taken(s) \in Nat
    BY TakenIs
  <2>3. Taken(s) <= Len(s)
    BY <2>2 DEF Stops
  <2>4. Taken(s) \in 1 .. Len(s)
    BY <1>1, <2>1, <2>2, <2>3
  <2> QED
    BY <1>2, <2>1, <2>2, <2>4
<1>4. Stops(u, n)
  <2>1. /\ n \in 0 .. MaxVarint /\ \A i \in 1 .. n - 1 : More(s[i])
    BY <1>3 DEF Stops
  <2>2. \A i \in 1 .. n : i \in 1 .. Len(s)
    BY <1>1, <1>3
  <2>3. \A i \in 1 .. n : u[i] = s[i]
    BY <1>1, <2>2
  <2>4. n \in 1 .. n /\ \A i \in 1 .. n - 1 : i \in 1 .. n
    BY <1>3
  <2>5. n <= Len(u) /\ n > 0
    BY <1>1, <1>3
  <2>6. ~More(u[n]) /\ \A i \in 1 .. n - 1 : More(u[i])
    BY <1>3, <2>1, <2>3, <2>4
  <2> QED
    BY <2>1, <2>5, <2>6 DEF Stops
<1>5. Taken(u) = n
  BY <1>1, <1>3, <1>4, TakenIs
<1>6. SubSeq(u, 1, n) = SubSeq(s, 1, n) /\ Drop(u, n) = Drop(s, n) \o t
  <2>1. n \in 0 .. Len(s) /\ n \in 0 .. Len(u)
    BY <1>1, <1>3
  <2>2. /\ SubSeq(s, 1, n) \in Seq(Byte) /\ Len(SubSeq(s, 1, n)) = n
        /\ SubSeq(u, 1, n) \in Seq(Byte) /\ Len(SubSeq(u, 1, n)) = n
        /\ \A i \in 1 .. n : SubSeq(s, 1, n)[i] = s[i] /\ SubSeq(u, 1, n)[i] = u[i]
    BY <1>1, <2>1, EndsAre
  <2>3. SubSeq(u, 1, n) = SubSeq(s, 1, n)
    BY <1>1, <2>1, <2>2, SeqEqual
  <2>4. Drop(s, n) \in Seq(Byte) /\ s = SubSeq(s, 1, n) \o Drop(s, n)
    BY <2>1, EndsAre
  <2>5. u = SubSeq(s, 1, n) \o (Drop(s, n) \o t)
    <3>1. PICK a \in Seq(Byte), b \in Seq(Byte) : a = SubSeq(s, 1, n) /\ b = Drop(s, n)
      BY <2>2, <2>4
    <3>2. s = a \o b
      BY <2>4, <3>1
    <3>3. (a \o b) \o t = a \o (b \o t)
      BY JoinedTwice, SMTT(30)
    <3> QED
      BY <1>0, <3>1, <3>2, <3>3
  <2>6. Drop(SubSeq(s, 1, n) \o (Drop(s, n) \o t), Len(SubSeq(s, 1, n))) = Drop(s, n) \o t
    <3>1. Drop(s, n) \o t \in Seq(Byte)
      BY <2>4
    <3> QED
      BY <2>2, <3>1, JoinedAre
  <2> QED
    BY <2>2, <2>3, <2>5, <2>6
<1>7. ReadVarint(u).ok
  <2>1. Taken(u) > 0 /\ ~More(u[Taken(u)])
    BY <1>1, <1>3, <1>5
  <2> QED
    BY <2>1, ReadVarintIs
<1>8. ReadVarint(u).value = ReadVarint(s).value
  <2>1. ReadVarint(u).value = Value(SubSeq(u, 1, n))
    BY <1>5, <1>7, ReadVarintIs
  <2>2. ReadVarint(s).value = Value(SubSeq(s, 1, n))
    BY <1>3, <1>2, ReadVarintIs
  <2> QED
    BY <1>6, <2>1, <2>2
<1>9. ReadVarint(u).rest = ReadVarint(s).rest \o t
  <2>1. ReadVarint(u).rest = Drop(u, n) /\ ReadVarint(s).rest = Drop(s, n)
    BY <1>3, <1>2, <1>5, ReadVarintIs
  <2> QED
    BY <1>6, <2>1
<1>10. ReadVarint(u) = [ok |-> ReadVarint(u).ok, value |-> ReadVarint(u).value,
                       rest |-> ReadVarint(u).rest]
      /\ ReadVarint(u).ok \in BOOLEAN
  BY ReadVarintIs
<1> QED
  BY <1>0, <1>7, <1>8, <1>9, <1>10
-----------------------------------------------------------------------------
(* What is written can be read: the numbers and lengths an Integer can hold. *)

Short == 0 .. 2^(Width - 1) - 1

\* Ten bytes are enough for all of them.
LEMMA ShortIs ==
    /\ Short \subseteq Nat /\ 0 \in Short
    /\ \A v \in Short, u \in Nat : u <= v => u \in Short
    /\ \A v \in Short : Signed(v, Width) = v /\ v < Weight(MaxVarint + 1)
<1>1. PICK h \in Nat : h = 2^(Width - 1) /\ h >= 1
  BY SizesAre, PowerIsNat
<1>2. Short = 0 .. h - 1
  BY <1>1 DEF Short
<1>3. h <= Weight(MaxVarint + 1)
  <2>1. Group * MaxVarint \in Nat /\ Group * ((MaxVarint + 1) - 1) = Group * MaxVarint
    BY SizesAre
  <2>2. Width - 1 \in Nat /\ Width - 1 <= Group * MaxVarint
    BY SizesAre, PacketsAssumption
  <2>3. 2^(Width - 1) <= 2^(Group * MaxVarint)
    BY <2>1, <2>2, PowerGrows
  <2> QED
    BY <1>1, <2>1, <2>3 DEF Weight
<1>4. Weight(MaxVarint + 1) \in Nat
  <2>1. MaxVarint + 1 \in Nat \ {0}
    BY SizesAre
  <2> QED
    BY <2>1, WeightIs
<1>5. ASSUME NEW v \in Short PROVE Signed(v, Width) = v
  <2>1. v \in 0 .. 2^(Width - 1) - 1 /\ v \in Int /\ Width \in Nat \ {0}
    BY <1>1, <1>2, SizesAre DEF Short
  <2> QED
    BY <2>1, SignedIs
<1> QED
  BY <1>1, <1>2, <1>3, <1>4, <1>5

\* An Integer holds no more than that, whatever was read.
LEMMA ReadIsShort ==
    ASSUME NEW s \in Seq(Byte), ReadVarint(s).value >= 0
    PROVE  ReadVarint(s).value \in Short
<1>1. Taken(s) \in 0 .. Len(s)
  BY TakenIs DEF Stops
<1>2. PICK w \in Seq(Byte) : w = SubSeq(s, 1, Taken(s))
  BY <1>1, EndsAre
<1>3. PICK x \in Nat : x = Sums(w)[Len(w)] /\ Value(w) = Signed(x, Width)
  <2>1. Len(w) \in 0 .. Len(w)
    OBVIOUS
  <2> QED
    BY <2>1, SumsAre
<1>4. PICK h \in Nat : h = 2^(Width - 1) /\ h >= 1
  BY SizesAre, PowerIsNat
<1>5. 2^Width = 2 * h
  <2>1. Width - 1 \in Nat /\ (Width - 1) + 1 = Width
    BY SizesAre
  <2>2. 2^((Width - 1) + 1) = 2 * 2^(Width - 1)
    BY <2>1, PowerDoubles
  <2> QED
    BY <1>4, <2>1, <2>2
<1>6. Signed(x, Width) = IF x % (2 * h) < h THEN x % (2 * h) ELSE (x % (2 * h)) - 2 * h
  BY <1>4, <1>5 DEF Signed
<1>7. x % (2 * h) \in 0 .. 2 * h - 1
  BY <1>4
<1>8. Signed(x, Width) < h
  BY <1>4, <1>6, <1>7, SMTT(30)
<1>9. ReadVarint(s).value = 0 \/ ReadVarint(s).value = Signed(x, Width)
  BY <1>2, <1>3 DEF ReadVarint
<1>10. ReadVarint(s).value < h /\ ReadVarint(s).value \in Int
  BY <1>4, <1>8, <1>9, ReadVarintIs
<1> QED
  BY <1>4, <1>10 DEF Short

\* w is read as the number n, whatever follows it, and a as the text s.
ReadsAs(w, n) ==
    \A t \in Seq(Byte) : ReadVarint(w \o t) = [ok |-> TRUE, value |-> n, rest |-> t]
ReadsAsText(a, s) ==
    \A t \in Seq(Byte) : ReadString(a \o t) = [ok |-> TRUE, value |-> s, rest |-> t]

\* A VarInt of v that may have groups more than it needs.
Spells(w, v) ==
    /\ w \in Seq(Byte) /\ Len(w) \in Nat \ {0}
    /\ \A i \in 1 .. Len(w) - 1 : More(w[i])
    /\ ~More(w[Len(w)])
    /\ Sums(w)[Len(w)] = v

\* Of no more bytes than the loops take, it is read to its end.
LEMMA SpelledReadsBack ==
    ASSUME NEW w, NEW v \in Nat, Spells(w, v), Len(w) <= MaxVarint
    PROVE  ReadsAs(w, Signed(v, Width))
<1> SUFFICES ASSUME NEW t \in Seq(Byte)
             PROVE  ReadVarint(w \o t) =
                        [ok |-> TRUE, value |-> Signed(v, Width), rest |-> t]
  BY DEF ReadsAs
<1>1. /\ w \in Seq(Byte) /\ Len(w) \in Nat \ {0}
      /\ \A i \in 1 .. Len(w) - 1 : More(w[i])
      /\ ~More(w[Len(w)])
      /\ Sums(w)[Len(w)] = v
  BY DEF Spells
<1>2. Len(w) <= MaxVarint /\ MaxVarint \in Nat
  BY SizesAre
<1>3. Stops(w, Len(w))
  BY <1>1, <1>2 DEF Stops
<1>4. Taken(w) = Len(w)
  BY <1>1, <1>3, TakenIs
<1>5. SubSeq(w, 1, Len(w)) = w /\ Drop(w, Len(w)) = <<>>
  BY <1>1 DEF Drop
<1>6. Value(w) = Signed(v, Width)
  BY <1>1, SumsAre
<1>7. ReadVarint(w).ok /\ ReadVarint(w).value = Signed(v, Width)
       /\ ReadVarint(w).rest = <<>>
  <2>1. Taken(w) > 0 /\ ~More(w[Taken(w)])
    BY <1>1, <1>4
  <2>2. ReadVarint(w).ok
    BY <1>1, <2>1, ReadVarintIs
  <2>3. ReadVarint(w).value = Value(SubSeq(w, 1, Taken(w)))
    BY <1>1, <2>2, ReadVarintIs
  <2>4. ReadVarint(w).rest = Drop(w, Taken(w))
    BY <1>1, ReadVarintIs
  <2> QED
    BY <1>4, <1>5, <1>6, <2>2, <2>3, <2>4
<1>8. <<>> \o t = t
  OBVIOUS
<1>9. ReadVarint(w \o t) = [ok |-> TRUE, value |-> ReadVarint(w).value,
                             rest |-> ReadVarint(w).rest \o t]
  BY <1>1, <1>7, ReadVarintOfMore
<1> QED
  BY <1>7, <1>8, <1>9

\* What ToVarint writes of a number that an Integer can hold is read as that
\* number, whatever follows it.
THEOREM VarintsReadBack ==
    ASSUME NEW v \in Short, NEW t \in Seq(Byte)
    PROVE  ReadVarint(ToVarint(v) \o t) = [ok |-> TRUE, value |-> v, rest |-> t]
<1>1. PICK w : w = ToVarint(v)
  OBVIOUS
<1>2. v \in Nat /\ v < Weight(MaxVarint + 1) /\ Signed(v, Width) = v
  BY ShortIs
<1>3. IsVarint(w, v)
  BY <1>1, <1>2, VarintIs
<1>4. Spells(w, v)
  BY <1>3 DEF IsVarint, Spells
<1>5. Len(w) <= MaxVarint
  BY <1>2, <1>3, SizesAre DEF IsVarint
<1>6. ReadsAs(w, Signed(v, Width))
  BY <1>2, <1>4, <1>5, SpelledReadsBack
<1> QED
  BY <1>1, <1>2, <1>6 DEF ReadsAs

\* A frame is bytes.
LEMMA FrameIs ==
    ASSUME NEW body \in Seq(Byte)
    PROVE  Frame(body) \in Seq(Byte) /\ ToVarint(Len(body)) \in Seq(Byte)
<1>1. Len(body) \in Nat
  OBVIOUS
<1>2. ToVarint(Len(body)) \in Seq(Byte)
  BY <1>1, VarintIs DEF IsVarint
<1> QED
  BY <1>2, JoinedAre DEF Frame

\* A body behind a VarInt that is read as its length.
LEMMA HeadedReadsBack ==
    ASSUME NEW w \in Seq(Byte), NEW body \in Seq(Byte), ReadsAs(w, Len(body)),
           NEW t \in Seq(Byte)
    PROVE  /\ ReadVarint((w \o body) \o t) =
                  [ok |-> TRUE, value |-> Len(body), rest |-> body \o t]
           /\ ReadString((w \o body) \o t) = [ok |-> TRUE, value |-> body, rest |-> t]
<1>1. PICK s : s = (w \o body) \o t
  OBVIOUS
<1>2. PICK r \in Seq(Byte) : r = body \o t
  BY JoinedAre
<1>3. (w \o body) \o t = w \o (body \o t)
  BY JoinedTwice, SMTT(30)
<1>4. ReadVarint(w \o r) = [ok |-> TRUE, value |-> Len(body), rest |-> r]
  BY DEF ReadsAs
<1>5. ReadVarint(s) = [ok |-> TRUE, value |-> Len(body), rest |-> r]
  BY <1>1, <1>2, <1>3, <1>4
<1>6. SubSeq(r, 1, Len(body)) = body /\ Drop(r, Len(body)) = t
  BY <1>2, JoinedAre
<1>7. Len(body) \in 0 .. Len(r)
  <2>1. Len(r) = Len(body) + Len(t)
    BY <1>2, JoinedAre
  <2> QED
    BY <2>1
<1>8. ~(Len(body) < Len(r)) => Len(r) = Len(body)
  <2>1. Len(r) \in Nat
    OBVIOUS
  <2> QED
    BY <1>7, <2>1
<1>9. Take(r, Len(body)) = body
  BY <1>6, <1>8 DEF Take
<1>10. ReadString(s) = [ok |-> TRUE, value |-> body, rest |-> t]
  <2>1. PICK n : n = ReadVarint(s)
    OBVIOUS
  <2>2. n.ok /\ n.value = Len(body) /\ n.rest = r
    BY <1>5, <2>1
  <2>3. n.ok /\ n.value \in 0 .. Len(n.rest)
    BY <1>7, <2>2
  <2>4. ReadString(s) =
            [ok |-> TRUE, value |-> Take(n.rest, n.value), rest |-> Drop(n.rest, n.value)]
    BY <2>1, <2>3 DEF ReadString
  <2> QED
    BY <1>6, <1>9, <2>2, <2>4
<1> QED
  BY <1>1, <1>2, <1>5, <1>10

\* What Frame writes of a body no longer than an Integer can say is read as that
\* body, as a packet (DataPack::ReadFullData) and as a String, whatever follows it.
THEOREM FramesReadBack ==
    ASSUME NEW body \in Seq(Byte), Len(body) \in Short, NEW t \in Seq(Byte)
    PROVE  /\ ReadVarint(Frame(body) \o t) =
                  [ok |-> TRUE, value |-> Len(body), rest |-> body \o t]
           /\ ReadString(Frame(body) \o t) = [ok |-> TRUE, value |-> body, rest |-> t]
<1>1. PICK w \in Seq(Byte) : w = ToVarint(Len(body))
  BY FrameIs
<1>2. ReadsAs(w, Len(body))
  BY <1>1, VarintsReadBack DEF ReadsAs
<1>3. /\ ReadVarint((w \o body) \o t) =
             [ok |-> TRUE, value |-> Len(body), rest |-> body \o t]
      /\ ReadString((w \o body) \o t) = [ok |-> TRUE, value |-> body, rest |-> t]
  BY <1>2, HeadedReadsBack
<1> QED
  BY <1>1, <1>3 DEF Frame

-----------------------------------------------------------------------------
(* The packets. *)

\* What can be taken from a sequence of bytes, and what is left of it.
LEMMA PartsAre ==
    ASSUME NEW s \in Seq(Byte), NEW n \in Nat
    PROVE  /\ Take(s, n) \in Seq(Byte) /\ Drop(s, n) \in Seq(Byte)
           /\ n <= Len(s) => Len(Take(s, n)) = n /\ Len(Drop(s, n)) = Len(s) - n
<1>1. Len(s) \in Nat
  OBVIOUS
<1>2. Take(s, n) \in Seq(Byte) /\ (n <= Len(s) => Len(Take(s, n)) = n)
  <2>1. CASE n < Len(s)
    <3>1. n \in 0 .. Len(s) /\ Take(s, n) = SubSeq(s, 1, n)
      BY <1>1, <2>1 DEF Take
    <3> QED
      BY <3>1, EndsAre
  <2>2. CASE ~(n < Len(s))
    <3>1. Len(s) \in 0 .. Len(s) /\ Take(s, n) = SubSeq(s, 1, Len(s))
      BY <1>1, <2>2 DEF Take
    <3>2. Take(s, n) \in Seq(Byte) /\ Len(Take(s, n)) = Len(s)
      BY <3>1, EndsAre
    <3> QED
      BY <1>1, <2>2, <3>2
  <2> QED
    BY <2>1, <2>2
<1>3. CASE n <= Len(s)
  <2>1. n \in 0 .. Len(s)
    BY <1>1, <1>3
  <2>2. Drop(s, n) \in Seq(Byte) /\ Len(Drop(s, n)) = Len(s) - n
    BY <2>1, EndsAre
  <2> QED
    BY <1>2, <2>2
<1>4. CASE ~(n <= Len(s))
  <2>1. Drop(s, n) = <<>>
    BY <1>1, <1>4 DEF Drop
  <2> QED
    BY <1>2, <1>4, <2>1
<1> QED
  BY <1>3, <1>4

\* A String is bytes, and no longer than an Integer can say.
LEMMA ReadStringIs ==
    ASSUME NEW s \in Seq(Byte)
    PROVE  /\ ReadString(s).ok \in BOOLEAN
           /\ ReadString(s).value \in Seq(Byte) /\ ReadString(s).rest \in Seq(Byte)
           /\ ReadString(s).ok => Len(ReadString(s).value) \in Short
<1>1. PICK n : n = ReadVarint(s)
  OBVIOUS
<1>2. n.ok \in BOOLEAN /\ n.value \in Int /\ n.rest \in Seq(Byte)
      /\ (n.value >= 0 => n.value \in Short)
  BY <1>1, ReadVarintIs, ReadIsShort
<1>3. PICK r \in Seq(Byte) : r = n.rest
  BY <1>2
<1>4. PICK ok \in BOOLEAN : ok = (n.ok /\ n.value \in 0 .. Len(r))
  BY <1>2
<1>5. Len(r) \in Nat
  OBVIOUS
<1>6. PICK size \in Nat : /\ size = IF ok THEN n.value ELSE 0
                          /\ ok => size <= Len(r) /\ size \in Short
  <2>1. CASE ok
    <3>1. n.value \in 0 .. Len(r)
      BY <1>4, <2>1
    <3>2. PICK m \in Int : m = n.value
      BY <1>2
    <3>3. m \in Nat /\ m <= Len(r) /\ m \in Short
      BY <1>2, <1>5, <3>1, <3>2
    <3> QED
      BY <2>1, <3>2, <3>3
  <2>2. CASE ~ok
    BY <2>2
  <2> QED
    BY <2>1, <2>2
<1>7. ReadString(s) = [ok |-> ok, value |-> Take(r, size), rest |-> Drop(r, size)]
  BY <1>1, <1>3, <1>4, <1>6 DEF ReadString
<1>8. Take(r, size) \in Seq(Byte) /\ Drop(r, size) \in Seq(Byte)
      /\ (size <= Len(r) => Len(Take(r, size)) = size)
  BY PartsAre
<1> QED
  BY <1>6, <1>7, <1>8

\* A handshake that a handshake packet can carry.
IsHandshake(h) ==
    /\ h = [ok |-> TRUE, protocol_version |-> h.protocol_version,
            server_address |-> h.server_address, server_port |-> h.server_port,
            next_state |-> h.next_state]
    /\ h.protocol_version \in Int
    /\ h.protocol_version >= 0 => h.protocol_version \in Short
    /\ h.server_address \in Seq(Byte) /\ Len(h.server_address) \in Short
    /\ h.server_port \in Seq(Byte) /\ Len(h.server_port) = 2
    /\ h.next_state \in {1, 2} \cap Short

\* Nothing else comes out of ParseHandshake, whatever the bytes are.
LEMMA ParseHandshakeIs ==
    ASSUME NEW body \in Seq(Byte), ParseHandshake(body).ok
    PROVE  IsHandshake(ParseHandshake(body))
<1>1. PICK id : id = ReadVarint(body)
  OBVIOUS
<1>2. id.rest \in Seq(Byte)
  BY <1>1, ReadVarintIs
<1>3. PICK ver : ver = ReadVarint(id.rest)
  OBVIOUS
<1>4. ver.value \in Int /\ ver.rest \in Seq(Byte) /\ (ver.value >= 0 => ver.value \in Short)
  BY <1>2, <1>3, ReadVarintIs, ReadIsShort
<1>5. PICK addr : addr = ReadString(ver.rest)
  OBVIOUS
<1>6. /\ addr.ok \in BOOLEAN /\ addr.value \in Seq(Byte) /\ addr.rest \in Seq(Byte)
      /\ addr.ok => Len(addr.value) \in Short
  BY <1>4, <1>5, ReadStringIs
<1>7. PICK next : next = ReadVarint(Drop(addr.rest, 2))
  OBVIOUS
<1>8. next.value \in Int /\ (next.value >= 0 => next.value \in Short)
  <2>1. Drop(addr.rest, 2) \in Seq(Byte)
    BY <1>6, PartsAre
  <2> QED
    BY <1>7, <2>1, ReadVarintIs, ReadIsShort
<1>9. PICK h : h = ParseHandshake(body)
  OBVIOUS
<1>10. h = [ok |-> /\ id.value = 0 /\ addr.ok /\ Len(addr.rest) >= 2
                   /\ next.value \in {1, 2},
            protocol_version |-> ver.value, server_address |-> addr.value,
            server_port |-> Take(addr.rest, 2), next_state |-> next.value]
  BY <1>1, <1>3, <1>5, <1>7, <1>9 DEF ParseHandshake
<1>11. addr.ok /\ Len(addr.rest) >= 2 /\ next.value \in {1, 2}
  BY <1>9, <1>10
<1>12. Take(addr.rest, 2) \in Seq(Byte) /\ Len(Take(addr.rest, 2)) = 2
  BY <1>6, <1>11, PartsAre
<1>13. next.value \in {1, 2} \cap Short
  BY <1>8, <1>11
<1>14. h = [ok |-> TRUE, protocol_version |-> ver.value, server_address |-> addr.value,
            server_port |-> Take(addr.rest, 2), next_state |-> next.value]
  <2>1. id.value = 0
    BY <1>9, <1>10
  <2> QED
    BY <1>10, <1>11, <2>1
<1>15. IsHandshake(h)
  BY <1>4, <1>6, <1>11, <1>12, <1>13, <1>14 DEF IsHandshake
<1> QED
  BY <1>9, <1>15

\* The name of a login is bytes, whatever the packet is.
LEMMA ParseLoginIs ==
    ASSUME NEW body \in Seq(Byte)
    PROVE  /\ ParseLogin(body).ok \in BOOLEAN
           /\ ParseLogin(body).user_name \in Seq(Byte)
<1>1. ReadVarint(body).rest \in Seq(Byte)
  BY ReadVarintIs
<1>2. ReadString(ReadVarint(body).rest).value \in Seq(Byte)
  BY <1>1, ReadStringIs
<1> QED
  BY <1>2 DEF ParseLogin

\* So is the payload of a ping.
LEMMA ParsePingIs ==
    ASSUME NEW body \in Seq(Byte) PROVE ParsePing(body).payload \in Seq(Byte)
<1>1. ReadVarint(body).rest \in Seq(Byte) /\ PayloadSize \in Nat
  BY ReadVarintIs, SizesAre
<1>2. Take(ReadVarint(body).rest, PayloadSize) \in Seq(Byte)
  BY <1>1, PartsAre
<1> QED
  BY <1>2 DEF ParsePing

\* Behind an id comes what the packet has to say.
LEMMA AnswersAre ==
    ASSUME NEW s \in Seq(Byte)
    PROVE  StatusResponse(s) \in Seq(Byte) /\ Pong(s) \in Seq(Byte)
           /\ LoginFailure \in Seq(Byte)
<1>1. ToVarint(0) \in Seq(Byte) /\ ToVarint(1) \in Seq(Byte)
  BY VarintIs DEF IsVarint
<1>2. Reason \in Seq(Byte)
  BY PacketsAssumption
<1>3. Frame(s) \in Seq(Byte) /\ Frame(Reason) \in Seq(Byte)
  BY <1>2, FrameIs
<1>4. /\ ToVarint(0) \o Frame(s) \in Seq(Byte)
      /\ ToVarint(1) \o s \in Seq(Byte)
      /\ ToVarint(0) \o Frame(Reason) \in Seq(Byte)
  BY <1>1, <1>3, JoinedAre
<1> QED
  BY <1>4, FrameIs DEF StatusResponse, Pong, LoginFailure

\* What HandshakeBuffer puts into its frame.
HandshakeBody(h) ==
    ToVarint(0) \o ToVarint(h.protocol_version) \o Frame(h.server_address)
    \o h.server_port \o ToVarint(h.next_state)

\* A handshake is written as bytes, framed.
LEMMA HandshakeBufferIs ==
    ASSUME NEW h, h.protocol_version \in Nat, h.next_state \in Nat,
           h.server_address \in Seq(Byte), h.server_port \in Seq(Byte)
    PROVE  /\ HandshakeBody(h) \in Seq(Byte)
           /\ HandshakeBuffer(h) = Frame(HandshakeBody(h))
           /\ HandshakeBuffer(h) \in Seq(Byte)
<1>1. h.protocol_version \in Nat /\ h.next_state \in Nat
      /\ h.server_address \in Seq(Byte) /\ h.server_port \in Seq(Byte)
  OBVIOUS
<1>2. /\ ToVarint(0) \in Seq(Byte) /\ ToVarint(h.protocol_version) \in Seq(Byte)
      /\ ToVarint(h.next_state) \in Seq(Byte)
  BY <1>1, VarintIs DEF IsVarint
<1>3. Frame(h.server_address) \in Seq(Byte)
  BY <1>1, FrameIs
<1>4. HandshakeBody(h) \in Seq(Byte)
  <2>1. \A s, t \in Seq(Byte) : s \o t \in Seq(Byte)
    BY JoinedAre
  <2> QED
    BY <1>1, <1>2, <1>3, <2>1 DEF HandshakeBody
<1> QED
  BY <1>4, FrameIs DEF HandshakeBuffer, HandshakeBody

\* Five sequences, from the left and from the right.  Cat keeps the provers
\* from looking into the sequences.
Cat(s, t) == s \o t

\* Cat gives bytes, and does not care for brackets.
LEMMA CatIs ==
    ASSUME NEW q \in Seq(Byte), NEW r \in Seq(Byte), NEW s \in Seq(Byte)
    PROVE  /\ Cat(q, r) \in Seq(Byte)
           /\ Cat(Cat(q, r), s) = Cat(q, Cat(r, s))
<1>1. (q \o r) \o s = q \o (r \o s)
  BY JoinedTwice, SMTT(30)
<1>2. q \o r \in Seq(Byte)
  BY JoinedAre
<1> QED
  BY <1>1, <1>2 DEF Cat

\* Nor does it of five.
LEMMA FiveParts ==
    ASSUME NEW z \in Seq(Byte), NEW v \in Seq(Byte), NEW a \in Seq(Byte),
           NEW p \in Seq(Byte), NEW x \in Seq(Byte)
    PROVE  Cat(Cat(Cat(Cat(z, v), a), p), x) = Cat(z, Cat(v, Cat(a, Cat(p, x))))
<1>1. /\ Cat(z, v) \in Seq(Byte) /\ Cat(Cat(z, v), a) \in Seq(Byte)
      /\ Cat(p, x) \in Seq(Byte) /\ Cat(a, Cat(p, x)) \in Seq(Byte)
  BY CatIs
<1>2. Cat(Cat(Cat(Cat(z, v), a), p), x) = Cat(Cat(Cat(z, v), a), Cat(p, x))
  BY <1>1, CatIs
<1>3. Cat(Cat(Cat(z, v), a), Cat(p, x)) = Cat(Cat(z, v), Cat(a, Cat(p, x)))
  BY <1>1, CatIs
<1>4. Cat(Cat(z, v), Cat(a, Cat(p, x))) = Cat(z, Cat(v, Cat(a, Cat(p, x))))
  BY <1>1, CatIs
<1> QED
  BY <1>2, <1>3, <1>4

\* A port in front of something.
LEMMA TwoBytes ==
    ASSUME NEW p \in Seq(Byte), NEW x \in Seq(Byte), Len(p) = 2
    PROVE  Len(p \o x) >= 2 /\ Take(p \o x, 2) = p /\ Drop(p \o x, 2) = x
<1>1. /\ p \o x \in Seq(Byte) /\ Len(p \o x) = Len(p) + Len(x)
      /\ SubSeq(p \o x, 1, Len(p)) = p /\ Drop(p \o x, Len(p)) = x
  <2>1. p \o x \in Seq(Byte) /\ Len(p \o x) = Len(p) + Len(x)
    BY JoinedAre
  <2>2. SubSeq(p \o x, 1, Len(p)) = p
    BY JoinedAre
  <2>3. Drop(p \o x, Len(p)) = x
    BY JoinedAre
  <2> QED
    BY <2>1, <2>2, <2>3
<1>2. PICK r \in Seq(Byte) : r = p \o x
  BY <1>1
<1>3. Len(r) = 2 + Len(x) /\ SubSeq(r, 1, 2) = p /\ Drop(r, 2) = x
  BY <1>1, <1>2
<1>4. Len(x) \in Nat
  OBVIOUS
<1>5. Len(r) >= 2 /\ (~(2 < Len(r)) => Len(r) = 2)
  BY <1>3, <1>4
<1>6. Take(r, 2) = SubSeq(r, 1, 2)
  BY <1>5 DEF Take
<1> QED
  BY <1>2, <1>3, <1>5, <1>6

\* The body b is that of a handshake with these fields, unless the state that it
\* asks for is none.
ParsedAs(b, version, address, port, next) ==
    LET h == ParseHandshake(b)
    IN  /\ h.ok <=> next \in {1, 2}
        /\ h.ok => h = [ok |-> TRUE, protocol_version |-> version,
                        server_address |-> address, server_port |-> port,
                        next_state |-> next]

\* A handshake whose five fields, one behind the other, can each be read.
LEMMA FieldsReadBack ==
    ASSUME NEW z \in Seq(Byte), NEW v \in Seq(Byte), NEW a \in Seq(Byte),
           NEW p \in Seq(Byte), NEW x \in Seq(Byte),
           NEW version, NEW address, NEW next, Len(p) = 2,
           ReadsAs(z, 0), ReadsAs(v, version), ReadsAsText(a, address), ReadsAs(x, next)
    PROVE  ParsedAs(z \o v \o a \o p \o x, version, address, p, next)
<1>1. PICK b : b = z \o v \o a \o p \o x
  OBVIOUS
<1>2. b = z \o (v \o (a \o (p \o x)))
  <2>1. b = Cat(Cat(Cat(Cat(z, v), a), p), x)
    BY <1>1 DEF Cat
  <2>2. b = Cat(z, Cat(v, Cat(a, Cat(p, x))))
    BY <2>1, FiveParts
  <2> QED
    BY <2>2 DEF Cat
<1>3. PICK r3 \in Seq(Byte), r2 \in Seq(Byte), r1 \in Seq(Byte) :
          r3 = p \o x /\ r2 = a \o r3 /\ r1 = v \o r2
  BY JoinedAre
<1>4. b = z \o r1
  BY <1>2, <1>3
<1>5. Len(r3) >= 2 /\ Take(r3, 2) = p /\ Drop(r3, 2) = x
  BY <1>3, TwoBytes
<1>6. ReadVarint(x).value = next
  <2>1. x \o <<>> = x /\ <<>> \in Seq(Byte)
    OBVIOUS
  <2>2. ReadVarint(x \o <<>>) = [ok |-> TRUE, value |-> next, rest |-> <<>>]
    BY <2>1 DEF ReadsAs
  <2> QED
    BY <2>1, <2>2
<1>7. PICK id, ver, addr, last :
           /\ id = ReadVarint(b) /\ ver = ReadVarint(id.rest)
           /\ addr = ReadString(ver.rest) /\ last = ReadVarint(Drop(addr.rest, 2))
  OBVIOUS
<1>8. id = [ok |-> TRUE, value |-> 0, rest |-> r1]
  BY <1>4, <1>7 DEF ReadsAs
<1>9. ver = [ok |-> TRUE, value |-> version, rest |-> r2]
  <2>1. ver = ReadVarint(v \o r2)
    BY <1>3, <1>7, <1>8
  <2> QED
    BY <2>1 DEF ReadsAs
<1>10. addr = [ok |-> TRUE, value |-> address, rest |-> r3]
  <2>1. addr = ReadString(a \o r3)
    BY <1>3, <1>7, <1>9
  <2> QED
    BY <2>1 DEF ReadsAsText
<1>11. last.value = next
  BY <1>5, <1>6, <1>7, <1>10
<1>12. ParseHandshake(b) =
           [ok |-> /\ id.value = 0 /\ addr.ok /\ Len(addr.rest) >= 2
                   /\ last.value \in {1, 2},
            protocol_version |-> ver.value, server_address |-> addr.value,
            server_port |-> Take(addr.rest, 2), next_state |-> last.value]
  BY <1>7 DEF ParseHandshake
<1>13. id.value = 0 /\ addr.ok /\ addr.rest = r3 /\ addr.value = address
       /\ ver.value = version
  BY <1>8, <1>9, <1>10
<1>14. PICK h : h = ParseHandshake(b)
  OBVIOUS
<1>15. h.ok <=> next \in {1, 2}
  BY <1>5, <1>11, <1>12, <1>13, <1>14
<1>16. h.ok => h = [ok |-> TRUE, protocol_version |-> version, server_address |-> address,
                    server_port |-> p, next_state |-> next]
  <2> SUFFICES ASSUME next \in {1, 2}
               PROVE  h = [ok |-> TRUE, protocol_version |-> version,
                           server_address |-> address, server_port |-> p,
                           next_state |-> next]
    BY <1>15
  <2> QED
    BY <1>5, <1>11, <1>12, <1>13, <1>14
<1> QED
  BY <1>1, <1>14, <1>15, <1>16 DEF ParsedAs

\* A server that reads what HandshakeBuffer wrote as the proxy reads what its
\* clients write gets every field back.
THEOREM HandshakesReadBack ==
    ASSUME NEW h, IsHandshake(h), h.protocol_version >= 0
    PROVE  ParseHandshake(HandshakeBody(h)) = h
<1>1. /\ h.protocol_version \in Short /\ h.next_state \in {1, 2} /\ h.next_state \in Short
      /\ h.server_address \in Seq(Byte) /\ Len(h.server_address) \in Short
      /\ h.server_port \in Seq(Byte) /\ Len(h.server_port) = 2
  BY DEF IsHandshake
<1>2. 0 \in Short /\ Short \subseteq Nat
  BY ShortIs
<1>3. PICK z \in Seq(Byte), v \in Seq(Byte), a \in Seq(Byte), p \in Seq(Byte), x \in Seq(Byte) :
          /\ z = ToVarint(0) /\ v = ToVarint(h.protocol_version)
          /\ a = Frame(h.server_address) /\ x = ToVarint(h.next_state)
          /\ p = h.server_port
  <2>1. \A n \in Short : ToVarint(n) \in Seq(Byte)
    BY <1>2, VarintIs DEF IsVarint
  <2>2. Frame(h.server_address) \in Seq(Byte)
    BY <1>1, FrameIs
  <2> QED
    BY <1>1, <1>2, <2>1, <2>2
<1>4. /\ ReadsAs(z, 0) /\ ReadsAs(v, h.protocol_version) /\ ReadsAs(x, h.next_state)
      /\ ReadsAsText(a, h.server_address)
  BY <1>1, <1>2, <1>3, VarintsReadBack, FramesReadBack DEF ReadsAs, ReadsAsText
<1>5. Len(p) = 2
  BY <1>1, <1>3
<1>6. ParsedAs(z \o v \o a \o p \o x, h.protocol_version, h.server_address, p, h.next_state)
  BY <1>4, <1>5, FieldsReadBack
<1>7. HandshakeBody(h) = z \o v \o a \o p \o x
  BY <1>3 DEF HandshakeBody
<1>8. PICK g : g = ParseHandshake(HandshakeBody(h))
  OBVIOUS
<1>9. g = [ok |-> TRUE, protocol_version |-> h.protocol_version,
           server_address |-> h.server_address, server_port |-> h.server_port,
           next_state |-> h.next_state]
  BY <1>1, <1>3, <1>6, <1>7, <1>8 DEF ParsedAs
<1>10. h = [ok |-> TRUE, protocol_version |-> h.protocol_version,
           server_address |-> h.server_address, server_port |-> h.server_port,
           next_state |-> h.next_state]
  BY DEF IsHandshake
<1> QED
  BY <1>8, <1>9, <1>10

=============================================================================
