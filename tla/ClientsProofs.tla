--------------------------- MODULE ClientsProofs ---------------------------
(***************************************************************************)
(* What holds of LoginPath with the messages of module Clients, whatever   *)
(* messages these are: the server hears what the client means, a login     *)
(* goes where the tables want it, and requests are answered in turn.       *)
(***************************************************************************)
EXTENDS Clients, LoginPathProofs

(* The digits of a number. *)

\* A number as VarInts have it: without its sign.
Unsigned(n) == IF n < 0 THEN n + 2^Width ELSE n

\* How many digits it needs.
Need(u) ==
    CHOOSE k \in 1 .. u + 1 :
        /\ u < 2^(Group * k)
        /\ \A j \in 1 .. k - 1 : u >= 2^(Group * j)

\* The weights grow faster than the places.
LEMMA WeightGrows == \A u \in Nat : u < Weight(u + 2)
<1> DEFINE S == {u \in Nat : u < Weight(u + 2)}
<1>1. 0 \in S
  BY WeightIs
<1>2. ASSUME NEW u \in Nat, u \in S PROVE u + 1 \in S
  <2>1. PICK w \in Nat : w = Weight(u + 2) /\ u < w
    BY <1>2, WeightIs
  <2>2. /\ (u + 1) + 1 = u + 2 /\ (u + 1) + 2 = (u + 2) + 1 /\ u + 2 \in Nat \ {0}
    OBVIOUS
  <2>3. Weight((u + 1) + 2) = Base * w
    BY <2>1, <2>2, WeightIs
  <2>4. Base * w >= 2 * w
    BY <2>1, BaseIs
  <2>5. Base * w \in Nat
    BY <2>1, BaseIs
  <2>6. u + 1 < Base * w
    BY <2>1, <2>4, <2>5
  <2> QED
    BY <2>3, <2>6
<1> HIDE DEF S
<1>3. Nat \subseteq S
  BY <1>1, <1>2, Induction
<1> QED
  BY <1>3 DEF S

\* The number of digits is the least that has the number.
LEMMA NeedIs ==
    ASSUME NEW u \in Nat
    PROVE  /\ Need(u) \in Nat \ {0} /\ u < Weight(Need(u) + 1)
           /\ \A j \in 1 .. Need(u) - 1 : u >= Weight(j + 1)
           /\ \A k \in Nat \ {0} : u < Weight(k + 1) => Need(u) <= k
<1>1. \A k \in Nat : 2^(Group * k) = Weight(k + 1)
  <2> SUFFICES ASSUME NEW k \in Nat PROVE 2^(Group * k) = Weight(k + 1)
    OBVIOUS
  <2>1. (k + 1) - 1 = k
    OBVIOUS
  <2> QED
    BY <2>1 DEF Weight
<1> DEFINE T == {k \in Nat \ {0} : u < Weight(k + 1)}
<1>2. u + 1 \in T
  <2>1. u + 1 \in Nat \ {0} /\ (u + 1) + 1 = u + 2
    OBVIOUS
  <2> QED
    BY <2>1, WeightGrows
<1>3. PICK k \in T : \A j \in T : k <= j
  <2>1. T \subseteq Nat /\ T # {}
    BY <1>2
  <2> HIDE DEF T
  <2> QED
    BY <2>1, LeastElement
<1>4. k \in 1 .. u + 1 /\ u < Weight(k + 1)
  BY <1>2, <1>3
<1>5. ASSUME NEW j \in 1 .. k - 1 PROVE u >= Weight(j + 1)
  <2>1. j \in Nat \ {0} /\ ~(k <= j)
    BY <1>4
  <2>2. j \notin T
    BY <1>3, <2>1
  <2>3. Weight(j + 1) \in Nat
    <3>1. j + 1 \in Nat \ {0}
      BY <2>1
    <3> QED
      BY <3>1, WeightIs
  <2> QED
    BY <2>1, <2>2, <2>3
<1>6. \E i \in 1 .. u + 1 : /\ u < 2^(Group * i)
                            /\ \A j \in 1 .. i - 1 : u >= 2^(Group * j)
  <2>1. u < 2^(Group * k)
    BY <1>1, <1>4
  <2>2. \A j \in 1 .. k - 1 : u >= 2^(Group * j)
    BY <1>1, <1>4, <1>5
  <2> QED
    BY <1>4, <2>1, <2>2
<1>7. PICK n \in 1 .. u + 1 : n = Need(u) /\ u < 2^(Group * n)
                              /\ \A j \in 1 .. n - 1 : u >= 2^(Group * j)
  BY <1>6 DEF Need
<1>8. u < Weight(n + 1) /\ \A j \in 1 .. n - 1 : u >= Weight(j + 1)
  BY <1>1, <1>7
<1>9. ASSUME NEW i \in Nat \ {0}, u < Weight(i + 1) PROVE n <= i
  <2>1. Weight(i + 1) \in Nat
    <3>1. i + 1 \in Nat \ {0}
      OBVIOUS
    <3> QED
      BY <3>1, WeightIs
  <2>2. ~(i \in 1 .. n - 1)
    BY <1>8, <1>9, <2>1
  <2> QED
    BY <2>2
<1> QED
  BY <1>7, <1>8, <1>9

\* One more digit is needed for Base times the number.
LEMMA NeedOfMore ==
    ASSUME NEW u \in Nat, u >= Base PROVE Need(u) = Need(u \div Base) + 1
<1>1. PICK q \in Nat, r \in Nat : q = u \div Base /\ r = u % Base /\ r <= Base - 1
                                  /\ u = Base * q + r
  BY Division, BaseIs
<1>2. Base \in Nat /\ Base >= 2 /\ q >= 1
  BY <1>1, Division, BaseIs
\* q has i digits just if u has one more.
<1>3. ASSUME NEW i \in Nat \ {0} PROVE q < Weight(i) <=> u < Weight(i + 1)
  <2>1. PICK w \in Nat : w = Weight(i) /\ Weight(i + 1) = Base * w
    BY WeightIs
  <2>2. ASSUME q < w PROVE Base * q + r < Base * w
    <3>1. Base * (q + 1) <= Base * w
      BY <1>2, <2>1, <2>2
    <3>2. Base * (q + 1) = Base * q + Base
      BY <1>2
    <3> QED
      BY <1>1, <1>2, <3>1, <3>2
  <2>3. ASSUME ~(q < w) PROVE ~(Base * q + r < Base * w)
    <3>1. Base * w <= Base * q
      BY <1>2, <2>1, <2>3
    <3>2. Base * w \in Nat /\ Base * q \in Nat
      BY <1>2, <2>1
    <3> QED
      BY <1>1, <3>1, <3>2
  <2> QED
    BY <1>1, <2>1, <2>2, <2>3
<1>4. PICK n \in Nat \ {0}, k \in Nat \ {0} : n = Need(u) /\ k = Need(q)
  BY NeedIs
<1>5. q < Weight(k + 1) /\ u < Weight(n + 1)
  BY <1>4, NeedIs
<1>6. n <= k + 1
  <2>1. k + 1 \in Nat \ {0}
    OBVIOUS
  <2>2. u < Weight((k + 1) + 1)
    BY <1>3, <1>5, <2>1
  <2> QED
    BY <1>4, <2>1, <2>2, NeedIs
<1>7. n # 1
  <2>1. Weight(1) = 1 /\ 1 \in Nat \ {0}
    BY WeightIs
  <2>2. ~(q < Weight(1))
    BY <1>2, <2>1
  <2> QED
    BY <1>3, <1>5, <2>1, <2>2
<1>8. k <= n - 1
  <2>1. n - 1 \in Nat \ {0} /\ (n - 1) + 1 = n
    BY <1>7
  <2>2. q < Weight((n - 1) + 1)
    BY <1>3, <1>5, <2>1
  <2> QED
    BY <1>4, <2>1, <2>2, NeedIs
<1>9. n = k + 1
  BY <1>6, <1>8
<1> QED
  BY <1>1, <1>4, <1>9

\* A number has one quotient and one rest.
LEMMA QuotientIs ==
    ASSUME NEW w \in Nat \ {0}, NEW q \in Nat, NEW r \in Nat, r < w, NEW u \in Nat,
           u = w * q + r
    PROVE  u \div w = q /\ u % w = r
<1>1. PICK p \in Nat, s \in Nat : p = u \div w /\ s = u % w /\ s < w /\ u = w * p + s
  OBVIOUS
<1>2. ASSUME NEW a \in Nat, NEW b \in Nat, NEW c \in Nat, NEW d \in Nat, c < w, d < w,
             w * a + c = w * b + d
      PROVE  a <= b
  <2> SUFFICES ASSUME a >= b + 1 PROVE FALSE
    OBVIOUS
  <2>1. w * a >= w * (b + 1)
    OBVIOUS
  <2>2. w * (b + 1) = w * b + w
    OBVIOUS
  <2>3. w * a \in Nat /\ w * b \in Nat
    OBVIOUS
  <2> QED
    BY <1>2, <2>1, <2>2, <2>3
<1>3. w * p + s = w * q + r
  BY <1>1
<1>4. p <= q /\ q <= p
  BY <1>1, <1>2, <1>3
<1>5. p = q
  BY <1>4
<1>6. w * q \in Nat
  OBVIOUS
<1>7. PICK x \in Nat : x = w * q
  BY <1>6
<1>8. s = r
  BY <1>3, <1>5, <1>7
<1> QED
  BY <1>1, <1>5, <1>8

\* Products over sums, as quotients of quotients need them.
LEMMA ProductIs ==
    ASSUME NEW a \in Nat, NEW b \in Nat, NEW p \in Nat, NEW s \in Nat
    PROVE  a * (b * p + s) = (a * b) * p + a * s
  OBVIOUS

\* A number that is put on top of Base is the rest again.
LEMMA RestIs ==
    ASSUME NEW b \in Nat, NEW x \in Nat, x < b PROVE (b + x) % b = x
<1>1. PICK z \in Nat : z = b + x
  OBVIOUS
<1>2. z = b * 1 + x /\ 1 \in Nat /\ b \in Nat \ {0}
  BY <1>1
<1>3. z % b = x
  <2>1. \A w \in Nat \ {0}, q \in Nat, r \in Nat, u \in Nat :
            r < w /\ u = w * q + r => u % w = r
    BY QuotientIs
  <2> QED
    BY <1>2, <2>1
<1> QED
  BY <1>1, <1>3

\* The division of a natural number, with its rest.
LEMMA QuotientAndRest ==
    ASSUME NEW u \in Nat, NEW a \in Nat \ {0}
    PROVE  \E q \in Nat, r \in Nat : q = u \div a /\ r < a /\ u = a * q + r
  OBVIOUS

\* To divide by two numbers is to divide by their product.
LEMMA QuotientOfQuotient ==
    ASSUME NEW u \in Nat, NEW a \in Nat \ {0}, NEW b \in Nat \ {0}
    PROVE  u \div a \in Nat /\ (u \div a) \div b = u \div (a * b)
<1>1. PICK q \in Nat, r \in Nat : q = u \div a /\ r < a /\ u = a * q + r
  BY QuotientAndRest
<1>2. PICK p \in Nat, s \in Nat : p = q \div b /\ s < b /\ q = b * p + s
  BY QuotientAndRest
<1>3. PICK c \in Nat \ {0} : c = a * b
  OBVIOUS
<1>4. PICK d \in Nat : d = a * s
  OBVIOUS
<1>5. PICK t \in Nat : t = d + r
  OBVIOUS
<1>6. u = c * p + t
  <2>1. a * (b * p + s) = (a * b) * p + a * s
    BY ProductIs
  <2>2. a * q = c * p + d
    BY <1>2, <1>3, <1>4, <2>1
  <2>3. c * p \in Nat
    OBVIOUS
  <2>4. PICK e \in Nat : e = c * p
    BY <2>3
  <2> QED
    BY <1>1, <1>5, <2>2, <2>4
<1>7. t < c
  <2>1. a * (s + 1) <= a * b
    BY <1>2
  <2>2. a * (s + 1) = a * s + a
    OBVIOUS
  <2> QED
    BY <1>1, <1>3, <1>4, <1>5, <2>1, <2>2
<1>8. u \div c = p
  BY <1>3, <1>5, <1>6, <1>7, QuotientIs
<1> QED
  BY <1>1, <1>2, <1>3, <1>8

\* What is left of a number behind a place, and behind the next one.
LEMMA QuotientsAre ==
    ASSUME NEW u \in Nat, NEW i \in Nat \ {0}
    PROVE  /\ u \div Weight(i) \in Nat
           /\ u \div Weight(i + 1) = (u \div Weight(i)) \div Base
           /\ u \div Weight(i + 1) = (u \div Base) \div Weight(i)
<1>1. PICK B \in Nat, w \in Nat : B = Base /\ B >= 2 /\ w = Weight(i) /\ w >= 1
  BY BaseIs, WeightIs
<1>2. Weight(i + 1) = B * w
  BY <1>1, WeightIs
<1>3. B * w = w * B /\ B \in Nat \ {0} /\ w \in Nat \ {0}
  BY <1>1
<1>4. (u \div w) \div B = u \div (w * B) /\ u \div w \in Nat
  BY <1>3, QuotientOfQuotient
<1>5. (u \div B) \div w = u \div (B * w)
  BY <1>3, QuotientOfQuotient
<1> QED
  BY <1>1, <1>2, <1>3, <1>4, <1>5

-----------------------------------------------------------------------------
(* VarInts written as sums of digits. *)

\* The digits, one by one: all but the last have the bit for "more".
LEMMA DigitsAre ==
    ASSUME NEW n \in Int, NEW pad \in Nat, NEW u \in Nat, u = Unsigned(n),
           NEW l \in Nat, l = Need(u) + pad
    PROVE  /\ Digits(n, pad) \in Seq(Byte) /\ Len(Digits(n, pad)) = l /\ l >= 1
           /\ \A i \in 1 .. l : /\ (u \div Weight(i)) % Base \in 0 .. Base - 1
                                /\ Digits(n, pad)[i] = ((u \div Weight(i)) % Base)
                                                       + IF i < l THEN Base ELSE 0
<1>1. l >= 1
  BY NeedIs
<1>2. Digits(n, pad) = [i \in 1 .. l |-> ((u \div Weight(i)) % Base)
                                         + IF i < l THEN Base ELSE 0]
  BY DEF Digits, Unsigned, Need, Weight, Base
<1>3. ASSUME NEW i \in 1 .. l
      PROVE  /\ (u \div Weight(i)) % Base \in 0 .. Base - 1
             /\ ((u \div Weight(i)) % Base) + (IF i < l THEN Base ELSE 0) \in Byte
  <2>1. PICK q \in Nat : q = u \div Weight(i)
    <3>1. i \in Nat \ {0}
      OBVIOUS
    <3> QED
      BY <3>1, QuotientsAre
  <2>2. q % Base \in 0 .. Base - 1
    BY Division
  <2>3. Base \in Nat
    BY BaseIs
  <2>4. q % Base \in Byte /\ Base + (q % Base) \in Byte
    BY <2>2, GroupsAreBytes
  <2>5. (q % Base) + Base = Base + (q % Base) /\ (q % Base) + 0 = q % Base
    BY <2>2, <2>3
  <2> QED
    BY <2>1, <2>2, <2>4, <2>5
<1>4. PICK w : w = [i \in 1 .. l |-> ((u \div Weight(i)) % Base)
                                     + IF i < l THEN Base ELSE 0]
  OBVIOUS
<1>5. w \in [1 .. l -> Byte]
  BY <1>3, <1>4
<1>6. w \in Seq(Byte) /\ Len(w) = l
  BY <1>5
<1> QED
  BY <1>1, <1>2, <1>3, <1>4, <1>6

\* They add up to the number.
LEMMA DigitsSpell ==
    ASSUME NEW n \in Int, NEW pad \in Nat, NEW u \in Nat, u = Unsigned(n)
    PROVE  Spells(Digits(n, pad), u)
<1>1. PICK l \in Nat : l = Need(u) + pad /\ l >= Need(u)
  BY NeedIs
<1>2. PICK w \in Seq(Byte) : w = Digits(n, pad)
  BY <1>1, DigitsAre
<1>3. /\ Len(w) = l /\ l >= 1
      /\ \A i \in 1 .. l : /\ (u \div Weight(i)) % Base \in 0 .. Base - 1
                           /\ w[i] = ((u \div Weight(i)) % Base)
                                     + IF i < l THEN Base ELSE 0
  BY <1>1, <1>2, DigitsAre
<1>4. Base \in Nat /\ Base >= 2
  BY BaseIs
<1>5. ASSUME NEW i \in 1 .. l
      PROVE  /\ w[i] % Base = (u \div Weight(i)) % Base
             /\ More(w[i]) <=> i < l
  <2>1. PICK x \in 0 .. Base - 1 : x = (u \div Weight(i)) % Base
    BY <1>3
  <2>2. ~More(x) /\ More(Base + x)
    BY <2>1, GroupsAreBytes
  <2>3. CASE i < l
    <3>1. w[i] = Base + x
      BY <1>3, <1>4, <2>1, <2>3
    <3>2. (Base + x) % Base = x
      <4>1. x \in Nat /\ x < Base /\ Base \in Nat
        BY <1>4, <2>1
      <4> QED
        BY <4>1, RestIs
    <3> QED
      BY <2>1, <2>2, <2>3, <3>1, <3>2
  <2>4. CASE ~(i < l)
    <3>1. w[i] = x
      BY <1>3, <1>4, <2>1, <2>4
    <3>2. x % Base = x
      BY <1>4, <2>1
    <3> QED
      BY <2>1, <2>2, <2>4, <3>1, <3>2
  <2> QED
    BY <2>3, <2>4
\* What the first i digits say, and what is left of the number.
<1> DEFINE A == {i \in Nat : i <= l =>
                     Sums(w)[i] + Weight(i + 1) * (u \div Weight(i + 1)) = u}
<1>6. 0 \in A
  <2>1. Sums(w)[0] = 0 /\ Weight(1) = 1 /\ 0 + 1 = 1
    BY <1>3, SumsAre, WeightIs
  <2>2. u \div 1 = u /\ 0 + 1 * u = u
    OBVIOUS
  <2> QED
    BY <2>1, <2>2
<1>7. ASSUME NEW i \in Nat, i \in A PROVE i + 1 \in A
  <2> SUFFICES ASSUME i + 1 <= l
               PROVE  Sums(w)[i + 1] + Weight((i + 1) + 1) * (u \div Weight((i + 1) + 1)) = u
    OBVIOUS
  <2>1. PICK j \in 1 .. l : j = i + 1 /\ i <= l /\ j - 1 = i /\ i \in 0 .. Len(w)
    BY <1>3
  <2>2. PICK q \in Nat, v \in Nat : q = u \div Weight(j) /\ v = Weight(j)
    <3>1. j \in Nat \ {0}
      OBVIOUS
    <3> QED
      BY <3>1, QuotientsAre, WeightIs
  <2>3. PICK s \in Nat : s = Sums(w)[i] /\ s + v * q = u
    <3>1. Sums(w)[i] \in Nat
      BY <2>1, SumsAre
    <3> QED
      BY <1>7, <2>1, <2>2, <3>1
  <2>4. Sums(w)[j] = s + (q % Base) * v
    <3>1. j \in 1 .. Len(w)
      BY <1>3
    <3>2. Sums(w)[j] = Sums(w)[j - 1] + (w[j] % Base) * Weight(j)
      BY <3>1, SumsAre
    <3> QED
      BY <1>5, <2>1, <2>2, <2>3, <3>2
  <2>5. u \div Weight(j + 1) = q \div Base /\ Weight(j + 1) = Base * v
    <3>1. j \in Nat \ {0}
      OBVIOUS
    <3> QED
      BY <2>2, <3>1, QuotientsAre, WeightIs
  <2>6. PICK p \in Nat, r \in Nat : p = q \div Base /\ r = q % Base /\ q = Base * p + r
    <3>1. q \div Base \in Nat /\ q % Base \in 0 .. Base - 1
          /\ q = Base * (q \div Base) + (q % Base)
      BY Division
    <3>2. q % Base \in Nat
      BY <1>4, <3>1
    <3> QED
      BY <3>1, <3>2
  <2>7. (s + r * v) + (Base * v) * p = s + v * (Base * p + r)
    <3>1. v * (Base * p + r) = (v * Base) * p + v * r
      BY <1>4, ProductIs
    <3>2. v * Base = Base * v /\ v * r = r * v
      BY <1>4
    <3>3. PICK x \in Nat, y \in Nat : x = (Base * v) * p /\ y = r * v
      BY <1>4
    <3> QED
      BY <3>1, <3>2, <3>3
  <2> QED
    BY <2>1, <2>3, <2>4, <2>5, <2>6, <2>7
<1> HIDE DEF A
<1>8. l \in A
  BY <1>6, <1>7, Induction
<1>9. u < Weight(l + 1)
  <2>1. PICK k \in Nat \ {0} : k = Need(u) /\ u < Weight(k + 1) /\ k <= l
    BY <1>1, NeedIs
  <2>2. Weight(k + 1) <= Weight(l + 1)
    <3>1. Group * k \in Nat /\ Group * l \in Nat /\ Group * k <= Group * l
      BY <2>1, SizesAre
    <3>2. (k + 1) - 1 = k /\ (l + 1) - 1 = l
      BY <2>1
    <3> QED
      BY <3>1, <3>2, PowerGrows DEF Weight
  <2>3. Weight(k + 1) \in Nat /\ Weight(l + 1) \in Nat
    <3>1. k + 1 \in Nat \ {0} /\ l + 1 \in Nat \ {0}
      OBVIOUS
    <3> QED
      BY <3>1, WeightIs
  <2> QED
    BY <2>1, <2>2, <2>3
<1>10. Sums(w)[l] = u
  <2>1. PICK v \in Nat : v = Weight(l + 1) /\ u < v
    <3>1. l + 1 \in Nat \ {0}
      OBVIOUS
    <3> QED
      BY <1>9, <3>1, WeightIs
  <2>2. u \div v = 0 /\ v * 0 = 0
    BY <2>1
  <2>3. Sums(w)[l] + Weight(l + 1) * (u \div Weight(l + 1)) = u
    BY <1>8 DEF A
  <2>4. Sums(w)[l] \in Nat
    BY <1>3, SumsAre
  <2> QED
    BY <2>1, <2>2, <2>3, <2>4
<1>11. /\ \A i \in 1 .. Len(w) - 1 : More(w[i])
       /\ ~More(w[Len(w)])
  BY <1>3, <1>5
<1> QED
  BY <1>2, <1>3, <1>10, <1>11 DEF Spells

\* Without more digits than it needs, a number is spelled as ToVarint does.
LEMMA DigitsOfVarint == \A v \in Nat : Digits(v, 0) = ToVarint(v)
<1> DEFINE S == {v \in Nat : Digits(v, 0) = ToVarint(v)}
<1>1. Base \in Nat /\ Base >= 2
  BY BaseIs
<1>2. ASSUME NEW v \in Nat
      PROVE  \E w \in Seq(Byte), l \in Nat \ {0} :
                 /\ w = Digits(v, 0) /\ l = Need(v) /\ Len(w) = l
                 /\ \A i \in 1 .. l : w[i] = ((v \div Weight(i)) % Base)
                                           + IF i < l THEN Base ELSE 0
  <2>1. PICK l \in Nat \ {0} : l = Need(v)
    BY NeedIs
  <2>2. l \in Nat /\ l = Need(v) + 0 /\ 0 \in Nat /\ v = Unsigned(v)
    BY <2>1 DEF Unsigned
  <2>3. /\ Digits(v, 0) \in Seq(Byte) /\ Len(Digits(v, 0)) = l
        /\ \A i \in 1 .. l : Digits(v, 0)[i] = ((v \div Weight(i)) % Base)
                                              + IF i < l THEN Base ELSE 0
    BY <2>2, DigitsAre
  <2> QED
    BY <2>1, <2>3
<1>3. ASSUME NEW v \in Nat, v < Base PROVE v \in S
  <2>1. Need(v) = 1
    <3>1. Weight(1 + 1) = Base * 1 /\ 1 \in Nat \ {0}
      BY WeightIs
    <3>2. v < Weight(1 + 1)
      BY <1>1, <1>3, <3>1
    <3>3. Need(v) <= 1 /\ Need(v) \in Nat \ {0}
      BY <3>1, <3>2, NeedIs
    <3> QED
      BY <3>3
  <2>2. PICK w \in Seq(Byte), l \in Nat \ {0} :
            /\ w = Digits(v, 0) /\ l = Need(v) /\ Len(w) = l
            /\ \A i \in 1 .. l : w[i] = ((v \div Weight(i)) % Base)
                                      + IF i < l THEN Base ELSE 0
    BY <1>2
  <2>3. Len(w) = 1 /\ w[1] = ((v \div Weight(1)) % Base) + 0
    BY <2>1, <2>2
  <2>4. Weight(1) = 1 /\ v \div 1 = v
    BY WeightIs
  <2>5. v % Base = v
    BY <1>1, <1>3
  <2>6. w[1] = v
    BY <2>3, <2>4, <2>5
  <2>7. w = <<v>>
    BY <2>3, <2>6
  <2>8. ToVarint(v) = <<v>>
    BY <1>3, VarintUnfolds
  <2> QED
    BY <2>2, <2>7, <2>8
<1>4. ASSUME NEW v \in Nat, v >= Base, v \div Base \in S PROVE v \in S
  <2>1. PICK q \in Nat, r \in 0 .. Base - 1 : q = v \div Base /\ r = v % Base
    BY Division
  <2>2. PICK t \in Seq(Byte) : t = Digits(q, 0) /\ t = ToVarint(q)
    BY <1>4, <2>1, VarintUnfolds
  <2>3. PICK l \in Nat \ {0} :
            /\ l = Need(q) /\ Len(t) = l
            /\ \A i \in 1 .. l : t[i] = ((q \div Weight(i)) % Base)
                                      + IF i < l THEN Base ELSE 0
    <3>1. q \in Nat
      BY <2>1, Division
    <3> QED
      BY <1>2, <2>2, <3>1
  <2>4. Need(v) = l + 1
    BY <1>4, <2>1, <2>3, NeedOfMore
  <2>5. PICK w \in Seq(Byte), k \in Nat \ {0} :
            /\ w = Digits(v, 0) /\ k = Need(v) /\ Len(w) = k
            /\ \A i \in 1 .. k : w[i] = ((v \div Weight(i)) % Base)
                                      + IF i < k THEN Base ELSE 0
    BY <1>2
  <2>6. /\ Len(w) = l + 1
        /\ \A i \in 1 .. l + 1 : w[i] = ((v \div Weight(i)) % Base)
                                        + IF i < l + 1 THEN Base ELSE 0
    BY <2>4, <2>5
  <2>7. ToVarint(v) = <<Base + r>> \o t
    <3>1. ~(v < Base)
      BY <1>1, <1>4
    <3>2. ToVarint(v) = <<Base + (v % Base)>> \o ToVarint(v \div Base)
      BY <3>1, VarintUnfolds
    <3> QED
      BY <2>1, <2>2, <3>2
  <2>8. PICK c \in Byte : c = Base + r
    BY <2>1, GroupsAreBytes
  <2>9. PICK u : u = <<c>> \o t
    OBVIOUS
  <2>10. /\ u \in Seq(Byte) /\ Len(u) = Len(t) + 1 /\ u[1] = Base + r
         /\ \A i \in 1 .. Len(t) : u[i + 1] = t[i]
    <3>1. /\ <<c>> \o t \in Seq(Byte) /\ Len(<<c>> \o t) = Len(t) + 1
          /\ (<<c>> \o t)[1] = c
          /\ \A i \in 1 .. Len(t) : (<<c>> \o t)[i + 1] = t[i]
      BY Cons
    <3> QED
      BY <2>8, <2>9, <3>1
  <2>11. w[1] = u[1]
    <3>1. Weight(1) = 1 /\ v \div 1 = v
      BY WeightIs
    <3>2. w[1] = (v % Base) + Base
      BY <2>6, <3>1
    <3> QED
      BY <1>1, <2>1, <2>10, <3>2
  <2>12. ASSUME NEW i \in 1 .. l PROVE w[i + 1] = u[i + 1]
    <3>1. v \div Weight(i + 1) = q \div Weight(i)
      <4>1. i \in Nat \ {0}
        OBVIOUS
      <4> QED
        BY <2>1, <4>1, QuotientsAre
    <3>2. i + 1 \in 1 .. l + 1 /\ (i + 1 < l + 1 <=> i < l)
      OBVIOUS
    <3>3. w[i + 1] = ((v \div Weight(i + 1)) % Base) + IF i + 1 < l + 1 THEN Base ELSE 0
      BY <2>6, <3>2
    <3> QED
      BY <2>3, <2>10, <3>1, <3>2, <3>3
  <2>13. ASSUME NEW j \in 1 .. Len(w) PROVE w[j] = u[j]
    <3>1. CASE j = 1
      BY <2>11, <3>1
    <3>2. CASE j # 1
      <4>1. j - 1 \in 1 .. l /\ (j - 1) + 1 = j
        BY <2>6, <3>2
      <4>2. w[(j - 1) + 1] = u[(j - 1) + 1]
        BY <2>12, <4>1
      <4> QED
        BY <4>1, <4>2
    <3> QED
      BY <3>1, <3>2
  <2>14. w = u
    BY <2>3, <2>6, <2>10, <2>13, SeqEqual
  <2> QED
    BY <2>5, <2>7, <2>8, <2>9, <2>14
<1> HIDE DEF S
<1>5. ASSUME NEW n \in Nat, \A m \in 0 .. n - 1 : m \in S PROVE n \in S
  <2>1. CASE n < Base
    BY <1>3, <2>1
  <2>2. CASE ~(n < Base)
    <3>1. n >= Base
      BY <1>1, <2>2
    <3>2. n \div Base \in 0 .. n - 1
      BY <3>1, Division
    <3> QED
      BY <1>4, <1>5, <3>1, <3>2
  <2> QED
    BY <2>1, <2>2
<1>6. Nat \subseteq S
  BY <1>5, StrongInduction
<1> QED
  BY <1>6 DEF S

\* An integer below zero, as VarInts have it.
LEMMA NegativeIs ==
    ASSUME NEW n \in -(2^(Width - 1)) .. -1
    PROVE  n \in Int /\ Unsigned(n) \in Nat /\ Signed(Unsigned(n), Width) = n
<1>1. Width \in Nat \ {0} /\ Width - 1 \in Nat /\ (Width - 1) + 1 = Width
  BY SizesAre
<1>2. PICK h \in Nat : h = 2^(Width - 1) /\ 2^Width = 2 * h /\ h >= 1
  <2>1. 2^(Width - 1) \in Nat /\ 2^(Width - 1) >= 1
    BY <1>1, PowerIsNat
  <2>2. 2^((Width - 1) + 1) = 2 * 2^(Width - 1)
    BY <1>1, PowerDoubles
  <2> QED
    BY <1>1, <2>1, <2>2
<1>3. n \in Int /\ n < 0 /\ n >= -h
  BY <1>2
<1>4. PICK u \in Nat : u = n + 2 * h /\ u < 2 * h /\ u >= h
  BY <1>2, <1>3
<1>5. u = Unsigned(n)
  BY <1>2, <1>3, <1>4 DEF Unsigned
<1>6. u % (2 * h) = u
  BY <1>2, <1>4
<1>7. Signed(u, Width) = n
  BY <1>2, <1>3, <1>4, <1>6 DEF Signed
<1> QED
  BY <1>3, <1>5, <1>7

\* The number of digits is within what VarInts may have.
LEMMA DigitsAreFew ==
    ASSUME NEW n \in Int, NEW pad \in Nat, pad < MaxVarint, NEW u \in Nat, u = Unsigned(n),
           NEW w \in Nat, w <= Group * (MaxVarint - pad), u < 2^w
    PROVE  ReadsAs(Digits(n, pad), Signed(u, Width)) /\ Digits(n, pad) \in Seq(Byte)
<1>1. PICK k \in Nat \ {0} : k = MaxVarint - pad
  BY SizesAre
<1>2. u < Weight(k + 1)
  <2>1. (k + 1) - 1 = k /\ Group * k \in Nat
    BY SizesAre
  <2>2. 2^w <= 2^(Group * k)
    BY <1>1, <2>1, PowerGrows
  <2>3. 2^w \in Nat /\ 2^(Group * k) \in Nat
    BY <2>1, PowerIsNat
  <2>4. u < 2^(Group * k)
    BY <2>2, <2>3
  <2> QED
    BY <2>1, <2>4 DEF Weight
<1>3. Need(u) <= k /\ Need(u) \in Nat
  BY <1>2, NeedIs
<1>4. PICK l \in Nat : l = Need(u) + pad /\ l <= MaxVarint
  BY <1>1, <1>3, SizesAre
<1>5. Digits(n, pad) \in Seq(Byte) /\ Len(Digits(n, pad)) = l
  BY <1>4, DigitsAre
<1>6. Spells(Digits(n, pad), u)
  BY DigitsSpell
<1> QED
  BY <1>4, <1>5, <1>6, SpelledReadsBack

\* A VarInt of a number that an Integer can hold is read as that number, with
\* zeros behind it or without, a negative one too.
LEMMA DigitsReadBack ==
    ASSUME NEW n, NEW pad \in Nat, pad < MaxVarint,
           \/ n \in Number /\ Width - 1 <= Group * (MaxVarint - pad)
           \/ n \in -(2^(Width - 1)) .. -1 /\ Width <= Group * (MaxVarint - pad)
    PROVE  ReadsAs(Digits(n, pad), n) /\ Digits(n, pad) \in Seq(Byte)
<1>1. Width \in Nat \ {0} /\ Width - 1 \in Nat /\ (Width - 1) + 1 = Width
  BY SizesAre
<1>2. PICK h \in Nat : h = 2^(Width - 1) /\ 2^Width = 2 * h /\ h >= 1
  <2>1. 2^(Width - 1) \in Nat /\ 2^(Width - 1) >= 1
    BY <1>1, PowerIsNat
  <2>2. 2^((Width - 1) + 1) = 2 * 2^(Width - 1)
    BY <1>1, PowerDoubles
  <2> QED
    BY <1>1, <2>1, <2>2
<1>3. CASE n \in Number /\ Width - 1 <= Group * (MaxVarint - pad)
  <2>1. n \in Nat /\ n < 2^(Width - 1) /\ n \in 0 .. 2^(Width - 1) - 1
    BY <1>2, <1>3 DEF Number
  <2>2. Unsigned(n) = n /\ Signed(n, Width) = n
    BY <1>1, <2>1, SignedIs DEF Unsigned
  <2> QED
    BY <1>1, <1>3, <2>1, <2>2, DigitsAreFew
<1>4. CASE n \in -(2^(Width - 1)) .. -1 /\ Width <= Group * (MaxVarint - pad)
  <2>1. PICK u \in Nat : u = Unsigned(n) /\ Signed(u, Width) = n /\ n \in Int
    BY <1>4, NegativeIs
  <2>2. u < 2^Width
    BY <1>2, <1>4, <2>1 DEF Unsigned
  <2> QED
    BY <1>1, <1>4, <2>1, <2>2, DigitsAreFew
<1> QED
  BY <1>3, <1>4

-----------------------------------------------------------------------------
(* What clients write is read as they mean it. *)

\* VarInts may have pad digits more than they need.
Fits(pad) == pad \in Nat /\ pad < MaxVarint /\ Width - 1 <= Group * (MaxVarint - pad)

\* w is read as a packet with this body, whatever follows it.
Heads(w, body) ==
    \A t \in Seq(Byte) : First(w \o t) = body /\ Behind(w \o t) = t

\* None is always possible.
LEMMA ShortestFits == Fits(0)
<1>1. MaxVarint - 0 = MaxVarint /\ 0 < MaxVarint
  BY SizesAre
<1> QED
  BY <1>1, PacketsAssumption DEF Fits

\* A number that an Integer can hold.
LEMMA NumberReadsBack ==
    ASSUME NEW n \in Number, NEW pad, Fits(pad)
    PROVE  ReadsAs(Digits(n, pad), n) /\ Digits(n, pad) \in Seq(Byte)
  BY DigitsReadBack DEF Fits

\* A text, and a packet: the length, and what is that long.
LEMMA TextIs ==
    ASSUME NEW s \in Seq(Byte), NEW pad \in Nat
    PROVE  /\ Text(s, pad) \in Seq(Byte) /\ Len(s) <= Len(Text(s, pad))
           /\ Fits(pad) /\ Len(s) \in Number =>
                  ReadsAsText(Text(s, pad), s) /\ Heads(Text(s, pad), s)
<1>1. PICK n \in Nat : n = Len(s)
  OBVIOUS
<1>2. PICK d \in Seq(Byte) : d = Digits(n, pad)
  <2>1. n \in Int /\ n = Unsigned(n)
    BY DEF Unsigned
  <2>2. PICK k \in Nat \ {0} : k = Need(n)
    BY NeedIs
  <2>3. k + pad \in Nat
    OBVIOUS
  <2>4. Digits(n, pad) \in Seq(Byte)
    BY <2>1, <2>2, <2>3, DigitsAre
  <2> QED
    BY <2>4
<1>3. Text(s, pad) = d \o s
  BY <1>1, <1>2 DEF Text
<1>4. d \o s \in Seq(Byte) /\ Len(d \o s) = Len(d) + Len(s) /\ Len(d) \in Nat
  BY JoinedAre
<1>5. ASSUME Fits(pad), n \in Number
      PROVE  ReadsAsText(d \o s, s) /\ Heads(d \o s, s)
  <2>1. ReadsAs(d, Len(s))
    BY <1>1, <1>2, <1>5, NumberReadsBack
  <2>2. ASSUME NEW t \in Seq(Byte)
        PROVE  /\ ReadString((d \o s) \o t) = [ok |-> TRUE, value |-> s, rest |-> t]
               /\ First((d \o s) \o t) = s /\ Behind((d \o s) \o t) = t
    <3>1. /\ ReadVarint((d \o s) \o t) =
                 [ok |-> TRUE, value |-> Len(s), rest |-> s \o t]
          /\ ReadString((d \o s) \o t) = [ok |-> TRUE, value |-> s, rest |-> t]
      BY <2>1, HeadedReadsBack
    <3>2. SubSeq(s \o t, 1, Len(s)) = s /\ Drop(s \o t, Len(s)) = t
      BY JoinedAre
    <3> QED
      BY <3>1, <3>2 DEF First, Behind
  <2> QED
    BY <2>2 DEF ReadsAsText, Heads
<1> QED
  BY <1>1, <1>3, <1>4, <1>5

\* Without zeros they are those of module Packets.
LEMMA TextOfFrame ==
    ASSUME NEW s \in Seq(Byte) PROVE Text(s, 0) = Frame(s)
<1>1. Len(s) \in Nat
  OBVIOUS
<1> QED
  BY <1>1, DigitsOfVarint DEF Text, Frame

\* Five fields are bytes, and longer than the third.
LEMMA FieldsAre ==
    ASSUME NEW z \in Seq(Byte), NEW v \in Seq(Byte), NEW a \in Seq(Byte),
           NEW p \in Seq(Byte), NEW x \in Seq(Byte)
    PROVE  z \o v \o a \o p \o x \in Seq(Byte) /\ Len(a) <= Len(z \o v \o a \o p \o x)
<1>1. PICK b \in Seq(Byte) : b = z \o v
  BY JoinedAre
<1>2. PICK c \in Seq(Byte) : c = b \o a /\ Len(c) = Len(b) + Len(a)
  BY JoinedAre
<1>3. PICK d \in Seq(Byte) : d = c \o p /\ Len(d) = Len(c) + Len(p)
  BY JoinedAre
<1>4. PICK e \in Seq(Byte) : e = d \o x /\ Len(e) = Len(d) + Len(x)
  BY JoinedAre
<1>5. /\ Len(b) \in Nat /\ Len(a) \in Nat /\ Len(p) \in Nat /\ Len(x) \in Nat
      /\ Len(c) \in Nat /\ Len(d) \in Nat
  OBVIOUS
<1>6. Len(a) <= Len(e)
  BY <1>2, <1>3, <1>4, <1>5
<1>7. e = z \o v \o a \o p \o x
  BY <1>1, <1>2, <1>3, <1>4
<1> QED
  BY <1>6, <1>7

\* What a handshake says is what is parsed of it.
LEMMA OpeningIs ==
    ASSUME NEW m, m.next \in Number, NEW addr \in Seq(Byte), NEW port \in Seq(Byte),
           Len(port) = 2, NEW pad, Fits(pad),
           ReadsAs(Digits(m.version, pad), m.version), Digits(m.version, pad) \in Seq(Byte)
    PROVE  /\ Opening(m, addr, port, pad) \in Seq(Byte)
           /\ Len(addr) <= Len(Opening(m, addr, port, pad))
           /\ Len(Opening(m, addr, port, pad)) \in Number =>
                  ParsedAs(Opening(m, addr, port, pad), m.version, addr, port, m.next)
<1>1. pad \in Nat
  BY DEF Fits
<1>2. 0 \in Number
  BY ShortIs DEF Short, Number
<1>3. PICK z \in Seq(Byte), v \in Seq(Byte), a \in Seq(Byte), x \in Seq(Byte) :
          /\ z = Digits(0, pad) /\ v = Digits(m.version, pad)
          /\ a = Text(addr, pad) /\ x = Digits(m.next, 0)
          /\ ReadsAs(z, 0) /\ ReadsAs(x, m.next)
  BY <1>1, <1>2, TextIs, NumberReadsBack, ShortestFits
<1>4. PICK b : b = z \o v \o a \o port \o x
  OBVIOUS
<1>5. b = Opening(m, addr, port, pad)
  BY <1>3, <1>4 DEF Opening
<1>6. b \in Seq(Byte) /\ Len(a) <= Len(b)
  BY <1>4, FieldsAre
<1>7. Len(addr) <= Len(b)
  <2>1. Len(addr) <= Len(a)
    BY <1>1, <1>3, TextIs
  <2>2. Len(addr) \in Nat /\ Len(a) \in Nat /\ Len(b) \in Nat
    BY <1>6
  <2> QED
    BY <1>6, <2>1, <2>2
<1>8. ASSUME Len(b) \in Number PROVE ParsedAs(b, m.version, addr, port, m.next)
  <2>1. Len(addr) \in Number
    <3>1. Len(addr) \in Nat
      OBVIOUS
    <3> QED
      BY <1>7, <1>8, <3>1, ShortIs DEF Short, Number
  <2>2. ReadsAsText(a, addr)
    BY <1>1, <1>3, <2>1, TextIs
  <2>3. ReadsAs(v, m.version)
    BY <1>3
  <2> QED
    BY <1>3, <1>4, <2>2, <2>3, FieldsReadBack
<1> QED
  BY <1>5, <1>6, <1>7, <1>8

\* A login says the player's name.
LEMMA LoginStartIs ==
    ASSUME NEW m, m.name \in Seq(Byte), m.uuid \in Seq(Byte), Fits(m.pad)
    PROVE  /\ LoginStart(m) \in Seq(Byte)
           /\ Len(LoginStart(m)) \in Number =>
                  /\ ParseLogin(LoginStart(m)).ok
                  /\ ParseLogin(LoginStart(m)).user_name = m.name
<1>1. m.pad \in Nat /\ 0 \in Number
  BY ShortIs DEF Fits, Short, Number
<1>2. PICK z \in Seq(Byte), a \in Seq(Byte), u \in Seq(Byte) :
          /\ z = Digits(0, m.pad) /\ a = Text(m.name, m.pad) /\ u = m.uuid
          /\ ReadsAs(z, 0) /\ Len(m.name) <= Len(a)
  BY <1>1, NumberReadsBack, TextIs
<1>3. PICK r \in Seq(Byte) : r = a \o u /\ Len(r) = Len(a) + Len(u)
  BY JoinedAre
<1>4. PICK b \in Seq(Byte) : b = z \o r /\ Len(b) = Len(z) + Len(r)
  BY JoinedAre
<1>5. LoginStart(m) = b
  <2>1. (z \o a) \o u = z \o (a \o u)
    <3>1. Cat(Cat(z, a), u) = Cat(z, Cat(a, u))
      BY CatIs
    <3> QED
      BY <3>1 DEF Cat
  <2> QED
    BY <1>2, <1>3, <1>4, <2>1 DEF LoginStart
<1>6. ASSUME Len(b) \in Number
      PROVE  ParseLogin(b).ok /\ ParseLogin(b).user_name = m.name
  <2>1. Len(m.name) \in Number
    <3>1. /\ Len(z) \in Nat /\ Len(r) \in Nat /\ Len(a) \in Nat /\ Len(u) \in Nat
          /\ Len(b) \in Nat /\ Len(m.name) \in Nat
      OBVIOUS
    <3>2. Len(a) <= Len(r) /\ Len(r) <= Len(b)
      BY <1>3, <1>4, <3>1
    <3>3. Len(m.name) <= Len(b)
      BY <1>2, <3>1, <3>2
    <3> QED
      BY <1>6, <3>1, <3>3, ShortIs DEF Short, Number
  <2>2. ReadsAsText(a, m.name)
    BY <1>1, <1>2, <2>1, TextIs
  <2>3. ReadVarint(b) = [ok |-> TRUE, value |-> 0, rest |-> r]
    BY <1>2, <1>4 DEF ReadsAs
  <2>4. ReadString(r) = [ok |-> TRUE, value |-> m.name, rest |-> u]
    BY <1>3, <2>2 DEF ReadsAsText
  <2>5. PICK id, name : id = ReadVarint(b) /\ name = ReadString(id.rest)
    OBVIOUS
  <2>6. /\ ParseLogin(b).ok <=> id.value = 0 /\ name.ok
        /\ ParseLogin(b).user_name = name.value
    BY <2>5 DEF ParseLogin
  <2>7. id.value = 0 /\ name.ok /\ name.value = m.name
    BY <2>3, <2>4, <2>5
  <2> QED
    BY <2>6, <2>7
<1> QED
  BY <1>5, <1>6

\* Another id, or a name without an end, makes no login.
LEMMA NoLoginIs ==
    ASSUME NEW p \in Seq(Byte), NoLogin(p) PROVE ~ParseLogin(p).ok
<1>1. ASSUME NEW n \in Number \ {0}, IsStart(Digits(n, 0), p)
      PROVE  ~ParseLogin(p).ok
  <2>1. PICK d \in Seq(Byte) : d = Digits(n, 0) /\ ReadsAs(d, n)
    BY NumberReadsBack, ShortestFits
  <2>2. PICK t \in Seq(Byte) : p = d \o t
    BY <1>1, <2>1, StartIs
  <2>3. ReadVarint(p).value = n
    BY <2>1, <2>2 DEF ReadsAs
  <2> QED
    BY <2>3 DEF ParseLogin
<1>2. ASSUME NEW n \in Number, NEW head, head = << 0 >> \o Digits(n, 0),
             IsStart(head, p), Len(p) < Len(head) + n
      PROVE  ~ParseLogin(p).ok
  <2>1. PICK d \in Seq(Byte) : d = Digits(n, 0) /\ ReadsAs(d, n)
    BY NumberReadsBack, ShortestFits
  <2>2. PICK z \in Seq(Byte) : z = <<0>> /\ ReadsAs(z, 0)
    <3>1. 0 \in Nat /\ 0 < Base /\ 0 \in Number
      BY BaseIs, ShortIs DEF Short, Number
    <3>2. Digits(0, 0) = <<0>>
      BY <3>1, DigitsOfVarint, VarintUnfolds
    <3> QED
      BY <3>1, <3>2, NumberReadsBack, ShortestFits
  <2>3. PICK h \in Seq(Byte) : h = z \o d /\ h = head
    BY <1>2, <2>1, <2>2, JoinedAre
  <2>4. PICK t \in Seq(Byte) : p = h \o t
    BY <1>2, <2>3, StartIs
  <2>5. Len(t) < n
    <3>1. Len(h \o t) = Len(h) + Len(t) /\ Len(h) \in Nat /\ Len(t) \in Nat
      BY JoinedAre
    <3> QED
      BY <1>2, <2>3, <2>4, <3>1, ShortIs DEF Short, Number
  <2>6. PICK r \in Seq(Byte) : r = d \o t
    BY JoinedAre
  <2>7. p = z \o r
    <3>1. (z \o d) \o t = z \o (d \o t)
      <4>1. Cat(Cat(z, d), t) = Cat(z, Cat(d, t))
        BY CatIs
      <4> QED
        BY <4>1 DEF Cat
    <3> QED
      BY <2>3, <2>4, <2>6, <3>1
  <2>8. ReadVarint(p).rest = r
    <3>1. ReadVarint(z \o r) = [ok |-> TRUE, value |-> 0, rest |-> r]
      BY <2>2 DEF ReadsAs
    <3> QED
      BY <2>7, <3>1
  <2>9. ReadVarint(r) = [ok |-> TRUE, value |-> n, rest |-> t]
    BY <2>1, <2>6 DEF ReadsAs
  <2>10. n \notin 0 .. Len(t)
    BY <2>5
  <2>11. ~ReadString(r).ok
    <3>1. PICK x : x = ReadVarint(r)
      OBVIOUS
    <3>2. x.ok /\ x.value = n /\ x.rest = t
      BY <2>9, <3>1
    <3>3. ReadString(r).ok = (x.ok /\ x.value \in 0 .. Len(x.rest))
      BY <3>1 DEF ReadString
    <3> QED
      BY <2>10, <3>2, <3>3
  <2> QED
    BY <2>8, <2>11 DEF ParseLogin
<1> QED
  BY <1>1, <1>2 DEF NoLogin

\* A VarInt that was not read leaves 0.
LEMMA UnreadIs ==
    ASSUME NEW s \in Seq(Byte), ~ReadVarint(s).ok
    PROVE  ReadVarint(s).value = 0
<1>1. PICK n : n = Taken(s)
  OBVIOUS
<1>2. ReadVarint(s).ok <=> n > 0 /\ ~More(s[n])
  BY <1>1 DEF ReadVarint
<1>3. ReadVarint(s).value = IF n > 0 /\ ~More(s[n]) THEN Value(SubSeq(s, 1, n)) ELSE 0
  BY <1>1 DEF ReadVarint
<1> QED
  BY <1>2, <1>3

\* What is read of nothing: no VarInt, no text, no handshake.
LEMMA NothingIsRead ==
    /\ ~ReadVarint(<<>>).ok /\ ReadVarint(<<>>).value = 0 /\ ReadVarint(<<>>).rest = <<>>
    /\ ~ParseHandshake(<<>>).ok
<1>1. PICK e \in Seq(Byte) : e = <<>> /\ Len(e) = 0
  <2>1. <<>> \in Seq(Byte) /\ Len(<<>>) = 0
    OBVIOUS
  <2> QED
    BY <2>1
<1>2. Taken(e) = 0
  <2>1. Stops(e, Taken(e)) /\ Taken(e) \in Nat
    BY TakenIs
  <2> QED
    BY <1>1, <2>1 DEF Stops
<1>3. PICK v : v = ReadVarint(e)
  OBVIOUS
<1>4. ~v.ok /\ v.value = 0
  <2>1. v.ok <=> Taken(e) > 0 /\ ~More(e[Taken(e)])
    BY <1>3 DEF ReadVarint
  <2>2. ~v.ok
    BY <1>2, <2>1
  <2> QED
    BY <1>3, <2>2, UnreadIs
<1>5. v.rest = e
  <2>1. v.rest \in Seq(Byte) /\ Len(e) = Taken(e) + Len(v.rest)
    BY <1>3, ReadVarintIs
  <2>2. Len(v.rest) = 0
    BY <1>1, <1>2, <2>1
  <2> QED
    BY <1>1, <2>1, <2>2
<1>6. ~ReadString(e).ok
  <2>1. ReadString(e).ok = (v.ok /\ v.value \in 0 .. Len(v.rest))
    BY <1>3 DEF ReadString
  <2> QED
    BY <1>4, <2>1
<1>7. ~ParseHandshake(e).ok
  <2>1. PICK id, ver, addr : id = ReadVarint(e) /\ ver = ReadVarint(id.rest)
                             /\ addr = ReadString(ver.rest)
    OBVIOUS
  <2>2. ParseHandshake(e).ok => addr.ok
    BY <2>1 DEF ParseHandshake
  <2>3. addr = ReadString(e)
    BY <1>3, <1>5, <2>1
  <2> QED
    BY <1>6, <2>2, <2>3
<1> QED
  BY <1>1, <1>3, <1>4, <1>5, <1>7

\* A length that does not end is no VarInt.
LEMMA EndlessIs ==
    ASSUME NEW s \in Seq(Byte), \A i \in 1 .. Len(s) : i <= MaxVarint => More(s[i])
    PROVE  ~ReadVarint(s).ok
<1>1. PICK n \in Nat : n = Taken(s) /\ n <= Len(s) /\ n <= MaxVarint
  BY TakenIs, SizesAre DEF Stops
<1>2. ReadVarint(s).ok = (n > 0 /\ ~More(s[n]))
  BY <1>1, ReadVarintIs
<1>3. ASSUME n > 0 PROVE More(s[n])
  BY <1>1, <1>3
<1> QED
  BY <1>2, <1>3

\* Of bytes that are no message there is no handshake.
LEMMA JunkIs ==
    ASSUME NEW s \in Seq(Byte), s \in Junk PROVE ~ParseHandshake(First(s)).ok
<1>1. PICK v : v = ReadVarint(s)
  OBVIOUS
<1>2. v.value \in Int /\ v.rest \in Seq(Byte)
  BY <1>1, ReadVarintIs
<1>3. ASSUME v.value <= 0 PROVE ~ParseHandshake(First(s)).ok
  <2>1. First(s) = SubSeq(v.rest, 1, v.value)
    BY <1>1 DEF First
  <2>2. SubSeq(v.rest, 1, v.value) = <<>>
    BY <1>2, <1>3
  <2> QED
    BY <2>1, <2>2, NothingIsRead
<1>4. ASSUME ~v.ok PROVE v.value <= 0
  BY <1>1, <1>4, UnreadIs
<1>5. CASE \A i \in 1 .. Len(s) : i <= MaxVarint => More(s[i])
  BY <1>1, <1>3, <1>4, <1>5, EndlessIs
<1>6. ASSUME NEW n \in 1 .. 2^(Width - 1), IsStart(Digits(-n, 0), s)
      PROVE  ~ParseHandshake(First(s)).ok
  <2>1. -n \in -(2^(Width - 1)) .. -1
    <3>1. 2^(Width - 1) \in Nat
      BY SizesAre, PowerIsNat
    <3> QED
      BY <3>1
  <2>2. PICK m \in Int, u \in Nat : m = -n /\ u = Unsigned(m) /\ Signed(u, Width) = m /\ m < 0
    BY <2>1, NegativeIs
  <2>3. Spells(Digits(m, 0), u)
    BY <2>2, DigitsSpell
  <2>4. PICK w \in Seq(Byte) : w = Digits(m, 0) /\ Spells(w, u) /\ IsStart(w, s)
    BY <1>6, <2>2, <2>3 DEF Spells
  <2>5. PICK t \in Seq(Byte) : s = w \o t
    BY <2>4, StartIs
  <2>6. CASE Len(w) <= MaxVarint
    <3>1. ReadsAs(w, m)
      BY <2>2, <2>4, <2>6, SpelledReadsBack
    <3>2. ReadVarint(w \o t) = [ok |-> TRUE, value |-> m, rest |-> t]
      BY <3>1 DEF ReadsAs
    <3>3. v.value = m
      BY <1>1, <2>5, <3>2
    <3> QED
      BY <1>3, <2>2, <3>3
  <2>7. CASE ~(Len(w) <= MaxVarint)
    <3>1. ASSUME NEW i \in 1 .. Len(s), i <= MaxVarint PROVE More(s[i])
      <4>1. i \in 1 .. Len(w) - 1
        BY <2>7, <3>1, SizesAre
      <4>2. More(w[i])
        BY <2>4, <4>1 DEF Spells
      <4>3. i \in 1 .. Len(w)
        BY <4>1
      <4>4. s[i] = w[i]
        BY <2>5, <4>3, JoinedAre
      <4> QED
        BY <4>2, <4>4
    <3> QED
      BY <1>5, <3>1
  <2> QED
    BY <2>6, <2>7
<1> QED
  BY <1>5, <1>6, ClientsAssumption

\* The suffix of an address is what the client put behind its host.
LEMMA SuffixOf ==
    ASSUME NEW host \in Seq(Byte), NEW forge \in Seq(Byte),
           \A i \in 1 .. Len(host) : host[i] # 0, forge # <<>> => forge[1] = 0
    PROVE  Suffix(host \o forge) = forge
<1>1. PICK a \in Seq(Byte) : /\ a = host \o forge /\ Len(a) = Len(host) + Len(forge)
                             /\ \A i \in 1 .. Len(host) : a[i] = host[i]
                             /\ \A i \in 1 .. Len(forge) : a[Len(host) + i] = forge[i]
                             /\ Drop(a, Len(host)) = forge
  <2>1. /\ host \o forge \in Seq(Byte) /\ Len(host \o forge) = Len(host) + Len(forge)
        /\ \A i \in 1 .. Len(host) : (host \o forge)[i] = host[i]
        /\ \A i \in 1 .. Len(forge) : (host \o forge)[Len(host) + i] = forge[i]
        /\ Drop(host \o forge, Len(host)) = forge
    BY JoinedAre
  <2> QED
    BY <2>1
<1>2. PICK n \in 0 .. Len(a) : /\ \A i \in 1 .. n : a[i] # 0
                               /\ n = Len(a) \/ a[n + 1] = 0
                               /\ Suffix(a) = Drop(a, n)
  BY SuffixIs
<1>3. Len(host) \in Nat /\ Len(forge) \in Nat /\ n \in Nat
  BY <1>1
<1>4. ~(n < Len(host))
  <2> SUFFICES ASSUME n < Len(host) PROVE FALSE
    OBVIOUS
  <2>1. n + 1 \in 1 .. Len(host) /\ n # Len(a)
    BY <1>1, <1>3
  <2>2. a[n + 1] = host[n + 1]
    BY <1>1, <2>1
  <2> QED
    BY <1>2, <2>1, <2>2
<1>5. ~(n > Len(host))
  <2> SUFFICES ASSUME n > Len(host) PROVE FALSE
    OBVIOUS
  <2>1. Len(forge) > 0
    BY <1>1, <1>2, <1>3
  <2>2. forge # <<>> /\ 1 \in 1 .. Len(forge)
    BY <1>3, <2>1
  <2>3. a[Len(host) + 1] = forge[1]
    BY <1>1, <2>2
  <2>4. Len(host) + 1 \in 1 .. n
    BY <1>3
  <2> QED
    BY <1>2, <2>2, <2>3, <2>4
<1>6. n = Len(host)
  BY <1>3, <1>4, <1>5
<1> QED
  BY <1>1, <1>2, <1>6

-----------------------------------------------------------------------------
(* The functions of module Clients that are defined step by step. *)

\* A function on 0 .. N that goes on from each value to the next one.
Stepwise(h, N, start, onward) ==
    h[0] = start /\ \A i \in 1 .. N : h[i] = onward[i][h[i - 1]]

\* There is one.
LEMMA StepwiseExists ==
    ASSUME NEW T, NEW N \in Nat, NEW start \in T, NEW onward \in [1 .. N -> [T -> T]]
    PROVE  \E h \in [0 .. N -> T] : Stepwise(h, N, start, onward)
<1> DEFINE base == {0}
           first == [n \in Nat |-> start]
           step == [n \in Nat |-> IF n = 0 THEN 0 ELSE n - 1]
           same == [t \in T |-> t]
           next == [n \in Nat |-> IF n \in 1 .. N THEN onward[n] ELSE same]
<1>1. first \in [Nat -> T] /\ step \in [Nat -> Nat]
  OBVIOUS
<1>2. next \in [Nat -> [T -> T]]
  <2>1. same \in [T -> T]
    OBVIOUS
  <2> HIDE DEF same
  <2> QED
    BY <2>1
<1>3. \A n \in Nat : n \notin base => step[n] < n
  OBVIOUS
<1>4. PICK f \in [Nat -> T] : Recurs(f, base, first, step, next)
  <2> HIDE DEF base, first, step, next
  <2> QED
    BY <1>1, <1>2, <1>3, RecursionExists
<1>5. f[0] = start
  BY <1>4 DEF Recurs
<1>6. ASSUME NEW i \in 1 .. N PROVE f[i] = onward[i][f[i - 1]]
  <2>1. step[i] = i - 1 /\ i \in Nat /\ i \notin base /\ next[i] = onward[i]
    OBVIOUS
  <2> HIDE DEF base, first, step, next
  <2>2. f[i] = next[i][f[step[i]]]
    BY <1>4, <2>1 DEF Recurs
  <2> QED
    BY <2>1, <2>2
<1> DEFINE h == [i \in 0 .. N |-> f[i]]
<1>7. h \in [0 .. N -> T] /\ h[0] = f[0]
  OBVIOUS
<1>8. ASSUME NEW i \in 1 .. N PROVE h[i] = f[i] /\ h[i - 1] = f[i - 1]
  OBVIOUS
<1> HIDE DEF h
<1>9. \A i \in 1 .. N : h[i] = onward[i][h[i - 1]]
  BY <1>6, <1>8, SMTT(30)
<1> QED
  BY <1>5, <1>7, <1>9 DEF Stepwise

\* What is left of a message when n packets are left.
LEMMA LeftIs ==
    ASSUME NEW m, m.packets \in Seq(Seq(Byte)), m.rest \in Seq(Byte), m.pad \in Nat
    PROVE  /\ Left(m) \in [0 .. Len(m.packets) -> Seq(Byte)] /\ Left(m)[0] = m.rest
           /\ \A n \in 1 .. Len(m.packets) :
                  Left(m)[n] = Text(m.packets[Len(m.packets) - n + 1], m.pad) \o Left(m)[n - 1]
<1>1. PICK N \in Nat, rest \in Seq(Byte) : N = Len(m.packets) /\ rest = m.rest
  OBVIOUS
<1> DEFINE word(n) == Text(m.packets[N - n + 1], m.pad)
           onward == [n \in 1 .. N |-> [t \in Seq(Byte) |-> word(n) \o t]]
<1>2. ASSUME NEW n \in 1 .. N PROVE word(n) \in Seq(Byte)
  <2>1. N - n + 1 \in 1 .. Len(m.packets)
    BY <1>1
  <2>2. PICK p \in Seq(Byte) : p = m.packets[N - n + 1]
    BY <2>1
  <2>3. Text(p, m.pad) \in Seq(Byte)
    BY TextIs
  <2> QED
    BY <2>2, <2>3
<1> HIDE DEF word
<1>3. onward \in [1 .. N -> [Seq(Byte) -> Seq(Byte)]]
  <2>1. ASSUME NEW n \in 1 .. N, NEW t \in Seq(Byte) PROVE word(n) \o t \in Seq(Byte)
    BY <1>2, JoinedAre
  <2> QED
    BY <2>1
<1>4. PICK h \in [0 .. N -> Seq(Byte)] :
          h[0] = rest /\ \A n \in 1 .. N : h[n] = onward[n][h[n - 1]]
  <2> HIDE DEF onward
  <2>1. \E h \in [0 .. N -> Seq(Byte)] : Stepwise(h, N, rest, onward)
    BY <1>3, StepwiseExists
  <2> QED
    BY <2>1 DEF Stepwise
<1>5. ASSUME NEW n \in 1 .. N PROVE h[n] = word(n) \o h[n - 1]
  <2>1. n - 1 \in 0 .. N
    OBVIOUS
  <2>2. h[n - 1] \in Seq(Byte)
    BY <2>1
  <2>3. h[n] = onward[n][h[n - 1]]
    BY <1>4
  <2> QED
    BY <2>2, <2>3
<1> HIDE DEF onward
<1> DEFINE IsLast(f) == f = [n \in 0 .. N |-> IF n = 0 THEN rest ELSE word(n) \o f[n - 1]]
<1>6. IsLast(h)
  <2>1. ASSUME NEW n \in 0 .. N
        PROVE  h[n] = IF n = 0 THEN rest ELSE word(n) \o h[n - 1]
    <3>1. CASE n = 0
      BY <1>4, <3>1
    <3>2. CASE n # 0
      <4>1. n \in 1 .. N
        BY <3>2
      <4> QED
        BY <1>5, <3>2, <4>1
    <3> QED
      BY <3>1, <3>2
  <2> QED
    BY <2>1
<1>7. Left(m) = CHOOSE f : IsLast(f)
  BY <1>1 DEF Left, word
<1>8. PICK f : f = Left(m) /\ f = [n \in 0 .. N |-> IF n = 0 THEN rest ELSE word(n) \o f[n - 1]]
  <2>1. IsLast(Left(m))
    <3> HIDE DEF IsLast
    <3> QED
      BY <1>6, <1>7
  <2> QED
    BY <2>1
<1>9. f[0] = rest /\ \A n \in 1 .. N : f[n] = word(n) \o f[n - 1]
  <2>1. \A n \in 0 .. N : f[n] = IF n = 0 THEN rest ELSE word(n) \o f[n - 1]
    BY <1>8
  <2>2. 0 \in 0 .. N /\ \A n \in 1 .. N : n \in 0 .. N /\ n # 0
    OBVIOUS
  <2> QED
    BY <2>1, <2>2
<1>10. \A n \in 0 .. N : f[n] \in Seq(Byte)
  <2> DEFINE A == {n \in Nat : n <= N => f[n] \in Seq(Byte)}
  <2>1. 0 \in A
    BY <1>9
  <2>2. ASSUME NEW n \in Nat, n \in A PROVE n + 1 \in A
    <3> SUFFICES ASSUME n + 1 <= N PROVE f[n + 1] \in Seq(Byte)
      OBVIOUS
    <3>1. n + 1 \in 1 .. N /\ (n + 1) - 1 = n
      OBVIOUS
    <3>2. f[n + 1] = word(n + 1) \o f[n] /\ word(n + 1) \in Seq(Byte)
      BY <1>2, <1>9, <3>1
    <3>3. f[n] \in Seq(Byte)
      BY <2>2
    <3> QED
      BY <3>2, <3>3, JoinedAre
  <2> HIDE DEF A
  <2>3. Nat \subseteq A
    BY <2>1, <2>2, Induction
  <2> QED
    BY <2>3 DEF A
<1>11. f \in [0 .. N -> Seq(Byte)]
  BY <1>8, <1>10
<1> QED
  BY <1>1, <1>8, <1>9, <1>11 DEF word

\* How many of the packets are requests, up to the first that is none.
LEMMA AskedIs ==
    ASSUME NEW m, m.packets \in Seq(Seq(Byte))
    PROVE  /\ Asked(m) \in 0 .. Len(m.packets)
           /\ \A i \in 1 .. Asked(m) : Request(m.packets[i])
           /\ Asked(m) = Len(m.packets) \/ ~Request(m.packets[Asked(m) + 1])
<1>1. PICK N \in Nat : N = Len(m.packets)
  OBVIOUS
<1> DEFINE T == {n \in 0 .. N : n = N \/ ~Request(m.packets[n + 1])}
<1>2. T \subseteq Nat /\ N \in T
  OBVIOUS
<1>3. PICK k \in T : \A n \in T : k <= n
  <2>1. T # {}
    BY <1>2
  <2> HIDE DEF T
  <2> QED
    BY <1>2, <2>1, LeastElement
<1>4. ASSUME NEW i \in 1 .. k PROVE Request(m.packets[i])
  <2>1. i - 1 \in 0 .. N /\ i - 1 # N /\ (i - 1) + 1 = i /\ ~(k <= i - 1)
    OBVIOUS
  <2>2. i - 1 \notin T
    BY <1>3, <2>1
  <2> QED
    BY <2>1, <2>2
<1>5. \E n \in 0 .. N : /\ \A i \in 1 .. n : Request(m.packets[i])
                        /\ n = N \/ ~Request(m.packets[n + 1])
  BY <1>4
<1> QED
  BY <1>1, <1>5 DEF Asked

\* An answer is bytes.
LEMMA AnswerIs ==
    ASSUME NEW p \in Seq(Byte), NEW json \in Seq(Byte) PROVE Answer(p, json) \in Seq(Byte)
<1>1. <<0>> \in Seq(Byte)
  <2>1. 0 \in Byte
    BY BytesAre, BaseIs
  <2> QED
    BY <2>1
<1>2. PICK t \in Seq(Byte) : t = Text(json, 0)
  BY TextIs
<1>3. PICK b \in Seq(Byte) : b = IF p = <<0>> THEN <<0>> \o Text(json, 0) ELSE p
  <2>1. <<0>> \o t \in Seq(Byte)
    BY <1>1, JoinedAre
  <2> QED
    BY <1>2, <2>1
<1>4. Text(b, 0) \in Seq(Byte)
  BY TextIs
<1> QED
  BY <1>3, <1>4 DEF Answer

\* The answers to the first requests, one behind the other.
LEMMA ToldIs ==
    ASSUME NEW m, m.packets \in Seq(Seq(Byte)), NEW json \in [1 .. Asked(m) -> Motds]
    PROVE  /\ Told(m, json) \in [0 .. Asked(m) -> Seq(Byte)] /\ Told(m, json)[0] = <<>>
           /\ \A n \in 1 .. Asked(m) :
                  /\ Told(m, json)[n] = Told(m, json)[n - 1] \o Answer(m.packets[n], json[n])
                  /\ Answer(m.packets[n], json[n]) \in Seq(Byte)
<1>1. PICK N \in Nat : N = Asked(m) /\ N <= Len(m.packets)
  BY AskedIs
<1> DEFINE word(n) == Answer(m.packets[n], json[n])
           onward == [n \in 1 .. N |-> [t \in Seq(Byte) |-> t \o word(n)]]
<1>2. ASSUME NEW n \in 1 .. N PROVE word(n) \in Seq(Byte)
  <2>1. n \in 1 .. Len(m.packets) /\ json[n] \in Motds
    <3>1. n \in 1 .. Asked(m) /\ Len(m.packets) \in Nat
      BY <1>1
    <3>2. n <= Len(m.packets)
      BY <1>1, <3>1
    <3> QED
      BY <3>1, <3>2
  <2>2. PICK p \in Seq(Byte) : p = m.packets[n]
    BY <2>1
  <2>3. PICK j \in Seq(Byte) : j = json[n]
    BY <2>1, ConstantsAre
  <2>4. Answer(p, j) \in Seq(Byte)
    BY AnswerIs
  <2> QED
    BY <2>2, <2>3, <2>4
<1> HIDE DEF word
<1>3. onward \in [1 .. N -> [Seq(Byte) -> Seq(Byte)]]
  <2>1. ASSUME NEW n \in 1 .. N, NEW t \in Seq(Byte) PROVE t \o word(n) \in Seq(Byte)
    BY <1>2, JoinedAre
  <2> QED
    BY <2>1
<1>4. PICK h \in [0 .. N -> Seq(Byte)] :
          h[0] = <<>> /\ \A n \in 1 .. N : h[n] = onward[n][h[n - 1]]
  <2> HIDE DEF onward
  <2>1. \E h \in [0 .. N -> Seq(Byte)] : Stepwise(h, N, <<>>, onward)
    <3>1. <<>> \in Seq(Byte)
      OBVIOUS
    <3> QED
      BY <1>3, <3>1, StepwiseExists
  <2> QED
    BY <2>1 DEF Stepwise
<1>5. ASSUME NEW n \in 1 .. N PROVE h[n] = h[n - 1] \o word(n)
  <2>1. n - 1 \in 0 .. N
    OBVIOUS
  <2>2. h[n - 1] \in Seq(Byte)
    BY <2>1
  <2>3. h[n] = onward[n][h[n - 1]]
    BY <1>4
  <2> QED
    BY <2>2, <2>3
<1> HIDE DEF onward
<1> DEFINE IsUpto(f) == f = [n \in 0 .. N |-> IF n = 0 THEN <<>> ELSE f[n - 1] \o word(n)]
<1>6. IsUpto(h)
  <2>1. ASSUME NEW n \in 0 .. N
        PROVE  h[n] = IF n = 0 THEN <<>> ELSE h[n - 1] \o word(n)
    <3>1. CASE n = 0
      BY <1>4, <3>1
    <3>2. CASE n # 0
      <4>1. n \in 1 .. N
        BY <3>2
      <4> QED
        BY <1>5, <3>2, <4>1
    <3> QED
      BY <3>1, <3>2
  <2> QED
    BY <2>1
<1>7. Told(m, json) = CHOOSE f : IsUpto(f)
  BY <1>1 DEF Told, word
<1>8. PICK f : f = Told(m, json)
               /\ f = [n \in 0 .. N |-> IF n = 0 THEN <<>> ELSE f[n - 1] \o word(n)]
  <2>1. IsUpto(Told(m, json))
    <3> HIDE DEF IsUpto
    <3> QED
      BY <1>6, <1>7
  <2> QED
    BY <2>1
<1>9. f[0] = <<>> /\ \A n \in 1 .. N : f[n] = f[n - 1] \o word(n)
  <2>1. \A n \in 0 .. N : f[n] = IF n = 0 THEN <<>> ELSE f[n - 1] \o word(n)
    BY <1>8
  <2>2. 0 \in 0 .. N /\ \A n \in 1 .. N : n \in 0 .. N /\ n # 0
    OBVIOUS
  <2> QED
    BY <2>1, <2>2
<1>10. \A n \in 0 .. N : f[n] \in Seq(Byte)
  <2> DEFINE A == {n \in Nat : n <= N => f[n] \in Seq(Byte)}
  <2>1. 0 \in A
    <3>1. f[0] \in Seq(Byte)
      <4>1. <<>> \in Seq(Byte)
        OBVIOUS
      <4> QED
        BY <1>9, <4>1
    <3> QED
      BY <3>1
  <2>2. ASSUME NEW n \in Nat, n \in A PROVE n + 1 \in A
    <3> SUFFICES ASSUME n + 1 <= N PROVE f[n + 1] \in Seq(Byte)
      OBVIOUS
    <3>1. n + 1 \in 1 .. N /\ (n + 1) - 1 = n
      OBVIOUS
    <3>2. f[n + 1] = f[n] \o word(n + 1) /\ word(n + 1) \in Seq(Byte)
      BY <1>2, <1>9, <3>1
    <3>3. f[n] \in Seq(Byte)
      BY <2>2
    <3> QED
      BY <3>2, <3>3, JoinedAre
  <2> HIDE DEF A
  <2>3. Nat \subseteq A
    BY <2>1, <2>2, Induction
  <2> QED
    BY <2>3 DEF A
<1>11. f \in [0 .. N -> Seq(Byte)]
  BY <1>8, <1>10
<1> QED
  BY <1>1, <1>2, <1>8, <1>9, <1>11 DEF word

\* More answers begin with fewer.
LEMMA ToldGrows ==
    ASSUME NEW m, m.packets \in Seq(Seq(Byte)), NEW json \in [1 .. Asked(m) -> Motds],
           NEW k \in 0 .. Asked(m)
    PROVE  IsStart(Told(m, json)[k], Told(m, json)[Asked(m)])
<1>1. PICK N \in Nat : N = Asked(m)
  BY AskedIs
<1>2. PICK f \in [0 .. N -> Seq(Byte)] : f = Told(m, json)
  BY <1>1, ToldIs
<1>3. ASSUME NEW n \in 1 .. N PROVE \E a \in Seq(Byte) : f[n] = f[n - 1] \o a
  BY <1>1, <1>2, ToldIs
<1> DEFINE A == {n \in Nat : k <= n /\ n <= N => IsStart(f[k], f[n])}
<1>4. \A n \in 0 .. N : f[n] \in Seq(Byte)
  OBVIOUS
<1>5. k \in 0 .. N
  BY <1>1
<1>6. 0 \in A
  <2>1. IsStart(f[k], f[k])
    BY <1>4, <1>5, Starts
  <2> QED
    BY <1>5, <2>1
<1>7. ASSUME NEW n \in Nat, n \in A PROVE n + 1 \in A
  <2> SUFFICES ASSUME k <= n + 1, n + 1 <= N PROVE IsStart(f[k], f[n + 1])
    OBVIOUS
  <2>1. n + 1 \in 1 .. N /\ n \in 0 .. N /\ n + 1 \in 0 .. N /\ (n + 1) - 1 = n
    OBVIOUS
  <2>2. CASE k = n + 1
    BY <1>4, <1>5, <2>2, Starts
  <2>3. CASE k # n + 1
    <3>1. IsStart(f[k], f[n])
      BY <1>5, <1>7, <2>3
    <3>2. PICK a \in Seq(Byte) : f[n + 1] = f[n] \o a
      BY <1>3, <2>1
    <3> QED
      BY <1>4, <1>5, <2>1, <3>1, <3>2, StartOfMore
  <2> QED
    BY <2>2, <2>3
<1> HIDE DEF A
<1>8. Nat \subseteq A
  BY <1>6, <1>7, Induction
<1>9. N \in A /\ k <= N /\ N <= N
  BY <1>5, <1>8
<1>10. IsStart(f[k], f[N])
  BY <1>9 DEF A
<1> QED
  BY <1>1, <1>2, <1>10

\* The motds of later answers do not matter.
LEMMA ToldAgrees ==
    ASSUME NEW m, m.packets \in Seq(Seq(Byte)), NEW n \in 0 .. Asked(m),
           NEW j1 \in [1 .. Asked(m) -> Motds], NEW j2 \in [1 .. Asked(m) -> Motds],
           \A i \in 1 .. n : j1[i] = j2[i]
    PROVE  Told(m, j1)[n] = Told(m, j2)[n]
<1>1. PICK N \in Nat : N = Asked(m)
  BY AskedIs
<1> DEFINE A == {k \in Nat : k <= n => Told(m, j1)[k] = Told(m, j2)[k]}
<1>2. 0 \in A
  BY ToldIs
<1>3. ASSUME NEW k \in Nat, k \in A PROVE k + 1 \in A
  <2> SUFFICES ASSUME k + 1 <= n PROVE Told(m, j1)[k + 1] = Told(m, j2)[k + 1]
    OBVIOUS
  <2>1. k + 1 \in 1 .. Asked(m) /\ k + 1 \in 1 .. n /\ (k + 1) - 1 = k
    BY <1>1
  <2>2. Told(m, j1)[k + 1] = Told(m, j1)[k] \o Answer(m.packets[k + 1], j1[k + 1])
    BY <2>1, ToldIs
  <2>3. Told(m, j2)[k + 1] = Told(m, j2)[k] \o Answer(m.packets[k + 1], j2[k + 1])
    BY <2>1, ToldIs
  <2>4. j1[k + 1] = j2[k + 1] /\ Told(m, j1)[k] = Told(m, j2)[k]
    BY <1>3, <2>1
  <2> QED
    BY <2>2, <2>3, <2>4
<1> HIDE DEF A
<1>4. Nat \subseteq A
  BY <1>2, <1>3, Induction
<1>5. n \in A /\ n <= n
  BY <1>1, <1>4
<1> QED
  BY <1>5 DEF A

-----------------------------------------------------------------------------
(* A request has one answer. *)

\* The ids are one byte.
LEMMA IdIs ==
    ASSUME NEW n \in {0, 1}
    PROVE  /\ ToVarint(n) = <<n>> /\ <<n>> \in Seq(Byte) /\ ReadsAs(<<n>>, n)
           /\ Signed(n, IntWidth) = n
<1>1. n \in Nat /\ n < Base
  BY BaseIs
<1>2. ASSUME NEW w \in Nat, w > 1 PROVE n \in 0 .. 2^(w - 1) - 1
  <2>1. w - 2 \in Nat /\ (w - 2) + 1 = w - 1
    BY <1>2
  <2>2. 2^(w - 2) \in Nat /\ 2^(w - 2) >= 1
    BY <2>1, PowerIsNat
  <2>3. 2^((w - 2) + 1) = 2 * 2^(w - 2)
    BY <2>1, PowerDoubles
  <2>4. 2^(w - 1) = 2 * 2^(w - 2)
    BY <2>1, <2>3
  <2> QED
    BY <2>2, <2>4
<1>3. n \in Short
  BY <1>2, SizesAre, ClientsAssumption DEF Short
<1>4. ToVarint(n) = <<n>>
  BY <1>1, VarintUnfolds
<1>5. <<n>> \in Seq(Byte)
  <2>1. n \in Byte
    BY <1>1, BytesAre, BaseIs
  <2> QED
    BY <2>1
<1>6. ReadsAs(<<n>>, n)
  BY <1>3, <1>4, VarintsReadBack DEF ReadsAs
<1>7. Signed(n, IntWidth) = n
  <2>1. n \in 0 .. 2^(IntWidth - 1) - 1
    BY <1>2, SizesAre, ClientsAssumption
  <2> QED
    BY <2>1, SizesAre, SignedIs
<1> QED
  BY <1>4, <1>5, <1>6, <1>7

\* What GetID gives of a packet with such an id does not hang on what is behind it.
LEMMA GetIDIs ==
    ASSUME NEW n \in {0, 1}, NEW t \in Seq(Byte) PROVE GetID(<<n>> \o t) = {n}
<1>1. PICK z \in Seq(Byte) : z = <<n>> /\ ReadsAs(z, n)
  BY IdIs
<1>2. ASSUME NEW b \in 0 .. 2^Group - 1
      PROVE  LET id == ReadVarint((z \o t) \o <<b>>)
             IN  Signed(IF id.ok THEN id.value ELSE Len(z \o t), IntWidth) = n
  <2>1. <<b>> \in Seq(Byte)
    <3>1. b \in Byte
      BY BytesAre, BaseIs DEF Base
    <3> QED
      BY <3>1
  <2>2. PICK c \in Seq(Byte) : c = <<b>>
    BY <2>1
  <2>3. t \o c \in Seq(Byte)
    BY JoinedAre
  <2>4. (z \o t) \o c = z \o (t \o c)
    <3>1. Cat(Cat(z, t), c) = Cat(z, Cat(t, c))
      BY CatIs
    <3> QED
      BY <3>1 DEF Cat
  <2>5. ReadVarint(z \o (t \o c)) = [ok |-> TRUE, value |-> n, rest |-> t \o c]
    BY <1>1, <2>3 DEF ReadsAs
  <2>6. ReadVarint((z \o t) \o <<b>>).ok /\ ReadVarint((z \o t) \o <<b>>).value = n
    <3>1. (z \o t) \o <<b>> = z \o (t \o c)
      BY <2>2, <2>4
    <3>2. PICK s : s = (z \o t) \o <<b>> /\ s = z \o (t \o c)
      BY <3>1
    <3>3. ReadVarint(s) = [ok |-> TRUE, value |-> n, rest |-> t \o c]
      BY <2>5, <3>2
    <3>4. ReadVarint(s).ok /\ ReadVarint(s).value = n
      BY <3>3
    <3> QED
      BY <3>2, <3>4
  <2> QED
    BY <2>6, IdIs
<1>3. 0 \in 0 .. 2^Group - 1
  BY BaseIs DEF Base
<1>4. GetID(z \o t) = {n}
  BY <1>2, <1>3 DEF GetID
<1> QED
  BY <1>1, <1>4

\* The answer is the one that the protocol has for the request.
LEMMA AnswerOf ==
    ASSUME NEW p \in Seq(Byte), Request(p), NEW x \in Seq(Byte)
    PROVE  Answers(p, x) = {Answer(p, x)}
<1>1. CASE p = <<0>>
  <2>1. PICK z \in Seq(Byte) : z = <<0>> /\ z = ToVarint(0)
    BY IdIs
  <2>2. GetID(z \o <<>>) = {0}
    <3>1. <<>> \in Seq(Byte)
      OBVIOUS
    <3> QED
      BY <2>1, <3>1, GetIDIs
  <2>3. GetID(p) = {0}
    <3>1. z \o <<>> = z
      OBVIOUS
    <3> QED
      BY <1>1, <2>1, <2>2, <3>1
  <2>4. PICK f \in Seq(Byte) : f = Frame(x) /\ f = Text(x, 0)
    BY FrameIs, TextOfFrame
  <2>5. PICK b \in Seq(Byte) : b = z \o f
    BY JoinedAre
  <2>6. StatusResponse(x) = Frame(b) /\ Answer(p, x) = Text(b, 0)
    BY <1>1, <2>1, <2>4, <2>5 DEF StatusResponse, Answer
  <2>7. Frame(b) = Text(b, 0)
    BY TextOfFrame
  <2>8. Answers(p, x) = {StatusResponse(x)}
    BY <2>3 DEF Answers
  <2> QED
    BY <2>6, <2>7, <2>8
<1>2. CASE p # <<0>>
  <2>1. Len(p) = 1 + PayloadSize /\ p[1] = 1 /\ 1 \in 0 .. Len(p)
    BY <1>2, SizesAre DEF Request
  <2>2. PICK z \in Seq(Byte) : z = <<1>> /\ z = ToVarint(1) /\ ReadsAs(z, 1)
    BY IdIs
  <2>3. PICK t \in Seq(Byte) : t = Drop(p, 1) /\ Len(t) = PayloadSize
    <3>1. Drop(p, 1) \in Seq(Byte) /\ Len(Drop(p, 1)) = Len(p) - 1
      BY <2>1, EndsAre
    <3> QED
      BY <2>1, <3>1, SizesAre
  <2>4. p = z \o t
    <3>1. p = SubSeq(p, 1, 1) \o Drop(p, 1)
      BY <2>1, EndsAre
    <3>2. SubSeq(p, 1, 1) = z
      <4>1. PICK h \in Seq(Byte) : h = SubSeq(p, 1, 1) /\ Len(h) = 1 /\ h[1] = p[1]
        <5>1. /\ SubSeq(p, 1, 1) \in Seq(Byte) /\ Len(SubSeq(p, 1, 1)) = 1
              /\ \A i \in 1 .. 1 : SubSeq(p, 1, 1)[i] = p[i]
          BY <2>1, EndsAre
        <5>2. 1 \in 1 .. 1
          OBVIOUS
        <5> QED
          BY <5>1, <5>2
      <4>2. Len(h) = Len(z) /\ \A i \in 1 .. Len(h) : h[i] = z[i]
        BY <2>1, <2>2, <4>1
      <4> QED
        BY <4>1, <4>2, SeqEqual
    <3> QED
      BY <2>3, <3>1, <3>2
  <2>5. GetID(p) = {1}
    BY <2>2, <2>4, GetIDIs
  <2>6. ReadVarint(p) = [ok |-> TRUE, value |-> 1, rest |-> t]
    <3>1. ReadVarint(z \o t) = [ok |-> TRUE, value |-> 1, rest |-> t]
      BY <2>2 DEF ReadsAs
    <3> QED
      BY <2>4, <3>1
  <2>7. ParsePing(p).ok /\ ParsePing(p).payload = t
    <3>1. PICK id : id = ReadVarint(p)
      OBVIOUS
    <3>2. id.ok /\ id.value = 1 /\ id.rest = t
      BY <2>6, <3>1
    <3>3. /\ ParsePing(p).ok <=> (id.ok => id.value = 1) /\ Len(id.rest) >= PayloadSize
          /\ ParsePing(p).payload = Take(id.rest, PayloadSize)
      BY <3>1 DEF ParsePing
    <3>4. Len(t) >= PayloadSize
      BY <2>3, SizesAre
    <3>5. Take(t, PayloadSize) = t
      BY <2>3 DEF Take
    <3> QED
      BY <3>2, <3>3, <3>4, <3>5
  <2>8. Pong(t) = Frame(p) /\ Frame(p) = Text(p, 0) /\ Answer(p, x) = Text(p, 0)
    BY <1>2, <2>2, <2>4, TextOfFrame DEF Pong, Answer
  <2>9. Answers(p, x) = {Pong(ParsePing(p).payload)}
    BY <2>5, <2>7 DEF Answers
  <2> QED
    BY <2>7, <2>8, <2>9
<1> QED
  BY <1>1, <1>2

\* Whatever is answered is bytes.
LEMMA AnsweredBytes ==
    ASSUME NEW p \in Seq(Byte), NEW x \in Seq(Byte), NEW s \in Answers(p, x)
    PROVE  s \in Seq(Byte)
  BY ParsePingIs, AnswersAre DEF Answers

-----------------------------------------------------------------------------
(* What the clients have to say. *)

\* The fields of a message, and what is read of its version.
LEMMA MessageIs ==
    ASSUME NEW m \in Messages
    PROVE  /\ m.next \in Number /\ m.host \in Seq(Byte) /\ m.forge \in Seq(Byte)
           /\ m.name \in Seq(Byte) /\ m.uuid \in Seq(Byte) /\ m.rest \in Seq(Byte)
           /\ m.packets \in Seq(Seq(Byte)) /\ Fits(m.pad)
           /\ ReadsAs(Digits(m.version, m.pad), m.version)
           /\ Digits(m.version, m.pad) \in Seq(Byte)
           /\ Len(Opening(m, m.host \o m.forge, <<3, 0>>, m.pad)) \in Number
           /\ \A i \in 1 .. Len(m.packets) : Len(m.packets[i]) \in Number
           /\ Suffix(m.host \o m.forge) = m.forge
<1>1. m \in Message /\ m \in Messages
  BY ClientsAssumption
<1>2. /\ m.next \in Number /\ m.host \in Seq(Byte) /\ m.forge \in Seq(Byte)
      /\ m.name \in Seq(Byte) /\ m.uuid \in Seq(Byte) /\ m.rest \in Seq(Byte)
      /\ m.packets \in Seq(Seq(Byte)) /\ m.pad \in Nat /\ m.version \in Int
  BY <1>1 DEF Message
<1>3. /\ m.version \in -(2^(Width - 1)) .. 2^(Width - 1) - 1
      /\ m.pad < MaxVarint /\ Width - 1 <= Group * (MaxVarint - m.pad)
      /\ m.version < 0 => Width <= Group * (MaxVarint - m.pad)
      /\ Len(Opening(m, m.host \o m.forge, <<3, 0>>, m.pad)) \in Number
      /\ \A i \in 1 .. Len(m.packets) : Len(m.packets[i]) \in Number
      /\ \A i \in 1 .. Len(m.host) : m.host[i] # 0
      /\ m.forge # <<>> => m.forge[1] = 0
  BY ClientsAssumption DEF Unmarked
<1>4. Fits(m.pad)
  BY <1>2, <1>3 DEF Fits
<1>5. ReadsAs(Digits(m.version, m.pad), m.version)
      /\ Digits(m.version, m.pad) \in Seq(Byte)
  <2>1. PICK h \in Nat : h = 2^(Width - 1)
    <3>1. Width - 1 \in Nat
      BY SizesAre
    <3> QED
      BY <3>1, PowerIsNat
  <2>2. CASE m.version < 0
    <3>1. m.version \in -(2^(Width - 1)) .. -1
      BY <1>2, <1>3, <2>1, <2>2
    <3> QED
      BY <1>2, <1>3, <2>2, <3>1, DigitsReadBack
  <2>3. CASE ~(m.version < 0)
    <3>1. m.version \in Number
      BY <1>2, <1>3, <2>1, <2>3 DEF Number
    <3> QED
      BY <1>4, <3>1, NumberReadsBack
  <2> QED
    BY <2>2, <2>3
<1>6. Suffix(m.host \o m.forge) = m.forge
  BY <1>2, <1>3, SuffixOf
<1> QED
  BY <1>2, <1>3, <1>4, <1>5, <1>6

\* The handshake is the first packet, and is read as it is meant.
LEMMA WireIs ==
    ASSUME NEW m \in Messages
    PROVE  /\ Wire(m) \in Seq(Byte) /\ Behind(Wire(m)) = Left(m)[Len(m.packets)]
           /\ ParsedAs(First(Wire(m)), m.version, m.host \o m.forge, <<3, 0>>, m.next)
<1>1. PICK p \in Seq(Byte) : p = <<3, 0>> /\ Len(p) = 2
  <2>1. 3 \in Byte /\ 0 \in Byte
    BY BytesAre, BaseIs
  <2>2. <<3, 0>> \in Seq(Byte) /\ Len(<<3, 0>>) = 2
    BY <2>1
  <2> QED
    BY <2>2
<1>2. PICK a \in Seq(Byte) : a = m.host \o m.forge
  BY MessageIs, JoinedAre
<1>3. PICK o \in Seq(Byte) : o = Opening(m, a, p, m.pad) /\ Len(o) \in Number
                             /\ ParsedAs(o, m.version, a, p, m.next)
  <2>1. Len(Opening(m, a, p, m.pad)) \in Number
    BY <1>1, <1>2, MessageIs
  <2> QED
    BY <1>1, <2>1, MessageIs, OpeningIs
<1>4. PICK w \in Seq(Byte) : w = Text(o, m.pad) /\ Heads(w, o)
  <2>1. Fits(m.pad) /\ m.pad \in Nat
    BY MessageIs DEF Fits
  <2> QED
    BY <1>3, <2>1, TextIs
<1>5. PICK l \in Seq(Byte) : l = Left(m)[Len(m.packets)]
  <2>1. m.packets \in Seq(Seq(Byte)) /\ m.rest \in Seq(Byte) /\ m.pad \in Nat
    BY MessageIs DEF Fits
  <2>2. Len(m.packets) \in 0 .. Len(m.packets)
    BY <2>1
  <2> QED
    BY <2>1, <2>2, LeftIs
<1>6. Wire(m) = w \o l
  BY <1>1, <1>2, <1>3, <1>4, <1>5 DEF Wire
<1>7. w \o l \in Seq(Byte) /\ First(w \o l) = o /\ Behind(w \o l) = l
  BY <1>4, JoinedAre DEF Heads
<1> QED
  BY <1>1, <1>2, <1>3, <1>5, <1>6, <1>7

\* Then its packets follow, and what comes behind them.
LEMMA LeftHeads ==
    ASSUME NEW m \in Messages
    PROVE  /\ Left(m)[0] = m.rest
           /\ \A n \in 1 .. Len(m.packets) :
                  /\ First(Left(m)[n]) = m.packets[Len(m.packets) - n + 1]
                  /\ Behind(Left(m)[n]) = Left(m)[n - 1]
<1>1. /\ m.packets \in Seq(Seq(Byte)) /\ m.rest \in Seq(Byte) /\ m.pad \in Nat
      /\ Fits(m.pad)
  BY MessageIs DEF Fits
<1>2. PICK N \in Nat : N = Len(m.packets)
  BY <1>1
<1>3. ASSUME NEW n \in 1 .. N
      PROVE  First(Left(m)[n]) = m.packets[N - n + 1] /\ Behind(Left(m)[n]) = Left(m)[n - 1]
  <2>1. N - n + 1 \in 1 .. Len(m.packets) /\ n - 1 \in 0 .. Len(m.packets)
    BY <1>2
  <2>2. PICK p \in Seq(Byte) : p = m.packets[N - n + 1] /\ Len(p) \in Number
    <3>1. PICK i \in 1 .. Len(m.packets) : i = N - n + 1
      BY <2>1
    <3>2. m.packets[i] \in Seq(Byte)
      BY <1>1
    <3>3. Len(m.packets[i]) \in Number
      BY MessageIs
    <3> QED
      BY <3>1, <3>2, <3>3
  <2>3. PICK l \in Seq(Byte) : l = Left(m)[n - 1]
    BY <1>1, <2>1, LeftIs
  <2>4. PICK w \in Seq(Byte) : w = Text(p, m.pad) /\ Heads(w, p)
    BY <1>1, <2>2, TextIs
  <2>5. Left(m)[n] = w \o l
    BY <1>1, <1>2, <2>2, <2>3, <2>4, LeftIs
  <2>6. First(w \o l) = p /\ Behind(w \o l) = l
    BY <2>4 DEF Heads
  <2> QED
    BY <2>2, <2>3, <2>5, <2>6
<1> QED
  BY <1>1, <1>2, <1>3, LeftIs

-----------------------------------------------------------------------------
(* Who wants to play. *)

\* A client that wants the status is not let on.
Stated ==
    pc \in {"gate", "login", "accepted", "connect"} \cup Online \/ served # <<>> =>
        handshake_data_pack.next_state # 1

\* Nobody else is written to or let on.
LEMMA StatedStays ==
    ASSUME Stated, handshake_data_pack' = handshake_data_pack,
           \/ pc' = pc \/ pc' = "done"
           \/ pc \in {"gate", "login", "accepted", "connect"} \cup Online,
           \/ served' = served
           \/ pc \in Online
    PROVE  Stated'
  BY DEF Stated, Online

\* Every step keeps it so.
LEMMA StatedStep ==
    ASSUME TypeOK, Copying, Stated, [Next]_vars PROVE Stated'
<1>1. CASE TakeHandshake
  <2>1. /\ pc = "handshake" /\ served' = served
        /\ pc' = IF handshake_data_pack'.next_state = 1 THEN "status" ELSE "gate"
    BY <1>1 DEF TakeHandshake, Goto, bytes
  <2>2. served = <<>>
    BY <2>1 DEF Copying, Online
  <2> QED
    BY <2>1, <2>2 DEF Stated, Online
<1>2. CASE StatusRequest \/ PingRequest
  <2>1. /\ pc' = pc /\ served' = served /\ handshake_data_pack' = handshake_data_pack
    BY <1>2 DEF StatusRequest, PingRequest, Goto, Send, parsed
  <2> QED
    BY <2>1, StatedStays
<1>3. CASE UNCHANGED vars \/ ReadMore \/ TableCall \/ Speak \/ Kick
           \/ \E d \in Sides, how \in {"closed", "reset"} : HangUp(d, how)
  <2>1. /\ pc' = pc /\ served' = served /\ handshake_data_pack' = handshake_data_pack
    BY <1>3, TableCallIs DEF ReadMore, Speak, Kick, HangUp, vars, session, bytes, parsed
  <2> QED
    BY <2>1, StatedStays
<1>4. ASSUME NEW d \in Sides,
             WriteSome(d) \/ WriteLost(d) \/ WriteThrows(d) \/ ReadEnds(d)
      PROVE  Stated'
  <2>1. handshake_data_pack' = handshake_data_pack /\ (pc' = pc \/ pc' = "done")
    BY <1>4 DEF WriteSome, WriteLost, WriteThrows, ReadEnds, parsed
  <2>2. pc \in Online
    BY <1>4 DEF WriteSome, WriteLost, WriteThrows, ReadEnds, Writing, Copying, Online
  <2> QED
    BY <2>1, <2>2, StatedStays
<1>5. CASE ReadClient \/ LoginGate \/ TakeLogin \/ PacketThrows \/ Route \/ Connected
           \/ Refuse \/ IoThrows \/ GreetLogin \/ Forward \/ StartThrows \/ ReadServer
           \/ Finish
  <2>1. served' = served /\ handshake_data_pack' = handshake_data_pack
    BY <1>5 DEF ReadClient, LoginGate, TakeLogin, PacketThrows, Route, Connected, Refuse,
       IoThrows, GreetLogin, Forward, StartThrows, ReadServer, Finish, Goto, Send, bytes,
       parsed
  <2>2. \/ pc' = "done"
        \/ pc \in {"gate", "login", "accepted", "connect"} \cup Online
    BY <1>5 DEF ReadClient, LoginGate, TakeLogin, PacketThrows, Route, Connected, Refuse,
       IoThrows, GreetLogin, Forward, StartThrows, ReadServer, Finish, Goto, Online
  <2> QED
    BY <2>1, <2>2, StatedStays
<1> QED
  BY <1>1, <1>2, <1>3, <1>4, <1>5 DEF Next, Hear, Serve, World

\* A client that is let on has not asked for the status.
LEMMA AlwaysStated == Spec => []Stated
<1>1. Init => Stated
  BY DEF Init, Stated, Online
<1>2. Inv /\ Stated /\ [Next]_vars => Stated'
  BY StatedStep DEF Inv
<1> QED
  BY <1>1, <1>2, Always, PTL DEF Spec

\* m is what s means, and its handshake was let in.
Means(m, s) ==
    /\ m \in Messages /\ s = Wire(m) /\ s \in DOMAIN Meaning /\ m = Meaning[s]
    /\ ParseHandshake(First(s)) =
           [ok |-> TRUE, protocol_version |-> m.version,
            server_address |-> m.host \o m.forge, server_port |-> <<3, 0>>,
            next_state |-> m.next]
    /\ m.next \in {1, 2}

\* What is no junk means something.
LEMMA MeaningIs ==
    ASSUME NEW s \in DOMAIN Meaning
    PROVE  Meaning[s] \in Messages /\ s = Wire(Meaning[s])
<1>1. PICK m \in Messages : s = Wire(m)
  BY DEF Meaning
<1>2. Meaning[s] = CHOOSE x \in Messages : Wire(x) = s
  BY DEF Meaning
<1> QED
  BY <1>1, <1>2

\* A handshake that is let in is a message's.
LEMMA LetIn ==
    ASSUME NEW s \in Streams, ParseHandshake(First(s)).ok PROVE Means(Meaning[s], s)
<1>1. s \in Seq(Byte) /\ s \in {Wire(m) : m \in Messages} \cup Junk
  BY ConstantsAre, ClientsAssumption
<1>2. s \notin Junk
  BY <1>1, JunkIs
<1>3. s \in DOMAIN Meaning
  BY <1>1, <1>2 DEF Meaning
<1>4. PICK m \in Messages : m = Meaning[s] /\ s = Wire(m)
  BY <1>3, MeaningIs
<1>5. ParsedAs(First(s), m.version, m.host \o m.forge, <<3, 0>>, m.next)
  BY <1>4, WireIs
<1> QED
  BY <1>3, <1>4, <1>5 DEF ParsedAs, Means

\* A client that is let on says a login: one that is meant, or one of a version
\* that no server has.
LEMMA PlayIs ==
    ASSUME NEW s \in Streams, NEW m, m = Meaning[s], Means(m, s), m.next # 1,
           ParseLogin(First(Behind(s))).ok
    PROVE  /\ m \in Logins \/ m.version < 0
           /\ m.next = 2 /\ m.packets = <<LoginStart(m)>>
           /\ First(Behind(s)) = LoginStart(m) /\ Behind(Behind(s)) = m.rest
           /\ LoginStart(m) \in Seq(Byte)
           /\ ParseLogin(First(Behind(s))).user_name = m.name
<1>1. m \in Messages /\ s = Wire(m) /\ m.next = 2 /\ m.packets \in Seq(Seq(Byte))
  BY MessageIs DEF Means
<1>2. PICK N \in Nat : N = Len(m.packets) /\ Behind(s) = Left(m)[N]
  BY <1>1, WireIs
<1>3. ASSUME m.packets # <<>>
      PROVE  /\ First(Behind(s)) = m.packets[1] /\ m.packets[1] \in Seq(Byte)
             /\ Behind(Behind(s)) = Left(m)[N - 1] /\ Len(m.packets[1]) \in Number
  <2>1. N \in 1 .. N /\ N - N + 1 = 1 /\ 1 \in 1 .. Len(m.packets)
    <3>1. PICK ps \in Seq(Seq(Byte)) : ps = m.packets
      BY <1>1
    <3>2. Len(ps) > 0
      BY <1>3, <3>1
    <3> QED
      BY <1>2, <3>1, <3>2
  <2>2. First(Left(m)[N]) = m.packets[1] /\ Behind(Left(m)[N]) = Left(m)[N - 1]
    <3>1. \A n \in 1 .. N : /\ First(Left(m)[n]) = m.packets[N - n + 1]
                            /\ Behind(Left(m)[n]) = Left(m)[n - 1]
      BY <1>1, <1>2, LeftHeads
    <3>2. /\ First(Left(m)[N]) = m.packets[N - N + 1]
          /\ Behind(Left(m)[N]) = Left(m)[N - 1]
      BY <2>1, <3>1
    <3> QED
      BY <2>1, <3>2
  <2>3. m.packets[1] \in Seq(Byte) /\ Len(m.packets[1]) \in Number
    <3>1. m.packets[1] \in Seq(Byte)
      BY <1>1, <2>1
    <3>2. Len(m.packets[1]) \in Number
      BY <1>1, <2>1, MessageIs
    <3> QED
      BY <3>1, <3>2
  <2> QED
    BY <1>2, <2>2, <2>3
<1>4. ASSUME m.packets = <<LoginStart(m)>>
      PROVE  /\ First(Behind(s)) = LoginStart(m) /\ Behind(Behind(s)) = m.rest
             /\ LoginStart(m) \in Seq(Byte)
             /\ ParseLogin(First(Behind(s))).user_name = m.name
  <2>1. m.packets # <<>> /\ m.packets[1] = LoginStart(m) /\ N - 1 = 0
    BY <1>2, <1>4
  <2>2. Left(m)[0] = m.rest
    BY <1>1, LeftHeads
  <2>3. ParseLogin(LoginStart(m)).user_name = m.name
    <3>1. m.name \in Seq(Byte) /\ m.uuid \in Seq(Byte) /\ Fits(m.pad)
          /\ Len(LoginStart(m)) \in Number
      BY <1>1, <1>3, <2>1, MessageIs
    <3> QED
      BY <3>1, LoginStartIs
  <2> QED
    BY <1>3, <2>1, <2>2, <2>3
<1>5. ASSUME m.packets # <<>> PROVE ~NoLogin(m.packets[1])
  BY <1>3, <1>5, NoLoginIs
<1>6. m.packets = <<LoginStart(m)>> /\ (m \in Logins \/ m.version < 0)
  <2>1. CASE m \in Logins
    BY <2>1, ClientsAssumption
  <2>2. CASE m \in Pings
    BY <2>2, ClientsAssumption
  <2>3. CASE m \in Others
    BY <1>1, <1>5, <2>3, ClientsAssumption
  <2> QED
    BY <1>1, <2>1, <2>2, <2>3 DEF Messages
<1> QED
  BY <1>1, <1>4, <1>6

-----------------------------------------------------------------------------
(* Where a login goes, and what its server hears. *)

\* Sequences without a zero have none when they are joined.
LEMMA UnmarkedJoin ==
    ASSUME NEW s \in Seq(Byte), NEW t \in Seq(Byte), Unmarked(s), Unmarked(t)
    PROVE  s \o t \in Seq(Byte) /\ Unmarked(s \o t)
<1>1. PICK u \in Seq(Byte) : /\ u = s \o t /\ Len(u) = Len(s) + Len(t)
                             /\ \A i \in 1 .. Len(s) : u[i] = s[i]
                             /\ \A i \in 1 .. Len(t) : u[Len(s) + i] = t[i]
  <2>1. /\ s \o t \in Seq(Byte) /\ Len(s \o t) = Len(s) + Len(t)
        /\ \A i \in 1 .. Len(s) : (s \o t)[i] = s[i]
        /\ \A i \in 1 .. Len(t) : (s \o t)[Len(s) + i] = t[i]
    BY JoinedAre
  <2> QED
    BY <2>1
<1>2. ASSUME NEW i \in 1 .. Len(u) PROVE u[i] # 0
  <2>1. CASE i <= Len(s)
    BY <1>1, <2>1 DEF Unmarked
  <2>2. CASE i > Len(s)
    <3>1. PICK j \in 1 .. Len(t) : i = Len(s) + j
      <4>1. i - Len(s) \in 1 .. Len(t) /\ i = Len(s) + (i - Len(s))
        BY <1>1, <2>2
      <4> QED
        BY <4>1
    <3> QED
      BY <1>1, <3>1 DEF Unmarked
  <2> QED
    BY <2>1, <2>2
<1> QED
  BY <1>1, <1>2 DEF Unmarked

\* No table has a server for the address of a Forge client.
LEMMA ForgeUnmapped ==
    ASSUME TypeOK, NEW m \in Messages, m.forge # <<>>
    PROVE  HostServer(m.host \o m.forge) = {}
<1>1. /\ m.host \in Seq(Byte) /\ m.forge \in Seq(Byte) /\ m.forge[1] = 0
      /\ 1 \in 1 .. Len(m.forge)
  BY MessageIs, ClientsAssumption
<1>2. PICK a \in Seq(Byte) : /\ a = m.host \o m.forge
                             /\ a[Len(m.host) + 1] = 0 /\ Len(m.host) + 1 \in 1 .. Len(a)
  <2>1. PICK h \in Seq(Byte), f \in Seq(Byte) : h = m.host /\ f = m.forge
    BY <1>1
  <2>2. /\ h \o f \in Seq(Byte) /\ Len(h \o f) = Len(h) + Len(f)
        /\ \A i \in 1 .. Len(f) : (h \o f)[Len(h) + i] = f[i]
    BY JoinedAre
  <2>3. 1 \in 1 .. Len(f) /\ f[1] = 0 /\ Len(h) \in Nat /\ Len(f) \in Nat
    BY <1>1, <2>1
  <2>4. (h \o f)[Len(h) + 1] = 0
    BY <2>2, <2>3
  <2>5. Len(h) + 1 \in 1 .. Len(h \o f)
    BY <2>2, <2>3
  <2> QED
    BY <2>1, <2>2, <2>4, <2>5
<1>3. ~Unmarked(a)
  BY <1>2 DEF Unmarked
<1>4. ASSUME dn_proxy_map # None, NEW k \in Keys, Instance(dn_proxy_map.first, k, a)
      PROVE  FALSE
  <2>1. PICK p \in Patterns : p = dn_proxy_map.first
    BY <1>4 DEF TypeOK, Instance
  <2>2. p.before \in Seq(Byte) /\ p.after \in Seq(Byte) /\ k \in Seq(Byte)
    BY LoginPathAssumption DEF Pattern
  <2>3. Unmarked(p.before) /\ Unmarked(p.after) /\ Unmarked(k)
    BY ClientsAssumption
  <2>4. p.before \o k \in Seq(Byte) /\ Unmarked(p.before \o k)
    BY <2>2, <2>3, UnmarkedJoin
  <2>5. Unmarked((p.before \o k) \o p.after)
    BY <2>2, <2>3, <2>4, UnmarkedJoin
  <2> QED
    BY <1>3, <1>4, <2>1, <2>5 DEF Instance
<1> QED
  BY <1>2, <1>4 DEF HostServer

\* A login's way is that of its client's address, with the suffix, and name.
LEMMA LookedUp ==
    ASSUME Inv, Parsed, Stated, [Next]_vars,
           route' # route \/ (pc # "connect" /\ pc' = "connect")
    PROVE  /\ Meaning[stream] \in Messages
           /\ route' \in Wanted(Meaning[stream].host \o Meaning[stream].forge,
                                Meaning[stream].name)
<1>1. TypeOK /\ Known /\ stream \in Streams
  BY DEF Inv, TypeOK
<1>2. /\ pc = "accepted"
      /\ route' \in Wanted(ParseHandshake(First(stream)).server_address,
                           ParseLogin(First(Behind(stream))).user_name)
  BY <1>1, RouteStep
<1>3. /\ IsHandshake(handshake_data_pack)
      /\ handshake_data_pack = ParseHandshake(First(stream))
      /\ ParseLogin(First(Behind(stream))).ok
      /\ handshake_data_pack.next_state # 1
  BY <1>1, <1>2 DEF Known, Parsed, Stated, Reading, Online
<1>4. ParseHandshake(First(stream)).ok
  BY <1>3 DEF IsHandshake
<1>5. PICK x : x = Meaning[stream]
  OBVIOUS
<1>6. Means(x, stream)
  BY <1>1, <1>4, <1>5, LetIn
<1>7. x.next # 1 /\ ParseHandshake(First(stream)).server_address = x.host \o x.forge
  <2>1. ParseHandshake(First(stream)) =
            [ok |-> TRUE, protocol_version |-> x.version,
             server_address |-> x.host \o x.forge, server_port |-> <<3, 0>>,
             next_state |-> x.next]
    BY <1>6 DEF Means
  <2>2. /\ ParseHandshake(First(stream)).next_state = x.next
        /\ ParseHandshake(First(stream)).server_address = x.host \o x.forge
    <3>1. PICK h, v, a, p, n :
              /\ h = ParseHandshake(First(stream)) /\ v = x.version
              /\ a = x.host \o x.forge /\ p = <<3, 0>> /\ n = x.next
      OBVIOUS
    <3>2. h = [ok |-> TRUE, protocol_version |-> v, server_address |-> a,
               server_port |-> p, next_state |-> n]
      BY <2>1, <3>1
    <3>3. h.next_state = n /\ h.server_address = a
      BY <3>2
    <3> QED
      BY <3>1, <3>3
  <2> QED
    BY <1>3, <2>2
<1>8. ParseLogin(First(Behind(stream))).user_name = x.name
  BY <1>1, <1>3, <1>5, <1>6, <1>7, PlayIs
<1> QED
  BY <1>2, <1>5, <1>6, <1>7, <1>8 DEF Means

\* A login that is let in goes where the tables want it at that moment, whatever
\* was changed while it was read: to the player's own server, else to that of the
\* host the client dialled, else to the default; a Forge client without a server
\* of his own may go to the default in any case (the lookups between on_login and
\* the connect in HandleConnection).
THEOREM TablesFollowed == Spec => RoutedByTables
<1> DEFINE m == Meaning[stream]
           Admitted == route' # route \/ (pc # "connect" /\ pc' = "connect")
<1>1. ASSUME Inv, Parsed, Stated, [Next]_vars, Admitted
      PROVE  \/ route' \in Wanted(m.host, m.name)
             \/ m.forge # <<>> /\ OwnServer(m.name) = {} /\ route' = Default
  <2>1. m \in Messages /\ route' \in Wanted(m.host \o m.forge, m.name) /\ TypeOK
    BY <1>1, LookedUp DEF Inv
  <2>2. CASE m.forge = <<>>
    <3>1. m.host \o <<>> = m.host
      BY <2>1, MessageIs
    <3> QED
      BY <2>1, <2>2, <3>1
  <2>3. CASE m.forge # <<>>
    <3>1. HostServer(m.host \o m.forge) = {}
      BY <2>1, <2>3, ForgeUnmapped
    <3> QED
      BY <2>1, <2>3, <3>1 DEF Wanted
  <2> QED
    BY <2>2, <2>3
<1>2. Inv /\ Parsed /\ Stated /\ [Next]_vars =>
          [Admitted =>
              \/ route' \in Wanted(m.host, m.name)
              \/ m.forge # <<>> /\ OwnServer(m.name) = {} /\ route' = Default]_vars
  BY <1>1
<1> QED
  BY <1>2, Always, AlwaysParsed, AlwaysStated, PTL DEF Spec, RoutedByTables

\* README.md:9 lists Forge support among the functions, yet a Forge client is
\* never sent to the server of the host he dialled unless that is the default: his
\* address is looked up with the suffix behind it (proxy.cpp:368).
THEOREM ForgeNotByHost ==
    Spec => [][route' # route \/ (pc # "connect" /\ pc' = "connect") =>
                  LET m == Meaning[stream]
                  IN  m.forge # <<>> =>
                          route' \in OwnServer(m.name) \/ route' = Default]_vars
<1> DEFINE m == Meaning[stream]
           Admitted == route' # route \/ (pc # "connect" /\ pc' = "connect")
<1>1. ASSUME Inv, Parsed, Stated, [Next]_vars, Admitted, m.forge # <<>>
      PROVE  route' \in OwnServer(m.name) \/ route' = Default
  <2>1. m \in Messages /\ route' \in Wanted(m.host \o m.forge, m.name) /\ TypeOK
    BY <1>1, LookedUp DEF Inv
  <2>2. HostServer(m.host \o m.forge) = {}
    BY <1>1, <2>1, ForgeUnmapped
  <2> QED
    BY <2>1, <2>2 DEF Wanted
<1>2. Inv /\ Parsed /\ Stated /\ [Next]_vars =>
          [Admitted => (m.forge # <<>> =>
                            route' \in OwnServer(m.name) \/ route' = Default)]_vars
  BY <1>1
<1> QED
  BY <1>2, Always, AlwaysParsed, AlwaysStated, PTL DEF Spec

\* What a login's server is to hear is bytes.
LEMMA MeantIs ==
    ASSUME NEW m \in Logins, NEW r \in Targets \cup {Default}
    PROVE  /\ r.addr \o m.forge \in Seq(Byte) /\ r.port \in Seq(Byte)
           /\ Opening(m, r.addr \o m.forge, r.port, 0) \in Seq(Byte)
<1>1. m \in Messages /\ m.version >= 0
  BY ClientsAssumption DEF Messages
<1>2. r.addr \in Seq(Byte) /\ r.port \in Seq(Byte) /\ Len(r.port) = 2
  BY ConstantsAre
<1>3. PICK a \in Seq(Byte) : a = r.addr \o m.forge
  BY <1>1, <1>2, MessageIs, JoinedAre
<1>4. m.version \in Number
  <2>1. m.version \in -(2^(Width - 1)) .. 2^(Width - 1) - 1
    BY <1>1, ClientsAssumption
  <2>2. 2^(Width - 1) \in Nat
    <3>1. Width - 1 \in Nat
      BY SizesAre
    <3> QED
      BY <3>1, PowerIsNat
  <2> QED
    BY <1>1, <2>1, <2>2 DEF Number
<1>5. ReadsAs(Digits(m.version, 0), m.version) /\ Digits(m.version, 0) \in Seq(Byte)
  BY <1>4, NumberReadsBack, ShortestFits
<1>6. m.next \in Number
  BY <1>1, MessageIs
<1>7. Opening(m, a, r.port, 0) \in Seq(Byte)
  BY <1>2, <1>5, <1>6, OpeningIs, ShortestFits
<1> QED
  BY <1>2, <1>3, <1>7

\* What is written of a login is what its server is to hear.
LEMMA TranslatedIs ==
    ASSUME NEW s \in Streams, NEW m \in Logins, m = Meaning[s], Means(m, s),
           ParseLogin(First(Behind(s))).ok, NEW r \in Targets \cup {Default}
    PROVE  Translated(s, r) = Text(Opening(m, r.addr \o m.forge, r.port, 0), 0)
                              \o Text(m.packets[1], 0) \o m.rest
<1>1. /\ m \in Messages /\ m.version >= 0 /\ m.next = 2 /\ m.next # 1
  BY ClientsAssumption DEF Messages
<1>2. /\ First(Behind(s)) = LoginStart(m) /\ Behind(Behind(s)) = m.rest
      /\ LoginStart(m) \in Seq(Byte) /\ m.packets[1] = LoginStart(m)
  <2>1. m.packets = <<LoginStart(m)>>
    BY ClientsAssumption
  <2> QED
    BY <1>1, <2>1, PlayIs
<1>3. m.version \in Nat
  BY <1>1, ClientsAssumption DEF Message
<1>4. PICK o \in Seq(Byte) : o = Opening(m, r.addr \o m.forge, r.port, 0)
  BY MeantIs
<1>5. PICK b \in Seq(Byte) : b = LoginStart(m)
  BY <1>2
<1>6. HandshakeBuffer(Redirected(ParseHandshake(First(s)), r)) = Frame(o)
  <2>1. PICK h : h = ParseHandshake(First(s))
    OBVIOUS
  <2>2. PICK a \in Seq(Byte), n \in Nat, v \in Nat, p \in {<<3, 0>>} :
            /\ a = r.addr \o m.forge /\ n = m.next /\ v = m.version
            /\ p = <<3, 0>>
    BY <1>1, <1>3, MeantIs
  <2>3. PICK d : d = m.host \o m.forge
    OBVIOUS
  <2>4. h = [ok |-> TRUE, protocol_version |-> v, server_address |-> d,
             server_port |-> p, next_state |-> n]
    <3>1. h = [ok |-> TRUE, protocol_version |-> m.version,
               server_address |-> m.host \o m.forge, server_port |-> <<3, 0>>,
               next_state |-> m.next]
      BY <2>1 DEF Means
    <3> QED
      BY <2>2, <2>3, <3>1
  <2>5. r.addr \o Suffix(h.server_address) = a
    <3>1. Suffix(m.host \o m.forge) = m.forge
      BY <1>1, MessageIs
    <3> QED
      BY <2>2, <2>3, <2>4, <3>1
  <2>6. Redirected(h, r) = [ok |-> TRUE, protocol_version |-> v, server_address |-> a,
                            server_port |-> r.port, next_state |-> n]
    <3>1. PICK q : q = r.port
      OBVIOUS
    <3>2. Redirected(h, r) = [h EXCEPT !.server_address = a, !.server_port = q]
      BY <2>4, <2>5, <3>1 DEF Redirected
    <3>3. Redirected(h, r) = [ok |-> TRUE, protocol_version |-> v, server_address |-> a,
                              server_port |-> q, next_state |-> n]
      BY <2>4, <3>2
    <3> QED
      BY <3>1, <3>3
  <2>7. PICK g : g = Redirected(h, r)
    OBVIOUS
  <2>8. /\ g.protocol_version = v /\ g.server_address = a /\ g.server_port = r.port
        /\ g.next_state = n
    BY <2>6, <2>7
  <2>9. HandshakeBuffer(g) = Frame(ToVarint(0) \o ToVarint(v) \o Frame(a)
                                   \o r.port \o ToVarint(n))
    BY <2>8, SMTT(30) DEF HandshakeBuffer
  <2>10. o = ToVarint(0) \o ToVarint(v) \o Frame(a) \o r.port \o ToVarint(n)
    <3>1. /\ Digits(0, 0) = ToVarint(0) /\ Digits(v, 0) = ToVarint(v)
          /\ Digits(n, 0) = ToVarint(n)
      BY DigitsOfVarint
    <3>2. Text(a, 0) = Frame(a)
      BY TextOfFrame
    <3> QED
      BY <1>4, <2>2, <3>1, <3>2 DEF Opening
  <2> QED
    BY <2>1, <2>7, <2>9, <2>10
<1>7. Frame(o) = Text(o, 0) /\ Frame(b) = Text(b, 0)
  BY TextOfFrame
<1> QED
  BY <1>2, <1>4, <1>5, <1>6, <1>7 DEF Translated

\* The server hears what the client means: of a login the handshake with the
\* route's address and port and the Forge suffix, the login and what follows, cut
\* wherever it is when one of them leaves; of all others nothing
\* (HandleConnection, ForwardData, HandShakeDataPack::ToBuffer).
THEOREM MeaningDelivered == Spec => []Delivered
<1>1. ASSUME Inv, Parsed, Stated, served # <<>> => IsStart(served, Translated(stream, route))
      PROVE  Delivered
  <2>1. TypeOK /\ stream \in Streams /\ route \in Targets \cup {Default, None}
    BY <1>1 DEF Inv, TypeOK
  <2>2. PICK m : m = Meaning[stream]
    OBVIOUS
  <2>3. Meant = IF ~IsLogin(stream) \/ route = None THEN <<>>
                ELSE Text(Opening(m, route.addr \o m.forge, route.port, 0), 0)
                     \o Text(m.packets[1], 0) \o m.rest
    BY <2>2 DEF Meant
  <2>4. CASE served = <<>>
    <3>1. Meant \in Seq(Byte)
      <4>1. CASE ~IsLogin(stream) \/ route = None
        BY <2>3, <4>1
      <4>2. CASE IsLogin(stream) /\ route # None
        <5>1. m \in Logins /\ m \in Messages /\ route \in Targets \cup {Default}
          BY <2>1, <2>2, <4>2 DEF IsLogin, Messages
        <5>2. PICK o \in Seq(Byte) : o = Opening(m, route.addr \o m.forge, route.port, 0)
          BY <5>1, MeantIs
        <5>3. PICK b \in Seq(Byte) : b = m.packets[1]
          <6>1. m.packets \in Seq(Seq(Byte)) /\ m.packets = <<LoginStart(m)>>
            BY <5>1, MessageIs, ClientsAssumption
          <6> QED
            BY <6>1
        <5>4. PICK t \in Seq(Byte) : t = m.rest
          BY <5>1, MessageIs
        <5>5. PICK x \in Seq(Byte), y \in Seq(Byte) : x = Text(o, 0) /\ y = Text(b, 0)
          BY TextIs
        <5>6. PICK z \in Seq(Byte) : z = x \o y
          BY JoinedAre
        <5>7. z \o t \in Seq(Byte)
          BY JoinedAre
        <5> QED
          BY <2>3, <4>2, <5>2, <5>3, <5>4, <5>5, <5>6, <5>7
      <4> QED
        BY <4>1, <4>2
    <3> QED
      BY <2>4, <3>1, Starts DEF Delivered
  <2>5. CASE served # <<>>
    <3>1. /\ IsHandshake(handshake_data_pack)
          /\ handshake_data_pack = ParseHandshake(First(stream))
          /\ ParseLogin(First(Behind(stream))).ok
          /\ handshake_data_pack.next_state # 1
          /\ handshake_data_pack.protocol_version >= 0 /\ route # None
      BY <1>1, <2>5 DEF Parsed, Stated
    <3>2. ParseHandshake(First(stream)).ok
      BY <3>1 DEF IsHandshake
    <3>3. Means(m, stream)
      BY <2>1, <2>2, <3>2, LetIn
    <3>4. m.next # 1 /\ m.version >= 0
      BY <3>1, <3>3 DEF Means
    <3>5. m \in Logins
      <4>1. m \in Logins \/ m.version < 0
        BY <2>1, <2>2, <3>1, <3>3, <3>4, PlayIs
      <4>2. m.version \in Int
        BY <3>3, ClientsAssumption DEF Message, Means
      <4> QED
        BY <3>4, <4>1, <4>2
    <3>6. Translated(stream, route) = Text(Opening(m, route.addr \o m.forge, route.port, 0), 0)
                                      \o Text(m.packets[1], 0) \o m.rest
      BY <2>1, <2>2, <3>1, <3>3, <3>5, TranslatedIs
    <3>7. IsLogin(stream)
      BY <2>2, <3>3, <3>5 DEF IsLogin, Means
    <3> QED
      BY <1>1, <2>3, <2>5, <3>1, <3>6, <3>7 DEF Delivered
  <2> QED
    BY <2>4, <2>5
<1>2. /\ Inv /\ Parsed /\ Stated
      /\ served # <<>> => IsStart(served, Translated(stream, route))
      => Delivered
  BY <1>1
<1> QED
  BY <1>2, Always, AlwaysParsed, AlwaysStated, ServedIsTranslated, PTL

-----------------------------------------------------------------------------
(* What a client that asks is told. *)

\* What has come back, with n of m's packets taken, to a client that is there
\* or has left: the answers so far, or a part of all of them when it has left;
\* after a packet that is no request, all of them and what that one has led to.
InTurn(m, n, json, side, told) ==
    \/ n <= Asked(m) /\ side = "up" /\ told = Told(m, json)[n]
    \/ side # "up" /\ IsStart(told, Told(m, json)[Asked(m)])
    \/ n > Asked(m) /\ IsStart(Told(m, json)[Asked(m)], told)

\* What it comes to.
Outcome(m, json, told) ==
    \/ IsStart(told, Told(m, json)[Asked(m)])
    \/ IsStart(Told(m, json)[Asked(m)], told) /\ Asked(m) < Len(m.packets)

\* The packets are answered in turn, and then no more.
Asking ==
    stream \in DOMAIN Meaning /\ Meaning[stream] \in Pings =>
        /\ pc = "status" =>
              \E json \in [1 .. Asked(Meaning[stream]) -> Motds],
                 n \in 0 .. Len(Meaning[stream].packets) :
                  /\ Drop(stream, mark) =
                         Left(Meaning[stream])[Len(Meaning[stream].packets) - n]
                  /\ InTurn(Meaning[stream], n, json, peer["client"], toClient)
        /\ pc = "done" =>
              \E json \in [1 .. Asked(Meaning[stream]) -> Motds] :
                  Outcome(Meaning[stream], json, toClient)

\* In turn is a beginning of what is to be said, or more of it.
LEMMA TurnsAre ==
    ASSUME NEW m \in Messages, NEW n \in 0 .. Len(m.packets),
           NEW json \in [1 .. Asked(m) -> Motds], NEW side, NEW told,
           InTurn(m, n, json, side, told)
    PROVE  Outcome(m, json, told)
<1>1. m.packets \in Seq(Seq(Byte))
  BY MessageIs
<1>2. Asked(m) \in 0 .. Len(m.packets) /\ Len(m.packets) \in Nat
  BY <1>1, AskedIs
<1>3. CASE n <= Asked(m) /\ side = "up" /\ told = Told(m, json)[n]
  <2>1. n \in 0 .. Asked(m)
    BY <1>2, <1>3
  <2>2. IsStart(Told(m, json)[n], Told(m, json)[Asked(m)])
    BY <1>1, <2>1, ToldGrows
  <2> QED
    BY <1>3, <2>2 DEF Outcome
<1>4. CASE side # "up" /\ IsStart(told, Told(m, json)[Asked(m)])
  BY <1>4 DEF Outcome
<1>5. CASE n > Asked(m) /\ IsStart(Told(m, json)[Asked(m)], told)
  <2>1. Asked(m) < Len(m.packets)
    BY <1>2, <1>5
  <2> QED
    BY <1>5, <2>1 DEF Outcome
<1> QED
  BY <1>3, <1>4, <1>5 DEF InTurn

\* Nothing was said yet.
LEMMA FirstTurn ==
    ASSUME NEW m \in Messages, NEW json \in [1 .. Asked(m) -> Motds], NEW side
    PROVE  InTurn(m, 0, json, side, <<>>)
<1>1. m.packets \in Seq(Seq(Byte))
  BY MessageIs
<1>2. Asked(m) \in 0 .. Len(m.packets)
  BY <1>1, AskedIs
<1>3. Told(m, json)[0] = <<>> /\ Told(m, json)[Asked(m)] \in Seq(Byte) /\ 0 <= Asked(m)
  <2>1. Told(m, json)[0] = <<>> /\ Told(m, json) \in [0 .. Asked(m) -> Seq(Byte)]
    BY <1>1, ToldIs
  <2>2. 0 <= Asked(m) /\ Asked(m) \in 0 .. Asked(m)
    BY <1>2
  <2> QED
    BY <2>1, <2>2
<1>4. IsStart(<<>>, Told(m, json)[Asked(m)])
  BY <1>3, Starts
<1> QED
  BY <1>3, <1>4 DEF InTurn

\* A client that leaves.
LEMMA TurnLeft ==
    ASSUME NEW m \in Messages, NEW n \in 0 .. Len(m.packets),
           NEW json \in [1 .. Asked(m) -> Motds], NEW side, NEW told, NEW after,
           InTurn(m, n, json, side, told), side # "up" => after # "up"
    PROVE  InTurn(m, n, json, after, told)
<1>1. CASE n <= Asked(m) /\ told = Told(m, json)[n]
  <2>1. m.packets \in Seq(Seq(Byte))
    BY MessageIs
  <2>2. n \in 0 .. Asked(m)
    BY <1>1, <2>1, AskedIs
  <2>3. IsStart(told, Told(m, json)[Asked(m)])
    BY <1>1, <2>1, <2>2, ToldGrows
  <2> QED
    BY <1>1, <2>3 DEF InTurn
<1>2. CASE ~(n <= Asked(m) /\ told = Told(m, json)[n])
  BY <1>2 DEF InTurn
<1> QED
  BY <1>1, <1>2

\* One more answer.
LEMMA NextTurn ==
    ASSUME NEW m \in Messages, NEW n \in 0 .. Len(m.packets), n # Len(m.packets),
           NEW json \in [1 .. Asked(m) -> Motds], NEW side, NEW told \in Seq(Byte),
           InTurn(m, n, json, side, told), NEW x \in Motds,
           NEW s \in Answers(m.packets[n + 1], x)
    PROVE  \E after \in [1 .. Asked(m) -> Motds] :
               InTurn(m, n + 1, after, side, IF side = "up" THEN told \o s ELSE told)
<1>1. m.packets \in Seq(Seq(Byte)) /\ x \in Seq(Byte)
  BY MessageIs, ConstantsAre
<1>2. PICK N \in Nat, k \in Nat : N = Len(m.packets) /\ k = Asked(m) /\ k <= N
  BY <1>1, AskedIs
<1>3. n + 1 \in 1 .. N
  BY <1>2
<1>4. PICK p \in Seq(Byte) : p = m.packets[n + 1]
  BY <1>1, <1>2, <1>3
<1>5. s \in Seq(Byte)
  BY <1>1, <1>4, AnsweredBytes
<1>6. PICK all \in Seq(Byte) : all = Told(m, json)[k]
  <2>1. k \in 0 .. Asked(m)
    BY <1>2
  <2> QED
    BY <1>1, <2>1, ToldIs
<1>7. CASE side # "up"
  <2>1. n + 1 > Asked(m) \/ ~(n > Asked(m))
    BY <1>2
  <2>2. InTurn(m, n + 1, json, side, told)
    BY <1>7, <2>1 DEF InTurn
  <2> QED
    BY <1>7, <2>2
<1>8. CASE side = "up" /\ n >= k
  <2>1. IsStart(all, told)
    <3>1. CASE n > k
      BY <1>2, <1>6, <1>8, <3>1 DEF InTurn
    <3>2. CASE n = k
      BY <1>2, <1>6, <1>8, <3>2, Starts DEF InTurn
    <3> QED
      BY <1>2, <1>8, <3>1, <3>2
  <2>2. IsStart(all, told \o s)
    BY <1>5, <2>1, StartOfMore
  <2>3. n + 1 > Asked(m)
    BY <1>2, <1>8
  <2>4. InTurn(m, n + 1, json, side, told \o s)
    BY <1>2, <1>6, <2>2, <2>3 DEF InTurn
  <2> QED
    BY <1>8, <2>4
<1>9. CASE side = "up" /\ n < k
  <2>1. told = Told(m, json)[n]
    BY <1>2, <1>9 DEF InTurn
  <2>2. n \in 0 .. Asked(m) /\ n + 1 \in 1 .. Asked(m) /\ (n + 1) - 1 = n
    BY <1>2, <1>9
  <2>3. PICK after : after = [json EXCEPT ![n + 1] = x]
    OBVIOUS
  <2>4. after \in [1 .. Asked(m) -> Motds] /\ after[n + 1] = x
    BY <2>2, <2>3
  <2>5. \A i \in 1 .. n : json[i] = after[i]
    <3>1. \A i \in 1 .. n : i \in 1 .. Asked(m) /\ i # n + 1
      BY <1>2, <1>9
    <3> QED
      BY <2>3, <3>1
  <2>6. Told(m, json)[n] = Told(m, after)[n]
    BY <1>1, <2>2, <2>4, <2>5, ToldAgrees
  <2>7. Told(m, after)[n + 1] = Told(m, after)[n] \o Answer(m.packets[n + 1], after[n + 1])
    BY <1>1, <2>2, <2>4, ToldIs
  <2>8. Request(p)
    BY <1>1, <1>4, <2>2, AskedIs
  <2>9. s = Answer(p, x)
    <3>1. Answers(p, x) = {Answer(p, x)}
      BY <1>1, <2>8, AnswerOf
    <3> QED
      BY <1>4, <3>1
  <2>10. Told(m, after)[n + 1] = told \o s
    BY <1>4, <2>1, <2>4, <2>6, <2>7, <2>9
  <2>11. n + 1 <= Asked(m)
    BY <1>2, <2>2
  <2>12. InTurn(m, n + 1, after, side, told \o s)
    BY <1>9, <2>10, <2>11 DEF InTurn
  <2> QED
    BY <1>9, <2>4, <2>12
<1> QED
  BY <1>2, <1>7, <1>8, <1>9

\* A client that is gone stays so, and is gone or not while it is answered.
LEMMA GoneStays ==
    ASSUME TypeOK, [Next]_vars
    PROVE  /\ stream' = stream
           /\ peer["client"] # "up" => peer["client"]' # "up"
           /\ mark' # mark => peer' = peer
<1>1. peer \in [Sides -> {"up", "closed", "reset"}] /\ "client" \in Sides
  BY DEF TypeOK, Sides
<1>2. CASE UNCHANGED vars \/ ReadMore \/ TableCall \/ Speak \/ Kick
  BY <1>2, TableCallIs DEF ReadMore, Speak, Kick, vars, session
<1>3. ASSUME NEW d \in Sides, NEW how \in {"closed", "reset"}, HangUp(d, how)
      PROVE  stream' = stream /\ mark' = mark
             /\ (peer["client"] # "up" => peer["client"]' # "up")
  BY <1>1, <1>3 DEF HangUp
<1>4. ASSUME NEW d \in Sides,
             WriteSome(d) \/ WriteLost(d) \/ WriteThrows(d) \/ ReadEnds(d)
      PROVE  UNCHANGED <<stream, peer>>
  BY <1>4 DEF WriteSome, WriteLost, WriteThrows, ReadEnds
<1>5. CASE TakeHandshake \/ StatusRequest \/ PingRequest \/ ReadClient \/ LoginGate
           \/ TakeLogin \/ PacketThrows \/ Route \/ Connected \/ Refuse \/ IoThrows
           \/ GreetLogin \/ Forward \/ StartThrows \/ ReadServer \/ Finish
  BY <1>5 DEF TakeHandshake, StatusRequest, PingRequest, ReadClient, LoginGate, TakeLogin,
     PacketThrows, Route, Connected, Refuse, IoThrows, GreetLogin, Forward, StartThrows,
     ReadServer, Finish, Goto
<1> QED
  BY <1>2, <1>3, <1>4, <1>5 DEF Next, Hear, Serve, World

\* Nothing is said to a client as its session ends, or after that.
LEMMA NoLastAnswer ==
    ASSUME TypeOK, Copying, [Next]_vars, pc \in {"handshake", "status", "done"}, pc' = "done"
    PROVE  toClient' = toClient
<1>1. CASE UNCHANGED vars \/ ReadMore \/ TableCall \/ Speak \/ Kick
           \/ \E d \in Sides, how \in {"closed", "reset"} : HangUp(d, how)
  BY <1>1, TableCallIs DEF ReadMore, Speak, Kick, HangUp, vars, session, bytes
<1>2. ASSUME NEW d \in Sides,
             WriteSome(d) \/ WriteLost(d) \/ WriteThrows(d) \/ ReadEnds(d)
      PROVE  FALSE
  <2>1. pc \in Online
    BY <1>2 DEF WriteSome, WriteLost, WriteThrows, ReadEnds, Writing, Copying, Online
  <2> QED
    BY <2>1 DEF Online
<1>3. CASE TakeHandshake \/ StatusRequest \/ PingRequest
  <2>1. pc' # "done"
    BY <1>3 DEF TakeHandshake, StatusRequest, PingRequest, Goto
  <2> QED
    BY <2>1
<1>4. CASE ReadClient \/ LoginGate \/ TakeLogin \/ Route \/ Connected
           \/ Refuse \/ GreetLogin \/ Forward \/ StartThrows \/ ReadServer \/ Finish
  BY <1>4 DEF ReadClient, LoginGate, TakeLogin, Route, Connected, Refuse, GreetLogin,
     Forward, StartThrows, ReadServer, Finish
<1>5. CASE PacketThrows \/ IoThrows
  BY <1>5 DEF PacketThrows, IoThrows, bytes
<1> QED
  BY <1>1, <1>2, <1>3, <1>4, <1>5 DEF Next, Hear, Serve, World

\* A client that asks is not let on.
LEMMA AskersStay ==
    ASSUME TypeOK, Known, Parsed, Stated, stream \in DOMAIN Meaning,
           Meaning[stream] \in Pings
    PROVE  pc \in {"handshake", "status", "done"}
<1>1. PICK m : m = Meaning[stream] /\ m \in Pings /\ stream \in Streams
  BY DEF TypeOK
<1>2. ASSUME pc \notin {"handshake", "status", "done"} PROVE FALSE
  <2>1. /\ IsHandshake(handshake_data_pack)
        /\ handshake_data_pack = ParseHandshake(First(stream))
    BY <1>2 DEF Known, Parsed
  <2>2. handshake_data_pack.next_state # 1
    BY <1>2 DEF Stated, TypeOK, Reading
  <2>3. ParseHandshake(First(stream)).ok
    BY <2>1 DEF IsHandshake
  <2>4. Means(m, stream)
    BY <1>1, <2>3, LetIn
  <2>5. m.next # 1
    BY <2>1, <2>2, <2>4 DEF Means
  <2> QED
    BY <1>1, <2>5, ClientsAssumption
<1> QED
  BY <1>2

\* Every step keeps to the turns.
LEMMA AskingStep ==
    ASSUME Inv, Parsed, Stated, Asking, Inv', [Next]_vars PROVE Asking'
<1>1. /\ TypeOK /\ Known /\ Copying /\ TypeOK' /\ stream' = stream
      /\ NextAnswered /\ motd \in Motds /\ toClient \in Seq(Byte)
      /\ stream \in Seq(Byte) /\ mark \in Nat /\ mark' \in Nat /\ mark' <= Len(stream)
  <2>1. TypeOK /\ Known /\ Copying /\ TypeOK'
    BY DEF Inv
  <2>2. stream' = stream /\ NextAnswered
    BY <2>1, GoneStays, AnswerStep
  <2>3. motd \in Motds /\ toClient \in Seq(Byte)
    BY <2>1 DEF TypeOK
  <2>4. stream \in Seq(Byte)
    BY <2>1, PacketIs
  <2>5. mark \in 0 .. read /\ read \in 0 .. Len(stream)
        /\ mark' \in 0 .. read' /\ read' \in 0 .. Len(stream)
    BY <2>1, <2>2 DEF TypeOK
  <2>6. mark \in Nat /\ mark' \in Nat /\ mark' <= Len(stream)
    BY <2>4, <2>5
  <2> QED
    BY <2>1, <2>2, <2>3, <2>4, <2>6
<1> SUFFICES ASSUME stream \in DOMAIN Meaning, Meaning[stream] \in Pings
             PROVE  Asking'
  BY <1>1 DEF Asking
<1>2. PICK m : m = Meaning[stream] /\ m \in Pings /\ m \in Messages /\ stream = Wire(m)
  BY MeaningIs DEF Messages
<1>3. m.packets \in Seq(Seq(Byte)) /\ m.rest = <<>>
  BY <1>2, MessageIs, ClientsAssumption
<1>4. PICK N \in Nat : N = Len(m.packets) /\ Asked(m) \in 0 .. N
  BY <1>3, AskedIs
<1>5. pc \in {"handshake", "status", "done"}
  BY <1>1, <1>2, AskersStay
<1>6. PICK side, after : side = peer["client"] /\ after = peer["client"]'
                         /\ (side # "up" => after # "up") /\ (mark' # mark => after = side)
  BY <1>1, GoneStays
<1>7. PICK none \in [1 .. Asked(m) -> Motds] : TRUE
  <2>1. [i \in 1 .. Asked(m) |-> motd] \in [1 .. Asked(m) -> Motds]
    BY <1>1
  <2> QED
    BY <2>1
<1>8. ASSUME pc' = "status"
      PROVE  \E json \in [1 .. Asked(m) -> Motds], n \in 0 .. N :
                 Drop(stream, mark') = Left(m)[N - n] /\ InTurn(m, n, json, after, toClient')
  <2>1. CASE pc = "handshake" /\ Drop(stream, mark') = Behind(stream) /\ toClient' = <<>>
    <3>1. Behind(stream) = Left(m)[N]
      BY <1>2, <1>4, WireIs
    <3>2. InTurn(m, 0, none, after, <<>>)
      BY <1>2, FirstTurn
    <3>3. 0 \in 0 .. N /\ N - 0 = N
      BY <1>4
    <3> QED
      BY <2>1, <3>1, <3>2, <3>3
  <2>2. ASSUME pc = "status"
        PROVE  \E json \in [1 .. Asked(m) -> Motds], n \in 0 .. N :
                   Drop(stream, mark) = Left(m)[N - n] /\ InTurn(m, n, json, side, toClient)
    BY <1>2, <1>4, <1>6, <2>2 DEF Asking
  <2>3. CASE pc = "status" /\ mark' = mark /\ toClient' = toClient
    <3>1. PICK json \in [1 .. Asked(m) -> Motds], n \in 0 .. N :
              Drop(stream, mark) = Left(m)[N - n] /\ InTurn(m, n, json, side, toClient)
      BY <2>2, <2>3
    <3>2. InTurn(m, n, json, after, toClient)
      BY <1>2, <1>4, <1>6, <3>1, TurnLeft
    <3> QED
      BY <2>3, <3>1, <3>2
  <2>4. CASE /\ pc = "status" /\ mark < mark'
             /\ Drop(stream, mark') = Behind(Drop(stream, mark))
             /\ \E s \in Answers(First(Drop(stream, mark)), motd) :
                   toClient' = IF side = "up" THEN toClient \o s ELSE toClient
    <3>1. PICK json \in [1 .. Asked(m) -> Motds], n \in 0 .. N :
              Drop(stream, mark) = Left(m)[N - n] /\ InTurn(m, n, json, side, toClient)
      BY <2>2, <2>4
    <3>2. n # N
      <4> SUFFICES ASSUME n = N PROVE FALSE
        OBVIOUS
      <4>1. N - n = 0 /\ Left(m)[0] = <<>>
        BY <1>2, <1>3, <1>4, LeftHeads
      <4>2. Drop(stream, mark) = <<>>
        BY <3>1, <4>1
      <4>3. mark \in 0 .. Len(stream)
        BY <1>1, <2>4
      <4>4. Len(Drop(stream, mark)) = Len(stream) - mark
        BY <1>1, <4>3, EndsAre
      <4>5. Len(stream) - mark = 0
        BY <4>2, <4>4
      <4> QED
        BY <1>1, <2>4, <4>5
    <3>3. N - n \in 1 .. N /\ N - (N - n) + 1 = n + 1 /\ (N - n) - 1 = N - (n + 1)
          /\ n + 1 \in 0 .. N
      BY <3>2
    <3>4. First(Left(m)[N - n]) = m.packets[n + 1] /\ Behind(Left(m)[N - n]) = Left(m)[N - (n + 1)]
      BY <1>2, <1>4, <3>3, LeftHeads
    <3>5. PICK s \in Answers(m.packets[n + 1], motd) :
              toClient' = IF side = "up" THEN toClient \o s ELSE toClient
      BY <2>4, <3>1, <3>4
    <3>6. PICK later \in [1 .. Asked(m) -> Motds] :
              InTurn(m, n + 1, later, side, IF side = "up" THEN toClient \o s ELSE toClient)
      BY <1>1, <1>2, <1>4, <3>1, <3>2, <3>5, NextTurn
    <3>7. Drop(stream, mark') = Left(m)[N - (n + 1)]
      BY <2>4, <3>1, <3>4
    <3>8. after = side
      BY <1>1, <1>6, <2>4
    <3> QED
      BY <3>3, <3>5, <3>6, <3>7, <3>8
  <2> QED
    BY <1>1, <1>6, <1>8, <2>1, <2>3, <2>4 DEF NextAnswered
<1>9. ASSUME pc' = "done"
      PROVE  \E json \in [1 .. Asked(m) -> Motds] : Outcome(m, json, toClient')
  <2>1. toClient' = toClient
    BY <1>1, <1>5, <1>9, NoLastAnswer
  <2>2. CASE pc = "handshake"
    <3>1. toClient = <<>>
      BY <1>1, <2>2 DEF Copying
    <3>2. InTurn(m, 0, none, side, <<>>) /\ 0 \in 0 .. Len(m.packets)
      BY <1>2, <1>4, FirstTurn
    <3>3. Outcome(m, none, <<>>)
      BY <1>2, <3>2, TurnsAre
    <3> QED
      BY <2>1, <3>1, <3>3
  <2>3. CASE pc = "status"
    <3>1. PICK json \in [1 .. Asked(m) -> Motds], n \in 0 .. Len(m.packets) :
              InTurn(m, n, json, side, toClient)
      BY <1>2, <1>6, <2>3 DEF Asking
    <3>2. Outcome(m, json, toClient)
      BY <1>2, <3>1, TurnsAre
    <3> QED
      BY <2>1, <3>2
  <2>4. CASE pc = "done"
    BY <1>2, <2>1, <2>4 DEF Asking
  <2> QED
    BY <1>5, <2>2, <2>3, <2>4
<1>10. Meaning[stream'] = m
  BY <1>1, <1>2
<1> QED
  BY <1>1, <1>4, <1>6, <1>8, <1>9, <1>10 DEF Asking

\* A list of requests is answered one by one and in order, each ping with its own
\* payload and each status request with the motd of a moment, and then no more;
\* a client that leaves has got a part of it (the loop of HandleConnection for
\* a client that asks for the status).
THEOREM AskersAnswered == Spec => []Answered
<1>1. Init => Asking
  BY DEF Init, Asking
<1>2. Inv /\ Parsed /\ Stated /\ Asking /\ Inv' /\ [Next]_vars => Asking'
  BY AskingStep
<1>3. ASSUME Inv, Parsed, Stated, Asking PROVE Answered
  <2> SUFFICES ASSUME stream \in DOMAIN Meaning, Meaning[stream] \in Pings
               PROVE  \E json \in [1 .. Asked(Meaning[stream]) -> Motds] :
                          Outcome(Meaning[stream], json, toClient)
    BY DEF Answered, Outcome
  <2>1. PICK m : m = Meaning[stream] /\ m \in Pings /\ m \in Messages
    BY DEF Messages
  <2>2. TypeOK /\ Known /\ Copying
    BY <1>3 DEF Inv
  <2>3. pc \in {"handshake", "status", "done"}
    BY <1>3, <2>2, AskersStay
  <2>4. CASE pc = "handshake"
    <3>1. toClient = <<>>
      BY <2>2, <2>4 DEF Copying
    <3>2. PICK json \in [1 .. Asked(m) -> Motds] : TRUE
      <4>1. [i \in 1 .. Asked(m) |-> motd] \in [1 .. Asked(m) -> Motds]
        BY <2>2 DEF TypeOK
      <4> QED
        BY <4>1
    <3>3. InTurn(m, 0, json, "up", <<>>) /\ 0 \in 0 .. Len(m.packets)
      <4>1. Len(m.packets) \in Nat
        BY <2>1, MessageIs
      <4> QED
        BY <2>1, <4>1, FirstTurn
    <3>4. Outcome(m, json, <<>>)
      BY <2>1, <3>3, TurnsAre
    <3> QED
      BY <2>1, <3>1, <3>4
  <2>5. CASE pc = "status"
    <3>1. PICK json \in [1 .. Asked(m) -> Motds], n \in 0 .. Len(m.packets) :
              InTurn(m, n, json, peer["client"], toClient)
      BY <1>3, <2>1, <2>5 DEF Asking
    <3>2. Outcome(m, json, toClient)
      BY <2>1, <3>1, TurnsAre
    <3> QED
      BY <2>1, <3>2
  <2>6. CASE pc = "done"
    BY <1>3, <2>6 DEF Asking
  <2> QED
    BY <2>3, <2>4, <2>5, <2>6
<1>4. Inv /\ Parsed /\ Stated /\ Asking => Answered
  BY <1>3
<1> QED
  BY <1>1, <1>2, <1>4, Always, AlwaysParsed, AlwaysStated, PTL DEF Spec

=============================================================================
