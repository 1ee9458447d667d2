-------------------------- MODULE ProgressionProofs --------------------------
(***************************************************************************)
(* Proofs about Progression for every table of levels and prices, every    *)
(* skill tree and any number of events, saves and logins.                  *)
(***************************************************************************)
EXTENDS Progression, FiniteSetTheorems, SequenceTheorems, NaturalsInduction, WellFoundedInduction, TLAPS

(* Numbers.                                                                *)

\* What is not below a number in the relation of the library is not below it.
LEMMA NotBelow ==
    ASSUME NEW x, NEW y, x \in Nat, y \in Nat, ~(<<y, x>> \in OpToRel(<, Nat))
    PROVE  ~(y < x)
  BY Zenon DEF OpToRel

\* A set of natural numbers that is not empty has a least element.
LEMMA Least ==
    ASSUME NEW T, T \subseteq Nat, T # {}
    PROVE  \E x \in T : \A y \in T : x <= y
<1>1. PICK x \in T : \A y \in T : ~(<<y, x>> \in OpToRel(<, Nat))
  BY NatLessThanWellFounded, WFMin
<1>2. \A y \in T : ~(y < x)
  BY <1>1, NotBelow, Zenon
<1>3. QED
  BY <1>2

\* A set of numbers up to some bound has a largest one, if any.
LEMMA Largest ==
    ASSUME NEW n \in Nat, NEW S, S \subseteq 0..n, S # {}
    PROVE  Max(S) \in S /\ \A k \in S : k <= Max(S)
<1> DEFINE T == {n - k : k \in S}
<1>0. \A k \in S : k \in Nat /\ n - k \in Nat
  OBVIOUS
<1>1. T \subseteq Nat /\ T # {}
  BY <1>0, Zenon
<1>2. PICK x \in T : \A y \in T : x <= y
  BY <1>1, Least
<1>3. PICK k \in S : x = n - k
  BY <1>2
<1>4. ASSUME NEW j \in S PROVE k >= j
  <2>1. n - j \in T
    OBVIOUS
  <2>2. n - k <= n - j
    BY <1>2, <1>3, <2>1
  <2>3. QED
    BY <1>0, <2>2
<1>5. QED
  BY <1>4 DEF Max

\* The division of Experienced::convert_sp.
LEMMA DivMod ==
    ASSUME NEW a \in Nat, NEW b \in Nat \ {0}
    PROVE  a = b * (a \div b) + (a % b) /\ a \div b \in Nat /\ a % b \in 0..(b - 1)
  OBVIOUS

-----------------------------------------------------------------------------
(* Levels.                                                                 *)

\* There is a level above each that takes experience.
LEMMA TopIs ==
    /\ Top \in Nat \ {0} /\ Len(ExpFor) = Top - 1 /\ Len(ExpFor) \in Nat
    /\ \A l \in 1..(Top - 1) : ExpFor[l] \in Nat \ {0}
<1>1. Len(ExpFor) \in Nat /\ \A l \in 1..Len(ExpFor) : ExpFor[l] \in Nat \ {0}
  BY ProgressionAssumption
<1>2. QED
  BY <1>1 DEF Top

\* The table of the experience up to a level exists, and is what its equation says.
LEMMA ExpUpToIs ==
    /\ ExpUpTo \in [1..Top -> Nat] /\ ExpUpTo[1] = 0
    /\ \A l \in 1..(Top - 1) : ExpUpTo[l + 1] = ExpUpTo[l] + ExpFor[l]
<1> DEFINE Sums(f, n) == /\ f \in [1..n -> Nat] /\ f[1] = 0
                         /\ \A l \in 2..n : f[l] = f[l - 1] + ExpFor[l - 1]
           Bad == {n \in 1..Top : ~\E f : Sums(f, n)}
<1>1. ASSUME Bad # {} PROVE FALSE
  <2>1. PICK n \in Bad : \A m \in Bad : n <= m
    <3>1. Bad \subseteq Nat
      BY TopIs
    <3>2. QED
      BY <1>1, <3>1, Least
  <2>2. CASE n = 1
    <3>1. Sums([l \in 1..1 |-> 0], 1)
      OBVIOUS
    <3>2. QED
      BY <2>1, <2>2, <3>1
  <2>3. CASE n # 1
    <3>1. n - 1 \in 1..Top /\ n \in 2..Top
      BY <2>1, <2>3, TopIs
    <3>2. n - 1 \notin Bad
      BY <2>1, <3>1
    <3>3. PICK f : Sums(f, n - 1)
      BY <3>1, <3>2
    <3>4. PICK g : g = [l \in 1..n |-> IF l = n THEN f[n - 1] + ExpFor[n - 1] ELSE f[l]]
      OBVIOUS
    <3>5. n - 1 \in 1..(n - 1) /\ n - 1 \in 1..(Top - 1) /\ n \in 1..n /\ 1 \in 1..n /\ n \in Nat
      BY <3>1, TopIs
    <3>6. f[n - 1] \in Nat /\ ExpFor[n - 1] \in Nat
      BY <3>3, <3>5, TopIs
    <3>7. \A l \in 1..n : l # n => l \in 1..(n - 1)
      BY <3>5
    <3>8. g \in [1..n -> Nat] /\ g[1] = 0
      BY <2>3, <3>3, <3>4, <3>5, <3>6, <3>7
    <3>9. ASSUME NEW l \in 2..n PROVE g[l] = g[l - 1] + ExpFor[l - 1]
      <4>1. l \in 1..n /\ l - 1 \in 1..n /\ l - 1 # n
        BY <3>5
      <4>2. CASE l = n
        BY <3>4, <4>1, <4>2
      <4>3. CASE l # n
        <5>1. l \in 2..(n - 1)
          BY <3>5, <4>3
        <5>2. g[l] = f[l] /\ g[l - 1] = f[l - 1]
          BY <3>4, <4>1, <4>3
        <5>3. QED
          BY <3>3, <5>1, <5>2
      <4>4. QED
        BY <4>2, <4>3
    <3>10. Sums(g, n)
      BY <3>8, <3>9
    <3>11. QED
      BY <2>1, <3>10
  <2>4. QED
    BY <2>2, <2>3
<1>2. PICK f : Sums(f, Top)
  <2>1. Top \in 1..Top
    BY TopIs
  <2>2. QED
    BY <1>1, <2>1
<1>3. f = [l \in 1..Top |-> IF l = 1 THEN 0 ELSE f[l - 1] + ExpFor[l - 1]]
  <2>1. \A l \in 1..Top : l # 1 => l \in 2..Top
    BY TopIs
  <2>2. \A l \in 1..Top : f[l] = IF l = 1 THEN 0 ELSE f[l - 1] + ExpFor[l - 1]
    BY <1>2, <2>1
  <2>3. QED
    BY <1>2, <2>2
<1>4. ExpUpTo = [l \in 1..Top |-> IF l = 1 THEN 0 ELSE ExpUpTo[l - 1] + ExpFor[l - 1]]
  BY <1>3 DEF ExpUpTo
<1>5. \A l \in 1..Top : ExpUpTo[l] = IF l = 1 THEN 0 ELSE ExpUpTo[l - 1] + ExpFor[l - 1]
  <2>1. PICK u : u = ExpUpTo
    OBVIOUS
  <2>2. u = [l \in 1..Top |-> IF l = 1 THEN 0 ELSE u[l - 1] + ExpFor[l - 1]]
    BY <1>4, <2>1
  <2>3. \A l \in 1..Top : u[l] = IF l = 1 THEN 0 ELSE u[l - 1] + ExpFor[l - 1]
    BY <2>2
  <2>4. QED
    BY <2>1, <2>3
<1>6. \A l \in 1..Top : ExpUpTo[l] \in Nat
  <2> DEFINE Odd == {l \in 1..Top : ExpUpTo[l] \notin Nat}
  <2>1. SUFFICES ASSUME Odd # {} PROVE FALSE
    OBVIOUS
  <2>2. PICK l \in Odd : \A m \in Odd : l <= m
    <3>1. Odd \subseteq Nat
      BY TopIs
    <3>2. QED
      BY <2>1, <3>1, Least
  <2>3. l # 1
    BY <1>5, <2>2
  <2>4. l - 1 \in 1..Top /\ l - 1 \in 1..(Top - 1) /\ ~(l <= l - 1)
    BY <2>2, <2>3, TopIs
  <2>5. ExpUpTo[l - 1] \in Nat
    BY <2>2, <2>4
  <2>6. ExpUpTo[l] \in Nat
    <3>1. l \in 1..Top
      BY <2>2
    <3>2. ExpUpTo[l] = ExpUpTo[l - 1] + ExpFor[l - 1]
      BY <1>5, <2>3, <3>1
    <3>3. ExpFor[l - 1] \in Nat
      BY <2>4, TopIs
    <3>4. QED
      BY <2>5, <3>2, <3>3
  <2>7. QED
    BY <2>2, <2>6
<1>8. ExpUpTo[1] = 0
  <2>1. 1 \in 1..Top
    BY TopIs
  <2>2. QED
    BY <1>5, <2>1
<1>9. ASSUME NEW l \in 1..(Top - 1) PROVE ExpUpTo[l + 1] = ExpUpTo[l] + ExpFor[l]
  <2>1. l + 1 \in 1..Top /\ l + 1 # 1 /\ (l + 1) - 1 = l
    BY TopIs
  <2>2. QED
    BY <1>5, <2>1
<1>10. ExpUpTo \in [1..Top -> Nat]
  <2>1. PICK u : u = ExpUpTo
    OBVIOUS
  <2>2. u = [l \in 1..Top |-> IF l = 1 THEN 0 ELSE u[l - 1] + ExpFor[l - 1]]
    BY <1>4, <2>1
  <2>3. u = [l \in 1..Top |-> u[l]]
    BY <2>2
  <2>4. \A l \in 1..Top : u[l] \in Nat
    BY <1>6, <2>1
  <2>5. u \in [1..Top -> Nat]
    BY <2>3, <2>4
  <2>6. QED
    BY <2>1, <2>5
<1>11. QED
  BY <1>8, <1>9, <1>10

\* The levels an event is worth: the player gets all it can pay for, and cannot
\* pay for one more.
LEMMA ReachedIs ==
    ASSUME NEW l \in 1..Top, NEW e \in Nat
    PROVE  /\ Reached(l, e) \in l..Top /\ Reached(l, e) \in 1..Top
           /\ e - Cost(l, Reached(l, e)) \in Nat
           /\ Reached(l, e) < Top => e - Cost(l, Reached(l, e)) < ExpFor[Reached(l, e)]
           /\ Cost(1, l) + Cost(l, Reached(l, e)) = Cost(1, Reached(l, e))
<1>0. Top \in Nat /\ 1 \in 1..Top
  BY TopIs
<1>1. \A k \in 1..Top : ExpUpTo[k] \in Nat
  BY ExpUpToIs
<1> DEFINE S == {k \in l..Top : Cost(l, k) <= e}
<1>2. S \subseteq 0..Top /\ l \in S
  BY <1>0, <1>1 DEF Cost
<1>3. PICK r : r = Max(S)
  OBVIOUS
<1>4. r \in S /\ \A k \in S : k <= r
  BY <1>0, <1>2, <1>3, Largest
<1>5. r \in l..Top /\ r \in 1..Top /\ Cost(l, r) <= e
  BY <1>0, <1>4
<1>6. e - Cost(l, r) \in Nat /\ Cost(1, l) + Cost(l, r) = Cost(1, r)
  BY <1>0, <1>1, <1>5 DEF Cost
<1>7. ASSUME r < Top PROVE e - Cost(l, r) < ExpFor[r]
  <2>1. r \in 1..(Top - 1) /\ r + 1 \in l..Top /\ r + 1 \in 1..Top /\ ~(r + 1 <= r)
    BY <1>0, <1>5, <1>7
  <2>2. r + 1 \notin S
    BY <1>4, <2>1
  <2>3. ~(Cost(l, r + 1) <= e)
    BY <2>1, <2>2
  <2>4. ExpUpTo[r + 1] = ExpUpTo[r] + ExpFor[r] /\ ExpFor[r] \in Nat
    BY <2>1, ExpUpToIs, TopIs
  <2>5. QED
    BY <1>1, <1>5, <2>1, <2>3, <2>4 DEF Cost
<1>8. Reached(l, e) = r
  BY <1>3 DEF Reached
<1>9. QED
  BY <1>5, <1>6, <1>7, <1>8

-----------------------------------------------------------------------------
(* Health and mana.                                                        *)

Positive == Nat \ {0}

\* The table of the growth of the bars exists, and is what its equation says.
LEMMA GrowthIs ==
    /\ \A l \in 1..Top : Growth[l] \in Positive \X Positive
    /\ \A l \in 1..(Top - 1) : Growth[l + 1] = <<102 * Growth[l][1], 100 * Growth[l][2]>>
<1> DEFINE Step(p) == <<102 * p[1], 100 * p[2]>>
           Grows(f, n) == /\ DOMAIN f = 1..n /\ f = [l \in 1..n |-> f[l]] /\ f[1] = <<1, 1>>
                          /\ \A l \in 2..n : f[l] = Step(f[l - 1])
           Bad == {n \in 1..Top : ~\E f : Grows(f, n)}
<1> HIDE DEF Step
<1>1. ASSUME Bad # {} PROVE FALSE
  <2>1. PICK n \in Bad : \A m \in Bad : n <= m
    <3>1. Bad \subseteq Nat
      BY TopIs
    <3>2. QED
      BY <1>1, <3>1, Least
  <2>2. CASE n = 1
    <3>1. Grows([l \in 1..1 |-> <<1, 1>>], 1)
      OBVIOUS
    <3>2. QED
      BY <2>1, <2>2, <3>1
  <2>3. CASE n # 1
    <3>1. n - 1 \in 1..Top /\ n \in 2..Top
      BY <2>1, <2>3, TopIs
    <3>2. n - 1 \notin Bad
      <4>1. ~(n <= n - 1)
        BY <3>1, TopIs
      <4>2. QED
        BY <2>1, <4>1, Zenon
    <3>3. PICK f : Grows(f, n - 1)
      BY <3>1, <3>2
    <3>4. PICK g : g = [l \in 1..n |-> IF l = n THEN Step(f[n - 1]) ELSE f[l]]
      OBVIOUS
    <3>5. n - 1 \in 1..(n - 1) /\ n \in 1..n /\ 1 \in 1..n /\ n \in Nat
      BY <3>1, TopIs
    <3>6. DOMAIN g = 1..n /\ g = [l \in 1..n |-> g[l]] /\ g[1] = <<1, 1>>
      BY <2>3, <3>3, <3>4, <3>5
    <3>7. ASSUME NEW l \in 2..n PROVE g[l] = Step(g[l - 1])
      <4>1. l \in 1..n /\ l - 1 \in 1..n /\ l - 1 # n
        BY <3>5
      <4>2. CASE l = n
        BY <3>4, <4>1, <4>2
      <4>3. CASE l # n
        <5>1. l \in 2..(n - 1)
          BY <3>5, <4>3
        <5>2. g[l] = f[l] /\ g[l - 1] = f[l - 1]
          BY <3>4, <4>1, <4>3
        <5>3. QED
          BY <3>3, <5>1, <5>2
      <4>4. QED
        BY <4>2, <4>3
    <3>8. Grows(g, n)
      BY <3>6, <3>7
    <3>9. QED
      BY <2>1, <3>8
  <2>4. QED
    BY <2>2, <2>3
<1>2. PICK f : Grows(f, Top)
  <2>1. Top \in 1..Top
    BY TopIs
  <2>2. QED
    BY <1>1, <2>1
<1>3. f = [l \in 1..Top |-> IF l = 1 THEN <<1, 1>> ELSE Step(f[l - 1])]
  <2>1. \A l \in 1..Top : l # 1 => l \in 2..Top
    BY TopIs
  <2>2. \A l \in 1..Top : f[l] = IF l = 1 THEN <<1, 1>> ELSE Step(f[l - 1])
    BY <1>2, <2>1
  <2>3. QED
    BY <1>2, <2>2
<1>4. \A l \in 1..Top : Growth[l] = IF l = 1 THEN <<1, 1>> ELSE Step(Growth[l - 1])
  <2>1. f = [l \in 1..Top |-> IF l = 1 THEN <<1, 1>> ELSE <<102 * f[l - 1][1], 100 * f[l - 1][2]>>]
    BY <1>3 DEF Step
  <2>2. Growth = [l \in 1..Top |-> IF l = 1 THEN <<1, 1>> ELSE <<102 * Growth[l - 1][1], 100 * Growth[l - 1][2]>>]
    BY <2>1, ZenonT(30) DEF Growth
  <2>3. PICK u : u = Growth
    OBVIOUS
  <2>4. u = [l \in 1..Top |-> IF l = 1 THEN <<1, 1>> ELSE Step(u[l - 1])]
    BY <2>2, <2>3 DEF Step
  <2>5. \A l \in 1..Top : u[l] = IF l = 1 THEN <<1, 1>> ELSE Step(u[l - 1])
    BY <2>4
  <2>6. QED
    BY <2>3, <2>5
<1>5. \A p \in Positive \X Positive : Step(p) \in Positive \X Positive
  BY DEF Step, Positive
<1>6. \A l \in 1..Top : Growth[l] \in Positive \X Positive
  <2> DEFINE Odd == {l \in 1..Top : Growth[l] \notin Positive \X Positive}
  <2>1. SUFFICES ASSUME Odd # {} PROVE FALSE
    OBVIOUS
  <2>2. PICK l \in Odd : \A m \in Odd : l <= m
    <3>1. Odd \subseteq Nat
      BY TopIs
    <3>2. QED
      BY <2>1, <3>1, Least
  <2>3. l # 1
    BY <1>4, <2>2 DEF Positive
  <2>4. l - 1 \in 1..Top /\ ~(l <= l - 1)
    BY <2>2, <2>3, TopIs
  <2>5. Growth[l - 1] \in Positive \X Positive
    BY <2>2, <2>4
  <2>6. Growth[l] \in Positive \X Positive
    BY <1>4, <1>5, <2>2, <2>3, <2>5
  <2>7. QED
    BY <2>2, <2>6
<1>7. ASSUME NEW l \in 1..(Top - 1) PROVE Growth[l + 1] = Step(Growth[l])
  <2>1. l + 1 \in 1..Top /\ l + 1 # 1 /\ (l + 1) - 1 = l
    BY TopIs
  <2>2. QED
    BY <1>4, <2>1
<1>8. QED
  BY <1>6, <1>7 DEF Step

\* Division by a positive number: between which multiples of it.
LEMMA Quotient ==
    ASSUME NEW x \in Nat, NEW y \in Positive
    PROVE  x \div y \in Nat /\ (x \div y) * y <= x /\ \A q \in Nat : q * y <= x => q <= x \div y
<1>1. x \div y \in Nat /\ x % y \in 0..(y - 1) /\ x = y * (x \div y) + (x % y)
  BY DivMod DEF Positive
<1>2. PICK d \in Nat, r \in Nat : d = x \div y /\ r = x % y /\ r < y /\ x = y * d + r
  BY <1>1 DEF Positive
<1>3. y \in Nat /\ y >= 1
  BY DEF Positive
<1>4. ASSUME NEW q \in Nat, q * y <= x PROVE q <= d
  <2>1. SUFFICES ASSUME q >= d + 1 PROVE FALSE
    BY <1>2
  <2>2. PICK k \in Nat : q = d + 1 + k
    <3>1. q - (d + 1) \in Nat /\ q = d + 1 + (q - (d + 1))
      BY <1>2, <2>1
    <3>2. QED
      BY <3>1
  <2>3. q * y = d * y + y + k * y
    BY <1>3, <2>2
  <2>4. k * y >= 0 /\ d * y = y * d
    BY <1>3
  <2>5. QED
    BY <1>2, <1>3, <1>4, <2>3, <2>4
<1>5. d * y <= x
  BY <1>2, <1>3
<1>6. QED
  BY <1>2, <1>4, <1>5

\* More of a stat or a higher level makes no bar shorter.
LEMMA BarGrows ==
    /\ \A l \in 1..Top, s \in Nat : MaxBar(s, l) \in Nat /\ MaxBar(s, l) <= MaxBar(s + 1, l)
    /\ \A l \in 1..(Top - 1), s \in Nat : MaxBar(s, l) <= MaxBar(s, l + 1)
<1>1. ASSUME NEW l \in 1..Top, NEW s \in Nat
      PROVE  MaxBar(s, l) \in Nat /\ MaxBar(s, l) <= MaxBar(s + 1, l)
  <2>1. PICK a \in Nat, b \in Positive : a = Growth[l][1] /\ b = Growth[l][2]
    BY GrowthIs DEF Positive
  <2>2. PICK x \in Nat, z \in Nat : x = s * 10 * a /\ z = (s + 1) * 10 * a
    BY <2>1
  <2>3. x <= z
    <3>1. z = x + 10 * a /\ 10 * a \in Nat
      BY <2>1, <2>2
    <3>2. QED
      BY <2>2, <3>1
  <2>4. x \div b \in Nat /\ (x \div b) * b <= x
    BY Quotient
  <2>5. (x \div b) * b <= z
    BY <2>1, <2>3, <2>4 DEF Positive
  <2>6. x \div b <= z \div b
    BY <2>4, <2>5, Quotient
  <2>7. MaxBar(s, l) = x \div b /\ MaxBar(s + 1, l) = z \div b
    BY <2>1, <2>2 DEF MaxBar
  <2>8. QED
    BY <2>4, <2>6, <2>7
<1>2. ASSUME NEW l \in 1..(Top - 1), NEW s \in Nat
      PROVE  MaxBar(s, l) <= MaxBar(s, l + 1)
  <2>0. l \in 1..Top /\ l + 1 \in 1..Top
    BY TopIs
  <2>1. PICK a \in Positive, b \in Positive : Growth[l] = <<a, b>>
    BY <2>0, GrowthIs
  <2>2. Growth[l + 1] = <<102 * a, 100 * b>>
    BY <2>1, GrowthIs
  <2>3. PICK x \in Nat, z \in Nat : x = s * 10 * a /\ z = s * 10 * (102 * a)
    BY <2>1 DEF Positive
  <2>4. z = 102 * x /\ 100 * b \in Positive
    BY <2>1, <2>3 DEF Positive
  <2>5. PICK q \in Nat : q = x \div b /\ q * b <= x
    BY Quotient
  <2>6. q * (100 * b) <= z
    <3>1. q * (100 * b) = 100 * (q * b) /\ q * b \in Nat
      BY <2>1 DEF Positive
    <3>2. QED
      BY <2>3, <2>4, <2>5, <3>1
  <2>7. q <= z \div (100 * b)
    BY <2>4, <2>6, Quotient
  <2>8. MaxBar(s, l) = x \div b /\ MaxBar(s, l + 1) = z \div (100 * b)
    BY <2>1, <2>2, <2>3 DEF MaxBar
  <2>9. QED
    BY <2>5, <2>7, <2>8
<1>3. QED
  BY <1>1, <1>2

\* However many levels an event is worth.
LEMMA BarFollowsLevel ==
    ASSUME NEW l \in 1..Top, NEW k \in l..Top, NEW s \in Nat
    PROVE  MaxBar(s, l) <= MaxBar(s, k)
<1> DEFINE Odd == {m \in l..Top : ~(MaxBar(s, l) <= MaxBar(s, m))}
<1>1. SUFFICES ASSUME Odd # {} PROVE FALSE
  BY Zenon
<1>2. PICK m \in Odd : \A n \in Odd : m <= n
  <2>1. Odd \subseteq Nat
    BY TopIs
  <2>2. QED
    BY <1>1, <2>1, Least
<1>3. m # l
  <2>1. MaxBar(s, l) \in Nat
    BY BarGrows
  <2>2. MaxBar(s, l) <= MaxBar(s, l)
    BY <2>1
  <2>3. QED
    BY <1>2, <2>2
<1>4. m - 1 \in l..Top /\ m - 1 \in 1..(Top - 1) /\ ~(m <= m - 1) /\ (m - 1) + 1 = m /\ m \in 1..Top /\ m - 1 \in 1..Top
  BY <1>2, <1>3, TopIs
<1>5. MaxBar(s, l) <= MaxBar(s, m - 1)
  BY <1>2, <1>4
<1>6. MaxBar(s, m - 1) <= MaxBar(s, (m - 1) + 1)
  BY <1>4, BarGrows
<1>7. MaxBar(s, l) \in Nat /\ MaxBar(s, m) \in Nat /\ MaxBar(s, m - 1) \in Nat
  BY <1>4, BarGrows
<1>8. MaxBar(s, l) <= MaxBar(s, m)
  BY <1>4, <1>5, <1>6, <1>7
<1>9. QED
  BY <1>2, <1>8

-----------------------------------------------------------------------------
(* What masteries and skills cost.                                         *)

\* A level of a mastery costs a number of SP, none when the table has no price.
LEMMA Prices == \A m : PriceOf(m) \in Nat
  BY ProgressionAssumption DEF PriceOf

\* The SP that the levels of a mastery cost, as the equation says.
LEMMA SpUpToIs ==
    /\ SpUpTo[0] = 0 /\ \A m \in Nat : SpUpTo[m] \in Nat
    /\ \A m \in Nat : SpUpTo[m + 1] = SpUpTo[m] + PriceOf(m)
<1> DEFINE Sums(f, n) == /\ DOMAIN f = 0..n /\ f = [m \in 0..n |-> f[m]] /\ f[0] = 0
                         /\ \A m \in 1..n : f[m] = f[m - 1] + PriceOf(m - 1)
           Bad == {n \in Nat : ~\E f : Sums(f, n)}
<1>1. ASSUME Bad # {} PROVE FALSE
  <2>1. PICK n \in Bad : \A m \in Bad : n <= m
    BY <1>1, Least
  <2>2. CASE n = 0
    <3>1. Sums([m \in 0..0 |-> 0], 0)
      OBVIOUS
    <3>2. QED
      BY <2>1, <2>2, <3>1
  <2>3. CASE n # 0
    <3>1. n - 1 \in Nat /\ n \in Nat /\ ~(n <= n - 1)
      BY <2>1, <2>3
    <3>2. n - 1 \notin Bad
      BY <2>1, <3>1, Zenon
    <3>3. PICK f : Sums(f, n - 1)
      BY <3>1, <3>2
    <3>4. PICK g : g = [m \in 0..n |-> IF m = n THEN f[n - 1] + PriceOf(n - 1) ELSE f[m]]
      OBVIOUS
    <3>5. n - 1 \in 0..(n - 1) /\ n \in 0..n /\ 0 \in 0..n
      BY <3>1
    <3>6. DOMAIN g = 0..n /\ g = [m \in 0..n |-> g[m]] /\ g[0] = 0
      BY <2>3, <3>3, <3>4, <3>5
    <3>7. ASSUME NEW m \in 1..n PROVE g[m] = g[m - 1] + PriceOf(m - 1)
      <4>1. m \in 0..n /\ m - 1 \in 0..n /\ m - 1 # n
        BY <3>1
      <4>2. CASE m = n
        BY <3>4, <4>1, <4>2
      <4>3. CASE m # n
        <5>1. m \in 1..(n - 1)
          BY <3>1, <4>3
        <5>2. g[m] = f[m] /\ g[m - 1] = f[m - 1]
          BY <3>4, <4>1, <4>3
        <5>3. QED
          BY <3>3, <5>1, <5>2
      <4>4. QED
        BY <4>2, <4>3
    <3>8. Sums(g, n)
      BY <3>6, <3>7
    <3>9. QED
      BY <2>1, <3>8
  <2>4. QED
    BY <2>2, <2>3
<1>2. ASSUME NEW f, NEW g, NEW n \in Nat, Sums(f, n), Sums(g, n + 1)
      PROVE  f[n] = g[n]
  <2> DEFINE Odd == {m \in 0..n : f[m] # g[m]}
  <2>1. SUFFICES ASSUME Odd # {} PROVE FALSE
    <3>1. n \in 0..n
      OBVIOUS
    <3>2. QED
      BY <3>1
  <2>2. PICK m \in Odd : \A k \in Odd : m <= k
    <3>1. Odd \subseteq Nat
      OBVIOUS
    <3>2. QED
      BY <2>1, <3>1, Least
  <2>3. m # 0
    BY <1>2, <2>2
  <2>4. m \in 1..n /\ m \in 1..(n + 1) /\ m - 1 \in 0..n /\ ~(m <= m - 1)
    BY <2>2, <2>3
  <2>5. f[m - 1] = g[m - 1]
    BY <2>2, <2>4
  <2>6. f[m] = g[m]
    BY <1>2, <2>4, <2>5
  <2>7. QED
    BY <2>2, <2>6
<1> DEFINE Table(n) == CHOOSE f : Sums(f, n)
<1>3. \A n \in Nat : Sums(Table(n), n)
  <2>1. \A n \in Nat : \E f : Sums(f, n)
    BY <1>1
  <2> HIDE DEF Sums
  <2>2. QED
    BY <2>1
<1>4. ASSUME NEW n \in Nat
      PROVE  Table(n)[n] = IF n = 0 THEN 0 ELSE Table(n - 1)[n - 1] + PriceOf(n - 1)
  <2>1. CASE n = 0
    BY <1>3, <2>1
  <2>2. CASE n # 0
    <3>1. PICK k \in Nat : k = n - 1 /\ k + 1 = n
      BY <2>2
    <3>2. Table(k)[k] = Table(k + 1)[k]
      <4> HIDE DEF Sums, Table
      <4>1. k + 1 \in Nat
        OBVIOUS
      <4>2. Sums(Table(k), k) /\ Sums(Table(k + 1), k + 1)
        BY <1>3, <4>1
      <4>3. QED
        BY <1>2, <4>2
    <3>3. n \in 1..n
      BY <2>2
    <3>4. Table(n)[n] = Table(n)[n - 1] + PriceOf(n - 1)
      BY <1>3, <3>3
    <3>5. QED
      BY <2>2, <3>1, <3>2, <3>4
  <2>3. QED
    BY <2>1, <2>2
<1>5. PICK t : t = [n \in Nat |-> Table(n)[n]]
  OBVIOUS
<1>6. t = [m \in Nat |-> IF m = 0 THEN 0 ELSE t[m - 1] + PriceOf(m - 1)]
  <2> HIDE DEF Sums, Table
  <2>1. \A n \in Nat : n # 0 => n - 1 \in Nat
    OBVIOUS
  <2>2. \A n \in Nat : t[n] = IF n = 0 THEN 0 ELSE t[n - 1] + PriceOf(n - 1)
    BY <1>4, <1>5, <2>1
  <2>3. QED
    BY <1>5, <2>2
<1>7. \A m \in Nat : SpUpTo[m] = IF m = 0 THEN 0 ELSE SpUpTo[m - 1] + PriceOf(m - 1)
  <2>1. SpUpTo = [m \in Nat |-> IF m = 0 THEN 0 ELSE SpUpTo[m - 1] + PriceOf(m - 1)]
    BY <1>6 DEF SpUpTo
  <2>2. PICK u : u = SpUpTo
    OBVIOUS
  <2>3. u = [m \in Nat |-> IF m = 0 THEN 0 ELSE u[m - 1] + PriceOf(m - 1)]
    BY <2>1, <2>2
  <2>4. \A m \in Nat : u[m] = IF m = 0 THEN 0 ELSE u[m - 1] + PriceOf(m - 1)
    BY <2>3
  <2>5. QED
    BY <2>2, <2>4
<1>8. \A m \in Nat : SpUpTo[m] \in Nat
  <2> DEFINE Odd == {m \in Nat : SpUpTo[m] \notin Nat}
  <2>1. SUFFICES ASSUME Odd # {} PROVE FALSE
    OBVIOUS
  <2>2. PICK m \in Odd : \A k \in Odd : m <= k
    BY <2>1, Least
  <2>3. m # 0
    BY <1>7, <2>2
  <2>4. m - 1 \in Nat /\ ~(m <= m - 1)
    BY <2>2, <2>3
  <2>5. SpUpTo[m - 1] \in Nat
    BY <2>2, <2>4
  <2>6. SpUpTo[m] \in Nat
    BY <1>7, <2>2, <2>3, <2>5, Prices
  <2>7. QED
    BY <2>2, <2>6
<1>9. ASSUME NEW m \in Nat PROVE SpUpTo[m + 1] = SpUpTo[m] + PriceOf(m)
  <2>1. m + 1 \in Nat /\ m + 1 # 0 /\ (m + 1) - 1 = m
    OBVIOUS
  <2>2. QED
    BY <1>7, <2>1
<1>10. QED
  BY <1>7, <1>8, <1>9

\* The first skill that the sum takes from a set.
FirstOf(S) == CHOOSE s \in S : TRUE

\* The SP that a set of skills costs, as the equation says.
LEMMA SpOfIs ==
    /\ SpOf[{}] = 0
    /\ \A S \in SUBSET Skills : SpOf[S] \in Nat
    /\ \A S \in SUBSET Skills : S # {} => SpOf[S] = FirstOf(S).sp + SpOf[S \ {FirstOf(S)}]
<1>0. \A s \in Skills : s.sp \in Nat
  BY ProgressionAssumption
<1>f. \A S \in SUBSET Skills : IsFiniteSet(S) /\ Cardinality(S) \in Nat
  BY ProgressionAssumption, FS_Subset, FS_CardinalityType
<1>r. ASSUME NEW S \in SUBSET Skills, S # {}
      PROVE  /\ FirstOf(S) \in S /\ S \ {FirstOf(S)} \in SUBSET Skills
             /\ Cardinality(S \ {FirstOf(S)}) = Cardinality(S) - 1 /\ Cardinality(S) > 0
  <2>1. FirstOf(S) \in S
    BY <1>r DEF FirstOf
  <2>2. Cardinality(S \ {FirstOf(S)}) = Cardinality(S) - 1
    BY <1>f, <2>1, FS_RemoveElement
  <2>3. Cardinality(S) # 0
    BY <1>f, <1>r, FS_EmptySet
  <2>4. QED
    BY <1>f, <2>1, <2>2, <2>3
<1> DEFINE Small(n) == {S \in SUBSET Skills : Cardinality(S) <= n}
           Sums(f, n) == /\ DOMAIN f = Small(n) /\ f = [S \in Small(n) |-> f[S]] /\ f[{}] = 0
                         /\ \A S \in Small(n) : S # {} => f[S] = FirstOf(S).sp + f[S \ {FirstOf(S)}]
           Bad == {n \in Nat : ~\E f : Sums(f, n)}
<1>e. Cardinality({}) = 0 /\ \A n \in Nat : {} \in Small(n)
  BY FS_EmptySet
<1>s. \A n \in Nat : \A S \in Small(n) : S # {} => n - 1 \in Nat /\ S \ {FirstOf(S)} \in Small(n - 1) /\ S \ {FirstOf(S)} \in Small(n)
  BY <1>f, <1>r
<1>1. ASSUME Bad # {} PROVE FALSE
  <2>1. PICK n \in Bad : \A m \in Bad : n <= m
    BY <1>1, Least
  <2>2. CASE n = 0
    <3>1. ASSUME NEW S \in Small(0), S # {} PROVE FALSE
      <4>1. Cardinality(S) \in Nat /\ Cardinality(S) > 0 /\ Cardinality(S) <= 0
        BY <1>f, <1>r, <3>1
      <4>2. QED
        BY <4>1
    <3>2. PICK f : f = [S \in Small(0) |-> 0]
      OBVIOUS
    <3>3. Sums(f, 0)
      BY <1>e, <3>1, <3>2
    <3>4. QED
      BY <2>1, <2>2, <3>3
  <2>3. CASE n # 0
    <3>1. n - 1 \in Nat /\ n \in Nat /\ ~(n <= n - 1)
      BY <2>1, <2>3
    <3>2. n - 1 \notin Bad
      BY <2>1, <3>1, Zenon
    <3>3. PICK f : Sums(f, n - 1)
      BY <3>1, <3>2
    <3>4. PICK g : g = [S \in Small(n) |-> IF S = {} THEN 0 ELSE FirstOf(S).sp + f[S \ {FirstOf(S)}]]
      OBVIOUS
    <3>5. ASSUME NEW S \in Small(n - 1) PROVE S \in Small(n) /\ g[S] = f[S]
      <4>1. S \in Small(n)
        BY <1>f, <3>1
      <4>2. QED
        BY <3>3, <3>4, <4>1
    <3>6. DOMAIN g = Small(n) /\ g = [S \in Small(n) |-> g[S]] /\ g[{}] = 0
      BY <1>e, <3>1, <3>4
    <3>7. ASSUME NEW S \in Small(n), S # {} PROVE g[S] = FirstOf(S).sp + g[S \ {FirstOf(S)}]
      <4>1. S \ {FirstOf(S)} \in Small(n - 1)
        BY <1>s, <3>1, <3>7
      <4>2. g[S \ {FirstOf(S)}] = f[S \ {FirstOf(S)}]
        BY <3>5, <4>1
      <4>3. QED
        BY <3>4, <3>7, <4>2
    <3>8. Sums(g, n)
      BY <3>6, <3>7
    <3>9. QED
      BY <2>1, <3>8
  <2>4. QED
    BY <2>2, <2>3
<1>2. PICK n \in Nat : n = Cardinality(Skills)
  BY <1>f
<1>3. Small(n) = SUBSET Skills
  <2>1. \A S \in SUBSET Skills : Cardinality(S) <= n
    BY <1>2, ProgressionAssumption, FS_Subset
  <2>2. QED
    BY <2>1
<1>4. PICK f : Sums(f, n)
  BY <1>1
<1>5. \A S \in SUBSET Skills : SpOf[S] = IF S = {} THEN 0 ELSE FirstOf(S).sp + SpOf[S \ {FirstOf(S)}]
  <2>1. f = [S \in SUBSET Skills |-> IF S = {} THEN 0 ELSE FirstOf(S).sp + f[S \ {FirstOf(S)}]]
    <3>1. \A S \in SUBSET Skills : f[S] = IF S = {} THEN 0 ELSE FirstOf(S).sp + f[S \ {FirstOf(S)}]
      BY <1>3, <1>4
    <3>2. f = [S \in SUBSET Skills |-> f[S]]
      BY <1>3, <1>4
    <3>3. QED
      BY <3>1, <3>2
  <2>2. SpOf = [S \in SUBSET Skills |-> IF S = {} THEN 0 ELSE FirstOf(S).sp + SpOf[S \ {FirstOf(S)}]]
    BY <2>1 DEF SpOf, FirstOf
  <2>3. PICK u : u = SpOf
    OBVIOUS
  <2>4. u = [S \in SUBSET Skills |-> IF S = {} THEN 0 ELSE FirstOf(S).sp + u[S \ {FirstOf(S)}]]
    BY <2>2, <2>3
  <2>5. \A S \in SUBSET Skills : u[S] = IF S = {} THEN 0 ELSE FirstOf(S).sp + u[S \ {FirstOf(S)}]
    BY <2>4
  <2>6. QED
    BY <2>3, <2>5
<1>6. \A S \in SUBSET Skills : SpOf[S] \in Nat
  <2> DEFINE Odd == {m \in Nat : \E S \in SUBSET Skills : Cardinality(S) = m /\ SpOf[S] \notin Nat}
  <2>1. SUFFICES ASSUME Odd # {} PROVE FALSE
    BY <1>f
  <2>2. PICK m \in Odd : \A k \in Odd : m <= k
    BY <2>1, Least
  <2>3. PICK S \in SUBSET Skills : Cardinality(S) = m /\ SpOf[S] \notin Nat
    BY <2>2
  <2>4. S # {}
    BY <1>5, <2>3
  <2>5. PICK x : x = FirstOf(S)
    OBVIOUS
  <2>6. x \in Skills /\ S \ {x} \in SUBSET Skills /\ Cardinality(S \ {x}) = m - 1 /\ m > 0
    BY <1>r, <2>3, <2>4, <2>5
  <2>7. m - 1 \in Nat /\ ~(m <= m - 1)
    BY <2>2, <2>6
  <2>8. m - 1 \notin Odd
    BY <2>2, <2>7, Zenon
  <2>9. SpOf[S \ {x}] \in Nat
    BY <2>6, <2>7, <2>8
  <2>10. SpOf[S] = x.sp + SpOf[S \ {x}]
    BY <1>5, <2>4, <2>5
  <2>11. QED
    BY <1>0, <2>3, <2>6, <2>9, <2>10
<1>7. QED
  BY <1>5, <1>6

\* In whichever order skills are added up.
LEMMA SpOfAny ==
    ASSUME NEW S \in SUBSET Skills, NEW x \in S
    PROVE  SpOf[S] = x.sp + SpOf[S \ {x}]
<1>0. \A s \in Skills : s.sp \in Nat
  BY ProgressionAssumption
<1>f. \A T \in SUBSET Skills : IsFiniteSet(T) /\ Cardinality(T) \in Nat
  BY ProgressionAssumption, FS_Subset, FS_CardinalityType
<1>r. \A T \in SUBSET Skills : \A y \in T : T \ {y} \in SUBSET Skills /\ Cardinality(T \ {y}) = Cardinality(T) - 1
  BY <1>f, FS_RemoveElement
<1> DEFINE Odd == {m \in Nat : \E T \in SUBSET Skills : \E y \in T :
                                 Cardinality(T) = m /\ SpOf[T] # y.sp + SpOf[T \ {y}]}
<1>1. SUFFICES ASSUME Odd # {} PROVE FALSE
  BY <1>f
<1>2. PICK m \in Odd : \A k \in Odd : m <= k
  BY <1>1, Least
<1>3T. PICK T \in SUBSET Skills : \E y \in T : Cardinality(T) = m /\ SpOf[T] # y.sp + SpOf[T \ {y}]
  BY <1>2
<1>3. PICK y \in T : Cardinality(T) = m /\ SpOf[T] # y.sp + SpOf[T \ {y}]
  BY <1>3T
<1>4. PICK z : z = FirstOf(T)
  OBVIOUS
<1>5. z \in T /\ SpOf[T] = z.sp + SpOf[T \ {z}]
  <2>1. T # {}
    BY <1>3
  <2>2. z \in T
    BY <1>4, <2>1 DEF FirstOf
  <2>3. QED
    BY <1>4, <2>1, <2>2, SpOfIs
<1>6. y # z
  BY <1>3, <1>5
<1>7. m - 1 \in Nat /\ ~(m <= m - 1)
  <2>1. Cardinality(T \ {y}) = m - 1 /\ Cardinality(T \ {y}) \in Nat
    BY <1>f, <1>r, <1>3
  <2>2. QED
    BY <1>2, <2>1
<1>8. m - 1 \notin Odd
  BY <1>2, <1>7, Zenon
<1>9. \A U \in SUBSET Skills : \A w \in U : Cardinality(U) = m - 1 => SpOf[U] = w.sp + SpOf[U \ {w}]
  BY <1>7, <1>8
<1>10. PICK R : R = (T \ {y}) \ {z}
  OBVIOUS
<1>11. R = (T \ {z}) \ {y} /\ R \in SUBSET Skills
  BY <1>10
<1>12. SpOf[T \ {z}] = y.sp + SpOf[R]
  <2>1. T \ {z} \in SUBSET Skills /\ y \in T \ {z} /\ Cardinality(T \ {z}) = m - 1
    BY <1>r, <1>3, <1>5, <1>6
  <2>2. QED
    BY <1>9, <1>11, <2>1
<1>13. SpOf[T \ {y}] = z.sp + SpOf[R]
  <2>1. T \ {y} \in SUBSET Skills /\ z \in T \ {y} /\ Cardinality(T \ {y}) = m - 1
    BY <1>r, <1>3, <1>5, <1>6
  <2>2. QED
    BY <1>9, <1>10, <2>1
<1>14. SpOf[R] \in Nat /\ y.sp \in Nat /\ z.sp \in Nat
  BY <1>0, <1>3, <1>5, <1>11, SpOfIs
<1>15. QED
  BY <1>3, <1>5, <1>12, <1>13, <1>14

\* More skills cost no less.
LEMMA SpOfMore ==
    ASSUME NEW S \in SUBSET Skills, NEW T \in SUBSET Skills, S \subseteq T
    PROVE  SpOf[S] <= SpOf[T]
<1>0. \A s \in Skills : s.sp \in Nat
  BY ProgressionAssumption
<1>f. \A U \in SUBSET Skills : IsFiniteSet(U) /\ Cardinality(U) \in Nat
  BY ProgressionAssumption, FS_Subset, FS_CardinalityType
<1> DEFINE Odd == {m \in Nat : \E U \in SUBSET Skills :
                                 Cardinality(U) = m /\ S \subseteq U /\ ~(SpOf[S] <= SpOf[U])}
<1>1. SUFFICES ASSUME Odd # {} PROVE FALSE
  BY <1>f
<1>2. PICK m \in Odd : \A k \in Odd : m <= k
  BY <1>1, Least
<1>3. PICK U \in SUBSET Skills : Cardinality(U) = m /\ S \subseteq U /\ ~(SpOf[S] <= SpOf[U])
  BY <1>2
<1>4. U # S
  <2>1. SpOf[S] \in Nat
    BY SpOfIs
  <2>2. SpOf[S] <= SpOf[S]
    BY <2>1
  <2>3. QED
    BY <1>3, <2>2
<1>5. PICK y \in U : y \notin S
  BY <1>3, <1>4
<1>6. U \ {y} \in SUBSET Skills /\ S \subseteq U \ {y} /\ Cardinality(U \ {y}) = m - 1 /\ m - 1 \in Nat
  <2>1. U \ {y} \in SUBSET Skills /\ S \subseteq U \ {y}
    BY <1>3, <1>5
  <2>2. Cardinality(U \ {y}) = m - 1
    BY <1>f, <1>3, <1>5, FS_RemoveElement
  <2>3. Cardinality(U \ {y}) \in Nat
    BY <1>f, <2>1
  <2>4. QED
    BY <2>1, <2>2, <2>3
<1>7. ~(m <= m - 1)
  BY <1>2
<1>8. m - 1 \notin Odd
  BY <1>2, <1>7, Zenon
<1>9. SpOf[S] <= SpOf[U \ {y}]
  BY <1>6, <1>8
<1>10. SpOf[U] = y.sp + SpOf[U \ {y}]
  BY <1>5, SpOfAny
<1>11. y.sp \in Nat /\ SpOf[S] \in Nat /\ SpOf[U] \in Nat /\ SpOf[U \ {y}] \in Nat
  BY <1>0, <1>5, <1>6, SpOfIs
<1>12. QED
  BY <1>3, <1>9, <1>10, <1>11

-----------------------------------------------------------------------------
(* Types.                                                                  *)

StatSheet == [STR : Nat, INT : Nat]
U32 == {n \in Nat : n < 2 * HalfWord}

\* What the columns of a component may hold, and what a task may write to them.
Column(c) ==
    IF c = "level" THEN 1..Top
    ELSE IF c = "exp" THEN Nat \X (0..(ExpPerSp - 1))
    ELSE IF c = "sp" THEN U32
    ELSE IF c = "stats" THEN StatSheet \X Nat
    ELSE IF c = "gold" THEN Int
    ELSE IF c = "skill" THEN [Groups -> Nat]
    ELSE Nat
SomeSkills == UNION {[G -> Nat] : G \in SUBSET Groups}
Task(c) == IF c = "skill" THEN SomeSkills ELSE Column(c)

IsRow(r) == r = [c \in Components |-> r[c]] /\ \A c \in Components : r[c] \in Column(c)

PlayerOK ==
    /\ level \in 1..Top /\ exp \in Nat /\ spExp \in 0..(ExpPerSp - 1) /\ sp \in U32
    /\ stats \in StatSheet /\ points \in Nat /\ hp \in Nat
    /\ mastery \in Nat /\ skill \in [Groups -> Nat] /\ learned \in SUBSET Groups
    /\ gold \in Nat /\ spent \in Nat /\ given \in Nat

LoginOK == login \in [level : 1..Top, exp : Nat, stats : StatSheet, hp : Nat]

RowsOK ==
    /\ IsRow(row) /\ IsRow(saved) /\ row["gold"] \in (-HalfWord)..(HalfWord - 1)
    /\ tasks = [c \in Components |-> tasks[c]]
    /\ \A c \in Components : tasks[c] \in Seq(Task(c))

TypeInv == PlayerOK /\ LoginOK /\ RowsOK

-----------------------------------------------------------------------------
(* What the row will hold when the tasks under way are done.               *)

Want(c) == IF c = "gold" THEN AsI32(saved["gold"]) ELSE saved[c]
Latest(c) == IF tasks[c] = << >> THEN row[c] ELSE Stored(c, tasks[c][Len(tasks[c])])

\* The last task that writes a skill writes the saved level; if none does the row has it.
SkillComes(g) ==
    LET t == tasks["skill"] IN
    \/ /\ \A i \in 1..Len(t) : g \notin DOMAIN t[i]
       /\ row["skill"][g] = saved["skill"][g]
    \/ \E i \in 1..Len(t) :
         /\ g \in DOMAIN t[i] /\ t[i][g] = saved["skill"][g]
         /\ \A j \in (i + 1)..Len(t) : g \notin DOMAIN t[j]

Writes ==
    /\ excuses = {} => /\ \A c \in Components \ {"skill"} : Latest(c) = Want(c)
                       /\ \A g \in Groups : SkillComes(g)
    /\ phase # "off" => \A g \in Groups \ learned : skill[g] = saved["skill"][g]

\* Cutting to 32 bits, and a column of 32 bits read back as 64.
LEMMA Cut ==
    /\ \A n \in Int : AsI32(n) \in (-HalfWord)..(HalfWord - 1) /\ AsU64(n) \in Nat
    /\ \A n \in (-HalfWord)..(HalfWord - 1) : AsI32(n) = n /\ AsI32(AsU64(n)) = n
<1>0. PICK h \in Nat : h = HalfWord /\ h > 0
  BY ProgressionAssumption
<1>1. ASSUME NEW n \in Int PROVE n % (2 * h) \in 0..(2 * h - 1) /\ n % (4 * h) \in 0..(4 * h - 1)
  <2>1. PICK a \in Nat, b \in Nat : a = 2 * h /\ b = 4 * h /\ a > 0 /\ b > 0
    BY <1>0
  <2>2. n % a \in 0..(a - 1) /\ n % b \in 0..(b - 1)
    BY <2>1
  <2>3. QED
    BY <2>1, <2>2
<1>2. ASSUME NEW n \in Int PROVE AsI32(n) \in (-h)..(h - 1) /\ AsU64(n) \in Nat
  <2>1. PICK w \in 0..(2 * h - 1) : w = n % (2 * h)
    BY <1>1
  <2>2. AsI32(n) = IF w < h THEN w ELSE w - 2 * h
    BY <1>0, <2>1 DEF AsI32
  <2>3. AsU64(n) \in Nat
    BY <1>0, <1>1 DEF AsU64
  <2>4. QED
    BY <1>0, <2>1, <2>2, <2>3
<1>3. ASSUME NEW n \in Nat, n < h PROVE n % (2 * h) = n /\ n % (4 * h) = n
  <2>1. PICK a \in Nat, b \in Nat : a = 2 * h /\ b = 4 * h /\ n < a /\ n < b
    BY <1>0, <1>3
  <2>2. n % a = n /\ n % b = n
    BY <2>1
  <2>3. QED
    BY <2>1, <2>2
<1>4. ASSUME NEW n \in (-h)..(0 - 1)
      PROVE  n % (2 * h) = n + 2 * h /\ n % (4 * h) = n + 4 * h /\ (n + 4 * h) % (2 * h) = n + 2 * h
  <2>1. PICK a \in Nat, b \in Nat, m \in Nat : a = 2 * h /\ b = 4 * h /\ m = n + a /\ m < a /\ n + b \in Nat /\ n + b < b /\ n + b = m + a
    BY <1>0
  <2>2. n % a = n + a /\ n % b = n + b /\ (m + a) % a = m
    BY <2>1
  <2>3. QED
    BY <2>1, <2>2
<1>5. ASSUME NEW n \in (-h)..(h - 1) PROVE AsI32(n) = n /\ AsI32(AsU64(n)) = n
  <2>1. CASE n \in Nat /\ n < h
    <3>1. AsU64(n) = n /\ AsI32(n) = n
      BY <1>0, <1>3, <2>1 DEF AsU64, AsI32
    <3>2. QED
      BY <3>1
  <2>2. CASE n \in (-h)..(0 - 1)
    <3>1. AsU64(n) = n + 4 * h
      BY <1>0, <1>4, <2>2 DEF AsU64
    <3>2. AsI32(n) = n
      <4>1. n % (2 * h) = n + 2 * h /\ ~(n + 2 * h < h) /\ (n + 2 * h) - 2 * h = n
        BY <1>0, <1>4, <2>2
      <4>2. QED
        BY <1>0, <4>1 DEF AsI32
    <3>3. AsI32(n + 4 * h) = n
      <4>1. (n + 4 * h) % (2 * h) = n + 2 * h /\ ~(n + 2 * h < h) /\ (n + 2 * h) - 2 * h = n
        BY <1>0, <1>4, <2>2
      <4>2. QED
        BY <1>0, <4>1 DEF AsI32
    <3>4. QED
      BY <3>1, <3>2, <3>3
  <2>3. QED
    BY <1>0, <2>1, <2>2
<1>6. QED
  BY <1>0, <1>2, <1>5

\* What fits a type is not cut.
LEMMA Widths ==
    /\ 4 * HalfWord \in Nat \ {0}
    /\ \A n \in Int : AsU64(n) \in Nat /\ AsU32(n) \in U32
    /\ \A n \in Nat : n < 4 * HalfWord => AsU64(n) = n
    /\ \A n \in U32 : n \in Nat /\ AsU32(n) = n
<1>0. PICK a \in Nat, b \in Nat : a = 2 * HalfWord /\ b = 4 * HalfWord /\ a > 0 /\ b > 0
  BY ProgressionAssumption
<1>1. \A n \in Int : n % a \in Nat /\ n % a < a /\ n % b \in Nat
  BY <1>0
<1>2. \A n \in Nat : (n < a => n % a = n) /\ (n < b => n % b = n)
  OBVIOUS
<1>3. \A n : AsU64(n) = n % b /\ AsU32(n) = n % a
  BY <1>0 DEF AsU64, AsU32
<1>4. \A n \in Int : AsU64(n) \in Nat /\ AsU32(n) \in U32
  BY <1>0, <1>1, <1>3 DEF U32
<1>5. \A n \in Nat : n < 4 * HalfWord => AsU64(n) = n
  BY <1>0, <1>2, <1>3
<1>6. \A n \in U32 : n \in Nat /\ AsU32(n) = n
  BY <1>0, <1>2, <1>3 DEF U32
<1>7. QED
  BY <1>0, <1>4, <1>5, <1>6

\* Numbers that differ by a multiple of the modulus have the same remainder.
LEMMA Congruent ==
    \A M \in Nat \ {0} : \A x \in Nat, y \in Nat, k \in Int : x = y + M * k => x % M = y % M
<1> SUFFICES ASSUME NEW M \in Nat \ {0}, NEW x \in Nat, NEW y \in Nat, NEW k \in Int, x = y + M * k
             PROVE  x % M = y % M
  OBVIOUS
<1>1. PICK q \in Nat, r \in 0..(M - 1) : q = x \div M /\ r = x % M /\ x = M * q + r
  BY DivMod, Zenon
<1>2. PICK u \in Nat, v \in 0..(M - 1) : u = y \div M /\ v = y % M /\ y = M * u + v
  BY DivMod, Zenon
<1>3. PICK d \in Int : d = (u + k) - q
  OBVIOUS
<1>4. M * d = (M * u + M * k) - M * q
  BY <1>3
<1>5. M * u \in Int /\ M * k \in Int /\ M * q \in Int
  OBVIOUS
<1>6. M * d = r - v
  BY <1>1, <1>2, <1>4, <1>5
<1>7. d >= 1 => M * d >= M
  OBVIOUS
<1>8. d <= 0 - 1 => M * d <= 0 - M
  OBVIOUS
<1>9. d = 0
  BY <1>6, <1>7, <1>8
<1>10. QED
  BY <1>1, <1>2, <1>6, <1>9

\* The character as it was created is a row.
LEMMA FirstIs ==
    /\ First["gold"] \in (-HalfWord)..(HalfWord - 1)
    /\ \A c \in Components : First[c] \in Column(c)
<1>0. Start.sp \in U32 /\ Start.points \in Nat /\ Start.gold \in 0..(HalfWord - 1) /\ HalfWord \in Nat /\ HalfWord > 0
  BY ProgressionAssumption DEF U32
<1>1. 1 \in 1..Top /\ 20 \in Nat
  BY TopIs
<1>2. MaxBar(20, 1) \in Nat
  BY <1>1, BarGrows
<1>3. /\ First["level"] = 1 /\ First["exp"] = <<0, 0>> /\ First["sp"] = Start.sp
      /\ First["stats"] = <<[STR |-> 20, INT |-> 20], Start.points>> /\ First["hp"] = MaxBar(20, 1)
      /\ First["gold"] = Start.gold /\ First["mastery"] = 0 /\ First["skill"] = [g \in Groups |-> 0]
  BY DEF First
<1>4. <<0, 0>> \in Nat \X (0..(ExpPerSp - 1))
  BY ProgressionAssumption
<1>5. <<[STR |-> 20, INT |-> 20], Start.points>> \in StatSheet \X Nat
  BY <1>0 DEF StatSheet
<1>6. First["gold"] \in (-HalfWord)..(HalfWord - 1) /\ First["gold"] \in Int
  BY <1>0, <1>3
<1>7. ASSUME NEW c \in Components PROVE First[c] \in Column(c)
  <2>1. CASE c \in {"level", "exp", "sp", "stats"}
    BY <1>0, <1>1, <1>3, <1>4, <1>5, <2>1 DEF Column
  <2>2. CASE c \in {"hp", "gold", "mastery", "skill"}
    BY <1>2, <1>3, <1>6, <2>2 DEF Column
  <2>3. QED
    BY <2>1, <2>2 DEF Components
<1>8. QED
  BY <1>6, <1>7

\* A snapshot has all columns of a player.
LEMMA SnapshotIs ==
    ASSUME PlayerOK
    PROVE  /\ IsRow(Snapshot)
           /\ Snapshot["level"] = level /\ Snapshot["exp"] = <<exp, spExp>> /\ Snapshot["mastery"] = mastery
           /\ Snapshot["gold"] = gold /\ Snapshot["skill"] = skill
<1>1. Snapshot = [c \in Components |-> Snapshot[c]]
  BY DEF Snapshot, Components
<1>2. /\ Snapshot["level"] = level /\ Snapshot["exp"] = <<exp, spExp>> /\ Snapshot["sp"] = sp
      /\ Snapshot["stats"] = <<stats, points>> /\ Snapshot["hp"] = hp /\ Snapshot["gold"] = gold
      /\ Snapshot["mastery"] = mastery /\ Snapshot["skill"] = skill
  BY DEF Snapshot
<1>3. <<exp, spExp>> \in Nat \X (0..(ExpPerSp - 1)) /\ <<stats, points>> \in StatSheet \X Nat
  BY DEF PlayerOK
<1>4. ASSUME NEW c \in Components PROVE Snapshot[c] \in Column(c)
  <2>1. CASE c \in {"level", "exp", "sp", "stats"}
    BY <1>2, <1>3, <2>1 DEF PlayerOK, Column
  <2>2. CASE c \in {"hp", "gold", "mastery", "skill"}
    BY <1>2, <2>2 DEF PlayerOK, Column
  <2>3. QED
    BY <2>1, <2>2 DEF Components
<1>5. QED
  BY <1>1, <1>2, <1>4 DEF IsRow

\* A row is read the same by column and by name.
LEMMA RowFields ==
    ASSUME NEW r, IsRow(r)
    PROVE  /\ r.level = r["level"] /\ r.exp = r["exp"] /\ r.sp = r["sp"] /\ r.stats = r["stats"]
           /\ r.hp = r["hp"] /\ r.gold = r["gold"] /\ r.mastery = r["mastery"] /\ r.skill = r["skill"]
           /\ r.level \in 1..Top /\ r.exp \in Nat \X (0..(ExpPerSp - 1)) /\ r.sp \in U32
           /\ r.stats \in StatSheet \X Nat /\ r.hp \in Nat /\ r.gold \in Int /\ r.mastery \in Nat
           /\ r.skill \in [Groups -> Nat]
<1>1. /\ r["level"] \in Column("level") /\ r["exp"] \in Column("exp") /\ r["sp"] \in Column("sp")
      /\ r["stats"] \in Column("stats") /\ r["hp"] \in Column("hp") /\ r["gold"] \in Column("gold")
      /\ r["mastery"] \in Column("mastery") /\ r["skill"] \in Column("skill")
  BY DEF IsRow, Components
<1>2. /\ r["level"] \in 1..Top /\ r["exp"] \in Nat \X (0..(ExpPerSp - 1)) /\ r["sp"] \in U32
      /\ r["stats"] \in StatSheet \X Nat /\ r["hp"] \in Nat /\ r["gold"] \in Int /\ r["mastery"] \in Nat
      /\ r["skill"] \in [Groups -> Nat]
  BY <1>1 DEF Column
<1>3. QED
  BY <1>2

\* What a task writes, for all but the skills.
LEMMA StoredIs ==
    ASSUME NEW c \in Components \ {"skill"}, NEW v
    PROVE  Stored(c, v) = IF c = "gold" THEN AsI32(v) ELSE v
  BY DEF Stored

\* A save: the tasks under way end with all of the player's columns.
LEMMA EnqueueKeeps ==
    ASSUME TypeInv, Writes, phase # "off", Enqueue
    PROVE  /\ RowsOK' /\ learned' = {} /\ saved' = Snapshot /\ excuses' = excuses
           /\ excuses = {} => /\ \A c \in Components \ {"skill"} : Latest(c)' = Want(c)'
                              /\ \A g \in Groups : SkillComes(g)'
<1>0. PlayerOK /\ RowsOK /\ IsRow(row) /\ \A c \in Components : tasks[c] \in Seq(Task(c))
  BY DEF TypeInv, RowsOK
<1>1. PICK snap : snap = Snapshot
  OBVIOUS
<1>2. IsRow(snap) /\ snap["gold"] = gold /\ snap["skill"] = skill
  BY <1>0, <1>1, SnapshotIs
<1>3. PICK known : known = [snap EXCEPT !.skill = LearnedSkills]
  OBVIOUS
<1>4. known["skill"] = LearnedSkills /\ \A c \in Components \ {"skill"} : known[c] = snap[c]
  BY <1>2, <1>3 DEF IsRow, Components
<1>5. LearnedSkills \in [learned -> Nat] /\ \A g \in learned : LearnedSkills[g] = skill[g]
  BY <1>0 DEF PlayerOK, LearnedSkills, Restrict
<1>6. \A c \in Components : known[c] \in Task(c)
  <2>1. learned \in SUBSET Groups
    BY <1>0 DEF PlayerOK
  <2>2. LearnedSkills \in SomeSkills
    BY <1>5, <2>1, Zenon DEF SomeSkills
  <2>3. QED
    BY <1>2, <1>4, <2>2 DEF Task, IsRow
<1>7. PICK new : new = [c \in Components |-> IF c = "skill" THEN learned # {} ELSE tasks[c] # << >> \/ row[c] # known[c]]
  OBVIOUS
<1>8. /\ saved' = snap /\ learned' = {} /\ row' = row /\ excuses' = excuses
      /\ tasks' = [c \in Components |-> IF new[c] THEN Append(tasks[c], known[c]) ELSE tasks[c]]
  <2>1. /\ saved' = snap /\ learned' = {} /\ row' = row /\ excuses' = excuses
        /\ tasks' = [c \in Components |->
              IF (IF c = "skill" THEN learned # {} ELSE tasks[c] # << >> \/ row[c] # known[c])
                THEN Append(tasks[c], known[c]) ELSE tasks[c]]
    BY <1>1, <1>3 DEF Enqueue
  <2>2. \A c \in Components :
          new[c] = (IF c = "skill" THEN learned # {} ELSE tasks[c] # << >> \/ row[c] # known[c])
    BY <1>7, Zenon
  <2>3. QED
    BY <2>1, <2>2, Zenon
<1>9. \A c \in Components : tasks'[c] = IF new[c] THEN Append(tasks[c], known[c]) ELSE tasks[c]
  BY <1>8
<1>10. RowsOK'
  <2>1. \A c \in Components : Append(tasks[c], known[c]) \in Seq(Task(c))
    BY <1>0, <1>6
  <2>2. \A c \in Components : tasks'[c] \in Seq(Task(c))
    BY <1>0, <1>9, <2>1
  <2>3. tasks' = [c \in Components |-> tasks'[c]]
    BY <1>8
  <2>4. IsRow(row') /\ IsRow(saved') /\ row'["gold"] = row["gold"]
    BY <1>0, <1>2, <1>8
  <2>5. QED
    BY <1>0, <2>2, <2>3, <2>4 DEF RowsOK
<1>11. ASSUME NEW c \in Components \ {"skill"}, excuses = {} PROVE Latest(c)' = Want(c)'
  <2>0. Want(c)' = IF c = "gold" THEN AsI32(snap["gold"]) ELSE snap[c]
    BY <1>8 DEF Want
  <2>s. ASSUME NEW v PROVE Stored(c, v)' = IF c = "gold" THEN AsI32(v) ELSE v
    BY DEF Stored
  <2>1. CASE tasks[c] # << >> \/ row[c] # known[c]
    <3>1. tasks'[c] = Append(tasks[c], known[c])
      BY <1>7, <1>9, <2>1
    <3>2. PICK t : t = tasks[c]
      OBVIOUS
    <3>3. t \in Seq(Task(c)) /\ known[c] \in Task(c)
      BY <1>0, <1>6, <3>2
    <3>4. tasks'[c] # << >> /\ tasks'[c][Len(tasks'[c])] = known[c]
      BY <3>1, <3>2, <3>3
    <3>5. Latest(c)' = Stored(c, known[c])'
      BY <3>4 DEF Latest
    <3>6. QED
      BY <1>4, <2>0, <2>s, <3>5
  <2>2. CASE tasks[c] = << >> /\ row[c] = known[c]
    <3>1. tasks'[c] = << >>
      BY <1>7, <1>9, <2>2
    <3>2. Latest(c)' = snap[c]
      BY <1>4, <1>8, <2>2, <3>1 DEF Latest
    <3>3. c = "gold" => AsI32(snap["gold"]) = snap["gold"]
      BY <1>0, <1>4, <2>2, Cut DEF RowsOK
    <3>4. QED
      BY <2>0, <3>2, <3>3
  <2>3. QED
    BY <2>1, <2>2
<1>12. ASSUME NEW g \in Groups, excuses = {} PROVE SkillComes(g)'
  <2>1. PICK t : t = tasks["skill"]
    OBVIOUS
  <2>2. t \in Seq(SomeSkills) /\ Len(t) \in Nat
    BY <1>0, <2>1 DEF Components, Task
  <2>3. CASE learned = {}
    <3>1. tasks'["skill"] = t
      BY <1>7, <1>9, <2>1, <2>3 DEF Components
    <3>2. saved'["skill"][g] = saved["skill"][g]
      BY <1>2, <1>8, <2>3 DEF Writes
    <3>3. SkillComes(g)
      BY <1>12 DEF Writes
    <3>4. QED
      BY <1>8, <2>1, <3>1, <3>2, <3>3 DEF SkillComes
  <2>4. CASE learned # {}
    <3>1. tasks'["skill"] = Append(t, LearnedSkills)
      BY <1>4, <1>7, <1>9, <2>1, <2>4 DEF Components
    <3>2. PICK u : u = Append(t, LearnedSkills)
      OBVIOUS
    <3>3. LearnedSkills \in SomeSkills
      BY <1>4, <1>6 DEF Components, Task
    <3>4. Len(u) = Len(t) + 1 /\ u[Len(t) + 1] = LearnedSkills /\ \A i \in 1..Len(t) : u[i] = t[i]
      BY <2>2, <3>2, <3>3
    <3>5. saved'["skill"] = skill /\ DOMAIN LearnedSkills = learned
      BY <1>2, <1>5, <1>8
    <3>6. CASE g \in learned
      <4>1. Len(u) \in 1..Len(u) /\ \A j \in (Len(u) + 1)..Len(u) : FALSE
        BY <2>2, <3>4
      <4>2. g \in DOMAIN u[Len(u)] /\ u[Len(u)][g] = saved'["skill"][g]
        BY <1>5, <3>4, <3>5, <3>6
      <4>3. QED
        BY <3>1, <3>2, <4>1, <4>2 DEF SkillComes
    <3>7. CASE g \notin learned
      <4>1. skill[g] = saved["skill"][g]
        BY <3>7 DEF Writes
      <4>2. SkillComes(g)
        BY <1>12 DEF Writes
      <4>3. CASE /\ \A i \in 1..Len(t) : g \notin DOMAIN t[i]
                 /\ row["skill"][g] = saved["skill"][g]
        <5>1. \A i \in 1..Len(u) : i \in 1..Len(t) \/ i = Len(t) + 1
          BY <2>2, <3>4
        <5>2. \A i \in 1..Len(u) : g \notin DOMAIN u[i]
          BY <3>4, <3>5, <3>7, <4>3, <5>1
        <5>3. QED
          BY <1>8, <3>1, <3>2, <3>5, <4>1, <4>3, <5>2 DEF SkillComes
      <4>4. CASE \E i \in 1..Len(t) :
                   /\ g \in DOMAIN t[i] /\ t[i][g] = saved["skill"][g]
                   /\ \A j \in (i + 1)..Len(t) : g \notin DOMAIN t[j]
        <5>1. PICK i \in 1..Len(t) :
                   /\ g \in DOMAIN t[i] /\ t[i][g] = saved["skill"][g]
                   /\ \A j \in (i + 1)..Len(t) : g \notin DOMAIN t[j]
          BY <4>4
        <5>2. i \in 1..Len(u) /\ \A j \in (i + 1)..Len(u) : (j \in (i + 1)..Len(t) /\ j \in 1..Len(t)) \/ j = Len(t) + 1
          BY <2>2, <3>4
        <5>3. \A j \in (i + 1)..Len(u) : g \notin DOMAIN u[j]
          BY <3>4, <3>5, <3>7, <5>1, <5>2
        <5>4. g \in DOMAIN u[i] /\ u[i][g] = saved'["skill"][g]
          BY <3>4, <3>5, <4>1, <5>1
        <5>5. QED
          BY <3>1, <3>2, <5>2, <5>3, <5>4 DEF SkillComes
      <4>5. QED
        BY <2>1, <4>2, <4>3, <4>4 DEF SkillComes
    <3>8. QED
      BY <3>6, <3>7
  <2>5. QED
    BY <2>3, <2>4
<1>13. QED
  BY <1>1, <1>8, <1>10, <1>11, <1>12

\* The tasks that are left when one of them is done.
LEMMA RemoveIs ==
    ASSUME NEW S, NEW s \in Seq(S), NEW i \in 1..Len(s)
    PROVE  /\ Remove(s, i) \in Seq(S) /\ Len(Remove(s, i)) = Len(s) - 1 /\ Len(s) \in Nat \ {0}
           /\ \A j \in 1..(Len(s) - 1) : Remove(s, i)[j] = IF j < i THEN s[j] ELSE s[j + 1]
<1>1. PICK n \in Nat : n = Len(s) /\ n # 0
  OBVIOUS
<1>2. \A j \in 1..(n - 1) : (IF j < i THEN s[j] ELSE s[j + 1]) \in S
  <2>1. \A j \in 1..(n - 1) : j \in 1..n /\ j + 1 \in 1..n
    BY <1>1
  <2>2. \A j \in 1..n : s[j] \in S
    BY <1>1
  <2>3. QED
    BY <2>1, <2>2
<1>3. PICK r : r = [j \in 1..(n - 1) |-> IF j < i THEN s[j] ELSE s[j + 1]]
  OBVIOUS
<1>4. n - 1 \in Nat /\ r \in [1..(n - 1) -> S]
  BY <1>1, <1>2, <1>3
<1>5. r \in Seq(S) /\ Len(r) = n - 1
  BY <1>4
<1>6. Remove(s, i) = r
  BY <1>1, <1>3 DEF Remove
<1>7. QED
  BY <1>1, <1>3, <1>5, <1>6

\* Writing some skills leaves the others of the row.
LEMMA OverIs ==
    ASSUME NEW v \in SomeSkills, NEW known \in [Groups -> Nat]
    PROVE  /\ Over(v, known) \in [Groups -> Nat]
           /\ \A g \in Groups : Over(v, known)[g] = IF g \in DOMAIN v THEN v[g] ELSE known[g]
<1>1. PICK G \in SUBSET Groups : v \in [G -> Nat]
  BY DEF SomeSkills
<1>2. QED
  BY <1>1 DEF Over

\* A task of a save is done: the row comes closer to what was saved, unless the
\* task was overtaken by that of a later save.
LEMMA ApplyKeeps ==
    ASSUME TypeInv, Writes, NEW c \in Components, NEW i \in 1..Len(tasks[c]), Apply(c, i)
    PROVE  RowsOK' /\ Writes'
<1>0. RowsOK /\ IsRow(row) /\ IsRow(saved) /\ (\A d \in Components : tasks[d] \in Seq(Task(d)))
  BY DEF TypeInv, RowsOK
<1>1. PICK t : t = tasks[c]
  OBVIOUS
<1>2. t \in Seq(Task(c)) /\ i \in 1..Len(t)
  BY <1>0, <1>1
<1>3. PICK n \in Nat : n = Len(t) /\ n # 0 /\ i \in 1..n
  BY <1>2
<1>5. PICK r : r = Remove(t, i)
  OBVIOUS
<1>6. r \in Seq(Task(c)) /\ Len(r) = n - 1 /\ \A j \in 1..(n - 1) : r[j] = IF j < i THEN t[j] ELSE t[j + 1]
  BY <1>2, <1>3, <1>5, RemoveIs
<1>7. PICK w : w = Stored(c, t[i])
  OBVIOUS
<1>8. /\ row' = [row EXCEPT ![c] = w] /\ tasks' = [tasks EXCEPT ![c] = r]
      /\ saved' = saved /\ UNCHANGED <<phase, learned, skill>>
      /\ excuses' = {} => excuses = {} /\ ~(i > 1)
  BY <1>1, <1>5, <1>7 DEF Apply, Excused, tick, bought
<1>9. /\ row' = [d \in Components |-> row'[d]] /\ tasks' = [d \in Components |-> tasks'[d]]
      /\ row'[c] = w /\ tasks'[c] = r
      /\ \A d \in Components \ {c} : row'[d] = row[d] /\ tasks'[d] = tasks[d]
  BY <1>0, <1>8 DEF IsRow, RowsOK
<1>10. t[i] \in Task(c) /\ row["skill"] \in [Groups -> Nat] /\ row.skill = row["skill"]
  BY <1>0, <1>2, RowFields
<1>11. c = "skill" => /\ w \in [Groups -> Nat]
                      /\ \A g \in Groups : w[g] = IF g \in DOMAIN t[i] THEN t[i][g] ELSE row["skill"][g]
  <2>1. SUFFICES ASSUME c = "skill"
                 PROVE  /\ w \in [Groups -> Nat]
                        /\ \A g \in Groups : w[g] = IF g \in DOMAIN t[i] THEN t[i][g] ELSE row["skill"][g]
    OBVIOUS
  <2>2. w = Over(t[i], row["skill"]) /\ t[i] \in SomeSkills
    BY <1>7, <1>10, <2>1 DEF Stored, Task
  <2>3. QED
    BY <1>10, <2>2, OverIs
<1>12. c # "skill" => w = IF c = "gold" THEN AsI32(t[i]) ELSE t[i]
  BY <1>7, StoredIs
<1>13. w \in Column(c) /\ (c = "gold" => w \in (-HalfWord)..(HalfWord - 1))
  <2>1. CASE c = "skill"
    BY <1>11, <2>1 DEF Column
  <2>2. CASE c = "gold"
    <3>1. t[i] \in Int
      BY <1>10, <2>2 DEF Task, Column
    <3>2. w \in (-HalfWord)..(HalfWord - 1) /\ w \in Int
      <4>1. w \in (-HalfWord)..(HalfWord - 1)
        BY <1>12, <2>2, <3>1, Cut
      <4>2. QED
        BY <4>1, ProgressionAssumption
    <3>3. QED
      BY <2>2, <3>2 DEF Column
  <2>3. CASE c \notin {"skill", "gold"}
    BY <1>10, <1>12, <2>3 DEF Task
  <2>4. QED
    BY <2>1, <2>2, <2>3
<1>14. RowsOK'
  <2>1. \A d \in Components : row'[d] \in Column(d) /\ tasks'[d] \in Seq(Task(d))
    <3>1. ASSUME NEW d \in Components PROVE row'[d] \in Column(d) /\ tasks'[d] \in Seq(Task(d))
      <4>1. CASE d = c
        BY <1>6, <1>9, <1>13, <4>1
      <4>2. CASE d # c
        BY <1>0, <1>9, <4>2 DEF IsRow
      <4>3. QED
        BY <4>1, <4>2
    <3>2. QED
      BY <3>1
  <2>2. row'["gold"] \in (-HalfWord)..(HalfWord - 1)
    <3>1. CASE c = "gold"
      BY <1>9, <1>13, <3>1
    <3>2. CASE c # "gold"
      BY <1>0, <1>9, <3>2 DEF RowsOK, Components
    <3>3. QED
      BY <3>1, <3>2
  <2>3. IsRow(row') /\ IsRow(saved')
    BY <1>0, <1>8, <1>9, <2>1 DEF IsRow
  <2>4. QED
    BY <1>9, <2>1, <2>2, <2>3 DEF RowsOK
<1>15. ASSUME excuses' = {} PROVE i = 1 /\ excuses = {}
  BY <1>3, <1>8, <1>15
<1>16. ASSUME NEW d \in Components \ {"skill"}, excuses' = {} PROVE Latest(d)' = Want(d)'
  <2>1. Latest(d) = Want(d) /\ i = 1
    BY <1>15, <1>16 DEF Writes
  <2>2. Want(d)' = Want(d)
    BY <1>8 DEF Want
  <2>3. \A x : Stored(d, x)' = Stored(d, x)
    BY DEF Stored
  <2>4. CASE d # c
    <3>1. tasks'[d] = tasks[d] /\ row'[d] = row[d]
      BY <1>9, <2>4
    <3>2. QED
      BY <2>1, <2>2, <2>3, <3>1 DEF Latest
  <2>5. CASE d = c /\ n = 1
    <3>1. tasks'[d] = << >> /\ row'[d] = w
      BY <1>6, <1>9, <2>5, EmptySeq
    <3>2. t # << >> /\ Latest(d) = Stored(d, t[1])
      BY <1>1, <1>2, <1>3, <2>5 DEF Latest
    <3>3. Latest(d)' = w
      BY <3>1 DEF Latest
    <3>4. QED
      BY <1>7, <2>1, <2>2, <2>5, <3>2, <3>3
  <2>6. CASE d = c /\ n # 1
    <3>1. n - 1 \in 1..(n - 1) /\ ~(n - 1 < 1) /\ (n - 1) + 1 = n
      BY <1>3, <2>6
    <3>2. r[Len(r)] = t[n] /\ r # << >>
      BY <1>6, <2>1, <3>1
    <3>3. t # << >> /\ Latest(d) = Stored(d, t[n])
      BY <1>1, <1>2, <1>3, <2>6 DEF Latest
    <3>4. Latest(d)' = Stored(d, t[n])'
      BY <1>9, <2>6, <3>2 DEF Latest
    <3>5. QED
      BY <2>1, <2>2, <2>3, <3>3, <3>4
  <2>7. QED
    BY <2>4, <2>5, <2>6
<1>17. ASSUME NEW g \in Groups, excuses' = {} PROVE SkillComes(g)'
  <2>1. SkillComes(g) /\ i = 1
    BY <1>15, <1>17 DEF Writes
  <2>2. CASE c # "skill"
    <3>1. tasks'["skill"] = tasks["skill"] /\ row'["skill"] = row["skill"]
      BY <1>9, <2>2 DEF Components
    <3>2. QED
      BY <1>8, <2>1, <3>1 DEF SkillComes
  <2>3. CASE c = "skill"
    <3>1. tasks'["skill"] = r /\ row'["skill"] = w /\ tasks["skill"] = t
      BY <1>1, <1>9, <2>3
    <3>2. \A j \in 1..(n - 1) : r[j] = t[j + 1] /\ j + 1 \in 1..n /\ j + 1 \in 2..n
      BY <1>3, <1>6, <2>1
    <3>3. CASE /\ \A j \in 1..n : g \notin DOMAIN t[j]
               /\ row["skill"][g] = saved["skill"][g]
      <4>1. \A j \in 1..Len(r) : g \notin DOMAIN r[j]
        BY <1>6, <3>2, <3>3
      <4>2. w[g] = saved["skill"][g]
        BY <1>3, <1>11, <2>3, <3>3
      <4>3. QED
        BY <1>8, <3>1, <4>1, <4>2 DEF SkillComes
    <3>4. CASE \E k \in 1..n : /\ g \in DOMAIN t[k] /\ t[k][g] = saved["skill"][g]
                               /\ \A j \in (k + 1)..n : g \notin DOMAIN t[j]
      <4>1. PICK k \in 1..n : /\ g \in DOMAIN t[k] /\ t[k][g] = saved["skill"][g]
                              /\ \A j \in (k + 1)..n : g \notin DOMAIN t[j]
        BY <3>4
      <4>2. CASE k = 1
        <5>1. \A j \in 1..Len(r) : g \notin DOMAIN r[j]
          <6>1. \A j \in 2..n : g \notin DOMAIN t[j]
            BY <4>1, <4>2
          <6>2. QED
            BY <1>6, <3>2, <6>1
        <5>2. w[g] = saved["skill"][g]
          BY <1>11, <2>1, <2>3, <4>1, <4>2
        <5>3. QED
          BY <1>8, <3>1, <5>1, <5>2 DEF SkillComes
      <4>3. CASE k # 1
        <5>1. PICK m \in 1..(n - 1) : m + 1 = k
          <6>1. k - 1 \in 1..(n - 1) /\ (k - 1) + 1 = k
            BY <1>3, <4>3
          <6>2. QED
            BY <6>1
        <5>2. g \in DOMAIN r[m] /\ r[m][g] = saved["skill"][g]
          BY <3>2, <4>1, <5>1
        <5>3. \A j \in (m + 1)..(n - 1) : j \in 1..(n - 1) /\ j + 1 \in (k + 1)..n
          BY <1>3, <5>1
        <5>4. \A j \in (m + 1)..(n - 1) : g \notin DOMAIN r[j]
          BY <3>2, <4>1, <5>3
        <5>5. QED
          BY <1>6, <1>8, <3>1, <5>1, <5>2, <5>4 DEF SkillComes
      <4>4. QED
        BY <4>2, <4>3
    <3>5. QED
      BY <1>3, <2>1, <3>1, <3>3, <3>4 DEF SkillComes
  <2>4. QED
    BY <2>2, <2>3
<1>18. phase' # "off" => \A g \in Groups \ learned' : skill'[g] = saved'["skill"][g]
  BY <1>8 DEF Writes
<1>19. QED
  BY <1>14, <1>16, <1>17, <1>18 DEF Writes

\* A task fails: that is an excuse.
LEMMA FailKeeps ==
    ASSUME TypeInv, Writes, NEW c \in Components, NEW i \in 1..Len(tasks[c]), Fail(c, i)
    PROVE  RowsOK' /\ Writes' /\ excuses' # {}
<1>0. RowsOK /\ (\A d \in Components : tasks[d] \in Seq(Task(d)))
  BY DEF TypeInv, RowsOK
<1>1. /\ tasks' = [tasks EXCEPT ![c] = Remove(tasks[c], i)] /\ "error" \in excuses'
      /\ UNCHANGED <<row, saved, phase, learned, skill>>
  BY DEF Fail, tick, bought
<1>2. Remove(tasks[c], i) \in Seq(Task(c))
  BY <1>0, RemoveIs
<1>3. tasks' = [d \in Components |-> tasks'[d]] /\ \A d \in Components : tasks'[d] \in Seq(Task(d))
  BY <1>0, <1>1, <1>2 DEF RowsOK
<1>4. RowsOK'
  BY <1>0, <1>1, <1>3 DEF RowsOK
<1>5. Writes'
  BY <1>1 DEF Writes
<1>6. QED
  BY <1>1, <1>4, <1>5

-----------------------------------------------------------------------------
(* The invariant that the properties rest on.                              *)

\* No level's worth of experience is left over, in the player or the last save.
Fits(l, e) == l < Top => e < ExpFor[l]
Whole == excuses = {} => Fits(level, exp) /\ Fits(saved["level"], saved["exp"][1])

Inv == TypeInv /\ Writes /\ Whole

\* The start of a character.
LEMMA InvInit == Init => Inv
<1> SUFFICES ASSUME Init PROVE Inv
  OBVIOUS
<1>0. Start.sp \in U32 /\ Start.points \in Nat /\ Start.gold \in 0..(HalfWord - 1) /\ HalfWord \in Nat /\ HalfWord > 0 /\ ExpPerSp \in Nat /\ ExpPerSp > 0
  BY ProgressionAssumption DEF U32
<1>1. PlayerOK
  <2>1. level \in 1..Top /\ exp \in Nat /\ spExp \in 0..(ExpPerSp - 1) /\ sp \in U32 /\ points \in Nat /\ mastery \in Nat /\ spent \in Nat /\ given \in Nat
    BY <1>0, TopIs DEF Init
  <2>2. stats \in StatSheet /\ skill \in [Groups -> Nat] /\ learned \in SUBSET Groups
    BY DEF Init, StatSheet
  <2>3. hp \in Nat
    <3>1. 1 \in 1..Top /\ 20 \in Nat
      BY TopIs
    <3>2. MaxBar(20, 1) \in Nat
      BY <3>1, BarGrows
    <3>3. QED
      BY <3>2 DEF Init
  <2>4. gold \in Nat
    BY <1>0 DEF Init
  <2>5. QED
    BY <2>1, <2>2, <2>3, <2>4 DEF PlayerOK
<1>2. LoginOK
  BY <1>1, TopIs DEF Init, LoginOK, PlayerOK
<1>3. row = Snapshot /\ saved = Snapshot /\ tasks = [c \in Components |-> << >>] /\ learned = {} /\ gold = Start.gold
  BY DEF Init
<1>4. IsRow(Snapshot) /\ Snapshot["gold"] = gold /\ Snapshot["level"] = level /\ Snapshot["exp"] = <<exp, spExp>> /\ Snapshot["skill"] = skill
  BY <1>1, SnapshotIs
<1>5. gold \in (-HalfWord)..(HalfWord - 1)
  BY <1>0, <1>3
<1>6. RowsOK
  <2>1. \A c \in Components : tasks[c] = << >> /\ tasks[c] \in Seq(Task(c))
    BY <1>3
  <2>2. tasks = [c \in Components |-> tasks[c]]
    BY <1>3
  <2>3. QED
    BY <1>3, <1>4, <1>5, <2>1, <2>2 DEF RowsOK
<1>7. Writes
  <2>1. \A c \in Components : Latest(c) = row[c]
    BY <1>3 DEF Latest
  <2>2. \A c \in Components : Want(c) = row[c]
    BY <1>3, <1>4, <1>5, Cut DEF Want
  <2>3. ASSUME NEW g \in Groups PROVE SkillComes(g)
    <3>1. tasks["skill"] = << >> /\ 1..Len(<< >>) = {}
      BY <1>3 DEF Components
    <3>2. QED
      BY <1>3, <3>1 DEF SkillComes
  <2>4. QED
    BY <1>3, <1>4, <2>1, <2>2, <2>3 DEF Writes
<1>8. Fits(level, exp)
  <2>1. level = 1 /\ exp = 0
    BY DEF Init
  <2>2. 1 < Top => ExpFor[1] \in Nat \ {0}
    BY TopIs
  <2>3. QED
    BY <2>1, <2>2 DEF Fits
<1>9. saved["level"] = level /\ saved["exp"][1] = exp
  BY <1>3, <1>4
<1>10. QED
  BY <1>1, <1>2, <1>6, <1>7, <1>8, <1>9 DEF Inv, TypeInv, Whole

\* A step of the player alone.
LEMMA PlayerAlone ==
    ASSUME Inv, UNCHANGED <<db, login, phase>>, PlayerOK', excuses = {} => Fits(level', exp'),
           learned \subseteq learned', \A g \in Groups \ learned' : skill'[g] = skill[g]
    PROVE  Inv'
<1>1. UNCHANGED <<row, tasks, saved, excuses, login, phase>>
  BY DEF db
<1>2. TypeInv'
  BY <1>1 DEF Inv, TypeInv, LoginOK, RowsOK, IsRow
<1>3. \A c : Latest(c)' = Latest(c) /\ Want(c)' = Want(c)
  BY <1>1 DEF Latest, Want, Stored
<1>4. \A g : SkillComes(g) => SkillComes(g)'
  BY <1>1 DEF SkillComes
<1>5. Writes'
  BY <1>1, <1>3, <1>4 DEF Inv, Writes
<1>6. Whole'
  BY <1>1 DEF Inv, Whole
<1>7. QED
  BY <1>2, <1>5, <1>6 DEF Inv

\* Experience: levels are paid and SP converted.
LEMMA ReceiveKeeps ==
    ASSUME Inv, NEW e \in Nat, NEW s \in Nat, receive_experience(e, s),
           UNCHANGED <<tick, body, bought, gold, login, db, spent, given>>
    PROVE  /\ Inv' /\ level' \in level..Top
           /\ Cost(1, level') + exp' = Cost(1, level) + AsU64(exp + e)
           /\ ~wrapped' => /\ ~wrapped /\ AsU64(exp + e) = exp + e
                          /\ ExpPerSp * sp' + spExp' = ExpPerSp * sp + spExp + s
           /\ level' # level => "level" \in changed'
           /\ sp' # sp => "sp" \in changed'
           /\ changed \subseteq changed' /\ changed' \subseteq changed \cup {"exp", "level", "sp"}
           /\ "level" \in changed' => "level" \in changed \/ level' > level
           /\ "reset_health_mana_on_level" \notin ran
<1>0. PlayerOK
  BY DEF Inv, TypeInv
<1>1. PICK sum \in Nat, total \in Nat : sum = exp + e /\ total = AsU64(sum)
  <2>1. exp + e \in Nat
    BY <1>0 DEF PlayerOK
  <2>2. QED
    BY <2>1, Widths
<1>2. PICK to : to = Reached(level, total)
  OBVIOUS
<1>3. PICK all \in Nat, pool \in Nat : all = spExp + s /\ pool = AsU64(all)
  <2>1. spExp + s \in Nat
    BY <1>0 DEF PlayerOK
  <2>2. QED
    BY <2>1, Widths
<1>4. PICK got \in Nat, rest \in 0..(ExpPerSp - 1) : got = pool \div ExpPerSp /\ rest = pool % ExpPerSp /\ pool = ExpPerSp * got + rest
  BY DivMod, ProgressionAssumption, ZenonT(30)
<1>40. PICK gained \in Nat : gained = AsU32(got)
  BY Widths
<1>5. /\ to \in level..Top /\ to \in 1..Top /\ total - Cost(level, to) \in Nat
      /\ to < Top => total - Cost(level, to) < ExpFor[to]
      /\ Cost(1, level) + Cost(level, to) = Cost(1, to)
  BY <1>0, <1>2, ReachedIs DEF PlayerOK
<1>6. /\ exp' = total - Cost(level, to) /\ level' = to /\ spExp' = rest /\ sp' = AsU32(sp + gained)
      /\ "reset_health_mana_on_level" \notin ran
      /\ changed' = changed \cup {"exp"}
                      \cup (IF to > level THEN {"level"} ELSE {}) \cup (IF gained > 0 THEN {"sp"} ELSE {})
      /\ Receives(e, s)
  BY <1>1, <1>2, <1>3, <1>4, <1>40 DEF receive_experience
<1>7. UNCHANGED <<stats, points, hp, mastery, skill, learned, gold, spent, given, db, login, phase>>
  BY DEF body, bought, tick
<1>60. sp \in Nat /\ sp \in U32 /\ sp + gained \in Nat
  BY <1>0 DEF PlayerOK, U32
<1>61. sp' \in U32
  BY <1>6, <1>60, Widths
<1>8. PlayerOK'
  BY <1>0, <1>4, <1>5, <1>6, <1>7, <1>61 DEF PlayerOK
<1>9. Fits(level', exp')
  BY <1>5, <1>6 DEF Fits
<1>10. Inv'
  BY <1>7, <1>8, <1>9, PlayerAlone
<1>11. Cost(1, level') + exp' = Cost(1, level) + AsU64(exp + e)
  <2>1. Cost(1, level) \in Int /\ Cost(level, to) \in Int
    <3>1. 1 \in 1..Top /\ level \in 1..Top /\ to \in 1..Top
      BY <1>0, <1>5, TopIs DEF PlayerOK
    <3>2. QED
      BY <3>1, ExpUpToIs DEF Cost
  <2>2. Cost(1, to) + (total - Cost(level, to)) = Cost(1, level) + total
    BY <1>5, <2>1
  <2>3. QED
    BY <1>1, <1>6, <2>2
<1>12. ASSUME ~wrapped'
       PROVE  /\ ~wrapped /\ AsU64(exp + e) = exp + e
              /\ ExpPerSp * sp' + spExp' = ExpPerSp * sp + spExp + s
  <2>0. PICK lim \in Nat, half \in Nat : lim = 4 * HalfWord /\ half = 2 * HalfWord
    BY ProgressionAssumption
  <2>1. ~wrapped /\ ~(sum >= lim) /\ ~(all >= lim) /\ ~(sp + (all \div ExpPerSp) >= half)
    BY <1>1, <1>3, <1>6, <1>12, <2>0 DEF Receives
  <2>2. sum < lim /\ all < lim
    BY <2>1
  <2>3. total = sum /\ pool = all
    BY <1>1, <1>3, <2>0, <2>2, Widths
  <2>4. ~(sp + got >= half)
    BY <1>4, <2>1, <2>3
  <2>5. PICK b \in Nat : b = sp
    BY <1>60
  <2>6. got < half /\ b + got < half /\ b + got \in Nat
    BY <2>4, <2>5
  <2>7. gained = got
    BY <1>40, <2>0, <2>6, Widths DEF U32
  <2>8. sp' = b + got
    BY <1>6, <2>0, <2>5, <2>6, <2>7, Widths DEF U32
  <2>9. PICK k \in Nat, x \in Nat : k = ExpPerSp /\ x = spExp
    BY <1>0, ProgressionAssumption DEF PlayerOK
  <2>10. k * (b + got) = k * b + k * got /\ k * b \in Nat /\ k * got \in Nat
    OBVIOUS
  <2>11. k * got + rest = x + s
    BY <1>3, <1>4, <2>3, <2>9
  <2>12. k * (b + got) + rest = k * b + x + s
    BY <2>10, <2>11
  <2>13. QED
    BY <1>1, <1>6, <2>1, <2>3, <2>5, <2>8, <2>9, <2>12
<1>13. level' # level => to > level
  BY <1>0, <1>5, <1>6 DEF PlayerOK
<1>14. sp' # sp => gained > 0
  <2>1. SUFFICES ASSUME ~(gained > 0) PROVE sp' = sp
    OBVIOUS
  <2>2. gained = 0 /\ sp + gained = sp
    BY <1>60, <2>1
  <2>3. QED
    BY <1>6, <1>60, <2>2, Widths
<1>15. level' \in level..Top
  BY <1>5, <1>6
<1>16. /\ level' # level => "level" \in changed'
       /\ sp' # sp => "sp" \in changed'
       /\ changed \subseteq changed' /\ changed' \subseteq changed \cup {"exp", "level", "sp"}
       /\ "level" \in changed' => "level" \in changed \/ level' > level
  BY <1>6, <1>13, <1>14
<1>17. QED
  BY <1>6, <1>10, <1>11, <1>12, <1>15, <1>16

-----------------------------------------------------------------------------
(* Every step keeps the invariant.                                         *)

\* What fights, and what the commands hand out, is received as experience.
LEMMA Receiving ==
    ASSUME Inv, Fight \/ handle_command
    PROVE  /\ \E e \in Nat, s \in Nat : receive_experience(e, s)
           /\ UNCHANGED <<tick, body, bought, gold, client, login, db, spent, given>>
<1>1. CASE Fight
  <2>1. PICK g \in Gains : receive_experience(g[1], g[2])
    BY <1>1 DEF Fight
  <2>2. g[1] \in Nat /\ g[2] \in Nat
    BY <2>1, ProgressionAssumption
  <2>3. QED
    BY <1>1, <2>1, <2>2 DEF Fight
<1>2. CASE handle_command
  <2>1. UNCHANGED <<tick, body, bought, gold, client, login, db, spent, given>>
    BY <1>2 DEF handle_command
  <2>2. CASE \E t \in 2..Top : t > login.level /\ receive_experience(AsU64(Cost(login.level, t) - login.exp), 0)
    <3>1. PICK t \in 2..Top : receive_experience(AsU64(Cost(login.level, t) - login.exp), 0)
      BY <2>2
    <3>2. login.level \in 1..Top /\ t \in 1..Top /\ login.exp \in Nat
      BY <3>1, TopIs DEF Inv, TypeInv, LoginOK
    <3>3. Cost(login.level, t) - login.exp \in Int
      BY <3>2, ExpUpToIs DEF Cost
    <3>4. AsU64(Cost(login.level, t) - login.exp) \in Nat
      BY <3>3, Cut
    <3>5. QED
      BY <2>1, <3>1, <3>4
  <2>3. CASE \E n \in SpNamed : receive_experience(0, AsU64(n * ExpPerSp))
    <3>1. PICK n \in SpNamed : receive_experience(0, AsU64(n * ExpPerSp))
      BY <2>3
    <3>2. n * ExpPerSp \in Int
      BY ProgressionAssumption
    <3>3. AsU64(n * ExpPerSp) \in Nat
      BY <3>2, Cut
    <3>4. QED
      BY <2>1, <3>1, <3>3
  <2>4. QED
    BY <1>2, <2>2, <2>3 DEF handle_command
<1>3. QED
  BY <1>1, <1>2

\* The other steps of the player's systems.
Working ==
    \/ reset_health_mana_on_level \/ update_max_hp_mp_on_stat_change
    \/ \E s \in {"STR", "INT"} : increase_stats(s)
    \/ \E a \in Amounts : handle_mastery_levelup(a)
    \/ \E s \in Skills : learn_skill(s)
    \/ \E a \in Hits : reduce(a)
    \/ \E a \in GoldAmounts : handle_player_drop_gold(a) \/ gain_gold(a)

\* What is paid leaves no less than nothing.
LEMMA Paying ==
    \A a \in U32, b \in Nat, p \in Nat : p <= a => a - p \in U32 /\ b + p \in Nat
<1> SUFFICES ASSUME NEW a \in U32, NEW b \in Nat, NEW p \in Nat, p <= a
             PROVE  a - p \in U32 /\ b + p \in Nat
  OBVIOUS
<1>1. PICK n \in Nat, w \in Nat : n = a /\ w = 2 * HalfWord /\ n < w
  BY ProgressionAssumption DEF U32
<1>2. n - p \in Nat /\ n - p < w
  BY <1>1
<1>3. QED
  BY <1>1, <1>2 DEF U32

\* A level of a mastery is a byte.
LEMMA BelowByte ==
    \A n \in Nat, a \in Nat : (n + a) % Byte \in Nat /\ (n + a) % Byte <= n + a
<1>1. PICK b \in Nat \ {0} : b = Byte
  BY ProgressionAssumption
<1>2. \A n \in Nat : n % b \in Nat /\ n % b <= n
  OBVIOUS
<1>3. QED
  BY <1>1, <1>2

\* The lesser of two numbers is one of them.
LEMMA Lesser == \A x \in Nat, y \in Nat : Min({x, y}) \in {x, y}
<1> SUFFICES ASSUME NEW x \in Nat, NEW y \in Nat PROVE Min({x, y}) \in {x, y}
  OBVIOUS
<1>1. \E m \in {x, y} : \A n \in {x, y} : m <= n
  OBVIOUS
<1>2. QED
  BY <1>1 DEF Min

\* More levels of a mastery cost no less, and the ones beyond the first no less than
\* nothing.
LEMMA UnpaidIs ==
    ASSUME NEW m \in Nat, NEW n \in Nat
    PROVE  Unpaid(m, n) \in Nat /\ (n <= m => SpUpTo[n] <= SpUpTo[m])
           /\ (n > m => SpUpTo[n] = SpUpTo[m] + PriceOf(m) + Unpaid(m, n))
<1>0. /\ \A i \in Nat : SpUpTo[i] \in Nat /\ PriceOf(i) \in Nat
      /\ \A i \in Nat : SpUpTo[i + 1] = SpUpTo[i] + PriceOf(i)
  BY SpUpToIs, Prices
<1>1. ASSUME NEW a \in Nat, NEW b \in Nat, a <= b PROVE SpUpTo[a] <= SpUpTo[b]
  <2> DEFINE Bad == {j \in Nat : a <= j /\ ~(SpUpTo[a] <= SpUpTo[j])}
  <2>1. ASSUME Bad # {} PROVE FALSE
    <3>1. PICK j \in Bad : \A i \in Bad : j <= i
      BY <2>1, Least
    <3>2. CASE j = a
      BY <1>0, <3>1, <3>2
    <3>3. CASE j # a
      <4>1. PICK i \in Nat : j = i + 1 /\ a <= i
        <5>1. j - 1 \in Nat /\ j = (j - 1) + 1 /\ a <= j - 1
          BY <3>1, <3>3
        <5>2. QED
          BY <5>1
      <4>2. i \notin Bad
        <5>1. ~(j <= i)
          BY <4>1
        <5>2. QED
          BY <3>1, <5>1
      <4>3. SpUpTo[a] <= SpUpTo[i]
        BY <4>1, <4>2
      <4>4. PICK x \in Nat, y \in Nat, z \in Nat : x = SpUpTo[a] /\ y = SpUpTo[i] /\ z = PriceOf(i)
        BY <1>0
      <4>5. SpUpTo[j] = y + z /\ x <= y + z
        BY <1>0, <4>1, <4>3, <4>4
      <4>6. QED
        BY <3>1, <4>4, <4>5
    <3>4. QED
      BY <3>2, <3>3
  <2>2. QED
    BY <1>1, <2>1
<1>2. n > m + 1 => Unpaid(m, n) = SpUpTo[n] - SpUpTo[m + 1] /\ SpUpTo[m + 1] <= SpUpTo[n]
  BY <1>1 DEF Unpaid
<1>3. ~(n > m + 1) => Unpaid(m, n) = 0
  BY DEF Unpaid
<1>4. PICK u \in Nat, v \in Nat, p \in Nat : u = SpUpTo[m] /\ v = SpUpTo[n] /\ p = PriceOf(m) /\ SpUpTo[m + 1] = u + p
  BY <1>0
<1>5. Unpaid(m, n) \in Nat
  BY <1>2, <1>3, <1>4
<1>6. n > m => v = u + p + Unpaid(m, n)
  <2>1. CASE n > m + 1
    BY <1>2, <1>4, <2>1
  <2>2. CASE n = m + 1
    BY <1>3, <1>4, <2>2
  <2>3. QED
    BY <2>1, <2>2
<1>7. n <= m => v <= u
  BY <1>1, <1>4
<1>8. QED
  BY <1>4, <1>5, <1>6, <1>7

\* None of them touches the level or what was saved.
LEMMA WorkingKeeps ==
    ASSUME Inv, Working
    PROVE  Inv' /\ UNCHANGED <<level, exp, spExp, earned, wrapped, db, login, phase>>
<1>0. PlayerOK /\ (excuses = {} => Fits(level, exp))
  BY DEF Inv, TypeInv, Whole
<1>1. CASE reset_health_mana_on_level \/ update_max_hp_mp_on_stat_change
  <2>1. UNCHANGED <<progress, stats, points, hp, bought, gold, spent, given, earned, wrapped, db, login, phase>>
    BY <1>1 DEF reset_health_mana_on_level, update_max_hp_mp_on_stat_change, history
  <2>2. PlayerOK' /\ UNCHANGED <<level, exp, spExp, learned, skill>>
    BY <1>0, <2>1 DEF PlayerOK, progress, bought
  <2>3. QED
    BY <1>0, <2>1, <2>2, PlayerAlone
<1>2. CASE \E s \in {"STR", "INT"} : increase_stats(s)
  <2>1. PICK s \in {"STR", "INT"} : increase_stats(s)
    BY <1>2
  <2>2. UNCHANGED <<progress, hp, bought, gold, spent, given, earned, wrapped, db, login, phase>> /\ points > 0
    BY <2>1 DEF increase_stats, history, tick
  <2>3. stats' = [stats EXCEPT ![s] = @ + 1] /\ points' = points - 1
    BY <2>1 DEF increase_stats, spend
  <2>4. stats' \in StatSheet
    BY <1>0, <2>3 DEF StatSheet, PlayerOK
  <2>5. points' \in Nat
    BY <1>0, <2>2, <2>3 DEF PlayerOK
  <2>6. PlayerOK' /\ UNCHANGED <<level, exp, spExp, learned, skill>>
    BY <1>0, <2>2, <2>4, <2>5 DEF PlayerOK, progress, bought
  <2>7. QED
    BY <1>0, <2>2, <2>6, PlayerAlone
<1>3. CASE \E a \in Amounts : handle_mastery_levelup(a)
  <2>1. PICK a \in Amounts : handle_mastery_levelup(a)
    BY <1>3
  <2>2. /\ UNCHANGED <<level, exp, spExp, body, skill, learned, gold, earned, wrapped, db, login, phase>>
        /\ PriceOf(mastery) <= sp /\ sp' = sp - PriceOf(mastery) /\ spent' = spent + PriceOf(mastery)
        /\ mastery' = (mastery + a) % Byte /\ given' = given + Unpaid(mastery, mastery')
    BY <2>1 DEF handle_mastery_levelup, tick
  <2>3. PriceOf(mastery) \in Nat /\ sp \in U32 /\ spent \in Nat /\ mastery \in Nat /\ a \in Nat /\ given \in Nat
    BY <1>0, Prices, ProgressionAssumption DEF PlayerOK
  <2>4. sp' \in U32 /\ spent' \in Nat
    BY <2>2, <2>3, Paying
  <2>40. mastery' \in Nat
    BY <2>2, <2>3, BelowByte
  <2>41. given' \in Nat
    <3>1. Unpaid(mastery, mastery') \in Nat
      BY <2>3, <2>40, UnpaidIs
    <3>2. QED
      BY <2>2, <2>3, <3>1
  <2>5. PlayerOK'
    BY <1>0, <2>2, <2>4, <2>40, <2>41 DEF PlayerOK, body
  <2>6. QED
    BY <1>0, <2>2, <2>5, PlayerAlone
<1>4. CASE \E s \in Skills : learn_skill(s)
  <2>1. PICK s \in Skills : learn_skill(s)
    BY <1>4
  <2>2. /\ UNCHANGED <<level, exp, spExp, body, mastery, gold, earned, given, wrapped, db, login, phase>>
        /\ s.sp <= sp /\ sp' = sp - s.sp /\ spent' = spent + s.sp
        /\ skill' = [skill EXCEPT ![s.group] = s.level] /\ learned' = learned \cup {s.group}
    BY <2>1 DEF learn_skill, tick
  <2>3. s.sp \in Nat /\ s.level \in Nat /\ s.group \in Groups /\ sp \in U32 /\ spent \in Nat
    BY <1>0, ProgressionAssumption DEF PlayerOK, Groups
  <2>4. sp' \in U32 /\ spent' \in Nat
    BY <2>2, <2>3, Paying
  <2>5. /\ skill' \in [Groups -> Nat] /\ learned' \in SUBSET Groups /\ learned \subseteq learned'
        /\ \A g \in Groups \ learned' : skill'[g] = skill[g]
    BY <1>0, <2>2, <2>3 DEF PlayerOK
  <2>6. PlayerOK'
    BY <1>0, <2>2, <2>4, <2>5 DEF PlayerOK, body
  <2>7. QED
    BY <1>0, <2>2, <2>5, <2>6, PlayerAlone
<1>5. CASE \E a \in Hits : reduce(a)
  <2>0. PICK a \in Hits : reduce(a)
    BY <1>5
  <2>1. /\ UNCHANGED <<progress, stats, points, bought, gold, spent, given, earned, wrapped, db, login, phase>>
        /\ hp' = IF a < hp THEN hp - a ELSE 0
    BY <2>0 DEF reduce, history, tick
  <2>10. hp' \in Nat
    BY <1>0, <2>1, ProgressionAssumption DEF PlayerOK
  <2>2. PlayerOK' /\ UNCHANGED <<level, exp, spExp, learned, skill>>
    BY <1>0, <2>1, <2>10 DEF PlayerOK, progress, bought
  <2>3. QED
    BY <1>0, <2>1, <2>2, PlayerAlone
<1>6. CASE \E a \in GoldAmounts : handle_player_drop_gold(a) \/ gain_gold(a)
  <2>1. PICK a \in GoldAmounts : handle_player_drop_gold(a) \/ gain_gold(a)
    BY <1>6
  <2>2. UNCHANGED <<progress, body, bought, spent, given, earned, wrapped, db, login, phase>>
    BY <2>1 DEF handle_player_drop_gold, gain_gold, history, tick
  <2>3. gold \in Nat /\ a \in Nat
    BY <1>0, ProgressionAssumption DEF PlayerOK
  <2>4. gold' \in Nat
    <3>1. CASE handle_player_drop_gold(a)
      BY <2>3, <3>1 DEF handle_player_drop_gold
    <3>2. CASE gain_gold(a)
      <4>1. PICK x \in Nat, y \in Nat : x = gold + a /\ y = 4 * HalfWord - 1
        BY <2>3, ProgressionAssumption
      <4>2. Min({x, y}) \in {x, y}
        BY Lesser
      <4>3. QED
        BY <3>2, <4>1, <4>2 DEF gain_gold
    <3>3. QED
      BY <2>1, <3>1, <3>2
  <2>5. PlayerOK' /\ UNCHANGED <<level, exp, spExp, learned, skill>>
    BY <1>0, <2>2, <2>4 DEF PlayerOK, progress, bought, body
  <2>6. QED
    BY <1>0, <2>2, <2>5, PlayerAlone
<1>7. QED
  BY <1>1, <1>2, <1>3, <1>4, <1>5, <1>6 DEF Working

\* A save, at the end of a tick or at a logout, in which the player stays as it is.
LEMMA SaveKeeps ==
    ASSUME Inv, phase # "off", Enqueue,
           UNCHANGED <<progress, stats, points, hp, mastery, skill, gold, spent, given, login>>
    PROVE  Inv'
<1>0. PlayerOK /\ LoginOK /\ (excuses = {} => Fits(level, exp)) /\ TypeInv /\ Writes
  BY DEF Inv, TypeInv, Whole
<1>1. /\ RowsOK' /\ learned' = {} /\ saved' = Snapshot /\ excuses' = excuses
      /\ excuses = {} => /\ \A c \in Components \ {"skill"} : Latest(c)' = Want(c)'
                         /\ \A g \in Groups : SkillComes(g)'
  BY <1>0, EnqueueKeeps
<1>2. PlayerOK' /\ LoginOK' /\ level' = level /\ exp' = exp /\ skill' = skill
  BY <1>0, <1>1 DEF PlayerOK, LoginOK, progress
<1>3. saved'["skill"] = skill' /\ saved'["level"] = level' /\ saved'["exp"] = <<exp', spExp'>>
  BY <1>0, <1>1, <1>2, SnapshotIs DEF progress
<1>4. Writes'
  BY <1>1, <1>3 DEF Writes
<1>5. Whole'
  BY <1>0, <1>1, <1>2, <1>3 DEF Whole
<1>6. QED
  BY <1>1, <1>2, <1>4, <1>5 DEF Inv, TypeInv

\* A tick that ends without a save, a new one, or a connection that is lost.
LEMMA TickKeeps ==
    ASSUME Inv, UNCHANGED <<progress, stats, points, hp, mastery, skill, gold, spent, given, login, db>>,
           \/ learned' = learned /\ phase # "off"
           \/ learned' = {} /\ phase' = "off"
    PROVE  Inv'
<1>0. PlayerOK /\ LoginOK /\ RowsOK /\ Whole /\ Writes
  BY DEF Inv, TypeInv
<1>1. PlayerOK' /\ LoginOK' /\ Whole'
  BY <1>0 DEF PlayerOK, LoginOK, Whole, progress, db
<1>2. RowsOK'
  BY <1>0 DEF RowsOK, db, IsRow
<1>3. \A c : Latest(c)' = Latest(c) /\ Want(c)' = Want(c)
  BY DEF Latest, Want, Stored, db
<1>4. \A g : SkillComes(g) => SkillComes(g)'
  BY DEF SkillComes, db
<1>5. excuses' = excuses /\ saved' = saved
  BY DEF db
<1>6. Writes'
  BY <1>0, <1>3, <1>4, <1>5 DEF Writes
<1>7. QED
  BY <1>1, <1>2, <1>6 DEF Inv, TypeInv
\* A character that joins has what its row has.
LEMMA JoinIs ==
    ASSUME Inv, Join
    PROVE  /\ IsRow(row) /\ (excuses' = {} => Settled /\ excuses = {} /\ Fits(row["level"], row["exp"][1]))
           /\ level' = row["level"] /\ exp' = row["exp"][1] /\ spExp' = row["exp"][2] /\ sp' = row["sp"]
           /\ stats' = row["stats"][1] /\ points' = row["stats"][2]
           /\ mastery' = row["mastery"] /\ skill' = row["skill"] /\ gold' = AsU64(row["gold"])
           /\ PlayerOK' /\ LoginOK'
<1>0. PlayerOK /\ LoginOK /\ RowsOK /\ Whole /\ Writes /\ IsRow(row) /\ IsRow(saved)
  BY DEF Inv, TypeInv, RowsOK
<1>1. /\ row.level = row["level"] /\ row.exp = row["exp"] /\ row.sp = row["sp"] /\ row.stats = row["stats"]
      /\ row.hp = row["hp"] /\ row.gold = row["gold"] /\ row.mastery = row["mastery"] /\ row.skill = row["skill"]
      /\ row.level \in 1..Top /\ row.exp \in Nat \X (0..(ExpPerSp - 1)) /\ row.sp \in U32
      /\ row.stats \in StatSheet \X Nat /\ row.hp \in Nat /\ row.gold \in Int /\ row.mastery \in Nat
      /\ row.skill \in [Groups -> Nat]
  BY <1>0, RowFields
<1>2. /\ level' = row["level"] /\ exp' = row["exp"][1] /\ spExp' = row["exp"][2] /\ sp' = row["sp"]
      /\ stats' = row["stats"][1] /\ points' = row["stats"][2]
      /\ mastery' = row["mastery"] /\ skill' = row["skill"] /\ gold' = AsU64(row["gold"])
  BY <1>1 DEF Join
<1>3. maxHp' = MaxBar(stats'.STR, level') /\ hp' = maxHp' /\ learned' = learned /\ given' = 0
  BY DEF Join
<1>4. spent' = SpUpTo[mastery'] + SpOf[{s \in Skills : s.level <= skill'[s.group]}]
  BY DEF Join, Worth
<1>5. exp' \in Nat /\ spExp' \in 0..(ExpPerSp - 1) /\ stats' \in StatSheet /\ points' \in Nat
  <2>1. \A p \in Nat \X (0..(ExpPerSp - 1)) : p[1] \in Nat /\ p[2] \in 0..(ExpPerSp - 1)
    OBVIOUS
  <2>2. \A p \in StatSheet \X Nat : p[1] \in StatSheet /\ p[2] \in Nat
    OBVIOUS
  <2>3. QED
    BY <1>1, <1>2, <2>1, <2>2
<1>6. level' \in 1..Top /\ sp' \in U32 /\ mastery' \in Nat /\ skill' \in [Groups -> Nat] /\ gold' \in Nat
  BY <1>1, <1>2, Cut
<1>7. hp' \in Nat
  <2>1. stats'.STR \in Nat
    BY <1>5 DEF StatSheet
  <2>2. QED
    BY <1>3, <1>6, <2>1, BarGrows
<1>8. spent' \in Nat
  <2>1. SpUpTo[mastery'] \in Nat
    BY <1>6, SpUpToIs
  <2>2. SpOf[{s \in Skills : s.level <= skill'[s.group]}] \in Nat
    BY SpOfIs
  <2>3. QED
    BY <1>4, <2>1, <2>2
<1>9. PlayerOK'
  BY <1>0, <1>3, <1>5, <1>6, <1>7, <1>8 DEF PlayerOK
<1>10. login' = [level |-> level', exp |-> exp', stats |-> stats', hp |-> row.hp]
  BY DEF Join
<1>11. LoginOK'
  BY <1>1, <1>5, <1>6, <1>10 DEF LoginOK
<1>12. ASSUME excuses' = {} PROVE Settled /\ excuses = {} /\ Fits(row["level"], row["exp"][1])
  <2>0. Settled /\ excuses = {}
    BY <1>12 DEF Join, Excused
  <2>1. Latest("level") = Want("level") /\ Latest("exp") = Want("exp")
    BY <1>0, <2>0 DEF Writes, Components
  <2>2. tasks["level"] = << >> /\ tasks["exp"] = << >>
    BY <2>0 DEF Settled, Components
  <2>3. row["level"] = saved["level"] /\ row["exp"] = saved["exp"]
    BY <2>1, <2>2 DEF Latest, Want
  <2>4. QED
    BY <1>0, <2>0, <2>3 DEF Whole
<1>13. QED
  BY <1>0, <1>2, <1>9, <1>11, <1>12

\* A join reads the row; the last save is what it reads, unless tasks are under way.
LEMMA JoinKeeps ==
    ASSUME Inv, Join
    PROVE  Inv'
<1>0. RowsOK /\ IsRow(row)
  BY DEF Inv, TypeInv, RowsOK
<1>1. /\ excuses' = {} => Settled /\ Fits(row["level"], row["exp"][1])
      /\ level' = row["level"] /\ exp' = row["exp"][1]
      /\ skill' = row["skill"] /\ gold' = AsU64(row["gold"]) /\ PlayerOK' /\ LoginOK'
  BY JoinIs
<1>2. UNCHANGED <<row, tasks>> /\ saved' = [row EXCEPT !.gold = gold']
  BY DEF Join
<1>3. /\ saved' = [c \in Components |-> saved'[c]]
      /\ \A c \in Components : saved'[c] = IF c = "gold" THEN gold' ELSE row[c]
  BY <1>0, <1>2 DEF IsRow, Components
<1>4. IsRow(saved)'
  <2>1. gold' \in Column("gold")
    BY <1>1 DEF PlayerOK, Column
  <2>2. \A c \in Components : row[c] \in Column(c)
    BY <1>0 DEF IsRow
  <2>3. \A c \in Components : saved'[c] \in Column(c)
    BY <1>3, <2>1, <2>2
  <2>4. QED
    BY <1>3, <2>3 DEF IsRow
<1>5. RowsOK'
  BY <1>0, <1>2, <1>4 DEF RowsOK, IsRow
<1>6. Settled => \A c \in Components : Latest(c)' = row[c]
  BY <1>2 DEF Latest, Settled
<1>7. \A c \in Components : Want(c)' = row[c]
  <2>1. row["gold"] \in (-HalfWord)..(HalfWord - 1)
    BY <1>0 DEF RowsOK
  <2>2. AsI32(gold') = row["gold"]
    BY <1>1, <2>1, Cut
  <2>3. saved'["gold"] = gold' /\ \A c \in Components \ {"gold"} : saved'[c] = row[c]
    BY <1>3 DEF Components
  <2>4. QED
    BY <2>2, <2>3 DEF Want
<1>8. saved'["skill"] = row["skill"] /\ saved'["level"] = row["level"] /\ saved'["exp"] = row["exp"]
  BY <1>3 DEF Components
<1>9. ASSUME Settled, NEW g \in Groups PROVE SkillComes(g)'
  <2>1. tasks'["skill"] = << >> /\ 1..Len(<< >>) = {}
    BY <1>2, <1>9 DEF Settled, Components
  <2>2. row'["skill"][g] = saved'["skill"][g]
    BY <1>2, <1>8
  <2>3. QED
    BY <2>1, <2>2 DEF SkillComes
<1>10. Writes'
  BY <1>1, <1>6, <1>7, <1>8, <1>9 DEF Writes
<1>11. Whole'
  BY <1>1, <1>2, <1>8 DEF Whole
<1>12. QED
  BY <1>1, <1>5, <1>10, <1>11 DEF Inv, TypeInv

\* A task is done, or fails.
LEMMA WriteKeeps ==
    ASSUME Inv, ~Settled, NEW c \in Writing, NEW i \in DOMAIN tasks[c], Apply(c, i) \/ Fail(c, i)
    PROVE  Inv'
<1>0. PlayerOK /\ LoginOK /\ RowsOK /\ Whole /\ Writes /\ TypeInv
  BY DEF Inv, TypeInv
<1>1. c \in Components
  <2>1. \E d \in Components : tasks[d] # << >>
    BY DEF Settled
  <2>2. QED
    BY <2>1 DEF Writing
<1>2. tasks[c] \in Seq(Task(c))
  BY <1>0, <1>1 DEF RowsOK
<1>3. i \in 1..Len(tasks[c])
  BY <1>2
<1>4. /\ UNCHANGED <<progress, body, bought, gold, login, saved, spent, given>>
      /\ excuses' = {} => excuses = {}
  BY DEF Apply, Fail, Excused, history
<1>5. PlayerOK' /\ LoginOK' /\ Whole'
  BY <1>0, <1>4 DEF PlayerOK, LoginOK, Whole, progress, body, bought
<1>6. RowsOK' /\ Writes'
  <2>1. CASE Apply(c, i)
    BY <1>0, <1>1, <1>3, <2>1, ApplyKeeps
  <2>2. CASE Fail(c, i)
    BY <1>0, <1>1, <1>3, <2>2, FailKeeps
  <2>3. QED
    BY <2>1, <2>2
<1>7. QED
  BY <1>5, <1>6 DEF Inv, TypeInv

\* Another connection writes the row: that is an excuse.
LEMMA ElsewhereKeeps ==
    ASSUME Inv, NEW c \in Components, SaveElsewhere(c)
    PROVE  Inv'
<1>0. PlayerOK /\ LoginOK /\ RowsOK /\ Whole /\ Writes
  BY DEF Inv, TypeInv
<1>1. /\ UNCHANGED <<progress, body, bought, gold, login, tasks, saved, spent, given, phase>>
      /\ excuses' # {} /\ row' = [row EXCEPT ![c] = First[c]]
  BY DEF SaveElsewhere, history, tick
<1>2. PlayerOK' /\ LoginOK' /\ Whole'
  BY <1>0, <1>1 DEF PlayerOK, LoginOK, Whole, progress, body, bought
<1>3. First["gold"] \in (-HalfWord)..(HalfWord - 1) /\ \A d \in Components : First[d] \in Column(d)
  BY FirstIs
<1>4. /\ row' = [d \in Components |-> row'[d]] /\ row'[c] = First[c]
      /\ \A d \in Components : d # c => row'[d] = row[d]
  BY <1>0, <1>1 DEF RowsOK, IsRow
<1>5. "gold" \in Components
  BY DEF Components
<1>6. row'["gold"] \in (-HalfWord)..(HalfWord - 1)
  BY <1>0, <1>3, <1>4, <1>5 DEF RowsOK
<1>7. \A d \in Components : row'[d] \in Column(d)
  BY <1>0, <1>3, <1>4 DEF RowsOK, IsRow
<1>8. IsRow(row)'
  BY <1>4, <1>7 DEF IsRow
<1>9. RowsOK'
  BY <1>0, <1>1, <1>6, <1>8 DEF RowsOK, IsRow
<1>10. Writes'
  BY <1>0, <1>1 DEF Writes, bought
<1>11. QED
  BY <1>2, <1>9, <1>10 DEF Inv, TypeInv

\* No step leaves the invariant.
LEMMA InvStep == Inv /\ [Next]_vars => Inv'
<1> SUFFICES ASSUME Inv, [Next]_vars PROVE Inv'
  OBVIOUS
<1>1. CASE Fight \/ handle_command
  <2>1. /\ \E e \in Nat, s \in Nat : receive_experience(e, s)
        /\ UNCHANGED <<tick, body, bought, gold, client, login, db, spent, given>>
    BY <1>1, Receiving
  <2>2. QED
    BY <2>1, ReceiveKeeps
<1>2. CASE Working
  BY <1>2, WorkingKeeps
<1>3. CASE EndOfUpdate
  <2>1. UNCHANGED <<progress, stats, points, hp, mastery, skill, gold, spent, given, login>> /\ phase # "off"
    BY <1>3 DEF EndOfUpdate, body, history
  <2>2. CASE Enqueue
    BY <2>1, <2>2, SaveKeeps
  <2>3. CASE UNCHANGED <<db, learned>>
    BY <2>1, <2>3, TickKeeps
  <2>4. QED
    BY <1>3, <2>2, <2>3 DEF EndOfUpdate
<1>4. CASE Reset
  <2>1. UNCHANGED <<progress, stats, points, hp, mastery, skill, gold, spent, given, login, db, learned>> /\ phase # "off"
    BY <1>4 DEF Reset, body, history, bought
  <2>2. QED
    BY <2>1, TickKeeps
<1>5. ASSUME NEW orderly \in BOOLEAN, Leave(orderly) PROVE Inv'
  <2>1. UNCHANGED <<progress, stats, points, hp, mastery, skill, gold, spent, given, login>> /\ phase # "off" /\ phase' = "off"
    BY <1>5 DEF Leave, body, history
  <2>2. CASE Enqueue
    BY <2>1, <2>2, SaveKeeps
  <2>3. CASE UNCHANGED db /\ learned' = {}
    BY <2>1, <2>3, TickKeeps
  <2>4. QED
    BY <1>5, <2>2, <2>3 DEF Leave
<1>6. CASE Join
  BY <1>6, JoinKeeps
<1>7. CASE ~Settled /\ \E c \in Writing : \E i \in DOMAIN tasks[c] : Apply(c, i) \/ Fail(c, i)
  BY <1>7, WriteKeeps
<1>70. CASE \E c \in Components : SaveElsewhere(c)
  BY <1>70, ElsewhereKeeps
<1>8. CASE UNCHANGED vars
  <2>1. UNCHANGED <<db, login, phase, level, exp, spExp, sp, stats, points, hp, mastery, skill, learned, gold, spent, given>>
    BY <1>8 DEF vars, tick, progress, body, bought, history
  <2>2. PlayerOK' /\ (excuses = {} => Fits(level', exp'))
    BY <2>1 DEF Inv, TypeInv, PlayerOK, Whole
  <2>3. QED
    BY <2>1, <2>2, PlayerAlone
<1>9. QED
  BY <1>1, <1>2, <1>3, <1>4, <1>5, <1>6, <1>7, <1>70, <1>8 DEF Next, Working

\* The invariant holds in every reachable state.
LEMMA AlwaysInv == Spec => []Inv
<1>1. Inv /\ [Next]_vars => Inv'
  BY InvStep
<1>2. QED
  BY <1>1, InvInit, PTL DEF Spec

\* When all tasks are done the row has what was saved.
THEOREM RowsAsSaved == Spec => []RowAsSaved
<1>1. ASSUME Inv PROVE RowAsSaved
  <2> SUFFICES ASSUME Settled, excuses = {} PROVE row = [saved EXCEPT !.gold = AsI32(@)]
    BY DEF RowAsSaved
  <2>1. IsRow(row) /\ IsRow(saved)
    BY <1>1 DEF Inv, TypeInv, RowsOK
  <2>2. \A c \in Components : tasks[c] = << >> /\ Latest(c) = row[c]
    BY DEF Settled, Latest
  <2>3. \A c \in Components \ {"skill"} : row[c] = Want(c)
    BY <1>1, <2>2 DEF Inv, Writes
  <2>4. row["skill"] = saved["skill"]
    <3>1. tasks["skill"] = << >> /\ 1..Len(<< >>) = {}
      BY <2>2 DEF Components
    <3>2. \A g \in Groups : row["skill"][g] = saved["skill"][g]
      BY <1>1, <3>1 DEF Inv, Writes, SkillComes
    <3>3. row.skill = row["skill"] /\ saved.skill = saved["skill"] /\ row.skill \in [Groups -> Nat] /\ saved.skill \in [Groups -> Nat]
      BY <2>1, RowFields
    <3>4. QED
      BY <3>2, <3>3
  <2>5. PICK s : s = [saved EXCEPT !.gold = AsI32(@)]
    OBVIOUS
  <2>6. /\ s = [c \in Components |-> s[c]]
        /\ \A c \in Components : s[c] = IF c = "gold" THEN AsI32(saved["gold"]) ELSE saved[c]
    BY <2>1, <2>5 DEF IsRow, Components
  <2>7. \A c \in Components : row[c] = s[c]
    BY <2>3, <2>4, <2>6 DEF Want
  <2>8. row = s
    BY <2>1, <2>6, <2>7 DEF IsRow
  <2>9. QED
    BY <2>5, <2>8
<1>2. QED
  BY <1>1, AlwaysInv, PTL
-----------------------------------------------------------------------------
(* Experience.                                                             *)

\* What was earned, exactly as long as no sum is cut, and of the experience what is
\* left by the cuts.
Exact == ~wrapped => earned = <<Cost(1, level) + exp, ExpPerSp * (sp + spent) + spExp>>
Wrapping == earned[1] \in Nat /\ AsU64(earned[1]) = AsU64(Cost(1, level) + exp)
Conserved == Exact /\ Wrapping

\* Products of a sum.
LEMMA Distribute == \A a \in Nat, b \in Nat, k \in Nat : k * a \in Nat /\ k * (a + b) = k * a + k * b
  OBVIOUS

\* The sums add up.
LEMMA Sums ==
    ASSUME PlayerOK
    PROVE  /\ Cost(1, level) \in Nat /\ exp \in Nat /\ spExp \in Nat /\ sp \in Nat /\ spent \in Nat
           /\ ExpPerSp \in Nat /\ ExpPerSp * sp \in Nat /\ ExpPerSp * spent \in Nat
           /\ ExpPerSp * (sp + spent) = ExpPerSp * sp + ExpPerSp * spent
<1>1. 1 \in 1..Top /\ level \in 1..Top
  BY TopIs DEF PlayerOK
<1>2. Cost(1, level) \in Nat
  <2>1. PICK x \in Nat : x = ExpUpTo[level]
    BY <1>1, ExpUpToIs
  <2>2. Cost(1, level) = x - 0
    BY <2>1, ExpUpToIs DEF Cost
  <2>3. QED
    BY <2>2
<1>3. PICK a \in Nat, b \in Nat, k \in Nat : a = sp /\ b = spent /\ k = ExpPerSp
  BY ProgressionAssumption DEF PlayerOK, U32
<1>4. k * a \in Nat /\ k * b \in Nat /\ k * (a + b) = k * a + k * b
  BY Distribute
<1>5. exp \in Nat /\ spExp \in Nat
  BY ProgressionAssumption DEF PlayerOK
<1>6. QED
  BY <1>2, <1>3, <1>4, <1>5

\* A number is a multiple and a remainder.
LEMMA Remainder ==
    \A b \in Nat \ {0} : \A a \in Nat : \E q \in Nat, r \in 0..(b - 1) : r = a % b /\ a = b * q + r
<1> SUFFICES ASSUME NEW b \in Nat \ {0}, NEW a \in Nat
             PROVE  \E q \in Nat, r \in 0..(b - 1) : r = a % b /\ a = b * q + r
  OBVIOUS
<1>1. a = b * (a \div b) + (a % b) /\ a \div b \in Nat /\ a % b \in 0..(b - 1)
  BY DivMod, ZenonT(30)
<1>2. QED
  BY <1>1, Zenon

\* What is cut from a sum leaves the remainder as it was.
LEMMA CutSum ==
    ASSUME NEW a \in Nat, NEW c \in Nat, NEW x \in Nat, NEW e \in Nat, AsU64(a) = AsU64(c + x)
    PROVE  AsU64(a + e) = AsU64(c + AsU64(x + e))
<1>1. PICK M \in Nat \ {0} : M = 4 * HalfWord /\ \A n : AsU64(n) = n % M
  BY Widths DEF AsU64
<1>2. PICK u \in Nat, r \in 0..(M - 1) : r = a % M /\ a = M * u + r
  BY Remainder, Zenon
<1>3. PICK y \in Nat : y = c + x
  OBVIOUS
<1>4. PICK v \in Nat, w \in 0..(M - 1) : w = y % M /\ y = M * v + w
  BY Remainder, Zenon
<1>5. PICK z \in Nat : z = x + e
  OBVIOUS
<1>6. PICK q \in Nat, s \in 0..(M - 1) : s = z % M /\ z = M * q + s
  BY Remainder, Zenon
<1>7. r = w
  BY <1>1, <1>2, <1>3, <1>4
<1>8. PICK k \in Int : k = (u + q) - v
  OBVIOUS
<1>9. M * k = (M * u + M * q) - M * v /\ M * u \in Nat /\ M * q \in Nat /\ M * v \in Nat
  BY <1>8
<1>10. a + e = (c + s) + M * k
  BY <1>2, <1>3, <1>4, <1>5, <1>6, <1>7, <1>9
<1>11. (a + e) % M = (c + s) % M
  <2>1. a + e \in Nat /\ c + s \in Nat
    OBVIOUS
  <2>2. QED
    BY <1>10, <2>1, Congruent, Zenon
<1>12. AsU64(x + e) = s
  BY <1>1, <1>5, <1>6
<1>13. QED
  BY <1>1, <1>11, <1>12

\* An event adds what it is worth to both sums.
LEMMA ReceiveConserves ==
    ASSUME Inv, Conserved, NEW e \in Nat, NEW s \in Nat, receive_experience(e, s),
           UNCHANGED <<tick, body, bought, gold, login, db, spent, given>>
    PROVE  Conserved'
<1>1. /\ Inv' /\ Cost(1, level') + exp' = Cost(1, level) + AsU64(exp + e)
      /\ ~wrapped' => /\ ~wrapped /\ AsU64(exp + e) = exp + e
                     /\ ExpPerSp * sp' + spExp' = ExpPerSp * sp + spExp + s
  BY ReceiveKeeps
<1>2. earned' = <<earned[1] + e, earned[2] + s>>
  BY DEF receive_experience, Receives
<1>3. PlayerOK /\ PlayerOK'
  BY <1>1 DEF Inv, TypeInv
<1>4. /\ exp \in Nat /\ spExp \in Nat /\ sp \in Nat /\ spent \in Nat /\ Cost(1, level) \in Nat
      /\ ExpPerSp * sp \in Nat /\ ExpPerSp * spent \in Nat
      /\ ExpPerSp * (sp + spent) = ExpPerSp * sp + ExpPerSp * spent
  BY <1>3, Sums
<1>5. /\ spExp' \in Nat /\ ExpPerSp * sp' \in Nat
      /\ ExpPerSp * (sp' + spent) = ExpPerSp * sp' + ExpPerSp * spent
  <2>1. PICK a \in Nat, b \in Nat, k \in Nat : a = sp' /\ b = spent /\ k = ExpPerSp
    BY <1>3, ProgressionAssumption DEF PlayerOK, U32
  <2>2. k * a \in Nat /\ k * (a + b) = k * a + k * b
    BY Distribute
  <2>3. spExp' \in Nat
    BY <1>3, ProgressionAssumption DEF PlayerOK
  <2>4. QED
    BY <2>1, <2>2, <2>3
<1>6. ASSUME ~wrapped' PROVE earned' = <<Cost(1, level') + exp', ExpPerSp * (sp' + spent') + spExp'>>
  <2>1. /\ AsU64(exp + e) = exp + e /\ ExpPerSp * sp' + spExp' = ExpPerSp * sp + spExp + s
        /\ earned[1] = Cost(1, level) + exp /\ earned[2] = ExpPerSp * (sp + spent) + spExp
    BY <1>1, <1>6 DEF Conserved, Exact
  <2>2. earned[1] + e = Cost(1, level') + exp'
    BY <1>1, <1>4, <2>1
  <2>3. PICK a \in Nat, b \in Nat, d \in Nat, x \in Nat, y \in Nat :
           a = ExpPerSp * sp /\ b = ExpPerSp * spent /\ d = ExpPerSp * sp' /\ x = spExp /\ y = spExp'
    BY <1>4, <1>5
  <2>4. d + y = a + x + s
    BY <2>1, <2>3
  <2>5. earned[2] + s = a + b + x + s /\ ExpPerSp * (sp' + spent) + spExp' = d + b + y
    BY <1>4, <1>5, <2>1, <2>3
  <2>6. earned[2] + s = ExpPerSp * (sp' + spent) + spExp'
    BY <2>3, <2>4, <2>5
  <2>7. QED
    BY <1>2, <2>2, <2>6
<1>7. earned'[1] = earned[1] + e /\ earned[1] \in Nat
  BY <1>2 DEF Conserved, Wrapping
<1>8. AsU64(earned[1] + e) = AsU64(Cost(1, level) + AsU64(exp + e))
  BY <1>4, <1>7, CutSum DEF Conserved, Wrapping
<1>9. Wrapping'
  BY <1>1, <1>7, <1>8 DEF Wrapping
<1>10. QED
  BY <1>6, <1>9 DEF Conserved, Exact

\* What is bought is paid from the SP to what was spent.
LEMMA WorkingConserves ==
    ASSUME Inv, Conserved, Working
    PROVE  Conserved'
<1>0. PlayerOK
  BY DEF Inv, TypeInv
<1>1. UNCHANGED <<level, exp, spExp, earned, wrapped>>
  BY WorkingKeeps
<1>2. sp' + spent' = sp + spent
  <2>1. CASE UNCHANGED <<sp, spent>>
    BY <2>1
  <2>2. CASE \E a \in Amounts : handle_mastery_levelup(a)
    <3>1. sp' = sp - PriceOf(mastery) /\ spent' = spent + PriceOf(mastery)
      BY <2>2 DEF handle_mastery_levelup
    <3>2. PriceOf(mastery) \in Nat /\ sp \in Nat /\ spent \in Nat
      BY <1>0, Prices DEF PlayerOK, U32
    <3>3. QED
      BY <3>1, <3>2
  <2>3. CASE \E s \in Skills : learn_skill(s)
    <3>1. PICK s \in Skills : sp' = sp - s.sp /\ spent' = spent + s.sp
      BY <2>3 DEF learn_skill
    <3>2. s.sp \in Nat /\ sp \in Nat /\ spent \in Nat
      BY <1>0, ProgressionAssumption DEF PlayerOK, U32
    <3>3. QED
      BY <3>1, <3>2
  <2>4. QED
    BY <2>1, <2>2, <2>3 DEF Working, reset_health_mana_on_level, update_max_hp_mp_on_stat_change,
       increase_stats, reduce, handle_player_drop_gold, gain_gold, progress, history
<1>3. QED
  BY <1>1, <1>2 DEF Conserved, Exact, Wrapping

\* No step makes or loses experience.
LEMMA ConservedStep == Inv /\ Conserved /\ [Next]_vars => Conserved'
<1> SUFFICES ASSUME Inv, Conserved, [Next]_vars PROVE Conserved'
  OBVIOUS
<1>1. CASE Fight \/ handle_command
  <2>1. /\ \E e \in Nat, s \in Nat : receive_experience(e, s)
        /\ UNCHANGED <<tick, body, bought, gold, client, login, db, spent, given>>
    BY <1>1, Receiving
  <2>2. QED
    BY <2>1, ReceiveConserves
<1>2. CASE Working
  BY <1>2, WorkingConserves
<1>3. CASE Join
  <2>1. earned' = <<Cost(1, level') + exp', ExpPerSp * (sp' + spent') + spExp'>>
    BY <1>3 DEF Join
  <2>2. PlayerOK'
    BY <1>3, JoinIs
  <2>3. PICK x \in Nat : x = ExpUpTo[level']
    BY <2>2, ExpUpToIs DEF PlayerOK
  <2>4. Cost(1, level') = x - 0 /\ exp' \in Nat
    BY <2>2, <2>3, ExpUpToIs DEF Cost, PlayerOK
  <2>5. earned'[1] = Cost(1, level') + exp' /\ earned'[1] \in Nat
    BY <2>1, <2>4
  <2>6. QED
    BY <2>1, <2>5 DEF Conserved, Exact, Wrapping
<1>4. CASE UNCHANGED <<progress, history>>
  BY <1>4 DEF Conserved, Exact, Wrapping, progress, history
<1>5. QED
  BY <1>1, <1>2, <1>3, <1>4 DEF Next, Working, EndOfUpdate, Reset, Leave, Apply, Fail, SaveElsewhere, vars

\* A new character has earned its SP.
LEMMA ConservedInit == Init => Conserved
<1> SUFFICES ASSUME Init PROVE Conserved
  OBVIOUS
<1>1. earned = <<0, ExpPerSp * sp>> /\ spent = 0 /\ exp = 0 /\ spExp = 0 /\ level = 1
  BY DEF Init
<1>2. PlayerOK
  BY InvInit DEF Inv, TypeInv
<1>3. sp \in Nat /\ ExpPerSp * sp \in Nat
  BY <1>2, Sums
<1>4. Cost(1, 1) + 0 = 0
  BY ExpUpToIs, TopIs DEF Cost
<1>5. ExpPerSp * (sp + 0) + 0 = ExpPerSp * sp
  BY <1>3
<1>6. QED
  BY <1>1, <1>4, <1>5 DEF Conserved, Exact, Wrapping

\* Experience is neither made nor lost but for what a type cannot hold, and no level's
\* worth of it is left over.
THEOREM ExperienceIsConserved == Spec => []ExperienceConserved
<1>1. Conserved /\ Inv /\ [Next]_vars => Conserved'
  BY ConservedStep
<1>2. ASSUME Inv, Conserved PROVE ExperienceConserved
  <2>1. spExp < ExpPerSp
    BY <1>2, ProgressionAssumption DEF Inv, TypeInv, PlayerOK
  <2>2. level < Top /\ excuses = {} => exp < ExpFor[level]
    BY <1>2 DEF Inv, Whole, Fits
  <2>3. QED
    BY <1>2, <2>1, <2>2 DEF ExperienceConserved, Conserved, Exact, Wrapping
<1>3. QED
  BY <1>1, <1>2, ConservedInit, AlwaysInv, PTL DEF Spec
-----------------------------------------------------------------------------
(* Health and mana.                                                        *)

\* The bars are at the maximum, or the system that raises them has yet to run.
Due ==
    /\ phase = "play"
    /\ \/ "level" \in changed /\ "reset_health_mana_on_level" \notin ran
       \/ "stats" \in changed /\ "update_max_hp_mp_on_stat_change" \notin ran
Full == maxHp = MaxBar(stats.STR, level) /\ mp = MaxBar(stats.INT, level)
Below ==
    /\ maxHp \in Nat /\ mp \in Nat
    /\ hp <= maxHp /\ maxHp <= MaxBar(stats.STR, level) /\ mp <= MaxBar(stats.INT, level)
Bars == Below /\ (phase # "off" => Full \/ Due)

\* Maxima are natural numbers.
LEMMA FullIs ==
    ASSUME NEW st \in StatSheet, NEW l \in 1..Top
    PROVE  MaxBar(st.STR, l) \in Nat /\ MaxBar(st.INT, l) \in Nat
<1>1. st.STR \in Nat /\ st.INT \in Nat
  BY DEF StatSheet
<1>2. QED
  BY <1>1, BarGrows

\* The two systems fill the bars.
LEMMA FillKeeps ==
    ASSUME PlayerOK, PlayerOK', Below, UNCHANGED <<stats, level, hp>>, Full'
    PROVE  Bars'
<1>1. MaxBar(stats.STR, level) \in Nat /\ MaxBar(stats.INT, level) \in Nat /\ hp \in Nat
  BY FullIs DEF PlayerOK
<1>2. maxHp' = MaxBar(stats.STR, level) /\ mp' = MaxBar(stats.INT, level)
  BY DEF Full
<1>3. hp <= MaxBar(stats.STR, level)
  BY <1>1 DEF Below
<1>4. Below'
  BY <1>1, <1>2, <1>3 DEF Below
<1>5. QED
  BY <1>4 DEF Bars

\* Steps that raise nothing.
LEMMA BarsStay ==
    ASSUME PlayerOK, PlayerOK', Bars, UNCHANGED <<stats, level, maxHp, mp, ran, phase>>, hp' <= hp,
           changed \subseteq changed'
    PROVE  Bars'
<1>1. hp \in Nat /\ hp' \in Nat /\ maxHp \in Nat /\ hp <= maxHp
  BY DEF PlayerOK, Bars, Below
<1>2. hp' <= maxHp'
  BY <1>1
<1>3. Below'
  BY <1>2 DEF Bars, Below
<1>4. Due => Due'
  BY DEF Due
<1>5. Full => Full'
  BY DEF Full
<1>6. QED
  BY <1>3, <1>4, <1>5 DEF Bars

\* A level raises the maximum, and the bars are due.
LEMMA ReceiveBars ==
    ASSUME Inv, Bars, NEW e \in Nat, NEW s \in Nat, receive_experience(e, s), phase = "play",
           UNCHANGED <<tick, body, bought, gold, login, db, spent, given>>
    PROVE  Bars'
<1>1. /\ Inv' /\ level' \in level..Top /\ (level' # level => "level" \in changed')
      /\ changed \subseteq changed' /\ "reset_health_mana_on_level" \notin ran
  BY ReceiveKeeps
<1>2. PlayerOK /\ PlayerOK'
  BY <1>1 DEF Inv, TypeInv
<1>3. UNCHANGED <<stats, hp, maxHp, mp, ran, phase>>
  BY DEF body, tick
<1>4. CASE level' = level
  BY <1>1, <1>2, <1>3, <1>4, BarsStay DEF PlayerOK
<1>5. CASE level' # level
  <2>1. level \in 1..Top /\ level' \in 1..Top /\ stats.STR \in Nat /\ stats.INT \in Nat /\ stats \in StatSheet
    BY <1>2 DEF PlayerOK, StatSheet
  <2>2. MaxBar(stats.STR, level) <= MaxBar(stats.STR, level') /\ MaxBar(stats.INT, level) <= MaxBar(stats.INT, level')
    BY <1>1, <2>1, BarFollowsLevel
  <2>3. /\ MaxBar(stats.STR, level) \in Nat /\ MaxBar(stats.INT, level) \in Nat
        /\ MaxBar(stats.STR, level') \in Nat /\ MaxBar(stats.INT, level') \in Nat
    BY <2>1, FullIs
  <2>4. maxHp <= MaxBar(stats.STR, level') /\ mp <= MaxBar(stats.INT, level')
    BY <2>2, <2>3 DEF Bars, Below
  <2>5. Below'
    BY <1>3, <2>4 DEF Bars, Below
  <2>6. Due'
    BY <1>1, <1>3, <1>5 DEF Due
  <2>7. QED
    BY <2>5, <2>6 DEF Bars
<1>6. QED
  BY <1>4, <1>5

\* Of the other systems only the two that fill the bars, and the stats, touch them.
LEMMA WorkingBars ==
    ASSUME Inv, Bars, Working
    PROVE  Bars'
<1>0. PlayerOK /\ PlayerOK' /\ UNCHANGED <<level, phase>>
  BY WorkingKeeps DEF Inv, TypeInv
<1>1. CASE reset_health_mana_on_level \/ update_max_hp_mp_on_stat_change
  <2>1. UNCHANGED <<stats, level, hp>> /\ maxHp' = MaxBar(stats.STR, level) /\ mp' = MaxBar(stats.INT, level)
    BY <1>0, <1>1 DEF reset_health_mana_on_level, update_max_hp_mp_on_stat_change
  <2>2. Full'
    BY <2>1 DEF Full
  <2>3. QED
    BY <1>0, <2>1, <2>2, FillKeeps DEF Bars
<1>2. CASE \E s \in {"STR", "INT"} : increase_stats(s)
  <2>1. PICK s \in {"STR", "INT"} : increase_stats(s)
    BY <1>2
  <2>2. /\ stats' = [stats EXCEPT ![s] = @ + 1] /\ UNCHANGED <<hp, maxHp, mp, ran>>
        /\ phase = "play" /\ "update_max_hp_mp_on_stat_change" \notin ran /\ "stats" \in changed'
    BY <2>1 DEF increase_stats, spend, tick, Happens
  <2>3. level \in 1..Top /\ stats.STR \in Nat /\ stats.INT \in Nat /\ stats \in StatSheet
    BY <1>0 DEF PlayerOK, StatSheet
  <2>4. stats'.STR \in {stats.STR, stats.STR + 1} /\ stats'.INT \in {stats.INT, stats.INT + 1}
    BY <2>2, <2>3 DEF StatSheet
  <2>5. PICK a \in Nat, b \in Nat : a = stats'.STR /\ b = stats'.INT /\ a \in {stats.STR, stats.STR + 1} /\ b \in {stats.INT, stats.INT + 1}
    BY <2>3, <2>4
  <2>6. /\ MaxBar(stats.STR, level) \in Nat /\ MaxBar(stats.INT, level) \in Nat
        /\ MaxBar(a, level) \in Nat /\ MaxBar(b, level) \in Nat
    BY <2>3, BarGrows
  <2>7. MaxBar(stats.STR, level) <= MaxBar(a, level)
    <3>1. CASE a = stats.STR
      BY <2>6, <3>1
    <3>2. CASE a = stats.STR + 1
      BY <2>3, <3>2, BarGrows
    <3>3. QED
      BY <2>5, <3>1, <3>2
  <2>8. MaxBar(stats.INT, level) <= MaxBar(b, level)
    <3>1. CASE b = stats.INT
      BY <2>6, <3>1
    <3>2. CASE b = stats.INT + 1
      BY <2>3, <3>2, BarGrows
    <3>3. QED
      BY <2>5, <3>1, <3>2
  <2>9. maxHp <= MaxBar(a, level) /\ mp <= MaxBar(b, level)
    BY <2>6, <2>7, <2>8 DEF Bars, Below
  <2>10. Below'
    BY <1>0, <2>2, <2>5, <2>9 DEF Bars, Below
  <2>11. Due'
    BY <1>0, <2>2 DEF Due
  <2>12. QED
    BY <2>10, <2>11 DEF Bars
<1>3. CASE \E a \in Hits : reduce(a)
  <2>0. PICK a \in Hits : reduce(a)
    BY <1>3
  <2>1. /\ UNCHANGED <<stats, level, maxHp, mp, ran, phase>> /\ changed \subseteq changed'
        /\ hp' = IF a < hp THEN hp - a ELSE 0
    BY <1>0, <2>0 DEF reduce, tick
  <2>2. hp' <= hp
    BY <1>0, <2>1, ProgressionAssumption DEF PlayerOK
  <2>3. QED
    BY <1>0, <2>1, <2>2, BarsStay
<1>4. CASE \/ \E a \in Amounts : handle_mastery_levelup(a)
           \/ \E s \in Skills : learn_skill(s)
           \/ \E a \in GoldAmounts : handle_player_drop_gold(a) \/ gain_gold(a)
  <2>1. UNCHANGED <<body, tick>> /\ changed \subseteq changed'
    BY <1>4 DEF handle_mastery_levelup, learn_skill, handle_player_drop_gold, gain_gold
  <2>2. UNCHANGED <<stats, maxHp, mp, ran, hp>> /\ hp' <= hp
    BY <1>0, <2>1 DEF body, tick, PlayerOK
  <2>3. QED
    BY <1>0, <2>1, <2>2, BarsStay
<1>5. QED
  BY <1>1, <1>2, <1>3, <1>4 DEF Working

\* No step leaves the bars behind without one of the two systems due.
LEMMA BarsStep == Inv /\ Bars /\ [Next]_vars => Bars'
<1> SUFFICES ASSUME Inv, Bars, [Next]_vars PROVE Bars'
  OBVIOUS
<1>0. Inv' /\ PlayerOK /\ PlayerOK'
  <2>1. Inv'
    BY InvStep
  <2>2. QED
    BY <2>1 DEF Inv, TypeInv
<1>1. CASE Fight \/ handle_command
  <2>1. /\ \E e \in Nat, s \in Nat : receive_experience(e, s)
        /\ UNCHANGED <<tick, body, bought, gold, client, login, db, spent, given>>
    BY <1>1, Receiving
  <2>2. phase = "play"
    BY <1>1 DEF Fight, handle_command, Happens
  <2>3. QED
    BY <2>1, <2>2, ReceiveBars
<1>2. CASE Working
  BY <1>2, WorkingBars
<1>3. CASE EndOfUpdate
  <2>1. phase = "play" /\ UpdateDone /\ UNCHANGED <<stats, maxHp, mp, hp, level>>
    BY <1>3 DEF EndOfUpdate, body, progress
  <2>2. Full
    BY <2>1 DEF Bars, Due, UpdateDone
  <2>3. Full'
    BY <2>1, <2>2 DEF Full
  <2>4. QED
    BY <1>0, <2>1, <2>3, FillKeeps DEF Bars
<1>4. CASE Reset
  <2>1. phase = "sync" /\ UNCHANGED <<stats, maxHp, mp, hp, level>>
    BY <1>4 DEF Reset, body, progress
  <2>2. Full
    BY <2>1 DEF Bars, Due
  <2>3. Full'
    BY <2>1, <2>2 DEF Full
  <2>4. QED
    BY <1>0, <2>1, <2>3, FillKeeps DEF Bars
<1>5. CASE \E orderly \in BOOLEAN : Leave(orderly)
  <2>1. phase' = "off" /\ UNCHANGED <<stats, maxHp, mp, hp, level>>
    BY <1>5 DEF Leave, body, progress
  <2>2. QED
    BY <2>1 DEF Bars, Below
<1>6. CASE Join
  <2>1. maxHp' = MaxBar(stats'.STR, level') /\ hp' = maxHp' /\ mp' = MaxBar(stats'.INT, level')
    BY <1>6 DEF Join
  <2>2. stats' \in StatSheet /\ level' \in 1..Top
    BY <1>0 DEF PlayerOK
  <2>3. MaxBar(stats'.STR, level') \in Nat /\ MaxBar(stats'.INT, level') \in Nat
    BY <2>2, FullIs
  <2>4. QED
    BY <2>1, <2>3 DEF Bars, Below, Full
<1>7. CASE UNCHANGED <<tick, progress, body, changed>>
  BY <1>0, <1>7, BarsStay DEF tick, progress, body, PlayerOK
<1>8. QED
  BY <1>1, <1>2, <1>3, <1>4, <1>5, <1>6, <1>7 DEF Next, Working, Apply, Fail, SaveElsewhere, vars

\* The bars follow the level and the stats, in whatever order the systems run.
THEOREM BarsAlwaysFollow == Spec => []BarsFollow
<1>1. Bars /\ Inv /\ [Next]_vars => Bars'
  BY BarsStep
<1>2. ASSUME Init PROVE Bars
  <2>1. maxHp = MaxBar(stats.STR, level) /\ hp = maxHp /\ mp = MaxBar(stats.INT, level)
    BY <1>2 DEF Init
  <2>2. stats \in StatSheet /\ level \in 1..Top
    BY <1>2, InvInit DEF Inv, TypeInv, PlayerOK
  <2>3. MaxBar(stats.STR, level) \in Nat /\ MaxBar(stats.INT, level) \in Nat
    BY <2>2, FullIs
  <2>4. QED
    BY <2>1, <2>3 DEF Bars, Below, Full
<1>3. ASSUME Bars PROVE BarsFollow
  BY <1>3 DEF Bars, Below, Full, Due, BarsFollow
<1>4. QED
  BY <1>1, <1>2, <1>3, AlwaysInv, PTL DEF Spec
-----------------------------------------------------------------------------
(* The client.                                                             *)

ClientIs ==
    client = [level |-> client.level, hp |-> client.hp, sp |-> client.sp, stats |-> client.stats,
              gold |-> client.gold, mastery |-> client.mastery]

\* Component `f' will be told at the end of this tick.
Pending(f) == phase = "play" /\ f \in changed

\* What the client does not know is pending, but for the health and stats of the login.
KnowsPlain ==
    /\ client.level = level \/ Pending("level")
    /\ client.sp = sp \/ Pending("sp")
    /\ client.gold = gold \/ Pending("gold")
    /\ client.mastery = mastery \/ Pending("mastery")
KnowsHealth ==
    \/ client.hp = hp \/ Pending("hp")
    \/ client.hp = login.hp /\ hp = MaxBar(login.stats.STR, login.level)
KnowsStats ==
    \/ client.stats = stats \/ Pending("stats")
    \/ client.stats = login.stats /\ level > login.level
Risen ==
    /\ phase = "off" => changed = {}
    /\ phase # "off" => level >= login.level /\ (Pending("level") => level > login.level)
Knows == ClientIs /\ Risen /\ (phase # "off" => KnowsPlain /\ KnowsHealth /\ KnowsStats)

\* A step of a system: whatever it changes is pending.
LEMMA SystemTold ==
    ASSUME Knows, phase = "play", UNCHANGED <<phase, client, login>>, changed \subseteq changed',
           LoginOK, level \in Nat, level' \in Nat, level' >= level,
           "level" \in changed' => "level" \in changed \/ level' > level,
           level' # level => "level" \in changed', sp' # sp => "sp" \in changed',
           gold' # gold => "gold" \in changed', mastery' # mastery => "mastery" \in changed',
           hp' # hp => "hp" \in changed', stats' # stats => "stats" \in changed'
    PROVE  Knows'
<1>0. login.level \in Nat
  <2>1. login.level \in 1..Top
    BY DEF LoginOK
  <2>2. QED
    BY <2>1, TopIs
<1>1. ASSUME NEW f, Pending(f) PROVE Pending(f)'
  BY <1>1 DEF Pending
<1>2. ASSUME NEW f, f \in changed' PROVE Pending(f)'
  BY <1>2 DEF Pending
<1>3. ClientIs'
  BY DEF Knows, ClientIs
<1>4. Risen'
  <2>1. level >= login.level /\ ("level" \in changed => level > login.level)
    BY DEF Knows, Risen, Pending
  <2>2. level' >= login.level /\ ("level" \in changed' => level' > login.level)
    <3>1. level' >= login.level
      BY <1>0, <2>1
    <3>2. ASSUME "level" \in changed' PROVE level' > login.level
      <4>1. level > login.level \/ level' > level
        BY <2>1, <3>2
      <4>2. QED
        BY <1>0, <2>1, <4>1
    <3>3. QED
      BY <3>1, <3>2
  <2>3. QED
    BY <2>2 DEF Risen, Pending
<1>5. KnowsPlain'
  <2>1. KnowsPlain
    BY DEF Knows
  <2>2. client.level = level' \/ Pending("level")'
    BY <1>1, <1>2, <2>1 DEF KnowsPlain
  <2>3. client.sp = sp' \/ Pending("sp")'
    BY <1>1, <1>2, <2>1 DEF KnowsPlain
  <2>4. client.gold = gold' \/ Pending("gold")'
    BY <1>1, <1>2, <2>1 DEF KnowsPlain
  <2>5. client.mastery = mastery' \/ Pending("mastery")'
    BY <1>1, <1>2, <2>1 DEF KnowsPlain
  <2>6. QED
    BY <2>2, <2>3, <2>4, <2>5 DEF KnowsPlain
<1>6. KnowsHealth'
  BY <1>1, <1>2 DEF Knows, KnowsHealth
<1>7. KnowsStats'
  <2>1. level > login.level => level' > login.level
    BY <1>0
  <2>2. QED
    BY <1>1, <1>2, <2>1 DEF Knows, KnowsStats
<1>8. QED
  BY <1>3, <1>4, <1>5, <1>6, <1>7 DEF Knows

\* The end of an Update: the client is told what changed.
LEMMA CollectTells ==
    ASSUME Knows, EndOfUpdate
    PROVE  Knows'
<1>0. /\ phase = "play" /\ phase' = "sync"
      /\ UNCHANGED <<level, sp, hp, stats, mastery, gold, changed, login>>
  BY DEF EndOfUpdate, progress, body
<1>1. PICK s \in CollectedStats : client' = [CollectedPurse(Collected(client)) EXCEPT !.stats = s]
  BY DEF EndOfUpdate
<1>2. PICK c : c = Collected(client)
  OBVIOUS
<1>3. /\ c = [level |-> c.level, hp |-> c.hp, sp |-> c.sp, stats |-> c.stats, gold |-> c.gold, mastery |-> c.mastery]
      /\ c.hp = IF "hp" \in changed THEN hp ELSE client.hp
      /\ c.sp = IF "sp" \in changed THEN sp ELSE client.sp
      /\ c.level = IF "level" \in changed THEN level ELSE client.level
      /\ c.gold = client.gold /\ c.mastery = client.mastery
  BY <1>2 DEF Collected, Knows, ClientIs
<1>4. PICK d : d = CollectedPurse(c)
  OBVIOUS
<1>5. /\ d = [level |-> d.level, hp |-> d.hp, sp |-> d.sp, stats |-> d.stats, gold |-> d.gold, mastery |-> d.mastery]
      /\ d.gold = IF "gold" \in changed THEN gold ELSE c.gold
      /\ d.mastery = IF "mastery" \in changed THEN mastery ELSE c.mastery
      /\ d.hp = c.hp /\ d.sp = c.sp /\ d.level = c.level
  BY <1>3, <1>4 DEF CollectedPurse
<1>6. client' = [d EXCEPT !.stats = s]
  BY <1>1, <1>2, <1>4
<1>7. /\ ClientIs' /\ client'.stats = s
      /\ client'.hp = d.hp /\ client'.sp = d.sp /\ client'.level = d.level
      /\ client'.gold = d.gold /\ client'.mastery = d.mastery
  BY <1>5, <1>6 DEF ClientIs
<1>8. Risen'
  BY <1>0 DEF Knows, Risen, Pending
<1>9. KnowsPlain'
  <2>1. KnowsPlain
    BY <1>0 DEF Knows
  <2>2. client'.level = level /\ client'.sp = sp
    BY <1>3, <1>5, <1>7, <2>1 DEF KnowsPlain, Pending
  <2>3. client'.gold = gold /\ client'.mastery = mastery
    BY <1>3, <1>5, <1>7, <2>1 DEF KnowsPlain, Pending
  <2>4. QED
    BY <1>0, <2>2, <2>3 DEF KnowsPlain
<1>10. KnowsHealth'
  <2>1. KnowsHealth
    BY <1>0 DEF Knows
  <2>2. client'.hp = IF "hp" \in changed THEN hp ELSE client.hp
    BY <1>3, <1>5, <1>7
  <2>3. QED
    BY <1>0, <2>1, <2>2 DEF KnowsHealth, Pending
<1>11. KnowsStats'
  <2>1. KnowsStats /\ ("level" \in changed => level > login.level)
    BY <1>0 DEF Knows, Risen, Pending
  <2>2. CASE {"level", "stats"} \cap changed = {}
    <3>1. s = client.stats /\ "stats" \notin changed
      BY <1>1, <2>2 DEF CollectedStats
    <3>2. QED
      BY <1>0, <1>7, <2>1, <3>1 DEF KnowsStats, Pending
  <2>3. CASE {"level", "stats"} \cap changed # {}
    <3>1. s = stats \/ ("level" \in changed /\ s = login.stats)
      BY <1>1, <2>3 DEF CollectedStats
    <3>2. QED
      BY <1>0, <1>7, <2>1, <3>1 DEF KnowsStats
  <2>4. QED
    BY <2>2, <2>3
<1>12. QED
  BY <1>7, <1>8, <1>9, <1>10, <1>11 DEF Knows

\* A join: the spawn packet tells the row.
LEMMA JoinTells ==
    ASSUME Inv, Knows, Join
    PROVE  Knows'
<1>1. /\ IsRow(row)
      /\ level' = row["level"] /\ sp' = row["sp"] /\ stats' = row["stats"][1]
      /\ mastery' = row["mastery"] /\ gold' = AsU64(row["gold"]) /\ PlayerOK'
  BY JoinIs
<1>2. /\ row.level = row["level"] /\ row.sp = row["sp"] /\ row.stats = row["stats"]
      /\ row.hp = row["hp"] /\ row.gold = row["gold"] /\ row.mastery = row["mastery"]
  BY <1>1, RowFields
<1>3. /\ phase = "off" /\ phase' = "play" /\ UNCHANGED changed
      /\ client' = [level |-> row.level, hp |-> row.hp, sp |-> row.sp, stats |-> row.stats[1],
                    gold |-> AsU64(row.gold), mastery |-> row.mastery]
      /\ login' = [level |-> level', exp |-> exp', stats |-> stats', hp |-> row.hp]
      /\ hp' = MaxBar(stats'.STR, level')
  BY DEF Join, send_spawn
<1>4. /\ client'.level = level' /\ client'.sp = sp' /\ client'.stats = stats' /\ client'.gold = gold'
      /\ client'.mastery = mastery' /\ client'.hp = row.hp /\ ClientIs'
  BY <1>1, <1>2, <1>3 DEF ClientIs
<1>5. login'.level = level' /\ login'.stats = stats' /\ login'.hp = row.hp
  BY <1>3
<1>6. Risen'
  <2>1. changed' = {}
    BY <1>3 DEF Knows, Risen
  <2>2. level' \in Nat
    BY <1>1, TopIs DEF PlayerOK
  <2>3. level' >= login'.level
    BY <1>5, <2>2
  <2>4. QED
    BY <1>3, <2>1, <2>3 DEF Risen, Pending
<1>7. KnowsPlain' /\ KnowsHealth' /\ KnowsStats'
  BY <1>3, <1>4, <1>5 DEF KnowsPlain, KnowsHealth, KnowsStats
<1>8. QED
  BY <1>4, <1>6, <1>7 DEF Knows

\* Whatever a step changes is pending until it is told.
LEMMA KnowsStep == Inv /\ Knows /\ [Next]_vars => Knows'
<1> SUFFICES ASSUME Inv, Knows, [Next]_vars PROVE Knows'
  OBVIOUS
<1>0. Inv' /\ LoginOK /\ level \in Nat /\ level' \in Nat
  <2>1. Inv'
    BY InvStep
  <2>2. level \in 1..Top /\ level' \in 1..Top /\ LoginOK
    BY <2>1 DEF Inv, TypeInv, PlayerOK
  <2>3. QED
    BY <2>1, <2>2, TopIs
<1>1. CASE Fight \/ handle_command
  <2>1. /\ \E e \in Nat, s \in Nat : receive_experience(e, s)
        /\ UNCHANGED <<tick, body, bought, gold, client, login, db, spent, given>>
    BY <1>1, Receiving
  <2>2. phase = "play" /\ UNCHANGED <<phase, client, login, gold, mastery, hp, stats>>
    BY <1>1, <2>1 DEF Fight, handle_command, Happens, tick, bought, body
  <2>3. /\ level' \in level..Top /\ (level' # level => "level" \in changed')
        /\ (sp' # sp => "sp" \in changed') /\ changed \subseteq changed'
        /\ ("level" \in changed' => "level" \in changed \/ level' > level)
    BY <2>1, ReceiveKeeps
  <2>4. level' >= level
    BY <1>0, <2>3
  <2>5. QED
    BY <1>0, <2>2, <2>3, <2>4, SystemTold
<1>2. CASE Working
  <2>1. UNCHANGED <<phase, login, level>>
    BY <1>2, WorkingKeeps
  <2>2. phase = "play" /\ UNCHANGED client /\ changed \subseteq changed'
    BY <1>2 DEF Working, reset_health_mana_on_level, update_max_hp_mp_on_stat_change, increase_stats,
       handle_mastery_levelup, learn_skill, reduce, handle_player_drop_gold, gain_gold, Happens
  <2>3. ("level" \in changed' => "level" \in changed)
    <3>1. CASE \E a \in Amounts : handle_mastery_levelup(a)
      BY <3>1 DEF handle_mastery_levelup
    <3>2. CASE \E a \in Hits : reduce(a)
      BY <3>2 DEF reduce
    <3>3. CASE \E a \in GoldAmounts : handle_player_drop_gold(a) \/ gain_gold(a)
      BY <3>3 DEF handle_player_drop_gold, gain_gold
    <3>4. QED
      BY <1>2, <3>1, <3>2, <3>3 DEF Working, reset_health_mana_on_level, update_max_hp_mp_on_stat_change,
         increase_stats, learn_skill
  <2>4. /\ gold' # gold => "gold" \in changed'
        /\ mastery' # mastery => "mastery" \in changed'
        /\ hp' # hp => "hp" \in changed'
        /\ stats' # stats => "stats" \in changed'
    <3>1. CASE \E a \in Amounts : handle_mastery_levelup(a)
      BY <3>1 DEF handle_mastery_levelup, body
    <3>2. CASE \E a \in Hits : reduce(a)
      BY <3>2 DEF reduce, bought
    <3>3. CASE \E a \in GoldAmounts : handle_player_drop_gold(a) \/ gain_gold(a)
      BY <3>3 DEF handle_player_drop_gold, gain_gold, body, bought
    <3>4. QED
      BY <1>2, <3>1, <3>2, <3>3 DEF Working, reset_health_mana_on_level, update_max_hp_mp_on_stat_change,
         increase_stats, learn_skill, body, bought
  <2>5. ASSUME sp' # sp PROVE "sp" \in changed'
    <3>1. CASE \E a \in Amounts : handle_mastery_levelup(a)
      <4>1. /\ sp' = sp - PriceOf(mastery)
            /\ changed' = changed \cup {"mastery"} \cup (IF PriceOf(mastery) > 0 THEN {"sp"} ELSE {})
        BY <3>1 DEF handle_mastery_levelup
      <4>2. PICK p \in Nat, b \in Nat : p = PriceOf(mastery) /\ b = sp
        BY Prices DEF Inv, TypeInv, PlayerOK, U32
      <4>3. b - p # b => p > 0
        BY <4>2
      <4>4. QED
        BY <2>5, <4>1, <4>2, <4>3
    <3>2. CASE \E s \in Skills : learn_skill(s)
      BY <3>2 DEF learn_skill
    <3>3. QED
      BY <1>2, <2>5, <3>1, <3>2 DEF Working, reset_health_mana_on_level, update_max_hp_mp_on_stat_change,
         increase_stats, reduce, handle_player_drop_gold, gain_gold, progress
  <2>6. level' >= level /\ level' = level
    BY <1>0, <2>1
  <2>7. QED
    BY <1>0, <2>1, <2>2, <2>3, <2>4, <2>5, <2>6, SystemTold
<1>3. CASE EndOfUpdate
  BY <1>3, CollectTells
<1>4. CASE Reset
  <2>1. phase = "sync" /\ phase' = "play" /\ UNCHANGED <<level, sp, hp, stats, mastery, gold, login, client>> /\ changed' = {}
    BY <1>4 DEF Reset, progress, body, bought
  <2>2. ClientIs' /\ Risen'
    BY <2>1 DEF Knows, ClientIs, Risen, Pending
  <2>3. KnowsPlain' /\ KnowsHealth' /\ KnowsStats'
    BY <2>1 DEF Knows, KnowsPlain, KnowsHealth, KnowsStats, Pending
  <2>4. QED
    BY <2>2, <2>3 DEF Knows
<1>5. CASE \E orderly \in BOOLEAN : Leave(orderly)
  BY <1>5 DEF Leave, Knows, ClientIs, Risen
<1>6. CASE Join
  BY <1>6, JoinTells
<1>7. CASE UNCHANGED <<tick, progress, body, bought, gold, changed, client, login>>
  <2>1. UNCHANGED <<phase, level, sp, hp, stats, mastery, gold, login, client, changed>>
    BY <1>7 DEF tick, progress, body, bought
  <2>2. ClientIs' /\ Risen'
    BY <2>1 DEF Knows, ClientIs, Risen, Pending
  <2>3. phase # "off" => KnowsPlain' /\ KnowsHealth' /\ KnowsStats'
    BY <2>1 DEF Knows, KnowsPlain, KnowsHealth, KnowsStats, Pending
  <2>4. QED
    BY <2>1, <2>2, <2>3 DEF Knows
<1>8. QED
  BY <1>1, <1>2, <1>3, <1>4, <1>5, <1>6, <1>7 DEF Next, Working, Apply, Fail, SaveElsewhere, vars

\* Told of changes only, the client knows what the player has.
THEOREM ClientIsInformed == Spec => []ClientInformed
<1>1. Knows /\ Inv /\ [Next]_vars => Knows'
  BY KnowsStep
<1>2. ASSUME Init PROVE Knows
  <2>1. /\ phase = "play" /\ changed = {} /\ level = 1
        /\ client = [level |-> level, hp |-> hp, sp |-> sp, stats |-> stats, gold |-> gold, mastery |-> mastery]
        /\ login.level = 1
    BY <1>2 DEF Init, Told
  <2>2. ClientIs
    BY <2>1 DEF ClientIs
  <2>3. Risen
    BY <2>1 DEF Risen, Pending
  <2>4. KnowsPlain /\ KnowsHealth /\ KnowsStats
    BY <2>1 DEF KnowsPlain, KnowsHealth, KnowsStats
  <2>5. QED
    BY <2>2, <2>3, <2>4 DEF Knows
<1>3. ASSUME Knows PROVE ClientInformed
  <2> SUFFICES ASSUME phase = "sync"
               PROVE  /\ client = [Told EXCEPT !.hp = client.hp, !.stats = client.stats]
                      /\ client.hp # hp => client.hp = login.hp /\ hp = MaxBar(login.stats.STR, login.level)
                      /\ client.stats # stats => client.stats = login.stats /\ level > login.level
    BY DEF ClientInformed
  <2>1. /\ client.level = level /\ client.sp = sp /\ client.gold = gold /\ client.mastery = mastery
        /\ ClientIs /\ KnowsHealth /\ KnowsStats
    BY <1>3 DEF Knows, KnowsPlain, Pending
  <2>2. client = [Told EXCEPT !.hp = client.hp, !.stats = client.stats]
    <3>1. PICK t : t = Told
      OBVIOUS
    <3>2. t = [level |-> level, hp |-> hp, sp |-> sp, stats |-> stats, gold |-> gold, mastery |-> mastery]
      BY <3>1 DEF Told
    <3>3. PICK h, st : h = client.hp /\ st = client.stats
      OBVIOUS
    <3>4. PICK u : u = [t EXCEPT !.hp = h, !.stats = st]
      OBVIOUS
    <3>5. /\ u = [level |-> u.level, hp |-> u.hp, sp |-> u.sp, stats |-> u.stats, gold |-> u.gold, mastery |-> u.mastery]
          /\ u.level = level /\ u.hp = h /\ u.sp = sp /\ u.stats = st /\ u.gold = gold /\ u.mastery = mastery
      BY <3>2, <3>4
    <3>6. client = u
      BY <2>1, <3>3, <3>5 DEF ClientIs
    <3>7. QED
      BY <3>1, <3>3, <3>4, <3>6, Zenon
  <2>3. QED
    BY <2>1, <2>2 DEF KnowsHealth, KnowsStats, Pending
<1>4. QED
  BY <1>1, <1>2, <1>3, AlwaysInv, PTL DEF Spec
-----------------------------------------------------------------------------
(* What is known was paid for.                                             *)

\* The skills as the game's data has them: a level of a group is one skill, and needs
\* the ones below it.
SkillTree ==
    \A s, t \in Skills :
        /\ s.level > 0 /\ s.required.level \in Nat
        /\ s.group = t.group /\ s.level = t.level => s = t
        /\ s.group = t.group /\ t.level < s.level => s.required.group = s.group /\ t.level <= s.required.level

Known(known) == {s \in Skills : s.level <= known[s.group]}
Paid == Worth(mastery, skill) <= spent + given

\* As far as no save failed, masteries stay within what the cap and a request allow, in
\* the player and in the last save.
Within(m, l) == \E a \in Amounts \cup {1} : m < l * PerLevelCap + a
Capped == excuses = {} => Within(mastery, level) /\ Within(saved["mastery"], saved["level"])

\* What is known has a price.
LEMMA WorthIs ==
    ASSUME NEW m \in Nat, NEW known
    PROVE  /\ Worth(m, known) = SpUpTo[m] + SpOf[Known(known)] /\ Worth(m, known) \in Nat
           /\ SpUpTo[m] \in Nat /\ SpOf[Known(known)] \in Nat
<1>1. SpUpTo[m] \in Nat
  BY SpUpToIs
<1>2. SpOf[Known(known)] \in Nat
  BY SpOfIs DEF Known
<1>3. Worth(m, known) = SpUpTo[m] + SpOf[Known(known)]
  BY DEF Worth, Known
<1>4. QED
  BY <1>1, <1>2, <1>3

\* A skill learned adds no more than its price.
LEMMA LearnedWorth ==
    ASSUME SkillTree, NEW s \in Skills, NEW known \in [Groups -> Nat],
           s.required.group \in Groups => known[s.required.group] >= s.required.level
    PROVE  SpOf[Known([known EXCEPT ![s.group] = s.level])] <= SpOf[Known(known)] + s.sp
<1>0. s.group \in Groups /\ s.sp \in Nat /\ s.level \in Nat
  BY ProgressionAssumption DEF Groups
<1>1. PICK K \in SUBSET Skills : K = Known(known)
  BY DEF Known
<1>2. PICK after : after = [known EXCEPT ![s.group] = s.level]
  OBVIOUS
<1>3. PICK L \in SUBSET Skills : L = Known(after)
  BY DEF Known
<1>4. L \subseteq K \cup {s}
  <2> SUFFICES ASSUME NEW t \in L, t # s PROVE t \in K
    OBVIOUS
  <2>1. t \in Skills /\ t.level <= after[t.group] /\ t.group \in Groups /\ t.level \in Nat
    BY <1>3, ProgressionAssumption DEF Known, Groups
  <2>2. CASE t.group # s.group
    BY <1>0, <1>1, <1>2, <2>1, <2>2 DEF Known
  <2>3. CASE t.group = s.group
    <3>1. t.level <= s.level
      BY <1>0, <1>2, <2>1, <2>3
    <3>2. t.level < s.level
      <4>1. t.level # s.level
        BY <2>1, <2>3 DEF SkillTree
      <4>2. QED
        BY <1>0, <2>1, <3>1, <4>1
    <3>3. s.required.group = s.group /\ t.level <= s.required.level
      BY <2>1, <2>3, <3>2 DEF SkillTree
    <3>4. known[t.group] >= s.required.level /\ known[t.group] \in Nat
      BY <1>0, <2>1, <2>3, <3>3
    <3>6. t.level <= known[t.group]
      <4>1. PICK x \in Nat, r \in Nat, y \in Nat : x = known[t.group] /\ r = s.required.level /\ y = t.level
        BY <2>1, <3>4 DEF SkillTree
      <4>2. x >= r /\ y <= r
        BY <3>3, <3>4, <4>1
      <4>3. y <= x
        BY <4>2
      <4>4. QED
        BY <4>1, <4>3
    <3>7. QED
      BY <1>1, <2>1, <3>6 DEF Known
  <2>4. QED
    BY <2>2, <2>3
<1>5. SpOf[L] <= SpOf[K \cup {s}]
  BY <1>4, SpOfMore
<1>6. SpOf[K] \in Nat /\ SpOf[L] \in Nat /\ SpOf[K \cup {s}] \in Nat
  BY SpOfIs
<1>7. SpOf[K \cup {s}] <= SpOf[K] + s.sp
  <2>0. PICK k \in Nat, p \in Nat : k = SpOf[K] /\ p = s.sp
    BY <1>0, <1>6
  <2>1. CASE s \in K
    <3>1. K \cup {s} = K
      BY <2>1
    <3>2. k <= k + p
      BY <2>0
    <3>3. QED
      BY <2>0, <3>1, <3>2
  <2>2. CASE s \notin K
    <3>1. (K \cup {s}) \ {s} = K /\ K \cup {s} \in SUBSET Skills
      BY <2>2
    <3>2. SpOf[K \cup {s}] = s.sp + SpOf[(K \cup {s}) \ {s}]
      BY <3>1, SpOfAny
    <3>3. SpOf[K \cup {s}] = p + k
      BY <2>0, <3>1, <3>2
    <3>4. p + k <= k + p
      BY <2>0
    <3>5. QED
      BY <2>0, <3>3, <3>4
  <2>3. QED
    BY <2>1, <2>2
<1>8. SpOf[L] <= SpOf[K] + s.sp
  BY <1>0, <1>5, <1>6, <1>7
<1>9. QED
  BY <1>1, <1>2, <1>3, <1>8

\* Whatever a step buys it pays for, or is given.
LEMMA PaidStep ==
    ASSUME SkillTree, Inv, Paid, [Next]_vars
    PROVE  Paid'
<1>0. PlayerOK /\ mastery \in Nat /\ spent \in Nat /\ given \in Nat /\ skill \in [Groups -> Nat]
  BY DEF Inv, TypeInv, PlayerOK
<1>1. /\ Worth(mastery, skill) = SpUpTo[mastery] + SpOf[Known(skill)]
      /\ SpUpTo[mastery] \in Nat /\ SpOf[Known(skill)] \in Nat
  BY <1>0, WorthIs
<1>2. PICK u \in Nat, k \in Nat, n \in Nat, h \in Nat :
         u = SpUpTo[mastery] /\ k = SpOf[Known(skill)] /\ n = spent /\ h = given /\ u + k <= n + h
  BY <1>0, <1>1 DEF Paid
<1>3. CASE UNCHANGED <<mastery, skill, spent, given>>
  BY <1>3 DEF Paid
<1>4. ASSUME NEW a \in Amounts, handle_mastery_levelup(a) PROVE Paid'
  <2>1. /\ spent' = spent + PriceOf(mastery) /\ mastery' = (mastery + a) % Byte /\ skill' = skill
        /\ given' = given + Unpaid(mastery, mastery')
    BY <1>4 DEF handle_mastery_levelup
  <2>2. mastery' \in Nat
    BY <1>0, <1>4, <2>1, BelowByte, ProgressionAssumption
  <2>3. PICK p \in Nat, x \in Nat, v \in Nat :
           p = PriceOf(mastery) /\ x = Unpaid(mastery, mastery') /\ v = SpUpTo[mastery']
    BY <1>0, <2>2, Prices, UnpaidIs, SpUpToIs
  <2>4. v <= u + p + x
    <3>1. mastery' <= mastery => v <= u
      BY <1>0, <1>2, <2>2, <2>3, UnpaidIs
    <3>2. mastery' > mastery => v = u + p + x
      BY <1>0, <1>2, <2>2, <2>3, UnpaidIs
    <3>3. QED
      BY <1>0, <2>2, <3>1, <3>2
  <2>5. Worth(mastery', skill') = v + k
    <3>1. Worth(mastery', skill) = SpUpTo[mastery'] + SpOf[Known(skill)]
      BY <2>2, WorthIs
    <3>2. QED
      BY <1>2, <2>1, <2>3, <3>1
  <2>6. spent' + given' = (n + p) + (h + x)
    BY <1>2, <2>1, <2>3
  <2>7. v + k <= (n + p) + (h + x)
    BY <1>2, <2>4
  <2>8. QED
    BY <2>5, <2>6, <2>7 DEF Paid
<1>5. ASSUME NEW s \in Skills, learn_skill(s) PROVE Paid'
  <2>1. /\ spent' = spent + s.sp /\ mastery' = mastery /\ given' = given /\ skill' = [skill EXCEPT ![s.group] = s.level]
        /\ s.required.group \in Groups => skill[s.required.group] >= s.required.level
    BY <1>5 DEF learn_skill, has_required_skills_for
  <2>2. SpOf[Known([skill EXCEPT ![s.group] = s.level])] <= SpOf[Known(skill)] + s.sp
    BY <1>0, <2>1, LearnedWorth
  <2>3. /\ Worth(mastery, [skill EXCEPT ![s.group] = s.level]) = u + SpOf[Known([skill EXCEPT ![s.group] = s.level])]
        /\ SpOf[Known([skill EXCEPT ![s.group] = s.level])] \in Nat
    BY <1>0, <1>2, WorthIs
  <2>4. PICK p \in Nat, j \in Nat : p = s.sp /\ j = SpOf[Known([skill EXCEPT ![s.group] = s.level])]
    BY <2>3, ProgressionAssumption
  <2>5. j <= k + p
    BY <1>2, <2>2, <2>4
  <2>6. u + j <= (n + p) + h
    BY <1>2, <2>5
  <2>7. spent' + given' = (n + p) + h /\ Worth(mastery', skill') = u + j
    BY <1>2, <2>1, <2>3, <2>4
  <2>8. QED
    BY <2>6, <2>7 DEF Paid
<1>6. CASE Join
  <2>1. spent' = Worth(mastery', skill') /\ given' = 0
    BY <1>6 DEF Join
  <2>2. mastery' \in Nat
    BY <1>6, JoinIs DEF PlayerOK
  <2>3. Worth(mastery', skill') \in Nat
    BY <2>2, WorthIs
  <2>4. QED
    BY <2>1, <2>3 DEF Paid
<1>7. QED
  BY <1>3, <1>4, <1>5, <1>6 DEF Next, Fight, handle_command, reset_health_mana_on_level,
     update_max_hp_mp_on_stat_change, increase_stats, reduce, handle_player_drop_gold, gain_gold,
     EndOfUpdate, Reset, Leave, Apply, Fail, SaveElsewhere, vars, bought, history

\* A higher level allows no less.
LEMMA CapGrows == \A a \in Nat, b \in Nat, k \in Nat : a <= b => a * k <= b * k /\ a * k \in Nat /\ b * k \in Nat
<1> SUFFICES ASSUME NEW a \in Nat, NEW b \in Nat, NEW k \in Nat, a <= b
             PROVE  a * k <= b * k /\ a * k \in Nat /\ b * k \in Nat
  OBVIOUS
<1>1. PICK d \in Nat : b = a + d
  <2>1. b - a \in Nat /\ b = a + (b - a)
    OBVIOUS
  <2>2. QED
    BY <2>1
<1>2. b * k = a * k + d * k /\ a * k \in Nat /\ d * k \in Nat
  BY <1>1
<1>3. QED
  BY <1>2

\* Masteries stay within what the cap and a request allow.
LEMMA CappedStep ==
    ASSUME Inv, Capped, [Next]_vars
    PROVE  Capped'
<1>0. PlayerOK /\ mastery \in Nat /\ level \in Nat /\ PerLevelCap \in Nat /\ level * PerLevelCap \in Nat
  <2>1. level \in 1..Top /\ mastery \in Nat /\ PlayerOK
    BY DEF Inv, TypeInv, PlayerOK
  <2>2. PICK l \in Nat, k \in Nat : l = level /\ k = PerLevelCap
    BY <2>1, TopIs, ProgressionAssumption
  <2>3. l * k \in Nat
    BY <2>2
  <2>4. QED
    BY <2>1, <2>2, <2>3
<1>1. CASE UNCHANGED <<mastery, level, saved>> /\ (excuses' = {} => excuses = {})
  BY <1>1 DEF Capped
<1>2. CASE Fight \/ handle_command
  <2>1. /\ \E e \in Nat, s \in Nat : receive_experience(e, s)
        /\ UNCHANGED <<tick, body, bought, gold, client, login, db, spent, given>>
    BY <1>2, Receiving
  <2>2. level' \in level..Top
    BY <2>1, ReceiveKeeps
  <2>3. UNCHANGED <<mastery, saved, excuses>>
    BY <2>1 DEF bought, db
  <2>4. level' \in Nat /\ level <= level'
    BY <1>0, <2>2
  <2>5. level * PerLevelCap <= level' * PerLevelCap /\ level' * PerLevelCap \in Nat
    BY <1>0, <2>4, CapGrows
  <2>6. ASSUME Within(mastery, level) PROVE Within(mastery, level')
    <3>1. PICK a \in Amounts \cup {1} : mastery < level * PerLevelCap + a
      BY <2>6 DEF Within
    <3>2. a \in Nat
      BY <3>1, ProgressionAssumption
    <3>3. mastery < level' * PerLevelCap + a
      BY <1>0, <2>5, <3>1, <3>2
    <3>4. QED
      BY <3>1, <3>3 DEF Within
  <2>7. QED
    BY <2>3, <2>6 DEF Capped
<1>3. ASSUME NEW a \in Amounts, handle_mastery_levelup(a) PROVE Capped'
  <2>1. mastery < level * PerLevelCap /\ mastery' = (mastery + a) % Byte /\ UNCHANGED <<level, saved, excuses>>
    BY <1>3 DEF handle_mastery_levelup, db
  <2>2. a \in Nat /\ mastery' \in Nat /\ mastery' <= mastery + a
    BY <1>0, <1>3, <2>1, BelowByte, ProgressionAssumption
  <2>3. mastery' < level * PerLevelCap + a
    BY <1>0, <2>1, <2>2
  <2>4. Within(mastery', level')
    BY <1>3, <2>1, <2>3 DEF Within
  <2>5. QED
    BY <2>1, <2>4 DEF Capped
<1>4. CASE Enqueue /\ UNCHANGED <<level, mastery>>
  <2>1. saved' = Snapshot /\ excuses' = excuses
    BY <1>4 DEF Enqueue
  <2>2. saved'["mastery"] = mastery /\ saved'["level"] = level
    BY <1>0, <2>1, SnapshotIs
  <2>3. QED
    BY <1>4, <2>1, <2>2 DEF Capped
<1>5. CASE Join
  <2>1. level' = row["level"] /\ mastery' = row["mastery"] /\ IsRow(row)
    BY <1>5, JoinIs
  <2>2. saved' = [row EXCEPT !.gold = gold'] /\ (excuses' = {} => excuses = {} /\ Settled)
    BY <1>5, JoinIs DEF Join
  <2>3. saved'["mastery"] = row["mastery"] /\ saved'["level"] = row["level"]
    BY <2>1, <2>2 DEF IsRow, Components
  <2>4. ASSUME excuses' = {} PROVE row["level"] = saved["level"] /\ row["mastery"] = saved["mastery"]
    <3>1. Latest("level") = Want("level") /\ Latest("mastery") = Want("mastery")
      BY <2>2, <2>4 DEF Inv, Writes, Components
    <3>2. tasks["level"] = << >> /\ tasks["mastery"] = << >>
      BY <2>2, <2>4 DEF Settled, Components
    <3>3. QED
      BY <3>1, <3>2 DEF Latest, Want
  <2>5. QED
    BY <2>1, <2>2, <2>3, <2>4 DEF Capped
<1>6. QED
  <2>1. CASE Working
    BY <1>1, <1>3, <2>1 DEF Working, reset_health_mana_on_level, update_max_hp_mp_on_stat_change, increase_stats,
       learn_skill, reduce, handle_player_drop_gold, gain_gold, progress, bought, db
  <2>2. CASE EndOfUpdate \/ Reset \/ \E orderly \in BOOLEAN : Leave(orderly)
    BY <1>1, <1>4, <2>2 DEF EndOfUpdate, Reset, Leave, progress, bought, db
  <2>3. CASE \/ ~Settled /\ \E c \in Writing : \E i \in DOMAIN tasks[c] : Apply(c, i) \/ Fail(c, i)
             \/ \E c \in Components : SaveElsewhere(c)
    BY <1>1, <2>3 DEF Apply, Fail, SaveElsewhere, Excused, progress, bought
  <2>4. CASE UNCHANGED vars
    BY <1>1, <2>4 DEF vars, progress, bought, db
  <2>5. QED
    BY <1>2, <1>5, <2>1, <2>2, <2>3, <2>4 DEF Next, Working

\* Whatever number of levels clients name, what a player knows was paid for but for the
\* levels beyond the one paid, and its masteries pass the cap by fewer than that number.
THEOREM EverythingIsPaidFor ==
    ASSUME SkillTree
    PROVE  Spec => []PaidFor
<1>1. Paid /\ Capped /\ Inv /\ [Next]_vars => Paid' /\ Capped'
  BY PaidStep, CappedStep
<1>2. ASSUME Init PROVE Paid /\ Capped
  <2>1. mastery = 0 /\ skill = [g \in Groups |-> 0] /\ spent = 0 /\ given = 0 /\ level = 1 /\ saved = Snapshot
    BY <1>2 DEF Init
  <2>2. PlayerOK
    BY <1>2, InvInit DEF Inv, TypeInv
  <2>3. Known(skill) = {}
    <3> SUFFICES ASSUME NEW s \in Known(skill) PROVE FALSE
      OBVIOUS
    <3>1. s \in Skills /\ s.level <= skill[s.group] /\ s.group \in Groups
      BY DEF Known, Groups
    <3>2. skill[s.group] = 0 /\ s.level \in Nat /\ s.level > 0
      BY <2>1, <3>1, ProgressionAssumption DEF SkillTree
    <3>3. QED
      BY <3>1, <3>2
  <2>4. Worth(mastery, skill) = SpUpTo[mastery] + SpOf[Known(skill)]
    BY <2>1, WorthIs
  <2>5. Worth(mastery, skill) = 0
    <3>1. SpUpTo[0] = 0
      BY SpUpToIs
    <3>2. SpOf[{}] = 0
      BY SpOfIs
    <3>3. Worth(mastery, skill) = 0 + 0
      BY <2>1, <2>3, <2>4, <3>1, <3>2
    <3>4. QED
      BY <3>3
  <2>6. Paid
    BY <2>1, <2>5 DEF Paid
  <2>7. saved["mastery"] = mastery /\ saved["level"] = level
    BY <2>1, <2>2, SnapshotIs
  <2>8. Within(0, 1)
    <3>1. 0 < 1 * PerLevelCap + 1
      BY ProgressionAssumption
    <3>2. QED
      BY <3>1 DEF Within
  <2>9. QED
    BY <2>1, <2>6, <2>7, <2>8 DEF Capped
<1>3. ASSUME Paid, Capped PROVE PaidFor
  BY <1>3 DEF Paid, Capped, Within, PaidFor
<1>4. QED
  BY <1>1, <1>2, <1>3, AlwaysInv, PTL DEF Spec
====
