---------------------------- MODULE NumbersProofs ----------------------------
(***************************************************************************)
(* Proofs about Numbers, for all bases, widths of the type, texts and      *)
(* dumped data.                                                            *)
(*                                                                         *)
(* The functions of Numbers are recursive over a text.  What they compute  *)
(* is proved by induction, as a set of naturals: it has 0, and with every  *)
(* number the next, so it has them all, because one it did not have would  *)
(* be the least and come after one it has.                                 *)
(***************************************************************************)
EXTENDS Numbers, WellFoundedInduction, TLAPS

-----------------------------------------------------------------------------
(* Induction and recursion.                                                *)

\* Every set of naturals but the empty one has a least element.
LEMMA NatLeast ==
  ASSUME NEW T, T \subseteq Nat, T # {}
  PROVE  \E x \in T : \A y \in T : x <= y
<1>1. PICK x \in T : \A y \in T : ~ (<<y, x>> \in OpToRel(<, Nat))
  BY NatLessThanWellFounded, WFMin
<1>2. ASSUME NEW y \in T
      PROVE  x <= y
  <2>1. ~ (<<y, x>> \in {ss \in Nat \X Nat : ss[1] < ss[2]})
    BY <1>1 DEF OpToRel
  <2> QED
    BY <2>1
<1> QED
  BY <1>2

\* A set of naturals that has 0 and the successors of its elements has them all.
LEMMA Induction ==
  ASSUME NEW S, 0 \in S, \A n \in Nat : n \in S => n + 1 \in S
  PROVE  \A n \in Nat : n \in S
<1> SUFFICES ASSUME Nat \ S # {}
             PROVE  FALSE
  OBVIOUS
<1>1. PICK x \in Nat \ S : \A y \in Nat \ S : x <= y
  BY NatLeast
<1>2. x - 1 \in Nat /\ (x - 1) + 1 = x
  OBVIOUS
<1>3. x - 1 \in S
  BY <1>1, <1>2
<1> QED
  BY <1>2, <1>3

\* A sequence of values begins with the first, and a step leads from each to the next.
Leads(g, first, step, m) == g[0] = first /\ \A i \in 1 .. m : g[i] = step[<<i, g[i - 1]>>]

\* A step from one value to the next defines a sequence of values.
LEMMA Recursion ==
  ASSUME NEW T, NEW b \in T, NEW m \in Nat, NEW s \in [(1 .. m) \X T -> T]
  PROVE  \E g \in [0 .. m -> T] : Leads(g, b, s, m)
<1> DEFINE Good(k, g) == g[0] = b /\ \A i \in 1 .. k : g[i] = s[<<i, g[i - 1]>>]
           S == {k \in Nat : k <= m => \E g \in [0 .. k -> T] : Good(k, g)}
<1>1. 0 \in S
  <2>1. [i \in 0 .. 0 |-> b] \in [0 .. 0 -> T] /\ Good(0, [i \in 0 .. 0 |-> b])
    OBVIOUS
  <2> QED
    BY <2>1
<1>2. ASSUME NEW n \in Nat, n \in S
      PROVE  n + 1 \in S
  <2> SUFFICES ASSUME n + 1 <= m
               PROVE  \E g \in [0 .. n + 1 -> T] : Good(n + 1, g)
    OBVIOUS
  <2>1. PICK g \in [0 .. n -> T] : Good(n, g)
    BY <1>2
  <2> DEFINE h == [i \in 0 .. n + 1 |-> IF i = n + 1 THEN s[<<n + 1, g[n]>>] ELSE g[i]]
  <2>2. s[<<n + 1, g[n]>>] \in T
    <3>1. g[n] \in T /\ n + 1 \in 1 .. m
      BY <2>1
    <3>2. <<n + 1, g[n]>> \in (1 .. m) \X T
      BY <3>1
    <3> QED
      BY <3>2
  <2>3. h \in [0 .. n + 1 -> T]
    BY <2>2
  <2>4. h[0] = b
    BY <2>1
  <2>5. ASSUME NEW i \in 1 .. n + 1
        PROVE  h[i] = s[<<i, h[i - 1]>>]
    <3>1. i - 1 \in 0 .. n /\ h[i - 1] = g[i - 1]
      OBVIOUS
    <3>2. CASE i = n + 1
      BY <3>1, <3>2
    <3>3. CASE i # n + 1
      <4>1. i \in 1 .. n /\ h[i] = g[i]
        BY <3>3
      <4> QED
        BY <2>1, <3>1, <4>1
    <3> QED
      BY <3>2, <3>3
  <2> QED
    BY <2>3, <2>4, <2>5
<1>3. m \in S
  <2> HIDE DEF S
  <2> QED
    BY <1>1, <1>2, Induction
<1> QED
  BY <1>3 DEF Leads

\* And without an end.
LeadsOn(h, first, step) == h[0] = first /\ \A n \in Nat : h[n + 1] = step[h[n]]

LEMMA EndlessRecursion ==
  ASSUME NEW T, NEW b \in T, NEW s \in [T -> T]
  PROVE  \E h \in [Nat -> T] : LeadsOn(h, b, s)
<1> DEFINE Good(k, g) == g[0] = b /\ \A i \in 1 .. k : g[i] = s[g[i - 1]]
<1>1. ASSUME NEW m \in Nat
      PROVE  \E g \in [0 .. m -> T] : Good(m, g)
  <2>1. PICK z \in [(1 .. m) \X T -> T] : z = [p \in (1 .. m) \X T |-> s[p[2]]]
    OBVIOUS
  <2>2. PICK g \in [0 .. m -> T] : Leads(g, b, z, m)
    BY Recursion
  <2>3. g[0] = b /\ \A i \in 1 .. m : g[i] = z[<<i, g[i - 1]>>]
    BY <2>2 DEF Leads
  <2>4. ASSUME NEW i \in 1 .. m
        PROVE  g[i] = s[g[i - 1]]
    <3>1. g[i - 1] \in T
      OBVIOUS
    <3>2. <<i, g[i - 1]>> \in (1 .. m) \X T
      BY <3>1
    <3>3. z[<<i, g[i - 1]>>] = s[g[i - 1]]
      BY <2>1, <3>2
    <3> QED
      BY <2>3, <3>3
  <2> QED
    BY <2>3, <2>4
<1> DEFINE G(m) == CHOOSE g \in [0 .. m -> T] : Good(m, g)
           h == [m \in Nat |-> G(m)[m]]
<1>2. ASSUME NEW m \in Nat
      PROVE  G(m) \in [0 .. m -> T] /\ Good(m, G(m))
  BY <1>1
<1> HIDE DEF G
<1>3. ASSUME NEW m \in Nat
      PROVE  G(m + 1)[m] = G(m)[m]
  <2> DEFINE S == {k \in Nat : k <= m => G(m + 1)[k] = G(m)[k]}
  <2>1. 0 \in S
    BY <1>2
  <2>2. ASSUME NEW k \in Nat, k \in S
        PROVE  k + 1 \in S
    <3> SUFFICES ASSUME k + 1 <= m
                 PROVE  G(m + 1)[k + 1] = G(m)[k + 1]
      OBVIOUS
    <3>1. G(m + 1)[k] = G(m)[k]
      BY <2>2
    <3>2. k + 1 \in 1 .. m + 1 /\ k + 1 \in 1 .. m /\ (k + 1) - 1 = k
      OBVIOUS
    <3>3. Good(m + 1, G(m + 1)) /\ Good(m, G(m))
      BY <1>2
    <3>4. G(m + 1)[k + 1] = s[G(m + 1)[k]]
      BY <3>2, <3>3
    <3>5. G(m)[k + 1] = s[G(m)[k]]
      BY <3>2, <3>3
    <3> QED
      BY <3>1, <3>4, <3>5
  <2>3. m \in S
    <3> HIDE DEF S
    <3> QED
      BY <2>1, <2>2, Induction
  <2> QED
    BY <2>3
<1>4. h \in [Nat -> T]
  BY <1>2
<1>5. h[0] = b
  BY <1>2
<1>6. ASSUME NEW n \in Nat
      PROVE  h[n + 1] = s[h[n]]
  <2>1. n + 1 \in 1 .. n + 1 /\ (n + 1) - 1 = n
    OBVIOUS
  <2>2. Good(n + 1, G(n + 1))
    BY <1>2
  <2>3. G(n + 1)[n + 1] = s[G(n + 1)[n]]
    BY <2>1, <2>2
  <2> QED
    BY <1>3, <2>3
<1> QED
  BY <1>4, <1>5, <1>6 DEF LeadsOn

-----------------------------------------------------------------------------
(* What the recursive definitions define.                                  *)

LEMMA Bases ==
  /\ Decimal \in Nat /\ Decimal >= 2 /\ Hexadecimal \in Nat /\ Hexadecimal >= 2
  /\ Decimal < Hexadecimal /\ Limit \in Nat /\ Limit >= 1
  /\ RowLength \in Nat /\ RowLength >= 1 /\ RowDigits \in Nat /\ RowDigits >= 1
BY BaseAssumption

LEMMA PowersFollow ==
  ASSUME NEW b \in Nat
  PROVE  /\ Powers(b) \in [Nat -> Nat]
         /\ Powers(b)[0] = 1
         /\ \A n \in Nat : Powers(b)[n + 1] = b * Powers(b)[n]
<1> DEFINE F(g) == [n \in Nat |-> IF n = 0 THEN 1 ELSE b * g[n - 1]]
<1>1. Powers(b) = CHOOSE g : g = F(g)
  BY DEF Powers
<1>2. \E g : g = F(g)
  <2>1. \A x \in Nat : b * x \in Nat
    OBVIOUS
  <2>2. PICK s \in [Nat -> Nat] : s = [x \in Nat |-> b * x]
    BY <2>1
  <2>3. PICK g \in [Nat -> Nat] : LeadsOn(g, 1, s)
    BY EndlessRecursion
  <2>4. g[0] = 1 /\ \A n \in Nat : g[n + 1] = s[g[n]]
    BY <2>3 DEF LeadsOn
  <2>5. ASSUME NEW n \in Nat
        PROVE  g[n] = IF n = 0 THEN 1 ELSE b * g[n - 1]
    <3>1. CASE n = 0
      BY <2>4, <3>1
    <3>2. CASE n # 0
      <4>1. n - 1 \in Nat /\ (n - 1) + 1 = n
        BY <3>2
      <4>2. g[n] = s[g[n - 1]] /\ g[n - 1] \in Nat
        BY <2>4, <4>1
      <4> QED
        BY <2>2, <3>2, <4>2
    <3> QED
      BY <3>1, <3>2
  <2>6. g = F(g)
    BY <2>5
  <2> QED
    BY <2>6
<1>3. PICK p : p = Powers(b)
  OBVIOUS
<1>4. p = F(p)
  <2>1. (CHOOSE g : g = F(g)) = F(CHOOSE g : g = F(g))
    <3> HIDE DEF F
    <3> QED
      BY <1>2
  <2> HIDE DEF F
  <2> QED
    BY <1>1, <1>3, <2>1
<1>5. p[0] = 1 /\ \A n \in Nat : p[n + 1] = b * p[n]
  <2>1. p[0] = 1
    BY <1>4
  <2>2. ASSUME NEW n \in Nat
        PROVE  p[n + 1] = b * p[n]
    <3>1. n + 1 \in Nat /\ n + 1 # 0 /\ (n + 1) - 1 = n
      OBVIOUS
    <3> QED
      BY <1>4, <3>1
  <2> QED
    BY <2>1, <2>2
<1>6. \A n \in Nat : p[n] \in Nat
  <2> DEFINE S == {n \in Nat : p[n] \in Nat}
  <2>1. 0 \in S
    BY <1>5
  <2>2. \A n \in Nat : n \in S => n + 1 \in S
    BY <1>5
  <2>3. \A n \in Nat : n \in S
    <3> HIDE DEF S
    <3> QED
      BY <2>1, <2>2, Induction
  <2> QED
    BY <2>3
<1>7. p \in [Nat -> Nat]
  BY <1>4, <1>6
<1> QED
  BY <1>3, <1>5, <1>7

LEMMA PowersGrow ==
  ASSUME NEW b \in Nat, b >= 2, NEW n \in Nat
  PROVE  /\ Powers(b)[n] \in Nat /\ Powers(b)[n] > n
         /\ \A m \in Nat : m <= n => Powers(b)[m] <= Powers(b)[n]
<1>1. PICK p \in [Nat -> Nat] : p = Powers(b)
  BY PowersFollow
<1>2. p[0] = 1 /\ \A k \in Nat : p[k + 1] = b * p[k]
  BY <1>1, PowersFollow
<1>3. ASSUME NEW k \in Nat, p[k] >= 1
      PROVE  p[k + 1] > p[k]
  <2>1. PICK x \in Nat : x = p[k]
    OBVIOUS
  <2>2. b * x >= 2 * x
    OBVIOUS
  <2>3. p[k + 1] = b * x
    BY <1>2, <2>1
  <2> QED
    BY <1>3, <2>1, <2>2, <2>3
<1> DEFINE S == {k \in Nat : p[k] > k /\ \A m \in Nat : m <= k => p[m] <= p[k]}
<1>4. 0 \in S
  BY <1>2
<1>5. ASSUME NEW k \in Nat, k \in S
      PROVE  k + 1 \in S
  <2>1. p[k] \in Nat /\ p[k + 1] \in Nat /\ p[k] > k
    BY <1>5
  <2>2. p[k + 1] > p[k]
    BY <1>3, <2>1
  <2>3. ASSUME NEW m \in Nat, m <= k + 1
        PROVE  p[m] <= p[k + 1]
    <3>1. CASE m = k + 1
      BY <2>1, <3>1
    <3>2. CASE m <= k
      BY <1>5, <2>1, <2>2, <3>2
    <3> QED
      BY <2>3, <3>1, <3>2
  <2> QED
    BY <2>1, <2>2, <2>3
<1>6. n \in S
  <2> HIDE DEF S
  <2> QED
    BY <1>4, <1>5, Induction
<1> QED
  BY <1>1, <1>6

LEMMA PlacesFollow ==
  ASSUME NEW b \in Nat, NEW ds \in Seq(Nat), NEW L \in Nat, L = Len(ds)
  PROVE  /\ Places(ds, b) \in [0 .. L -> Nat]
         /\ Places(ds, b)[0] = 0
         /\ \A n \in 0 .. L - 1 :
              Places(ds, b)[n + 1] = Places(ds, b)[n] + ds[L - n] * Powers(b)[n]
<1> DEFINE F(g) == [n \in 0 .. L |-> IF n = 0 THEN 0
                                     ELSE g[n - 1] + ds[L - n + 1] * Powers(b)[n - 1]]
<1>1. Places(ds, b) = CHOOSE g : g = F(g)
  <2>1. Places(ds, b) = CHOOSE g : g = [n \in 0 .. Len(ds) |->
                          IF n = 0 THEN 0
                          ELSE g[n - 1] + ds[Len(ds) - n + 1] * Powers(b)[n - 1]]
    BY DEF Places
  <2> QED
    BY <2>1
<1>2. ASSUME NEW n \in 1 .. L
      PROVE  ds[L - n + 1] * Powers(b)[n - 1] \in Nat
  <2>1. L - n + 1 \in 1 .. L /\ n - 1 \in Nat
    OBVIOUS
  <2>2. ds[L - n + 1] \in Nat
    BY <2>1
  <2>3. Powers(b)[n - 1] \in Nat
    BY <2>1, PowersFollow
  <2>4. \A x, y \in Nat : x * y \in Nat
    OBVIOUS
  <2> QED
    BY <2>2, <2>3, <2>4
<1>3. \E g : g = F(g)
  <2>1. PICK s \in [(1 .. L) \X Nat -> Nat] :
          s = [p \in (1 .. L) \X Nat |-> p[2] + ds[L - p[1] + 1] * Powers(b)[p[1] - 1]]
    <3>1. ASSUME NEW p \in (1 .. L) \X Nat
          PROVE  p[2] + ds[L - p[1] + 1] * Powers(b)[p[1] - 1] \in Nat
      <4>1. p[1] \in 1 .. L /\ p[2] \in Nat
        OBVIOUS
      <4>2. ds[L - p[1] + 1] * Powers(b)[p[1] - 1] \in Nat
        BY <1>2, <4>1
      <4> QED
        BY <4>1, <4>2
    <3> QED
      BY <3>1
  <2>2. PICK g \in [0 .. L -> Nat] : Leads(g, 0, s, L)
    BY Recursion
  <2>3. ASSUME NEW n \in 0 .. L
        PROVE  g[n] = IF n = 0 THEN 0 ELSE g[n - 1] + ds[L - n + 1] * Powers(b)[n - 1]
    <3>1. CASE n = 0
      BY <2>2, <3>1 DEF Leads
    <3>2. CASE n # 0
      <4>1. n \in 1 .. L /\ n - 1 \in 0 .. L /\ g[n - 1] \in Nat
        <5>1. n \in 1 .. L /\ n - 1 \in 0 .. L
          BY <3>2
        <5> QED
          BY <5>1
      <4>2. g[n] = s[<<n, g[n - 1]>>]
        BY <2>2, <4>1 DEF Leads
      <4>3. <<n, g[n - 1]>> \in (1 .. L) \X Nat
        BY <4>1
      <4> QED
        BY <2>1, <3>2, <4>2, <4>3
    <3> QED
      BY <3>1, <3>2
  <2>4. g = F(g)
    BY <2>3
  <2> QED
    BY <2>4
<1>4. PICK p : p = Places(ds, b)
  OBVIOUS
<1>5. p = F(p)
  <2>1. (CHOOSE g : g = F(g)) = F(CHOOSE g : g = F(g))
    <3> HIDE DEF F
    <3> QED
      BY <1>3
  <2> HIDE DEF F
  <2> QED
    BY <1>1, <1>4, <2>1
<1>6. p[0] = 0
  BY <1>5
<1>7. ASSUME NEW n \in 0 .. L - 1
      PROVE  p[n + 1] = p[n] + ds[L - n] * Powers(b)[n]
  <2>1. n + 1 \in 0 .. L /\ n + 1 # 0 /\ (n + 1) - 1 = n /\ L - (n + 1) + 1 = L - n
    OBVIOUS
  <2> QED
    BY <1>5, <2>1
<1>8. \A n \in Nat : n <= L => p[n] \in Nat
  <2> DEFINE S == {n \in Nat : n <= L => p[n] \in Nat}
  <2>1. 0 \in S
    BY <1>6
  <2>2. ASSUME NEW n \in Nat, n \in S
        PROVE  n + 1 \in S
    <3> SUFFICES ASSUME n + 1 <= L
                 PROVE  p[n + 1] \in Nat
      OBVIOUS
    <3>1. n + 1 \in 1 .. L /\ (n + 1) - 1 = n /\ L - (n + 1) + 1 = L - n
      OBVIOUS
    <3>2. ds[L - n] * Powers(b)[n] \in Nat
      BY <1>2, <3>1
    <3> QED
      BY <1>7, <2>2, <3>2
  <2>3. \A n \in Nat : n \in S
    <3> HIDE DEF S
    <3> QED
      BY <2>1, <2>2, Induction
  <2> QED
    BY <2>3
<1>9. p \in [0 .. L -> Nat]
  <2>1. \A n \in 0 .. L : p[n] \in Nat
    BY <1>8
  <2>2. p = [n \in 0 .. L |-> p[n]]
    BY <1>5
  <2> QED
    BY <2>1, <2>2
<1> QED
  BY <1>4, <1>6, <1>7, <1>9

LEMMA AccumulatedFollows ==
  ASSUME NEW b \in Nat, NEW ds \in Seq(Nat), NEW L \in Nat, L = Len(ds)
  PROVE  /\ Accumulated(ds, b) \in [0 .. L -> Int]
         /\ Accumulated(ds, b)[0] = 0
         /\ \A n \in 0 .. L - 1 :
              Accumulated(ds, b)[n + 1] = AddDigit(Accumulated(ds, b)[n], ds[n + 1], b)
<1> DEFINE F(g) == [n \in 0 .. L |-> IF n = 0 THEN 0 ELSE AddDigit(g[n - 1], ds[n], b)]
<1>1. Accumulated(ds, b) = CHOOSE g : g = F(g)
  <2>1. Accumulated(ds, b) = CHOOSE g : g = [n \in 0 .. Len(ds) |->
                               IF n = 0 THEN 0 ELSE AddDigit(g[n - 1], ds[n], b)]
    BY DEF Accumulated
  <2> QED
    BY <2>1
<1>2. ASSUME NEW n \in 1 .. L, NEW x \in Int
      PROVE  AddDigit(x, ds[n], b) \in Int
  <2>1. ds[n] \in Nat
    OBVIOUS
  <2>2. x * b \in Int
    OBVIOUS
  <2> QED
    BY <2>1, <2>2 DEF AddDigit
<1>3. \E g : g = F(g)
  <2>1. PICK s \in [(1 .. L) \X Int -> Int] :
          s = [p \in (1 .. L) \X Int |-> AddDigit(p[2], ds[p[1]], b)]
    <3>1. ASSUME NEW p \in (1 .. L) \X Int
          PROVE  AddDigit(p[2], ds[p[1]], b) \in Int
      <4>1. p[1] \in 1 .. L /\ p[2] \in Int
        OBVIOUS
      <4> QED
        BY <1>2, <4>1
    <3> QED
      BY <3>1
  <2>2. PICK g \in [0 .. L -> Int] : Leads(g, 0, s, L)
    <3>1. 0 \in Int
      OBVIOUS
    <3> QED
      BY <3>1, Recursion, Zenon
  <2>3. ASSUME NEW n \in 0 .. L
        PROVE  g[n] = IF n = 0 THEN 0 ELSE AddDigit(g[n - 1], ds[n], b)
    <3>1. CASE n = 0
      BY <2>2, <3>1 DEF Leads
    <3>2. CASE n # 0
      <4>1. n \in 1 .. L /\ n - 1 \in 0 .. L /\ g[n - 1] \in Int
        <5>1. n \in 1 .. L /\ n - 1 \in 0 .. L
          BY <3>2
        <5> QED
          BY <5>1
      <4>2. g[n] = s[<<n, g[n - 1]>>]
        BY <2>2, <4>1 DEF Leads
      <4>3. <<n, g[n - 1]>> \in (1 .. L) \X Int
        BY <4>1
      <4> QED
        BY <2>1, <3>2, <4>2, <4>3
    <3> QED
      BY <3>1, <3>2
  <2>4. g = F(g)
    BY <2>3
  <2> QED
    BY <2>4
<1>4. PICK p : p = Accumulated(ds, b)
  OBVIOUS
<1>5. p = F(p)
  <2>1. (CHOOSE g : g = F(g)) = F(CHOOSE g : g = F(g))
    <3> HIDE DEF F
    <3> QED
      BY <1>3
  <2> HIDE DEF F
  <2> QED
    BY <1>1, <1>4, <2>1
<1>6. p[0] = 0
  BY <1>5
<1>7. ASSUME NEW n \in 0 .. L - 1
      PROVE  p[n + 1] = AddDigit(p[n], ds[n + 1], b)
  <2>1. n + 1 \in 0 .. L /\ n + 1 # 0 /\ (n + 1) - 1 = n
    OBVIOUS
  <2> QED
    BY <1>5, <2>1
<1>8. \A n \in Nat : n <= L => p[n] \in Int
  <2> DEFINE S == {n \in Nat : n <= L => p[n] \in Int}
  <2>1. 0 \in S
    BY <1>6
  <2>2. ASSUME NEW n \in Nat, n \in S
        PROVE  n + 1 \in S
    <3> SUFFICES ASSUME n + 1 <= L
                 PROVE  p[n + 1] \in Int
      OBVIOUS
    <3>1. n + 1 \in 1 .. L /\ n \in 0 .. L - 1 /\ p[n] \in Int
      BY <2>2
    <3>2. AddDigit(p[n], ds[n + 1], b) \in Int
      BY <1>2, <3>1
    <3> QED
      BY <1>7, <3>1, <3>2
  <2>3. \A n \in Nat : n \in S
    <3> HIDE DEF S
    <3> QED
      BY <2>1, <2>2, Induction
  <2> QED
    BY <2>3
<1>9. p \in [0 .. L -> Int]
  <2>1. \A n \in 0 .. L : p[n] \in Int
    BY <1>8
  <2>2. p = [n \in 0 .. L |-> p[n]]
    BY <1>5
  <2> QED
    BY <2>1, <2>2
<1> QED
  BY <1>4, <1>6, <1>7, <1>9

-----------------------------------------------------------------------------
(* Reading.                                                                *)

LEMMA Horner ==
  ASSUME NEW x \in Nat, NEW d \in Nat, NEW b \in Nat, NEW p \in Nat, NEW r \in Nat
  PROVE  x * (b * p) + (r + d * p) = (x * b + d) * p + r
<1>1. x * (b * p) = (x * b) * p
  OBVIOUS
<1>2. (x * b + d) * p = (x * b) * p + d * p
  OBVIOUS
<1>3. x * (b * p) \in Nat /\ d * p \in Nat /\ (x * b) * p \in Nat
  OBVIOUS
<1> QED
  BY <1>1, <1>2, <1>3

LEMMA Product ==
  ASSUME NEW y \in Nat, NEW p \in Nat, p >= 1
  PROVE  y * p \in Nat /\ y * p >= y
OBVIOUS

\* from_chars finds the value of the digits, place by place, or that it does not fit.
LEMMA EvaluateIsValue ==
  ASSUME NEW b \in Nat, b >= 2, NEW ds \in Seq(Nat)
  PROVE  /\ Value(ds, b) \in Nat
         /\ Evaluate(ds, b) = IF Value(ds, b) >= Limit THEN -1 ELSE Value(ds, b)
<1>1. PICK L \in Nat : L = Len(ds)
  OBVIOUS
<1>2. PICK q \in [0 .. L -> Nat] : q = Places(ds, b)
  BY <1>1, PlacesFollow
<1>3. PICK a \in [0 .. L -> Int] : a = Accumulated(ds, b)
  BY <1>1, AccumulatedFollows
<1>4. PICK p \in [Nat -> Nat] : p = Powers(b)
  BY PowersFollow
<1>5. q[0] = 0 /\ \A n \in 0 .. L - 1 : q[n + 1] = q[n] + ds[L - n] * p[n]
  BY <1>1, <1>2, <1>4, PlacesFollow
<1>6. a[0] = 0 /\ \A n \in 0 .. L - 1 : a[n + 1] = AddDigit(a[n], ds[n + 1], b)
  BY <1>1, <1>3, AccumulatedFollows
<1>7. p[0] = 1 /\ \A n \in Nat : p[n + 1] = b * p[n]
  BY <1>4, PowersFollow
<1>8. ASSUME NEW n \in Nat
      PROVE  p[n] >= 1
  <2>1. p[n] \in Nat /\ p[n] > n
    BY <1>4, PowersGrow
  <2> QED
    BY <2>1
<1>9. PICK v \in Nat : v = q[L]
  <2>1. L \in 0 .. L
    OBVIOUS
  <2> QED
    BY <2>1
<1> DEFINE Rest(n) == /\ a[n] = -1 => v >= Limit
                      /\ a[n] # -1 => a[n] \in 0 .. Limit - 1 /\ v = a[n] * p[L - n] + q[L - n]
           S == {n \in Nat : n <= L => Rest(n)}
<1>10. 0 \in S
  <2>1. a[0] = 0 /\ a[0] \in 0 .. Limit - 1
    BY <1>6, Bases
  <2>2. p[L - 0] \in Nat /\ L - 0 = L
    OBVIOUS
  <2>3. v = a[0] * p[L - 0] + q[L - 0]
    BY <1>9, <2>1, <2>2
  <2>4. a[0] # -1
    BY <2>1
  <2>5. Rest(0)
    BY <2>1, <2>3, <2>4
  <2> HIDE DEF Rest
  <2> QED
    BY <2>5
<1>11. ASSUME NEW n \in Nat, n \in S
       PROVE  n + 1 \in S
  <2> SUFFICES ASSUME n + 1 <= L
               PROVE  Rest(n + 1)
    OBVIOUS
  <2>1. PICK k \in Nat : k = L - (n + 1)
    OBVIOUS
  <2>2. L - n = k + 1 /\ k \in 0 .. L - 1 /\ n \in 0 .. L - 1 /\ L - k = n + 1 /\ n + 1 \in 1 .. L
    BY <2>1
  <2>3. Rest(n)
    BY <1>11
  <2>4. PICK d \in Nat : d = ds[n + 1]
    BY <1>1, <2>2
  <2>5. a[n + 1] = AddDigit(a[n], d, b)
    BY <1>6, <2>2, <2>4
  <2>6. CASE a[n] = -1
    BY <2>3, <2>5, <2>6 DEF AddDigit
  <2>7. CASE a[n] # -1
    <3>1. PICK x \in Nat : x = a[n]
      BY <2>3, <2>7, Bases
    <3>2. PICK y \in Nat : y = x * b + d
      <4>1. PICK z \in Nat : z = x * b
        OBVIOUS
      <4>2. z + d \in Nat
        OBVIOUS
      <4> QED
        BY <4>1, <4>2
    <3>3. PICK t \in Nat : t = p[k] /\ t >= 1
      BY <1>8
    <3>4. PICK r \in Nat : r = q[k]
      <4>1. k \in 0 .. L
        BY <2>2
      <4> QED
        BY <4>1
    <3>5. v = y * t + r
      <4>1. v = x * p[k + 1] + q[k + 1]
        BY <2>2, <2>3, <2>7, <3>1
      <4>2. q[k + 1] = r + d * t
        BY <1>5, <2>2, <2>4, <3>3, <3>4
      <4>3. p[k + 1] = b * t
        BY <1>7, <3>3
      <4>4. v = x * (b * t) + (r + d * t)
        BY <4>1, <4>2, <4>3
      <4>5. v = (x * b + d) * t + r
        BY <4>4, Horner
      <4> QED
        BY <3>2, <4>5
    <3>6. CASE y >= Limit
      <4>1. a[n + 1] = -1
        BY <2>5, <2>7, <3>1, <3>2, <3>6 DEF AddDigit
      <4>2. PICK z \in Nat : z = y * t /\ z >= y
        <5>1. y * t \in Nat /\ y * t >= y
          BY <3>3, Product
        <5> QED
          BY <5>1
      <4>3. v = z + r
        BY <3>5, <4>2
      <4>4. Limit \in Nat /\ Limit <= y /\ y <= z /\ z <= v
        BY <3>6, <4>2, <4>3, Bases
      <4>5. v >= Limit
        BY <4>4
      <4> QED
        BY <4>1, <4>5
    <3>7. CASE ~(y >= Limit)
      <4>1. a[n + 1] = y
        BY <2>5, <2>7, <3>1, <3>2, <3>7 DEF AddDigit
      <4>2. y \in 0 .. Limit - 1
        BY <3>7, Bases
      <4>3. v = a[n + 1] * p[L - (n + 1)] + q[L - (n + 1)]
        BY <2>1, <3>3, <3>4, <3>5, <4>1
      <4> QED
        BY <4>1, <4>2, <4>3
    <3> QED
      BY <3>6, <3>7
  <2> QED
    BY <2>6, <2>7
<1>12. L \in S
  <2> HIDE DEF S
  <2> QED
    BY <1>10, <1>11, Induction
<1>13. v = Value(ds, b) /\ a[L] = Evaluate(ds, b)
  BY <1>1, <1>2, <1>3, <1>9 DEF Value, Evaluate
<1>14. a[L] = -1 => v >= Limit
  BY <1>12
<1>15. a[L] # -1 => a[L] \in 0 .. Limit - 1 /\ v = a[L]
  <2> SUFFICES ASSUME a[L] # -1
               PROVE  a[L] \in 0 .. Limit - 1 /\ v = a[L]
    OBVIOUS
  <2>1. a[L] \in 0 .. Limit - 1 /\ v = a[L] * p[L - L] + q[L - L]
    BY <1>12
  <2>2. L - L = 0 /\ p[0] = 1 /\ q[0] = 0
    BY <1>5, <1>7
  <2> QED
    BY <2>1, <2>2, Bases
<1>16. a[L] = IF v >= Limit THEN -1 ELSE v
  <2>1. CASE a[L] = -1
    BY <1>14, <2>1
  <2>2. CASE a[L] # -1
    BY <1>15, <2>2, Bases
  <2> QED
    BY <2>1, <2>2
<1> QED
  BY <1>13, <1>16

\* The digits from_chars reads are the first ones, and all of them.
LEMMA LeadingDigits ==
  ASSUME NEW b \in Nat, NEW text, text \in Seq((0 .. Hexadecimal - 1) \cup {Other}),
         b <= Hexadecimal
  PROVE  Leading(text, b) \in Seq(0 .. b - 1)
<1>1. PICK L \in Nat : L = Len(text)
  OBVIOUS
<1> DEFINE Stop(n) == n = L \/ text[n + 1] \notin 0 .. b - 1
           T == {n \in 0 .. L : Stop(n)}
<1>2. PICK n \in T : \A k \in T : n <= k
  <2>1. L \in T /\ T \subseteq Nat
    OBVIOUS
  <2> HIDE DEF T
  <2> QED
    BY <2>1, NatLeast
<1>3. \A i \in 1 .. n : text[i] \in 0 .. b - 1
  <2> SUFFICES ASSUME NEW i \in 1 .. n, text[i] \notin 0 .. b - 1
               PROVE  FALSE
    OBVIOUS
  <2>1. i - 1 \in 0 .. L /\ (i - 1) + 1 = i /\ i - 1 < n
    OBVIOUS
  <2>2. i - 1 \in T
    BY <2>1
  <2>3. n \in 0 .. L
    BY <1>2
  <2> HIDE DEF T
  <2>4. n <= i - 1
    BY <1>2, <2>2
  <2> QED
    BY <2>1, <2>3, <2>4
<1> DEFINE m == CHOOSE k \in 0 .. L : (\A i \in 1 .. k : text[i] \in 0 .. b - 1) /\ Stop(k)
<1>4. m \in 0 .. L /\ \A i \in 1 .. m : text[i] \in 0 .. b - 1
  BY <1>2, <1>3
<1>5. Leading(text, b) = SubSeq(text, 1, m)
  BY <1>1 DEF Leading
<1> HIDE DEF m
<1>6. SubSeq(text, 1, m) = [i \in 1 .. m |-> text[i]]
  BY <1>1, <1>4
<1> QED
  BY <1>4, <1>5, <1>6

LEMMA LeadingAll ==
  ASSUME NEW b \in Nat, NEW text \in Seq(0 .. b - 1)
  PROVE  Leading(text, b) = text
<1>1. PICK L \in Nat : L = Len(text)
  OBVIOUS
<1> DEFINE Good(k) == (\A i \in 1 .. k : text[i] \in 0 .. b - 1)
                        /\ (k = L \/ text[k + 1] \notin 0 .. b - 1)
           m == CHOOSE k \in 0 .. L : Good(k)
<1>2. L \in 0 .. L /\ Good(L)
  BY <1>1
<1>3. m \in 0 .. L /\ Good(m)
  BY <1>2
<1>4. Leading(text, b) = SubSeq(text, 1, m)
  BY <1>1 DEF Leading
<1>5. m = L
  <2> SUFFICES ASSUME m # L
               PROVE  FALSE
    OBVIOUS
  <2> HIDE DEF m
  <2>1. m + 1 \in 1 .. L
    BY <1>3
  <2> QED
    BY <1>1, <1>3, <2>1
<1>6. SubSeq(text, 1, L) = text
  BY <1>1
<1> QED
  BY <1>4, <1>5, <1>6

-----------------------------------------------------------------------------
(* Writing.                                                                *)

\* A number is made of what division leaves of it.
LEMMA Division ==
  ASSUME NEW b \in Nat, b >= 1, NEW t \in Nat
  PROVE  \E q \in Nat : \E r \in 0 .. b - 1 : q = t \div b /\ r = t % b /\ t = b * q + r
<1>1. t = b * (t \div b) + (t % b) /\ t % b \in 0 .. b - 1 /\ t \div b \in Nat
  OBVIOUS
<1> QED
  BY <1>1

LEMMA DivisionIsUnique ==
  ASSUME NEW b \in Nat, b >= 1, NEW t \in Nat, NEW q \in Nat, NEW r \in 0 .. b - 1, t = b * q + r
  PROVE  t % b = r /\ t \div b = q
OBVIOUS

LEMMA Small ==
  ASSUME NEW b \in Nat, NEW t \in Nat, t < b
  PROVE  t % b = t /\ t \div b = 0
<1>1. t \in 0 .. b - 1 /\ b >= 1 /\ t = b * 0 + t
  OBVIOUS
<1> QED
  BY <1>1, DivisionIsUnique

\* What is left at the next place is one digit more.
LEMMA NextPlace ==
  ASSUME NEW b \in Nat, b >= 1, NEW p \in Nat, p >= 1, NEW v \in Nat
  PROVE  v % (b * p) = (v % p) + ((v \div p) % b) * p
<1>1. PICK q \in Nat, r \in 0 .. p - 1 : q = v \div p /\ r = v % p /\ v = p * q + r
  BY Division
<1>2. PICK m \in Nat, d \in 0 .. b - 1 : m = q \div b /\ d = q % b /\ q = b * m + d
  BY Division
<1>3. PICK w \in Nat : w = b * p
  OBVIOUS
<1>4. PICK z \in Nat : z = d * p
  <2>1. d \in Nat
    OBVIOUS
  <2>2. d * p \in Nat
    BY <2>1
  <2> QED
    BY <2>2
<1>5. p * q = w * m + z
  <2>1. p * (b * m + d) = (b * p) * m + d * p
    <3>1. p * (b * m + d) = p * (b * m) + p * d
      OBVIOUS
    <3>2. p * (b * m) = (b * p) * m /\ p * d = d * p
      OBVIOUS
    <3> QED
      BY <3>1, <3>2
  <2> QED
    BY <1>2, <1>3, <1>4, <2>1
<1>6. w >= 1 /\ z + r \in 0 .. w - 1
  <2>1. (b - 1) * p = b * p - p /\ b * p >= p
    OBVIOUS
  <2>2. d * p <= (b - 1) * p
    <3>1. d <= b - 1 /\ d \in Nat /\ b - 1 \in Nat
      OBVIOUS
    <3>2. PICK e \in Nat : e = (b - 1) - d
      BY <3>1
    <3>3. (b - 1) * p = d * p + e * p /\ e * p >= 0
      BY <3>1, <3>2
    <3>4. d * p \in Int /\ e * p \in Int
      BY <3>1
    <3> QED
      BY <3>3, <3>4
  <2>3. z <= w - p /\ w >= p
    BY <1>3, <1>4, <2>1, <2>2
  <2> QED
    BY <2>3
<1>7. v = w * m + (z + r)
  <2>1. PICK y \in Nat : y = w * m
    OBVIOUS
  <2>2. PICK u \in Nat : u = p * q
    OBVIOUS
  <2>3. v = u + r /\ u = y + z
    BY <1>1, <1>5, <2>1, <2>2
  <2>4. v = y + (z + r)
    BY <2>3
  <2> QED
    BY <2>1, <2>4
<1>8. v % w = z + r
  BY <1>6, <1>7, DivisionIsUnique
<1>9. z + r = r + z
  OBVIOUS
<1> QED
  BY <1>1, <1>2, <1>3, <1>4, <1>8, <1>9

\* A sequence of digits each of which is what division leaves at its place.
LEMMA ValueOfPlaces ==
  ASSUME NEW b \in Nat, b >= 2, NEW v \in Nat, NEW ds \in Seq(Nat), NEW L \in Nat, L = Len(ds),
         \A n \in 0 .. L - 1 : ds[L - n] = (v \div Powers(b)[n]) % b,
         v < Powers(b)[L]
  PROVE  Value(ds, b) = v
<1>1. PICK q \in [0 .. L -> Nat] : q = Places(ds, b)
  BY PlacesFollow
<1>2. PICK p \in [Nat -> Nat] : p = Powers(b)
  BY PowersFollow
<1>3. q[0] = 0 /\ \A n \in 0 .. L - 1 : q[n + 1] = q[n] + ds[L - n] * p[n]
  BY <1>1, <1>2, PlacesFollow
<1>4. p[0] = 1 /\ \A n \in Nat : p[n + 1] = b * p[n]
  BY <1>2, PowersFollow
<1>5. ASSUME NEW n \in Nat
      PROVE  p[n] >= 1
  <2>1. p[n] \in Nat /\ p[n] > n
    BY <1>2, PowersGrow
  <2> QED
    BY <2>1
<1> DEFINE S == {n \in Nat : n <= L => q[n] = v % p[n]}
<1>6. 0 \in S
  <2>1. v % 1 = 0
    OBVIOUS
  <2> QED
    BY <1>3, <1>4, <2>1
<1>7. ASSUME NEW n \in Nat, n \in S
      PROVE  n + 1 \in S
  <2> SUFFICES ASSUME n + 1 <= L
               PROVE  q[n + 1] = v % p[n + 1]
    OBVIOUS
  <2>1. q[n] = v % p[n]
    BY <1>7
  <2>2. n \in 0 .. L - 1
    OBVIOUS
  <2>3. ds[L - n] = (v \div p[n]) % b
    BY <1>2, <2>2
  <2>4. PICK t \in Nat : t = p[n] /\ t >= 1
    BY <1>5
  <2>5. q[n + 1] = (v % t) + ((v \div t) % b) * t
    BY <1>3, <2>1, <2>2, <2>3, <2>4
  <2>6. b >= 1
    OBVIOUS
  <2>7. v % (b * t) = (v % t) + ((v \div t) % b) * t
    BY <2>4, <2>6, NextPlace
  <2>8. p[n + 1] = b * t
    BY <1>4, <2>4
  <2> QED
    BY <2>5, <2>7, <2>8
<1>8. L \in S
  <2> HIDE DEF S
  <2> QED
    BY <1>6, <1>7, Induction
<1>9. q[L] = v % p[L]
  BY <1>8
<1>10. v % p[L] = v
  <2>1. p[L] \in Nat /\ v < p[L]
    BY <1>2
  <2> QED
    BY <2>1, Small
<1> QED
  BY <1>1, <1>9, <1>10 DEF Value

\* to_chars uses as many digits as the number needs.
LEMMA SizeFits ==
  ASSUME NEW b \in Nat, b >= 2, NEW v \in Nat
  PROVE  /\ Size(v, b) \in Nat /\ Size(v, b) >= 1
         /\ v < Powers(b)[Size(v, b)]
         /\ \A k \in Nat : k >= 1 /\ v < Powers(b)[k] => Size(v, b) <= k
<1>1. PICK p \in [Nat -> Nat] : p = Powers(b)
  BY PowersFollow
<1> DEFINE T == {n \in 1 .. v + 1 : v < p[n]}
<1>2. PICK n \in T : \A k \in T : n <= k
  <2>1. v + 1 \in T
    <3>1. v + 1 \in Nat /\ p[v + 1] \in Nat /\ p[v + 1] > v + 1
      BY <1>1, PowersGrow
    <3> QED
      BY <3>1
  <2>2. T \subseteq Nat
    OBVIOUS
  <2> HIDE DEF T
  <2> QED
    BY <2>1, <2>2, NatLeast
<1>3. n \in 1 .. v + 1 /\ v < p[n]
  BY <1>2
<1>4. n = 1 \/ p[n - 1] <= v
  <2> SUFFICES ASSUME n # 1, ~(p[n - 1] <= v)
               PROVE  FALSE
    OBVIOUS
  <2>1. n - 1 \in 1 .. v + 1 /\ n - 1 \in Nat /\ n - 1 < n
    BY <1>3
  <2>2. p[n - 1] \in Nat
    BY <2>1
  <2>3. n - 1 \in T
    BY <2>1, <2>2
  <2> HIDE DEF T
  <2>4. n <= n - 1
    BY <1>2, <2>3
  <2> QED
    BY <1>3, <2>1, <2>4
<1> DEFINE m == CHOOSE k \in 1 .. v + 1 : v < p[k] /\ (k = 1 \/ p[k - 1] <= v)
<1>5. m \in 1 .. v + 1 /\ v < p[m] /\ (m = 1 \/ p[m - 1] <= v)
  BY <1>3, <1>4
<1>6. m = Size(v, b)
  BY <1>1 DEF Size
<1> HIDE DEF m
<1>7. ASSUME NEW k \in Nat, k >= 1, v < p[k]
      PROVE  m <= k
  <2> SUFFICES ASSUME k < m
               PROVE  FALSE
    BY <1>5
  <2>1. m - 1 \in Nat /\ k <= m - 1 /\ m # 1
    BY <1>5, <1>7
  <2>2. p[k] <= p[m - 1]
    BY <1>1, <2>1, PowersGrow
  <2>3. p[m - 1] <= v /\ p[m - 1] \in Nat /\ p[k] \in Nat
    BY <1>5, <2>1
  <2> QED
    BY <1>7, <2>2, <2>3
<1> QED
  BY <1>1, <1>5, <1>6, <1>7

LEMMA Listed ==
  ASSUME NEW T, NEW m \in Nat, NEW f \in [1 .. m -> T]
  PROVE  f \in Seq(T) /\ Len(f) = m
OBVIOUS

\* A sequence in two parts.
InParts(whole, s, m, t, n) ==
  /\ Len(whole) = m + n
  /\ \A i \in 1 .. m : whole[i] = s[i]
  /\ \A i \in 1 .. n : whole[m + i] = t[i]

LEMMA Joined ==
  ASSUME NEW T, NEW s \in Seq(T), NEW t \in Seq(T),
         NEW m \in Nat, m = Len(s), NEW n \in Nat, n = Len(t)
  PROVE  s \o t \in Seq(T) /\ InParts(s \o t, s, m, t, n)
BY DEF InParts

\* What is written has the value that was to be written, and the width that was asked for
\* or that it needs.
LEMMA WrittenReadsBack ==
  ASSUME NEW b \in Nat, b >= 2, NEW v \in Nat, NEW width \in Nat
  PROVE  /\ Write(v, b, width) \in Seq(0 .. b - 1)
         /\ Write(v, b, width) # <<>>
         /\ Value(Write(v, b, width), b) = v
         /\ width >= 1 /\ v < Powers(b)[width] => Len(Write(v, b, width)) = width
<1>1. PICK p \in [Nat -> Nat] : p = Powers(b)
  BY PowersFollow
<1>2. PICK s \in Nat : s = Size(v, b)
  BY SizeFits
<1>3. s >= 1 /\ v < p[s] /\ \A k \in Nat : k >= 1 /\ v < p[k] => s <= k
  BY <1>1, <1>2, SizeFits
<1>4. PICK z \in Nat : z = IF width > s THEN width - s ELSE 0
  OBVIOUS
<1>5. PICK L \in Nat : L = z + s
  OBVIOUS
<1> DEFINE D(n) == (v \div p[n]) % b
<1>6. ASSUME NEW n \in Nat
      PROVE  D(n) \in 0 .. b - 1
  <2>1. PICK t \in Nat : t = p[n] /\ t >= 1
    <3>1. p[n] \in Nat /\ p[n] > n
      BY <1>1, PowersGrow
    <3> QED
      BY <3>1
  <2>2. PICK q \in Nat : q = v \div t
    BY <2>1, Division
  <2>3. q % b \in 0 .. b - 1
    OBVIOUS
  <2> QED
    BY <2>1, <2>2, <2>3
<1>7. PICK zeros \in [1 .. z -> 0 .. b - 1] : \A i \in 1 .. z : zeros[i] = 0
  <2>1. 0 \in 0 .. b - 1
    OBVIOUS
  <2>2. [i \in 1 .. z |-> 0] \in [1 .. z -> 0 .. b - 1]
    BY <2>1
  <2> QED
    BY <2>2
<1>8. PICK chars \in [1 .. s -> 0 .. b - 1] : \A i \in 1 .. s : chars[i] = D(s - i)
  <2>1. \A i \in 1 .. s : s - i \in Nat
    OBVIOUS
  <2>2. [i \in 1 .. s |-> D(s - i)] \in [1 .. s -> 0 .. b - 1]
    BY <1>6, <2>1
  <2> HIDE DEF D
  <2> QED
    BY <2>2
<1>9. /\ zeros \in Seq(0 .. b - 1) /\ Len(zeros) = z
      /\ chars \in Seq(0 .. b - 1) /\ Len(chars) = s
  <2>1. PICK T : T = 0 .. b - 1
    OBVIOUS
  <2>2. zeros \in [1 .. z -> T] /\ chars \in [1 .. s -> T]
    BY <2>1
  <2>3. zeros \in Seq(T) /\ Len(zeros) = z
    BY <2>2, Listed
  <2>4. chars \in Seq(T) /\ Len(chars) = s
    BY <2>2, Listed
  <2> QED
    BY <2>1, <2>3, <2>4
<1>10. PICK text : text = zeros \o chars
  OBVIOUS
<1>11. Write(v, b, width) = text
  <2>1. ToChars(v, b) = [i \in 1 .. s |-> D(s - i)]
    BY <1>1, <1>2 DEF ToChars
  <2>2. chars = [i \in 1 .. s |-> D(s - i)]
    <3> HIDE DEF D
    <3> QED
      BY <1>8
  <2>3. 1 .. width - s = 1 .. z
    BY <1>4
  <2>4. zeros = [i \in 1 .. z |-> 0]
    BY <1>7
  <2> HIDE DEF D
  <2> QED
    BY <1>9, <1>10, <2>1, <2>2, <2>3, <2>4 DEF Write
<1> HIDE DEF D
<1>12. /\ text \in Seq(0 .. b - 1) /\ Len(text) = L
       /\ \A i \in 1 .. z : text[i] = zeros[i]
       /\ \A i \in 1 .. s : text[z + i] = chars[i]
  <2>1. text \in Seq(0 .. b - 1) /\ InParts(text, zeros, z, chars, s)
    BY <1>9, <1>10, Joined, Zenon
  <2> QED
    BY <1>5, <2>1 DEF InParts
<1>13. ASSUME NEW n \in 0 .. L - 1
       PROVE  text[L - n] = D(n)
  <2>1. n \in Nat /\ L - n \in 1 .. L
    OBVIOUS
  <2>2. CASE n < s
    <3>1. s - n \in 1 .. s /\ L - n = z + (s - n) /\ s - (s - n) = n
      BY <1>5, <2>1, <2>2
    <3>2. text[z + (s - n)] = chars[s - n] /\ chars[s - n] = D(s - (s - n))
      BY <1>8, <1>12, <3>1
    <3> QED
      BY <3>1, <3>2
  <2>3. CASE ~(n < s)
    <3>1. L - n \in 1 .. z
      BY <1>5, <2>1, <2>3
    <3>2. text[L - n] = 0
      <4>1. PICK i \in 1 .. z : i = L - n
        BY <3>1
      <4>2. text[i] = zeros[i] /\ zeros[i] = 0
        BY <1>7, <1>12
      <4> QED
        BY <4>1, <4>2
    <3>3. p[s] <= p[n] /\ p[s] \in Nat /\ p[n] \in Nat
      <4>1. s <= n /\ n \in Nat
        BY <2>1, <2>3
      <4> QED
        BY <1>1, <4>1, PowersGrow
    <3>4. v < p[n]
      BY <1>3, <3>3
    <3>5. v \div p[n] = 0
      BY <3>3, <3>4, Small
    <3>6. D(n) = 0
      <4>1. 0 % b = 0
        BY Small
      <4>2. D(n) = 0 % b
        BY <3>5 DEF D
      <4> QED
        BY <4>1, <4>2
    <3> QED
      BY <3>2, <3>6
  <2> QED
    BY <2>2, <2>3
<1>14. Value(text, b) = v
  <2>1. text \in Seq(Nat)
    BY <1>12
  <2>2. p[s] <= p[L] /\ p[s] \in Nat /\ p[L] \in Nat
    <3>1. s <= L
      BY <1>5
    <3> QED
      BY <1>1, <3>1, PowersGrow
  <2>3. v < p[L]
    BY <1>3, <2>2
  <2>4. \A n \in 0 .. L - 1 : text[L - n] = (v \div p[n]) % b
    BY <1>13 DEF D
  <2> QED
    BY <1>1, <1>12, <2>1, <2>3, <2>4, ValueOfPlaces
<1>15. text # <<>>
  <2>1. L >= 1
    BY <1>3, <1>5
  <2> QED
    BY <1>12, <2>1
<1>16. width >= 1 /\ v < p[width] => L = width
  BY <1>3, <1>4, <1>5
<1> QED
  BY <1>1, <1>11, <1>12, <1>14, <1>15, <1>16

-----------------------------------------------------------------------------
(* The commands.                                                           *)

Characters == (0 .. Hexadecimal - 1) \cup {Other}

\* Why an argument is refused.
Unreadable(arguments, base) ==
  \/ Len(arguments) # 1
  \/ Leading(arguments[1], base) = <<>>
  \/ Value(Leading(arguments[1], base), base) >= Limit

\* What is shown is digits of the base the command writes, of a number that fits, behind
\* a prefix of characters.
ScreenInv ==
  screen.kind = "result" =>
    /\ command \in {"hex", "dec"}
    /\ screen.prefix \in Seq(Characters)
    /\ screen.text \in Seq(0 .. Shown - 1) /\ screen.text # <<>>
    /\ Value(screen.text, Shown) < Limit

NumbersInv == ScreenInv /\ RefusedOnlyIfUnreadable /\ DigitsComeBack /\ DumpReadsBack

\* A readable argument is answered with its number, another with an error.
LEMMA Handled ==
  ASSUME NEW base \in {Decimal, Hexadecimal}, NEW to \in {Decimal, Hexadecimal}, NEW prefix,
         texts' \in Seq(Seq(Characters)), Handle(base, prefix, to)
  PROVE  /\ screen'.kind # "result" <=> Unreadable(texts', base)
         /\ screen'.kind = "result" =>
              \E v \in Nat : /\ v < Limit
                             /\ v = Value(Leading(texts'[1], base), base)
                             /\ screen' = Result(prefix, Write(v, to, 0))
<1>1. CASE Len(texts') # 1
  <2>1. screen'.kind = "count"
    BY <1>1 DEF Handle, Error
  <2> QED
    BY <1>1, <2>1 DEF Unreadable
<1>2. CASE Len(texts') = 1
  <2>1. PICK text \in Seq(Characters) : text = texts'[1]
    BY <1>2
  <2>2. base \in Nat /\ base >= 2 /\ base <= Hexadecimal
    BY Bases
  <2>3. PICK digits \in Seq(0 .. base - 1) : digits = Leading(text, base)
    BY <2>1, <2>2, LeadingDigits DEF Characters
  <2>4. digits \in Seq(Nat)
    BY <2>2
  <2>5. PICK v \in Nat : v = Value(digits, base)
    BY <2>2, <2>4, EvaluateIsValue
  <2>6. Evaluate(digits, base) = IF v >= Limit THEN -1 ELSE v
    BY <2>2, <2>4, <2>5, EvaluateIsValue
  <2>7. FromString(text, base) = IF digits = <<>> \/ v >= Limit THEN -1 ELSE v
    BY <2>3, <2>6 DEF FromString
  <2>8. Unreadable(texts', base) <=> digits = <<>> \/ v >= Limit
    BY <1>2, <2>1, <2>3, <2>5 DEF Unreadable
  <2>9. screen' = IF FromString(text, base) = -1 THEN Error("value")
                  ELSE Result(prefix, Write(FromString(text, base), to, 0))
    BY <1>2, <2>1 DEF Handle
  <2>10. CASE digits = <<>> \/ v >= Limit
    <3>1. screen'.kind = "value"
      BY <2>7, <2>9, <2>10 DEF Error
    <3> QED
      BY <2>8, <2>10, <3>1
  <2>11. CASE ~(digits = <<>> \/ v >= Limit)
    <3>1. screen' = Result(prefix, Write(v, to, 0))
      <4>1. v # -1
        OBVIOUS
      <4> QED
        BY <2>7, <2>9, <2>11, <4>1
    <3>2. screen'.kind = "result"
      BY <3>1 DEF Result
    <3>3. v < Limit
      BY <2>11, Bases
    <3> QED
      BY <2>1, <2>3, <2>5, <2>8, <2>11, <3>1, <3>2, <3>3
  <2> QED
    BY <2>10, <2>11
<1> QED
  BY <1>1, <1>2

\* A command's answer: what Handled says of the base it reads, in the base it shows.
Answered(base) ==
  /\ command' \in {"hex", "dec"} /\ base = (IF command' = "hex" THEN Decimal ELSE Hexadecimal)
  /\ screen'.kind # "result" <=> Unreadable(texts', base)
  /\ screen'.kind = "result" =>
       /\ screen'.prefix \in Seq(Characters)
       /\ screen'.text \in Seq(0 .. Shown' - 1) /\ screen'.text # <<>>
       /\ Value(screen'.text, Shown') < Limit
       /\ Value(screen'.text, Shown') = Value(Leading(texts'[1], base), base)

LEMMA Entered ==
  ASSUME texts' \in Seq(Seq(Characters)), Enter
  PROVE  \E base \in {Decimal, Hexadecimal} : Answered(base)
<1>1. PICK base \in {Decimal, Hexadecimal}, to \in {Decimal, Hexadecimal}, prefix \in Seq(Characters) :
        /\ command' \in {"hex", "dec"} /\ base = (IF command' = "hex" THEN Decimal ELSE Hexadecimal)
        /\ to = (IF command' = "hex" THEN Hexadecimal ELSE Decimal)
        /\ Handle(base, prefix, to)
  <2>1. <<0, Other>> \in Seq(Characters) /\ <<>> \in Seq(Characters)
    <3>1. 0 \in Characters /\ Other \in Characters
      BY Bases DEF Characters
    <3> QED
      BY <3>1
  <2>2. CASE HandleHexCommand
    BY <2>1, <2>2 DEF HandleHexCommand
  <2>3. CASE HandleDecCommand
    BY <2>1, <2>3 DEF HandleDecCommand
  <2> QED
    BY <2>2, <2>3 DEF Enter
<1>2. to = Shown' /\ to \in Nat /\ to >= 2
  BY <1>1, Bases DEF Shown
<1>3. screen'.kind # "result" <=> Unreadable(texts', base)
  BY <1>1, Handled
<1>4. ASSUME screen'.kind = "result"
      PROVE  /\ screen'.prefix \in Seq(Characters)
             /\ screen'.text \in Seq(0 .. Shown' - 1) /\ screen'.text # <<>>
             /\ Value(screen'.text, Shown') < Limit
             /\ Value(screen'.text, Shown') = Value(Leading(texts'[1], base), base)
  <2>1. PICK v \in Nat : /\ v < Limit
                         /\ v = Value(Leading(texts'[1], base), base)
                         /\ screen' = Result(prefix, Write(v, to, 0))
    BY <1>1, <1>4, Handled
  <2>2. PICK text : text = Write(v, to, 0)
    OBVIOUS
  <2>3. screen'.prefix = prefix /\ screen'.text = text
    BY <2>1, <2>2 DEF Result
  <2>4. text \in Seq(0 .. to - 1) /\ text # <<>> /\ Value(text, to) = v
    BY <1>2, <2>2, WrittenReadsBack
  <2> QED
    BY <1>1, <1>2, <2>1, <2>3, <2>4
<1> QED
  BY <1>1, <1>3, <1>4 DEF Answered

LEMMA WiderSequence ==
  ASSUME NEW S, NEW T, S \subseteq T, NEW s \in Seq(S)
  PROVE  s \in Seq(T)
OBVIOUS

\* Nothing is dumped when a command is entered.
LEMMA NothingDumped ==
  ASSUME block' = <<>>, rows' = <<>>
  PROVE  DumpReadsBack'
<1>1. Len(block') = 0 /\ Len(rows') = 0 /\ DOMAIN rows' = {}
  OBVIOUS
<1>2. 0 * RowLength = 0
  BY Bases
<1> QED
  BY <1>1, <1>2 DEF DumpReadsBack

LEMMA TypeArgumentsStep ==
  ASSUME TypeArguments
  PROVE  NumbersInv'
<1>1. texts' \in Seq(Seq(Characters))
  <2>1. ASSUME NEW text \in Texts
        PROVE  text \in Seq(Characters)
    <3>1. PICK n \in 1 .. MaxLength : text \in [1 .. n -> Characters]
      BY DEF Texts, Characters
    <3>2. n \in Nat
      OBVIOUS
    <3> QED
      BY <3>1, <3>2, Listed
  <2>2. ASSUME NEW digit \in 0 .. 1
        PROVE  <<digit>> \in Seq(Characters)
    <3>1. digit \in Characters
      BY Bases DEF Characters
    <3> QED
      BY <3>1
  <2>3. PICK Strings : Strings = Seq(Characters)
    OBVIOUS
  <2>4. CASE \E text \in Texts : texts' = <<text>>
    <3>1. PICK text \in Strings : texts' = <<text>>
      BY <2>1, <2>3, <2>4
    <3> QED
      BY <2>3, <3>1
  <2>5. CASE texts' = <<>>
    BY <2>5
  <2>6. CASE \E digit \in 0 .. 1 : texts' = <<<<digit>>, <<digit>>>>
    <3>1. PICK text \in Strings : texts' = <<text, text>>
      BY <2>2, <2>3, <2>6
    <3> QED
      BY <2>3, <3>1
  <2> QED
    BY <2>4, <2>5, <2>6 DEF TypeArguments
<1>2. Enter /\ copied' = "no"
  BY DEF TypeArguments
<1>3. PICK base \in {Decimal, Hexadecimal} : Answered(base)
  BY <1>1, <1>2, Entered
<1>4. ScreenInv'
  BY <1>3 DEF ScreenInv, Answered
<1>5. RefusedOnlyIfUnreadable'
  BY <1>3 DEF RefusedOnlyIfUnreadable, Answered, Unreadable
<1>6. DigitsComeBack'
  BY <1>2 DEF DigitsComeBack
<1>7. DumpReadsBack'
  BY <1>2, NothingDumped DEF Enter
<1> QED
  BY <1>4, <1>5, <1>6, <1>7 DEF NumbersInv

LEMMA CopyStep ==
  ASSUME NumbersInv, Copy
  PROVE  NumbersInv'
<1>1. /\ command \in {"hex", "dec"} /\ screen.prefix \in Seq(Characters)
      /\ screen.text \in Seq(0 .. Shown - 1) /\ screen.text # <<>>
      /\ Value(screen.text, Shown) < Limit
  BY DEF NumbersInv, ScreenInv, Copy
<1>2. Shown \in {Decimal, Hexadecimal} /\ Shown \in Nat
  BY Bases DEF Shown
<1>3. screen.text \in Seq(Characters)
  <2>1. 0 .. Shown - 1 \subseteq Characters
    BY <1>2, Bases DEF Characters
  <2> QED
    BY <1>1, <2>1, WiderSequence
<1>4. texts' \in Seq(Seq(Characters))
  <2>1. PICK text \in Seq(Characters) : texts' = <<text>>
    <3>1. screen.prefix \o screen.text \in Seq(Characters)
      BY <1>1, <1>3
    <3> QED
      BY <1>3, <3>1 DEF Copy
  <2> QED
    BY <2>1
<1>5. Enter
  BY DEF Copy
<1>6. PICK base \in {Decimal, Hexadecimal} : Answered(base)
  BY <1>4, <1>5, Entered
<1>7. ScreenInv'
  BY <1>6 DEF ScreenInv, Answered
<1>8. RefusedOnlyIfUnreadable'
  BY <1>6 DEF RefusedOnlyIfUnreadable, Answered, Unreadable
<1>9. DigitsComeBack'
  <2> SUFFICES ASSUME copied' = "digits", from' # command'
               PROVE  screen'.kind = "result" /\ Value(screen'.text, Shown') = origin'
    BY DEF DigitsComeBack
  <2>1. texts' = <<screen.text>> /\ from' = command /\ origin' = Value(screen.text, Shown)
    BY DEF Copy
  <2>2. base = Shown
    BY <1>1, <1>6, <2>1 DEF Answered, Shown
  <2>3. Leading(screen.text, base) = screen.text
    BY <1>1, <1>2, <2>2, LeadingAll
  <2>4. Len(texts') = 1 /\ texts'[1] = screen.text
    BY <2>1
  <2>5. PICK v : v = Value(screen.text, base) /\ v < Limit /\ v \in Nat
    <3>1. screen.text \in Seq(Nat) /\ Shown >= 2
      BY <1>1, <1>2, Bases
    <3> QED
      BY <1>1, <1>2, <2>2, <3>1, EvaluateIsValue
  <2>6. ~ (v >= Limit)
    BY <2>5, Bases
  <2>7. ~Unreadable(texts', base)
    BY <1>1, <2>3, <2>4, <2>5, <2>6 DEF Unreadable
  <2> QED
    BY <1>6, <2>1, <2>2, <2>3, <2>4, <2>7 DEF Answered
<1>10. DumpReadsBack'
  BY <1>5, NothingDumped DEF Enter
<1> QED
  BY <1>7, <1>8, <1>9, <1>10 DEF NumbersInv

-----------------------------------------------------------------------------
(* The dump.                                                               *)

\* A byte has two digits.
LEMMA ByteFits ==
  /\ ByteSize \in Nat /\ ByteSize >= 1 /\ Powers(Hexadecimal)[2] = ByteSize
<1>1. PICK h \in Nat : h = Hexadecimal /\ h >= 2
  BY Bases
<1>2. PICK p \in [Nat -> Nat] : p = Powers(h)
  BY PowersFollow
<1>3. p[0] = 1 /\ p[0 + 1] = h * p[0] /\ p[1 + 1] = h * p[1]
  BY <1>2, PowersFollow
<1>4. p[2] = h * h
  <2>1. 0 + 1 = 1 /\ 1 + 1 = 2 /\ h * 1 = h
    OBVIOUS
  <2> QED
    BY <1>3, <2>1
<1>5. h * h \in Nat /\ h * h >= 1
  BY <1>1
<1> QED
  BY <1>1, <1>2, <1>4, <1>5 DEF ByteSize

\* The rows are as many as the data needs.
LEMMA RowsNeeded ==
  ASSUME NEW n \in Nat, NEW w \in Nat, w >= 1
  PROVE  \E last \in Nat :
           /\ last = (n + w - 1) \div w
           /\ n <= last * w
           /\ \A r \in 1 .. last : (r - 1) * w \in Nat /\ (r - 1) * w < n
<1>1. n + w - 1 \in Nat
  OBVIOUS
<1>2. PICK last \in Nat, m \in 0 .. w - 1 :
        last = (n + w - 1) \div w /\ n + w - 1 = w * last + m
  BY <1>1, Division
<1>3. PICK all \in Nat : all = last * w
  OBVIOUS
<1>4. w * last = all
  BY <1>3
<1>5. n <= all /\ all - w < n
  BY <1>2, <1>4
<1>6. ASSUME NEW r \in 1 .. last
      PROVE  (r - 1) * w \in Nat /\ (r - 1) * w < n
  <2>1. PICK k \in Nat : k = last - r
    OBVIOUS
  <2>2. PICK j \in Nat : j = r - 1
    OBVIOUS
  <2>3. last = j + k + 1
    BY <2>1, <2>2
  <2>4. (j + k + 1) * w = j * w + k * w + w
    OBVIOUS
  <2>5. PICK x \in Nat, y \in Nat : x = j * w /\ y = k * w
    OBVIOUS
  <2>6. all = x + y + w
    BY <1>3, <2>3, <2>4, <2>5
  <2>7. x < n
    BY <1>5, <2>6
  <2> QED
    BY <2>2, <2>5, <2>7
<1> QED
  BY <1>2, <1>3, <1>5, <1>6

LEMMA SequenceParts ==
  ASSUME NEW T, NEW s \in Seq(T)
  PROVE  Len(s) \in Nat /\ \A i \in 1 .. Len(s) : s[i] \in T
OBVIOUS

LEMMA HexdumpStep ==
  ASSUME NEW data \in Blocks, Hexdump(data)
  PROVE  NumbersInv'
<1>1. PICK n \in Nat : n = Len(data) /\ \A i \in 1 .. n : data[i] \in 0 .. ByteSize - 1
  <2>1. PICK T : T = 0 .. ByteSize - 1
    OBVIOUS
  <2>2. data \in Seq(T)
    BY <2>1, BaseAssumption
  <2>3. Len(data) \in Nat /\ \A i \in 1 .. Len(data) : data[i] \in T
    BY <2>2, SequenceParts
  <2> QED
    BY <2>1, <2>3
<1>2. \A i \in 1 .. n : data[i] \in 0 .. ByteSize - 1
  BY <1>1
<1>3. PICK w \in Nat : w = RowLength /\ w >= 1
  BY Bases
<1>4. PICK last \in Nat :
        /\ last = (n + w - 1) \div w
        /\ n <= last * w
        /\ \A r \in 1 .. last : (r - 1) * w \in Nat /\ (r - 1) * w < n
  BY <1>3, RowsNeeded
<1> DEFINE bytes(r) == IF n - (r - 1) * w < w THEN n - (r - 1) * w ELSE w
           row(r) == [number |-> Write(r - 1, Decimal, RowDigits),
                      cells  |-> [i \in 1 .. bytes(r) |->
                                    Write(data[(r - 1) * w + i], Hexadecimal, 2)],
                      blanks |-> w - bytes(r)]
<1>5. block' = data /\ Cleared
  BY DEF Hexdump
<1>6. rows' = [r \in 1 .. last |-> row(r)]
  BY <1>1, <1>3, <1>4 DEF Hexdump
<1>7. ASSUME NEW r \in 1 .. last
      PROVE  LET first == (r - 1) * w
             IN  /\ first < n
                 /\ Value(row(r).number, Decimal) = r - 1
                 /\ r - 1 < Powers(Decimal)[RowDigits] => Len(row(r).number) = RowDigits
                 /\ Len(row(r).cells) + row(r).blanks = w
                 /\ \A i \in 1 .. w :
                      IF first + i <= n
                      THEN /\ i \in DOMAIN row(r).cells /\ Len(row(r).cells[i]) = 2
                           /\ Value(row(r).cells[i], Hexadecimal) = data[first + i]
                      ELSE i \notin DOMAIN row(r).cells
  <2>1. PICK first \in Nat : first = (r - 1) * w /\ first < n
    BY <1>4
  <2>2. PICK k \in Nat : k = (IF n - first < w THEN n - first ELSE w) /\ k <= w
    BY <1>3, <2>1
  <2>3. \A i \in 1 .. w : first + i <= n <=> i \in 1 .. k
    BY <1>3, <2>1, <2>2
  <2>4. r - 1 \in Nat /\ RowDigits \in Nat /\ RowDigits >= 1
    BY Bases
  <2>5. /\ Value(Write(r - 1, Decimal, RowDigits), Decimal) = r - 1
        /\ r - 1 < Powers(Decimal)[RowDigits] => Len(Write(r - 1, Decimal, RowDigits)) = RowDigits
    BY <2>4, Bases, WrittenReadsBack
  <2>6. PICK cells : cells = [i \in 1 .. k |-> Write(data[first + i], Hexadecimal, 2)]
    OBVIOUS
  <2>7. DOMAIN cells = 1 .. k /\ Len(cells) = k
    BY <2>6
  <2>8. ASSUME NEW i \in 1 .. k
        PROVE  Len(cells[i]) = 2 /\ Value(cells[i], Hexadecimal) = data[first + i]
    <3>1. i \in 1 .. w /\ first + i \in 1 .. n
      BY <2>1, <2>2, <2>3
    <3>2. PICK v \in Nat : v = data[first + i] /\ v < Powers(Hexadecimal)[2]
      BY <1>2, <3>1, ByteFits
    <3>3. cells[i] = Write(v, Hexadecimal, 2)
      BY <2>6, <3>2
    <3>4. PICK width \in Nat : width = 2 /\ width >= 1
      OBVIOUS
    <3>5. Hexadecimal \in Nat /\ Hexadecimal >= 2
      BY Bases
    <3>6. PICK text : text = Write(v, Hexadecimal, width)
      OBVIOUS
    <3>7. Value(text, Hexadecimal) = v
      BY <3>5, <3>6, WrittenReadsBack
    <3>8. Len(text) = width
      BY <3>2, <3>4, <3>5, <3>6, WrittenReadsBack
    <3> QED
      BY <3>2, <3>3, <3>4, <3>6, <3>7, <3>8
  <2>9. /\ row(r).number = Write(r - 1, Decimal, RowDigits)
        /\ row(r).cells = cells /\ row(r).blanks = w - k
    BY <2>1, <2>2, <2>6
  <2> HIDE DEF row
  <2>10. \A i \in 1 .. w :
           IF first + i <= n
           THEN /\ i \in DOMAIN cells /\ Len(cells[i]) = 2
                /\ Value(cells[i], Hexadecimal) = data[first + i]
           ELSE i \notin DOMAIN cells
    BY <2>3, <2>7, <2>8
  <2>11. k + (w - k) = w
    OBVIOUS
  <2> QED
    BY <2>1, <2>5, <2>7, <2>9, <2>10, <2>11
<1> HIDE DEF row
<1>8. DumpReadsBack'
  <2>1. DOMAIN rows' = 1 .. last /\ Len(rows') = last
    BY <1>6
  <2>2. \A r \in DOMAIN rows' : rows'[r] = row(r)
    BY <1>6
  <2> QED
    BY <1>1, <1>3, <1>4, <1>5, <1>7, <2>1, <2>2 DEF DumpReadsBack
<1>9. command' = "none" /\ screen'.kind = "none" /\ copied' = "no"
  BY <1>5 DEF Cleared, Error
<1>10. ScreenInv' /\ RefusedOnlyIfUnreadable' /\ DigitsComeBack'
  BY <1>9 DEF ScreenInv, RefusedOnlyIfUnreadable, DigitsComeBack
<1> QED
  BY <1>8, <1>10 DEF NumbersInv

-----------------------------------------------------------------------------
LEMMA NumbersHold == NumberSpec => []NumbersInv
<1>1. NumberInit => NumbersInv
  <2> SUFFICES ASSUME NumberInit
               PROVE  NumbersInv
    OBVIOUS
  <2>1. command = "none" /\ screen.kind = "none" /\ copied = "no"
    BY DEF NumberInit, Error
  <2>2. ScreenInv /\ RefusedOnlyIfUnreadable /\ DigitsComeBack
    BY <2>1 DEF ScreenInv, RefusedOnlyIfUnreadable, DigitsComeBack
  <2>3. Len(block) = 0 /\ Len(rows) = 0 /\ DOMAIN rows = {} /\ 0 * RowLength = 0
    BY Bases DEF NumberInit
  <2>4. DumpReadsBack
    BY <2>3 DEF DumpReadsBack
  <2> QED
    BY <2>2, <2>4 DEF NumbersInv
<1>2. NumbersInv /\ [NumberNext]_numberVars => NumbersInv'
  <2> SUFFICES ASSUME NumbersInv, [NumberNext]_numberVars
               PROVE  NumbersInv'
    OBVIOUS
  <2>1. CASE TypeArguments
    BY <2>1, TypeArgumentsStep
  <2>2. CASE Copy
    BY <2>2, CopyStep
  <2>3. CASE \E data \in Blocks : Hexdump(data)
    BY <2>3, HexdumpStep
  <2>4. CASE UNCHANGED numberVars
    BY <2>4 DEF numberVars, NumbersInv, ScreenInv, RefusedOnlyIfUnreadable, DigitsComeBack,
                DumpReadsBack, Shown
  <2> QED
    BY <2>1, <2>2, <2>3, <2>4 DEF NumberNext
<1> QED
  BY <1>1, <1>2, PTL DEF NumberSpec

\* The commands hex and dec accept exactly the arguments that begin with the digits of a
\* number of 32 bits: for every base and every length of a text, nothing that from_chars
\* reads wraps around, and nothing behind the digits makes it fail.
THEOREM OnlyUnreadableIsRefused == NumberSpec => []RefusedOnlyIfUnreadable
<1>1. NumbersInv => RefusedOnlyIfUnreadable
  BY DEF NumbersInv
<1> QED
  BY <1>1, NumbersHold, PTL

\* The digits that one of the commands shows are accepted by the other, which shows the same
\* number, whatever the number is.
THEOREM ShownDigitsComeBack == NumberSpec => []DigitsComeBack
<1>1. NumbersInv => DigitsComeBack
  BY DEF NumbersInv
<1> QED
  BY <1>1, NumbersHold, PTL

\* A dump of any data, of any length and whatever the length of a row, has every byte in its
\* place and no row too many or too few, and reads back as the data.
THEOREM DumpsReadBack == NumberSpec => []DumpReadsBack
<1>1. NumbersInv => DumpReadsBack
  BY DEF NumbersInv
<1> QED
  BY <1>1, NumbersHold, PTL
=============================================================================
