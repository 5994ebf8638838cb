-------------------------- MODULE Algorithms_proofs --------------------------
(***************************************************************************)
(* Proofs about the functions that keep no state.                          *)
(***************************************************************************)
EXTENDS Algorithms, FiniteSetTheorems, SequenceTheorems, WellFoundedInduction,
        TLAPS

(* A set of naturals has a least element, which is what induction is.      *)
LEMMA Least ==
  ASSUME NEW T \in SUBSET Nat, T # {}
  PROVE  \E x \in T : \A y \in T : x <= y
<1> DEFINE R == {ss \in Nat \X Nat : ss[1] < ss[2]}
<1>1. IsWellFoundedOn(R, Nat)
  BY NatLessThanWellFounded DEF OpToRel
<1> HIDE DEF R
<1>2. PICK x \in T : \A y \in T : ~ (<<y, x>> \in R)
  BY <1>1, WFMin
<1>3. \A y \in T : ~(y < x)
  BY <1>2 DEF R
<1> QED
  BY <1>3

(* A set of naturals that has 0 and every successor has them all.         *)
LEMMA Induction ==
  ASSUME NEW S \in SUBSET Nat, 0 \in S, \A n \in S : n + 1 \in S
  PROVE  S = Nat
<1> SUFFICES ASSUME Nat \ S # {} PROVE FALSE
  OBVIOUS
<1>1. PICK x \in Nat \ S : \A y \in Nat \ S : x <= y
  BY Least
<1>2. x # 0 /\ x - 1 \in Nat
  BY <1>1
<1>3. x - 1 \in S
  BY <1>1, <1>2
<1>4. (x - 1) + 1 = x
  BY <1>1
<1> QED
  BY <1>3, <1>4, <1>1

(* What is defined by recursion on the naturals exists: the functions on   *)
(* the first numbers, each of them unique, agree where they overlap.       *)
Follows(f, a, G, n) == f[0] = a /\ \A i \in 1 .. n : f[i] = G[<<i, f[i - 1]>>]

Recurs(f, a, G) == f[0] = a /\ \A n \in Nat : f[n + 1] = G[<<n + 1, f[n]>>]

(* A function given by recursion on 0 .. n can be continued to n + 1.     *)
LEMMA Extend ==
  ASSUME NEW S, NEW a \in S, NEW G \in [Nat \X S -> S],
         NEW n \in Nat, NEW f \in [0 .. n -> S], Follows(f, a, G, n)
  PROVE  \E g \in [0 .. n + 1 -> S] : Follows(g, a, G, n + 1)
<1> DEFINE last == G[<<n + 1, f[n]>>]
           g == [i \in 0 .. n + 1 |-> IF i = n + 1 THEN last ELSE f[i]]
<1>1. n \in 0 .. n /\ n + 1 \in Nat
  OBVIOUS
<1>2. last \in S
  <2>1. f[n] \in S
    BY <1>1
  <2> QED
    BY <1>1, <2>1
<1> HIDE DEF last
<1>3. g \in [0 .. n + 1 -> S]
  <2>1. ASSUME NEW i \in 0 .. n + 1, i # n + 1 PROVE f[i] \in S
    <3>1. i \in 0 .. n
      BY <2>1
    <3> QED
      BY <3>1
  <2> QED
    BY <1>2, <2>1
<1>4. g[n + 1] = last /\ \A i \in 0 .. n : g[i] = f[i]
  OBVIOUS
<1> HIDE DEF g
<1>5. g[0] = a
  <2>1. 0 \in 0 .. n
    OBVIOUS
  <2> QED
    BY <1>4, <2>1 DEF Follows
<1>6. ASSUME NEW i \in 1 .. n + 1 PROVE g[i] = G[<<i, g[i - 1]>>]
  <2>1. CASE i = n + 1
    <3>1. i - 1 = n
      BY <2>1
    <3>2. g[i] = last /\ g[i - 1] = f[n]
      BY <1>1, <1>4, <2>1, <3>1
    <3> QED
      BY <2>1, <3>2 DEF last
  <2>2. CASE i # n + 1
    <3>1. i \in 1 .. n /\ i \in 0 .. n /\ i - 1 \in 0 .. n
      BY <2>2
    <3>2. f[i] = G[<<i, f[i - 1]>>]
      BY <3>1 DEF Follows
    <3> QED
      BY <1>4, <3>1, <3>2
  <2> QED
    BY <2>1, <2>2
<1> QED
  BY <1>3, <1>5, <1>6 DEF Follows

(* There is a function on the naturals that begins with a and follows G.  *)
LEMMA Recursion ==
  ASSUME NEW S, NEW a \in S, NEW G \in [Nat \X S -> S]
  PROVE  \E f \in [Nat -> S] : Recurs(f, a, G)
<1> DEFINE Good(n, g) == g \in [0 .. n -> S] /\ Follows(g, a, G, n)
           A == {n \in Nat : \E g : Good(n, g)}
           first(n) == CHOOSE g : Good(n, g)
           f == [n \in Nat |-> first(n)[n]]
<1>1. \E g : Good(0, g)
  <2>1. PICK g : g = [i \in 0 .. 0 |-> a]
    OBVIOUS
  <2>2. g \in [0 .. 0 -> S] /\ g[0] = a
    BY <2>1
  <2> QED
    BY <2>2 DEF Follows
<1>2. ASSUME NEW n \in Nat, NEW g, Good(n, g) PROVE \E h : Good(n + 1, h)
  BY <1>2, Extend
<1>3. A = Nat
  <2> HIDE DEF Good
  <2>1. A \in SUBSET Nat
    OBVIOUS
  <2>2. 0 \in A /\ \A n \in A : n + 1 \in A
    BY <1>1, <1>2
  <2> HIDE DEF A
  <2> QED
    BY <2>1, <2>2, Induction
<1>4. \A n \in Nat : Good(n, first(n))
  <2> HIDE DEF Good
  <2> QED
    BY <1>3
<1> HIDE DEF first, A
(* Two of them agree where both are defined.                               *)
<1>5. ASSUME NEW n \in Nat, NEW g, Good(n, g), NEW h, Good(n + 1, h)
      PROVE  \A i \in 0 .. n : g[i] = h[i]
  <2> DEFINE Agree == {i \in Nat : i <= n => g[i] = h[i]}
  <2>1. 0 \in Agree
    BY <1>5 DEF Follows
  <2>2. ASSUME NEW i \in Agree PROVE i + 1 \in Agree
    <3>1. i \in Nat /\ i + 1 \in Nat
      OBVIOUS
    <3>2. ASSUME i + 1 <= n PROVE g[i + 1] = h[i + 1]
      <4>1. i + 1 \in 1 .. n /\ i + 1 \in 1 .. n + 1 /\ (i + 1) - 1 = i
        BY <3>1, <3>2
      <4>2. g[i] = h[i]
        BY <3>1, <3>2
      <4>3. g[i + 1] = G[<<i + 1, g[i]>>]
        BY <1>5, <4>1 DEF Follows
      <4>4. h[i + 1] = G[<<i + 1, h[i]>>]
        BY <1>5, <4>1 DEF Follows
      <4> QED
        BY <4>2, <4>3, <4>4
    <3> QED
      BY <3>1, <3>2
  <2> HIDE DEF Agree
  <2>3. Agree = Nat
    <3>1. Agree \in SUBSET Nat
      BY DEF Agree
    <3> QED
      BY <2>1, <2>2, <3>1, Induction
  <2> QED
    BY <2>3 DEF Agree
<1>6. f \in [Nat -> S]
  <2>1. ASSUME NEW n \in Nat PROVE first(n)[n] \in S
    <3>1. n \in 0 .. n
      OBVIOUS
    <3> QED
      BY <1>4, <3>1
  <2> QED
    BY <2>1
<1>7. f[0] = a
  BY <1>4 DEF Follows
<1>8. ASSUME NEW n \in Nat PROVE f[n + 1] = G[<<n + 1, f[n]>>]
  <2>1. n + 1 \in Nat /\ n \in 0 .. n /\ n + 1 \in 1 .. n + 1 /\ (n + 1) - 1 = n
    OBVIOUS
  <2>2. PICK g, h : g = first(n) /\ h = first(n + 1)
    OBVIOUS
  <2>3. Good(n, g) /\ Good(n + 1, h)
    BY <1>4, <2>1, <2>2
  <2>4. g[n] = h[n]
    BY <1>5, <2>1, <2>3
  <2>5. h[n + 1] = G[<<n + 1, h[n]>>]
    BY <2>1, <2>3 DEF Follows
  <2>6. f[n] = g[n] /\ f[n + 1] = h[n + 1]
    BY <2>1, <2>2
  <2> QED
    BY <2>4, <2>5, <2>6
<1> QED
  BY <1>6, <1>7, <1>8 DEF Recurs

(* Quotient and remainder, and that there is no other pair of them.       *)
LEMMA DivMod ==
  ASSUME NEW a \in Int, NEW b \in Int, b > 0
  PROVE  /\ a \div b \in Int /\ a % b \in Int /\ 0 <= a % b /\ a % b < b
         /\ a = b * (a \div b) + (a % b)
OBVIOUS

(* Only the quotient and the remainder divide like that.                  *)
LEMMA DivModUnique ==
  ASSUME NEW a \in Int, NEW b \in Int, b > 0,
         NEW q \in Int, NEW r \in Int, 0 <= r, r < b, a = b * q + r
  PROVE  q = a \div b /\ r = a % b
<1> DEFINE d == a \div b
           e == a % b
<1>1. d \in Int /\ e \in Int /\ 0 <= e /\ e < b /\ a = b * d + e
  BY DivMod
<1> HIDE DEF d, e
<1>2. d \in Int
  BY <1>1
<1>3. b * (q - d) = e - r
  BY <1>1
<1>4. q - d < 1
  BY <1>1, <1>3
<1>5. q - d > -1
  BY <1>1, <1>3
<1>6. q = d
  BY ONLY <1>2, <1>4, <1>5, q \in Int
<1>7. r = e
  BY <1>1, <1>6
<1> QED
  BY <1>6, <1>7 DEF d, e

(* Dividing twice is dividing by the product.                             *)
LEMMA DivDiv ==
  ASSUME NEW n \in Nat, NEW u \in Nat, u > 0, NEW b \in Nat, b > 0
  PROVE  n \div (u * b) = (n \div u) \div b
<1> DEFINE q == n \div u
           r == n % u
           p == q \div b
           s == q % b
           w == u * b
           x == u * s + r
<1>1. q \in Int /\ r \in Int /\ 0 <= r /\ r < u /\ n = u * q + r
  BY DivMod
<1> HIDE DEF q, r
<1>2. p \in Int /\ s \in Int /\ 0 <= s /\ s < b /\ q = b * p + s
  BY <1>1, DivMod
<1> HIDE DEF p, s
<1>3. w \in Int /\ w > 0
  OBVIOUS
<1>4. x \in Int /\ 0 <= x /\ x < w
  <2>1. u * s \in Int /\ 0 <= u * s
    BY <1>2
  <2>2. u * (b - s) >= u
    BY <1>2
  <2>3. u * (b - s) = u * b - u * s
    BY <1>2
  <2> QED
    BY <1>1, <2>1, <2>2, <2>3
<1>5. n = w * p + x
  <2>1. n = u * (b * p + s) + r
    BY <1>1, <1>2
  <2>2. u * (b * p + s) = (u * b) * p + u * s
    BY <1>2
  <2>3. (u * b) * p \in Int /\ u * s \in Int
    BY <1>2
  <2> QED
    BY <1>1, <2>1, <2>2, <2>3
<1> HIDE DEF w, x
<1>6. p = n \div w
  BY <1>2, <1>3, <1>4, <1>5, DivModUnique
<1> QED
  BY <1>6 DEF w, p, q

(* A quotient of naturals is one and no larger.                           *)
LEMMA PlaceNat ==
  ASSUME NEW a \in Nat, NEW b \in Nat, b > 0
  PROVE  a \div b \in Nat /\ a \div b <= a
<1>1. PICK q, r : q = a \div b /\ r = a % b
  OBVIOUS
<1>2. q \in Int /\ r \in Int /\ 0 <= r /\ r < b /\ a = b * q + r
  BY <1>1, DivMod
<1>3. q >= 0
  <2>1. ASSUME q <= -1 PROVE FALSE
    <3>1. b * (-1 - q) >= 0
      BY <1>2, <2>1
    <3>2. b * (-1 - q) = -b - b * q
      BY <1>2
    <3> QED
      BY <1>2, <3>1, <3>2
  <2> QED
    BY <1>2, <2>1
<1>4. q <= a
  <2>1. b * q >= q
    <3>1. (b - 1) * q >= 0
      BY <1>2, <1>3
    <3>2. (b - 1) * q = b * q - q
      BY <1>2
    <3> QED
      BY <1>2, <3>1, <3>2
  <2> QED
    BY <1>2, <2>1
<1> QED
  BY <1>1, <1>2, <1>3, <1>4

(* Division keeps the order.                                              *)
LEMMA DivOrder ==
  ASSUME NEW a \in Nat, NEW b \in Nat, a <= b, NEW u \in Nat, u > 0
  PROVE  a \div u <= b \div u
<1>1. PICK p, q, r, s : p = a \div u /\ r = a % u /\ q = b \div u /\ s = b % u
  OBVIOUS
<1>2. /\ p \in Int /\ r \in Int /\ 0 <= r /\ r < u /\ a = u * p + r
      /\ q \in Int /\ s \in Int /\ 0 <= s /\ s < u /\ b = u * q + s
  BY <1>1, DivMod
<1>3. ~(p > q)
  <2> SUFFICES ASSUME p >= q + 1 PROVE FALSE
    BY <1>2
  <2>1. u * (p - q - 1) >= 0
    BY <1>2
  <2>2. u * (p - q - 1) = u * p - u * q - u
    BY <1>2
  <2> QED
    BY <1>2, <2>1, <2>2
<1> QED
  BY <1>1, <1>2, <1>3

(* The powers of two, which are recursive, exist and grow.                *)
LEMMA Powers ==
  /\ pow2[0] = 1
  /\ \A k \in Nat : /\ pow2[k] \in Nat \ {0} /\ pow2[k + 1] = 2 * pow2[k]
                    /\ k < pow2[k]
<1> DEFINE G == [p \in Nat \X Nat |-> 2 * p[2]]
<1>1. G \in [Nat \X Nat -> Nat] /\ \A i, x \in Nat : G[<<i, x>>] = 2 * x
  OBVIOUS
<1> HIDE DEF G
<1>2. PICK f \in [Nat -> Nat] : f[0] = 1 /\ \A n \in Nat : f[n + 1] = G[<<n + 1, f[n]>>]
  <2>1. PICK S, a : S = Nat /\ a = 1
    OBVIOUS
  <2>2. a \in S /\ G \in [Nat \X S -> S]
    BY <1>1, <2>1
  <2>3. \E f \in [Nat -> S] : Recurs(f, a, G)
    BY <2>2, Recursion
  <2> QED
    BY <2>1, <2>3 DEF Recurs
<1>3. f = [k \in Nat |-> IF k = 0 THEN 1 ELSE 2 * f[k - 1]]
  <2>1. ASSUME NEW k \in Nat, k # 0 PROVE f[k] = 2 * f[k - 1]
    <3>1. k - 1 \in Nat /\ (k - 1) + 1 = k
      BY <2>1
    <3>2. f[k] = G[<<k, f[k - 1]>>]
      BY <1>2, <3>1
    <3> QED
      BY <1>1, <3>1, <3>2
  <2> QED
    BY <1>2, <2>1
<1>4. PICK K : /\ K = pow2
               /\ K = [k \in Nat |-> IF k = 0 THEN 1 ELSE 2 * K[k - 1]]
  BY <1>3 DEF pow2
<1>5. K[0] = 1 /\ \A k \in Nat : K[k + 1] = 2 * K[k]
  <2>1. ASSUME NEW k \in Nat PROVE K[k + 1] = 2 * K[k]
    <3>1. k + 1 \in Nat /\ k + 1 # 0 /\ (k + 1) - 1 = k
      OBVIOUS
    <3> QED
      BY <1>4, <3>1
  <2>2. 0 \in Nat
    OBVIOUS
  <2>3. K[0] = 1
    BY <1>4, <2>2
  <2> QED
    BY <2>1, <2>3
<1>6. \A k \in Nat : K[k] \in Nat \ {0} /\ k < K[k]
  <2> DEFINE A == {k \in Nat : K[k] \in Nat \ {0} /\ k < K[k]}
  <2>1. 0 \in A /\ \A k \in A : k + 1 \in A
    BY <1>5
  <2>2. A \in SUBSET Nat
    OBVIOUS
  <2> HIDE DEF A
  <2>3. A = Nat
    BY <2>1, <2>2, Induction
  <2> QED
    BY <2>3 DEF A
<1> QED
  BY <1>4, <1>5, <1>6

(* A power of a sum is a product of powers.                               *)
LEMMA PowerOfSum ==
  ASSUME NEW a \in Nat, NEW b \in Nat
  PROVE  pow2[a + b] = pow2[a] * pow2[b]
<1> DEFINE A == {k \in Nat : pow2[a + k] = pow2[a] * pow2[k]}
<1>1. 0 \in A
  <2>1. pow2[a + 0] = pow2[a] * 1
    BY Powers
  <2> QED
    BY <2>1, Powers
<1>2. ASSUME NEW k \in A PROVE k + 1 \in A
  <2>1. k \in Nat /\ a + k \in Nat /\ a + (k + 1) = (a + k) + 1
    OBVIOUS
  <2>2. PICK x, y, z : x = pow2[a] /\ y = pow2[k] /\ z = pow2[a + k]
    OBVIOUS
  <2>3. x \in Nat /\ y \in Nat /\ z = x * y
    BY <2>1, <2>2, Powers
  <2>4. pow2[a + (k + 1)] = 2 * z /\ pow2[k + 1] = 2 * y
    BY <2>1, <2>2, Powers
  <2>5. 2 * z = x * (2 * y)
    BY <2>3
  <2> QED
    BY <2>1, <2>2, <2>4, <2>5
<1>3. A \in SUBSET Nat
  OBVIOUS
<1> HIDE DEF A
<1>4. A = Nat
  BY <1>1, <1>2, <1>3, Induction
<1> QED
  BY <1>4 DEF A

(* The powers of two keep the order.                                      *)
LEMMA PowersGrow ==
  ASSUME NEW a \in Nat, NEW b \in Nat, a <= b
  PROVE  pow2[a] <= pow2[b]
<1>1. PICK d \in Nat : d = b - a
  OBVIOUS
<1>2. a + d = b
  BY <1>1
<1>3. PICK x, y, z : x = pow2[a] /\ y = pow2[d] /\ z = pow2[b]
  OBVIOUS
<1>4. x \in Nat \ {0} /\ y \in Nat \ {0} /\ z = x * y
  <2>1. pow2[a + d] = pow2[a] * pow2[d]
    BY PowerOfSum
  <2>2. pow2[a] \in Nat \ {0} /\ pow2[d] \in Nat \ {0}
    BY Powers
  <2> QED
    BY <1>2, <1>3, <2>1, <2>2
<1>5. x * (y - 1) >= 0
  BY <1>4
<1>6. x * (y - 1) = z - x
  BY <1>4
<1> QED
  BY <1>3, <1>4, <1>5, <1>6

(* What is counted up from 0 holds up to n.                               *)
LEMMA UpTo ==
  ASSUME NEW n \in Nat, NEW T \in SUBSET Nat, 0 \in T,
         \A i \in 0 .. n - 1 : i \in T => i + 1 \in T
  PROVE  \A i \in 0 .. n : i \in T
<1> DEFINE A == {i \in Nat : i <= n => i \in T}
<1>1. A \in SUBSET Nat /\ 0 \in A
  OBVIOUS
<1>2. ASSUME NEW i \in A PROVE i + 1 \in A
  <2>1. i \in Nat /\ i + 1 \in Nat /\ (i <= n => i \in T)
    OBVIOUS
  <2>2. ASSUME i + 1 <= n PROVE i + 1 \in T
    <3>1. i \in 0 .. n - 1 /\ i <= n
      BY <2>1, <2>2
    <3> QED
      BY <2>1, <3>1
  <2> QED
    BY <2>1, <2>2
<1> HIDE DEF A
<1>3. A = Nat
  BY <1>1, <1>2, Induction
<1> QED
  BY <1>3 DEF A

(* n turns from a, the i-th of which takes a state x to G[<<i, x>>].      *)
Iterates(f, a, n, G) == f[0] = a /\ \A i \in 1 .. n : f[i] = G[<<i, f[i - 1]>>]

(* A loop of n turns over states of S has a sequence of states.           *)
LEMMA Turns ==
  ASSUME NEW S, NEW a \in S, NEW n \in Nat, NEW G \in [(1 .. n) \X S -> S]
  PROVE  \E f \in [0 .. n -> S] : Iterates(f, a, n, G)
<1> DEFINE F == [p \in Nat \X S |-> IF p[1] \in 1 .. n THEN G[p] ELSE a]
<1>1. F \in [Nat \X S -> S]
  <2>1. ASSUME NEW p \in Nat \X S, p[1] \in 1 .. n PROVE G[p] \in S
    <3>1. p \in (1 .. n) \X S
      BY <2>1
    <3> QED
      BY <3>1
  <2> QED
    BY <2>1
<1>2. ASSUME NEW i \in 1 .. n, NEW x \in S PROVE F[<<i, x>>] = G[<<i, x>>]
  <2>1. <<i, x>> \in Nat \X S /\ <<i, x>>[1] = i
    OBVIOUS
  <2> QED
    BY <2>1
<1> HIDE DEF F
<1>3. PICK h \in [Nat -> S] : Recurs(h, a, F)
  BY <1>1, Recursion
<1>4. PICK f : f = [i \in 0 .. n |-> h[i]]
  OBVIOUS
<1>5. f \in [0 .. n -> S] /\ \A i \in 0 .. n : f[i] = h[i]
  BY <1>4
<1>6. f[0] = a
  BY <1>3, <1>5 DEF Recurs
<1>7. ASSUME NEW i \in 1 .. n PROVE f[i] = G[<<i, f[i - 1]>>]
  <2>1. i - 1 \in Nat /\ (i - 1) + 1 = i /\ i \in 0 .. n /\ i - 1 \in 0 .. n
    OBVIOUS
  <2>2. h[i] = F[<<i, h[i - 1]>>]
    BY <1>3, <2>1 DEF Recurs
  <2>3. h[i - 1] \in S /\ f[i] = h[i] /\ f[i - 1] = h[i - 1]
    BY <1>5, <2>1
  <2> QED
    BY <1>2, <2>2, <2>3
<1> QED
  BY <1>5, <1>6, <1>7 DEF Iterates

(* The least and the greatest of some numbers.                            *)
LEMMA MinIs ==
  ASSUME NEW T \in SUBSET Int, NEW x \in T, \A y \in T : x <= y
  PROVE  Min(T) = x
<1>1. PICK m : m = Min(T)
  OBVIOUS
<1>2. m \in T /\ \A y \in T : m <= y
  BY <1>1 DEF Min
<1> QED
  BY <1>1, <1>2

(* The greatest member is Max.                                            *)
LEMMA MaxIs ==
  ASSUME NEW T \in SUBSET Int, NEW x \in T, \A y \in T : x >= y
  PROVE  Max(T) = x
<1>1. PICK m : m = Max(T)
  OBVIOUS
<1>2. m \in T /\ \A y \in T : m >= y
  BY <1>1 DEF Max
<1> QED
  BY <1>1, <1>2

(* The less of two integers is their Min.                                 *)
LEMMA MinOfTwo ==
  ASSUME NEW a \in Int, NEW b \in Int
  PROVE  Min({a, b}) = IF a <= b THEN a ELSE b
<1>1. CASE a <= b
  BY <1>1, MinIs
<1>2. CASE ~(a <= b)
  BY <1>2, MinIs
<1> QED
  BY <1>1, <1>2

-----------------------------------------------------------------------------
(* Calls *)

(* A call keeps its arguments and is made once.                           *)
LEMMA CallMade ==
  ASSUME [Next]_vars
  PROVE  \/ UNCHANGED vars
         \/ /\ UNCHANGED call /\ result = <<>>
            /\ call.fn = "top_k_min" => TopKMin
            /\ call.fn = "GetVarint" => ReadVarint
            /\ call.fn = "GetLengthPrefixedSlice" => ReadSlices
            /\ call.fn = "compare" => Compare
            /\ call.fn = "Append" => Append_
            /\ call.fn = "ParseSectionFile" => Parse
            /\ call.fn = "Get" => GetNumber
BY DEF Next, Calling, TopKMin, ReadVarint, ReadSlices, Compare, Append_, Parse, GetNumber

(* The arguments of each function.                                        *)
LEMMA Arguments ==
  ASSUME call \in Calls
  PROVE  /\ call.fn = "top_k_min" => call.heap \in Heaps /\ call.k \in 0 .. 8
         /\ call.fn = "GetVarint" => call.value \in Values /\ call.tail \in Tails
         /\ call.fn = "GetLengthPrefixedSlice" => call.slices \in Streams
         /\ call.fn = "compare" => call.a \in Words /\ call.b \in Words /\ call.c \in Words
         /\ call.fn = "Append" => /\ call.dst \in Batches /\ call.src \in Batches
                                  /\ call.seq \in SequenceNumbers
         /\ call.fn = "ParseSectionFile" => call.lines \in Files
         /\ call.fn = "Get" =>
              /\ call.number \in Numbers
              /\ call.type \in {"int32_t", "int64_t", "uint32_t", "uint64_t"}
BY DEF Calls

(* A call stays one of the calls.                                         *)
LEMMA CallsKept ==
  ASSUME call \in Calls, [Next]_vars
  PROVE  call' \in Calls
BY CallMade DEF vars

-----------------------------------------------------------------------------
(* Slices *)

(* The first difference decides.                                          *)
LEMMA FirstDifference ==
  ASSUME NEW a \in Seq(Nat), NEW b \in Seq(Nat),
         NEW n \in Nat, n <= Len(a), n <= Len(b)
  PROVE  \E d \in 1 .. n + 1 :
           /\ \A j \in 1 .. d - 1 : a[j] = b[j]
           /\ \/ d = n + 1 /\ memcmp(a, b, n) = 0
              \/ d <= n /\ a[d] < b[d] /\ memcmp(a, b, n) = -1
              \/ d <= n /\ a[d] > b[d] /\ memcmp(a, b, n) = 1
<1>1. PICK differs : differs = {i \in 1 .. n : a[i] # b[i]}
  OBVIOUS
<1>2. memcmp(a, b, n) = IF differs = {} THEN 0
                        ELSE IF a[Min(differs)] < b[Min(differs)] THEN -1 ELSE 1
  BY <1>1 DEF memcmp
<1>3. CASE differs = {}
  <2>1. n + 1 \in 1 .. n + 1 /\ (n + 1) - 1 = n
    OBVIOUS
  <2>2. \A j \in 1 .. n : a[j] = b[j]
    BY <1>1, <1>3
  <2> QED
    BY <1>2, <1>3, <2>1, <2>2
<1>4. CASE differs # {}
  <2>1. differs \in SUBSET Nat
    BY <1>1
  <2>2. \E x \in differs : \A y \in differs : x <= y
    BY <1>4, <2>1, Least
  <2>3. PICK d : d = Min(differs)
    OBVIOUS
  <2>4. d \in differs /\ \A y \in differs : d <= y
    BY <2>2, <2>3 DEF Min
  <2>5. d \in 1 .. n /\ a[d] # b[d] /\ a[d] \in Nat /\ b[d] \in Nat
    BY <1>1, <2>4
  <2>6. \A j \in 1 .. d - 1 : a[j] = b[j]
    BY <1>1, <2>4, <2>5
  <2>7. d \in 1 .. n + 1 /\ d <= n /\ (a[d] < b[d] \/ (~(a[d] < b[d]) /\ a[d] > b[d]))
    BY <2>5
  <2>8. memcmp(a, b, n) = IF a[d] < b[d] THEN -1 ELSE 1
    BY <1>2, <1>4, <2>3
  <2> QED
    BY <2>6, <2>7, <2>8
<1> QED
  BY <1>3, <1>4

(* How compare depends on the first difference and on the lengths.        *)
Decides(a, b, d, r) ==
  /\ d \in Nat /\ 1 <= d /\ d <= Len(a) + 1 /\ d <= Len(b) + 1
  /\ \A j \in 1 .. d - 1 : a[j] = b[j]
  /\ \/ d = Len(a) + 1 /\ d = Len(b) + 1 /\ r = 0
     \/ d <= Len(a) /\ d <= Len(b) /\ a[d] < b[d] /\ r = -1
     \/ d = Len(a) + 1 /\ d <= Len(b) /\ r = -1
     \/ d <= Len(a) /\ d <= Len(b) /\ a[d] > b[d] /\ r = 1
     \/ d <= Len(a) /\ d = Len(b) + 1 /\ r = 1

(* compare is decided at the first place where the slices differ.         *)
LEMMA Decided ==
  ASSUME NEW a \in Seq(Nat), NEW b \in Seq(Nat)
  PROVE  \E d : Decides(a, b, d, compare(a, b))
<1>1. PICK n : n = Min({Len(a), Len(b)})
  OBVIOUS
<1>2. n = IF Len(a) <= Len(b) THEN Len(a) ELSE Len(b)
  BY <1>1 DEF Min
<1>3. n \in Nat /\ n <= Len(a) /\ n <= Len(b) /\ (n = Len(a) \/ n = Len(b))
  BY <1>2
<1>4. PICK r : r = memcmp(a, b, n)
  OBVIOUS
<1>5. compare(a, b) = IF r # 0 \/ Len(a) = Len(b) THEN r
                      ELSE IF Len(a) < Len(b) THEN -1 ELSE 1
  BY <1>1, <1>4 DEF compare
<1>6. PICK d \in 1 .. n + 1 :
           /\ \A j \in 1 .. d - 1 : a[j] = b[j]
           /\ \/ d = n + 1 /\ r = 0
              \/ d <= n /\ a[d] < b[d] /\ r = -1
              \/ d <= n /\ a[d] > b[d] /\ r = 1
  BY <1>3, <1>4, FirstDifference
<1>7. d \in Nat /\ 1 <= d /\ d <= Len(a) + 1 /\ d <= Len(b) + 1
  BY <1>3
<1>8. CASE d = n + 1 /\ r = 0
  <2>1. PICK v : v = compare(a, b)
    OBVIOUS
  <2>2. v = IF Len(a) = Len(b) THEN 0 ELSE IF Len(a) < Len(b) THEN -1 ELSE 1
    BY <1>5, <1>8, <2>1
  <2>3. /\ Len(a) \in Nat /\ Len(b) \in Nat
        /\ \/ Len(a) = Len(b) /\ v = 0
           \/ Len(a) < Len(b) /\ v = -1
           \/ Len(a) > Len(b) /\ v = 1
    BY <2>2
  <2>4. Decides(a, b, d, v)
    BY ONLY <1>3, <1>6, <1>7, <1>8, <2>3 DEF Decides
  <2> QED
    BY <2>1, <2>4
<1>9. CASE d <= n
  <2>1. r # 0
    BY <1>3, <1>6, <1>9
  <2>2. compare(a, b) = r
    BY <1>5, <2>1
  <2>3. Decides(a, b, d, r)
    BY ONLY <1>3, <1>6, <1>7, <1>9, Len(a) \in Nat, Len(b) \in Nat DEF Decides
  <2> QED
    BY <2>2, <2>3
<1> QED
  BY <1>6, <1>8, <1>9

(* Equality and prefixes, byte by byte.                                   *)
LEMMA PrefixIs ==
  ASSUME NEW a \in Seq(Nat), NEW x \in Seq(Nat)
  PROVE  /\ starts_with(a, x) <=> Len(a) >= Len(x) /\ \A j \in 1 .. Len(x) : a[j] = x[j]
         /\ Equal(a, x) <=> Len(a) = Len(x) /\ \A j \in 1 .. Len(x) : a[j] = x[j]
<1>1. ASSUME Len(a) >= Len(x)
      PROVE  memcmp(a, x, Len(x)) = 0 <=> \A j \in 1 .. Len(x) : a[j] = x[j]
  <2>1. PICK d \in 1 .. Len(x) + 1 :
           /\ \A j \in 1 .. d - 1 : a[j] = x[j]
           /\ \/ d = Len(x) + 1 /\ memcmp(a, x, Len(x)) = 0
              \/ d <= Len(x) /\ a[d] < x[d] /\ memcmp(a, x, Len(x)) = -1
              \/ d <= Len(x) /\ a[d] > x[d] /\ memcmp(a, x, Len(x)) = 1
    <3>1. Len(x) \in Nat /\ Len(x) <= Len(a) /\ Len(x) <= Len(x)
      BY <1>1
    <3> QED
      BY <3>1, FirstDifference
  <2>2. CASE d = Len(x) + 1
    BY <2>1, <2>2
  <2>3. CASE d <= Len(x)
    <3>1. d \in 1 .. Len(x) /\ a[d] \in Nat /\ x[d] \in Nat
      BY <1>1, <2>3
    <3> QED
      BY <2>1, <2>3, <3>1
  <2> QED
    BY <2>1, <2>2, <2>3
<1>2. Len(a) \in Nat /\ Len(x) \in Nat
  OBVIOUS
<1> QED
  BY <1>1, <1>2 DEF starts_with, Equal

(* Any three sequences of naturals compare as Ordered says.               *)
LEMMA ComparesOrderly ==
  ASSUME NEW a \in Seq(Nat), NEW b \in Seq(Nat), NEW c \in Seq(Nat)
  PROVE  Ordered(a, b, c)
<1>1. PICK r, s, t, u : r = compare(a, b) /\ s = compare(b, a)
                        /\ t = compare(b, c) /\ u = compare(a, c)
  OBVIOUS
<1>2. PICK d : Decides(a, b, d, r)
  BY <1>1, Decided
<1>3. PICK e : Decides(b, a, e, s)
  BY <1>1, Decided
<1>4. PICK f : Decides(b, c, f, t)
  BY <1>1, Decided
<1>5. PICK g : Decides(a, c, g, u)
  BY <1>1, Decided
<1>6. /\ \A j \in 1 .. Len(a) : a[j] \in Nat
      /\ \A j \in 1 .. Len(b) : b[j] \in Nat
      /\ \A j \in 1 .. Len(c) : c[j] \in Nat
      /\ Len(a) \in Nat /\ Len(b) \in Nat /\ Len(c) \in Nat
  OBVIOUS
<1>7. r = -s
  <2>1. d = e
    <3>1. d \in Nat /\ e \in Nat
      BY ONLY <1>2, <1>3 DEF Decides
    <3>2. ASSUME d < e PROVE FALSE
      <4>1. d <= Len(a) /\ d <= Len(b) /\ b[d] = a[d]
        <5>1. 1 <= d /\ e <= Len(a) + 1 /\ e <= Len(b) + 1 /\ \A j \in 1 .. e - 1 : b[j] = a[j]
          BY ONLY <1>2, <1>3 DEF Decides
        <5>2. d \in 1 .. e - 1
          BY ONLY <3>1, <3>2, <5>1
        <5> QED
          BY ONLY <1>6, <3>1, <3>2, <5>1, <5>2
      <4> QED
        BY ONLY <1>2, <1>6, <3>1, <4>1 DEF Decides
    <3>3. ASSUME e < d PROVE FALSE
      <4>1. e <= Len(a) /\ e <= Len(b) /\ b[e] = a[e]
        BY ONLY <1>2, <1>3, <1>6, <3>1, <3>3 DEF Decides
      <4> QED
        BY ONLY <1>3, <1>6, <3>1, <4>1 DEF Decides
    <3> QED
      BY <3>1, <3>2, <3>3
  <2>2. \/ d = Len(a) + 1 /\ d = Len(b) + 1 /\ r = 0
        \/ d <= Len(a) /\ d <= Len(b) /\ a[d] < b[d] /\ r = -1
        \/ d = Len(a) + 1 /\ d <= Len(b) /\ r = -1
        \/ d <= Len(a) /\ d <= Len(b) /\ a[d] > b[d] /\ r = 1
        \/ d <= Len(a) /\ d = Len(b) + 1 /\ r = 1
    BY ONLY <1>2 DEF Decides
  <2>3. \/ d = Len(b) + 1 /\ d = Len(a) + 1 /\ s = 0
        \/ d <= Len(b) /\ d <= Len(a) /\ b[d] < a[d] /\ s = -1
        \/ d = Len(b) + 1 /\ d <= Len(a) /\ s = -1
        \/ d <= Len(b) /\ d <= Len(a) /\ b[d] > a[d] /\ s = 1
        \/ d <= Len(b) /\ d = Len(a) + 1 /\ s = 1
    BY ONLY <1>3, <2>1 DEF Decides
  <2>4. d \in Nat /\ 1 <= d /\ (d <= Len(a) => a[d] \in Nat) /\ (d <= Len(b) => b[d] \in Nat)
    BY ONLY <1>2, <1>6 DEF Decides
  <2> QED
    BY ONLY <1>6, <2>2, <2>3, <2>4
<1>8. (r = 0) <=> Equal(a, b)
  <2>1. CASE r = 0
    BY <1>2, <1>6, <2>1, PrefixIs DEF Decides
  <2>2. CASE r # 0
    <3> SUFFICES ASSUME Len(a) = Len(b), \A j \in 1 .. Len(b) : a[j] = b[j] PROVE FALSE
      BY <2>2, PrefixIs
    <3> QED
      BY ONLY <1>2, <1>6, <2>2, Len(a) = Len(b), \A j \in 1 .. Len(b) : a[j] = b[j] DEF Decides
  <2> QED
    BY <2>1, <2>2
<1>9. ASSUME r <= 0, t <= 0 PROVE u <= 0
  <2> SUFFICES ASSUME u = 1 PROVE FALSE
    <3>1. u = -1 \/ u = 0 \/ u = 1
      BY ONLY <1>5 DEF Decides
    <3> QED
      BY <3>1
  <2>1. d \in Nat \ {0} /\ f \in Nat \ {0} /\ g \in Nat \ {0}
    <3>1. d \in Nat /\ 1 <= d /\ f \in Nat /\ 1 <= f /\ g \in Nat /\ 1 <= g
      BY ONLY <1>2, <1>4, <1>5, Zenon DEF Decides
    <3> QED
      BY ONLY <3>1
  <2>2. /\ (d = Len(a) + 1 /\ d <= Len(b) + 1) \/ (d <= Len(a) /\ d <= Len(b) /\ a[d] < b[d])
        /\ \A j \in 1 .. d - 1 : a[j] = b[j]
    BY ONLY <1>2, <1>6, <1>9 DEF Decides
  <2>3. /\ (f = Len(b) + 1 /\ f <= Len(c) + 1) \/ (f <= Len(b) /\ f <= Len(c) /\ b[f] < c[f])
        /\ \A j \in 1 .. f - 1 : b[j] = c[j]
    BY ONLY <1>4, <1>6, <1>9 DEF Decides
  <2>4. /\ (g = Len(c) + 1 /\ g <= Len(a)) \/ (g <= Len(a) /\ g <= Len(c) /\ a[g] > c[g])
        /\ \A j \in 1 .. g - 1 : a[j] = c[j]
    BY ONLY <1>5, <1>6, u = 1 DEF Decides
  <2>5. /\ (g < d => a[g] = b[g]) /\ (g < f => b[g] = c[g])
        /\ (f < d => a[f] = b[f]) /\ (f < g => a[f] = c[f])
        /\ (d < f => b[d] = c[d]) /\ (d < g => a[d] = c[d])
    <3>1. /\ (g < d => g \in 1 .. d - 1) /\ (g < f => g \in 1 .. f - 1)
          /\ (f < d => f \in 1 .. d - 1) /\ (f < g => f \in 1 .. g - 1)
          /\ (d < f => d \in 1 .. f - 1) /\ (d < g => d \in 1 .. g - 1)
      BY ONLY <2>1
    <3>2. /\ \A j \in 1 .. d - 1 : a[j] = b[j]
          /\ \A j \in 1 .. f - 1 : b[j] = c[j]
          /\ \A j \in 1 .. g - 1 : a[j] = c[j]
      BY ONLY <2>2, <2>3, <2>4
    <3> QED
      BY ONLY <3>1, <3>2
  <2>6. \A x \in {d, f, g} : /\ (x <= Len(a) => a[x] \in Nat)
                            /\ (x <= Len(b) => b[x] \in Nat)
                            /\ (x <= Len(c) => c[x] \in Nat)
    BY ONLY <1>6, <2>1
  <2>7. PICK k, l, m, ad, af, ag, bd, bf, bg, cd, cf, cg :
          /\ k = Len(a) /\ l = Len(b) /\ m = Len(c)
          /\ ad = a[d] /\ af = a[f] /\ ag = a[g]
          /\ bd = b[d] /\ bf = b[f] /\ bg = b[g]
          /\ cd = c[d] /\ cf = c[f] /\ cg = c[g]
    OBVIOUS
  <2>8. /\ k \in Nat /\ l \in Nat /\ m \in Nat
        /\ (d <= k => ad \in Nat) /\ (f <= k => af \in Nat) /\ (g <= k => ag \in Nat)
        /\ (d <= l => bd \in Nat) /\ (f <= l => bf \in Nat) /\ (g <= l => bg \in Nat)
        /\ (d <= m => cd \in Nat) /\ (f <= m => cf \in Nat) /\ (g <= m => cg \in Nat)
    BY <1>6, <2>6, <2>7
  <2>9. /\ (g < d => ag = bg) /\ (g < f => bg = cg)
        /\ (f < d => af = bf) /\ (f < g => af = cf)
        /\ (d < f => bd = cd) /\ (d < g => ad = cd)
    BY <2>5, <2>7
  <2>10. /\ (d = k + 1 /\ d <= l + 1) \/ (d <= k /\ d <= l /\ ad < bd)
         /\ (f = l + 1 /\ f <= m + 1) \/ (f <= l /\ f <= m /\ bf < cf)
         /\ (g = m + 1 /\ g <= k) \/ (g <= k /\ g <= m /\ ag > cg)
    BY <2>2, <2>3, <2>4, <2>7
  <2>11. d = f => bd = bf /\ ad = af /\ cd = cf
    BY <2>7
  <2>12. d = g => bd = bg /\ ad = ag /\ cd = cg
    BY <2>7
  <2>13. f = g => bf = bg /\ af = ag /\ cf = cg
    BY <2>7
  <2> QED
    BY ONLY <2>1, <2>8, <2>9, <2>10, <2>11, <2>12, <2>13
<1>10. ASSUME r <= 0, t <= 0, starts_with(c, a) PROVE starts_with(b, a)
  <2>1. Len(c) >= Len(a) /\ \A j \in 1 .. Len(a) : c[j] = a[j]
    BY <1>10, PrefixIs
  <2>2. d = Len(a) + 1
    <3>1. d \in Nat \ {0} /\ f \in Nat \ {0}
      BY ONLY <1>2, <1>4 DEF Decides
    <3>2. /\ (d = Len(a) + 1 /\ d <= Len(b) + 1) \/ (d <= Len(a) /\ d <= Len(b) /\ a[d] < b[d])
          /\ \A j \in 1 .. d - 1 : a[j] = b[j]
      BY ONLY <1>2, <1>6, <1>10 DEF Decides
    <3>3. /\ (f = Len(b) + 1 /\ f <= Len(c) + 1) \/ (f <= Len(b) /\ f <= Len(c) /\ b[f] < c[f])
          /\ \A j \in 1 .. f - 1 : b[j] = c[j]
      BY ONLY <1>4, <1>6, <1>10 DEF Decides
    <3>4. CASE d <= Len(a)
      <4>1. d <= Len(b) /\ d <= Len(c) /\ a[d] < b[d] /\ c[d] = a[d]
        BY ONLY <1>6, <2>1, <3>1, <3>2, <3>4
      <4>2. (d < f => b[d] = c[d]) /\ (f < d => a[f] = b[f])
        BY ONLY <3>1, <3>2, <3>3
      <4>3. f < d => c[f] = a[f]
        BY ONLY <1>6, <2>1, <3>1, <3>4
      <4>4. PICK k, l, m, ad, bd, cd, af, bf, cf :
              /\ k = Len(a) /\ l = Len(b) /\ m = Len(c)
              /\ ad = a[d] /\ bd = b[d] /\ cd = c[d]
              /\ af = a[f] /\ bf = b[f] /\ cf = c[f]
        OBVIOUS
      <4>5. /\ k \in Nat /\ l \in Nat /\ m \in Nat
            /\ ad \in Nat /\ bd \in Nat /\ cd \in Nat
            /\ (f <= l => bf \in Nat) /\ (f <= m => cf \in Nat)
        <5>1. d \in 1 .. Len(a) /\ d \in 1 .. Len(b) /\ d \in 1 .. Len(c)
          BY ONLY <1>6, <3>1, <3>4, <4>1
        <5>2. /\ (f <= Len(b) => f \in 1 .. Len(b))
              /\ (f <= Len(c) => f \in 1 .. Len(c))
          BY ONLY <1>6, <3>1
        <5> QED
          BY ONLY <1>6, <4>4, <5>1, <5>2
      <4>6. /\ d <= k /\ d <= l /\ d <= m /\ ad < bd /\ cd = ad
            /\ (d < f => bd = cd) /\ (f < d => af = bf) /\ (f < d => cf = af)
            /\ (d = f => bd = bf /\ cd = cf)
            /\ (f = l + 1 /\ f <= m + 1) \/ (f <= l /\ f <= m /\ bf < cf)
        BY <3>3, <3>4, <4>1, <4>2, <4>3, <4>4
      <4> QED
        BY ONLY <3>1, <4>5, <4>6
    <3> QED
      BY <1>6, <3>1, <3>2, <3>4
  <2>3. Len(b) >= Len(a) /\ \A j \in 1 .. Len(a) : b[j] = a[j]
    BY ONLY <1>2, <1>6, <2>2 DEF Decides
  <2> QED
    BY <2>3, PrefixIs
<1>11. ASSUME starts_with(a, b) PROVE s <= 0
  <2>1. Len(a) >= Len(b) /\ \A j \in 1 .. Len(b) : a[j] = b[j]
    BY <1>11, PrefixIs
  <2> QED
    BY ONLY <1>3, <1>6, <2>1 DEF Decides
<1> QED
  BY <1>1, <1>7, <1>8, <1>9, <1>10, <1>11 DEF Ordered

(* Bytes are naturals, which memcmp compares.                             *)
LEMMA BytesAreNats == Byte \subseteq Nat /\ \A s \in Seq(Byte) : s \in Seq(Nat)
<1>1. Byte \subseteq Nat
  BY DEF Byte
<1>2. ASSUME NEW s \in Seq(Byte) PROVE s \in Seq(Nat)
  <2>1. Len(s) \in Nat /\ s = [i \in 1 .. Len(s) |-> s[i]] /\ \A i \in 1 .. Len(s) : s[i] \in Nat
    BY <1>1
  <2> QED
    BY ONLY <2>1
<1> QED
  BY <1>1, <1>2

(* A call of compare keeps SlicesOrdered, and so do all the others.       *)
LEMMA SlicesStep ==
  ASSUME call \in Calls, SlicesOrdered, [Next]_vars
  PROVE  SlicesOrdered'
<1>1. CASE UNCHANGED vars
  BY <1>1 DEF vars, SlicesOrdered, Returned
<1>2. CASE UNCHANGED call /\ Compare
  <2>1. call.a \in Seq(Nat) /\ call.b \in Seq(Nat) /\ call.c \in Seq(Nat)
    <3>1. call.a \in Seq(Byte) /\ call.b \in Seq(Byte) /\ call.c \in Seq(Byte)
      BY <1>2, Arguments, InputsAssumption DEF Compare, Calling
    <3> QED
      BY <3>1, BytesAreNats
  <2>2. Ordered(call.a, call.b, call.c)
    BY <2>1, ComparesOrderly
  <2> QED
    BY <1>2, <2>2 DEF Compare, SlicesOrdered
<1>3. CASE UNCHANGED call /\ call.fn # "compare"
  BY <1>3 DEF SlicesOrdered, Returned
<1> QED
  BY <1>1, <1>2, <1>3, CallMade

(* compare is a total order of slices, == is its equality, and the slices *)
(* with a common prefix stand together in it.                             *)
THEOREM SlicesAreOrdered == Spec => []SlicesOrdered
<1>1. Init => call \in Calls /\ SlicesOrdered
  BY DEF Init, SlicesOrdered, Returned
<1>2. call \in Calls /\ SlicesOrdered /\ [Next]_vars => (call \in Calls /\ SlicesOrdered)'
  BY CallsKept, SlicesStep
<1> QED
  BY <1>1, <1>2, PTL DEF Spec

-----------------------------------------------------------------------------
(* Numbers *)

(* Half of an even number of values is on either side of zero; an int is  *)
(* at most half as wide as a long.                                        *)
LEMMA Halves ==
  /\ LONG \in Nat /\ INT \in Nat
  /\ LONG \div 2 \in Nat /\ INT \div 2 \in Nat
  /\ INT <= LONG \div 2 /\ INT \div 2 <= LONG \div 2 /\ LONG \div 2 <= LONG
<1>1. LONG \in Nat /\ INT \in Nat /\ 2 * INT <= LONG
  BY NumbersAssumption
<1>2. PICK p, r, q, s : p = LONG \div 2 /\ r = LONG % 2 /\ q = INT \div 2 /\ s = INT % 2
  OBVIOUS
<1>3. /\ p \in Int /\ r \in Int /\ 0 <= r /\ r < 2 /\ LONG = 2 * p + r
      /\ q \in Int /\ s \in Int /\ 0 <= s /\ s < 2 /\ INT = 2 * q + s
  BY <1>1, <1>2, DivMod
<1> QED
  BY ONLY <1>1, <1>2, <1>3

(* A number below the divisor is its own remainder.                       *)
LEMMA ModSmall ==
  ASSUME NEW a \in Nat, NEW b \in Nat, a < b
  PROVE  a % b = a
<1>1. a = b * 0 + a /\ b > 0
  OBVIOUS
<1> QED
  BY <1>1, DivModUnique

(* Get of the signed types.                                               *)
LEMMA FitsSigned ==
  ASSUME NEW n \in Int, NEW type \in {"int32_t", "int64_t"}, NEW def
  PROVE  Get(type, n, def) = IF n \in RangeOf(type) THEN n ELSE def
<1>1. Signed(INT) \subseteq Signed(LONG)
  <2>1. PICK p, q : p = LONG \div 2 /\ q = INT \div 2
    OBVIOUS
  <2>2. p \in Nat /\ q \in Nat /\ q <= p
    BY <2>1, Halves
  <2>3. (-q .. q - 1) \subseteq (-p .. p - 1)
    BY ONLY <2>2
  <2> QED
    BY <2>1, <2>3 DEF Signed
<1>2. RangeOf(type) \subseteq Signed(LONG)
  BY <1>1 DEF RangeOf
<1> QED
  BY <1>2 DEF Get

(* Get of the unsigned types, of texts without a sign.                    *)
LEMMA FitsUnsigned ==
  ASSUME NEW n \in Nat, NEW type \in {"uint32_t", "uint64_t"}, NEW def
  PROVE  Get(type, n, def) = IF n \in RangeOf(type) THEN n ELSE def
<1>1. PICK w, h, m : w = LONG /\ h = LONG \div 2 /\ m = INT
  OBVIOUS
<1>2. w \in Nat /\ h \in Nat /\ m \in Nat /\ m <= h /\ h <= w
  BY <1>1, Halves
<1>3. Signed(LONG) = -h .. h - 1 /\ Unsigned(LONG) = 0 .. w - 1 /\ Unsigned(INT) = 0 .. m - 1
  BY <1>1 DEF Signed, Unsigned
<1>4. CASE n >= w
  <2>1. n \notin -(w - 1) .. w - 1 /\ n \notin 0 .. w - 1 /\ n \notin 0 .. m - 1
    BY ONLY <1>2, <1>4, n \in Nat
  <2>2. n \notin RangeOf(type)
    BY <1>3, <2>1 DEF RangeOf
  <2>3. Get(type, n, def) = def
    BY <1>1, <2>1 DEF Get
  <2> QED
    BY <2>2, <2>3
<1>5. CASE n < w
  <2>1. n \in -(w - 1) .. w - 1 /\ n \in 0 .. w - 1
    BY ONLY <1>2, <1>5, n \in Nat
  <2>2. n % LONG = n
    BY <1>1, <1>2, <1>5, ModSmall
  <2>3. CASE type = "uint64_t"
    <3>1. n \in RangeOf(type)
      BY <1>3, <2>1, <2>3 DEF RangeOf
    <3> QED
      BY <1>1, <2>1, <2>2, <2>3, <3>1 DEF Get
  <2>4. CASE type = "uint32_t"
    <3>1. RangeOf(type) = 0 .. m - 1
      BY <1>3, <2>4 DEF RangeOf
    <3>2. AsLong(n) = IF n \in -h .. h - 1 THEN n ELSE n - w
      BY <1>1, <1>3, <2>2 DEF AsLong
    <3>3. PICK x : x = AsLong(n)
      OBVIOUS
    <3>4. (n \in 0 .. m - 1 => x = n) /\ (n \notin 0 .. m - 1 => x \notin 0 .. m - 1)
      BY ONLY <1>2, <1>5, <3>2, <3>3, n \in Nat
    <3>5. Get(type, n, def) = IF x \in 0 .. m - 1 THEN x ELSE def
      BY <1>1, <2>1, <2>4, <3>1, <3>3 DEF Get
    <3> QED
      BY <3>1, <3>4, <3>5
  <2> QED
    BY <2>3, <2>4
<1> QED
  BY <1>2, <1>4, <1>5

(* A call of Get keeps NumbersFit, and so do all the others.              *)
LEMMA NumbersStep ==
  ASSUME call \in Calls, NumbersFit, [Next]_vars
  PROVE  NumbersFit'
<1>1. CASE UNCHANGED vars
  BY <1>1 DEF vars, NumbersFit, Returned
<1>2. CASE UNCHANGED call /\ GetNumber
  <2>1. /\ call.number \in Int
        /\ call.type \in {"int32_t", "int64_t", "uint32_t", "uint64_t"}
    BY <1>2, Arguments, InputsAssumption DEF GetNumber, Calling
  <2>2. ASSUME call.number >= 0 \/ call.type \in {"int32_t", "int64_t"}
        PROVE  Get(call.type, call.number, Default)
                 = IF call.number \in RangeOf(call.type) THEN call.number ELSE Default
    <3>1. CASE call.type \in {"int32_t", "int64_t"}
      BY <2>1, <3>1, FitsSigned
    <3>2. CASE call.type \in {"uint32_t", "uint64_t"}
      <4>1. call.number \in Nat
        BY <2>1, <2>2, <3>2
      <4> QED
        BY <3>2, <4>1, FitsUnsigned
    <3> QED
      BY <2>1, <3>1, <3>2
  <2> QED
    BY <1>2, <2>2 DEF GetNumber, NumbersFit
<1>3. CASE UNCHANGED call /\ call.fn # "Get"
  BY <1>3 DEF NumbersFit, Returned
<1> QED
  BY <1>1, <1>2, <1>3, CallMade

(* Section::Get gives a number if its type has it and the default if not, *)
(* for every width of a long that is at least twice that of an int.       *)
THEOREM NumbersAreFit == Spec => []NumbersFit
<1>1. Init => call \in Calls /\ NumbersFit
  BY DEF Init, NumbersFit, Returned
<1>2. call \in Calls /\ NumbersFit /\ [Next]_vars => (call \in Calls /\ NumbersFit)'
  BY CallsKept, NumbersStep
<1> QED
  BY <1>1, <1>2, PTL DEF Spec

-----------------------------------------------------------------------------
(* The k smallest elements of a heap *)

Indexes(heap) == 1 .. Len(heap)

(* One turn of top_k_min.                                                 *)
IsTop(top, c) == top \in c /\ \A d \in c : Before(top, d)
Top(c) == CHOOSE top \in c : \A d \in c : Before(top, d)
Turn(heap, st) ==
  [candidates |-> (st.candidates \ {Top(st.candidates)})
                    \cup Children(heap, Top(st.candidates)[2]),
   result     |-> Append(st.result, Top(st.candidates)[1])]

(* The elements that are next to those taken: the root, or a child.       *)
Open(heap, taken) ==
  {j \in Indexes(heap) \ taken : j = 1 \/ j \div 2 \in taken}

(* After i turns some i elements have been taken, none of them above any  *)
(* other, and they are in the result in ascending order.                  *)
TakenInv(heap, i, st, taken) ==
  /\ taken \subseteq Indexes(heap) /\ IsFiniteSet(taken) /\ Cardinality(taken) = i
  /\ \A j \in taken : j = 1 \/ j \div 2 \in taken
  /\ \A j \in taken, l \in Indexes(heap) \ taken : heap[j] <= heap[l]
  /\ st.candidates = {<<heap[j], j - 1>> : j \in Open(heap, taken)}
  /\ st.result = [m \in 1 .. i |-> Ascending(heap, m)]

TurnInv(heap, i, st) == \E taken : TakenInv(heap, i, st, taken)

(* Of some elements there is one that comes before the others.            *)
LEMMA FirstOfSome ==
  ASSUME NEW heap \in Seq(Int), NEW some \in SUBSET Indexes(heap), some # {}
  PROVE  \E j \in some : \A l \in some : Before(<<heap[j], j - 1>>, <<heap[l], l - 1>>)
<1> DEFINE First(T) == \E j \in T : \A l \in T : heap[j] < heap[l] \/ (heap[j] = heap[l] /\ j <= l)
           A == {n \in Nat : \A T \in SUBSET (Indexes(heap) \cap 1 .. n) : T # {} => First(T)}
<1>1. A \in SUBSET Nat
  OBVIOUS
<1>2. 0 \in A
  OBVIOUS
<1>3. ASSUME NEW n \in A PROVE n + 1 \in A
  <2>1. n \in Nat /\ n + 1 \in Nat
    OBVIOUS
  <2> SUFFICES ASSUME NEW T \in SUBSET (Indexes(heap) \cap 1 .. n + 1), T # {} PROVE First(T)
    BY <2>1
  <2>2. \A j \in T : j \in Indexes(heap) /\ j \in Nat /\ heap[j] \in Int
    BY DEF Indexes
  <2>3. PICK U : U = T \ {n + 1}
    OBVIOUS
  <2>4. U \in SUBSET (Indexes(heap) \cap 1 .. n)
    BY <2>1, <2>3 DEF Indexes
  <2>5. CASE U = {}
    <3>1. T = {n + 1}
      BY <2>3, <2>5
    <3> QED
      BY <2>2, <3>1
  <2>6. CASE U # {}
    <3>1. First(U)
      BY <2>4, <2>6
    <3>2. PICK j \in U : \A l \in U : heap[j] < heap[l] \/ (heap[j] = heap[l] /\ j <= l)
      BY <3>1
    <3>3. \A l \in T : l \in U \/ l = n + 1
      BY <2>3
    <3>4. j \in T /\ j <= n + 1
      BY <2>1, <2>3, <2>4
    <3>5. CASE n + 1 \in T /\ heap[n + 1] < heap[j]
      <4>1. ASSUME NEW l \in T
            PROVE  heap[n + 1] < heap[l] \/ (heap[n + 1] = heap[l] /\ n + 1 <= l)
        <5>1. CASE l = n + 1
          BY <2>1, <5>1
        <5>2. CASE l \in U
          <6>1. heap[j] < heap[l] \/ heap[j] = heap[l]
            BY <3>2, <5>2
          <6>2. heap[l] \in Int /\ heap[j] \in Int /\ heap[n + 1] \in Int
            BY <2>2, <3>4, <3>5
          <6> QED
            BY <3>5, <6>1, <6>2
        <5> QED
          BY <3>3, <5>1, <5>2
      <4> QED
        BY <3>5, <4>1
    <3>6. CASE n + 1 \in T => ~(heap[n + 1] < heap[j])
      <4>1. \A l \in T : heap[j] < heap[l] \/ (heap[j] = heap[l] /\ j <= l)
        BY <2>1, <2>2, <3>2, <3>3, <3>4, <3>6
      <4> QED
        BY <3>4, <4>1
    <3> QED
      BY <3>5, <3>6
  <2> QED
    BY <2>5, <2>6
<1> HIDE DEF A
<1>4. A = Nat
  BY <1>1, <1>2, <1>3, Induction
<1>5. Len(heap) \in Nat /\ some \in SUBSET (Indexes(heap) \cap 1 .. Len(heap))
  BY DEF Indexes
<1>6. First(some)
  BY <1>4, <1>5 DEF A
<1>7. PICK j \in some : \A l \in some : heap[j] < heap[l] \/ (heap[j] = heap[l] /\ j <= l)
  BY <1>6
<1>8. \A l \in some : l \in Nat
  BY DEF Indexes
<1>9. ASSUME NEW l \in some PROVE Before(<<heap[j], j - 1>>, <<heap[l], l - 1>>)
  BY <1>7, <1>8 DEF Before
<1> QED
  BY <1>9

(* Above every element that is not taken is an open one.                  *)
LEMMA OpenBelow ==
  ASSUME NEW heap \in Seq(Int), IsHeap(heap), NEW taken \in SUBSET Indexes(heap),
         NEW l \in Indexes(heap) \ taken
  PROVE  \E j \in Open(heap, taken) : heap[j] <= heap[l]
<1> DEFINE Bad == {x \in Indexes(heap) \ taken : \A j \in Open(heap, taken) : ~(heap[j] <= heap[x])}
<1> SUFFICES ASSUME Bad # {} PROVE FALSE
  OBVIOUS
<1>1. Bad \in SUBSET Nat
  BY DEF Indexes
<1>2. PICK x \in Bad : \A y \in Bad : x <= y
  <2> HIDE DEF Bad
  <2> QED
    BY <1>1, Least
<1>3. x \in Indexes(heap) \ taken /\ x \in Nat \ {0} /\ x <= Len(heap) /\ heap[x] \in Int
  BY <1>2 DEF Indexes
<1>4. x \notin Open(heap, taken)
  BY <1>2, <1>3
<1>5. x # 1 /\ x \div 2 \notin taken
  BY <1>3, <1>4 DEF Open
<1>6. PICK p : p = x \div 2
  OBVIOUS
<1>7. p \in Nat \ {0} /\ p < x
  <2>1. PICK r : r = x % 2
    OBVIOUS
  <2>2. p \in Int /\ r \in Int /\ 0 <= r /\ r < 2 /\ x = 2 * p + r
    BY <1>3, <1>6, <2>1, DivMod
  <2> QED
    BY ONLY <1>3, <1>5, <2>2
<1>8. p \in Indexes(heap) \ taken /\ heap[p] \in Int
  BY <1>3, <1>5, <1>6, <1>7 DEF Indexes
<1>9. p \notin Bad
  BY <1>1, <1>2, <1>3, <1>7
<1>10. PICK j \in Open(heap, taken) : heap[j] <= heap[p]
  BY <1>8, <1>9
<1>11. heap[p] <= heap[x]
  <2>1. x \in 2 .. Len(heap)
    BY <1>3, <1>5
  <2> QED
    BY <1>6, <2>1 DEF IsHeap
<1>12. heap[j] \in Int
  BY DEF Open, Indexes
<1>13. heap[j] <= heap[x]
  BY <1>3, <1>8, <1>10, <1>11, <1>12
<1> QED
  BY <1>2, <1>13

(* The top of the candidates is the least of the elements not taken.      *)
LEMMA TopIsLeast ==
  ASSUME NEW heap \in Seq(Int), IsHeap(heap), NEW i \in Nat, i < Len(heap),
         NEW st, NEW taken, TakenInv(heap, i, st, taken)
  PROVE  \E t \in Open(heap, taken) :
           /\ Top(st.candidates) = <<heap[t], t - 1>>
           /\ \A l \in Indexes(heap) \ taken : heap[t] <= heap[l]
<1>1. PICK open : open = Open(heap, taken)
  OBVIOUS
<1>2. open \in SUBSET Indexes(heap) /\ \A j \in open : heap[j] \in Int /\ j \in Nat
  BY <1>1 DEF Open, Indexes
<1>3. \E l : l \in Indexes(heap) \ taken
  <2> SUFFICES ASSUME Indexes(heap) \subseteq taken PROVE FALSE
    OBVIOUS
  <2>1. taken = 1 .. Len(heap) /\ Cardinality(taken) = i
    BY DEF TakenInv, Indexes
  <2>2. PICK n \in Nat : n = Len(heap)
    OBVIOUS
  <2>3. Cardinality(1 .. n) = IF 1 > n THEN 0 ELSE n - 1 + 1
    BY FS_Interval
  <2>4. Cardinality(1 .. n) = n
    BY <2>3
  <2> QED
    BY <2>1, <2>2, <2>4
<1>4. open # {}
  BY <1>1, <1>3, OpenBelow DEF TakenInv
<1>5. PICK j \in open : \A l \in open : Before(<<heap[j], j - 1>>, <<heap[l], l - 1>>)
  BY <1>2, <1>4, FirstOfSome
<1>6. st.candidates = {<<heap[l], l - 1>> : l \in open}
  BY <1>1 DEF TakenInv
<1>7. IsTop(<<heap[j], j - 1>>, st.candidates)
  BY <1>5, <1>6 DEF IsTop
<1>8. IsTop(Top(st.candidates), st.candidates)
  BY <1>7 DEF IsTop, Top
<1>9. PICK t \in open : Top(st.candidates) = <<heap[t], t - 1>>
  BY <1>6, <1>8 DEF IsTop
<1>10. ASSUME NEW l \in open PROVE heap[t] <= heap[l]
  <2>1. Before(<<heap[t], t - 1>>, <<heap[l], l - 1>>)
    BY <1>6, <1>8, <1>9 DEF IsTop
  <2> QED
    BY <1>2, <2>1 DEF Before
<1>11. ASSUME NEW l \in Indexes(heap) \ taken PROVE heap[t] <= heap[l]
  <2>1. PICK o \in open : heap[o] <= heap[l]
    BY <1>1, OpenBelow DEF TakenInv
  <2>2. heap[t] <= heap[o] /\ heap[t] \in Int /\ heap[o] \in Int
    BY <1>2, <1>10
  <2>3. heap[l] \in Int
    BY DEF Indexes
  <2> QED
    BY <2>1, <2>2, <2>3
<1> QED
  BY <1>1, <1>9, <1>11

(* It is the next in ascending order.                                     *)
LEMMA NextAscending ==
  ASSUME NEW heap \in Seq(Int), NEW i \in Nat,
         NEW taken \in SUBSET Indexes(heap), IsFiniteSet(taken), Cardinality(taken) = i,
         \A j \in taken, l \in Indexes(heap) \ taken : heap[j] <= heap[l],
         NEW t \in Indexes(heap) \ taken,
         \A l \in Indexes(heap) \ taken : heap[t] <= heap[l]
  PROVE  Ascending(heap, i + 1) = heap[t]
<1> DEFINE Upto(v) == {j \in DOMAIN heap : heap[j] <= v}
           vs == {v \in Range(heap) : Cardinality(Upto(v)) >= i + 1}
<1>1. DOMAIN heap = Indexes(heap) /\ \A j \in Indexes(heap) : heap[j] \in Int
  BY DEF Indexes
<1>2. IsFiniteSet(Indexes(heap))
  BY FS_Interval DEF Indexes
<1>3. \A v : IsFiniteSet(Upto(v)) /\ Cardinality(Upto(v)) \in Nat
  BY <1>1, <1>2, FS_Subset, FS_CardinalityType
<1>4. heap[t] \in vs
  <2>1. heap[t] \in Range(heap)
    BY <1>1 DEF Range
  <2>2. taken \cup {t} \in SUBSET Upto(heap[t])
    BY <1>1
  <2>3. Cardinality(taken \cup {t}) = i + 1
    BY FS_AddElement
  <2>4. PICK U, T : U = Upto(heap[t]) /\ T = taken \cup {t}
    OBVIOUS
  <2>5. IsFiniteSet(U) /\ T \in SUBSET U
    BY <1>3, <2>2, <2>4
  <2>6. i + 1 <= Cardinality(U)
    BY <2>3, <2>4, <2>5, FS_Subset
  <2> QED
    BY <1>3, <2>1, <2>4, <2>6
<1>5. ASSUME NEW v \in vs PROVE heap[t] <= v
  <2>1. v \in Int
    BY <1>1 DEF Range
  <2> SUFFICES ASSUME v < heap[t] PROVE FALSE
    BY <1>1, <2>1
  <2>2. Upto(v) \in SUBSET taken
    BY <1>1, <2>1
  <2>3. PICK n : n = Cardinality(Upto(v))
    OBVIOUS
  <2>4. n <= i
    BY <2>2, <2>3, FS_Subset
  <2>5. n >= i + 1 /\ n \in Nat
    BY <1>3, <2>3
  <2> QED
    BY <2>4, <2>5
<1>6. \A v \in vs : v \in Int
  BY <1>1 DEF Range
<1>7. Ascending(heap, i + 1) = Min(vs)
  BY DEF Ascending
<1> HIDE DEF vs
<1>8. PICK m : m = Min(vs)
  OBVIOUS
<1>9. m \in vs /\ \A v \in vs : m <= v
  BY <1>4, <1>5, <1>8 DEF Min
<1> QED
  BY <1>4, <1>5, <1>6, <1>7, <1>8, <1>9

(* The children of what is taken become open.                             *)
LEMMA ChildrenOpen ==
  ASSUME NEW heap \in Seq(Int), NEW taken \in SUBSET Indexes(heap),
         NEW t \in Open(heap, taken), \A j \in taken : j = 1 \/ j \div 2 \in taken
  PROVE  {<<heap[j], j - 1>> : j \in Open(heap, taken \cup {t})}
           = ({<<heap[j], j - 1>> : j \in Open(heap, taken)} \ {<<heap[t], t - 1>>})
               \cup Children(heap, t - 1)
<1> DEFINE C(j) == <<heap[j], j - 1>>
           kids == {j \in Indexes(heap) : j = 2 * t \/ j = 2 * t + 1}
<1>1. t \in Nat \ {0} /\ t \in Indexes(heap) /\ t \notin taken /\ Len(heap) \in Nat
  BY DEF Open, Indexes
<1>2. Children(heap, t - 1) = {C(j) : j \in kids}
  <2>1. ASSUME NEW j \in kids PROVE C(j) \in Children(heap, t - 1)
    <3>1. j - 1 \in {2 * (t - 1) + 1, 2 * (t - 1) + 2} \cap 0 .. Len(heap) - 1
      BY <1>1 DEF Indexes
    <3>2. (j - 1) + 1 = j
      BY DEF Indexes
    <3> QED
      BY <3>1, <3>2 DEF Children
  <2>2. ASSUME NEW c \in Children(heap, t - 1) PROVE c \in {C(j) : j \in kids}
    <3>1. PICK j \in {2 * (t - 1) + 1, 2 * (t - 1) + 2} \cap 0 .. Len(heap) - 1 :
             c = <<heap[j + 1], j>>
      BY DEF Children
    <3>2. j + 1 \in kids /\ (j + 1) - 1 = j
      BY <1>1 DEF Indexes
    <3> QED
      BY <3>1, <3>2
  <2> QED
    BY <2>1, <2>2
<1>3. ASSUME NEW j \in Nat \ {0} PROVE j \div 2 = t <=> (j = 2 * t \/ j = 2 * t + 1)
  <2>1. PICK q, r : q = j \div 2 /\ r = j % 2
    OBVIOUS
  <2>2. q \in Int /\ r \in Int /\ 0 <= r /\ r < 2 /\ j = 2 * q + r
    BY <2>1, DivMod
  <2>3. q = t <=> (j = 2 * t \/ j = 2 * t + 1)
    BY ONLY <1>1, <2>2
  <2> QED
    BY <2>1, <2>3
<1>4. \A j \in Indexes(heap) : j \in Nat \ {0}
  BY DEF Indexes
<1>5. \A j \in kids : j \in Indexes(heap) /\ j # t /\ j # 1 /\ j \notin taken
  <2>1. ASSUME NEW j \in kids PROVE j \in Indexes(heap) /\ j # t /\ j # 1
    BY <1>1, <1>4
  <2>2. ASSUME NEW j \in kids PROVE j \div 2 = t
    BY <1>3, <1>4
  <2> QED
    BY <1>1, <2>1, <2>2
<1>6. Open(heap, taken \cup {t}) = (Open(heap, taken) \ {t}) \cup kids
  <2>1. ASSUME NEW j \in Open(heap, taken \cup {t}) PROVE j \in (Open(heap, taken) \ {t}) \cup kids
    <3>1. j \in Indexes(heap) /\ j \notin taken /\ j # t /\ (j = 1 \/ j \div 2 \in taken \/ j \div 2 = t)
      BY DEF Open
    <3>2. CASE j \div 2 = t
      BY <1>3, <1>4, <3>1, <3>2
    <3>3. CASE j = 1 \/ j \div 2 \in taken
      BY <3>1, <3>3 DEF Open
    <3> QED
      BY <3>1, <3>2, <3>3
  <2>2. ASSUME NEW j \in kids PROVE j \in Open(heap, taken \cup {t})
    <3>1. j \div 2 = t
      BY <1>3, <1>4
    <3> QED
      BY <1>5, <3>1 DEF Open
  <2>3. ASSUME NEW j \in Open(heap, taken), j # t PROVE j \in Open(heap, taken \cup {t})
    BY <2>3 DEF Open
  <2> QED
    BY <2>1, <2>2, <2>3
<1>7. \A j, l \in Indexes(heap) : C(j) = C(l) => j = l
  BY <1>4
<1>8. Open(heap, taken) \subseteq Indexes(heap)
  BY DEF Open
<1>9. {C(j) : j \in Open(heap, taken) \ {t}} = {C(j) : j \in Open(heap, taken)} \ {C(t)}
  BY <1>1, <1>7, <1>8
<1>10. {C(j) : j \in Open(heap, taken \cup {t})}
         = {C(j) : j \in Open(heap, taken) \ {t}} \cup {C(j) : j \in kids}
  BY <1>6
<1> QED
  BY <1>2, <1>9, <1>10

(* A turn of top_k_min takes the least of the open elements.              *)
LEMMA TurnStep ==
  ASSUME NEW heap \in Seq(Int), IsHeap(heap), NEW i \in Nat, i < Len(heap),
         NEW st, TurnInv(heap, i, st)
  PROVE  TurnInv(heap, i + 1, Turn(heap, st))
<1>1. PICK taken : TakenInv(heap, i, st, taken)
  BY DEF TurnInv
<1>2. PICK t \in Open(heap, taken) :
        /\ Top(st.candidates) = <<heap[t], t - 1>>
        /\ \A l \in Indexes(heap) \ taken : heap[t] <= heap[l]
  BY <1>1, TopIsLeast
<1>3. /\ taken \in SUBSET Indexes(heap) /\ IsFiniteSet(taken) /\ Cardinality(taken) = i
      /\ \A j \in taken : j = 1 \/ j \div 2 \in taken
      /\ \A j \in taken, l \in Indexes(heap) \ taken : heap[j] <= heap[l]
      /\ st.candidates = {<<heap[j], j - 1>> : j \in Open(heap, taken)}
      /\ st.result = [m \in 1 .. i |-> Ascending(heap, m)]
  BY <1>1 DEF TakenInv
<1>4. t \in Indexes(heap) \ taken /\ (t = 1 \/ t \div 2 \in taken)
  BY DEF Open
<1>5. PICK more : more = taken \cup {t}
  OBVIOUS
<1>6. /\ more \subseteq Indexes(heap) /\ IsFiniteSet(more) /\ Cardinality(more) = i + 1
      /\ \A j \in more : j = 1 \/ j \div 2 \in more
  BY <1>3, <1>4, <1>5, FS_AddElement
<1>7. \A j \in more, l \in Indexes(heap) \ more : heap[j] <= heap[l]
  BY <1>2, <1>3, <1>5
<1>8. Ascending(heap, i + 1) = heap[t]
  <2>1. t \in Indexes(heap) \ taken /\ \A l \in Indexes(heap) \ taken : heap[t] <= heap[l]
    BY <1>2, <1>4
  <2>2. \A j \in taken, l \in Indexes(heap) \ taken : heap[j] <= heap[l]
    BY <1>3
  <2>3. taken \in SUBSET Indexes(heap) /\ IsFiniteSet(taken) /\ Cardinality(taken) = i
    BY <1>3
  <2> QED
    BY ONLY <2>1, <2>2, <2>3, NextAscending, heap \in Seq(Int), i \in Nat
<1>9. Turn(heap, st).candidates = {<<heap[j], j - 1>> : j \in Open(heap, more)}
  <2>1. Turn(heap, st).candidates
          = (st.candidates \ {<<heap[t], t - 1>>}) \cup Children(heap, t - 1)
    BY <1>2 DEF Turn
  <2>2. {<<heap[j], j - 1>> : j \in Open(heap, more)}
          = ({<<heap[j], j - 1>> : j \in Open(heap, taken)} \ {<<heap[t], t - 1>>})
              \cup Children(heap, t - 1)
    BY <1>3, <1>5, ChildrenOpen
  <2> QED
    BY <1>3, <2>1, <2>2
<1>10. Turn(heap, st).result = [m \in 1 .. i + 1 |-> Ascending(heap, m)]
  <2>1. Turn(heap, st).result = Append(st.result, heap[t])
    BY <1>2 DEF Turn
  <2>2. PICK asc : asc = [m \in 1 .. i |-> Ascending(heap, m)]
    OBVIOUS
  <2>3. asc \in Seq({Ascending(heap, m) : m \in 1 .. i}) /\ Len(asc) = i
    BY <2>2
  <2>4. Append(asc, heap[t]) = [m \in 1 .. i + 1 |-> IF m = i + 1 THEN heap[t] ELSE asc[m]]
    BY <2>3
  <2>5. [m \in 1 .. i + 1 |-> IF m = i + 1 THEN heap[t] ELSE asc[m]]
          = [m \in 1 .. i + 1 |-> Ascending(heap, m)]
    BY <1>8, <2>2
  <2> QED
    BY <1>3, <2>1, <2>2, <2>4, <2>5
<1> QED
  BY <1>6, <1>7, <1>9, <1>10 DEF TurnInv, TakenInv

(* The states of the loop, as far as they are typed.                      *)
LoopState == [candidates : SUBSET (Int \X Int), result : Seq(Int)]

(* A turn of top_k_min stays among its states.                            *)
LEMMA TurnTyped ==
  ASSUME NEW heap \in Seq(Int), IsHeap(heap), NEW i \in Nat, i < Len(heap),
         NEW st \in LoopState, TurnInv(heap, i, st)
  PROVE  Turn(heap, st) \in LoopState
<1>1. PICK taken : TakenInv(heap, i, st, taken)
  BY DEF TurnInv
<1>2. PICK t \in Open(heap, taken) : Top(st.candidates) = <<heap[t], t - 1>>
  BY <1>1, TopIsLeast
<1>3. heap[t] \in Int /\ t \in Int
  BY DEF Open, Indexes
<1>4. Children(heap, t - 1) \in SUBSET (Int \X Int)
  <2>1. ASSUME NEW j \in {2 * (t - 1) + 1, 2 * (t - 1) + 2} \cap 0 .. Len(heap) - 1
        PROVE  <<heap[j + 1], j>> \in Int \X Int
    <3>1. j + 1 \in 1 .. Len(heap) /\ j \in Int
      OBVIOUS
    <3>2. heap[j + 1] \in Int
      BY <3>1
    <3> QED
      BY <3>1, <3>2
  <2> QED
    BY <2>1 DEF Children
<1>5. st.candidates \in SUBSET (Int \X Int) /\ st.result \in Seq(Int)
  BY DEF LoopState
<1>6. PICK c, r : /\ c = (st.candidates \ {<<heap[t], t - 1>>}) \cup Children(heap, t - 1)
                  /\ r = Append(st.result, heap[t])
  OBVIOUS
<1>7. c \in SUBSET (Int \X Int) /\ r \in Seq(Int)
  BY <1>3, <1>4, <1>5, <1>6
<1>8. Turn(heap, st) = [candidates |-> c, result |-> r]
  BY <1>2, <1>6 DEF Turn
<1> QED
  BY <1>7, <1>8 DEF LoopState

(* Before the loop nothing is taken.                                      *)
Start(heap) == [candidates |-> {<<heap[1], 0>>}, result |-> <<>>]

(* All the turns of top_k_min keep its invariant.                         *)
LEMMA TurnsFollow ==
  ASSUME NEW heap \in Seq(Int), IsHeap(heap), NEW n \in Nat, 0 < n, n <= Len(heap),
         NEW f, f[0] = Start(heap),
         \A i \in 1 .. n : TurnInv(heap, i - 1, f[i - 1]) => f[i] = Turn(heap, f[i - 1])
  PROVE  \A i \in 0 .. n : TurnInv(heap, i, f[i])
<1> DEFINE T == {i \in Nat : TurnInv(heap, i, f[i])}
<1>1. 0 \in T
  <2>1. Open(heap, {}) = {1}
    BY DEF Open, Indexes
  <2>2. {<<heap[j], j - 1>> : j \in Open(heap, {})} = {<<heap[1], 0>>}
    <3>1. 1 - 1 = 0
      OBVIOUS
    <3> QED
      BY <2>1, <3>1
  <2>3. <<>> = [m \in 1 .. 0 |-> Ascending(heap, m)]
    OBVIOUS
  <2>4. TakenInv(heap, 0, Start(heap), {})
    BY <2>2, <2>3, FS_EmptySet DEF TakenInv, Start
  <2> QED
    BY <2>4 DEF TurnInv
<1>2. ASSUME NEW i \in 0 .. n - 1, i \in T PROVE i + 1 \in T
  <2>1. i \in Nat /\ i < Len(heap) /\ i + 1 \in 1 .. n /\ (i + 1) - 1 = i /\ i + 1 \in Nat
    OBVIOUS
  <2>2. TurnInv(heap, i, f[i])
    BY <1>2
  <2>3. f[i + 1] = Turn(heap, f[i])
    BY <2>1, <2>2
  <2>4. TurnInv(heap, i + 1, f[i + 1])
    BY <2>1, <2>2, <2>3, TurnStep
  <2> QED
    BY <2>1, <2>4
<1>3. T \in SUBSET Nat
  OBVIOUS
<1> HIDE DEF T
<1>4. \A i \in 0 .. n : i \in T
  BY <1>1, <1>2, <1>3, UpTo
<1> QED
  BY <1>4 DEF T

(* The turns of top_k_min exist.                                          *)
LEMMA TurnsExist ==
  ASSUME NEW heap \in Seq(Int), IsHeap(heap), NEW n \in Nat, 0 < n, n <= Len(heap)
  PROVE  \E f : f = [i \in 0 .. n |-> IF i = 0 THEN Start(heap) ELSE Turn(heap, f[i - 1])]
<1> DEFINE G == [p \in (1 .. n) \X LoopState |->
                   IF TurnInv(heap, p[1] - 1, p[2]) THEN Turn(heap, p[2]) ELSE Start(heap)]
<1>1. Start(heap) \in LoopState
  <2>1. heap[1] \in Int
    OBVIOUS
  <2> QED
    BY <2>1 DEF Start, LoopState
<1>2. G \in [(1 .. n) \X LoopState -> LoopState]
  <2>1. ASSUME NEW p \in (1 .. n) \X LoopState, TurnInv(heap, p[1] - 1, p[2])
        PROVE  Turn(heap, p[2]) \in LoopState
    <3>1. p[1] - 1 \in Nat /\ p[1] - 1 < Len(heap) /\ p[2] \in LoopState
      OBVIOUS
    <3> QED
      BY <2>1, <3>1, TurnTyped
  <2> QED
    BY <1>1, <2>1
<1>3. ASSUME NEW i \in 1 .. n, NEW x \in LoopState, TurnInv(heap, i - 1, x)
      PROVE  G[<<i, x>>] = Turn(heap, x)
  BY <1>3
<1> HIDE DEF G
<1>4. PICK f \in [0 .. n -> LoopState] : f[0] = Start(heap) /\ \A i \in 1 .. n : f[i] = G[<<i, f[i - 1]>>]
  <2>1. PICK S, a : S = LoopState /\ a = Start(heap)
    OBVIOUS
  <2>2. a \in S /\ G \in [(1 .. n) \X S -> S]
    BY <1>1, <1>2, <2>1
  <2>3. \E f \in [0 .. n -> S] : Iterates(f, a, n, G)
    BY <2>2, Turns
  <2> QED
    BY <2>1, <2>3 DEF Iterates
<1>5. ASSUME NEW i \in 1 .. n, TurnInv(heap, i - 1, f[i - 1]) PROVE f[i] = Turn(heap, f[i - 1])
  <2>1. i - 1 \in 0 .. n
    OBVIOUS
  <2>2. f[i - 1] \in LoopState
    BY <2>1
  <2> QED
    BY <1>3, <1>4, <1>5, <2>2
<1>6. \A i \in 0 .. n : TurnInv(heap, i, f[i])
  BY <1>4, <1>5, TurnsFollow
<1>7. \A i \in 1 .. n : f[i] = Turn(heap, f[i - 1])
  <2>1. \A i \in 1 .. n : i - 1 \in 0 .. n
    OBVIOUS
  <2> QED
    BY <1>5, <1>6, <2>1
<1>8. f = [i \in 0 .. n |-> IF i = 0 THEN Start(heap) ELSE Turn(heap, f[i - 1])]
  <2>1. f = [i \in 0 .. n |-> f[i]]
    OBVIOUS
  <2>2. \A i \in 0 .. n : f[i] = IF i = 0 THEN Start(heap) ELSE Turn(heap, f[i - 1])
    BY <1>4, <1>7
  <2> QED
    BY <2>1, <2>2
<1> QED
  BY <1>8

(* top_k_min of a heap is SmallestOf it.                                  *)
LEMMA FoundSmallest ==
  ASSUME NEW heap \in Seq(Int), IsHeap(heap), NEW k \in Nat
  PROVE  top_k_min(heap, k) = SmallestOf(heap, k)
<1>1. PICK turns : turns = Min({Len(heap), k})
  OBVIOUS
<1>2. turns \in Nat /\ turns <= Len(heap)
  <2>1. PICK n \in Nat : n = Len(heap)
    OBVIOUS
  <2>2. turns = IF n <= k THEN n ELSE k
    BY <1>1, <2>1, MinOfTwo
  <2> QED
    BY <2>1, <2>2
<1>3. SmallestOf(heap, k) = [m \in 1 .. turns |-> Ascending(heap, m)]
  BY <1>1 DEF SmallestOf
<1>4. CASE turns = 0
  <2>1. top_k_min(heap, k) = <<>>
    BY <1>1, <1>4 DEF top_k_min
  <2>2. [m \in 1 .. 0 |-> Ascending(heap, m)] = <<>>
    OBVIOUS
  <2> QED
    BY <1>3, <1>4, <2>1, <2>2
<1>5. CASE turns # 0
  <2> DEFINE Eqn(f) == f = [i \in 0 .. turns |-> IF i = 0 THEN Start(heap) ELSE Turn(heap, f[i - 1])]
             after == CHOOSE f : Eqn(f)
  <2>1. top_k_min(heap, k) = after[turns].result
    BY <1>1, <1>5 DEF top_k_min, Turn, Top, Start
  <2>2. \E f : Eqn(f)
    BY <1>2, <1>5, TurnsExist
  <2>3. Eqn(after)
    <3> HIDE DEF Eqn
    <3> QED
      BY <2>2
  <2> HIDE DEF after
  <2>4. after[0] = Start(heap) /\ \A i \in 1 .. turns : after[i] = Turn(heap, after[i - 1])
    <3>1. 0 \in 0 .. turns /\ \A i \in 1 .. turns : i \in 0 .. turns /\ i # 0
      BY <1>2
    <3> QED
      BY <2>3, <3>1
  <2> HIDE DEF Eqn
  <2>5. TurnInv(heap, turns, after[turns])
    <3>1. turns \in 0 .. turns
      BY <1>2
    <3>2. \A i \in 0 .. turns : TurnInv(heap, i, after[i])
      BY <1>2, <1>5, <2>4, TurnsFollow
    <3> QED
      BY <3>1, <3>2
  <2> QED
    BY <1>3, <2>1, <2>5 DEF TurnInv, TakenInv
<1> QED
  BY <1>4, <1>5

(* A call of top_k_min keeps FindsSmallest, and so do all the others.     *)
LEMMA SmallestStep ==
  ASSUME call \in Calls, FindsSmallest, [Next]_vars
  PROVE  FindsSmallest'
<1>1. CASE UNCHANGED vars
  BY <1>1 DEF vars, FindsSmallest, Returned
<1>2. CASE UNCHANGED call /\ TopKMin
  <2>1. call.heap \in Seq(Int) /\ IsHeap(call.heap) /\ call.k \in Nat
    BY <1>2, Arguments, InputsAssumption DEF TopKMin, Calling
  <2>2. top_k_min(call.heap, call.k) = SmallestOf(call.heap, call.k)
    BY <2>1, FoundSmallest
  <2> QED
    BY <1>2, <2>2 DEF TopKMin, FindsSmallest
<1>3. CASE UNCHANGED call /\ call.fn # "top_k_min"
  BY <1>3 DEF FindsSmallest, Returned
<1> QED
  BY <1>1, <1>2, <1>3, CallMade

(* Whatever the heap, the small heap of candidates is enough to find its  *)
(* k smallest elements in ascending order.                                *)
THEOREM SmallestAreFound == Spec => []FindsSmallest
<1>1. Init => call \in Calls /\ FindsSmallest
  BY DEF Init, FindsSmallest, Returned
<1>2. call \in Calls /\ FindsSmallest /\ [Next]_vars => (call \in Calls /\ FindsSmallest)'
  BY CallsKept, SmallestStep
<1> QED
  BY <1>1, <1>2, PTL DEF Spec

-----------------------------------------------------------------------------
(* Digits of a number *)

(* 1 << 7 * i for any width of a group.                                   *)
LEMMA GroupFacts ==
  /\ B \in Nat /\ B >= 2
  /\ Group(0) = 1
  /\ \A i \in Nat : Group(i) \in Nat \ {0} /\ Group(i + 1) = Group(i) * B
  /\ \A i, j \in Nat : i <= j => Group(i) <= Group(j)
<1>1. GROUP_BITS \in Nat \ {0}
  BY CodingAssumption
<1>2. B \in Nat /\ B >= 2
  <2>1. PICK x : x = pow2[GROUP_BITS]
    OBVIOUS
  <2>2. x \in Nat /\ x > GROUP_BITS
    BY <1>1, <2>1, Powers
  <2> QED
    BY <1>1, <2>1, <2>2 DEF B
<1>3. Group(0) = 1
  <2>1. GROUP_BITS * 0 = 0
    BY <1>1
  <2> QED
    BY <2>1, Powers DEF Group
<1>4. ASSUME NEW i \in Nat PROVE Group(i) \in Nat \ {0} /\ Group(i + 1) = Group(i) * B
  <2>1. PICK x : x = GROUP_BITS * i
    OBVIOUS
  <2>2. x \in Nat /\ GROUP_BITS * (i + 1) = x + GROUP_BITS
    BY <1>1, <2>1
  <2>3. pow2[x + GROUP_BITS] = pow2[x] * pow2[GROUP_BITS] /\ pow2[x] \in Nat \ {0}
    BY <1>1, <2>2, PowerOfSum, Powers
  <2> QED
    BY <2>1, <2>2, <2>3 DEF Group, B
<1>5. ASSUME NEW i \in Nat, NEW j \in Nat, i <= j PROVE Group(i) <= Group(j)
  <2>1. PICK x, y : x = GROUP_BITS * i /\ y = GROUP_BITS * j
    OBVIOUS
  <2>2. x \in Nat /\ y \in Nat /\ x <= y
    <3>1. GROUP_BITS * (j - i) >= 0
      BY <1>1, <1>5
    <3>2. GROUP_BITS * (j - i) = GROUP_BITS * j - GROUP_BITS * i
      BY <1>1
    <3>3. x \in Nat /\ y \in Nat
      BY <1>1, <2>1
    <3> QED
      BY <2>1, <3>1, <3>2, <3>3
  <2> QED
    BY <2>1, <2>2, PowersGrow DEF Group
<1> QED
  BY <1>2, <1>3, <1>4, <1>5

(* 1 << 8 * i for any width of a group.                                   *)
LEMMA OctetFacts ==
  /\ 2 * B \in Nat \ {0}
  /\ Octet(0) = 1
  /\ \A i \in Nat : Octet(i) \in Nat \ {0} /\ Octet(i + 1) = Octet(i) * (2 * B)
<1>1. GROUP_BITS \in Nat \ {0} /\ B \in Nat /\ B >= 2
  BY CodingAssumption, GroupFacts
<1>2. Octet(0) = 1
  <2>1. (GROUP_BITS + 1) * 0 = 0
    BY <1>1
  <2> QED
    BY <2>1, Powers DEF Octet
<1>3. pow2[GROUP_BITS + 1] = 2 * B
  BY <1>1, Powers DEF B
<1>4. ASSUME NEW i \in Nat PROVE Octet(i) \in Nat \ {0} /\ Octet(i + 1) = Octet(i) * (2 * B)
  <2>1. PICK x, y : x = (GROUP_BITS + 1) * i /\ y = GROUP_BITS + 1
    OBVIOUS
  <2>2. x \in Nat /\ y \in Nat /\ (GROUP_BITS + 1) * (i + 1) = x + y
    BY <1>1, <2>1
  <2>3. pow2[x + y] = pow2[x] * pow2[y] /\ pow2[x] \in Nat \ {0}
    BY <2>2, PowerOfSum, Powers
  <2> QED
    BY <1>3, <2>1, <2>2, <2>3 DEF Octet
<1> QED
  BY <1>1, <1>2, <1>4

(* The values are the naturals below 2^WIDTH.                             *)
LEMMA ValuesFacts ==
  /\ pow2[WIDTH] \in Nat \ {0} /\ Values \subseteq Nat
  /\ \A v \in Nat : v \in Values <=> v < pow2[WIDTH]
BY Powers, CodingAssumption DEF Values

(* There are groups enough for every value.                               *)
LEMMA GroupsEnough ==
  Groups \in Nat \ {0} /\ \A v \in Values : v \in Nat /\ v < Group(Groups)
<1>1. GROUP_BITS \in Nat \ {0} /\ WIDTH \in Nat \ {0}
  BY CodingAssumption
<1>2. PICK w, q, r : w = WIDTH + GROUP_BITS - 1 /\ q = w \div GROUP_BITS /\ r = w % GROUP_BITS
  OBVIOUS
<1>3. w \in Int /\ q \in Int /\ r \in Int /\ 0 <= r /\ r < GROUP_BITS /\ w = GROUP_BITS * q + r
  BY <1>1, <1>2, DivMod
<1>4. PICK x : x = GROUP_BITS * q
  OBVIOUS
<1>5. x \in Int /\ x >= WIDTH
  BY <1>1, <1>2, <1>3, <1>4
<1>6. q >= 1
  <2> SUFFICES ASSUME q <= 0 PROVE FALSE
    BY <1>3
  <2>1. GROUP_BITS * (0 - q) >= 0
    BY <1>1, <1>3
  <2>2. GROUP_BITS * (0 - q) = 0 - GROUP_BITS * q
    BY <1>1, <1>3
  <2> QED
    BY <1>1, <1>4, <1>5, <2>1, <2>2
<1>7. Groups = q
  BY <1>2 DEF Groups
<1>8. pow2[WIDTH] <= Group(Groups)
  BY <1>1, <1>4, <1>5, <1>7, PowersGrow DEF Group
<1>9. Group(Groups) \in Nat
  BY <1>3, <1>6, <1>7, GroupFacts
<1> QED
  BY <1>3, <1>6, <1>7, <1>8, <1>9, ValuesFacts

(* The remainder by a product has one more digit than that by a factor.   *)
LEMMA Digit ==
  ASSUME NEW a \in Nat, NEW u \in Nat \ {0}, NEW b \in Nat \ {0}
  PROVE  a % (u * b) = (a % u) + ((a \div u) % b) * u
<1>1. PICK q, r : q = a \div u /\ r = a % u
  OBVIOUS
<1>2. q \in Int /\ r \in Int /\ 0 <= r /\ r < u /\ a = u * q + r
  BY <1>1, DivMod
<1>0. PICK p, s : p = q \div b /\ s = q % b
  OBVIOUS
<1>3. p \in Int /\ s \in Int /\ 0 <= s /\ s < b /\ q = b * p + s
  BY <1>0, <1>2, DivMod
<1>10. PICK w, x : w = u * b /\ x = u * s + r
  OBVIOUS
<1>4. w \in Int /\ w > 0
  BY <1>10
<1>5. x \in Int /\ 0 <= x /\ x < w
  <2>1. u * s \in Int /\ 0 <= u * s
    BY <1>3
  <2>2. u * (b - s) >= u
    BY <1>3
  <2>3. u * (b - s) = u * b - u * s
    BY <1>3
  <2> QED
    BY <1>10, <1>2, <2>1, <2>2, <2>3
<1>6. a = w * p + x
  <2>1. a = u * (b * p + s) + r
    BY <1>2, <1>3
  <2>2. u * (b * p + s) = (u * b) * p + u * s
    BY <1>3
  <2>3. PICK y, z : y = (u * b) * p /\ z = u * s
    OBVIOUS
  <2>4. y \in Int /\ z \in Int /\ a = (y + z) + r
    BY <1>3, <2>1, <2>2, <2>3
  <2>5. w * p = y /\ x = z + r
    BY <1>10, <2>3
  <2>6. a = y + x
    BY ONLY <1>2, <2>4, <2>5
  <2> QED
    BY ONLY <2>5, <2>6
<1>7. x = a % w
  BY <1>3, <1>4, <1>5, <1>6, DivModUnique
<1>8. u * s = s * u
  BY <1>3
<1>9. x = r + s * u
  BY ONLY <1>2, <1>3, <1>8, <1>10, u \in Nat \ {0}
<1> QED
  BY <1>0, <1>1, <1>7, <1>9, <1>10

(* A remainder is a natural below the divisor.                            *)
LEMMA ModNat ==
  ASSUME NEW a \in Nat, NEW b \in Nat \ {0}
  PROVE  a % b \in Nat /\ a % b < b /\ a % b <= a
<1>1. PICK q, r : q = a \div b /\ r = a % b
  OBVIOUS
<1>2. q \in Nat /\ r \in Int /\ 0 <= r /\ r < b /\ a = b * q + r
  BY <1>1, DivMod, PlaceNat
<1>3. b * q >= 0 /\ b * q \in Int
  BY <1>2
<1> QED
  BY <1>1, <1>2, <1>3

(* A quotient is less than c where the number is less than c times more.  *)
LEMMA DivBelow ==
  ASSUME NEW a \in Nat, NEW u \in Nat \ {0}, NEW c \in Nat
  PROVE  a < u * c <=> a \div u < c
<1>1. PICK q, r : q = a \div u /\ r = a % u
  OBVIOUS
<1>2. q \in Int /\ r \in Int /\ 0 <= r /\ r < u /\ a = u * q + r
  BY <1>1, DivMod
<1>3. ASSUME q < c PROVE a < u * c
  <2>1. u * (c - q - 1) >= 0
    BY <1>2, <1>3
  <2>2. u * (c - q - 1) = u * c - u * q - u
    BY <1>2
  <2>3. u * c \in Int /\ u * q \in Int
    BY <1>2
  <2> QED
    BY <1>2, <2>1, <2>2, <2>3
<1>4. ASSUME q >= c PROVE ~(a < u * c)
  <2>1. u * (q - c) >= 0
    BY <1>2, <1>4
  <2>2. u * (q - c) = u * q - u * c
    BY <1>2
  <2>3. u * c \in Int /\ u * q \in Int
    BY <1>2
  <2> QED
    BY <1>2, <2>1, <2>2, <2>3
<1> QED
  BY <1>1, <1>2, <1>3, <1>4

-----------------------------------------------------------------------------
(* Varints *)

(* What an encoder writes for v.                                          *)
IsVarint(s, v) ==
  /\ s \in Seq(Byte) /\ Len(s) \in 1 .. Groups
  /\ v < Group(Len(s)) /\ (Len(s) = 1 \/ Group(Len(s) - 1) <= v)
  /\ \A i \in 1 .. Len(s) :
       s[i] = ((v \div Group(i - 1)) % B) + (IF i < Len(s) THEN B ELSE 0)

(* A group is a byte with or without the bit above it.                    *)
LEMMA ByteFacts ==
  /\ \A b \in Byte : b \in Nat
  /\ \A x \in Nat : x < B => x \in Byte /\ x + B \in Byte
<1>0. B \in Nat /\ B >= 2
  BY GroupFacts
<1>1. PICK c : c = B /\ c \in Nat /\ c >= 2
  BY <1>0
<1>2. Byte = 0 .. 2 * c - 1
  BY <1>1 DEF Byte
<1>3. \A x \in Nat : x < c => x \in 0 .. 2 * c - 1 /\ x + c \in 0 .. 2 * c - 1
  BY <1>1
<1> QED
  BY <1>1, <1>2, <1>3

(* What is shifted and masked is a natural below B.                       *)
LEMMA PlacesNat ==
  ASSUME NEW v \in Nat, NEW i \in Nat
  PROVE  /\ v \div Group(i) \in Nat
         /\ (v \div Group(i)) % B \in Nat /\ (v \div Group(i)) % B < B
<1>1. Group(i) \in Nat \ {0} /\ B \in Nat \ {0}
  <2>1. B \in Nat /\ B >= 2
    BY GroupFacts
  <2>2. Group(i) \in Nat \ {0}
    BY GroupFacts, Zenon
  <2> QED
    BY ONLY <2>1, <2>2
<1>2. v \div Group(i) \in Nat
  BY <1>1, PlaceNat
<1> QED
  BY <1>1, <1>2, ModNat

(* The cases of the 32-bit encoder, one for each length.                  *)
LEMMA Varint32 ==
  ASSUME NEW v \in Values
  PROVE  IsVarint(EncodeVarint32(v), v)
<1>1. v \in Nat /\ Groups \in Nat \ {0} /\ v < Group(Groups)
  BY GroupsEnough
<1>2. PICK ks : ks = {n \in 1 .. Groups : v < Group(n) \/ n = Groups}
  OBVIOUS
<1>3. PICK k : k = Min(ks)
  OBVIOUS
<1>4. k \in ks /\ \A n \in ks : k <= n
  <2>1. ks \in SUBSET Nat /\ Groups \in ks
    BY <1>1, <1>2
  <2>2. \E x \in ks : \A y \in ks : x <= y
    BY <2>1, Least
  <2> QED
    BY <1>3, <2>2 DEF Min
<1>5. k \in 1 .. Groups /\ k \in Nat \ {0} /\ v < Group(k)
  BY <1>1, <1>2, <1>4
<1>6. k = 1 \/ Group(k - 1) <= v
  <2> SUFFICES ASSUME k # 1, v < Group(k - 1) PROVE FALSE
    <3>1. k # 1 => Group(k - 1) \in Nat
      <4>1. k # 1 => k - 1 \in Nat
        BY <1>5
      <4> QED
        BY <4>1, GroupFacts
    <3> QED
      BY <1>1, <3>1
  <2>1. k - 1 \in 1 .. Groups
    BY <1>1, <1>5
  <2>2. k - 1 \in ks
    BY <1>2, <2>1
  <2> QED
    BY <1>4, <1>5, <2>2
<1>7. PICK s : s = EncodeVarint32(v)
  OBVIOUS
<1>8. s = [i \in 1 .. k |-> IF i < k THEN ((v \div Group(i - 1)) % B) + B ELSE v \div Group(i - 1)]
  BY <1>2, <1>3, <1>7 DEF EncodeVarint32
<1>9. (v \div Group(k - 1)) % B = v \div Group(k - 1)
  <2>1. k - 1 \in Nat /\ (k - 1) + 1 = k
    BY <1>5
  <2>2. PICK u : u = Group(k - 1)
    OBVIOUS
  <2>3. u \in Nat \ {0} /\ Group(k) = u * B /\ B \in Nat
    BY <2>1, <2>2, GroupFacts
  <2>4. v \div u < B
    BY <1>1, <1>5, <2>3, DivBelow
  <2>5. v \div u \in Nat
    BY <1>1, <2>3, PlaceNat
  <2> QED
    BY <2>2, <2>3, <2>4, <2>5, ModSmall
<1>10. ASSUME NEW i \in 1 .. k
       PROVE  /\ s[i] = ((v \div Group(i - 1)) % B) + (IF i < k THEN B ELSE 0)
              /\ s[i] \in Byte
  <2>1. PICK x : x = (v \div Group(i - 1)) % B
    OBVIOUS
  <2>2. i - 1 \in Nat
    BY <1>5
  <2>3. x \in Nat /\ x < B
    BY <1>1, <2>1, <2>2, PlacesNat
  <2>4. CASE i < k
    BY <1>8, <2>1, <2>3, <2>4, ByteFacts
  <2>5. CASE ~(i < k)
    <3>1. i = k
      BY <1>5, <2>5
    <3>2. s[i] = x /\ x + 0 = x
      BY <1>8, <1>9, <2>1, <2>3, <3>1
    <3> QED
      BY <2>1, <2>3, <2>5, <3>2, ByteFacts
  <2> QED
    BY <2>4, <2>5
<1>11. s \in Seq(Byte) /\ Len(s) = k
  BY <1>5, <1>8, <1>10
<1> QED
  BY <1>5, <1>6, <1>7, <1>10, <1>11 DEF IsVarint

(* There is one varint of a value.                                        *)
LEMMA OneVarint ==
  ASSUME NEW v \in Nat, NEW s, NEW t, IsVarint(s, v), IsVarint(t, v)
  PROVE  s = t
<1>1. Groups \in Nat
  BY GroupsEnough
<1>2. ASSUME NEW x, NEW y, IsVarint(x, v), IsVarint(y, v), Len(x) < Len(y) PROVE FALSE
  <2>1. PICK m, n : m = Len(x) /\ n = Len(y)
    OBVIOUS
  <2>2. m \in Nat \ {0} /\ n \in Nat \ {0} /\ m < n /\ v < Group(m) /\ Group(n - 1) <= v
    BY <1>1, <1>2, <2>1 DEF IsVarint
  <2>3. n - 1 \in Nat /\ m <= n - 1
    BY <2>2
  <2>4. Group(m) <= Group(n - 1) /\ Group(m) \in Nat /\ Group(n - 1) \in Nat
    BY <2>2, <2>3, GroupFacts
  <2> QED
    BY <2>2, <2>4
<1>3. s \in Seq(Byte) /\ t \in Seq(Byte) /\ Len(s) \in Nat /\ Len(t) \in Nat
  BY DEF IsVarint
<1>4. Len(s) = Len(t)
  BY <1>2, <1>3
<1>5. \A i \in 1 .. Len(s) : s[i] = t[i]
  BY <1>4 DEF IsVarint
<1> QED
  BY <1>3, <1>4, <1>5, SeqEqual

(* One turn of the loops of VarintLength and EncodeVarint64.              *)
LEMMA NextGroup ==
  ASSUME NEW v \in Values, v >= B, NEW s, IsVarint(s, v \div B)
  PROVE  IsVarint(<<(v % B) + B>> \o s, v)
<1>1. v \in Nat /\ B \in Nat \ {0} /\ B >= 2 /\ Groups \in Nat \ {0} /\ v < Group(Groups)
  BY GroupsEnough, GroupFacts
<1>2. PICK n, w, t, b : n = Len(s) /\ w = v \div B /\ t = <<(v % B) + B>> \o s /\ b = v % B
  OBVIOUS
<1>3. b \in Nat /\ b < B /\ w \in Nat
  BY <1>1, <1>2, ModNat, PlaceNat
<1>4. n \in 1 .. Groups /\ s \in Seq(Byte) /\ n \in Nat \ {0}
  BY <1>1, <1>2 DEF IsVarint
<1>5. b + B \in Byte
  BY <1>3, ByteFacts
<1>6. t \in Seq(Byte) /\ Len(t) = n + 1 /\ t[1] = b + B /\ \A i \in 2 .. n + 1 : t[i] = s[i - 1]
  BY <1>2, <1>4, <1>5
<1>7. Group(n + 1) = Group(n) * B /\ Group(n) \in Nat \ {0} /\ w < Group(n)
  BY <1>2, <1>4, GroupFacts DEF IsVarint
<1>8. v < Group(n + 1)
  <2>1. PICK u : u = Group(n)
    OBVIOUS
  <2>2. u \in Nat \ {0} /\ Group(n + 1) = B * u /\ v \div B < u
    BY <1>1, <1>2, <1>7, <2>1
  <2> QED
    BY <1>1, <2>2, DivBelow
<1>9. Group(n) <= v
  <2>1. CASE n = 1
    <3>1. Group(0 + 1) = Group(0) * B /\ Group(0) = 1
      BY GroupFacts
    <3> QED
      BY <1>1, <2>1, <3>1
  <2>2. CASE n # 1
    <3>1. n - 1 \in Nat /\ (n - 1) + 1 = n
      BY <1>4
    <3>2. PICK u : u = Group(n - 1)
      OBVIOUS
    <3>3. u \in Nat \ {0} /\ Group(n) = u * B /\ u <= w
      BY <1>2, <2>2, <3>1, <3>2, GroupFacts DEF IsVarint
    <3>4. ~(v \div B < u)
      BY <1>2, <1>3, <3>3
    <3>5. ~(v < B * u)
      BY <1>1, <3>3, <3>4, DivBelow
    <3>6. B * u = u * B
      BY <1>1, <3>3
    <3> QED
      BY <1>1, <1>7, <3>3, <3>5, <3>6
  <2> QED
    BY <2>1, <2>2
<1>10. n + 1 <= Groups
  <2> SUFFICES ASSUME Groups <= n PROVE FALSE
    BY <1>1, <1>4
  <2>1. Group(Groups) <= Group(n) /\ Group(Groups) \in Nat
    BY <1>1, <1>4, GroupFacts
  <2> QED
    BY <1>1, <1>7, <1>9, <2>1
<1>11. ASSUME NEW i \in 1 .. n + 1
       PROVE  t[i] = ((v \div Group(i - 1)) % B) + (IF i < n + 1 THEN B ELSE 0)
  <2>1. CASE i = 1
    <3>1. v \div Group(0) = v
      <4>1. v = 1 * v + 0
        BY <1>1
      <4>2. v \div 1 = v
        BY <1>1, <4>1, DivModUnique
      <4> QED
        BY <4>2, GroupFacts
    <3>2. i - 1 = 0 /\ i < n + 1
      BY <1>4, <2>1
    <3> QED
      BY <1>2, <1>6, <2>1, <3>1, <3>2
  <2>2. CASE i # 1
    <3>1. i \in 2 .. n + 1 /\ i - 1 \in 1 .. n /\ (i - 1) - 1 \in Nat /\ i - 1 \in Nat
          /\ ((i - 1) - 1) + 1 = i - 1
      BY <1>4, <2>2
    <3>2. t[i] = ((w \div Group((i - 1) - 1)) % B) + (IF i - 1 < n THEN B ELSE 0)
      BY <1>2, <1>6, <3>1 DEF IsVarint
    <3>3. w \div Group((i - 1) - 1) = v \div Group(i - 1)
      <4>1. PICK u : u = Group((i - 1) - 1)
        OBVIOUS
      <4>2. u \in Nat \ {0} /\ Group(i - 1) = u * B
        BY <3>1, <4>1, GroupFacts
      <4>3. Group(i - 1) = B * u
        BY <1>1, <4>2
      <4>4. v \div (B * u) = (v \div B) \div u
        BY <1>1, <4>2, DivDiv
      <4> QED
        BY <1>2, <4>1, <4>3, <4>4
    <3>4. (i - 1 < n) <=> (i < n + 1)
      BY <1>4
    <3> QED
      BY <3>2, <3>3, <3>4
  <2> QED
    BY <2>1, <2>2
<1> QED
  <2>1. (n + 1) - 1 = n /\ n + 1 \in 1 .. Groups
    BY <1>1, <1>4, <1>10
  <2> QED
    BY <1>2, <1>6, <1>8, <1>9, <1>11, <2>1 DEF IsVarint

(* The last group is the value that is left.                              *)
LEMMA LastGroup ==
  ASSUME NEW v \in Values, v < B
  PROVE  IsVarint(<<v>>, v)
<1>1. v \in Nat /\ Groups \in Nat \ {0}
  BY GroupsEnough
<1>2. Group(0 + 1) = Group(0) * B /\ Group(0) = 1 /\ B \in Nat
  BY GroupFacts
<1>3. Group(1) = B
  BY <1>2
<1>4. v \div Group(0) = v
  <2>1. v = 1 * v + 0
    BY <1>1
  <2>2. v \div 1 = v
    BY <1>1, <2>1, DivModUnique
  <2> QED
    BY <1>2, <2>2
<1>5. v % B = v
  BY <1>1, <1>2, ModSmall
<1>6. v \in Byte
  BY <1>1, ByteFacts
<1>7. PICK s : s = <<v>>
  OBVIOUS
<1>8. s \in Seq(Byte) /\ Len(s) = 1 /\ s[1] = v
  BY <1>6, <1>7
<1>9. ASSUME NEW i \in 1 .. 1
      PROVE  s[i] = ((v \div Group(i - 1)) % B) + (IF i < 1 THEN B ELSE 0)
  <2>1. i = 1 /\ i - 1 = 0 /\ ~(i < 1)
    OBVIOUS
  <2> QED
    BY <1>1, <1>4, <1>5, <1>8, <2>1
<1> QED
  BY <1>1, <1>3, <1>7, <1>8, <1>9 DEF IsVarint

(* A value without its lowest group is a smaller value.                   *)
LEMMA Shrinks ==
  ASSUME NEW v \in Values, v >= B
  PROVE  v \div B \in Values /\ v \div B < v /\ v \in Nat /\ v \div B \in Nat
<1>1. v \in Nat /\ B \in Nat \ {0} /\ B >= 2
  BY GroupFacts, ValuesFacts
<1>2. PICK w : w = v \div B
  OBVIOUS
<1>3. w \in Nat /\ w <= v
  BY <1>1, <1>2, PlaceNat
<1>4. w # v
  <2> SUFFICES ASSUME w = v PROVE FALSE
    OBVIOUS
  <2>1. v < B * v
    <3>1. (B - 1) * v > 0
      BY <1>1
    <3>2. (B - 1) * v = B * v - v
      BY <1>1
    <3>3. B * v \in Int
      BY <1>1
    <3> QED
      BY <1>1, <3>1, <3>2, <3>3
  <2>2. v \div B < v
    BY <1>1, <2>1, DivBelow
  <2> QED
    BY <1>1, <1>2, <2>2
<1>5. w < v /\ v < pow2[WIDTH] /\ pow2[WIDTH] \in Nat
  BY <1>1, <1>3, <1>4, ValuesFacts
<1>6. w \in Values
  BY <1>1, <1>3, <1>5, ValuesFacts
<1> QED
  BY <1>1, <1>2, <1>3, <1>5, <1>6

(* The loop of the 64-bit encoder writes what the cases of the other do.  *)
LEMMA SameVarint ==
  ASSUME NEW v \in Values
  PROVE  EncodeVarint64(v) = EncodeVarint32(v)
<1> DEFINE Eqn(f) == f = [w \in Values |-> IF w >= B THEN <<(w % B) + B>> \o f[w \div B] ELSE <<w>>]
           rest == CHOOSE f : Eqn(f)
           g == [w \in Values |-> EncodeVarint32(w)]
<1>1. EncodeVarint64(v) = rest[v]
  BY DEF EncodeVarint64
<1>2. \A w \in Values : g[w] = IF w >= B THEN <<(w % B) + B>> \o g[w \div B] ELSE <<w>>
  <2> SUFFICES ASSUME NEW w \in Values
               PROVE  g[w] = IF w >= B THEN <<(w % B) + B>> \o g[w \div B] ELSE <<w>>
    OBVIOUS
  <2>1. IsVarint(g[w], w) /\ w \in Nat
    BY Varint32, ValuesFacts
  <2>2. CASE w >= B
    <3>1. w \div B \in Values
      BY <2>2, Shrinks
    <3>2. IsVarint(g[w \div B], w \div B)
      BY <3>1, Varint32
    <3>3. IsVarint(<<(w % B) + B>> \o g[w \div B], w)
      BY <2>2, <3>2, NextGroup
    <3> HIDE DEF g
    <3>4. g[w] = <<(w % B) + B>> \o g[w \div B]
      BY <2>1, <3>3, OneVarint
    <3> QED
      BY <2>2, <3>4
  <2>3. CASE ~(w >= B)
    <3>1. IsVarint(<<w>>, w)
      BY <2>1, <2>3, LastGroup, GroupFacts
    <3> HIDE DEF g
    <3>2. g[w] = <<w>>
      BY <2>1, <3>1, OneVarint
    <3> QED
      BY <2>3, <3>2
  <2> QED
    BY <2>2, <2>3
<1>3. g[v] = EncodeVarint32(v)
  OBVIOUS
<1>4. g = [w \in Values |-> g[w]]
  OBVIOUS
<1> HIDE DEF g
<1>5. Eqn(g)
  BY <1>2, <1>4
<1>6. Eqn(rest)
  <2> HIDE DEF Eqn
  <2> QED
    BY <1>5
<1> HIDE DEF rest
<1>7. \A w \in Values : rest[w] = IF w >= B THEN <<(w % B) + B>> \o rest[w \div B] ELSE <<w>>
  BY <1>6
<1> HIDE DEF Eqn
<1> DEFINE Bad == {w \in Values : rest[w] # g[w]}
<1>8. Bad = {}
  <2> SUFFICES ASSUME Bad # {} PROVE FALSE
    OBVIOUS
  <2>1. PICK w \in Bad : \A x \in Bad : w <= x
    <3>1. Bad \in SUBSET Nat
      BY ValuesFacts
    <3> HIDE DEF Bad
    <3> QED
      BY <3>1, Least
  <2>2. w \in Values /\ rest[w] # g[w]
    OBVIOUS
  <2>3. CASE w >= B
    <3>1. w \div B \in Values /\ w \div B < w /\ w \in Nat /\ w \div B \in Nat
      BY <2>2, <2>3, Shrinks
    <3>2. rest[w \div B] = g[w \div B]
      BY <2>1, <3>1
    <3> QED
      BY <1>2, <1>7, <2>2, <2>3, <3>2
  <2>4. CASE ~(w >= B)
    BY <1>2, <1>7, <2>2, <2>4
  <2> QED
    BY <2>3, <2>4
<1> QED
  BY <1>1, <1>3, <1>8

-----------------------------------------------------------------------------
(* What is put is what is got: integers *)

(* What stands in front of a sequence can be taken off it.                *)
LEMMA Parted ==
  ASSUME NEW S, NEW s \in Seq(S), NEW t \in Seq(S)
  PROVE  /\ s \o t \in Seq(S) /\ Len(s \o t) = Len(s) + Len(t)
         /\ SubSeq(s \o t, 1, Len(s)) = s /\ Skip(s \o t, Len(s)) = t
<1>1. PICK u, m, n : u = s \o t /\ m = Len(s) /\ n = Len(t)
  OBVIOUS
<1>2. /\ u \in Seq(S) /\ Len(u) = m + n /\ m \in Nat /\ n \in Nat
      /\ \A i \in 1 .. m + n : u[i] = IF i <= m THEN s[i] ELSE t[i - m]
  BY <1>1, ConcatProperties
<1>3. SubSeq(u, 1, m) = s
  <2>1. PICK p : p = SubSeq(u, 1, m)
    OBVIOUS
  <2>2. p \in Seq(S) /\ Len(p) = m /\ \A i \in 1 .. m : p[i] = u[i]
    BY <1>2, <2>1
  <2>3. \A i \in 1 .. m : p[i] = s[i]
    BY <1>2, <2>2
  <2> QED
    BY <1>1, <2>1, <2>2, <2>3, SeqEqual
<1>4. SubSeq(u, m + 1, m + n) = t
  <2>1. PICK p : p = SubSeq(u, m + 1, m + n)
    OBVIOUS
  <2>2. p \in Seq(S) /\ Len(p) = n /\ \A i \in 1 .. n : p[i] = u[m + i]
    BY <1>2, <2>1
  <2>3. ASSUME NEW i \in 1 .. n PROVE p[i] = t[i]
    <3>1. m + i \in 1 .. m + n /\ ~(m + i <= m) /\ (m + i) - m = i
      BY <1>2
    <3> QED
      BY <1>2, <2>2, <3>1
  <2> QED
    BY <1>1, <2>1, <2>2, <2>3, SeqEqual
<1> QED
  BY <1>1, <1>2, <1>3, <1>4 DEF Skip

(* A part of a sequence, behind its first m elements and up to the n-th.  *)
LEMMA PartIs ==
  ASSUME NEW S, NEW s \in Seq(S), NEW m \in Nat, NEW n \in Nat, m <= n, n <= Len(s)
  PROVE  /\ SubSeq(s, m + 1, n) \in Seq(S) /\ Len(SubSeq(s, m + 1, n)) = n - m
         /\ \A i \in 1 .. n - m : SubSeq(s, m + 1, n)[i] = s[m + i]
<1>1. PICK l, r : l = m + 1 /\ r = SubSeq(s, l, n)
  OBVIOUS
<1>2. l \in Int /\ n \in Int /\ l = m + 1
  BY <1>1
<1>3. \A i \in l .. n : s[i] \in S
  BY <1>2
<1>4. /\ r \in Seq(S) /\ Len(r) = IF l <= n THEN n - l + 1 ELSE 0
      /\ \A i \in 1 .. n - l + 1 : r[i] = s[l + i - 1]
  BY <1>1, <1>2, <1>3, SubSeqProperties
<1>5. n - l + 1 = n - m /\ (IF l <= n THEN n - l + 1 ELSE 0) = n - m
  BY <1>2
<1>6. \A i \in 1 .. n - m : l + i - 1 = m + i
  BY <1>2
<1> QED
  BY <1>1, <1>4, <1>5, <1>6

Associate(a, b, c) == (a \o b) \o c = a \o (b \o c)

(* Three sequences in a row, joined either way.                           *)
LEMMA Associates ==
  ASSUME NEW S, NEW a \in Seq(S), NEW b \in Seq(S), NEW c \in Seq(S)
  PROVE  Associate(a, b, c)
<1>1. PICK x, y : x = (a \o b) \o c /\ y = a \o (b \o c)
  OBVIOUS
<1>2. PICK k, l, m : k = Len(a) /\ l = Len(b) /\ m = Len(c)
  OBVIOUS
<1>3. /\ k \in Nat /\ l \in Nat /\ m \in Nat
      /\ x \in Seq(S) /\ y \in Seq(S) /\ Len(x) = k + l + m /\ Len(y) = k + l + m
  BY <1>1, <1>2
<1>4. ASSUME NEW i \in 1 .. k + l + m PROVE x[i] = y[i]
  BY <1>1, <1>2
<1>5. x = y
  BY <1>3, <1>4, SeqEqual
<1> QED
  BY <1>1, <1>5 DEF Associate

(* An integer of fixed width is read back if it has that width.           *)
LEMMA FixedRead ==
  ASSUME NEW n \in Nat, NEW v \in Nat, v < Octet(n)
  PROVE  DecodeFixed(EncodeFixed(n, v)) = v
<1> DEFINE bytes == EncodeFixed(n, v)
           g == [i \in 0 .. n |-> v % Octet(i)]
           Eqn(f) == f = [i \in 0 .. Len(bytes) |->
                            IF i = 0 THEN 0 ELSE f[i - 1] + bytes[i] * Octet(i - 1)]
           sum == CHOOSE f : Eqn(f)
<1>1. Len(bytes) = n /\ \A i \in 1 .. n : bytes[i] = (v \div Octet(i - 1)) % (2 * B)
  BY DEF EncodeFixed
<1>2. DecodeFixed(bytes) = sum[n]
  BY <1>1 DEF DecodeFixed
<1> HIDE DEF bytes
<1>3. g[0] = 0
  <2>1. v = 1 * v + 0
    OBVIOUS
  <2>2. 0 = v % 1
    BY <2>1, DivModUnique
  <2>3. Octet(0) = 1
    BY OctetFacts
  <2> QED
    BY <2>2, <2>3
<1>4. ASSUME NEW i \in 1 .. n PROVE g[i] = g[i - 1] + bytes[i] * Octet(i - 1)
  <2>1. i - 1 \in Nat /\ (i - 1) + 1 = i /\ i \in 0 .. n /\ i - 1 \in 0 .. n
    OBVIOUS
  <2>2. PICK u, b : u = Octet(i - 1) /\ b = 2 * B
    OBVIOUS
  <2>3. b \in Nat \ {0}
    BY <2>2, OctetFacts
  <2>4. u \in Nat \ {0} /\ Octet(i) = u * b
    BY <2>1, <2>2, OctetFacts
  <2>5. v % (u * b) = (v % u) + ((v \div u) % b) * u
    BY <2>3, <2>4, Digit
  <2>6. g[i] = v % Octet(i) /\ g[i - 1] = v % u /\ bytes[i] = (v \div u) % b
    BY <1>1, <2>1, <2>2
  <2> QED
    BY <2>2, <2>4, <2>5, <2>6
<1>5. g[n] = v
  <2>1. Octet(n) \in Nat
    BY OctetFacts
  <2> QED
    BY <2>1, ModSmall
<1>6. g = [i \in 0 .. n |-> g[i]]
  OBVIOUS
<1> HIDE DEF g
<1>7. Eqn(g)
  <2>1. \A i \in 0 .. n : g[i] = IF i = 0 THEN 0 ELSE g[i - 1] + bytes[i] * Octet(i - 1)
    <3>1. \A i \in 0 .. n : i = 0 \/ i \in 1 .. n
      OBVIOUS
    <3> QED
      BY <1>3, <1>4, <3>1
  <2> QED
    BY <1>1, <1>6, <2>1
<1>8. Eqn(sum)
  <2> HIDE DEF Eqn
  <2> QED
    BY <1>7
<1> HIDE DEF sum
<1>9. sum[0] = 0 /\ \A i \in 1 .. n : sum[i] = sum[i - 1] + bytes[i] * Octet(i - 1)
  <2>1. 0 \in 0 .. n /\ \A i \in 1 .. n : i \in 0 .. n /\ i # 0
    OBVIOUS
  <2> QED
    BY <1>1, <1>8, <2>1
<1> HIDE DEF Eqn
<1> DEFINE T == {i \in Nat : sum[i] = g[i]}
<1>10. 0 \in T /\ T \in SUBSET Nat
  BY <1>3, <1>9
<1>11. ASSUME NEW i \in 0 .. n - 1, i \in T PROVE i + 1 \in T
  <2>1. i + 1 \in 1 .. n /\ (i + 1) - 1 = i /\ i + 1 \in Nat
    OBVIOUS
  <2>2. sum[i] = g[i]
    BY <1>11
  <2>3. sum[i + 1] = g[i] + bytes[i + 1] * Octet(i)
    BY <1>9, <2>1, <2>2
  <2>4. g[i + 1] = g[i] + bytes[i + 1] * Octet(i)
    BY <1>4, <2>1
  <2> QED
    BY <2>1, <2>3, <2>4
<1> HIDE DEF T
<1>12. \A i \in 0 .. n : i \in T
  BY <1>10, <1>11, UpTo
<1>13. n \in T
  BY <1>12
<1> QED
  BY <1>2, <1>5, <1>13 DEF T, bytes

(* So is a varint.                                                        *)
LEMMA VarintDecoded ==
  ASSUME NEW v \in Values, NEW s, IsVarint(s, v)
  PROVE  Decoded(s) = v
<1> DEFINE n == Len(s)
           W == pow2[WIDTH]
           g == [i \in 0 .. n |-> v % Group(i)]
           Eqn(f) == f = [i \in 0 .. Len(s) |->
                            IF i = 0 THEN 0 ELSE (f[i - 1] + (s[i] % B) * Group(i - 1)) % W]
           sum == CHOOSE f : Eqn(f)
<1>1. Decoded(s) = sum[n]
  BY DEF Decoded
<1>2. n \in Nat /\ n >= 1 /\ v < Group(n)
  BY GroupsEnough DEF IsVarint
<1>3. v \in Nat /\ v < W /\ W \in Nat
  BY ValuesFacts
<1>4. \A i \in 1 .. n : s[i] = ((v \div Group(i - 1)) % B) + (IF i < n THEN B ELSE 0)
  BY DEF IsVarint
<1> HIDE DEF n, W
<1>5. g[0] = 0
  <2>1. v = 1 * v + 0
    BY <1>3
  <2>2. 0 = v % 1
    BY <1>3, <2>1, DivModUnique
  <2>3. Group(0) = 1
    BY GroupFacts
  <2> QED
    BY <1>2, <2>2, <2>3
<1>6. ASSUME NEW i \in 1 .. n PROVE g[i] = (g[i - 1] + (s[i] % B) * Group(i - 1)) % W
  <2>1. i - 1 \in Nat /\ (i - 1) + 1 = i /\ i \in 0 .. n /\ i - 1 \in 0 .. n /\ i \in Nat
    BY <1>2
  <2>2. PICK u, x : u = Group(i - 1) /\ x = (v \div u) % B
    OBVIOUS
  <2>3. u \in Nat \ {0} /\ Group(i) = u * B /\ Group(i) \in Nat \ {0}
    BY <2>1, <2>2, GroupFacts
  <2>4. x \in Nat /\ x < B
    BY <1>3, <2>1, <2>2, PlacesNat
  <2>5. B \in Nat \ {0}
    BY <2>4, GroupFacts
  <2>6. s[i] % B = x
    <3>1. s[i] = x + B \/ s[i] = x
      BY <1>4, <2>2, <2>4
    <3>2. x % B = x
      BY <2>4, <2>5, ModSmall
    <3>3. (x + B) % B = x
      <4>1. PICK y : y = x + B
        OBVIOUS
      <4>2. y \in Int /\ y = B * 1 + x
        BY <2>4, <2>5, <4>1
      <4>3. x = y % B
        BY <2>4, <2>5, <4>2, DivModUnique
      <4> QED
        BY <4>1, <4>3
    <3> QED
      BY <3>1, <3>2, <3>3
  <2>7. v % (u * B) = (v % u) + x * u
    BY <1>3, <2>2, <2>3, <2>5, Digit
  <2>8. v % Group(i) \in Nat /\ v % Group(i) < W
    BY <1>3, <2>3, ModNat
  <2>9. (v % Group(i)) % W = v % Group(i)
    BY <1>3, <2>8, ModSmall
  <2>10. g[i] = v % Group(i) /\ g[i - 1] = v % u
    BY <2>1, <2>2
  <2> QED
    BY <2>2, <2>3, <2>6, <2>7, <2>9, <2>10
<1>7. g[n] = v
  <2>1. Group(n) \in Nat
    BY <1>2, GroupFacts
  <2> QED
    BY <1>2, <1>3, <2>1, ModSmall
<1>8. g = [i \in 0 .. n |-> g[i]]
  OBVIOUS
<1> HIDE DEF g
<1>9. Eqn(g)
  BY <1>5, <1>6, <1>8 DEF n
<1>10. Eqn(sum)
  <2> HIDE DEF Eqn
  <2> QED
    BY <1>9
<1> HIDE DEF sum
<1>11. sum[0] = 0 /\ \A i \in 1 .. n : sum[i] = (sum[i - 1] + (s[i] % B) * Group(i - 1)) % W
  <2>1. 0 \in 0 .. n /\ \A i \in 1 .. n : i \in 0 .. n /\ i # 0
    BY <1>2
  <2> QED
    BY <1>10, <2>1 DEF n
<1> HIDE DEF Eqn
<1> DEFINE T == {i \in Nat : sum[i] = g[i]}
<1>12. 0 \in T /\ T \in SUBSET Nat
  BY <1>5, <1>11
<1>13. ASSUME NEW i \in 0 .. n - 1, i \in T PROVE i + 1 \in T
  <2>1. i + 1 \in 1 .. n /\ (i + 1) - 1 = i /\ i + 1 \in Nat
    BY <1>2
  <2>2. sum[i] = g[i]
    BY <1>13
  <2>3. sum[i + 1] = (g[i] + (s[i + 1] % B) * Group(i)) % W
    BY <1>11, <2>1, <2>2
  <2>4. g[i + 1] = (g[i] + (s[i + 1] % B) * Group(i)) % W
    BY <1>6, <2>1
  <2> QED
    BY <2>1, <2>3, <2>4
<1> HIDE DEF T
<1>14. \A i \in 0 .. n : i \in T
  BY <1>2, <1>12, <1>13, UpTo
<1>15. n \in T
  BY <1>2, <1>14
<1> QED
  BY <1>1, <1>7, <1>15 DEF T

(* Only its last byte ends a varint.                                      *)
LEMMA LastEnds ==
  ASSUME NEW v \in Nat, NEW s, IsVarint(s, v), NEW i \in 1 .. Len(s)
  PROVE  s[i] \in Nat /\ (s[i] < B <=> i = Len(s))
<1>1. Len(s) \in Nat /\ i \in Nat \ {0} /\ i - 1 \in Nat /\ i <= Len(s)
  BY DEF IsVarint
<1>2. PICK x : x = (v \div Group(i - 1)) % B
  OBVIOUS
<1>3. x \in Nat /\ x < B
  BY <1>1, <1>2, PlacesNat
<1>4. B \in Nat
  BY GroupFacts
<1>5. s[i] = x + (IF i < Len(s) THEN B ELSE 0)
  BY <1>2 DEF IsVarint
<1> QED
  BY ONLY <1>1, <1>3, <1>4, <1>5

(* A varint is read as its value, whatever follows.                       *)
LEMMA VarintRead ==
  ASSUME NEW v \in Values, NEW s, IsVarint(s, v), NEW rest \in Seq(Byte)
  PROVE  GetVarint(s \o rest) = [ok |-> TRUE, value |-> v, input |-> rest]
<1>1. s \in Seq(Byte) /\ Len(s) \in 1 .. Groups /\ Groups \in Nat /\ v \in Nat /\ Len(s) \in Nat
  BY GroupsEnough DEF IsVarint
<1>2. PICK u, n : u = s \o rest /\ n = Len(s)
  OBVIOUS
<1>3. /\ u \in Seq(Byte) /\ Len(u) = n + Len(rest) /\ Len(rest) \in Nat
      /\ SubSeq(u, 1, n) = s /\ Skip(u, n) = rest
      /\ \A i \in 1 .. n : u[i] = s[i]
  BY <1>1, <1>2, Parted
<1>4. PICK m : m = Min({Groups, Len(u)})
  OBVIOUS
<1>5. m \in Nat /\ n \in 1 .. m
  <2>1. m = IF Groups <= Len(u) THEN Groups ELSE Len(u)
    BY <1>1, <1>3, <1>4, MinOfTwo
  <2> QED
    BY <1>1, <1>2, <1>3, <2>1
<1>6. Ends(u) = {i \in 1 .. m : u[i] < B}
  BY <1>4 DEF Ends
<1>7. n \in Ends(u)
  BY <1>1, <1>2, <1>3, <1>5, <1>6, LastEnds
<1>8. ASSUME NEW i \in Ends(u) PROVE n <= i
  <2>1. i \in 1 .. m /\ u[i] < B
    BY <1>6
  <2> SUFFICES ASSUME i < n PROVE FALSE
    BY <1>5, <2>1
  <2>2. i \in 1 .. n
    BY <1>5, <2>1
  <2>3. s[i] < B
    BY <1>3, <2>1, <2>2
  <2> QED
    BY <1>1, <1>2, <2>2, <2>3, LastEnds
<1>9. Min(Ends(u)) = n
  <2>1. Ends(u) \in SUBSET Int
    BY <1>6
  <2> QED
    BY <1>7, <1>8, <2>1, MinIs
<1>10. Decoded(s) = v
  BY VarintDecoded
<1> QED
  BY <1>2, <1>3, <1>7, <1>9, <1>10 DEF GetVarint

(* A varint that is cut off is not read.                                  *)
LEMMA VarintCut ==
  ASSUME NEW v \in Values, NEW s, IsVarint(s, v), NEW n \in 0 .. Len(s) - 1
  PROVE  GetVarint(SubSeq(s, 1, n)) = Failed(SubSeq(s, 1, n))
<1>1. s \in Seq(Byte) /\ Len(s) \in 1 .. Groups /\ Groups \in Nat /\ v \in Nat /\ Len(s) \in Nat
  BY GroupsEnough DEF IsVarint
<1>2. PICK u : u = SubSeq(s, 1, n)
  OBVIOUS
<1>3. n \in Nat /\ u \in Seq(Byte) /\ Len(u) = n /\ \A i \in 1 .. n : u[i] = s[i] /\ i \in 1 .. Len(s) /\ i # Len(s)
  BY <1>1, <1>2
<1>4. Min({Groups, n}) = n
  BY <1>1, <1>3, MinOfTwo
<1>5. Ends(u) = {i \in 1 .. n : u[i] < B}
  BY <1>3, <1>4 DEF Ends
<1>6. Ends(u) = {}
  BY <1>1, <1>3, <1>5, LastEnds
<1> QED
  BY <1>2, <1>6 DEF GetVarint

(* It is as long as VarintLength says.                                    *)
LEMMA VarintLengths ==
  ASSUME NEW v \in Values
  PROVE  VarintLength(v) = Len(EncodeVarint32(v))
<1> DEFINE Eqn(f) == f = [w \in Values |-> IF w >= B THEN 1 + f[w \div B] ELSE 1]
           len == CHOOSE f : Eqn(f)
           g == [w \in Values |-> Len(EncodeVarint32(w))]
<1>1. VarintLength(v) = len[v]
  BY DEF VarintLength
<1>2. \A w \in Values : g[w] = IF w >= B THEN 1 + g[w \div B] ELSE 1
  <2> SUFFICES ASSUME NEW w \in Values
               PROVE  g[w] = IF w >= B THEN 1 + g[w \div B] ELSE 1
    OBVIOUS
  <2>1. PICK s : s = EncodeVarint32(w)
    OBVIOUS
  <2>2. IsVarint(s, w) /\ w \in Nat
    BY <2>1, Varint32, ValuesFacts
  <2>3. CASE w >= B
    <3>1. w \div B \in Values
      BY <2>3, Shrinks
    <3>2. PICK t : t = EncodeVarint32(w \div B)
      OBVIOUS
    <3>3. IsVarint(t, w \div B)
      BY <3>1, <3>2, Varint32
    <3>4. IsVarint(<<(w % B) + B>> \o t, w)
      BY <2>3, <3>3, NextGroup
    <3>5. s = <<(w % B) + B>> \o t
      BY <2>2, <3>4, OneVarint
    <3>6. t \in Seq(Byte) /\ (w % B) + B \in Byte
      <4>1. w % B \in Nat /\ w % B < B
        BY <2>2, GroupFacts, ModNat
      <4> QED
        BY <3>3, <4>1, ByteFacts DEF IsVarint
    <3>7. Len(s) = 1 + Len(t)
      BY <3>5, <3>6
    <3> QED
      BY <2>1, <2>3, <3>1, <3>2, <3>7
  <2>4. CASE ~(w >= B)
    <3>1. IsVarint(<<w>>, w)
      BY <2>2, <2>4, LastGroup, GroupFacts
    <3>2. s = <<w>>
      BY <2>2, <3>1, OneVarint
    <3>3. Len(s) = 1
      BY <3>2
    <3> QED
      BY <2>1, <2>4, <3>3
  <2> QED
    BY <2>3, <2>4
<1>3. g[v] = Len(EncodeVarint32(v))
  OBVIOUS
<1>4. g = [w \in Values |-> g[w]]
  OBVIOUS
<1> HIDE DEF g
<1>5. Eqn(g)
  BY <1>2, <1>4
<1>6. Eqn(len)
  <2> HIDE DEF Eqn
  <2> QED
    BY <1>5
<1> HIDE DEF len
<1>7. \A w \in Values : len[w] = IF w >= B THEN 1 + len[w \div B] ELSE 1
  BY <1>6
<1> HIDE DEF Eqn
<1> DEFINE Bad == {w \in Values : len[w] # g[w]}
<1>8. Bad = {}
  <2> SUFFICES ASSUME Bad # {} PROVE FALSE
    OBVIOUS
  <2>1. PICK w \in Bad : \A x \in Bad : w <= x
    <3>1. Bad \in SUBSET Nat
      BY ValuesFacts
    <3> HIDE DEF Bad
    <3> QED
      BY <3>1, Least
  <2>2. w \in Values /\ len[w] # g[w]
    OBVIOUS
  <2>3. CASE w >= B
    <3>1. w \div B \in Values /\ w \div B < w /\ w \in Nat /\ w \div B \in Nat
      BY <2>2, <2>3, Shrinks
    <3>2. len[w \div B] = g[w \div B]
      BY <2>1, <3>1
    <3> QED
      BY <1>2, <1>7, <2>2, <2>3, <3>2
  <2>4. CASE ~(w >= B)
    BY <1>2, <1>7, <2>2, <2>4
  <2> QED
    BY <2>3, <2>4
<1> QED
  BY <1>1, <1>3, <1>8

-----------------------------------------------------------------------------
(* Sequences one after the other *)

(* g[i] is what the first i sequences of seqs are, one after the other.   *)
Joins(g, seqs, S) ==
  /\ g \in [0 .. Len(seqs) -> Seq(S)] /\ g[0] = <<>>
  /\ \A i \in 1 .. Len(seqs) : g[i] = g[i - 1] \o seqs[i]

(* Sequences can be joined one after the other.                           *)
LEMMA Joinable ==
  ASSUME NEW S, NEW seqs \in Seq(Seq(S))
  PROVE  \E g : Joins(g, seqs, S)
<1> DEFINE n == Len(seqs)
           G == [p \in (1 .. n) \X Seq(S) |-> p[2] \o seqs[p[1]]]
<1>1. n \in Nat /\ \A i \in 1 .. n : seqs[i] \in Seq(S)
  OBVIOUS
<1> HIDE DEF n
<1>2. G \in [(1 .. n) \X Seq(S) -> Seq(S)]
  <2>1. ASSUME NEW p \in (1 .. n) \X Seq(S) PROVE p[2] \o seqs[p[1]] \in Seq(S)
    <3>1. p[2] \in Seq(S) /\ seqs[p[1]] \in Seq(S)
      BY <1>1
    <3> QED
      BY <3>1, ConcatProperties
  <2> QED
    BY <2>1
<1>3. \A i \in 1 .. n, x \in Seq(S) : G[<<i, x>>] = x \o seqs[i]
  OBVIOUS
<1> HIDE DEF G
<1>4. PICK T, a : T = Seq(S) /\ a = <<>>
  OBVIOUS
<1>5. a \in T /\ G \in [(1 .. n) \X T -> T]
  BY <1>2, <1>4
<1>6. PICK f \in [0 .. n -> T] : Iterates(f, a, n, G)
  BY <1>1, <1>5, Turns
<1>7. \A i \in 1 .. n : f[i] = f[i - 1] \o seqs[i]
  <2>1. ASSUME NEW i \in 1 .. n PROVE f[i] = f[i - 1] \o seqs[i]
    <3>1. f[i - 1] \in Seq(S)
      <4>1. i - 1 \in 0 .. n
        BY <1>1
      <4> QED
        BY <1>4, <4>1
    <3>2. f[i] = G[<<i, f[i - 1]>>]
      BY <1>6 DEF Iterates
    <3> QED
      BY <1>3, <3>1, <3>2
  <2> QED
    BY <2>1
<1> QED
  BY <1>4, <1>6, <1>7 DEF Joins, Iterates, n

(* FlattenSeq joins them all.                                             *)
LEMMA JoinedAll ==
  ASSUME NEW S, NEW seqs \in Seq(Seq(S)), NEW g, Joins(g, seqs, S)
  PROVE  FlattenSeq(seqs) = g[Len(seqs)]
<1> DEFINE n == Len(seqs)
           Eqn(f) == f = [i \in 1 .. n |-> IF i = 1 THEN seqs[i] ELSE f[i - 1] \o seqs[i]]
           f == CHOOSE f : Eqn(f)
           h == [i \in 1 .. n |-> g[i]]
<1>1. n \in Nat
  OBVIOUS
<1>2. CASE n = 0
  <2>1. FlattenSeq(seqs) = seqs
    BY <1>2 DEF FlattenSeq
  <2>2. seqs = <<>>
    BY <1>2
  <2> QED
    BY <1>2, <2>1, <2>2 DEF Joins
<1>3. CASE n # 0
  <2>1. FlattenSeq(seqs) = f[n]
    BY <1>3 DEF FlattenSeq
  <2>2. \A i \in 1 .. n : seqs[i] \in Seq(S)
    OBVIOUS
  <2> HIDE DEF n
  <2>3. ASSUME NEW i \in 1 .. n
        PROVE  h[i] = IF i = 1 THEN seqs[i] ELSE h[i - 1] \o seqs[i]
    <3>1. g[i] = g[i - 1] \o seqs[i] /\ h[i] = g[i]
      BY DEF Joins, n
    <3>2. CASE i = 1
      <4>1. g[i - 1] = <<>>
        BY <3>2 DEF Joins
      <4>2. <<>> \o seqs[i] = seqs[i]
        BY <2>2, ConcatEmptySeq
      <4> QED
        BY <3>1, <3>2, <4>1, <4>2
    <3>3. CASE i # 1
      <4>1. i - 1 \in 1 .. n
        BY <1>1, <3>3
      <4> QED
        BY <3>1, <3>3, <4>1
    <3> QED
      BY <3>2, <3>3
  <2>4. h[n] = g[n] /\ h = [i \in 1 .. n |-> h[i]]
    BY <1>1, <1>3
  <2> HIDE DEF h
  <2>5. Eqn(h)
    BY <2>3, <2>4
  <2>6. Eqn(f)
    <3> HIDE DEF Eqn
    <3> QED
      BY <2>5
  <2> HIDE DEF f
  <2>7. \A i \in 1 .. n : f[i] = IF i = 1 THEN seqs[i] ELSE f[i - 1] \o seqs[i]
    BY <2>6
  <2> HIDE DEF Eqn
  <2> DEFINE T == {i \in Nat : i \in 1 .. n => f[i] = h[i]}
  <2>8. 0 \in T /\ T \in SUBSET Nat
    OBVIOUS
  <2>9. ASSUME NEW i \in 0 .. n - 1, i \in T PROVE i + 1 \in T
    <3>1. i \in Nat /\ i + 1 \in 1 .. n /\ (i + 1) - 1 = i /\ i + 1 \in Nat
      BY <1>1
    <3>2. i # 0 => i \in 1 .. n /\ i + 1 # 1
      BY <1>1
    <3>3. i = 0 => i + 1 = 1
      OBVIOUS
    <3>4. CASE i = 0
      BY <2>3, <2>7, <3>1, <3>3, <3>4
    <3>5. CASE i # 0
      <4>1. f[i] = h[i]
        BY <2>9, <3>2, <3>5
      <4>2. f[i + 1] = f[i] \o seqs[i + 1]
        BY <2>7, <3>1, <3>2, <3>5
      <4>3. h[i + 1] = h[i] \o seqs[i + 1]
        BY <2>3, <3>1, <3>2, <3>5
      <4> QED
        BY <3>1, <4>1, <4>2, <4>3
    <3> QED
      BY <3>4, <3>5
  <2> HIDE DEF T
  <2>10. \A i \in 0 .. n : i \in T
    BY <1>1, <2>8, <2>9, UpTo
  <2>11. n \in T /\ n \in 1 .. n
    BY <1>1, <1>3, <2>10
  <2>12. f[n] = h[n]
    BY <2>11 DEF T
  <2> QED
    BY <2>1, <2>4, <2>12 DEF n
<1> QED
  BY <1>2, <1>3

(* FlattenSeq of the first of them is what is joined so far.              *)
LEMMA JoinedFirst ==
  ASSUME NEW S, NEW seqs \in Seq(Seq(S)), NEW g, Joins(g, seqs, S), NEW n \in 0 .. Len(seqs)
  PROVE  FlattenSeq(SubSeq(seqs, 1, n)) = g[n]
<1>1. PICK s, h : s = SubSeq(seqs, 1, n) /\ h = [i \in 0 .. n |-> g[i]]
  OBVIOUS
<1>2. n \in Nat /\ s \in Seq(Seq(S)) /\ Len(s) = n /\ \A i \in 1 .. n : s[i] = seqs[i]
  BY <1>1
<1>3. \A i \in 0 .. n : i \in 0 .. Len(seqs) /\ h[i] = g[i]
  BY <1>1
<1>4. h \in [0 .. n -> Seq(S)]
  <2>1. \A i \in 0 .. n : g[i] \in Seq(S)
    BY <1>3 DEF Joins
  <2> QED
    BY <1>1, <2>1
<1>5. ASSUME NEW i \in 1 .. n PROVE h[i] = h[i - 1] \o s[i]
  <2>1. i \in 1 .. Len(seqs) /\ i \in 0 .. n /\ i - 1 \in 0 .. n
    BY <1>2
  <2> QED
    BY <1>2, <1>3, <2>1 DEF Joins
<1>6. h[0] = <<>>
  BY <1>2, <1>3 DEF Joins
<1>7. Joins(h, s, S)
  BY <1>2, <1>4, <1>5, <1>6 DEF Joins
<1>8. FlattenSeq(s) = h[n]
  BY <1>2, <1>7, JoinedAll
<1>9. n \in 0 .. n
  BY <1>2
<1> QED
  BY <1>1, <1>3, <1>8, <1>9

(* FlattenSeq of sequences over S is a sequence over S.                   *)
LEMMA FlattenTyped ==
  ASSUME NEW S, NEW seqs \in Seq(Seq(S))
  PROVE  FlattenSeq(seqs) \in Seq(S)
<1>1. PICK g : Joins(g, seqs, S)
  BY Joinable
<1>2. Len(seqs) \in 0 .. Len(seqs)
  OBVIOUS
<1>3. g[Len(seqs)] \in Seq(S)
  BY <1>1, <1>2 DEF Joins
<1>4. FlattenSeq(seqs) = g[Len(seqs)]
  BY <1>1, JoinedAll
<1> QED
  BY <1>3, <1>4

(* What follows is joined behind it.                                      *)
LEMMA FlattenConcat ==
  ASSUME NEW S, NEW s \in Seq(Seq(S)), NEW t \in Seq(Seq(S))
  PROVE  FlattenSeq(s \o t) = FlattenSeq(s) \o FlattenSeq(t)
<1>1. PICK g : Joins(g, s, S)
  BY Joinable
<1>2. PICK h : Joins(h, t, S)
  BY Joinable
<1>3. PICK m, n, u : m = Len(s) /\ n = Len(t) /\ u = s \o t
  OBVIOUS
<1>4. /\ m \in Nat /\ n \in Nat /\ u \in Seq(Seq(S)) /\ Len(u) = m + n
      /\ \A i \in 1 .. m : u[i] = s[i] /\ s[i] \in Seq(S)
      /\ \A i \in 1 .. n : u[m + i] = t[i] /\ t[i] \in Seq(S)
  <2>1. m \in Nat /\ n \in Nat /\ u \in Seq(Seq(S)) /\ Len(u) = m + n
    BY <1>3, ConcatProperties
  <2>2. \A i \in 1 .. m + n : u[i] = IF i <= m THEN s[i] ELSE t[i - m]
    BY <1>3, ConcatProperties
  <2>3. ASSUME NEW i \in 1 .. n PROVE u[m + i] = t[i] /\ t[i] \in Seq(S)
    <3>1. m + i \in 1 .. m + n /\ ~(m + i <= m) /\ (m + i) - m = i
      BY <2>1
    <3> QED
      BY <1>3, <2>2, <3>1
  <2>4. ASSUME NEW i \in 1 .. m PROVE u[i] = s[i] /\ s[i] \in Seq(S)
    BY <1>3, <2>1, <2>2
  <2> QED
    BY <2>1, <2>3, <2>4
<1>5. /\ \A i \in 0 .. m : g[i] \in Seq(S)
      /\ \A i \in 0 .. n : h[i] \in Seq(S)
      /\ g[0] = <<>> /\ h[0] = <<>>
      /\ \A i \in 1 .. m : g[i] = g[i - 1] \o s[i]
      /\ \A i \in 1 .. n : h[i] = h[i - 1] \o t[i]
  BY <1>1, <1>2, <1>3 DEF Joins
<1>6. PICK f : f = [i \in 0 .. m + n |-> IF i <= m THEN g[i] ELSE g[m] \o h[i - m]]
  OBVIOUS
<1>7. g[m] \in Seq(S) /\ h[n] \in Seq(S)
  BY <1>4, <1>5
<1>8. \A i \in 0 .. m : f[i] = g[i]
  BY <1>4, <1>6
<1>9. ASSUME NEW i \in 0 .. n PROVE f[m + i] = g[m] \o h[i]
  <2>1. CASE i = 0
    <3>1. f[m + i] = g[m]
      BY <1>4, <1>6, <2>1
    <3> QED
      BY <1>5, <1>7, <2>1, <3>1, ConcatEmptySeq
  <2>2. CASE i # 0
    <3>1. m + i \in 0 .. m + n /\ ~(m + i <= m) /\ (m + i) - m = i
      BY <1>4, <2>2
    <3> QED
      BY <1>6, <3>1
  <2> QED
    BY <2>1, <2>2
<1>10. f \in [0 .. m + n -> Seq(S)]
  <2>1. ASSUME NEW i \in 0 .. m + n, ~(i <= m) PROVE g[m] \o h[i - m] \in Seq(S)
    <3>1. i - m \in 0 .. n
      BY <1>4, <2>1
    <3>2. h[i - m] \in Seq(S)
      BY <1>5, <3>1
    <3> QED
      BY <1>7, <3>2, ConcatProperties
  <2>2. ASSUME NEW i \in 0 .. m + n, i <= m PROVE g[i] \in Seq(S)
    BY <1>4, <1>5, <2>2
  <2> QED
    BY <1>6, <2>1, <2>2
<1>11. ASSUME NEW i \in 1 .. m + n PROVE f[i] = f[i - 1] \o u[i]
  <2>1. CASE i <= m
    <3>1. i \in 1 .. m /\ i \in 0 .. m /\ i - 1 \in 0 .. m
      BY <1>4, <2>1
    <3> QED
      BY <1>4, <1>5, <1>8, <3>1
  <2>2. CASE ~(i <= m)
    <3>1. PICK j : j = i - m
      OBVIOUS
    <3>2. j \in 1 .. n /\ j \in 0 .. n /\ j - 1 \in 0 .. n /\ m + j = i /\ m + (j - 1) = i - 1
      BY <1>4, <2>2, <3>1
    <3>3. f[i] = g[m] \o h[j] /\ f[i - 1] = g[m] \o h[j - 1]
      BY <1>9, <3>2
    <3>4. h[j] = h[j - 1] \o t[j] /\ u[i] = t[j] /\ t[j] \in Seq(S) /\ h[j - 1] \in Seq(S)
      BY <1>4, <1>5, <3>2
    <3>5. g[m] \o (h[j - 1] \o t[j]) = (g[m] \o h[j - 1]) \o t[j]
      <4>1. PICK a, b, c : a = g[m] /\ b = h[j - 1] /\ c = t[j]
        OBVIOUS
      <4>2. a \in Seq(S) /\ b \in Seq(S) /\ c \in Seq(S)
        BY <1>7, <3>4, <4>1
      <4>3. Associate(a, b, c)
        BY <4>2, Associates
      <4> QED
        BY <4>1, <4>3 DEF Associate
    <3> QED
      BY <3>3, <3>4, <3>5
  <2> QED
    BY <2>1, <2>2
<1>12. f[0] = <<>>
  BY <1>4, <1>5, <1>8
<1>13. Joins(f, u, S)
  BY <1>4, <1>10, <1>11, <1>12 DEF Joins
<1>14. FlattenSeq(u) = f[m + n]
  BY <1>4, <1>13, JoinedAll
<1>15. f[m + n] = g[m] \o h[n]
  <2>1. n \in 0 .. n
    BY <1>4
  <2> QED
    BY <1>9, <2>1
<1>16. FlattenSeq(s) = g[m] /\ FlattenSeq(t) = h[n]
  BY <1>1, <1>2, <1>3, JoinedAll
<1> QED
  BY <1>3, <1>14, <1>15, <1>16

(* FlattenSeq of a single sequence is that sequence.                      *)
LEMMA FlattenOne ==
  ASSUME NEW S, NEW x \in Seq(S)
  PROVE  FlattenSeq(<<x>>) = x
<1>1. PICK s : s = <<x>>
  OBVIOUS
<1>2. s \in Seq(Seq(S)) /\ Len(s) = 1 /\ s[1] = x
  BY <1>1
<1>3. PICK g : Joins(g, s, S)
  BY <1>2, Joinable
<1>4. FlattenSeq(s) = g[1]
  BY <1>2, <1>3, JoinedAll
<1>5. g[1] = g[1 - 1] \o s[1] /\ g[1 - 1] = <<>>
  BY <1>2, <1>3 DEF Joins
<1> QED
  BY <1>1, <1>2, <1>4, <1>5, ConcatEmptySeq

-----------------------------------------------------------------------------
(* What is put is what is got: slices *)

(* A slice with its length in front of it.                                *)
Prefixed(x) == EncodeVarint32(Len(x)) \o x
Pieces(slices) == [i \in DOMAIN slices |-> Prefixed(slices[i])]

(* A slice, its length as a varint, and both.                             *)
LEMMA SliceFacts ==
  ASSUME NEW x \in Slice
  PROVE  /\ x \in Seq(Byte) /\ Len(x) \in Values /\ Len(x) \in Nat
         /\ IsVarint(EncodeVarint32(Len(x)), Len(x))
         /\ EncodeVarint32(Len(x)) \in Seq(Byte) /\ Len(EncodeVarint32(Len(x))) \in Nat \ {0}
         /\ Prefixed(x) \in Seq(Byte)
         /\ Len(Prefixed(x)) = Len(EncodeVarint32(Len(x))) + Len(x)
         /\ Len(Prefixed(x)) \in Nat \ {0}
<1>1. x \in Seq(Byte) /\ Len(x) \in Values /\ Len(x) \in Nat
  BY DEF Slice
<1>2. PICK e : e = EncodeVarint32(Len(x))
  OBVIOUS
<1>3. IsVarint(e, Len(x))
  BY <1>1, <1>2, Varint32
<1>4. e \in Seq(Byte) /\ Len(e) \in Nat \ {0}
  BY <1>3, GroupsEnough DEF IsVarint
<1>5. PICK p : p = e \o x
  OBVIOUS
<1>6. p \in Seq(Byte) /\ Len(p) = Len(e) + Len(x)
  BY <1>1, <1>4, <1>5, ConcatProperties
<1>7. Len(p) \in Nat \ {0}
  BY <1>1, <1>4, <1>6
<1> QED
  BY <1>1, <1>2, <1>3, <1>4, <1>5, <1>6, <1>7 DEF Prefixed

(* The prefixed slices of a stream, which Varstrings joins.               *)
LEMMA PiecesFacts ==
  ASSUME NEW slices \in Seq(Slice)
  PROVE  /\ Pieces(slices) \in Seq(Seq(Byte)) /\ Len(Pieces(slices)) = Len(slices)
         /\ \A i \in 1 .. Len(slices) : Pieces(slices)[i] = Prefixed(slices[i])
         /\ Varstrings(slices) = FlattenSeq(Pieces(slices))
<1>1. \A i \in 1 .. Len(slices) : slices[i] \in Slice
  OBVIOUS
<1>2. \A i \in 1 .. Len(slices) : Prefixed(slices[i]) \in Seq(Byte)
  BY <1>1, SliceFacts
<1>3. Pieces(slices) = [i \in 1 .. Len(slices) |-> Prefixed(slices[i])] /\ Len(slices) \in Nat
  BY DEF Pieces
<1>4. Pieces(slices) \in Seq(Seq(Byte))
  BY <1>2, <1>3
<1>5. Varstrings(slices) = FlattenSeq(Pieces(slices))
  BY DEF Varstrings, Pieces, Prefixed
<1> QED
  BY <1>3, <1>4, <1>5

(* Slices are put one after the other.                                    *)
LEMMA PutIsVarstrings ==
  ASSUME NEW dst \in Seq(Byte), NEW slices \in Seq(Slice)
  PROVE  PutSlices(dst, slices) = dst \o Varstrings(slices)
<1> DEFINE n == Len(slices)
           Eqn(f) == f = [i \in 0 .. n |->
                            IF i = 0 THEN dst ELSE PutLengthPrefixedSlice(f[i - 1], slices[i])]
           put == CHOOSE f : Eqn(f)
<1>1. PutSlices(dst, slices) = put[n]
  BY DEF PutSlices
<1>2. PICK g : Joins(g, Pieces(slices), Byte)
  BY PiecesFacts, Joinable
<1>3. /\ n \in Nat
      /\ \A i \in 1 .. n : slices[i] \in Slice
      /\ \A i \in 0 .. n : g[i] \in Seq(Byte)
      /\ g[0] = <<>> /\ \A i \in 1 .. n : g[i] = g[i - 1] \o Prefixed(slices[i])
      /\ Varstrings(slices) = g[n]
  <2>1. n \in Nat /\ \A i \in 1 .. n : slices[i] \in Slice
    OBVIOUS
  <2>2. Varstrings(slices) = g[n]
    BY <1>2, PiecesFacts, JoinedAll
  <2>3. \A i \in 1 .. n : Pieces(slices)[i] = Prefixed(slices[i])
    BY PiecesFacts
  <2>4. Len(Pieces(slices)) = n
    BY PiecesFacts
  <2>5. /\ \A i \in 0 .. n : g[i] \in Seq(Byte)
        /\ g[0] = <<>> /\ \A i \in 1 .. n : g[i] = g[i - 1] \o Pieces(slices)[i]
    BY <1>2, <2>4 DEF Joins
  <2> QED
    BY <2>1, <2>2, <2>3, <2>5
<1> DEFINE h == [i \in 0 .. n |-> dst \o g[i]]
<1>4. \A i \in 0 .. n : h[i] = dst \o g[i]
  OBVIOUS
<1>5. h = [i \in 0 .. n |-> h[i]]
  OBVIOUS
<1> HIDE DEF h, n
<1>6. h[0] = dst
  <2>1. 0 \in 0 .. n
    BY <1>3
  <2> QED
    BY <1>3, <1>4, <2>1, ConcatEmptySeq
<1>7. ASSUME NEW i \in 1 .. n PROVE h[i] = PutLengthPrefixedSlice(h[i - 1], slices[i])
  <2>1. i \in 0 .. n /\ i - 1 \in 0 .. n
    BY <1>3
  <2>2. PICK a, e, x : a = g[i - 1] /\ x = slices[i] /\ e = EncodeVarint32(Len(x))
    OBVIOUS
  <2>3. a \in Seq(Byte) /\ x \in Seq(Byte) /\ e \in Seq(Byte)
    BY <1>3, <2>1, <2>2, SliceFacts
  <2>4. h[i] = dst \o (a \o (e \o x)) /\ h[i - 1] = dst \o a
    BY <1>3, <1>4, <2>1, <2>2 DEF Prefixed
  <2>5. e \o x \in Seq(Byte) /\ dst \o a \in Seq(Byte)
    BY <2>3, ConcatProperties
  <2>6. Associate(dst, a, e \o x) /\ Associate(dst \o a, e, x)
    BY <2>3, <2>5, Associates
  <2>7. h[i] = (h[i - 1] \o e) \o x
    BY <2>4, <2>6 DEF Associate
  <2> QED
    BY <2>2, <2>7 DEF PutLengthPrefixedSlice
<1>8. Eqn(h)
  <2>1. \A i \in 0 .. n : h[i] = IF i = 0 THEN dst ELSE PutLengthPrefixedSlice(h[i - 1], slices[i])
    <3>1. \A i \in 0 .. n : i = 0 \/ i \in 1 .. n
      BY <1>3
    <3> QED
      BY <1>6, <1>7, <3>1
  <2> QED
    BY <1>5, <2>1
<1>9. Eqn(put)
  <2> HIDE DEF Eqn
  <2> QED
    BY <1>8
<1> HIDE DEF put
<1>10. put[0] = dst /\ \A i \in 1 .. n : put[i] = PutLengthPrefixedSlice(put[i - 1], slices[i])
  <2>1. 0 \in 0 .. n /\ \A i \in 1 .. n : i \in 0 .. n /\ i # 0
    BY <1>3
  <2> QED
    BY <1>9, <2>1
<1> HIDE DEF Eqn
<1> DEFINE T == {i \in Nat : put[i] = h[i]}
<1>11. 0 \in T /\ T \in SUBSET Nat
  BY <1>6, <1>10
<1>12. ASSUME NEW i \in 0 .. n - 1, i \in T PROVE i + 1 \in T
  <2>1. i + 1 \in 1 .. n /\ (i + 1) - 1 = i /\ i + 1 \in Nat
    BY <1>3
  <2>2. put[i] = h[i]
    BY <1>12
  <2>3. put[i + 1] = PutLengthPrefixedSlice(h[i], slices[i + 1])
    BY <1>10, <2>1, <2>2
  <2>4. h[i + 1] = PutLengthPrefixedSlice(h[i], slices[i + 1])
    BY <1>7, <2>1
  <2> QED
    BY <2>1, <2>3, <2>4
<1> HIDE DEF T
<1>13. \A i \in 0 .. n : i \in T
  BY <1>3, <1>11, <1>12, UpTo
<1>14. n \in T /\ n \in 0 .. n
  BY <1>3, <1>13
<1> QED
  BY <1>1, <1>3, <1>4, <1>14 DEF T

(* What GetLengthPrefixedSlice finds at the front of its input.           *)
LEMMA SliceRead ==
  ASSUME NEW x \in Slice, NEW rest \in Seq(Byte)
  PROVE  GetLengthPrefixedSlice(Prefixed(x) \o rest)
           = [ok |-> TRUE, value |-> x, input |-> rest]
<1>1. PICK e, t : e = EncodeVarint32(Len(x)) /\ t = x \o rest
  OBVIOUS
<1>2. /\ x \in Seq(Byte) /\ e \in Seq(Byte) /\ Len(x) \in Values /\ Len(x) \in Nat
      /\ IsVarint(e, Len(x))
  BY <1>1, SliceFacts
<1>3. t \in Seq(Byte) /\ Len(t) = Len(x) + Len(rest) /\ SubSeq(t, 1, Len(x)) = x /\ Skip(t, Len(x)) = rest
  BY <1>1, <1>2, Parted
<1>4. Prefixed(x) \o rest = e \o t
  <2>1. Associate(e, x, rest)
    BY <1>2, Associates
  <2> QED
    BY <1>1, <2>1 DEF Associate, Prefixed
<1>5. GetVarint(e \o t) = [ok |-> TRUE, value |-> Len(x), input |-> t]
  BY <1>2, <1>3, VarintRead
<1>6. ~(Len(t) < Len(x))
  <2>1. Len(rest) \in Nat
    OBVIOUS
  <2> QED
    BY <1>2, <1>3, <2>1
<1>7. PICK input, len : input = Prefixed(x) \o rest /\ len = GetVarint(input)
  OBVIOUS
<1>8. len.ok /\ len.value = Len(x) /\ len.input = t
  BY <1>4, <1>5, <1>7
<1>9. GetLengthPrefixedSlice(input)
        = [ok |-> TRUE, value |-> SubSeq(t, 1, Len(x)), input |-> Skip(t, Len(x))]
  BY <1>6, <1>7, <1>8 DEF GetLengthPrefixedSlice
<1> QED
  BY <1>3, <1>7, <1>9

(* A prefixed slice that is cut off is not read.                          *)
LEMMA SliceCut ==
  ASSUME NEW x \in Slice, NEW r \in 0 .. Len(Prefixed(x)) - 1
  PROVE  ~GetLengthPrefixedSlice(SubSeq(Prefixed(x), 1, r)).ok
<1>1. PICK e, p, n : e = EncodeVarint32(Len(x)) /\ p = Prefixed(x) /\ n = Len(e)
  OBVIOUS
<1>2. /\ x \in Seq(Byte) /\ e \in Seq(Byte) /\ Len(x) \in Values /\ Len(x) \in Nat
      /\ IsVarint(e, Len(x)) /\ p \in Seq(Byte) /\ n \in Nat \ {0} /\ Len(p) = n + Len(x)
  BY <1>1, SliceFacts
<1>3. /\ \A i \in 1 .. n : p[i] = e[i]
      /\ \A i \in 1 .. Len(x) : p[n + i] = x[i]
  <2>1. p = e \o x
    BY <1>1 DEF Prefixed
  <2>2. \A i \in 1 .. n + Len(x) : p[i] = IF i <= n THEN e[i] ELSE x[i - n]
    BY <1>1, <1>2, <2>1, ConcatProperties
  <2>3. ASSUME NEW i \in 1 .. Len(x) PROVE p[n + i] = x[i]
    <3>1. n + i \in 1 .. n + Len(x) /\ ~(n + i <= n) /\ (n + i) - n = i
      BY <1>2
    <3> QED
      BY <2>2, <3>1
  <2>4. ASSUME NEW i \in 1 .. n PROVE p[i] = e[i]
    BY <1>2, <2>2
  <2> QED
    BY <2>3, <2>4
<1>4. PICK q : q = SubSeq(p, 1, r)
  OBVIOUS
<1>5. r \in Nat /\ r < n + Len(x) /\ q \in Seq(Byte) /\ Len(q) = r /\ \A i \in 1 .. r : q[i] = p[i]
  BY <1>1, <1>2, <1>4
<1>6. CASE r < n
  <2>1. SubSeq(e, 1, r) \in Seq(Byte) /\ Len(SubSeq(e, 1, r)) = r
        /\ \A i \in 1 .. r : SubSeq(e, 1, r)[i] = e[i]
    BY <1>1, <1>2, <1>5, <1>6
  <2>2. \A i \in 1 .. r : q[i] = e[i]
    BY <1>2, <1>3, <1>5, <1>6
  <2>3. q = SubSeq(e, 1, r)
    BY <1>5, <2>1, <2>2, SeqEqual
  <2>4. r \in 0 .. Len(e) - 1
    BY <1>1, <1>2, <1>5, <1>6
  <2>5. GetVarint(q) = Failed(q)
    BY <1>2, <2>3, <2>4, VarintCut
  <2> QED
    BY <1>1, <1>4, <2>5 DEF GetLengthPrefixedSlice, Failed
<1>7. CASE ~(r < n)
  <2>1. PICK t : t = SubSeq(x, 1, r - n)
    OBVIOUS
  <2>2. t \in Seq(Byte) /\ Len(t) = r - n /\ \A i \in 1 .. r - n : t[i] = x[i]
    BY <1>2, <1>5, <1>7, <2>1
  <2>3. q = e \o t
    <3>1. e \o t \in Seq(Byte) /\ Len(e \o t) = r
          /\ \A i \in 1 .. r : (e \o t)[i] = IF i <= n THEN e[i] ELSE t[i - n]
      <4>1. /\ e \o t \in Seq(Byte) /\ Len(e \o t) = Len(e) + Len(t)
            /\ \A i \in 1 .. Len(e) + Len(t) :
                 (e \o t)[i] = IF i <= Len(e) THEN e[i] ELSE t[i - Len(e)]
        BY <1>2, <2>2, ConcatProperties
      <4>2. Len(e) = n /\ n + Len(t) = r
        BY <1>1, <1>2, <1>5, <2>2
      <4> QED
        BY <4>1, <4>2
    <3>2. ASSUME NEW i \in 1 .. r PROVE q[i] = (e \o t)[i]
      <4>1. CASE i <= n
        <5>1. i \in 1 .. n
          BY <4>1
        <5>2. (e \o t)[i] = e[i]
          BY <3>1, <4>1
        <5> QED
          BY <1>3, <1>5, <5>1, <5>2
      <4>2. CASE ~(i <= n)
        <5>1. PICK j : j = i - n
          OBVIOUS
        <5>2. j \in 1 .. r - n /\ n + j = i /\ j \in 1 .. Len(x)
          BY <1>2, <1>5, <1>7, <4>2, <5>1
        <5>3. q[i] = x[j]
          BY <1>3, <1>5, <5>2
        <5> QED
          BY <2>2, <3>1, <4>2, <5>1, <5>2, <5>3
      <4> QED
        BY <4>1, <4>2
    <3> QED
      BY <1>5, <3>1, <3>2, SeqEqual
  <2>4. GetVarint(q) = [ok |-> TRUE, value |-> Len(x), input |-> t]
    BY <1>2, <2>2, <2>3, VarintRead
  <2>5. Len(t) < Len(x)
    BY <1>2, <1>5, <2>2
  <2> QED
    BY <1>1, <1>4, <2>4, <2>5 DEF GetLengthPrefixedSlice, Failed
<1> QED
  BY <1>6, <1>7

(* There is no slice in nothing.                                          *)
LEMMA NothingRead == ~GetLengthPrefixedSlice(<<>>).ok
<1>1. Groups \in Nat
  BY GroupsEnough
<1>2. Min({Groups, Len(<<>>)}) = 0
  BY <1>1, MinOfTwo
<1>3. Ends(<<>>) = {}
  BY <1>2 DEF Ends
<1> QED
  BY <1>3 DEF GetLengthPrefixedSlice, GetVarint, Failed

-----------------------------------------------------------------------------
(* What is put is what is got: streams *)

(* The first n slices are written up to the offset Len(g[n]).             *)
LEMMA StreamPrefix ==
  ASSUME NEW slices \in Seq(Slice), NEW g, Joins(g, Pieces(slices), Byte),
         NEW n \in 0 .. Len(slices)
  PROVE  WriteAll(SubSeq(slices, 1, n)) = g[n]
<1>1. PICK s, pieces : s = SubSeq(slices, 1, n) /\ pieces = Pieces(slices)
  OBVIOUS
<1>2. n \in Nat /\ s \in Seq(Slice) /\ Len(s) = n /\ \A i \in 1 .. n : s[i] = slices[i]
  BY <1>1
<1>3. /\ pieces \in Seq(Seq(Byte)) /\ Len(pieces) = Len(slices)
      /\ \A i \in 1 .. Len(slices) : pieces[i] = Prefixed(slices[i])
  BY <1>1, PiecesFacts
<1>4. /\ Pieces(s) \in Seq(Seq(Byte)) /\ Len(Pieces(s)) = n
      /\ \A i \in 1 .. n : Pieces(s)[i] = Prefixed(s[i])
      /\ Varstrings(s) = FlattenSeq(Pieces(s))
  BY <1>2, PiecesFacts
<1>5. Pieces(s) = SubSeq(pieces, 1, n)
  <2>1. PICK p : p = SubSeq(pieces, 1, n)
    OBVIOUS
  <2>2. p \in Seq(Seq(Byte)) /\ Len(p) = n /\ \A i \in 1 .. n : p[i] = pieces[i]
    BY <1>2, <1>3, <2>1
  <2>3. \A i \in 1 .. n : i \in 1 .. Len(slices)
    BY <1>2
  <2>4. \A i \in 1 .. n : p[i] = Pieces(s)[i]
    BY <1>2, <1>3, <1>4, <2>2, <2>3
  <2>5. p = Pieces(s)
    BY <1>4, <2>2, <2>4, SeqEqual
  <2> QED
    BY <2>1, <2>5
<1>6. FlattenSeq(SubSeq(pieces, 1, n)) = g[n]
  BY <1>1, <1>3, JoinedFirst
<1>7. WriteAll(s) = <<>> \o Varstrings(s)
  <2>1. <<>> \in Seq(Byte)
    OBVIOUS
  <2>2. PutSlices(<<>>, s) = <<>> \o Varstrings(s)
    BY <1>2, <2>1, PutIsVarstrings
  <2> QED
    BY <2>2 DEF WriteAll
<1>8. Varstrings(s) \in Seq(Byte)
  BY <1>4, FlattenTyped
<1>9. <<>> \o Varstrings(s) = Varstrings(s)
  BY <1>8, ConcatEmptySeq
<1> QED
  BY <1>1, <1>4, <1>5, <1>6, <1>7, <1>9

Behind(a, b, d) == \E t \in Seq(Byte) : b = a \o t /\ d <= Len(t)

(* What is written later stands behind it, at least a byte for a slice.   *)
LEMMA Later ==
  ASSUME NEW slices \in Seq(Slice), NEW g, Joins(g, Pieces(slices), Byte),
         NEW n \in 0 .. Len(slices), NEW d \in 0 .. Len(slices) - n
  PROVE  Behind(g[n], g[n + d], d)
<1> DEFINE N == Len(slices)
           T == {i \in Nat : \E t \in Seq(Byte) : g[n + i] = g[n] \o t /\ i <= Len(t)}
<1>1. N \in Nat /\ n \in Nat /\ n <= N
  OBVIOUS
<1>2. /\ \A i \in 0 .. N : g[i] \in Seq(Byte)
      /\ \A i \in 1 .. N : /\ g[i] = g[i - 1] \o Prefixed(slices[i])
                           /\ slices[i] \in Slice
  BY PiecesFacts DEF Joins
<1>3. g[n] \in Seq(Byte)
  BY <1>1, <1>2
<1> HIDE DEF N
<1>4. 0 \in T
  <2>1. <<>> \in Seq(Byte) /\ 0 <= Len(<<>>) /\ g[n] \o <<>> = g[n] /\ n + 0 = n
    BY <1>1, <1>3, ConcatEmptySeq
  <2> QED
    BY <2>1
<1>5. ASSUME NEW i \in 0 .. N - n - 1, i \in T PROVE i + 1 \in T
  <2>1. PICK t \in Seq(Byte) : g[n + i] = g[n] \o t /\ i <= Len(t)
    BY <1>5
  <2>2. PICK m : m = n + i + 1
    OBVIOUS
  <2>3. m \in 1 .. N /\ m - 1 = n + i /\ n + (i + 1) = m /\ i + 1 \in Nat /\ i \in Nat
    BY <1>1, <2>2
  <2>4. PICK p : p = Prefixed(slices[m])
    OBVIOUS
  <2>5. p \in Seq(Byte) /\ Len(p) \in Nat \ {0} /\ g[m] = (g[n] \o t) \o p
    BY <1>2, <2>1, <2>3, <2>4, SliceFacts
  <2>6. Associate(g[n], t, p)
    BY <1>3, <2>5, Associates
  <2>7. t \o p \in Seq(Byte) /\ Len(t \o p) = Len(t) + Len(p)
    BY <2>5, ConcatProperties
  <2>8. i + 1 <= Len(t \o p)
    <3>1. Len(t) \in Nat
      OBVIOUS
    <3> QED
      BY <2>1, <2>3, <2>5, <2>7, <3>1
  <2>9. g[n + (i + 1)] = g[n] \o (t \o p)
    BY <2>3, <2>5, <2>6 DEF Associate
  <2> QED
    BY <2>3, <2>7, <2>8, <2>9
<1>6. T \in SUBSET Nat
  OBVIOUS
<1> HIDE DEF T
<1>7. N - n \in Nat /\ d \in 0 .. N - n
  BY <1>1 DEF N
<1>8. \A i \in 0 .. (N - n) - 1 : i \in T => i + 1 \in T
  <2>1. (N - n) - 1 = N - n - 1
    BY <1>1
  <2> QED
    BY <1>5, <2>1
<1>9. \A i \in 0 .. N - n : i \in T
  BY <1>4, <1>6, <1>7, <1>8, UpTo
<1> QED
  BY <1>7, <1>9 DEF T, Behind

LeftOf(a, e, w, cut) ==
  /\ Len(a) + Len(e) <= cut =>
       SubSeq(w, Len(a) + 1, cut) = e \o SubSeq(w, Len(a) + Len(e) + 1, cut)
  /\ Len(a) <= cut /\ cut < Len(a) + Len(e) =>
       SubSeq(w, Len(a) + 1, cut) = SubSeq(e, 1, cut - Len(a))

(* What is left of a stream behind some of it, when it goes on with e.    *)
LEMMA RestOf ==
  ASSUME NEW a \in Seq(Byte), NEW e \in Seq(Byte), NEW t \in Seq(Byte),
         NEW w, w = (a \o e) \o t, NEW cut \in Nat, cut <= Len(w)
  PROVE  LeftOf(a, e, w, cut)
<1>1. PICK k, l, m : k = Len(a) /\ l = Len(e) /\ m = Len(t)
  OBVIOUS
<1>2. k \in Nat /\ l \in Nat /\ m \in Nat
  BY <1>1
<1>3. a \o e \in Seq(Byte) /\ Len(a \o e) = k + l
      /\ \A i \in 1 .. k + l : (a \o e)[i] = IF i <= k THEN a[i] ELSE e[i - k]
  BY <1>1, ConcatProperties
<1>4. /\ w \in Seq(Byte) /\ Len(w) = k + l + m
      /\ \A i \in 1 .. k + l + m :
           w[i] = IF i <= k + l THEN (a \o e)[i] ELSE t[i - (k + l)]
  BY <1>1, <1>3, ConcatProperties
<1>5. ASSUME NEW i \in 1 .. l PROVE w[k + i] = e[i]
  <2>1. k + i \in 1 .. k + l /\ k + i \in 1 .. k + l + m /\ k + i <= k + l /\ ~(k + i <= k) /\ (k + i) - k = i
    BY <1>2
  <2> QED
    BY <1>3, <1>4, <2>1
<1>6. PICK r : r = SubSeq(w, k + 1, cut)
  OBVIOUS
<1>7. CASE k + l <= cut
  <2>1. r \in Seq(Byte) /\ Len(r) = cut - k /\ \A i \in 1 .. cut - k : r[i] = w[k + i]
    <3>1. k \in Nat /\ k <= cut /\ cut <= Len(w) /\ w \in Seq(Byte)
      BY <1>2, <1>4, <1>7
    <3> QED
      BY <1>6, <3>1, PartIs
  <2>2. PICK q : q = SubSeq(w, k + l + 1, cut)
    OBVIOUS
  <2>3. q \in Seq(Byte) /\ Len(q) = cut - (k + l) /\ \A i \in 1 .. cut - (k + l) : q[i] = w[(k + l) + i]
    <3>1. k + l \in Nat /\ k + l <= cut /\ cut <= Len(w) /\ w \in Seq(Byte)
      BY <1>2, <1>4, <1>7
    <3> QED
      BY <2>2, <3>1, PartIs
  <2>4. PICK u : u = e \o q
    OBVIOUS
  <2>5. /\ u \in Seq(Byte) /\ Len(u) = l + Len(q)
        /\ \A i \in 1 .. l + Len(q) : u[i] = IF i <= l THEN e[i] ELSE q[i - l]
    BY <1>1, <2>3, <2>4, ConcatProperties
  <2>6. Len(u) = cut - k /\ l + Len(q) = cut - k
    BY <1>2, <1>7, <2>3, <2>5
  <2>7. ASSUME NEW i \in 1 .. cut - k PROVE r[i] = u[i]
    <3>1. CASE i <= l
      <4>1. i \in 1 .. l
        BY <1>2, <3>1
      <4> QED
        BY <1>5, <2>1, <2>5, <2>6, <3>1, <4>1
    <3>2. CASE ~(i <= l)
      <4>1. PICK j : j = i - l
        OBVIOUS
      <4>2. j \in 1 .. cut - (k + l) /\ (k + l) + j = k + i
        BY <1>2, <1>7, <3>2, <4>1
      <4>3. q[j] = w[k + i]
        BY <2>3, <4>2
      <4> QED
        BY <2>1, <2>5, <2>6, <3>2, <4>1, <4>3
    <3> QED
      BY <3>1, <3>2
  <2>8. r = u
    BY <2>1, <2>5, <2>6, <2>7, SeqEqual
  <2> QED
    <3>1. SubSeq(w, k + 1, cut) = e \o SubSeq(w, k + l + 1, cut)
      BY <1>6, <2>2, <2>4, <2>8
    <3>2. Len(a) + Len(e) + 1 = k + l + 1 /\ Len(a) + 1 = k + 1 /\ ~(cut < Len(a) + Len(e))
      BY <1>1, <1>2, <1>7
    <3> QED
      BY <3>1, <3>2 DEF LeftOf
<1>8. CASE k <= cut /\ cut < k + l
  <2>1. r \in Seq(Byte) /\ Len(r) = cut - k /\ \A i \in 1 .. cut - k : r[i] = w[k + i]
    <3>1. k \in Nat /\ k <= cut /\ cut <= Len(w) /\ w \in Seq(Byte)
      BY <1>2, <1>4, <1>8
    <3> QED
      BY <1>6, <3>1, PartIs
  <2>2. PICK q : q = SubSeq(e, 1, cut - k)
    OBVIOUS
  <2>3. /\ q \in Seq(Byte) /\ Len(q) = cut - k
        /\ \A i \in 1 .. cut - k : q[i] = e[i] /\ i \in 1 .. l
    BY <1>1, <1>2, <1>8, <2>2
  <2>4. \A i \in 1 .. cut - k : r[i] = q[i]
    BY <1>5, <2>1, <2>3
  <2>5. r = q
    BY <2>1, <2>3, <2>4, SeqEqual
  <2>6. SubSeq(w, k + 1, cut) = SubSeq(e, 1, cut - k)
    BY <1>6, <2>2, <2>5
  <2>7. Len(a) = k /\ ~(Len(a) + Len(e) <= cut)
    BY <1>1, <1>2, <1>8
  <2> QED
    BY <2>6, <2>7 DEF LeftOf
<1>9. Len(a) + Len(e) = k + l /\ (k + l <= cut \/ ~(k + l <= cut)) /\ (k <= cut /\ cut < k + l => ~(k + l <= cut))
  BY <1>1, <1>2
<1> QED
  BY <1>1, <1>7, <1>8, <1>9 DEF LeftOf

(* A set of naturals up to n has a greatest member.                       *)
LEMMA Greatest ==
  ASSUME NEW n \in Nat, NEW T \in SUBSET (0 .. n), T # {}
  PROVE  \E x \in T : \A y \in T : x >= y
<1>1. PICK D : D = {n - x : x \in T}
  OBVIOUS
<1>2. D \in SUBSET Nat /\ D # {}
  <2>1. \A x \in T : n - x \in Nat
    OBVIOUS
  <2>2. PICK x : x \in T
    OBVIOUS
  <2>3. n - x \in D
    BY <1>1, <2>2
  <2> QED
    BY <1>1, <2>1, <2>3
<1>3. PICK d \in D : \A e \in D : d <= e
  BY <1>2, Least
<1>4. PICK x \in T : d = n - x
  BY <1>1
<1>5. ASSUME NEW y \in T PROVE x >= y
  <2>1. n - x <= n - y
    BY <1>1, <1>3, <1>4
  <2> QED
    BY <2>1
<1> QED
  BY <1>5

(* The slices of a stream, and where they are written.                    *)
LEMMA StreamAt ==
  ASSUME NEW slices \in Seq(Slice), NEW g, Joins(g, Pieces(slices), Byte),
         NEW n \in 0 .. Len(slices) - 1
  PROVE  /\ slices[n + 1] \in Slice
         /\ Len(g[n + 1]) = Len(g[n]) + Len(Prefixed(slices[n + 1]))
         /\ \E t \in Seq(Byte) :
              g[Len(slices)] = (g[n] \o Prefixed(slices[n + 1])) \o t
<1>1. PICK N, p : N = Len(slices) /\ p = Prefixed(slices[n + 1])
  OBVIOUS
<1>2. N \in Nat /\ n + 1 \in 1 .. N /\ n + 1 \in 0 .. N /\ n \in 0 .. N /\ (n + 1) - 1 = n
      /\ N - (n + 1) \in 0 .. N - (n + 1) /\ (n + 1) + (N - (n + 1)) = N
  BY <1>1
<1>3. slices[n + 1] \in Slice
  BY <1>1, <1>2
<1>4. p \in Seq(Byte)
  BY <1>1, <1>3, SliceFacts
<1>5. g[n] \in Seq(Byte) /\ g[n + 1] = g[n] \o p
  <2>1. Len(Pieces(slices)) = N /\ Pieces(slices)[n + 1] = p
    BY <1>1, <1>2, PiecesFacts
  <2>2. g[n + 1] = g[(n + 1) - 1] \o Pieces(slices)[n + 1] /\ g[n] \in Seq(Byte)
    BY <1>2, <2>1 DEF Joins
  <2> QED
    BY <1>2, <2>1, <2>2
<1>6. Len(g[n] \o p) = Len(g[n]) + Len(p)
  BY <1>4, <1>5, ConcatProperties
<1>7. PICK t \in Seq(Byte) : g[(n + 1) + (N - (n + 1))] = g[n + 1] \o t
  <2>1. PICK k, d : k = n + 1 /\ d = N - (n + 1)
    OBVIOUS
  <2>2. k \in 0 .. Len(slices) /\ d \in 0 .. Len(slices) - k
    BY <1>1, <1>2, <2>1
  <2>3. Behind(g[k], g[k + d], d)
    BY <2>2, Later
  <2> QED
    BY <2>1, <2>3 DEF Behind
<1>8. g[N] = (g[n] \o p) \o t
  BY <1>2, <1>5, <1>7
<1> QED
  BY <1>1, <1>3, <1>5, <1>6, <1>8

Remaining(g, w, cut, n) == SubSeq(w, Len(g[n]) + 1, cut)

(* A slice that is complete is read; one that is not is not.              *)
LEMMA NextRead ==
  ASSUME NEW slices \in Seq(Slice), NEW g, Joins(g, Pieces(slices), Byte),
         NEW n \in 0 .. Len(slices) - 1, NEW w, w = g[Len(slices)],
         NEW cut \in Nat, cut <= Len(w), Len(g[n]) <= cut
  PROVE  LET next == GetLengthPrefixedSlice(Remaining(g, w, cut, n))
         IN  /\ Len(g[n + 1]) <= cut =>
                  next = [ok |-> TRUE, value |-> slices[n + 1],
                          input |-> Remaining(g, w, cut, n + 1)]
             /\ ~(Len(g[n + 1]) <= cut) => ~next.ok
<1>1. PICK a, x, e : a = g[n] /\ x = slices[n + 1] /\ e = Prefixed(x)
  OBVIOUS
<1>2. PICK t \in Seq(Byte) : w = (a \o e) \o t
  BY <1>1, StreamAt
<1>3. x \in Slice /\ Len(g[n + 1]) = Len(a) + Len(e)
  BY <1>1, StreamAt
<1>4. e \in Seq(Byte) /\ Len(e) \in Nat
  BY <1>1, <1>3, SliceFacts
<1>5. a \in Seq(Byte) /\ Len(a) \in Nat
  <2>1. n \in 0 .. Len(slices) /\ Len(Pieces(slices)) = Len(slices)
    BY PiecesFacts
  <2>2. a \in Seq(Byte)
    BY <1>1, <2>1 DEF Joins
  <2> QED
    BY <2>2
<1>6. CASE Len(g[n + 1]) <= cut
  <2>1. Remaining(g, w, cut, n) = e \o Remaining(g, w, cut, n + 1)
    <3>1. Len(a) + Len(e) <= cut
      BY <1>3, <1>6
    <3>2. SubSeq(w, Len(a) + 1, cut) = e \o SubSeq(w, Len(a) + Len(e) + 1, cut)
      <4>1. LeftOf(a, e, w, cut)
        BY <1>2, <1>4, <1>5, RestOf
      <4> QED
        BY <3>1, <4>1 DEF LeftOf
    <3> QED
      BY <1>1, <1>3, <3>2 DEF Remaining
  <2>2. Remaining(g, w, cut, n + 1) \in Seq(Byte)
    <3>1. w \in Seq(Byte)
      BY <1>2, <1>4, <1>5, ConcatProperties
    <3>2. Len(g[n + 1]) \in Nat
      BY <1>3, <1>4, <1>5
    <3> QED
      BY <1>6, <3>1, <3>2, PartIs DEF Remaining
  <2> QED
    BY <1>1, <1>3, <1>6, <2>1, <2>2, SliceRead
<1>7. CASE ~(Len(g[n + 1]) <= cut)
  <2>1. cut < Len(a) + Len(e) /\ Len(a) <= cut
    <3>1. PICK k, l : k = Len(a) /\ l = Len(e)
      OBVIOUS
    <3>2. k \in Nat /\ l \in Nat /\ k <= cut /\ ~(k + l <= cut)
      BY <1>1, <1>3, <1>4, <1>5, <1>7, <3>1
    <3>3. cut < k + l
      BY <3>2
    <3> QED
      BY <3>1, <3>2, <3>3
  <2>2. SubSeq(w, Len(a) + 1, cut) = SubSeq(e, 1, cut - Len(a))
    <3>1. LeftOf(a, e, w, cut)
      BY <1>2, <1>4, <1>5, RestOf
    <3> QED
      BY <2>1, <3>1 DEF LeftOf
  <2>3. cut - Len(a) \in 0 .. Len(e) - 1
    BY <1>4, <1>5, <2>1
  <2>4. Remaining(g, w, cut, n) = SubSeq(e, 1, cut - Len(a))
    BY <1>1, <2>2 DEF Remaining
  <2> QED
    BY <1>1, <1>3, <1>7, <2>3, <2>4, SliceCut
<1> QED
  BY <1>6, <1>7

(* One turn of a caller that reads slices.                                *)
ReadOne(st) ==
  LET next == GetLengthPrefixedSlice(st.rest)
  IN  IF next.ok THEN [slices |-> Append(st.slices, next.value), rest |-> next.input] ELSE st

(* The complete slices are read and no other.                             *)
LEMMA StreamRead ==
  ASSUME NEW slices \in Seq(Slice), NEW cut \in 0 .. Len(WriteAll(slices))
  PROVE  ReadAll(SubSeq(WriteAll(slices), 1, cut)) =
           SubSeq(slices, 1, Max({n \in 0 .. Len(slices) :
                                    Len(WriteAll(SubSeq(slices, 1, n))) <= cut}))
<1>1. PICK N, w, s : N = Len(slices) /\ w = WriteAll(slices) /\ s = SubSeq(w, 1, cut)
  OBVIOUS
<1>2. PICK g : Joins(g, Pieces(slices), Byte)
  BY PiecesFacts, Joinable
<1>3. N \in Nat /\ cut \in Nat
  BY <1>1
<1>4. \A n \in 0 .. N : g[n] \in Seq(Byte) /\ Len(g[n]) \in Nat
  <2>1. Len(Pieces(slices)) = N
    BY <1>1, PiecesFacts
  <2>2. \A n \in 0 .. N : g[n] \in Seq(Byte)
    BY <1>2, <2>1 DEF Joins
  <2> QED
    BY <2>2
<1>5. \A n \in 0 .. N : WriteAll(SubSeq(slices, 1, n)) = g[n]
  BY <1>1, <1>2, StreamPrefix
<1>6. w = g[N] /\ w \in Seq(Byte) /\ cut <= Len(w) /\ Len(w) \in Nat
  <2>1. SubSeq(slices, 1, N) = slices
    BY <1>1, SubSeqFull
  <2>2. N \in 0 .. N
    BY <1>3
  <2>3. w = g[N]
    BY <1>1, <1>5, <2>1, <2>2
  <2> QED
    BY <1>1, <1>4, <2>2, <2>3
<1>7. PICK complete : complete = {n \in 0 .. N : Len(g[n]) <= cut}
  OBVIOUS
<1>8. {n \in 0 .. Len(slices) : Len(WriteAll(SubSeq(slices, 1, n))) <= cut} = complete
  BY <1>1, <1>5, <1>7
<1>9. g[0] = <<>> /\ 0 \in complete
  <2>1. g[0] = <<>>
    BY <1>2 DEF Joins
  <2> QED
    BY <1>3, <1>7, <2>1
<1>10. PICK m \in complete : \A n \in complete : m >= n
  BY <1>3, <1>7, <1>9, Greatest
<1>11. Max(complete) = m
  <2>1. complete \in SUBSET Int /\ m \in complete
    BY <1>7, <1>10
  <2> QED
    BY <1>10, <2>1, MaxIs
<1>12. m \in 0 .. N /\ m \in Nat /\ Len(g[m]) <= cut
  BY <1>3, <1>7, <1>10
<1>13. m <= cut
  <2>1. PICK t \in Seq(Byte) : g[0 + m] = g[0] \o t /\ m <= Len(t)
    <3>1. PICK k : k = 0
      OBVIOUS
    <3>2. k \in 0 .. Len(slices) /\ m \in 0 .. Len(slices) - k
      BY <1>1, <1>3, <1>12, <3>1
    <3>3. Behind(g[k], g[k + m], m)
      BY <1>2, <3>2, Later
    <3> QED
      BY <3>1, <3>3 DEF Behind
  <2>2. g[m] = t
    <3>1. 0 + m = m
      BY <1>12
    <3> QED
      BY <1>9, <2>1, <3>1, ConcatEmptySeq
  <2> QED
    BY <1>3, <1>4, <1>12, <2>1, <2>2
<1>14. ASSUME NEW n \in 0 .. m PROVE Len(g[n]) <= cut
  <2>1. n \in 0 .. Len(slices) /\ m - n \in 0 .. Len(slices) - n /\ n + (m - n) = m
    BY <1>1, <1>12
  <2>2. PICK t \in Seq(Byte) : g[m] = g[n] \o t
    <3>1. PICK d : d = m - n
      OBVIOUS
    <3>2. d \in 0 .. Len(slices) - n /\ n + d = m
      BY <2>1, <3>1
    <3>3. Behind(g[n], g[n + d], d)
      BY <1>2, <2>1, <3>2, Later
    <3> QED
      BY <3>2, <3>3 DEF Behind
  <2>3. g[n] \in Seq(Byte) /\ Len(g[n]) \in Nat
    BY <1>1, <1>4, <2>1
  <2>4. Len(g[n] \o t) = Len(g[n]) + Len(t)
    BY <2>3, ConcatProperties
  <2>5. Len(t) \in Nat
    OBVIOUS
  <2>6. Len(g[m]) = Len(g[n]) + Len(t)
    BY <2>2, <2>4
  <2> QED
    BY <1>3, <1>12, <2>3, <2>5, <2>6
(* The states of the loop.                                                *)
<1> DEFINE R(n) == Remaining(g, w, cut, n)
           at(n) == IF n <= m THEN n ELSE m
           start == [slices |-> <<>>, rest |-> s]
           h == [n \in 0 .. cut |-> [slices |-> SubSeq(slices, 1, at(n)), rest |-> R(at(n))]]
           Eqn(f) == f = [n \in 0 .. Len(s) |->
                            IF n = 0 THEN start ELSE ReadOne(f[n - 1])]
           read == CHOOSE f : Eqn(f)
<1>15. ReadAll(s) = read[Len(s)].slices
  BY DEF ReadAll, ReadOne
<1>16. Len(s) = cut /\ R(0) = s
  <2>1. Len(SubSeq(w, 0 + 1, cut)) = cut - 0
    BY <1>3, <1>6, PartIs
  <2>2. Len(g[0]) = 0
    BY <1>9
  <2> QED
    BY <1>1, <1>3, <2>1, <2>2 DEF Remaining
<1>17. ASSUME NEW n \in Nat, n < m
       PROVE  ReadOne([slices |-> SubSeq(slices, 1, n), rest |-> R(n)])
                = [slices |-> SubSeq(slices, 1, n + 1), rest |-> R(n + 1)]
  <2>1. n \in 0 .. Len(slices) - 1 /\ n \in 0 .. m /\ n + 1 \in 0 .. m /\ n + 1 \in 1 .. Len(slices)
    BY <1>1, <1>12, <1>17
  <2>2. Len(g[n]) <= cut /\ Len(g[n + 1]) <= cut
    BY <1>14, <2>1
  <2>3. GetLengthPrefixedSlice(R(n)) = [ok |-> TRUE, value |-> slices[n + 1], input |-> R(n + 1)]
    BY <1>1, <1>2, <1>3, <1>6, <2>1, <2>2, NextRead
  <2>4. Append(SubSeq(slices, 1, n), slices[n + 1]) = SubSeq(slices, 1, n + 1)
    <3>1. PICK a, b, x : a = SubSeq(slices, 1, n) /\ b = SubSeq(slices, 1, n + 1) /\ x = slices[n + 1]
      OBVIOUS
    <3>2. a \in Seq(Slice) /\ Len(a) = n /\ \A i \in 1 .. n : a[i] = slices[i]
      BY <2>1, <3>1
    <3>3. b \in Seq(Slice) /\ Len(b) = n + 1 /\ \A i \in 1 .. n + 1 : b[i] = slices[i]
      BY <2>1, <3>1
    <3>4. x \in Slice
      BY <2>1, <3>1
    <3>5. /\ Append(a, x) \in Seq(Slice) /\ Len(Append(a, x)) = n + 1
          /\ \A i \in 1 .. n + 1 : Append(a, x)[i] = slices[i]
      BY <3>1, <3>2, <3>4
    <3> QED
      BY <3>1, <3>3, <3>5, SeqEqual
  <2>5. PICK a, b, x, r, q : /\ a = SubSeq(slices, 1, n) /\ b = SubSeq(slices, 1, n + 1)
                             /\ x = slices[n + 1] /\ r = R(n) /\ q = R(n + 1)
    OBVIOUS
  <2> HIDE DEF R
  <2>6. PICK next : next = GetLengthPrefixedSlice(r)
    OBVIOUS
  <2>7. next.ok /\ next.value = x /\ next.input = q /\ Append(a, x) = b
    BY <2>3, <2>4, <2>5, <2>6
  <2>8. ReadOne([slices |-> a, rest |-> r]) = [slices |-> b, rest |-> q]
    BY <2>6, <2>7 DEF ReadOne
  <2> QED
    BY <2>5, <2>8
<1>18. ReadOne([slices |-> SubSeq(slices, 1, m), rest |-> R(m)])
         = [slices |-> SubSeq(slices, 1, m), rest |-> R(m)]
  <2>1. ~GetLengthPrefixedSlice(R(m)).ok
    <3>1. CASE m = N
      <4>1. Len(g[m]) = cut
        BY <1>3, <1>6, <1>12, <3>1
      <4>2. R(m) = <<>>
        BY <1>3, <4>1 DEF Remaining
      <4> QED
        BY <4>2, NothingRead
    <3>2. CASE m # N
      <4>1. m \in 0 .. Len(slices) - 1 /\ m + 1 \in 0 .. N
        BY <1>1, <1>3, <1>12, <3>2
      <4>2. m + 1 \notin complete
        BY <1>10, <1>12
      <4>3. ~(Len(g[m + 1]) <= cut)
        BY <1>7, <4>1, <4>2
      <4> QED
        BY <1>1, <1>2, <1>3, <1>6, <1>12, <4>1, <4>3, NextRead
    <3> QED
      BY <3>1, <3>2
  <2> HIDE DEF R
  <2> QED
    BY <2>1 DEF ReadOne
<1>19. h[0] = start
  <2>1. SubSeq(slices, 1, 0) = <<>>
    OBVIOUS
  <2> QED
    BY <1>3, <1>12, <1>16, <2>1
<1>20. ASSUME NEW n \in 1 .. cut PROVE h[n] = ReadOne(h[n - 1])
  <2>1. n \in 0 .. cut /\ n - 1 \in 0 .. cut /\ n - 1 \in Nat /\ (n - 1) + 1 = n
    BY <1>3
  <2>2. /\ h[n] = [slices |-> SubSeq(slices, 1, at(n)), rest |-> R(at(n))]
        /\ h[n - 1] = [slices |-> SubSeq(slices, 1, at(n - 1)), rest |-> R(at(n - 1))]
    BY <2>1
  <2>3. CASE n - 1 < m
    <3>1. at(n) = n /\ at(n - 1) = n - 1
      BY <1>12, <2>1, <2>3
    <3> HIDE DEF h, at, R
    <3> QED
      BY <1>17, <2>1, <2>2, <2>3, <3>1
  <2>4. CASE ~(n - 1 < m)
    <3>1. at(n) = m /\ at(n - 1) = m
      BY <1>12, <2>1, <2>4
    <3> HIDE DEF h, at, R
    <3> QED
      BY <1>18, <2>2, <3>1
  <2> QED
    BY <2>3, <2>4
<1>21. h[cut].slices = SubSeq(slices, 1, m)
  BY <1>3, <1>12, <1>13
<1>22. h = [n \in 0 .. cut |-> h[n]]
  OBVIOUS
<1> HIDE DEF h, start
<1>23. Eqn(h)
  <2>1. \A n \in 0 .. cut : h[n] = IF n = 0 THEN start ELSE ReadOne(h[n - 1])
    <3>1. \A n \in 0 .. cut : n = 0 \/ n \in 1 .. cut
      BY <1>3
    <3> QED
      BY <1>19, <1>20, <3>1
  <2> QED
    BY <1>16, <1>22, <2>1
<1>24. Eqn(read)
  <2> HIDE DEF Eqn
  <2> QED
    BY <1>23
<1> HIDE DEF read
<1>25. read[0] = start /\ \A n \in 1 .. cut : read[n] = ReadOne(read[n - 1])
  <2>1. 0 \in 0 .. cut /\ \A n \in 1 .. cut : n \in 0 .. cut /\ n # 0
    BY <1>3
  <2> QED
    BY <1>16, <1>24, <2>1
<1> HIDE DEF Eqn
<1> DEFINE T == {n \in Nat : read[n] = h[n]}
<1>26. 0 \in T /\ T \in SUBSET Nat
  BY <1>19, <1>25
<1>27. ASSUME NEW n \in 0 .. cut - 1, n \in T PROVE n + 1 \in T
  <2>1. n + 1 \in 1 .. cut /\ (n + 1) - 1 = n /\ n + 1 \in Nat
    BY <1>3
  <2>2. read[n] = h[n]
    BY <1>27
  <2>3. read[n + 1] = ReadOne(h[n])
    BY <1>25, <2>1, <2>2
  <2>4. h[n + 1] = ReadOne(h[n])
    BY <1>20, <2>1
  <2> QED
    BY <2>1, <2>3, <2>4
<1> HIDE DEF T
<1>28. \A n \in 0 .. cut : n \in T
  BY <1>3, <1>26, <1>27, UpTo
<1>29. read[cut] = h[cut]
  <2>1. cut \in T
    BY <1>3, <1>28
  <2> QED
    BY <2>1 DEF T
<1> QED
  BY <1>1, <1>8, <1>11, <1>15, <1>16, <1>21, <1>29

(* What ReadsWhatWasPut says of varints, for either encoder.              *)
LEMMA VarintsReadBack ==
  ASSUME NEW v \in Values, NEW tail \in Tails, NEW s,
         s \in {EncodeVarint32(v), EncodeVarint64(v)}
  PROVE  /\ GetVarint(s \o tail) = [ok |-> TRUE, value |-> v, input |-> tail]
         /\ Len(s) = VarintLength(v)
         /\ \A n \in 0 .. Len(s) - 1 : ~GetVarint(SubSeq(s, 1, n)).ok
<1>1. s = EncodeVarint32(v) /\ IsVarint(s, v)
  BY SameVarint, Varint32
<1>2. tail \in Seq(Byte)
  <2>1. 0 \in Byte /\ B \in Byte
    BY GroupFacts, ByteFacts DEF Byte
  <2>2. <<>> \in Seq(Byte) /\ <<0>> \in Seq(Byte) /\ <<B>> \in Seq(Byte)
    BY <2>1
  <2> QED
    BY <2>2 DEF Tails
<1>3. GetVarint(s \o tail) = [ok |-> TRUE, value |-> v, input |-> tail]
  BY <1>1, <1>2, VarintRead
<1>4. Len(s) = VarintLength(v)
  BY <1>1, VarintLengths
<1>5. ASSUME NEW n \in 0 .. Len(s) - 1 PROVE ~GetVarint(SubSeq(s, 1, n)).ok
  <2>1. GetVarint(SubSeq(s, 1, n)) = Failed(SubSeq(s, 1, n))
    BY <1>1, VarintCut
  <2> QED
    BY <2>1 DEF Failed
<1> QED
  BY <1>3, <1>4, <1>5

(* The calls that read keep ReadsWhatWasPut, and so do all the others.    *)
LEMMA ReadsStep ==
  ASSUME call \in Calls, ReadsWhatWasPut, [Next]_vars
  PROVE  ReadsWhatWasPut'
<1>1. CASE UNCHANGED vars
  BY <1>1 DEF vars, ReadsWhatWasPut, Returned
<1>2. CASE UNCHANGED call /\ ReadVarint
  <2>1. call.value \in Values /\ call.tail \in Tails /\ call.fn = "GetVarint"
    BY <1>2, Arguments DEF ReadVarint, Calling
  <2>2. PICK s \in {EncodeVarint32(call.value), EncodeVarint64(call.value)} :
          result' = <<[encoded |-> s, read |-> GetVarint(s \o call.tail)]>>
    BY <1>2 DEF ReadVarint
  <2>3. /\ GetVarint(s \o call.tail) = [ok |-> TRUE, value |-> call.value, input |-> call.tail]
        /\ Len(s) = VarintLength(call.value)
        /\ \A n \in 0 .. Len(s) - 1 : ~GetVarint(SubSeq(s, 1, n)).ok
    BY <2>1, VarintsReadBack
  <2>4. result'[1].encoded = s /\ result'[1].read = GetVarint(s \o call.tail)
    BY <2>2
  <2> QED
    BY <1>2, <2>1, <2>3, <2>4 DEF ReadsWhatWasPut, Returned
<1>3. CASE UNCHANGED call /\ ReadSlices
  <2>1. call.slices \in Seq(Slice) /\ call.fn = "GetLengthPrefixedSlice"
    BY <1>3, Arguments, InputsAssumption DEF ReadSlices, Calling
  <2>2. PICK cut \in 0 .. Len(WriteAll(call.slices)) :
          result' = <<[cut |-> cut, read |-> ReadAll(SubSeq(WriteAll(call.slices), 1, cut))]>>
    BY <1>3 DEF ReadSlices
  <2>3. ReadAll(SubSeq(WriteAll(call.slices), 1, cut)) =
           SubSeq(call.slices, 1, Max({n \in 0 .. Len(call.slices) :
                                    Len(WriteAll(SubSeq(call.slices, 1, n))) <= cut}))
    BY <2>1, StreamRead
  <2>4. result'[1].cut = cut /\ result'[1].read = ReadAll(SubSeq(WriteAll(call.slices), 1, cut))
    BY <2>2
  <2> QED
    BY <1>3, <2>1, <2>3, <2>4 DEF ReadsWhatWasPut, Returned
<1>4. CASE UNCHANGED call /\ call.fn \notin {"GetVarint", "GetLengthPrefixedSlice"}
  BY <1>4 DEF ReadsWhatWasPut, Returned
<1> QED
  BY <1>1, <1>2, <1>3, <1>4, CallMade

(* Both encoders write what GetVarint reads back, whatever follows, and    *)
(* of a stream of slices cut off anywhere GetLengthPrefixedSlice reads the *)
(* complete ones and no other.                                             *)
THEOREM WhatWasPutIsRead == Spec => []ReadsWhatWasPut
<1>1. Init => call \in Calls /\ ReadsWhatWasPut
  BY DEF Init, ReadsWhatWasPut, Returned
<1>2. call \in Calls /\ ReadsWhatWasPut /\ [Next]_vars => (call \in Calls /\ ReadsWhatWasPut)'
  BY CallsKept, ReadsStep
<1> QED
  BY <1>1, <1>2, PTL DEF Spec

-----------------------------------------------------------------------------
(* Write batches have their documented format *)

Three(w, a, b, c, S) ==
  /\ w \in Seq(S) /\ Len(w) = Len(a) + Len(b) + Len(c)
  /\ \A i \in 1 .. Len(a) : w[i] = a[i]
  /\ \A i \in 1 .. Len(b) : w[Len(a) + i] = b[i]
  /\ \A i \in 1 .. Len(c) : w[Len(a) + Len(b) + i] = c[i]

(* The elements of three sequences in a row.                              *)
LEMMA ThreeParts ==
  ASSUME NEW S, NEW a \in Seq(S), NEW b \in Seq(S), NEW c \in Seq(S)
  PROVE  Three((a \o b) \o c, a, b, c, S)
<1>1. PICK k, l, m, u, w : /\ k = Len(a) /\ l = Len(b) /\ m = Len(c)
                           /\ u = a \o b /\ w = u \o c
  OBVIOUS
<1>2. k \in Nat /\ l \in Nat /\ m \in Nat
  BY <1>1
<1>3. /\ u \in Seq(S) /\ Len(u) = k + l
      /\ \A i \in 1 .. k + l : u[i] = IF i <= k THEN a[i] ELSE b[i - k]
  BY <1>1, ConcatProperties
<1>4. /\ w \in Seq(S) /\ Len(w) = k + l + m
      /\ \A i \in 1 .. k + l + m : w[i] = IF i <= k + l THEN u[i] ELSE c[i - (k + l)]
  BY <1>1, <1>3, ConcatProperties
<1>5. ASSUME NEW i \in 1 .. k PROVE w[i] = a[i]
  <2>1. i \in 1 .. k + l /\ i \in 1 .. k + l + m /\ i <= k + l /\ i <= k
    BY <1>2
  <2> QED
    BY <1>3, <1>4, <2>1
<1>6. ASSUME NEW i \in 1 .. l PROVE w[k + i] = b[i]
  <2>1. k + i \in 1 .. k + l /\ k + i \in 1 .. k + l + m /\ k + i <= k + l
        /\ ~(k + i <= k) /\ (k + i) - k = i
    BY <1>2
  <2> QED
    BY <1>3, <1>4, <2>1
<1>7. ASSUME NEW i \in 1 .. m PROVE w[k + l + i] = c[i]
  <2>1. k + l + i \in 1 .. k + l + m /\ ~(k + l + i <= k + l) /\ (k + l + i) - (k + l) = i
    BY <1>2
  <2> QED
    BY <1>4, <2>1
<1> QED
  BY <1>1, <1>4, <1>5, <1>6, <1>7 DEF Three

(* The part in the middle is read where the one before it ends.           *)
LEMMA MiddleRead ==
  ASSUME NEW S, NEW a \in Seq(S), NEW b \in Seq(S), NEW c \in Seq(S)
  PROVE  SubSeq((a \o b) \o c, Len(a) + 1, Len(a) + Len(b)) = b
<1>1. PICK k, l, w, n, q : /\ k = Len(a) /\ l = Len(b) /\ w = (a \o b) \o c
                           /\ n = k + l /\ q = SubSeq(w, k + 1, n)
  OBVIOUS
<1>2. k \in Nat /\ l \in Nat /\ n \in Nat /\ k <= n /\ n - k = l /\ Len(c) \in Nat
  BY <1>1
<1>3. /\ w \in Seq(S) /\ Len(w) = k + l + Len(c)
      /\ \A i \in 1 .. l : w[k + i] = b[i]
  BY <1>1, ThreeParts DEF Three
<1>4. n <= Len(w)
  BY <1>1, <1>2, <1>3
<1>5. q \in Seq(S) /\ Len(q) = l /\ \A i \in 1 .. l : q[i] = w[k + i]
  BY <1>1, <1>2, <1>3, <1>4, PartIs
<1>6. q = b
  BY <1>1, <1>3, <1>5, SeqEqual
<1> QED
  BY <1>1, <1>6

Replaces(d, a, b, c) == Overwritten((a \o b) \o c, Len(a), d) = (a \o d) \o c

(* Bytes over a part of the same length replace that part.                *)
LEMMA PartOverwritten ==
  ASSUME NEW S, NEW a \in Seq(S), NEW b \in Seq(S), NEW c \in Seq(S),
         NEW d \in Seq(S), Len(d) = Len(b)
  PROVE  Replaces(d, a, b, c)
<1>1. PICK k, l, m, w, x : /\ k = Len(a) /\ l = Len(b) /\ m = Len(c)
                           /\ w = (a \o b) \o c /\ x = (a \o d) \o c
  OBVIOUS
<1>2. k \in Nat /\ l \in Nat /\ m \in Nat /\ Len(d) = l
  BY <1>1
<1>3. /\ w \in Seq(S) /\ Len(w) = k + l + m
      /\ \A i \in 1 .. k : w[i] = a[i]
      /\ \A i \in 1 .. m : w[k + l + i] = c[i]
  BY <1>1, ThreeParts DEF Three
<1>4. /\ x \in Seq(S) /\ Len(x) = k + l + m
      /\ \A i \in 1 .. k : x[i] = a[i]
      /\ \A i \in 1 .. l : x[k + i] = d[i]
      /\ \A i \in 1 .. m : x[k + l + i] = c[i]
  <2>1. Three((a \o d) \o c, a, d, c, S)
    BY ThreeParts
  <2>2. Three(x, a, d, c, S)
    BY <1>1, <2>1
  <2> QED
    BY <1>1, <1>2, <2>2 DEF Three
<1>5. DOMAIN w = 1 .. k + l + m /\ DOMAIN x = 1 .. k + l + m /\ DOMAIN d = 1 .. l
  BY <1>2, <1>3, <1>4, LenProperties
<1>6. ASSUME NEW i \in 1 .. k + l + m
      PROVE  x[i] = IF i - k \in DOMAIN d THEN d[i - k] ELSE w[i]
  <2>1. CASE i - k \in 1 .. l
    <3>1. PICK j : j = i - k
      OBVIOUS
    <3>2. j \in 1 .. l /\ k + j = i
      BY <1>2, <2>1, <3>1
    <3> QED
      BY <1>4, <1>5, <3>1, <3>2
  <2>2. CASE i <= k
    <3>1. i \in 1 .. k /\ i - k \notin 1 .. l
      BY <1>2, <2>2
    <3> QED
      BY <1>3, <1>4, <1>5, <3>1
  <2>3. CASE k + l < i
    <3>1. PICK j : j = i - (k + l)
      OBVIOUS
    <3>2. j \in 1 .. m /\ k + l + j = i /\ i - k \notin 1 .. l
      BY <1>2, <2>3, <3>1
    <3>3. x[i] = c[j] /\ w[i] = c[j]
      BY <1>3, <1>4, <3>2
    <3> QED
      BY <1>5, <3>2, <3>3
  <2>4. i - k \in 1 .. l \/ i <= k \/ k + l < i
    BY <1>2
  <2> QED
    BY <2>1, <2>2, <2>3, <2>4
<1>7. x = [i \in 1 .. k + l + m |-> x[i]]
  BY <1>4, <1>5
<1>8. Overwritten(w, k, d) = [i \in 1 .. k + l + m |-> IF i - k \in DOMAIN d THEN d[i - k] ELSE w[i]]
  BY <1>5 DEF Overwritten
<1>9. Overwritten(w, k, d) = x
  BY <1>6, <1>7, <1>8
<1> QED
  BY <1>1, <1>9 DEF Replaces

(* An integer of fixed width is as many bytes.                            *)
LEMMA FixedTyped ==
  ASSUME NEW n \in Nat, NEW v \in Nat
  PROVE  EncodeFixed(n, v) \in Seq(Byte) /\ Len(EncodeFixed(n, v)) = n
<1>1. ASSUME NEW i \in 1 .. n PROVE (v \div Octet(i - 1)) % (2 * B) \in Byte
  <2>1. PICK u, c : u = Octet(i - 1) /\ c = 2 * B
    OBVIOUS
  <2>2. i - 1 \in Nat
    OBVIOUS
  <2>3. u \in Nat \ {0} /\ c \in Nat \ {0}
    BY <2>1, <2>2, OctetFacts
  <2>4. PICK q : q = v \div u
    OBVIOUS
  <2>5. q \in Nat
    BY <2>3, <2>4, PlaceNat
  <2>6. q % c \in Nat /\ q % c < c
    BY <2>3, <2>5, ModNat
  <2>7. q % c \in 0 .. c - 1
    BY <2>3, <2>6
  <2> QED
    BY <2>1, <2>4, <2>7 DEF Byte
<1>2. PICK e : e = EncodeFixed(n, v)
  OBVIOUS
<1>3. e = [i \in 1 .. n |-> (v \div Octet(i - 1)) % (2 * B)]
  BY <1>2 DEF EncodeFixed
<1>4. e \in [1 .. n -> Byte]
  BY <1>1, <1>3
<1>5. e \in Seq(Byte) /\ Len(e) = n
  BY <1>4
<1> QED
  BY <1>2, <1>5

Numbered(seq, n) == EncodeFixed(SEQUENCE_BYTES, seq) \o EncodeFixed(COUNT_BYTES, n)

BodyOf(rep) == SubSeq(rep, kHeader + 1, Len(rep))

(* What is read from a batch that begins with a header, and written to it. *)
LEMMA HeaderFacts ==
  ASSUME NEW seq \in Nat, NEW n \in Nat, NEW body \in Seq(Byte)
  PROVE  /\ Numbered(seq, n) \in Seq(Byte) /\ Len(Numbered(seq, n)) = kHeader
         /\ Numbered(seq, n) \o body \in Seq(Byte)
         /\ BodyOf(Numbered(seq, n) \o body) = body
         /\ \A m \in Nat : SetCount(Numbered(seq, n) \o body, m) = Numbered(seq, m) \o body
         /\ n < Octet(COUNT_BYTES) => Count(Numbered(seq, n) \o body) = n
         /\ seq < Octet(SEQUENCE_BYTES) => Sequence(Numbered(seq, n) \o body) = seq
<1>1. SEQUENCE_BYTES \in Nat /\ COUNT_BYTES \in Nat /\ kHeader = SEQUENCE_BYTES + COUNT_BYTES
  BY HeaderAssumption DEF kHeader
<1>2. PICK a, b, h, w : /\ a = EncodeFixed(SEQUENCE_BYTES, seq) /\ b = EncodeFixed(COUNT_BYTES, n)
                        /\ h = a \o b /\ w = h \o body
  OBVIOUS
<1>3. h = Numbered(seq, n)
  BY <1>2 DEF Numbered
<1>4. a \in Seq(Byte) /\ Len(a) = SEQUENCE_BYTES /\ b \in Seq(Byte) /\ Len(b) = COUNT_BYTES
  BY <1>1, <1>2, FixedTyped
<1>5. h \in Seq(Byte) /\ Len(h) = kHeader
  BY <1>1, <1>2, <1>4, ConcatProperties
<1>6. w \in Seq(Byte) /\ Skip(w, Len(h)) = body
  <2>1. /\ h \o body \in Seq(Byte) /\ Len(h \o body) = Len(h) + Len(body)
        /\ SubSeq(h \o body, 1, Len(h)) = h /\ Skip(h \o body, Len(h)) = body
    BY ONLY <1>5, body \in Seq(Byte), Parted
  <2> QED
    BY <1>2, <2>1
<1>7. BodyOf(w) = body
  BY <1>5, <1>6 DEF Skip, BodyOf
<1>8. ASSUME NEW m \in Nat PROVE SetCount(w, m) = Numbered(seq, m) \o body
  <2>1. PICK d : d = EncodeFixed(COUNT_BYTES, m)
    OBVIOUS
  <2>2. d \in Seq(Byte) /\ Len(d) = Len(b)
    BY <1>1, <1>4, <2>1, FixedTyped
  <2>3. Replaces(d, a, b, body)
    BY <1>4, <2>2, PartOverwritten
  <2> QED
    BY <1>2, <1>4, <2>1, <2>3 DEF SetCount, Numbered, Replaces
<1>9. ASSUME n < Octet(COUNT_BYTES) PROVE Count(w) = n
  <2>1. SubSeq((a \o b) \o body, Len(a) + 1, Len(a) + Len(b)) = b
    BY <1>4, MiddleRead
  <2>2. SubSeq(w, SEQUENCE_BYTES + 1, kHeader) = b
    BY <1>1, <1>2, <1>4, <2>1
  <2>3. DecodeFixed(b) = n
    BY <1>1, <1>2, <1>9, FixedRead
  <2> QED
    BY <2>2, <2>3 DEF Count
<1>10. ASSUME seq < Octet(SEQUENCE_BYTES) PROVE Sequence(w) = seq
  <2>1. Associate(a, b, body)
    BY <1>4, Associates
  <2>2. PICK r : r = b \o body
    OBVIOUS
  <2>3. r \in Seq(Byte) /\ w = a \o r
    BY <1>2, <1>4, <2>1, <2>2, ConcatProperties DEF Associate
  <2>4. SubSeq(w, 1, Len(a)) = a
    BY <1>4, <2>3, Parted
  <2>5. DecodeFixed(a) = seq
    BY <1>1, <1>2, <1>10, FixedRead
  <2> QED
    BY <1>4, <2>4, <2>5 DEF Sequence
<1> QED
  BY <1>2, <1>3, <1>5, <1>6, <1>7, <1>8, <1>9, <1>10

(* A record in the batch: its type and its slices.                        *)
Entry(r)    == <<r.type>> \o Varstrings(r.slices)
Entries(rs) == [i \in DOMAIN rs |-> Entry(rs[i])]

(* The bytes of a record.                                                 *)
LEMMA EntryFacts ==
  ASSUME NEW r \in Record
  PROVE  /\ r.type \in Byte /\ r.slices \in Seq(Slice)
         /\ Varstrings(r.slices) \in Seq(Byte) /\ Entry(r) \in Seq(Byte)
<1>1. r.type \in {0, 1} /\ r.slices \in Seq(Slice)
  BY DEF Record, kTypeDeletion, kTypeValue
<1>2. r.type \in Byte
  <2>1. 0 \in 0 .. 2 * B - 1 /\ 1 \in 0 .. 2 * B - 1
    BY GroupFacts
  <2> QED
    BY <1>1, <2>1 DEF Byte
<1>3. Varstrings(r.slices) \in Seq(Byte)
  BY <1>1, PiecesFacts, FlattenTyped
<1>4. PICK x, y : x = <<r.type>> /\ y = Varstrings(r.slices)
  OBVIOUS
<1>5. x \in Seq(Byte)
  BY <1>2, <1>4
<1>6. x \o y \in Seq(Byte)
  BY <1>3, <1>4, <1>5, ConcatProperties
<1> QED
  BY <1>1, <1>2, <1>3, <1>4, <1>6 DEF Entry

(* The bytes of records, and the format they make.                        *)
LEMMA EntriesFacts ==
  ASSUME NEW rs \in Seq(Record)
  PROVE  /\ Entries(rs) \in Seq(Seq(Byte)) /\ Len(Entries(rs)) = Len(rs)
         /\ \A i \in 1 .. Len(rs) : Entries(rs)[i] = Entry(rs[i])
         /\ FlattenSeq(Entries(rs)) \in Seq(Byte)
         /\ \A seq : Format(seq, rs) = Numbered(seq, Len(rs)) \o FlattenSeq(Entries(rs))
<1>1. PICK n, e : n = Len(rs) /\ e = Entries(rs)
  OBVIOUS
<1>2. n \in Nat /\ DOMAIN rs = 1 .. n /\ \A i \in 1 .. n : rs[i] \in Record
  BY <1>1
<1>3. e = [i \in 1 .. n |-> Entry(rs[i])]
  BY <1>1, <1>2 DEF Entries
<1>4. \A i \in 1 .. n : Entry(rs[i]) \in Seq(Byte)
  BY <1>2, EntryFacts
<1>5. e \in [1 .. n -> Seq(Byte)]
  BY <1>3, <1>4
<1>6. e \in Seq(Seq(Byte)) /\ Len(e) = n
  BY <1>2, <1>5
<1>7. FlattenSeq(e) \in Seq(Byte)
  BY <1>6, FlattenTyped
<1>8. \A seq : Format(seq, rs) = Numbered(seq, n) \o FlattenSeq(e)
  BY <1>1 DEF Format, Numbered, Entries, Entry
<1> QED
  BY <1>1, <1>3, <1>6, <1>7, <1>8

(* The entries of records in a row are theirs in a row.                   *)
LEMMA EntriesJoined ==
  ASSUME NEW rs \in Seq(Record), NEW ss \in Seq(Record)
  PROVE  /\ rs \o ss \in Seq(Record) /\ Len(rs \o ss) = Len(rs) + Len(ss)
         /\ FlattenSeq(Entries(rs \o ss)) = FlattenSeq(Entries(rs)) \o FlattenSeq(Entries(ss))
<1>1. PICK m, n, c, x, y, z : /\ m = Len(rs) /\ n = Len(ss) /\ c = rs \o ss
                              /\ x = Entries(rs) /\ y = Entries(ss) /\ z = Entries(c)
  OBVIOUS
<1>2. m \in Nat /\ n \in Nat
  BY <1>1
<1>3. /\ c \in Seq(Record) /\ Len(c) = m + n
      /\ \A i \in 1 .. m + n : c[i] = IF i <= m THEN rs[i] ELSE ss[i - m]
  BY <1>1, ConcatProperties
<1>4. /\ x \in Seq(Seq(Byte)) /\ Len(x) = m /\ \A i \in 1 .. m : x[i] = Entry(rs[i])
      /\ y \in Seq(Seq(Byte)) /\ Len(y) = n /\ \A i \in 1 .. n : y[i] = Entry(ss[i])
  BY <1>1, EntriesFacts
<1>5. z \in Seq(Seq(Byte)) /\ Len(z) = m + n /\ \A i \in 1 .. m + n : z[i] = Entry(c[i])
  BY <1>1, <1>3, EntriesFacts
<1>6. PICK u : u = x \o y
  OBVIOUS
<1>7. /\ u \in Seq(Seq(Byte)) /\ Len(u) = m + n
      /\ \A i \in 1 .. m + n : u[i] = IF i <= m THEN x[i] ELSE y[i - m]
  BY <1>4, <1>6, ConcatProperties
<1>8. ASSUME NEW i \in 1 .. m + n PROVE u[i] = z[i]
  <2>1. CASE i <= m
    <3>1. i \in 1 .. m
      BY <1>2, <2>1
    <3>2. u[i] = x[i] /\ c[i] = rs[i] /\ z[i] = Entry(c[i])
      BY <1>3, <1>5, <1>7, <2>1
    <3> QED
      BY <1>4, <3>1, <3>2
  <2>2. CASE ~(i <= m)
    <3>1. PICK j : j = i - m
      OBVIOUS
    <3>2. j \in 1 .. n
      BY <1>2, <2>2, <3>1
    <3>3. y[j] = Entry(ss[j]) /\ c[i] = ss[j] /\ u[i] = y[j]
      BY <1>3, <1>4, <1>7, <2>2, <3>1, <3>2
    <3> QED
      BY <1>5, <3>3
  <2> QED
    BY <2>1, <2>2
<1>9. u = z
  BY <1>5, <1>7, <1>8, SeqEqual
<1>10. FlattenSeq(u) = FlattenSeq(x) \o FlattenSeq(y)
  BY <1>4, <1>6, FlattenConcat
<1> QED
  BY <1>1, <1>3, <1>9, <1>10

(* No records have no bytes.                                              *)
LEMMA NoEntries == Entries(<<>>) = <<>> /\ FlattenSeq(Entries(<<>>)) = <<>>
<1>1. <<>> \in Seq(Record) /\ Len(<<>>) = 0 /\ <<>> \in Seq(Seq(Byte))
  OBVIOUS
<1>2. PICK rs, e : rs = <<>> /\ e = Entries(rs)
  OBVIOUS
<1>3. e \in Seq(Seq(Byte)) /\ Len(e) = 0
  <2>1. rs \in Seq(Record) /\ Len(rs) = 0
    BY <1>1, <1>2
  <2> QED
    BY <1>2, <2>1, EntriesFacts
<1>4. e = <<>>
  BY <1>3, EmptySeq
<1>5. PICK g : Joins(g, e, Byte)
  BY <1>3, Joinable
<1>6. FlattenSeq(e) = g[0]
  BY <1>3, <1>5, JoinedAll
<1> QED
  BY <1>2, <1>4, <1>5, <1>6 DEF Joins

(* The bytes of a single record.                                          *)
LEMMA OneEntry ==
  ASSUME NEW r \in Record
  PROVE  FlattenSeq(Entries(<<r>>)) = Entry(r)
<1>1. PICK x, e : x = Entry(r) /\ e = Entries(<<r>>)
  OBVIOUS
<1>2. x \in Seq(Byte)
  BY <1>1, EntryFacts
<1>3. PICK rs : rs = <<r>>
  OBVIOUS
<1>4. e \in Seq(Seq(Byte)) /\ Len(e) = 1 /\ e[1] = x
  <2>1. rs \in Seq(Record) /\ Len(rs) = 1 /\ rs[1] = r /\ 1 \in 1 .. 1
    BY <1>3
  <2>2. e = Entries(rs)
    BY <1>1, <1>3
  <2> QED
    BY <1>1, <2>1, <2>2, EntriesFacts
<1>5. e = <<x>>
  BY <1>4
<1> QED
  BY <1>1, <1>2, <1>5, FlattenOne

(* A cleared batch is one of no records and sequence number 0.            *)
LEMMA ClearedIs == Cleared = Format(0, <<>>)
<1>1. SEQUENCE_BYTES \in Nat /\ COUNT_BYTES \in Nat /\ kHeader = SEQUENCE_BYTES + COUNT_BYTES
  BY HeaderAssumption DEF kHeader
<1>2. PICK a, b, h : /\ a = EncodeFixed(SEQUENCE_BYTES, 0) /\ b = EncodeFixed(COUNT_BYTES, 0)
                     /\ h = a \o b
  OBVIOUS
<1>3. a \in Seq(Byte) /\ Len(a) = SEQUENCE_BYTES /\ b \in Seq(Byte) /\ Len(b) = COUNT_BYTES
  BY <1>1, <1>2, FixedTyped
<1>4. ASSUME NEW n \in Nat, NEW i \in 1 .. n PROVE EncodeFixed(n, 0)[i] = 0
  <2>1. PICK u, c : u = Octet(i - 1) /\ c = 2 * B
    OBVIOUS
  <2>2. i - 1 \in Nat
    OBVIOUS
  <2>3. u \in Nat \ {0} /\ c \in Nat \ {0}
    BY <2>1, <2>2, OctetFacts
  <2>4. 0 \div u \in Nat /\ 0 \div u <= 0
    BY <2>3, PlaceNat
  <2>5. 0 \div u = 0
    BY <2>4
  <2>6. 0 % c \in Nat /\ 0 % c <= 0
    BY <2>3, ModNat
  <2>7. (0 \div u) % c = 0
    BY <2>5, <2>6
  <2> QED
    BY <2>1, <2>7 DEF EncodeFixed
<1>5. /\ h \in Seq(Byte) /\ Len(h) = kHeader
      /\ \A i \in 1 .. kHeader : h[i] = IF i <= SEQUENCE_BYTES THEN a[i] ELSE b[i - SEQUENCE_BYTES]
  BY <1>1, <1>2, <1>3, ConcatProperties
<1>6. ASSUME NEW i \in 1 .. kHeader PROVE h[i] = 0
  <2>1. CASE i <= SEQUENCE_BYTES
    <3>1. i \in 1 .. SEQUENCE_BYTES
      BY <1>1, <2>1
    <3> QED
      BY <1>1, <1>2, <1>4, <1>5, <2>1, <3>1
  <2>2. CASE ~(i <= SEQUENCE_BYTES)
    <3>1. PICK j : j = i - SEQUENCE_BYTES
      OBVIOUS
    <3>2. j \in 1 .. COUNT_BYTES
      BY <1>1, <2>2, <3>1
    <3>3. b[j] = 0
      BY <1>1, <1>2, <1>4, <3>2
    <3> QED
      BY <1>5, <2>2, <3>1, <3>3
  <2> QED
    BY <2>1, <2>2
<1>7. Cleared \in Seq(Nat) /\ Len(Cleared) = kHeader /\ \A i \in 1 .. kHeader : Cleared[i] = 0
  BY <1>1 DEF Cleared
<1>8. h = Cleared
  <2>1. DOMAIN h = 1 .. kHeader
    BY <1>1, <1>5, LenProperties
  <2>2. h = [i \in 1 .. kHeader |-> h[i]]
    BY <1>5, <2>1
  <2> QED
    BY <1>6, <2>2 DEF Cleared
<1>9. Format(0, <<>>) = h \o FlattenSeq(Entries(<<>>))
  <2>1. PICK rs : rs = <<>>
    OBVIOUS
  <2>2. rs \in Seq(Record) /\ Len(rs) = 0
    BY <2>1
  <2>3. Format(0, rs) = Numbered(0, Len(rs)) \o FlattenSeq(Entries(rs))
    BY <2>2, EntriesFacts
  <2> QED
    BY <1>2, <2>1, <2>2, <2>3 DEF Numbered
<1>10. h \o <<>> = h
  BY <1>5, ConcatEmptySeq
<1> QED
  BY <1>8, <1>9, <1>10, NoEntries

(* An empty batch is given its sequence number.                           *)
LEMMA SequenceSet ==
  ASSUME NEW seq \in Nat
  PROVE  SetSequence(Cleared, seq) = Format(seq, <<>>)
<1>1. SEQUENCE_BYTES \in Nat /\ COUNT_BYTES \in Nat
  BY HeaderAssumption
<1>2. PICK o, a, b, d : /\ o = <<>> /\ a = EncodeFixed(SEQUENCE_BYTES, 0)
                        /\ b = EncodeFixed(COUNT_BYTES, 0) /\ d = EncodeFixed(SEQUENCE_BYTES, seq)
  OBVIOUS
<1>3. /\ o \in Seq(Byte) /\ Len(o) = 0 /\ a \in Seq(Byte) /\ b \in Seq(Byte)
      /\ d \in Seq(Byte) /\ Len(d) = Len(a)
  BY <1>1, <1>2, FixedTyped
<1>4. \A q \in Nat : Format(q, <<>>) = Numbered(q, 0)
  <2> TAKE q \in Nat
  <2>1. PICK rs, h : rs = <<>> /\ h = Numbered(q, 0)
    OBVIOUS
  <2>2. rs \in Seq(Record) /\ Len(rs) = 0 /\ <<>> \in Seq(Byte)
    BY <2>1
  <2>3. Format(q, rs) = h \o FlattenSeq(Entries(rs))
    BY <2>1, <2>2, EntriesFacts
  <2>4. h \in Seq(Byte)
    BY <2>1, <2>2, HeaderFacts
  <2>5. h \o <<>> = h
    BY <2>4, ConcatEmptySeq
  <2> QED
    BY <2>1, <2>3, <2>5, NoEntries
<1>5. Cleared = (o \o a) \o b
  <2>1. Cleared = a \o b
    BY <1>2, <1>4, ClearedIs DEF Numbered
  <2>2. o \o a = a
    BY <1>2, <1>3, ConcatEmptySeq
  <2> QED
    BY <2>1, <2>2
<1>6. Replaces(d, o, a, b)
  BY <1>3, PartOverwritten
<1>7. o \o d = d
  BY <1>2, <1>3, ConcatEmptySeq
<1>8. Overwritten(Cleared, 0, d) = d \o b
  BY <1>3, <1>5, <1>6, <1>7 DEF Replaces
<1> QED
  BY <1>2, <1>4, <1>8 DEF SetSequence, Numbered

(* A record more.                                                         *)
LEMMA RecordAdded ==
  ASSUME NEW seq \in Nat, NEW rs \in Seq(Record), NEW r \in Record,
         Len(rs) + 1 < Octet(COUNT_BYTES)
  PROVE  AddRecord(Format(seq, rs), r) = Format(seq, Append(rs, r))
<1>1. PICK n, f, h, e, v, t : /\ n = Len(rs) /\ f = FlattenSeq(Entries(rs))
                              /\ h = Numbered(seq, n + 1) /\ e = Entry(r)
                              /\ v = Varstrings(r.slices) /\ t = r.type
  OBVIOUS
<1>2. n \in Nat /\ n + 1 \in Nat
  BY <1>1
<1>3. f \in Seq(Byte) /\ Format(seq, rs) = Numbered(seq, n) \o f
  BY <1>1, EntriesFacts
<1>4. t \in Byte /\ r.slices \in Seq(Slice) /\ v \in Seq(Byte) /\ e \in Seq(Byte) /\ e = <<t>> \o v
  BY <1>1, EntryFacts DEF Entry
<1>5. h \in Seq(Byte)
  BY <1>1, <1>2, <1>3, HeaderFacts
<1>6. n < Octet(COUNT_BYTES)
  <2>1. PICK o : o = Octet(COUNT_BYTES)
    OBVIOUS
  <2>2. o \in Nat
    BY <2>1, HeaderAssumption, OctetFacts
  <2> QED
    BY <1>1, <1>2, <2>1, <2>2
<1>7. Count(Format(seq, rs)) = n
  BY <1>2, <1>3, <1>6, HeaderFacts
<1>8. SetCount(Format(seq, rs), n + 1) = h \o f
  <2>1. PICK m, b : m = n + 1 /\ b = Numbered(seq, n) \o f
    OBVIOUS
  <2>2. \A k \in Nat : SetCount(Numbered(seq, n) \o f, k) = Numbered(seq, k) \o f
    BY ONLY <1>2, <1>3, seq \in Nat, HeaderFacts
  <2>3. m \in Nat
    BY <1>2, <2>1
  <2>4. SetCount(b, m) = Numbered(seq, m) \o f
    BY <2>1, <2>2, <2>3
  <2> QED
    BY <1>1, <1>3, <2>1, <2>4
<1>9. PICK x, y : x = h \o f /\ y = Append(x, t)
  OBVIOUS
<1>10. x \in Seq(Byte) /\ y \in Seq(Byte)
  BY <1>3, <1>4, <1>5, <1>9, ConcatProperties
<1>11. y = x \o <<t>>
  BY <1>4, <1>9, <1>10, AppendIsConcat
<1>12. AddRecord(Format(seq, rs), r) = y \o v
  <2>1. PutSlices(y, r.slices) = y \o v
    BY <1>1, <1>4, <1>10, PutIsVarstrings
  <2> QED
    BY <1>1, <1>7, <1>8, <1>9, <2>1 DEF AddRecord
<1>13. y \o v = h \o (f \o e)
  <2>1. PICK q : q = <<t>>
    OBVIOUS
  <2>2. q \in Seq(Byte) /\ y = x \o q /\ e = q \o v
    BY <1>4, <1>11, <2>1
  <2>3. Associate(x, q, v)
    BY <1>4, <1>10, <2>2, Associates
  <2>4. Associate(h, f, e)
    BY <1>3, <1>4, <1>5, Associates
  <2> QED
    BY <1>9, <2>2, <2>3, <2>4 DEF Associate
<1>14. Format(seq, Append(rs, r)) = h \o (f \o e)
  <2>1. PICK q, c : q = <<r>> /\ c = rs \o q
    OBVIOUS
  <2>2. q \in Seq(Record) /\ Len(q) = 1 /\ c = Append(rs, r)
    BY <2>1
  <2>3. c \in Seq(Record) /\ Len(c) = n + 1
        /\ FlattenSeq(Entries(c)) = f \o FlattenSeq(Entries(q))
    BY <1>1, <2>1, <2>2, EntriesJoined
  <2>4. FlattenSeq(Entries(q)) = e
    BY <1>1, <2>1, OneEntry
  <2>5. Format(seq, c) = Numbered(seq, n + 1) \o FlattenSeq(Entries(c))
    BY <2>3, EntriesFacts
  <2> QED
    BY <1>1, <2>2, <2>3, <2>4, <2>5
<1> QED
  BY <1>12, <1>13, <1>14

(* All of a caller's records.                                             *)
LEMMA FilledIs ==
  ASSUME NEW seq \in Nat, NEW records \in Seq(Record), Len(records) < Octet(COUNT_BYTES)
  PROVE  Filled(Format(seq, <<>>), records) = Format(seq, records)
<1> DEFINE N == Len(records)
           rep == Format(seq, <<>>)
           h == [n \in 0 .. N |-> Format(seq, SubSeq(records, 1, n))]
           Eqn(f) == f = [n \in 0 .. N |->
                            IF n = 0 THEN rep ELSE AddRecord(f[n - 1], records[n])]
           filled == CHOOSE f : Eqn(f)
<1>1. Filled(rep, records) = filled[N]
  BY DEF Filled
<1>2. N \in Nat
  OBVIOUS
<1>3. h[0] = rep
  <2>1. SubSeq(records, 1, 0) = <<>> /\ 0 \in 0 .. N
    BY <1>2
  <2> QED
    BY <2>1
<1>4. h[N] = Format(seq, records)
  <2>1. SubSeq(records, 1, N) = records /\ N \in 0 .. N
    BY <1>2, SubSeqFull
  <2> QED
    BY <2>1
<1>5. ASSUME NEW n \in 1 .. N PROVE h[n] = AddRecord(h[n - 1], records[n])
  <2>1. n \in 0 .. N /\ n - 1 \in 0 .. N /\ n - 1 \in Nat /\ n \in Nat /\ n <= N
    BY <1>2
  <2>2. PICK a, b, r : a = SubSeq(records, 1, n - 1) /\ b = SubSeq(records, 1, n) /\ r = records[n]
    OBVIOUS
  <2>3. h[n] = Format(seq, b) /\ h[n - 1] = Format(seq, a)
    BY <2>1, <2>2
  <2> HIDE DEF h, rep
  <2>4. /\ a \in Seq(Record) /\ Len(a) = n - 1 /\ \A i \in 1 .. n - 1 : a[i] = records[i]
        /\ b \in Seq(Record) /\ Len(b) = n /\ \A i \in 1 .. n : b[i] = records[i]
        /\ r \in Record
    BY <2>1, <2>2
  <2>5. b = Append(a, r)
    <3>1. PICK c : c = Append(a, r)
      OBVIOUS
    <3>2. /\ c \in Seq(Record) /\ Len(c) = (n - 1) + 1
          /\ \A i \in 1 .. (n - 1) + 1 : c[i] = IF i = (n - 1) + 1 THEN r ELSE a[i]
      BY <2>1, <2>4, <3>1
    <3>3. (n - 1) + 1 = n /\ \A i \in 1 .. n : i = n \/ i \in 1 .. n - 1
      BY <2>1
    <3>4. \A i \in 1 .. n : c[i] = b[i]
      BY <2>2, <2>4, <3>2, <3>3
    <3>5. c = b
      BY <2>4, <3>2, <3>3, <3>4, SeqEqual
    <3> QED
      BY <3>1, <3>5
  <2>6. Len(a) + 1 < Octet(COUNT_BYTES)
    <3>1. PICK o : o = Octet(COUNT_BYTES)
      OBVIOUS
    <3>2. o \in Nat /\ N < o
      BY <3>1, HeaderAssumption, OctetFacts
    <3> QED
      BY <1>2, <2>1, <2>4, <3>1, <3>2
  <2>7. AddRecord(Format(seq, a), r) = Format(seq, Append(a, r))
    BY <2>4, <2>6, RecordAdded
  <2> QED
    BY <2>2, <2>3, <2>5, <2>7
<1>6. h = [n \in 0 .. N |-> h[n]]
  OBVIOUS
<1> HIDE DEF h, rep
<1>7. Eqn(h)
  <2>1. \A n \in 0 .. N : h[n] = IF n = 0 THEN rep ELSE AddRecord(h[n - 1], records[n])
    <3>1. \A n \in 0 .. N : n = 0 \/ n \in 1 .. N
      BY <1>2
    <3> QED
      BY <1>3, <1>5, <3>1
  <2> QED
    BY <1>6, <2>1
<1>8. Eqn(filled)
  <2> HIDE DEF Eqn
  <2> QED
    BY <1>7
<1> HIDE DEF filled
<1>9. filled[0] = rep /\ \A n \in 1 .. N : filled[n] = AddRecord(filled[n - 1], records[n])
  <2>1. 0 \in 0 .. N /\ \A n \in 1 .. N : n \in 0 .. N /\ n # 0
    BY <1>2
  <2> QED
    BY <1>8, <2>1
<1> HIDE DEF Eqn
<1> DEFINE T == {n \in Nat : filled[n] = h[n]}
<1>10. 0 \in T /\ T \in SUBSET Nat
  BY <1>3, <1>9
<1>11. ASSUME NEW n \in 0 .. N - 1, n \in T PROVE n + 1 \in T
  <2>1. n + 1 \in 1 .. N /\ (n + 1) - 1 = n /\ n + 1 \in Nat
    BY <1>2
  <2>2. filled[n] = h[n]
    BY <1>11
  <2>3. filled[n + 1] = AddRecord(h[n], records[n + 1])
    BY <1>9, <2>1, <2>2
  <2>4. h[n + 1] = AddRecord(h[n], records[n + 1])
    BY <1>5, <2>1
  <2> QED
    BY <2>1, <2>3, <2>4
<1> HIDE DEF T
<1>12. \A n \in 0 .. N : n \in T
  <2> HIDE DEF N
  <2> QED
    BY <1>2, <1>10, <1>11, UpTo
<1>13. filled[N] = h[N]
  <2>1. N \in 0 .. N
    BY <1>2
  <2>2. N \in T
    BY <1>12, <2>1
  <2> QED
    BY <2>2 DEF T
<1> QED
  BY <1>1, <1>4, <1>13 DEF rep

(* Another batch without its header goes behind, and is counted.          *)
LEMMA BatchAppended ==
  ASSUME NEW seq \in Nat, NEW rs \in Seq(Record), NEW ss \in Seq(Record),
         Len(rs) + Len(ss) < Octet(COUNT_BYTES)
  PROVE  AppendBatch(Format(seq, rs), Format(0, ss)) = Format(seq, rs \o ss)
<1>1. PICK m, n, f, g, h, x, y : /\ m = Len(rs) /\ n = Len(ss) /\ f = FlattenSeq(Entries(rs))
                                 /\ g = FlattenSeq(Entries(ss)) /\ h = Numbered(seq, m + n)
                                 /\ x = Format(seq, rs) /\ y = Format(0, ss)
  OBVIOUS
<1>2. m \in Nat /\ n \in Nat /\ m + n \in Nat
  BY <1>1
<1>3. f \in Seq(Byte) /\ x = Numbered(seq, m) \o f
  BY <1>1, EntriesFacts
<1>4. g \in Seq(Byte) /\ y = Numbered(0, n) \o g
  BY <1>1, EntriesFacts
<1>5. h \in Seq(Byte)
  BY <1>1, <1>2, <1>3, HeaderFacts
<1>6. m < Octet(COUNT_BYTES) /\ n < Octet(COUNT_BYTES)
  <2>1. PICK o : o = Octet(COUNT_BYTES)
    OBVIOUS
  <2>2. o \in Nat /\ m + n < o
    BY <1>1, <2>1, HeaderAssumption, OctetFacts
  <2> QED
    BY <1>2, <2>1, <2>2
<1>7. Count(x) = m
  BY <1>2, <1>3, <1>6, HeaderFacts
<1>8. Count(y) = n
  <2>1. 0 \in Nat
    OBVIOUS
  <2> QED
    BY <1>2, <1>4, <1>6, <2>1, HeaderFacts
<1>9. SetCount(x, m + n) = h \o f
  <2>1. PICK k : k = m + n
    OBVIOUS
  <2>2. \A j \in Nat : SetCount(Numbered(seq, m) \o f, j) = Numbered(seq, j) \o f
    BY ONLY <1>2, <1>3, seq \in Nat, HeaderFacts
  <2>3. SetCount(x, k) = Numbered(seq, k) \o f
    BY <1>2, <1>3, <2>1, <2>2
  <2> QED
    BY <1>1, <2>1, <2>3
<1>10. SubSeq(y, kHeader + 1, Len(y)) = g
  <2>1. PICK z : z = 0
    OBVIOUS
  <2>2. z \in Nat /\ y = Numbered(z, n) \o g
    BY <1>4, <2>1
  <2>3. BodyOf(Numbered(z, n) \o g) = g
    BY <1>2, <1>4, <2>2, HeaderFacts
  <2> QED
    BY <2>2, <2>3 DEF BodyOf
<1>11. AppendBatch(x, y) = (h \o f) \o g
  BY <1>7, <1>8, <1>9, <1>10 DEF AppendBatch
<1>12. Format(seq, rs \o ss) = h \o (f \o g)
  <2>1. PICK c : c = rs \o ss
    OBVIOUS
  <2>2. c \in Seq(Record) /\ Len(c) = m + n /\ FlattenSeq(Entries(c)) = f \o g
    BY <1>1, <2>1, EntriesJoined
  <2>3. Format(seq, c) = Numbered(seq, Len(c)) \o FlattenSeq(Entries(c))
    BY <2>2, EntriesFacts
  <2> QED
    BY <1>1, <2>1, <2>2, <2>3
<1>13. Associate(h, f, g)
  BY <1>3, <1>4, <1>5, Associates
<1> QED
  BY <1>1, <1>11, <1>12, <1>13 DEF Associate

(* What is read from the header of a batch of the format.                 *)
LEMMA FormatRead ==
  ASSUME NEW seq \in 0 .. Octet(SEQUENCE_BYTES) - 1,
         NEW rs \in Seq(Record), Len(rs) < Octet(COUNT_BYTES)
  PROVE  Count(Format(seq, rs)) = Len(rs) /\ Sequence(Format(seq, rs)) = seq
<1>1. PICK n, f : n = Len(rs) /\ f = FlattenSeq(Entries(rs))
  OBVIOUS
<1>2. PICK o : o = Octet(SEQUENCE_BYTES)
  OBVIOUS
<1>3. o \in Nat /\ seq \in 0 .. o - 1
  BY <1>2, HeaderAssumption, OctetFacts
<1>4. seq \in Nat /\ seq < Octet(SEQUENCE_BYTES)
  BY <1>2, <1>3
<1>5. n \in Nat /\ f \in Seq(Byte) /\ Format(seq, rs) = Numbered(seq, n) \o f
  <2>1. FlattenSeq(Entries(rs)) \in Seq(Byte)
    BY EntriesFacts
  <2>2. Format(seq, rs) = Numbered(seq, Len(rs)) \o FlattenSeq(Entries(rs))
    BY EntriesFacts
  <2> QED
    BY <1>1, <2>1, <2>2
<1>6. Count(Numbered(seq, n) \o f) = n
  BY <1>1, <1>4, <1>5, HeaderFacts
<1>7. Sequence(Numbered(seq, n) \o f) = seq
  BY <1>4, <1>5, HeaderFacts
<1> QED
  BY <1>1, <1>5, <1>6, <1>7

(* A call of Append keeps BatchesFormatted, and so do all the others.     *)
LEMMA BatchesStep ==
  ASSUME call \in Calls, BatchesFormatted, [Next]_vars
  PROVE  BatchesFormatted'
<1>1. CASE UNCHANGED vars
  BY <1>1 DEF vars, BatchesFormatted, Returned
<1>2. CASE UNCHANGED call /\ Append_
  <2>1. PICK seq, rs, ss : seq = call.seq /\ rs = call.dst /\ ss = call.src
    OBVIOUS
  <2>2. rs \in Batches /\ ss \in Batches /\ seq \in SequenceNumbers
    BY <1>2, <2>1, Arguments DEF Append_, Calling
  <2>3. rs \in Seq(Record) /\ Len(rs) + Len(ss) < Octet(COUNT_BYTES)
    BY <2>2, InputsAssumption
  <2>4. ss \in Seq(Record)
    BY <2>2, InputsAssumption
  <2>5. seq \in 0 .. Octet(SEQUENCE_BYTES) - 1
    BY <2>2, InputsAssumption
  <2>6. seq \in Nat
    <3>1. PICK o : o = Octet(SEQUENCE_BYTES)
      OBVIOUS
    <3>2. o \in Nat /\ seq \in 0 .. o - 1
      BY <2>5, <3>1, HeaderAssumption, OctetFacts
    <3> QED
      BY <3>2
  <2>7. Len(rs) < Octet(COUNT_BYTES) /\ Len(ss) < Octet(COUNT_BYTES)
    <3>1. PICK o, m, n : o = Octet(COUNT_BYTES) /\ m = Len(rs) /\ n = Len(ss)
      OBVIOUS
    <3>2. o \in Nat /\ m \in Nat /\ n \in Nat /\ m + n < o
      BY <2>3, <2>4, <3>1, HeaderAssumption, OctetFacts
    <3> QED
      BY <3>1, <3>2
  <2>8. Filled(SetSequence(Cleared, seq), rs) = Format(seq, rs)
    BY <2>3, <2>6, <2>7, SequenceSet, FilledIs
  <2>9. Filled(Cleared, ss) = Format(0, ss)
    BY <2>4, <2>7, ClearedIs, FilledIs
  <2>10. result' = <<Format(seq, rs \o ss)>>
    <3>1. AppendBatch(Format(seq, rs), Format(0, ss)) = Format(seq, rs \o ss)
      BY <2>3, <2>4, <2>6, BatchAppended
    <3> QED
      BY <1>2, <2>1, <2>8, <2>9, <3>1 DEF Append_
  <2>11. PICK c, w : c = rs \o ss /\ w = Format(seq, c)
    OBVIOUS
  <2>12. c \in Seq(Record) /\ Len(c) = Len(rs) + Len(ss)
    BY <2>3, <2>4, <2>11, EntriesJoined
  <2>13. Count(w) = Len(c) /\ Sequence(w) = seq
    BY <2>3, <2>5, <2>11, <2>12, FormatRead
  <2>14. result'[1] = w
    BY <2>10, <2>11
  <2> QED
    BY <1>2, <2>1, <2>11, <2>12, <2>13, <2>14 DEF BatchesFormatted
<1>3. CASE UNCHANGED call /\ call.fn # "Append"
  BY <1>3 DEF BatchesFormatted, Returned
<1> QED
  BY <1>1, <1>2, <1>3, CallMade

(* A batch that another is appended to has the format of all the records, *)
(* in their order, with their number and the sequence number of the first *)
(* batch, whatever the widths of the two fields.                          *)
THEOREM BatchesAreFormatted == Spec => []BatchesFormatted
<1>1. Init => call \in Calls /\ BatchesFormatted
  BY DEF Init, BatchesFormatted, Returned
<1>2. call \in Calls /\ BatchesFormatted /\ [Next]_vars => (call \in Calls /\ BatchesFormatted)'
  BY CallsKept, BatchesStep
<1> QED
  BY <1>1, <1>2, PTL DEF Spec

-----------------------------------------------------------------------------
(* Sections are kept as they are written *)

LastHeader(lines, n, h) ==
  /\ h \in 0 .. n /\ (h = 0 \/ IsHeader(lines, h))
  /\ \A j \in 1 .. n : IsHeader(lines, j) => j <= h

(* HeaderOf is the last header up to a line, or 0.                        *)
LEMMA HeaderIs ==
  ASSUME NEW lines, NEW n \in Nat
  PROVE  LastHeader(lines, n, HeaderOf(lines, n))
<1>1. PICK above, T : above = {j \in 1 .. n : IsHeader(lines, j)} /\ T = above \cup {0}
  OBVIOUS
<1>2. T \in SUBSET (0 .. n) /\ T # {} /\ T \in SUBSET Int
  BY <1>1
<1>3. PICK h \in T : \A j \in T : h >= j
  BY <1>2, Greatest
<1>4. Max(T) = h
  BY <1>2, <1>3, MaxIs
<1>5. HeaderOf(lines, n) = h
  BY <1>1, <1>4 DEF HeaderOf
<1>6. h \in 0 .. n /\ (h = 0 \/ IsHeader(lines, h))
  BY <1>1, <1>2, <1>3
<1>7. ASSUME NEW j \in 1 .. n, IsHeader(lines, j) PROVE j <= h
  <2>1. j \in T /\ h \in Int
    BY <1>1, <1>6, <1>7
  <2> QED
    BY <1>3, <2>1
<1> QED
  BY <1>5, <1>6, <1>7 DEF LastHeader

(* Only a header changes the section that lines belong to.                *)
LEMMA NextHeader ==
  ASSUME NEW lines, NEW n \in Nat
  PROVE  HeaderOf(lines, n + 1) = IF IsHeader(lines, n + 1) THEN n + 1 ELSE HeaderOf(lines, n)
<1>1. PICK m, g, h : m = n + 1 /\ g = HeaderOf(lines, n) /\ h = HeaderOf(lines, m)
  OBVIOUS
<1>2. m \in Nat /\ m \in 1 .. m /\ \A j \in 1 .. n : j \in 1 .. m
  BY <1>1
<1>3. LastHeader(lines, n, g) /\ LastHeader(lines, m, h)
  BY <1>1, <1>2, HeaderIs
<1>4. CASE IsHeader(lines, m)
  <2>1. m <= h /\ h \in 0 .. m
    BY <1>2, <1>3, <1>4 DEF LastHeader
  <2>2. h = m
    BY <1>2, <2>1
  <2> QED
    BY <1>1, <1>4, <2>2
<1>5. CASE ~IsHeader(lines, m)
  <2>1. h # m \/ h = 0
    BY <1>3, <1>5 DEF LastHeader
  <2>2. h \in 0 .. n
    BY <1>1, <1>2, <1>3, <2>1 DEF LastHeader
  <2>3. g <= h
    <3>1. g = 0 \/ (g \in 1 .. n /\ IsHeader(lines, g))
      BY <1>3 DEF LastHeader
    <3>2. g \in 1 .. n /\ IsHeader(lines, g) => g <= h
      BY <1>2, <1>3 DEF LastHeader
    <3> QED
      BY <2>2, <3>1, <3>2
  <2>4. h <= g
    <3>1. h = 0 \/ (h \in 1 .. n /\ IsHeader(lines, h))
      BY <1>3, <2>2 DEF LastHeader
    <3>2. g \in 0 .. n
      BY <1>3 DEF LastHeader
    <3>3. h \in 1 .. n /\ IsHeader(lines, h) => h <= g
      BY <1>3 DEF LastHeader
    <3> QED
      BY <3>1, <3>2, <3>3
  <2>5. g \in 0 .. n
    BY <1>3 DEF LastHeader
  <2>6. h = g
    BY <2>2, <2>3, <2>4, <2>5
  <2> QED
    BY <1>1, <1>5, <2>6
<1> QED
  BY <1>4, <1>5

(* The maps of strings, and the states of the parser.                     *)
Maps(V) == UNION {[D -> V] : D \in SUBSET STRING}
ParserState == [sections : Maps(Maps(STRING)), aborted : BOOLEAN,
                curr : [name : STRING \cup {NoName}, data : Maps(STRING)]]

(* Maps stay maps.                                                        *)
LEMMA MapFacts ==
  ASSUME NEW V
  PROVE  /\ <<>> \in Maps(V)
         /\ \A map \in Maps(V), k \in STRING, x \in V : With(map, k, x) \in Maps(V)
<1>1. <<>> \in Maps(V)
  <2>1. <<>> \in [{} -> V]
    OBVIOUS
  <2> QED
    BY <2>1 DEF Maps
<1>2. ASSUME NEW map \in Maps(V), NEW k \in STRING, NEW x \in V
      PROVE  With(map, k, x) \in Maps(V)
  <2>1. PICK D \in SUBSET STRING : map \in [D -> V]
    BY DEF Maps
  <2>2. PICK E : E = D \cup {k}
    OBVIOUS
  <2>3. E \in SUBSET STRING
    BY <2>2
  <2>4. With(map, k, x) = [j \in E |-> IF j = k THEN x ELSE map[j]]
    BY <2>1, <2>2 DEF With
  <2>5. With(map, k, x) \in [E -> V]
    BY <2>1, <2>2, <2>4
  <2> QED
    BY <2>3, <2>5 DEF Maps
<1> QED
  BY <1>1, <1>2

IsWith(next, map, k, x) ==
  /\ DOMAIN next = DOMAIN map \cup {k} /\ next[k] = x
  /\ \A j \in DOMAIN map : j # k => next[j] = map[j]

(* What a map with x for k maps.                                          *)
LEMMA WithIs ==
  ASSUME NEW map, NEW k, NEW x
  PROVE  IsWith(With(map, k, x), map, k, x)
BY DEF With, IsWith

(* What a line of each kind has.                                          *)
LEMMA LineFacts ==
  ASSUME NEW line \in Line
  PROVE  /\ line.kind \in {"section", "pair", "other"}
         /\ line.kind = "section" => line.name \in STRING
         /\ line.kind = "pair" => line.key \in STRING /\ line.value \in STRING
BY DEF Line, Other

(* The finished sections are a map of maps.                               *)
LEMMA FinishedTyped ==
  ASSUME NEW st \in ParserState
  PROVE  Finished(st) \in Maps(Maps(STRING))
<1>1. PICK V : V = Maps(STRING)
  OBVIOUS
<1>2. st.sections \in Maps(V) /\ st.curr.name \in STRING \cup {NoName} /\ st.curr.data \in V
  BY <1>1 DEF ParserState
<1>3. st.curr.name # NoName => With(st.sections, st.curr.name, st.curr.data) \in Maps(V)
  BY <1>2, MapFacts
<1> QED
  BY <1>1, <1>2, <1>3 DEF Finished, Emplaced

(* A turn of the loop, by what the line is.                               *)
LEMMA TurnTaken ==
  ASSUME NEW st \in ParserState, NEW line \in Line
  PROVE  LET next == ReadLine(st, line)
         IN  /\ next \in ParserState
             /\ st.aborted \/ line.kind = "other" => next = st
             /\ ~st.aborted /\ line.kind = "section" =>
                  /\ ~next.aborted /\ next.sections = Finished(st)
                  /\ next.curr.name = line.name /\ next.curr.data = <<>>
             /\ ~st.aborted /\ line.kind = "pair" /\ st.curr.name = NoName => next.aborted
             /\ ~st.aborted /\ line.kind = "pair" /\ st.curr.name # NoName =>
                  /\ ~next.aborted /\ next.sections = st.sections
                  /\ next.curr.name = st.curr.name
                  /\ next.curr.data = With(st.curr.data, line.key, line.value)
<1>1. PICK V, W, next : V = Maps(STRING) /\ W = Maps(V) /\ next = ReadLine(st, line)
  OBVIOUS
<1>2. /\ st \in [sections : W, aborted : BOOLEAN, curr : [name : STRING \cup {NoName}, data : V]]
      /\ <<>> \in V /\ Finished(st) \in W
  BY <1>1, MapFacts, FinishedTyped DEF ParserState
<1>3. CASE st.aborted \/ line.kind = "other"
  <2>1. next = st
    BY <1>1, <1>3 DEF ReadLine
  <2> QED
    BY <1>1, <1>3, <2>1
<1>4. CASE ~st.aborted /\ line.kind = "section"
  <2>1. next = [st EXCEPT !.sections = Finished(st),
                          !.curr = [name |-> line.name, data |-> <<>>]]
    BY <1>1, <1>4 DEF ReadLine
  <2>2. line.name \in STRING
    BY <1>4, LineFacts
  <2>3. /\ next \in [sections : W, aborted : BOOLEAN, curr : [name : STRING \cup {NoName}, data : V]]
        /\ next.aborted = st.aborted /\ next.sections = Finished(st)
        /\ next.curr.name = line.name /\ next.curr.data = <<>>
    BY <1>2, <2>1, <2>2
  <2> QED
    BY <1>1, <1>4, <2>3 DEF ParserState
<1>5. CASE ~st.aborted /\ line.kind = "pair" /\ st.curr.name = NoName
  <2>1. next = [st EXCEPT !.aborted = TRUE]
    BY <1>1, <1>5 DEF ReadLine
  <2>2. /\ next \in [sections : W, aborted : BOOLEAN, curr : [name : STRING \cup {NoName}, data : V]]
        /\ next.aborted = TRUE
    BY <1>2, <2>1
  <2> QED
    BY <1>1, <1>5, <2>2 DEF ParserState
<1>6. CASE ~st.aborted /\ line.kind = "pair" /\ st.curr.name # NoName
  <2>1. PICK d : d = With(st.curr.data, line.key, line.value)
    OBVIOUS
  <2>2. next = [st EXCEPT !.curr.data = d]
    BY <1>1, <1>6, <2>1 DEF ReadLine
  <2>3. d \in V
    <3>1. line.key \in STRING /\ line.value \in STRING
      BY <1>6, LineFacts
    <3>2. st.curr.data \in Maps(STRING)
      BY <1>1, <1>2
    <3> QED
      BY <1>1, <2>1, <3>1, <3>2, MapFacts
  <2>4. /\ next \in [sections : W, aborted : BOOLEAN, curr : [name : STRING \cup {NoName}, data : V]]
        /\ next.aborted = st.aborted /\ next.sections = st.sections
        /\ next.curr.name = st.curr.name /\ next.curr.data = d
    BY <1>2, <2>2, <2>3
  <2> QED
    BY <1>1, <1>6, <2>1, <2>4 DEF ParserState
<1>7. line.kind \in {"section", "pair", "other"} /\ st.aborted \in BOOLEAN
  BY <1>2, LineFacts
<1> QED
  BY <1>3, <1>4, <1>5, <1>6, <1>7

(* What the first n lines say of the section with header h, and of all    *)
(* the sections with headers before b.                                    *)
PairsUpTo(lines, n, h) == {i \in 1 .. n : lines[i].kind = "pair" /\ HeaderOf(lines, i) = h}

Said(lines, n, h, data) ==
  /\ DOMAIN data = {lines[i].key : i \in PairsUpTo(lines, n, h)}
  /\ \A i \in PairsUpTo(lines, n, h) :
       \/ data[lines[i].key] = lines[i].value
       \/ \E j \in PairsUpTo(lines, n, h) : j > i /\ lines[j].key = lines[i].key

FirstBefore(lines, b) == {g \in FirstHeaders(lines) : g < b}

KeptBefore(lines, n, b, sections) ==
  /\ DOMAIN sections = {lines[g].name : g \in FirstBefore(lines, b)}
  /\ \A g \in FirstBefore(lines, b) : Said(lines, n, g, sections[lines[g].name])

Named(lines, h) == h # 0 /\ lines[h].name # NoName
OrphanUpTo(lines, n) == \E i \in 1 .. n : i \in Orphans(lines)

(* The state of the parser behind the first n lines.                      *)
ReadInv(lines, n, st) ==
  /\ st \in ParserState
  /\ st.aborted <=> OrphanUpTo(lines, n)
  /\ ~st.aborted =>
       LET h == HeaderOf(lines, n)
       IN  /\ st.curr.name # NoName <=> Named(lines, h)
           /\ Named(lines, h) =>
                st.curr.name = lines[h].name /\ Said(lines, n, h, st.curr.data)
           /\ KeptBefore(lines, n, h, st.sections)

(* What makes a header the first of its name.                             *)
LEMMA FirstHeaderIs ==
  ASSUME NEW lines \in Seq(Line), NEW g
  PROVE  g \in FirstHeaders(lines) <=>
           /\ g \in 1 .. Len(lines) /\ IsHeader(lines, g) /\ lines[g].name # NoName
           /\ \A j \in 1 .. g - 1 : IsHeader(lines, j) => lines[j].name # lines[g].name
<1>1. DOMAIN lines = 1 .. Len(lines)
  BY LenProperties
<1> QED
  BY <1>1 DEF FirstHeaders

(* Two first headers have different names.                                *)
LEMMA FirstHeadersDiffer ==
  ASSUME NEW lines \in Seq(Line), NEW g \in FirstHeaders(lines), NEW h \in FirstHeaders(lines),
         lines[g].name = lines[h].name
  PROVE  g = h
<1>1. /\ g \in 1 .. Len(lines) /\ IsHeader(lines, g)
      /\ \A j \in 1 .. g - 1 : IsHeader(lines, j) => lines[j].name # lines[g].name
  BY FirstHeaderIs
<1>2. /\ h \in 1 .. Len(lines) /\ IsHeader(lines, h)
      /\ \A j \in 1 .. h - 1 : IsHeader(lines, j) => lines[j].name # lines[h].name
  BY FirstHeaderIs
<1>3. Len(lines) \in Nat
  OBVIOUS
<1>4. ~(g < h)
  <2>1. g < h => g \in 1 .. h - 1
    BY <1>1, <1>2, <1>3
  <2> QED
    BY <1>1, <1>2, <2>1
<1>5. ~(h < g)
  <2>1. h < g => h \in 1 .. g - 1
    BY <1>1, <1>2, <1>3
  <2> QED
    BY <1>1, <1>2, <2>1
<1> QED
  BY <1>1, <1>2, <1>3, <1>4, <1>5

(* A header whose name is not that of a first header before it is first.  *)
LEMMA IsFirst ==
  ASSUME NEW lines \in Seq(Line), NEW h \in 1 .. Len(lines), IsHeader(lines, h),
         lines[h].name # NoName,
         \A g \in FirstBefore(lines, h) : lines[g].name # lines[h].name
  PROVE  h \in FirstHeaders(lines)
<1>1. SUFFICES ASSUME NEW j \in 1 .. h - 1, IsHeader(lines, j), lines[j].name = lines[h].name
               PROVE  FALSE
  BY FirstHeaderIs
<1>2. PICK T : T = {k \in 1 .. h - 1 : IsHeader(lines, k) /\ lines[k].name = lines[h].name}
  OBVIOUS
<1>3. h \in Nat /\ Len(lines) \in Nat /\ h <= Len(lines)
  OBVIOUS
<1>4. T \in SUBSET Nat /\ T # {}
  BY <1>1, <1>2, <1>3
<1>5. PICK g \in T : \A k \in T : g <= k
  BY <1>4, Least
<1>6. /\ g \in 1 .. Len(lines) /\ g \in 1 .. h - 1 /\ g < h
      /\ IsHeader(lines, g) /\ lines[g].name = lines[h].name
  BY <1>2, <1>3, <1>5
<1>7. ASSUME NEW k \in 1 .. g - 1, IsHeader(lines, k) PROVE lines[k].name # lines[g].name
  <2>1. k \in 1 .. h - 1 /\ ~(g <= k)
    BY <1>3, <1>6
  <2>2. k \notin T
    BY <1>5, <2>1
  <2> QED
    BY <1>2, <1>6, <1>7, <2>1, <2>2
<1>8. g \in FirstHeaders(lines)
  BY <1>6, <1>7, FirstHeaderIs
<1>9. g \in FirstBefore(lines, h)
  BY <1>6, <1>8 DEF FirstBefore
<1> QED
  BY <1>6, <1>9

(* Between the last header and line n stands no other.                    *)
LEMMA FirstUpTo ==
  ASSUME NEW lines \in Seq(Line), NEW n \in Nat, NEW h, h = HeaderOf(lines, n)
  PROVE  FirstBefore(lines, n + 1) =
           IF h \in FirstHeaders(lines) THEN FirstBefore(lines, h) \cup {h}
           ELSE FirstBefore(lines, h)
<1>1. h \in 0 .. n /\ \A j \in 1 .. n : IsHeader(lines, j) => j <= h
  BY HeaderIs DEF LastHeader
<1>2. ASSUME NEW g \in FirstHeaders(lines)
      PROVE  g < n + 1 <=> g < h \/ g = h
  <2>1. g \in 1 .. Len(lines) /\ IsHeader(lines, g) /\ g \in Nat
    BY FirstHeaderIs
  <2>2. g < n + 1 => g \in 1 .. n
    BY <2>1
  <2>3. g < n + 1 => g <= h
    BY <1>1, <2>1, <2>2
  <2> QED
    BY <1>1, <2>1, <2>3
<1> QED
  BY <1>2 DEF FirstBefore

(* The section that is finished is kept, unless one of its name is.       *)
LEMMA FinishedKeeps ==
  ASSUME NEW lines \in Seq(Line), NEW n \in 0 .. Len(lines), NEW st,
         ReadInv(lines, n, st), ~st.aborted
  PROVE  KeptBefore(lines, n, n + 1, Finished(st))
<1>1. PICK h, secs, name, data : /\ h = HeaderOf(lines, n) /\ secs = st.sections
                                 /\ name = st.curr.name /\ data = st.curr.data
  OBVIOUS
<1>2. /\ name # NoName <=> Named(lines, h)
      /\ Named(lines, h) => name = lines[h].name /\ Said(lines, n, h, data)
      /\ KeptBefore(lines, n, h, secs)
  BY <1>1 DEF ReadInv
<1>3. n \in Nat /\ Len(lines) \in Nat /\ n <= Len(lines)
  OBVIOUS
<1>4. LastHeader(lines, n, h)
  BY <1>1, <1>3, HeaderIs
<1>5. PICK P, Q : P = FirstBefore(lines, h) /\ Q = FirstBefore(lines, n + 1)
  OBVIOUS
<1>6. Q = IF h \in FirstHeaders(lines) THEN P \cup {h} ELSE P
  BY <1>1, <1>3, <1>5, FirstUpTo
<1>7. /\ DOMAIN secs = {lines[g].name : g \in P}
      /\ \A g \in P : Said(lines, n, g, secs[lines[g].name])
  BY <1>2, <1>5 DEF KeptBefore
<1>8. CASE h \notin FirstHeaders(lines) /\ (name = NoName \/ name \in DOMAIN secs)
  <2>1. Finished(st) = secs
    BY <1>1, <1>8 DEF Finished, Emplaced
  <2> QED
    BY <1>5, <1>6, <1>7, <1>8, <2>1 DEF KeptBefore
<1>9. CASE h \in FirstHeaders(lines)
  <2>1. h \in 1 .. Len(lines) /\ IsHeader(lines, h) /\ lines[h].name # NoName
    BY <1>9, FirstHeaderIs
  <2>2. Named(lines, h)
    BY <2>1 DEF Named
  <2>3. name # NoName /\ name = lines[h].name /\ Said(lines, n, h, data)
    BY <1>2, <2>2
  <2>4. \A g \in P : lines[g].name # name
    <3>1. \A g \in P : g \in FirstHeaders(lines) /\ g # h
      BY <1>5, <2>1 DEF FirstBefore
    <3> QED
      BY <1>9, <2>3, <3>1, FirstHeadersDiffer
  <2>5. name \notin DOMAIN secs
    BY <1>7, <2>4
  <2>6. PICK next : next = With(secs, name, data)
    OBVIOUS
  <2>7. Finished(st) = next
    BY <1>1, <2>3, <2>5, <2>6 DEF Finished, Emplaced
  <2>8. /\ DOMAIN next = DOMAIN secs \cup {name} /\ next[name] = data
        /\ \A j \in DOMAIN secs : j # name => next[j] = secs[j]
    <3>1. IsWith(next, secs, name, data)
      BY <2>6, WithIs
    <3> QED
      BY <3>1 DEF IsWith
  <2>9. Q = P \cup {h}
    BY <1>6, <1>9
  <2>10. DOMAIN next = {lines[g].name : g \in Q}
    BY <1>7, <2>3, <2>8, <2>9
  <2>11. ASSUME NEW g \in Q PROVE Said(lines, n, g, next[lines[g].name])
    <3>1. CASE g = h
      <4>1. next[lines[g].name] = data
        BY <2>3, <2>8, <3>1
      <4> QED
        BY <2>3, <3>1, <4>1
    <3>2. CASE g \in P
      <4>1. lines[g].name \in DOMAIN secs /\ lines[g].name # name
        BY <1>7, <2>4, <3>2
      <4>2. next[lines[g].name] = secs[lines[g].name]
        BY <2>8, <4>1
      <4> QED
        BY <1>7, <3>2, <4>2
    <3> QED
      BY <2>9, <3>1, <3>2
  <2> QED
    BY <1>5, <2>7, <2>10, <2>11 DEF KeptBefore
<1>10. ASSUME name # NoName, name \notin DOMAIN secs PROVE h \in FirstHeaders(lines)
  <2>1. h # 0 /\ lines[h].name # NoName /\ name = lines[h].name
    BY <1>2, <1>10 DEF Named
  <2>2. h \in 1 .. Len(lines) /\ IsHeader(lines, h)
    BY <1>3, <1>4, <2>1 DEF LastHeader
  <2>3. \A g \in P : lines[g].name # lines[h].name
    BY <1>7, <1>10, <2>1
  <2> QED
    BY <1>5, <2>1, <2>2, <2>3, IsFirst
<1> QED
  BY <1>8, <1>9, <1>10

(* The state in which the parser begins.                                  *)
LEMMA ReadStart ==
  ASSUME NEW lines, NEW st,
         st = [sections |-> <<>>, aborted |-> FALSE, curr |-> [name |-> NoName, data |-> <<>>]]
  PROVE  ReadInv(lines, 0, st)
<1>1. st \in ParserState
  <2>1. PICK V, W : V = Maps(STRING) /\ W = Maps(V)
    OBVIOUS
  <2>2. <<>> \in V /\ <<>> \in W
    BY <2>1, MapFacts
  <2>3. st \in [sections : W, aborted : BOOLEAN, curr : [name : STRING \cup {NoName}, data : V]]
    BY <2>2
  <2> QED
    BY <2>1, <2>3 DEF ParserState
<1>2. ~st.aborted /\ ~OrphanUpTo(lines, 0)
  BY DEF OrphanUpTo
<1>3. HeaderOf(lines, 0) = 0
  <2>1. PICK h, z : z = 0 /\ h = HeaderOf(lines, z)
    OBVIOUS
  <2>2. LastHeader(lines, z, h)
    BY <2>1, HeaderIs
  <2> QED
    BY <2>1, <2>2 DEF LastHeader
<1>4. ~Named(lines, 0) /\ st.curr.name = NoName
  BY DEF Named
<1>5. FirstBefore(lines, 0) = {}
  <2>1. \A g \in FirstHeaders(lines) : IsHeader(lines, g) => TRUE
    OBVIOUS
  <2> QED
    BY DEF FirstBefore, FirstHeaders
<1>6. KeptBefore(lines, 0, 0, st.sections)
  <2>1. DOMAIN st.sections = {}
    OBVIOUS
  <2> QED
    BY <1>5, <2>1 DEF KeptBefore
<1> QED
  BY <1>1, <1>2, <1>3, <1>4, <1>6 DEF ReadInv

(* What a section holds does not depend on lines of others.               *)
LEMMA SaidStill ==
  ASSUME NEW lines, NEW n \in Nat, NEW h,
         lines[n + 1].kind # "pair" \/ HeaderOf(lines, n + 1) # h
  PROVE  /\ PairsUpTo(lines, n + 1, h) = PairsUpTo(lines, n, h)
         /\ \A data : Said(lines, n, h, data) => Said(lines, n + 1, h, data)
<1>1. PairsUpTo(lines, n + 1, h) = PairsUpTo(lines, n, h)
  <2>1. \A i \in 1 .. n + 1 : i \in 1 .. n \/ i = n + 1
    OBVIOUS
  <2>2. \A i \in 1 .. n : i \in 1 .. n + 1
    OBVIOUS
  <2> QED
    BY <2>1, <2>2 DEF PairsUpTo
<1> QED
  BY <1>1 DEF Said

(* What is kept of sections does not depend on lines of others.           *)
LEMMA KeptStill ==
  ASSUME NEW lines, NEW n \in Nat, NEW b, NEW sections,
         \A g \in FirstBefore(lines, b) :
           lines[n + 1].kind # "pair" \/ HeaderOf(lines, n + 1) # g,
         KeptBefore(lines, n, b, sections)
  PROVE  KeptBefore(lines, n + 1, b, sections)
BY SaidStill DEF KeptBefore

(* Whether the next line is an orphan.                                    *)
LEMMA OrphanNext ==
  ASSUME NEW lines \in Seq(Line), NEW n \in 0 .. Len(lines) - 1
  PROVE  OrphanUpTo(lines, n + 1) <=>
           \/ OrphanUpTo(lines, n)
           \/ lines[n + 1].kind = "pair" /\ ~Named(lines, HeaderOf(lines, n + 1))
<1>1. n + 1 \in 1 .. Len(lines) /\ n \in Nat /\ n + 1 \in 1 .. n + 1
      /\ DOMAIN lines = 1 .. Len(lines)
  BY LenProperties
<1>2. \A i \in 1 .. n + 1 : i \in 1 .. n \/ i = n + 1
  BY <1>1
<1>3. \A i \in 1 .. n : i \in 1 .. n + 1
  BY <1>1
<1>4. n + 1 \in Orphans(lines) <=>
        lines[n + 1].kind = "pair" /\ ~Named(lines, HeaderOf(lines, n + 1))
  BY <1>1 DEF Orphans, Named
<1> QED
  BY <1>1, <1>2, <1>3, <1>4 DEF OrphanUpTo

(* A line more.                                                           *)
LEMMA LineRead ==
  ASSUME NEW lines \in Seq(Line), NEW n \in 0 .. Len(lines) - 1, NEW st,
         ReadInv(lines, n, st)
  PROVE  ReadInv(lines, n + 1, ReadLine(st, lines[n + 1]))
<1>1. PICK m, line, next, g, h : /\ m = n + 1 /\ line = lines[m] /\ next = ReadLine(st, line)
                                 /\ g = HeaderOf(lines, n) /\ h = HeaderOf(lines, m)
  OBVIOUS
<1>2. n \in Nat /\ m \in Nat /\ m \in 1 .. Len(lines) /\ n \in 0 .. Len(lines) /\ line \in Line
  BY <1>1
<1>3. st \in ParserState /\ (st.aborted <=> OrphanUpTo(lines, n)) /\ st.aborted \in BOOLEAN
  BY DEF ReadInv, ParserState
<1>4. next \in ParserState /\ next.aborted \in BOOLEAN
  BY <1>1, <1>2, <1>3, TurnTaken DEF ParserState
<1>5. h = IF line.kind = "section" THEN m ELSE g
  BY <1>1, <1>2, NextHeader DEF IsHeader
<1>6. OrphanUpTo(lines, m) <=> OrphanUpTo(lines, n) \/ (line.kind = "pair" /\ ~Named(lines, h))
  BY <1>1, OrphanNext
<1>7. g \in 0 .. n
  BY <1>1, <1>2, HeaderIs DEF LastHeader
<1>8. CASE st.aborted
  <2>1. next = st
    BY <1>1, <1>2, <1>3, <1>8, TurnTaken
  <2> QED
    BY <1>1, <1>3, <1>6, <1>8, <2>1 DEF ReadInv
<1>9. ASSUME ~st.aborted
      PROVE  /\ st.curr.name # NoName <=> Named(lines, g)
             /\ Named(lines, g) =>
                  st.curr.name = lines[g].name /\ Said(lines, n, g, st.curr.data)
             /\ KeptBefore(lines, n, g, st.sections)
  BY <1>1, <1>9 DEF ReadInv
<1>10. CASE ~st.aborted /\ line.kind = "other"
  <2>1. next = st /\ h = g
    BY <1>1, <1>2, <1>3, <1>5, <1>10, TurnTaken
  <2>2. Said(lines, n, g, st.curr.data) => Said(lines, m, g, st.curr.data)
    BY <1>1, <1>2, <1>10, SaidStill
  <2>3. KeptBefore(lines, m, g, st.sections)
    BY <1>1, <1>2, <1>9, <1>10, KeptStill
  <2>4. ~OrphanUpTo(lines, m)
    BY <1>3, <1>6, <1>10
  <2> QED
    BY <1>1, <1>4, <1>9, <1>10, <2>1, <2>2, <2>3, <2>4 DEF ReadInv
<1>11. CASE ~st.aborted /\ line.kind = "section"
  <2>1. /\ ~next.aborted /\ next.sections = Finished(st)
        /\ next.curr.name = line.name /\ next.curr.data = <<>>
    BY <1>1, <1>2, <1>3, <1>11, TurnTaken
  <2>2. h = m /\ h # 0
    BY <1>2, <1>5, <1>11
  <2>3. next.curr.name # NoName <=> Named(lines, h)
    BY <1>1, <2>1, <2>2 DEF Named
  <2>4. PairsUpTo(lines, m, m) = {}
    <3>1. ASSUME NEW i \in 1 .. m, lines[i].kind = "pair" PROVE HeaderOf(lines, i) # m
      <4>1. i # m
        BY <1>1, <1>11, <3>1
      <4>2. i \in Nat /\ i < m
        BY <1>2, <4>1
      <4>3. HeaderOf(lines, i) \in 0 .. i
        BY <4>2, HeaderIs DEF LastHeader
      <4> QED
        BY <1>2, <4>2, <4>3
    <3> QED
      BY <3>1 DEF PairsUpTo
  <2>5. Said(lines, m, h, next.curr.data)
    <3>1. DOMAIN next.curr.data = {}
      BY <2>1
    <3> QED
      BY <2>2, <2>4, <3>1 DEF Said
  <2>6. KeptBefore(lines, n, m, Finished(st))
    BY <1>1, <1>2, <1>11, FinishedKeeps
  <2>7. KeptBefore(lines, m, m, Finished(st))
    BY <1>1, <1>2, <1>11, <2>6, KeptStill
  <2>8. ~OrphanUpTo(lines, m)
    BY <1>3, <1>6, <1>11
  <2> QED
    BY <1>1, <1>4, <2>1, <2>2, <2>3, <2>5, <2>7, <2>8 DEF ReadInv
<1>12. CASE ~st.aborted /\ line.kind = "pair" /\ st.curr.name = NoName
  <2>1. next.aborted
    BY <1>1, <1>2, <1>3, <1>12, TurnTaken
  <2>2. h = g /\ ~Named(lines, g)
    BY <1>5, <1>9, <1>12
  <2>3. OrphanUpTo(lines, m)
    BY <1>6, <1>12, <2>2
  <2> QED
    BY <1>1, <1>4, <2>1, <2>3 DEF ReadInv
<1>13. CASE ~st.aborted /\ line.kind = "pair" /\ st.curr.name # NoName
  <2>1. PICK old, new : old = st.curr.data /\ new = next.curr.data
    OBVIOUS
  <2>2. /\ ~next.aborted /\ next.sections = st.sections
        /\ next.curr.name = st.curr.name /\ new = With(old, line.key, line.value)
    BY <1>1, <1>2, <1>3, <1>13, <2>1, TurnTaken
  <2>3. h = g /\ Named(lines, g) /\ st.curr.name = lines[g].name /\ Said(lines, n, g, old)
    BY <1>5, <1>9, <1>13, <2>1
  <2>4. PICK P, Q : P = PairsUpTo(lines, n, g) /\ Q = PairsUpTo(lines, m, g)
    OBVIOUS
  <2>5. Q = P \cup {m} /\ P \subseteq 1 .. n
    <3>1. \A i \in 1 .. m : i \in 1 .. n \/ i = m
      BY <1>1, <1>2
    <3>2. \A i \in 1 .. n : i \in 1 .. m
      BY <1>1, <1>2
    <3>3. m \in 1 .. m
      BY <1>2
    <3> QED
      BY <1>1, <1>13, <2>3, <2>4, <3>1, <3>2, <3>3 DEF PairsUpTo
  <2>6. IsWith(new, old, line.key, line.value)
    BY <2>2, WithIs
  <2>7. /\ DOMAIN old = {lines[i].key : i \in P}
        /\ \A i \in P : \/ old[lines[i].key] = lines[i].value
                        \/ \E j \in P : j > i /\ lines[j].key = lines[i].key
    BY <2>3, <2>4 DEF Said
  <2>8. DOMAIN new = {lines[i].key : i \in Q}
    BY <1>1, <2>5, <2>6, <2>7 DEF IsWith
  <2>9. ASSUME NEW i \in Q
        PROVE  \/ new[lines[i].key] = lines[i].value
               \/ \E j \in Q : j > i /\ lines[j].key = lines[i].key
    <3>1. CASE i = m
      BY <1>1, <2>6, <3>1 DEF IsWith
    <3>2. CASE i \in P /\ lines[i].key = line.key
      <4>1. m \in Q /\ m > i
        BY <1>1, <1>2, <2>5, <3>2
      <4> QED
        BY <1>1, <3>2, <4>1
    <3>3. CASE i \in P /\ lines[i].key # line.key
      <4>1. lines[i].key \in DOMAIN old
        BY <2>7, <3>3
      <4>2. new[lines[i].key] = old[lines[i].key]
        BY <2>6, <3>3, <4>1 DEF IsWith
      <4> QED
        BY <2>5, <2>7, <3>3, <4>2
    <3> QED
      BY <2>5, <3>1, <3>2, <3>3
  <2>10. Said(lines, m, g, new)
    BY <2>4, <2>8, <2>9 DEF Said
  <2>11. KeptBefore(lines, m, g, st.sections)
    <3>1. \A k \in FirstBefore(lines, g) : h # k
      <4>1. \A k \in FirstBefore(lines, g) : k < g
        BY DEF FirstBefore
      <4> QED
        BY <1>7, <2>3, <4>1
    <3>2. KeptBefore(lines, n, g, st.sections)
      BY <1>9, <1>13
    <3> QED
      BY <1>1, <1>2, <3>1, <3>2, KeptStill
  <2>12. ~OrphanUpTo(lines, m)
    BY <1>3, <1>6, <1>13, <2>3
  <2> QED
    BY <1>1, <1>4, <1>9, <1>13, <2>1, <2>2, <2>3, <2>10, <2>11, <2>12 DEF ReadInv
<1>14. line.kind \in {"section", "pair", "other"}
  BY <1>2, LineFacts
<1> QED
  BY <1>1, <1>3, <1>8, <1>10, <1>11, <1>12, <1>13, <1>14

(* Parsed to the end, the sections are as they are written.               *)
LEMMA SectionsParsed ==
  ASSUME NEW lines \in Seq(Line)
  PROVE  LET parsed == ParseSectionFile(lines)
         IN  IF parsed.aborted THEN Orphans(lines) # {}
             ELSE Orphans(lines) = {} /\ AsWritten(lines, parsed.sections)
<1> DEFINE N == Len(lines)
           start == [sections |-> <<>>, aborted |-> FALSE,
                     curr |-> [name |-> NoName, data |-> <<>>]]
           Eqn(f) == f = [n \in 0 .. N |->
                            IF n = 0 THEN start ELSE ReadLine(f[n - 1], lines[n])]
           read == CHOOSE f : Eqn(f)
           end == read[N]
           G == [p \in (1 .. N) \X ParserState |-> ReadLine(p[2], lines[p[1]])]
<1>1. ParseSectionFile(lines) = [aborted |-> end.aborted, sections |-> Finished(end)]
  BY DEF ParseSectionFile
<1>2. N \in Nat /\ \A i \in 1 .. N : lines[i] \in Line
  OBVIOUS
<1>3. ReadInv(lines, 0, start) /\ start \in ParserState
  <2>1. ReadInv(lines, 0, start)
    BY ReadStart
  <2> HIDE DEF start
  <2> QED
    BY <2>1 DEF ReadInv
<1> HIDE DEF start, N
<1>4. G \in [(1 .. N) \X ParserState -> ParserState]
  <2>1. ASSUME NEW p \in (1 .. N) \X ParserState
        PROVE  ReadLine(p[2], lines[p[1]]) \in ParserState
    <3>1. PICK i, st : i = p[1] /\ st = p[2]
      OBVIOUS
    <3>2. i \in 1 .. N /\ st \in ParserState
      BY <3>1
    <3>3. lines[i] \in Line
      BY <1>2, <3>2
    <3>4. ReadLine(st, lines[i]) \in ParserState
      BY <3>2, <3>3, TurnTaken
    <3> QED
      BY <3>1, <3>4
  <2> QED
    BY <2>1
<1>5. PICK g \in [0 .. N -> ParserState] : Iterates(g, start, N, G)
  <2> HIDE DEF G
  <2>1. PICK S, a : S = ParserState /\ a = start
    OBVIOUS
  <2>2. a \in S /\ G \in [(1 .. N) \X S -> S]
    BY <1>3, <1>4, <2>1
  <2>3. \E f \in [0 .. N -> S] : Iterates(f, a, N, G)
    BY <1>2, <2>2, Turns
  <2> QED
    BY <2>1, <2>3
<1>6. Eqn(g)
  <2>1. g[0] = start /\ \A n \in 1 .. N : g[n] = ReadLine(g[n - 1], lines[n])
    <3>1. g[0] = start /\ \A n \in 1 .. N : g[n] = G[<<n, g[n - 1]>>]
      BY <1>5 DEF Iterates
    <3>2. ASSUME NEW n \in 1 .. N PROVE G[<<n, g[n - 1]>>] = ReadLine(g[n - 1], lines[n])
      <4>1. n - 1 \in 0 .. N
        BY <1>2
      <4>2. g[n - 1] \in ParserState
        BY <1>5, <4>1
      <4>3. <<n, g[n - 1]>> \in (1 .. N) \X ParserState
        BY <4>2
      <4> QED
        BY <4>3
    <3> QED
      BY <3>1, <3>2
  <2>2. \A n \in 0 .. N : g[n] = IF n = 0 THEN start ELSE ReadLine(g[n - 1], lines[n])
    <3>1. \A n \in 0 .. N : n = 0 \/ n \in 1 .. N
      BY <1>2
    <3> QED
      BY <2>1, <3>1
  <2>3. g = [n \in 0 .. N |-> g[n]]
    BY <1>5
  <2> QED
    BY <2>2, <2>3
<1>7. Eqn(read)
  <2> HIDE DEF Eqn
  <2> QED
    BY <1>6
<1> HIDE DEF read
<1>8. read[0] = start /\ \A n \in 1 .. N : read[n] = ReadLine(read[n - 1], lines[n])
  <2>1. 0 \in 0 .. N /\ \A n \in 1 .. N : n \in 0 .. N /\ n # 0
    BY <1>2
  <2> QED
    BY <1>7, <2>1
<1> HIDE DEF Eqn
<1> DEFINE T == {n \in Nat : ReadInv(lines, n, read[n])}
<1>9. 0 \in T /\ T \in SUBSET Nat
  BY <1>3, <1>8
<1>10. ASSUME NEW n \in 0 .. N - 1, n \in T PROVE n + 1 \in T
  <2>1. n + 1 \in 1 .. N /\ (n + 1) - 1 = n /\ n + 1 \in Nat
    BY <1>2
  <2>2. PICK st : st = read[n]
    OBVIOUS
  <2>3. ReadInv(lines, n, st)
    BY <1>10, <2>2
  <2>4. ReadInv(lines, n + 1, ReadLine(st, lines[n + 1]))
    BY <2>3, LineRead DEF N
  <2>5. read[n + 1] = ReadLine(st, lines[n + 1])
    BY <1>8, <2>1, <2>2
  <2> QED
    BY <2>1, <2>4, <2>5
<1> HIDE DEF T
<1>11. \A n \in 0 .. N : n \in T
  BY <1>2, <1>9, <1>10, UpTo
<1>12. ReadInv(lines, N, end)
  <2>1. N \in 0 .. N
    BY <1>2
  <2>2. N \in T
    BY <1>11, <2>1
  <2> QED
    BY <2>2 DEF T
<1> HIDE DEF end
<1>13. DOMAIN lines = 1 .. N
  BY LenProperties DEF N
<1>14. OrphanUpTo(lines, N) <=> Orphans(lines) # {}
  BY <1>13 DEF OrphanUpTo, Orphans
<1>15. end.aborted \in BOOLEAN /\ (end.aborted <=> Orphans(lines) # {})
  BY <1>12, <1>14 DEF ReadInv, ParserState
<1>16. ASSUME ~end.aborted PROVE AsWritten(lines, Finished(end))
  <2>1. PICK secs : secs = Finished(end)
    OBVIOUS
  <2>2. KeptBefore(lines, N, N + 1, secs)
    <3>1. N \in 0 .. Len(lines)
      BY <1>2 DEF N
    <3> QED
      BY <1>12, <1>16, <2>1, <3>1, FinishedKeeps
  <2>3. FirstBefore(lines, N + 1) = FirstHeaders(lines)
    <3>1. \A h \in FirstHeaders(lines) : h \in 1 .. N
      BY FirstHeaderIs DEF N
    <3>2. \A h \in FirstHeaders(lines) : h < N + 1
      BY <1>2, <3>1
    <3> QED
      BY <3>2 DEF FirstBefore
  <2>4. \A h : PairsUpTo(lines, N, h) = PairsOf(lines, h)
    BY <1>13 DEF PairsUpTo, PairsOf
  <2>5. DOMAIN secs = {lines[h].name : h \in FirstHeaders(lines)}
    BY <2>2, <2>3 DEF KeptBefore
  <2>6. ASSUME NEW h \in FirstHeaders(lines)
        PROVE  LET data == secs[lines[h].name]
               IN  /\ DOMAIN data = {lines[i].key : i \in PairsOf(lines, h)}
                   /\ \A i \in PairsOf(lines, h) :
                        \/ data[lines[i].key] = lines[i].value
                        \/ \E j \in PairsOf(lines, h) : j > i /\ lines[j].key = lines[i].key
    <3>1. Said(lines, N, h, secs[lines[h].name])
      BY <2>2, <2>3 DEF KeptBefore
    <3> QED
      BY <2>4, <3>1 DEF Said
  <2> QED
    BY <2>1, <2>5, <2>6 DEF AsWritten
<1> QED
  BY <1>1, <1>15, <1>16

(* A call of the parser keeps SectionsAsWritten, and so do all the others.*)
LEMMA SectionsStep ==
  ASSUME call \in Calls, SectionsAsWritten, [Next]_vars
  PROVE  SectionsAsWritten'
<1>1. CASE UNCHANGED vars
  BY <1>1 DEF vars, SectionsAsWritten, Returned
<1>2. CASE UNCHANGED call /\ Parse
  <2>1. call.lines \in Seq(Line)
    BY <1>2, Arguments, InputsAssumption DEF Parse, Calling
  <2>2. PICK parsed : parsed = ParseSectionFile(call.lines)
    OBVIOUS
  <2>3. IF parsed.aborted THEN Orphans(call.lines) # {}
        ELSE Orphans(call.lines) = {} /\ AsWritten(call.lines, parsed.sections)
    BY <2>1, <2>2, SectionsParsed
  <2>4. result'[1] = parsed
    BY <1>2, <2>2 DEF Parse
  <2> QED
    BY <1>2, <2>3, <2>4 DEF SectionsAsWritten
<1>3. CASE UNCHANGED call /\ call.fn # "ParseSectionFile"
  BY <1>3 DEF SectionsAsWritten, Returned
<1> QED
  BY <1>1, <1>2, <1>3, CallMade

(* Of every file ParseSectionFile keeps the sections, the first of a name *)
(* and in it the last value of a key, or ends at a key outside of any.    *)
THEOREM SectionsAreAsWritten == Spec => []SectionsAsWritten
<1>1. Init => call \in Calls /\ SectionsAsWritten
  BY DEF Init, SectionsAsWritten, Returned
<1>2. call \in Calls /\ SectionsAsWritten /\ [Next]_vars => (call \in Calls /\ SectionsAsWritten)'
  BY CallsKept, SectionsStep
<1> QED
  BY <1>1, <1>2, PTL DEF Spec
=============================================================================
