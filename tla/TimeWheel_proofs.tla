------------------------- MODULE TimeWheel_proofs -------------------------
(**************************************************************************)
(* Proofs about the wheel, in three layers: the clock and the indices of  *)
(* the levels (ClockInv), the timers and the references to them           *)
(* (TimersInv), and when the slot of a pending timer comes round          *)
(* (LatenessInv).  Each layer rests on those before.                      *)
(**************************************************************************)
EXTENDS TimeWheel, FiniteSetTheorems, FunctionTheorems, SequenceTheorems,
        WellFoundedInduction, TLAPS

(* A set of naturals has a least element, which is what induction is.     *)
LEMMA Least ==
  ASSUME NEW T \in SUBSET Nat, T # {}
  PROVE  \E x \in T : \A y \in T : x <= y
<1> DEFINE R == {ss \in Nat \X Nat : ss[1] < ss[2]}
<1>1. IsWellFoundedOn(R, Nat)
  BY NatLessThanWellFounded DEF OpToRel
<1> HIDE DEF R
<1>2. PICK x \in T : \A y \in T : ~ (<<y, x>> \in R)
  BY <1>1, WFMin
<1>3. \A y \in T : ~(y < x)
  BY <1>2 DEF R
<1> QED
  BY <1>3

(* A set of naturals that has 0 and every successor has them all.         *)
LEMMA Induction ==
  ASSUME NEW S \in SUBSET Nat, 0 \in S, \A n \in S : n + 1 \in S
  PROVE  S = Nat
<1> SUFFICES ASSUME Nat \ S # {} PROVE FALSE
  OBVIOUS
<1>1. PICK x \in Nat \ S : \A y \in Nat \ S : x <= y
  BY Least
<1>2. x # 0 /\ x - 1 \in Nat
  BY <1>1
<1>3. x - 1 \in S
  BY <1>1, <1>2
<1>4. (x - 1) + 1 = x
  BY <1>1
<1> QED
  BY <1>3, <1>4, <1>1

Follows(f, a, G, n) == f[0] = a /\ \A i \in 1 .. n : f[i] = G[<<i, f[i - 1]>>]

(* A function given by recursion on 0 .. n can be continued to n + 1.     *)
LEMMA Extend ==
  ASSUME NEW S, NEW a \in S, NEW N \in Nat, NEW G \in [(1 .. N) \X S -> S],
         NEW n \in Nat, n + 1 <= N, NEW f \in [0 .. n -> S], Follows(f, a, G, n)
  PROVE  \E g \in [0 .. n + 1 -> S] : Follows(g, a, G, n + 1)
<1> DEFINE last == G[<<n + 1, f[n]>>]
           g == [i \in 0 .. n + 1 |-> IF i = n + 1 THEN last ELSE f[i]]
<1>1. n \in 0 .. n /\ n + 1 \in 1 .. N
  OBVIOUS
<1>2. last \in S
  <2>1. f[n] \in S
    BY <1>1
  <2> QED
    BY <1>1, <2>1
<1> HIDE DEF last
<1>3. g \in [0 .. n + 1 -> S]
  <2>1. ASSUME NEW i \in 0 .. n + 1, i # n + 1 PROVE f[i] \in S
    <3>1. i \in 0 .. n
      BY <2>1
    <3> QED
      BY <3>1
  <2> QED
    BY <1>2, <2>1
<1>4. g[n + 1] = last /\ \A i \in 0 .. n : g[i] = f[i]
  OBVIOUS
<1> HIDE DEF g
<1>5. g[0] = a
  <2>1. 0 \in 0 .. n
    OBVIOUS
  <2> QED
    BY <1>4, <2>1 DEF Follows
<1>6. ASSUME NEW i \in 1 .. n + 1 PROVE g[i] = G[<<i, g[i - 1]>>]
  <2>1. CASE i = n + 1
    <3>1. i - 1 = n
      BY <2>1
    <3>2. g[i] = last /\ g[i - 1] = f[n]
      BY <1>1, <1>4, <2>1, <3>1
    <3> QED
      BY <2>1, <3>2 DEF last
  <2>2. CASE i # n + 1
    <3>1. i \in 1 .. n /\ i \in 0 .. n /\ i - 1 \in 0 .. n
      BY <2>2
    <3>2. f[i] = G[<<i, f[i - 1]>>]
      BY <3>1 DEF Follows
    <3> QED
      BY <1>4, <3>1, <3>2
  <2> QED
    BY <2>1, <2>2
<1> QED
  BY <1>3, <1>5, <1>6 DEF Follows

(* There is a function on 0 .. N that begins with a and follows G.        *)
LEMMA Recursion ==
  ASSUME NEW S, NEW a \in S, NEW N \in Nat, NEW G \in [(1 .. N) \X S -> S]
  PROVE  \E f \in [0 .. N -> S] : Follows(f, a, G, N)
<1> DEFINE Good(n) == \E f \in [0 .. n -> S] : Follows(f, a, G, n)
           A == {n \in Nat : n <= N => Good(n)}
<1>1. Good(0)
  <2> DEFINE f == [i \in 0 .. 0 |-> a]
  <2>1. f \in [0 .. 0 -> S] /\ f[0] = a
    OBVIOUS
  <2>2. Follows(f, a, G, 0)
    BY <2>1 DEF Follows
  <2> QED
    BY <2>1, <2>2
<1>2. ASSUME NEW n \in Nat, n + 1 <= N, Good(n) PROVE Good(n + 1)
  BY <1>2, Extend
<1> HIDE DEF Good
<1>3. 0 \in A /\ \A n \in A : n + 1 \in A
  BY <1>1, <1>2
<1>4. A = Nat
  <2> HIDE DEF A
  <2>1. A \in SUBSET Nat
    BY DEF A
  <2> QED
    BY <1>3, <2>1, Induction
<1>5. Good(N)
  BY <1>4
<1> QED
  BY <1>5 DEF Good

(* Quotient and remainder, and that there is no other pair of them.       *)
LEMMA DivMod ==
  ASSUME NEW a \in Int, NEW b \in Int, b > 0
  PROVE  /\ a \div b \in Int /\ a % b \in Int /\ 0 <= a % b /\ a % b < b
         /\ a = b * (a \div b) + (a % b)
OBVIOUS

LEMMA DivModUnique ==
  ASSUME NEW a \in Int, NEW b \in Int, b > 0,
         NEW q \in Int, NEW r \in Int, 0 <= r, r < b, a = b * q + r
  PROVE  q = a \div b /\ r = a % b
<1> DEFINE d == a \div b
           e == a % b
<1>1. d \in Int /\ e \in Int /\ 0 <= e /\ e < b /\ a = b * d + e
  BY DivMod
<1> HIDE DEF d, e
<1>2. d \in Int
  BY <1>1
<1>3. b * (q - d) = e - r
  BY <1>1
<1>4. q - d < 1
  BY <1>1, <1>3
<1>5. q - d > -1
  BY <1>1, <1>3
<1>6. q = d
  BY ONLY <1>2, <1>4, <1>5, q \in Int
<1>7. r = e
  BY <1>1, <1>6
<1> QED
  BY <1>6, <1>7 DEF d, e

(* The last digit in base b moves on like an index that wraps.            *)
LEMMA SuccessorDigit ==
  ASSUME NEW a \in Nat, NEW b \in Nat, b > 0
  PROVE  ((a % b) + 1) % b = (a + 1) % b
<1> DEFINE q == a \div b
           r == a % b
<1>1. q \in Int /\ r \in Int /\ 0 <= r /\ r < b /\ a = b * q + r
  BY DivMod
<1> HIDE DEF q, r
<1>2. CASE r + 1 < b
  <2>1. a + 1 = b * q + (r + 1)
    BY <1>1
  <2>2. r + 1 = (a + 1) % b
    BY <1>1, <1>2, <2>1, DivModUnique
  <2>3. r + 1 = b * 0 + (r + 1)
    BY <1>1
  <2>4. r + 1 = (r + 1) % b
    BY <1>1, <1>2, <2>3, DivModUnique
  <2> QED
    BY <2>2, <2>4 DEF r
<1>3. CASE r + 1 = b
  <2>1. a + 1 = b * (q + 1) + 0
    BY <1>1, <1>3
  <2>2. 0 = (a + 1) % b
    BY <1>1, <2>1, DivModUnique
  <2>3. r + 1 = b * 1 + 0
    BY <1>1, <1>3
  <2>4. 0 = (r + 1) % b
    BY <1>1, <2>3, DivModUnique
  <2> QED
    BY <2>2, <2>4 DEF r
<1> QED
  BY <1>1, <1>2, <1>3

(* A quotient goes up by one exactly at the multiples.                    *)
LEMMA BeforeMultiple ==
  ASSUME NEW n \in Nat, n > 0, NEW b \in Nat, b > 0
  PROVE  (n - 1) \div b = IF n % b = 0 THEN (n \div b) - 1 ELSE n \div b
<1> DEFINE q == n \div b
           r == n % b
<1>1. q \in Int /\ r \in Int /\ 0 <= r /\ r < b /\ n = b * q + r
  BY DivMod
<1> HIDE DEF q, r
<1>2. CASE r = 0
  <2>1. n - 1 = b * (q - 1) + (b - 1)
    BY <1>1, <1>2
  <2>2. q - 1 = (n - 1) \div b
    BY <1>1, <2>1, DivModUnique
  <2> QED
    BY <1>2, <2>2 DEF q, r
<1>3. CASE r # 0
  <2>1. n - 1 = b * q + (r - 1)
    BY <1>1, <1>3
  <2>2. q = (n - 1) \div b
    BY <1>1, <1>3, <2>1, DivModUnique
  <2> QED
    BY <1>3, <2>2 DEF q, r
<1> QED
  BY <1>2, <1>3

(* A digit is 0 when the number is a multiple of the next power.          *)
LEMMA DigitZero ==
  ASSUME NEW n \in Nat, NEW u \in Nat, u > 0, NEW b \in Nat, b > 0, n % u = 0
  PROVE  (n \div u) % b = 0 <=> n % (b * u) = 0
<1> DEFINE q == n \div u
           p == q \div b
           r == q % b
           w == b * u
<1>1. q \in Int /\ n = u * q
  BY DivMod
<1>2. p \in Int /\ r \in Int /\ 0 <= r /\ r < b /\ q = b * p + r
  BY <1>1, DivMod
<1>3. w \in Int /\ w > 0 /\ w = b * u
  OBVIOUS
<1>4. u * r < w /\ 0 <= u * r /\ u * r \in Int
  <2> HIDE DEF r, w
  <2>1. r \in Int /\ 0 <= r /\ r < b
    BY <1>2
  <2>2. b - r > 0
    BY <2>1
  <2>3. u * (b - r) > 0
    BY <2>1, <2>2
  <2>4. u * (b - r) = (b * u) - (u * r)
    BY <2>1
  <2>5. u * r \in Int /\ 0 <= u * r
    BY <2>1
  <2> QED
    BY <2>3, <2>4, <2>5, <1>3
<1> HIDE DEF q, p, r, w
<1>5. n = w * p + u * r
  <2>1. n = u * (b * p + r)
    BY <1>1, <1>2
  <2>2. u * (b * p + r) = (b * u) * p + u * r
    BY <1>2
  <2> QED
    BY <2>1, <2>2, <1>3
<1>6. u * r = n % w
  <2> DEFINE x == u * r
  <2>1. x \in Int /\ 0 <= x /\ x < w /\ n = w * p + x
    BY <1>4, <1>5
  <2> HIDE DEF x
  <2>2. w \in Int /\ w > 0 /\ p \in Int
    BY <1>2, <1>3
  <2>3. x = n % w
    BY <2>1, <2>2, DivModUnique
  <2> QED
    BY <2>3 DEF x
<1>7. r = 0 <=> u * r = 0
  BY <1>2
<1> QED
  BY <1>6, <1>7 DEF w, r, q

LEMMA MultipleOfPart ==
  ASSUME NEW n \in Nat, NEW u \in Nat, u > 0, NEW b \in Nat, b > 0, n % (b * u) = 0
  PROVE  n % u = 0
<1> DEFINE w == b * u
           p == n \div w
<1>1. w \in Int /\ w > 0
  OBVIOUS
<1>2. p \in Int /\ n = w * p
  BY <1>1, DivMod
<1> HIDE DEF p
<1> DEFINE x == b * p
<1>3. x \in Int /\ n = u * x + 0
  BY <1>2
<1> HIDE DEF x
<1> QED
  BY <1>3, DivModUnique

(* Among the next b multiples of u one has any given digit r.             *)
LEMMA NextTurn ==
  ASSUME NEW h \in Nat, NEW u \in Nat, u > 0, NEW b \in Nat, b > 0,
         NEW r \in Int, 0 <= r, r < b
  PROVE  \E m \in Nat \ {0} : /\ (m - 1) % b = r
                              /\ h < u * m /\ u * m <= h + b * u
<1> DEFINE k == h \div u
           c == h % u
           q == (r - k) \div b
           e == (r - k) % b
           m == k + e + 1
<1>1. k \in Int /\ c \in Int /\ 0 <= c /\ c < u /\ h = u * k + c
  BY DivMod
<1> HIDE DEF k, c
<1>2. k >= 0
  BY <1>1
<1>3. q \in Int /\ e \in Int /\ 0 <= e /\ e < b /\ r - k = b * q + e
  BY <1>1, DivMod
<1> HIDE DEF q, e
<1>4. m \in Nat \ {0} /\ m = k + e + 1
  BY <1>1, <1>2, <1>3
<1>5. (m - 1) % b = r
  <2> DEFINE x == 0 - q
             a == m - 1
  <2>1. x \in Int /\ a \in Int /\ a = b * x + r
    BY <1>1, <1>3, <1>4
  <2> HIDE DEF x, a
  <2>2. r = a % b
    BY <2>1, DivModUnique
  <2> QED
    BY <2>2 DEF a
<1> HIDE DEF m
<1>6. u * (k + 1) <= u * m /\ u * m <= u * (k + b)
  <2>1. 0 <= m - (k + 1) /\ 0 <= (k + b) - m
    BY <1>1, <1>3, <1>4
  <2>2. 0 <= u * (m - (k + 1)) /\ 0 <= u * ((k + b) - m)
    BY <1>1, <1>4, <2>1
  <2> QED
    BY <1>1, <1>4, <2>2
<1>7. u * (k + 1) = u * k + u /\ u * (k + b) = u * k + b * u
  BY <1>1
<1>8. h < u * m /\ u * m <= h + b * u
  BY <1>1, <1>4, <1>6, <1>7
<1> QED
  BY <1>4, <1>5, <1>8
(* SelectSeq, which Among uses, as a function on the prefixes of s.       *)
LEMMA AmongFollows ==
  ASSUME NEW S, NEW s \in Seq(S), NEW T
  PROVE  \E f \in [0 .. Len(s) -> Seq(S)] :
           /\ f[0] = <<>> /\ Among(s, T) = f[Len(s)]
           /\ \A i \in 1 .. Len(s) :
                f[i] = IF s[i] \in T THEN Append(f[i - 1], s[i]) ELSE f[i - 1]
<1> DEFINE G == [p \in (1 .. Len(s)) \X Seq(S) |->
                   IF s[p[1]] \in T THEN Append(p[2], s[p[1]]) ELSE p[2]]
           K == CHOOSE kept : kept = [i \in 0 .. Len(s) |->
                  IF i = 0 THEN <<>>
                  ELSE IF s[i] \in T THEN Append(kept[i - 1], s[i]) ELSE kept[i - 1]]
<1>1. Len(s) \in Nat /\ <<>> \in Seq(S)
  OBVIOUS
<1>2. G \in [(1 .. Len(s)) \X Seq(S) -> Seq(S)]
  <2>1. ASSUME NEW p \in (1 .. Len(s)) \X Seq(S)
        PROVE  (IF s[p[1]] \in T THEN Append(p[2], s[p[1]]) ELSE p[2]) \in Seq(S)
    <3>1. p[1] \in 1 .. Len(s) /\ p[2] \in Seq(S) /\ s[p[1]] \in S
      OBVIOUS
    <3> QED
      BY <3>1
  <2> QED
    BY <2>1
<1>3. ASSUME NEW i \in 1 .. Len(s), NEW x \in Seq(S)
      PROVE  G[<<i, x>>] = IF s[i] \in T THEN Append(x, s[i]) ELSE x
  OBVIOUS
<1> HIDE DEF G
<1>4. PICK f \in [0 .. Len(s) -> Seq(S)] : Follows(f, <<>>, G, Len(s))
  BY <1>1, <1>2, Recursion
<1>5. f[0] = <<>> /\ \A i \in 1 .. Len(s) :
         f[i] = IF s[i] \in T THEN Append(f[i - 1], s[i]) ELSE f[i - 1]
  <2>1. \A i \in 1 .. Len(s) : i - 1 \in 0 .. Len(s)
    BY <1>1
  <2> QED
    BY <1>3, <1>4, <2>1 DEF Follows
<1>6. f = [i \in 0 .. Len(s) |->
             IF i = 0 THEN <<>>
             ELSE IF s[i] \in T THEN Append(f[i - 1], s[i]) ELSE f[i - 1]]
  <2>1. ASSUME NEW i \in 0 .. Len(s)
        PROVE  f[i] = IF i = 0 THEN <<>>
                      ELSE IF s[i] \in T THEN Append(f[i - 1], s[i]) ELSE f[i - 1]
    <3>1. i = 0 \/ i \in 1 .. Len(s)
      BY <1>1
    <3> QED
      BY <1>5, <3>1
  <2> QED
    BY <2>1
<1>7. K = [i \in 0 .. Len(s) |->
             IF i = 0 THEN <<>>
             ELSE IF s[i] \in T THEN Append(K[i - 1], s[i]) ELSE K[i - 1]]
  BY <1>6
<1>8. Among(s, T) = K[Len(s)]
  BY DEF Among
<1> HIDE DEF K
<1>9. \A i \in 0 .. Len(s) : K[i] = f[i]
  <2> DEFINE A == {i \in Nat : i <= Len(s) => K[i] = f[i]}
  <2>1. 0 \in A
    BY <1>1, <1>5, <1>7
  <2>2. ASSUME NEW n \in A PROVE n + 1 \in A
    <3> SUFFICES ASSUME n + 1 <= Len(s) PROVE K[n + 1] = f[n + 1]
      OBVIOUS
    <3>1. n \in Nat /\ n + 1 \in 1 .. Len(s) /\ n + 1 \in 0 .. Len(s) /\ (n + 1) - 1 = n /\ n + 1 # 0
      BY <1>1
    <3>2. K[n] = f[n]
      BY <1>1
    <3> HIDE DEF A
    <3>3. K[n + 1] = IF s[n + 1] \in T THEN Append(K[n], s[n + 1]) ELSE K[n]
      BY <1>7, <3>1
    <3>4. f[n + 1] = IF s[n + 1] \in T THEN Append(f[n], s[n + 1]) ELSE f[n]
      BY <1>5, <3>1
    <3> QED
      BY <3>2, <3>3, <3>4
  <2> HIDE DEF A
  <2>3. A = Nat
    <3>1. A \in SUBSET Nat
      BY DEF A
    <3> QED
      BY <2>1, <2>2, <3>1, Induction
  <2> QED
    BY <1>1, <2>3 DEF A
<1>10. K[Len(s)] = f[Len(s)]
  BY <1>1, <1>9
<1> QED
  BY <1>5, <1>8, <1>10

(* e are the places of r in the first n of s.                              *)
Picks(e, r, s, T, n) ==
  /\ e \in [1 .. Len(r) -> 1 .. n]
  /\ \A i, j \in 1 .. Len(r) : i < j => e[i] < e[j]
  /\ \A i \in 1 .. Len(r) : s[e[i]] \in T /\ r[i] = s[e[i]]
  /\ \A j \in 1 .. n : s[j] \in T => \E i \in 1 .. Len(r) : e[i] = j

(* One more element of s: it is picked, as the last, or it is not.        *)
LEMMA PickNext ==
  ASSUME NEW S, NEW s \in Seq(S), NEW T, NEW n \in Nat, n + 1 <= Len(s),
         NEW r \in Seq(S), NEW e, Picks(e, r, s, T, n)
  PROVE  \E d : Picks(d, IF s[n + 1] \in T THEN Append(r, s[n + 1]) ELSE r, s, T, n + 1)
<1>1. /\ e \in [1 .. Len(r) -> 1 .. n]
      /\ \A i, j \in 1 .. Len(r) : i < j => e[i] < e[j]
      /\ \A i \in 1 .. Len(r) : s[e[i]] \in T /\ r[i] = s[e[i]]
      /\ \A j \in 1 .. n : s[j] \in T => \E i \in 1 .. Len(r) : e[i] = j
      /\ Len(r) \in Nat /\ Len(s) \in Nat
  BY DEF Picks
<1>2. s[n + 1] \in S
  <2>1. n + 1 \in 1 .. Len(s)
    BY <1>1
  <2> QED
    BY <2>1
<1>3. CASE s[n + 1] \notin T
  <2>1. e \in [1 .. Len(r) -> 1 .. n + 1]
    <3>1. \A i \in 1 .. Len(r) : e[i] \in 1 .. n + 1
      BY <1>1
    <3> QED
      BY <1>1, <3>1
  <2>2. \A j \in 1 .. n + 1 : s[j] \in T => \E i \in 1 .. Len(r) : e[i] = j
    <3>1. \A j \in 1 .. n + 1 : j = n + 1 \/ j \in 1 .. n
      OBVIOUS
    <3> QED
      BY <1>1, <1>3, <3>1
  <2>3. Picks(e, r, s, T, n + 1)
    BY <1>1, <2>1, <2>2 DEF Picks
  <2> QED
    BY <1>3, <2>3
<1>4. CASE s[n + 1] \in T
  <2> DEFINE q == Append(r, s[n + 1])
             m == Len(r) + 1
             d == [i \in 1 .. m |-> IF i = m THEN n + 1 ELSE e[i]]
  <2>1. q \in Seq(S) /\ Len(q) = m /\ q[m] = s[n + 1] /\ \A i \in 1 .. Len(r) : q[i] = r[i]
    BY <1>1, <1>2
  <2>2. \A i \in 1 .. m : i = m \/ i \in 1 .. Len(r)
    BY <1>1
  <2>3. d[m] = n + 1 /\ \A i \in 1 .. Len(r) : d[i] = e[i]
    BY <1>1
  <2>4. d \in [1 .. m -> 1 .. n + 1]
    <3>1. \A i \in 1 .. m : (IF i = m THEN n + 1 ELSE e[i]) \in 1 .. n + 1
      BY <1>1, <2>2
    <3> QED
      BY <3>1
  <2> HIDE DEF d, q
  <2>5. ASSUME NEW i \in 1 .. m, NEW j \in 1 .. m, i < j PROVE d[i] < d[j]
    <3>1. i \in 1 .. Len(r) /\ (j = m \/ j \in 1 .. Len(r))
      <4> DEFINE n0 == Len(r)
      <4>1. n0 \in Nat /\ m = n0 + 1
        BY <1>1
      <4> HIDE DEF m, n0
      <4>2. i \in 1 .. n0 /\ (j = m \/ j \in 1 .. n0)
        BY <2>5, <4>1
      <4> QED
        BY <4>2 DEF n0
    <3>2. d[i] = e[i] /\ e[i] \in 1 .. n
      BY <1>1, <2>3, <3>1
    <3>3. CASE j = m
      <4>1. d[j] = n + 1
        BY <2>3, <3>3
      <4> QED
        BY <3>2, <4>1
    <3>4. CASE j \in 1 .. Len(r)
      BY <1>1, <2>3, <2>5, <3>1, <3>4
    <3> QED
      BY <3>1, <3>3, <3>4
  <2>6. ASSUME NEW i \in 1 .. m PROVE s[d[i]] \in T /\ q[i] = s[d[i]]
    BY <1>1, <1>4, <2>1, <2>2, <2>3
  <2>7. ASSUME NEW j \in 1 .. n + 1, s[j] \in T PROVE \E i \in 1 .. m : d[i] = j
    <3>1. CASE j = n + 1
      <4>1. m \in 1 .. m
        BY <1>1
      <4> QED
        BY <2>3, <3>1, <4>1
    <3>2. CASE j # n + 1
      <4>1. j \in 1 .. n
        BY <3>2
      <4>2. PICK i \in 1 .. Len(r) : e[i] = j
        BY <1>1, <2>7, <4>1
      <4>3. i \in 1 .. m
        BY <1>1
      <4> QED
        BY <2>3, <4>2, <4>3
    <3> QED
      BY <3>1, <3>2
  <2> HIDE DEF m
  <2>8. Picks(d, q, s, T, n + 1)
    BY <2>1, <2>4, <2>5, <2>6, <2>7 DEF Picks
  <2> QED
    BY <1>4, <2>8 DEF q
<1> QED
  BY <1>3, <1>4

(* Among picks the elements of s that are in T, in their order.           *)
LEMMA AmongPicks ==
  ASSUME NEW S, NEW s \in Seq(S), NEW T
  PROVE  Among(s, T) \in Seq(S) /\ \E e : Picks(e, Among(s, T), s, T, Len(s))
<1>1. PICK f \in [0 .. Len(s) -> Seq(S)] :
           /\ f[0] = <<>> /\ Among(s, T) = f[Len(s)]
           /\ \A i \in 1 .. Len(s) :
                f[i] = IF s[i] \in T THEN Append(f[i - 1], s[i]) ELSE f[i - 1]
  BY AmongFollows
<1>2. Len(s) \in Nat
  OBVIOUS
<1> DEFINE A == {n \in Nat : n <= Len(s) => \E e : Picks(e, f[n], s, T, n)}
<1>3. 0 \in A
  <2>1. Len(<<>>) = 0 /\ 1 .. 0 = {}
    OBVIOUS
  <2>2. [i \in 1 .. 0 |-> 0] \in [1 .. 0 -> 1 .. 0]
    BY <2>1
  <2>3. Picks([i \in 1 .. 0 |-> 0], <<>>, s, T, 0)
    BY <2>1, <2>2 DEF Picks
  <2> QED
    BY <1>1, <2>3
<1>4. ASSUME NEW n \in A PROVE n + 1 \in A
  <2> SUFFICES ASSUME n + 1 <= Len(s) PROVE \E e : Picks(e, f[n + 1], s, T, n + 1)
    OBVIOUS
  <2>1. n \in Nat /\ n <= Len(s)
    BY <1>2
  <2>2. PICK e : Picks(e, f[n], s, T, n)
    BY <2>1
  <2> HIDE DEF A
  <2>3. n \in 0 .. Len(s) /\ n + 1 \in 1 .. Len(s) /\ (n + 1) - 1 = n
    BY <1>2, <2>1
  <2>4. f[n] \in Seq(S) /\ f[n + 1] = IF s[n + 1] \in T THEN Append(f[n], s[n + 1]) ELSE f[n]
    BY <1>1, <2>3
  <2>5. \E d : Picks(d, IF s[n + 1] \in T THEN Append(f[n], s[n + 1]) ELSE f[n], s, T, n + 1)
    BY <2>1, <2>2, <2>4, PickNext
  <2> QED
    BY <2>4, <2>5
<1> HIDE DEF A
<1>5. A = Nat
  <2>1. A \in SUBSET Nat
    BY DEF A
  <2> QED
    BY <1>3, <1>4, <2>1, Induction
<1>6. Len(s) \in A
  BY <1>2, <1>5
<1>7. \E e : Picks(e, f[Len(s)], s, T, Len(s))
  BY <1>2, <1>6 DEF A
<1>8. f[Len(s)] \in Seq(S)
  <2>1. Len(s) \in 0 .. Len(s)
    BY <1>2
  <2> QED
    BY <2>1
<1> QED
  BY <1>1, <1>7, <1>8
(* The spans of the levels *)

LEMMA Constants ==
  /\ TVN_SIZE \in Nat /\ TVN_SIZE > 1 /\ TVN_NUM \in Nat /\ TVN_NUM > 1
  /\ Levels \subseteq Nat /\ 0 \in Levels /\ 0 \in Slots /\ Slots \subseteq Nat
  /\ \A l \in Levels : l + 1 < TVN_NUM => l + 1 \in Levels
  /\ \A i \in Nat : i % TVN_SIZE \in Slots
<1>1. /\ TVN_SIZE \in Nat /\ TVN_SIZE > 1 /\ TVN_NUM \in Nat /\ TVN_NUM > 1
  BY WheelAssumption
<1>2. \A i \in Nat : i % TVN_SIZE \in Slots
  BY <1>1, DivMod DEF Slots
<1> QED
  BY <1>1, <1>2 DEF Levels, Slots

(* What the recursive function Span computes.                             *)
LEMMA SpanDef ==
  /\ Span \in [0 .. TVN_NUM -> Nat \ {0}] /\ Span[0] = 1
  /\ \A l \in 1 .. TVN_NUM : Span[l] = TVN_SIZE * Span[l - 1]
<1>1. TVN_NUM \in Nat /\ TVN_SIZE \in Nat /\ TVN_SIZE > 1
  BY WheelAssumption
<1> DEFINE P == Nat \ {0}
           G == [p \in (1 .. TVN_NUM) \X P |-> TVN_SIZE * p[2]]
<1>2. G \in [(1 .. TVN_NUM) \X P -> P] /\ 1 \in P
  <2>1. ASSUME NEW p \in (1 .. TVN_NUM) \X P PROVE TVN_SIZE * p[2] \in P
    <3>1. p[2] \in Nat /\ p[2] > 0
      OBVIOUS
    <3> QED
      BY <1>1, <3>1
  <2> QED
    BY <2>1
<1>3. \A i \in 1 .. TVN_NUM : \A x \in P : G[<<i, x>>] = TVN_SIZE * x
  OBVIOUS
<1> HIDE DEF G
<1>4. PICK f \in [0 .. TVN_NUM -> P] : Follows(f, 1, G, TVN_NUM)
  BY <1>1, <1>2, Recursion
<1>5. f[0] = 1 /\ \A i \in 1 .. TVN_NUM : f[i] = TVN_SIZE * f[i - 1]
  <2>1. \A i \in 1 .. TVN_NUM : i - 1 \in 0 .. TVN_NUM
    BY <1>1
  <2> QED
    BY <1>3, <1>4, <2>1 DEF Follows
<1>6. f = [l \in 0 .. TVN_NUM |-> IF l = 0 THEN 1 ELSE TVN_SIZE * f[l - 1]]
  <2>1. \A i \in 0 .. TVN_NUM : f[i] = IF i = 0 THEN 1 ELSE TVN_SIZE * f[i - 1]
    <3>1. \A i \in 0 .. TVN_NUM : i = 0 \/ i \in 1 .. TVN_NUM
      BY <1>1
    <3> QED
      BY <1>5, <3>1
  <2> QED
    BY <2>1
<1>7. Span = [l \in 0 .. TVN_NUM |-> IF l = 0 THEN 1 ELSE TVN_SIZE * Span[l - 1]]
  BY <1>6 DEF Span
<1>8. \A i \in 0 .. TVN_NUM : Span[i] = f[i]
  <2> DEFINE A == {i \in Nat : i <= TVN_NUM => Span[i] = f[i]}
  <2>1. 0 \in A
    BY <1>1, <1>5, <1>7
  <2>2. ASSUME NEW n \in A PROVE n + 1 \in A
    <3> SUFFICES ASSUME n + 1 <= TVN_NUM PROVE Span[n + 1] = f[n + 1]
      OBVIOUS
    <3>1. /\ n + 1 \in 1 .. TVN_NUM /\ n + 1 \in 0 .. TVN_NUM
          /\ (n + 1) - 1 = n /\ n + 1 # 0 /\ Span[n] = f[n]
      BY <1>1
    <3> HIDE DEF A
    <3> QED
      BY <1>5, <1>7, <3>1
  <2> HIDE DEF A
  <2>3. A = Nat
    <3>1. A \in SUBSET Nat
      BY DEF A
    <3> QED
      BY <2>1, <2>2, <3>1, Induction
  <2> QED
    BY <1>1, <2>3 DEF A
<1>9. Span = f
  BY <1>7, <1>8
<1> QED
  BY <1>5, <1>9

LEMMA SpanNext ==
  ASSUME NEW l \in Levels
  PROVE  /\ Span[l] \in Nat /\ Span[l] > 0 /\ Span[l + 1] \in Nat
         /\ Span[l + 1] = TVN_SIZE * Span[l] /\ Span[l + 1] > Span[l]
         /\ l \in Nat /\ l + 1 \in 0 .. TVN_NUM
<1>1. TVN_NUM \in Nat /\ TVN_SIZE \in Nat /\ TVN_SIZE > 1
  BY WheelAssumption
<1>2. l \in 0 .. TVN_NUM /\ l + 1 \in 1 .. TVN_NUM /\ l + 1 \in 0 .. TVN_NUM /\ (l + 1) - 1 = l
  BY <1>1 DEF Levels
<1>3. Span[l] \in Nat /\ Span[l] > 0 /\ Span[l + 1] = TVN_SIZE * Span[l]
  BY <1>2, SpanDef
<1>4. TVN_SIZE * Span[l] > Span[l] /\ TVN_SIZE * Span[l] \in Nat
  BY <1>1, <1>3
<1> QED
  BY <1>2, <1>3, <1>4

(* Spans grow, and so do the distances between them.                      *)
LEMMA SpanOrder ==
  ASSUME NEW l \in Levels, NEW k \in 0 .. l
  PROVE  /\ k \in Levels /\ Span[k] <= Span[l] /\ Span[k + 1] <= Span[l + 1]
         /\ Span[k + 1] - Span[k] <= Span[l + 1] - Span[l]
<1>1. TVN_NUM \in Nat /\ TVN_SIZE \in Nat /\ TVN_SIZE > 1 /\ l \in Nat /\ k \in Nat
  BY WheelAssumption DEF Levels
<1> DEFINE A == {n \in Nat : n <= l => Span[l - n] <= Span[l]}
<1>2. 0 \in A
  BY <1>1, SpanNext
<1>3. ASSUME NEW n \in A PROVE n + 1 \in A
  <2> SUFFICES ASSUME n + 1 <= l PROVE Span[l - (n + 1)] <= Span[l]
    OBVIOUS
  <2>1. n \in Nat /\ Span[l - n] <= Span[l]
    BY <1>1
  <2> DEFINE j == l - (n + 1)
  <2>2. j \in Levels /\ j + 1 = l - n
    BY <1>1, <2>1 DEF Levels
  <2>3. Span[j] < Span[j + 1] /\ Span[j] \in Nat /\ Span[j + 1] \in Nat
    BY <2>2, SpanNext
  <2>4. Span[l] \in Nat
    BY SpanNext
  <2> QED
    BY <2>1, <2>2, <2>3, <2>4
<1> HIDE DEF A
<1>4. A = Nat
  <2>1. A \in SUBSET Nat
    BY DEF A
  <2> QED
    BY <1>2, <1>3, <2>1, Induction
<1>5. l - k \in A /\ l - (l - k) = k /\ l - k <= l
  BY <1>1, <1>4
<1>6. Span[k] <= Span[l] /\ k \in Levels
  BY <1>1, <1>5 DEF A, Levels
<1>7. /\ Span[k] \in Nat /\ Span[k + 1] = TVN_SIZE * Span[k]
      /\ Span[l] \in Nat /\ Span[l + 1] = TVN_SIZE * Span[l]
  BY <1>6, SpanNext
<1>8. 0 <= Span[l] - Span[k]
  BY <1>6, <1>7
<1> DEFINE d == Span[l] - Span[k]
<1>9. d \in Int /\ 0 <= d /\ Span[l] = Span[k] + d
  BY <1>7, <1>8
<1> HIDE DEF d
<1>10. TVN_SIZE * d >= d
  BY <1>1, <1>9
<1>11. TVN_SIZE * Span[l] = TVN_SIZE * Span[k] + TVN_SIZE * d
  BY <1>1, <1>7, <1>9
<1>12. TVN_SIZE * Span[k] \in Int /\ TVN_SIZE * Span[l] \in Int /\ TVN_SIZE * d \in Int
  BY <1>1, <1>7, <1>9
<1> QED
  BY <1>6, <1>7, <1>9, <1>10, <1>11, <1>12

(* A multiple of a level's span is one of those below.                    *)
LEMMA SpanPart ==
  ASSUME NEW l \in Levels, NEW k \in 0 .. l, NEW n \in Nat, n % Span[l] = 0
  PROVE  n % Span[k] = 0
<1>1. TVN_NUM \in Nat /\ TVN_SIZE \in Nat /\ TVN_SIZE > 1 /\ l \in Nat /\ k \in Nat
  BY WheelAssumption DEF Levels
<1> DEFINE A == {i \in Nat : i <= l => n % Span[l - i] = 0}
<1>2. 0 \in A
  BY <1>1
<1>3. ASSUME NEW i \in A PROVE i + 1 \in A
  <2> SUFFICES ASSUME i + 1 <= l PROVE n % Span[l - (i + 1)] = 0
    OBVIOUS
  <2>1. i \in Nat /\ n % Span[l - i] = 0
    BY <1>1
  <2> DEFINE j == l - (i + 1)
  <2>2. j \in Levels /\ j + 1 = l - i
    BY <1>1, <2>1 DEF Levels
  <2>3. Span[j + 1] = TVN_SIZE * Span[j] /\ Span[j] \in Nat /\ Span[j] > 0
    BY <2>2, SpanNext
  <2>4. n % (TVN_SIZE * Span[j]) = 0
    BY <2>1, <2>2, <2>3
  <2> HIDE DEF A
  <2> QED
    BY <1>1, <2>3, <2>4, MultipleOfPart
<1> HIDE DEF A
<1>4. A = Nat
  <2>1. A \in SUBSET Nat
    BY DEF A
  <2> QED
    BY <1>2, <1>3, <2>1, Induction
<1>5. l - k \in A /\ l - (l - k) = k /\ l - k <= l
  BY <1>1, <1>4
<1> QED
  BY <1>5 DEF A

(* The least level whose slots reach far enough, or the highest.           *)
LEMMA LevelOf ==
  ASSUME NEW d \in Nat
  PROVE  /\ GetLevel(d) \in Levels
         /\ d < Span[GetLevel(d) + 1] \/ GetLevel(d) = TVN_NUM - 1
         /\ GetLevel(d) > 0 => d >= Span[GetLevel(d)]
         /\ \A l \in Levels : d < Span[l + 1] => GetLevel(d) <= l
<1>1. TVN_NUM \in Nat /\ TVN_NUM > 1 /\ TVN_NUM - 1 \in Levels /\ Levels \subseteq Nat
  BY WheelAssumption DEF Levels
<1> DEFINE L == {l \in Levels : d < Span[l + 1] \/ l = TVN_NUM - 1}
<1>2. L \in SUBSET Nat /\ L # {}
  BY <1>1
<1>3. PICK a \in L : \A b \in L : a <= b
  BY <1>2, Least
<1>4. a \in Levels /\ (d < Span[a + 1] \/ a = TVN_NUM - 1)
  BY <1>3
<1>5. ASSUME NEW k \in 0 .. a - 1 PROVE d >= Span[k + 1]
  <2>1. k \in Levels /\ k < a
    BY <1>1, <1>4 DEF Levels
  <2>2. k \notin L
    BY <1>1, <1>3, <1>4, <2>1
  <2>3. Span[k + 1] \in Nat
    BY <2>1, SpanNext
  <2> QED
    BY <2>1, <2>2, <2>3
<1>6. /\ GetLevel(d) \in Levels
      /\ d < Span[GetLevel(d) + 1] \/ GetLevel(d) = TVN_NUM - 1
      /\ \A k \in 0 .. GetLevel(d) - 1 : d >= Span[k + 1]
  BY <1>4, <1>5 DEF GetLevel
<1> DEFINE g == GetLevel(d)
<1> HIDE DEF L, g
<1>7. g \in Levels /\ g \in Nat /\ \A k \in 0 .. g - 1 : d >= Span[k + 1]
  BY <1>1, <1>6 DEF g
<1>8. g > 0 => d >= Span[g]
  <2> SUFFICES ASSUME g > 0 PROVE d >= Span[g]
    OBVIOUS
  <2>1. g - 1 \in 0 .. g - 1 /\ (g - 1) + 1 = g
    BY <1>7
  <2> QED
    BY <1>7, <2>1
<1>9. ASSUME NEW l \in Levels, d < Span[l + 1] PROVE g <= l
  <2> SUFFICES ASSUME l < g PROVE FALSE
    BY <1>1, <1>7
  <2>1. l \in 0 .. g - 1 /\ Span[l + 1] \in Nat
    BY <1>1, <1>7, SpanNext
  <2> QED
    BY <1>7, <1>9, <2>1
<1> QED
  BY <1>6, <1>8, <1>9 DEF g

(* What Among picks, as a set.                                            *)
LEMMA AmongSet ==
  ASSUME NEW S, NEW s \in Seq(S), NEW T, NEW x
  PROVE  x \in ToSet(Among(s, T)) <=> x \in ToSet(s) /\ x \in T
<1> DEFINE r == Among(s, T)
<1>1. r \in Seq(S)
  BY AmongPicks
<1>2. PICK e : Picks(e, r, s, T, Len(s))
  BY AmongPicks
<1> HIDE DEF r
<1>3. /\ Len(r) \in Nat /\ Len(s) \in Nat /\ DOMAIN r = 1 .. Len(r) /\ DOMAIN s = 1 .. Len(s)
      /\ e \in [1 .. Len(r) -> 1 .. Len(s)]
      /\ \A i \in 1 .. Len(r) : s[e[i]] \in T /\ r[i] = s[e[i]]
      /\ \A j \in 1 .. Len(s) : s[j] \in T => \E i \in 1 .. Len(r) : e[i] = j
  BY <1>1, <1>2 DEF Picks
<1>4. ASSUME x \in ToSet(r) PROVE x \in ToSet(s) /\ x \in T
  <2>1. PICK i \in 1 .. Len(r) : x = r[i]
    BY <1>3, <1>4 DEF ToSet
  <2>2. e[i] \in DOMAIN s /\ x = s[e[i]] /\ x \in T
    BY <1>3, <2>1
  <2> QED
    BY <2>2 DEF ToSet
<1>5. ASSUME x \in ToSet(s), x \in T PROVE x \in ToSet(r)
  <2>1. PICK j \in 1 .. Len(s) : x = s[j]
    BY <1>3, <1>5 DEF ToSet
  <2>2. PICK i \in 1 .. Len(r) : e[i] = j
    BY <1>3, <1>5, <2>1
  <2>3. i \in DOMAIN r /\ r[i] = x
    BY <1>3, <2>1, <2>2
  <2> QED
    BY <2>3 DEF ToSet
<1> QED
  BY <1>4, <1>5 DEF r

LEMMA AmongOne ==
  ASSUME NEW S, NEW x \in S, NEW T
  PROVE  Among(<<x>>, T) = IF x \in T THEN <<x>> ELSE <<>>
<1>1. <<x>> \in Seq(S) /\ Len(<<x>>) = 1 /\ <<x>>[1] = x
  OBVIOUS
<1> DEFINE s == <<x>>
<1>2. PICK f \in [0 .. Len(s) -> Seq(S)] :
         /\ f[0] = <<>> /\ Among(s, T) = f[Len(s)]
         /\ \A i \in 1 .. Len(s) :
              f[i] = IF s[i] \in T THEN Append(f[i - 1], s[i]) ELSE f[i - 1]
  <2>1. s \in Seq(S)
    BY <1>1
  <2> HIDE DEF s
  <2> QED
    BY <2>1, AmongFollows
<1>3. f[1] = IF x \in T THEN Append(f[1 - 1], x) ELSE f[1 - 1]
  BY <1>1, <1>2
<1> QED
  BY <1>1, <1>2, <1>3

(* The places of a wheel that refer to t.                                  *)
Places(w, t) ==
  {p \in Levels \X Slots \X Nat :
     p[3] \in 1 .. Len(w[p[1]][p[2]]) /\ w[p[1]][p[2]][p[3]] = t}

Wheels == [Levels -> [Slots -> Seq(Timers)]]

(* Entries of the property, as one set of places.                         *)
LEMMA EntriesArePlaces ==
  ASSUME NEW w \in Wheels, NEW t
  PROVE  UNION {{<<l, s, i>> : i \in {j \in DOMAIN w[l][s] : w[l][s][j] = t}} :
                  l \in Levels, s \in Slots} = Places(w, t)
<1> DEFINE X(a, b) == {<<a, b, j>> : j \in {k \in DOMAIN w[a][b] : w[a][b][k] = t}}
           E == UNION {X(a, b) : a \in Levels, b \in Slots}
<1>1. \A l \in Levels, s \in Slots :
        /\ w[l][s] \in Seq(Timers) /\ Len(w[l][s]) \in Nat
        /\ DOMAIN w[l][s] = 1 .. Len(w[l][s])
  BY DEF Wheels
<1>2. ASSUME NEW p \in E PROVE p \in Places(w, t)
  <2>1. PICK l \in Levels, s \in Slots :
          p \in X(l, s)
    BY <1>2
  <2>2. PICK i \in DOMAIN w[l][s] : p = <<l, s, i>> /\ w[l][s][i] = t
    BY <2>1
  <2>3. i \in Nat /\ i \in 1 .. Len(w[l][s])
    BY <1>1, <2>2
  <2> QED
    BY <2>2, <2>3 DEF Places
<1>3. ASSUME NEW p \in Places(w, t) PROVE p \in E
  <2>1. PICK l \in Levels, s \in Slots, i \in Nat : p = <<l, s, i>>
    BY <1>3 DEF Places
  <2>2. i \in 1 .. Len(w[l][s]) /\ w[l][s][i] = t
    BY <1>3, <2>1 DEF Places
  <2>3. i \in {j \in DOMAIN w[l][s] : w[l][s][j] = t}
    BY <1>1, <2>2
  <2>4. p \in X(l, s)
    BY <2>1, <2>3
  <2> HIDE DEF X
  <2> QED
    BY <2>4
<1> QED
  BY <1>2, <1>3

(* Keeping the timers of T in one slot keeps every reference to them.      *)
LEMMA ScanPlaces ==
  ASSUME NEW w \in Wheels, NEW lv \in Levels, NEW ix \in Slots, NEW T,
         NEW t, t \in ToSet(w[lv][ix]) => t \in T,
         NEW v, v = [w EXCEPT ![lv][ix] = Among(@, T)]
  PROVE  v \in Wheels /\ ExistsBijection(Places(v, t), Places(w, t))
<1> DEFINE L == w[lv][ix]
           r == Among(L, T)
<1>1. L \in Seq(Timers) /\ r \in Seq(Timers) /\ \E e : Picks(e, r, L, T, Len(L))
  <2>1. L \in Seq(Timers)
    BY DEF Wheels
  <2> QED
    BY <2>1, AmongPicks
<1>2. v = [w EXCEPT ![lv][ix] = r]
  OBVIOUS
<1>3. PICK e : Picks(e, r, L, T, Len(L))
  BY <1>1
<1> HIDE DEF r
<1>4. /\ e \in [1 .. Len(r) -> 1 .. Len(L)]
      /\ \A i, j \in 1 .. Len(r) : i < j => e[i] < e[j]
      /\ \A i \in 1 .. Len(r) : L[e[i]] \in T /\ r[i] = L[e[i]]
      /\ \A j \in 1 .. Len(L) : L[j] \in T => \E i \in 1 .. Len(r) : e[i] = j
      /\ Len(r) \in Nat /\ Len(L) \in Nat
  <2>1. Len(r) \in Nat /\ Len(L) \in Nat
    BY <1>1
  <2> QED
    BY <1>3, <2>1 DEF Picks
<1>5. v \in Wheels
  <2>1. \A l \in Levels, s \in Slots : w[l][s] \in Seq(Timers)
    BY DEF Wheels
  <2> QED
    BY <1>1, <1>2, <2>1 DEF Wheels
<1>6. /\ v[lv][ix] = r
      /\ \A l \in Levels, s \in Slots : l # lv \/ s # ix => v[l][s] = w[l][s]
  <2>1. w \in [Levels -> [Slots -> Seq(Timers)]]
    BY DEF Wheels
  <2> QED
    BY <1>2, <2>1
<1> DEFINE h == [p \in Places(v, t) |->
                   IF p[1] = lv /\ p[2] = ix THEN <<lv, ix, e[p[3]]>> ELSE p]
<1>7. ASSUME NEW p \in Places(v, t)
      PROVE  /\ p[1] \in Levels /\ p[2] \in Slots /\ p[3] \in Nat /\ p = <<p[1], p[2], p[3]>>
             /\ p[3] \in 1 .. Len(v[p[1]][p[2]]) /\ v[p[1]][p[2]][p[3]] = t
  BY DEF Places
<1>8. ASSUME NEW p \in Places(v, t) PROVE h[p] \in Places(w, t)
  <2>1. CASE p[1] = lv /\ p[2] = ix
    <3>1. p[3] \in 1 .. Len(r) /\ r[p[3]] = t
      BY <1>6, <1>7, <2>1
    <3>2. e[p[3]] \in 1 .. Len(L) /\ e[p[3]] \in Nat /\ L[e[p[3]]] = t
      BY <1>4, <3>1
    <3>3. h[p] = <<lv, ix, e[p[3]]>>
      BY <2>1
    <3> HIDE DEF h
    <3> QED
      BY <3>2, <3>3 DEF Places
  <2>2. CASE ~(p[1] = lv /\ p[2] = ix)
    <3>1. v[p[1]][p[2]] = w[p[1]][p[2]]
      BY <1>6, <1>7, <2>2
    <3> QED
      BY <1>7, <2>2, <3>1 DEF Places
  <2> QED
    BY <2>1, <2>2
<1>9. ASSUME NEW p \in Places(v, t), NEW q \in Places(v, t), h[p] = h[q] PROVE p = q
  <2>1. CASE p[1] = lv /\ p[2] = ix /\ q[1] = lv /\ q[2] = ix
    <3>1. p[3] \in 1 .. Len(r) /\ q[3] \in 1 .. Len(r) /\ e[p[3]] = e[q[3]]
      BY <1>6, <1>7, <1>9, <2>1
    <3>2. p[3] = q[3]
      <4>1. e[p[3]] \in Int /\ e[q[3]] \in Int
        BY <1>4, <3>1
      <4>2. ~(p[3] < q[3]) /\ ~(q[3] < p[3])
        BY <1>4, <3>1, <4>1
      <4> QED
        BY <3>1, <4>2
    <3> QED
      BY <1>7, <2>1, <3>2
  <2>2. CASE ~(p[1] = lv /\ p[2] = ix /\ q[1] = lv /\ q[2] = ix)
    BY <1>7, <1>9, <2>2
  <2> QED
    BY <2>1, <2>2
<1>10. ASSUME NEW q \in Places(w, t) PROVE \E p \in Places(v, t) : h[p] = q
  <2>0. /\ q[1] \in Levels /\ q[2] \in Slots /\ q[3] \in Nat /\ q = <<q[1], q[2], q[3]>>
        /\ q[3] \in 1 .. Len(w[q[1]][q[2]]) /\ w[q[1]][q[2]][q[3]] = t
    BY DEF Places
  <2>1. CASE q[1] = lv /\ q[2] = ix
    <3>0. q[3] \in 1 .. Len(L) /\ L[q[3]] = t /\ t \in T
      <4>1. q[3] \in 1 .. Len(L) /\ L[q[3]] = t
        BY <2>0, <2>1
      <4>2. t \in ToSet(L)
        BY <1>1, <4>1 DEF ToSet
      <4> QED
        BY <4>1, <4>2
    <3>1. PICK i \in 1 .. Len(r) : e[i] = q[3]
      BY <1>4, <3>0
    <3>2. r[i] = t /\ i \in Nat
      BY <1>4, <2>0, <2>1, <3>1
    <3>3. <<lv, ix, i>> \in Places(v, t)
      BY <1>6, <3>1, <3>2 DEF Places
    <3> QED
      BY <2>0, <2>1, <3>1, <3>3
  <2>2. CASE ~(q[1] = lv /\ q[2] = ix)
    <3>1. v[q[1]][q[2]] = w[q[1]][q[2]]
      BY <1>6, <2>0, <2>2
    <3>2. q \in Places(v, t)
      BY <2>0, <3>1 DEF Places
    <3> QED
      BY <2>2, <3>2
  <2> QED
    BY <2>1, <2>2
<1>11. h \in [Places(v, t) -> Places(w, t)]
  BY <1>8
<1>12. h \in Bijection(Places(v, t), Places(w, t))
  <2> HIDE DEF h
  <2> QED
    BY <1>9, <1>10, <1>11 DEF Bijection, Injection, Surjection, IsInjective
<1> QED
  BY <1>5, <1>12 DEF ExistsBijection

(* AddTimer puts an accepted timer into one slot, its home.                *)
LEMMA Home ==
  ASSUME TypeOK, NEW t \in Timers, Accepted(t), NEW l \in Levels, NEW s \in Slots
  PROVE  /\ Delta(t) \in Nat /\ GetLevel(Delta(t)) \in Levels /\ Slot(Delta(t)) \in Slots
         /\ t \in GoingTo(l, s) <=> l = GetLevel(Delta(t)) /\ s = Slot(Delta(t))
<1>1. Delta(t) \in Nat
  <2>1. expires[t] \in Nat /\ now \in Nat
    BY DEF TypeOK
  <2> QED
    BY <2>1 DEF Delta
<1>2. GetLevel(Delta(t)) \in Levels
  BY <1>1, LevelOf
<1>3. TVN_SIZE \in Nat /\ TVN_SIZE > 1
  BY WheelAssumption
<1> DEFINE d == Delta(t)
           g == GetLevel(d)
<1>4. Slot(d) \in Slots
  <2>1. g \in Levels /\ d \in Nat
    BY <1>1, <1>2
  <2> HIDE DEF d, g
  <2>2. d % TVN_SIZE \in Slots
    BY <1>3, <2>1, DivMod DEF Slots
  <2>3. Span[g] \in Nat /\ Span[g] > 0
    BY <2>1, SpanNext
  <2> DEFINE q == (d - Span[g]) \div Span[g]
  <2>4. q \in Int
    BY <2>1, <2>3, DivMod
  <2> HIDE DEF q
  <2>5. q % TVN_SIZE \in Slots
    BY <1>3, <2>4, DivMod DEF Slots
  <2> QED
    BY <2>2, <2>5 DEF Slot, q, g
<1> QED
  BY <1>1, <1>2, <1>4 DEF GoingTo

(* Adding a list of timers appends to each slot those that go there.      *)
LEMMA AddAllType ==
  ASSUME NEW w \in Wheels, NEW L \in Seq(Timers), NEW l \in Levels, NEW s \in Slots
  PROVE  /\ AddAll(w, L) \in Wheels
         /\ AddAll(w, L)[l][s] = w[l][s] \o Among(L, GoingTo(l, s))
         /\ w[l][s] \in Seq(Timers) /\ Among(L, GoingTo(l, s)) \in Seq(Timers)
<1>1. \A a \in Levels, b \in Slots : w[a][b] \in Seq(Timers)
  BY DEF Wheels
<1>2. \A a \in Levels, b \in Slots : Among(L, GoingTo(a, b)) \in Seq(Timers)
  BY AmongPicks
<1>3. \A a \in Levels, b \in Slots : w[a][b] \o Among(L, GoingTo(a, b)) \in Seq(Timers)
  BY <1>1, <1>2
<1>4. AddAll(w, L) \in Wheels
  BY <1>3 DEF AddAll, Wheels
<1>5. AddAll(w, L)[l][s] = w[l][s] \o Among(L, GoingTo(l, s))
  BY DEF AddAll
<1> QED
  BY <1>1, <1>2, <1>4, <1>5

(* The places of a concatenation.                                         *)
LEMMA ConcatIndex ==
  ASSUME NEW S, NEW x \in Seq(S), NEW y \in Seq(S)
  PROVE  /\ Len(x) \in Nat /\ Len(y) \in Nat /\ Len(x \o y) = Len(x) + Len(y)
         /\ \A i \in 1 .. Len(x) : i \in 1 .. Len(x \o y) /\ (x \o y)[i] = x[i]
         /\ \A i \in 1 .. Len(y) :
              Len(x) + i \in 1 .. Len(x \o y) /\ (x \o y)[Len(x) + i] = y[i]
         /\ \A i \in 1 .. Len(x \o y) : i > Len(x) =>
              i - Len(x) \in 1 .. Len(y) /\ (x \o y)[i] = y[i - Len(x)]
<1>1. Len(x) \in Nat /\ Len(y) \in Nat /\ Len(x \o y) = Len(x) + Len(y)
  OBVIOUS
<1>2. \A i \in 1 .. Len(x) : i \in 1 .. Len(x \o y) /\ (x \o y)[i] = x[i]
  BY <1>1
<1>3. \A i \in 1 .. Len(y) :
        Len(x) + i \in 1 .. Len(x \o y) /\ (x \o y)[Len(x) + i] = y[i]
  BY <1>1
<1>4. \A i \in 1 .. Len(x \o y) : i > Len(x) =>
        i - Len(x) \in 1 .. Len(y) /\ (x \o y)[i] = y[i - Len(x)]
  BY <1>1
<1> QED
  BY <1>1, <1>2, <1>3, <1>4

LEMMA ConcatSet ==
  ASSUME NEW S, NEW x \in Seq(S), NEW y \in Seq(S), NEW z
  PROVE  z \in ToSet(x \o y) <=> z \in ToSet(x) \/ z \in ToSet(y)
<1>1. /\ DOMAIN x = 1 .. Len(x) /\ DOMAIN y = 1 .. Len(y) /\ DOMAIN (x \o y) = 1 .. Len(x \o y)
      /\ Len(x) \in Nat /\ Len(y) \in Nat /\ Len(x \o y) = Len(x) + Len(y)
  OBVIOUS
<1>2. ASSUME z \in ToSet(x \o y) PROVE z \in ToSet(x) \/ z \in ToSet(y)
  <2>1. PICK i \in 1 .. Len(x \o y) : z = (x \o y)[i]
    BY <1>1, <1>2 DEF ToSet
  <2>2. CASE i \in 1 .. Len(x)
    <3>1. z = x[i]
      BY <2>1, <2>2, ConcatIndex
    <3> QED
      BY <1>1, <2>2, <3>1 DEF ToSet
  <2>3. CASE i > Len(x)
    <3>1. i - Len(x) \in 1 .. Len(y) /\ z = y[i - Len(x)]
      BY <2>1, <2>3, ConcatIndex
    <3> QED
      BY <1>1, <3>1 DEF ToSet
  <2> QED
    BY <1>1, <2>2, <2>3
<1>3. ASSUME z \in ToSet(x) PROVE z \in ToSet(x \o y)
  <2>1. PICK i \in 1 .. Len(x) : z = x[i]
    BY <1>1, <1>3 DEF ToSet
  <2>2. i \in 1 .. Len(x \o y) /\ (x \o y)[i] = z
    BY <2>1, ConcatIndex
  <2> QED
    BY <1>1, <2>2 DEF ToSet
<1>4. ASSUME z \in ToSet(y) PROVE z \in ToSet(x \o y)
  <2>1. PICK i \in 1 .. Len(y) : z = y[i]
    BY <1>1, <1>4 DEF ToSet
  <2>2. Len(x) + i \in 1 .. Len(x \o y) /\ (x \o y)[Len(x) + i] = z
    BY <2>1, ConcatIndex
  <2> QED
    BY <1>1, <2>2 DEF ToSet
<1> QED
  BY <1>2, <1>3, <1>4

(* Taking a slot's timers off and adding them again keeps every reference  *)
(* to a timer that is accepted.                                            *)
LEMMA CascadePlaces ==
  ASSUME TypeOK, NEW w \in Wheels, NEW lv \in Levels, NEW ix \in Slots,
         NEW t \in Timers, Accepted(t),
         NEW v, v = AddAll([w EXCEPT ![lv][ix] = <<>>], w[lv][ix])
  PROVE  v \in Wheels /\ ExistsBijection(Places(v, t), Places(w, t))
<1> DEFINE L == w[lv][ix]
           u == [w EXCEPT ![lv][ix] = <<>>]
           lt == GetLevel(Delta(t))
           st == Slot(Delta(t))
           r == Among(L, GoingTo(lt, st))
           n0 == Len(u[lt][st])
<1>1. lt \in Levels /\ st \in Slots
  BY Home
<1>2. \A l \in Levels, s \in Slots : t \in GoingTo(l, s) <=> l = lt /\ s = st
  BY Home
<1> HIDE DEF lt, st
<1>3. L \in Seq(Timers) /\ r \in Seq(Timers)
      /\ \E e : Picks(e, r, L, GoingTo(lt, st), Len(L))
  <2>1. L \in Seq(Timers)
    BY DEF Wheels
  <2> QED
    BY <2>1, AmongPicks
<1>4. /\ u \in Wheels /\ u[lv][ix] = <<>>
      /\ \A l \in Levels, s \in Slots : l # lv \/ s # ix => u[l][s] = w[l][s]
  <2>1. w \in [Levels -> [Slots -> Seq(Timers)]]
    BY DEF Wheels
  <2> QED
    BY <2>1 DEF Wheels
<1>5. PICK e : Picks(e, r, L, GoingTo(lt, st), Len(L))
  BY <1>3
<1> HIDE DEF u
<1>6. /\ e \in [1 .. Len(r) -> 1 .. Len(L)]
      /\ \A i, j \in 1 .. Len(r) : i < j => e[i] < e[j]
      /\ \A i \in 1 .. Len(r) : r[i] = L[e[i]]
      /\ \A j \in 1 .. Len(L) : L[j] = t => \E i \in 1 .. Len(r) : e[i] = j
      /\ Len(r) \in Nat /\ Len(L) \in Nat /\ n0 \in Nat
  <2>1. Len(r) \in Nat /\ Len(L) \in Nat
    BY <1>3
  <2>2. n0 \in Nat
    BY <1>1, <1>4 DEF Wheels
  <2>3. t \in GoingTo(lt, st)
    BY <1>1, <1>2
  <2> HIDE DEF r, L
  <2> QED
    BY <1>5, <2>1, <2>2, <2>3 DEF Picks
<1>7. v \in Wheels
  BY <1>3, <1>4, AddAllType DEF u
<1>8. \A l \in Levels, s \in Slots :
        /\ u[l][s] \in Seq(Timers) /\ Among(L, GoingTo(l, s)) \in Seq(Timers)
        /\ v[l][s] = u[l][s] \o Among(L, GoingTo(l, s))
  <2>1. v = AddAll(u, L)
    BY DEF u
  <2>2. u \in Wheels /\ L \in Seq(Timers)
    BY <1>3, <1>4
  <2> HIDE DEF L
  <2>3. ASSUME NEW l \in Levels, NEW s \in Slots
        PROVE  /\ AddAll(u, L)[l][s] = u[l][s] \o Among(L, GoingTo(l, s))
               /\ u[l][s] \in Seq(Timers) /\ Among(L, GoingTo(l, s)) \in Seq(Timers)
    BY <2>2, AddAllType
  <2> QED
    BY <2>1, <2>3
<1>w. L = w[lv][ix] /\ n0 = Len(u[lt][st])
  OBVIOUS
<1>a. \A l \in Levels, s \in Slots :
        \A i \in 1 .. Len(u[l][s]) : i \in 1 .. Len(v[l][s]) /\ v[l][s][i] = u[l][s][i]
  <2> SUFFICES ASSUME NEW l \in Levels, NEW s \in Slots, NEW i \in 1 .. Len(u[l][s])
               PROVE  i \in 1 .. Len(v[l][s]) /\ v[l][s][i] = u[l][s][i]
    OBVIOUS
  <2> DEFINE x == u[l][s]
             y == Among(L, GoingTo(l, s))
  <2>1. x \in Seq(Timers) /\ y \in Seq(Timers) /\ v[l][s] = x \o y
    BY <1>8
  <2> HIDE DEF x, y
  <2>2. \A k \in 1 .. Len(x) : k \in 1 .. Len(x \o y) /\ (x \o y)[k] = x[k]
    BY <2>1, ConcatIndex
  <2> QED
    BY <2>1, <2>2 DEF x
<1>b. \A i \in 1 .. Len(r) : n0 + i \in 1 .. Len(v[lt][st]) /\ v[lt][st][n0 + i] = r[i]
  <2> DEFINE x == u[lt][st]
  <2>1. x \in Seq(Timers) /\ r \in Seq(Timers) /\ v[lt][st] = x \o r
    BY <1>1, <1>8
  <2>2. n0 = Len(x)
    OBVIOUS
  <2> HIDE DEF x, r, n0
  <2>3. \A i \in 1 .. Len(r) :
          Len(x) + i \in 1 .. Len(x \o r) /\ (x \o r)[Len(x) + i] = r[i]
    BY <2>1, ConcatIndex
  <2> QED
    BY <2>1, <2>2, <2>3
<1>c. ASSUME NEW l \in Levels, NEW s \in Slots, NEW i \in 1 .. Len(v[l][s]),
             i > Len(u[l][s]), v[l][s][i] = t
      PROVE  l = lt /\ s = st /\ i - n0 \in 1 .. Len(r) /\ r[i - n0] = t
  <2> DEFINE x == u[l][s]
             y == Among(L, GoingTo(l, s))
             k == i - Len(x)
  <2>1. x \in Seq(Timers) /\ y \in Seq(Timers) /\ v[l][s] = x \o y
    BY <1>8
  <2>2. PICK f : Picks(f, y, L, GoingTo(l, s), Len(L))
    BY <1>3, AmongPicks
  <2>3. \A j \in 1 .. Len(y) : y[j] \in GoingTo(l, s)
    <3> HIDE DEF y, L
    <3> QED
      BY <2>2 DEF Picks
  <2>4. k \in 1 .. Len(y) /\ y[k] = t
    <3> HIDE DEF x, y
    <3>1. i \in 1 .. Len(x \o y) /\ i > Len(x) /\ (x \o y)[i] = t
      BY <1>c, <2>1 DEF x
    <3> QED
      BY <2>1, <3>1
  <2>5. l = lt /\ s = st
    <3> HIDE DEF y, k
    <3> QED
      BY <1>2, <2>3, <2>4
  <2> QED
    BY <2>4, <2>5
<1> HIDE DEF L, r, n0
<1> DEFINE h == [p \in Places(v, t) |->
                   IF p[1] = lt /\ p[2] = st /\ p[3] > n0
                   THEN <<lv, ix, e[p[3] - n0]>> ELSE p]
<1>9. ASSUME NEW p \in Places(v, t)
      PROVE  /\ p[1] \in Levels /\ p[2] \in Slots /\ p[3] \in Nat /\ p = <<p[1], p[2], p[3]>>
             /\ p[3] \in 1 .. Len(v[p[1]][p[2]]) /\ v[p[1]][p[2]][p[3]] = t
  BY DEF Places
<1>10. ASSUME NEW p \in Places(v, t), p[1] = lt, p[2] = st, p[3] > n0
       PROVE  /\ h[p] = <<lv, ix, e[p[3] - n0]>>
              /\ p[3] - n0 \in 1 .. Len(r) /\ e[p[3] - n0] \in 1 .. Len(L)
              /\ L[e[p[3] - n0]] = t
  <2>1. h[p] = <<lv, ix, e[p[3] - n0]>>
    BY <1>10
  <2>2. p[3] - n0 \in 1 .. Len(r) /\ r[p[3] - n0] = t
    BY <1>c, <1>9, <1>10, <1>w
  <2> HIDE DEF h
  <2> QED
    BY <1>6, <2>1, <2>2
<1>11. ASSUME NEW p \in Places(v, t), ~(p[1] = lt /\ p[2] = st /\ p[3] > n0)
       PROVE  h[p] = p /\ p \in Places(w, t) /\ (p[1] # lv \/ p[2] # ix)
  <2>1. h[p] = p
    BY <1>11
  <2> HIDE DEF h
  <2>2. p[3] \in 1 .. Len(u[p[1]][p[2]])
    <3>1. Len(u[p[1]][p[2]]) \in Nat
      BY <1>8, <1>9
    <3>2. ~(p[3] > Len(u[p[1]][p[2]]))
      BY <1>c, <1>9, <1>11, <1>w
    <3> DEFINE a == Len(u[p[1]][p[2]])
               b == Len(v[p[1]][p[2]])
               k == p[3]
    <3>3. a \in Nat /\ k \in 1 .. b /\ k \in Nat /\ ~(k > a)
      BY <1>9, <3>1, <3>2
    <3> HIDE DEF a, b, k
    <3>4. k \in 1 .. a
      BY <3>3
    <3> QED
      BY <3>4 DEF a, k
  <2>3. u[p[1]][p[2]][p[3]] = t
    BY <1>a, <1>9, <2>2
  <2>4. p[1] # lv \/ p[2] # ix
    BY <1>4, <2>2
  <2>5. u[p[1]][p[2]] = w[p[1]][p[2]]
    BY <1>4, <1>9, <2>4
  <2> QED
    BY <1>9, <2>1, <2>2, <2>3, <2>4, <2>5 DEF Places
<1> HIDE DEF h
<1>12. ASSUME NEW p \in Places(v, t) PROVE h[p] \in Places(w, t)
  <2>1. CASE p[1] = lt /\ p[2] = st /\ p[3] > n0
    <3> DEFINE j == e[p[3] - n0]
    <3>1. j \in 1 .. Len(L) /\ h[p] = <<lv, ix, j>> /\ L[j] = t
      BY <1>10, <2>1
    <3> HIDE DEF j
    <3>2. j \in Nat
      BY <1>6, <3>1
    <3> QED
      BY <1>w, <3>1, <3>2 DEF Places
  <2> QED
    BY <1>11, <2>1
<1>13. ASSUME NEW p \in Places(v, t), NEW q \in Places(v, t), h[p] = h[q] PROVE p = q
  <2>1. CASE /\ p[1] = lt /\ p[2] = st /\ p[3] > n0
             /\ q[1] = lt /\ q[2] = st /\ q[3] > n0
    <3> DEFINE i == p[3] - n0
               j == q[3] - n0
    <3>0. /\ i \in 1 .. Len(r) /\ h[p] = <<lv, ix, e[i]>>
          /\ j \in 1 .. Len(r) /\ h[q] = <<lv, ix, e[j]>>
      BY <1>10, <2>1
    <3>1. i \in 1 .. Len(r) /\ j \in 1 .. Len(r) /\ e[i] = e[j]
      <4> HIDE DEF i, j
      <4>1. <<lv, ix, e[i]>> = <<lv, ix, e[j]>>
        BY ONLY <1>13, <3>0
      <4>2. e[i] = e[j]
        BY <4>1
      <4> QED
        BY <3>0, <4>2
    <3>2. i = j
      <4> HIDE DEF i, j
      <4>1. e[i] \in Int /\ e[j] \in Int
        BY <1>6, <3>1
      <4>2. ~(i < j) /\ ~(j < i)
        BY <1>6, <3>1, <4>1
      <4> QED
        BY <3>1, <4>2
    <3>3. p[3] = q[3]
      <4> DEFINE a == p[3]
                 b == q[3]
      <4>1. a \in Nat /\ b \in Nat /\ n0 \in Nat /\ a - n0 = b - n0
        BY <1>6, <1>9, <3>2
      <4> HIDE DEF a, b
      <4>2. a = b
        BY <4>1
      <4> QED
        BY <4>2 DEF a, b
    <3> QED
      BY <1>9, <2>1, <3>3
  <2>2. CASE /\ ~(p[1] = lt /\ p[2] = st /\ p[3] > n0)
             /\ ~(q[1] = lt /\ q[2] = st /\ q[3] > n0)
    BY <1>11, <1>13, <2>2
  <2>3. CASE /\ p[1] = lt /\ p[2] = st /\ p[3] > n0
             /\ ~(q[1] = lt /\ q[2] = st /\ q[3] > n0)
    <3>1. h[p] = <<lv, ix, e[p[3] - n0]>>
      BY <1>10, <2>3
    <3>2. h[q] = q /\ (q[1] # lv \/ q[2] # ix)
      BY <1>11, <2>3
    <3> DEFINE j == e[p[3] - n0]
    <3>3. <<lv, ix, j>> = q
      BY <1>13, <3>1, <3>2
    <3> HIDE DEF j
    <3>4. q[1] = lv /\ q[2] = ix
      BY <3>3
    <3> QED
      BY <3>2, <3>4
  <2>4. CASE /\ q[1] = lt /\ q[2] = st /\ q[3] > n0
             /\ ~(p[1] = lt /\ p[2] = st /\ p[3] > n0)
    <3>1. h[q] = <<lv, ix, e[q[3] - n0]>>
      BY <1>10, <2>4
    <3>2. h[p] = p /\ (p[1] # lv \/ p[2] # ix)
      BY <1>11, <2>4
    <3> QED
      BY <1>13, <3>1, <3>2
  <2> QED
    BY <2>1, <2>2, <2>3, <2>4
<1>14. ASSUME NEW q \in Places(w, t) PROVE \E p \in Places(v, t) : h[p] = q
  <2>0. /\ q[1] \in Levels /\ q[2] \in Slots /\ q[3] \in Nat /\ q = <<q[1], q[2], q[3]>>
        /\ q[3] \in 1 .. Len(w[q[1]][q[2]]) /\ w[q[1]][q[2]][q[3]] = t
    BY DEF Places
  <2>1. CASE q[1] = lv /\ q[2] = ix
    <3>0. q[3] \in 1 .. Len(L) /\ L[q[3]] = t
      BY <1>w, <2>0, <2>1
    <3>1. PICK i \in 1 .. Len(r) : e[i] = q[3]
      BY <1>6, <3>0
    <3>2. r[i] = t /\ n0 + i \in Nat /\ n0 + i > n0 /\ (n0 + i) - n0 = i
      <4>1. r[i] = t
        BY <1>6, <3>0, <3>1
      <4>2. n0 \in Nat /\ i \in Nat /\ i > 0
        BY <1>6
      <4> QED
        BY <4>1, <4>2
    <3>3. <<lt, st, n0 + i>> \in Places(v, t)
      BY <1>1, <1>b, <3>1, <3>2 DEF Places
    <3>4. h[<<lt, st, n0 + i>>] = <<lv, ix, e[i]>>
      BY <1>10, <3>2, <3>3
    <3> QED
      BY <2>0, <2>1, <3>1, <3>3, <3>4
  <2>2. CASE ~(q[1] = lv /\ q[2] = ix)
    <3>1. u[q[1]][q[2]] = w[q[1]][q[2]]
      BY <1>4, <2>0, <2>2
    <3>2. q \in Places(v, t)
      <4>1. q[3] \in 1 .. Len(v[q[1]][q[2]]) /\ v[q[1]][q[2]][q[3]] = t
        <5>1. q[3] \in 1 .. Len(u[q[1]][q[2]]) /\ u[q[1]][q[2]][q[3]] = t
          BY <2>0, <3>1
        <5> QED
          BY <1>a, <2>0, <5>1
      <4> QED
        BY <2>0, <4>1 DEF Places
    <3>3. ~(q[1] = lt /\ q[2] = st /\ q[3] > n0)
      BY <1>6, <1>w, <2>0, <3>1
    <3> QED
      BY <1>11, <3>2, <3>3
  <2> QED
    BY <2>1, <2>2
<1>15. h \in [Places(v, t) -> Places(w, t)]
  BY <1>12 DEF h
<1>16. h \in Bijection(Places(v, t), Places(w, t))
  BY <1>13, <1>14, <1>15 DEF Bijection, Injection, Surjection, IsInjective
<1> QED
  BY <1>7, <1>16 DEF ExistsBijection

(* Adding one timer appends it to one slot.                               *)
LEMMA AddOne ==
  ASSUME TypeOK, NEW w \in Wheels, NEW t \in Timers, Accepted(t)
  PROVE  \E l \in Levels, s \in Slots :
           /\ l = GetLevel(Delta(t)) /\ s = Slot(Delta(t))
           /\ AddAll(w, <<t>>) = [w EXCEPT ![l][s] = Append(@, t)]
<1> DEFINE lt == GetLevel(Delta(t))
           st == Slot(Delta(t))
<1>1. lt \in Levels /\ st \in Slots
  BY Home, Constants
<1>2. ASSUME NEW a \in Levels, NEW b \in Slots
      PROVE  t \in GoingTo(a, b) <=> a = lt /\ b = st
  <2>1. t \in GoingTo(a, b) <=> (a = GetLevel(Delta(t)) /\ b = Slot(Delta(t)))
    BY Home
  <2> QED
    BY <2>1
<1> HIDE DEF lt, st
<1>3. ASSUME NEW a \in Levels, NEW b \in Slots
      PROVE  w[a][b] \o Among(<<t>>, GoingTo(a, b))
               = IF a = lt /\ b = st THEN Append(w[a][b], t) ELSE w[a][b]
  <2> DEFINE x == w[a][b]
             y == Among(<<t>>, GoingTo(a, b))
  <2>1. x \in Seq(Timers)
    BY DEF Wheels
  <2>2. y = IF a = lt /\ b = st THEN <<t>> ELSE <<>>
    BY <1>2, AmongOne
  <2> HIDE DEF x, y
  <2>3. x \o <<t>> = Append(x, t) /\ x \o <<>> = x
    BY <2>1
  <2> QED
    BY <2>2, <2>3 DEF x, y
<1>4. AddAll(w, <<t>>) = [a \in Levels |-> [b \in Slots |->
                            IF a = lt /\ b = st THEN Append(w[a][b], t) ELSE w[a][b]]]
  BY <1>3 DEF AddAll
<1>5. w \in [Levels -> [Slots -> Seq(Timers)]]
  BY DEF Wheels
<1>6. [w EXCEPT ![lt][st] = Append(@, t)] = [a \in Levels |-> [b \in Slots |->
                            IF a = lt /\ b = st THEN Append(w[a][b], t) ELSE w[a][b]]]
  BY <1>1, <1>5
<1> QED
  BY <1>1, <1>4, <1>6 DEF lt, st

(* Adding a timer makes one more reference to it, and none to another.     *)
LEMMA AddPlaces ==
  ASSUME TypeOK, NEW w \in Wheels, NEW t \in Timers, Accepted(t), NEW v,
         v = AddAll(w, <<t>>)
  PROVE  /\ v \in Wheels
         /\ \E p : p \notin Places(w, t) /\ Places(v, t) = Places(w, t) \cup {p}
         /\ \A x \in Timers \ {t} : Places(v, x) = Places(w, x)
         /\ \A a \in Levels, b \in Slots : \A x \in ToSet(w[a][b]) : x \in ToSet(v[a][b])
         /\ t \in ToSet(v[GetLevel(Delta(t))][Slot(Delta(t))])
<1>1. PICK l \in Levels, s \in Slots :
           /\ l = GetLevel(Delta(t)) /\ s = Slot(Delta(t))
           /\ v = [w EXCEPT ![l][s] = Append(@, t)]
  BY AddOne
<1> DEFINE n == Len(w[l][s]) + 1
           p == <<l, s, n>>
<1>2. w \in [Levels -> [Slots -> Seq(Timers)]]
  BY DEF Wheels
<1>3. /\ w[l][s] \in Seq(Timers) /\ v[l][s] = Append(w[l][s], t)
      /\ \A a \in Levels, b \in Slots : a # l \/ b # s => v[a][b] = w[a][b]
  <2>1. w[l][s] \in Seq(Timers)
    BY <1>2
  <2>2. v = [w EXCEPT ![l][s] = Append(@, t)]
    BY <1>1
  <2>3. v[l][s] = Append(w[l][s], t)
    BY <1>2, <2>2
  <2>4. \A a \in Levels, b \in Slots : a # l \/ b # s => v[a][b] = w[a][b]
    BY <1>2, <2>2
  <2> QED
    BY <2>1, <2>3, <2>4
<1>4. /\ n \in Nat /\ n \in 1 .. n /\ Len(v[l][s]) = n /\ v[l][s][n] = t /\ n > Len(w[l][s])
      /\ \A i \in 1 .. Len(w[l][s]) : i \in 1 .. n /\ v[l][s][i] = w[l][s][i]
      /\ \A i \in 1 .. n : i = n \/ i \in 1 .. Len(w[l][s])
  <2>1. PICK r \in Seq(Timers) : r = w[l][s]
    BY <1>3
  <2>2. /\ Len(Append(r, t)) = Len(r) + 1 /\ Append(r, t)[Len(r) + 1] = t
        /\ \A i \in 1 .. Len(r) : Append(r, t)[i] = r[i]
    BY AppendProperties
  <2>3. Len(r) \in Nat /\ n = Len(r) + 1 /\ v[l][s] = Append(r, t)
    BY <1>3, <2>1
  <2> HIDE DEF n
  <2>4. PICK k \in Nat : k = Len(r)
    BY <2>3
  <2>5. n = k + 1 /\ n \in Nat /\ n \in 1 .. n /\ n > k /\ \A i \in 1 .. n : i = n \/ i \in 1 .. k
    BY <2>3, <2>4
  <2>6. \A i \in 1 .. k : i \in 1 .. n
    BY <2>5
  <2>7. Len(v[l][s]) = n /\ v[l][s][n] = t /\ \A i \in 1 .. k : v[l][s][i] = r[i]
    BY ONLY <2>2, <2>3, <2>4
  <2> QED
    BY ONLY <2>1, <2>4, <2>5, <2>6, <2>7
<1>5. v \in Wheels
  <2>1. Append(w[l][s], t) \in Seq(Timers)
    BY <1>3
  <2>2. v = [w EXCEPT ![l][s] = Append(w[l][s], t)]
    BY <1>1, <1>2
  <2> QED
    BY <1>2, <2>1, <2>2 DEF Wheels
<1> HIDE DEF n
<1> DEFINE At(u, a, b, i, x) == i \in 1 .. Len(u[a][b]) /\ u[a][b][i] = x
<1>6. ASSUME NEW x, NEW a \in Levels, NEW b \in Slots, NEW i \in Nat
      PROVE  At(v, a, b, i, x)
               <=> At(w, a, b, i, x) \/ (a = l /\ b = s /\ i = n /\ x = t)
  <2>1. CASE a = l /\ b = s
    BY <1>3, <1>4, <2>1
  <2>2. CASE ~(a = l /\ b = s)
    BY <1>3, <2>2
  <2> QED
    BY <2>1, <2>2
<1> HIDE DEF At
<1>7. ASSUME NEW x, NEW q \in Levels \X Slots \X Nat
      PROVE  q \in Places(v, x) <=> q \in Places(w, x) \/ (q = p /\ x = t)
  <2>1. PICK a \in Levels, b \in Slots, i \in Nat : q = <<a, b, i>>
    OBVIOUS
  <2>2. q \in Places(v, x) <=> At(v, a, b, i, x)
    BY <2>1 DEF Places, At
  <2>3. q \in Places(w, x) <=> At(w, a, b, i, x)
    BY <2>1 DEF Places, At
  <2>4. q = p <=> a = l /\ b = s /\ i = n
    BY <2>1
  <2>5. At(v, a, b, i, x)
          <=> At(w, a, b, i, x) \/ (a = l /\ b = s /\ i = n /\ x = t)
    BY <1>6
  <2> HIDE DEF p
  <2> QED
    BY <2>2, <2>3, <2>4, <2>5
<1>8. p \in Levels \X Slots \X Nat
  BY <1>1, <1>4
<1>9. p \notin Places(w, t)
  BY <1>4 DEF Places
<1> HIDE DEF p
<1>10. \A x : Places(v, x) \subseteq Levels \X Slots \X Nat
              /\ Places(w, x) \subseteq Levels \X Slots \X Nat
  BY DEF Places
<1>11. Places(v, t) = Places(w, t) \cup {p}
  BY <1>7, <1>8, <1>10
<1>12. \A x \in Timers \ {t} : Places(v, x) = Places(w, x)
  BY <1>7, <1>10
<1>13. ASSUME NEW a \in Levels, NEW b \in Slots, NEW x \in ToSet(w[a][b])
       PROVE  x \in ToSet(v[a][b])
  <2>1. w[a][b] \in Seq(Timers) /\ v[a][b] \in Seq(Timers)
    BY <1>5 DEF Wheels
  <2>2. DOMAIN w[a][b] = 1 .. Len(w[a][b]) /\ DOMAIN v[a][b] = 1 .. Len(v[a][b])
    BY <2>1
  <2>3. PICK i \in 1 .. Len(w[a][b]) : w[a][b][i] = x
    BY <2>2 DEF ToSet
  <2>4. i \in Nat
    BY <2>1, <2>3
  <2>5. i \in 1 .. Len(v[a][b]) /\ v[a][b][i] = x
    BY <1>6, <2>3, <2>4 DEF At
  <2> QED
    BY <2>2, <2>5 DEF ToSet
<1>14. t \in ToSet(v[l][s])
  <2>1. v[l][s] \in Seq(Timers)
    BY <1>5 DEF Wheels
  <2>2. n \in DOMAIN v[l][s]
    BY <1>4, <2>1
  <2> QED
    BY <1>4, <2>2 DEF ToSet
<1> QED
  BY <1>1, <1>5, <1>9, <1>11, <1>12, <1>13, <1>14

(* The due timers of a slot, each once.                                    *)
LEMMA DueInSlot ==
  ASSUME NEW slot \in Seq(Timers)
  PROVE  /\ DueIn(slot) \in Seq(Timers)
         /\ \A i, j \in 1 .. Len(DueIn(slot)) : DueIn(slot)[i] = DueIn(slot)[j] => i = j
         /\ \A i \in 1 .. Len(DueIn(slot)) : DueIn(slot)[i] \in ToSet(slot) /\ Due(DueIn(slot)[i])
         /\ \A t \in ToSet(slot) : Due(t) => \E i \in 1 .. Len(DueIn(slot)) : DueIn(slot)[i] = t
<1> DEFINE n == Len(slot)
           I == [i \in 1 .. n |-> i]
           T == {i \in 1 .. n : Due(slot[i]) /\ \A j \in 1 .. i - 1 : slot[j] # slot[i]}
           first == Among(I, T)
           m == Len(first)
           d == [k \in 1 .. m |-> slot[first[k]]]
<1>1. /\ n \in Nat /\ I \in Seq(Nat) /\ Len(I) = n /\ \A i \in 1 .. n : I[i] = i
      /\ DOMAIN slot = 1 .. n /\ \A i \in 1 .. n : slot[i] \in Timers
  <2>1. n \in Nat /\ DOMAIN slot = 1 .. n /\ \A i \in 1 .. n : slot[i] \in Timers
    OBVIOUS
  <2>2. I \in [1 .. n -> Nat]
    BY <2>1
  <2>3. I \in Seq(Nat) /\ Len(I) = n
    BY <2>1, <2>2
  <2> QED
    BY <2>1, <2>3
<1>2. DueIn(slot) = d
  BY DEF DueIn
<1> HIDE DEF I
<1>3. first \in Seq(Nat) /\ \E e : Picks(e, first, I, T, n)
  <2> HIDE DEF T, first
  <2> QED
    BY <1>1, AmongPicks DEF first
<1>4. PICK e : Picks(e, first, I, T, n)
  BY <1>3
<1> HIDE DEF T, first, n, m
<1>5. /\ m \in Nat /\ e \in [1 .. m -> 1 .. n]
      /\ \A i, j \in 1 .. m : i < j => e[i] < e[j]
      /\ \A i \in 1 .. m : e[i] \in T /\ first[i] = e[i]
      /\ \A j \in 1 .. n : j \in T => \E i \in 1 .. m : e[i] = j
  <2>1. m \in Nat
    BY <1>3 DEF m
  <2> QED
    BY <1>1, <1>4, <2>1 DEF Picks, m
<1>6. /\ d \in Seq(Timers) /\ Len(d) = m /\ \A i \in 1 .. m : d[i] = slot[e[i]]
  <2>1. \A i \in 1 .. m : d[i] = slot[e[i]] /\ slot[e[i]] \in Timers
    BY <1>1, <1>5
  <2>2. d \in [1 .. m -> Timers]
    BY <2>1
  <2> HIDE DEF d
  <2>3. d \in Seq(Timers) /\ Len(d) = m
    BY <1>5, <2>2
  <2> QED
    BY <2>1, <2>3
<1> HIDE DEF d
<1>7. ASSUME NEW i \in 1 .. m, NEW j \in 1 .. m, d[i] = d[j] PROVE i = j
  <2>1. /\ e[i] \in 1 .. n /\ e[j] \in 1 .. n /\ slot[e[i]] = slot[e[j]]
        /\ e[i] \in T /\ e[j] \in T
    BY <1>5, <1>6, <1>7
  <2>2. e[i] \in Int /\ e[j] \in Int /\ n \in Nat /\ 1 <= e[i] /\ 1 <= e[j]
    BY <1>1, <2>1
  <2>3. ~(e[i] < e[j])
    <3> SUFFICES ASSUME e[i] < e[j] PROVE FALSE
      OBVIOUS
    <3>1. e[i] \in 1 .. e[j] - 1
      BY <2>2
    <3> QED
      BY <2>1, <3>1 DEF T
  <2>4. ~(e[j] < e[i])
    <3> SUFFICES ASSUME e[j] < e[i] PROVE FALSE
      OBVIOUS
    <3>1. e[j] \in 1 .. e[i] - 1
      BY <2>2
    <3> QED
      BY <2>1, <3>1 DEF T
  <2>5. ~(i < j) /\ ~(j < i)
    BY <1>5, <2>3, <2>4
  <2> QED
    BY <1>5, <2>5
<1>8. ASSUME NEW i \in 1 .. m PROVE d[i] \in ToSet(slot) /\ Due(d[i])
  <2>1. e[i] \in DOMAIN slot /\ d[i] = slot[e[i]] /\ e[i] \in T
    BY <1>1, <1>5, <1>6
  <2> QED
    BY <2>1 DEF ToSet, T
<1>9. ASSUME NEW t \in ToSet(slot), Due(t) PROVE \E i \in 1 .. m : d[i] = t
  <2> DEFINE P == {i \in 1 .. n : slot[i] = t}
  <2>1. P \in SUBSET Nat /\ P # {}
    BY <1>1 DEF ToSet
  <2>2. PICK k \in P : \A j \in P : k <= j
    BY <2>1, Least
  <2>3. k \in 1 .. n /\ slot[k] = t /\ k \in Nat
    BY <2>1, <2>2
  <2>4. \A j \in 1 .. k - 1 : slot[j] # slot[k]
    <3> SUFFICES ASSUME NEW j \in 1 .. k - 1, slot[j] = slot[k] PROVE FALSE
      OBVIOUS
    <3>1. j \in 1 .. n /\ j < k /\ j \in Nat
      BY <1>1, <2>3
    <3>2. j \in P
      BY <2>3, <3>1
    <3> QED
      BY <2>2, <2>3, <3>1, <3>2
  <2>5. k \in T
    BY <1>9, <2>3, <2>4 DEF T
  <2> QED
    BY <1>5, <1>6, <2>3, <2>5
<1> QED
  BY <1>2, <1>6, <1>7, <1>8, <1>9

-----------------------------------------------------------------------------
(* Types *)

LEMMA TypeInit ==
  ASSUME Init
  PROVE  TypeOK
<1>1. <<>> \in Seq(Timers)
  OBVIOUS
<1> QED
  BY <1>1, Constants DEF Init, TypeOK

(* The types after an index has moved on.                                 *)
LEMMA MoveOnType ==
  ASSUME TypeOK, NEW l \in Levels, MoveOn(l)
  PROVE  idx' \in [Levels -> Slots] /\ tick' \in {"done", "cascade"} /\ lev' \in Levels
<1>1. idx[l] \in Nat /\ Successor(idx[l]) \in Slots
  <2>1. idx[l] \in Nat
    BY Constants DEF TypeOK
  <2>2. idx[l] + 1 \in Nat
    BY <2>1
  <2> QED
    BY <2>1, <2>2, Constants DEF Successor
<1>2. idx' \in [Levels -> Slots]
  BY <1>1 DEF MoveOn, TypeOK
<1> QED
  BY <1>2, Constants DEF MoveOn, Wrapped

LEMMA TypeStep ==
  ASSUME TypeOK, [Next]_vars
  PROVE  TypeOK'
<1> USE DEF TypeOK
<1>1. CASE Scan
  <2>1. now' \in Nat /\ tick' = "fire"
    BY <1>1 DEF Scan
  <2> DEFINE slot == tv[0][idx[0]]
  <2>2. slot \in Seq(Timers) /\ idx[0] \in Slots
    BY Constants
  <2>3. expired' \in Seq(Timers)
    <3>1. expired' = DueIn(slot)
      BY <1>1 DEF Scan
    <3> HIDE DEF slot
    <3> QED
      BY <2>2, <3>1, DueInSlot
  <2>4. active' \in [Timers -> BOOLEAN]
    BY <1>1 DEF Scan, Deactivated
  <2>5. tv' \in [Levels -> [Slots -> Seq(Timers)]]
    <3>1. Among(slot, Kept) \in Seq(Timers)
      BY <2>2, AmongPicks
    <3>2. tv' = [tv EXCEPT ![0][idx[0]] = Among(slot, Kept)]
      BY <1>1 DEF Scan
    <3> HIDE DEF slot
    <3> QED
      BY <3>1, <3>2
  <2> QED
    BY <1>1, <2>1, <2>3, <2>4, <2>5 DEF Scan, history
<1>2. CASE Fire
  <2>1. Head(expired) \in Timers /\ Tail(expired) \in Seq(Timers)
    BY <1>2 DEF Fire
  <2>2. running' \in Timers \cup {None} /\ expired' \in Seq(Timers)
    BY <1>2, <2>1 DEF Fire
  <2>3. fired' \in [Timers -> Nat]
    <3>1. fired' = [fired EXCEPT ![Head(expired)] = @ + 1]
      BY <1>2 DEF Fire
    <3> DEFINE h == Head(expired)
    <3>2. h \in Timers /\ fired' = [fired EXCEPT ![h] = @ + 1]
      BY <2>1, <3>1
    <3> HIDE DEF h
    <3>3. fired[h] + 1 \in Nat
      <4>1. fired[h] \in Nat
        BY <3>2
      <4> QED
        BY ONLY <4>1
    <3> QED
      BY <3>2, <3>3
  <2> QED
    BY <1>2, <2>2, <2>3 DEF Fire, clock, timer
<1>3. CASE Advance
  <2>1. idx' \in [Levels -> Slots] /\ tick' \in {"done", "cascade"} /\ lev' \in Levels
    BY <1>3, Constants, MoveOnType DEF Advance
  <2> QED
    BY <1>3, <2>1 DEF Advance, timer, history
<1>4. CASE Cascade
  <2>1. idx' \in [Levels -> Slots] /\ tick' \in {"done", "cascade"} /\ lev' \in Levels
    BY <1>4, MoveOnType DEF Cascade
  <2>2. tv' \in [Levels -> [Slots -> Seq(Timers)]]
    <3> DEFINE w == [tv EXCEPT ![lev][idx[lev]] = <<>>]
               L == tv[lev][idx[lev]]
    <3>1. <<>> \in Seq(Timers)
      OBVIOUS
    <3>2. w \in Wheels
      BY <3>1 DEF Wheels
    <3>3. L \in Seq(Timers) /\ tv' = AddAll(w, L)
      BY <1>4 DEF Cascade
    <3> HIDE DEF w, L
    <3>4. AddAll(w, L) \in Wheels
      BY <3>2, <3>3, AddAllType, Constants
    <3> QED
      BY <3>3, <3>4 DEF Wheels
  <2> QED
    BY <1>4, <2>1, <2>2 DEF Cascade, timer, history
<1>5. CASE \E t \in Timers : New(t)
  <2>1. PICK t \in Timers : New(t)
    BY <1>5
  <2>2. expires' \in [Timers -> Nat]
    <3>1. PICK d \in Deltas : expires' = [expires EXCEPT ![t] = now + d]
      BY <2>1 DEF New
    <3>2. now + d \in Nat
      BY <3>1, WheelAssumption
    <3> QED
      BY <3>1, <3>2
  <2>3. /\ active' \in [Timers -> BOOLEAN] /\ since' \in [Timers -> Nat]
        /\ entry' \in [Timers -> Levels] /\ adds' \in [Timers -> Nat]
        /\ fired' \in [Timers -> Nat]
    BY <2>1, Constants DEF New
  <2> QED
    BY <2>1, <2>2, <2>3 DEF New, clock, ticking
<1>6. CASE \E t \in Timers : AddTimer(t)
  <2>1. PICK t \in Timers : AddTimer(t)
    BY <1>6
  <2>2. tv' \in [Levels -> [Slots -> Seq(Timers)]]
    <3>1. tv \in Wheels
      BY DEF Wheels
    <3>2. tv' = AddAll(tv, <<t>>) /\ <<t>> \in Seq(Timers)
      BY <2>1 DEF AddTimer
    <3>3. AddAll(tv, <<t>>) \in Wheels
      BY <3>1, <3>2, AddAllType, Constants
    <3> QED
      BY <3>2, <3>3 DEF Wheels
  <2>3. Delta(t) \in Nat
    BY DEF Delta
  <2>4. GetLevel(Delta(t)) \in Levels
    BY <2>3, LevelOf
  <2>5. adds' \in [Timers -> Nat]
    <3>1. adds' = [adds EXCEPT ![t] = @ + 1] /\ adds[t] + 1 \in Nat
      <4>1. adds' = [adds EXCEPT ![t] = @ + 1]
        BY <2>1 DEF AddTimer
      <4>2. adds[t] \in Nat
        OBVIOUS
      <4>3. adds[t] + 1 \in Nat
        BY ONLY <4>2
      <4> QED
        BY <4>1, <4>3
    <3> QED
      BY <3>1
  <2>6. since' \in [Timers -> Nat] /\ entry' \in [Timers -> Levels]
    BY <2>1, <2>4 DEF AddTimer
  <2> QED
    BY <2>1, <2>2, <2>5, <2>6 DEF AddTimer, clock, ticking, timer
<1>7. CASE UNCHANGED vars
  BY <1>7 DEF vars, clock, ticking, timer, history
<1> QED
  BY <1>1, <1>2, <1>3, <1>4, <1>5, <1>6, <1>7 DEF Next, Ticking

(* The types of the wheel's state, for any number and size of levels.      *)
THEOREM TypeCorrect == Spec => []TypeOK
<1>1. Init => TypeOK
  BY TypeInit
<1>2. TypeOK /\ [Next]_vars => TypeOK'
  BY TypeStep
<1> QED
  BY <1>1, <1>2, PTL DEF Spec

-----------------------------------------------------------------------------
(* The clock *)

\* Where a Tick is, what it has still to fire, and that a cascade of a level
\* happens only when a slot of that level begins.
TickSound ==
  /\ tick = "done" => expired = <<>> /\ running = None
  /\ tick = "fire" => now >= 1
  /\ tick = "cascade" => /\ now >= 1 /\ lev >= 1 /\ now % Span[lev] = 0
                         /\ expired = <<>> /\ running = None

ClockInv == TypeOK /\ TickSound /\ ClockDigits

\* The time that the index of level l shows.
Shown(l) ==
  IF tick = "fire" \/ (tick = "cascade" /\ l >= lev) THEN now - 1 ELSE now

(* The digits of the property, with the tick each level shows.            *)
LEMMA DigitsShown ==
  ClockDigits <=> \A l \in Levels : idx[l] = (Shown(l) \div Span[l]) % TVN_SIZE
BY DEF ClockDigits, Shown

(* The index of level l moves on when one of its slots has passed: it then *)
(* shows now, and the higher levels do so unless it wrapped.               *)
LEMMA DigitMovesOn ==
  ASSUME TypeOK, ClockDigits, NEW l \in Levels, MoveOn(l), now' = now,
         now >= 1, now % Span[l] = 0,
         \A k \in Levels : Shown(k) = IF k < l THEN now ELSE now - 1
  PROVE  /\ idx'[l] = (now \div Span[l]) % TVN_SIZE
         /\ idx'[l] # 0 => \A k \in Levels : k > l => now % Span[k] # 0
         /\ tick' = "cascade" => lev' = l + 1 /\ l + 1 \in Levels /\ now % Span[l + 1] = 0
         /\ tick' = "done" => \A k \in Levels : k > l => now % Span[k] # 0
         /\ ClockDigits'
<1>1. /\ now \in Nat /\ l \in Nat /\ Span[l] \in Nat /\ Span[l] > 0
      /\ Span[l + 1] = TVN_SIZE * Span[l]
  BY SpanNext DEF TypeOK
<1>0. TVN_SIZE \in Nat /\ TVN_SIZE > 0
  BY Constants
<1>2. idx' = [idx EXCEPT ![l] = Successor(idx[l])] /\ idx \in [Levels -> Slots]
  BY DEF MoveOn, TypeOK
<1>3. idx[l] = ((now - 1) \div Span[l]) % TVN_SIZE
  BY <1>1, DigitsShown
<1>4. (now - 1) \div Span[l] = (now \div Span[l]) - 1
  BY <1>1, BeforeMultiple
<1>5. idx'[l] = (now \div Span[l]) % TVN_SIZE
  <2> DEFINE q == now \div Span[l]
             a == q - 1
  <2>1. q \in Int /\ now = Span[l] * q
    BY <1>1, DivMod
  <2>2. a \in Nat
    <3> HIDE DEF q
    <3>1. q >= 1
      BY <1>1, <2>1
    <3> QED
      BY <2>1, <3>1
  <2>3. idx[l] = a % TVN_SIZE
    BY <1>3, <1>4
  <2>4. a + 1 = q
    BY <2>1
  <2>5. idx'[l] = Successor(idx[l])
    BY <1>2
  <2> HIDE DEF a
  <2>6. ((a % TVN_SIZE) + 1) % TVN_SIZE = (a + 1) % TVN_SIZE
    BY <1>0, <2>2, SuccessorDigit
  <2>7. idx'[l] = (a + 1) % TVN_SIZE
    BY <2>3, <2>5, <2>6 DEF Successor
  <2> QED
    BY <2>4, <2>7
<1>6. idx'[l] = 0 <=> now % (TVN_SIZE * Span[l]) = 0
  <2>1. (now \div Span[l]) % TVN_SIZE = 0 <=> now % (TVN_SIZE * Span[l]) = 0
    <3> DEFINE u == Span[l]
    <3>1. u \in Nat /\ u > 0 /\ now % u = 0
      BY <1>1
    <3> HIDE DEF u
    <3>2. (now \div u) % TVN_SIZE = 0 <=> now % (TVN_SIZE * u) = 0
      BY <1>0, <1>1, <3>1, DigitZero
    <3> QED
      BY <3>2 DEF u
  <2> QED
    BY <1>5, <2>1
<1>7. ASSUME idx'[l] # 0 PROVE \A k \in Levels : k > l => now % Span[k] # 0
  <2> SUFFICES ASSUME NEW k \in Levels, k > l, now % Span[k] = 0 PROVE FALSE
    OBVIOUS
  <2>1. k \in Nat /\ l + 1 \in 0 .. k
    BY <1>1, Constants
  <2>2. now % Span[l + 1] = 0
    BY <1>1, <2>1, SpanPart
  <2> QED
    BY <1>1, <1>6, <1>7, <2>2
<1>8. tick' = "cascade" => lev' = l + 1 /\ l + 1 \in Levels /\ now % Span[l + 1] = 0
  <2> SUFFICES ASSUME tick' = "cascade"
               PROVE  lev' = l + 1 /\ l + 1 \in Levels /\ now % Span[l + 1] = 0
    OBVIOUS
  <2>1. Wrapped(l) /\ lev' = l + 1
    BY DEF MoveOn
  <2> QED
    BY <1>1, <1>6, <2>1, Constants DEF Wrapped
<1>9. tick' = "done" => \A k \in Levels : k > l => now % Span[k] # 0
  <2> SUFFICES ASSUME tick' = "done"
               PROVE  \A k \in Levels : k > l => now % Span[k] # 0
    OBVIOUS
  <2>1. ~Wrapped(l)
    BY DEF MoveOn
  <2>2. CASE idx'[l] # 0
    BY <1>7, <2>2
  <2>3. CASE ~(l + 1 < TVN_NUM)
    <3>1. \A k \in Levels : ~(k > l)
      BY <1>1, <2>3, Constants DEF Levels
    <3> QED
      BY <3>1
  <2> QED
    BY <2>1, <2>2, <2>3 DEF Wrapped
<1>10. tick' \in {"done", "cascade"}
  BY DEF MoveOn
<1>11. ASSUME NEW k \in Levels PROVE idx'[k] = (Shown(k)' \div Span[k]) % TVN_SIZE
  <2>0. k \in Nat /\ Span[k] \in Nat /\ Span[k] > 0
    BY SpanNext
  <2>1. Shown(k)' = IF tick' = "cascade" /\ k >= l + 1 THEN now - 1 ELSE now
    BY <1>8, <1>10 DEF Shown
  <2>2. CASE k = l
    BY <1>1, <1>5, <2>1, <2>2
  <2>3. CASE k < l
    <3>1. idx'[k] = idx[k]
      BY <1>1, <1>2, <2>0, <2>3
    <3>2. Shown(k) = now /\ Shown(k)' = now
      BY <1>1, <2>0, <2>1, <2>3
    <3> QED
      BY <3>1, <3>2, DigitsShown
  <2>4. CASE k > l
    <3>1. idx'[k] = idx[k]
      BY <1>1, <1>2, <2>0, <2>4
    <3>2. idx'[k] = ((now - 1) \div Span[k]) % TVN_SIZE
      BY <1>1, <2>0, <2>4, <3>1, DigitsShown
    <3>3. CASE tick' = "cascade"
      <4>1. Shown(k)' = now - 1
        BY <1>1, <2>0, <2>1, <2>4, <3>3
      <4> QED
        BY <3>2, <4>1
    <3>4. CASE tick' = "done"
      <4>1. now % Span[k] # 0
        BY <1>9, <2>4, <3>4
      <4>2. (now - 1) \div Span[k] = now \div Span[k]
        BY <1>1, <2>0, <4>1, BeforeMultiple
      <4>3. Shown(k)' = now
        BY <2>1, <3>4
      <4> QED
        BY <3>2, <4>2, <4>3
    <3> QED
      BY <1>10, <3>3, <3>4
  <2> QED
    BY <1>1, <2>0, <2>2, <2>3, <2>4
<1>12. ClockDigits'
  BY <1>11 DEF ClockDigits, Shown
<1> QED
  BY <1>5, <1>7, <1>8, <1>9, <1>12

LEMMA ClockInit ==
  ASSUME Init
  PROVE  ClockInv
<1>1. TypeOK
  BY TypeInit
<1>2. TickSound
  BY DEF Init, TickSound
<1>3. ASSUME NEW l \in Levels PROVE idx[l] = (now \div Span[l]) % TVN_SIZE
  <2>1. Span[l] \in Nat /\ Span[l] > 0 /\ TVN_SIZE \in Nat /\ TVN_SIZE > 0
    BY SpanNext, Constants
  <2>2. 0 = Span[l] * 0 + 0 /\ 0 = TVN_SIZE * 0 + 0
    BY <2>1
  <2>3. 0 = 0 \div Span[l]
    BY <2>1, <2>2, DivModUnique
  <2>4. 0 = 0 % TVN_SIZE
    BY <2>1, <2>2, DivModUnique
  <2> QED
    BY <2>3, <2>4 DEF Init
<1>4. ClockDigits
  BY <1>3 DEF Init, ClockDigits
<1> QED
  BY <1>1, <1>2, <1>4 DEF ClockInv

LEMMA AtSpanOne ==
  ASSUME NEW n \in Nat
  PROVE  n % Span[0] = 0
<1>1. n = 1 * n + 0
  OBVIOUS
<1>2. 0 = n % 1
  BY <1>1, DivModUnique
<1> QED
  BY <1>2, SpanDef

(* Every step keeps the clock: Scan only counts on, Advance and Cascade   *)
(* move one index.                                                        *)
LEMMA ClockStep ==
  ASSUME ClockInv, [Next]_vars
  PROVE  ClockInv'
<1>1. TypeOK /\ TickSound /\ ClockDigits /\ TypeOK' /\ now \in Nat
  BY TypeStep DEF ClockInv, TypeOK
<1>2. CASE Scan
  <2>1. now' = now + 1 /\ tick' = "fire" /\ idx' = idx /\ tick = "done"
    BY <1>2 DEF Scan
  <2>2. TickSound'
    BY <1>1, <2>1 DEF TickSound
  <2>3. \A l \in Levels : Shown(l)' = Shown(l)
    BY <1>1, <2>1 DEF Shown
  <2>4. ClockDigits'
    BY <1>1, <2>1, <2>3 DEF ClockDigits, Shown
  <2> QED
    BY <1>1, <2>2, <2>4 DEF ClockInv
<1>3. CASE Fire
  <2>1. UNCHANGED <<now, idx, tick, lev>> /\ tick = "fire"
    BY <1>3 DEF Fire, clock
  <2> QED
    BY <1>1, <2>1 DEF ClockInv, TickSound, ClockDigits
<1>4. CASE Advance
  <2>1. /\ tick = "fire" /\ expired = <<>> /\ running' = None /\ MoveOn(0)
        /\ now' = now /\ expired' = expired /\ now >= 1 /\ 0 \in Levels
    BY <1>1, <1>4, Constants DEF Advance, TickSound
  <2>2. now % Span[0] = 0
    BY <1>1, AtSpanOne
  <2>3. \A k \in Levels : Shown(k) = IF k < 0 THEN now ELSE now - 1
    BY <2>1, Constants DEF Shown
  <2>4. /\ tick' = "cascade" => lev' = 0 + 1 /\ 0 + 1 \in Levels /\ now % Span[0 + 1] = 0
        /\ ClockDigits'
    BY <1>1, <2>1, <2>2, <2>3, DigitMovesOn
  <2>5. tick' \in {"done", "cascade"}
    BY <2>1 DEF MoveOn
  <2>6. TickSound'
    BY <1>1, <2>1, <2>4, <2>5 DEF TickSound
  <2> QED
    BY <1>1, <2>4, <2>6 DEF ClockInv
<1>5. CASE Cascade
  <2>1. /\ tick = "cascade" /\ expired = <<>> /\ running = None /\ MoveOn(lev)
        /\ now' = now /\ expired' = expired /\ running' = running
        /\ now >= 1 /\ lev \in Levels /\ now % Span[lev] = 0
    BY <1>1, <1>5 DEF Cascade, TickSound, TypeOK
  <2>2. \A k \in Levels : Shown(k) = IF k < lev THEN now ELSE now - 1
    BY <2>1, Constants DEF Shown
  <2>3. /\ tick' = "cascade" => lev' = lev + 1 /\ lev + 1 \in Levels /\ now % Span[lev + 1] = 0
        /\ ClockDigits'
    BY <1>1, <2>1, <2>2, DigitMovesOn
  <2>4. tick' \in {"done", "cascade"} /\ lev \in Nat
    BY <2>1, Constants DEF MoveOn
  <2>5. TickSound'
    BY <1>1, <2>1, <2>3, <2>4 DEF TickSound
  <2> QED
    BY <1>1, <2>3, <2>5 DEF ClockInv
<1>6. CASE \E t \in Timers : New(t) \/ AddTimer(t)
  <2>1. UNCHANGED <<now, idx, tick, lev, expired, running>>
    BY <1>6 DEF New, AddTimer, clock, ticking
  <2> QED
    BY <1>1, <2>1 DEF ClockInv, TickSound, ClockDigits
<1>7. CASE UNCHANGED vars
  <2>1. UNCHANGED <<now, idx, tick, lev, expired, running>>
    BY <1>7 DEF vars, clock, ticking
  <2> QED
    BY <1>1, <2>1 DEF ClockInv, TickSound, ClockDigits
<1> QED
  BY <1>2, <1>3, <1>4, <1>5, <1>6, <1>7 DEF Next, Ticking

LEMMA ClockIsInvariant == Spec => []ClockInv
<1>1. Init => ClockInv
  BY ClockInit
<1>2. ClockInv /\ [Next]_vars => ClockInv'
  BY ClockStep
<1> QED
  BY <1>1, <1>2, PTL DEF Spec

(* The indices are the digits of the clock in base TVN_SIZE, except for    *)
(* the levels that a Tick in progress has still to reach.                  *)
THEOREM IndicesAreTheClock == Spec => []ClockDigits
<1>1. ClockInv => ClockDigits
  BY DEF ClockInv
<1> QED
  BY <1>1, ClockIsInvariant, PTL

-----------------------------------------------------------------------------
(* The timers *)

TimersSound ==
  \A t \in Timers :
    /\ active[t] => fired[t] = 0
    /\ fired[t] <= 1 /\ since[t] <= now
    /\ Pending(t) => expires[t] < since[t] + Span[entry[t] + 1]

\* What Tick has still to fire: each timer once, due, and off duty.
ExpiredSound ==
  /\ \A i, j \in 1 .. Len(expired) : expired[i] = expired[j] => i = j
  /\ \A i \in 1 .. Len(expired) :
       /\ ~active[expired[i]] /\ fired[expired[i]] = 0
       /\ expires[expired[i]] <= now /\ since[expired[i]] < now

Counted ==
  \A t \in Timers : active[t] =>
    IsFiniteSet(Entries(t)) /\ Cardinality(Entries(t)) = adds[t]

TimersInv == TimersSound /\ ExpiredSound /\ Counted

(* The references to a timer are its places in the wheel, now and in the  *)
(* next state.                                                            *)
LEMMA EntriesNow ==
  ASSUME TypeOK, NEW t
  PROVE  tv \in Wheels /\ Entries(t) = Places(tv, t)
<1>1. tv \in Wheels
  BY DEF TypeOK, Wheels
<1> QED
  BY <1>1, EntriesArePlaces DEF Entries

LEMMA EntriesNext ==
  ASSUME TypeOK', NEW t
  PROVE  tv' \in Wheels /\ Entries(t)' = Places(tv', t)
<1>1. tv' \in Wheels
  BY DEF TypeOK, Wheels
<1> QED
  BY <1>1, EntriesArePlaces DEF Entries

(* A timer whose references are moved about keeps their number.            *)
LEMMA SameCount ==
  ASSUME TypeOK, TypeOK', NEW t, ExistsBijection(Places(tv', t), Places(tv, t)),
         IsFiniteSet(Entries(t))
  PROVE  IsFiniteSet(Entries(t)') /\ Cardinality(Entries(t)') = Cardinality(Entries(t))
<1>1. Entries(t) = Places(tv, t) /\ Entries(t)' = Places(tv', t)
  BY EntriesNow, EntriesNext
<1> DEFINE X == Places(tv, t)
           Y == Places(tv', t)
<1>2. IsFiniteSet(X) /\ ExistsBijection(Y, X)
  BY <1>1
<1> HIDE DEF X, Y
<1>3. ExistsBijection(X, Y)
  BY <1>2, Fun_ExistsBijSymmetric
<1>4. IsFiniteSet(Y) /\ Cardinality(Y) = Cardinality(X)
  BY <1>2, <1>3, FS_Bijection
<1> QED
  BY <1>1, <1>4 DEF X, Y

(* An active timer that is somewhere in the wheel has been added.          *)
LEMMA InWheelAdded ==
  ASSUME TypeOK, Counted, NEW t \in Timers, active[t],
         NEW l \in Levels, NEW s \in Slots, t \in ToSet(tv[l][s])
  PROVE  adds[t] > 0
<1>1. IsFiniteSet(Entries(t)) /\ Cardinality(Entries(t)) = adds[t] /\ adds[t] \in Nat
  BY DEF Counted, TypeOK
<1>2. tv[l][s] \in Seq(Timers) /\ DOMAIN tv[l][s] = 1 .. Len(tv[l][s])
  BY DEF TypeOK
<1>3. PICK i \in 1 .. Len(tv[l][s]) : tv[l][s][i] = t
  BY <1>2 DEF ToSet
<1>4. i \in Nat
  BY <1>2, <1>3
<1>5. <<l, s, i>> \in Places(tv, t)
  BY <1>3, <1>4 DEF Places
<1>6. Entries(t) # {}
  BY <1>5, EntriesNow
<1> QED
  BY <1>1, <1>6, FS_EmptySet

(* A timer that is nowhere in the wheel has no reference.                 *)
LEMMA NoEntries ==
  ASSUME TypeOK, NEW t, ~InWheel(t)
  PROVE  Entries(t) = {}
<1>1. \A l \in Levels, s \in Slots : \A i \in 1 .. Len(tv[l][s]) : tv[l][s][i] # t
  <2> SUFFICES ASSUME NEW l \in Levels, NEW s \in Slots, NEW i \in 1 .. Len(tv[l][s]),
                      tv[l][s][i] = t
               PROVE  FALSE
    OBVIOUS
  <2>1. DOMAIN tv[l][s] = 1 .. Len(tv[l][s])
    BY DEF TypeOK
  <2>2. t \in ToSet(tv[l][s])
    BY <2>1 DEF ToSet
  <2> QED
    BY <2>2 DEF InWheel
<1>2. Places(tv, t) = {}
  BY <1>1 DEF Places
<1> QED
  BY <1>2, EntriesNow

(* A pending timer stays one that AddTimer accepts.                        *)
LEMMA PendingAccepted ==
  ASSUME TypeOK, TimersSound, NEW t \in Timers, Pending(t)
  PROVE  Accepted(t)
<1>1. /\ expires[t] \in Nat /\ since[t] \in Nat /\ now \in Nat /\ entry[t] \in Levels
      /\ since[t] <= now /\ expires[t] < since[t] + Span[entry[t] + 1]
  BY DEF TypeOK, TimersSound
<1>2. TVN_NUM - 1 \in Levels /\ (TVN_NUM - 1) + 1 = TVN_NUM /\ entry[t] \in 0 .. TVN_NUM - 1
  BY <1>1, Constants DEF Levels
<1>3. /\ Span[entry[t] + 1] <= Span[TVN_NUM] /\ Span[TVN_NUM] \in Nat /\ Span[TVN_NUM] > 0
      /\ Span[entry[t] + 1] \in Nat
  BY <1>1, <1>2, SpanOrder, SpanNext
<1> QED
  BY <1>1, <1>3 DEF Accepted, Delta, Pending

LEMMA TimersInit ==
  ASSUME Init
  PROVE  TimersInv
<1>1. TypeOK
  BY TypeInit
<1>2. TimersSound /\ Counted
  BY DEF Init, TimersSound, Counted, Pending
<1>3. ExpiredSound
  BY DEF Init, ExpiredSound
<1> QED
  BY <1>2, <1>3 DEF TimersInv

(* A scan takes every due timer of its slot off duty.                      *)
LEMMA ScanTakes ==
  ASSUME TypeOK, Scan
  PROVE  /\ tv[0][idx[0]] \in Seq(Timers) /\ 0 \in Levels /\ idx[0] \in Slots
         /\ tv' = [tv EXCEPT ![0][idx[0]] = Among(@, Kept)]
         /\ \A t \in Timers : active'[t] =>
              active[t] /\ (t \in ToSet(tv[0][idx[0]]) => t \in Kept)
         /\ \A i \in 1 .. Len(expired') :
              /\ expired'[i] \in Timers /\ expired'[i] \in ToSet(tv[0][idx[0]])
              /\ Due(expired'[i]) /\ ~active'[expired'[i]]
         /\ \A i, j \in 1 .. Len(expired') : expired'[i] = expired'[j] => i = j
<1> DEFINE slot == tv[0][idx[0]]
<1>1. slot \in Seq(Timers) /\ 0 \in Levels /\ idx[0] \in Slots
  BY Constants DEF TypeOK
<1>2. expired' = DueIn(slot) /\ active' = Deactivated(expired')
      /\ tv' = [tv EXCEPT ![0][idx[0]] = Among(@, Kept)]
  BY DEF Scan
<1> HIDE DEF slot
<1>3. /\ expired' \in Seq(Timers)
      /\ \A i, j \in 1 .. Len(expired') : expired'[i] = expired'[j] => i = j
      /\ \A i \in 1 .. Len(expired') : expired'[i] \in ToSet(slot) /\ Due(expired'[i])
      /\ \A t \in ToSet(slot) : Due(t) => \E i \in 1 .. Len(expired') : expired'[i] = t
  BY <1>1, <1>2, DueInSlot
<1>4. DOMAIN expired' = 1 .. Len(expired') /\ \A i \in 1 .. Len(expired') : expired'[i] \in Timers
  BY <1>3
<1>5. ASSUME NEW t \in Timers, active'[t] PROVE active[t] /\ (t \in ToSet(slot) => t \in Kept)
  <2>1. active[t] /\ t \notin ToSet(expired')
    BY <1>2, <1>5 DEF Deactivated
  <2>2. \A i \in 1 .. Len(expired') : expired'[i] # t
    BY <1>4, <2>1 DEF ToSet
  <2>3. t \in ToSet(slot) => ~Due(t)
    BY <1>3, <2>2
  <2> QED
    BY <2>1, <2>3 DEF Kept
<1>6. ASSUME NEW i \in 1 .. Len(expired') PROVE ~active'[expired'[i]]
  <2>1. expired'[i] \in ToSet(expired') /\ expired'[i] \in Timers
    BY <1>4 DEF ToSet
  <2> QED
    BY <1>2, <2>1 DEF Deactivated
<1> QED
  BY <1>1, <1>2, <1>3, <1>4, <1>5, <1>6 DEF slot

(* References are counted anew only if the wheel changes.                 *)
LEMMA CountedKept ==
  ASSUME Counted, UNCHANGED <<tv, active, adds>>
  PROVE  Counted'
<1>1. \A t : Entries(t)' = Entries(t)
  BY DEF Entries
<1> QED
  BY <1>1 DEF Counted

(* Every step keeps the timers, action by action.                         *)
LEMMA TimersStep ==
  ASSUME ClockInv, TimersInv, [Next]_vars
  PROVE  TimersInv'
<1>1. TypeOK /\ TypeOK' /\ TickSound /\ TimersSound /\ ExpiredSound /\ Counted
  BY TypeStep DEF ClockInv, TimersInv
<1>2. /\ now \in Nat /\ expires \in [Timers -> Nat] /\ active \in [Timers -> BOOLEAN]
      /\ since \in [Timers -> Nat] /\ entry \in [Timers -> Levels]
      /\ adds \in [Timers -> Nat] /\ fired \in [Timers -> Nat]
      /\ expired \in Seq(Timers)
  BY <1>1 DEF TypeOK
<1>3. CASE Scan
  <2>1. /\ now' = now + 1
        /\ UNCHANGED <<expires, since, entry, adds, fired>>
    BY <1>3 DEF Scan, history
  <2>2. /\ \A t \in Timers : active'[t] =>
             active[t] /\ (t \in ToSet(tv[0][idx[0]]) => t \in Kept)
        /\ \A i \in 1 .. Len(expired') :
             /\ expired'[i] \in Timers /\ expired'[i] \in ToSet(tv[0][idx[0]])
             /\ Due(expired'[i]) /\ ~active'[expired'[i]]
        /\ \A i, j \in 1 .. Len(expired') : expired'[i] = expired'[j] => i = j
    BY <1>1, <1>3, ScanTakes
  <2>3. TimersSound'
    BY <1>1, <1>2, <2>1, <2>2 DEF TimersSound, Pending
  <2>4. ExpiredSound'
    <3>1. ASSUME NEW i \in 1 .. Len(expired')
          PROVE  /\ ~active'[expired'[i]] /\ fired'[expired'[i]] = 0
                 /\ expires'[expired'[i]] <= now' /\ since'[expired'[i]] < now'
      <4> DEFINE t == expired'[i]
      <4>1. t \in Timers /\ Due(t) /\ ~active'[t]
        BY <2>2
      <4> HIDE DEF t
      <4>2. fired'[t] = 0 /\ expires'[t] <= now' /\ since'[t] < now'
        BY <1>1, <1>2, <2>1, <4>1 DEF Due, TimersSound
      <4> QED
        BY <4>1, <4>2 DEF t
    <3> QED
      BY <2>2, <3>1 DEF ExpiredSound
  <2>5. Counted'
    <3> SUFFICES ASSUME NEW t \in Timers, active'[t]
                 PROVE  IsFiniteSet(Entries(t)') /\ Cardinality(Entries(t)') = adds'[t]
      BY DEF Counted
    <3>1. IsFiniteSet(Entries(t)) /\ Cardinality(Entries(t)) = adds[t]
      BY <1>1, <2>2 DEF Counted
    <3>2. /\ tv \in Wheels /\ 0 \in Levels /\ idx[0] \in Slots
          /\ tv' = [tv EXCEPT ![0][idx[0]] = Among(@, Kept)]
          /\ t \in ToSet(tv[0][idx[0]]) => t \in Kept
      BY <1>1, <1>3, <2>2, ScanTakes, EntriesNow
    <3>3. ExistsBijection(Places(tv', t), Places(tv, t))
      BY <3>2, ScanPlaces
    <3> QED
      BY <1>1, <2>1, <3>1, <3>3, SameCount
  <2> QED
    BY <2>3, <2>4, <2>5 DEF TimersInv
<1>4. CASE Fire
  <2> DEFINE h == Head(expired)
             n == Len(expired)
  <2>1. /\ tick = "fire" /\ expired' = Tail(expired) /\ fired' = [fired EXCEPT ![h] = @ + 1]
        /\ UNCHANGED <<now, tv, expires, active, since, entry, adds>>
        /\ expired # <<>>
    BY <1>4 DEF Fire, clock, timer
  <2>2. /\ n \in Nat /\ n >= 1 /\ h = expired[1] /\ h \in Timers /\ Len(expired') = n - 1
        /\ \A i \in 1 .. n - 1 : expired'[i] = expired[i + 1] /\ i + 1 \in 1 .. n /\ i + 1 # 1
        /\ \A i \in 1 .. n : expired[i] \in Timers
    BY <1>2, <2>1
  <2> HIDE DEF h, n
  <2>3. /\ \A i, j \in 1 .. n : expired[i] = expired[j] => i = j
        /\ \A i \in 1 .. n :
             /\ ~active[expired[i]] /\ fired[expired[i]] = 0
             /\ expires[expired[i]] <= now /\ since[expired[i]] < now
    BY <1>1 DEF ExpiredSound, n
  <2>4. ~active[h] /\ fired[h] = 0
    BY <2>2, <2>3
  <2>5. fired' \in [Timers -> Nat] /\ fired'[h] = 1 /\ \A t \in Timers : t # h => fired'[t] = fired[t]
    BY <1>2, <2>1, <2>2, <2>4
  <2>6. TimersSound'
    BY <1>1, <2>1, <2>4, <2>5 DEF TimersSound, Pending
  <2>7. ExpiredSound'
    <3>1. ASSUME NEW i \in 1 .. n - 1, NEW j \in 1 .. n - 1, expired'[i] = expired'[j]
          PROVE  i = j
      <4>1. i + 1 = j + 1
        BY <2>2, <2>3, <3>1
      <4> QED
        BY <2>2, <4>1
    <3>2. ASSUME NEW i \in 1 .. n - 1
          PROVE  /\ ~active'[expired'[i]] /\ fired'[expired'[i]] = 0
                 /\ expires'[expired'[i]] <= now' /\ since'[expired'[i]] < now'
      <4> DEFINE t == expired'[i]
      <4>1. t = expired[i + 1] /\ i + 1 \in 1 .. n /\ i + 1 # 1 /\ t \in Timers
        BY <2>2
      <4>2. t # h
        BY <2>2, <2>3, <4>1
      <4>3. /\ ~active[t] /\ fired[t] = 0 /\ expires[t] <= now /\ since[t] < now
        BY <2>3, <4>1
      <4> HIDE DEF t
      <4>4. /\ ~active'[t] /\ fired'[t] = 0 /\ expires'[t] <= now' /\ since'[t] < now'
        BY <2>1, <2>5, <4>1, <4>2, <4>3
      <4> QED
        BY <4>4 DEF t
    <3> QED
      BY <2>2, <3>1, <3>2 DEF ExpiredSound
  <2>8. Counted'
    BY <1>1, <2>1, CountedKept
  <2> QED
    BY <2>6, <2>7, <2>8 DEF TimersInv
<1>5. CASE Advance
  <2>1. UNCHANGED <<now, tv, expired, expires, active, since, entry, adds, fired>>
    BY <1>5 DEF Advance, timer, history
  <2>2. TimersSound' /\ ExpiredSound'
    BY <1>1, <2>1 DEF TimersSound, Pending, ExpiredSound
  <2>3. Counted'
    BY <1>1, <2>1, CountedKept
  <2> QED
    BY <2>2, <2>3 DEF TimersInv
<1>6. CASE Cascade
  <2>1. UNCHANGED <<now, expired, expires, active, since, entry, adds, fired>>
    BY <1>6 DEF Cascade, timer, history
  <2>2. TimersSound' /\ ExpiredSound'
    BY <1>1, <2>1 DEF TimersSound, Pending, ExpiredSound
  <2>3. Counted'
    <3> SUFFICES ASSUME NEW t \in Timers, active'[t]
                 PROVE  IsFiniteSet(Entries(t)') /\ Cardinality(Entries(t)') = adds'[t]
      BY DEF Counted
    <3>1. IsFiniteSet(Entries(t)) /\ Cardinality(Entries(t)) = adds[t] /\ active[t]
      BY <1>1, <2>1 DEF Counted
    <3>2. lev \in Levels /\ idx[lev] \in Slots /\ tv \in Wheels
      BY <1>1, EntriesNow DEF TypeOK
    <3>3. tv' = AddAll([tv EXCEPT ![lev][idx[lev]] = <<>>], tv[lev][idx[lev]])
      BY <1>6 DEF Cascade
    <3>4. CASE adds[t] > 0
      <4>1. Accepted(t)
        BY <1>1, <3>1, <3>4, PendingAccepted DEF Pending
      <4>2. ExistsBijection(Places(tv', t), Places(tv, t))
        BY <1>1, <3>2, <3>3, <4>1, CascadePlaces
      <4> QED
        BY <1>1, <2>1, <3>1, <4>2, SameCount
    <3>5. CASE adds[t] = 0
      <4>1. Places(tv, t) = {}
        BY <1>1, <3>1, <3>5, FS_EmptySet, EntriesNow
      <4>2. Places(tv', t) = {}
        <5> SUFFICES ASSUME NEW p \in Places(tv', t) PROVE FALSE
          OBVIOUS
        <5>1. PICK l \in Levels, s \in Slots, i \in Nat : p = <<l, s, i>>
          BY DEF Places
        <5>2. i \in 1 .. Len(tv'[l][s]) /\ tv'[l][s][i] = t
          BY <5>1 DEF Places
        <5> DEFINE w == [tv EXCEPT ![lev][idx[lev]] = <<>>]
                   L == tv[lev][idx[lev]]
                   x == w[l][s]
                   y == Among(L, GoingTo(l, s))
        <5>3. w \in Wheels /\ L \in Seq(Timers)
          BY <3>2 DEF Wheels
        <5>4. tv' = AddAll(w, L)
          BY <3>3
        <5>5. /\ x = IF l = lev /\ s = idx[lev] THEN <<>> ELSE tv[l][s]
              /\ tv[l][s] \in Seq(Timers)
          BY <3>2 DEF Wheels
        <5> HIDE DEF w, L, x, y
        <5>6. tv'[l][s] = x \o y /\ x \in Seq(Timers) /\ y \in Seq(Timers)
          BY <5>3, <5>4, AddAllType DEF x, y
        <5>7. \A k \in 1 .. Len(x) : x[k] # t
          <6> SUFFICES ASSUME NEW k \in 1 .. Len(x), x[k] = t PROVE FALSE
            OBVIOUS
          <6>1. x = tv[l][s] /\ k \in Nat
            BY <5>5, <5>6
          <6>2. <<l, s, k>> \in Places(tv, t)
            BY <6>1 DEF Places
          <6> QED
            BY <4>1, <6>2
        <5>8. t \notin ToSet(y)
          <6> SUFFICES ASSUME t \in ToSet(L) PROVE FALSE
            BY <5>3, AmongSet DEF y
          <6>1. adds[t] > 0
            BY <1>1, <3>1, <3>2, InWheelAdded DEF L
          <6> QED
            BY <3>5, <6>1
        <5>9. \A k \in 1 .. Len(y) : y[k] # t
          BY <5>6, <5>8 DEF ToSet
        <5>10. Len(x) \in Nat /\ i \in 1 .. Len(x \o y) /\ (x \o y)[i] = t
          BY <5>2, <5>6
        <5>11. CASE i \in 1 .. Len(x)
          <6>1. (x \o y)[i] = x[i]
            BY <5>6, <5>11, ConcatIndex
          <6> QED
            BY <5>7, <5>10, <5>11, <6>1
        <5>12. CASE i > Len(x)
          <6>1. i - Len(x) \in 1 .. Len(y) /\ (x \o y)[i] = y[i - Len(x)]
            BY <5>6, <5>10, <5>12, ConcatIndex
          <6> QED
            BY <5>9, <5>10, <6>1
        <5> QED
          BY <5>1, <5>2, <5>10, <5>11, <5>12
      <4>3. Entries(t)' = {} /\ Cardinality({}) = 0 /\ IsFiniteSet({})
        BY <1>1, <4>2, EntriesNext, FS_EmptySet
      <4> QED
        BY <2>1, <3>5, <4>3
    <3> QED
      BY <1>2, <3>4, <3>5
  <2> QED
    BY <2>2, <2>3 DEF TimersInv
<1>7. ASSUME NEW t \in Timers, New(t) PROVE TimersInv'
  <2>1. /\ ~InWheel(t) /\ t \notin ToSet(expired)
        /\ active' = [active EXCEPT ![t] = TRUE] /\ since' = [since EXCEPT ![t] = 0]
        /\ entry' = [entry EXCEPT ![t] = 0] /\ adds' = [adds EXCEPT ![t] = 0]
        /\ fired' = [fired EXCEPT ![t] = 0]
        /\ UNCHANGED <<now, tv, expired>>
        /\ expires' \in [Timers -> Nat]
        /\ \A x \in Timers : x # t => expires'[x] = expires[x]
    BY <1>1, <1>2, <1>7 DEF New, clock, ticking, TypeOK
  <2>2. \A x \in Timers : x # t =>
          /\ active'[x] = active[x] /\ since'[x] = since[x] /\ entry'[x] = entry[x]
          /\ adds'[x] = adds[x] /\ fired'[x] = fired[x] /\ expires'[x] = expires[x]
    BY <1>2, <2>1
  <2>3. /\ since'[t] = 0 /\ fired'[t] = 0 /\ adds'[t] = 0
    BY <1>2, <2>1
  <2>4. TimersSound'
    BY <1>1, <1>2, <2>1, <2>2, <2>3 DEF TimersSound, Pending
  <2>5. ExpiredSound'
    <3>1. \A i \in 1 .. Len(expired) : expired[i] \in Timers /\ expired[i] # t
      <4>1. expired \in Seq(Timers) /\ t \notin ToSet(expired)
        BY <1>2, <2>1
      <4>2. DOMAIN expired = 1 .. Len(expired) /\ expired \in [1 .. Len(expired) -> Timers]
        BY <4>1
      <4>3. \A i \in 1 .. Len(expired) : expired[i] \in ToSet(expired)
        BY ONLY <4>2 DEF ToSet
      <4> QED
        BY ONLY <4>1, <4>2, <4>3
    <3> QED
      BY <1>1, <2>1, <2>2, <3>1 DEF ExpiredSound
  <2>6. Counted'
    <3> SUFFICES ASSUME NEW x \in Timers, active'[x]
                 PROVE  IsFiniteSet(Entries(x)') /\ Cardinality(Entries(x)') = adds'[x]
      BY DEF Counted
    <3>1. Entries(x)' = Entries(x)
      BY <2>1 DEF Entries
    <3>2. CASE x = t
      BY <1>1, <2>1, <2>3, <3>1, <3>2, NoEntries, FS_EmptySet
    <3>3. CASE x # t
      BY <1>1, <2>2, <3>1, <3>3 DEF Counted
    <3> QED
      BY <3>2, <3>3
  <2> QED
    BY <2>4, <2>5, <2>6 DEF TimersInv
<1>8. ASSUME NEW t \in Timers, AddTimer(t) PROVE TimersInv'
  <2>1. /\ Accepted(t) /\ tv' = AddAll(tv, <<t>>) /\ adds' = [adds EXCEPT ![t] = @ + 1]
        /\ UNCHANGED <<now, expired, expires, active, fired>>
        /\ IF adds[t] = 0
           THEN /\ since' = [since EXCEPT ![t] = now]
                /\ entry' = [entry EXCEPT ![t] = GetLevel(Delta(t))]
           ELSE UNCHANGED <<since, entry>>
    BY <1>8 DEF AddTimer, clock, ticking, timer
  <2>2. \A x \in Timers : x # t =>
          since'[x] = since[x] /\ entry'[x] = entry[x] /\ adds'[x] = adds[x]
    BY <1>2, <2>1
  <2>3. adds'[t] = adds[t] + 1
    BY <1>2, <2>1
  <2>4. TimersSound'
    <3>1. ASSUME NEW x \in Timers
          PROVE  /\ since'[x] <= now
                 /\ Pending(x)' => expires[x] < since'[x] + Span[entry'[x] + 1]
      <4>1. CASE x # t
        BY <1>1, <1>2, <2>1, <2>2, <4>1 DEF TimersSound, Pending
      <4>2. CASE x = t /\ adds[t] > 0
        BY <1>1, <1>2, <2>1, <4>2 DEF TimersSound, Pending, Accepted
      <4>3. CASE x = t /\ adds[t] = 0
        <5>1. Delta(t) \in Nat
          BY <1>2 DEF Delta
        <5> DEFINE g == GetLevel(Delta(t))
        <5>2. g \in Levels /\ (Delta(t) < Span[g + 1] \/ g = TVN_NUM - 1)
          BY <5>1, LevelOf
        <5>3. since'[x] = now /\ entry'[x] = g
          BY <1>2, <2>1, <4>3
        <5> HIDE DEF g
        <5>4. Delta(t) < Span[g + 1]
          BY <2>1, <5>2, Constants DEF Accepted
        <5>5. Span[g + 1] \in Nat /\ Span[g + 1] > 0
          BY <5>2, SpanNext
        <5>6. expires[t] < now + Span[g + 1]
          BY <1>2, <5>4, <5>5 DEF Delta
        <5> QED
          BY <1>2, <4>3, <5>3, <5>6
      <4> QED
        BY <1>2, <4>1, <4>2, <4>3
    <3> QED
      BY <1>1, <2>1, <3>1 DEF TimersSound
  <2>5. ExpiredSound'
    <3>1. ASSUME NEW i \in 1 .. Len(expired) PROVE since'[expired[i]] < now
      <4>1. expired[i] \in Timers /\ ~active[expired[i]] /\ since[expired[i]] < now
        <5>1. expired[i] \in Timers
          BY <1>2
        <5> QED
          BY <1>1, <5>1 DEF ExpiredSound
      <4>2. expired[i] # t
        BY <2>1, <4>1 DEF Accepted
      <4> QED
        BY <2>2, <4>1, <4>2
    <3> QED
      BY <1>1, <2>1, <3>1 DEF ExpiredSound
  <2>6. Counted'
    <3> SUFFICES ASSUME NEW x \in Timers, active'[x]
                 PROVE  IsFiniteSet(Entries(x)') /\ Cardinality(Entries(x)') = adds'[x]
      BY DEF Counted
    <3>1. IsFiniteSet(Entries(x)) /\ Cardinality(Entries(x)) = adds[x] /\ tv \in Wheels
      BY <1>1, <2>1, EntriesNow DEF Counted
    <3>2. Entries(x) = Places(tv, x) /\ Entries(x)' = Places(tv', x)
      BY <1>1, EntriesNow, EntriesNext
    <3>3. CASE x = t
      <4>1. PICK p : p \notin Places(tv, t) /\ Places(tv', t) = Places(tv, t) \cup {p}
        BY <1>1, <2>1, <3>1, AddPlaces
      <4> DEFINE X == Places(tv, t)
      <4>2. IsFiniteSet(X) /\ Cardinality(X) = adds[t] /\ p \notin X
        BY <3>1, <3>2, <3>3, <4>1
      <4>3. Entries(x)' = X \cup {p}
        BY <3>2, <3>3, <4>1
      <4> HIDE DEF X
      <4>4. IsFiniteSet(X \cup {p}) /\ Cardinality(X \cup {p}) = Cardinality(X) + 1
        BY <4>2, FS_AddElement
      <4> QED
        BY <2>3, <3>3, <4>2, <4>3, <4>4
    <3>4. CASE x # t
      <4>1. Places(tv', x) = Places(tv, x)
        BY <1>1, <2>1, <3>1, <3>4, AddPlaces
      <4> QED
        BY <2>2, <3>1, <3>2, <3>4, <4>1
    <3> QED
      BY <3>3, <3>4
  <2> QED
    BY <2>4, <2>5, <2>6 DEF TimersInv
<1>9. CASE UNCHANGED vars
  <2>1. UNCHANGED <<now, tv, expired, expires, active, since, entry, adds, fired>>
    BY <1>9 DEF vars, clock, ticking, timer, history
  <2>2. TimersSound' /\ ExpiredSound'
    BY <1>1, <2>1 DEF TimersSound, Pending, ExpiredSound
  <2>3. Counted'
    BY <1>1, <2>1, CountedKept
  <2> QED
    BY <2>2, <2>3 DEF TimersInv
<1> QED
  BY <1>3, <1>4, <1>5, <1>6, <1>7, <1>8, <1>9 DEF Next, Ticking

LEMMA TimersAreSound == Spec => [](ClockInv /\ TimersInv)
<1>1. Init => ClockInv /\ TimersInv
  BY ClockInit, TimersInit
<1>2. (ClockInv /\ TimersInv) /\ [Next]_vars => (ClockInv /\ TimersInv)'
  BY ClockStep, TimersStep
<1> QED
  BY <1>1, <1>2, PTL DEF Spec

(* No timer is lost or duplicated on its way down the levels, and each     *)
(* fires at most once.                                                     *)
THEOREM TimersAreKept == Spec => []EachTimerOnce
<1>1. ClockInv /\ TimersInv => EachTimerOnce
  BY DEF TimersInv, TimersSound, Counted, EachTimerOnce
<1> QED
  BY <1>1, TimersAreSound, PTL

(* A callback runs after its timer expired, and in a later Tick than the   *)
(* one that added it.                                                      *)
THEOREM CallbacksAreDue == Spec => FiresWhenDue
<1>1. ClockInv /\ TimersInv /\ [Next]_vars =>
        [\A t \in Timers : fired'[t] > fired[t] =>
            expires[t] <= now /\ since[t] < now]_vars
  <2> SUFFICES ASSUME ClockInv, TimersInv, Next, NEW t \in Timers, fired'[t] > fired[t]
               PROVE  expires[t] <= now /\ since[t] < now
    BY DEF Next
  <2>1. fired \in [Timers -> Nat] /\ expired \in Seq(Timers)
    BY DEF ClockInv, TypeOK
  <2>2. ~Scan /\ ~Advance /\ ~Cascade
    BY <2>1 DEF Scan, Advance, Cascade, history
  <2>3. ASSUME NEW x \in Timers, New(x) \/ AddTimer(x) PROVE FALSE
    <3>1. fired' = fired \/ fired' = [fired EXCEPT ![x] = 0]
      BY <2>3 DEF New, AddTimer
    <3> QED
      BY <2>1, <3>1
  <2>4. Fire
    BY <2>2, <2>3 DEF Next, Ticking
  <2>5. t = Head(expired) /\ expired # <<>>
    BY <2>1, <2>4 DEF Fire
  <2>6. 1 \in 1 .. Len(expired) /\ t = expired[1]
    BY <2>1, <2>5
  <2> QED
    BY <2>6 DEF TimersInv, ExpiredSound
<1> QED
  BY <1>1, TimersAreSound, PTL DEF Spec, FiresWhenDue

-----------------------------------------------------------------------------
(* Lateness *)

\* The last tick at which a slot of level l was dealt with.
Reached(l) ==
  IF (tick = "fire" /\ l > 0) \/ (tick = "cascade" /\ l >= lev) THEN now - 1 ELSE now

Start(t) == IF expires[t] > since[t] THEN expires[t] ELSE since[t]
Aligned(t) == since[t] % Span[entry[t] + 1] = 0

\* t waits in the slot of level l that is dealt with at tick Span[l] * m, which
\* is the next time for that slot and not too late for t.
Waits(t, l, m) ==
  /\ t \in ToSet(tv[l][(m - 1) % TVN_SIZE])
  /\ Reached(l) < Span[l] * m /\ Span[l] * m <= Reached(l) + Span[l + 1]
  /\ l <= entry[t]
  /\ l = 0 => m <= Start(t) + (Span[entry[t] + 1] - Span[entry[t]]) + 1
  /\ l > 0 => Span[l] * m <= expires[t] + (Span[l + 1] - Span[l])
  /\ Aligned(t) /\ l = 0 => m = Start(t) + 1
  /\ Aligned(t) /\ l > 0 => expires[t] - Span[l] < Span[l] * m /\ Span[l] * m <= expires[t]

Waiting ==
  \A t \in Timers : Pending(t) => \E l \in Levels, m \in Nat \ {0} : Waits(t, l, m)

Prompt ==
  \A i \in 1 .. Len(expired) : Aligned(expired[i]) => now <= Start(expired[i]) + 1

LatenessInv == Waiting /\ Prompt

(* When the slot that AddTimer chooses at tick n is dealt with; h is the   *)
(* tick at which the level was dealt with last.                            *)
LEMMA ChosenSlot ==
  ASSUME NEW n \in Nat, NEW h \in Nat, n - 1 <= h, h <= n,
         NEW d \in Nat, d < Span[TVN_NUM], GetLevel(d) = 0 => h = n
  PROVE  \E m \in Nat \ {0} :
           /\ (m - 1) % TVN_SIZE = Slot(d)
           /\ h < Span[GetLevel(d)] * m
           /\ Span[GetLevel(d)] * m <= h + Span[GetLevel(d) + 1]
           /\ GetLevel(d) = 0 /\ n % TVN_SIZE = 0 => m = n + d + 1
           /\ GetLevel(d) > 0 /\ n % Span[GetLevel(d) + 1] = 0 =>
                (n + d) - Span[GetLevel(d)] < Span[GetLevel(d)] * m
                  /\ Span[GetLevel(d)] * m <= n + d
<1> DEFINE g == GetLevel(d)
           u == Span[g]
           B == TVN_SIZE
           s == Slot(d)
<1>1. g \in Levels /\ g \in Nat /\ (g > 0 => d >= u) /\ d < Span[g + 1]
  <2>1. g \in Levels /\ (g > 0 => d >= u) /\ (d < Span[g + 1] \/ g = TVN_NUM - 1)
    BY LevelOf
  <2> HIDE DEF g
  <2>2. (TVN_NUM - 1) + 1 = TVN_NUM /\ g \in Nat
    BY <2>1, Constants
  <2> QED
    BY <2>1, <2>2
<1>2. u \in Nat /\ u > 0 /\ B \in Nat /\ B > 1 /\ Span[g + 1] = B * u
  BY <1>1, SpanNext, Constants
<1>3. s = IF g = 0 THEN d % B ELSE ((d - u) \div u) % B
  BY DEF Slot
<1>4. g = 0 => u = 1
  BY SpanDef
<1> HIDE DEF g, u, s, B
<1>5. d < B * u
  BY <1>1, <1>2
<1>6. CASE g = 0
  <2>1. d < B /\ u = 1 /\ h = n
    BY <1>2, <1>4, <1>5, <1>6 DEF g
  <2>2. s = d
    <3>1. d = B * 0 + d
      BY <1>2
    <3>2. d = d % B
      BY <1>2, <2>1, <3>1, DivModUnique
    <3> QED
      BY <1>3, <1>6, <3>2
  <2>3. CASE n % B = 0
    <3> DEFINE m == n + d + 1
    <3>1. m \in Nat \ {0} /\ m - 1 = n + d
      OBVIOUS
    <3>2. (m - 1) % B = s
      <4> DEFINE p == n \div B
      <4>1. p \in Int /\ n = B * p
        BY <1>2, <2>3, DivMod
      <4> HIDE DEF p
      <4>2. n + d = B * p + d /\ n + d \in Int /\ B \in Int /\ B > 0
        BY <1>2, <4>1
      <4>3. d = (n + d) % B
        BY <2>1, <4>1, <4>2, DivModUnique
      <4> QED
        BY <2>2, <3>1, <4>3
    <3>3. h < u * m /\ u * m <= h + B * u
      BY <1>2, <2>1, <3>1
    <3> QED
      BY <1>2, <1>6, <3>1, <3>2, <3>3 DEF g, u, s, B
  <2>4. CASE n % B # 0
    <3>1. d \in Int /\ 0 <= d /\ B > 0
      BY <1>2
    <3>2. PICK m \in Nat \ {0} : (m - 1) % B = d /\ h < u * m /\ u * m <= h + B * u
      BY <1>2, <2>1, <3>1, NextTurn
    <3> QED
      BY <1>2, <1>6, <2>2, <2>4, <3>2 DEF g, u, s, B
  <2> QED
    BY <2>3, <2>4
<1>7. CASE g # 0
  <2> DEFINE q == d \div u
             r == d % u
  <2>0. g > 0 /\ d >= u
    BY <1>1, <1>7
  <2>1. q \in Int /\ r \in Int /\ 0 <= r /\ r < u /\ d = u * q + r
    BY <1>2, DivMod
  <2> HIDE DEF q, r
  <2>2. q >= 1
    BY <1>2, <2>0, <2>1
  <2>3. q <= B - 1
    <3>1. u * q < B * u
      BY <1>2, <1>5, <2>1
    <3>2. u * (B - q) > 0
      BY <1>2, <2>1, <3>1
    <3>3. B - q > 0
      BY <1>2, <2>1, <3>2
    <3> QED
      BY <1>2, <2>1, <3>3
  <2>4. s = q - 1
    <3>1. d - u = u * (q - 1) + r
      BY <1>2, <2>1
    <3>2. q - 1 = (d - u) \div u
      BY <1>2, <2>1, <3>1, DivModUnique
    <3>3. q - 1 = B * 0 + (q - 1)
      BY <1>2, <2>1
    <3>4. q - 1 = (q - 1) % B
      BY <1>2, <2>1, <2>2, <2>3, <3>3, DivModUnique
    <3> QED
      BY <1>3, <1>7, <3>2, <3>4
  <2>5. CASE n % (B * u) = 0
    <3> DEFINE p == n \div (B * u)
               m == B * p + q
               w == B * u
    <3>1. w \in Int /\ w > 0
      BY <1>2
    <3>2. p \in Int /\ n = w * p
      <4> HIDE DEF w
      <4>1. n \div w \in Int /\ n = w * (n \div w)
        BY <2>5, <3>1, DivMod DEF w
      <4> QED
        BY <4>1 DEF w
    <3> HIDE DEF p
    <3>3. n = u * (B * p)
      BY <1>2, <3>2
    <3>4. p >= 0
      BY <3>1, <3>2
    <3>5. B * p \in Nat
      BY <1>2, <3>2, <3>4
    <3> DEFINE k == B * p
    <3>6. k \in Nat /\ n = u * k /\ m = k + q
      BY <3>3, <3>5
    <3> HIDE DEF m
    <3>7. (m - 1) % B = q - 1
      <4>1. m - 1 = B * p + (q - 1)
        BY <1>2, <2>1, <3>2 DEF m
      <4>2. m - 1 \in Int /\ q - 1 \in Int /\ 0 <= q - 1 /\ q - 1 < B /\ B \in Int /\ B > 0
        BY <1>2, <2>1, <2>2, <2>3, <3>6
      <4>3. q - 1 = (m - 1) % B
        BY <3>2, <4>1, <4>2, DivModUnique
      <4> QED
        BY <4>3
    <3> HIDE DEF k
    <3>8. m \in Nat \ {0}
      BY <2>1, <2>2, <3>6
    <3>9. u * m = n + u * q
      BY <1>2, <2>1, <3>6
    <3>10. u * q >= u
      BY <1>2, <2>1, <2>2
    <3>11. u * q <= B * u - u
      <4>1. u * ((B - 1) - q) >= 0
        BY <1>2, <2>1, <2>3
      <4> QED
        BY <1>2, <2>1, <4>1
    <3>12. h < u * m /\ u * m <= h + B * u /\ (n + d) - u < u * m /\ u * m <= n + d
      BY <1>2, <2>1, <3>9, <3>10, <3>11
    <3> QED
      BY <1>2, <1>7, <2>4, <3>7, <3>8, <3>12 DEF g, u, s, B
  <2>6. CASE n % (B * u) # 0
    <3>1. q - 1 \in Int /\ 0 <= q - 1 /\ q - 1 < B /\ B > 0
      BY <1>2, <2>1, <2>2, <2>3
    <3>2. PICK m \in Nat \ {0} : (m - 1) % B = q - 1 /\ h < u * m /\ u * m <= h + B * u
      BY <1>2, <3>1, NextTurn
    <3> QED
      BY <1>2, <1>7, <2>4, <2>6, <3>2 DEF g, u, s, B
  <2> QED
    BY <2>5, <2>6
<1> QED
  BY <1>6, <1>7

(* The numbers that the bounds of Waits are made of.                      *)
LEMMA ReachedIs ==
  ASSUME ClockInv, NEW l \in Levels
  PROVE  /\ Reached(l) \in Nat /\ now - 1 <= Reached(l) /\ Reached(l) <= now /\ now \in Nat
         /\ tick # "cascade" /\ l = 0 => Reached(l) = now
<1>1. now \in Nat /\ (tick = "fire" => now >= 1) /\ (tick = "cascade" => now >= 1)
  BY DEF ClockInv, TypeOK, TickSound
<1> QED
  BY <1>1 DEF Reached

LEMMA WaitsFacts ==
  ASSUME TypeOK, NEW t \in Timers, NEW l \in Levels
  PROVE  /\ expires[t] \in Nat /\ since[t] \in Nat /\ Start(t) \in Nat
         /\ expires[t] <= Start(t) /\ since[t] <= Start(t)
         /\ entry[t] \in Levels /\ Span[entry[t]] \in Nat /\ Span[entry[t]] > 0
         /\ Span[entry[t] + 1] \in Nat
         /\ TVN_SIZE - 1 <= Span[entry[t] + 1] - Span[entry[t]]
         /\ Span[l] \in Nat /\ Span[l] > 0 /\ Span[l + 1] \in Nat /\ Span[l] < Span[l + 1]
         /\ l <= entry[t] => Span[l + 1] - Span[l] <= Span[entry[t] + 1] - Span[entry[t]]
<1>1. expires[t] \in Nat /\ since[t] \in Nat /\ entry[t] \in Levels
  BY DEF TypeOK
<1> DEFINE e == entry[t]
<1>2. e \in Levels /\ e \in Nat /\ l \in Nat /\ 0 \in 0 .. e /\ (l <= e => l \in 0 .. e)
  <2>1. e \in Levels
    BY <1>1
  <2> HIDE DEF e
  <2>2. e \in Nat /\ l \in Nat
    BY <2>1, Constants
  <2> QED
    BY <2>1, <2>2
<1> HIDE DEF e
<1>3. /\ Span[e] \in Nat /\ Span[e] > 0 /\ Span[e + 1] \in Nat
      /\ Span[l] \in Nat /\ Span[l] > 0 /\ Span[l + 1] \in Nat /\ Span[l] < Span[l + 1]
  BY <1>2, SpanNext
<1>4. l <= e => Span[l + 1] - Span[l] <= Span[e + 1] - Span[e]
  BY <1>2, SpanOrder
<1>5. TVN_SIZE - 1 <= Span[e + 1] - Span[e]
  <2>1. Span[0 + 1] - Span[0] <= Span[e + 1] - Span[e]
    BY <1>2, SpanOrder
  <2>2. Span[0] = 1 /\ Span[0 + 1] = TVN_SIZE * Span[0]
    BY SpanDef, SpanNext, Constants
  <2> QED
    BY <2>1, <2>2, Constants
<1> QED
  BY <1>1, <1>2, <1>3, <1>4, <1>5 DEF Start, e

(* A timer that waits is late by no more than the promise.                 *)
LEMMA WaitingBound ==
  ASSUME ClockInv, LatenessInv, NEW t \in Timers, Pending(t)
  PROVE  /\ LateBy(t) <= Span[entry[t] + 1] - Span[entry[t]]
         /\ tick = "done" /\ Aligned(t) => now <= Start(t)
<1>1. PICK l \in Levels, m \in Nat \ {0} : Waits(t, l, m)
  BY DEF LatenessInv, Waiting
<1>2. TypeOK
  BY DEF ClockInv
<1>3. /\ Reached(l) \in Nat /\ now - 1 <= Reached(l) /\ now \in Nat
      /\ tick = "done" => Reached(l) = now
      /\ l = 0 => Reached(l) = now
  <2>1. 1 <= lev \/ tick # "cascade"
    BY DEF ClockInv, TickSound
  <2>2. lev \in Nat /\ l \in Nat
    BY <1>2, Constants DEF TypeOK
  <2> QED
    BY <2>1, <2>2, ReachedIs DEF Reached
<1>4. CASE l = 0
  <2>1. now < m
    BY <1>1, <1>3, <1>4, SpanDef DEF Waits
  <2> DEFINE s0 == Start(t)
             w == Span[entry[t] + 1] - Span[entry[t]]
  <2>2. m <= s0 + w + 1 /\ (Aligned(t) => m = s0 + 1)
    BY <1>1, <1>4 DEF Waits
  <2>3. s0 \in Nat /\ w \in Int /\ LateBy(t) = now - s0
    BY <1>2, WaitsFacts DEF LateBy, Start
  <2> HIDE DEF s0, w
  <2>4. now - s0 <= w /\ (Aligned(t) => now <= s0)
    BY <1>3, <2>1, <2>2, <2>3
  <2> QED
    BY <2>3, <2>4 DEF s0, w
<1>5. CASE l # 0
  <2>0. l > 0
    BY <1>5, Constants
  <2> DEFINE s0 == Start(t)
             w == Span[entry[t] + 1] - Span[entry[t]]
             x == Span[l] * m
             v == Span[l + 1] - Span[l]
  <2>1. Reached(l) < x /\ x <= expires[t] + v /\ l <= entry[t] /\ (Aligned(t) => x <= expires[t])
    BY <1>1, <2>0 DEF Waits
  <2>2. /\ s0 \in Nat /\ w \in Int /\ v \in Int /\ x \in Int /\ v <= w
        /\ expires[t] \in Nat /\ expires[t] <= s0
    BY <1>2, <2>1, WaitsFacts
  <2>3. LateBy(t) = now - s0
    BY DEF LateBy, Start
  <2> HIDE DEF s0, w, x, v
  <2>4. now - s0 <= w /\ (tick = "done" /\ Aligned(t) => now <= s0)
    BY <1>3, <2>1, <2>2
  <2> QED
    BY <2>3, <2>4 DEF s0, w
<1> QED
  BY <1>4, <1>5

LEMMA LatenessInit ==
  ASSUME Init
  PROVE  LatenessInv
BY DEF Init, LatenessInv, Waiting, Prompt, Pending

(* What Advance and Cascade leave where it is waits on, if its slot has    *)
(* not been dealt with.                                                    *)
LEMMA WaitsOn ==
  ASSUME TypeOK, TypeOK', NEW t \in Timers, NEW l \in Levels, NEW m \in Nat \ {0},
         Waits(t, l, m),
         expires'[t] = expires[t], since'[t] = since[t], entry'[t] = entry[t],
         t \in ToSet(tv'[l][(m - 1) % TVN_SIZE]),
         Reached(l) <= Reached(l)', Reached(l) \in Int, Reached(l)' \in Int,
         Reached(l)' < Span[l] * m
  PROVE  Waits(t, l, m)'
<1>1. Start(t)' = Start(t) /\ Aligned(t)' = Aligned(t)
  BY DEF Start, Aligned
<1>2. Span[l] * m <= Reached(l)' + Span[l + 1]
  <2> DEFINE x == Span[l] * m
             y == Span[l + 1]
  <2>1. x \in Int /\ y \in Int
    BY SpanNext
  <2>2. x <= Reached(l) + y
    BY DEF Waits
  <2> HIDE DEF x, y
  <2>3. x <= Reached(l)' + y
    BY <2>1, <2>2
  <2> QED
    BY <2>3 DEF x, y
<1> QED
  BY <1>1, <1>2 DEF Waits

(* A timer that AddTimer has just put into the wheel at tick n, where it   *)
(* is pending; the level's last slot was that of tick h.                   *)
LEMMA Placed ==
  ASSUME TypeOK, NEW t \in Timers, Accepted(t), NEW g, g = GetLevel(Delta(t)),
         NEW h \in Nat, now - 1 <= h, h <= now, g = 0 => h = now,
         NEW e \in Levels, g <= e, NEW s0 \in Nat,
         \/ s0 = now
         \/ /\ now % TVN_SIZE = 0 /\ s0 <= now
            /\ now <= expires[t] + (Span[e + 1] - Span[e]),
         NEW b, b = IF expires[t] > s0 THEN expires[t] ELSE s0
  PROVE  \E m \in Nat \ {0} :
           /\ (m - 1) % TVN_SIZE = Slot(Delta(t))
           /\ h < Span[g] * m /\ Span[g] * m <= h + Span[g + 1]
           /\ g = 0 => m <= b + (Span[e + 1] - Span[e]) + 1
           /\ g > 0 => Span[g] * m <= expires[t] + (Span[g + 1] - Span[g])
           /\ g = 0 /\ now % TVN_SIZE = 0 /\ now <= b => m = b + 1
           /\ g > 0 /\ now % Span[g + 1] = 0 =>
                expires[t] - Span[g] < Span[g] * m /\ Span[g] * m <= expires[t]
<1> DEFINE d == Delta(t)
           u == Span[g]
           w == Span[e + 1] - Span[e]
<1>0. g = GetLevel(d)
  OBVIOUS
<1>1. /\ now \in Nat /\ expires[t] \in Nat /\ d \in Nat /\ d < Span[TVN_NUM]
      /\ d = IF expires[t] <= now THEN 0 ELSE expires[t] - now
  <2>1. now \in Nat /\ expires[t] \in Nat
    BY DEF TypeOK
  <2>2. d = IF expires[t] <= now THEN 0 ELSE expires[t] - now
    BY DEF Delta
  <2>3. d < Span[TVN_NUM]
    BY DEF Accepted
  <2> HIDE DEF d
  <2> QED
    BY <2>1, <2>2, <2>3
<1>2. PICK m \in Nat \ {0} :
           /\ (m - 1) % TVN_SIZE = Slot(d)
           /\ h < u * m /\ u * m <= h + Span[g + 1]
           /\ g = 0 /\ now % TVN_SIZE = 0 => m = now + d + 1
           /\ g > 0 /\ now % Span[g + 1] = 0 =>
                (now + d) - u < u * m /\ u * m <= now + d
  <2>1. GetLevel(d) = 0 => h = now
    BY <1>0
  <2> HIDE DEF d
  <2>2. \E m \in Nat \ {0} :
           /\ (m - 1) % TVN_SIZE = Slot(d)
           /\ h < Span[GetLevel(d)] * m
           /\ Span[GetLevel(d)] * m <= h + Span[GetLevel(d) + 1]
           /\ GetLevel(d) = 0 /\ now % TVN_SIZE = 0 => m = now + d + 1
           /\ GetLevel(d) > 0 /\ now % Span[GetLevel(d) + 1] = 0 =>
                (now + d) - Span[GetLevel(d)] < Span[GetLevel(d)] * m
                  /\ Span[GetLevel(d)] * m <= now + d
    BY <1>1, <2>1, ChosenSlot
  <2> QED
    BY <1>0, <2>2
<1>3. /\ g \in Levels /\ g \in Nat /\ (g > 0 => d >= u) /\ u \in Nat /\ u > 0 /\ Span[g + 1] \in Nat
      /\ (g = 0 => d < TVN_SIZE /\ u = 1 /\ Span[g + 1] = TVN_SIZE)
  <2>1. g \in Levels /\ (g > 0 => d >= u) /\ (d < Span[g + 1] \/ g = TVN_NUM - 1)
    BY <1>0, <1>1, LevelOf
  <2> HIDE DEF d
  <2>2. g \in Nat /\ Span[g + 1] = TVN_SIZE * Span[g] /\ (g = 0 => g # TVN_NUM - 1)
    BY <2>1, SpanNext, Constants
  <2>3. Span[0] = 1
    BY SpanDef
  <2>4. g = 0 => Span[g + 1] = TVN_SIZE
    BY <2>2, <2>3, Constants
  <2> QED
    BY <2>1, <2>2, <2>3, <2>4, SpanNext
<1>4. /\ w \in Int /\ TVN_SIZE - 1 <= w /\ w >= 0 /\ TVN_SIZE \in Nat /\ TVN_SIZE > 1
  <2>1. 0 \in 0 .. e /\ Span[e + 1] \in Nat /\ Span[e] \in Nat /\ TVN_SIZE \in Nat /\ TVN_SIZE > 1
    BY SpanNext, Constants
  <2>2. Span[0 + 1] - Span[0] <= Span[e + 1] - Span[e]
    BY <2>1, SpanOrder
  <2>3. Span[0] = 1 /\ Span[0 + 1] = TVN_SIZE * Span[0]
    BY SpanDef, SpanNext, Constants
  <2> QED
    BY <2>1, <2>2, <2>3
<1>5. /\ g = 0 => h = now
      /\ s0 = now \/ (now % TVN_SIZE = 0 /\ s0 <= now /\ now <= expires[t] + w)
  OBVIOUS
<1>6. b \in Nat /\ expires[t] <= b /\ s0 <= b /\ (b = expires[t] \/ b = s0)
  BY <1>1
<1> DEFINE x == u * m
           y == Span[g + 1]
<1>7. x \in Int /\ y \in Nat /\ h < x /\ x <= h + y /\ (g = 0 => x = m /\ y = TVN_SIZE /\ d < TVN_SIZE)
  BY <1>2, <1>3
<1>8. /\ g = 0 /\ now % TVN_SIZE = 0 => m = now + d + 1
      /\ g > 0 /\ now % y = 0 => (now + d) - u < x /\ x <= now + d
      /\ m \in Nat
  BY <1>2
<1>9. u \in Nat /\ u > 0 /\ (g > 0 => d >= u) /\ g \in Nat
  BY <1>3
<1> HIDE DEF x, y, d, u, w
<1>10. g = 0 => m <= b + w + 1
  <2> SUFFICES ASSUME g = 0 PROVE m <= b + w + 1
    OBVIOUS
  <2>1. CASE s0 = now
    BY <1>1, <1>4, <1>5, <1>6, <1>7, <1>8, <2>1
  <2>2. CASE now % TVN_SIZE = 0 /\ s0 <= now /\ now <= expires[t] + w
    <3>1. m = now + d + 1
      BY <1>8, <2>2
    <3>2. CASE d = 0
      BY <1>1, <1>4, <1>6, <2>2, <3>1, <3>2
    <3>3. CASE d = expires[t] - now
      BY <1>1, <1>4, <1>6, <3>1, <3>3
    <3> QED
      BY <1>1, <3>2, <3>3
  <2> QED
    BY <1>5, <2>1, <2>2
<1>11. g > 0 => x <= expires[t] + (y - u)
  BY <1>1, <1>7, <1>9
<1>12. g = 0 /\ now % TVN_SIZE = 0 /\ now <= b => m = b + 1
  <2> SUFFICES ASSUME g = 0, now % TVN_SIZE = 0, now <= b PROVE m = b + 1
    OBVIOUS
  <2>1. m = now + d + 1
    BY <1>8
  <2>2. b = now + d
    <3>1. s0 <= now
      BY <1>1, <1>5
    <3> QED
      BY <1>1, <1>6, <3>1
  <2> QED
    BY <1>1, <2>1, <2>2
<1>13. g > 0 /\ now % y = 0 => expires[t] - u < x /\ x <= expires[t]
  BY <1>1, <1>7, <1>8, <1>9
<1> QED
  BY <1>2, <1>10, <1>11, <1>12, <1>13 DEF x, y, d, u, w

(* The tick of a slot that is dealt with now.                              *)
LEMMA ThisTurn ==
  ASSUME NEW n \in Nat, n >= 1, NEW u \in Nat, u > 0, NEW b \in Nat, b > 0, n % u = 0,
         NEW m \in Nat \ {0}
  PROVE  /\ u * m = n => (m - 1) % b = ((n - 1) \div u) % b
         /\ n - 1 < u * m /\ u * m <= (n - 1) + b * u
              /\ (m - 1) % b = ((n - 1) \div u) % b => u * m = n
<1> DEFINE c == n \div u
<1>1. c \in Int /\ n = u * c
  BY DivMod
<1>2. (n - 1) \div u = c - 1
  BY BeforeMultiple
<1> HIDE DEF c
<1>3. ASSUME u * m = n PROVE m = c
  <2>1. u * (m - c) = 0
    BY <1>1, <1>3
  <2> QED
    BY <1>1, <2>1
<1>4. ASSUME n - 1 < u * m, u * m <= (n - 1) + b * u, (m - 1) % b = (c - 1) % b
      PROVE  m = c
  <2> DEFINE p == (m - 1) \div b
             q == (c - 1) \div b
             r == (m - 1) % b
  <2>1. p \in Int /\ r \in Int /\ m - 1 = b * p + r
    BY DivMod
  <2>2. q \in Int /\ c - 1 = b * q + r
    BY <1>1, <1>4, DivMod
  <2> HIDE DEF p, q, r
  <2>3. m - c = b * (p - q)
    BY <1>1, <2>1, <2>2
  <2>4. 0 <= u * (m - c) /\ u * (m - c) < b * u
    <3> DEFINE x == u * m
               y == u * c
               z == b * u
    <3>1. x \in Int /\ y \in Int /\ z \in Int /\ n = y /\ n - 1 < x /\ x <= (n - 1) + z
      BY <1>1, <1>4
    <3>2. u * (m - c) = x - y
      BY <1>1
    <3> HIDE DEF x, y, z
    <3>3. 0 <= x - y /\ x - y < z
      BY <3>1
    <3> QED
      BY <3>2, <3>3 DEF z
  <2>5. 0 <= m - c
    BY <1>1, <2>4
  <2>6. m - c < b
    <3> SUFFICES ASSUME m - c >= b PROVE FALSE
      BY <1>1
    <3>1. 0 <= u * ((m - c) - b)
      BY <1>1
    <3>2. u * ((m - c) - b) = u * (m - c) - b * u
      BY <1>1
    <3> QED
      BY <1>1, <2>4, <3>1, <3>2
  <2>7. p - q < 1
    BY <2>1, <2>2, <2>3, <2>6
  <2>8. p - q > -1
    BY <2>1, <2>2, <2>3, <2>5
  <2>9. p \in Int /\ q \in Int
    BY <2>1, <2>2
  <2>10. p = q
    BY ONLY <2>7, <2>8, <2>9
  <2> QED
    BY <1>1, <2>1, <2>2, <2>10
<1> QED
  BY <1>1, <1>2, <1>3, <1>4

(* A digit comes again after a rotation.                                  *)
LEMMA NextRotation ==
  ASSUME NEW a \in Nat, NEW b \in Nat, b > 0
  PROVE  (a + b) % b = a % b
<1> DEFINE q == a \div b
           r == a % b
<1>1. q \in Int /\ r \in Int /\ 0 <= r /\ r < b /\ a = b * q + r
  BY DivMod
<1> HIDE DEF q, r
<1>2. a + b = b * (q + 1) + r
  BY <1>1
<1>3. r = (a + b) % b
  BY <1>1, <1>2, DivModUnique
<1> QED
  BY <1>3 DEF r

(* Who is passed over in a scan waits for a later turn of its slot.       *)
LEMMA ScanKeepsWaiting ==
  ASSUME ClockInv, ClockInv', TimersInv, LatenessInv, Scan, NEW t \in Timers, Pending(t)'
  PROVE  \E l \in Levels, m \in Nat \ {0} : Waits(t, l, m)'
<1> DEFINE ix == idx[0]
           L == tv[0][ix]
<1>1. TypeOK /\ TypeOK' /\ ClockDigits
  BY DEF ClockInv
<1>2. /\ tick = "done" /\ tick' = "fire" /\ now' = now + 1 /\ now \in Nat
      /\ UNCHANGED <<expires, since, entry, adds>>
  BY <1>1 DEF Scan, history, TypeOK
<1>3. /\ L \in Seq(Timers) /\ 0 \in Levels /\ ix \in Slots
      /\ tv' = [tv EXCEPT ![0][ix] = Among(L, Kept)]
      /\ active[t] /\ (t \in ToSet(L) => t \in Kept)
  <2>1. active'[t]
    BY DEF Pending
  <2> QED
    BY <1>1, <2>1, ScanTakes
<1>4. PICK l \in Levels, m \in Nat \ {0} : Waits(t, l, m)
  BY <1>2, <1>3 DEF LatenessInv, Waiting, Pending
<1> DEFINE s == (m - 1) % TVN_SIZE
<1>5. s \in Slots /\ m - 1 \in Nat
  <2>1. m - 1 \in Nat
    OBVIOUS
  <2> QED
    BY <2>1, Constants
<1>6. tv \in [Levels -> [Slots -> Seq(Timers)]]
  BY <1>1 DEF TypeOK
<1>7. /\ tv'[0][ix] = Among(L, Kept)
      /\ l # 0 \/ s # ix => tv'[l][s] = tv[l][s]
  <2> HIDE DEF ix, L, s
  <2> QED
    BY <1>3, <1>5, <1>6
<1>8. /\ Reached(l) = now /\ Reached(l)' = IF l > 0 THEN now ELSE now + 1
  BY <1>2 DEF Reached
<1>9. t \in ToSet(tv[l][s]) /\ now < Span[l] * m
  BY <1>4, <1>8 DEF Waits
<1>10. ASSUME t \in ToSet(tv'[l][s]), Reached(l)' < Span[l] * m PROVE Waits(t, l, m)'
  BY <1>1, <1>2, <1>4, <1>8, <1>10, WaitsOn
<1>11. CASE l # 0
  <2>1. t \in ToSet(tv'[l][s])
    BY <1>7, <1>9, <1>11
  <2>2. Reached(l)' < Span[l] * m
    BY <1>8, <1>9, <1>11, Constants
  <2> QED
    BY <1>10, <2>1, <2>2
<1>12. CASE l = 0
  <2>1. t \in ToSet(tv'[0][s])
    <3>1. CASE s # ix
      BY <1>7, <1>9, <1>12, <3>1
    <3>2. CASE s = ix
      <4>1. t \in ToSet(L) /\ t \in Kept
        BY <1>3, <1>9, <1>12, <3>2
      <4> HIDE DEF L
      <4>2. t \in ToSet(Among(L, Kept))
        BY <1>3, <4>1, AmongSet
      <4> QED
        BY <1>7, <3>2, <4>2
    <3> QED
      BY <3>1, <3>2
  <2>2. Span[0] = 1 /\ Span[0 + 1] = TVN_SIZE /\ TVN_SIZE \in Nat /\ TVN_SIZE > 1
    BY SpanDef, SpanNext, Constants
  <2>3. now < m
    BY <1>9, <1>12, <2>2
  <2>4. CASE m # now + 1
    <3>1. Reached(l)' < Span[l] * m
      BY <1>2, <1>8, <1>12, <2>2, <2>3, <2>4
    <3> QED
      BY <1>10, <1>12, <2>1, <3>1
  <2>5. CASE m = now + 1
    <3>1. s = ix
      <4>1. idx[0] = (now \div 1) % TVN_SIZE
        BY <1>1, <1>2, <1>3, <2>2 DEF ClockDigits
      <4>2. now = 1 * now + 0
        BY <1>2
      <4>3. now = now \div 1
        BY <1>2, <4>2, DivModUnique
      <4>4. m - 1 = now
        BY <1>2, <2>5
      <4> QED
        BY <4>1, <4>3, <4>4
    <3>2. expires[t] > now + 1
      <4>1. t \in Kept
        BY <1>3, <1>9, <1>12, <3>1
      <4>2. ~(expires[t] <= now')
        BY <4>1 DEF Kept, Due
      <4>3. expires[t] \in Nat
        BY <1>1 DEF TypeOK
      <4> QED
        BY <1>2, <4>2, <4>3
    <3> DEFINE n == m + TVN_SIZE
    <3>3. n \in Nat \ {0} /\ n - 1 = (m - 1) + TVN_SIZE
      BY <2>2
    <3>4. (n - 1) % TVN_SIZE = s
      <4> DEFINE a == m - 1
      <4>1. a \in Nat /\ n - 1 = a + TVN_SIZE /\ s = a % TVN_SIZE
        BY <1>5, <3>3
      <4> HIDE DEF a, n, s
      <4>2. (a + TVN_SIZE) % TVN_SIZE = a % TVN_SIZE
        <5>1. TVN_SIZE \in Nat /\ TVN_SIZE > 0 /\ a \in Nat
          BY <4>1, Constants
        <5> QED
          BY ONLY <5>1, NextRotation
      <4> QED
        BY <4>1, <4>2
    <3>5. /\ Start(t)' = Start(t) /\ Aligned(t)' = Aligned(t)
          /\ expires'[t] = expires[t] /\ entry'[t] = entry[t]
      BY <1>2 DEF Start, Aligned
    <3> DEFINE s0 == Start(t)
               w == Span[entry[t] + 1] - Span[entry[t]]
    <3>6. s0 \in Nat /\ expires[t] <= s0 /\ expires[t] \in Nat /\ w \in Int /\ TVN_SIZE - 1 <= w
      BY <1>1, <1>3, WaitsFacts
    <3>7. ~Aligned(t)
      <4>1. Aligned(t) => m = s0 + 1
        BY <1>4, <1>12 DEF Waits
      <4> HIDE DEF s0
      <4> QED
        BY <1>2, <2>5, <3>2, <3>6, <4>1
    <3>8. 0 <= entry[t]
      BY <1>4, <1>12 DEF Waits
    <3> HIDE DEF s0, w, s, n
    <3>9. now + 1 < n /\ n <= (now + 1) + TVN_SIZE /\ n <= s0 + w + 1
      BY <1>2, <2>2, <2>5, <3>2, <3>6 DEF n
    <3>10. t \in ToSet(tv'[0][(n - 1) % TVN_SIZE])
      BY <2>1, <3>4
    <3>11. Span[0] * n = n /\ Reached(0)' = now + 1
      BY <1>2, <1>8, <1>12, <2>2, <3>3
    <3>12. Waits(t, 0, n)'
      BY <2>2, <3>5, <3>7, <3>8, <3>9, <3>10, <3>11 DEF Waits, s0, w
    <3> QED
      BY <1>3, <3>3, <3>12
  <2> QED
    BY <2>4, <2>5
<1> QED
  BY <1>11, <1>12

(* A level's index moves on at tick now; t does not wait in its slot.      *)
LEMMA MovesOnWaiting ==
  ASSUME ClockInv, ClockInv', LatenessInv, NEW l \in Levels, MoveOn(l), now' = now,
         now >= 1, now % Span[l] = 0,
         \A k \in Levels : Shown(k) = IF k < l THEN now ELSE now - 1,
         \A k \in Levels : Reached(k) = IF k < l \/ k = 0 THEN now ELSE now - 1,
         NEW t \in Timers, NEW k \in Levels, NEW m \in Nat \ {0}, Waits(t, k, m),
         expires'[t] = expires[t], since'[t] = since[t], entry'[t] = entry[t],
         t \in ToSet(tv'[k][(m - 1) % TVN_SIZE]),
         k # l \/ l = 0 \/ (m - 1) % TVN_SIZE # idx[l]
  PROVE  Waits(t, k, m)'
<1>1. TypeOK /\ TypeOK' /\ ClockDigits /\ now \in Nat
  BY DEF ClockInv, TypeOK
<1>2. /\ tick' \in {"done", "cascade"}
      /\ tick' = "cascade" => lev' = l + 1
      /\ tick' = "done" => \A j \in Levels : j > l => now % Span[j] # 0
  <2>1. tick' \in {"done", "cascade"}
    BY DEF MoveOn
  <2> QED
    BY <1>1, <2>1, DigitMovesOn
<1>3. /\ k \in Nat /\ l \in Nat /\ Span[k] \in Nat /\ Span[k] > 0
      /\ TVN_SIZE \in Nat /\ TVN_SIZE > 0
  BY SpanNext, Constants
<1>4. /\ Reached(k) = IF k < l \/ k = 0 THEN now ELSE now - 1
      /\ Reached(k)' = IF tick' = "cascade" /\ k > l THEN now - 1 ELSE now
  <2>1. Reached(k)' = IF tick' = "cascade" /\ k >= lev' THEN now - 1 ELSE now
    BY <1>2 DEF Reached
  <2> QED
    BY <1>2, <1>3, <2>1
<1> DEFINE x == Span[k] * m
<1>5. x \in Nat /\ Reached(k) < x
  BY <1>3 DEF Waits
<1> HIDE DEF x
<1>6. Reached(k)' < x
  <2>1. CASE k < l \/ k = 0
    BY <1>1, <1>4, <1>5, <2>1
  <2>2. CASE ~(k < l \/ k = 0) /\ k = l
    <3>1. x # now
      <4>1. idx[l] = ((now - 1) \div Span[l]) % TVN_SIZE
        BY <1>1, <1>3, DigitsShown
      <4>2. (m - 1) % TVN_SIZE # ((now - 1) \div Span[k]) % TVN_SIZE
        BY <2>2, <4>1
      <4> QED
        BY <1>1, <1>3, <2>2, <4>2, ThisTurn DEF x
    <3> QED
      BY <1>1, <1>3, <1>4, <1>5, <2>2, <3>1
  <2>3. CASE k > l /\ k # 0
    <3>1. Reached(k) = now - 1
      BY <1>3, <1>4, <2>3
    <3>2. CASE tick' = "cascade"
      BY <1>4, <1>5, <2>3, <3>1, <3>2
    <3>3. CASE tick' = "done"
      <4>1. now % Span[k] # 0
        BY <1>2, <2>3, <3>3
      <4>2. x # now
        <5> SUFFICES ASSUME x = now PROVE FALSE
          OBVIOUS
        <5>1. now = Span[k] * m + 0
          BY <1>3 DEF x
        <5>2. 0 = now % Span[k]
          BY <1>1, <1>3, <5>1, DivModUnique
        <5> QED
          BY <4>1, <5>2
      <4>3. Reached(k)' = now
        BY <1>4, <3>3
      <4> QED
        BY <1>1, <1>5, <3>1, <4>2, <4>3
    <3> QED
      BY <1>2, <3>2, <3>3
  <2> QED
    BY <1>3, <2>1, <2>2, <2>3
<1>7. Reached(k) \in Int /\ Reached(k)' \in Int /\ Reached(k) <= Reached(k)'
  BY <1>1, <1>3, <1>4
<1> QED
  BY <1>1, <1>6, <1>7, WaitsOn DEF x

(* A cascade moves whoever waits to a slot of a lower level, where it     *)
(* waits.                                                                 *)
LEMMA CascadeKeepsWaiting ==
  ASSUME ClockInv, ClockInv', TimersInv, LatenessInv, Cascade, NEW t \in Timers, Pending(t)'
  PROVE  \E l \in Levels, m \in Nat \ {0} : Waits(t, l, m)'
<1> DEFINE ix == idx[lev]
           L == tv[lev][ix]
           w == [tv EXCEPT ![lev][ix] = <<>>]
<1>1. TypeOK /\ TypeOK' /\ ClockDigits /\ TimersSound /\ now \in Nat
  BY DEF ClockInv, TimersInv, TypeOK
<1>2. /\ tick = "cascade" /\ MoveOn(lev) /\ now >= 1 /\ lev \in Levels /\ lev >= 1
      /\ lev \in Nat /\ now % Span[lev] = 0 /\ now' = now
      /\ UNCHANGED <<expires, active, since, entry, adds>>
  <2>1. lev \in Levels
    BY <1>1 DEF TypeOK
  <2> QED
    BY <2>1, Constants DEF ClockInv, TickSound, Cascade, timer, history
<1>3. Pending(t)
  BY <1>2 DEF Pending
<1>4. Accepted(t)
  BY <1>1, <1>3, PendingAccepted
<1>5. PICK l \in Levels, m \in Nat \ {0} : Waits(t, l, m)
  BY <1>3 DEF LatenessInv, Waiting
<1> DEFINE s == (m - 1) % TVN_SIZE
<1>6. s \in Slots /\ ix \in Slots /\ l \in Nat
  <2>1. ix \in Slots
    BY <1>1, <1>2 DEF TypeOK
  <2>2. m - 1 \in Nat
    OBVIOUS
  <2> QED
    BY <2>1, <2>2, Constants
<1>7. tv \in [Levels -> [Slots -> Seq(Timers)]] /\ L \in Seq(Timers) /\ w \in Wheels
  <2>1. tv \in [Levels -> [Slots -> Seq(Timers)]] /\ ix \in Slots
    BY <1>1, <1>2 DEF TypeOK
  <2>2. L \in Seq(Timers) /\ <<>> \in Seq(Timers)
    BY <1>2, <2>1
  <2> HIDE DEF ix, L
  <2>3. w \in Wheels
    BY <1>2, <2>1, <2>2 DEF Wheels
  <2> QED
    BY <2>1, <2>2, <2>3
<1>8. tv' = AddAll(w, L)
  BY DEF Cascade
<1>9. \A a \in Levels, b \in Slots : a # lev \/ b # ix => w[a][b] = tv[a][b]
  BY <1>7
<1> HIDE DEF ix, L, w
<1>10. ASSUME NEW a \in Levels, NEW b \in Slots
       PROVE  /\ tv'[a][b] = w[a][b] \o Among(L, GoingTo(a, b))
              /\ w[a][b] \in Seq(Timers) /\ Among(L, GoingTo(a, b)) \in Seq(Timers)
  BY <1>7, <1>8, AddAllType
<1>11. ASSUME NEW a \in Levels, NEW b \in Slots, NEW z
       PROVE  z \in ToSet(tv'[a][b])
                <=> z \in ToSet(w[a][b]) \/ z \in ToSet(Among(L, GoingTo(a, b)))
  <2> DEFINE x == w[a][b]
             y == Among(L, GoingTo(a, b))
  <2>1. tv'[a][b] = x \o y /\ x \in Seq(Timers) /\ y \in Seq(Timers)
    BY <1>10
  <2> HIDE DEF x, y
  <2>2. z \in ToSet(x \o y) <=> z \in ToSet(x) \/ z \in ToSet(y)
    BY <2>1, ConcatSet
  <2> QED
    BY <2>1, <2>2 DEF x, y
<1>12. \A k \in Levels : /\ Shown(k) = IF k < lev THEN now ELSE now - 1
                         /\ Reached(k) = IF k < lev \/ k = 0 THEN now ELSE now - 1
  BY <1>2, Constants DEF Shown, Reached
<1>13. t \in ToSet(tv[l][s])
  BY <1>5 DEF Waits
<1>14. CASE l # lev \/ s # ix
  <2>1. t \in ToSet(tv'[l][s])
    <3>1. t \in ToSet(w[l][s])
      BY <1>6, <1>9, <1>13, <1>14
    <3> HIDE DEF s
    <3> QED
      BY <1>6, <1>11, <3>1
  <2>2. l # lev \/ lev = 0 \/ (m - 1) % TVN_SIZE # idx[lev]
    BY <1>14 DEF ix
  <2>3. Waits(t, l, m)'
    BY <1>2, <1>5, <1>12, <2>1, <2>2, MovesOnWaiting
  <2> QED
    BY <2>3
<1>15. CASE l = lev /\ s = ix
  <2>0. PICK d, g : d = Delta(t) /\ g = GetLevel(d)
    OBVIOUS
  <2> DEFINE e == entry[t]
             u == Span[lev]
             v == Span[lev + 1] - Span[lev]
             c == Span[e + 1] - Span[e]
             x == u * m
  <2>1. /\ expires[t] \in Nat /\ since[t] \in Nat /\ e \in Levels /\ since[t] <= now
        /\ expires[t] < since[t] + Span[e + 1] /\ Span[e + 1] \in Nat
        /\ Start(t) \in Nat /\ expires[t] <= Start(t)
        /\ u \in Nat /\ u > 0 /\ v \in Int /\ c \in Int /\ lev <= e /\ v <= c
        /\ Span[lev + 1] = TVN_SIZE * u /\ TVN_SIZE \in Nat /\ TVN_SIZE > 0
    <3>1. lev <= e
      BY <1>5, <1>15 DEF Waits
    <3>2. since[t] <= now /\ expires[t] < since[t] + Span[e + 1]
      BY <1>1, <1>3 DEF TimersSound
    <3> QED
      BY <1>1, <1>2, <3>1, <3>2, WaitsFacts, SpanNext, Constants
  <2>2. /\ now - 1 < x /\ x <= (now - 1) + Span[lev + 1] /\ x <= expires[t] + v /\ x \in Nat
        /\ Aligned(t) => expires[t] - u < x /\ x <= expires[t]
    <3>1. Reached(lev) = now - 1
      BY <1>2, <1>12
    <3> QED
      BY <1>2, <1>5, <1>15, <2>1, <3>1 DEF Waits
  <2>3. d \in Nat /\ g \in Levels /\ Slot(d) \in Slots /\ t \in GoingTo(g, Slot(d))
    <3>1. d \in Nat /\ g \in Levels /\ Slot(d) \in Slots
      BY <1>1, <1>2, <1>4, <1>6, <2>0, Home
    <3> QED
      BY <1>1, <1>4, <2>0, <3>1, Home
  <2>4. d = IF expires[t] <= now THEN 0 ELSE expires[t] - now
    BY <2>0 DEF Delta
  <2>5. g <= e
    <3>1. d < Span[e + 1]
      <4>1. Span[e + 1] > 0
        BY <2>1, SpanNext
      <4> HIDE DEF e
      <4> QED
        BY <1>1, <2>1, <2>4, <4>1
    <3> HIDE DEF e
    <3> QED
      BY <2>0, <2>1, <2>3, <3>1, LevelOf
  <2>6. now % TVN_SIZE = 0
    <3>1. 1 \in 0 .. lev /\ 0 \in Levels
      BY <1>2, Constants
    <3>2. now % Span[1] = 0
      BY <1>1, <1>2, <3>1, SpanPart
    <3>3. Span[0 + 1] = TVN_SIZE * Span[0] /\ Span[0] = 1
      BY <3>1, SpanDef, SpanNext
    <3>4. Span[1] = TVN_SIZE
      BY <2>1, <3>3
    <3> QED
      BY <3>2, <3>4
  <2>7. now <= expires[t] + c
    <3> HIDE DEF x, c, v
    <3> QED
      BY <1>1, <2>1, <2>2
  <2> DEFINE h == Reached(g)'
  <2>8. h \in Nat /\ now - 1 <= h /\ h <= now /\ (g = 0 => h = now)
    <3>1. h \in Nat /\ now' - 1 <= h /\ h <= now'
      <4>1. \A k \in Levels : Reached(k)' \in Nat /\ now' - 1 <= Reached(k)' /\ Reached(k)' <= now'
        <5>1. now' \in Nat /\ (tick' = "fire" => now' >= 1) /\ (tick' = "cascade" => now' >= 1)
          BY DEF ClockInv, TypeOK, TickSound
        <5> SUFFICES ASSUME NEW k \in Levels
                     PROVE  Reached(k)' \in Nat /\ now' - 1 <= Reached(k)' /\ Reached(k)' <= now'
          OBVIOUS
        <5>2. Reached(k)' = now' \/ (Reached(k)' = now' - 1 /\ now' >= 1)
          BY <5>1 DEF Reached
        <5> QED
          BY <5>1, <5>2
      <4> QED
        BY <2>3, <4>1
    <3>2. g = 0 => h = now
      <4>1. tick' = "cascade" => lev' = lev + 1
        BY DEF MoveOn, Cascade
      <4>2. tick' \in {"done", "cascade"}
        BY <1>2 DEF MoveOn
      <4>3. Reached(0)' = now
        BY <1>2, <4>1, <4>2 DEF Reached
      <4> QED
        BY <4>3
    <3> QED
      BY <1>2, <3>1, <3>2
  <2>9. Start(t) = IF expires[t] > since[t] THEN expires[t] ELSE since[t]
    BY DEF Start
  <2>10. PICK n \in Nat \ {0} :
               /\ (n - 1) % TVN_SIZE = Slot(d)
               /\ h < Span[g] * n /\ Span[g] * n <= h + Span[g + 1]
               /\ g = 0 => n <= Start(t) + c + 1
               /\ g > 0 => Span[g] * n <= expires[t] + (Span[g + 1] - Span[g])
               /\ g = 0 /\ now % TVN_SIZE = 0 /\ now <= Start(t) => n = Start(t) + 1
               /\ g > 0 /\ now % Span[g + 1] = 0 =>
                    expires[t] - Span[g] < Span[g] * n /\ Span[g] * n <= expires[t]
    <3> HIDE DEF h
    <3> DEFINE b == Start(t)
               s0 == since[t]
    <3>1. b = IF expires[t] > s0 THEN expires[t] ELSE s0
      BY <2>9
    <3>2. s0 \in Nat /\ s0 <= now
      BY <2>1
    <3>3. now <= expires[t] + (Span[e + 1] - Span[e])
      BY <2>7
    <3>4. g = GetLevel(Delta(t)) /\ e \in Levels
      BY <2>0, <2>1
    <3> HIDE DEF e, b, s0
    <3>5. \E m1 \in Nat \ {0} :
            /\ (m1 - 1) % TVN_SIZE = Slot(Delta(t))
            /\ h < Span[g] * m1 /\ Span[g] * m1 <= h + Span[g + 1]
            /\ g = 0 => m1 <= b + (Span[e + 1] - Span[e]) + 1
            /\ g > 0 => Span[g] * m1 <= expires[t] + (Span[g + 1] - Span[g])
            /\ g = 0 /\ now % TVN_SIZE = 0 /\ now <= b => m1 = b + 1
            /\ g > 0 /\ now % Span[g + 1] = 0 =>
                 expires[t] - Span[g] < Span[g] * m1 /\ Span[g] * m1 <= expires[t]
      BY <1>1, <1>4, <2>5, <2>6, <2>8, <3>1, <3>2, <3>3, <3>4, Placed
    <3> QED
      BY <2>0, <3>5 DEF b
  <2>11. Aligned(t) => now <= Start(t)
    <3> HIDE DEF x
    <3> QED
      BY <1>1, <2>1, <2>2
  <2>12. Aligned(t) /\ g > 0 => now % Span[g + 1] = 0
    <3> SUFFICES ASSUME Aligned(t), g > 0 PROVE now % Span[g + 1] = 0
      OBVIOUS
    <3>1. x = now
      <4>1. (m - 1) % TVN_SIZE = ((now - 1) \div u) % TVN_SIZE
        <5>1. idx[lev] = ((now - 1) \div u) % TVN_SIZE
          BY <1>1, <1>2, <1>12, DigitsShown
        <5> QED
          BY <1>15, <5>1 DEF ix
      <4>2. u * m <= (now - 1) + TVN_SIZE * u /\ now - 1 < u * m
        BY <2>1, <2>2
      <4>3. u \in Nat /\ u > 0 /\ now % u = 0 /\ TVN_SIZE \in Nat /\ TVN_SIZE > 0 /\ now >= 1
        BY <1>2, <2>1
      <4> HIDE DEF u, x
      <4>4. /\ u * m = now => (m - 1) % TVN_SIZE = ((now - 1) \div u) % TVN_SIZE
            /\ now - 1 < u * m /\ u * m <= (now - 1) + TVN_SIZE * u
               /\ (m - 1) % TVN_SIZE = ((now - 1) \div u) % TVN_SIZE => u * m = now
        BY <1>1, <4>3, ThisTurn
      <4> QED
        BY <4>1, <4>2, <4>4 DEF x
    <3>2. d < u
      <4> HIDE DEF x, u
      <4> QED
        BY <1>1, <2>1, <2>2, <2>4, <3>1
    <3>3. lev - 1 \in Levels /\ (lev - 1) + 1 = lev
      BY <1>2, Constants DEF Levels
    <3>4. g <= lev - 1
      <4> QED
        BY <2>0, <2>3, <3>2, <3>3, LevelOf
    <3>5. g + 1 \in 0 .. lev
      BY <1>2, <2>3, <3>4, Constants
    <3> QED
      BY <1>1, <1>2, <3>5, SpanPart
  <2>13. t \in ToSet(tv'[g][Slot(d)])
    <3>1. t \in ToSet(L)
      BY <1>13, <1>15 DEF L
    <3>2. t \in ToSet(Among(L, GoingTo(g, Slot(d))))
      BY <1>7, <2>3, <3>1, AmongSet DEF L
    <3> QED
      BY <1>11, <2>3, <3>2
  <2>14. /\ Start(t)' = Start(t) /\ Aligned(t)' = Aligned(t)
         /\ expires'[t] = expires[t] /\ entry'[t] = e
    BY <1>2 DEF Start, Aligned
  <2> HIDE DEF x, u, v, h
  <2>15. Waits(t, g, n)'
    <3>1. t \in ToSet(tv'[g][(n - 1) % TVN_SIZE])
      BY <2>10, <2>13
    <3>2. g = 0 => n <= Start(t)' + (Span[entry'[t] + 1] - Span[entry'[t]]) + 1
      BY <2>10, <2>14
    <3>3. Aligned(t)' /\ g = 0 => n = Start(t)' + 1
      BY <2>6, <2>10, <2>11, <2>14
    <3>4. Aligned(t)' /\ g > 0 =>
            expires'[t] - Span[g] < Span[g] * n /\ Span[g] * n <= expires'[t]
      BY <2>10, <2>12, <2>14
    <3>5. g > 0 => Span[g] * n <= expires'[t] + (Span[g + 1] - Span[g])
      BY <2>10, <2>14
    <3>6. Reached(g)' < Span[g] * n /\ Span[g] * n <= Reached(g)' + Span[g + 1] /\ g <= entry'[t]
      BY <2>5, <2>10, <2>14 DEF h
    <3> QED
      BY <3>1, <3>2, <3>3, <3>4, <3>5, <3>6 DEF Waits
  <2> QED
    BY <2>3, <2>15
<1> QED
  BY <1>14, <1>15

(* Moving the index of the lowest level on passes nobody who waits.       *)
LEMMA AdvanceKeepsWaiting ==
  ASSUME ClockInv, ClockInv', LatenessInv, Advance, NEW t \in Timers, Pending(t)'
  PROVE  \E l \in Levels, m \in Nat \ {0} : Waits(t, l, m)'
<1>1. /\ tick = "fire" /\ MoveOn(0) /\ now' = now /\ tv' = tv /\ 0 \in Levels
      /\ UNCHANGED <<expires, active, since, entry, adds>> /\ now \in Nat /\ now >= 1
  BY Constants DEF Advance, timer, history, ClockInv, TickSound, TypeOK
<1>2. now % Span[0] = 0
  BY <1>1, AtSpanOne
<1>3. \A k \in Levels : /\ Shown(k) = IF k < 0 THEN now ELSE now - 1
                        /\ Reached(k) = IF k < 0 \/ k = 0 THEN now ELSE now - 1
  BY <1>1, Constants DEF Shown, Reached
<1>4. PICK l \in Levels, m \in Nat \ {0} : Waits(t, l, m)
  BY <1>1 DEF LatenessInv, Waiting, Pending
<1>5. t \in ToSet(tv'[l][(m - 1) % TVN_SIZE])
  BY <1>1, <1>4 DEF Waits
<1>6. Waits(t, l, m)'
  BY <1>1, <1>2, <1>3, <1>4, <1>5, MovesOnWaiting
<1> QED
  BY <1>6

(* What was waiting still waits when the callers do something else.        *)
LEMMA OthersWait ==
  ASSUME NEW t \in Timers, NEW l \in Levels, NEW m \in Nat \ {0}, Waits(t, l, m),
         UNCHANGED <<now, tick, lev>>, expires'[t] = expires[t], since'[t] = since[t],
         entry'[t] = entry[t], t \in ToSet(tv'[l][(m - 1) % TVN_SIZE])
  PROVE  Waits(t, l, m)'
<1>1. Reached(l)' = Reached(l) /\ Start(t)' = Start(t) /\ Aligned(t)' = Aligned(t)
  BY DEF Reached, Start, Aligned
<1> QED
  BY <1>1 DEF Waits

(* A timer that is added is put where it waits, and no other is moved.     *)
LEMMA AddKeepsWaiting ==
  ASSUME ClockInv, ClockInv', TimersInv, LatenessInv, NEW x \in Timers, AddTimer(x),
         NEW t \in Timers, Pending(t)'
  PROVE  \E l \in Levels, m \in Nat \ {0} : Waits(t, l, m)'
<1>1. TypeOK /\ TypeOK' /\ TickSound /\ now \in Nat /\ adds \in [Timers -> Nat]
      /\ since \in [Timers -> Nat] /\ entry \in [Timers -> Levels]
  BY DEF ClockInv, TypeOK
<1>2. /\ Calling /\ Accepted(x) /\ tv' = AddAll(tv, <<x>>)
      /\ adds' = [adds EXCEPT ![x] = @ + 1]
      /\ UNCHANGED <<now, tick, lev, expires, active>>
      /\ IF adds[x] = 0
         THEN /\ since' = [since EXCEPT ![x] = now]
              /\ entry' = [entry EXCEPT ![x] = GetLevel(Delta(x))]
         ELSE UNCHANGED <<since, entry>>
  BY DEF AddTimer, clock, ticking, timer
<1>3. /\ \A a \in Levels, b \in Slots : \A z \in ToSet(tv[a][b]) : z \in ToSet(tv'[a][b])
      /\ x \in ToSet(tv'[GetLevel(Delta(x))][Slot(Delta(x))])
  <2>1. tv \in Wheels
    BY <1>1, EntriesNow
  <2> QED
    BY <1>1, <1>2, <2>1, AddPlaces
<1>4. ASSUME Pending(t), expires'[t] = expires[t], since'[t] = since[t], entry'[t] = entry[t]
      PROVE  \E l \in Levels, m \in Nat \ {0} : Waits(t, l, m)'
  <2>1. PICK l \in Levels, m \in Nat \ {0} : Waits(t, l, m)
    BY <1>4 DEF LatenessInv, Waiting
  <2>2. (m - 1) % TVN_SIZE \in Slots
    <3>1. m - 1 \in Nat
      OBVIOUS
    <3> QED
      BY <3>1, Constants
  <2> DEFINE b == (m - 1) % TVN_SIZE
  <2>3. t \in ToSet(tv[l][b])
    BY <2>1 DEF Waits
  <2> HIDE DEF b
  <2>4. t \in ToSet(tv'[l][b])
    BY <1>3, <2>2, <2>3 DEF b
  <2>5. t \in ToSet(tv'[l][(m - 1) % TVN_SIZE])
    BY <2>4 DEF b
  <2>6. Waits(t, l, m)'
    BY <1>2, <1>4, <2>1, <2>5, OthersWait
  <2> QED
    BY <2>6
<1>5. CASE t # x
  BY <1>1, <1>2, <1>4, <1>5 DEF Pending
<1>6. CASE t = x /\ adds[x] > 0
  BY <1>1, <1>2, <1>4, <1>6 DEF Pending, Accepted
<1>7. CASE t = x /\ adds[x] = 0
  <2>1. PICK d, g : d = Delta(t) /\ g = GetLevel(d)
    OBVIOUS
  <2>2. d \in Nat /\ g \in Levels /\ Slot(d) \in Slots
    <3>0. expires[t] \in Nat
      BY <1>1 DEF TypeOK
    <3>1. Delta(t) \in Nat
      BY <1>1, <3>0 DEF Delta
    <3>2. g \in Levels
      BY <2>1, <3>1, LevelOf
    <3> QED
      BY <1>1, <1>2, <1>7, <2>1, <3>1, <3>2, Constants, Home
  <2>3. PICK h \in Nat : h = Reached(g)
    BY <2>2, ReachedIs
  <2>4. now - 1 <= h /\ h <= now /\ (g = 0 => h = now)
    <3>1. tick # "cascade"
      BY <1>1, <1>2 DEF Calling, TickSound
    <3> QED
      BY <2>2, <2>3, <3>1, ReachedIs
  <2>5. PICK b : b = IF expires[t] > now THEN expires[t] ELSE now
    OBVIOUS
  <2>6. /\ expires'[t] = expires[t] /\ since'[t] = now /\ entry'[t] = g
        /\ expires[t] \in Nat /\ b \in Nat /\ now <= b
    BY <1>1, <1>2, <1>7, <2>1, <2>5 DEF TypeOK
  <2>7. PICK m \in Nat \ {0} :
           /\ (m - 1) % TVN_SIZE = Slot(Delta(t))
           /\ h < Span[g] * m /\ Span[g] * m <= h + Span[g + 1]
           /\ g = 0 => m <= b + (Span[g + 1] - Span[g]) + 1
           /\ g > 0 => Span[g] * m <= expires[t] + (Span[g + 1] - Span[g])
           /\ g = 0 /\ now % TVN_SIZE = 0 /\ now <= b => m = b + 1
           /\ g > 0 /\ now % Span[g + 1] = 0 =>
                expires[t] - Span[g] < Span[g] * m /\ Span[g] * m <= expires[t]
    <3>1. g <= g /\ g = GetLevel(Delta(t))
      BY <2>1, <2>2, Constants
    <3> QED
      <4>1. /\ TypeOK /\ t \in Timers /\ Accepted(t) /\ h \in Nat /\ g \in Levels /\ now \in Nat
            /\ h >= now - 1 /\ h <= now /\ (g = 0 => h = now)
        BY <1>1, <1>2, <1>7, <2>2, <2>3, <2>4
      <4> QED
        BY ONLY <2>4, <2>5, <3>1, <4>1, Placed
  <2>8. Reached(g)' = h /\ Start(t)' = b
    BY <1>2, <2>3, <2>5, <2>6 DEF Reached, Start
  <2>9. Aligned(t)' <=> now % Span[g + 1] = 0
    BY <2>6 DEF Aligned
  <2>10. g = 0 => Span[g + 1] = TVN_SIZE
    <3>1. Span[0 + 1] = TVN_SIZE * Span[0] /\ Span[0] = 1
      BY SpanNext, SpanDef, Constants
    <3> QED
      BY <3>1, Constants
  <2>11. t \in ToSet(tv'[g][(m - 1) % TVN_SIZE])
    BY <1>3, <1>7, <2>1, <2>7
  <2>12. Waits(t, g, m)'
    <3>1. /\ Reached(g)' < Span[g] * m /\ Span[g] * m <= Reached(g)' + Span[g + 1]
          /\ g <= entry'[t]
      BY <2>2, <2>6, <2>7, <2>8, Constants
    <3>2. g = 0 => m <= Start(t)' + (Span[entry'[t] + 1] - Span[entry'[t]]) + 1
      BY <2>6, <2>7, <2>8
    <3>3. g > 0 => Span[g] * m <= expires'[t] + (Span[g + 1] - Span[g])
      BY <2>6, <2>7
    <3>4. Aligned(t)' /\ g = 0 => m = Start(t)' + 1
      BY <2>6, <2>7, <2>8, <2>9, <2>10
    <3>5. Aligned(t)' /\ g > 0 =>
            expires'[t] - Span[g] < Span[g] * m /\ Span[g] * m <= expires'[t]
      BY <2>6, <2>7, <2>9
    <3> QED
      BY <2>11, <3>1, <3>2, <3>3, <3>4, <3>5 DEF Waits
  <2> QED
    BY <2>2, <2>12
<1> QED
  BY <1>1, <1>5, <1>6, <1>7

(* Every step keeps the waiting timers in slots that are still to come.   *)
LEMMA WaitingStep ==
  ASSUME ClockInv, ClockInv', TimersInv, LatenessInv, [Next]_vars
  PROVE  Waiting'
<1> SUFFICES ASSUME NEW t \in Timers, Pending(t)'
             PROVE  \E l \in Levels, m \in Nat \ {0} : Waits(t, l, m)'
  BY DEF Waiting
<1>1. CASE Scan
  BY <1>1, ScanKeepsWaiting
<1>2. CASE Fire \/ UNCHANGED vars
  <2>1. UNCHANGED <<now, tv, tick, lev, expires, active, since, entry, adds>>
    BY <1>2 DEF Fire, vars, clock, ticking, timer, history
  <2>2. PICK l \in Levels, m \in Nat \ {0} : Waits(t, l, m)
    BY <2>1 DEF LatenessInv, Waiting, Pending
  <2>3. t \in ToSet(tv'[l][(m - 1) % TVN_SIZE])
    BY <2>1, <2>2 DEF Waits
  <2>4. Waits(t, l, m)'
    BY <2>1, <2>2, <2>3, OthersWait
  <2> QED
    BY <2>4
<1>3. CASE Advance
  BY <1>3, AdvanceKeepsWaiting
<1>4. CASE Cascade
  BY <1>4, CascadeKeepsWaiting
<1>5. ASSUME NEW x \in Timers, New(x)
      PROVE  \E l \in Levels, m \in Nat \ {0} : Waits(t, l, m)'
  <2>1. TypeOK
    BY DEF ClockInv
  <2>2. /\ adds' = [adds EXCEPT ![x] = 0] /\ active' = [active EXCEPT ![x] = TRUE]
        /\ since' = [since EXCEPT ![x] = 0] /\ entry' = [entry EXCEPT ![x] = 0]
        /\ \E d \in Deltas : expires' = [expires EXCEPT ![x] = now + d]
        /\ UNCHANGED <<now, tv, tick, lev>>
    BY <1>5 DEF New, clock, ticking
  <2>3. t # x
    BY <2>1, <2>2 DEF Pending, TypeOK
  <2>4. /\ expires'[t] = expires[t] /\ since'[t] = since[t] /\ entry'[t] = entry[t]
        /\ Pending(t)
    BY <2>1, <2>2, <2>3 DEF Pending, TypeOK
  <2>5. PICK l \in Levels, m \in Nat \ {0} : Waits(t, l, m)
    BY <2>4 DEF LatenessInv, Waiting
  <2>6. t \in ToSet(tv'[l][(m - 1) % TVN_SIZE])
    BY <2>2, <2>5 DEF Waits
  <2>7. Waits(t, l, m)'
    BY <2>2, <2>4, <2>5, <2>6, OthersWait
  <2> QED
    BY <2>7
<1>6. ASSUME NEW x \in Timers, AddTimer(x)
      PROVE  \E l \in Levels, m \in Nat \ {0} : Waits(t, l, m)'
  BY <1>6, AddKeepsWaiting
<1> QED
  BY <1>1, <1>2, <1>3, <1>4, <1>5, <1>6 DEF Next, Ticking

(* Every step keeps the promise about those that expired.                 *)
LEMMA PromptStep ==
  ASSUME ClockInv, ClockInv', TimersInv, LatenessInv, [Next]_vars
  PROVE  Prompt'
<1>1. /\ TypeOK /\ TickSound /\ Prompt /\ ExpiredSound /\ Counted /\ now \in Nat
      /\ expired \in Seq(Timers) /\ expired' \in Seq(Timers)
  BY DEF ClockInv, LatenessInv, TimersInv, TypeOK
<1>0. (\A i \in 1 .. Len(expired') : \A t \in Timers :
         t = expired'[i] /\ Aligned(t)' => now' <= Start(t)' + 1) => Prompt'
  <2>1. \A i \in 1 .. Len(expired') : expired'[i] \in Timers
    BY <1>1
  <2> QED
    BY <2>1 DEF Prompt, Aligned, Start
<1>2. CASE Scan
  <2>1. /\ now' = now + 1 /\ tick = "done" /\ UNCHANGED <<expires, since, entry>>
    BY <1>2 DEF Scan, history
  <2> SUFFICES ASSUME NEW i \in 1 .. Len(expired'), NEW t \in Timers, t = expired'[i],
                      Aligned(t)'
               PROVE  now' <= Start(t)' + 1
    BY <1>0
  <2>3. /\ t \in ToSet(tv[0][idx[0]]) /\ active[t] /\ 0 \in Levels /\ idx[0] \in Slots
    BY <1>1, <1>2, ScanTakes DEF Due
  <2>4. Pending(t)
    BY <1>1, <2>3, InWheelAdded DEF Pending
  <2>6. Aligned(t) /\ Start(t)' = Start(t)
    BY <2>1 DEF Aligned, Start
  <2>7. now <= Start(t)
    BY <2>1, <2>4, <2>6, WaitingBound
  <2>10. Start(t) \in Nat
    BY <1>1, <2>3, WaitsFacts
  <2> QED
    BY <1>1, <2>1, <2>6, <2>7, <2>10
<1>3. ASSUME UNCHANGED now,
             \A i \in 1 .. Len(expired') : \E j \in 1 .. Len(expired) :
               /\ expired'[i] = expired[j]
               /\ expires'[expired[j]] = expires[expired[j]]
               /\ since'[expired[j]] = since[expired[j]]
               /\ entry'[expired[j]] = entry[expired[j]]
      PROVE  Prompt'
  <2> SUFFICES ASSUME NEW i \in 1 .. Len(expired'), NEW t \in Timers, t = expired'[i],
                      Aligned(t)'
               PROVE  now' <= Start(t)' + 1
    BY <1>0
  <2>1. PICK j \in 1 .. Len(expired) :
               /\ expired'[i] = expired[j]
               /\ expires'[expired[j]] = expires[expired[j]]
               /\ since'[expired[j]] = since[expired[j]]
               /\ entry'[expired[j]] = entry[expired[j]]
    BY <1>3
  <2>2. Aligned(t) /\ Start(t)' = Start(t) /\ t = expired[j]
    BY <2>1 DEF Aligned, Start
  <2>3. now <= Start(t) + 1
    BY <1>1, <2>2 DEF Prompt
  <2> QED
    BY <1>3, <2>2, <2>3
<1>4. CASE Fire
  <2>1. /\ expired' = Tail(expired) /\ expired # <<>>
        /\ UNCHANGED <<now, expires, since, entry>>
    BY <1>4 DEF Fire, clock, timer
  <2>2. \A i \in 1 .. Len(expired') :
          i + 1 \in 1 .. Len(expired) /\ expired'[i] = expired[i + 1]
    BY <1>1, <2>1
  <2> QED
    BY <1>3, <2>1, <2>2
<1>5. CASE Advance \/ Cascade
  BY <1>3, <1>5 DEF Advance, Cascade, timer, history
<1>6. ASSUME NEW x \in Timers, New(x) \/ AddTimer(x) PROVE Prompt'
  <2>1. /\ UNCHANGED <<now, expired>> /\ DOMAIN expired = 1 .. Len(expired)
        /\ x \notin ToSet(expired)
    <3>1. CASE New(x)
      BY <1>1, <3>1 DEF New, clock, ticking
    <3>2. CASE AddTimer(x)
      <4>1. active[x]
        BY <3>2 DEF AddTimer, Accepted
      <4>2. \A i \in 1 .. Len(expired) : expired[i] # x
        BY <1>1, <4>1 DEF ExpiredSound
      <4> QED
        BY <1>1, <3>2, <4>2 DEF AddTimer, clock, ticking, ToSet
    <3> QED
      BY <1>6, <3>1, <3>2
  <2>2. \A i \in 1 .. Len(expired) : expired[i] # x /\ expired[i] \in Timers
    BY <1>1, <2>1 DEF ToSet
  <2>3. \A t \in Timers : t # x =>
          expires'[t] = expires[t] /\ since'[t] = since[t] /\ entry'[t] = entry[t]
    BY <1>1, <1>6 DEF New, AddTimer, TypeOK, timer
  <2> QED
    BY <1>3, <2>1, <2>2, <2>3
<1>7. CASE UNCHANGED vars
  BY <1>3, <1>7 DEF vars, clock, ticking, timer, history
<1> QED
  BY <1>2, <1>4, <1>5, <1>6, <1>7 DEF Next, Ticking

LEMMA LatenessIsSound == Spec => [](ClockInv /\ TimersInv /\ LatenessInv)
<1>1. Init => ClockInv /\ TimersInv /\ LatenessInv
  BY ClockInit, TimersInit, LatenessInit
<1>2. (ClockInv /\ TimersInv /\ LatenessInv) /\ [Next]_vars
        => (ClockInv /\ TimersInv /\ LatenessInv)'
  BY ClockStep, TimersStep, WaitingStep, PromptStep DEF LatenessInv
<1> QED
  BY <1>1, <1>2, PTL DEF Spec

(* A timer that has not fired is late by less than a rotation of the level *)
(* it was put into, whatever the slots it was passed over in.              *)
THEOREM LatenessIsBounded == Spec => []NeverOverdue
<1>1. ClockInv /\ TimersInv /\ LatenessInv => NeverOverdue
  BY WaitingBound DEF NeverOverdue
<1> QED
  BY <1>1, LatenessIsSound, PTL

(* A timer added when its level and those below begin a rotation fires at  *)
(* most one tick late.                                                     *)
THEOREM AlignedTimersArePrompt == Spec => AlignedIsPrompt
<1>1. ClockInv /\ TimersInv /\ LatenessInv /\ [Next]_vars =>
        [\A t \in Timers :
           fired'[t] > fired[t] /\ since[t] % Span[entry[t] + 1] = 0 => LateBy(t) <= 1]_vars
  <2> SUFFICES ASSUME ClockInv, LatenessInv, Next, NEW t \in Timers, fired'[t] > fired[t],
                      since[t] % Span[entry[t] + 1] = 0
               PROVE  LateBy(t) <= 1
    BY DEF Next
  <2>1. fired \in [Timers -> Nat] /\ expired \in Seq(Timers) /\ TypeOK /\ now \in Nat
    BY DEF ClockInv, TypeOK
  <2>2. ~Scan /\ ~Advance /\ ~Cascade
    BY <2>1 DEF Scan, Advance, Cascade, history
  <2>3. ASSUME NEW x \in Timers, New(x) \/ AddTimer(x) PROVE FALSE
    <3>1. fired' = fired \/ fired' = [fired EXCEPT ![x] = 0]
      BY <2>3 DEF New, AddTimer
    <3> QED
      BY <2>1, <3>1
  <2>4. Fire
    BY <2>2, <2>3 DEF Next, Ticking
  <2>5. t = Head(expired) /\ expired # <<>>
    BY <2>1, <2>4 DEF Fire
  <2>6. 1 \in 1 .. Len(expired) /\ t = expired[1]
    BY <2>1, <2>5
  <2>7. now <= Start(t) + 1
    BY <2>6 DEF LatenessInv, Prompt, Aligned
  <2>8. Start(t) \in Nat /\ LateBy(t) = now - Start(t)
    BY <2>1, Constants, WaitsFacts DEF LateBy, Start
  <2> QED
    BY <2>1, <2>7, <2>8
<1> QED
  BY <1>1, LatenessIsSound, PTL DEF Spec, AlignedIsPrompt
=============================================================================
