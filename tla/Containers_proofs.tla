-------------------------- MODULE Containers_proofs --------------------------
(***************************************************************************)
(* Proofs about the containers.  A behaviour of MCContainers is one of a   *)
(* single subject, so an invariant of each subject is inductive by itself. *)
(* The fair queue, a container with a module of runs of its own, is at the *)
(* end.                                                                    *)
(***************************************************************************)
EXTENDS MCContainers, MCFairQueue, FiniteSetTheorems, SequenceTheorems,
        WellFoundedInduction, TLAPS

(* A set of naturals has a least element, which is what induction is.      *)
LEMMA Least ==
  ASSUME NEW T \in SUBSET Nat, T # {}
  PROVE  \E x \in T : \A y \in T : x <= y
<1> DEFINE R == {ss \in Nat \X Nat : ss[1] < ss[2]}
<1>1. IsWellFoundedOn(R, Nat)
  BY NatLessThanWellFounded DEF OpToRel
<1> HIDE DEF R
<1>2. PICK x \in T : \A y \in T : ~ (<<y, x>> \in R)
  BY <1>1, WFMin
<1>3. \A y \in T : ~(y < x)
  BY <1>2 DEF R
<1> QED
  BY <1>3

(* A set of naturals that has 0 and every successor has them all.         *)
LEMMA Induction ==
  ASSUME NEW S \in SUBSET Nat, 0 \in S, \A n \in S : n + 1 \in S
  PROVE  S = Nat
<1> SUFFICES ASSUME Nat \ S # {} PROVE FALSE
  OBVIOUS
<1>1. PICK x \in Nat \ S : \A y \in Nat \ S : x <= y
  BY Least
<1>2. x # 0 /\ x - 1 \in Nat
  BY <1>1
<1>3. x - 1 \in S
  BY <1>1, <1>2
<1>4. (x - 1) + 1 = x
  BY <1>1
<1> QED
  BY <1>3, <1>4, <1>1

(* What is defined by recursion on the naturals exists: the functions on   *)
(* the first numbers, each of them unique, agree where they overlap.       *)
Follows(f, a, G, n) == f[0] = a /\ \A i \in 1 .. n : f[i] = G[<<i, f[i - 1]>>]

Recurs(f, a, G) == f[0] = a /\ \A n \in Nat : f[n + 1] = G[<<n + 1, f[n]>>]

(* A function given by recursion on 0 .. n can be continued to n + 1.     *)
LEMMA Extend ==
  ASSUME NEW S, NEW a \in S, NEW G \in [Nat \X S -> S],
         NEW n \in Nat, NEW f \in [0 .. n -> S], Follows(f, a, G, n)
  PROVE  \E g \in [0 .. n + 1 -> S] : Follows(g, a, G, n + 1)
<1> DEFINE last == G[<<n + 1, f[n]>>]
           g == [i \in 0 .. n + 1 |-> IF i = n + 1 THEN last ELSE f[i]]
<1>1. n \in 0 .. n /\ n + 1 \in Nat
  OBVIOUS
<1>2. last \in S
  <2>1. f[n] \in S
    BY <1>1
  <2> QED
    BY <1>1, <2>1
<1> HIDE DEF last
<1>3. g \in [0 .. n + 1 -> S]
  <2>1. ASSUME NEW i \in 0 .. n + 1, i # n + 1 PROVE f[i] \in S
    <3>1. i \in 0 .. n
      BY <2>1
    <3> QED
      BY <3>1
  <2> QED
    BY <1>2, <2>1
<1>4. g[n + 1] = last /\ \A i \in 0 .. n : g[i] = f[i]
  OBVIOUS
<1> HIDE DEF g
<1>5. g[0] = a
  <2>1. 0 \in 0 .. n
    OBVIOUS
  <2> QED
    BY <1>4, <2>1 DEF Follows
<1>6. ASSUME NEW i \in 1 .. n + 1 PROVE g[i] = G[<<i, g[i - 1]>>]
  <2>1. CASE i = n + 1
    <3>1. i - 1 = n
      BY <2>1
    <3>2. g[i] = last /\ g[i - 1] = f[n]
      BY <1>1, <1>4, <2>1, <3>1
    <3> QED
      BY <2>1, <3>2 DEF last
  <2>2. CASE i # n + 1
    <3>1. i \in 1 .. n /\ i \in 0 .. n /\ i - 1 \in 0 .. n
      BY <2>2
    <3>2. f[i] = G[<<i, f[i - 1]>>]
      BY <3>1 DEF Follows
    <3> QED
      BY <1>4, <3>1, <3>2
  <2> QED
    BY <2>1, <2>2
<1> QED
  BY <1>3, <1>5, <1>6 DEF Follows

(* There is a function on the naturals that begins with a and follows G.  *)
LEMMA Recursion ==
  ASSUME NEW S, NEW a \in S, NEW G \in [Nat \X S -> S]
  PROVE  \E f \in [Nat -> S] : Recurs(f, a, G)
<1> DEFINE Good(n, g) == g \in [0 .. n -> S] /\ Follows(g, a, G, n)
           A == {n \in Nat : \E g : Good(n, g)}
           first(n) == CHOOSE g : Good(n, g)
           f == [n \in Nat |-> first(n)[n]]
<1>1. \E g : Good(0, g)
  <2>1. PICK g : g = [i \in 0 .. 0 |-> a]
    OBVIOUS
  <2>2. g \in [0 .. 0 -> S] /\ g[0] = a
    BY <2>1
  <2> QED
    BY <2>2 DEF Follows
<1>2. ASSUME NEW n \in Nat, NEW g, Good(n, g) PROVE \E h : Good(n + 1, h)
  BY <1>2, Extend
<1>3. A = Nat
  <2> HIDE DEF Good
  <2>1. A \in SUBSET Nat
    OBVIOUS
  <2>2. 0 \in A /\ \A n \in A : n + 1 \in A
    BY <1>1, <1>2
  <2> HIDE DEF A
  <2> QED
    BY <2>1, <2>2, Induction
<1>4. \A n \in Nat : Good(n, first(n))
  <2> HIDE DEF Good
  <2> QED
    BY <1>3
<1> HIDE DEF first, A
(* Two of them agree where both are defined.                               *)
<1>5. ASSUME NEW n \in Nat, NEW g, Good(n, g), NEW h, Good(n + 1, h)
      PROVE  \A i \in 0 .. n : g[i] = h[i]
  <2> DEFINE B == {i \in Nat : i <= n => g[i] = h[i]}
  <2>1. 0 \in B
    BY <1>5 DEF Follows
  <2>2. ASSUME NEW i \in B PROVE i + 1 \in B
    <3>1. i \in Nat /\ i + 1 \in Nat
      OBVIOUS
    <3>2. ASSUME i + 1 <= n PROVE g[i + 1] = h[i + 1]
      <4>1. i + 1 \in 1 .. n /\ i + 1 \in 1 .. n + 1 /\ (i + 1) - 1 = i
        BY <3>1, <3>2
      <4>2. g[i] = h[i]
        BY <3>1, <3>2
      <4>3. g[i + 1] = G[<<i + 1, g[i]>>]
        BY <1>5, <4>1 DEF Follows
      <4>4. h[i + 1] = G[<<i + 1, h[i]>>]
        BY <1>5, <4>1 DEF Follows
      <4> QED
        BY <4>2, <4>3, <4>4
    <3> QED
      BY <3>1, <3>2
  <2> HIDE DEF B
  <2>3. B = Nat
    <3>1. B \in SUBSET Nat
      BY DEF B
    <3> QED
      BY <2>1, <2>2, <3>1, Induction
  <2> QED
    BY <2>3 DEF B
<1>6. f \in [Nat -> S]
  <2>1. ASSUME NEW n \in Nat PROVE first(n)[n] \in S
    <3>1. n \in 0 .. n
      OBVIOUS
    <3> QED
      BY <1>4, <3>1
  <2> QED
    BY <2>1
<1>7. f[0] = a
  BY <1>4 DEF Follows
<1>8. ASSUME NEW n \in Nat PROVE f[n + 1] = G[<<n + 1, f[n]>>]
  <2>1. n + 1 \in Nat /\ n \in 0 .. n /\ n + 1 \in 1 .. n + 1 /\ (n + 1) - 1 = n
    OBVIOUS
  <2>2. PICK g, h : g = first(n) /\ h = first(n + 1)
    OBVIOUS
  <2>3. Good(n, g) /\ Good(n + 1, h)
    BY <1>4, <2>1, <2>2
  <2>4. g[n] = h[n]
    BY <1>5, <2>1, <2>3
  <2>5. h[n + 1] = G[<<n + 1, h[n]>>]
    BY <2>1, <2>3 DEF Follows
  <2>6. f[n] = g[n] /\ f[n + 1] = h[n + 1]
    BY <2>1, <2>2
  <2> QED
    BY <2>4, <2>5, <2>6
<1> QED
  BY <1>6, <1>7, <1>8 DEF Recurs

(* Quotient and remainder, and that there is no other pair of them.       *)
LEMMA DivMod ==
  ASSUME NEW a \in Int, NEW b \in Int, b > 0
  PROVE  /\ a \div b \in Int /\ a % b \in Int /\ 0 <= a % b /\ a % b < b
         /\ a = b * (a \div b) + (a % b)
OBVIOUS

(* Only the quotient and the remainder divide like that.                  *)
LEMMA DivModUnique ==
  ASSUME NEW a \in Int, NEW b \in Int, b > 0,
         NEW q \in Int, NEW r \in Int, 0 <= r, r < b, a = b * q + r
  PROVE  q = a \div b /\ r = a % b
<1> DEFINE d == a \div b
           e == a % b
<1>1. d \in Int /\ e \in Int /\ 0 <= e /\ e < b /\ a = b * d + e
  BY DivMod
<1> HIDE DEF d, e
<1>2. d \in Int
  BY <1>1
<1>3. b * (q - d) = e - r
  BY <1>1
<1>4. q - d < 1
  BY <1>1, <1>3
<1>5. q - d > -1
  BY <1>1, <1>3
<1>6. q = d
  BY ONLY <1>2, <1>4, <1>5, q \in Int
<1>7. r = e
  BY <1>1, <1>6
<1> QED
  BY <1>6, <1>7 DEF d, e

(* Dividing twice is dividing by the product.                             *)
LEMMA DivDiv ==
  ASSUME NEW n \in Nat, NEW u \in Nat, u > 0, NEW b \in Nat, b > 0
  PROVE  n \div (u * b) = (n \div u) \div b
<1> DEFINE q == n \div u
           r == n % u
           p == q \div b
           s == q % b
           w == u * b
           x == u * s + r
<1>1. q \in Int /\ r \in Int /\ 0 <= r /\ r < u /\ n = u * q + r
  BY DivMod
<1> HIDE DEF q, r
<1>2. p \in Int /\ s \in Int /\ 0 <= s /\ s < b /\ q = b * p + s
  BY <1>1, DivMod
<1> HIDE DEF p, s
<1>3. w \in Int /\ w > 0
  OBVIOUS
<1>4. x \in Int /\ 0 <= x /\ x < w
  <2>1. u * s \in Int /\ 0 <= u * s
    BY <1>2
  <2>2. u * (b - s) >= u
    BY <1>2
  <2>3. u * (b - s) = u * b - u * s
    BY <1>2
  <2> QED
    BY <1>1, <2>1, <2>2, <2>3
<1>5. n = w * p + x
  <2>1. n = u * (b * p + s) + r
    BY <1>1, <1>2
  <2>2. u * (b * p + s) = (u * b) * p + u * s
    BY <1>2
  <2>3. (u * b) * p \in Int /\ u * s \in Int
    BY <1>2
  <2> QED
    BY <1>1, <2>1, <2>2, <2>3
<1> HIDE DEF w, x
<1>6. p = n \div w
  BY <1>2, <1>3, <1>4, <1>5, DivModUnique
<1> QED
  BY <1>6 DEF w, p, q

(* A quotient of naturals is one and no larger.                           *)
LEMMA PlaceNat ==
  ASSUME NEW a \in Nat, NEW b \in Nat, b > 0
  PROVE  a \div b \in Nat /\ a \div b <= a
<1>1. PICK q, r : q = a \div b /\ r = a % b
  OBVIOUS
<1>2. q \in Int /\ r \in Int /\ 0 <= r /\ r < b /\ a = b * q + r
  BY <1>1, DivMod
<1>3. q >= 0
  <2>1. ASSUME q <= -1 PROVE FALSE
    <3>1. b * (-1 - q) >= 0
      BY <1>2, <2>1
    <3>2. b * (-1 - q) = -b - b * q
      BY <1>2
    <3> QED
      BY <1>2, <3>1, <3>2
  <2> QED
    BY <1>2, <2>1
<1>4. q <= a
  <2>1. b * q >= q
    <3>1. (b - 1) * q >= 0
      BY <1>2, <1>3
    <3>2. (b - 1) * q = b * q - q
      BY <1>2
    <3> QED
      BY <1>2, <3>1, <3>2
  <2> QED
    BY <1>2, <2>1
<1> QED
  BY <1>1, <1>2, <1>3, <1>4
-----------------------------------------------------------------------------
(* LruCache                                                                *)

Distinct(s) == \A i, j \in 1 .. Len(s) : s[i] = s[j] => i = j

(* Where what is now at i was before the element at p came to the front.   *)
Before(p, i) == IF i = 1 THEN p ELSE IF i <= p THEN i - 1 ELSE i

(* Taking out the element at p moves those behind it up.                   *)
LEMMA TakenOut ==
  ASSUME NEW S, NEW s \in Seq(S), Distinct(s), NEW p \in 1 .. Len(s)
  PROVE  LET r == Cache!Without(s, s[p])
         IN  /\ r \in Seq(S) /\ Len(r) = Len(s) - 1
             /\ \A i \in 1 .. Len(r) : r[i] = IF i < p THEN s[i] ELSE s[i + 1]
<1>1. Cache!Position(s, s[p]) = p
  BY DEF Cache!Position, Distinct
<1>2. s[p] \in Cache!ToSet(s)
  BY DEF Cache!ToSet
<1>3. Cache!Without(s, s[p]) = SubSeq(s, 1, p - 1) \o SubSeq(s, p + 1, Len(s))
  BY <1>1, <1>2 DEF Cache!Without, Cache!RemoveAt
<1>4. Len(s) \in Nat /\ p \in Nat /\ 1 <= p /\ p <= Len(s)
  OBVIOUS
<1>5. PICK a : a = SubSeq(s, 1, p - 1)
  OBVIOUS
<1>6. PICK b : b = SubSeq(s, p + 1, Len(s))
  OBVIOUS
<1>7. a \in Seq(S) /\ Len(a) = p - 1 /\ \A i \in 1 .. p - 1 : a[i] = s[i]
  BY <1>4, <1>5
<1>8. b \in Seq(S) /\ Len(b) = Len(s) - p /\ \A i \in 1 .. Len(s) - p : b[i] = s[p + i]
  <2>1. b \in Seq(S) /\ Len(b) = Len(s) - p
    BY <1>4, <1>6
  <2>2. ASSUME NEW i \in 1 .. Len(s) - p PROVE b[i] = s[p + i]
    <3>1. b[i] = s[(p + 1) + i - 1]
      BY <1>4, <1>6
    <3>2. (p + 1) + i - 1 = p + i
      BY <1>4
    <3> QED
      BY <3>1, <3>2
  <2> QED
    BY <2>1, <2>2
<1>9. PICK r : r = a \o b
  OBVIOUS
<1>10. /\ r \in Seq(S) /\ Len(r) = Len(s) - 1
       /\ \A i \in 1 .. Len(r) : r[i] = IF i < p THEN s[i] ELSE s[i + 1]
  <2>1. r \in Seq(S) /\ Len(r) = Len(a) + Len(b)
    BY <1>7, <1>8, <1>9, ConcatProperties
  <2>2. Len(r) = Len(s) - 1
    BY <1>4, <1>7, <1>8, <2>1
  <2>3. ASSUME NEW i \in 1 .. Len(r) PROVE r[i] = IF i < p THEN s[i] ELSE s[i + 1]
    <3>1. r[i] = IF i <= Len(a) THEN a[i] ELSE b[i - Len(a)]
      BY <1>7, <1>8, <1>9, <2>1
    <3>2. CASE i < p
      BY <1>4, <1>7, <3>1, <3>2
    <3>3. CASE i >= p
      <4>1. i - Len(a) \in 1 .. Len(s) - p /\ ~(i <= Len(a)) /\ p + (i - Len(a)) = i + 1
        BY <1>4, <1>7, <2>2, <3>3
      <4>2. r[i] = b[i - Len(a)]
        BY <3>1, <4>1
      <4>3. b[i - Len(a)] = s[i + 1]
        BY <1>8, <4>1
      <4> QED
        BY <1>4, <3>3, <4>2, <4>3
    <3> QED
      BY <1>4, <3>2, <3>3
  <2> QED
    BY <2>1, <2>2, <2>3
<1> QED
  BY <1>3, <1>5, <1>6, <1>9, <1>10

(* Nothing is taken out of a list that does not have it.                  *)
LEMMA NothingToTakeOut ==
  ASSUME NEW s, NEW x, \A i \in DOMAIN s : s[i] # x
  PROVE  Cache!Without(s, x) = s
BY DEF Cache!Without, Cache!ToSet

(* An element before a list moves all others back by one place.           *)
LEMMA Preceded ==
  ASSUME NEW S, NEW s \in Seq(S), NEW x \in S
  PROVE  LET t == <<x>> \o s
         IN  /\ t \in Seq(S) /\ Len(t) = Len(s) + 1 /\ t[1] = x
             /\ \A i \in 2 .. Len(t) : t[i] = s[i - 1]
<1>1. <<x>> \in Seq(S) /\ Len(<<x>>) = 1 /\ <<x>>[1] = x
  OBVIOUS
<1>2. PICK e : e = <<x>>
  OBVIOUS
<1>3. PICK t : t = e \o s
  OBVIOUS
<1>4. t \in Seq(S) /\ Len(t) = 1 + Len(s)
  BY <1>1, <1>2, <1>3
<1>5. \A i \in 1 .. Len(t) : t[i] = IF i <= 1 THEN e[i] ELSE s[i - 1]
  BY <1>1, <1>2, <1>3, <1>4
<1> QED
  BY <1>1, <1>2, <1>3, <1>4, <1>5

(* What splice does to a list, place by place.                            *)
LEMMA ComesToFront ==
  ASSUME NEW S, NEW s \in Seq(S), Distinct(s), NEW p \in 1 .. Len(s)
  PROVE  LET t == Cache!ToFront(s, s[p])
         IN  /\ t \in Seq(S) /\ Len(t) = Len(s)
             /\ \A i \in 1 .. Len(s) : t[i] = s[Before(p, i)]
<1>1. PICK r : r = Cache!Without(s, s[p])
  OBVIOUS
<1>2. /\ r \in Seq(S) /\ Len(r) = Len(s) - 1
      /\ \A i \in 1 .. Len(r) : r[i] = IF i < p THEN s[i] ELSE s[i + 1]
  BY <1>1, TakenOut
<1>3. Len(s) \in Nat /\ s[p] \in S
  OBVIOUS
<1>4. PICK t : t = <<s[p]>> \o r
  OBVIOUS
<1>5. /\ t \in Seq(S) /\ Len(t) = Len(r) + 1 /\ t[1] = s[p]
      /\ \A i \in 2 .. Len(t) : t[i] = r[i - 1]
  BY <1>2, <1>3, <1>4, Preceded
<1>6. Len(t) = Len(s)
  BY <1>2, <1>3, <1>5
<1>7. ASSUME NEW i \in 1 .. Len(s) PROVE t[i] = s[Before(p, i)]
  <2>1. CASE i = 1
    BY <1>5, <2>1 DEF Before
  <2>2. CASE i # 1
    <3>1. i \in 2 .. Len(t) /\ i - 1 \in 1 .. Len(r) /\ (i - 1) + 1 = i
      BY <1>2, <1>3, <1>6, <2>2
    <3>2. t[i] = IF i - 1 < p THEN s[i - 1] ELSE s[i]
      BY <1>2, <1>5, <3>1
    <3>3. i - 1 < p <=> i <= p
      BY <1>3
    <3> QED
      BY <2>2, <3>2, <3>3 DEF Before
  <2> QED
    BY <2>1, <2>2
<1> QED
  BY <1>1, <1>4, <1>5, <1>6, <1>7 DEF Cache!ToFront

(* Before is a permutation of the first n places.                          *)
LEMMA BeforePermutes ==
  ASSUME NEW n \in Nat, NEW p \in 1 .. n
  PROVE  /\ \A i \in 1 .. n : Before(p, i) \in 1 .. n
         /\ \A i, j \in 1 .. n : Before(p, i) = Before(p, j) => i = j
         /\ \A j \in 1 .. n : \E i \in 1 .. n : Before(p, i) = j
<1>1. \A i \in 1 .. n : Before(p, i) \in 1 .. n
  BY DEF Before
<1>2. \A i, j \in 1 .. n : Before(p, i) = Before(p, j) => i = j
  BY DEF Before
<1>3. ASSUME NEW j \in 1 .. n PROVE \E i \in 1 .. n : Before(p, i) = j
  <2>1. CASE j = p
    <3>1. 1 \in 1 .. n /\ Before(p, 1) = j
      BY <2>1 DEF Before
    <3> QED
      BY <3>1
  <2>2. CASE j < p
    <3>1. j + 1 \in 1 .. n /\ Before(p, j + 1) = j
      BY <2>2 DEF Before
    <3> QED
      BY <3>1
  <2>3. CASE j > p
    <3>1. Before(p, j) = j
      BY <2>3 DEF Before
    <3> QED
      BY <3>1
  <2> QED
    BY <2>1, <2>2, <2>3
<1> QED
  BY <1>1, <1>2, <1>3

(* What is held is the beginning of what was used, place by place.         *)
CacheTypes ==
  /\ cap \in Nat
  /\ lru \in Seq(Nodes) /\ used \in Seq(LruKeys)
  /\ key \in [Nodes -> LruKeys] /\ value \in [Nodes -> Values]
  /\ DOMAIN kvs \subseteq LruKeys
  /\ kvs = [k \in DOMAIN kvs |-> kvs[k]] /\ latest = [k \in DOMAIN latest |-> latest[k]]

CacheOrder ==
  /\ Distinct(lru) /\ Distinct(used)
  /\ DOMAIN latest = {used[i] : i \in 1 .. Len(used)}
  /\ Len(lru) = IF cap <= Len(used) THEN cap ELSE Len(used)

CacheItems ==
  /\ \A i \in 1 .. Len(lru) :
       /\ key[lru[i]] = used[i] /\ value[lru[i]] = latest[used[i]]
       /\ used[i] \in DOMAIN kvs /\ kvs[used[i]] = lru[i]
  /\ \A k \in DOMAIN kvs : \E i \in 1 .. Len(lru) : k = used[i]

CacheInv == CacheTypes /\ CacheOrder /\ CacheItems

(* An empty cache.                                                        *)
LEMMA CacheStarts ==
  ASSUME ContainersAssumption, Cache!Init
  PROVE  CacheInv
<1>1. cap \in Nat
  BY DEF ContainersAssumption, Cache!LruParameters, Cache!Init
<1>2. /\ lru = <<>> /\ used = <<>> /\ kvs = <<>> /\ latest = <<>>
      /\ key \in [Nodes -> LruKeys] /\ value \in [Nodes -> Values]
  BY DEF Cache!Init
<1>3. lru \in Seq(Nodes) /\ used \in Seq(LruKeys) /\ Len(lru) = 0 /\ Len(used) = 0
  BY <1>2
<1>4. DOMAIN kvs = {} /\ DOMAIN latest = {}
  BY <1>2
<1>5. kvs = [k \in DOMAIN kvs |-> kvs[k]] /\ latest = [k \in DOMAIN latest |-> latest[k]]
  BY <1>2
<1>6. CacheTypes
  BY <1>1, <1>2, <1>3, <1>4, <1>5 DEF CacheTypes
<1>7. CacheOrder
  BY <1>1, <1>3, <1>4 DEF CacheOrder, Distinct
<1>8. CacheItems
  BY <1>3, <1>4 DEF CacheItems
<1> QED
  BY <1>6, <1>7, <1>8 DEF CacheInv

(* A key of the map has a place, in the list and in the order of use.      *)
LEMMA KeyHasPlace ==
  ASSUME CacheInv, NEW k \in DOMAIN kvs
  PROVE  \E p \in 1 .. Len(lru) :
           p \in 1 .. Len(used) /\ k = used[p] /\ kvs[k] = lru[p]
<1>1. Len(lru) \in Nat /\ Len(used) \in Nat /\ Len(lru) <= Len(used)
  BY DEF CacheInv, CacheTypes, CacheOrder
<1> QED
  BY <1>1 DEF CacheInv, CacheItems

(* Using an item moves it to the front of the list and of the order.       *)
LEMMA ItemUsed ==
  ASSUME CacheInv, NEW p \in 1 .. Len(lru),
         lru' = Cache!ToFront(lru, lru[p]), used' = Cache!ToFront(used, used[p])
  PROVE  /\ lru' \in Seq(Nodes) /\ Len(lru') = Len(lru)
         /\ used' \in Seq(LruKeys) /\ Len(used') = Len(used)
         /\ \A i \in 1 .. Len(lru) : Before(p, i) \in 1 .. Len(lru) /\ lru'[i] = lru[Before(p, i)]
         /\ \A i \in 1 .. Len(used) : Before(p, i) \in 1 .. Len(used) /\ used'[i] = used[Before(p, i)]
         /\ Distinct(lru)' /\ Distinct(used)'
         /\ {used'[i] : i \in 1 .. Len(used')} = {used[i] : i \in 1 .. Len(used)}
<1>1. /\ lru \in Seq(Nodes) /\ used \in Seq(LruKeys) /\ Distinct(lru) /\ Distinct(used)
      /\ Len(lru) \in Nat /\ Len(used) \in Nat /\ Len(lru) <= Len(used)
  BY DEF CacheInv, CacheTypes, CacheOrder
<1>2. p \in 1 .. Len(used)
  BY <1>1
<1>3. PICK n \in Nat, m \in Nat : n = Len(lru) /\ m = Len(used) /\ n <= m
  BY <1>1
<1>11. p \in 1 .. n /\ p \in 1 .. m
  BY <1>2, <1>3
<1>4. /\ lru' \in Seq(Nodes) /\ Len(lru') = n
      /\ \A i \in 1 .. n : lru'[i] = lru[Before(p, i)]
  BY <1>1, <1>3, ComesToFront
<1>5. /\ used' \in Seq(LruKeys) /\ Len(used') = m
      /\ \A i \in 1 .. m : used'[i] = used[Before(p, i)]
  BY <1>1, <1>2, <1>3, ComesToFront
<1>6. /\ \A i \in 1 .. n : Before(p, i) \in 1 .. n
      /\ \A i, j \in 1 .. n : Before(p, i) = Before(p, j) => i = j
  BY <1>11, BeforePermutes
<1>7. /\ \A i \in 1 .. m : Before(p, i) \in 1 .. m
      /\ \A i, j \in 1 .. m : Before(p, i) = Before(p, j) => i = j
      /\ \A j \in 1 .. m : \E i \in 1 .. m : Before(p, i) = j
  BY <1>11, BeforePermutes
<1>8. Distinct(lru)'
  <2>1. \A i, j \in 1 .. n : lru[i] = lru[j] => i = j
    BY <1>1, <1>3 DEF Distinct
  <2>2. ASSUME NEW i \in 1 .. n, NEW j \in 1 .. n, lru'[i] = lru'[j] PROVE i = j
    <3>1. lru[Before(p, i)] = lru[Before(p, j)]
      BY <1>4, <2>2
    <3>2. Before(p, i) = Before(p, j)
      BY <1>6, <2>1, <3>1
    <3> QED
      BY <1>6, <3>2
  <2> QED
    BY <1>4, <2>2 DEF Distinct
<1>9. Distinct(used)'
  <2>1. \A i, j \in 1 .. m : used[i] = used[j] => i = j
    BY <1>1, <1>3 DEF Distinct
  <2>2. ASSUME NEW i \in 1 .. m, NEW j \in 1 .. m, used'[i] = used'[j] PROVE i = j
    <3>1. used[Before(p, i)] = used[Before(p, j)]
      BY <1>5, <2>2
    <3>2. Before(p, i) = Before(p, j)
      BY <1>7, <2>1, <3>1
    <3> QED
      BY <1>7, <3>2
  <2> QED
    BY <1>5, <2>2 DEF Distinct
<1>10. {used'[i] : i \in 1 .. m} = {used[i] : i \in 1 .. m}
  <2>1. ASSUME NEW j \in 1 .. m PROVE \E i \in 1 .. m : used'[i] = used[j]
    <3>1. PICK i \in 1 .. m : Before(p, i) = j
      BY <1>7
    <3> QED
      BY <1>5, <3>1
  <2>2. ASSUME NEW i \in 1 .. m PROVE \E j \in 1 .. m : used'[i] = used[j]
    BY <1>5, <1>7
  <2>3. {used'[i] : i \in 1 .. m} \subseteq {used[i] : i \in 1 .. m}
    BY <2>2
  <2>4. {used[i] : i \in 1 .. m} \subseteq {used'[i] : i \in 1 .. m}
    BY <2>1
  <2> QED
    BY <2>3, <2>4
<1> QED
  BY <1>3, <1>4, <1>5, <1>6, <1>7, <1>8, <1>9, <1>10

(* Get moves an item to the front; nothing else changes.                  *)
LEMMA GetKeeps ==
  ASSUME CacheInv, NEW k \in LruKeys, Cache!Get(k)
  PROVE  CacheInv'
<1>1. /\ k \in DOMAIN kvs /\ lru' = Cache!ToFront(lru, kvs[k])
      /\ used' = Cache!ToFront(used, k)
      /\ cap' = cap /\ key' = key /\ value' = value /\ kvs' = kvs /\ latest' = latest
  BY DEF Cache!Get, Cache!Use, Cache!ToFront
<1>2. PICK p \in 1 .. Len(lru) : p \in 1 .. Len(used) /\ k = used[p] /\ kvs[k] = lru[p]
  BY <1>1, KeyHasPlace
<1>3. /\ lru' \in Seq(Nodes) /\ Len(lru') = Len(lru)
      /\ used' \in Seq(LruKeys) /\ Len(used') = Len(used)
      /\ \A i \in 1 .. Len(lru) : Before(p, i) \in 1 .. Len(lru) /\ lru'[i] = lru[Before(p, i)]
      /\ \A i \in 1 .. Len(used) : Before(p, i) \in 1 .. Len(used) /\ used'[i] = used[Before(p, i)]
      /\ Distinct(lru)' /\ Distinct(used)'
      /\ {used'[i] : i \in 1 .. Len(used')} = {used[i] : i \in 1 .. Len(used)}
  BY <1>1, <1>2, ItemUsed
<1>4. CacheTypes'
  BY <1>1, <1>3 DEF CacheInv, CacheTypes
<1>5. CacheOrder'
  BY <1>1, <1>3 DEF CacheInv, CacheOrder
<1>6. \A j \in 1 .. Len(lru) : \E i \in 1 .. Len(lru) : Before(p, i) = j
  <2>1. Len(lru) \in Nat
    BY DEF CacheInv, CacheTypes
  <2> QED
    BY <2>1, BeforePermutes
<1>7. Len(lru) \in Nat /\ Len(used) \in Nat /\ Len(lru) <= Len(used)
  BY DEF CacheInv, CacheTypes, CacheOrder
<1>8. CacheItems'
  <2>1. ASSUME NEW i \in 1 .. Len(lru)
        PROVE  /\ key[lru'[i]] = used'[i] /\ value[lru'[i]] = latest[used'[i]]
               /\ used'[i] \in DOMAIN kvs /\ kvs[used'[i]] = lru'[i]
    <3>1. i \in 1 .. Len(used)
      BY <1>7
    <3>2. Before(p, i) \in 1 .. Len(lru) /\ lru'[i] = lru[Before(p, i)] /\ used'[i] = used[Before(p, i)]
      BY <1>3, <3>1
    <3> QED
      BY <3>2 DEF CacheInv, CacheItems
  <2>2. ASSUME NEW j \in DOMAIN kvs PROVE \E i \in 1 .. Len(lru) : j = used'[i]
    <3>1. PICK q \in 1 .. Len(lru) : j = used[q]
      BY DEF CacheInv, CacheItems
    <3>2. PICK i \in 1 .. Len(lru) : Before(p, i) = q
      BY <1>6
    <3>3. i \in 1 .. Len(used)
      BY <1>7
    <3> QED
      BY <1>3, <3>1, <3>2, <3>3
  <2> QED
    BY <1>1, <1>3, <2>1, <2>2 DEF CacheItems
<1> QED
  BY <1>4, <1>5, <1>8 DEF CacheInv

(* Put of a key that is held does the same and sets its value.            *)
LEMMA PutOldKeeps ==
  ASSUME CacheInv, NEW k \in LruKeys, NEW v \in Values, Cache!PutOld(k, v)
  PROVE  CacheInv'
<1>1. /\ k \in DOMAIN kvs /\ lru' = Cache!ToFront(lru, kvs[k])
      /\ used' = Cache!ToFront(used, k)
      /\ value' = [value EXCEPT ![kvs[k]] = v] /\ latest' = [latest EXCEPT ![k] = v]
      /\ cap' = cap /\ key' = key /\ kvs' = kvs
  BY DEF Cache!PutOld, Cache!Use, Cache!ToFront
<1>2. PICK p \in 1 .. Len(lru) : p \in 1 .. Len(used) /\ k = used[p] /\ kvs[k] = lru[p]
  BY <1>1, KeyHasPlace
<1>3. /\ lru' \in Seq(Nodes) /\ Len(lru') = Len(lru)
      /\ used' \in Seq(LruKeys) /\ Len(used') = Len(used)
      /\ \A i \in 1 .. Len(lru) : Before(p, i) \in 1 .. Len(lru) /\ lru'[i] = lru[Before(p, i)]
      /\ \A i \in 1 .. Len(used) : Before(p, i) \in 1 .. Len(used) /\ used'[i] = used[Before(p, i)]
      /\ Distinct(lru)' /\ Distinct(used)'
      /\ {used'[i] : i \in 1 .. Len(used')} = {used[i] : i \in 1 .. Len(used)}
  BY <1>1, <1>2, ItemUsed
<1>4. Len(lru) \in Nat /\ Len(used) \in Nat /\ Len(lru) <= Len(used)
  BY DEF CacheInv, CacheTypes, CacheOrder
<1>5. /\ lru[p] \in Nodes /\ value \in [Nodes -> Values]
      /\ k \in DOMAIN latest
      /\ Distinct(lru) /\ Distinct(used)
  BY <1>2 DEF CacheInv, CacheTypes, CacheOrder
<1>6. value' \in [Nodes -> Values] /\ DOMAIN latest' = DOMAIN latest
  BY <1>1, <1>5
<1>7. CacheTypes'
  <2>1. latest' = [j \in DOMAIN latest' |-> latest'[j]]
    BY <1>1
  <2> QED
    BY <1>1, <1>3, <1>6, <2>1 DEF CacheInv, CacheTypes
<1>8. CacheOrder'
  BY <1>1, <1>3, <1>6 DEF CacheInv, CacheOrder
<1>9. \A j \in 1 .. Len(lru) : \E i \in 1 .. Len(lru) : Before(p, i) = j
  BY <1>4, BeforePermutes
<1>10. CacheItems'
  <2>1. ASSUME NEW i \in 1 .. Len(lru)
        PROVE  /\ key[lru'[i]] = used'[i] /\ value'[lru'[i]] = latest'[used'[i]]
               /\ used'[i] \in DOMAIN kvs /\ kvs[used'[i]] = lru'[i]
    <3>1. i \in 1 .. Len(used)
      BY <1>4
    <3>2. PICK j \in 1 .. Len(lru) : lru'[i] = lru[j] /\ used'[i] = used[j]
      BY <1>3, <3>1
    <3>3. /\ key[lru[j]] = used[j] /\ value[lru[j]] = latest[used[j]]
          /\ used[j] \in DOMAIN kvs /\ kvs[used[j]] = lru[j]
      BY DEF CacheInv, CacheItems
    <3>4. j \in 1 .. Len(used) /\ lru[j] \in Nodes /\ used[j] \in DOMAIN latest
      BY <1>4 DEF CacheInv, CacheTypes, CacheOrder
    <3>5. value'[lru[j]] = latest'[used[j]]
      <4>1. CASE j = p
        BY <1>1, <1>2, <1>5, <4>1
      <4>2. CASE j # p
        <5>1. lru[j] # lru[p] /\ used[j] # used[p]
          BY <1>2, <1>5, <3>4, <4>2 DEF Distinct
        <5> QED
          BY <1>1, <1>2, <1>5, <3>3, <3>4, <5>1
      <4> QED
        BY <4>1, <4>2
    <3> QED
      BY <3>2, <3>3, <3>5
  <2>2. ASSUME NEW j \in DOMAIN kvs PROVE \E i \in 1 .. Len(lru) : j = used'[i]
    <3>1. PICK q \in 1 .. Len(lru) : j = used[q]
      BY DEF CacheInv, CacheItems
    <3>2. PICK i \in 1 .. Len(lru) : Before(p, i) = q
      BY <1>9
    <3>3. i \in 1 .. Len(used)
      BY <1>4
    <3> QED
      BY <1>3, <3>1, <3>2, <3>3
  <2> QED
    <3>1. \A i \in 1 .. Len(lru) : key[lru'[i]] = used'[i] /\ value'[lru'[i]] = latest'[used'[i]]
      BY <2>1
    <3>2. \A i \in 1 .. Len(lru) : used'[i] \in DOMAIN kvs /\ kvs[used'[i]] = lru'[i]
      BY <2>1
    <3>3. \A j \in DOMAIN kvs : \E i \in 1 .. Len(lru) : j = used'[i]
      BY <2>2
    <3>4. key' = key /\ kvs' = kvs /\ Len(lru') = Len(lru)
      BY <1>1, <1>3
    <3> QED
      BY <3>1, <3>2, <3>3, <3>4 DEF CacheItems
<1> QED
  BY <1>7, <1>8, <1>10 DEF CacheInv

(* The order of use after a key that is not held was put: what is held     *)
(* moves back by one place.                                                *)
LEMMA NewKeyUsed ==
  ASSUME CacheInv, NEW k \in LruKeys, k \notin DOMAIN kvs,
         used' = <<k>> \o Cache!Without(used, k)
  PROVE  /\ used' \in Seq(LruKeys) /\ Distinct(used)'
         /\ {used'[i] : i \in 1 .. Len(used')} = {used[i] : i \in 1 .. Len(used)} \cup {k}
         /\ Len(lru) < cap => Len(used') = Len(lru) + 1
         /\ Len(used') \in Nat /\ Len(used') > Len(lru)
         /\ used'[1] = k
         /\ \A i \in 1 .. Len(lru) : i + 1 <= Len(used') => used'[i + 1] = used[i]
<1>1. /\ used \in Seq(LruKeys) /\ Distinct(used) /\ cap \in Nat
      /\ Len(lru) \in Nat /\ Len(used) \in Nat /\ Len(lru) <= Len(used)
      /\ Len(lru) < cap => Len(used) = Len(lru)
  BY DEF CacheInv, CacheTypes, CacheOrder
<1>2. \A i \in 1 .. Len(used) : used[i] = k => i > Len(lru)
  <2>1. ASSUME NEW i \in 1 .. Len(used), used[i] = k, i <= Len(lru) PROVE FALSE
    <3>1. i \in 1 .. Len(lru)
      BY <1>1, <2>1
    <3> QED
      BY <2>1, <3>1 DEF CacheInv, CacheItems
  <2> QED
    BY <1>1, <2>1
<1>3. PICK u : u = used
  OBVIOUS
<1>4. PICK n \in Nat, l \in Nat : n = Len(u) /\ l = Len(lru)
  BY <1>1, <1>3
<1>5. PICK r : r = Cache!Without(u, k)
  OBVIOUS
<1>6. PICK w : w = used'
  OBVIOUS
<1>7. /\ u \in Seq(LruKeys) /\ Distinct(u) /\ l <= n
      /\ \A i \in 1 .. n : u[i] = k => i > l
  BY <1>1, <1>2, <1>3, <1>4
<1>8. w = <<k>> \o r
  BY <1>3, <1>5, <1>6
<1>9. /\ w \in Seq(LruKeys) /\ Distinct(w)
      /\ {w[i] : i \in 1 .. Len(w)} = {u[i] : i \in 1 .. n} \cup {k}
      /\ Len(w) = IF \E i \in 1 .. n : u[i] = k THEN n ELSE n + 1
      /\ w[1] = k
      /\ \A i \in 1 .. l : i + 1 <= Len(w) => w[i + 1] = u[i]
  <2>1. CASE \A i \in 1 .. n : u[i] # k
    <3>1. r = u
      <4>1. DOMAIN u = 1 .. n
        BY <1>4, <1>7
      <4> QED
        BY <1>5, <2>1, <4>1, NothingToTakeOut
    <3>2. /\ w \in Seq(LruKeys) /\ Len(w) = n + 1 /\ w[1] = k
          /\ \A i \in 2 .. Len(w) : w[i] = u[i - 1]
      BY <1>4, <1>7, <1>8, <3>1, Preceded
    <3>3. Distinct(w)
      <4>1. ASSUME NEW i \in 1 .. Len(w), NEW j \in 1 .. Len(w), w[i] = w[j], i # 1
            PROVE  i = j
        <5>1. i \in 2 .. Len(w) /\ i - 1 \in 1 .. n
          BY <3>2, <4>1
        <5>2. w[i] = u[i - 1] /\ u[i - 1] # k
          BY <2>1, <3>2, <5>1
        <5>3. j # 1
          BY <3>2, <4>1, <5>2
        <5>4. j \in 2 .. Len(w) /\ j - 1 \in 1 .. n
          BY <3>2, <5>3
        <5>5. u[i - 1] = u[j - 1]
          BY <3>2, <4>1, <5>2, <5>4
        <5>6. i - 1 = j - 1
          BY <1>4, <1>7, <5>1, <5>4, <5>5 DEF Distinct
        <5> QED
          BY <5>6
      <4>2. ASSUME NEW i \in 1 .. Len(w), NEW j \in 1 .. Len(w), w[i] = w[j] PROVE i = j
        BY <4>1, <4>2
      <4> QED
        BY <4>2 DEF Distinct
    <3>4. ASSUME NEW i \in 1 .. n PROVE i + 1 \in 2 .. Len(w) /\ w[i + 1] = u[i]
      BY <3>2
    <3>5. \A i \in 1 .. l : i + 1 <= Len(w) => w[i + 1] = u[i]
      BY <1>7, <3>4
    <3>6. {w[i] : i \in 1 .. Len(w)} = {u[i] : i \in 1 .. n} \cup {k}
      <4>1. ASSUME NEW i \in 1 .. Len(w) PROVE w[i] \in {u[j] : j \in 1 .. n} \cup {k}
        <5>1. i = 1 \/ (i \in 2 .. Len(w) /\ i - 1 \in 1 .. n)
          BY <3>2
        <5> QED
          BY <3>2, <5>1
      <4>2. 1 \in 1 .. Len(w)
        BY <3>2
      <4>3. ASSUME NEW i \in 1 .. n PROVE u[i] \in {w[j] : j \in 1 .. Len(w)}
        <5>1. i + 1 \in 1 .. Len(w)
          BY <3>2
        <5> QED
          BY <3>4, <5>1
      <4> QED
        BY <3>2, <4>1, <4>2, <4>3
    <3> QED
      BY <2>1, <3>2, <3>3, <3>5, <3>6
  <2>2. ASSUME NEW q \in 1 .. n, u[q] = k
        PROVE  /\ w \in Seq(LruKeys) /\ Distinct(w)
               /\ {w[i] : i \in 1 .. Len(w)} = {u[i] : i \in 1 .. n} \cup {k}
               /\ Len(w) = n
               /\ w[1] = k
               /\ \A i \in 1 .. l : i + 1 <= Len(w) => w[i + 1] = u[i]
    <3>1. w = Cache!ToFront(u, u[q])
      BY <1>5, <1>8, <2>2 DEF Cache!ToFront
    <3>2. /\ w \in Seq(LruKeys) /\ Len(w) = n
          /\ \A i \in 1 .. n : w[i] = u[Before(q, i)]
      BY <1>4, <1>7, <3>1, ComesToFront
    <3>3. /\ \A i \in 1 .. n : Before(q, i) \in 1 .. n
          /\ \A i, j \in 1 .. n : Before(q, i) = Before(q, j) => i = j
          /\ \A j \in 1 .. n : \E i \in 1 .. n : Before(q, i) = j
      BY BeforePermutes
    <3>4. Distinct(w)
      <4>1. ASSUME NEW i \in 1 .. n, NEW j \in 1 .. n, w[i] = w[j] PROVE i = j
        <5>1. u[Before(q, i)] = u[Before(q, j)]
          BY <3>2, <4>1
        <5>2. Before(q, i) = Before(q, j)
          BY <1>4, <1>7, <3>3, <5>1 DEF Distinct
        <5> QED
          BY <3>3, <5>2
      <4> QED
        BY <3>2, <4>1 DEF Distinct
    <3>5. w[1] = k
      <4>1. 1 \in 1 .. n /\ Before(q, 1) = q
        BY DEF Before
      <4> QED
        BY <2>2, <3>2, <4>1
    <3>6. ASSUME NEW i \in 1 .. l, i + 1 <= n PROVE w[i + 1] = u[i]
      <4>1. q > l
        BY <1>7, <2>2
      <4>2. i + 1 \in 1 .. n /\ Before(q, i + 1) = i
        BY <3>6, <4>1 DEF Before
      <4> QED
        BY <3>2, <4>2
    <3>7. {w[i] : i \in 1 .. n} = {u[i] : i \in 1 .. n} \cup {k}
      <4>1. ASSUME NEW i \in 1 .. n PROVE w[i] \in {u[j] : j \in 1 .. n}
        BY <3>2, <3>3
      <4>2. ASSUME NEW j \in 1 .. n PROVE u[j] \in {w[i] : i \in 1 .. n}
        <5>1. PICK i \in 1 .. n : Before(q, i) = j
          BY <3>3
        <5> QED
          BY <3>2, <5>1
      <4>3. k \in {w[i] : i \in 1 .. n}
        BY <2>2, <4>2
      <4> QED
        BY <4>1, <4>2, <4>3
    <3> QED
      BY <3>2, <3>4, <3>5, <3>6, <3>7
  <2> QED
    BY <2>1, <2>2
<1>12. /\ used' \in Seq(LruKeys) /\ Distinct(used)'
       /\ {used'[i] : i \in 1 .. Len(used')} = {used[i] : i \in 1 .. Len(used)} \cup {k}
       /\ used'[1] = k
  <2>1. Distinct(used)' <=> Distinct(w)
    BY <1>6 DEF Distinct
  <2>2. {used'[i] : i \in 1 .. Len(used')} = {w[i] : i \in 1 .. Len(w)}
    BY <1>6
  <2>3. {used[i] : i \in 1 .. Len(used)} = {u[i] : i \in 1 .. n}
    BY <1>3, <1>4
  <2> QED
    BY <1>6, <1>9, <2>1, <2>2, <2>3
<1>13. \A i \in 1 .. Len(lru) : i + 1 <= Len(used') => used'[i + 1] = used[i]
  BY <1>3, <1>4, <1>6, <1>9
<1>10. Len(lru) < cap => Len(w) = Len(lru) + 1
  <2>1. ASSUME Len(lru) < cap PROVE Len(w) = Len(lru) + 1
    <3>1. n = l
      BY <1>1, <1>3, <1>4, <2>1
    <3>2. ~ \E i \in 1 .. n : u[i] = k
      BY <1>7, <3>1
    <3> QED
      BY <1>4, <1>9, <3>1, <3>2
  <2> QED
    BY <2>1
<1>11. Len(w) \in Nat /\ Len(w) > Len(lru)
  <2>1. CASE \E i \in 1 .. n : u[i] = k
    <3>1. n > l
      BY <1>7, <2>1
    <3> QED
      BY <1>4, <1>9, <2>1, <3>1
  <2>2. CASE ~ \E i \in 1 .. n : u[i] = k
    BY <1>4, <1>7, <1>9, <2>2
  <2> QED
    BY <2>1, <2>2
<1> QED
  BY <1>6, <1>10, <1>11, <1>12, <1>13

(* A set numbered from 1 to n, each once, has n elements.                 *)
LEMMA CountedByPlaces ==
  ASSUME NEW n \in Nat, NEW T, NEW f \in [1 .. n -> T],
         \A i, j \in 1 .. n : f[i] = f[j] => i = j,
         \A x \in T : \E i \in 1 .. n : f[i] = x
  PROVE  IsFiniteSet(T) /\ Cardinality(T) = n
<1>1. ExistsBijection(1 .. n, T)
  <2>1. f \in Bijection(1 .. n, T)
    BY DEF Bijection, Injection, Surjection, IsInjective
  <2> QED
    BY <2>1 DEF ExistsBijection
<1>2. IsFiniteSet(1 .. n) /\ Cardinality(1 .. n) = IF 1 > n THEN 0 ELSE n - 1 + 1
  BY FS_Interval
<1>3. Cardinality(1 .. n) = n
  BY <1>2
<1> QED
  BY <1>1, <1>2, <1>3, FS_Bijection

(* Every place of the list has a key of its own.                           *)
LEMMA KeysCounted ==
  ASSUME CacheInv
  PROVE  IsFiniteSet(DOMAIN kvs) /\ Cardinality(DOMAIN kvs) = Len(lru)
<1>1. Len(lru) \in Nat /\ Len(used) \in Nat /\ Len(lru) <= Len(used)
  BY DEF CacheInv, CacheTypes, CacheOrder
<1>2. PICK n, T, f : n \in Nat /\ n = Len(lru) /\ T = DOMAIN kvs /\ f = [i \in 1 .. n |-> used[i]]
  BY <1>1
<1>3. \A i \in 1 .. n : used[i] \in T
  BY <1>2 DEF CacheInv, CacheItems
<1>4. f \in [1 .. n -> T]
  BY <1>2, <1>3
<1>5. \A j \in T : \E i \in 1 .. n : f[i] = j
  BY <1>2 DEF CacheInv, CacheItems
<1>6. ASSUME NEW i \in 1 .. n, NEW j \in 1 .. n, f[i] = f[j] PROVE i = j
  <2>1. i \in 1 .. Len(used) /\ j \in 1 .. Len(used) /\ used[i] = used[j]
    BY <1>1, <1>2, <1>6
  <2> QED
    BY <2>1 DEF CacheInv, CacheOrder, Distinct
<1>7. IsFiniteSet(T) /\ Cardinality(T) = n
  <2>1. n \in Nat
    BY <1>2
  <2> QED
    BY <1>4, <1>5, <1>6, <2>1, CountedByPlaces
<1> QED
  BY <1>2, <1>7

(* Put of a new key: before it is evicted from, the longer list agrees    *)
(* with the order of use, and the last item goes if it is one too many.   *)
LEMMA PutNewKeeps ==
  ASSUME CacheInv, NEW k \in LruKeys, NEW v \in Values, Cache!PutNew(k, v)
  PROVE  CacheInv'
<1>1. PICK n \in Nodes \ Cache!ToSet(lru) :
        /\ key' = [key EXCEPT ![n] = k] /\ value' = [value EXCEPT ![n] = v]
        /\ lru' = Cache!Trimmed(<<n>> \o lru, Cache!With(kvs, k, n)).lru
        /\ kvs' = Cache!Trimmed(<<n>> \o lru, Cache!With(kvs, k, n)).kvs
  BY DEF Cache!PutNew
<1>2. /\ k \notin DOMAIN kvs
      /\ used' = <<k>> \o Cache!Without(used, k)
      /\ latest' = Cache!With(latest, k, v)
      /\ cap' = cap
  BY DEF Cache!PutNew, Cache!Use
<1>3. /\ used' \in Seq(LruKeys) /\ Distinct(used)'
      /\ {used'[i] : i \in 1 .. Len(used')} = {used[i] : i \in 1 .. Len(used)} \cup {k}
      /\ Len(lru) < cap => Len(used') = Len(lru) + 1
      /\ Len(used') \in Nat /\ Len(used') > Len(lru)
      /\ used'[1] = k
      /\ \A i \in 1 .. Len(lru) : i + 1 <= Len(used') => used'[i + 1] = used[i]
  BY <1>2, NewKeyUsed
<1>4. /\ lru \in Seq(Nodes) /\ used \in Seq(LruKeys) /\ Distinct(lru) /\ Distinct(used)
      /\ cap \in Nat /\ Len(lru) \in Nat /\ Len(used) \in Nat
      /\ Len(lru) <= cap /\ Len(lru) <= Len(used)
      /\ key \in [Nodes -> LruKeys] /\ value \in [Nodes -> Values]
      /\ DOMAIN kvs \subseteq LruKeys
  BY DEF CacheInv, CacheTypes, CacheOrder
<1>5. PICK L, m : L = <<n>> \o lru /\ m = Cache!With(kvs, k, n)
  OBVIOUS
<1>6. /\ L \in Seq(Nodes) /\ Len(L) = Len(lru) + 1 /\ L[1] = n
      /\ \A i \in 2 .. Len(L) : L[i] = lru[i - 1]
  BY <1>4, <1>5, Preceded
<1>7. /\ DOMAIN m = DOMAIN kvs \cup {k} /\ m[k] = n
      /\ \A j \in DOMAIN kvs : m[j] = kvs[j]
      /\ m = [j \in DOMAIN m |-> m[j]]
  BY <1>2, <1>5 DEF Cache!With
<1>8. IsFiniteSet(DOMAIN kvs) /\ Cardinality(DOMAIN kvs) = Len(lru)
  BY KeysCounted
<1>9. Cache!Cardinality(DOMAIN m) = Len(L)
  <2>1. PICK D : D = DOMAIN kvs
    OBVIOUS
  <2>2. Cardinality(D \cup {k}) = Cardinality(D) + 1
    BY <1>2, <1>8, <2>1, FS_AddElement
  <2>3. Cardinality(DOMAIN m) = Len(L)
    BY <1>6, <1>7, <1>8, <2>1, <2>2
  <2>4. \A S : Cache!Cardinality(S) = Cardinality(S)
    BY DEF Cache!Cardinality, Cardinality
  <2> QED
    BY <2>3, <2>4
<1>10. /\ \A i \in 1 .. Len(lru) : lru[i] \in Nodes /\ lru[i] # n
       /\ n \in Nodes
  <2>1. \A i \in 1 .. Len(lru) : lru[i] \in Cache!ToSet(lru)
    BY <1>4 DEF Cache!ToSet
  <2> QED
    BY <1>1, <1>4, <2>1
(* The longer list agrees with the order of use, place by place.           *)
<1>11. ASSUME NEW i \in 1 .. Len(L), i <= Len(used')
       PROVE  /\ key'[L[i]] = used'[i] /\ value'[L[i]] = latest'[used'[i]]
              /\ used'[i] \in DOMAIN m /\ m[used'[i]] = L[i]
  <2>1. CASE i = 1
    <3>1. L[i] = n /\ used'[i] = k
      BY <1>3, <1>6, <2>1
    <3>2. key'[n] = k /\ value'[n] = v /\ latest'[k] = v
      BY <1>1, <1>2, <1>4 DEF Cache!With
    <3> QED
      BY <1>7, <3>1, <3>2
  <2>2. CASE i # 1
    <3>1. PICK j \in 1 .. Len(lru) : i = j + 1
      <4>1. i - 1 \in 1 .. Len(lru) /\ i = (i - 1) + 1
        BY <1>4, <1>6, <2>2
      <4> QED
        BY <4>1
    <3>2. L[i] = lru[j]
      <4>1. i \in 2 .. Len(L) /\ i - 1 = j
        BY <1>4, <1>6, <3>1
      <4> QED
        BY <1>6, <4>1
    <3>3. used'[i] = used[j]
      BY <1>3, <1>11, <3>1
    <3>4. /\ key[lru[j]] = used[j] /\ value[lru[j]] = latest[used[j]]
          /\ used[j] \in DOMAIN kvs /\ kvs[used[j]] = lru[j]
      BY DEF CacheInv, CacheItems
    <3>5. key'[lru[j]] = key[lru[j]] /\ value'[lru[j]] = value[lru[j]]
      BY <1>1, <1>4, <1>10
    <3>6. latest'[used[j]] = latest[used[j]]
      <4>1. used[j] \in DOMAIN latest
        <5>1. j \in 1 .. Len(used)
          BY <1>4
        <5> QED
          BY <5>1 DEF CacheInv, CacheOrder
      <4>2. used[j] # k
        BY <1>2, <3>4
      <4> QED
        BY <1>2, <4>1, <4>2 DEF Cache!With
    <3>7. used[j] \in DOMAIN m /\ m[used[j]] = lru[j]
      BY <1>7, <3>4
    <3> QED
      BY <3>2, <3>3, <3>4, <3>5, <3>6, <3>7
  <2> QED
    BY <2>1, <2>2
<1>12. ASSUME NEW j \in DOMAIN m
       PROVE  \E i \in 1 .. Len(L) : IF i <= Len(used') THEN j = used'[i]
                                     ELSE j = used[i - 1] /\ i - 1 \in 1 .. Len(lru)
  <2>1. CASE j = k
    <3>1. 1 \in 1 .. Len(L) /\ 1 <= Len(used')
      BY <1>3, <1>4, <1>6
    <3> QED
      BY <1>3, <2>1, <3>1
  <2>2. CASE j \in DOMAIN kvs
    <3>1. PICK q \in 1 .. Len(lru) : j = used[q]
      BY <2>2 DEF CacheInv, CacheItems
    <3>2. q + 1 \in 1 .. Len(L) /\ (q + 1) - 1 = q
      BY <1>4, <1>6
    <3>3. q + 1 <= Len(used') => j = used'[q + 1]
      BY <1>3, <3>1
    <3> QED
      BY <3>1, <3>2, <3>3
  <2> QED
    BY <1>7, <2>1, <2>2
<1>13. key' \in [Nodes -> LruKeys] /\ value' \in [Nodes -> Values]
  BY <1>1, <1>4
<1>14. /\ DOMAIN latest' = DOMAIN latest \cup {k}
       /\ latest' = [j \in DOMAIN latest' |-> latest'[j]]
  BY <1>2 DEF Cache!With
<1>15. DOMAIN latest' = {used'[i] : i \in 1 .. Len(used')}
  BY <1>3, <1>14 DEF CacheInv, CacheOrder
<1>16. Distinct(L)
  <2>1. ASSUME NEW i \in 1 .. Len(L), NEW j \in 1 .. Len(L), L[i] = L[j], i # 1
        PROVE  i = j
    <3>1. i \in 2 .. Len(L) /\ i - 1 \in 1 .. Len(lru)
      BY <1>4, <1>6, <2>1
    <3>2. j # 1
      BY <1>6, <1>10, <2>1, <3>1
    <3>3. j \in 2 .. Len(L) /\ j - 1 \in 1 .. Len(lru)
      BY <1>4, <1>6, <3>2
    <3>4. lru[i - 1] = lru[j - 1]
      BY <1>6, <2>1, <3>1, <3>3
    <3>5. i - 1 = j - 1
      BY <1>4, <3>1, <3>3, <3>4 DEF Distinct
    <3> QED
      BY <3>1, <3>3, <3>5
  <2>2. ASSUME NEW i \in 1 .. Len(L), NEW j \in 1 .. Len(L), L[i] = L[j] PROVE i = j
    BY <2>1, <2>2
  <2> QED
    BY <2>2 DEF Distinct
<1>17. CASE Len(L) <= cap
  <2>1. lru' = L /\ kvs' = m
    <3>1. ~(Cache!Cardinality(DOMAIN m) > cap)
      BY <1>4, <1>6, <1>9, <1>17
    <3> QED
      BY <1>1, <1>5, <3>1 DEF Cache!Trimmed
  <2>2. Len(used') = Len(L)
    BY <1>3, <1>4, <1>6, <1>17
  <2>3. CacheTypes'
    BY <1>2, <1>3, <1>4, <1>6, <1>7, <1>13, <1>14, <2>1 DEF CacheTypes
  <2>4. CacheOrder'
    <3>1. Distinct(lru)'
      BY <1>16, <2>1 DEF Distinct
    <3>2. Len(lru') = IF cap' <= Len(used') THEN cap' ELSE Len(used')
      BY <1>2, <1>3, <1>4, <1>17, <2>1, <2>2
    <3> QED
      BY <1>3, <1>15, <3>1, <3>2 DEF CacheOrder
  <2>5. CacheItems'
    <3>1. \A i \in 1 .. Len(L) : i <= Len(used')
      BY <1>3, <2>2
    <3>2. \A i \in 1 .. Len(L) : key'[L[i]] = used'[i] /\ value'[L[i]] = latest'[used'[i]]
      BY <1>11, <3>1
    <3>3. \A i \in 1 .. Len(L) : used'[i] \in DOMAIN m /\ m[used'[i]] = L[i]
      BY <1>11, <3>1
    <3>4. \A j \in DOMAIN m : \E i \in 1 .. Len(L) : j = used'[i]
      BY <1>12, <3>1
    <3> QED
      BY <2>1, <3>2, <3>3, <3>4 DEF CacheItems
  <2> QED
    BY <2>3, <2>4, <2>5 DEF CacheInv
<1>18. CASE ~(Len(L) <= cap)
  <2>1. Len(lru) = cap /\ Len(L) = cap + 1 /\ cap <= Len(used')
    BY <1>3, <1>4, <1>6, <1>18
  <2>2. PICK last \in LruKeys : last = key'[L[Len(L)]]
    <3>1. Len(L) \in 1 .. Len(L)
      BY <1>4, <2>1
    <3>2. L[Len(L)] \in Nodes
      BY <1>6, <3>1
    <3> QED
      BY <1>13, <3>2
  <2>3. /\ lru' = SubSeq(L, 1, Len(L) - 1)
        /\ kvs' = [j \in DOMAIN m \ {last} |-> m[j]]
    <3>1. Cache!Cardinality(DOMAIN m) > cap
      BY <1>4, <1>9, <2>1
    <3> QED
      BY <1>1, <1>5, <2>2, <3>1
      DEF Cache!Trimmed, Cache!Evict, Cache!Front, Cache!Last, Cache!Restrict
  <2>4. PICK M : M = SubSeq(L, 1, cap)
    OBVIOUS
  <2>5. M \in Seq(Nodes) /\ Len(M) = cap /\ \A i \in 1 .. cap : M[i] = L[i]
    BY <1>4, <1>6, <2>1, <2>4
  <2>6. lru' = M
    BY <1>4, <2>1, <2>3, <2>4
  <2>7. CacheTypes'
    <3>1. DOMAIN kvs' \subseteq LruKeys /\ kvs' = [j \in DOMAIN kvs' |-> kvs'[j]]
      BY <1>4, <1>7, <2>3
    <3> QED
      BY <1>2, <1>3, <1>4, <1>13, <1>14, <2>5, <2>6, <3>1 DEF CacheTypes
  <2>8. CacheOrder'
    <3>1. Distinct(lru)'
      <4>1. \A i, j \in 1 .. cap : M[i] = M[j] => i = j
        <5>1. \A i \in 1 .. cap : i \in 1 .. Len(L)
          BY <1>4, <2>1
        <5> QED
          BY <1>16, <2>5, <5>1 DEF Distinct
      <4> QED
        BY <2>5, <2>6, <4>1 DEF Distinct
    <3>2. Len(lru') = IF cap' <= Len(used') THEN cap' ELSE Len(used')
      BY <1>2, <2>1, <2>5, <2>6
    <3> QED
      BY <1>3, <1>15, <3>1, <3>2 DEF CacheOrder
  <2>9. last = IF cap = 0 THEN k ELSE used[cap]
    <3>1. CASE cap = 0
      <4>1. L[Len(L)] = n
        BY <1>6, <2>1, <3>1
      <4>2. key'[n] = k
        BY <1>1, <1>4
      <4> QED
        BY <2>2, <3>1, <4>1, <4>2
    <3>2. CASE cap # 0
      <4>1. cap \in 1 .. Len(lru) /\ Len(L) \in 2 .. Len(L) /\ Len(L) - 1 = cap
        BY <1>4, <2>1, <3>2
      <4>2. L[Len(L)] = lru[cap]
        BY <1>6, <4>1
      <4>3. key'[lru[cap]] = key[lru[cap]]
        BY <1>1, <1>4, <1>10, <4>1
      <4>4. key[lru[cap]] = used[cap]
        BY <4>1 DEF CacheInv, CacheItems
      <4> QED
        BY <2>2, <3>2, <4>2, <4>3, <4>4
    <3> QED
      BY <3>1, <3>2
  <2>10. ASSUME NEW i \in 1 .. cap PROVE used'[i] # last
    <3>1. cap # 0 /\ cap \in 1 .. Len(lru) /\ cap \in 1 .. Len(used)
      BY <1>4, <2>1
    <3>2. last = used[cap] /\ last \in DOMAIN kvs
      BY <2>9, <3>1 DEF CacheInv, CacheItems
    <3>3. CASE i = 1
      BY <1>2, <1>3, <3>2, <3>3
    <3>4. CASE i # 1
      <4>1. i - 1 \in 1 .. Len(lru) /\ (i - 1) + 1 = i /\ i - 1 \in 1 .. Len(used) /\ i - 1 # cap
        BY <1>4, <2>1, <3>4
      <4>2. (i - 1) + 1 <= Len(used')
        BY <1>3, <1>4, <2>1
      <4>3. used'[i] = used[i - 1]
        BY <1>3, <4>1, <4>2
      <4>4. used[i - 1] # used[cap]
        BY <1>4, <3>1, <4>1 DEF Distinct
      <4> QED
        BY <3>2, <4>3, <4>4
    <3> QED
      BY <3>3, <3>4
  <2>11. CacheItems'
    <3>1. ASSUME NEW i \in 1 .. cap
          PROVE  /\ key'[M[i]] = used'[i] /\ value'[M[i]] = latest'[used'[i]]
                 /\ used'[i] \in DOMAIN kvs' /\ kvs'[used'[i]] = M[i]
      <4>1. i \in 1 .. Len(L) /\ i <= Len(used')
        BY <1>3, <1>4, <2>1
      <4>2. /\ key'[L[i]] = used'[i] /\ value'[L[i]] = latest'[used'[i]]
            /\ used'[i] \in DOMAIN m /\ m[used'[i]] = L[i]
        BY <1>11, <4>1
      <4>3. used'[i] # last
        BY <2>10
      <4>4. used'[i] \in DOMAIN kvs' /\ kvs'[used'[i]] = m[used'[i]]
        BY <2>3, <4>2, <4>3
      <4> QED
        BY <2>5, <4>2, <4>4
    <3>2. ASSUME NEW j \in DOMAIN kvs' PROVE \E i \in 1 .. cap : j = used'[i]
      <4>1. j \in DOMAIN m /\ j # last
        BY <2>3
      <4>2. PICK i \in 1 .. Len(L) : IF i <= Len(used') THEN j = used'[i]
                                     ELSE j = used[i - 1] /\ i - 1 \in 1 .. Len(lru)
        BY <1>12, <4>1
      <4>3. ASSUME i > cap PROVE FALSE
        <5>1. i = cap + 1
          BY <1>4, <2>1, <4>3
        <5>2. CASE cap = 0
          <6>1. i = 1 /\ i <= Len(used')
            BY <1>3, <1>4, <5>1, <5>2
          <6> QED
            BY <1>3, <2>9, <4>1, <4>2, <5>2, <6>1
        <5>3. CASE cap # 0
          <6>1. cap \in 1 .. Len(lru) /\ i - 1 = cap
            BY <1>4, <2>1, <5>1, <5>3
          <6>2. i <= Len(used') => used'[i] = used[cap]
            BY <1>3, <5>1, <6>1
          <6> QED
            BY <2>9, <4>1, <4>2, <5>3, <6>1, <6>2
        <5> QED
          BY <5>2, <5>3
      <4>4. i \in 1 .. cap /\ i <= Len(used')
        BY <1>3, <1>4, <2>1, <4>3
      <4> QED
        BY <4>2, <4>4
    <3>3. \A i \in 1 .. cap : key'[M[i]] = used'[i] /\ value'[M[i]] = latest'[used'[i]]
      BY <3>1
    <3>4. \A i \in 1 .. cap : used'[i] \in DOMAIN kvs' /\ kvs'[used'[i]] = M[i]
      BY <3>1
    <3>5. \A j \in DOMAIN kvs' : \E i \in 1 .. cap : j = used'[i]
      BY <3>2
    <3> QED
      BY <2>5, <2>6, <3>3, <3>4, <3>5 DEF CacheItems
  <2> QED
    BY <2>7, <2>8, <2>11 DEF CacheInv
<1> QED
  BY <1>4, <1>6, <1>17, <1>18

(* Every step of the cache keeps its invariant.                           *)
LEMMA CacheKept ==
  ASSUME CacheInv, [Cache!Next]_cache
  PROVE  CacheInv'
<1>1. CASE UNCHANGED cache
  BY <1>1 DEF cache, CacheInv, CacheTypes, CacheOrder, CacheItems, Distinct
<1>2. ASSUME NEW k \in LruKeys, Cache!Get(k) PROVE CacheInv'
  BY <1>2, GetKeeps
<1>3. ASSUME NEW k \in LruKeys, NEW v \in Values, Cache!PutOld(k, v) PROVE CacheInv'
  BY <1>3, PutOldKeeps
<1>4. ASSUME NEW k \in LruKeys, NEW v \in Values, Cache!PutNew(k, v) PROVE CacheInv'
  BY <1>4, PutNewKeeps
<1> QED
  BY <1>1, <1>2, <1>3, <1>4 DEF Cache!Next

(* The property, from the places.                                         *)
LEMMA CacheHolds ==
  ASSUME CacheInv
  PROVE  Cache!HoldsMostRecent
<1>1. /\ lru \in Seq(Nodes) /\ used \in Seq(LruKeys) /\ Distinct(lru)
      /\ cap \in Nat /\ Len(lru) \in Nat /\ Len(used) \in Nat
      /\ Len(lru) = IF cap <= Len(used) THEN cap ELSE Len(used)
  BY DEF CacheInv, CacheTypes, CacheOrder
<1>2. PICK n \in Nat : n = Len(lru)
  BY <1>1
<1>3. Cache!Min({cap, Len(used)}) = n
  <2>1. PICK c, u : c = cap /\ u = Len(used)
    OBVIOUS
  <2>2. c \in Nat /\ u \in Nat /\ n = IF c <= u THEN c ELSE u
    BY <1>1, <1>2, <2>1
  <2>3. n \in {c, u} /\ \A y \in {c, u} : n <= y
    BY <2>2
  <2>4. \A x \in {c, u} : (\A y \in {c, u} : x <= y) => x = n
    BY <2>2
  <2> QED
    BY <2>1, <2>3, <2>4 DEF Cache!Min
<1>4. PICK kept : kept = SubSeq(used, 1, Cache!Min({cap, Len(used)}))
  OBVIOUS
<1>5. kept \in Seq(LruKeys) /\ Len(kept) = n /\ \A i \in 1 .. n : kept[i] = used[i]
  <2>1. kept = SubSeq(used, 1, n)
    BY <1>3, <1>4
  <2>2. n <= Len(used)
    BY <1>1, <1>2
  <2> QED
    BY <1>1, <1>2, <2>1, <2>2
<1>6. DOMAIN lru = 1 .. n /\ DOMAIN kept = 1 .. n
  BY <1>1, <1>2, <1>5
<1>7. /\ \A i \in 1 .. n : key[lru[i]] = used[i] /\ value[lru[i]] = latest[used[i]]
      /\ \A i \in 1 .. n : used[i] \in DOMAIN kvs /\ kvs[used[i]] = lru[i]
      /\ \A k \in DOMAIN kvs : \E i \in 1 .. n : k = used[i]
  BY <1>2 DEF CacheInv, CacheItems
<1>8. Cache!MapMatchesList
  <2>1. Cache!IsInjective(lru)
    BY <1>1, <1>2, <1>6 DEF Cache!IsInjective, Distinct
  <2>2. Cache!Range(kvs) = Cache!ToSet(lru)
    <3>1. Cache!Range(kvs) \subseteq Cache!ToSet(lru)
      BY <1>6, <1>7 DEF Cache!Range, Cache!ToSet
    <3>2. Cache!ToSet(lru) \subseteq Cache!Range(kvs)
      BY <1>6, <1>7 DEF Cache!Range, Cache!ToSet
    <3> QED
      BY <3>1, <3>2
  <2>3. \A k \in DOMAIN kvs : key[kvs[k]] = k
    BY <1>7
  <2> QED
    BY <2>1, <2>2, <2>3 DEF Cache!MapMatchesList
<1>9. [i \in DOMAIN lru |-> key[lru[i]]] = kept
  <2>1. kept = [i \in 1 .. n |-> kept[i]]
    BY <1>5, <1>6
  <2>2. \A i \in 1 .. n : kept[i] = key[lru[i]]
    BY <1>5, <1>7
  <2> QED
    BY <1>6, <2>1, <2>2
<1>10. DOMAIN kvs = Cache!ToSet(kept)
  <2>1. Cache!ToSet(kept) = {kept[i] : i \in 1 .. n}
    BY <1>6 DEF Cache!ToSet
  <2>2. \A k \in DOMAIN kvs : k \in {kept[i] : i \in 1 .. n}
    BY <1>5, <1>7
  <2>3. \A i \in 1 .. n : kept[i] \in DOMAIN kvs
    BY <1>5, <1>7
  <2> QED
    BY <2>1, <2>2, <2>3
<1>11. \A k \in DOMAIN kvs : value[kvs[k]] = latest[k]
  BY <1>7
<1> QED
  BY <1>4, <1>8, <1>9, <1>10, <1>11 DEF Cache!HoldsMostRecent

(* What the map and the list of an LRU hold is the cap_ keys that were put *)
(* or found last, in that order and with the values put last, for any      *)
(* capacity, keys and addresses.                                           *)
THEOREM HeldIsMostRecent == Spec => []HoldsMostRecent
<1> DEFINE Inv == subject = "cache" => CacheInv
<1>1. Init => Inv
  BY ContainersAssumption, CacheStarts DEF Init
<1>2. Inv /\ [Next]_vars => Inv'
  <2> SUFFICES ASSUME Inv, [Next]_vars, subject' = "cache" PROVE CacheInv'
    OBVIOUS
  <2>1. subject = "cache" /\ [Cache!Next]_cache
    BY DEF Next, vars
  <2> QED
    BY <2>1, CacheKept
<1>3. Inv => HoldsMostRecent
  BY CacheHolds DEF HoldsMostRecent
<1> QED
  BY <1>1, <1>2, <1>3, PTL DEF Spec

-----------------------------------------------------------------------------
(* BlockList                                                               *)

(* The failures that are not older than from, and what is kept of them.    *)
Since(R, from)    == {i \in 1 .. Len(R) : R[i] >= from}
OnRecord(R, from) == {<<i, R[i]>> : i \in Since(R, from)}

(* Numbered failures are as many as their numbers.                        *)
LEMMA RecordsCounted ==
  ASSUME NEW R \in Seq(Nat), NEW from \in Int
  PROVE  /\ IsFiniteSet(Since(R, from))
         /\ Cardinality(OnRecord(R, from)) = Cardinality(Since(R, from))
         /\ Cardinality(OnRecord(R, from)) \in Nat
<1>1. Len(R) \in Nat
  OBVIOUS
<1>2. IsFiniteSet(1 .. Len(R))
  BY <1>1, FS_Interval
<1>3. PICK S, T, f : /\ S = Since(R, from) /\ T = OnRecord(R, from)
                     /\ f = [i \in S |-> <<i, R[i]>>]
  OBVIOUS
<1>4. S \subseteq 1 .. Len(R) /\ T = {<<i, R[i]>> : i \in S}
  BY <1>3 DEF Since, OnRecord
<1>5. IsFiniteSet(S)
  BY <1>2, <1>4, FS_Subset
<1>6. ExistsBijection(S, T)
  <2>1. f \in [S -> T]
    BY <1>3, <1>4
  <2>2. \A i, j \in S : f[i] = f[j] => i = j
    BY <1>3
  <2>3. \A t \in T : \E i \in S : f[i] = t
    BY <1>3, <1>4
  <2>4. f \in Bijection(S, T)
    BY <2>1, <2>2, <2>3 DEF Bijection, Injection, Surjection, IsInjective
  <2> QED
    BY <2>4 DEF ExistsBijection
<1>7. Cardinality(T) = Cardinality(S) /\ Cardinality(S) \in Nat
  BY <1>5, <1>6, FS_Bijection, FS_CardinalityType
<1> QED
  BY <1>3, <1>5, <1>7

(* The block list counts its members as FiniteSets does.                  *)
LEMMA BlockCardinality == \A S : Block!Cardinality(S) = Cardinality(S)
BY DEF Block!Cardinality, Cardinality

BlockTypesOK ==
  /\ now \in Nat
  /\ block_policy \in [BlockTypes -> Policies \cup {NoPolicy}]
  /\ block_items \subseteq VDiskIds
  /\ suspect_items \in [VDiskIds -> [BlockTypes -> SUBSET (Nat \X Nat)]]
  /\ reports \in [VDiskIds -> [BlockTypes -> Seq(Nat)]]
  /\ checked \in [VDiskIds -> [BlockTypes -> 0 .. now]]

(* Failures are counted after they were reported, for types with a policy. *)
Counted(v, b) ==
  /\ \A i \in 1 .. Len(reports[v][b]) : reports[v][b][i] <= checked[v][b]
  /\ reports[v][b] # <<>> => block_policy[b] # NoPolicy

(* The records of a disk that is not blocked are the failures that were    *)
(* recent when they were counted last, and they are too few.               *)
Suspected(v, b) ==
  IF reports[v][b] = <<>> THEN suspect_items[v][b] = {}
  ELSE /\ Block!Interval(b) > 0
       /\ suspect_items[v][b] = OnRecord(reports[v][b], checked[v][b] - Block!Interval(b))
       /\ Cardinality(suspect_items[v][b]) < Block!Threshold(b)

Cause(v, b) ==
  /\ reports[v][b] # <<>>
  /\ \/ Block!Interval(b) = 0
     \/ \E from \in -Block!Interval(b) .. now :
          Block!Within(v, b, from, from + Block!Interval(b)) >= Block!Threshold(b)

BlockInv ==
  /\ BlockTypesOK
  /\ \A v \in VDiskIds, b \in BlockTypes : Counted(v, b)
  /\ \A v \in VDiskIds \ block_items, b \in BlockTypes : Suspected(v, b)
  /\ \A v \in block_items : \E b \in BlockTypes : Cause(v, b)

(* No failures, no records, no blocked disks.                             *)
LEMMA BlockStarts ==
  ASSUME Block!Init
  PROVE  BlockInv
<1>1. /\ now = 0 /\ block_items = {}
      /\ block_policy \in [BlockTypes -> Policies \cup {NoPolicy}]
      /\ suspect_items = [v \in VDiskIds |-> [b \in BlockTypes |-> {}]]
      /\ reports = [v \in VDiskIds |-> [b \in BlockTypes |-> <<>>]]
      /\ checked = [v \in VDiskIds |-> [b \in BlockTypes |-> 0]]
  BY DEF Block!Init
<1>2. BlockTypesOK
  BY <1>1 DEF BlockTypesOK
<1>3. ASSUME NEW v \in VDiskIds, NEW b \in BlockTypes PROVE Counted(v, b) /\ Suspected(v, b)
  <2>1. reports[v][b] = <<>> /\ suspect_items[v][b] = {} /\ Len(reports[v][b]) = 0
    BY <1>1
  <2> QED
    BY <2>1 DEF Counted, Suspected
<1> QED
  BY <1>1, <1>2, <1>3 DEF BlockInv

(* A policy is two numbers.                                                *)
LEMMA PolicyNumbers ==
  ASSUME ContainersAssumption, BlockTypesOK,
         NEW b \in BlockTypes, block_policy[b] # NoPolicy
  PROVE  Block!Interval(b) \in Nat /\ Block!Threshold(b) \in Nat
<1>1. block_policy[b] \in Policies
  BY DEF BlockTypesOK
<1>2. Policies \subseteq [record_interval_ms : Nat, block_threhold_cnt : Nat]
  BY DEF ContainersAssumption, Block!BlockListParameters
<1> QED
  BY <1>1, <1>2 DEF Block!Interval, Block!Threshold

(* Time going on makes no cause disappear.                                *)
LEMMA TickKeeps ==
  ASSUME ContainersAssumption, BlockInv, Block!Tick
  PROVE  BlockInv'
<1>1. /\ now' = now + 1 /\ now \in Nat
      /\ block_policy' = block_policy /\ block_items' = block_items
      /\ suspect_items' = suspect_items /\ reports' = reports /\ checked' = checked
  BY DEF Block!Tick, BlockInv, BlockTypesOK
<1>2. BlockTypesOK'
  <2>1. 0 .. now \subseteq 0 .. now'
    BY <1>1
  <2> QED
    BY <1>1, <2>1 DEF BlockInv, BlockTypesOK
<1>3. ASSUME NEW v \in VDiskIds, NEW b \in BlockTypes PROVE Counted(v, b)'
  BY <1>1 DEF BlockInv, Counted
<1>4. ASSUME NEW v \in VDiskIds \ block_items, NEW b \in BlockTypes PROVE Suspected(v, b)'
  <2>1. Suspected(v, b)
    BY DEF BlockInv
  <2>2. Block!Interval(b)' = Block!Interval(b) /\ Block!Threshold(b)' = Block!Threshold(b)
    BY <1>1 DEF Block!Interval, Block!Threshold
  <2> QED
    BY <1>1, <2>1, <2>2 DEF Suspected
<1>5. ASSUME NEW v \in block_items, NEW b \in BlockTypes, Cause(v, b) PROVE Cause(v, b)'
  <2>1. block_policy[b] # NoPolicy
    <3>1. v \in VDiskIds
      BY DEF BlockInv, BlockTypesOK
    <3> QED
      BY <1>5, <3>1 DEF Cause, BlockInv, Counted
  <2>2. Block!Interval(b) \in Nat
    BY <2>1, PolicyNumbers DEF BlockInv
  <2>3. Block!Interval(b)' = Block!Interval(b) /\ Block!Threshold(b)' = Block!Threshold(b)
    BY <1>1 DEF Block!Interval, Block!Threshold
  <2>4. \A x, y : Block!Within(v, b, x, y)' = Block!Within(v, b, x, y)
    BY <1>1 DEF Block!Within
  <2>5. -Block!Interval(b) .. now \subseteq -Block!Interval(b) .. now'
    BY <1>1, <2>2
  <2> QED
    BY <1>1, <1>5, <2>3, <2>4, <2>5 DEF Cause
<1> QED
  BY <1>1, <1>2, <1>3, <1>4, <1>5 DEF BlockInv

(* A failure added at the end: what is recent of all is recent of what was *)
(* kept, if time did not go back, or is the new one.                       *)
LEMMA RecordsFollow ==
  ASSUME NEW R \in Seq(Nat), NEW t \in Nat, NEW old \in Int, NEW new \in Int, old <= new,
         NEW kept, kept = OnRecord(R, old) \/ (R = <<>> /\ kept = {})
  PROVE  {r \in kept \cup {<<Len(R) + 1, t>>} : r[2] >= new} = OnRecord(Append(R, t), new)
<1>1. PICK Q : Q = Append(R, t)
  OBVIOUS
<1>2. PICK n \in Nat : n = Len(R)
  OBVIOUS
<1>3. /\ Q \in Seq(Nat) /\ Len(Q) = n + 1 /\ Q[n + 1] = t
      /\ \A i \in 1 .. n : Q[i] = R[i]
  BY <1>1, <1>2, AppendProperties
<1>4. \A i \in 1 .. n : R[i] \in Nat
  BY <1>2
<1>5. kept \subseteq {<<i, R[i]>> : i \in 1 .. n}
  BY <1>2 DEF OnRecord, Since
<1>6. \A i \in 1 .. n : R[i] >= new => <<i, R[i]>> \in kept
  <2>1. ASSUME NEW i \in 1 .. n, R[i] >= new PROVE <<i, R[i]>> \in kept
    <3>1. kept = OnRecord(R, old)
      <4>1. n # 0
        OBVIOUS
      <4> QED
        BY <1>2, <4>1
    <3>2. i \in Since(R, old)
      BY <1>2, <1>4, <2>1 DEF Since
    <3> QED
      BY <3>1, <3>2 DEF OnRecord
  <2> QED
    BY <2>1
<1>7. PICK A : A = {r \in kept \cup {<<n + 1, t>>} : r[2] >= new}
  OBVIOUS
<1>8. PICK B : B = OnRecord(Q, new)
  OBVIOUS
<1>9. B = {<<i, Q[i]>> : i \in {j \in 1 .. n + 1 : Q[j] >= new}}
  BY <1>3, <1>8 DEF OnRecord, Since
<1>10. A \subseteq B
  <2>1. ASSUME NEW r \in kept, r[2] >= new PROVE r \in B
    <3>1. PICK i \in 1 .. n : r = <<i, R[i]>>
      BY <1>5
    <3>2. i \in 1 .. n + 1 /\ Q[i] = R[i] /\ Q[i] >= new
      BY <1>3, <2>1, <3>1
    <3> QED
      BY <1>9, <3>1, <3>2
  <2>2. ASSUME t >= new PROVE <<n + 1, t>> \in B
    BY <1>3, <1>9, <2>2
  <2> QED
    BY <1>7, <2>1, <2>2
<1>11. B \subseteq A
  <2>1. ASSUME NEW i \in 1 .. n + 1, Q[i] >= new PROVE <<i, Q[i]>> \in A
    <3>1. CASE i = n + 1
      BY <1>3, <1>7, <2>1, <3>1
    <3>2. CASE i # n + 1
      <4>1. i \in 1 .. n /\ Q[i] = R[i]
        BY <1>3, <3>2
      <4> QED
        BY <1>6, <1>7, <2>1, <4>1
    <3> QED
      BY <3>1, <3>2
  <2> QED
    BY <1>9, <2>1
<1> QED
  BY <1>1, <1>2, <1>7, <1>8, <1>10, <1>11

(* A failure is counted with the others that are recent, whatever the     *)
(* clock did between its readings.                                        *)
LEMMA ReportFailedKeeps ==
  ASSUME ContainersAssumption, BlockInv,
         NEW v \in VDiskIds, NEW b \in BlockTypes, Block!ReportFailed(v, b)
  PROVE  BlockInv'
<1> DEFINE R == reports[v][b]
           stamped(t1) == suspect_items[v][b] \cup {<<Len(R) + 1, t1>>}
           left(t1, t2) == IF Block!Interval(b) > 0
                           THEN Block!Recent(stamped(t1), b, t2) ELSE stamped(t1)
<1>1. /\ v \in VDiskIds \ block_items /\ block_policy[b] # NoPolicy
      /\ block_policy' = block_policy
  BY DEF Block!ReportFailed, Block!Heard
<1>2. PICK t1 \in now .. MaxNow, t2 \in now .. MaxNow :
        /\ t1 <= t2 /\ now' = t2
        /\ suspect_items' = [suspect_items EXCEPT ![v][b] = Block!Kept(left(t1, t2), b)]
        /\ block_items' = IF Block!Blocks(left(t1, t2), b)
                          THEN block_items \cup {v} ELSE block_items
        /\ reports' = [reports EXCEPT ![v][b] = Append(@, t1)]
        /\ checked' = [checked EXCEPT ![v][b] = t2]
  BY DEF Block!ReportFailed
<1>3. BlockTypesOK /\ now \in Nat /\ t1 \in Nat /\ t2 \in Nat /\ now <= t1 /\ now <= t2
  BY DEF BlockInv, BlockTypesOK
<1>4. /\ R \in Seq(Nat) /\ checked[v][b] \in 0 .. now
      /\ suspect_items[v][b] \in SUBSET (Nat \X Nat)
  BY <1>3 DEF BlockTypesOK
<1>5. PICK I \in Nat, h \in Nat : I = Block!Interval(b) /\ h = Block!Threshold(b)
  BY <1>1, <1>3, PolicyNumbers
<1>6. PICK Q : Q = Append(R, t1)
  OBVIOUS
<1>7. /\ Q \in Seq(Nat) /\ Len(Q) = Len(R) + 1 /\ Q # <<>> /\ Len(R) \in Nat
      /\ \A i \in 1 .. Len(Q) : Q[i] <= t2
  <2>1. /\ Q \in Seq(Nat) /\ Len(Q) = Len(R) + 1 /\ Q[Len(R) + 1] = t1
        /\ \A i \in 1 .. Len(R) : Q[i] = R[i]
    BY <1>3, <1>4, <1>6, AppendProperties
  <2>2. \A i \in 1 .. Len(R) : R[i] \in Nat /\ R[i] <= checked[v][b]
    BY <1>4 DEF BlockInv, Counted
  <2>3. Len(R) \in Nat /\ Q # <<>>
    BY <1>4, <2>1
  <2>4. ASSUME NEW i \in 1 .. Len(Q) PROVE Q[i] <= t2
    <3>1. i = Len(R) + 1 \/ i \in 1 .. Len(R)
      BY <2>1, <2>3
    <3>2. CASE i = Len(R) + 1
      BY <1>2, <2>1, <3>2
    <3>3. CASE i \in 1 .. Len(R)
      <4>1. Q[i] = R[i] /\ R[i] <= checked[v][b] /\ R[i] \in Nat
        BY <2>1, <2>2, <3>3
      <4> QED
        BY <1>3, <1>4, <4>1
    <3> QED
      BY <3>1, <3>2, <3>3
  <2> QED
    BY <2>1, <2>3, <2>4
<1>8. PICK L : L = left(t1, t2)
  OBVIOUS
<1>9. L \in SUBSET (Nat \X Nat)
  <2>1. stamped(t1) \in SUBSET (Nat \X Nat)
    BY <1>3, <1>4
  <2>2. L \subseteq stamped(t1)
    BY <1>8 DEF Block!Recent
  <2> QED
    BY <2>1, <2>2
<1>10. I > 0 => L = OnRecord(Q, t2 - I)
  <2>1. ASSUME I > 0 PROVE L = OnRecord(Q, t2 - I)
    <3>1. L = {r \in suspect_items[v][b] \cup {<<Len(R) + 1, t1>>} : r[2] >= t2 - I}
      BY <1>5, <1>8, <2>1 DEF Block!Recent
    <3>2. Suspected(v, b)
      BY <1>1 DEF BlockInv
    <3>3. PICK old \in Int : old = checked[v][b] - I
      BY <1>4
    <3>4. old <= t2 - I /\ t2 - I \in Int
      <4>1. checked[v][b] \in Int /\ checked[v][b] <= t2 /\ t2 \in Int /\ I \in Int
        BY <1>3, <1>4
      <4>2. PICK x \in Int : x = checked[v][b]
        BY <4>1
      <4> QED
        BY ONLY <4>1, <4>2, <3>3
    <3>5. suspect_items[v][b] = OnRecord(R, old) \/ (R = <<>> /\ suspect_items[v][b] = {})
      BY <1>5, <3>2, <3>3 DEF Suspected
    <3> HIDE DEF R
    <3>6. {r \in suspect_items[v][b] \cup {<<Len(R) + 1, t1>>} : r[2] >= t2 - I} = OnRecord(Q, t2 - I)
      BY <1>3, <1>4, <1>6, <3>4, <3>5, RecordsFollow
    <3> QED
      BY <3>1, <3>6
  <2> QED
    BY <2>1
<1>11. L = OnRecord(Q, t2 - I) => Cardinality(L) \in Nat /\ Cardinality(L) = Cardinality(Since(Q, t2 - I))
  <2>1. t2 - I \in Int
    BY <1>3
  <2> QED
    BY <1>7, <2>1, RecordsCounted
<1>12. Block!Blocks(L, b) <=> (I > 0 => Cardinality(L) >= h)
  BY <1>5, BlockCardinality DEF Block!Blocks
<1> HIDE DEF left, stamped
<1>13. /\ reports'[v][b] = Q /\ checked'[v][b] = t2
       /\ suspect_items'[v][b] = Block!Kept(L, b)
  BY <1>2, <1>3, <1>6, <1>8 DEF BlockTypesOK
<1>14. \A u \in VDiskIds, c \in BlockTypes : <<u, c>> # <<v, b>> =>
         /\ reports'[u][c] = reports[u][c] /\ checked'[u][c] = checked[u][c]
         /\ suspect_items'[u][c] = suspect_items[u][c]
  BY <1>2, <1>3 DEF BlockTypesOK
<1>15. /\ \A c : Block!Interval(c)' = Block!Interval(c)
       /\ \A c : Block!Threshold(c)' = Block!Threshold(c)
  BY <1>1 DEF Block!Interval, Block!Threshold
<1>16. Block!Kept(L, b) \in SUBSET (Nat \X Nat)
  BY <1>9 DEF Block!Kept
<1>17. BlockTypesOK'
  <2>1. reports' \in [VDiskIds -> [BlockTypes -> Seq(Nat)]]
    BY <1>2, <1>3, <1>6, <1>7 DEF BlockTypesOK
  <2>2. suspect_items' \in [VDiskIds -> [BlockTypes -> SUBSET (Nat \X Nat)]]
    BY <1>2, <1>3, <1>8, <1>16 DEF BlockTypesOK
  <2>3. checked' \in [VDiskIds -> [BlockTypes -> 0 .. now']]
    <3>1. checked \in [VDiskIds -> [BlockTypes -> 0 .. now']]
      <4>1. 0 .. now \subseteq 0 .. now'
        BY <1>2, <1>3
      <4> QED
        BY <1>3, <4>1 DEF BlockTypesOK
    <3>2. t2 \in 0 .. now'
      BY <1>2, <1>3
    <3> QED
      BY <1>2, <3>1, <3>2
  <2>4. block_items' \subseteq VDiskIds
    BY <1>2, <1>3 DEF BlockTypesOK
  <2> QED
    BY <1>1, <1>2, <1>3, <2>1, <2>2, <2>3, <2>4 DEF BlockTypesOK
<1>18. ASSUME NEW u \in VDiskIds, NEW c \in BlockTypes PROVE Counted(u, c)'
  <2>1. CASE u = v /\ c = b
    BY <1>1, <1>7, <1>13, <2>1 DEF Counted
  <2>2. CASE ~(u = v /\ c = b)
    <3>1. reports'[u][c] = reports[u][c] /\ checked'[u][c] = checked[u][c]
      BY <1>14, <2>2
    <3>2. Counted(u, c)
      BY DEF BlockInv
    <3> QED
      BY <1>1, <3>1, <3>2 DEF Counted
  <2> QED
    BY <2>1, <2>2
<1>19. ASSUME NEW u \in VDiskIds \ block_items', NEW c \in BlockTypes PROVE Suspected(u, c)'
  <2>1. CASE u = v /\ c = b
    <3>1. ~ Block!Blocks(L, b)
      BY <1>2, <1>8, <2>1
    <3>2. I > 0 /\ ~(Cardinality(L) >= h)
      BY <1>12, <3>1
    <3>3. suspect_items'[v][b] = L
      BY <1>13, <3>1 DEF Block!Kept
    <3>4. Cardinality(L) < h /\ L = OnRecord(Q, t2 - I)
      BY <1>10, <1>11, <3>2
    <3> QED
      BY <1>5, <1>7, <1>13, <1>15, <2>1, <3>2, <3>3, <3>4 DEF Suspected
  <2>2. CASE ~(u = v /\ c = b)
    <3>1. /\ reports'[u][c] = reports[u][c] /\ checked'[u][c] = checked[u][c]
          /\ suspect_items'[u][c] = suspect_items[u][c]
      BY <1>14, <2>2
    <3>2. Suspected(u, c)
      BY <1>2 DEF BlockInv
    <3> QED
      BY <1>15, <3>1, <3>2 DEF Suspected
  <2> QED
    BY <2>1, <2>2
<1>20. ASSUME NEW u \in block_items', u \notin block_items PROVE Cause(u, b)'
  <2>1. u = v /\ Block!Blocks(L, b)
    BY <1>2, <1>8, <1>20
  <2>2. reports'[u][b] = Q
    BY <1>13, <2>1
  <2>3. CASE I = 0
    BY <1>5, <1>7, <1>15, <2>2, <2>3 DEF Cause
  <2>4. CASE I > 0
    <3>1. L = OnRecord(Q, t2 - I) /\ Cardinality(L) >= h
      BY <1>10, <1>12, <2>1, <2>4
    <3>2. Cardinality(Since(Q, t2 - I)) >= h
      BY <1>11, <3>1
    <3>3. PICK from \in Int : from = t2 - I
      BY <1>3
    <3>4. from \in -I .. t2 /\ from + I = t2
      BY <1>3, <3>3
    <3>5. Block!Within(u, b, from, from + I)' = Cardinality(Since(Q, from))
      <4>1. {i \in DOMAIN Q : Q[i] \in from .. t2} = Since(Q, from)
        <5>1. DOMAIN Q = 1 .. Len(Q)
          BY <1>7
        <5>2. \A i \in 1 .. Len(Q) : Q[i] \in Int /\ Q[i] <= t2
          BY <1>7
        <5> QED
          BY <1>3, <5>1, <5>2 DEF Since
      <4> QED
        BY <2>2, <3>4, <4>1, BlockCardinality DEF Block!Within
    <3> QED
      BY <1>2, <1>5, <1>7, <1>15, <2>2, <3>2, <3>3, <3>4, <3>5 DEF Cause
  <2> QED
    BY <2>3, <2>4
<1>21. ASSUME NEW u \in block_items, NEW c \in BlockTypes, Cause(u, c) PROVE Cause(u, c)'
  <2>1. u \in VDiskIds /\ u # v
    BY <1>1, <1>3 DEF BlockTypesOK
  <2>2. reports'[u][c] = reports[u][c]
    BY <1>14, <2>1
  <2>3. block_policy[c] # NoPolicy
    BY <1>21, <2>1 DEF Cause, BlockInv, Counted
  <2>4. Block!Interval(c) \in Nat
    BY <1>3, <2>3, PolicyNumbers
  <2>5. \A x, y : Block!Within(u, c, x, y)' = Block!Within(u, c, x, y)
    BY <2>2 DEF Block!Within
  <2>6. -Block!Interval(c) .. now \subseteq -Block!Interval(c) .. now'
    BY <1>2, <1>3, <2>4
  <2> QED
    BY <1>15, <1>21, <2>2, <2>5, <2>6 DEF Cause
<1>22. \A u \in block_items' : \E c \in BlockTypes : Cause(u, c)'
  BY <1>20, <1>21 DEF BlockInv
<1> QED
  BY <1>17, <1>18, <1>19, <1>22 DEF BlockInv

(* Every step of the block list keeps its invariant.                      *)
LEMMA BlockKept ==
  ASSUME ContainersAssumption, BlockInv, [Block!Next]_block
  PROVE  BlockInv'
<1>1. CASE UNCHANGED block
  <2>1. /\ block_policy' = block_policy /\ block_items' = block_items /\ now' = now
        /\ suspect_items' = suspect_items /\ reports' = reports /\ checked' = checked
    BY <1>1 DEF block
  <2>2. BlockTypesOK'
    BY <2>1 DEF BlockInv, BlockTypesOK
  <2>3. \A v, b : Counted(v, b)' <=> Counted(v, b)
    BY <2>1 DEF Counted
  <2>4. \A v, b : Suspected(v, b)' <=> Suspected(v, b)
    BY <2>1 DEF Suspected, Block!Interval, Block!Threshold
  <2>5. \A v, b : Cause(v, b)' <=> Cause(v, b)
    BY <2>1 DEF Cause, Block!Interval, Block!Threshold, Block!Within
  <2> QED
    BY <2>1, <2>2, <2>3, <2>4, <2>5 DEF BlockInv
<1>2. CASE Block!Tick
  BY <1>2, TickKeeps
<1>3. ASSUME NEW v \in VDiskIds, NEW b \in BlockTypes, Block!ReportFailed(v, b)
      PROVE  BlockInv'
  BY <1>3, ReportFailedKeeps
<1> QED
  BY <1>1, <1>2, <1>3 DEF Block!Next

(* The property, from the records.                                        *)
LEMMA BlocksRightly ==
  ASSUME ContainersAssumption, BlockInv
  PROVE  Block!BlockedIffCause
<1>1. \A v \in block_items : \E b \in BlockTypes : Cause(v, b)
  BY DEF BlockInv
<1>2. ASSUME NEW v \in VDiskIds \ block_items, NEW b \in BlockTypes, reports[v][b] # <<>>
      PROVE  /\ Block!Interval(b) > 0
             /\ Block!Within(v, b, checked[v][b] - Block!Interval(b), now) < Block!Threshold(b)
  <2>1. Suspected(v, b) /\ Counted(v, b)
    BY DEF BlockInv
  <2>2. PICK R, c : R = reports[v][b] /\ c = checked[v][b]
    OBVIOUS
  <2>3. R \in Seq(Nat) /\ c \in Nat /\ c <= now /\ now \in Nat
    BY <2>2 DEF BlockInv, BlockTypesOK
  <2>4. PICK I \in Nat, h \in Nat : I = Block!Interval(b) /\ h = Block!Threshold(b)
    BY <1>2, <2>1, PolicyNumbers DEF BlockInv, Counted
  <2>5. PICK from \in Int : from = c - I
    BY <2>3
  <2>6. I > 0 /\ Cardinality(OnRecord(R, from)) < h
    BY <1>2, <2>1, <2>2, <2>4, <2>5 DEF Suspected
  <2>7. {i \in DOMAIN R : R[i] \in from .. now} = Since(R, from)
    <3>1. DOMAIN R = 1 .. Len(R)
      BY <2>3
    <3>2. \A i \in 1 .. Len(R) : R[i] \in Int /\ R[i] <= now
      <4>1. \A i \in 1 .. Len(R) : R[i] \in Nat /\ R[i] <= c
        BY <2>1, <2>2, <2>3 DEF Counted
      <4> QED
        BY <2>3, <4>1
    <3> QED
      BY <2>3, <3>1, <3>2 DEF Since
  <2>8. Block!Within(v, b, from, now) = Cardinality(Since(R, from))
    BY <2>2, <2>7, BlockCardinality DEF Block!Within
  <2>9. Cardinality(Since(R, from)) = Cardinality(OnRecord(R, from))
    BY <2>3, RecordsCounted
  <2> QED
    BY <2>2, <2>4, <2>5, <2>6, <2>8, <2>9
<1> QED
  BY <1>1, <1>2 DEF Block!BlockedIffCause, Cause

(* ReportFailed blocks a disk for a cause and overlooks none, for any      *)
(* disks, types and policies and however the clock goes on in it.          *)
THEOREM BlocksForCause == Spec => []BlockedIffCause
<1> DEFINE Inv == subject = "block" => BlockInv
<1>1. Init => Inv
  BY BlockStarts DEF Init
<1>2. Inv /\ [Next]_vars => Inv'
  <2> SUFFICES ASSUME Inv, [Next]_vars, subject' = "block" PROVE BlockInv'
    OBVIOUS
  <2>1. subject = "block" /\ [Block!Next]_block
    BY DEF Next, vars
  <2> QED
    BY <2>1, ContainersAssumption, BlockKept
<1>3. Inv => BlockedIffCause
  BY ContainersAssumption, BlocksRightly DEF BlockedIffCause
<1> QED
  BY <1>1, <1>2, <1>3, PTL DEF Spec

-----------------------------------------------------------------------------
(* MapList                                                                 *)

MapNumbers ==
  /\ Wrap \in Nat /\ Wrap > 0 /\ MapKeys \subseteq Nat /\ FirstCnts \subseteq Nat
  /\ \A c \in Cnts : c \in Nat /\ c > 0 /\ Wrap % c = 0
  /\ \A c \in FirstCnts : c # 0 => Wrap % c = 0

(* What is assumed of the constants, as the proofs use it.                *)
LEMMA MapConstants ==
  ASSUME ContainersAssumption
  PROVE  /\ MapNumbers /\ IsFiniteSet(MapKeys) /\ IsFiniteSet(Cnts) /\ Limits \subseteq Nat
         /\ \E c \in Cnts : /\ c >= Cardinality(MapKeys)
                            /\ \A first \in FirstCnts : c >= first
<1>1. Map!Cardinality(MapKeys) = Cardinality(MapKeys)
  BY DEF Map!Cardinality, Cardinality
<1>2. IsFiniteSet(MapKeys) /\ IsFiniteSet(Cnts)
  BY DEF ContainersAssumption, Map!MapListParameters, Map!IsFiniteSet, IsFiniteSet
<1> QED
  BY <1>1, <1>2 DEF ContainersAssumption, Map!MapListParameters, MapNumbers

(* Min of the map list is the least member.                               *)
LEMMA MapMin ==
  ASSUME NEW T \in SUBSET Nat, T # {}
  PROVE  Map!Min(T) \in T /\ \A y \in T : Map!Min(T) <= y
<1>1. PICK m \in T : \A y \in T : m <= y
  BY Least
<1> QED
  BY <1>1 DEF Map!Min

(* As many buckets as the property counts                                  *)
LEMMA BucketsFinite ==
  ASSUME ContainersAssumption, bucket_cnt \in Nat
  PROVE  IsFiniteSet(Map!Buckets) /\ Cardinality(Map!Buckets) \in Nat
<1>1. IsFiniteSet(0 .. bucket_cnt - 1)
  <2>1. 0 \in Int /\ bucket_cnt - 1 \in Int
    OBVIOUS
  <2> QED
    BY <2>1, FS_Interval
<1>2. IsFiniteSet(Cnts \X (0 .. bucket_cnt - 1))
  BY <1>1, MapConstants, FS_Product
<1>3. Map!Buckets \subseteq Cnts \X (0 .. bucket_cnt - 1)
  BY DEF Map!Buckets
<1> QED
  BY <1>2, <1>3, FS_Subset, FS_CardinalityType

(* The buckets of one count.                                              *)
LEMMA BucketsOf ==
  ASSUME NEW c \in Nat
  PROVE  IsFiniteSet({c} \X (0 .. c - 1)) /\ Cardinality({c} \X (0 .. c - 1)) = c
<1>1. IsFiniteSet({c}) /\ Cardinality({c}) = 1
  BY FS_Singleton
<1>2. IsFiniteSet(0 .. c - 1) /\ Cardinality(0 .. c - 1) = c
  <2>1. PICK a \in Int, b \in Int : a = 0 /\ b = c - 1
    OBVIOUS
  <2>2. IsFiniteSet(a .. b) /\ Cardinality(a .. b) = IF a > b THEN 0 ELSE b - a + 1
    BY FS_Interval
  <2>3. (IF a > b THEN 0 ELSE b - a + 1) = c
    BY <2>1
  <2> QED
    BY <2>1, <2>2, <2>3
<1>3. 1 * c = c
  OBVIOUS
<1> QED
  BY <1>1, <1>2, <1>3, FS_Product

(* A larger count brings that many buckets more.                           *)
LEMMA BucketsGrow ==
  ASSUME ContainersAssumption, bucket_cnt \in Nat, bucket_cnt' \in Cnts, bucket_cnt <= bucket_cnt'
  PROVE  /\ bucket_cnt' <= Cardinality(Map!Buckets)'
         /\ bucket_cnt # bucket_cnt' =>
              Cardinality(Map!Buckets) + bucket_cnt' <= Cardinality(Map!Buckets)'
<1>1. PICK c, E, P, O : /\ c \in Nat /\ c = bucket_cnt' /\ E = {c} \X (0 .. c - 1)
                        /\ P = Map!Buckets' /\ O = Map!Buckets
  BY MapConstants DEF MapNumbers
<1>2. IsFiniteSet(E) /\ Cardinality(E) = c
  BY <1>1, BucketsOf
<1>3. IsFiniteSet(P) /\ Cardinality(P) \in Nat
  <2>1. IsFiniteSet(0 .. c - 1)
    <3>1. 0 \in Int /\ c - 1 \in Int
      BY <1>1
    <3> QED
      BY <3>1, FS_Interval
  <2>2. IsFiniteSet(Cnts \X (0 .. c - 1))
    BY <2>1, MapConstants, FS_Product
  <2>3. P \subseteq Cnts \X (0 .. c - 1)
    BY <1>1 DEF Map!Buckets
  <2> QED
    BY <2>2, <2>3, FS_Subset, FS_CardinalityType
<1>4. IsFiniteSet(O) /\ Cardinality(O) \in Nat
  BY <1>1, BucketsFinite
<1>5. \A p : p \in P <=> /\ p \in Cnts \X (0 .. c - 1)
                         /\ p[1] <= c /\ p[2] < p[1]
  BY <1>1 DEF Map!Buckets
<1>6. \A p : p \in O <=> /\ p \in Cnts \X (0 .. bucket_cnt - 1)
                         /\ p[1] <= bucket_cnt /\ p[2] < p[1]
  BY <1>1 DEF Map!Buckets
<1>7. E \subseteq P
  BY <1>1, <1>5
<1>8. O \subseteq P
  <2>1. 0 .. bucket_cnt - 1 \subseteq 0 .. c - 1
    <3>1. bucket_cnt \in Nat /\ bucket_cnt <= c /\ c \in Nat
      BY <1>1
    <3> QED
      BY <3>1
  <2>2. \A d \in Cnts : d <= bucket_cnt => d <= c
    BY <1>1, MapConstants DEF MapNumbers
  <2>3. ASSUME NEW p \in O PROVE p \in P
    <3>1. p \in Cnts \X (0 .. bucket_cnt - 1) /\ p[1] <= bucket_cnt /\ p[2] < p[1]
      BY <1>6
    <3>2. p \in Cnts \X (0 .. c - 1) /\ p[1] \in Cnts
      BY <2>1, <3>1
    <3> QED
      BY <1>5, <2>2, <3>1, <3>2
  <2> QED
    BY <2>3
<1>9. ASSUME bucket_cnt # c PROVE O \cap E = {}
  <2>1. ASSUME NEW p \in O, p \in E PROVE FALSE
    <3>1. p[1] <= bucket_cnt
      BY <1>6, <2>1
    <3>2. p[1] = c
      BY <1>1, <2>1
    <3> QED
      BY <1>1, <1>9, <3>1, <3>2
  <2> QED
    BY <2>1
<1>10. c <= Cardinality(P)
  BY <1>2, <1>3, <1>7, FS_Subset
<1>11. ASSUME bucket_cnt # c PROVE Cardinality(O) + c <= Cardinality(P)
  <2>1. Cardinality({}) = 0
    BY FS_EmptySet
  <2>2. /\ IsFiniteSet(O \cup E)
        /\ Cardinality(O \cup E) = Cardinality(O) + Cardinality(E) - Cardinality(O \cap E)
    BY <1>2, <1>4, FS_Union
  <2>3. O \cup E \subseteq P
    BY <1>7, <1>8
  <2>4. Cardinality(O \cup E) <= Cardinality(P)
    BY <1>3, <2>3, FS_Subset
  <2>5. O \cap E = {}
    BY <1>9, <1>11
  <2>6. Cardinality(O \cup E) = Cardinality(O) + c
    <3>1. Cardinality(O \cap E) = 0
      BY <2>1, <2>5
    <3>2. c \in Int
      BY <1>1
    <3> QED
      BY <1>2, <1>4, <2>2, <3>1, <3>2
  <2> QED
    BY <2>4, <2>6
<1> QED
  BY <1>1, <1>10, <1>11

(* The later a key's bucket comes, the fewer Runs it may have waited.      *)
MapInv ==
  /\ kvs_ \subseteq MapKeys /\ bucket_cnt \in Cnts \cup FirstCnts
  /\ kvs_ # {} => bucket_cnt \in Cnts
  /\ curr_bucket_idx \in Nat /\ waits \in [MapKeys -> Nat]
  /\ \A k \in kvs_ : waits[k] + Map!Offset(k) < Cardinality(Map!Buckets)

(* A key's bucket comes within one tour.                                  *)
LEMMA OffsetRange ==
  ASSUME ContainersAssumption, bucket_cnt \in Nat, bucket_cnt > 0, curr_bucket_idx \in Nat,
         NEW k \in MapKeys
  PROVE  Map!Offset(k) \in Nat /\ Map!Offset(k) < bucket_cnt
<1>1. PICK a \in Int, c \in Nat : a = k - curr_bucket_idx /\ c = bucket_cnt
  BY MapConstants DEF MapNumbers
<1>2. a % c \in Int /\ 0 <= a % c /\ a % c < c
  <2>1. c > 0
    BY <1>1
  <2> QED
    BY <2>1, DivMod
<1> QED
  BY <1>1, <1>2 DEF Map!Offset

(* Passing p buckets brings every bucket behind them nearer by p.          *)
LEMMA OffsetShrinks ==
  ASSUME ContainersAssumption, bucket_cnt \in Nat, bucket_cnt > 0, Wrap % bucket_cnt = 0,
         curr_bucket_idx \in Nat, bucket_cnt' = bucket_cnt,
         NEW p \in Nat, curr_bucket_idx' = (curr_bucket_idx + p) % Wrap,
         NEW k \in MapKeys, p <= Map!Offset(k)
  PROVE  Map!Offset(k)' = Map!Offset(k) - p
<1>1. PICK c \in Nat, w \in Nat, x \in Int, y \in Int, e \in Int :
        /\ c = bucket_cnt /\ w = Wrap /\ x = curr_bucket_idx
        /\ e = k - x /\ y = x + p
  BY MapConstants DEF MapNumbers
<1>2. c > 0 /\ w > 0 /\ k \in Int
  BY <1>1, MapConstants DEF MapNumbers
<1>3. PICK q, z : q = y \div w /\ z = y % w
  OBVIOUS
<1>4. q \in Int /\ z \in Int /\ y = w * q + z
  BY <1>1, <1>2, <1>3, DivMod
<1>5. PICK v, r : v = w \div c /\ r = w % c
  OBVIOUS
<1>6. v \in Int /\ r \in Int /\ w = c * v + r
  BY <1>1, <1>2, <1>5, DivMod
<1>7. r = 0
  BY <1>1, <1>5
<1>8. PICK a, o : a = e \div c /\ o = e % c
  OBVIOUS
<1>9. a \in Int /\ o \in Int /\ 0 <= o /\ o < c /\ e = c * a + o
  BY <1>1, <1>2, <1>8, DivMod
<1>10. Map!Offset(k) = o
  BY <1>1, <1>8 DEF Map!Offset
<1>11. k - z = c * (a + v * q) + (o - p)
  <2>1. w * q = c * (v * q)
    BY <1>1, <1>4, <1>6, <1>7
  <2>2. k - z = e - p + w * q
    BY <1>1, <1>2, <1>4
  <2>3. c * (a + v * q) = c * a + c * (v * q)
    BY <1>1, <1>4, <1>6, <1>9
  <2>4. c * (v * q) \in Int /\ c * a \in Int
    BY <1>1, <1>4, <1>6, <1>9
  <2> QED
    BY <1>4, <1>9, <2>1, <2>2, <2>3, <2>4
<1>12. 0 <= o - p /\ o - p < c /\ o - p \in Int /\ a + v * q \in Int /\ k - z \in Int
  BY <1>1, <1>2, <1>4, <1>6, <1>9, <1>10
<1>13. (k - z) % c = o - p
  <2>1. PICK dd \in Int, qq \in Int, rr \in Int : dd = k - z /\ qq = a + v * q /\ rr = o - p
    BY <1>12
  <2>2. dd = c * qq + rr /\ 0 <= rr /\ rr < c /\ c \in Int /\ c > 0
    BY <1>2, <1>11, <1>12, <2>1
  <2>3. rr = dd % c
    BY <2>2, DivModUnique
  <2> QED
    BY <2>1, <2>3
<1>14. curr_bucket_idx' = z
  BY <1>1, <1>3
<1> QED
  BY <1>1, <1>10, <1>13, <1>14 DEF Map!Offset

(* The buckets counted in the next state.                                 *)
LEMMA BucketsPrimed ==
  (ContainersAssumption /\ bucket_cnt \in Nat => Cardinality(Map!Buckets) \in Nat)'
<1>1. ContainersAssumption /\ bucket_cnt \in Nat => Cardinality(Map!Buckets) \in Nat
  BY BucketsFinite
<1> QED
  BY <1>1, PTL

(* A new item, and a rehash: the new buckets make up for every wait, for  *)
(* they are more than any item can be away.                               *)
LEMMA PushKeeps ==
  ASSUME ContainersAssumption, MapInv, NEW k \in MapKeys, Map!Push(k)
  PROVE  MapInv'
<1>1. /\ bucket_cnt \in Nat /\ curr_bucket_idx \in Nat /\ curr_bucket_idx' = curr_bucket_idx
      /\ kvs_' = kvs_ \cup {k} /\ kvs_' \subseteq MapKeys
      /\ waits' = [waits EXCEPT ![k] = 0]
      /\ bucket_cnt' = Map!Grown(Map!Cardinality(kvs_'))
  BY MapConstants DEF MapInv, MapNumbers, Map!Push
<1>2. PICK n \in Nat : n = Map!Cardinality(kvs_') /\ n <= Cardinality(MapKeys)
  <2>1. Map!Cardinality(kvs_') = Cardinality(kvs_')
    BY DEF Map!Cardinality, Cardinality
  <2>2. IsFiniteSet(kvs_') /\ Cardinality(kvs_') <= Cardinality(MapKeys)
    BY <1>1, MapConstants, FS_Subset
  <2> QED
    BY <2>1, <2>2, FS_CardinalityType
<1>3. bucket_cnt' \in Cnts /\ bucket_cnt <= bucket_cnt'
  <2>1. PICK T : T = {c \in Cnts : c >= n /\ c >= bucket_cnt}
    OBVIOUS
  <2>2. T \in SUBSET Nat /\ T # {}
    <3>1. PICK c \in Cnts : /\ c >= Cardinality(MapKeys)
                            /\ \A first \in FirstCnts : c >= first
      BY MapConstants
    <3>2. Cardinality(MapKeys) \in Nat /\ \A d \in Cnts : d \in Nat
      BY MapConstants, FS_CardinalityType DEF MapNumbers
    <3>3. c >= n
      BY <1>2, <3>1, <3>2
    <3>4. CASE bucket_cnt \in FirstCnts
      BY <2>1, <3>1, <3>2, <3>3, <3>4
    <3>5. CASE bucket_cnt \in Cnts
      <4>1. CASE c >= bucket_cnt
        BY <2>1, <3>2, <3>3, <4>1
      <4>2. CASE ~(c >= bucket_cnt)
        <5>1. bucket_cnt >= n /\ bucket_cnt >= bucket_cnt
          BY <1>1, <1>2, <3>2, <3>3, <4>2
        <5> QED
          BY <2>1, <3>2, <3>5, <5>1
      <4> QED
        BY <4>1, <4>2
    <3> QED
      BY <3>4, <3>5 DEF MapInv
  <2>3. Map!Min(T) \in T
    BY <2>2, MapMin
  <2>4. bucket_cnt' = Map!Min(T)
    BY <1>1, <1>2, <2>1 DEF Map!Grown
  <2> QED
    BY <1>1, <2>1, <2>2, <2>3, <2>4
<1>4. PICK c, old, new : /\ c \in Nat /\ old \in Nat /\ c = bucket_cnt' /\ c > 0
                         /\ old = Cardinality(Map!Buckets)
                         /\ new = Cardinality(Map!Buckets)'
  <2>1. bucket_cnt' \in Nat /\ bucket_cnt' > 0
    BY <1>3, MapConstants DEF MapNumbers
  <2>2. Cardinality(Map!Buckets) \in Nat
    BY <1>1, BucketsFinite
  <2> QED
    BY <2>1, <2>2
<1>5. new \in Nat
  BY <1>4, BucketsPrimed
<1>6. c <= new /\ (bucket_cnt # c => old + c <= new)
  BY <1>1, <1>3, <1>4, BucketsGrow
<1>7. waits' \in [MapKeys -> Nat]
  BY <1>1 DEF MapInv
<1>8. ASSUME NEW j \in kvs_' PROVE waits'[j] + Map!Offset(j)' < new
  <2>1. j \in MapKeys
    BY <1>1
  <2>2. Map!Offset(j)' \in Nat /\ Map!Offset(j)' < c
    <3>1. PICK a \in Int : a = j - curr_bucket_idx
      BY <1>1, <2>1, MapConstants DEF MapNumbers
    <3>2. a % c \in Int /\ 0 <= a % c /\ a % c < c
      <4>1. c \in Int /\ c > 0
        BY <1>4
      <4> QED
        BY ONLY a \in Int, <4>1, DivMod
    <3> QED
      BY <1>1, <1>4, <3>1, <3>2 DEF Map!Offset
  <2>3. CASE j = k
    <3>1. waits'[j] = 0
      BY <1>1, <2>1, <2>3 DEF MapInv
    <3> QED
      BY <1>4, <1>5, <1>6, <2>2, <3>1
  <2>4. CASE j # k
    <3>1. j \in kvs_ /\ waits'[j] = waits[j] /\ waits[j] \in Nat
      BY <1>1, <2>1, <2>4 DEF MapInv
    <3>2. waits[j] + Map!Offset(j) < old
      BY <1>4, <3>1 DEF MapInv
    <3>3. CASE bucket_cnt = c
      <4>1. Map!Offset(j)' = Map!Offset(j) /\ new = old
        BY <1>1, <1>4, <3>3 DEF Map!Offset, Map!Buckets
      <4> QED
        BY <3>1, <3>2, <4>1
    <3>4. CASE bucket_cnt # c
      <4>1. bucket_cnt > 0
        <5>1. bucket_cnt \in Cnts
          BY <3>1 DEF MapInv
        <5> QED
          BY <5>1, MapConstants DEF MapNumbers
      <4>2. Map!Offset(j) \in Nat
        BY <1>1, <2>1, <4>1, OffsetRange
      <4>3. waits[j] < old
        BY <1>4, <3>1, <3>2, <4>2
      <4> QED
        BY <1>4, <1>5, <1>6, <2>2, <3>1, <3>4, <4>3
    <3> QED
      BY <3>3, <3>4
  <2> QED
    BY <2>3, <2>4
<1> QED
  BY <1>1, <1>3, <1>4, <1>7, <1>8 DEF MapInv

(* A Run brings what it does not display nearer by a bucket at least.     *)
LEMMA RunKeeps ==
  ASSUME ContainersAssumption, MapInv, Map!Run
  PROVE  MapInv'
<1>1. /\ bucket_cnt \in Nat /\ bucket_cnt > 0 /\ Wrap % bucket_cnt = 0
      /\ curr_bucket_idx \in Nat /\ kvs_ \subseteq MapKeys /\ waits \in [MapKeys -> Nat]
      /\ kvs_' = kvs_ /\ bucket_cnt' = bucket_cnt
      /\ curr_bucket_idx' = (curr_bucket_idx + Map!Passed) % Wrap
      /\ waits' = [k \in MapKeys |-> IF k \in kvs_ \ Map!Ahead(Map!Passed) THEN waits[k] + 1 ELSE 0]
  <2>1. bucket_cnt \in Nat /\ bucket_cnt # 0 /\ Wrap % bucket_cnt = 0
    BY MapConstants DEF MapInv, MapNumbers, Map!Run
  <2> QED
    BY <2>1 DEF MapInv, Map!Run
(* A Run passes a bucket at least.                                         *)
<1>2. PICK p \in Nat : p = Map!Passed /\ p >= 1
  <2>1. PICK T : T = {n \in 0 .. bucket_cnt : Map!Ends(n)}
    OBVIOUS
  <2>2. T \in SUBSET Nat /\ bucket_cnt \in T
    BY <1>1, <2>1 DEF Map!Ends
  <2>3. 0 \notin T
    <3>1. ~Map!Ends(0)
      BY <1>1 DEF Map!Ends, Map!OverLimit
    <3> QED
      BY <2>1, <3>1
  <2>4. Map!Min(T) \in T
    BY <2>2, MapMin
  <2>5. Map!Passed = Map!Min(T)
    BY <2>1 DEF Map!Passed
  <2>6. PICK p : p = Map!Passed
    OBVIOUS
  <2>7. p \in Nat /\ p # 0
    BY <2>2, <2>3, <2>4, <2>5, <2>6
  <2> QED
    BY <2>6, <2>7
<1>3. curr_bucket_idx' \in Nat
  <2>1. PICK x \in Int, w \in Int : x = curr_bucket_idx + p /\ w = Wrap /\ w > 0
    BY <1>1, MapConstants DEF MapNumbers
  <2>2. x % w \in Int /\ 0 <= x % w
    BY <2>1, DivMod
  <2> QED
    BY <1>1, <1>2, <2>1, <2>2
<1>4. waits' \in [MapKeys -> Nat]
  BY <1>1
<1>5. PICK most \in Nat : most = Cardinality(Map!Buckets) /\ most = Cardinality(Map!Buckets)'
  <2>1. Cardinality(Map!Buckets) \in Nat
    BY <1>1, BucketsFinite
  <2>2. Map!Buckets' = Map!Buckets
    BY <1>1 DEF Map!Buckets
  <2> QED
    BY <2>1, <2>2
<1>6. ASSUME NEW k \in kvs_ PROVE waits'[k] + Map!Offset(k)' < most
  <2>1. k \in MapKeys /\ waits[k] \in Nat
    BY <1>1
  <2>2. Map!Offset(k) \in Nat /\ waits[k] + Map!Offset(k) < most
    BY <1>1, <1>5, <2>1, OffsetRange DEF MapInv
  <2>3. CASE k \in Map!Ahead(p)
    <3>1. waits'[k] = 0
      BY <1>1, <1>2, <2>1, <2>3
    <3>2. Map!Offset(k)' \in Nat /\ Map!Offset(k)' < bucket_cnt
      <4>1. PICK a \in Int, c \in Nat : a = k - curr_bucket_idx' /\ c = bucket_cnt /\ c > 0
        BY <1>1, <1>3, <2>1, MapConstants DEF MapNumbers
      <4>2. a % c \in Int /\ 0 <= a % c /\ a % c < c
        BY <4>1, DivMod
      <4> QED
        BY <1>1, <4>1, <4>2 DEF Map!Offset
    <3>3. bucket_cnt <= most
      <4>1. bucket_cnt' \in Cnts /\ bucket_cnt <= bucket_cnt'
        BY <1>1 DEF MapInv
      <4>2. bucket_cnt' <= Cardinality(Map!Buckets)'
        BY <1>1, <4>1, BucketsGrow
      <4> QED
        BY <1>1, <1>5, <4>2
    <3> QED
      BY <1>1, <3>1, <3>2, <3>3
  <2>4. CASE k \notin Map!Ahead(p)
    <3>1. ~(Map!Offset(k) < p)
      BY <2>4 DEF Map!Ahead
    <3>2. p <= Map!Offset(k)
      BY <1>2, <2>2, <3>1
    <3>3. Map!Offset(k)' = Map!Offset(k) - p
      BY <1>1, <1>2, <2>1, <3>2, OffsetShrinks
    <3>4. waits'[k] = waits[k] + 1
      BY <1>1, <1>2, <2>1, <2>4
    <3> QED
      BY <1>2, <2>1, <2>2, <3>3, <3>4
  <2> QED
    BY <2>3, <2>4
<1>7. bucket_cnt' \in Cnts \cup FirstCnts /\ (kvs_' # {} => bucket_cnt' \in Cnts)
  BY <1>1 DEF MapInv
<1> QED
  BY <1>1, <1>3, <1>4, <1>5, <1>6, <1>7 DEF MapInv

(* Every step of the map list keeps its invariant.                        *)
LEMMA MapKept ==
  ASSUME ContainersAssumption, MapInv, [Map!Next]_map
  PROVE  MapInv'
<1>1. CASE UNCHANGED <<kvs_, bucket_cnt, curr_bucket_idx, waits>>
  BY <1>1 DEF MapInv, Map!Offset, Map!Buckets
<1>2. CASE UNCHANGED map
  BY <1>1, <1>2 DEF map
<1>3. CASE Map!Run
  BY <1>3, RunKeeps
<1>4. ASSUME NEW k \in MapKeys, Map!Push(k) PROVE MapInv'
  BY <1>4, PushKeeps
<1>5. ASSUME NEW cnt \in Limits, Map!SetPerRoundMaxItemCnt(cnt) PROVE MapInv'
  BY <1>1, <1>5 DEF Map!SetPerRoundMaxItemCnt
<1> QED
  BY <1>2, <1>3, <1>4, <1>5 DEF Map!Next

(* Every item is displayed in time, for any keys, any bucket counts that   *)
(* the map grows through, any limits and however they are changed.         *)
THEOREM ItemsAreShownInTime == Spec => []ShownInTime
<1> DEFINE Inv == subject = "map" => MapInv
<1>1. Init => Inv
  <2> SUFFICES ASSUME Map!Init PROVE MapInv
    BY DEF Init
  <2> QED
    BY DEF Map!Init, MapInv
<1>2. Inv /\ [Next]_vars => Inv'
  <2> SUFFICES ASSUME Inv, [Next]_vars, subject' = "map" PROVE MapInv'
    OBVIOUS
  <2>1. subject = "map" /\ [Map!Next]_map
    BY DEF Next, vars
  <2> QED
    BY <2>1, ContainersAssumption, MapKept
<1>3. Inv => ShownInTime
  <2> SUFFICES ASSUME MapInv, NEW k \in kvs_ PROVE waits[k] < Map!Cardinality(Map!Buckets)
    BY DEF ShownInTime, Map!ShownInTime
  <2>1. Map!Cardinality(Map!Buckets) = Cardinality(Map!Buckets)
    BY DEF Map!Cardinality, Cardinality
  <2>2. bucket_cnt \in Nat /\ bucket_cnt > 0 /\ k \in MapKeys /\ waits[k] \in Nat
    <3>1. bucket_cnt \in Cnts /\ k \in MapKeys /\ waits[k] \in Nat
      BY DEF MapInv
    <3> QED
      BY <3>1, ContainersAssumption, MapConstants DEF MapNumbers
  <2>3. Map!Offset(k) \in Nat /\ Cardinality(Map!Buckets) \in Nat
    BY <2>2, ContainersAssumption, OffsetRange, BucketsFinite DEF MapInv
  <2>4. waits[k] + Map!Offset(k) < Cardinality(Map!Buckets)
    BY DEF MapInv
  <2> QED
    BY <2>1, <2>2, <2>3, <2>4
<1> QED
  BY <1>1, <1>2, <1>3, PTL DEF Spec

-----------------------------------------------------------------------------
(* DynamicBits                                                             *)

(* The powers of two, which are recursive, exist and grow.                *)
LEMMA Powers ==
  /\ Bits!pow2[0] = 1
  /\ \A k \in Nat : /\ Bits!pow2[k] \in Nat \ {0} /\ Bits!pow2[k + 1] = 2 * Bits!pow2[k]
                    /\ k < Bits!pow2[k]
<1> DEFINE G == [p \in Nat \X Nat |-> 2 * p[2]]
<1>1. G \in [Nat \X Nat -> Nat] /\ \A i, x \in Nat : G[<<i, x>>] = 2 * x
  OBVIOUS
<1> HIDE DEF G
<1>2. PICK f \in [Nat -> Nat] : f[0] = 1 /\ \A n \in Nat : f[n + 1] = G[<<n + 1, f[n]>>]
  <2>1. PICK S, a : S = Nat /\ a = 1
    OBVIOUS
  <2>2. a \in S /\ G \in [Nat \X S -> S]
    BY <1>1, <2>1
  <2>3. \E f \in [Nat -> S] : Recurs(f, a, G)
    BY <2>2, Recursion
  <2> QED
    BY <2>1, <2>3 DEF Recurs
<1>3. f = [k \in Nat |-> IF k = 0 THEN 1 ELSE 2 * f[k - 1]]
  <2>1. ASSUME NEW k \in Nat, k # 0 PROVE f[k] = 2 * f[k - 1]
    <3>1. k - 1 \in Nat /\ (k - 1) + 1 = k
      BY <2>1
    <3>2. f[k] = G[<<k, f[k - 1]>>]
      BY <1>2, <3>1
    <3> QED
      BY <1>1, <3>1, <3>2
  <2> QED
    BY <1>2, <2>1
<1>4. PICK K : /\ K = Bits!pow2
               /\ K = [k \in Nat |-> IF k = 0 THEN 1 ELSE 2 * K[k - 1]]
  BY <1>3 DEF Bits!pow2
<1>5. K[0] = 1 /\ \A k \in Nat : K[k + 1] = 2 * K[k]
  <2>1. ASSUME NEW k \in Nat PROVE K[k + 1] = 2 * K[k]
    <3>1. k + 1 \in Nat /\ k + 1 # 0 /\ (k + 1) - 1 = k
      OBVIOUS
    <3> QED
      BY <1>4, <3>1
  <2>2. 0 \in Nat
    OBVIOUS
  <2>3. K[0] = 1
    BY <1>4, <2>2
  <2> QED
    BY <2>1, <2>3
<1>6. \A k \in Nat : K[k] \in Nat \ {0} /\ k < K[k]
  <2> DEFINE A == {k \in Nat : K[k] \in Nat \ {0} /\ k < K[k]}
  <2>1. 0 \in A /\ \A k \in A : k + 1 \in A
    BY <1>5
  <2>2. A \in SUBSET Nat
    OBVIOUS
  <2> HIDE DEF A
  <2>3. A = Nat
    BY <2>1, <2>2, Induction
  <2> QED
    BY <2>3 DEF A
<1> QED
  BY <1>4, <1>5, <1>6

(* A power of a sum is a product of powers.                               *)
LEMMA PowerOfSum ==
  ASSUME NEW a \in Nat, NEW b \in Nat
  PROVE  Bits!pow2[a + b] = Bits!pow2[a] * Bits!pow2[b]
<1> DEFINE A == {k \in Nat : Bits!pow2[a + k] = Bits!pow2[a] * Bits!pow2[k]}
<1>1. 0 \in A
  <2>1. Bits!pow2[a + 0] = Bits!pow2[a] * 1
    BY Powers
  <2> QED
    BY <2>1, Powers
<1>2. ASSUME NEW k \in A PROVE k + 1 \in A
  <2>1. k \in Nat /\ a + k \in Nat /\ a + (k + 1) = (a + k) + 1
    OBVIOUS
  <2>2. PICK x, y, z : x = Bits!pow2[a] /\ y = Bits!pow2[k] /\ z = Bits!pow2[a + k]
    OBVIOUS
  <2>3. x \in Nat /\ y \in Nat /\ z = x * y
    BY <2>1, <2>2, Powers
  <2>4. Bits!pow2[a + (k + 1)] = 2 * z /\ Bits!pow2[k + 1] = 2 * y
    BY <2>1, <2>2, Powers
  <2>5. 2 * z = x * (2 * y)
    BY <2>3
  <2> QED
    BY <2>1, <2>2, <2>4, <2>5
<1>3. A \in SUBSET Nat
  OBVIOUS
<1> HIDE DEF A
<1>4. A = Nat
  BY <1>1, <1>2, <1>3, Induction
<1> QED
  BY <1>4 DEF A

B == Bits!bits_per_int

(* A word has a power of two of bits, more than one.                      *)
LEMMA WordBits ==
  ASSUME ContainersAssumption
  PROVE  /\ level_shift \in Nat \ {0} /\ SizeBounds \subseteq Nat \ {0}
         /\ UNSIGNED \in Nat \ {0}
         /\ B = Bits!pow2[level_shift] /\ B \in Nat /\ B > 1
<1>1. /\ level_shift \in Nat \ {0} /\ SizeBounds \subseteq Nat \ {0}
      /\ UNSIGNED \in Nat \ {0}
  BY DEF ContainersAssumption, Bits!BitsParameters
<1>2. B = Bits!pow2[level_shift]
  BY DEF B, Bits!bits_per_int
<1>3. Bits!pow2[level_shift] \in Nat /\ level_shift < Bits!pow2[level_shift]
  BY <1>1, Powers
<1> QED
  BY <1>1, <1>2, <1>3

(* The words that hold that many bits.                                     *)
WordsFor(v) == (v + B - 1) \div B

(* align_up and the division by the width of a word count words.          *)
LEMMA Aligned ==
  ASSUME ContainersAssumption, NEW v \in Nat
  PROVE  /\ Bits!align_up(v, B) \div B = WordsFor(v)
         /\ Bits!align_up(v, B) = WordsFor(v) * B
         /\ WordsFor(v) \in Nat /\ (v > 0 => WordsFor(v) > 0)
         /\ v <= WordsFor(v) * B /\ WordsFor(v) <= v
<1>1. PICK b \in Nat : b = B /\ b > 1
  BY WordBits
<1>2. PICK w, r : w = (v + b - 1) \div b /\ r = (v + b - 1) % b
  OBVIOUS
<1>3. w \in Int /\ r \in Int /\ 0 <= r /\ r < b /\ v + b - 1 = b * w + r
  BY <1>1, <1>2, DivMod
<1>4. b * w >= v /\ b * w < v + b
  BY <1>1, <1>3
<1>5. w >= 0
  <2>1. ASSUME w <= -1 PROVE FALSE
    <3>1. b * w <= b * (-1)
      BY <1>1, <1>3, <2>1
    <3> QED
      BY <1>1, <1>3, <1>4, <3>1
  <2> QED
    BY <1>3, <2>1
<1>6. v > 0 => w > 0
  <2>1. ASSUME v > 0, w = 0 PROVE FALSE
    BY <1>1, <1>4, <2>1
  <2> QED
    BY <1>3, <1>5, <2>1
<1>7. w <= v
  <2>1. ASSUME w > v PROVE FALSE
    <3>1. b * (w - 1) < v
      <4>1. b * (w - 1) = b * w - b
        BY <1>1, <1>3
      <4> QED
        BY <1>1, <1>3, <1>4, <4>1
    <3>2. w - 1 >= v /\ w - 1 >= 0
      BY <1>3, <2>1
    <3>3. b * (w - 1) >= w - 1
      BY <1>1, <1>3, <3>2
    <3> QED
      BY <1>1, <1>3, <3>1, <3>2, <3>3
  <2> QED
    BY <1>3, <2>1
<1>8. w * b = b * w /\ w * b = b * w + 0 /\ w * b \in Int
  BY <1>1, <1>3
<1>9. (w * b) \div b = w
  BY <1>1, <1>3, <1>8, DivModUnique
<1>10. Bits!align_up(v, B) = w * b
  BY <1>1, <1>2 DEF Bits!align_up
<1>11. WordsFor(v) = w
  BY <1>1, <1>2 DEF WordsFor
<1> QED
  BY <1>1, <1>3, <1>4, <1>5, <1>6, <1>7, <1>8, <1>9, <1>10, <1>11

(* What the recursive function level_words computes.                      *)
LEMMA LevelWords ==
  ASSUME ContainersAssumption, NEW n \in Nat
  PROVE  /\ Bits!level_words(n)[0] = WordsFor(n)
         /\ \A l \in Nat : Bits!level_words(n)[l + 1] = WordsFor(Bits!level_words(n)[l])
         /\ \A l \in Nat : Bits!level_words(n)[l] \in Nat
<1> DEFINE G == [p \in Nat \X Nat |-> WordsFor(p[2])]
<1>1. \A x \in Nat : WordsFor(x) \in Nat /\ Bits!align_up(x, B) \div B = WordsFor(x)
  BY Aligned
<1>2. G \in [Nat \X Nat -> Nat] /\ \A i, x \in Nat : G[<<i, x>>] = WordsFor(x)
  BY <1>1
<1> HIDE DEF G
<1>3. PICK f \in [Nat -> Nat] :
         f[0] = WordsFor(n) /\ \A l \in Nat : f[l + 1] = G[<<l + 1, f[l]>>]
  <2>1. PICK S, a : S = Nat /\ a = WordsFor(n)
    OBVIOUS
  <2>2. a \in S /\ G \in [Nat \X S -> S]
    BY <1>1, <1>2, <2>1
  <2>3. \E f \in [Nat -> S] : Recurs(f, a, G)
    BY <2>2, Recursion
  <2> QED
    BY <2>1, <2>3 DEF Recurs
<1>4. f = [l \in Nat |->
             Bits!align_up(IF l = 0 THEN n ELSE f[l - 1], B) \div B]
  <2>1. ASSUME NEW l \in Nat
        PROVE  f[l] = Bits!align_up(IF l = 0 THEN n ELSE f[l - 1], B) \div B
    <3>1. CASE l = 0
      BY <1>1, <1>3, <3>1
    <3>2. CASE l # 0
      <4>1. l - 1 \in Nat /\ (l - 1) + 1 = l
        BY <3>2
      <4>2. f[l] = G[<<l, f[l - 1]>>] /\ f[l - 1] \in Nat
        BY <1>3, <4>1
      <4> QED
        BY <1>1, <1>2, <3>2, <4>2
    <3> QED
      BY <3>1, <3>2
  <2> QED
    BY <2>1
<1>5. PICK K : /\ K = Bits!level_words(n)
               /\ K = [l \in Nat |-> Bits!align_up(IF l = 0 THEN n ELSE K[l - 1], B) \div B]
  BY <1>4 DEF Bits!level_words, B
<1>6. K[0] = WordsFor(n) /\ \A l \in Nat : K[l + 1] = Bits!align_up(K[l], B) \div B
  <2>1. ASSUME NEW l \in Nat PROVE K[l + 1] = Bits!align_up(K[l], B) \div B
    <3>1. l + 1 \in Nat /\ l + 1 # 0 /\ (l + 1) - 1 = l
      OBVIOUS
    <3> QED
      BY <1>5, <3>1
  <2>2. 0 \in Nat
    OBVIOUS
  <2>3. K[0] = WordsFor(n)
    BY <1>1, <1>5, <2>2
  <2> QED
    BY <2>1, <2>3
<1>7. \A l \in Nat : K[l] \in Nat
  <2> DEFINE A == {l \in Nat : K[l] \in Nat}
  <2>1. 0 \in A /\ \A l \in A : l + 1 \in A
    BY <1>1, <1>6
  <2>2. A \in SUBSET Nat
    OBVIOUS
  <2> HIDE DEF A
  <2>3. A = Nat
    BY <2>1, <2>2, Induction
  <2> QED
    BY <2>3 DEF A
<1> QED
  BY <1>1, <1>5, <1>6, <1>7

(* The number of the word of level l - 1, or bit of level l, that stands   *)
(* for bit n.                                                              *)
Place(l, n) == n \div Bits!pow2[l * level_shift]

(* A place in a level is the one below without its last digit; the index  *)
(* of a word and the bit in it are its two parts.                         *)
LEMMA Places ==
  ASSUME ContainersAssumption, NEW n \in Nat, NEW l \in Nat
  PROVE  /\ Place(0, n) = n /\ Place(l, n) \in Nat
         /\ Place(l + 1, n) = Place(l, n) \div B
         /\ Bits!level_idx(l, n) = Place(l + 1, n)
         /\ Bits!level_remainder(l, n) = Place(l, n) % B
<1>1. level_shift \in Nat /\ B = Bits!pow2[level_shift] /\ B \in Nat /\ B > 1
  BY WordBits
<1>2. PICK k \in Nat : k = l * level_shift
  BY <1>1
<1>3. (l + 1) * level_shift = k + level_shift /\ 0 * level_shift = 0
  BY <1>1, <1>2
<1>4. Bits!pow2[k + level_shift] = Bits!pow2[k] * B
  BY <1>1, PowerOfSum
<1>5. PICK u \in Nat, b \in Nat : u = Bits!pow2[k] /\ b = B /\ u > 0 /\ b > 0
  BY <1>1, Powers
<1>6. n \div (u * b) = (n \div u) \div b
  BY <1>5, DivDiv
<1>7. Place(l, n) = n \div u
  BY <1>2, <1>5 DEF Place
<1>8. Place(l + 1, n) = n \div (u * b)
  BY <1>3, <1>4, <1>5 DEF Place
<1>9. Place(0, n) = n
  <2>1. Place(0, n) = n \div 1
    BY <1>3, Powers DEF Place
  <2>2. n = 1 * n + 0
    OBVIOUS
  <2>3. n = n \div 1
    OBVIOUS
  <2> QED
    BY <2>1, <2>3
<1>10. n \div u \in Nat
  BY <1>5, PlaceNat
<1>11. Bits!level_idx(l, n) = Place(l + 1, n)
  BY DEF Bits!level_idx, Place
<1>12. Bits!level_remainder(l, n) = Place(l, n) % B
  BY DEF Bits!level_remainder, Place, B
<1> QED
  BY <1>5, <1>6, <1>7, <1>8, <1>9, <1>10, <1>11, <1>12

(* The levels of the set are naturals.                                    *)
LEMMA LevelsNumber ==
  ASSUME ContainersAssumption, NEW n \in Nat \ {0}
  PROVE  Bits!nr_levels(n) \in Int
<1>1. level_shift \in Nat \ {0} /\ B \in Nat /\ B > 1
  BY WordBits
<1>2. PICK x \in Nat : x = Bits!align_up(n, Bits!bits_per_int)
  <2>1. Bits!align_up(n, B) = WordsFor(n) * B /\ WordsFor(n) \in Nat
    BY Aligned
  <2>2. Bits!align_up(n, B) \in Nat
    BY <1>1, <2>1
  <2> QED
    BY <2>2 DEF B
<1>3. PICK T : T = {k \in 0 .. x : x <= Bits!pow2[k]}
  OBVIOUS
<1>4. x \in T /\ T \in SUBSET Nat
  BY <1>3, Powers
<1>5. PICK k \in T : \A j \in T : k <= j
  BY <1>4, Least
<1>6. Bits!log2ceil(x) \in T
  BY <1>3, <1>5 DEF Bits!log2ceil, Bits!Min
<1>7. Bits!log2ceil(x) \in Nat
  BY <1>4, <1>6
<1> QED
  BY <1>1, <1>2, <1>7 DEF Bits!nr_levels

Width(l) == Bits!level_words(nr_bits)[l]

BitsInv ==
  /\ nr_bits \in SizeBounds
  /\ DOMAIN bits = Bits!Levels
  /\ \A l \in Bits!Levels : bits[l] \in [0 .. Width(l) - 1 -> SUBSET (0 .. B - 1)]
  /\ Bits!SummariesAgree

(* The word of a bit of one level is a word of the next level.             *)
LEMMA WordAbove ==
  ASSUME ContainersAssumption, nr_bits \in SizeBounds, NEW l \in Nat, NEW i \in 0 .. Width(l) - 1
  PROVE  /\ i \div B \in 0 .. Width(l + 1) - 1
         /\ i % B \in 0 .. B - 1
         /\ i = B * (i \div B) + (i % B)
<1>1. nr_bits \in Nat /\ B \in Nat /\ B > 1
  BY WordBits
<1>2. PICK w \in Nat, v \in Int, b \in Nat : w = Width(l) /\ v = Width(l + 1) /\ b = B /\ b > 1
  <2>1. l + 1 \in Nat
    OBVIOUS
  <2>2. Width(l) \in Nat /\ Width(l + 1) \in Nat
    BY <1>1, <2>1, LevelWords DEF Width
  <2> QED
    BY <1>1, <2>2
<1>3. v = (w + b - 1) \div b
  <2>1. v = WordsFor(w)
    BY <1>1, <1>2, LevelWords DEF Width
  <2> QED
    BY <1>2, <2>1 DEF WordsFor
<1>4. i \in Nat /\ i <= w - 1
  BY <1>2
<1>5. PICK q, r : q = i \div b /\ r = i % b
  OBVIOUS
<1>6. q \in Int /\ r \in Int /\ 0 <= r /\ r < b /\ i = b * q + r
  BY <1>2, <1>4, <1>5, DivMod
<1>7. q \in Nat
  BY <1>2, <1>4, <1>5, PlaceNat
<1>8. PICK a, s : a \in Int /\ a = w + b - 1 /\ s = a % b
  BY <1>2
<1>9. s \in Int /\ 0 <= s /\ s < b /\ w + b - 1 = b * v + s
  <2>1. s \in Int /\ 0 <= s /\ s < b /\ a = b * (a \div b) + s
    BY <1>2, <1>8, DivMod
  <2> QED
    BY <1>3, <1>8, <2>1
<1>10. q < v
  <2>1. ASSUME q >= v PROVE FALSE
    <3>1. b * (q - v) >= 0
      BY <1>2, <1>6, <2>1
    <3>2. b * (q - v) = b * q - b * v
      BY <1>2, <1>6
    <3> QED
      BY <1>2, <1>4, <1>6, <1>9, <3>1, <3>2
  <2> QED
    BY <1>2, <1>6, <2>1
<1> QED
  BY <1>2, <1>5, <1>6, <1>7, <1>10

(* The levels, numbered from 0.                                           *)
LEMMA LevelsAre ==
  ASSUME ContainersAssumption, nr_bits \in SizeBounds
  PROVE  /\ Bits!nr_levels(nr_bits) \in Int
         /\ \A l : l \in Bits!Levels <=> l \in Nat /\ l <= Bits!nr_levels(nr_bits) - 1
         /\ \A l \in Bits!Levels \ {0} :
              l \in Nat /\ l - 1 \in Bits!Levels /\ l - 1 \in Nat /\ (l - 1) + 1 = l
<1>1. nr_bits \in Nat \ {0}
  BY WordBits
<1>2. Bits!nr_levels(nr_bits) \in Int
  BY <1>1, LevelsNumber
<1>3. \A l : l \in Bits!Levels <=> l \in Nat /\ l <= Bits!nr_levels(nr_bits) - 1
  BY <1>2 DEF Bits!Levels
<1>4. ASSUME NEW l \in Bits!Levels \ {0}
      PROVE  l \in Nat /\ l - 1 \in Bits!Levels /\ l - 1 \in Nat /\ (l - 1) + 1 = l
  <2>1. l \in Nat /\ l # 0 /\ l <= Bits!nr_levels(nr_bits) - 1
    BY <1>3
  <2>2. l - 1 \in Nat /\ l - 1 <= Bits!nr_levels(nr_bits) - 1 /\ (l - 1) + 1 = l
    BY <1>2, <2>1
  <2> QED
    BY <1>3, <2>1, <2>2
<1> QED
  BY <1>2, <1>3, <1>4

(* All words are empty.                                                   *)
LEMMA BitsStart ==
  ASSUME ContainersAssumption, Bits!Init
  PROVE  BitsInv
<1>1. /\ nr_bits \in SizeBounds
      /\ bits = [l \in Bits!Levels |-> [i \in 0 .. Width(l) - 1 |-> {}]]
  BY DEF Bits!Init, Width
<1>2. ASSUME NEW l \in Bits!Levels
      PROVE  bits[l] = [i \in 0 .. Width(l) - 1 |-> {}]
  BY <1>1
<1>3. ASSUME NEW l \in Bits!Levels \ {0}, NEW i \in DOMAIN bits[l - 1]
      PROVE  i % Bits!bits_per_int \in bits[l][i \div Bits!bits_per_int] <=> bits[l - 1][i] # {}
  <2>1. l - 1 \in Bits!Levels /\ l - 1 \in Nat /\ (l - 1) + 1 = l
    BY <1>1, LevelsAre
  <2>2. i \in 0 .. Width(l - 1) - 1 /\ bits[l - 1][i] = {}
    BY <1>2, <2>1
  <2>3. i \div B \in 0 .. Width(l) - 1
    BY <1>1, <2>1, <2>2, WordAbove
  <2>4. bits[l][i \div B] = {}
    BY <1>2, <2>3
  <2> QED
    BY <2>2, <2>4 DEF B
<1>4. Bits!SummariesAgree
  BY <1>3 DEF Bits!SummariesAgree
<1>5. \A l \in Bits!Levels : bits[l] \in [0 .. Width(l) - 1 -> SUBSET (0 .. B - 1)]
  BY <1>2
<1> QED
  BY <1>1, <1>4, <1>5 DEF BitsInv

(* What set and clear have in common: a level changes only in the word of  *)
(* n, and as far as the loop reaches.                                      *)
LEMMA SummaryOf ==
  ASSUME ContainersAssumption, BitsInv, NEW n \in Bits!Bit,
         NEW l \in Bits!Levels \ {0}, NEW i \in 0 .. Width(l - 1) - 1
  PROVE  /\ l - 1 \in Bits!Levels /\ i \div B \in 0 .. Width(l) - 1
         /\ i = Bits!level_idx(l - 1, n) <=>
              /\ i \div B = Bits!level_idx(l, n)
              /\ i % B = Bits!level_remainder(l, n)
         /\ i % B \in bits[l][i \div B] <=> bits[l - 1][i] # {}
<1>1. nr_bits \in SizeBounds /\ nr_bits \in Nat
  BY WordBits DEF BitsInv
<1>2. l - 1 \in Bits!Levels /\ l - 1 \in Nat /\ (l - 1) + 1 = l /\ l \in Nat
  BY <1>1, LevelsAre
<1>3. n \in Nat
  BY <1>1 DEF Bits!Bit
<1>4. /\ i \div B \in 0 .. Width(l) - 1
      /\ i = B * (i \div B) + (i % B)
  BY <1>1, <1>2, WordAbove
<1>5. PICK d \in Nat, b \in Nat : d = Place(l, n) /\ b = B /\ b > 1
  BY <1>2, <1>3, WordBits, Places
<1>6. /\ Bits!level_idx(l - 1, n) = d /\ d \in Nat
      /\ Bits!level_idx(l, n) = d \div b
      /\ Bits!level_remainder(l, n) = d % b
  BY <1>2, <1>3, <1>5, Places
<1>7. d = b * (d \div b) + (d % b)
  BY <1>5, DivMod
<1>8. i = d <=> i \div b = d \div b /\ i % b = d % b
  BY <1>4, <1>5, <1>7
<1>9. i % B \in bits[l][i \div B] <=> bits[l - 1][i] # {}
  <2>1. i \in DOMAIN bits[l - 1]
    BY <1>2 DEF BitsInv
  <2> QED
    BY <2>1 DEF BitsInv, Bits!SummariesAgree, B
<1> QED
  BY <1>2, <1>4, <1>5, <1>6, <1>8, <1>9

(* set stops at a word that was not empty: its summary is right already.  *)
LEMMA SetKeeps ==
  ASSUME ContainersAssumption, BitsInv, NEW n \in Bits!Bit, Bits!set(n)
  PROVE  BitsInv'
<1> DEFINE hit(l, i) == i = Bits!level_idx(l, n) /\ Bits!SetReaches(l, n)
<1>1. /\ nr_bits' = nr_bits /\ nr_bits \in SizeBounds /\ nr_bits \in Nat
      /\ Bits!Levels' = Bits!Levels /\ \A l : Width(l)' = Width(l)
      /\ bits' = [l \in Bits!Levels |-> [i \in DOMAIN bits[l] |->
                    IF hit(l, i) THEN bits[l][i] \cup {Bits!level_remainder(l, n)} ELSE bits[l][i]]]
  BY WordBits DEF BitsInv, Bits!set, Bits!Levels, Width
<1>2. n \in Nat /\ B \in Nat /\ B > 1
  BY <1>1, WordBits DEF Bits!Bit
<1>3. ASSUME NEW l \in Bits!Levels
      PROVE  /\ bits[l] \in [0 .. Width(l) - 1 -> SUBSET (0 .. B - 1)]
             /\ DOMAIN bits'[l] = 0 .. Width(l) - 1 /\ DOMAIN bits[l] = 0 .. Width(l) - 1
             /\ \A i \in 0 .. Width(l) - 1 :
                  bits'[l][i] = IF hit(l, i) THEN bits[l][i] \cup {Bits!level_remainder(l, n)}
                                ELSE bits[l][i]
  <2>1. bits[l] \in [0 .. Width(l) - 1 -> SUBSET (0 .. B - 1)]
    BY DEF BitsInv
  <2>2. DOMAIN bits[l] = 0 .. Width(l) - 1
    BY <2>1
  <2>3. bits'[l] = [i \in 0 .. Width(l) - 1 |->
                      IF hit(l, i) THEN bits[l][i] \cup {Bits!level_remainder(l, n)}
                      ELSE bits[l][i]]
    BY <1>1, <2>2
  <2> HIDE DEF hit
  <2> QED
    BY <2>1, <2>2, <2>3
<1>4. ASSUME NEW l \in Bits!Levels
      PROVE  bits'[l] \in [0 .. Width(l) - 1 -> SUBSET (0 .. B - 1)]
  <2>1. Bits!level_remainder(l, n) \in 0 .. B - 1
    <3>1. l \in Nat
      BY <1>1, LevelsAre
    <3>2. PICK d \in Nat : d = Place(l, n) /\ Bits!level_remainder(l, n) = d % B
      BY <1>2, <3>1, Places
    <3> QED
      BY <1>2, <3>2, DivMod
  <2>2. bits'[l] = [i \in 0 .. Width(l) - 1 |-> bits'[l][i]]
    BY <1>1, <1>3
  <2>3. \A i \in 0 .. Width(l) - 1 : bits[l][i] \in SUBSET (0 .. B - 1)
    BY <1>3
  <2>4. \A i \in 0 .. Width(l) - 1 : bits'[l][i] \in SUBSET (0 .. B - 1)
    BY <1>3, <2>1, <2>3
  <2> QED
    BY <2>2, <2>4
<1>5. ASSUME NEW l \in Bits!Levels \ {0}, NEW i \in 0 .. Width(l - 1) - 1
      PROVE  i % B \in bits'[l][i \div B] <=> bits'[l - 1][i] # {}
  <2>1. /\ l - 1 \in Bits!Levels /\ i \div B \in 0 .. Width(l) - 1
        /\ i = Bits!level_idx(l - 1, n) <=>
             /\ i \div B = Bits!level_idx(l, n)
             /\ i % B = Bits!level_remainder(l, n)
        /\ i % B \in bits[l][i \div B] <=> bits[l - 1][i] # {}
    BY SummaryOf
  <2>2. PICK j, e : j = i \div B /\ e = i % B
    OBVIOUS
  <2>3. bits'[l][j] = IF hit(l, j) THEN bits[l][j] \cup {Bits!level_remainder(l, n)} ELSE bits[l][j]
    BY <1>3, <2>1, <2>2
  <2>4. bits'[l - 1][i] = IF hit(l - 1, i) THEN bits[l - 1][i] \cup {Bits!level_remainder(l - 1, n)}
                          ELSE bits[l - 1][i]
    BY <1>3, <2>1
  <2>5. Bits!SetReaches(l, n) <=> /\ Bits!SetReaches(l - 1, n)
                                  /\ bits[l - 1][Bits!level_idx(l - 1, n)] = {}
    <3>1. l \in Nat /\ l - 1 \in Nat /\ (l - 1) - 1 \in Int
      BY <1>1, LevelsAre
    <3>2. 0 .. l - 1 = 0 .. (l - 1) - 1 \cup {l - 1}
      BY <3>1
    <3> QED
      BY <3>2 DEF Bits!SetReaches, Bits!Word
  <2>6. CASE i = Bits!level_idx(l - 1, n)
    BY <2>1, <2>2, <2>3, <2>4, <2>5, <2>6
  <2>7. CASE i # Bits!level_idx(l - 1, n)
    BY <2>1, <2>2, <2>3, <2>4, <2>7
  <2> QED
    BY <2>6, <2>7
<1>6. Bits!SummariesAgree'
  <2>1. \A l \in Bits!Levels \ {0} : DOMAIN bits'[l - 1] = 0 .. Width(l - 1) - 1
    BY <1>1, <1>3, LevelsAre
  <2>2. \A l \in Bits!Levels \ {0} : \A i \in DOMAIN bits'[l - 1] :
          i % B \in bits'[l][i \div B] <=> bits'[l - 1][i] # {}
    BY <1>5, <2>1
  <2> QED
    BY <1>1, <2>2 DEF Bits!SummariesAgree, B
<1>7. DOMAIN bits' = Bits!Levels
  BY <1>1
<1> QED
  BY <1>1, <1>4, <1>6, <1>7 DEF BitsInv

(* clear stops at a word that stays, or was empty: its summary is right   *)
(* already.                                                               *)
LEMMA ClearKeeps ==
  ASSUME ContainersAssumption, BitsInv, NEW n \in Bits!Bit, Bits!clear(n)
  PROVE  BitsInv'
<1> DEFINE hit(l, i) == i = Bits!level_idx(l, n) /\ Bits!ClearReaches(l, n)
<1>1. /\ nr_bits' = nr_bits /\ nr_bits \in SizeBounds /\ nr_bits \in Nat
      /\ Bits!Levels' = Bits!Levels /\ \A l : Width(l)' = Width(l)
      /\ bits' = [l \in Bits!Levels |-> [i \in DOMAIN bits[l] |->
                    IF hit(l, i) THEN bits[l][i] \ {Bits!level_remainder(l, n)} ELSE bits[l][i]]]
  BY WordBits DEF BitsInv, Bits!clear, Bits!Levels, Width
<1>2. ASSUME NEW l \in Bits!Levels
      PROVE  /\ bits[l] \in [0 .. Width(l) - 1 -> SUBSET (0 .. B - 1)]
             /\ DOMAIN bits'[l] = 0 .. Width(l) - 1
             /\ \A i \in 0 .. Width(l) - 1 :
                  bits'[l][i] = IF hit(l, i) THEN bits[l][i] \ {Bits!level_remainder(l, n)}
                                ELSE bits[l][i]
  <2>1. bits[l] \in [0 .. Width(l) - 1 -> SUBSET (0 .. B - 1)]
    BY DEF BitsInv
  <2>2. DOMAIN bits[l] = 0 .. Width(l) - 1
    BY <2>1
  <2>3. bits'[l] = [i \in 0 .. Width(l) - 1 |->
                      IF hit(l, i) THEN bits[l][i] \ {Bits!level_remainder(l, n)}
                      ELSE bits[l][i]]
    BY <1>1, <2>2
  <2> HIDE DEF hit
  <2> QED
    BY <2>1, <2>2, <2>3
<1>3. ASSUME NEW l \in Bits!Levels
      PROVE  bits'[l] \in [0 .. Width(l) - 1 -> SUBSET (0 .. B - 1)]
  <2>1. bits'[l] = [i \in 0 .. Width(l) - 1 |-> bits'[l][i]]
    BY <1>1, <1>2
  <2>2. \A i \in 0 .. Width(l) - 1 : bits[l][i] \in SUBSET (0 .. B - 1)
    BY <1>2
  <2>3. \A i \in 0 .. Width(l) - 1 : bits'[l][i] \in SUBSET (0 .. B - 1)
    BY <1>2, <2>2
  <2> QED
    BY <2>1, <2>3
<1>4. ASSUME NEW l \in Bits!Levels \ {0}, NEW i \in 0 .. Width(l - 1) - 1
      PROVE  i % B \in bits'[l][i \div B] <=> bits'[l - 1][i] # {}
  <2>1. /\ l - 1 \in Bits!Levels /\ i \div B \in 0 .. Width(l) - 1
        /\ i = Bits!level_idx(l - 1, n) <=>
             /\ i \div B = Bits!level_idx(l, n)
             /\ i % B = Bits!level_remainder(l, n)
        /\ i % B \in bits[l][i \div B] <=> bits[l - 1][i] # {}
    BY SummaryOf
  <2>2. PICK j, e : j = i \div B /\ e = i % B
    OBVIOUS
  <2>3. bits'[l][j] = IF hit(l, j) THEN bits[l][j] \ {Bits!level_remainder(l, n)} ELSE bits[l][j]
    BY <1>2, <2>1, <2>2
  <2>4. bits'[l - 1][i] = IF hit(l - 1, i) THEN bits[l - 1][i] \ {Bits!level_remainder(l - 1, n)}
                          ELSE bits[l - 1][i]
    BY <1>2, <2>1
  <2>5. Bits!ClearReaches(l, n) <=>
          /\ Bits!ClearReaches(l - 1, n)
          /\ bits[l - 1][Bits!level_idx(l - 1, n)] # {}
          /\ bits[l - 1][Bits!level_idx(l - 1, n)] \ {Bits!level_remainder(l - 1, n)} = {}
    <3>1. l \in Nat /\ l - 1 \in Nat /\ (l - 1) - 1 \in Int
      BY <1>1, LevelsAre
    <3>2. 0 .. l - 1 = 0 .. (l - 1) - 1 \cup {l - 1}
      BY <3>1
    <3> QED
      BY <3>2 DEF Bits!ClearReaches, Bits!Word
  <2>6. CASE i = Bits!level_idx(l - 1, n)
    BY <2>1, <2>2, <2>3, <2>4, <2>5, <2>6
  <2>7. CASE i # Bits!level_idx(l - 1, n)
    BY <2>1, <2>2, <2>3, <2>4, <2>7
  <2> QED
    BY <2>6, <2>7
<1>5. Bits!SummariesAgree'
  <2>1. \A l \in Bits!Levels \ {0} : DOMAIN bits'[l - 1] = 0 .. Width(l - 1) - 1
    BY <1>1, <1>2, LevelsAre
  <2>2. \A l \in Bits!Levels \ {0} : \A i \in DOMAIN bits'[l - 1] :
          i % B \in bits'[l][i \div B] <=> bits'[l - 1][i] # {}
    BY <1>4, <2>1
  <2> QED
    BY <1>1, <2>2 DEF Bits!SummariesAgree, B
<1>6. DOMAIN bits' = Bits!Levels
  BY <1>1
<1> QED
  BY <1>1, <1>3, <1>5, <1>6 DEF BitsInv

(* Every step of the bit set keeps its invariant.                         *)
LEMMA BitsKept ==
  ASSUME ContainersAssumption, BitsInv, [Bits!Next]_bitset
  PROVE  BitsInv'
<1>1. CASE UNCHANGED bitset
  <2>1. nr_bits' = nr_bits /\ bits' = bits
    BY <1>1 DEF bitset
  <2> QED
    BY <2>1 DEF BitsInv, Bits!SummariesAgree, Bits!Levels, Width
<1>2. ASSUME NEW n \in Bits!Bit, Bits!set(n) \/ Bits!clear(n) PROVE BitsInv'
  BY <1>2, SetKeeps, ClearKeeps
<1> QED
  BY <1>1, <1>2 DEF Bits!Next

(* A summary bit is set exactly if its word is not empty, for any width of *)
(* a word and any size whose words an unsigned can count.                  *)
THEOREM SummariesStayRight == Spec => []SummariesAgree
<1> DEFINE Inv == subject = "bits" => BitsInv
<1>1. Init => Inv
  BY ContainersAssumption, BitsStart DEF Init
<1>2. Inv /\ [Next]_vars => Inv'
  <2> SUFFICES ASSUME Inv, [Next]_vars, subject' = "bits" PROVE BitsInv'
    OBVIOUS
  <2>1. subject = "bits" /\ [Bits!Next]_bitset
    BY DEF Next, vars
  <2> QED
    BY <2>1, ContainersAssumption, BitsKept
<1>3. Inv => SummariesAgree
  BY DEF BitsInv, SummariesAgree
<1> QED
  BY <1>1, <1>2, <1>3, PTL DEF Spec

-----------------------------------------------------------------------------
(* The finders of DynamicBits                                              *)

(* The powers of two keep the order.                                      *)
LEMMA PowersGrow ==
  ASSUME NEW a \in Nat, NEW b \in Nat, a <= b
  PROVE  Bits!pow2[a] <= Bits!pow2[b]
<1>1. PICK d \in Nat : d = b - a
  OBVIOUS
<1>2. a + d = b
  BY <1>1
<1>3. PICK x, y, z : x = Bits!pow2[a] /\ y = Bits!pow2[d] /\ z = Bits!pow2[b]
  OBVIOUS
<1>4. x \in Nat \ {0} /\ y \in Nat \ {0} /\ z = x * y
  <2>1. Bits!pow2[a + d] = Bits!pow2[a] * Bits!pow2[d]
    BY PowerOfSum
  <2>2. Bits!pow2[a] \in Nat \ {0} /\ Bits!pow2[d] \in Nat \ {0}
    BY Powers
  <2> QED
    BY <1>2, <1>3, <2>1, <2>2
<1>5. x * (y - 1) >= 0
  BY <1>4
<1>6. x * (y - 1) = z - x
  BY <1>4
<1> QED
  BY <1>3, <1>4, <1>5, <1>6

(* Division keeps the order.                                              *)
LEMMA DivOrder ==
  ASSUME NEW a \in Nat, NEW b \in Nat, a <= b, NEW u \in Nat, u > 0
  PROVE  a \div u <= b \div u
<1>1. PICK p, q, r, s : p = a \div u /\ r = a % u /\ q = b \div u /\ s = b % u
  OBVIOUS
<1>2. /\ p \in Int /\ r \in Int /\ 0 <= r /\ r < u /\ a = u * p + r
      /\ q \in Int /\ s \in Int /\ 0 <= s /\ s < u /\ b = u * q + s
  BY <1>1, DivMod
<1>3. ~(p > q)
  <2> SUFFICES ASSUME p >= q + 1 PROVE FALSE
    BY <1>2
  <2>1. u * (p - q - 1) >= 0
    BY <1>2
  <2>2. u * (p - q - 1) = u * p - u * q - u
    BY <1>2
  <2> QED
    BY <1>2, <2>1, <2>2
<1> QED
  BY <1>1, <1>2, <1>3

(* A bit's place in a level keeps the order of the bits.                   *)
LEMMA PlaceOrder ==
  ASSUME ContainersAssumption, NEW m \in Nat, NEW n \in Nat, m <= n, NEW l \in Nat
  PROVE  Place(l, m) <= Place(l, n)
<1>1. l * level_shift \in Nat
  BY WordBits
<1>2. Bits!pow2[l * level_shift] \in Nat \ {0}
  BY <1>1, Powers
<1> QED
  BY <1>2, DivOrder DEF Place

(* There is a level at least, and the highest is a single word.            *)
LEMMA LevelsShape ==
  ASSUME ContainersAssumption, nr_bits \in SizeBounds
  PROVE  /\ Bits!nr_levels(nr_bits) \in Nat /\ Bits!nr_levels(nr_bits) >= 1
         /\ \A n \in Bits!Bit : Place(Bits!nr_levels(nr_bits), n) = 0
<1>1. PICK s \in Nat, n \in Nat : s = level_shift /\ s > 0 /\ n = nr_bits /\ n > 0
  BY WordBits
<1>2. PICK x \in Nat : x = Bits!align_up(n, Bits!bits_per_int) /\ x >= n /\ x > 1
  <2>1. PICK w \in Nat, b \in Nat : w = WordsFor(n) /\ b = B /\ b > 1
    BY Aligned, WordBits
  <2>2. Bits!align_up(n, B) = w * b /\ n <= w * b /\ w > 0
    BY <1>1, <2>1, Aligned
  <2>3. w * b >= b
    <3>1. (w - 1) * b >= 0
      BY <2>1, <2>2
    <3>2. (w - 1) * b = w * b - b
      BY <2>1
    <3> QED
      BY <2>1, <3>1, <3>2
  <2>4. w * b \in Nat /\ w * b > 1
    BY <2>1, <2>3
  <2> QED
    BY <2>2, <2>4 DEF B
<1>3. PICK T : T = {k \in 0 .. x : x <= Bits!pow2[k]}
  OBVIOUS
<1>4. x \in T /\ T \in SUBSET Nat
  BY <1>3, Powers
<1>5. PICK k \in T : \A j \in T : k <= j
  BY <1>4, Least
<1>6. Bits!log2ceil(x) \in T
  BY <1>3, <1>5 DEF Bits!log2ceil, Bits!Min
<1>7. PICK c \in Nat : c = Bits!log2ceil(x) /\ x <= Bits!pow2[c] /\ c > 0
  BY <1>2, <1>3, <1>4, <1>6, Powers
<1>8. PICK v, r : v = (c + s - 1) \div s /\ r = (c + s - 1) % s
  OBVIOUS
<1>9. v \in Int /\ r \in Int /\ 0 <= r /\ r < s /\ c + s - 1 = s * v + r
  <2>1. s \in Int /\ s > 0 /\ c \in Int
    BY <1>1, <1>7
  <2>2. PICK e \in Int : e = c + s - 1
    BY <2>1
  <2>3. v = e \div s /\ r = e % s
    BY <1>8, <2>2
  <2> QED
    BY ONLY <2>1, <2>2, <2>3, DivMod
<1>10. s * v >= c
  BY <1>1, <1>7, <1>9
<1>11. v >= 1
  <2> SUFFICES ASSUME v <= 0 PROVE FALSE
    BY <1>9
  <2>1. s * (0 - v) >= 0
    BY <1>1, <1>9
  <2>2. s * (0 - v) = 0 - s * v
    BY <1>1, <1>9
  <2> QED
    BY <1>1, <1>7, <1>9, <1>10, <2>1, <2>2
<1>12. Bits!nr_levels(nr_bits) = v
  BY <1>1, <1>2, <1>7, <1>8 DEF Bits!nr_levels
<1>13. PICK u \in Nat : u = Bits!pow2[v * level_shift] /\ n <= u
  <2>1. v * level_shift \in Nat /\ c <= v * level_shift
    BY <1>1, <1>9, <1>10, <1>11
  <2>2. Bits!pow2[c] <= Bits!pow2[v * level_shift] /\ Bits!pow2[c] \in Nat /\ Bits!pow2[v * level_shift] \in Nat
    BY <1>7, <2>1, PowersGrow, Powers
  <2> QED
    BY <1>1, <1>2, <1>7, <2>2
<1>14. ASSUME NEW m \in Bits!Bit PROVE Place(v, m) = 0
  <2>1. m \in Nat /\ m < u /\ u > 0
    BY <1>1, <1>13 DEF Bits!Bit
  <2>2. m = u * 0 + m
    BY <2>1
  <2>3. 0 = m \div u
    BY <2>1, <2>2, DivModUnique
  <2> QED
    BY <1>13, <2>3 DEF Place
<1> QED
  BY <1>9, <1>11, <1>12, <1>14

(* Every bit has a word in each level.                                     *)
LEMMA PlaceWithin ==
  ASSUME ContainersAssumption, nr_bits \in SizeBounds, NEW n \in Bits!Bit, NEW l \in Nat
  PROVE  Place(l + 1, n) \in 0 .. Width(l) - 1
<1> DEFINE A == {k \in Nat : Place(k + 1, n) \in 0 .. Width(k) - 1}
<1>1. nr_bits \in Nat /\ nr_bits > 0 /\ n \in Nat /\ n < nr_bits
  BY WordBits DEF Bits!Bit
<1>2. 0 \in A
  <2>1. PICK w \in Nat, b \in Nat : w = WordsFor(nr_bits) /\ b = B /\ b > 1 /\ nr_bits <= w * b
    BY <1>1, Aligned, WordBits
  <2>2. PICK q, r : q = n \div b /\ r = n % b
    OBVIOUS
  <2>3. q \in Int /\ r \in Int /\ 0 <= r /\ r < b /\ n = b * q + r
    BY <1>1, <2>1, <2>2, DivMod
  <2>4. q < w
    <3> SUFFICES ASSUME q >= w PROVE FALSE
      BY <2>1, <2>3
    <3>1. b * (q - w) >= 0
      BY <2>1, <2>3
    <3>2. b * (q - w) = b * q - w * b
      BY <2>1, <2>3
    <3> QED
      BY <1>1, <2>1, <2>3, <3>1, <3>2
  <2>5. Width(0) = w
    BY <1>1, <2>1, LevelWords DEF Width
  <2>6. Place(0 + 1, n) = q
    <3>1. Place(0 + 1, n) = Place(0, n) \div B /\ Place(0, n) = n
      BY <1>1, Places
    <3> QED
      BY <2>1, <2>2, <3>1
  <2>7. q >= 0
    BY <1>1, <2>1, <2>2, PlaceNat
  <2>8. q \in 0 .. w - 1
    BY <2>1, <2>3, <2>4, <2>7
  <2> QED
    BY <2>5, <2>6, <2>8
<1>3. ASSUME NEW k \in A PROVE k + 1 \in A
  <2>1. k \in Nat /\ k + 1 \in Nat /\ Place(k + 1, n) \in 0 .. Width(k) - 1
    OBVIOUS
  <2>2. Place(k + 1, n) \div B \in 0 .. Width(k + 1) - 1
    BY <2>1, WordAbove
  <2>3. Place((k + 1) + 1, n) = Place(k + 1, n) \div B
    BY <1>1, <2>1, Places
  <2> QED
    BY <2>1, <2>2, <2>3
<1>4. A \in SUBSET Nat
  OBVIOUS
<1> HIDE DEF A
<1>5. A = Nat
  BY <1>2, <1>3, <1>4, Induction
<1> QED
  BY <1>5 DEF A

(* Only bits of the set are set, and summaries that stand for some.        *)
BitsInRange ==
  \A l \in Bits!Levels : \A i \in 0 .. Width(l) - 1 : \A b \in bits[l][i] :
    \E m \in Bits!Bit : Place(l, m) = B * i + b

(* A place as the number of its word and the bit in it.                   *)
LEMMA Digits ==
  ASSUME ContainersAssumption, NEW d \in Nat, NEW i, i = d \div B, NEW b, b = d % B
  PROVE  d = B * i + b /\ b \in 0 .. B - 1
<1>1. PICK u \in Nat : u = B /\ u > 0
  BY WordBits
<1>2. i \in Int /\ b \in Int /\ 0 <= b /\ b < u /\ d = u * i + b
  BY <1>1, DivMod
<1> QED
  BY <1>1, <1>2

FinderInv == BitsInv /\ BitsInRange

(* set sets only bits that stand for its n.                               *)
LEMMA RangeKept ==
  ASSUME ContainersAssumption, FinderInv, [Bits!Next]_bitset
  PROVE  BitsInRange'
<1>1. CASE UNCHANGED bitset
  <2>1. nr_bits' = nr_bits /\ bits' = bits
    BY <1>1 DEF bitset
  <2> QED
    BY <2>1 DEF FinderInv, BitsInRange, Bits!Levels, Bits!Bit, Width
<1>2. ASSUME NEW n \in Bits!Bit, Bits!set(n) \/ Bits!clear(n) PROVE BitsInRange'
  <2>1. /\ nr_bits' = nr_bits /\ Bits!Levels' = Bits!Levels /\ Bits!Bit' = Bits!Bit
        /\ \A l : Width(l)' = Width(l)
    BY <1>2 DEF Bits!set, Bits!clear, Bits!Levels, Bits!Bit, Width
  <2>2. n \in Nat /\ B \in Nat /\ B > 1
    BY WordBits DEF FinderInv, BitsInv, Bits!Bit
  <2>3. ASSUME NEW l \in Bits!Levels, NEW i \in 0 .. Width(l) - 1
        PROVE  \A b \in bits'[l][i] :
                 b \in bits[l][i] \/ (i = Bits!level_idx(l, n) /\ b = Bits!level_remainder(l, n))
    <3>1. DOMAIN bits[l] = 0 .. Width(l) - 1
      BY DEF FinderInv, BitsInv
    <3>2. CASE Bits!set(n)
      <4>1. bits'[l][i] = IF i = Bits!level_idx(l, n) /\ Bits!SetReaches(l, n)
                          THEN bits[l][i] \cup {Bits!level_remainder(l, n)} ELSE bits[l][i]
        BY <3>1, <3>2 DEF Bits!set
      <4> QED
        BY <4>1
    <3>3. CASE Bits!clear(n)
      <4>1. bits'[l][i] = IF i = Bits!level_idx(l, n) /\ Bits!ClearReaches(l, n)
                          THEN bits[l][i] \ {Bits!level_remainder(l, n)} ELSE bits[l][i]
        BY <3>1, <3>3 DEF Bits!clear
      <4> QED
        BY <4>1
    <3> QED
      BY <1>2, <3>2, <3>3
  <2>4. ASSUME NEW l \in Bits!Levels, NEW i \in 0 .. Width(l) - 1, NEW b \in bits'[l][i]
        PROVE  \E m \in Bits!Bit : Place(l, m) = B * i + b
    <3>1. CASE b \in bits[l][i]
      BY <3>1 DEF FinderInv, BitsInRange
    <3>2. CASE i = Bits!level_idx(l, n) /\ b = Bits!level_remainder(l, n)
      <4>1. l \in Nat
        BY LevelsAre DEF FinderInv, BitsInv
      <4>2. PICK d \in Nat : d = Place(l, n)
        BY <2>2, <4>1, Places
      <4>3. i = d \div B /\ b = d % B
        BY <2>2, <3>2, <4>1, <4>2, Places
      <4>4. d = B * i + b
        BY <4>2, <4>3, Digits
      <4> QED
        BY <4>2, <4>4
    <3> QED
      BY <2>3, <3>1, <3>2
  <2> QED
    BY <2>1, <2>4 DEF BitsInRange, Place
<1> QED
  BY <1>1, <1>2 DEF Bits!Next

(* A bit of a level is set exactly if it is the place of a member.         *)
MemberBits(l) ==
  \A i \in 0 .. Width(l) - 1, b \in 0 .. B - 1 :
    b \in bits[l][i] <=> \E m \in Bits!Members : Place(l, m) = B * i + b

(* By the levels from below: a summary is set for a word that is not      *)
(* empty.                                                                 *)
LEMMA BitsOfMembers ==
  ASSUME ContainersAssumption, FinderInv
  PROVE  \A l \in Bits!Levels : MemberBits(l)
<1> DEFINE A == {l \in Nat : l \in Bits!Levels => MemberBits(l)}
<1>1. /\ nr_bits \in SizeBounds /\ B \in Nat /\ B > 1
      /\ \A m \in Bits!Bit : m \in Nat
      /\ \A m \in Bits!Members : m \in Bits!Bit /\ m \in Nat
  BY WordBits DEF FinderInv, BitsInv, Bits!Bit, Bits!Members
<1>2. 0 \in A
  <2> SUFFICES ASSUME 0 \in Bits!Levels, NEW i \in 0 .. Width(0) - 1, NEW b \in 0 .. B - 1
               PROVE  b \in bits[0][i] <=> \E m \in Bits!Members : Place(0, m) = B * i + b
    BY DEF MemberBits
  <2>0. i \in Int
    OBVIOUS
  <2>1. ASSUME NEW m \in Bits!Bit, m = B * i + b
        PROVE  m \in Bits!Members <=> b \in bits[0][i]
    <3>1. i = m \div B /\ b = m % B
      BY <1>1, <2>0, <2>1, DivModUnique
    <3>2. Bits!level_idx(0, m) = i /\ Bits!level_remainder(0, m) = b
      <4>1. Place(0, m) = m /\ Place(0 + 1, m) = Place(0, m) \div B
        BY <1>1, Places
      <4>2. Bits!level_idx(0, m) = Place(0 + 1, m) /\ Bits!level_remainder(0, m) = Place(0, m) % B
        BY <1>1, Places
      <4> QED
        BY <3>1, <4>1, <4>2
    <3> QED
      BY <3>2 DEF Bits!Members, Bits!test, Bits!Word
  <2>2. \A m \in Bits!Bit : Place(0, m) = m
    BY <1>1, Places
  <2>3. b \in bits[0][i] => \E m \in Bits!Bit : m = B * i + b
    BY <2>2 DEF FinderInv, BitsInRange
  <2> QED
    BY <1>1, <2>1, <2>2, <2>3
<1>3. ASSUME NEW k \in A PROVE k + 1 \in A
  <2> SUFFICES ASSUME k + 1 \in Bits!Levels, NEW i \in 0 .. Width(k + 1) - 1, NEW b \in 0 .. B - 1
               PROVE  b \in bits[k + 1][i] <=> \E m \in Bits!Members : Place(k + 1, m) = B * i + b
    BY DEF MemberBits
  <2>1. k \in Nat /\ k + 1 \in Nat /\ k + 1 \in Bits!Levels \ {0} /\ (k + 1) - 1 = k /\ k \in Bits!Levels
    <3>1. k \in Nat /\ k + 1 \in Bits!Levels \ {0} /\ (k + 1) - 1 = k
      OBVIOUS
    <3> QED
      BY <1>1, <3>1, LevelsAre
  <2>2. i \in Int /\ b \in Int /\ 0 <= b /\ b < B
    BY <1>1
  <2>3. PICK j \in Int : j = B * i + b
    BY <1>1, <2>2
  <2>4. i = j \div B /\ b = j % B
    BY <1>1, <2>2, <2>3, DivModUnique
  <2>5. ASSUME j \in 0 .. Width(k) - 1
        PROVE  b \in bits[k + 1][i] <=> bits[k][j] # {}
    <3>1. j \in DOMAIN bits[k]
      BY <2>1, <2>5 DEF FinderInv, BitsInv
    <3> QED
      BY <2>1, <2>4, <3>1 DEF FinderInv, BitsInv, Bits!SummariesAgree, B
  <2>6. \A m \in Bits!Bit : Place(k + 1, m) = j => j \in 0 .. Width(k) - 1
    BY <1>1, <2>1, PlaceWithin
  <2>7. \A c \in 0 .. B - 1 : j \in 0 .. Width(k) - 1 =>
          (c \in bits[k][j] <=> \E m \in Bits!Members : Place(k, m) = B * j + c)
    BY <2>1 DEF MemberBits
  <2>8. ASSUME b \in bits[k + 1][i] PROVE \E m \in Bits!Members : Place(k + 1, m) = B * i + b
    <3>1. \E m \in Bits!Bit : Place(k + 1, m) = j
      BY <2>3, <2>8 DEF FinderInv, BitsInRange
    <3>2. j \in 0 .. Width(k) - 1
      BY <2>6, <3>1
    <3>3. PICK c \in bits[k][j] : TRUE
      BY <2>5, <2>8, <3>2
    <3>4. c \in 0 .. B - 1
      <4>1. bits[k] \in [0 .. Width(k) - 1 -> SUBSET (0 .. B - 1)]
        BY <2>1 DEF FinderInv, BitsInv
      <4> QED
        BY <3>2, <3>3, <4>1
    <3>5. PICK m \in Bits!Members : Place(k, m) = B * j + c
      BY <2>7, <3>2, <3>3, <3>4
    <3>6. j = Place(k, m) \div B
      BY <1>1, <2>3, <3>4, <3>5, DivModUnique
    <3>7. Place(k + 1, m) = j
      BY <1>1, <2>1, <3>6, Places
    <3> QED
      BY <2>3, <3>7
  <2>9. ASSUME NEW m \in Bits!Members, Place(k + 1, m) = j PROVE b \in bits[k + 1][i]
    <3>1. j \in 0 .. Width(k) - 1
      BY <1>1, <2>6, <2>9
    <3>2. PICK d \in Nat : d = Place(k, m)
      BY <1>1, <2>1, Places
    <3>3. j = d \div B
      BY <1>1, <2>1, <2>9, <3>2, Places
    <3>4. PICK c : c = d % B
      OBVIOUS
    <3>5. c \in 0 .. B - 1 /\ d = B * j + c
      BY <1>1, <3>2, <3>3, <3>4, DivMod
    <3>6. c \in bits[k][j]
      BY <2>7, <3>1, <3>2, <3>5
    <3> QED
      BY <2>5, <3>1, <3>6
  <2> QED
    BY <2>3, <2>8, <2>9
<1>4. A \in SUBSET Nat
  OBVIOUS
<1> HIDE DEF A
<1>5. A = Nat
  BY <1>2, <1>3, <1>4, Induction
<1>6. \A l \in Bits!Levels : l \in Nat
  BY <1>1, LevelsAre
<1> QED
  BY <1>5, <1>6 DEF A

(* The ends of a set of numbers.                                          *)
LEMMA BitsMin ==
  ASSUME NEW T \in SUBSET Int, NEW x \in T, \A y \in T : x <= y
  PROVE  Bits!Min(T) = x
<1>1. \A z \in T : (\A y \in T : z <= y) => z = x
  OBVIOUS
<1> QED
  BY <1>1 DEF Bits!Min

(* Max of the bit set is the greatest member.                             *)
LEMMA BitsMax ==
  ASSUME NEW T \in SUBSET Int, NEW x \in T, \A y \in T : y <= x
  PROVE  Bits!Max(T) = x
<1>1. \A z \in T : (\A y \in T : z >= y) => z = x
  OBVIOUS
<1> QED
  BY <1>1 DEF Bits!Max

(* The outermost member, first or last, if there is one                    *)
Extreme(which, x) ==
  /\ x \in Bits!Members
  /\ \A m \in Bits!Members : IF which = "first" THEN x <= m ELSE m <= x

(* Where the descent is when it comes to level l - 1                       *)
Stands(x, l) ==
  IF Bits!Members = {} THEN IF l = Bits!nr_levels(nr_bits) THEN 0 ELSE -1
  ELSE Place(l, x)

DescentStep(which, l, p) ==
  IF p = Bits!nopos \/ bits[l][p] = {} THEN Bits!nopos
  ELSE p * Bits!bits_per_int + Bits!Outermost(bits[l][p], which)

(* One step of the descent.                                               *)
LEMMA StepDown ==
  ASSUME ContainersAssumption, FinderInv, NEW which, NEW x,
         Bits!Members # {} => Extreme(which, x), NEW l \in Bits!Levels
  PROVE  DescentStep(which, l, Stands(x, l + 1)) = Stands(x, l)
<1>1. /\ nr_bits \in SizeBounds /\ nr_bits \in Nat /\ nr_bits > 0 /\ B \in Nat /\ B > 1
      /\ \A m \in Bits!Members : m \in Bits!Bit /\ m \in Nat
  BY WordBits DEF FinderInv, BitsInv, Bits!Bit, Bits!Members
<1>2. PICK top \in Nat : top = Bits!nr_levels(nr_bits) /\ l \in Nat /\ l + 1 <= top /\ l # top
  BY <1>1, LevelsAre, LevelsShape
<1>3. ASSUME NEW p \in 0 .. Width(l) - 1
      PROVE  /\ bits[l][p] \subseteq 0 .. B - 1
             /\ \A b \in 0 .. B - 1 :
                  b \in bits[l][p] <=> \E m \in Bits!Members : Place(l, m) = B * p + b
  <2>1. bits[l] \in [0 .. Width(l) - 1 -> SUBSET (0 .. B - 1)]
    BY DEF FinderInv, BitsInv
  <2> QED
    BY <2>1, BitsOfMembers DEF MemberBits
<1>4. CASE Bits!Members = {}
  <2>1. Stands(x, l) = -1
    BY <1>2, <1>4 DEF Stands
  <2>2. CASE l + 1 = top
    <3>1. 0 \in Bits!Bit
      BY <1>1 DEF Bits!Bit
    <3>2. Place(l + 1, 0) = 0
      BY <1>1, <1>2, <2>2, <3>1, LevelsShape
    <3>3. 0 \in 0 .. Width(l) - 1
      BY <1>1, <1>2, <3>1, <3>2, PlaceWithin
    <3>4. bits[l][0] = {}
      BY <1>3, <1>4, <3>3
    <3>5. Stands(x, l + 1) = 0
      BY <1>2, <1>4, <2>2 DEF Stands
    <3> QED
      BY <2>1, <3>4, <3>5 DEF DescentStep, Bits!nopos
  <2>3. CASE l + 1 # top
    <3>1. Stands(x, l + 1) = -1
      BY <1>2, <1>4, <2>3 DEF Stands
    <3> QED
      BY <2>1, <3>1 DEF DescentStep, Bits!nopos
  <2> QED
    BY <2>2, <2>3
<1>5. CASE Bits!Members # {}
  <2>1. x \in Bits!Members /\ x \in Bits!Bit /\ x \in Nat
    BY <1>1, <1>5 DEF Extreme
  <2>2. PICK d, p : d \in Nat /\ d = Place(l, x) /\ p = Place(l + 1, x)
    BY <1>2, <2>1, Places
  <2>3. p \in 0 .. Width(l) - 1
    BY <1>1, <1>2, <2>1, <2>2, PlaceWithin
  <2>4. p = d \div B
    BY <1>2, <2>1, <2>2, Places
  <2>5. PICK b \in 0 .. B - 1 : d = B * p + b
    BY <2>2, <2>4, Digits
  <2>6. p \in Int /\ b \in Int /\ p # -1 /\ p >= 0
    BY <1>1, <2>2, <2>4, PlaceNat
  <2>7. b \in bits[l][p]
    BY <1>3, <2>1, <2>2, <2>3, <2>5
  <2>8. PICK T : T = bits[l][p]
    OBVIOUS
  <2>9. T \in SUBSET Int /\ b \in T
    BY <1>1, <1>3, <2>3, <2>7, <2>8
  <2>10. ASSUME NEW c \in T PROVE IF which = "first" THEN b <= c ELSE c <= b
    <3>1. c \in 0 .. B - 1
      BY <1>3, <2>3, <2>8
    <3>2. PICK m \in Bits!Members : Place(l, m) = B * p + c
      BY <1>3, <2>3, <2>8, <3>1
    <3>3. CASE which = "first"
      <4>1. x <= m
        BY <1>5, <3>3 DEF Extreme
      <4>2. d <= B * p + c
        BY <1>1, <1>2, <2>1, <2>2, <3>2, <4>1, PlaceOrder
      <4> QED
        BY <1>1, <2>5, <2>6, <3>1, <3>3, <4>2
    <3>4. CASE which # "first"
      <4>1. m <= x
        BY <1>5, <3>4 DEF Extreme
      <4>2. B * p + c <= d
        BY <1>1, <1>2, <2>1, <2>2, <3>2, <4>1, PlaceOrder
      <4> QED
        BY <1>1, <2>5, <2>6, <3>1, <3>4, <4>2
    <3> QED
      BY <3>3, <3>4
  <2>11. Bits!Outermost(T, which) = b
    <3>1. CASE which = "first"
      BY <2>9, <2>10, <3>1, BitsMin DEF Bits!Outermost
    <3>2. CASE which # "first"
      BY <2>9, <2>10, <3>2, BitsMax DEF Bits!Outermost
    <3> QED
      BY <3>1, <3>2
  <2>12. Stands(x, l + 1) = p /\ Stands(x, l) = d
    BY <1>5, <2>2 DEF Stands
  <2>13. p * B + b = d
    BY <1>1, <2>5, <2>6
  <2>14. DescentStep(which, l, p) = p * B + b
    BY <2>6, <2>7, <2>8, <2>11 DEF DescentStep, Bits!nopos, B
  <2> QED
    BY <2>12, <2>13, <2>14
<1> QED
  BY <1>4, <1>5

(* The descent ends at the first or the last member, if there is one.      *)
LEMMA DescendFinds ==
  ASSUME ContainersAssumption, FinderInv, NEW which, NEW x,
         Bits!Members # {} => Extreme(which, x)
  PROVE  Bits!Descend(which) = IF Bits!Members = {} THEN Bits!nopos ELSE x
<1>1. PICK top \in Nat : /\ top = Bits!nr_levels(nr_bits) /\ top >= 1
                         /\ Bits!Levels = 0 .. top - 1
                         /\ \A n \in Bits!Bit : Place(top, n) = 0
  BY LevelsShape DEF FinderInv, BitsInv, Bits!Levels
<1>2. /\ \A m \in Bits!Members : m \in Bits!Bit /\ m \in Nat
  BY WordBits DEF FinderInv, BitsInv, Bits!Bit, Bits!Members
<1>3. Stands(x, top) = 0
  <2>1. Bits!Members # {} => x \in Bits!Bit
    BY <1>2 DEF Extreme
  <2> QED
    BY <1>1, <2>1 DEF Stands
<1>4. PICK F : F = [l \in 0 .. top |-> Stands(x, l)]
  OBVIOUS
<1>5. F = [l \in 0 .. top |-> IF l = top THEN 0 ELSE DescentStep(which, l, F[l + 1])]
  <2>1. ASSUME NEW l \in 0 .. top, l # top PROVE F[l] = DescentStep(which, l, F[l + 1])
    <3>1. l \in Bits!Levels /\ l + 1 \in 0 .. top
      BY <1>1, <2>1
    <3>2. F[l + 1] = Stands(x, l + 1) /\ F[l] = Stands(x, l)
      BY <1>4, <3>1
    <3> QED
      BY <3>1, <3>2, StepDown
  <2>2. F[top] = 0
    BY <1>1, <1>3, <1>4
  <2> QED
    BY <1>4, <2>1, <2>2
<1>6. PICK K : /\ K = [l \in 0 .. top |-> IF l = top THEN 0 ELSE DescentStep(which, l, K[l + 1])]
               /\ Bits!Descend(which) = K[0]
  BY <1>1, <1>5 DEF Bits!Descend, DescentStep
<1>7. \A n \in Nat : n <= top => K[top - n] = Stands(x, top - n)
  <2> DEFINE A == {n \in Nat : n <= top => K[top - n] = Stands(x, top - n)}
  <2>1. 0 \in A
    <3>1. top \in 0 .. top /\ top - 0 = top
      BY <1>1
    <3> QED
      BY <1>3, <1>6, <3>1
  <2>2. ASSUME NEW n \in A PROVE n + 1 \in A
    <3> SUFFICES ASSUME n + 1 <= top PROVE K[top - (n + 1)] = Stands(x, top - (n + 1))
      OBVIOUS
    <3>1. PICK l \in Nat : l = top - (n + 1)
      BY <1>1
    <3>2. l \in 0 .. top /\ l # top /\ l \in Bits!Levels /\ l + 1 = top - n /\ n <= top
      BY <1>1, <3>1
    <3>3. K[l + 1] = Stands(x, l + 1)
      BY <3>2
    <3>4. K[l] = DescentStep(which, l, K[l + 1])
      BY <1>6, <3>2
    <3> QED
      BY <3>1, <3>2, <3>3, <3>4, StepDown
  <2>3. A \in SUBSET Nat
    OBVIOUS
  <2> HIDE DEF A
  <2>4. A = Nat
    BY <2>1, <2>2, <2>3, Induction
  <2> QED
    BY <2>4 DEF A
<1>8. K[0] = Stands(x, 0)
  <2>1. top - top = 0 /\ top <= top
    BY <1>1
  <2> QED
    BY <1>1, <1>7, <2>1
<1>9. Stands(x, 0) = IF Bits!Members = {} THEN Bits!nopos ELSE x
  <2>1. Bits!Members # {} => x \in Nat
    BY <1>2 DEF Extreme
  <2>2. Bits!Members # {} => Place(0, x) = x
    BY <2>1, Places
  <2> QED
    BY <1>1, <2>2 DEF Stands, Bits!nopos
<1> QED
  BY <1>6, <1>8, <1>9

(* The bits that a bit of level l stands for                               *)
Span(l) == Bits!pow2[l * level_shift]

(* The spans of two levels next to each other.                            *)
LEMMA Spans ==
  ASSUME ContainersAssumption, NEW l \in Nat
  PROVE  /\ Span(0) = 1 /\ Span(l) \in Nat /\ Span(l) > 0
         /\ Span(l + 1) = Span(l) * B
<1>1. PICK s \in Nat, k \in Nat : s = level_shift /\ k = l * level_shift
  BY WordBits
<1>2. (l + 1) * level_shift = k + s /\ 0 * level_shift = 0
  BY <1>1
<1>3. Bits!pow2[k + s] = Bits!pow2[k] * Bits!pow2[s]
  BY PowerOfSum
<1>4. Bits!pow2[k] \in Nat \ {0} /\ Bits!pow2[0] = 1
  BY Powers
<1> QED
  BY <1>1, <1>2, <1>3, <1>4, WordBits DEF Span

(* A number lies in the span of its place.                                *)
LEMMA PlaceSpan ==
  ASSUME ContainersAssumption, NEW l \in Nat, NEW n \in Nat
  PROVE  /\ Place(l, n) \in Nat
         /\ Span(l) * Place(l, n) <= n /\ n < Span(l) * Place(l, n) + Span(l)
         /\ Span(l) * Place(l, n) \in Nat
         /\ Place(l, Span(l) * n) = n
<1>1. PICK u \in Nat : u = Span(l) /\ u > 0
  BY Spans
<1>2. PICK q, r : q = n \div u /\ r = n % u
  OBVIOUS
<1>3. q \in Int /\ r \in Int /\ 0 <= r /\ r < u /\ n = u * q + r
  <2>1. u \in Int /\ n \in Int /\ u > 0
    BY <1>1
  <2> QED
    BY ONLY <1>2, <2>1, DivMod
<1>4. q \in Nat
  BY <1>1, <1>2, PlaceNat
<1>5. u * q \in Nat /\ u * q <= n /\ n < u * q + u
  BY <1>1, <1>3, <1>4
<1>6. (u * n) \div u = n
  <2>1. u * n \in Int /\ u * n = u * n + 0
    BY <1>1
  <2> QED
    BY <1>1, <2>1, DivModUnique
<1> QED
  BY <1>1, <1>2, <1>4, <1>5, <1>6 DEF Place, Span

(* align_up is the next multiple: nothing later by a place lies before    *)
(* it.                                                                    *)
LEMMA AlignUp ==
  ASSUME NEW a \in Nat, NEW u \in Nat, u > 0
  PROVE  /\ Bits!align_up(a, u) \in Nat /\ a <= Bits!align_up(a, u)
         /\ \E q \in Nat : Bits!align_up(a, u) = u * q
         /\ \A x \in Nat : a \div u < x \div u => Bits!align_up(a, u) <= x
<1>1. PICK c, r : c = (a + u - 1) \div u /\ r = (a + u - 1) % u
  OBVIOUS
<1>2. c \in Int /\ r \in Int /\ 0 <= r /\ r < u /\ a + u - 1 = u * c + r
  <2>1. PICK e \in Int : e = a + u - 1
    OBVIOUS
  <2> QED
    BY <1>1, <2>1, DivMod
<1>3. c \in Nat
  <2>1. a + u - 1 \in Nat
    OBVIOUS
  <2> QED
    BY <1>1, <2>1, PlaceNat
<1>4. u * c \in Nat /\ c * u = u * c /\ a <= u * c
  BY <1>2, <1>3
<1>5. Bits!align_up(a, u) = u * c
  BY <1>1, <1>4 DEF Bits!align_up
<1>6. ASSUME NEW x \in Nat, a \div u < x \div u PROVE u * c <= x
  <2>1. PICK p, s, q, t : p = a \div u /\ s = a % u /\ q = x \div u /\ t = x % u
    OBVIOUS
  <2>2. /\ p \in Int /\ s \in Int /\ 0 <= s /\ s < u /\ a = u * p + s
        /\ q \in Int /\ t \in Int /\ 0 <= t /\ t < u /\ x = u * q + t
    BY <2>1, DivMod
  <2>3. p < q
    BY <1>6, <2>1
  <2>4. c <= q
    <3> SUFFICES ASSUME c >= q + 1 PROVE FALSE
      BY <1>2, <2>2
    <3>1. u * (c - q - 1) >= 0 /\ u * (q - p - 1) >= 0
      BY <1>2, <2>2, <2>3
    <3>2. u * (c - q - 1) = u * c - u * q - u /\ u * (q - p - 1) = u * q - u * p - u
      BY <1>2, <2>2
    <3> QED
      BY <1>2, <2>2, <3>1, <3>2
  <2>5. u * (q - c) >= 0
    BY <1>2, <2>2, <2>4
  <2>6. u * (q - c) = u * q - u * c
    BY <1>2, <2>2
  <2> QED
    BY <1>2, <2>2, <2>5, <2>6
<1> QED
  BY <1>3, <1>4, <1>5, <1>6

(* What the mask of a place leaves of its word                             *)
LEMMA MaskedAre ==
  ASSUME ContainersAssumption, FinderInv, NEW l \in Bits!Levels, NEW a \in Bits!Bit
  PROVE  \A b : b \in Bits!Masked(l, a) <=>
           /\ b \in 0 .. B - 1
           /\ B * Place(l + 1, a) + b >= Place(l, a)
           /\ \E y \in Bits!Members : Place(l, y) = B * Place(l + 1, a) + b
<1>1. nr_bits \in SizeBounds /\ a \in Nat /\ l \in Nat /\ B \in Nat /\ B > 1
  BY WordBits, LevelsAre DEF FinderInv, BitsInv, Bits!Bit
<1>2. PICK i, d, r : i \in Nat /\ d \in Nat /\ i = Place(l + 1, a) /\ d = Place(l, a) /\ r = d % B
  <2>1. Place(l + 1, a) \in Nat /\ Place(l, a) \in Nat
    BY <1>1, Places
  <2> QED
    BY <2>1
<1>3. i \in 0 .. Width(l) - 1
  BY <1>1, <1>2, PlaceWithin
<1>4. i = d \div B /\ Bits!level_idx(l, a) = i /\ Bits!level_remainder(l, a) = r
  BY <1>1, <1>2, Places
<1>5. d = B * i + r /\ r \in 0 .. B - 1
  BY <1>2, <1>4, Digits
<1>6. bits[l][i] \subseteq 0 .. B - 1
  <2>1. bits[l] \in [0 .. Width(l) - 1 -> SUBSET (0 .. B - 1)]
    BY DEF FinderInv, BitsInv
  <2> QED
    BY <1>3, <2>1
<1>7. \A b \in 0 .. B - 1 :
        b \in bits[l][i] <=> \E y \in Bits!Members : Place(l, y) = B * i + b
  BY <1>3, BitsOfMembers DEF MemberBits
<1>8. Bits!Masked(l, a) = {b \in bits[l][i] : b >= r}
  BY <1>4 DEF Bits!Masked, Bits!Word
<1>9. \A b \in 0 .. B - 1 : b >= r <=> B * i + b >= d
  BY <1>1, <1>2, <1>5
<1> QED
  BY <1>2, <1>6, <1>7, <1>8, <1>9

(* Nothing left by the mask: the members behind are in later words.        *)
LEMMA WordPassed ==
  ASSUME ContainersAssumption, FinderInv, NEW l \in Bits!Levels, NEW a \in Bits!Bit,
         Bits!Masked(l, a) = {}, NEW x \in Bits!Members, a <= x
  PROVE  Place(l + 1, a) < Place(l + 1, x)
<1>1. a \in Nat /\ x \in Nat /\ l \in Nat
  BY WordBits, LevelsAre DEF FinderInv, BitsInv, Bits!Bit, Bits!Members
<1>2. Place(l + 1, a) <= Place(l + 1, x) /\ Place(l, a) <= Place(l, x)
  BY <1>1, PlaceOrder
<1>3. Place(l + 1, a) # Place(l + 1, x)
  <2> SUFFICES ASSUME Place(l + 1, a) = Place(l + 1, x) PROVE FALSE
    OBVIOUS
  <2>1. PICK d, b : d \in Nat /\ d = Place(l, x) /\ b = d % B
    BY <1>1, Places
  <2>2. Place(l + 1, x) = d \div B
    BY <1>1, <2>1, Places
  <2>3. d = B * Place(l + 1, x) + b /\ b \in 0 .. B - 1
    BY <2>1, <2>2, Digits
  <2>4. b \in Bits!Masked(l, a)
    BY <1>2, <2>1, <2>3, MaskedAre
  <2> QED
    BY <2>4
<1>4. Place(l + 1, a) \in Nat /\ Place(l + 1, x) \in Nat
  BY <1>1, Places
<1> QED
  BY <1>2, <1>3, <1>4

(* What the climb from m has reached: a place of a level whose word has a  *)
(* bit there or behind, with no member between m and that place; or it     *)
(* reports that there is none at or behind m.                              *)
Reached(m, at) ==
  \/ at = <<>> /\ \A x \in Bits!Members : x < m
  \/ \E l \in Bits!Levels, a \in Bits!Bit :
       /\ at = <<l, a>> /\ m <= a /\ Span(l) * Place(l, a) = a
       /\ Bits!Masked(l, a) # {}
       /\ \A x \in Bits!Members : m <= x => a <= x

\* The climb stops at level l, or behind the levels.
Stops(l, a) == l \notin Bits!Levels \/ a >= nr_bits \/ Bits!Masked(l, a) # {}

(* Before the first level where the climb stops every mask was empty, so  *)
(* no member was passed.                                                  *)
LEMMA ClimbReaches ==
  ASSUME ContainersAssumption, FinderInv, NEW m \in Nat
  PROVE  Reached(m, Bits!Climb(m))
<1> DEFINE G == [p \in Nat \X Nat |-> Bits!align_up(p[2], Span(p[1]))]
<1>1. PICK top \in Nat : /\ top = Bits!nr_levels(nr_bits) /\ top >= 1
                         /\ Bits!Levels = 0 .. top - 1
                         /\ \A n \in Bits!Bit : Place(top, n) = 0
  BY LevelsShape DEF FinderInv, BitsInv, Bits!Levels
<1>16. top \in Nat /\ top >= 1 /\ \A l : l \in Bits!Levels <=> l \in Nat /\ l < top
  <2>1. \A l : l \in 0 .. top - 1 <=> l \in Nat /\ l < top
    BY <1>1
  <2> QED
    BY <1>1, <2>1
<1>2. /\ nr_bits \in Nat
      /\ \A x \in Bits!Members : x \in Bits!Bit /\ x \in Nat
      /\ \A x : x \in Bits!Bit <=> x \in Nat /\ x < nr_bits
  <2>1. nr_bits \in Nat
    BY WordBits DEF FinderInv, BitsInv
  <2>2. \A x : x \in Bits!Bit <=> x \in Nat /\ x < nr_bits
    BY <2>1 DEF Bits!Bit
  <2> QED
    BY <2>1, <2>2 DEF Bits!Members
<1>3. /\ G \in [Nat \X Nat -> Nat]
      /\ \A i, x \in Nat : G[<<i, x>>] = Bits!align_up(x, Span(i))
  <2>1. ASSUME NEW i \in Nat, NEW x \in Nat PROVE Bits!align_up(x, Span(i)) \in Nat
    BY Spans, AlignUp
  <2> QED
    BY <2>1
<1> HIDE DEF G
<1>4. PICK f \in [Nat -> Nat] : f[0] = m /\ \A l \in Nat : f[l + 1] = G[<<l + 1, f[l]>>]
  <2>1. PICK S : S = Nat
    OBVIOUS
  <2>2. m \in S /\ G \in [Nat \X S -> S]
    BY <1>3, <2>1
  <2>3. \E f \in [Nat -> S] : Recurs(f, m, G)
    BY <2>2, Recursion
  <2> QED
    BY <2>1, <2>3 DEF Recurs
<1>5. f = [l \in Nat |-> IF l = 0 THEN m ELSE Bits!align_up(f[l - 1], Span(l))]
  <2>1. ASSUME NEW l \in Nat, l # 0 PROVE f[l] = Bits!align_up(f[l - 1], Span(l))
    <3>1. l - 1 \in Nat /\ (l - 1) + 1 = l
      BY <2>1
    <3>2. f[l] = G[<<l, f[l - 1]>>] /\ f[l - 1] \in Nat
      BY <1>4, <3>1
    <3> QED
      BY <1>3, <3>2
  <2> QED
    BY <1>4, <2>1
<1>6. PICK K : K = CHOOSE at : at = [l \in Nat |-> IF l = 0 THEN m
                    ELSE Bits!align_up(at[l - 1], Bits!pow2[l * level_shift])]
  OBVIOUS
<1>17. K = [l \in Nat |-> IF l = 0 THEN m ELSE Bits!align_up(K[l - 1], Span(l))]
  BY <1>5, <1>6 DEF Span
<1>18. PICK S, level :
        /\ S = {l \in Bits!Levels \cup {Bits!nr_levels(nr_bits)} :
                  l \notin Bits!Levels \/ K[l] >= nr_bits \/ Bits!Masked(l, K[l]) # {}}
        /\ level = Bits!Min(S)
  OBVIOUS
<1>15. /\ \A l : l \in S <=> l \in Bits!Levels \cup {top} /\ Stops(l, K[l])
       /\ level = Bits!Min(S)
       /\ Bits!Climb(m) = IF level \notin Bits!Levels \/ K[level] >= nr_bits
                           THEN <<>> ELSE <<level, K[level]>>
  <2>1. Bits!Climb(m) = IF level \notin Bits!Levels \/ K[level] >= nr_bits
                        THEN <<>> ELSE <<level, K[level]>>
    BY <1>6, <1>18 DEF Bits!Climb
  <2> QED
    BY <1>1, <1>18, <2>1 DEF Stops
<1>7. /\ K[0] = m
      /\ \A l \in Nat : K[l + 1] = Bits!align_up(K[l], Span(l + 1))
  <2>1. ASSUME NEW l \in Nat PROVE K[l + 1] = Bits!align_up(K[l], Span(l + 1))
    <3>1. l + 1 \in Nat /\ l + 1 # 0 /\ (l + 1) - 1 = l
      OBVIOUS
    <3> QED
      BY <1>17, <3>1
  <2>2. 0 \in Nat
    OBVIOUS
  <2> QED
    BY <1>17, <2>1, <2>2
<1>8. level \in S /\ \A l \in S : level <= l
  <2>1. top \in S /\ S \in SUBSET Nat
    <3>1. \A l : l \in S <=> l \in Bits!Levels \cup {top} /\ Stops(l, K[l])
      BY <1>15
    <3>2. Stops(top, K[top])
      BY <1>16 DEF Stops
    <3>3. \A l : l \in S => l \in Nat
      BY <1>16, <3>1
    <3> QED
      BY ONLY <3>1, <3>2, <3>3
  <2>2. PICK k \in S : \A l \in S : k <= l
    BY <2>1, Least
  <2>3. Bits!Min(S) = k
    BY <2>1, <2>2, BitsMin
  <2> QED
    BY <1>15, <2>2, <2>3
<1>9. level \in Nat /\ level <= top
  <2>1. level \in Bits!Levels \cup {top}
    BY <1>8, <1>15
  <2> QED
    BY <1>16, <2>1
(* So far nothing has been passed.                                         *)
<1>10. \A l \in Nat : l <= level =>
         /\ K[l] \in Nat /\ m <= K[l] /\ Span(l) * Place(l, K[l]) = K[l]
         /\ l < top => \A x \in Bits!Members : m <= x => K[l] <= x
         /\ l = top => \A x \in Bits!Members : x < m
  <2> DEFINE Good(l) == /\ K[l] \in Nat /\ m <= K[l] /\ Span(l) * Place(l, K[l]) = K[l]
                        /\ l < top => \A x \in Bits!Members : m <= x => K[l] <= x
                        /\ l = top => \A x \in Bits!Members : x < m
             A == {l \in Nat : l <= level => Good(l)}
  <2>1. Good(0)
    <3>1. Place(0, m) = m /\ Span(0) = 1
      BY Places, Spans
    <3> QED
      BY <1>16, <1>7, <3>1
  <2>2. ASSUME NEW l \in Nat, l + 1 <= level, Good(l) PROVE Good(l + 1)
    <3>1. /\ l \in Bits!Levels /\ l \notin S /\ K[l] < nr_bits
          /\ Bits!Masked(l, K[l]) = {} /\ K[l] \in Bits!Bit /\ l < top
      <4>1. l \in Bits!Levels /\ l < top
        BY <1>16, <1>9, <2>2
      <4>2. l \notin S
        BY <1>8, <1>9, <2>2
      <4>3. ~(K[l] >= nr_bits) /\ Bits!Masked(l, K[l]) = {}
        BY <1>15, <4>1, <4>2 DEF Stops
      <4> QED
        BY <1>2, <2>2, <4>1, <4>2, <4>3
    <3>2. PICK a \in Nat, u \in Nat : a = K[l] /\ u = Span(l + 1) /\ u > 0
      <4>1. l + 1 \in Nat
        BY <2>2
      <4> QED
        BY <2>2, <4>1, Spans
    <3>3. K[l + 1] = Bits!align_up(a, u)
      BY <1>7, <2>2, <3>2
    <3>4. K[l + 1] \in Nat /\ a <= K[l + 1]
      <4>1. Bits!align_up(a, u) \in Nat /\ a <= Bits!align_up(a, u)
        BY <3>2, AlignUp
      <4> QED
        BY <3>3, <4>1
    <3>5. m <= K[l + 1]
      BY <2>2, <3>2, <3>4
    <3>6. Span(l + 1) * Place(l + 1, K[l + 1]) = K[l + 1]
      <4>3. \E q \in Nat : Bits!align_up(a, u) = u * q
        BY <3>2, AlignUp
      <4>1. PICK q \in Nat : K[l + 1] = u * q
        BY <3>3, <4>3
      <4>2. Place(l + 1, u * q) = q
        <5>1. l + 1 \in Nat
          BY <2>2
        <5> QED
          BY <3>2, <5>1, PlaceSpan
      <4> QED
        BY <3>2, <4>1, <4>2
    <3>7. ASSUME NEW x \in Bits!Members, m <= x
          PROVE  Place(l + 1, a) < Place(l + 1, x)
      <4>1. a <= x
        BY <2>2, <3>1, <3>2, <3>7
      <4> QED
        BY <3>1, <3>2, <3>7, <4>1, WordPassed
    <3>8. ASSUME NEW x \in Bits!Members, m <= x PROVE K[l + 1] <= x
      <4>1. x \in Nat /\ a \div u < x \div u
        BY <1>2, <3>2, <3>7, <3>8 DEF Place, Span
      <4> QED
        BY <3>2, <3>3, <4>1, AlignUp
    <3>9. ASSUME l + 1 = top, NEW x \in Bits!Members PROVE x < m
      <4> SUFFICES ASSUME m <= x PROVE FALSE
        BY <1>2
      <4>1. Place(top, a) = 0 /\ Place(top, x) = 0
        BY <1>1, <1>2, <3>1, <3>2
      <4> QED
        BY <3>7, <3>9, <4>1
    <3> QED
      BY <3>4, <3>5, <3>6, <3>8, <3>9
  <2> HIDE DEF Good
  <2>3. 0 \in A
    BY <2>1
  <2>4. ASSUME NEW l \in A PROVE l + 1 \in A
    BY <1>9, <2>2
  <2>5. A \in SUBSET Nat
    OBVIOUS
  <2> HIDE DEF A
  <2>6. A = Nat
    BY <2>3, <2>4, <2>5, Induction
  <2> QED
    BY <2>6 DEF A, Good
<1>11. CASE level \notin Bits!Levels
  <2>1. level = top
    BY <1>16, <1>9, <1>11
  <2> QED
    BY <1>9, <1>10, <1>11, <1>15, <2>1 DEF Reached
<1>12. CASE level \in Bits!Levels /\ K[level] >= nr_bits
  <2>1. level < top /\ K[level] \in Nat
    BY <1>16, <1>9, <1>10, <1>12
  <2>2. \A x \in Bits!Members : m <= x => K[level] <= x
    BY <1>9, <1>10, <2>1
  <2>3. \A x \in Bits!Members : x < m
    BY <1>2, <1>12, <2>1, <2>2
  <2> QED
    BY <1>12, <1>15, <2>3 DEF Reached
<1>13. CASE level \in Bits!Levels /\ ~(K[level] >= nr_bits)
  <2>1. level < top /\ K[level] \in Nat
    BY <1>16, <1>9, <1>10, <1>13
  <2>2. K[level] \in Bits!Bit
    BY <1>2, <1>13, <2>1
  <2>3. Bits!Masked(level, K[level]) # {}
    BY <1>8, <1>13, <1>15 DEF Stops
  <2>4. Bits!Climb(m) = <<level, K[level]>>
    BY <1>13, <1>15
  <2>5. /\ m <= K[level] /\ Span(level) * Place(level, K[level]) = K[level]
        /\ \A x \in Bits!Members : m <= x => K[level] <= x
    BY <1>9, <1>10, <2>1
  <2> QED
    BY <1>13, <2>2, <2>3, <2>4, <2>5 DEF Reached
<1> QED
  BY <1>11, <1>12, <1>13

(* A multiple of a span is one of the smaller spans.                      *)
LEMMA AlignedBelow ==
  ASSUME ContainersAssumption, NEW k \in Nat, NEW l \in Nat, l <= k,
         NEW a \in Nat, Span(k) * Place(k, a) = a
  PROVE  Span(l) * Place(l, a) = a
<1>1. PICK s \in Nat, d \in Nat : s = level_shift /\ d = k - l
  BY WordBits
<1>2. PICK i \in Nat, j \in Nat : i = l * s /\ j = d * s
  BY <1>1
<1>3. k * s = i + j
  <2>1. k = l + d
    BY <1>1
  <2>2. (l + d) * s = l * s + d * s
    BY <1>1
  <2> QED
    BY <1>2, <2>1, <2>2
<1>4. Bits!pow2[i + j] = Bits!pow2[i] * Bits!pow2[j]
  BY PowerOfSum
<1>5. PICK u \in Nat, v \in Nat, q \in Nat :
        /\ u = Bits!pow2[i] /\ v = Bits!pow2[j] /\ q = Place(k, a)
  BY Powers, PlaceSpan
<1>6. Span(l) = u /\ Span(k) = u * v
  BY <1>1, <1>2, <1>3, <1>4, <1>5 DEF Span
<1>7. (u * v) * q = u * (v * q) /\ v * q \in Nat
  BY <1>5
<1>8. Place(l, u * (v * q)) = v * q
  BY <1>6, <1>7, PlaceSpan
<1> QED
  BY <1>5, <1>6, <1>7, <1>8

(* Who is not before an aligned place by its own place is not before it.   *)
LEMMA NotBefore ==
  ASSUME ContainersAssumption, NEW l \in Nat, NEW a \in Nat, Span(l) * Place(l, a) = a,
         NEW y \in Nat, Place(l, a) <= Place(l, y)
  PROVE  a <= Span(l) * Place(l, y) /\ a <= y
<1>1. PICK u \in Nat, p \in Nat, q \in Nat : u = Span(l) /\ p = Place(l, a) /\ q = Place(l, y)
  BY Spans, PlaceSpan
<1>2. u * (q - p) >= 0
  BY <1>1
<1>3. u * (q - p) = u * q - u * p
  BY <1>1
<1>4. u * p = a /\ u * q <= y
  BY <1>1, PlaceSpan
<1> QED
  BY <1>1, <1>2, <1>3, <1>4

(* One turn of the way down                                                *)
Turn(l, n) ==
  Bits!align_down(n, Bits!pow2[(l + 1) * level_shift])
    + Bits!Shifted(Bits!Min(Bits!Masked(l, n)), l * level_shift)

(* An unsigned that is shifted loses nothing if the result fits.          *)
LEMMA ShiftedFits ==
  ASSUME ContainersAssumption, NEW x \in Nat, NEW k \in Nat,
         x * Bits!pow2[k] < UNSIGNED
  PROVE  Bits!Shifted(x, k) = x * Bits!pow2[k]
<1>1. PICK v \in Nat, w \in Nat : v = x * Bits!pow2[k] /\ w = UNSIGNED
  BY WordBits, Powers
<1>2. v < w /\ v = w * 0 + v
  BY <1>1
<1>3. v % w = v
  BY <1>1, <1>2, DivModUnique
<1> QED
  BY <1>1, <1>3 DEF Bits!Shifted

(* A turn of the way down goes to the place of the first member, if an    *)
(* unsigned can hold that.                                                 *)
LEMMA TurnDown ==
  ASSUME ContainersAssumption, FinderInv, NEW l \in Bits!Levels,
         NEW a \in Bits!Bit, Span(l) * Place(l, a) = a,
         NEW t \in Bits!Members, a <= t, t < UNSIGNED,
         \A y \in Bits!Members : a <= y => t <= y,
         Place(l + 1, t) = Place(l + 1, a)
  PROVE  Turn(l, a) = Span(l) * Place(l, t)
<1>1. /\ a \in Nat /\ l \in Nat /\ B \in Nat /\ B > 1
      /\ \A m \in Bits!Members : m \in Nat
  BY WordBits, LevelsAre DEF FinderInv, BitsInv, Bits!Bit, Bits!Members
<1>2. PICK d, i, b : d \in Nat /\ i \in Nat /\ d = Place(l, t) /\ i = Place(l + 1, a) /\ b = d % B
  <2>1. Place(l, t) \in Nat /\ Place(l + 1, a) \in Nat
    BY <1>1, Places
  <2> QED
    BY <2>1
<1>3. i = d \div B
  BY <1>1, <1>2, Places
<1>4. d = B * i + b /\ b \in 0 .. B - 1
  BY <1>2, <1>3, Digits
<1>5. Place(l, a) <= d
  BY <1>1, <1>2, PlaceOrder
<1>6. PICK T : T = Bits!Masked(l, a)
  OBVIOUS
<1>7. b \in T
  BY <1>2, <1>4, <1>5, <1>6, MaskedAre
<1>8. ASSUME NEW c \in T PROVE c \in Int /\ b <= c
  <2>1. PICK y \in Bits!Members :
          Place(l, y) = B * i + c /\ c \in 0 .. B - 1 /\ B * i + c >= Place(l, a)
    BY <1>2, <1>6, MaskedAre
  <2>2. y \in Nat /\ Place(l, y) \in Nat /\ Place(l, a) \in Nat
    BY <1>1, Places
  <2>3. a <= y
    BY <1>1, <2>1, <2>2, NotBefore
  <2>4. t <= y
    BY <2>3
  <2>5. d <= Place(l, y)
    BY <1>1, <1>2, <2>2, <2>4, PlaceOrder
  <2>6. c \in Int /\ b \in Int /\ B * i \in Int
    BY <1>1, <1>2, <1>4, <2>1
  <2> QED
    BY <1>4, <2>1, <2>5, <2>6
<1>9. Bits!Min(T) = b
  <2>1. T \in SUBSET Int /\ \A c \in T : b <= c
    BY <1>8
  <2> QED
    BY <1>7, <2>1, BitsMin
<1>10. PICK u \in Nat, w \in Nat : u = Span(l) /\ w = B
  BY <1>1, Spans
<1>11. Bits!pow2[(l + 1) * level_shift] = u * w /\ Bits!pow2[l * level_shift] = u
  BY <1>1, <1>10, Spans DEF Span
<1>12. Bits!align_down(a, u * w) = i * (u * w)
  BY <1>2, <1>11 DEF Bits!align_down, Place
<1>13. b \in Nat
  BY <1>1, <1>4
<1>14. i * (u * w) + b * u = u * (w * i + b) /\ i * (u * w) \in Nat /\ b * u \in Nat
  BY <1>2, <1>10, <1>13
<1>15. b * u < UNSIGNED
  <2>1. t \in Nat /\ UNSIGNED \in Nat
    BY <1>1, WordBits
  <2>2. u * d <= t
    BY <1>1, <1>2, <1>10, <2>1, PlaceSpan
  <2>3. u * d = i * (u * w) + b * u
    BY <1>4, <1>10, <1>14
  <2> QED
    BY ONLY <1>14, <2>1, <2>2, <2>3, t < UNSIGNED, u * d \in Int
<1>16. Bits!Shifted(b, l * level_shift) = b * u
  <2>1. l * level_shift \in Nat
    BY <1>1, WordBits
  <2> QED
    BY <1>11, <1>13, <1>15, <2>1, ShiftedFits
<1>17. Turn(l, a) = i * (u * w) + b * u
  BY <1>6, <1>9, <1>11, <1>12, <1>16 DEF Turn
<1> QED
  BY <1>2, <1>4, <1>10, <1>14, <1>17

(* Behind a place in whose word something is left there is a member.      *)
LEMMA MemberBehind ==
  ASSUME ContainersAssumption, FinderInv, NEW l \in Bits!Levels,
         NEW a \in Bits!Bit, Span(l) * Place(l, a) = a, Bits!Masked(l, a) # {}
  PROVE  \E y \in Bits!Members : a <= y /\ Place(l + 1, y) = Place(l + 1, a)
<1>1. /\ a \in Nat /\ l \in Nat /\ B \in Nat /\ B > 1
      /\ \A x \in Bits!Members : x \in Nat
  BY WordBits, LevelsAre DEF FinderInv, BitsInv, Bits!Bit, Bits!Members
<1>2. PICK b \in Bits!Masked(l, a) : TRUE
  OBVIOUS
<1>3. PICK y \in Bits!Members :
        /\ Place(l, y) = B * Place(l + 1, a) + b /\ b \in 0 .. B - 1
        /\ B * Place(l + 1, a) + b >= Place(l, a)
  BY <1>2, MaskedAre
<1>4. y \in Nat /\ Place(l, y) \in Nat /\ Place(l, a) \in Nat
  BY <1>1, Places
<1>5. a <= y
  BY <1>1, <1>3, <1>4, NotBefore
<1>6. PICK d \in Int, i \in Int : d = Place(l, y) /\ i = Place(l + 1, a)
  <2>1. Place(l + 1, a) \in Nat
    BY <1>1, Places
  <2> QED
    BY <1>4, <2>1
<1>7. i = d \div B
  <2>1. PICK w \in Int, c \in Int : w = B /\ w > 0 /\ c = b /\ 0 <= c /\ c < w
    BY <1>1, <1>3
  <2>2. d = w * i + c
    BY <1>3, <1>6, <2>1
  <2>3. i = d \div w
    BY ONLY <2>1, <2>2, d \in Int, i \in Int, w \in Int, c \in Int, DivModUnique
  <2> QED
    BY <2>1, <2>3
<1>8. Place(l + 1, y) = Place(l, y) \div B
  BY <1>1, <1>4, Places
<1> QED
  BY <1>5, <1>6, <1>7, <1>8

(* The way down ends at the first member at or behind m, if there is one   *)
(* that an unsigned can hold.                                              *)
LEMMA DownFinds ==
  ASSUME ContainersAssumption, FinderInv, NEW m \in Nat,
         NEW level \in Bits!Levels, NEW a \in Bits!Bit, m <= a,
         Span(level) * Place(level, a) = a, Bits!Masked(level, a) # {},
         \A x \in Bits!Members : m <= x => a <= x,
         \E x \in Bits!Members : m <= x /\ x < UNSIGNED
  PROVE  \E t \in Bits!Members :
           /\ m <= t /\ \A y \in Bits!Members : m <= y => t <= y
           /\ Bits!Down(level, a) = t
<1>1. /\ a \in Nat /\ level \in Nat /\ B \in Nat /\ B > 1 /\ nr_bits \in Nat
      /\ \A l \in Nat : l <= level => l \in Bits!Levels
      /\ \A x \in Bits!Members : x \in Nat /\ x < nr_bits
      /\ \A x \in Nat : x < nr_bits => x \in Bits!Bit
  <2>1. nr_bits \in SizeBounds
    BY DEF FinderInv, BitsInv
  <2>2. level \in Nat /\ \A l \in Nat : l <= level => l \in Bits!Levels
    BY <2>1, LevelsAre
  <2> QED
    BY <2>1, <2>2, WordBits DEF Bits!Bit, Bits!Members
<1>2. PICK y \in Bits!Members : a <= y /\ Place(level + 1, y) = Place(level + 1, a)
  BY MemberBehind
<1>3. PICK T : T = {x \in Bits!Members : a <= x}
  OBVIOUS
<1>4. PICK t \in T : \A x \in T : t <= x
  <2>1. T \in SUBSET Nat /\ T # {}
    BY <1>1, <1>2, <1>3
  <2> QED
    BY <2>1, Least
<1>5. t \in Bits!Members /\ a <= t /\ \A x \in Bits!Members : a <= x => t <= x
  BY <1>3, <1>4
<1>6. t \in Nat /\ t < nr_bits /\ t <= y /\ y \in Nat /\ t < UNSIGNED
  <2>1. t \in Nat /\ t < nr_bits /\ t <= y /\ y \in Nat
    BY <1>1, <1>2, <1>5
  <2>2. PICK x \in Bits!Members : m <= x /\ x < UNSIGNED
    OBVIOUS
  <2>3. t <= x /\ x \in Nat /\ UNSIGNED \in Nat
    BY <1>1, <1>5, <2>2, WordBits
  <2> QED
    BY <2>1, <2>2, <2>3
<1>7. Place(level + 1, t) = Place(level + 1, a)
  <2>1. Place(level + 1, a) <= Place(level + 1, t) /\ Place(level + 1, t) <= Place(level + 1, y)
    BY <1>1, <1>5, <1>6, PlaceOrder
  <2>2. Place(level + 1, a) \in Nat /\ Place(level + 1, t) \in Nat
    BY <1>1, <1>6, Places
  <2> QED
    BY <1>2, <2>1, <2>2
<1>8. Turn(level, a) = Span(level) * Place(level, t)
  BY <1>5, <1>6, <1>7, TurnDown
<1>9. ASSUME NEW l \in Nat, l < level
      PROVE  Turn(l, Span(l + 1) * Place(l + 1, t)) = Span(l) * Place(l, t)
  <2>1. l + 1 \in Nat /\ l + 1 <= level /\ l \in Bits!Levels
    BY <1>1, <1>9
  <2>2. PICK e \in Nat : e = Span(l + 1) * Place(l + 1, t) /\ e <= t /\ Place(l + 1, e) = Place(l + 1, t)
    <3>1. Place(l + 1, t) \in Nat
      BY <1>6, <2>1, Places
    <3>2. Place(l + 1, Span(l + 1) * Place(l + 1, t)) = Place(l + 1, t)
      BY <2>1, <3>1, PlaceSpan
    <3>3. Span(l + 1) * Place(l + 1, t) \in Nat /\ Span(l + 1) * Place(l + 1, t) <= t
      BY <1>6, <2>1, PlaceSpan
    <3> QED
      BY <3>2, <3>3
  <2>3. Span(l + 1) * Place(l + 1, e) = e
    BY <2>2
  <2>4. Span(l) * Place(l, e) = e
    <3>1. l <= l + 1
      BY <1>9
    <3> QED
      BY <2>1, <2>2, <2>3, <3>1, AlignedBelow
  <2>5. a <= e
    <3>1. Span(l + 1) * Place(l + 1, a) = a
      BY <1>1, <2>1, AlignedBelow
    <3>2. Place(l + 1, a) <= Place(l + 1, t)
      BY <1>1, <1>5, <1>6, <2>1, PlaceOrder
    <3> QED
      BY <1>1, <1>6, <2>1, <2>2, <3>1, <3>2, NotBefore
  <2>6. e \in Bits!Bit
    BY <1>1, <1>6, <2>2
  <2>7. \A x \in Bits!Members : e <= x => t <= x
    BY <1>1, <1>5, <2>2, <2>5
  <2>8. Turn(l, e) = Span(l) * Place(l, t)
    BY <1>5, <1>6, <2>1, <2>2, <2>4, <2>6, <2>7, TurnDown
  <2> QED
    BY <2>2, <2>8
<1>10. PICK F : F = [l \in 0 .. level + 1 |->
                       IF l = level + 1 THEN a ELSE Span(l) * Place(l, t)]
  OBVIOUS
<1>11. ASSUME NEW l \in 0 .. level + 1, l # level + 1
       PROVE  /\ l \in Nat /\ l + 1 \in 0 .. level + 1
              /\ F[l] = Span(l) * Place(l, t) /\ Turn(l, F[l + 1]) = F[l]
  <2>1. l \in Nat /\ l <= level /\ l + 1 \in 0 .. level + 1
    BY <1>1, <1>11
  <2>2. F[l] = Span(l) * Place(l, t)
    BY <1>10, <1>11
  <2>3. CASE l = level
    <3>1. F[l + 1] = a
      BY <1>10, <2>1, <2>3
    <3> QED
      BY <1>8, <2>1, <2>2, <2>3, <3>1
  <2>4. CASE l # level
    <3>1. F[l + 1] = Span(l + 1) * Place(l + 1, t) /\ l < level
      BY <1>1, <1>10, <2>1, <2>4
    <3> QED
      BY <1>9, <2>1, <2>2, <3>1
  <2> QED
    BY <2>3, <2>4
<1>12. F = [l \in 0 .. level + 1 |-> IF l = level + 1 THEN a ELSE Turn(l, F[l + 1])]
  <2>1. \A l \in 0 .. level + 1 : l # level + 1 => F[l] = Turn(l, F[l + 1])
    BY <1>11
  <2>2. F[level + 1] = a
    BY <1>1, <1>10
  <2> QED
    BY <1>10, <2>1, <2>2
<1>13. PICK K : /\ K = [l \in 0 .. level + 1 |-> IF l = level + 1 THEN a ELSE Turn(l, K[l + 1])]
                /\ Bits!Down(level, a) = K[0]
  BY <1>12 DEF Bits!Down, Turn
<1>14. K[0] = F[0]
  <2> DEFINE A == {n \in Nat : n <= level + 1 => K[level + 1 - n] = F[level + 1 - n]}
  <2>1. 0 \in A
    <3>1. level + 1 \in 0 .. level + 1 /\ level + 1 - 0 = level + 1
      BY <1>1
    <3> QED
      BY <1>10, <1>13, <3>1
  <2>2. ASSUME NEW n \in A PROVE n + 1 \in A
    <3> SUFFICES ASSUME n + 1 <= level + 1 PROVE K[level + 1 - (n + 1)] = F[level + 1 - (n + 1)]
      OBVIOUS
    <3>1. PICK l \in Nat : l = level + 1 - (n + 1)
      BY <1>1
    <3>2. l \in 0 .. level + 1 /\ l # level + 1 /\ l + 1 = level + 1 - n /\ n <= level + 1
      BY <1>1, <3>1
    <3>3. K[l + 1] = F[l + 1]
      BY <3>2
    <3>4. K[l] = Turn(l, K[l + 1])
      BY <1>13, <3>2
    <3> QED
      BY <1>11, <3>1, <3>2, <3>3, <3>4
  <2>3. A \in SUBSET Nat
    OBVIOUS
  <2> HIDE DEF A
  <2>4. level + 1 \in A
    BY <1>1, <2>1, <2>2, <2>3, Induction
  <2>5. level + 1 - (level + 1) = 0 /\ level + 1 <= level + 1
    BY <1>1
  <2> QED
    BY <2>4, <2>5 DEF A
<1>15. F[0] = t
  <2>1. Span(0) = 1 /\ Place(0, t) = t
    BY <1>6, Spans, Places
  <2>2. 0 \in 0 .. level + 1 /\ 0 # level + 1
    BY <1>1
  <2>3. F[0] = Span(0) * Place(0, t)
    BY <1>11, <2>2
  <2> QED
    BY <1>6, <2>1, <2>3
<1>16. m <= t /\ \A x \in Bits!Members : m <= x => t <= x
  BY <1>1, <1>5, <1>6
<1> QED
  BY <1>5, <1>13, <1>14, <1>15, <1>16

(* The property, from the descent, the climb and the way down.            *)
LEMMA FindersFind ==
  ASSUME ContainersAssumption, FinderInv
  PROVE  Bits!FindersAgree
<1> DEFINE M == Bits!Members
<1>1. /\ M \in SUBSET Nat /\ nr_bits \in Nat
      /\ \A m \in M : m < nr_bits
      /\ \A n \in Bits!Bit \cup {-1} : n \in Int /\ n + 1 \in Nat
  BY WordBits DEF FinderInv, BitsInv, Bits!Bit, Bits!Members
<1>2. Bits!find_first_set = IF M = {} THEN Bits!nopos ELSE Bits!Min(M)
  <2>1. CASE M = {}
    BY <2>1, DescendFinds DEF Bits!find_first_set
  <2>2. CASE M # {}
    <3>1. PICK x \in M : \A y \in M : x <= y
      BY <1>1, <2>2, Least
    <3>2. Extreme("first", x)
      BY <3>1 DEF Extreme
    <3>3. Bits!Min(M) = x
      <4> HIDE DEF M
      <4>1. M \in SUBSET Int
        BY <1>1
      <4> QED
        BY <3>1, <4>1, BitsMin
    <3> QED
      BY <2>2, <3>2, <3>3, DescendFinds DEF Bits!find_first_set
  <2> QED
    BY <2>1, <2>2
<1>3. Bits!find_last_set = IF M = {} THEN Bits!nopos ELSE Bits!Max(M)
  <2>1. CASE M = {}
    BY <2>1, DescendFinds DEF Bits!find_last_set
  <2>2. CASE M # {}
    <3>1. PICK x \in M : \A y \in M : y <= x
      <4>1. PICK T : T = {nr_bits - y : y \in M}
        OBVIOUS
      <4>2. T \in SUBSET Nat /\ T # {}
        <5> HIDE DEF M
        <5>1. ASSUME NEW y \in M PROVE nr_bits - y \in Nat
          <6>1. y \in Nat /\ y < nr_bits
            BY <1>1
          <6> QED
            BY <1>1, <6>1
        <5> QED
          BY <2>2, <4>1, <5>1
      <4>3. PICK z \in T : \A y \in T : z <= y
        BY <4>2, Least
      <4>4. PICK x \in M : z = nr_bits - x
        BY <4>1
      <4>5. \A y \in M : nr_bits - x <= nr_bits - y
        BY <4>1, <4>3, <4>4
      <4>6. \A y \in M : y <= x
        <5> HIDE DEF M
        <5> QED
          BY <1>1, <4>5
      <4> QED
        BY <4>6
    <3>2. Extreme("last", x)
      <4>1. "last" # "first"
        OBVIOUS
      <4> QED
        BY <3>1, <4>1 DEF Extreme
    <3>3. Bits!Max(M) = x
      <4> HIDE DEF M
      <4>1. M \in SUBSET Int
        BY <1>1
      <4> QED
        BY <3>1, <4>1, BitsMax
    <3> QED
      BY <2>2, <3>2, <3>3, DescendFinds DEF Bits!find_last_set
  <2> QED
    BY <2>1, <2>2
<1>4. ASSUME NEW n \in Bits!Bit \cup {-1}, NEW later, later = {x \in M : x > n}
      PROVE  /\ later = {} => Bits!find_next_set(n) = Bits!nopos
             /\ later # {} /\ Bits!Min(later) < UNSIGNED
                  => Bits!find_next_set(n) = Bits!Min(later)
  <2>1. PICK m \in Nat : m = n + 1
    BY <1>1
  <2>2. later \in SUBSET Int /\ \A x : x \in later <=> x \in M /\ m <= x
    <3> HIDE DEF M
    <3>1. n \in Int /\ M \in SUBSET Int
      BY <1>1
    <3>2. \A x \in M : x > n <=> m <= x
      BY <2>1, <3>1
    <3> QED
      BY <1>4, <3>1, <3>2
  <2>3. PICK at : at = Bits!Climb(m)
    OBVIOUS
  <2>4. Bits!find_next_set(n) = IF at = <<>> THEN Bits!nopos ELSE Bits!Down(at[1], at[2])
    BY <2>1, <2>3 DEF Bits!find_next_set
  <2>5. CASE at = <<>> /\ \A x \in M : x < m
    <3>1. later = {}
      BY <1>1, <2>2, <2>5
    <3> QED
      BY <2>4, <2>5, <3>1
  <2>6. CASE \E l \in Bits!Levels, a \in Bits!Bit :
               /\ at = <<l, a>> /\ m <= a /\ Span(l) * Place(l, a) = a
               /\ Bits!Masked(l, a) # {}
               /\ \A x \in M : m <= x => a <= x
    <3>1. PICK l \in Bits!Levels, a \in Bits!Bit :
               /\ at = <<l, a>> /\ m <= a /\ Span(l) * Place(l, a) = a
               /\ Bits!Masked(l, a) # {}
               /\ \A x \in M : m <= x => a <= x
      BY <2>6
    <3>2. at # <<>> /\ at[1] = l /\ at[2] = a
      BY <3>1
    <3>3. later # {}
      <4>1. PICK y \in M : a <= y
        BY <3>1, MemberBehind
      <4>2. m \in Int /\ a \in Int /\ y \in Int
        BY <1>1, <3>1 DEF Bits!Bit
      <4> QED
        BY <2>2, <3>1, <4>1, <4>2
    <3>4. ASSUME Bits!Min(later) < UNSIGNED
          PROVE  Bits!find_next_set(n) = Bits!Min(later)
      <4>1. PICK x \in later : \A y \in later : x <= y
        <5>1. later \in SUBSET Nat
          BY <1>1, <2>2
        <5> QED
          BY <3>3, <5>1, Least
      <4>2. Bits!Min(later) = x
        BY <2>2, <4>1, BitsMin
      <4>3. x \in M /\ m <= x /\ x < UNSIGNED
        BY <2>2, <3>4, <4>2
      <4>4. PICK t \in M : /\ m <= t /\ \A y \in M : m <= y => t <= y
                           /\ Bits!Down(l, a) = t
        BY <3>1, <4>3, DownFinds
      <4>5. Bits!Min(later) = t
        <5>1. t \in later /\ \A y \in later : t <= y
          BY <2>2, <4>4
        <5> QED
          BY <2>2, <5>1, BitsMin
      <4> QED
        BY <2>4, <3>2, <4>4, <4>5
    <3> QED
      BY <3>3, <3>4
  <2>7. Reached(m, at)
    BY <2>3, ClimbReaches
  <2> QED
    BY <2>5, <2>6, <2>7 DEF Reached
<1> QED
  BY <1>2, <1>3, <1>4 DEF Bits!FindersAgree

(* find_first_set and find_last_set find what is there, and find_next_set  *)
(* every position that an unsigned can hold, for any width of a word, any  *)
(* width of an unsigned and any size whose words an unsigned can count.    *)
THEOREM FindersFindMembers == Spec => []FindersAgree
<1> DEFINE Inv == subject = "bits" => FinderInv
<1>1. Init => Inv
  <2> SUFFICES ASSUME Init, subject = "bits" PROVE FinderInv
    OBVIOUS
  <2>1. Bits!Init
    BY DEF Init
  <2>2. BitsInv
    BY <2>1, ContainersAssumption, BitsStart
  <2>3. BitsInRange
    <3>1. \A l \in Bits!Levels : \A i \in 0 .. Width(l) - 1 : bits[l][i] = {}
      BY <2>1 DEF Bits!Init, Width
    <3> QED
      BY <3>1 DEF BitsInRange
  <2> QED
    BY <2>2, <2>3 DEF FinderInv
<1>2. Inv /\ [Next]_vars => Inv'
  <2> SUFFICES ASSUME Inv, [Next]_vars, subject' = "bits" PROVE FinderInv'
    OBVIOUS
  <2>1. subject = "bits" /\ [Bits!Next]_bitset
    BY DEF Next, vars
  <2>2. BitsInv'
    BY <2>1, ContainersAssumption, BitsKept DEF FinderInv
  <2>3. BitsInRange'
    BY <2>1, ContainersAssumption, RangeKept
  <2> QED
    BY <2>2, <2>3 DEF FinderInv
<1>3. Inv => FindersAgree
  BY ContainersAssumption, FindersFind DEF FindersAgree
<1> QED
  BY <1>1, <1>2, <1>3, PTL DEF Spec

-----------------------------------------------------------------------------
(* MetaDataLayout                                                          *)

C == CHUNK_SIZE_64_BITS

(* The constants of the layout are naturals above 0.                      *)
LEMMA LayoutNumbers ==
  ASSUME ContainersAssumption
  PROVE  N \in Nat /\ N > 0 /\ C \in Nat /\ C > 0
BY DEF ContainersAssumption, Space!LayoutParameters, C

(* Min of the layout is the least member.                                 *)
LEMMA SpaceMin ==
  ASSUME NEW T \in SUBSET Int, NEW m \in T, \A y \in T : m <= y
  PROVE  Space!Min(T) = m
<1>1. \A x \in T : (\A y \in T : x <= y) => x = m
  OBVIOUS
<1> QED
  BY <1>1 DEF Space!Min

(* z is the first place from there on with that property, or N.            *)
FirstWith(A, from, z) ==
  \/ z = N /\ \A p \in from .. N - 1 : p \notin A
  \/ z \in from .. N - 1 /\ z \in A /\ \A p \in from .. z - 1 : p \notin A

Valued(marks, bit) == {p \in Nat : (p \in marks) = (bit = 1)}

(* The search bit after bit                                                *)
LEMMA FirstByBits ==
  ASSUME ContainersAssumption, NEW A, NEW from \in 0 .. N
  PROVE  FirstWith(A, from, Space!Min({p \in from .. N - 1 : p \in A} \cup {N}))
<1>1. N \in Nat
  BY LayoutNumbers
<1>2. PICK T : T = {p \in from .. N - 1 : p \in A} \cup {N}
  OBVIOUS
<1>3. T \in SUBSET Nat /\ N \in T
  BY <1>1, <1>2
<1>4. PICK m \in T : \A y \in T : m <= y
  BY <1>3, Least
<1>5. Space!Min(T) = m
  BY <1>3, <1>4, SpaceMin
<1>6. FirstWith(A, from, m)
  <2>1. CASE m = N
    <3>1. \A p \in from .. N - 1 : p \notin A
      BY <1>1, <1>2, <1>4, <2>1
    <3> QED
      BY <2>1, <3>1 DEF FirstWith
  <2>2. CASE m # N
    <3>1. m \in from .. N - 1 /\ m \in A
      BY <1>2, <2>2
    <3>2. \A p \in from .. m - 1 : p \notin A
      BY <1>1, <1>2, <1>4, <3>1
    <3> QED
      BY <3>1, <3>2 DEF FirstWith
  <2> QED
    BY <2>1, <2>2
<1> QED
  BY <1>2, <1>5, <1>6

(* Where a place lies in the chunks from there on                          *)
LEMMA PlaceInChunks ==
  ASSUME ContainersAssumption, NEW from \in 0 .. N, NEW p \in Nat, from <= p
  PROVE  \E i \in Nat, b \in 0 .. C - 1 :
           /\ p = from + i * C + b
           /\ p < N => i <= Space!total_chunk(from) - 1
<1>1. N \in Nat /\ C \in Nat /\ C > 0
  BY LayoutNumbers
<1>2. PICK c \in Nat, n \in Nat : c = C /\ n = N - from /\ c > 0
  BY <1>1
<1>3. PICK a \in Nat : a = p - from
  OBVIOUS
<1>4. PICK i, b : i = a \div c /\ b = a % c
  OBVIOUS
<1>5. i \in Nat /\ b \in Int /\ 0 <= b /\ b < c /\ a = c * i + b
  BY <1>2, <1>3, <1>4, DivMod, PlaceNat
<1>6. PICK t, r : t = (n + c - 1) \div c /\ r = (n + c - 1) % c
  OBVIOUS
<1>7. t \in Int /\ r \in Int /\ 0 <= r /\ r < c /\ n + c - 1 = c * t + r
  <2>1. c \in Int /\ c > 0 /\ n \in Int
    BY <1>2
  <2>2. PICK e \in Int : e = n + c - 1
    BY <2>1
  <2>3. t = e \div c /\ r = e % c
    BY <1>6, <2>2
  <2> QED
    BY ONLY <2>1, <2>2, <2>3, DivMod
<1>8. p < N => i <= t - 1
  <2>1. ASSUME a <= n - 1, i >= t PROVE FALSE
    <3>1. c * (i - t) >= 0
      BY <1>2, <1>5, <1>7, <2>1
    <3>2. c * (i - t) = c * i - c * t
      BY <1>2, <1>5, <1>7
    <3> QED
      BY <1>2, <1>5, <1>7, <2>1, <3>1, <3>2
  <2>2. p < N => a <= n - 1
    BY <1>1, <1>2, <1>3
  <2> QED
    BY <1>5, <1>7, <2>1, <2>2
<1>9. Space!total_chunk(from) = t
  BY <1>2, <1>6 DEF Space!total_chunk, C
<1>10. p = from + i * C + b
  <2>1. i * C = c * i
    BY <1>2, <1>5
  <2> QED
    BY <1>2, <1>3, <1>5, <2>1
<1>11. b \in 0 .. C - 1
  BY <1>2, <1>5
<1> QED
  BY <1>5, <1>8, <1>9, <1>10, <1>11

(* The search chunk after chunk; a chunk has zeros behind the end.         *)
LEMMA FirstByChunks ==
  ASSUME ContainersAssumption, NEW marks \in SUBSET (0 .. N - 1),
         NEW from \in 0 .. N, NEW bit \in {0, 1}
  PROVE  FirstWith(Valued(marks, bit), from, Space!FirstInChunks(marks, from, bit))
<1> DEFINE A == Valued(marks, bit)
           chunk(i) == Space!Chunk(marks, from, i, bit)
           hits == {i \in 0 .. Space!total_chunk(from) - 1 : chunk(i) # {}}
<1>1. N \in Nat /\ C \in Nat /\ C > 0 /\ from \in Nat /\ from <= N
  BY LayoutNumbers
<1>2. ASSUME NEW i \in Nat PROVE i * C \in Nat
  BY <1>1
<1>3. ASSUME NEW i \in Nat, NEW b \in 0 .. C - 1
      PROVE  b \in chunk(i) <=> from + i * C + b \in A
  <2>1. from + i * C + b \in Nat
    BY <1>1, <1>2
  <2> QED
    BY <2>1 DEF Valued, Space!Chunk, Space!Bits, C
<1>4. \A i : chunk(i) \subseteq 0 .. C - 1
  BY DEF Space!Chunk, Space!Bits, C
<1>5. Space!FirstInChunks(marks, from, bit) =
        IF hits = {} THEN N
        ELSE Space!Min(chunk(Space!Min(hits))) + Space!Min(hits) * C + from
  BY DEF Space!FirstInChunks, C
<1> HIDE DEF A, chunk
<1>6. CASE hits = {}
  <2>1. ASSUME NEW p \in from .. N - 1, p \in A PROVE FALSE
    <3>1. p \in Nat /\ from <= p /\ p < N
      BY <1>1
    <3>2. PICK i \in Nat, b \in 0 .. C - 1 :
             p = from + i * C + b /\ (p < N => i <= Space!total_chunk(from) - 1)
      BY <3>1, PlaceInChunks
    <3>3. b \in chunk(i)
      BY <1>3, <2>1, <3>2
    <3>4. i \in 0 .. Space!total_chunk(from) - 1
      <4>1. Space!total_chunk(from) \in Int
        BY <1>1 DEF Space!total_chunk, C
      <4> QED
        BY <3>1, <3>2, <4>1
    <3> QED
      BY <1>6, <3>3, <3>4
  <2> QED
    BY <1>5, <1>6, <2>1 DEF FirstWith, A
<1>7. CASE hits # {}
  <2>1. hits \in SUBSET Nat
    OBVIOUS
  <2>2. PICK i \in hits : \A j \in hits : i <= j
    BY <1>7, <2>1, Least
  <2>3. PICK T : T = hits
    OBVIOUS
  <2>4. Space!Min(hits) = i
    <3>1. T \in SUBSET Int /\ i \in T /\ \A j \in T : i <= j
      BY <2>1, <2>2, <2>3
    <3> QED
      BY <2>3, <3>1, SpaceMin
  <2>5. i \in Nat /\ chunk(i) # {} /\ chunk(i) \in SUBSET Nat
    BY <1>1, <1>4, <2>2
  <2>6. PICK b \in chunk(i) : \A d \in chunk(i) : b <= d
    BY <2>5, Least
  <2>7. Space!Min(chunk(i)) = b
    <3>1. PICK U : U = chunk(i)
      OBVIOUS
    <3>2. U \in SUBSET Int /\ b \in U /\ \A d \in U : b <= d
      BY <2>5, <2>6, <3>1
    <3> QED
      BY <3>1, <3>2, SpaceMin
  <2>8. b \in 0 .. C - 1
    BY <1>4, <2>6
  <2>9. PICK k \in Nat : k = i * C
    BY <1>2, <2>5
  <2>10. PICK z \in Nat : z = from + k + b
    BY <1>1, <2>8, <2>9
  <2>11. Space!FirstInChunks(marks, from, bit) = z
    <3>1. b + k + from = from + k + b
      BY <1>1, <2>8, <2>9
    <3> QED
      BY <1>5, <1>7, <2>4, <2>7, <2>9, <2>10, <3>1
  <2>12. z \in A
    BY <1>3, <2>5, <2>6, <2>8, <2>9, <2>10
  <2>13. ASSUME NEW p \in Nat, from <= p, p < z PROVE p \notin A
    <3> SUFFICES ASSUME p \in A PROVE FALSE
      OBVIOUS
    <3>1. PICK j \in Nat, d \in 0 .. C - 1 : p = from + j * C + d
      BY <2>13, PlaceInChunks
    <3>2. d \in chunk(j)
      BY <1>3, <3>1
    <3>3. PICK m \in Nat : m = j * C
      BY <1>2
    <3>4. j <= i
      <4>1. ASSUME j >= i + 1 PROVE FALSE
        <5>1. (j - i) * C >= C
          <6>1. (j - i - 1) * C >= 0
            BY <1>1, <2>5, <4>1
          <6>2. (j - i - 1) * C = (j - i) * C - C
            BY <1>1, <2>5
          <6> QED
            BY <1>1, <2>5, <6>1, <6>2
        <5>2. (j - i) * C = m - k
          BY <1>1, <2>5, <2>9, <3>3
        <5> QED
          BY <1>1, <2>8, <2>9, <2>10, <2>13, <3>1, <3>3, <5>1, <5>2
      <4> QED
        BY <2>5, <4>1
    <3>5. j \in hits
      <4>1. i \in 0 .. Space!total_chunk(from) - 1
        BY <2>2
      <4>2. Space!total_chunk(from) \in Int
        BY <1>1 DEF Space!total_chunk, C
      <4>3. j \in 0 .. Space!total_chunk(from) - 1
        BY <2>5, <3>4, <4>1, <4>2
      <4> QED
        BY <3>2, <4>3
    <3>6. j = i
      BY <2>2, <2>5, <3>4, <3>5
    <3>7. b <= d
      BY <2>6, <3>2, <3>6
    <3>8. m = k
      BY <2>9, <3>3, <3>6
    <3> QED
      BY <1>1, <2>8, <2>10, <2>13, <3>1, <3>3, <3>7, <3>8
  <2>14. CASE z < N
    <3>1. z \in from .. N - 1
      BY <1>1, <2>8, <2>10, <2>14
    <3>2. \A p \in from .. z - 1 : p \notin A
      BY <1>1, <2>13
    <3> QED
      BY <2>11, <2>12, <3>1, <3>2 DEF FirstWith, A
  <2>15. CASE z >= N
    <3>1. bit = 0
      <4>1. z \notin marks
        BY <1>1, <2>15
      <4> QED
        BY <2>12, <4>1 DEF A, Valued
    <3>2. N \in A
      <4>1. N \notin marks
        BY <1>1
      <4> QED
        BY <1>1, <3>1, <4>1 DEF A, Valued
    <3>3. z = N
      BY <1>1, <2>13, <2>15, <3>2
    <3>4. \A p \in from .. N - 1 : p \notin A
      BY <1>1, <2>13, <3>3
    <3> QED
      BY <2>11, <3>3, <3>4 DEF FirstWith, A
  <2> QED
    BY <1>1, <2>14, <2>15
<1> QED
  BY <1>6, <1>7

(* What the search of either version finds from a place on                 *)
FirstZero(marks, from, v1) ==
  IF v1 THEN Space!FindFirstZeroV1(marks, from) ELSE Space!FindFirstZero(marks, from)

FirstOne(marks, from, v1) ==
  IF v1 THEN Space!FindFirstOneV1(marks, from) ELSE Space!FindFirstOne(marks, from)

(* Both versions look for the first zero and the first one rightly.       *)
LEMMA FirstsFound ==
  ASSUME ContainersAssumption, NEW marks \in SUBSET (0 .. N - 1),
         NEW from \in 0 .. N, NEW v1 \in BOOLEAN
  PROVE  /\ FirstWith(Valued(marks, 0), from, FirstZero(marks, from, v1))
         /\ FirstWith(Valued(marks, 1), from, FirstOne(marks, from, v1))
<1>1. N \in Nat
  BY LayoutNumbers
<1>2. FirstWith(Valued(marks, 0), from, Space!FindFirstZero(marks, from))
  <2>1. {p \in from .. N - 1 : p \in Valued(marks, 0)} = {p \in from .. N - 1 : p \notin marks}
    BY <1>1 DEF Valued
  <2> QED
    BY <2>1, FirstByBits DEF Space!FindFirstZero
<1>3. FirstWith(Valued(marks, 1), from, Space!FindFirstOne(marks, from))
  <2>1. {p \in from .. N - 1 : p \in Valued(marks, 1)} = {p \in from .. N - 1 : p \in marks}
    BY <1>1 DEF Valued
  <2> QED
    BY <2>1, FirstByBits DEF Space!FindFirstOne
<1>4. /\ FirstWith(Valued(marks, 0), from, Space!FindFirstZeroV1(marks, from))
      /\ FirstWith(Valued(marks, 1), from, Space!FindFirstOneV1(marks, from))
  BY FirstByChunks DEF Space!FindFirstZeroV1, Space!FindFirstOneV1
<1> QED
  BY <1>2, <1>3, <1>4 DEF FirstZero, FirstOne

(* The places where cnt units fit                                          *)
Fitting(marks, cnt) == {p \in Nat : Space!Fits(marks, cnt, p)}

(* What one turn of the search may conclude from the zero and the one that *)
(* it finds                                                                *)
LEMMA SearchTurn ==
  ASSUME ContainersAssumption, NEW marks \in SUBSET (0 .. N - 1), NEW v1 \in BOOLEAN,
         NEW cnt \in 1 .. N + 1, NEW curr \in 0 .. N + 1
  PROVE  LET z == FirstZero(marks, curr, v1)
             o == FirstOne(marks, z + 1, v1)
         IN  IF curr > N - cnt \/ z = N THEN FirstWith(Fitting(marks, cnt), curr, N)
             ELSE IF o - z >= cnt THEN FirstWith(Fitting(marks, cnt), curr, z)
             ELSE /\ o + 1 \in curr + 1 .. N + 1
                  /\ \A y : FirstWith(Fitting(marks, cnt), o + 1, y) =>
                              FirstWith(Fitting(marks, cnt), curr, y)
<1> DEFINE z == FirstZero(marks, curr, v1)
           o == FirstOne(marks, z + 1, v1)
<1>1. N \in Nat
  BY LayoutNumbers
<1>2. \A p \in Nat : p \in Fitting(marks, cnt) <=>
        p + cnt <= N /\ \A q \in p .. p + cnt - 1 : q \notin marks
  BY DEF Fitting, Space!Fits
<1>3. CASE curr > N - cnt
  <2>1. \A p \in curr .. N - 1 : p \notin Fitting(marks, cnt)
    BY <1>1, <1>2, <1>3
  <2> QED
    BY <1>3, <2>1 DEF FirstWith
<1>4. CASE curr <= N - cnt
  <2>1. curr \in 0 .. N
    BY <1>1, <1>4
  <2>2. FirstWith(Valued(marks, 0), curr, z)
    BY <2>1, FirstsFound
  <2>3. CASE z = N
    <3>1. \A p \in curr .. N - 1 : p \in marks
      BY <1>1, <2>1, <2>2, <2>3 DEF FirstWith, Valued
    <3>2. \A p \in curr .. N - 1 : p \notin Fitting(marks, cnt)
      <4>1. ASSUME NEW p \in curr .. N - 1 PROVE p \in Nat /\ p \in p .. p + cnt - 1
        BY <1>1
      <4> QED
        BY <1>2, <3>1, <4>1
    <3> QED
      BY <2>3, <3>2 DEF FirstWith
  <2>4. CASE z # N
    <3>1. z \in curr .. N - 1 /\ z \notin marks /\ \A p \in curr .. z - 1 : p \in marks
      BY <1>1, <2>1, <2>2, <2>4 DEF FirstWith, Valued
    <3>2. z \in Nat /\ curr <= z /\ z < N /\ z + 1 \in 0 .. N
      BY <1>1, <3>1
    <3>3. FirstWith(Valued(marks, 1), z + 1, o)
      BY <3>2, FirstsFound
    <3>4. /\ o \in z + 1 .. N
          /\ o # N => o \in marks
          /\ \A p \in z + 1 .. o - 1 : p \notin marks
      BY <1>1, <3>2, <3>3 DEF FirstWith, Valued
    <3>5. o \in Nat /\ z < o /\ o <= N
      BY <1>1, <3>2, <3>4
    <3>6. ASSUME NEW p \in curr .. z - 1 PROVE p \notin Fitting(marks, cnt)
      <4>1. p \in Nat /\ p \in p .. p + cnt - 1
        BY <3>2
      <4> QED
        BY <1>2, <3>1, <3>6, <4>1
    <3> HIDE DEF z, o
    <3>7. CASE o - z >= cnt
      <4>1. z \in Fitting(marks, cnt)
        <5>1. z + cnt <= N
          BY <1>1, <3>2, <3>5, <3>7
        <5>2. ASSUME NEW q \in z .. z + cnt - 1 PROVE q \notin marks
          BY <3>1, <3>2, <3>4, <3>5, <3>7
        <5> QED
          BY <1>2, <3>2, <5>1, <5>2
      <4>2. FirstWith(Fitting(marks, cnt), curr, z)
        BY <3>1, <3>6, <4>1 DEF FirstWith
      <4>3. ~(curr > N - cnt)
        BY <1>1, <1>4
      <4> QED
        BY <2>4, <3>7, <4>2, <4>3 DEF z, o
    <3>8. CASE o - z < cnt
      <4>1. o + 1 \in curr + 1 .. N + 1
        BY <1>1, <3>2, <3>5
      <4>2. ASSUME NEW p \in curr .. o, p < N PROVE p \notin Fitting(marks, cnt)
        <5>1. p \in Nat
          BY <3>5
        <5>2. CASE p < z
          BY <3>2, <3>6, <5>1, <5>2
        <5>3. CASE p >= z
          <6>1. o \in p .. p + cnt - 1
            BY <3>2, <3>5, <3>8, <5>1, <5>3
          <6>2. o = N => ~(p + cnt <= N)
            BY <1>1, <5>1, <6>1
          <6> QED
            BY <1>2, <3>4, <5>1, <6>1, <6>2
        <5> QED
          BY <3>2, <5>1, <5>2, <5>3
      <4>3. ASSUME NEW y, FirstWith(Fitting(marks, cnt), o + 1, y)
            PROVE  FirstWith(Fitting(marks, cnt), curr, y)
        <5>1. CASE y = N /\ \A p \in o + 1 .. N - 1 : p \notin Fitting(marks, cnt)
          <6>1. \A p \in curr .. N - 1 : p \notin Fitting(marks, cnt)
            BY <1>1, <3>2, <3>5, <4>2, <5>1
          <6> QED
            BY <5>1, <6>1 DEF FirstWith
        <5>2. CASE /\ y \in o + 1 .. N - 1 /\ y \in Fitting(marks, cnt)
                   /\ \A p \in o + 1 .. y - 1 : p \notin Fitting(marks, cnt)
          <6>1. y \in curr .. N - 1
            BY <1>1, <3>2, <3>5, <5>2
          <6>2. \A p \in curr .. y - 1 : p \notin Fitting(marks, cnt)
            BY <1>1, <3>2, <3>5, <4>2, <5>2
          <6> QED
            BY <5>2, <6>1, <6>2 DEF FirstWith
        <5> QED
          BY <4>3, <5>1, <5>2 DEF FirstWith
      <4>4. ~(curr > N - cnt) /\ ~(o - z >= cnt)
        BY <1>1, <1>4, <3>2, <3>5, <3>8
      <4> QED
        BY <2>4, <4>1, <4>3, <4>4 DEF z, o
    <3>9. o - z >= cnt \/ o - z < cnt
      BY <3>2, <3>5
    <3> QED
      BY <3>7, <3>8, <3>9
  <2> QED
    BY <2>3, <2>4
<1> QED
  BY <1>1, <1>3, <1>4

(* There is one first place, or N.                                        *)
LEMMA FirstUnique ==
  ASSUME ContainersAssumption, NEW A, NEW from \in Nat,
         NEW x, FirstWith(A, from, x), NEW y, FirstWith(A, from, y)
  PROVE  x = y
<1>1. N \in Nat
  BY LayoutNumbers
<1>2. x \in Nat /\ (x = N \/ x \in from .. N - 1)
  BY <1>1 DEF FirstWith
<1>3. y \in Nat /\ (y = N \/ y \in from .. N - 1)
  BY <1>1 DEF FirstWith
<1>4. ~(x < y)
  <2> SUFFICES ASSUME x < y PROVE FALSE
    OBVIOUS
  <2>1. x \in from .. N - 1 /\ x \in A
    BY <1>1, <1>2, <1>3 DEF FirstWith
  <2> QED
    BY <1>1, <1>2, <1>3, <2>1 DEF FirstWith
<1>5. ~(y < x)
  <2> SUFFICES ASSUME y < x PROVE FALSE
    OBVIOUS
  <2>1. y \in from .. N - 1 /\ y \in A
    BY <1>1, <1>2, <1>3 DEF FirstWith
  <2> QED
    BY <1>1, <1>2, <1>3, <2>1 DEF FirstWith
<1> QED
  BY <1>2, <1>3, <1>4, <1>5

(* There is a first place with the property, or N.                        *)
LEMMA FirstExists ==
  ASSUME ContainersAssumption, NEW A, NEW from \in 0 .. N + 1
  PROVE  \E z : FirstWith(A, from, z)
<1>1. N \in Nat
  BY LayoutNumbers
<1>2. CASE from \in 0 .. N
  BY <1>2, FirstByBits
<1>3. CASE from = N + 1
  <2>1. FirstWith(A, from, N)
    BY <1>1, <1>3 DEF FirstWith
  <2> QED
    BY <2>1
<1> QED
  BY <1>1, <1>2, <1>3

(* One turn of the search, with the function that goes on from there       *)
SearchStep(marks, cnt, v1, K, curr) ==
  IF curr > N - cnt \/ FirstZero(marks, curr, v1) = N THEN N
  ELSE IF FirstOne(marks, FirstZero(marks, curr, v1) + 1, v1) - FirstZero(marks, curr, v1) >= cnt
       THEN FirstZero(marks, curr, v1)
       ELSE K[FirstOne(marks, FirstZero(marks, curr, v1) + 1, v1) + 1]

(* The search ends, and has found the first place where cnt units fit.     *)
LEMMA SearchFinds ==
  ASSUME ContainersAssumption, NEW marks \in SUBSET (0 .. N - 1), NEW v1 \in BOOLEAN,
         NEW cnt \in 1 .. N + 1, ~(N - Space!Cardinality(marks) < cnt)
  PROVE  FirstWith(Fitting(marks, cnt), 0, Space!FindContinuousFreeSpace(marks, cnt, v1))
<1> DEFINE F == Fitting(marks, cnt)
           first(curr) == CHOOSE y : FirstWith(F, curr, y)
<1>1. N \in Nat /\ cnt # 0
  BY LayoutNumbers
<1>2. ASSUME NEW K, NEW curr \in 0 .. N + 1,
             \A from \in curr + 1 .. N + 1 : FirstWith(F, from, K[from])
      PROVE  FirstWith(F, curr, SearchStep(marks, cnt, v1, K, curr))
  <2>1. PICK z, o : /\ z = FirstZero(marks, curr, v1)
                    /\ o = FirstOne(marks, z + 1, v1)
    OBVIOUS
  <2>2. IF curr > N - cnt \/ z = N THEN FirstWith(F, curr, N)
        ELSE IF o - z >= cnt THEN FirstWith(F, curr, z)
        ELSE /\ o + 1 \in curr + 1 .. N + 1
             /\ \A y : FirstWith(F, o + 1, y) => FirstWith(F, curr, y)
    BY <2>1, SearchTurn
  <2> HIDE DEF F
  <2> QED
    BY <1>2, <2>1, <2>2 DEF SearchStep
<1>3. \A curr \in 0 .. N + 1 : FirstWith(F, curr, first(curr))
  <2> HIDE DEF F
  <2> QED
    BY FirstExists
<1> HIDE DEF first, F
<1>4. PICK first_fits : first_fits = [curr \in 0 .. N + 1 |-> first(curr)]
  OBVIOUS
<1>5. first_fits = [curr \in 0 .. N + 1 |-> SearchStep(marks, cnt, v1, first_fits, curr)]
  <2>1. ASSUME NEW curr \in 0 .. N + 1 PROVE first_fits[curr] = SearchStep(marks, cnt, v1, first_fits, curr)
    <3>1. curr \in Nat /\ curr + 1 .. N + 1 \subseteq 0 .. N + 1
      BY <1>1
    <3>2. FirstWith(F, curr, SearchStep(marks, cnt, v1, first_fits, curr))
      BY <1>2, <1>3, <1>4, <3>1
    <3>3. FirstWith(F, curr, first_fits[curr])
      BY <1>3, <1>4
    <3> QED
      BY <3>1, <3>2, <3>3, FirstUnique
  <2> QED
    BY <1>4, <2>1
<1>6. PICK K : /\ K = [curr \in 0 .. N + 1 |-> SearchStep(marks, cnt, v1, K, curr)]
               /\ Space!FindContinuousFreeSpace(marks, cnt, v1) = K[0]
  BY <1>1, <1>5 DEF Space!FindContinuousFreeSpace, SearchStep, FirstZero, FirstOne
<1>7. \A curr \in 0 .. N + 1 : FirstWith(F, curr, K[curr])
  <2> DEFINE D == {n \in Nat : \A curr \in 0 .. N + 1 : curr + n > N => FirstWith(F, curr, K[curr])}
  <2>1. ASSUME NEW n \in Nat, \A curr \in 0 .. N + 1 : curr + n > N + 1 => FirstWith(F, curr, K[curr])
        PROVE  n \in D
    <3>1. ASSUME NEW curr \in 0 .. N + 1, curr + n > N
          PROVE  FirstWith(F, curr, K[curr])
      <4>1. \A from \in curr + 1 .. N + 1 : FirstWith(F, from, K[from])
        BY <1>1, <2>1, <3>1
      <4>2. K[curr] = SearchStep(marks, cnt, v1, K, curr)
        BY <1>6
      <4> QED
        BY <1>2, <4>1, <4>2
    <3> QED
      BY <3>1
  <2>2. 0 \in D
    <3>1. \A curr \in 0 .. N + 1 : ~(curr + 0 > N + 1)
      BY <1>1
    <3> QED
      BY <2>1, <3>1
  <2>3. ASSUME NEW n \in D PROVE n + 1 \in D
    <3>1. n + 1 \in Nat
      OBVIOUS
    <3>2. \A curr \in 0 .. N + 1 : curr + (n + 1) > N + 1 => FirstWith(F, curr, K[curr])
      BY <1>1, <2>3
    <3> QED
      BY <2>1, <3>1, <3>2
  <2>4. D \in SUBSET Nat
    OBVIOUS
  <2> HIDE DEF D
  <2>5. N + 1 \in D
    BY <1>1, <2>2, <2>3, <2>4, Induction
  <2>6. \A curr \in 0 .. N + 1 : curr + (N + 1) > N
    BY <1>1
  <2> QED
    BY <2>5, <2>6 DEF D
<1> QED
  BY <1>1, <1>6, <1>7 DEF F

(* There is no use in searching when fewer units than that are free.       *)
LEMMA NoRoom ==
  ASSUME ContainersAssumption, NEW marks \in SUBSET (0 .. N - 1), NEW cnt \in 1 .. N + 1,
         NEW p \in Nat, Space!Fits(marks, cnt, p)
  PROVE  Space!Cardinality(marks) \in Nat /\ N - Space!Cardinality(marks) >= cnt
<1>1. N \in Nat
  BY LayoutNumbers
<1>2. PICK run : run = p .. p + cnt - 1
  OBVIOUS
<1>3. run \in SUBSET (0 .. N - 1) /\ run \cap marks = {}
  BY <1>1, <1>2 DEF Space!Fits
<1>4. IsFiniteSet(run) /\ Cardinality(run) = cnt
  <2>1. p \in Int /\ p + cnt - 1 \in Int /\ ~(p > p + cnt - 1) /\ (p + cnt - 1) - p + 1 = cnt
    OBVIOUS
  <2> QED
    BY <1>2, <2>1, FS_Interval
<1>5. IsFiniteSet(0 .. N - 1) /\ Cardinality(0 .. N - 1) = N
  <2>1. PICK n \in Nat : n = N - 1
    BY <1>1, LayoutNumbers
  <2>2. 0 \in Int /\ n \in Int /\ ~(0 > n) /\ n - 0 + 1 = N
    BY <1>1, <2>1
  <2> QED
    BY <2>1, <2>2, FS_Interval
<1>6. IsFiniteSet(marks) /\ Cardinality(marks) \in Nat
  BY <1>5, FS_Subset, FS_CardinalityType
<1>7. Cardinality(run \cup marks) = cnt + Cardinality(marks)
  <2>1. Cardinality({}) = 0
    BY FS_EmptySet
  <2>2. Cardinality(run \cup marks) = Cardinality(run) + Cardinality(marks) - Cardinality(run \cap marks)
    BY <1>4, <1>6, FS_Union
  <2>3. cnt \in Int
    BY <1>1
  <2>4. run \cap marks = {}
    BY <1>3
  <2> QED
    <3>1. Cardinality(run \cap marks) = 0
      BY <2>1, <2>4
    <3> QED
      BY <1>4, <1>6, <2>2, <2>3, <3>1
<1>8. Cardinality(run \cup marks) <= N
  <2>1. PICK some, all : some = run \cup marks /\ all = 0 .. N - 1
    OBVIOUS
  <2>2. some \in SUBSET all
    BY <1>3, <2>1
  <2>3. IsFiniteSet(all) /\ Cardinality(all) = N
    BY <1>5, <2>1
  <2>4. Cardinality(some) <= Cardinality(all)
    BY ONLY <2>2, <2>3, FS_Subset
  <2> QED
    BY <2>1, <2>3, <2>4
<1>9. Space!Cardinality(marks) = Cardinality(marks)
  BY DEF Space!Cardinality, Cardinality
<1> QED
  BY <1>1, <1>6, <1>7, <1>8, <1>9

(* Either version finds the first fit, or nothing if none is there.        *)
LEMMA BothFind ==
  ASSUME ContainersAssumption, NEW marks \in SUBSET (0 .. N - 1), NEW cnt \in 0 .. N + 1
  PROVE  /\ Space!BothVersions(marks, cnt) = {Space!FirstFit(marks, cnt)}
         /\ Space!FirstFit(marks, cnt) # N =>
              /\ cnt # 0 /\ Space!FirstFit(marks, cnt) \in Nat
              /\ Space!Fits(marks, cnt, Space!FirstFit(marks, cnt))
<1>1. N \in Nat
  BY LayoutNumbers
<1>2. PICK f : f = Space!FirstFit(marks, cnt)
  OBVIOUS
<1>3. CASE cnt = 0
  <2>1. f = N
    BY <1>2, <1>3 DEF Space!FirstFit
  <2>2. ASSUME NEW v1 \in BOOLEAN PROVE Space!FindContinuousFreeSpace(marks, cnt, v1) = N
    BY <1>3 DEF Space!FindContinuousFreeSpace
  <2>3. Space!BothVersions(marks, cnt) = {f}
    BY <2>1, <2>2 DEF Space!BothVersions
  <2> QED
    BY <1>2, <2>1, <2>3
<1>4. CASE cnt # 0
  <2>1. cnt \in 1 .. N + 1
    BY <1>1, <1>4
  <2>2. FirstWith(Fitting(marks, cnt), 0, f)
    <3>1. {p \in 0 .. N - 1 : p \in Fitting(marks, cnt)} = {p \in 0 .. N - 1 : Space!Fits(marks, cnt, p)}
      BY <1>1 DEF Fitting
    <3>2. 0 \in 0 .. N
      BY <1>1
    <3> QED
      BY <1>2, <1>4, <3>1, <3>2, FirstByBits DEF Space!FirstFit
  <2>3. ASSUME NEW v1 \in BOOLEAN PROVE Space!FindContinuousFreeSpace(marks, cnt, v1) = f
    <3>1. CASE N - Space!Cardinality(marks) < cnt
      <4>1. Space!FindContinuousFreeSpace(marks, cnt, v1) = N
        BY <3>1 DEF Space!FindContinuousFreeSpace
      <4>2. f \notin Fitting(marks, cnt)
        <5>1. ASSUME f \in Nat, Space!Fits(marks, cnt, f) PROVE FALSE
          <6>1. N - Space!Cardinality(marks) >= cnt /\ Space!Cardinality(marks) \in Nat
            BY <2>1, <5>1, NoRoom
          <6> QED
            BY <1>1, <2>1, <3>1, <6>1
        <5> QED
          BY <5>1 DEF Fitting
      <4> QED
        BY <2>2, <4>1, <4>2 DEF FirstWith
    <3>2. CASE ~(N - Space!Cardinality(marks) < cnt)
      <4>1. FirstWith(Fitting(marks, cnt), 0, Space!FindContinuousFreeSpace(marks, cnt, v1))
        BY <2>1, <3>2, SearchFinds
      <4> QED
        BY <2>2, <4>1, FirstUnique
    <3> QED
      BY <3>1, <3>2
  <2>4. Space!BothVersions(marks, cnt) = {f}
    BY <2>3 DEF Space!BothVersions
  <2>5. f # N => f \in Nat /\ Space!Fits(marks, cnt, f)
    BY <1>1, <2>2 DEF FirstWith, Fitting
  <2> QED
    BY <1>2, <1>4, <2>4, <2>5
<1> QED
  BY <1>3, <1>4

SpaceInv ==
  /\ space_ \in SUBSET (0 .. N - 1)
  /\ \A run \in held : run \subseteq space_
  /\ \A run1, run2 \in held : run1 # run2 => run1 \cap run2 = {}

(* A run that was found is nobody else's.                                 *)
LEMMA TakeKeeps ==
  ASSUME ContainersAssumption, SpaceInv, NEW cnt \in 0 .. N + 1, Space!Take(cnt)
  PROVE  SpaceInv'
<1>1. PICK first, run :
        /\ first \in Space!BothVersions(space_, cnt) /\ first # N
        /\ run = first .. first + cnt - 1
        /\ space_' = space_ \cup run /\ held' = held \cup {run}
  BY DEF Space!Take, Space!MarkSpaceUsed
<1>2. first \in Nat /\ cnt # 0 /\ Space!Fits(space_, cnt, first)
  BY <1>1, BothFind DEF SpaceInv
<1>3. run \subseteq 0 .. N - 1 /\ run \cap space_ = {}
  BY <1>1, <1>2, LayoutNumbers DEF Space!Fits
<1>4. \A other \in held : other \cap run = {}
  BY <1>3 DEF SpaceInv
<1>5. \A run1, run2 \in held' : run1 # run2 => run1 \cap run2 = {}
  <2>1. \A run1, run2 \in held : run1 # run2 => run1 \cap run2 = {}
    BY DEF SpaceInv
  <2>2. \A other \in held' : other \in held \/ other = run
    BY <1>1
  <2> QED
    BY <1>4, <2>1, <2>2
<1>6. space_' \in SUBSET (0 .. N - 1) /\ \A taken \in held' : taken \subseteq space_'
  BY <1>1, <1>3 DEF SpaceInv
<1> QED
  BY <1>5, <1>6 DEF SpaceInv

(* Giving a run back leaves the others theirs.                            *)
LEMMA GiveKeeps ==
  ASSUME SpaceInv, NEW run \in held, Space!Give(run)
  PROVE  SpaceInv'
<1>1. space_' = space_ \ run /\ held' = held \ {run}
  BY DEF Space!Give, Space!MarkSpaceFreed
<1>2. space_' \in SUBSET (0 .. N - 1)
  BY <1>1 DEF SpaceInv
<1>3. ASSUME NEW other \in held' PROVE other \subseteq space_'
  <2>1. other \in held /\ other # run
    BY <1>1
  <2>2. other \cap run = {} /\ other \subseteq space_
    BY <2>1 DEF SpaceInv
  <2> QED
    BY <1>1, <2>2
<1>4. \A run1, run2 \in held' : run1 # run2 => run1 \cap run2 = {}
  BY <1>1 DEF SpaceInv
<1> QED
  BY <1>2, <1>3, <1>4 DEF SpaceInv

(* Every step of the layout keeps its invariant.                          *)
LEMMA SpaceKept ==
  ASSUME ContainersAssumption, SpaceInv, [Space!Next]_space
  PROVE  SpaceInv'
<1>1. CASE UNCHANGED space
  BY <1>1 DEF SpaceInv, space
<1>2. ASSUME NEW cnt \in 0 .. N + 1, Space!Take(cnt) PROVE SpaceInv'
  BY <1>2, TakeKeeps
<1>3. ASSUME NEW run \in held, Space!Give(run) PROVE SpaceInv'
  BY <1>3, GiveKeeps
<1> QED
  BY <1>1, <1>2, <1>3 DEF Space!Next

(* Either search finds the first place with room, none if there is none,   *)
(* and no unit has two holders, for any space and any width of a word.     *)
THEOREM SearchFindsFirstFit == Spec => []FindsFirstFit
<1> DEFINE Inv == subject = "space" => SpaceInv
<1>1. Init => Inv
  BY DEF Init, Space!Init, SpaceInv
<1>2. Inv /\ [Next]_vars => Inv'
  <2> SUFFICES ASSUME Inv, [Next]_vars, subject' = "space" PROVE SpaceInv'
    OBVIOUS
  <2>1. subject = "space" /\ [Space!Next]_space
    BY DEF Next, vars
  <2> QED
    BY <2>1, ContainersAssumption, SpaceKept
<1>3. Inv => FindsFirstFit
  <2> SUFFICES ASSUME SpaceInv PROVE Space!FindsFirstFit
    BY DEF FindsFirstFit
  <2>1. \A cnt \in 0 .. N + 1 : Space!BothVersions(space_, cnt) = {Space!FirstFit(space_, cnt)}
    BY ContainersAssumption, BothFind DEF SpaceInv
  <2>2. UNION held \subseteq space_
    BY DEF SpaceInv
  <2>3. \A run1, run2 \in held : run1 # run2 => run1 \cap run2 = {}
    BY DEF SpaceInv
  <2> QED
    BY <2>1, <2>2, <2>3 DEF Space!FindsFirstFit
<1> QED
  BY <1>1, <1>2, <1>3, PTL DEF Spec

-----------------------------------------------------------------------------
(* The fair queue, which has runs of its own *)

(* The i-th client in turn.                                                *)
ClientAt(i) == client[queues[i]]

Queued ==
  /\ \A i \in 1 .. Len(queues) :
       ClientAt(i) \in DOMAIN clients /\ clients[ClientAt(i)] = queues[i]
  /\ \A i, j \in 1 .. Len(queues) : i # j => queues[i] # queues[j]
  /\ \A c \in DOMAIN clients : \E i \in 1 .. Len(queues) : queues[i] = clients[c]

Filled ==
  \A c \in DOMAIN clients :
    client[clients[c]] = c /\ pendings[clients[c]] # <<>>

(* Who is ahead of a client was not served since it began to wait.         *)
InTurn ==
  /\ \A i, j \in 1 .. Len(queues) : j <= i => ClientAt(j) \notin passed[ClientAt(i)]
  /\ \A c \in Clients \ DOMAIN clients : passed[c] = {}

FairInv == Fair!TypeOK /\ Queued /\ Filled /\ InTurn

-----------------------------------------------------------------------------
(* The containers agree *)

(* The invariant says that the containers agree.                          *)
LEMMA QueuedSuffices == FairInv => QueuesMatchClients
<1> SUFFICES ASSUME FairInv PROVE Fair!QueuesMatchClients
  BY DEF QueuesMatchClients
<1>1. queues \in Seq(Objects) /\ DOMAIN queues = 1 .. Len(queues)
  BY DEF FairInv, Fair!TypeOK
<1>2. Fair!Range(queues) = Fair!Range(clients)
  BY <1>1 DEF FairInv, Queued, ClientAt, Fair!Range
<1>3. Fair!IsInjective(queues)
  BY <1>1 DEF FairInv, Queued, Fair!IsInjective
<1> QED
  BY <1>2, <1>3 DEF FairInv, Filled, Fair!QueuesMatchClients

(* The invariant holds of empty containers.                               *)
LEMMA InitQueued == Fair!Init => FairInv
<1> SUFFICES ASSUME Fair!Init PROVE FairInv
  OBVIOUS
<1>1. DOMAIN clients = {} /\ Len(queues) = 0
  BY DEF Fair!Init
<1>2. Fair!TypeOK
  BY <1>1 DEF Fair!Init, Fair!TypeOK
<1> QED
  BY <1>1, <1>2 DEF Fair!Init, FairInv, Queued, Filled, InTurn

(* A push of a new client keeps the invariant.                            *)
LEMMA PushNewQueued ==
  ASSUME FairInv, NEW c \in Clients, Fair!PushNew(c)
  PROVE  FairInv'
<1>1. PICK o \in Objects \ Fair!Range(clients), id \in RequestIDs :
        /\ client' = [client EXCEPT ![o] = c]
        /\ pendings' = [pendings EXCEPT ![o] = <<id>>]
        /\ clients' = Fair!Registered(c, o)
        /\ queues' = Append(queues, o)
  BY DEF Fair!PushNew
<1>2. c \notin DOMAIN clients /\ passed' = passed /\ out' = out
  BY DEF Fair!PushNew
<1>3. /\ queues \in Seq(Objects) /\ client \in [Objects -> Clients]
      /\ pendings \in [Objects -> Seq(RequestIDs)]
      /\ passed \in [Clients -> SUBSET Clients]
      /\ clients \in [DOMAIN clients -> Objects]
  BY DEF FairInv, Fair!TypeOK
<1>4. /\ DOMAIN clients' = DOMAIN clients \cup {c} /\ clients'[c] = o
      /\ \A d \in DOMAIN clients : clients'[d] = clients[d] /\ clients[d] # o
  BY <1>1, <1>2 DEF Fair!Registered, Fair!Range
<1>5. /\ Len(queues') = Len(queues) + 1 /\ queues'[Len(queues')] = o
      /\ \A i \in 1 .. Len(queues) : queues'[i] = queues[i] /\ queues[i] # o
      /\ \A i \in 1 .. Len(queues') : i = Len(queues') \/ i \in 1 .. Len(queues)
      /\ Len(queues) \in Nat
  BY <1>1, <1>3, <1>4 DEF FairInv, Queued, ClientAt
<1>6. /\ client'[queues'[Len(queues')]] = c
      /\ \A i \in 1 .. Len(queues) : client'[queues'[i]] = ClientAt(i)
  BY <1>1, <1>3, <1>5 DEF ClientAt
<1>7. Fair!TypeOK'
  BY <1>1, <1>2, <1>3, <1>4 DEF FairInv, Fair!TypeOK, Fair!Registered
<1>8. Queued'
  <2>1. \A i \in 1 .. Len(queues) :
          client'[queues'[i]] \in DOMAIN clients' /\ clients'[client'[queues'[i]]] = queues'[i]
    BY <1>4, <1>5, <1>6 DEF FairInv, Queued
  <2>2. \A i \in 1 .. Len(queues') :
          client'[queues'[i]] \in DOMAIN clients' /\ clients'[client'[queues'[i]]] = queues'[i]
    BY <1>3, <1>4, <1>5, <1>6, <2>1
  <2>3. \A i, j \in 1 .. Len(queues') : i # j => queues'[i] # queues'[j]
    BY <1>5 DEF FairInv, Queued
  <2>4. \A d \in DOMAIN clients' : \E i \in 1 .. Len(queues') : queues'[i] = clients'[d]
    <3> TAKE d \in DOMAIN clients'
    <3>1. CASE d = c
      BY <1>4, <1>5, <3>1
    <3>2. CASE d \in DOMAIN clients
      <4>1. PICK i \in 1 .. Len(queues) : queues[i] = clients[d]
        BY <3>2 DEF FairInv, Queued
      <4>2. i \in 1 .. Len(queues') /\ queues'[i] = clients'[d]
        BY <1>4, <1>5, <3>2, <4>1
      <4> QED
        BY <4>2
    <3> QED
      BY <1>4, <3>1, <3>2
  <2> QED
    BY <2>2, <2>3, <2>4 DEF Queued, ClientAt
<1>9. Filled'
  BY <1>1, <1>3, <1>4 DEF FairInv, Filled
<1>10. InTurn'
  <2>1. passed[c] = {}
    BY <1>2 DEF FairInv, InTurn
  <2>2. \A i, j \in 1 .. Len(queues') :
          j <= i => client'[queues'[j]] \notin passed[client'[queues'[i]]]
    <3> TAKE i, j \in 1 .. Len(queues')
    <3>1. CASE i = Len(queues')
      BY <1>6, <2>1, <3>1
    <3>2. CASE i # Len(queues')
      <4>1. ASSUME j <= i PROVE i \in 1 .. Len(queues) /\ j \in 1 .. Len(queues)
        BY <1>5, <3>2, <4>1
      <4> QED
        BY <1>6, <4>1 DEF FairInv, InTurn
    <3> QED
      BY <3>1, <3>2
  <2> QED
    BY <1>2, <1>4, <2>2 DEF FairInv, InTurn, ClientAt
<1> QED
  BY <1>7, <1>8, <1>9, <1>10 DEF FairInv

(* A push of a queued client keeps the invariant.                         *)
LEMMA PushMoreQueued ==
  ASSUME FairInv, NEW c \in Clients, Fair!PushMore(c)
  PROVE  FairInv'
<1>1. PICK id \in RequestIDs :
        pendings' = [pendings EXCEPT ![clients[c]] = Append(@, id)]
  BY DEF Fair!PushMore
<1>2. c \in DOMAIN clients /\ UNCHANGED <<clients, queues, client, passed, out>>
  BY DEF Fair!PushMore
<1>3. pendings \in [Objects -> Seq(RequestIDs)] /\ clients[c] \in Objects
  BY <1>2 DEF FairInv, Fair!TypeOK
<1>4. /\ Append(pendings[clients[c]], id) \in Seq(RequestIDs)
      /\ Append(pendings[clients[c]], id) # <<>>
  BY <1>3
<1>5. Fair!TypeOK'
  BY <1>1, <1>2, <1>3, <1>4 DEF FairInv, Fair!TypeOK
<1>6. Queued' /\ InTurn'
  BY <1>2 DEF FairInv, Queued, InTurn, ClientAt
<1>7. Filled'
  BY <1>1, <1>2, <1>3, <1>4 DEF FairInv, Filled, Fair!TypeOK
<1> QED
  BY <1>5, <1>6, <1>7 DEF FairInv

(* The one whose turn it is, whose object is front, waits in nobody's way. *)
LEMMA FrontIsWaiting ==
  ASSUME FairInv, DOMAIN clients # {}
  PROVE  /\ queues \in Seq(Objects) /\ queues # <<>> /\ Len(queues) \in Nat \ {0}
         /\ Head(queues) = queues[1] /\ queues[1] \in Objects
         /\ ClientAt(1) \in DOMAIN clients /\ clients[ClientAt(1)] = queues[1]
         /\ ClientAt(1) \in Clients
         /\ pendings[queues[1]] \in Seq(RequestIDs) /\ pendings[queues[1]] # <<>>
         /\ \A d \in DOMAIN clients : d # ClientAt(1) => clients[d] # queues[1]
         /\ \A i \in 1 .. Len(queues) : i # 1 => ClientAt(i) # ClientAt(1)
<1>1. queues \in Seq(Objects) /\ Len(queues) \in Nat
  BY DEF FairInv, Fair!TypeOK
<1>2. PICK c \in DOMAIN clients : TRUE
  OBVIOUS
<1>3. PICK k \in 1 .. Len(queues) : queues[k] = clients[c]
  BY <1>2 DEF FairInv, Queued
<1>4. /\ queues # <<>> /\ Len(queues) \in Nat \ {0} /\ 1 \in 1 .. Len(queues)
      /\ Head(queues) = queues[1] /\ queues[1] \in Objects
  BY <1>1, <1>3
<1>5. ClientAt(1) \in DOMAIN clients /\ clients[ClientAt(1)] = queues[1]
  BY <1>4 DEF FairInv, Queued
<1>6. pendings[queues[1]] \in Seq(RequestIDs) /\ pendings[queues[1]] # <<>>
  BY <1>4, <1>5 DEF FairInv, Fair!TypeOK, Filled
<1>7. \A d \in DOMAIN clients : d # ClientAt(1) => clients[d] # queues[1]
  BY <1>5 DEF FairInv, Filled, ClientAt
<1>8. \A i \in 1 .. Len(queues) : i # 1 => ClientAt(i) # ClientAt(1)
  BY <1>4 DEF FairInv, Queued
<1> QED
  BY <1>1, <1>4, <1>5, <1>6, <1>7, <1>8 DEF FairInv, Fair!TypeOK

(* A pop keeps the types.                                                 *)
LEMMA PopTyped ==
  ASSUME FairInv, Fair!PopFront
  PROVE  /\ pendings' = [pendings EXCEPT ![queues[1]] = Tail(@)]
         /\ passed' = Fair!Served(ClientAt(1))
         /\ pendings' \in [Objects -> Seq(RequestIDs)]
         /\ passed' \in [Clients -> SUBSET Clients]
         /\ out' = <<ClientAt(1), Head(pendings[queues[1]])>>
         /\ out' \in Clients \X RequestIDs
<1>1. DOMAIN clients # {}
  BY DEF Fair!PopFront
<1>2. /\ pendings' = [pendings EXCEPT ![queues[1]] = Tail(@)]
      /\ passed' = Fair!Served(ClientAt(1))
      /\ out' = <<ClientAt(1), Head(pendings[queues[1]])>>
  BY <1>1, FrontIsWaiting DEF Fair!PopFront, ClientAt
<1>3. pendings' \in [Objects -> Seq(RequestIDs)]
  <2>1. Tail(pendings[queues[1]]) \in Seq(RequestIDs)
    BY <1>1, FrontIsWaiting
  <2> QED
    BY <1>2, <2>1 DEF FairInv, Fair!TypeOK
<1>4. passed' \in [Clients -> SUBSET Clients]
  BY <1>1, <1>2, FrontIsWaiting DEF FairInv, Fair!TypeOK, Fair!Served
<1>5. Head(pendings[queues[1]]) \in RequestIDs
  BY <1>1, FrontIsWaiting
<1> QED
  BY <1>1, <1>2, <1>3, <1>4, <1>5, FrontIsWaiting

(* A pop of the last request of a client keeps the invariant.             *)
LEMMA PopLastQueued ==
  ASSUME FairInv, Fair!PopLast
  PROVE  FairInv'
<1> DEFINE c == ClientAt(1)
           n == Len(queues)
<1>1. /\ Fair!PopFront /\ DOMAIN clients # {} /\ client' = client
      /\ queues' = Tail(queues) /\ clients' = Fair!Forgotten(client[Head(queues)])
  BY DEF Fair!PopLast, Fair!PopFront
<1>2. /\ DOMAIN clients' = DOMAIN clients \ {c}
      /\ \A d \in DOMAIN clients \ {c} : clients'[d] = clients[d]
      /\ clients' \in [DOMAIN clients \ {c} -> Objects]
  BY <1>1, FrontIsWaiting DEF Fair!Forgotten, Fair!Restrict, ClientAt, FairInv, Fair!TypeOK
<1>3. /\ n \in Nat \ {0} /\ queues' \in Seq(Objects) /\ Len(queues') = n - 1
      /\ \A i \in 1 .. n - 1 : queues'[i] = queues[i + 1]
      /\ \A i \in 1 .. n - 1 : i + 1 \in 1 .. n /\ i + 1 # 1
  BY <1>1, FrontIsWaiting
<1>4. \A i \in 1 .. n - 1 : client'[queues'[i]] = ClientAt(i + 1) /\ ClientAt(i + 1) # c
  BY <1>1, <1>3, FrontIsWaiting DEF ClientAt
<1> HIDE DEF n, c
<1>5. Fair!TypeOK'
  BY <1>1, <1>2, <1>3, PopTyped DEF FairInv, Fair!TypeOK
<1>6. Queued'
  <2>1. \A i \in 1 .. Len(queues') :
          client'[queues'[i]] \in DOMAIN clients' /\ clients'[client'[queues'[i]]] = queues'[i]
    BY <1>2, <1>3, <1>4 DEF FairInv, Queued, n
  <2>2. \A i, j \in 1 .. Len(queues') : i # j => queues'[i] # queues'[j]
    <3> TAKE i, j \in 1 .. Len(queues')
    <3>1. /\ i + 1 \in 1 .. n /\ j + 1 \in 1 .. n
          /\ queues'[i] = queues[i + 1] /\ queues'[j] = queues[j + 1]
      BY <1>3
    <3>2. i # j => i + 1 # j + 1
      BY <1>3
    <3> QED
      BY <3>1, <3>2 DEF FairInv, Queued, n
  <2>3. ASSUME NEW d \in DOMAIN clients'
        PROVE  \E i \in 1 .. Len(queues') : queues'[i] = clients'[d]
    <3>1. d \in DOMAIN clients /\ d # c /\ clients'[d] = clients[d]
      BY <1>2
    <3>2. PICK k \in 1 .. n : queues[k] = clients[d]
      BY <3>1 DEF FairInv, Queued, n
    <3>3. k # 1
      BY <1>1, <3>1, <3>2, FrontIsWaiting DEF c
    <3>4. k - 1 \in 1 .. Len(queues') /\ (k - 1) + 1 = k
      BY <1>3, <3>2, <3>3
    <3>5. queues'[k - 1] = queues[k]
      BY <1>3, <3>4
    <3> QED
      BY <3>1, <3>2, <3>4, <3>5
  <2> QED
    BY <2>1, <2>2, <2>3 DEF Queued, ClientAt
<1>7. Filled'
  <2>1. /\ pendings' = [pendings EXCEPT ![queues[1]] = Tail(@)]
        /\ \A d \in DOMAIN clients : d # c => clients[d] # queues[1]
    BY <1>1, PopTyped, FrontIsWaiting DEF c
  <2>2. pendings \in [Objects -> Seq(RequestIDs)] /\ clients \in [DOMAIN clients -> Objects]
    BY DEF FairInv, Fair!TypeOK
  <2> QED
    BY <1>1, <1>2, <2>1, <2>2 DEF FairInv, Filled
<1>8. InTurn'
  <2>1. passed' = Fair!Served(c)
    BY <1>1, PopTyped DEF c
  <2>2. \A d \in Clients \ DOMAIN clients' : passed'[d] = {}
    BY <1>2, <2>1 DEF Fair!Served
  <2>3. \A i, j \in 1 .. Len(queues') :
          j <= i => client'[queues'[j]] \notin passed'[client'[queues'[i]]]
    <3> TAKE i, j \in 1 .. Len(queues')
    <3>1. /\ i + 1 \in 1 .. n /\ j + 1 \in 1 .. n /\ (j <= i => j + 1 <= i + 1)
          /\ client'[queues'[i]] = ClientAt(i + 1) /\ ClientAt(i + 1) # c
          /\ client'[queues'[j]] = ClientAt(j + 1) /\ ClientAt(j + 1) # c
      BY <1>3, <1>4
    <3>2. ClientAt(i + 1) \in DOMAIN clients /\ ClientAt(i + 1) \in Clients
      BY <3>1 DEF FairInv, Fair!TypeOK, Queued, n
    <3>3. passed'[ClientAt(i + 1)] = passed[ClientAt(i + 1)] \cup {c}
      BY <2>1, <3>1, <3>2 DEF Fair!Served
    <3>4. j <= i => ClientAt(j + 1) \notin passed[ClientAt(i + 1)]
      BY <3>1 DEF FairInv, InTurn, n
    <3> QED
      BY <3>1, <3>3, <3>4
  <2> QED
    BY <2>2, <2>3 DEF InTurn, ClientAt
<1> QED
  BY <1>5, <1>6, <1>7, <1>8 DEF FairInv

(* A pop of a client with more requests keeps the invariant.              *)
LEMMA PopNextQueued ==
  ASSUME FairInv, Fair!PopNext
  PROVE  FairInv'
<1> DEFINE c == ClientAt(1)
           n == Len(queues)
           from(i) == IF i = n THEN 1 ELSE i + 1
<1>1. /\ Fair!PopFront /\ DOMAIN clients # {} /\ clients' = clients /\ client' = client
      /\ queues' = Append(Tail(queues), Head(queues))
      /\ pendings'[queues[1]] # <<>>
  BY FrontIsWaiting DEF Fair!PopNext, Fair!PopFront, Fair!Requeued
<1>2. n \in Nat \ {0} /\ queues \in Seq(Objects) /\ Head(queues) = queues[1] /\ queues # <<>>
  BY <1>1, FrontIsWaiting
<1>3. /\ queues' \in Seq(Objects) /\ Len(queues') = n
      /\ \A i \in 1 .. n : from(i) \in 1 .. n /\ queues'[i] = queues[from(i)]
      /\ \A i, j \in 1 .. n : i # j => from(i) # from(j)
      /\ \A i, j \in 1 .. n :
           j <= i => from(i) = 1 \/ (from(j) <= from(i) /\ from(j) # 1)
  <2>1. /\ Tail(queues) \in Seq(Objects) /\ Len(Tail(queues)) = n - 1
        /\ \A i \in 1 .. n - 1 : Tail(queues)[i] = queues[i + 1]
    BY <1>2
  <2>2. /\ queues' \in Seq(Objects) /\ Len(queues') = n
        /\ queues'[n] = queues[1]
        /\ \A i \in 1 .. n - 1 : queues'[i] = queues[i + 1]
    BY <1>1, <1>2, <2>1
  <2> HIDE DEF n
  <2> QED
    BY <1>2, <2>2
<1>4. \A i \in 1 .. n : client'[queues'[i]] = ClientAt(from(i))
  BY <1>1, <1>3 DEF ClientAt
<1>5. \A k \in 1 .. n : \E i \in 1 .. n : from(i) = k
  <2> TAKE k \in 1 .. n
  <2>1. CASE k = 1
    BY <1>2, <2>1
  <2>2. CASE k # 1
    <3>1. k - 1 \in 1 .. n /\ from(k - 1) = k
      BY <1>2, <2>2
    <3> QED
      BY <3>1
  <2> QED
    BY <2>1, <2>2
<1> HIDE DEF n, c, from
<1>6. Fair!TypeOK'
  BY <1>1, <1>3, PopTyped DEF FairInv, Fair!TypeOK
<1>7. Queued'
  <2>1. \A i \in 1 .. n :
          client'[queues'[i]] \in DOMAIN clients' /\ clients'[client'[queues'[i]]] = queues'[i]
    <3> TAKE i \in 1 .. n
    <3>1. from(i) \in 1 .. n /\ queues'[i] = queues[from(i)]
      BY <1>3
    <3>2. ClientAt(from(i)) \in DOMAIN clients /\ clients[ClientAt(from(i))] = queues[from(i)]
      BY <3>1 DEF FairInv, Queued, n
    <3> QED
      BY <1>1, <1>4, <3>1, <3>2
  <2>2. \A i, j \in 1 .. n : i # j => queues'[i] # queues'[j]
    <3> TAKE i, j \in 1 .. n
    <3>1. /\ from(i) \in 1 .. n /\ queues'[i] = queues[from(i)]
          /\ from(j) \in 1 .. n /\ queues'[j] = queues[from(j)]
          /\ i # j => from(i) # from(j)
      BY <1>3
    <3> QED
      BY <3>1 DEF FairInv, Queued, n
  <2>3. \A d \in DOMAIN clients' : \E i \in 1 .. n : queues'[i] = clients'[d]
    <3> TAKE d \in DOMAIN clients'
    <3>1. PICK k \in 1 .. n : queues[k] = clients[d]
      BY <1>1 DEF FairInv, Queued, n
    <3>2. PICK i \in 1 .. n : from(i) = k
      BY <1>5
    <3> QED
      BY <1>1, <1>3, <3>1, <3>2
  <2> QED
    BY <1>3, <2>1, <2>2, <2>3 DEF Queued, ClientAt
<1>8. Filled'
  <2>1. pendings' = [pendings EXCEPT ![queues[1]] = Tail(@)]
    BY <1>1, PopTyped
  <2>2. pendings \in [Objects -> Seq(RequestIDs)] /\ clients \in [DOMAIN clients -> Objects]
    BY DEF FairInv, Fair!TypeOK
  <2> QED
    BY <1>1, <2>1, <2>2 DEF FairInv, Filled
<1>9. InTurn'
  <2>1. passed' = Fair!Served(c)
    BY <1>1, PopTyped DEF c
  <2>2. \A d \in Clients \ DOMAIN clients' : passed'[d] = {}
    BY <1>1, <2>1 DEF Fair!Served
  <2>3. \A i, j \in 1 .. n : j <= i => client'[queues'[j]] \notin passed'[client'[queues'[i]]]
    <3> TAKE i, j \in 1 .. n
    <3>1. /\ from(i) \in 1 .. n /\ from(j) \in 1 .. n
          /\ j <= i => from(i) = 1 \/ (from(j) <= from(i) /\ from(j) # 1)
          /\ client'[queues'[i]] = ClientAt(from(i)) /\ client'[queues'[j]] = ClientAt(from(j))
      BY <1>3, <1>4
    <3>2. ClientAt(from(i)) \in DOMAIN clients /\ ClientAt(from(i)) \in Clients
      BY <3>1 DEF FairInv, Fair!TypeOK, Queued, n
    <3>3. CASE from(i) = 1
      <4>1. passed'[ClientAt(from(i))] = {}
        BY <2>1, <3>2, <3>3 DEF Fair!Served, c
      <4> QED
        BY <3>1, <4>1
    <3>4. CASE from(i) # 1
      <4>1. ClientAt(from(i)) # c
        BY <1>1, <3>1, <3>4, FrontIsWaiting DEF c, n
      <4>2. passed'[ClientAt(from(i))] = passed[ClientAt(from(i))] \cup {c}
        BY <2>1, <3>2, <4>1 DEF Fair!Served
      <4>3. j <= i => ClientAt(from(j)) \notin passed[ClientAt(from(i))]
        BY <3>1, <3>4 DEF FairInv, InTurn, n
      <4>4. j <= i => ClientAt(from(j)) # c
        BY <1>1, <3>1, <3>4, FrontIsWaiting DEF c, n
      <4> QED
        BY <3>1, <4>2, <4>3, <4>4
    <3> QED
      BY <3>3, <3>4
  <2> QED
    BY <1>3, <2>2, <2>3 DEF InTurn, ClientAt
<1> QED
  BY <1>6, <1>7, <1>8, <1>9 DEF FairInv

(* Every step keeps the invariant.                                        *)
LEMMA StepQueued == FairInv /\ [Fair!Next]_(Fair!vars) => FairInv'
<1> SUFFICES ASSUME FairInv, [Fair!Next]_(Fair!vars) PROVE FairInv'
  OBVIOUS
<1>1. CASE UNCHANGED Fair!vars
  BY <1>1 DEF Fair!vars, FairInv, Fair!TypeOK, Queued, Filled, InTurn, ClientAt
<1>2. CASE Fair!Pop
  BY <1>2, PopLastQueued, PopNextQueued DEF Fair!Pop
<1>3. ASSUME NEW c \in Clients, Fair!PushNew(c) \/ Fair!PushMore(c)
      PROVE  FairInv'
  BY <1>3, PushNewQueued, PushMoreQueued
<1> QED
  BY <1>1, <1>2, <1>3 DEF Fair!Next

(* clients_ and queues_ describe the same objects, so no assertion of Push *)
(* or Pop fails and no front is taken off an empty deque.                  *)
THEOREM ContainersAgree == Fair!Spec => []QueuesMatchClients
<1> QED
  BY InitQueued, StepQueued, QueuedSuffices, PTL DEF Fair!Spec

-----------------------------------------------------------------------------
(* A fair service *)

(* The clients that wait are those that are queued.                       *)
LEMMA WaitingIsQueued ==
  ASSUME FairInv, NEW c \in Clients
  PROVE  Fair!Abstract!Waiting(c) <=> c \in DOMAIN clients
BY DEF Fair!Abstract!Waiting, Fair!Backlog, FairInv, Filled

(* A push of a client that is not queued appends it to the service.       *)
LEMMA PushNewPushes ==
  ASSUME FairInv, NEW c \in Clients, Fair!PushNew(c)
  PROVE  Fair!Abstract!Push(c)
<1>1. PICK o \in Objects \ Fair!Range(clients), id \in RequestIDs :
        /\ pendings' = [pendings EXCEPT ![o] = <<id>>]
        /\ clients' = Fair!Registered(c, o)
  BY DEF Fair!PushNew
<1>2. c \notin DOMAIN clients /\ passed' = passed /\ out' = out
  BY DEF Fair!PushNew
<1>3. /\ pendings \in [Objects -> Seq(RequestIDs)]
      /\ DOMAIN clients' = DOMAIN clients \cup {c} /\ clients'[c] = o
      /\ \A d \in DOMAIN clients : clients'[d] = clients[d] /\ clients[d] # o
  BY <1>1, <1>2 DEF Fair!Registered, Fair!Range, FairInv, Fair!TypeOK
<1>4. Fair!Backlog'[c] = Append(Fair!Backlog[c], id)
  BY <1>1, <1>2, <1>3 DEF Fair!Backlog
<1>5. \A d \in Clients \ {c} : Fair!Backlog'[d] = Fair!Backlog[d]
  BY <1>1, <1>3 DEF Fair!Backlog
<1>6. Fair!Backlog' = [Fair!Backlog EXCEPT ![c] = Append(@, id)]
  BY <1>4, <1>5 DEF Fair!Backlog
<1> QED
  BY <1>2, <1>6 DEF Fair!Abstract!Push

(* A push of a queued client appends to its requests in the service.      *)
LEMMA PushMorePushes ==
  ASSUME FairInv, NEW c \in Clients, Fair!PushMore(c)
  PROVE  Fair!Abstract!Push(c)
<1>1. PICK id \in RequestIDs :
        pendings' = [pendings EXCEPT ![clients[c]] = Append(@, id)]
  BY DEF Fair!PushMore
<1>2. /\ c \in DOMAIN clients /\ clients' = clients
      /\ passed' = passed /\ out' = out
  BY DEF Fair!PushMore
<1>3. /\ pendings \in [Objects -> Seq(RequestIDs)]
      /\ clients \in [DOMAIN clients -> Objects]
      /\ \A d \in DOMAIN clients : d # c => clients[d] # clients[c]
  BY <1>2 DEF FairInv, Fair!TypeOK, Filled
<1>4. Fair!Backlog'[c] = Append(Fair!Backlog[c], id)
  BY <1>1, <1>2, <1>3 DEF Fair!Backlog
<1>5. \A d \in Clients \ {c} : Fair!Backlog'[d] = Fair!Backlog[d]
  BY <1>1, <1>2, <1>3 DEF Fair!Backlog
<1>6. Fair!Backlog' = [Fair!Backlog EXCEPT ![c] = Append(@, id)]
  BY <1>4, <1>5 DEF Fair!Backlog
<1> QED
  BY <1>2, <1>6 DEF Fair!Abstract!Push

(* A pop serves the first client in turn.                                 *)
LEMMA PopServes ==
  ASSUME FairInv, Fair!Pop
  PROVE  Fair!Abstract!Serve(ClientAt(1))
<1> DEFINE c == ClientAt(1)
           front == queues[1]
<1>1. Fair!PopFront /\ DOMAIN clients # {}
  BY DEF Fair!Pop, Fair!PopLast, Fair!PopNext, Fair!PopFront
<1>2. /\ c \in Clients /\ c \in DOMAIN clients /\ clients[c] = front
      /\ front \in Objects /\ Head(queues) = front /\ client[front] = c
      /\ \A d \in DOMAIN clients : d # c => clients[d] # front
  BY <1>1, FrontIsWaiting DEF ClientAt
<1>3. /\ pendings' = [pendings EXCEPT ![front] = Tail(@)]
      /\ passed' = Fair!Served(c) /\ out' = <<c, Head(pendings[front])>>
      /\ pendings \in [Objects -> Seq(RequestIDs)]
      /\ clients \in [DOMAIN clients -> Objects]
  BY <1>1, PopTyped DEF FairInv, Fair!TypeOK
<1>4. \/ /\ clients' = clients
      \/ /\ pendings'[front] = <<>>
         /\ DOMAIN clients' = DOMAIN clients \ {c}
         /\ \A d \in DOMAIN clients \ {c} : clients'[d] = clients[d]
  BY <1>2 DEF Fair!Pop, Fair!PopLast, Fair!PopNext, Fair!Forgotten, Fair!Restrict
<1> HIDE DEF c, front
<1>5. Fair!Backlog[c] = pendings[front] /\ Fair!Backlog'[c] = Tail(pendings[front])
  BY <1>2, <1>3, <1>4 DEF Fair!Backlog
<1>6. \A d \in Clients \ {c} : Fair!Backlog'[d] = Fair!Backlog[d]
  BY <1>2, <1>3, <1>4 DEF Fair!Backlog
<1>7. Fair!Backlog' = [Fair!Backlog EXCEPT ![c] = Tail(@)]
  BY <1>5, <1>6 DEF Fair!Backlog
<1>8. Fair!Abstract!Waiting(c)
  BY <1>2, WaitingIsQueued
<1>9. \A d \in Clients \ {c} : Fair!Abstract!Waiting(d) => c \notin passed[d]
  <2> SUFFICES ASSUME NEW d \in Clients \ {c}, d \in DOMAIN clients
               PROVE  c \notin passed[d]
    BY WaitingIsQueued
  <2>1. PICK i \in 1 .. Len(queues) : queues[i] = clients[d]
    BY DEF FairInv, Queued
  <2>2. ClientAt(i) = d
    BY <2>1 DEF ClientAt, FairInv, Filled
  <2>3. 1 \in 1 .. Len(queues) /\ 1 <= i
    BY <1>1, FrontIsWaiting
  <2> QED
    BY <2>2, <2>3 DEF FairInv, InTurn, c
<1>10. passed' = [d \in Clients |-> IF d # c /\ Fair!Abstract!Waiting(d)
                                   THEN passed[d] \cup {c} ELSE {}]
  BY <1>3, WaitingIsQueued DEF Fair!Served
<1> QED
  BY <1>3, <1>5, <1>7, <1>8, <1>9, <1>10 DEF Fair!Abstract!Serve, c

(* The empty queue is an empty service.                                   *)
LEMMA InitServes == Fair!Init => Fair!Abstract!Init
<1> SUFFICES ASSUME Fair!Init PROVE Fair!Abstract!Init
  OBVIOUS
<1>1. DOMAIN clients = {}
  BY DEF Fair!Init
<1> QED
  BY <1>1 DEF Fair!Init, Fair!Abstract!Init, Fair!Backlog

(* Every step of the queue is one of the service, or none.                *)
LEMMA StepServes == FairInv /\ [Fair!Next]_(Fair!vars) => [Fair!Abstract!Next]_(Fair!Abstract!vars)
<1> SUFFICES ASSUME FairInv, [Fair!Next]_(Fair!vars) PROVE Fair!Abstract!Next \/ UNCHANGED Fair!Abstract!vars
  OBVIOUS
<1>1. CASE UNCHANGED Fair!vars
  BY <1>1 DEF Fair!vars, Fair!Abstract!vars, Fair!Backlog
<1>2. CASE Fair!Pop
  <2>1. DOMAIN clients # {}
    BY <1>2 DEF Fair!Pop, Fair!PopLast, Fair!PopNext, Fair!PopFront
  <2>2. ClientAt(1) \in Clients
    BY <2>1, FrontIsWaiting
  <2> QED
    BY <1>2, <2>2, PopServes DEF Fair!Abstract!Next
<1>3. ASSUME NEW c \in Clients, Fair!PushNew(c) \/ Fair!PushMore(c)
      PROVE  Fair!Abstract!Next
  <2>1. Fair!Abstract!Push(c)
    BY <1>3, PushNewPushes, PushMorePushes
  <2> QED
    BY <2>1 DEF Fair!Abstract!Next
<1> QED
  BY <1>1, <1>2, <1>3 DEF Fair!Next

(* Clients are served in turn, each in its own order, and nothing is lost  *)
(* or served twice: no client is served again while another waits.         *)
THEOREM QueueIsFair == Fair!Spec => ImplementsFairService
<1> QED
  BY InitQueued, StepQueued, InitServes, StepServes, PTL
     DEF Fair!Spec, ImplementsFairService, Fair!ImplementsFairService,
         Fair!Abstract!Spec
=============================================================================
