----------------------------- MODULE DynamicBits -----------------------------
(***************************************************************************)
(* DynamicBits of example-dynamic-bits: a bit set with summaries.  Level 0 *)
(* holds the bits, level l + 1 one bit for every word of level l, set if   *)
(* that word is not empty, and the highest level is a single word.         *)
(*                                                                         *)
(* A word is the set of the positions of its bits.  The set is made with a *)
(* size of at least 1; with none there is no word to look at.              *)
(*                                                                         *)
(* The index of a word is an unsigned, in the constructor, set and clear,  *)
(* and sets are taken to have no more words than that can count.  In       *)
(* find_next_set an unsigned is shifted, which loses what does not fit.    *)
(***************************************************************************)
EXTENDS Integers, FiniteSets, FiniteSetsExt

CONSTANTS level_shift,  \* 6: log2 of the number of bits in a word
          UNSIGNED,     \* 2^32: an unsigned is below it
          SizeBounds    \* bound: the sizes a set is made with

VARIABLES nr_bits,  \* nr_bits_
          bits      \* bits_: level -> word -> the positions that are set

vars == <<nr_bits, bits>>

\* 1 << k
pow2[k \in Nat] == IF k = 0 THEN 1 ELSE 2 * pow2[k - 1]

bits_per_int == pow2[level_shift]
nopos == -1

align_up(v, a)   == ((v + a - 1) \div a) * a
align_down(v, a) == (v \div a) * a

BitsParameters ==
  /\ level_shift \in Nat \ {0} /\ UNSIGNED \in Nat \ {0}
  /\ SizeBounds \subseteq Nat \ {0}
  /\ \A n \in SizeBounds : align_up(n, bits_per_int) \div bits_per_int < UNSIGNED

log2ceil(x) == Min({k \in 0 .. x : x <= pow2[k]})

nr_levels(n) ==
  (log2ceil(align_up(n, bits_per_int)) + level_shift - 1) \div level_shift

\* The number of words of each level
level_words(n) ==
  LET words[l \in Nat] ==
        align_up(IF l = 0 THEN n ELSE words[l - 1], bits_per_int) \div bits_per_int
  IN  words

Levels == 0 .. nr_levels(nr_bits) - 1
Bit    == 0 .. nr_bits - 1

Init ==
  /\ nr_bits \in SizeBounds
  /\ bits = [l \in Levels |-> [i \in 0 .. level_words(nr_bits)[l] - 1 |-> {}]]

\* For bit n: the word of level l, the position in it
level_idx(l, n) == n \div pow2[(l + 1) * level_shift]
level_remainder(l, n) == (n \div pow2[l * level_shift]) % bits_per_int

Word(l, n) == bits[l][level_idx(l, n)]

test(n) == level_remainder(0, n) \in Word(0, n)

-----------------------------------------------------------------------------
\* The loop of set goes on to level l if the words below were empty.
SetReaches(l, n) == \A k \in 0 .. l - 1 : Word(k, n) = {}

set(n) ==
  /\ bits' = [l \in Levels |-> [i \in DOMAIN bits[l] |->
                IF i = level_idx(l, n) /\ SetReaches(l, n)
                THEN bits[l][i] \cup {level_remainder(l, n)} ELSE bits[l][i]]]
  /\ UNCHANGED nr_bits

\* That of clear, if the words below were not empty and have become so.
ClearReaches_OldEmptyOnly(l, n) == \A k \in 0 .. l - 1 : Word(k, n) # {}
ClearReaches(l, n) ==
  \A k \in 0 .. l - 1 : Word(k, n) # {} /\ Word(k, n) \ {level_remainder(k, n)} = {}

clear(n) ==
  /\ bits' = [l \in Levels |-> [i \in DOMAIN bits[l] |->
                IF i = level_idx(l, n) /\ ClearReaches(l, n)
                THEN bits[l][i] \ {level_remainder(l, n)} ELSE bits[l][i]]]
  /\ UNCHANGED nr_bits

Next == \E n \in Bit : set(n) \/ clear(n)

Spec == Init /\ [][Next]_vars

-----------------------------------------------------------------------------
(* The finders *)

Outermost(word, which) == IF which = "first" THEN Min(word) ELSE Max(word)

\* From the highest level down, taking the first or the last bit of every word
Descend(which) ==
  LET top == nr_levels(nr_bits)
      pos[l \in 0 .. top] ==
        IF l = top THEN 0
        ELSE IF pos[l + 1] = nopos \/ bits[l][pos[l + 1]] = {} THEN nopos
        ELSE pos[l + 1] * bits_per_int + Outermost(bits[l][pos[l + 1]], which)
  IN  pos[0]

find_first_set == Descend("first")
find_last_set  == Descend("last")

\* v & mask_higer_bits(level_remainder(l, n))
Masked_AsCommented(l, n) == {b \in Word(l, n) : b > level_remainder(l, n)}
Masked(l, n) == {b \in Word(l, n) : b >= level_remainder(l, n)}

\* find_next_set climbs, aligning n upwards, to the first level with a bit at or
\* behind n in the word of n ...
Climb(m) ==
  LET at[l \in Nat] == IF l = 0 THEN m ELSE align_up(at[l - 1], pow2[l * level_shift])
      level == Min({l \in Levels \cup {nr_levels(nr_bits)} :
                      l \notin Levels \/ at[l] >= nr_bits \/ Masked(l, at[l]) # {}})
  IN  IF level \notin Levels \/ at[level] >= nr_bits THEN <<>> ELSE <<level, at[level]>>

\* An unsigned shifted to the left.  A shift by more bits than it has, on the
\* levels of a set beyond 2^36 bits, is undefined; here it leaves nothing, and 0
\* in any case stays 0.
Shifted(x, k) == (x * pow2[k]) % UNSIGNED

\* ... and descends from there.
Down(level, m) ==
  LET down[l \in 0 .. level + 1] ==
        IF l = level + 1 THEN m
        ELSE align_down(down[l + 1], pow2[(l + 1) * level_shift])
               + Shifted(Min(Masked(l, down[l + 1])), l * level_shift)
  IN  down[0]

find_next_set(n) ==
  LET at == Climb(n + 1) IN IF at = <<>> THEN nopos ELSE Down(at[1], at[2])

-----------------------------------------------------------------------------
(* Properties *)

TypeOK ==
  /\ nr_bits \in SizeBounds
  /\ DOMAIN bits = Levels
  /\ \A l \in Levels :
       bits[l] \in [0 .. level_words(nr_bits)[l] - 1 -> SUBSET (0 .. bits_per_int - 1)]

\* Every summary bit is set exactly if its word is not empty, although set and
\* clear stop at the first level that they think is right already.
SummariesAgree ==
  \A l \in Levels \ {0} : \A i \in DOMAIN bits[l - 1] :
    i % bits_per_int \in bits[l][i \div bits_per_int] <=> bits[l - 1][i] # {}

Members == {n \in Bit : test(n)}

\* find_first_set and find_last_set find the ends of the set, and find_next_set
\* the next member behind any position that an unsigned can hold, also behind a
\* word or a block of words that is empty; all of them report that there is none.
FindersAgree ==
  /\ find_first_set = IF Members = {} THEN nopos ELSE Min(Members)
  /\ find_last_set = IF Members = {} THEN nopos ELSE Max(Members)
  /\ \A n \in Bit \cup {-1} :
       LET later == {m \in Members : m > n}
       IN  /\ later = {} => find_next_set(n) = nopos
           /\ later # {} /\ Min(later) < UNSIGNED => find_next_set(n) = Min(later)
=============================================================================
