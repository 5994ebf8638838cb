------------------------------- MODULE Slices -------------------------------
(***************************************************************************)
(* How the slices of common/slice.h compare.  A slice is the sequence of   *)
(* its bytes.                                                              *)
(***************************************************************************)
EXTENDS Integers, Sequences, SequencesExt

\* std::memcmp of the first n bytes: the first byte that differs decides.
memcmp(a, b, n) ==
  LET differs == {i \in 1 .. n : a[i] # b[i]}
  IN  IF differs = {} THEN 0
      ELSE IF a[Min(differs)] < b[Min(differs)] THEN -1 ELSE 1

\* operator==
Equal(a, b) == Len(a) = Len(b) /\ memcmp(a, b, Len(a)) = 0

starts_with(a, x) == Len(a) >= Len(x) /\ memcmp(a, x, Len(x)) = 0

compare_LengthIgnored(a, b) == memcmp(a, b, Min({Len(a), Len(b)}))

compare(a, b) ==
  LET r == memcmp(a, b, Min({Len(a), Len(b)}))
  IN  IF r # 0 \/ Len(a) = Len(b) THEN r
      ELSE IF Len(a) < Len(b) THEN -1 ELSE 1

\* What they are for: compare orders slices, == is its equality, and the slices
\* with one prefix are together in that order, the prefix first.
Ordered(a, b, c) ==
  /\ compare(a, b) = -compare(b, a)
  /\ (compare(a, b) = 0) <=> Equal(a, b)
  /\ compare(a, b) <= 0 /\ compare(b, c) <= 0 =>
       /\ compare(a, c) <= 0
       /\ starts_with(c, a) => starts_with(b, a)
  /\ starts_with(a, b) => compare(b, a) <= 0
=============================================================================
