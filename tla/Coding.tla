------------------------------- MODULE Coding -------------------------------
(***************************************************************************)
(* The integers and the length-prefixed slices of common/coding.  A varint *)
(* is written in groups of GROUP_BITS bits, the lowest first, one to a     *)
(* byte; all bytes but the last have the bit above the group set.  An      *)
(* integer of fixed width is written byte after byte, the lowest first.    *)
(*                                                                         *)
(* The code has groups of 7 bits and values of 32 or 64; both are          *)
(* constants here, and a byte is a number below 2 * B.  32 and 64 bits     *)
(* differ in how the encoder is written: as a case for each length, or as  *)
(* a loop.                                                                 *)
(***************************************************************************)
EXTENDS Integers, Sequences, SequencesExt

CONSTANTS GROUP_BITS,  \* 7
          WIDTH        \* 32 or 64

ASSUME CodingAssumption == GROUP_BITS \in Nat \ {0} /\ WIDTH \in Nat \ {0}

\* 1 << k
pow2[k \in Nat] == IF k = 0 THEN 1 ELSE 2 * pow2[k - 1]

B      == pow2[GROUP_BITS]
Groups == (WIDTH + GROUP_BITS - 1) \div GROUP_BITS
Values == 0 .. pow2[WIDTH] - 1
Byte   == 0 .. 2 * B - 1

\* A slice is no longer than its length can say.
Slice == {s \in Seq(Byte) : Len(s) \in Values}

\* 1 << 7 * i and 1 << 8 * i
Group(i) == pow2[GROUP_BITS * i]
Octet(i) == pow2[(GROUP_BITS + 1) * i]

VarintLength(v) ==
  LET len[w \in Values] == IF w >= B THEN 1 + len[w \div B] ELSE 1 IN len[v]

EncodeVarint32(v) ==
  LET k == Min({n \in 1 .. Groups : v < Group(n) \/ n = Groups})
  IN  [i \in 1 .. k |-> LET group == v \div Group(i - 1)
                        IN  IF i < k THEN (group % B) + B ELSE group]

EncodeVarint64(v) ==
  LET rest[w \in Values] ==
        IF w >= B THEN <<(w % B) + B>> \o rest[w \div B] ELSE <<w>>
  IN  rest[v]

EncodeFixed(bytes, v) == [i \in 1 .. bytes |-> (v \div Octet(i - 1)) % (2 * B)]

DecodeFixed(bytes) ==
  LET sum[i \in 0 .. Len(bytes)] ==
        IF i = 0 THEN 0 ELSE sum[i - 1] + bytes[i] * Octet(i - 1)
  IN  sum[Len(bytes)]

-----------------------------------------------------------------------------
Skip(s, n) == SubSeq(s, n + 1, Len(s))
Failed(input) == [ok |-> FALSE, input |-> input]

\* Where the varint at the front of input ends, among the bytes looked at
Ends_OneLess(input) == {i \in 1 .. Min({Groups - 1, Len(input)}) : input[i] < B}
Ends(input) == {i \in 1 .. Min({Groups, Len(input)}) : input[i] < B}

\* The bits a group is shifted out of the value by are lost.
Decoded(bytes) ==
  LET sum[i \in 0 .. Len(bytes)] ==
        IF i = 0 THEN 0
        ELSE (sum[i - 1] + (bytes[i] % B) * Group(i - 1)) % pow2[WIDTH]
  IN  sum[Len(bytes)]

GetVarint(input) ==
  IF Ends(input) = {} THEN Failed(input)
  ELSE LET n == Min(Ends(input))
       IN  [ok |-> TRUE, value |-> Decoded(SubSeq(input, 1, n)),
            input |-> Skip(input, n)]

-----------------------------------------------------------------------------
PutLengthPrefixedSlice(dst, value) == dst \o EncodeVarint32(Len(value)) \o value

\* One slice after the other
PutSlices(dst, slices) ==
  LET put[n \in 0 .. Len(slices)] ==
        IF n = 0 THEN dst ELSE PutLengthPrefixedSlice(put[n - 1], slices[n])
  IN  put[Len(slices)]

WriteAll(slices) == PutSlices(<<>>, slices)

\* If the slice is longer than what follows, its length is gone from input.
GetLengthPrefixedSlice(input) ==
  LET len == GetVarint(input)
  IN  IF ~len.ok \/ Len(len.input) < len.value THEN Failed(len.input)
      ELSE [ok |-> TRUE, value |-> SubSeq(len.input, 1, len.value),
            input |-> Skip(len.input, len.value)]

\* The slices that a caller reads from input, until there is no more.
ReadAll(input) ==
  LET read[n \in 0 .. Len(input)] ==
        IF n = 0 THEN [slices |-> <<>>, rest |-> input]
        ELSE LET last == read[n - 1]
                 next == GetLengthPrefixedSlice(last.rest)
             IN  IF next.ok
                 THEN [slices |-> Append(last.slices, next.value), rest |-> next.input]
                 ELSE last
  IN  read[Len(input)].slices
=============================================================================
