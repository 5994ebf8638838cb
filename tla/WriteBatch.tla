----------------------------- MODULE WriteBatch -----------------------------
(***************************************************************************)
(* The bytes of a write batch, write_batch.cc: a header of a sequence      *)
(* number and a count, both of fixed width, and the records behind it,     *)
(* each a type and one or two length-prefixed slices.                      *)
(***************************************************************************)
EXTENDS Coding

CONSTANTS SEQUENCE_BYTES,  \* 8: the sequence number is a fixed64
          COUNT_BYTES      \* 4: the count is a fixed32

ASSUME HeaderAssumption ==
  SEQUENCE_BYTES \in Nat \ {0} /\ COUNT_BYTES \in Nat \ {0}

kHeader == SEQUENCE_BYTES + COUNT_BYTES

kTypeDeletion == 0
kTypeValue    == 1

Record == [type : {kTypeDeletion, kTypeValue}, slices : Seq(Slice)]

\* WriteBatch::Clear
Cleared == [i \in 1 .. kHeader |-> 0]

\* rep with bytes written over it from the offset on
Overwritten(rep, offset, bytes) ==
  [i \in DOMAIN rep |->
     IF i - offset \in DOMAIN bytes THEN bytes[i - offset] ELSE rep[i]]

Count(rep)    == DecodeFixed(SubSeq(rep, SEQUENCE_BYTES + 1, kHeader))
Sequence(rep) == DecodeFixed(SubSeq(rep, 1, SEQUENCE_BYTES))

SetCount_AtFront(rep, n) == Overwritten(rep, 0, EncodeFixed(COUNT_BYTES, n))
SetCount(rep, n) == Overwritten(rep, SEQUENCE_BYTES, EncodeFixed(COUNT_BYTES, n))

SetSequence(rep, seq) == Overwritten(rep, 0, EncodeFixed(SEQUENCE_BYTES, seq))

\* WriteBatch::Put and Delete of a record: its type and its slices
AddRecord(rep, record) ==
  PutSlices(Append(SetCount(rep, Count(rep) + 1), record.type), record.slices)

\* A caller's calls of them
Filled(rep, records) ==
  LET filled[n \in 0 .. Len(records)] ==
        IF n = 0 THEN rep ELSE AddRecord(filled[n - 1], records[n])
  IN  filled[Len(records)]

AppendBatch(dst, src) ==
  SetCount(dst, Count(dst) + Count(src)) \o SubSeq(src, kHeader + 1, Len(src))

-----------------------------------------------------------------------------
(* What it is for: the format in the comment at the head of write_batch.cc    *)

Varstrings(slices) ==
  FlattenSeq([i \in DOMAIN slices |-> EncodeVarint32(Len(slices[i])) \o slices[i]])

Format(seq, records) ==
  EncodeFixed(SEQUENCE_BYTES, seq) \o EncodeFixed(COUNT_BYTES, Len(records))
    \o FlattenSeq([i \in DOMAIN records |->
                      <<records[i].type>> \o Varstrings(records[i].slices)])
=============================================================================
