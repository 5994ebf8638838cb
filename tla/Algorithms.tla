----------------------------- MODULE Algorithms -----------------------------
(***************************************************************************)
(* Calls of the functions that keep no state: a call with its arguments is *)
(* chosen, then made, and its result is compared with what the function is *)
(* for.                                                                    *)
(***************************************************************************)
EXTENDS MinHeap, Slices, WriteBatch, Section

CONSTANTS Heaps,    \* bound: the heaps top_k_min is called with
          Words,    \* bound: the slices that are compared
          Streams,  \* bound: the sequences of slices that are written
          Batches,  \* bound: the records of a write batch, with those appended
          SequenceNumbers,  \* bound: the sequence numbers
          Files,    \* bound: the files that are parsed
          Numbers,  \* bound: the texts of numbers that are read
          Default   \* what Get is given for a key without a number

ASSUME InputsAssumption ==
  /\ \A heap \in Heaps : heap \in Seq(Int) /\ IsHeap(heap)
  /\ Words \subseteq Seq(Byte) /\ Streams \subseteq Seq(Slice)
  /\ \A dst, src \in Batches :
       dst \in Seq(Record) /\ Len(dst) + Len(src) < Octet(COUNT_BYTES)
  /\ SequenceNumbers \subseteq 0 .. Octet(SEQUENCE_BYTES) - 1
  /\ Files \subseteq Seq(Line) /\ Numbers \subseteq Int

Tails == {<<>>, <<0>>, <<B>>}   \* what may follow a varint

Calls ==
  [fn : {"top_k_min"}, heap : Heaps, k : 0 .. 8]
  \cup [fn : {"GetVarint"}, value : Values, tail : Tails]
  \cup [fn : {"GetLengthPrefixedSlice"}, slices : Streams]
  \cup [fn : {"compare"}, a : Words, b : Words, c : Words]
  \cup [fn : {"Append"}, dst : Batches, src : Batches, seq : SequenceNumbers]
  \cup [fn : {"ParseSectionFile"}, lines : Files]
  \cup [fn : {"Get"}, number : Numbers,
        type : {"int32_t", "int64_t", "uint32_t", "uint64_t"}]

VARIABLES call,
          result  \* <<>> before the call, <<what it returned>> after it

vars == <<call, result>>

Init == call \in Calls /\ result = <<>>

Calling(fn) == call.fn = fn /\ result = <<>> /\ UNCHANGED call

TopKMin ==
  /\ Calling("top_k_min")
  /\ result' = <<top_k_min(call.heap, call.k)>>

ReadVarint ==
  /\ Calling("GetVarint")
  /\ \E encoded \in {EncodeVarint32(call.value), EncodeVarint64(call.value)} :
       result' = <<[encoded |-> encoded, read |-> GetVarint(encoded \o call.tail)]>>

\* The reader may see the stream cut off after any byte.
ReadSlices ==
  /\ Calling("GetLengthPrefixedSlice")
  /\ \E cut \in 0 .. Len(WriteAll(call.slices)) :
       result' = <<[cut |-> cut,
                    read |-> ReadAll(SubSeq(WriteAll(call.slices), 1, cut))]>>

Compare ==
  /\ Calling("compare")
  /\ result' = <<Ordered(call.a, call.b, call.c)>>

\* A batch gets its sequence number and its records, then those of another.
Append_ ==
  /\ Calling("Append")
  /\ LET dst == Filled(SetSequence(Cleared, call.seq), call.dst)
     IN  result' = <<AppendBatch(dst, Filled(Cleared, call.src))>>

Parse ==
  /\ Calling("ParseSectionFile")
  /\ result' = <<ParseSectionFile(call.lines)>>

GetNumber ==
  /\ Calling("Get")
  /\ result' = <<Get(call.type, call.number, Default)>>

Next == \/ TopKMin \/ Compare \/ Parse \/ GetNumber
        \/ ReadVarint \/ ReadSlices \/ Append_

Spec == Init /\ [][Next]_vars

-----------------------------------------------------------------------------
(* Properties *)

Returned(fn) == call.fn = fn /\ result # <<>>

\* top_k_min returns the k smallest elements, ascending, whatever the shape of
\* the heap and however many of them are equal.
FindsSmallest ==
  Returned("top_k_min") => result[1] = SmallestOf(call.heap, call.k)

\* What is put is what is got: a varint of either encoder is read back and
\* leaves what follows it, none of its prefixes reads as a value, and it is as
\* long as VarintLength says; of a stream of slices that is cut off anywhere
\* the complete ones are read and no other.
ReadsWhatWasPut ==
  /\ Returned("GetVarint") =>
       /\ result[1].read = [ok |-> TRUE, value |-> call.value, input |-> call.tail]
       /\ Len(result[1].encoded) = VarintLength(call.value)
       /\ \A n \in 0 .. Len(result[1].encoded) - 1 :
            ~GetVarint(SubSeq(result[1].encoded, 1, n)).ok
  /\ Returned("GetLengthPrefixedSlice") =>
       LET complete == {n \in 0 .. Len(call.slices) :
                          Len(WriteAll(SubSeq(call.slices, 1, n))) <= result[1].cut}
       IN  result[1].read = SubSeq(call.slices, 1, Max(complete))

\* Slices compare as bytes do in a dictionary: compare, == and starts_with agree
\* on any three of them, so that a prefix stands first of a range of its own.
SlicesOrdered == Returned("compare") => result[1]

\* A batch of puts and deletes has the documented format after another was
\* appended, whose header is gone, and its count and sequence number are those
\* of the whole.
BatchesFormatted ==
  Returned("Append") =>
    /\ result[1] = Format(call.seq, call.dst \o call.src)
    /\ Count(result[1]) = Len(call.dst) + Len(call.src)
    /\ Sequence(result[1]) = call.seq

\* ParseSectionFile keeps every named section as it is written, the last one
\* too, unless a key stands outside any section, which ends the program.
SectionsAsWritten ==
  Returned("ParseSectionFile") =>
    IF result[1].aborted THEN Orphans(call.lines) # {}
    ELSE Orphans(call.lines) = {} /\ AsWritten(call.lines, result[1].sections)

\* Get returns the number as written if the type has it and the default if
\* not, for negative texts of unsigned types excepted.
NumbersFit ==
  Returned("Get") /\ (call.number >= 0 \/ call.type \in {"int32_t", "int64_t"})
    => result[1] = IF call.number \in RangeOf(call.type) THEN call.number ELSE Default
=============================================================================
