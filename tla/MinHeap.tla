------------------------------ MODULE MinHeap ------------------------------
(***************************************************************************)
(* top_k_min of example-minheap-topk: the k smallest elements of a binary  *)
(* heap, found without changing it.  Only children of what is already in   *)
(* the result can be next, so a second, small heap of candidates is kept.  *)
(***************************************************************************)
EXTENDS Integers, Sequences, FiniteSets, FiniteSetsExt

\* heap_data[0 .. n - 1] is the sequence heap, whose first index is 1.
IsHeap(heap) == \A i \in 2 .. Len(heap) : heap[i \div 2] <= heap[i]

\* A candidate is the pair of a value and its index, and pairs are ordered by
\* the value first.
Before(c, d) == c[1] < d[1] \/ (c[1] = d[1] /\ c[2] <= d[2])

Children_OneBased(heap, idx) ==
  {<<heap[j + 1], j>> : j \in {2 * idx, 2 * idx + 1} \cap 0 .. Len(heap) - 1}

Children(heap, idx) ==
  {<<heap[j + 1], j>> : j \in {2 * idx + 1, 2 * idx + 2} \cap 0 .. Len(heap) - 1}

top_k_min(heap, k) ==
  LET turns == Min({Len(heap), k})
      after[i \in 0 .. turns] ==
        IF i = 0 THEN [candidates |-> {<<heap[1], 0>>}, result |-> <<>>]
        ELSE LET min_candidate == after[i - 1].candidates
                 top == CHOOSE c \in min_candidate :
                          \A d \in min_candidate : Before(c, d)
             IN  [candidates |-> (min_candidate \ {top}) \cup Children(heap, top[2]),
                  result |-> Append(after[i - 1].result, top[1])]
  IN  IF turns = 0 THEN <<>> ELSE after[turns].result

\* What it is for: the elements in ascending order, up to the k-th.  The i-th
\* is the least that i elements, itself among them, do not exceed.
Ascending(heap, i) ==
  Min({v \in Range(heap) : Cardinality({j \in DOMAIN heap : heap[j] <= v}) >= i})

SmallestOf(heap, k) == [i \in 1 .. Min({Len(heap), k}) |-> Ascending(heap, i)]
=============================================================================
