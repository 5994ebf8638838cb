---------------------------- MODULE MCAlgorithms ----------------------------
(* Instances of Algorithms for TLC: every heap of up to seven elements of
   three values, so three levels with ties; up to three slices, some of which
   need a length of two bytes; batches of up to two records, appended to each
   other; every file of up to five lines with a repeated
   name, an empty one and a repeated key. *)
EXTENDS Algorithms

MCHeaps ==
  {heap \in UNION {[1 .. n -> 0 .. 2] : n \in 0 .. 7} : IsHeap(heap)}

MCStreams ==
  LET Slice_ == {[i \in 1 .. n |-> B] : n \in {0, 1, 3, 4, 5}}
  IN  UNION {[1 .. n -> Slice_] : n \in 0 .. 3}

MCWords == UNION {[1 .. n -> {0, 1}] : n \in 0 .. 3}

MCBatches ==
  LET Slice_  == {[i \in 1 .. n |-> B] : n \in {0, 1, 4}}
      Record_ == [type : {kTypeDeletion}, slices : [1 .. 1 -> Slice_]]
                 \cup [type : {kTypeValue}, slices : [1 .. 2 -> Slice_]]
  IN  UNION {[1 .. n -> Record_] : n \in 0 .. 2}

MCSequenceNumbers == {0, 1, 8, 63}

MCLines ==
  {Header("a"), Header("b"), Header(NoName), Pair("k", "x"), Pair("k", "y"), Other}

MCFiles == UNION {[1 .. n -> MCLines] : n \in 0 .. 5}

MCNumbers == -40 .. 40
=============================================================================
