--------------------------- MODULE MetaDataLayout ---------------------------
(***************************************************************************)
(* MetaDataLayout<N> of example-bitset: a bit for each unit of a space,    *)
(* and the search for units in a row that are free, in two versions: one   *)
(* tests bit after bit, the other shifts the bit set down and looks at it  *)
(* in chunks of a machine word.                                            *)
(*                                                                         *)
(* A bit set is the set of its positions that are 1, "used".  Callers mark *)
(* what a search has found for them, and free what they hold.              *)
(***************************************************************************)
EXTENDS Integers, FiniteSets, FiniteSetsExt

CONSTANTS N,                  \* the size of the space
          CHUNK_SIZE_64_BITS  \* bits in a machine word

LayoutParameters == N \in Nat \ {0} /\ CHUNK_SIZE_64_BITS \in Nat \ {0}

VARIABLES space_,
          held  \* history: the runs of units that callers hold

vars == <<space_, held>>

\* Some units may be used before the first call (DEBUG_reset_space).
Init == space_ \in SUBSET (0 .. N - 1) /\ held = {}

-----------------------------------------------------------------------------
(* The search *)

FindFirstZero(space, from) == Min({p \in from .. N - 1 : p \notin space} \cup {N})
FindFirstOne(space, from)  == Min({p \in from .. N - 1 : p \in space} \cup {N})

-----------------------------------------------------------------------------
Bits == 0 .. CHUNK_SIZE_64_BITS - 1

total_chunk_Floor(from) == (N - from) \div CHUNK_SIZE_64_BITS
total_chunk(from) == (N - from + CHUNK_SIZE_64_BITS - 1) \div CHUNK_SIZE_64_BITS

\* The bits with this value in a chunk of space >> from, which has zeros behind
\* the end of the space
Chunk(space, from, index, value) ==
  {b \in Bits : (from + index * CHUNK_SIZE_64_BITS + b \in space) = (value = 1)}

\* The first bit with this value, chunk after chunk
FirstInChunks(space, from, value) ==
  LET hits == {i \in 0 .. total_chunk(from) - 1 : Chunk(space, from, i, value) # {}}
      i    == Min(hits)
  IN  IF hits = {} THEN N
      ELSE Min(Chunk(space, from, i, value)) + i * CHUNK_SIZE_64_BITS + from

FindFirstZeroV1(space, from) == FirstInChunks(space, from, 0)
FindFirstOneV1(space, from)  == FirstInChunks(space, from, 1)

-----------------------------------------------------------------------------
FindContinuousFreeSpace(space, cnt, v1) ==
  LET search[curr \in 0 .. N + 1] ==
        LET first_zero == IF v1 THEN FindFirstZeroV1(space, curr)
                          ELSE FindFirstZero(space, curr)
            first_one  == IF v1 THEN FindFirstOneV1(space, first_zero + 1)
                          ELSE FindFirstOne(space, first_zero + 1)
        IN  IF curr > N - cnt \/ first_zero = N THEN N
            ELSE IF first_one - first_zero >= cnt THEN first_zero
            ELSE search[first_one + 1]
  IN  IF cnt = 0 \/ N - Cardinality(space) < cnt THEN N ELSE search[0]

BothVersions(space, cnt) ==
  {FindContinuousFreeSpace(space, cnt, v1) : v1 \in BOOLEAN}

-----------------------------------------------------------------------------
(* The marks *)

MarkSpaceUsed(used)   == space_' = space_ \cup used
MarkSpaceFreed(freed) == space_' = space_ \ freed

Take(cnt) ==
  \E first \in BothVersions(space_, cnt) :
    /\ first # N
    /\ LET run == first .. first + cnt - 1
       IN  MarkSpaceUsed(run) /\ held' = held \cup {run}

Give(run) == MarkSpaceFreed(run) /\ held' = held \ {run}

Next == (\E cnt \in 0 .. N + 1 : Take(cnt)) \/ (\E run \in held : Give(run))

-----------------------------------------------------------------------------
(* Properties *)

TypeOK == space_ \subseteq 0 .. N - 1 /\ held \subseteq SUBSET (0 .. N - 1)

\* What the search is for: the first place where cnt positions in a row are free.
Fits(space, cnt, p) == p + cnt <= N /\ (p .. p + cnt - 1) \cap space = {}

FirstFit(space, cnt) ==
  IF cnt = 0 THEN N ELSE Min({p \in 0 .. N - 1 : Fits(space, cnt, p)} \cup {N})

\* FindContinuousFreeSpace finds the first place with room, in either version,
\* also across the chunks of the second, and N if there is none or cnt is 0; and
\* after any calls no two callers hold the same unit and none of theirs is free.
FindsFirstFit ==
  /\ \A cnt \in 0 .. N + 1 : BothVersions(space_, cnt) = {FirstFit(space_, cnt)}
  /\ \A run1, run2 \in held : run1 # run2 => run1 \cap run2 = {}
  /\ UNION held \subseteq space_
=============================================================================
