------------------------------ MODULE MapList -------------------------------
(***************************************************************************)
(* MapList of example-tmp: a hash map that is displayed some buckets at a  *)
(* time.  Run goes on where the Run before stopped, a round being full     *)
(* when PER_ROUND_BLOCK_ITEM_CNT items are shown; the map may have been    *)
(* rehashed since, which moves the items to other buckets.                 *)
(*                                                                         *)
(* The cursor is a static that only grows; it is kept here modulo a number *)
(* that all bucket counts divide.                                          *)
(***************************************************************************)
EXTENDS Integers, FiniteSets, FiniteSetsExt

CONSTANTS Keys,       \* the keys that are pushed
          FirstCnts,  \* bucket_count() of an empty map, as libraries differ
          Cnts,       \* and the counts it grows through
          Limits,     \* what SetPerRoundMaxItemCnt is called with
          Wrap        \* bound: where the cursor starts again

MapListParameters ==
  /\ Keys \subseteq Nat /\ IsFiniteSet(Keys)
  /\ FirstCnts \subseteq Nat /\ Limits \subseteq Nat
  /\ Cnts \subseteq Nat \ {0} /\ IsFiniteSet(Cnts) /\ Wrap \in Nat \ {0}
  /\ \E c \in Cnts : c >= Cardinality(Keys) /\ \A first \in FirstCnts : c >= first
  /\ \A c \in Cnts \cup (FirstCnts \ {0}) : Wrap % c = 0

VARIABLES
  kvs_,                      \* the keys in the map
  bucket_cnt,                \* kvs_.bucket_count()
  curr_bucket_idx,           \* where the next Run begins
  PER_ROUND_BLOCK_ITEM_CNT,
  shown,                     \* history: the keys the last Run displayed
  waits                      \* history: Runs since a key was displayed or pushed

vars == <<kvs_, bucket_cnt, curr_bucket_idx, PER_ROUND_BLOCK_ITEM_CNT, shown, waits>>

Init ==
  /\ kvs_ = {} /\ bucket_cnt \in FirstCnts /\ curr_bucket_idx = 0
  /\ PER_ROUND_BLOCK_ITEM_CNT = 4
  /\ shown = {} /\ waits = [k \in Keys |-> 0]

\* The bucket count for that many items: the load factor is at most 1.
Grown(items) == Min({c \in Cnts : c >= items /\ c >= bucket_cnt})

Push(k) ==
  /\ k \notin kvs_
  /\ kvs_' = kvs_ \cup {k}
  /\ bucket_cnt' = Grown(Cardinality(kvs_'))
  /\ waits' = [waits EXCEPT ![k] = 0]
  /\ UNCHANGED <<curr_bucket_idx, PER_ROUND_BLOCK_ITEM_CNT, shown>>

SetPerRoundMaxItemCnt(cnt) ==
  /\ PER_ROUND_BLOCK_ITEM_CNT' = cnt
  /\ UNCHANGED <<kvs_, bucket_cnt, curr_bucket_idx, shown, waits>>

-----------------------------------------------------------------------------
(* Run *)

\* The items in the n buckets from the cursor on
Offset(k) == (k - curr_bucket_idx) % bucket_cnt
Ahead(n)  == {k \in kvs_ : Offset(k) < n}
Cnt(n)    == Cardinality(Ahead(n))

\* With n buckets behind it, one at least, the round does not take the next.
OverLimit_FirstToo(n) == Cnt(n + 1) > Max({Cnt(n), PER_ROUND_BLOCK_ITEM_CNT})
OverLimit(n) == n > 0 /\ Cnt(n + 1) > Max({Cnt(n), PER_ROUND_BLOCK_ITEM_CNT})

Ends(n) ==
  \/ n = bucket_cnt
  \/ n > 0 /\ Cnt(n) >= PER_ROUND_BLOCK_ITEM_CNT
  \/ OverLimit(n)

\* The number of buckets the round passes
Passed == Min({n \in 0 .. bucket_cnt : Ends(n)})

Run ==
  /\ bucket_cnt # 0
  /\ curr_bucket_idx' = (curr_bucket_idx + Passed) % Wrap
  /\ shown' = Ahead(Passed)
  /\ waits' = [k \in Keys |-> IF k \in kvs_ \ shown' THEN waits[k] + 1 ELSE 0]
  /\ UNCHANGED <<kvs_, bucket_cnt, PER_ROUND_BLOCK_ITEM_CNT>>

Next == \/ Run
        \/ \E k \in Keys : Push(k)
        \/ \E cnt \in Limits : SetPerRoundMaxItemCnt(cnt)

Spec == Init /\ [][Next]_vars

-----------------------------------------------------------------------------
(* Properties *)

TypeOK ==
  /\ kvs_ \subseteq Keys /\ bucket_cnt \in Cnts \cup FirstCnts
  /\ curr_bucket_idx \in 0 .. Wrap - 1 /\ PER_ROUND_BLOCK_ITEM_CNT \in Nat
  /\ shown \subseteq kvs_ /\ waits \in [Keys -> Nat]

\* The buckets of the map, and of the smaller ones it may have grown through
Buckets == {b \in Cnts \X (0 .. bucket_cnt - 1) : b[1] <= bucket_cnt /\ b[2] < b[1]}

\* Every item is displayed again after at most as many Runs as there were
\* buckets in the map since, those of the counts it grew through together,
\* however small the limit and however many items share a bucket.
ShownInTime == \A k \in kvs_ : waits[k] < Cardinality(Buckets)
=============================================================================
