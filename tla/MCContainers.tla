---------------------------- MODULE MCContainers ----------------------------
(* Instances of LruCache, BlockList, MapList, DynamicBits and MetaDataLayout for TLC: a
   behaviour is one of the chosen subject, and the variables of the others stay
   idle.

   The policies are one that blocks at once, as the test's for disk errors, and
   ones that count up to two, as the test's for connect errors, or three. *)
EXTENDS Integers, TLC

CONSTANTS LruKeys, Values, Nodes, Caps, VDiskIds, BlockTypes, NoPolicy, MaxNow,
          MapKeys, FirstCnts, Cnts, Limits, Wrap, level_shift, UNSIGNED,
          SizeBounds,
          N, CHUNK_SIZE_64_BITS

Policy(interval, count) ==
  [record_interval_ms |-> interval, block_threhold_cnt |-> count]

Policies == {Policy(0, 1), Policy(1, 2), Policy(2, 3)}

VARIABLES subject,
  cap, lru, key, value, kvs, used, latest,
  block_policy, block_items, suspect_items, now, reports, checked,
  kvs_, bucket_cnt, curr_bucket_idx, PER_ROUND_BLOCK_ITEM_CNT, shown, waits,
  nr_bits, bits,
  space_, held

cache == <<cap, lru, key, value, kvs, used, latest>>
block == <<block_policy, block_items, suspect_items, now, reports, checked>>
map   == <<kvs_, bucket_cnt, curr_bucket_idx, PER_ROUND_BLOCK_ITEM_CNT, shown, waits>>
bitset == <<nr_bits, bits>>
space == <<space_, held>>
vars  == <<subject, cache, block, map, bitset, space>>

Cache == INSTANCE LruCache WITH Keys <- LruKeys
Block == INSTANCE BlockList
Map   == INSTANCE MapList WITH Keys <- MapKeys
Bits  == INSTANCE DynamicBits
Space == INSTANCE MetaDataLayout

ASSUME ContainersAssumption ==
  /\ Cache!LruParameters /\ Block!BlockListParameters
  /\ Map!MapListParameters /\ Bits!BitsParameters
  /\ Space!LayoutParameters

idle == 0

CacheIdle ==
  /\ cap = idle /\ lru = idle /\ key = idle /\ value = idle /\ kvs = idle
  /\ used = idle /\ latest = idle

BlockIdle ==
  /\ block_policy = idle /\ block_items = idle /\ suspect_items = idle
  /\ now = idle /\ reports = idle /\ checked = idle

MapIdle ==
  /\ kvs_ = idle /\ bucket_cnt = idle /\ curr_bucket_idx = idle
  /\ PER_ROUND_BLOCK_ITEM_CNT = idle /\ shown = idle /\ waits = idle

BitsIdle == nr_bits = idle /\ bits = idle

SpaceIdle == space_ = idle /\ held = idle

Init ==
  \/ /\ subject = "cache" /\ Cache!Init
     /\ BlockIdle /\ MapIdle /\ BitsIdle /\ SpaceIdle
  \/ /\ subject = "block" /\ Block!Init
     /\ CacheIdle /\ MapIdle /\ BitsIdle /\ SpaceIdle
  \/ /\ subject = "map" /\ Map!Init
     /\ CacheIdle /\ BlockIdle /\ BitsIdle /\ SpaceIdle
  \/ /\ subject = "bits" /\ Bits!Init
     /\ CacheIdle /\ BlockIdle /\ MapIdle /\ SpaceIdle
  \/ /\ subject = "space" /\ Space!Init
     /\ CacheIdle /\ BlockIdle /\ MapIdle /\ BitsIdle

Next ==
  /\ UNCHANGED subject
  /\ \/ subject = "cache" /\ Cache!Next /\ UNCHANGED <<block, map, bitset, space>>
     \/ subject = "block" /\ Block!Next /\ UNCHANGED <<cache, map, bitset, space>>
     \/ subject = "map"   /\ Map!Next   /\ UNCHANGED <<cache, block, bitset, space>>
     \/ subject = "bits"  /\ Bits!Next  /\ UNCHANGED <<cache, block, map, space>>
     \/ subject = "space" /\ Space!Next /\ UNCHANGED <<cache, block, map, bitset>>

Spec == Init /\ [][Next]_vars

\* LRU holds what was put or found last, in the map as in the list.
HoldsMostRecent == subject = "cache" => Cache!HoldsMostRecent

\* ReportFailed blocks a disk for a cause and overlooks none.
BlockedIffCause == subject = "block" => Block!BlockedIffCause

\* Run displays every item in time.
ShownInTime == subject = "map" => Map!ShownInTime

\* The summaries of DynamicBits are those of its words.
SummariesAgree == subject = "bits" => Bits!SummariesAgree

\* The finders of DynamicBits find what is there.
FindersAgree == subject = "bits" => Bits!FindersAgree

\* MetaDataLayout finds the first fit and gives no unit to two callers.
FindsFirstFit == subject = "space" => Space!FindsFirstFit

Symmetry == Permutations(VDiskIds) \cup Permutations(BlockTypes)
=============================================================================
