------------------------------ MODULE LruCache ------------------------------
(***************************************************************************)
(* LRU of common/lru.h: the items in a list, the most recently used one    *)
(* first, and a map from keys to iterators into that list.                 *)
(*                                                                         *)
(* A node of the list is an address; an iterator is the address of its     *)
(* node and stays valid when splice moves the node.  The heap may hand the *)
(* address of an erased node out again.                                    *)
(***************************************************************************)
EXTENDS Integers, Sequences, FiniteSets, SequencesExt

CONSTANTS Keys, Values,
          Nodes,   \* the addresses of list nodes
          Caps     \* bound: the capacities a cache is made with

LruParameters == Caps \subseteq Nat /\ IsFiniteSet(Keys) /\ Values # {}

VARIABLES
  cap,     \* cap_
  lru,     \* lru_: the nodes, most recently used first
  key,     \* LRUItem::key at each address
  value,   \* LRUItem::value at each address
  kvs,     \* kvs_: the iterator of each key that is held
  used,    \* history: the keys, the one put or found last first
  latest   \* history: the value put last for each of them

vars == <<cap, lru, key, value, kvs, used, latest>>

Init ==
  /\ cap \in Caps /\ lru = <<>> /\ kvs = <<>>
  /\ key \in [Nodes -> Keys] /\ value \in [Nodes -> Values]
  /\ used = <<>> /\ latest = <<>>

\* std::list: splice a node to the front, a node taken out
Position(s, x)   == CHOOSE p \in DOMAIN s : s[p] = x
Without(s, x)    == IF x \in ToSet(s) THEN RemoveAt(s, Position(s, x)) ELSE s
ToFront_NotMoved(s, x) == IF x \in ToSet(s) THEN s ELSE <<x>> \o s
ToFront(s, x) == <<x>> \o Without(s, x)

\* std::unordered_map: the map with x for k
With(map, k, x) == [j \in DOMAIN map \cup {k} |-> IF j = k THEN x ELSE map[j]]

Use(k) == used' = <<k>> \o Without(used, k)

-----------------------------------------------------------------------------
\* Get returns false and changes nothing if the key is not in the map.
Get(k) ==
  /\ k \in DOMAIN kvs
  /\ lru' = ToFront(lru, kvs[k])
  /\ Use(k)
  /\ UNCHANGED <<cap, key, value, kvs, latest>>

PutOld(k, v) ==
  /\ k \in DOMAIN kvs
  /\ value' = [value EXCEPT ![kvs[k]] = v]
  /\ lru' = ToFront(lru, kvs[k])
  /\ Use(k) /\ latest' = [latest EXCEPT ![k] = v]
  /\ UNCHANGED <<cap, key, kvs>>

\* Too many keys: the last item and its key go.
Evict(list, map) ==
  [lru |-> Front(list), kvs |-> Restrict(map, DOMAIN map \ {key'[Last(list)]})]

Trimmed(list, map) ==
  IF Cardinality(DOMAIN map) > cap
  THEN Evict(list, map) ELSE [lru |-> list, kvs |-> map]

PutNew(k, v) ==
  /\ k \notin DOMAIN kvs
  /\ \E n \in Nodes \ ToSet(lru) :
       /\ key' = [key EXCEPT ![n] = k]
       /\ value' = [value EXCEPT ![n] = v]
       /\ LET held == Trimmed(<<n>> \o lru, With(kvs, k, n))
          IN  lru' = held.lru /\ kvs' = held.kvs
  /\ Use(k) /\ latest' = With(latest, k, v)
  /\ UNCHANGED cap

Next ==
  \E k \in Keys : \/ Get(k)
                  \/ \E v \in Values : PutOld(k, v) \/ PutNew(k, v)

Spec == Init /\ [][Next]_vars

-----------------------------------------------------------------------------
(* Properties *)

TypeOK ==
  /\ cap \in Caps /\ lru \in Seq(Nodes) /\ Len(lru) <= cap
  /\ key \in [Nodes -> Keys] /\ value \in [Nodes -> Values]
  /\ DOMAIN kvs \subseteq Keys /\ Range(kvs) \subseteq Nodes
  /\ used \in Seq(Keys) /\ DOMAIN latest = ToSet(used)

\* The map and the list describe the same items: every iterator points to a
\* node of the list that holds its key, every node is pointed to, and no node
\* is in the list twice.
MapMatchesList ==
  /\ IsInjective(lru)
  /\ Range(kvs) = ToSet(lru)
  /\ \A k \in DOMAIN kvs : key[kvs[k]] = k

\* And they are the cap keys that were put or found last, in the order of
\* their last use and with the values put last, and nothing else.
HoldsMostRecent ==
  LET kept == SubSeq(used, 1, Min({cap, Len(used)}))
  IN  /\ MapMatchesList
      /\ [i \in DOMAIN lru |-> key[lru[i]]] = kept
      /\ DOMAIN kvs = ToSet(kept)
      /\ \A k \in DOMAIN kvs : value[kvs[k]] = latest[k]
=============================================================================
