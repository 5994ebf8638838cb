------------------------ MODULE LockFreeQueue_proofs ------------------------
(***************************************************************************)
(* Proofs about LockFreeQueue for one producer p and one consumer c, and   *)
(* any number of addresses, values and spurious failures.                  *)
(*                                                                         *)
(* The invariant says that the nodes are a list: a sequence without        *)
(* repetitions that next_ links from head_ on, that tail_ ends unless the  *)
(* producer is about to swing it, and that the heap has its nodes, the     *)
(* one the producer has made and not linked, the one the consumer has      *)
(* taken off and not deleted, and no other.                                *)
(*                                                                         *)
(* The values of the nodes behind the first are the abstract queue; the    *)
(* recursive Nth, which walks along next_, visits the nodes of the list.   *)
(***************************************************************************)
EXTENDS LockFreeQueue, SequenceTheorems, FiniteSetTheorems,
        WellFoundedInduction, TLAPS

p == CHOOSE t : Producers = {t}
c == CHOOSE t : Consumers = {t}

OneOfEach == Producers = {p} /\ Consumers = {c}

Fresh(n)   == pc[p] \in {"loadTail", "link"} /\ n = node[p]
Retired(n) == pc[c] = "delete" /\ n = old[c]

Listed(list) ==
  /\ \A i \in 1 .. Len(list) - 1 : next[list[i]] = list[i + 1]
  /\ \A i, j \in 1 .. Len(list) : i # j => list[i] # list[j]
  /\ list # <<>> => head = list[1] /\ next[list[Len(list)]] = Null
  /\ list = <<>> => head = Null /\ Dying

Allocated(list) ==
  /\ \A n \in Nodes : n \in heap <=> \/ \E i \in 1 .. Len(list) : list[i] = n
                                     \/ Fresh(n) \/ Retired(n)
  /\ \A i \in 1 .. Len(list) : ~Fresh(list[i]) /\ ~Retired(list[i])
  /\ \A n \in Nodes : ~(Fresh(n) /\ Retired(n))

Producing(list) ==
  /\ pc[p] \in {"idle", "loadTail", "link", "swing", "gone"}
  /\ pc[p] \in {"loadTail", "link"} => node[p] \in Nodes /\ next[node[p]] = Null
  /\ pc[p] = "link" => old[p] = tail
  /\ pc[p] = "swing" => old[p] = tail /\ node[p] = list[Len(list)]
  /\ pc[p] # "swing" /\ list # <<>> => tail = list[Len(list)]
  /\ nullTail = Null

Consuming(list) ==
  /\ pc[c] \in {"idle", "loadFirst", "copy", "moveHead", "delete", "emptyNext", "gone"}
  /\ pc[c] \in {"loadFirst", "copy", "moveHead", "emptyNext"} => old[c] = head
  /\ pc[c] \in {"copy", "moveHead"} => Len(list) > 1 /\ node[c] = list[2]
  /\ pc[c] = "delete" => old[c] \in Nodes
  /\ sawItem[c] /\ pc[c] # "gone" => Len(list) > 1

ListInv(list) == Listed(list) /\ Allocated(list) /\ Producing(list) /\ Consuming(list)

IInv == OneOfEach /\ TypeOK /\ ~misused /\ \E list \in Seq(Nodes) : ListInv(list)

-----------------------------------------------------------------------------
LEMMA TwoThreads == OneOfEach => Threads = {p, c} /\ p # c
BY QueueAssumption DEF OneOfEach, Threads

LEMMA ListSuffices == IInv => NodesOutliveTheirUse
<1> SUFFICES ASSUME IInv, Dying, head = Null PROVE heap = {}
  BY DEF IInv, NodesOutliveTheirUse
<1>1. PICK list \in Seq(Nodes) : ListInv(list)
  BY DEF IInv
<1>2. list = <<>>
  BY <1>1, QueueAssumption DEF ListInv, Listed
<1>3. pc[p] = "gone" /\ pc[c] = "gone"
  BY TwoThreads DEF Dying, IInv
<1> QED
  BY <1>1, <1>2, <1>3 DEF ListInv, Allocated, Fresh, Retired, IInv, TypeOK

LEMMA InitList == OneOfEach /\ Init => IInv
<1> SUFFICES ASSUME OneOfEach, Init PROVE IInv
  OBVIOUS
<1>1. PICK s \in Nodes : head = s /\ tail = s /\ heap = {s}
  BY DEF Init
<1>2. TypeOK
  <2>1. sent \in Seq(Values) /\ got \in Seq(Nat)
    BY DEF Init
  <2>2. /\ head \in Address /\ tail \in Nodes /\ heap \subseteq Nodes
        /\ next \in [Nodes -> Address] /\ nullTail \in Address
        /\ value \in [Nodes -> Nat] /\ out \in [Threads -> Nat]
        /\ node \in [Threads -> Address] /\ old \in [Threads -> Address]
    BY <1>1 DEF Init, Address
  <2>3. sawItem \in [Threads -> BOOLEAN] /\ misused \in BOOLEAN /\ fails \in Nat
    BY DEF Init
  <2> QED
    BY <2>1, <2>2, <2>3 DEF Init, TypeOK
<1>3. <<s>> \in Seq(Nodes) /\ Len(<<s>>) = 1 /\ <<s>>[1] = s /\ <<s>> # <<>>
  OBVIOUS
<1>4. /\ pc[p] = "idle" /\ pc[c] = "idle" /\ ~sawItem[c] /\ nullTail = Null
      /\ next[s] = Null
  BY <1>1, TwoThreads DEF Init
<1>5. ListInv(<<s>>)
  BY <1>1, <1>3, <1>4
     DEF ListInv, Listed, Allocated, Producing, Consuming, Fresh, Retired
<1> QED
  BY <1>2, <1>3, <1>5 DEF IInv, Init

-----------------------------------------------------------------------------
(* The steps of the producer *)

LEMMA NotEmpty ==
  ASSUME IInv, NEW list \in Seq(Nodes), ListInv(list),
         NEW t \in Threads, pc[t] # "gone"
  PROVE  /\ list # <<>> /\ Len(list) \in Nat \ {0}
         /\ list[1] \in Nodes /\ list[Len(list)] \in Nodes
         /\ head = list[1] /\ next[list[Len(list)]] = Null
BY DEF ListInv, Listed, Dying

LEMMA NewNodeKeeps ==
  ASSUME IInv, NEW list \in Seq(Nodes), ListInv(list), NewNode(p)
  PROVE  ListInv(list)' /\ ~misused'
<1>1. PICK n \in Nodes \ heap :
        /\ heap' = heap \cup {n} /\ Construct(n, Len(sent) + 1)
        /\ node' = [node EXCEPT ![p] = n]
  BY DEF NewNode
<1>2. /\ pc[p] = "idle" /\ pc' = [pc EXCEPT ![p] = "loadTail"]
      /\ UNCHANGED <<head, tail, nullTail, old, sawItem, misused>>
      /\ next' = [next EXCEPT ![n] = Null]
  BY <1>1 DEF NewNode, Goto, Construct
<1>3. /\ Threads = {p, c} /\ p # c /\ pc \in [Threads -> {pc[p], pc[c]}]
      /\ next \in [Nodes -> Address] /\ node \in [Threads -> Address]
  BY TwoThreads DEF IInv, TypeOK
<1>4. list # <<>> /\ Len(list) \in Nat \ {0} /\ list[Len(list)] \in Nodes
  BY <1>2, <1>3, NotEmpty
<1>5. \A i \in 1 .. Len(list) : list[i] \in heap /\ list[i] # n /\ list[i] \in Nodes
  BY DEF ListInv, Allocated
<1>6. pc'[p] = "loadTail" /\ pc'[c] = pc[c] /\ node'[p] = n /\ node'[c] = node[c]
  BY <1>1, <1>2, <1>3
<1>7. Listed(list)'
  BY <1>2, <1>3, <1>4, <1>5 DEF ListInv, Listed
<1>8. Allocated(list)'
  BY <1>1, <1>2, <1>5, <1>6 DEF ListInv, Allocated, Fresh, Retired
<1>9. Producing(list)' /\ Consuming(list)'
  BY <1>1, <1>2, <1>3, <1>6 DEF ListInv, Producing, Consuming
<1> QED
  BY <1>2, <1>7, <1>8, <1>9 DEF ListInv, IInv

LEMMA LoadTailKeeps ==
  ASSUME IInv, NEW list \in Seq(Nodes), ListInv(list), LoadTail(p)
  PROVE  ListInv(list)' /\ ~misused'
<1>1. /\ pc[p] = "loadTail" /\ pc' = [pc EXCEPT ![p] = "link"]
      /\ old' = [old EXCEPT ![p] = tail]
      /\ UNCHANGED <<head, tail, next, heap, nullTail, node, sawItem, misused>>
  BY DEF LoadTail, Goto, queue, history
<1>2. /\ Threads = {p, c} /\ p # c /\ pc \in [Threads -> {pc[p], pc[c]}]
      /\ old \in [Threads -> Address]
  BY TwoThreads DEF IInv, TypeOK
<1>3. list # <<>>
  BY <1>1, <1>2, NotEmpty
<1>4. pc'[p] = "link" /\ pc'[c] = pc[c] /\ old'[p] = tail /\ old'[c] = old[c]
  BY <1>1, <1>2
<1>5. Listed(list)'
  BY <1>1, <1>3 DEF ListInv, Listed
<1>6. Allocated(list)'
  BY <1>1, <1>4 DEF ListInv, Allocated, Fresh, Retired
<1>7. Producing(list)' /\ Consuming(list)'
  BY <1>1, <1>4 DEF ListInv, Producing, Consuming
<1> QED
  BY <1>1, <1>5, <1>6, <1>7 DEF ListInv, IInv

LEMMA LinkKeeps ==
  ASSUME IInv, NEW list \in Seq(Nodes), ListInv(list), Link(p),
         NEW more \in Seq(Nodes), more = Append(list, node[p])
  PROVE  ListInv(more)' /\ ~misused'
<1>1. /\ pc[p] = "link" /\ pc' = [pc EXCEPT ![p] = "swing"]
      /\ next' = [next EXCEPT ![old[p]] = node[p]] /\ Access(old[p])
      /\ UNCHANGED <<head, tail, heap, nullTail, node, old, sawItem>>
  BY DEF Link, Goto, local
<1>2. /\ Threads = {p, c} /\ p # c /\ pc \in [Threads -> {pc[p], pc[c]}]
      /\ next \in [Nodes -> Address]
  BY TwoThreads DEF IInv, TypeOK
<1>3. /\ list # <<>> /\ Len(list) \in Nat \ {0} /\ list[Len(list)] \in Nodes
      /\ head = list[1]
  BY <1>1, <1>2, NotEmpty
<1>4. /\ old[p] = list[Len(list)] /\ tail = list[Len(list)]
      /\ node[p] \in Nodes /\ next[node[p]] = Null
  BY <1>1, <1>3 DEF ListInv, Producing
<1>5. /\ \A i \in 1 .. Len(list) : list[i] \in heap /\ list[i] # node[p]
      /\ node[p] \in heap /\ ~Retired(node[p])
      /\ old[p] \in heap /\ old[p] # node[p]
  <2>1. /\ \A i \in 1 .. Len(list) : list[i] \in heap /\ list[i] # node[p]
        /\ node[p] \in heap /\ ~Retired(node[p])
    BY <1>1, <1>4 DEF ListInv, Allocated, Fresh
  <2>2. Len(list) \in 1 .. Len(list)
    BY <1>3
  <2> QED
    BY <1>4, <2>1, <2>2
<1>6. /\ Len(more) = Len(list) + 1 /\ more[Len(more)] = node[p] /\ more # <<>>
      /\ \A i \in 1 .. Len(list) : more[i] = list[i]
      /\ \A i \in 1 .. Len(more) : i = Len(more) \/ i \in 1 .. Len(list)
  BY <1>3, <1>4
<1>7. pc'[p] = "swing" /\ pc'[c] = pc[c]
  BY <1>1, <1>2
<1>8. Listed(more)'
  <2>1. /\ next'[list[Len(list)]] = node[p] /\ next'[node[p]] = Null
        /\ \A i \in 1 .. Len(list) - 1 : next'[list[i]] = list[i + 1]
    <3>1. \A i \in 1 .. Len(list) - 1 :
            i \in 1 .. Len(list) /\ list[i] # list[Len(list)] /\ list[i] \in Nodes
      BY <1>3 DEF ListInv, Listed
    <3>2. \A i \in 1 .. Len(list) - 1 : next'[list[i]] = list[i + 1]
      BY <1>1, <1>2, <1>4, <3>1 DEF ListInv, Listed
    <3>3. next'[list[Len(list)]] = node[p] /\ next'[node[p]] = Null
      BY <1>1, <1>2, <1>3, <1>4, <1>5
    <3> QED
      BY <3>2, <3>3
  <2>2. \A i \in 1 .. Len(more) - 1 : next'[more[i]] = more[i + 1]
    BY <1>3, <1>6, <2>1
  <2>3. \A i, j \in 1 .. Len(more) : i # j => more[i] # more[j]
    BY <1>5, <1>6 DEF ListInv, Listed
  <2>4. head' = more[1] /\ next'[more[Len(more)]] = Null
    BY <1>1, <1>3, <1>6, <2>1
  <2> QED
    BY <1>6, <2>2, <2>3, <2>4 DEF Listed
<1>9. Allocated(more)'
  <2>1. \A n \in Nodes : (Fresh(n) <=> n = node[p]) /\ ~Fresh(n)' /\ (Retired(n)' <=> Retired(n))
    BY <1>1, <1>7 DEF Fresh, Retired
  <2>2. \A n \in Nodes :
          (\E i \in 1 .. Len(more) : more[i] = n) <=>
            (n = node[p] \/ \E i \in 1 .. Len(list) : list[i] = n)
    BY <1>3, <1>6
  <2>3. \A i \in 1 .. Len(more) : more[i] \in Nodes /\ ~Retired(more[i])
    BY <1>5, <1>6 DEF ListInv, Allocated
  <2>4. \A n \in Nodes : n \in heap' <=> \/ \E i \in 1 .. Len(more) : more[i] = n
                                         \/ Fresh(n)' \/ Retired(n)'
    BY <1>1, <2>1, <2>2 DEF ListInv, Allocated
  <2> QED
    BY <2>1, <2>3, <2>4 DEF Allocated
<1>10. Producing(more)'
  BY <1>1, <1>4, <1>6, <1>7 DEF ListInv, Producing
<1>11. Consuming(more)'
  <2>1. Len(list) > 1 => Len(more) > 1 /\ more[2] = list[2]
    BY <1>3, <1>6
  <2> QED
    BY <1>1, <1>7, <2>1 DEF ListInv, Consuming
<1>12. ~misused'
  BY <1>1, <1>5 DEF Access, IInv
<1> QED
  BY <1>8, <1>9, <1>10, <1>11, <1>12 DEF ListInv

LEMMA LinkFailsKeeps ==
  ASSUME IInv, NEW list \in Seq(Nodes), ListInv(list), LinkFails(p)
  PROVE  ListInv(list)' /\ ~misused'
<1>1. /\ pc[p] = "link" /\ pc' = [pc EXCEPT ![p] = "loadTail"]
      /\ nullTail' = next[old[p]] /\ Access(old[p])
      /\ UNCHANGED <<head, tail, next, heap, node, old, sawItem>>
  BY DEF LinkFails, Goto, local
<1>2. Threads = {p, c} /\ p # c /\ pc \in [Threads -> {pc[p], pc[c]}]
  BY TwoThreads DEF IInv, TypeOK
<1>3. /\ list # <<>> /\ Len(list) \in Nat \ {0} /\ list[Len(list)] \in Nodes
      /\ next[list[Len(list)]] = Null
  BY <1>1, <1>2, NotEmpty
<1>4. old[p] = list[Len(list)]
  BY <1>1, <1>3 DEF ListInv, Producing
<1>5. pc'[p] = "loadTail" /\ pc'[c] = pc[c]
  BY <1>1, <1>2
<1>6. Listed(list)'
  BY <1>1, <1>3 DEF ListInv, Listed
<1>7. Allocated(list)'
  BY <1>1, <1>5 DEF ListInv, Allocated, Fresh, Retired
<1>8. Producing(list)' /\ Consuming(list)'
  BY <1>1, <1>3, <1>4, <1>5 DEF ListInv, Producing, Consuming
<1>9. list[Len(list)] \in heap
  BY <1>3 DEF ListInv, Allocated
<1> QED
  BY <1>1, <1>4, <1>6, <1>7, <1>8, <1>9 DEF ListInv, IInv, Access

LEMMA SwingTailKeeps ==
  ASSUME IInv, NEW list \in Seq(Nodes), ListInv(list), SwingTail(p)
  PROVE  ListInv(list)' /\ ~misused'
<1>1. /\ pc[p] = "swing" /\ pc' = [pc EXCEPT ![p] = "idle"]
      /\ tail' = Exchanged(tail, old[p], node[p])
      /\ UNCHANGED <<head, next, heap, nullTail, node, old, sawItem, misused>>
  BY DEF SwingTail, Goto, local, history
<1>2. Threads = {p, c} /\ p # c /\ pc \in [Threads -> {pc[p], pc[c]}]
  BY TwoThreads DEF IInv, TypeOK
<1>3. list # <<>>
  BY <1>1, <1>2, NotEmpty
<1>4. pc'[p] = "idle" /\ pc'[c] = pc[c]
  BY <1>1, <1>2
<1>5. tail' = list[Len(list)]
  BY <1>1 DEF ListInv, Producing, Exchanged
<1>6. Listed(list)'
  BY <1>1, <1>3 DEF ListInv, Listed
<1>7. Allocated(list)'
  BY <1>1, <1>4 DEF ListInv, Allocated, Fresh, Retired
<1>8. Producing(list)' /\ Consuming(list)'
  BY <1>1, <1>4, <1>5 DEF ListInv, Producing, Consuming
<1> QED
  BY <1>1, <1>6, <1>7, <1>8 DEF ListInv, IInv

-----------------------------------------------------------------------------
(* The steps of the consumer *)

LEMMA LoadHeadKeeps ==
  ASSUME IInv, NEW list \in Seq(Nodes), ListInv(list), LoadHead(c) \/ EmptyLoadHead(c)
  PROVE  ListInv(list)' /\ ~misused'
<1>1. /\ pc[c] = "idle" /\ old' = [old EXCEPT ![c] = head]
      /\ \E l \in {"loadFirst", "emptyNext"} : pc' = [pc EXCEPT ![c] = l]
      /\ UNCHANGED <<head, tail, next, heap, nullTail, node, sawItem, misused>>
  BY DEF LoadHead, EmptyLoadHead, Goto, queue, history
<1>2. /\ Threads = {p, c} /\ p # c /\ pc \in [Threads -> {pc[p], pc[c]}]
      /\ old \in [Threads -> Address]
  BY TwoThreads DEF IInv, TypeOK
<1>3. list # <<>>
  BY <1>1, <1>2, NotEmpty
<1>4. /\ pc'[c] \in {"loadFirst", "emptyNext"} /\ pc'[p] = pc[p]
      /\ old'[c] = head /\ old'[p] = old[p]
  BY <1>1, <1>2
<1>5. Listed(list)'
  BY <1>1, <1>3 DEF ListInv, Listed
<1>6. Allocated(list)'
  BY <1>1, <1>4 DEF ListInv, Allocated, Fresh, Retired
<1>7. Producing(list)' /\ Consuming(list)'
  BY <1>1, <1>4 DEF ListInv, Producing, Consuming
<1> QED
  BY <1>1, <1>5, <1>6, <1>7 DEF ListInv, IInv

(* The consumer looks at the node behind the sentinel.                     *)
LEMMA HeadIsAlive ==
  ASSUME IInv, NEW list \in Seq(Nodes), ListInv(list), list # <<>>
  PROVE  /\ head \in heap /\ head \in Nodes
         /\ next[head] # Null <=> Len(list) > 1
         /\ Len(list) > 1 => /\ next[head] = list[2] /\ list[2] \in Nodes
                             /\ list[2] \in heap
<1>1. /\ head = list[1] /\ list[1] \in Nodes /\ Len(list) \in Nat \ {0}
      /\ 1 \in 1 .. Len(list)
  BY DEF ListInv, Listed
<1>2. head \in heap
  BY <1>1 DEF ListInv, Allocated
<1>3. CASE Len(list) = 1
  BY <1>1, <1>2, <1>3 DEF ListInv, Listed
<1>4. CASE Len(list) > 1
  <2>1. 1 \in 1 .. Len(list) - 1 /\ 2 \in 1 .. Len(list) /\ list[2] \in Nodes
    BY <1>1, <1>4
  <2>2. next[head] = list[2]
    BY <1>1, <2>1 DEF ListInv, Listed
  <2>3. list[2] \in heap
    BY <2>1 DEF ListInv, Allocated
  <2> QED
    BY <1>1, <1>2, <1>4, <2>1, <2>2, <2>3, QueueAssumption
<1>5. Len(list) = 1 \/ Len(list) > 1
  <2>1. Len(list) \in Nat /\ Len(list) # 0
    BY <1>1
  <2> QED
    BY ONLY <2>1
<1> QED
  BY <1>3, <1>4, <1>5

LEMMA LoadFirstKeeps ==
  ASSUME IInv, NEW list \in Seq(Nodes), ListInv(list), LoadFirst(c)
  PROVE  ListInv(list)' /\ ~misused'
<1>1. /\ pc[c] = "loadFirst" /\ node' = [node EXCEPT ![c] = next[old[c]]]
      /\ pc' = [pc EXCEPT ![c] = IF next[old[c]] # Null THEN "copy" ELSE "idle"]
      /\ Access(old[c])
      /\ UNCHANGED <<head, tail, next, heap, nullTail, old, sawItem>>
  BY DEF LoadFirst, Goto, queue, IsFirst
<1>2. /\ Threads = {p, c} /\ p # c /\ pc \in [Threads -> {pc[p], pc[c]}]
      /\ node \in [Threads -> Address]
  BY TwoThreads DEF IInv, TypeOK
<1>3. list # <<>> /\ old[c] = head
  BY <1>1, <1>2, NotEmpty DEF ListInv, Consuming
<1>4. /\ pc'[c] = (IF Len(list) > 1 THEN "copy" ELSE "idle") /\ pc'[p] = pc[p]
      /\ (Len(list) > 1 => node'[c] = list[2]) /\ node'[p] = node[p]
  BY <1>1, <1>2, <1>3, HeadIsAlive
<1>5. Listed(list)'
  BY <1>1, <1>3 DEF ListInv, Listed
<1>6. Allocated(list)'
  BY <1>1, <1>4 DEF ListInv, Allocated, Fresh, Retired
<1>7. Producing(list)' /\ Consuming(list)'
  BY <1>1, <1>4 DEF ListInv, Producing, Consuming
<1>8. ~misused'
  BY <1>1, <1>3, HeadIsAlive DEF IInv, Access
<1> QED
  BY <1>5, <1>6, <1>7, <1>8 DEF ListInv

LEMMA CopyKeeps ==
  ASSUME IInv, NEW list \in Seq(Nodes), ListInv(list), Copy(c)
  PROVE  ListInv(list)' /\ ~misused'
<1>1. /\ pc[c] = "copy" /\ pc' = [pc EXCEPT ![c] = "moveHead"] /\ Access(node[c])
      /\ UNCHANGED <<head, tail, next, heap, nullTail, node, old, sawItem>>
  BY DEF Copy, Goto, queue
<1>2. Threads = {p, c} /\ p # c /\ pc \in [Threads -> {pc[p], pc[c]}]
  BY TwoThreads DEF IInv, TypeOK
<1>3. list # <<>> /\ Len(list) > 1 /\ node[c] = list[2]
  BY <1>1, <1>2, NotEmpty DEF ListInv, Consuming
<1>4. pc'[c] = "moveHead" /\ pc'[p] = pc[p]
  BY <1>1, <1>2
<1>5. Listed(list)'
  BY <1>1, <1>3 DEF ListInv, Listed
<1>6. Allocated(list)'
  BY <1>1, <1>4 DEF ListInv, Allocated, Fresh, Retired
<1>7. Producing(list)' /\ Consuming(list)'
  BY <1>1, <1>4 DEF ListInv, Producing, Consuming
<1>8. ~misused'
  BY <1>1, <1>3, HeadIsAlive DEF IInv, Access
<1> QED
  BY <1>5, <1>6, <1>7, <1>8 DEF ListInv

LEMMA EmptyLoadNextKeeps ==
  ASSUME IInv, NEW list \in Seq(Nodes), ListInv(list), EmptyLoadNext(c)
  PROVE  ListInv(list)' /\ ~misused'
<1>1. /\ pc[c] = "emptyNext" /\ pc' = [pc EXCEPT ![c] = "idle"] /\ Access(old[c])
      /\ sawItem' = [sawItem EXCEPT ![c] = next[old[c]] # Null]
      /\ UNCHANGED <<head, tail, next, heap, nullTail, node, old>>
  BY DEF EmptyLoadNext, Goto, queue, local, HasNext
<1>2. /\ Threads = {p, c} /\ p # c /\ pc \in [Threads -> {pc[p], pc[c]}]
      /\ sawItem \in [Threads -> BOOLEAN]
  BY TwoThreads DEF IInv, TypeOK
<1>3. list # <<>> /\ old[c] = head
  BY <1>1, <1>2, NotEmpty DEF ListInv, Consuming
<1>4. pc'[c] = "idle" /\ pc'[p] = pc[p] /\ (sawItem'[c] => Len(list) > 1)
  BY <1>1, <1>2, <1>3, HeadIsAlive
<1>5. Listed(list)'
  BY <1>1, <1>3 DEF ListInv, Listed
<1>6. Allocated(list)'
  BY <1>1, <1>4 DEF ListInv, Allocated, Fresh, Retired
<1>7. Producing(list)' /\ Consuming(list)'
  BY <1>1, <1>4 DEF ListInv, Producing, Consuming
<1>8. ~misused'
  BY <1>1, <1>3, HeadIsAlive DEF IInv, Access
<1> QED
  BY <1>5, <1>6, <1>7, <1>8 DEF ListInv

LEMMA DeleteKeeps ==
  ASSUME IInv, NEW list \in Seq(Nodes), ListInv(list), Delete(c)
  PROVE  ListInv(list)' /\ ~misused'
<1>1. /\ pc[c] = "delete" /\ pc' = [pc EXCEPT ![c] = "idle"] /\ Access(old[c])
      /\ heap' = heap \ {old[c]}
      /\ UNCHANGED <<head, tail, next, nullTail, node, old, sawItem>>
  BY DEF Delete, Goto, local, Deleted
<1>2. Threads = {p, c} /\ p # c /\ pc \in [Threads -> {pc[p], pc[c]}]
  BY TwoThreads DEF IInv, TypeOK
<1>3. list # <<>> /\ old[c] \in Nodes /\ Retired(old[c])
  BY <1>1, <1>2, NotEmpty DEF ListInv, Consuming, Retired
<1>4. pc'[c] = "idle" /\ pc'[p] = pc[p]
  BY <1>1, <1>2
<1>5. Listed(list)'
  BY <1>1, <1>3 DEF ListInv, Listed
<1>6. Allocated(list)'
  <2>1. \A n \in Nodes : (Fresh(n)' <=> Fresh(n)) /\ ~Retired(n)' /\ (Retired(n) <=> n = old[c])
    BY <1>1, <1>4 DEF Fresh, Retired
  <2>2. \A i \in 1 .. Len(list) : list[i] \in Nodes
    OBVIOUS
  <2> QED
    BY <1>1, <1>3, <2>1, <2>2 DEF ListInv, Allocated
<1>7. Producing(list)' /\ Consuming(list)'
  BY <1>1, <1>4 DEF ListInv, Producing, Consuming
<1>8. ~misused'
  BY <1>1, <1>3 DEF IInv, Access, ListInv, Allocated
<1> QED
  BY <1>5, <1>6, <1>7, <1>8 DEF ListInv

LEMMA TailIsShifted ==
  ASSUME NEW list \in Seq(Nodes), list # <<>>
  PROVE  /\ Tail(list) \in Seq(Nodes)
         /\ Len(list) \in Nat \ {0} /\ Len(Tail(list)) = Len(list) - 1
         /\ \A i \in 1 .. Len(list) - 1 : /\ Tail(list)[i] = list[i + 1]
                                         /\ i + 1 \in 2 .. Len(list)
         /\ \A k \in 2 .. Len(list) : /\ k - 1 \in 1 .. Len(list) - 1
                                     /\ Tail(list)[k - 1] = list[k]
OBVIOUS

(* The list without its first node                                         *)
LEMMA RestIsListed ==
  ASSUME NEW list \in Seq(Nodes), Listed(list), Len(list) > 1
  PROVE  LET rest == Tail(list)
         IN  /\ \A i \in 1 .. Len(rest) - 1 : next[rest[i]] = rest[i + 1]
             /\ \A i, j \in 1 .. Len(rest) : i # j => rest[i] # rest[j]
             /\ rest # <<>> /\ rest[1] = list[2]
             /\ rest[Len(rest)] = list[Len(list)] /\ next[rest[Len(rest)]] = Null
<1> DEFINE rest == Tail(list)
<1>1. list # <<>>
  OBVIOUS
<1>2. /\ rest \in Seq(Nodes)
      /\ Len(list) \in Nat \ {0} /\ Len(rest) = Len(list) - 1
      /\ \A i \in 1 .. Len(list) - 1 : rest[i] = list[i + 1] /\ i + 1 \in 2 .. Len(list)
  BY <1>1, TailIsShifted
<1> HIDE DEF rest
<1>3. rest # <<>> /\ rest[1] = list[2] /\ rest[Len(rest)] = list[Len(list)]
  BY <1>2
<1>4. next[rest[Len(rest)]] = Null
  BY <1>1, <1>3 DEF Listed
<1>5. ASSUME NEW i \in 1 .. Len(rest) - 1 PROVE next[rest[i]] = rest[i + 1]
  <2>1. /\ rest[i] = list[i + 1] /\ rest[i + 1] = list[i + 2]
        /\ i + 1 \in 1 .. Len(list) - 1 /\ (i + 1) + 1 = i + 2
    BY <1>2
  <2> QED
    BY <2>1 DEF Listed
<1>6. ASSUME NEW i \in 1 .. Len(rest), NEW j \in 1 .. Len(rest), i # j
      PROVE  rest[i] # rest[j]
  <2>1. /\ rest[i] = list[i + 1] /\ rest[j] = list[j + 1] /\ i + 1 # j + 1
        /\ i + 1 \in 1 .. Len(list) /\ j + 1 \in 1 .. Len(list)
    BY <1>2, <1>6
  <2> QED
    BY <2>1 DEF Listed
<1> QED
  BY <1>3, <1>4, <1>5, <1>6 DEF rest

LEMMA MoveHeadKeeps ==
  ASSUME IInv, NEW list \in Seq(Nodes), ListInv(list), MoveHead(c),
         NEW rest \in Seq(Nodes), rest = Tail(list)
  PROVE  ListInv(rest)' /\ ~misused'
<1>1. /\ pc[c] = "moveHead" /\ pc' = [pc EXCEPT ![c] = "delete"]
      /\ head' = Exchanged(head, old[c], node[c])
      /\ sawItem' = [sawItem EXCEPT ![c] = FALSE]
      /\ UNCHANGED <<tail, next, heap, nullTail, node, old, misused>>
  BY DEF MoveHead, Goto, local
<1>2. /\ Threads = {p, c} /\ p # c /\ pc \in [Threads -> {pc[p], pc[c]}]
      /\ sawItem \in [Threads -> BOOLEAN]
  BY TwoThreads DEF IInv, TypeOK
<1>3. /\ list # <<>> /\ Len(list) > 1 /\ node[c] = list[2] /\ old[c] = head
      /\ head = list[1] /\ list[1] \in Nodes
  BY <1>1, <1>2, NotEmpty DEF ListInv, Consuming
<1>4. pc'[c] = "delete" /\ pc'[p] = pc[p] /\ ~sawItem'[c] /\ head' = list[2]
  BY <1>1, <1>2, <1>3 DEF Exchanged
<1>5. /\ \A i \in 1 .. Len(rest) - 1 : next[rest[i]] = rest[i + 1]
      /\ \A i, j \in 1 .. Len(rest) : i # j => rest[i] # rest[j]
      /\ rest # <<>> /\ rest[1] = list[2]
      /\ rest[Len(rest)] = list[Len(list)] /\ next[rest[Len(rest)]] = Null
  BY <1>3, RestIsListed DEF ListInv
<1>6. Listed(rest)'
  BY <1>1, <1>4, <1>5 DEF Listed
<1>7. Allocated(rest)'
  <2>1. /\ Len(rest) = Len(list) - 1 /\ Len(list) \in Nat
        /\ \A i \in 1 .. Len(list) - 1 : rest[i] = list[i + 1] /\ i + 1 \in 2 .. Len(list)
        /\ \A k \in 2 .. Len(list) : k - 1 \in 1 .. Len(list) - 1 /\ rest[k - 1] = list[k]
    BY <1>3, TailIsShifted
  <2>2. ASSUME NEW n \in Nodes
        PROVE  (\E i \in 1 .. Len(list) : list[i] = n) <=>
                 (n = list[1] \/ \E i \in 1 .. Len(rest) : rest[i] = n)
    <3>1. ASSUME NEW i \in 1 .. Len(list), list[i] = n, n # list[1]
          PROVE  \E k \in 1 .. Len(rest) : rest[k] = n
      <4>1. i \in 2 .. Len(list)
        BY <3>1, <2>1
      <4>2. i - 1 \in 1 .. Len(rest) /\ rest[i - 1] = n
        BY <2>1, <3>1, <4>1
      <4> QED
        BY <4>2
    <3>2. ASSUME NEW i \in 1 .. Len(rest), rest[i] = n
          PROVE  \E k \in 1 .. Len(list) : list[k] = n
      <4>1. i + 1 \in 1 .. Len(list) /\ list[i + 1] = n
        BY <2>1, <3>2
      <4> QED
        BY <4>1
    <3>3. 1 \in 1 .. Len(list)
      BY <1>3, <2>1
    <3> QED
      BY <3>1, <3>2, <3>3
  <2>3. ASSUME NEW n \in Nodes
        PROVE  (Fresh(n)' <=> Fresh(n)) /\ (Retired(n)' <=> n = list[1]) /\ ~Retired(n)
    BY <1>1, <1>3, <1>4 DEF Fresh, Retired
  <2>4. ~Fresh(list[1])
    BY <1>3, <2>1 DEF ListInv, Allocated
  <2>5. ASSUME NEW i \in 1 .. Len(rest) PROVE rest[i] # list[1] /\ ~Fresh(rest[i]) /\ rest[i] \in Nodes
    <3>1. i + 1 \in 1 .. Len(list) /\ rest[i] = list[i + 1] /\ i + 1 # 1 /\ 1 \in 1 .. Len(list)
      BY <2>1
    <3>2. list[i + 1] # list[1] /\ ~Fresh(list[i + 1])
      BY <3>1 DEF ListInv, Listed, Allocated
    <3> QED
      BY <3>1, <3>2
  <2>6. ASSUME NEW n \in Nodes
        PROVE  n \in heap' <=> \/ \E i \in 1 .. Len(rest) : rest[i] = n
                               \/ Fresh(n)' \/ Retired(n)'
    <3>1. n \in heap <=> (\E i \in 1 .. Len(list) : list[i] = n) \/ Fresh(n) \/ Retired(n)
      BY DEF ListInv, Allocated
    <3> QED
      BY <1>1, <2>2, <2>3, <3>1
  <2> QED
    BY <2>3, <2>4, <2>5, <2>6 DEF Allocated
<1>8. Producing(rest)'
  BY <1>1, <1>3, <1>4, <1>5 DEF ListInv, Producing
<1>9. Consuming(rest)'
  BY <1>1, <1>3, <1>4 DEF ListInv, Consuming
<1> QED
  BY <1>1, <1>6, <1>7, <1>8, <1>9 DEF ListInv, IInv

-----------------------------------------------------------------------------
(* The end *)

LEMMA LeaveKeeps ==
  ASSUME IInv, NEW list \in Seq(Nodes), ListInv(list), NEW t \in Threads, Leave(t)
  PROVE  ListInv(list)' /\ ~misused'
<1>1. /\ pc[t] = "idle" /\ pc' = [pc EXCEPT ![t] = "gone"]
      /\ UNCHANGED <<head, tail, next, heap, nullTail, node, old, sawItem, misused>>
  BY DEF Leave, Goto, queue, local, history
<1>2. Threads = {p, c} /\ p # c /\ pc \in [Threads -> {pc[p], pc[c]}]
  BY TwoThreads DEF IInv, TypeOK
<1>3. list # <<>>
  BY <1>1, NotEmpty
<1>4. \A u \in Threads : pc'[u] = pc[u] \/ (pc[u] = "idle" /\ pc'[u] = "gone")
  BY <1>1, <1>2
<1>5. Listed(list)'
  BY <1>1, <1>3 DEF ListInv, Listed
<1>6. Allocated(list)'
  <2>1. \A n \in Nodes : (Fresh(n)' <=> Fresh(n)) /\ (Retired(n)' <=> Retired(n))
    BY <1>1, <1>2, <1>4 DEF Fresh, Retired
  <2>2. \A i \in 1 .. Len(list) : list[i] \in Nodes
    OBVIOUS
  <2> QED
    BY <1>1, <2>1, <2>2 DEF ListInv, Allocated
<1>7. Producing(list)' /\ Consuming(list)'
  BY <1>1, <1>2, <1>4 DEF ListInv, Producing, Consuming
<1> QED
  BY <1>1, <1>5, <1>6, <1>7 DEF ListInv, IInv

LEMMA DeleteHeadKeeps ==
  ASSUME IInv, NEW list \in Seq(Nodes), ListInv(list), DeleteHead,
         NEW rest \in Seq(Nodes), rest = Tail(list)
  PROVE  ListInv(rest)' /\ ~misused'
<1>1. /\ Dying /\ head # Null /\ head' = next[head] /\ Access(head)
      /\ heap' = heap \ {head}
      /\ UNCHANGED <<tail, next, nullTail, node, old, sawItem, pc>>
  BY DEF DeleteHead, local, Deleted
<1>2. pc[p] = "gone" /\ pc[c] = "gone" /\ Dying'
  BY <1>1, TwoThreads DEF Dying, IInv
<1>3. list # <<>>
  BY <1>1 DEF ListInv, Listed
<1>4. head = list[1] /\ head \in heap /\ head \in Nodes
  BY <1>3, HeadIsAlive DEF ListInv, Listed
<1>5. /\ Len(list) \in Nat \ {0} /\ Len(rest) = Len(list) - 1
      /\ \A i \in 1 .. Len(list) - 1 : rest[i] = list[i + 1] /\ i + 1 \in 2 .. Len(list)
      /\ \A k \in 2 .. Len(list) : k - 1 \in 1 .. Len(list) - 1 /\ rest[k - 1] = list[k]
  BY <1>3, TailIsShifted
<1>6. Listed(rest)'
  <2>1. CASE Len(list) > 1
    <3>1. /\ \A i \in 1 .. Len(rest) - 1 : next[rest[i]] = rest[i + 1]
          /\ \A i, j \in 1 .. Len(rest) : i # j => rest[i] # rest[j]
          /\ rest # <<>> /\ rest[1] = list[2] /\ next[rest[Len(rest)]] = Null
      BY <2>1, RestIsListed DEF ListInv
    <3>2. head' = list[2]
      BY <1>1, <1>3, <2>1, HeadIsAlive
    <3> QED
      BY <1>1, <3>1, <3>2 DEF Listed
  <2>2. CASE Len(list) = 1
    <3>1. rest = <<>> /\ Len(rest) = 0
      BY <1>5, <2>2
    <3>2. head' = Null
      BY <1>1, <1>4, <2>2 DEF ListInv, Listed
    <3>3. 1 .. Len(rest) = {} /\ 1 .. Len(rest) - 1 = {}
      BY ONLY <3>1
    <3> QED
      BY <1>2, <3>1, <3>2, <3>3 DEF Listed
  <2>3. Len(list) = 1 \/ Len(list) > 1
    BY ONLY <1>5
  <2> QED
    BY <2>1, <2>2, <2>3
<1>7. Allocated(rest)'
  <2>1. \A n \in Nodes : ~Fresh(n) /\ ~Fresh(n)' /\ ~Retired(n) /\ ~Retired(n)'
    BY <1>1, <1>2 DEF Fresh, Retired
  <2>2. \A i \in 1 .. Len(rest) : rest[i] \in Nodes /\ rest[i] # head
    <3> TAKE i \in 1 .. Len(rest)
    <3>1. i + 1 \in 1 .. Len(list) /\ 1 \in 1 .. Len(list) /\ i + 1 # 1 /\ rest[i] = list[i + 1]
      BY <1>5
    <3> QED
      BY <1>4, <3>1 DEF ListInv, Listed
  <2>3. ASSUME NEW n \in heap'
        PROVE  \E i \in 1 .. Len(rest) : rest[i] = n
    <3>1. PICK k \in 1 .. Len(list) : list[k] = n
      BY <1>1, <2>1 DEF ListInv, Allocated, IInv, TypeOK
    <3>2. k \in 2 .. Len(list)
      BY <1>1, <1>4, <1>5, <3>1
    <3>3. k - 1 \in 1 .. Len(rest) /\ rest[k - 1] = n
      BY <1>5, <3>1, <3>2
    <3> QED
      BY <3>3
  <2>4. ASSUME NEW i \in 1 .. Len(rest) PROVE rest[i] \in heap'
    <3>1. i + 1 \in 1 .. Len(list) /\ rest[i] = list[i + 1]
      BY <1>5
    <3>2. list[i + 1] \in heap
      BY <3>1 DEF ListInv, Allocated
    <3> QED
      BY <1>1, <2>2, <3>1, <3>2
  <2> QED
    BY <2>1, <2>2, <2>3, <2>4 DEF Allocated
<1>8. Producing(rest)'
  <2>1. rest # <<>> => rest[Len(rest)] = list[Len(list)]
    BY <1>5
  <2> QED
    BY <1>1, <1>2, <1>3, <2>1 DEF ListInv, Producing
<1>9. Consuming(rest)'
  BY <1>1, <1>2 DEF ListInv, Consuming
<1>10. ~misused'
  BY <1>1, <1>4 DEF IInv, Access
<1> QED
  BY <1>6, <1>7, <1>8, <1>9, <1>10 DEF ListInv

-----------------------------------------------------------------------------
(* All steps *)

LEMMA TypesKept ==
  ASSUME IInv, NEW list \in Seq(Nodes), ListInv(list), [Next]_vars
  PROVE  TypeOK'
<1> USE DEF TypeOK, Address, Goto, Access, queue, local, history
<1>0. TypeOK /\ OneOfEach /\ Threads = {p, c} /\ Null \notin Nodes
  BY TwoThreads, QueueAssumption DEF IInv
<1>1. CASE UNCHANGED vars
  BY <1>0, <1>1 DEF vars
<1>2. CASE NewNode(p)
  BY <1>0, <1>2, QueueAssumption DEF NewNode, Construct, Values
<1>3. CASE Enqueuing(p)
  <2>1. CASE LoadTail(p)
    BY <1>0, <2>1 DEF LoadTail
  <2>2. CASE Link(p)
    BY <1>0, <2>2 DEF Link
  <2>3. CASE LinkFails(p)
    <3>1. old[p] = list[Len(list)] /\ list[Len(list)] \in Nodes
      BY <1>0, <2>3, NotEmpty DEF LinkFails, ListInv, Producing
    <3>2. nullTail' \in Nodes \cup {Null} /\ fails' \in Nat /\ misused' \in BOOLEAN
      BY <1>0, <2>3, <3>1 DEF LinkFails
    <3>3. pc' = [pc EXCEPT ![p] = "loadTail"]
      BY <2>3 DEF LinkFails
    <3> QED
      BY <1>0, <2>3, <3>2, <3>3 DEF LinkFails
  <2>4. CASE SwingTail(p)
    <3>1. node[p] = list[Len(list)] /\ list[Len(list)] \in Nodes
      BY <1>0, <2>4, NotEmpty DEF SwingTail, ListInv, Producing
    <3> QED
      BY <1>0, <2>4, <3>1 DEF SwingTail, Exchanged
  <2> QED
    BY <1>3, <2>1, <2>2, <2>3, <2>4 DEF Enqueuing
<1>4. CASE Dequeuing(c)
  <2>1. CASE LoadHead(c)
    BY <1>0, <2>1 DEF LoadHead
  <2>2. CASE LoadFirst(c)
    <3>1. list # <<>> /\ old[c] = head
      BY <1>0, <2>2, NotEmpty DEF LoadFirst, ListInv, Consuming
    <3>2. old[c] \in Nodes
      BY <3>1, HeadIsAlive
    <3> QED
      BY <1>0, <2>2, <3>2 DEF LoadFirst
  <2>3. CASE Copy(c)
    <3>1. list # <<>> /\ Len(list) > 1 /\ node[c] = list[2]
      BY <1>0, <2>3, NotEmpty DEF Copy, ListInv, Consuming
    <3>2. node[c] \in Nodes
      BY <3>1, HeadIsAlive
    <3> QED
      BY <1>0, <2>3, <3>2 DEF Copy
  <2>4. CASE MoveHead(c)
    <3>1. head' \in Address
      BY <1>0, <2>4 DEF MoveHead, Exchanged
    <3>2. got' \in Seq(Nat)
      BY <1>0, <2>4 DEF MoveHead
    <3> QED
      BY <1>0, <2>4, <3>1, <3>2 DEF MoveHead
  <2>5. CASE Delete(c)
    BY <1>0, <2>5 DEF Delete, Deleted
  <2> QED
    BY <1>4, <2>1, <2>2, <2>3, <2>4, <2>5 DEF Dequeuing
<1>5. CASE Asking(c)
  <2>1. CASE EmptyLoadHead(c)
    BY <1>0, <2>1 DEF EmptyLoadHead
  <2>2. CASE EmptyLoadNext(c)
    <3>1. HasNext(old[c]) \in BOOLEAN
      BY DEF HasNext
    <3>2. sawItem' \in [Threads -> BOOLEAN]
      BY <1>0, <2>2, <3>1 DEF EmptyLoadNext
    <3> QED
      BY <1>0, <2>2, <3>2 DEF EmptyLoadNext
  <2> QED
    BY <1>5, <2>1, <2>2 DEF Asking
<1>6. CASE \E t \in Threads : Leave(t)
  BY <1>0, <1>6 DEF Leave
<1>7. CASE DeleteHead
  <2>1. list # <<>>
    BY <1>7 DEF DeleteHead, ListInv, Listed
  <2>2. head \in Nodes
    BY <2>1, HeadIsAlive
  <2> QED
    BY <1>0, <1>7, <2>2 DEF DeleteHead, Deleted
<1> QED
  BY <1>0, <1>1, <1>2, <1>3, <1>4, <1>5, <1>6, <1>7 DEF Next, OneOfEach

LEMMA StepList == IInv /\ [Next]_vars => IInv'
<1> SUFFICES ASSUME IInv, [Next]_vars PROVE IInv'
  OBVIOUS
<1>0. OneOfEach /\ OneOfEach'
  BY DEF OneOfEach, IInv
<1>1. PICK list \in Seq(Nodes) : ListInv(list)
  BY DEF IInv
<1>2. TypeOK'
  BY <1>1, TypesKept
<1> SUFFICES \E more \in Seq(Nodes) : ListInv(more)' /\ ~misused'
  BY <1>0, <1>2 DEF IInv
<1>3. CASE UNCHANGED vars
  BY <1>1, <1>3 DEF vars, queue, local, history, ListInv, Listed, Allocated, Producing,
                    Consuming, Fresh, Retired, Dying, IInv
<1>4. CASE NewNode(p) \/ Enqueuing(p)
  <2>1. CASE Link(p)
    <3>1. node[p] \in Nodes
      BY <1>1, <2>1 DEF Link, ListInv, Producing
    <3>2. Append(list, node[p]) \in Seq(Nodes)
      BY <3>1
    <3> QED
      BY <1>1, <2>1, <3>2, LinkKeeps
  <2>2. CASE NewNode(p) \/ LoadTail(p) \/ LinkFails(p) \/ SwingTail(p)
    BY <1>1, <2>2, NewNodeKeeps, LoadTailKeeps, LinkFailsKeeps, SwingTailKeeps
  <2> QED
    BY <1>4, <2>1, <2>2 DEF Enqueuing
<1>5. CASE Dequeuing(c) \/ Asking(c)
  <2>1. CASE MoveHead(c)
    <3>1. list # <<>>
      BY <1>0, <1>1, <2>1, TwoThreads, NotEmpty DEF MoveHead
    <3>2. Tail(list) \in Seq(Nodes)
      BY <3>1
    <3> QED
      BY <1>1, <2>1, <3>2, MoveHeadKeeps
  <2>2. CASE LoadHead(c) \/ EmptyLoadHead(c)
    BY <1>1, <2>2, LoadHeadKeeps
  <2>3. CASE LoadFirst(c) \/ Copy(c)
    BY <1>1, <2>3, LoadFirstKeeps, CopyKeeps
  <2>4. CASE Delete(c) \/ EmptyLoadNext(c)
    BY <1>1, <2>4, DeleteKeeps, EmptyLoadNextKeeps
  <2> QED
    BY <1>5, <2>1, <2>2, <2>3, <2>4 DEF Dequeuing, Asking
<1>6. CASE \E t \in Threads : Leave(t)
  BY <1>1, <1>6, LeaveKeeps
<1>7. CASE DeleteHead
  <2>1. list # <<>>
    BY <1>1, <1>7 DEF DeleteHead, ListInv, Listed
  <2>2. Tail(list) \in Seq(Nodes)
    BY <2>1
  <2> QED
    BY <1>1, <1>7, <2>2, DeleteHeadKeeps
<1> QED
  BY <1>0, <1>3, <1>4, <1>5, <1>6, <1>7 DEF Next, OneOfEach

LEMMA SeenItemStays ==
  IInv /\ [Next]_vars =>
    \A t \in Consumers : sawItem[t] /\ pc[t] = "loadFirst" => pc'[t] # "idle"
<1> SUFFICES ASSUME IInv, [Next]_vars, sawItem[c], pc[c] = "loadFirst"
             PROVE  pc'[c] # "idle"
  BY DEF IInv, OneOfEach
<1>1. PICK list \in Seq(Nodes) : ListInv(list)
  BY DEF IInv
<1>2. /\ Threads = {p, c} /\ p # c /\ OneOfEach
      /\ pc \in [Threads -> {pc[p], pc[c]}]
  BY TwoThreads DEF IInv, TypeOK
<1>3. Len(list) > 1 /\ list # <<>> /\ old[c] = head
  BY <1>1, <1>2, NotEmpty DEF ListInv, Consuming
<1>4. next[old[c]] # Null
  BY <1>1, <1>3, HeadIsAlive
<1>5. CASE LoadFirst(c)
  BY <1>2, <1>4, <1>5 DEF LoadFirst, Goto, IsFirst
<1>6. CASE NewNode(p) \/ Enqueuing(p) \/ \E t \in Threads : Leave(t)
  BY <1>2, <1>6 DEF NewNode, Enqueuing, LoadTail, Link, LinkFails, SwingTail, Leave, Goto
<1>7. CASE UNCHANGED vars \/ DeleteHead
  BY <1>7 DEF vars, DeleteHead
<1> QED
  BY <1>2, <1>5, <1>6, <1>7
     DEF Next, OneOfEach, Dequeuing, Asking, LoadHead, Copy, MoveHead, Delete,
         EmptyLoadHead, EmptyLoadNext

(* No thread touches a deleted node, although addresses are reused, and    *)
(* the destructor leaves no node behind.                                   *)
THEOREM NodesOutlive == OneOfEach /\ Spec => []NodesOutliveTheirUse
<1> QED
  BY StepList, InitList, ListSuffices, PTL DEF Spec

(* When empty() has said that there is a value, the next dequeue succeeds. *)
THEOREM NonEmptyUntilTaken == OneOfEach /\ Spec => NonEmptyStays
<1> QED
  BY StepList, InitList, SeenItemStays, PTL DEF Spec, NonEmptyStays

-----------------------------------------------------------------------------
(* A first-in first-out queue *)

LEMMA Least ==
  ASSUME NEW T \in SUBSET Nat, T # {}
  PROVE  \E x \in T : \A y \in T : x <= y
<1> DEFINE R == {ss \in Nat \X Nat : ss[1] < ss[2]}
<1>1. IsWellFoundedOn(R, Nat)
  BY NatLessThanWellFounded DEF OpToRel
<1> HIDE DEF R
<1>2. PICK x \in T : \A y \in T : ~ (<<y, x>> \in R)
  BY <1>1, WFMin
<1>3. \A y \in T : ~(y < x)
  BY <1>2 DEF R
<1> QED
  BY <1>3

(* What the consumer has copied is what the node behind the sentinel holds,*)
(* and the node that the producer has made holds a value.                  *)
ValueInv ==
  /\ pc[c] = "moveHead" => out[c] = value[node[c]]
  /\ pc[p] \in {"loadTail", "link"} => value[node[p]] \in Values

(* The values in the nodes of a list behind its first.                     *)
Contents(list) == [i \in 1 .. Len(list) - 1 |-> value[list[i + 1]]]

(* A list has no more nodes than there are addresses.                      *)
LEMMA ListFits ==
  ASSUME NEW list \in Seq(Nodes), Listed(list)
  PROVE  Len(list) \in Nat /\ Cardinality(Nodes) \in Nat /\ Len(list) <= Cardinality(Nodes)
<1>1. IsFiniteSet(Nodes)
  BY QueueAssumption
<1>2. Cardinality(Nodes) \in Nat
  BY <1>1, FS_CardinalityType
<1>3. Len(list) \in Nat /\ DOMAIN list = 1 .. Len(list) /\ list \in [1 .. Len(list) -> Nodes]
  OBVIOUS
<1>4. list \in Injection(1 .. Len(list), Nodes)
  BY <1>3 DEF Injection, IsInjective, Listed
<1>5. Cardinality(1 .. Len(list)) <= Cardinality(Nodes)
  BY <1>1, <1>4, FS_Injection
<1>6. Cardinality(1 .. Len(list)) = Len(list)
  <2>1. /\ 1 \in Int /\ Len(list) \in Int
        /\ (IF 1 > Len(list) THEN 0 ELSE Len(list) - 1 + 1) = Len(list)
    BY <1>3
  <2> QED
    BY <2>1, FS_Interval
<1> QED
  BY <1>2, <1>3, <1>5, <1>6

LEMMA NthIs ==
  ASSUME NEW list \in Seq(Nodes), Listed(list), NEW k \in 0 .. Cardinality(Nodes)
  PROVE  Nth[k] = IF k < Len(list) THEN list[k + 1] ELSE Null
<1> DEFINE m == Cardinality(Nodes)
           Eqn(f) == f = [i \in 0 .. m |->
                            IF i = 0 THEN head
                            ELSE IF f[i - 1] = Null THEN Null ELSE next[f[i - 1]]]
           g == [i \in 0 .. m |-> IF i < Len(list) THEN list[i + 1] ELSE Null]
           f == CHOOSE f : Eqn(f)
<1>1. Len(list) \in Nat /\ m \in Nat
  BY ListFits
<1>2. Nth = f
  BY DEF Nth
<1> HIDE DEF m, f
<1>3. ASSUME NEW i \in 0 .. m
      PROVE  g[i] = IF i = 0 THEN head
                    ELSE IF g[i - 1] = Null THEN Null ELSE next[g[i - 1]]
  <2>1. g[i] = IF i < Len(list) THEN list[i + 1] ELSE Null
    OBVIOUS
  <2>2. i # 0 => g[i - 1] = IF i - 1 < Len(list) THEN list[i] ELSE Null
    <3>1. i # 0 => i - 1 \in 0 .. m /\ (i - 1) + 1 = i
      BY <1>1
    <3> QED
      BY <3>1
  <2> HIDE DEF g
  <2>3. CASE i = 0
    <3>1. list # <<>> => 0 < Len(list)
      BY <1>1
    <3>2. list = <<>> => ~(0 < Len(list))
      OBVIOUS
    <3> QED
      BY <2>1, <2>3, <3>1, <3>2 DEF Listed
  <2>4. CASE i # 0 /\ i - 1 >= Len(list)
    BY <1>1, <2>1, <2>2, <2>4
  <2>5. CASE i # 0 /\ i = Len(list)
    <3>1. list # <<>> /\ i - 1 < Len(list) /\ ~(i < Len(list)) /\ i \in 1 .. Len(list)
      BY <1>1, <2>5
    <3>2. list[i] \in Nodes /\ list[i] # Null
      BY <3>1, QueueAssumption
    <3> QED
      BY <2>1, <2>2, <2>5, <3>1, <3>2 DEF Listed
  <2>6. CASE i # 0 /\ i < Len(list)
    <3>1. i - 1 < Len(list) /\ i \in 1 .. Len(list) - 1 /\ i \in 1 .. Len(list)
      BY <1>1, <2>6
    <3>2. list[i] \in Nodes /\ list[i] # Null
      BY <3>1, QueueAssumption
    <3> QED
      BY <2>1, <2>2, <2>6, <3>1, <3>2 DEF Listed
  <2> QED
    BY <1>1, <2>3, <2>4, <2>5, <2>6
<1>4. g = [i \in 0 .. m |-> g[i]]
  OBVIOUS
<1>x. k \in 0 .. m
  BY DEF m
<1>y. g[k] = IF k < Len(list) THEN list[k + 1] ELSE Null
  BY <1>x
<1> HIDE DEF g
<1>5. Eqn(g)
  BY <1>3, <1>4
<1>6. Eqn(f)
  <2> HIDE DEF Eqn
  <2> QED
    BY <1>5 DEF f
<1>7. ASSUME NEW i \in 0 .. m
      PROVE  f[i] = IF i = 0 THEN head
                    ELSE IF f[i - 1] = Null THEN Null ELSE next[f[i - 1]]
  BY <1>6
<1> HIDE DEF Eqn
<1> DEFINE Bad == {i \in Nat : i \in 0 .. m /\ f[i] # g[i]}
<1>8. Bad = {}
  <2> SUFFICES ASSUME Bad # {} PROVE FALSE
    OBVIOUS
  <2>1. PICK i \in Bad : \A j \in Bad : i <= j
    <3>1. Bad \in SUBSET Nat
      OBVIOUS
    <3> HIDE DEF Bad
    <3> QED
      BY <3>1, Least
  <2>2. i # 0
    BY <1>3, <1>7, <2>1
  <2>3. i - 1 \in 0 .. m /\ i - 1 \in Nat /\ i - 1 < i
    BY <1>1, <2>1, <2>2
  <2>4. f[i - 1] = g[i - 1]
    BY <2>1, <2>3
  <2> QED
    BY <1>3, <1>7, <2>1, <2>2, <2>4
<1>9. f[k] = g[k]
  BY <1>1, <1>8, <1>x
<1> QED
  BY <1>2, <1>9, <1>y

(* The values that the abstract queue sees are those of the list.          *)
LEMMA ItemsAre ==
  \A list \in Seq(Nodes) : Listed(list) => Items = Contents(list)
<1> SUFFICES ASSUME NEW list \in Seq(Nodes), Listed(list) PROVE Items = Contents(list)
  OBVIOUS
<1> DEFINE m == Cardinality(Nodes)
           len == Len(list) - 1
           listed == {k \in 1 .. m : Nth[k] # Null}
<1>1. Len(list) \in Nat /\ m \in Nat /\ Len(list) <= m
  BY ListFits
<1>2. \A k \in 1 .. m : Nth[k] = IF k < Len(list) THEN list[k + 1] ELSE Null
  <2>1. \A k \in 1 .. m : k \in 0 .. Cardinality(Nodes)
    BY <1>1
  <2> QED
    BY <2>1, NthIs
<1>3. \A k \in 1 .. m : k < Len(list) => list[k + 1] # Null
  <2>1. \A k \in 1 .. m : k < Len(list) => k + 1 \in 1 .. Len(list)
    BY <1>1
  <2>2. \A k \in 1 .. Len(list) : list[k] # Null
    BY QueueAssumption
  <2> QED
    BY <2>1, <2>2
<1> HIDE DEF m
<1>4. listed = 1 .. len
  <2>1. \A k \in 1 .. m : Nth[k] # Null <=> k < Len(list)
    BY <1>2, <1>3
  <2>2. \A k : k \in 1 .. len <=> k \in 1 .. m /\ k < Len(list)
    BY <1>1
  <2> QED
    BY <2>1, <2>2
<1>5. Cardinality(1 .. len) = IF 1 > len THEN 0 ELSE len - 1 + 1
  <2>1. 1 \in Int /\ len \in Int
    BY <1>1
  <2> HIDE DEF len
  <2> QED
    BY <2>1, FS_Interval
<1>6. 1 .. Cardinality(listed) = 1 .. len
  <2>1. Cardinality(listed) = IF 1 > len THEN 0 ELSE len
    <3>1. len \in Int
      BY <1>1
    <3> HIDE DEF len, listed
    <3> QED
      BY <1>4, <1>5, <3>1
  <2>2. len \in Int
    BY <1>1
  <2> HIDE DEF len, listed
  <2> QED
    BY <2>1, <2>2
<1>7. Items = [i \in 1 .. Cardinality(listed) |-> value[Nth[i]]]
  BY DEF Items, m
<1>8. \A i \in 1 .. len : Nth[i] = list[i + 1]
  <2>1. \A i \in 1 .. len : i \in 1 .. m /\ i < Len(list)
    BY <1>1
  <2> QED
    BY <1>2, <2>1
<1> HIDE DEF listed
<1>9. Items = [i \in 1 .. len |-> value[list[i + 1]]]
  BY <1>6, <1>7, <1>8
<1> QED
  BY <1>9 DEF Contents

LEMMA ItemsAreStill ==
  (\A list \in Seq(Nodes) : Listed(list) => Items = Contents(list))'
BY ItemsAre, PTL

LEMMA ValueStep == IInv /\ ValueInv /\ [Next]_vars => ValueInv'
<1> SUFFICES ASSUME IInv, ValueInv, [Next]_vars PROVE ValueInv'
  OBVIOUS
<1>1. PICK list \in Seq(Nodes) : ListInv(list)
  BY DEF IInv
<1>2. /\ Threads = {p, c} /\ p # c /\ OneOfEach
      /\ pc \in [Threads -> {pc[p], pc[c]}]
      /\ node \in [Threads -> Address] /\ out \in [Threads -> Nat]
      /\ value \in [Nodes -> Nat] /\ sent \in Seq(Values)
  BY TwoThreads DEF IInv, TypeOK
<1>3. CASE UNCHANGED vars
  BY <1>3 DEF vars, queue, local, ValueInv
<1>4. CASE NewNode(p)
  <2>1. PICK n \in Nodes \ heap :
          /\ Construct(n, Len(sent) + 1) /\ node' = [node EXCEPT ![p] = n]
          /\ pc' = [pc EXCEPT ![p] = "loadTail"] /\ out' = out /\ Len(sent) < MaxValue
    BY <1>4 DEF NewNode, Goto
  <2>2. Len(sent) + 1 \in Values
    <3>1. Len(sent) \in Nat /\ MaxValue \in Nat
      BY <1>2, QueueAssumption
    <3> QED
      BY <2>1, <3>1 DEF Values
  <2>3. value'[n] = Len(sent) + 1 /\ \A x \in Nodes : x # n => value'[x] = value[x]
    BY <1>2, <2>1 DEF Construct
  <2>4. node'[p] = n /\ node'[c] = node[c] /\ pc'[c] = pc[c]
    BY <1>2, <2>1
  <2>5. pc[c] = "moveHead" => node[c] \in Nodes /\ node[c] # n
    <3> SUFFICES ASSUME pc[c] = "moveHead" PROVE node[c] \in heap
      BY <2>1 DEF IInv, TypeOK
    <3>1. list # <<>> /\ Len(list) > 1 /\ node[c] = list[2]
      BY <1>1, <1>2, NotEmpty DEF ListInv, Consuming
    <3> QED
      BY <1>1, <3>1, HeadIsAlive
  <2> QED
    BY <2>1, <2>2, <2>3, <2>4, <2>5 DEF ValueInv
<1>5. CASE Enqueuing(p)
  BY <1>2, <1>5 DEF Enqueuing, LoadTail, Link, LinkFails, SwingTail, Goto, queue, local, ValueInv
<1>6. CASE Copy(c)
  BY <1>2, <1>6 DEF Copy, Goto, queue, ValueInv
<1>7. CASE LoadHead(c) \/ LoadFirst(c) \/ MoveHead(c) \/ Delete(c) \/ Asking(c)
  <2>1. pc'[c] # "moveHead" /\ pc'[p] = pc[p] /\ node'[p] = node[p] /\ value' = value
    BY <1>2, <1>7 DEF LoadHead, LoadFirst, MoveHead, Delete, Asking, EmptyLoadHead,
                      EmptyLoadNext, Goto, queue, local
  <2> QED
    BY <2>1 DEF ValueInv
<1>8. CASE (\E t \in Threads : Leave(t)) \/ DeleteHead
  BY <1>2, <1>8 DEF Leave, DeleteHead, Goto, queue, local, ValueInv
<1> QED
  BY <1>2, <1>3, <1>4, <1>5, <1>6, <1>7, <1>8 DEF Next, OneOfEach, Dequeuing

(* A list and the values of its nodes stay, nothing is taken and the       *)
(* destructor does not begin: the abstract queue takes no step.            *)
LEMMA SameItems ==
  ASSUME NEW list \in Seq(Nodes), Listed(list), Listed(list)',
         \A i \in 1 .. Len(list) : value'[list[i]] = value[list[i]],
         got' = got, Dying' <=> Dying
  PROVE  UNCHANGED Abstract!vars
<1>1. Items = Contents(list) /\ Items' = Contents(list)'
  BY ItemsAre, ItemsAreStill
<1>2. Contents(list)' = Contents(list)
  <2>1. \A i \in 1 .. Len(list) - 1 : i + 1 \in 1 .. Len(list)
    OBVIOUS
  <2> QED
    BY <2>1 DEF Contents
<1> QED
  BY <1>1, <1>2 DEF Abstract!vars

LEMMA LinkPuts ==
  ASSUME IInv, ValueInv, NEW list \in Seq(Nodes), ListInv(list), Link(p)
  PROVE  Abstract!Put
<1>1. /\ pc[p] = "link" /\ value' = value /\ got' = got
      /\ pc' = [pc EXCEPT ![p] = "swing"]
  BY DEF Link, Goto
<1>2. Threads = {p, c} /\ p # c /\ pc \in [Threads -> {pc[p], pc[c]}]
  BY TwoThreads DEF IInv, TypeOK
<1>3. list # <<>> /\ Len(list) \in Nat \ {0}
  BY <1>1, <1>2, NotEmpty
<1>4. node[p] \in Nodes /\ value[node[p]] \in Values
  BY <1>1 DEF ListInv, Producing, ValueInv
<1>5. PICK more : more = Append(list, node[p])
  OBVIOUS
<1>6. /\ more \in Seq(Nodes) /\ Len(more) = Len(list) + 1 /\ more[Len(more)] = node[p]
      /\ \A i \in 1 .. Len(list) : more[i] = list[i]
  BY <1>3, <1>4, <1>5
<1>7. ListInv(more)'
  BY <1>5, <1>6, LinkKeeps
<1>8. Items = Contents(list) /\ Items' = Contents(more)'
  BY <1>6, <1>7, ItemsAre, ItemsAreStill DEF ListInv
<1> DEFINE x == value[node[p]]
<1>9. Contents(more)' = Append(Contents(list), x)
  <2>1. Contents(more)' = [i \in 1 .. Len(list) |-> value[more[i + 1]]]
    BY <1>1, <1>3, <1>6 DEF Contents
  <2>2. Contents(list) \in Seq(Nat) /\ Len(Contents(list)) = Len(list) - 1
    <3>1. Len(list) - 1 \in Nat
      BY <1>3
    <3>2. \A i \in 1 .. Len(list) - 1 : value[list[i + 1]] \in Nat
      <4>1. \A i \in 1 .. Len(list) - 1 : i + 1 \in 1 .. Len(list)
        BY <1>3
      <4> QED
        BY <4>1 DEF IInv, TypeOK
    <3> QED
      BY <3>1, <3>2 DEF Contents
  <2>3. Append(Contents(list), x)
          = [i \in 1 .. Len(list) |-> IF i = Len(list) THEN x ELSE Contents(list)[i]]
    <3>1. PICK s : s = Contents(list)
      OBVIOUS
    <3>2. s \in Seq(Nat) /\ Len(s) = Len(list) - 1 /\ x \in Nat
      BY <1>4, <2>2, <3>1 DEF IInv, TypeOK
    <3> HIDE DEF x
    <3>3. PICK q : q = Append(s, x)
      OBVIOUS
    <3>4. /\ q \in Seq(Nat) /\ Len(q) = Len(s) + 1 /\ q[Len(s) + 1] = x
          /\ \A i \in 1 .. Len(s) : q[i] = s[i]
      BY <3>2, <3>3, AppendProperties
    <3>5. Len(s) + 1 = Len(list) /\ Len(s) \in Nat
      BY <1>3, <3>2
    <3>6. q = [i \in 1 .. Len(list) |-> q[i]]
      BY <3>4, <3>5
    <3>7. ASSUME NEW i \in 1 .. Len(list) PROVE q[i] = IF i = Len(list) THEN x ELSE s[i]
      <4>1. i = Len(s) + 1 \/ i \in 1 .. Len(s)
        BY <3>5
      <4>2. i # Len(list) => i \in 1 .. Len(s)
        BY <3>5, <4>1
      <4> QED
        BY <3>4, <3>5, <4>2
    <3> QED
      BY <3>1, <3>3, <3>6, <3>7
  <2>4. ASSUME NEW i \in 1 .. Len(list)
        PROVE  value[more[i + 1]] = IF i = Len(list) THEN x ELSE Contents(list)[i]
    <3>1. CASE i = Len(list)
      BY <1>6, <3>1
    <3>2. CASE i # Len(list)
      <4>1. i \in 1 .. Len(list) - 1 /\ i + 1 \in 1 .. Len(list)
        BY <1>3, <3>2
      <4> QED
        BY <1>6, <3>2, <4>1 DEF Contents
    <3> QED
      BY <3>1, <3>2
  <2> HIDE DEF x
  <2> QED
    BY <2>1, <2>3, <2>4
<1>10. ~Dying /\ ~Dying'
  BY <1>1, <1>2 DEF Dying
<1> QED
  BY <1>1, <1>4, <1>8, <1>9, <1>10 DEF Abstract!Put

(* The values behind the first node but one                                *)
LEMMA RestOfContents ==
  ASSUME TypeOK, NEW list \in Seq(Nodes), Len(list) > 1
  PROVE  /\ Tail(list) \in Seq(Nodes) /\ Contents(Tail(list)) = Tail(Contents(list))
         /\ Contents(list) # <<>> /\ Head(Contents(list)) = value[list[2]]
<1>1. list # <<>>
  OBVIOUS
<1>2. /\ Tail(list) \in Seq(Nodes)
      /\ Len(list) \in Nat \ {0} /\ Len(Tail(list)) = Len(list) - 1
      /\ \A i \in 1 .. Len(list) - 1 : Tail(list)[i] = list[i + 1]
  BY <1>1, TailIsShifted
<1>3. Contents(list) \in Seq(Nat) /\ Len(Contents(list)) = Len(list) - 1
  <2>1. Len(list) - 1 \in Nat
    BY <1>2
  <2>2. \A i \in 1 .. Len(list) - 1 : value[list[i + 1]] \in Nat
    <3>1. \A i \in 1 .. Len(list) - 1 : i + 1 \in 1 .. Len(list)
      BY <1>2
    <3> QED
      BY <3>1 DEF TypeOK
  <2> QED
    BY <2>1, <2>2 DEF Contents
<1>4. \A i \in 1 .. Len(list) - 1 : Contents(list)[i] = value[list[i + 1]]
  BY DEF Contents
<1>5. 1 \in 1 .. Len(list) - 1 /\ 1 + 1 = 2
  BY <1>2
<1>6. Contents(list) # <<>> /\ Head(Contents(list)) = value[list[2]]
  BY <1>3, <1>4, <1>5
<1>7. Tail(Contents(list)) = [i \in 1 .. Len(list) - 2 |-> Contents(list)[i + 1]]
  <2>1. (Len(list) - 1) - 1 = Len(list) - 2
    BY <1>2
  <2>2. PICK s : s = Contents(list)
    OBVIOUS
  <2>3. s \in Seq(Nat) /\ s # <<>> /\ Len(s) - 1 = Len(list) - 2
    BY <1>3, <1>6, <2>1, <2>2
  <2>4. PICK q : q = Tail(s)
    OBVIOUS
  <2>5. q \in Seq(Nat) /\ Len(q) = Len(s) - 1 /\ \A i \in 1 .. Len(q) : q[i] = s[i + 1]
    BY <2>3, <2>4, HeadTailProperties
  <2>6. q = [i \in 1 .. Len(q) |-> q[i]]
    BY <2>5
  <2>7. q = [i \in 1 .. Len(q) |-> s[i + 1]]
    BY <2>5, <2>6
  <2> QED
    BY <2>2, <2>3, <2>4, <2>5, <2>7
<1>8. Contents(Tail(list)) = [i \in 1 .. Len(list) - 2 |-> value[Tail(list)[i + 1]]]
  <2>1. Len(Tail(list)) - 1 = Len(list) - 2
    BY <1>2
  <2> QED
    BY <2>1 DEF Contents
<1>9. \A i \in 1 .. Len(list) - 2 : Contents(list)[i + 1] = value[Tail(list)[i + 1]]
  <2>1. \A i \in 1 .. Len(list) - 2 : i + 1 \in 1 .. Len(list) - 1
    BY <1>2
  <2> QED
    BY <1>2, <1>4, <2>1
<1> QED
  BY <1>2, <1>6, <1>7, <1>8, <1>9

LEMMA MoveHeadTakes ==
  ASSUME IInv, ValueInv, NEW list \in Seq(Nodes), ListInv(list), MoveHead(c)
  PROVE  Abstract!Take
<1>1. /\ pc[c] = "moveHead" /\ value' = value /\ got' = Append(got, out[c])
      /\ pc' = [pc EXCEPT ![c] = "delete"]
  BY DEF MoveHead, Goto
<1>2. Threads = {p, c} /\ p # c /\ pc \in [Threads -> {pc[p], pc[c]}] /\ TypeOK
  BY TwoThreads DEF IInv, TypeOK
<1>3. Len(list) > 1 /\ node[c] = list[2]
  BY <1>1 DEF ListInv, Consuming
<1>4. PICK rest : rest = Tail(list)
  OBVIOUS
<1>5. /\ rest \in Seq(Nodes) /\ Contents(rest) = Tail(Contents(list))
      /\ Contents(list) # <<>> /\ Head(Contents(list)) = value[list[2]]
  BY <1>2, <1>3, <1>4, RestOfContents
<1>6. ListInv(rest)'
  BY <1>4, <1>5, MoveHeadKeeps
<1>7. Items = Contents(list) /\ Items' = Contents(rest)'
  BY <1>5, <1>6, ItemsAre, ItemsAreStill DEF ListInv
<1>8. Contents(rest)' = Contents(rest)
  BY <1>1 DEF Contents
<1>9. out[c] = Head(Items)
  BY <1>1, <1>3, <1>5, <1>7 DEF ValueInv
<1>10. ~Dying /\ ~Dying'
  BY <1>1, <1>2 DEF Dying
<1> QED
  BY <1>1, <1>5, <1>7, <1>8, <1>9, <1>10 DEF Abstract!Take

LEMMA DeleteHeadDrops ==
  ASSUME IInv, NEW list \in Seq(Nodes), ListInv(list), DeleteHead
  PROVE  Abstract!Drop \/ UNCHANGED Abstract!vars
<1>1. Dying /\ Dying' /\ head # Null /\ value' = value /\ got' = got
  BY DEF DeleteHead, Dying
<1>2. list # <<>> /\ Len(list) \in Nat \ {0} /\ TypeOK
  BY <1>1 DEF ListInv, Listed, IInv
<1>3. PICK rest : rest = Tail(list)
  OBVIOUS
<1>4. rest \in Seq(Nodes) /\ Len(rest) = Len(list) - 1
  BY <1>2, <1>3, TailIsShifted
<1>5. ListInv(rest)'
  BY <1>3, <1>4, DeleteHeadKeeps
<1>6. Items = Contents(list) /\ Items' = Contents(rest)'
  BY <1>4, <1>5, ItemsAre, ItemsAreStill DEF ListInv
<1>7. Contents(rest)' = Contents(rest)
  BY <1>1 DEF Contents
<1>8. CASE Len(list) > 1
  <2>1. Contents(rest) = Tail(Contents(list)) /\ Contents(list) # <<>>
    BY <1>2, <1>3, <1>8, RestOfContents
  <2> QED
    BY <1>1, <1>6, <1>7, <2>1 DEF Abstract!Drop
<1>9. CASE Len(list) = 1
  <2>1. 1 .. Len(list) - 1 = {} /\ 1 .. Len(rest) - 1 = {}
    BY <1>4, <1>9
  <2>2. Contents(list) = Contents(rest)
    BY <2>1 DEF Contents
  <2> QED
    BY <1>1, <1>6, <1>7, <2>2 DEF Abstract!vars
<1>10. Len(list) = 1 \/ Len(list) > 1
  <2>1. Len(list) \in Nat /\ Len(list) # 0
    BY <1>2
  <2> QED
    BY ONLY <2>1
<1> QED
  BY <1>8, <1>9, <1>10

LEMMA StepServes == IInv /\ ValueInv /\ [Next]_vars => [Abstract!Next]_(Abstract!vars)
<1> SUFFICES ASSUME IInv, ValueInv, [Next]_vars
             PROVE  Abstract!Next \/ UNCHANGED Abstract!vars
  OBVIOUS
<1>1. PICK list \in Seq(Nodes) : ListInv(list)
  BY DEF IInv
<1>2. /\ Threads = {p, c} /\ p # c /\ OneOfEach
      /\ pc \in [Threads -> {pc[p], pc[c]}]
  BY TwoThreads DEF IInv, TypeOK
<1>3. CASE UNCHANGED vars
  <2>1. Listed(list)' /\ (Dying' <=> Dying) /\ value' = value /\ got' = got
    BY <1>1, <1>3 DEF ListInv, Listed, Dying, vars, queue, history
  <2> QED
    BY <1>1, <2>1, SameItems DEF ListInv
<1>4. CASE NewNode(p)
  <2>1. Listed(list)'
    BY <1>1, <1>4, NewNodeKeeps DEF ListInv
  <2>2. PICK n \in Nodes \ heap : value' = [value EXCEPT ![n] = Len(sent) + 1]
    BY <1>4 DEF NewNode, Construct
  <2>3. \A i \in 1 .. Len(list) : list[i] \in Nodes /\ list[i] # n
    BY <1>1, <2>2 DEF ListInv, Allocated
  <2>4. \A i \in 1 .. Len(list) : value'[list[i]] = value[list[i]]
    BY <2>2, <2>3 DEF IInv, TypeOK
  <2>5. ~Dying /\ ~Dying' /\ got' = got
    BY <1>2, <1>4 DEF NewNode, Goto, Dying
  <2> QED
    BY <1>1, <2>1, <2>4, <2>5, SameItems DEF ListInv
<1>5. CASE \/ LoadTail(p) \/ LinkFails(p) \/ SwingTail(p)
           \/ LoadHead(c) \/ LoadFirst(c) \/ Copy(c) \/ Delete(c) \/ Asking(c)
  <2>1. ListInv(list)'
    BY <1>1, <1>5, LoadTailKeeps, LinkFailsKeeps, SwingTailKeeps, LoadHeadKeeps,
       LoadFirstKeeps, CopyKeeps, DeleteKeeps, EmptyLoadNextKeeps DEF Asking
  <2>2. value' = value /\ got' = got
    BY <1>5 DEF LoadTail, LinkFails, SwingTail, LoadHead, LoadFirst, Copy, Delete, Asking,
                EmptyLoadHead, EmptyLoadNext, queue, history
  <2>3. ~Dying /\ ~Dying'
    BY <1>2, <1>5 DEF LoadTail, LinkFails, SwingTail, LoadHead, LoadFirst, Copy, Delete,
                      Asking, EmptyLoadHead, EmptyLoadNext, Goto, Dying, IsFirst
  <2> QED
    BY <1>1, <2>1, <2>2, <2>3, SameItems DEF ListInv
<1>6. CASE \E t \in Threads : Leave(t)
  <2>1. PICK t \in Threads : Leave(t)
    BY <1>6
  <2>2. Listed(list)' /\ value' = value /\ got' = got
    BY <1>1, <2>1, LeaveKeeps DEF ListInv, Leave, queue, history
  <2>3. ~Dying
    BY <2>1 DEF Leave, Dying
  <2>4. CASE ~Dying'
    BY <1>1, <2>2, <2>3, <2>4, SameItems DEF ListInv
  <2>5. CASE Dying'
    <3>1. Items = Contents(list) /\ Items' = Contents(list)'
      BY <1>1, <2>2, ItemsAre, ItemsAreStill DEF ListInv
    <3>2. Contents(list)' = Contents(list)
      BY <2>2 DEF Contents
    <3> QED
      BY <2>2, <2>3, <2>5, <3>1, <3>2 DEF Abstract!Next, Abstract!Close
  <2> QED
    BY <2>4, <2>5
<1>7. CASE Link(p)
  BY <1>1, <1>7, LinkPuts DEF Abstract!Next
<1>8. CASE MoveHead(c)
  BY <1>1, <1>8, MoveHeadTakes DEF Abstract!Next
<1>9. CASE DeleteHead
  BY <1>1, <1>9, DeleteHeadDrops DEF Abstract!Next
<1> QED
  BY <1>2, <1>3, <1>4, <1>5, <1>6, <1>7, <1>8, <1>9
     DEF Next, OneOfEach, Enqueuing, Dequeuing

LEMMA InitIsEmpty == OneOfEach /\ Init => ValueInv /\ Abstract!Init
<1> SUFFICES ASSUME OneOfEach, Init PROVE ValueInv /\ Abstract!Init
  OBVIOUS
<1>1. PICK s \in Nodes : head = s
  BY DEF Init
<1>2. pc[p] = "idle" /\ pc[c] = "idle" /\ got = <<>> /\ ~Dying
  BY TwoThreads DEF Init, Dying
<1>3. <<s>> \in Seq(Nodes) /\ Len(<<s>>) = 1 /\ <<s>>[1] = s /\ <<s>> # <<>>
  OBVIOUS
<1>4. Listed(<<s>>)
  BY <1>1, <1>3 DEF Listed, Init
<1>5. Contents(<<s>>) = <<>>
  BY <1>3 DEF Contents
<1> QED
  BY <1>2, <1>3, <1>4, <1>5, ItemsAre DEF ValueInv, Abstract!Init

(* The queue is first-in first-out: enqueue puts its value when it links   *)
(* the node, dequeue takes the oldest when it moves head_, although the    *)
(* nodes' addresses are reused, and the destructor drops the rest.         *)
THEOREM QueueIsFifo == OneOfEach /\ Spec => ImplementsFifo
<1> QED
  BY StepList, InitList, ValueStep, InitIsEmpty, StepServes, PTL
     DEF Spec, ImplementsFifo, Abstract!Spec
=============================================================================
