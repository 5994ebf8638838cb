--------------------------- MODULE LockFreeQueue ---------------------------
(***************************************************************************)
(* The linked queue of example-lfq: a sentinel followed by the nodes of    *)
(* the values, head_ and tail_ atomic; dequeue moves head_ on and deletes  *)
(* the old sentinel.  An action is one access to shared memory, or several *)
(* of which one thread alone can see the rest.  All accesses are           *)
(* sequentially consistent but the linking compare-exchange, a release     *)
(* that the loads of next_ acquire, so interleaving is all threads see.    *)
(*                                                                         *)
(* Nodes are addresses: the heap may hand a deleted node out again, and    *)
(* with several producers a thread may hold an address across that.        *)
(***************************************************************************)
EXTENDS Integers, Sequences, FiniteSets, SequencesExt

CONSTANTS Producers,  \* threads that call enqueue
          Consumers,  \* threads that call dequeue and empty
          Nodes,      \* bound: the addresses new can return
          Null,       \* nullptr
          MaxValue,   \* bound: the values 1 .. MaxValue are enqueued
          MaxFails    \* bound: spurious failures of compare_exchange_weak

ASSUME QueueAssumption ==
  /\ Producers \cap Consumers = {}
  /\ Null \notin Nodes /\ IsFiniteSet(Nodes)
  /\ MaxValue \in Nat /\ MaxFails \in Nat

Threads == Producers \cup Consumers
Values  == 1 .. MaxValue

VARIABLES
  head,      \* head_
  tail,      \* tail_
  next,      \* Node::next_ at each address
  value,     \* Node::value_ at each address
  heap,      \* the addresses of live nodes
  nullTail,  \* null_tail: static, one for all calls of enqueue
  pc,        \* where each thread is
  node,      \* new_node or first_node of each thread
  old,       \* old_tail or old_head of each thread
  out,       \* out of each thread
  sent,      \* history: the values in the order enqueue was called
  got,       \* history: the values in the order dequeue took them
  sawItem,   \* history: empty() returned false, no dequeue since
  misused,   \* history: a deleted node was read, written or deleted
  fails      \* counter for the bound

queue   == <<head, tail, next, value, heap, nullTail>>
local   == <<node, old, out>>
history == <<sent, got, sawItem, misused>>
vars    == <<queue, pc, local, history, fails>>

Init ==
  /\ \E s \in Nodes : head = s /\ tail = s /\ heap = {s}
  /\ next = [n \in Nodes |-> Null]
  /\ value = [n \in Nodes |-> 0]
  /\ nullTail = Null
  /\ pc = [t \in Threads |-> "idle"]
  /\ node = [t \in Threads |-> Null]
  /\ old = [t \in Threads |-> Null]
  /\ out = [t \in Threads |-> 0]
  /\ sent = <<>> /\ got = <<>> /\ misused = FALSE /\ fails = 0
  /\ sawItem = [t \in Threads |-> FALSE]

Goto(t, l) == pc' = [pc EXCEPT ![t] = l]

\* Thread code reads, writes or deletes the node at address n.
Access(n) == misused' = (misused \/ n \notin heap)

\* new Node(v) at address n, and delete of the one there
Construct_NextNotReset(n, v) ==
  /\ next' = [next EXCEPT ![n] = IF value[n] = 0 THEN Null ELSE @]
  /\ value' = [value EXCEPT ![n] = v]

Construct(n, v) ==
  /\ next' = [next EXCEPT ![n] = Null]
  /\ value' = [value EXCEPT ![n] = v]

Deleted(n) == heap \ {n}

\* compare_exchange_strong on head_ or tail_ leaves this there; the queue
\* ignores whether it succeeded.
Exchanged_NoExchange(cell, expected, desired) == cell

Exchanged(cell, expected, desired) ==
  IF cell = expected THEN desired ELSE cell

-----------------------------------------------------------------------------
(* enqueue *)

NewNode(t) ==
  /\ pc[t] = "idle" /\ Len(sent) < MaxValue
  /\ \E n \in Nodes \ heap :
       /\ heap' = heap \cup {n}
       /\ Construct(n, Len(sent) + 1)
       /\ node' = [node EXCEPT ![t] = n]
  /\ sent' = Append(sent, Len(sent) + 1)
  /\ Goto(t, "loadTail")
  /\ UNCHANGED <<head, tail, nullTail, old, out, got, sawItem, misused, fails>>

LoadTail(t) ==
  /\ pc[t] = "loadTail"
  /\ old' = [old EXCEPT ![t] = tail]
  /\ Goto(t, "link")
  /\ UNCHANGED <<queue, node, out, history, fails>>

\* compare_exchange_weak(null_tail, new_node) succeeds ...
Link(t) ==
  /\ pc[t] = "link" /\ next[old[t]] = nullTail
  /\ next' = [next EXCEPT ![old[t]] = node[t]]
  /\ Access(old[t])
  /\ Goto(t, "swing")
  /\ UNCHANGED <<head, tail, value, heap, nullTail, local, sent, got, sawItem,
                 fails>>

\* ... or fails, maybe spuriously, and overwrites null_tail.
LinkFails(t) ==
  /\ pc[t] = "link"
  /\ IF next[old[t]] # nullTail THEN UNCHANGED fails
     ELSE fails < MaxFails /\ fails' = fails + 1
  /\ nullTail' = next[old[t]]
  /\ Access(old[t])
  /\ Goto(t, "loadTail")
  /\ UNCHANGED <<head, tail, next, value, heap, local, sent, got, sawItem>>

SwingTail(t) ==
  /\ pc[t] = "swing"
  /\ tail' = Exchanged(tail, old[t], node[t])
  /\ Goto(t, "idle")
  /\ UNCHANGED <<head, next, value, heap, nullTail, local, history, fails>>

-----------------------------------------------------------------------------
(* dequeue *)

LoadHead(t) ==
  /\ pc[t] = "idle"
  /\ old' = [old EXCEPT ![t] = head]
  /\ Goto(t, "loadFirst")
  /\ UNCHANGED <<queue, node, out, history, fails>>

\* dequeue goes on when it has loaded this as first_node.
IsFirst_NotTheTail(n) == n \notin {Null, tail}
IsFirst(n) == n # Null

LoadFirst(t) ==
  /\ pc[t] = "loadFirst"
  /\ node' = [node EXCEPT ![t] = next[old[t]]]
  /\ Access(old[t])
  /\ Goto(t, IF IsFirst(next[old[t]]) THEN "copy" ELSE "idle")
  /\ UNCHANGED <<queue, old, out, sent, got, sawItem, fails>>

Copy(t) ==
  /\ pc[t] = "copy"
  /\ out' = [out EXCEPT ![t] = value[node[t]]]
  /\ Access(node[t])
  /\ Goto(t, "moveHead")
  /\ UNCHANGED <<queue, node, old, sent, got, sawItem, fails>>

MoveHead(t) ==
  /\ pc[t] = "moveHead"
  /\ head' = Exchanged(head, old[t], node[t])
  /\ got' = Append(got, out[t])
  /\ sawItem' = [sawItem EXCEPT ![t] = FALSE]
  /\ Goto(t, "delete")
  /\ UNCHANGED <<tail, next, value, heap, nullTail, local, sent, misused, fails>>

Delete(t) ==
  /\ pc[t] = "delete"
  /\ heap' = Deleted(old[t])
  /\ Access(old[t])
  /\ Goto(t, "idle")
  /\ UNCHANGED <<head, tail, next, value, nullTail, local, sent, got, sawItem,
                 fails>>

-----------------------------------------------------------------------------
(* empty *)

EmptyLoadHead(t) ==
  /\ pc[t] = "idle"
  /\ old' = [old EXCEPT ![t] = head]
  /\ Goto(t, "emptyNext")
  /\ UNCHANGED <<queue, node, out, history, fails>>

HasNext_ComparesTail(n) == n # tail
HasNext(n) == next[n] # Null

EmptyLoadNext(t) ==
  /\ pc[t] = "emptyNext"
  /\ sawItem' = [sawItem EXCEPT ![t] = HasNext(old[t])]
  /\ Access(old[t])
  /\ Goto(t, "idle")
  /\ UNCHANGED <<queue, local, sent, got, fails>>

-----------------------------------------------------------------------------
(* The destructor, once every thread is done with the queue *)

Dying == \A t \in Threads : pc[t] = "gone"

Leave(t) ==
  /\ pc[t] = "idle"
  /\ Goto(t, "gone")
  /\ UNCHANGED <<queue, local, history, fails>>

\* One turn of its loop.
DeleteHead ==
  /\ Dying /\ head # Null
  /\ head' = next[head]
  /\ heap' = Deleted(head)
  /\ Access(head)
  /\ UNCHANGED <<tail, next, value, nullTail, pc, local, sent, got, sawItem,
                 fails>>

-----------------------------------------------------------------------------
\* The steps that enqueue takes by itself, and those of a consumer that calls
\* dequeue until it has a value, as the test does.
Enqueuing(t) == LoadTail(t) \/ Link(t) \/ LinkFails(t) \/ SwingTail(t)
Dequeuing(t) == LoadHead(t) \/ LoadFirst(t) \/ Copy(t) \/ MoveHead(t) \/ Delete(t)
Asking(t)    == EmptyLoadHead(t) \/ EmptyLoadNext(t)

Next ==
  \/ \E t \in Producers : NewNode(t) \/ Enqueuing(t)
  \/ \E t \in Consumers : Dequeuing(t) \/ Asking(t)
  \/ \E t \in Threads : Leave(t)
  \/ DeleteHead

Spec == Init /\ [][Next]_vars

\* Threads keep running, and a consumer that has not left calls dequeue again
\* and again, as the test's does, whatever it asks in between.
FairSpec ==
  /\ Spec
  /\ \A t \in Producers : WF_vars(Enqueuing(t))
  /\ \A t \in Consumers : WF_vars(Dequeuing(t) \/ Asking(t)) /\ SF_vars(LoadHead(t))

-----------------------------------------------------------------------------
(* Properties: for one producer and one consumer, as in the test *)

Address == Nodes \cup {Null}

TypeOK ==
  /\ head \in Address /\ tail \in Nodes /\ heap \subseteq Nodes
  /\ next \in [Nodes -> Address] /\ nullTail \in Address
  /\ value \in [Nodes -> Nat] /\ out \in [Threads -> Nat]
  /\ pc \in [Threads -> {"idle", "loadTail", "link", "swing", "loadFirst",
                         "copy", "moveHead", "delete", "emptyNext", "gone"}]
  /\ node \in [Threads -> Address] /\ old \in [Threads -> Address]
  /\ sent \in Seq(Values) /\ got \in Seq(Nat)
  /\ sawItem \in [Threads -> BOOLEAN] /\ misused \in BOOLEAN /\ fails \in Nat

\* No thread touches a node that the consumer has deleted, although the
\* producer may hold its address and the heap may have handed it out again; and
\* every node is deleted, while the queue lives by dequeue, the rest by its
\* destructor.
NodesOutliveTheirUse == ~misused /\ (Dying /\ head = Null => heap = {})

\* What empty() told a consumer stays true: if it said there is a value, the
\* consumer's next dequeue does not fail.
NonEmptyStays ==
  [][\A t \in Consumers :
        sawItem[t] /\ pc[t] = "loadFirst" => pc'[t] # "idle"]_vars

\* Refinement: the values of the nodes behind the sentinel.
Nth[k \in 0 .. Cardinality(Nodes)] ==
  IF k = 0 THEN head ELSE IF Nth[k - 1] = Null THEN Null ELSE next[Nth[k - 1]]

Items == LET listed == {k \in 1 .. Cardinality(Nodes) : Nth[k] # Null}
         IN  [i \in 1 .. Cardinality(listed) |-> value[Nth[i]]]

Abstract == INSTANCE FifoQueue WITH items <- Items, taken <- got,
                                    open <- ~Dying

\* The queue is first-in first-out and each operation takes effect at one
\* instant: enqueue when it links the node, dequeue when it moves head_.
ImplementsFifo == Abstract!Spec

\* Every value that is enqueued reaches a consumer, unless they leave.
EveryValueArrives ==
  \A v \in Values :
    v \in Range(sent) ~> v \in Range(got) \/ \A t \in Consumers : pc[t] = "gone"
=============================================================================
