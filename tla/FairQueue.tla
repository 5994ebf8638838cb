----------------------------- MODULE FairQueue -----------------------------
(***************************************************************************)
(* RequestFairQueue of example-fq: one queue of requests per client that   *)
(* has any, and a queue of these queues that Pop takes in turn.            *)
(*                                                                         *)
(* Both Pops read an element of a deque through a reference after they     *)
(* have popped it.  Where this code builds (xassert.h needs __APPLE__, so  *)
(* libc++), pop_front leaves the memory of the element as it was, and the  *)
(* reads see the popped element.  A queue object whose requests are all    *)
(* served is never deleted; nothing refers to it any more, so its name may *)
(* stand for the next one.                                                 *)
(***************************************************************************)
EXTENDS Integers, Sequences, Functions

CONSTANTS Clients,     \* the ClientIDs
          RequestIDs,  \* the RequestIDs
          Objects,     \* the addresses of ClientReqeustQueue objects
          MaxBacklog   \* bound: requests of a client in the queue

FairQueueParameters == MaxBacklog \in Nat

VARIABLES
  clients,   \* clients_: the object of each client that has requests
  queues,    \* queues_: the objects in the order Pop takes them
  client,    \* client_id_ of each object
  pendings,  \* pendings_ of each object, the request ids only
  passed,    \* history: who was served since a client began to wait
  out        \* history: the request of the last Pop

vars == <<clients, queues, client, pendings, passed, out>>

Init ==
  /\ clients = <<>> /\ queues = <<>>
  /\ client \in [Objects -> Clients]
  /\ pendings = [o \in Objects |-> <<>>]
  /\ passed = [c \in Clients |-> {}]
  /\ out = <<>>

-----------------------------------------------------------------------------
(* Push *)

Registered(c, o) ==
  [d \in DOMAIN clients \cup {c} |-> IF d = c THEN o ELSE clients[d]]

PushNew(c) ==
  /\ c \notin DOMAIN clients
  /\ \E o \in Objects \ Range(clients), id \in RequestIDs :
       /\ client' = [client EXCEPT ![o] = c]
       /\ pendings' = [pendings EXCEPT ![o] = <<id>>]
       /\ clients' = Registered(c, o)
       /\ queues' = Append(queues, o)
  /\ UNCHANGED <<passed, out>>

PushMore(c) ==
  /\ c \in DOMAIN clients /\ Len(pendings[clients[c]]) < MaxBacklog
  /\ \E id \in RequestIDs :
       pendings' = [pendings EXCEPT ![clients[c]] = Append(@, id)]
  /\ UNCHANGED <<clients, queues, client, passed, out>>

-----------------------------------------------------------------------------
(* Pop; without clients it returns false and changes nothing *)

Served(c) == [d \in Clients |-> IF d # c /\ d \in DOMAIN clients
                                THEN passed[d] \cup {c} ELSE {}]

Forgotten_Kept(c) == clients
Forgotten(c) == Restrict(clients, DOMAIN clients \ {c})

Requeued_AtFront(q) == q
Requeued(q) == Append(Tail(q), Head(q))

\* ClientReqeustQueue::Pop on the front of queues_.
PopFront ==
  /\ DOMAIN clients # {}
  /\ LET front == Head(queues)
     IN  /\ out' = <<client[front], Head(pendings[front])>>
         /\ pendings' = [pendings EXCEPT ![front] = Tail(@)]
         /\ passed' = Served(client[front])

\* The client has no more requests: forget it ...
PopLast ==
  /\ PopFront
  /\ pendings'[Head(queues)] = <<>>
  /\ queues' = Tail(queues)
  /\ clients' = Forgotten(client[Head(queues)])
  /\ UNCHANGED client

\* ... or it has, and its queue goes to the back.
PopNext ==
  /\ PopFront
  /\ pendings'[Head(queues)] # <<>>
  /\ queues' = Requeued(queues)
  /\ UNCHANGED <<clients, client>>

Pop == PopLast \/ PopNext

-----------------------------------------------------------------------------
Next == Pop \/ \E c \in Clients : PushNew(c) \/ PushMore(c)

Spec == Init /\ [][Next]_vars

\* Somebody keeps calling Pop; pushes may go on forever.
FairSpec == Spec /\ WF_vars(Pop)

-----------------------------------------------------------------------------
(* Properties *)

TypeOK ==
  /\ DOMAIN clients \subseteq Clients /\ clients \in [DOMAIN clients -> Objects]
  /\ queues \in Seq(Objects)
  /\ client \in [Objects -> Clients]
  /\ pendings \in [Objects -> Seq(RequestIDs)]
  /\ passed \in [Clients -> SUBSET Clients]
  /\ out = <<>> \/ out \in Clients \X RequestIDs

\* clients_ and queues_ describe the same objects: one for each client that
\* has requests, once in the queue, under its own client and never empty, so
\* that no assertion of the code fails and no front is taken off an empty
\* deque.
QueuesMatchClients ==
  /\ Range(queues) = Range(clients) /\ IsInjective(queues)
  /\ \A c \in DOMAIN clients :
       client[clients[c]] = c /\ pendings[clients[c]] # <<>>

Backlog == [c \in Clients |-> IF c \in DOMAIN clients
                               THEN pendings[clients[c]] ELSE <<>>]

Abstract == INSTANCE FairService WITH backlog <- Backlog

\* Clients are served in turn and each in its own order, and nothing is lost.
ImplementsFairService == Abstract!Spec

PopOf(c) == Pop /\ client[Head(queues)] = c

\* A client that has requests is served again and again, whatever the others
\* push.
NoClientStarves ==
  \A c \in Clients :
    <>[](c \in DOMAIN clients) => []<><<PopOf(c)>>_vars
=============================================================================
