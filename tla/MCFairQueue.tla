---------------------------- MODULE MCFairQueue ----------------------------
(* An instance of FairQueue for TLC, and for the proofs about containers. *)
CONSTANTS Clients, RequestIDs, Objects, MaxBacklog

VARIABLES clients, queues, client, pendings, passed, out

Fair == INSTANCE FairQueue

ASSUME FairQueueAssumption == Fair!FairQueueParameters

FairSpec == Fair!FairSpec

\* The map of clients and the queue of queues agree.
QueuesMatchClients == Fair!QueuesMatchClients

\* Push and Pop are a service in turns.
ImplementsFairService == Fair!ImplementsFairService

\* A client that has requests is served again and again.
NoClientStarves == Fair!NoClientStarves
=============================================================================
