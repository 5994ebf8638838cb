---------------------------- MODULE FairService ----------------------------
(***************************************************************************)
(* What RequestFairQueue promises: the requests of a client are served in  *)
(* the order it pushed them, none is lost or served twice, and no client   *)
(* is served twice while another one waits.                                *)
(***************************************************************************)
EXTENDS Integers, Sequences

CONSTANTS Clients,    \* the clients
          RequestIDs  \* what distinguishes the requests of a client

VARIABLES backlog,  \* per client: its requests not yet served, oldest first
          passed,   \* per client: who was served since it began to wait
          out       \* the request served last, <<client, id>>

vars == <<backlog, passed, out>>

Waiting(c) == backlog[c] # <<>>

Init ==
  /\ backlog = [c \in Clients |-> <<>>]
  /\ passed = [c \in Clients |-> {}]
  /\ out = <<>>

Push(c) ==
  /\ \E id \in RequestIDs : backlog' = [backlog EXCEPT ![c] = Append(@, id)]
  /\ UNCHANGED <<passed, out>>

Serve(c) ==
  /\ Waiting(c)
  /\ \A d \in Clients \ {c} : Waiting(d) => c \notin passed[d]
  /\ out' = <<c, Head(backlog[c])>>
  /\ backlog' = [backlog EXCEPT ![c] = Tail(@)]
  /\ passed' = [d \in Clients |-> IF d # c /\ Waiting(d)
                                  THEN passed[d] \cup {c} ELSE {}]

Next == \E c \in Clients : Push(c) \/ Serve(c)

Spec == Init /\ [][Next]_vars
=============================================================================
