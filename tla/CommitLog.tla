----------------------------- MODULE CommitLog -----------------------------
(***************************************************************************)
(* What DBImpl::Write promises its callers: the records of a submitted     *)
(* batch enter the log as one contiguous block, at one instant between the *)
(* call and its return, together with the blocks of zero or more other     *)
(* calls that are in progress.  Nothing is said of queues, locks, leaders  *)
(* or of the group that carries a block to the log.                        *)
(***************************************************************************)
EXTENDS Integers, Sequences, SequencesExt

CONSTANTS Threads,  \* the threads that call Write
          Record    \* the records a batch may hold

VARIABLES log,      \* the records written so far, in order
          call,     \* per thread: "idle", "pending" or "committed"
          batch     \* per thread: the records it submitted

vars == <<log, call, batch>>

Init ==
  /\ log = <<>>
  /\ call = [t \in Threads |-> "idle"]
  /\ batch = [t \in Threads |-> <<>>]

Submit(t) ==
  /\ call[t] = "idle"
  /\ call' = [call EXCEPT ![t] = "pending"]
  /\ batch' \in [Threads -> Seq(Record)]
  /\ \A u \in Threads \ {t} : batch'[u] = batch[u]
  /\ UNCHANGED log

\* Every way of putting some pending calls in a row.
Orders(S) == UNION {SetToSeqs(T) : T \in (SUBSET S) \ {{}}}

Commit ==
  \E order \in Orders({t \in Threads : call[t] = "pending"}) :
    /\ log' = log \o FlattenSeq([i \in DOMAIN order |-> batch[order[i]]])
    /\ call' = [t \in Threads |->
                  IF t \in Range(order) THEN "committed" ELSE call[t]]
    /\ UNCHANGED batch

Return(t) ==
  /\ call[t] = "committed"
  /\ call' = [call EXCEPT ![t] = "idle"]
  /\ UNCHANGED <<log, batch>>

Next ==
  \/ \E t \in Threads : Submit(t) \/ Return(t)
  \/ Commit

Spec == Init /\ [][Next]_vars
=============================================================================
