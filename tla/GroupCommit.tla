---------------------------- MODULE GroupCommit ----------------------------
(***************************************************************************)
(* DBImpl::Write of example-ping-pong-batch: concurrent writers queue up   *)
(* behind one mutex; the writer at the front becomes the leader, merges    *)
(* the batches of the writers behind it into its own, releases the mutex   *)
(* for the log I/O, takes it again and retires the whole group.            *)
(*                                                                         *)
(* A Writer lives on the stack of the Write call that made it, so a thread *)
(* stands for its own Writer.  A batch is the sequence of its records; the *)
(* records' bytes are left out.  The log I/O, which the code only          *)
(* announces, appends the group to the variable wal.                       *)
(***************************************************************************)
EXTENDS Integers, Sequences, SequencesExt

CONSTANTS Threads,       \* the threads that call Write
          NoThread,      \* "the mutex is free"
          MaxBatchSize,  \* kMaxBatchSize
          MaxCalls,      \* bound: Write calls per thread
          MaxPuts,       \* bound: records per thread
          MaxSpurious    \* bound: spurious wakeups in a behaviour

ASSUME ThreadsAssumption == NoThread \notin Threads
ASSUME BoundsAssumption ==
  /\ MaxBatchSize \in Nat /\ MaxCalls \in Nat /\ MaxPuts \in Nat
  /\ MaxSpurious \in Nat

Record == Threads \X Nat   \* <<t, n>>: the n-th record put by thread t

VARIABLES
  pc,        \* where each thread is in Write
  mu,        \* the holder of mu_, or NoThread
  writers,   \* writers_
  done,      \* Writer::done_ of each thread
  last,      \* last_writer of each thread
  rep,       \* the WriteBatch each thread owns
  wal,       \* the log
  sub,       \* history: the batch as it was when Write was called
  enq,       \* history: the records in the order writers_ received them
  acked,     \* history: the records of the calls that have returned
  calls, puts, spurious   \* counters for the bounds

mem  == <<rep, sub, puts>>
vars == <<pc, mu, writers, done, last, rep, wal, sub, enq, acked, calls,
          puts, spurious>>

Waiting  == {"lock", "check", "wait", "wake"}
Leading  == {"build", "io", "relock", "retire"}
Location == {"idle"} \cup Waiting \cup Leading

Init ==
  /\ pc = [t \in Threads |-> "idle"]
  /\ mu = NoThread
  /\ writers = <<>>
  /\ done = [t \in Threads |-> FALSE]
  /\ last = [t \in Threads |-> t]
  /\ rep = [t \in Threads |-> <<>>]
  /\ sub = [t \in Threads |-> <<>>]
  /\ wal = <<>> /\ enq = <<>> /\ acked = {}
  /\ calls = [t \in Threads |-> 0]
  /\ puts = [t \in Threads |-> 0]
  /\ spurious = 0

Goto(t, l) == pc' = [pc EXCEPT ![t] = l]

-----------------------------------------------------------------------------
(* WriteBatch *)

\* WriteBatchInternal::Count and Append
Count(b) == Len(b)
AppendBatch_Prepends(dst, src) == src \o dst
AppendBatch_CountOnly(dst, src) == dst
AppendBatch(dst, src) == dst \o src

\* WriteBatch::Put and Delete: one more record in the caller's batch.
Put(t) ==
  /\ pc[t] = "idle" /\ puts[t] < MaxPuts
  /\ puts' = [puts EXCEPT ![t] = @ + 1]
  /\ rep' = [rep EXCEPT ![t] = Append(@, <<t, puts[t] + 1>>)]
  /\ UNCHANGED <<pc, mu, writers, done, last, wal, sub, enq, acked, calls,
                 spurious>>

\* WriteBatch::Clear, or a new WriteBatch; a caller may as well hand in the
\* batch again that went through Write, with whatever Write left in it.
Clear(t) ==
  /\ pc[t] = "idle" /\ rep[t] # <<>>
  /\ rep' = [rep EXCEPT ![t] = <<>>]
  /\ UNCHANGED <<pc, mu, writers, done, last, wal, sub, enq, acked, calls,
                 puts, spurious>>

-----------------------------------------------------------------------------
(* Mutex and CondVar *)

Acquire(t) == mu = NoThread /\ mu' = t
Release(t) == mu = t /\ mu' = NoThread

\* CondVar::Signal on the Writers in S: only a thread that waits is woken.
Signalled(S) == [t \in Threads |->
                   IF t \in S /\ pc[t] = "wait" THEN "wake" ELSE pc[t]]

-----------------------------------------------------------------------------
(* DBImpl::Write *)

Call(t) ==
  /\ pc[t] = "idle" /\ calls[t] < MaxCalls
  /\ Goto(t, "lock")
  /\ done' = [done EXCEPT ![t] = FALSE]
  /\ last' = [last EXCEPT ![t] = t]
  /\ sub' = [sub EXCEPT ![t] = rep[t]]
  /\ calls' = [calls EXCEPT ![t] = @ + 1]
  /\ UNCHANGED <<mu, writers, rep, wal, enq, acked, puts, spurious>>

Enqueue(t) ==
  /\ pc[t] = "lock" /\ Acquire(t)
  /\ writers' = Append(writers, t)
  /\ enq' = enq \o rep[t]
  /\ Goto(t, "check")
  /\ UNCHANGED <<done, last, wal, acked, calls, spurious, mem>>

\* The condition of the waiting loop
MustWait_FrontNotChecked(t) == FALSE
MustWait(t) == ~done[t] /\ Head(writers) # t

\* It holds: release the mutex and wait on w.cv_.
Wait(t) ==
  /\ pc[t] = "check" /\ MustWait(t)
  /\ Release(t)
  /\ Goto(t, "wait")
  /\ UNCHANGED <<writers, done, last, wal, enq, acked, calls, spurious, mem>>

\* std::condition_variable::wait may return without a notification.
SpuriousWakeup(t) ==
  /\ pc[t] = "wait" /\ spurious < MaxSpurious
  /\ spurious' = spurious + 1
  /\ Goto(t, "wake")
  /\ UNCHANGED <<mu, writers, done, last, wal, enq, acked, calls, mem>>

Rewake(t) ==
  /\ pc[t] = "wake" /\ Acquire(t)
  /\ Goto(t, "check")
  /\ UNCHANGED <<writers, done, last, wal, enq, acked, calls, spurious, mem>>

\* A leader has logged this writer's batch: return its status.
ReturnDone(t) ==
  /\ pc[t] = "check" /\ done[t]
  /\ Release(t)
  /\ Goto(t, "idle")
  /\ acked' = acked \cup Range(sub[t])
  /\ UNCHANGED <<writers, done, last, wal, enq, calls, spurious, mem>>

\* The loop ends because the writer is at the front: enter BuildBatchGroup.
Lead(t) ==
  /\ pc[t] = "check" /\ ~MustWait(t) /\ ~done[t]
  /\ Goto(t, "build")
  /\ last' = [last EXCEPT ![t] = t]
  /\ UNCHANGED <<mu, writers, done, wal, enq, acked, calls, spurious, mem>>

\* One turn of the loop of BuildBatchGroup, which takes writers[i].
Joins(t, i) ==
  /\ i \in 2 .. Len(writers) /\ writers[i-1] = last[t]
  /\ Count(rep[t]) < MaxBatchSize

AppendNext(t) ==
  /\ pc[t] = "build"
  /\ \E i \in DOMAIN writers :
       /\ Joins(t, i)
       /\ rep' = [rep EXCEPT ![t] = AppendBatch(@, rep[writers[i]])]
       /\ last' = [last EXCEPT ![t] = writers[i]]
  /\ UNCHANGED <<pc, mu, writers, done, wal, sub, enq, acked, calls,
                 puts, spurious>>

\* The group is complete; leaving the scope releases the mutex.
EndBuild(t) ==
  /\ pc[t] = "build"
  /\ ~ \E i \in DOMAIN writers : Joins(t, i)
  /\ Release(t)
  /\ Goto(t, "io")
  /\ UNCHANGED <<writers, done, last, wal, enq, acked, calls, spurious, mem>>

LogGroup(t) ==
  /\ pc[t] = "io"
  /\ wal' = wal \o rep[t]
  /\ Goto(t, "relock")
  /\ UNCHANGED <<mu, writers, done, last, enq, acked, calls, spurious, mem>>

Relock(t) ==
  /\ pc[t] = "relock" /\ Acquire(t)
  /\ Goto(t, "retire")
  /\ UNCHANGED <<writers, done, last, wal, enq, acked, calls, spurious, mem>>

\* The leader takes ready off the queue; it marks any Writer but its own.
PopReady_NotPopped(t, ready) ==
  /\ ready = Head(writers)
  /\ writers' = IF ready = t THEN Tail(writers) ELSE writers
  /\ done' = [done EXCEPT ![ready] = @ \/ ready # t]

PopReady(t, ready) ==
  /\ ready = Head(writers)
  /\ writers' = Tail(writers)
  /\ done' = [done EXCEPT ![ready] = @ \/ ready # t]

\* One turn of the retiring loop that does not end it ...
RetireNext(t) ==
  /\ pc[t] = "retire" /\ Head(writers) # last[t]
  /\ \E ready \in Threads :
       /\ PopReady(t, ready)
       /\ pc' = Signalled({ready} \ {t})
  /\ UNCHANGED <<mu, last, wal, enq, acked, calls, spurious, mem>>

\* ... and the one that does: signal the next leader, unlock and return.
NextLeader_Forgotten(q) == {}
NextLeader(q) == IF q = <<>> THEN {} ELSE {Head(q)}

RetireLast(t) ==
  /\ pc[t] = "retire" /\ Head(writers) = last[t]
  /\ PopReady(t, last[t])
  /\ pc' = [Signalled({last[t]} \cup NextLeader(writers')) EXCEPT ![t] = "idle"]
  /\ Release(t)
  /\ acked' = acked \cup Range(sub[t])
  /\ UNCHANGED <<last, wal, enq, calls, spurious, mem>>

-----------------------------------------------------------------------------
Client(t) == Put(t) \/ Clear(t) \/ Call(t)

\* The steps a call in progress takes by itself.
Writing(t) ==
  \/ Enqueue(t) \/ Wait(t) \/ Rewake(t) \/ ReturnDone(t)
  \/ Lead(t) \/ AppendNext(t) \/ EndBuild(t) \/ LogGroup(t)
  \/ Relock(t) \/ RetireNext(t) \/ RetireLast(t)

Next == \E t \in Threads : Client(t) \/ Writing(t) \/ SpuriousWakeup(t)

Spec == Init /\ [][Next]_vars

\* Threads keep running; callers need not call and nothing wakes spuriously
\* by right.  The bounds make weak fairness enough (see README).
FairSpec == Spec /\ \A t \in Threads : WF_vars(Writing(t))

-----------------------------------------------------------------------------
(* Properties *)

TypeOK ==
  /\ pc \in [Threads -> Location]
  /\ mu \in Threads \cup {NoThread}
  /\ writers \in Seq(Threads)
  /\ done \in [Threads -> BOOLEAN]
  /\ last \in [Threads -> Threads]
  /\ rep \in [Threads -> Seq(Record)] /\ sub \in [Threads -> Seq(Record)]
  /\ wal \in Seq(Record) /\ enq \in Seq(Record)
  /\ acked \in SUBSET Record
  /\ calls \in [Threads -> Nat] /\ puts \in [Threads -> Nat]
  /\ spurious \in Nat

Queued == Range(writers)

\* The Writers a leader has taken into its group and not yet retired.
Group(t) == {writers[i] : i \in {j \in DOMAIN writers :
                \A k \in 1 .. j - 1 : writers[k] # last[t]}}

\* writers_ never holds a pointer to a Writer whose Write call has returned or
\* has already been told to return: a Writer is a local of Write, so such a
\* pointer would dangle.  Nor does it hold one Writer twice.
QueueIsAlive ==
  /\ \A t \in Queued : pc[t] \notin {"idle", "lock"} /\ ~done[t]
  /\ IsInjective(writers)

\* At most one writer leads at a time, although the mutex is free during the
\* log I/O; it owns the front of writers_ until it retires its group, and
\* last_writer is still queued, so the retiring loop ends before the deque is
\* empty.
OneLeader ==
  /\ \A t, u \in Threads : pc[t] \in Leading /\ pc[u] \in Leading => t = u
  /\ \A t \in Threads : pc[t] \in {"build", "io", "relock"} => Head(writers) = t
  /\ \A t \in Threads : pc[t] \in Leading => last[t] \in Queued

\* No wakeup is lost: a Writer that is done does not sleep, and neither does
\* the one at the front of the queue, except while a leader holding the mutex
\* is still retiring its group and is going to signal it.
NoLostWakeup ==
  /\ \A t \in Threads : pc[t] = "wait" => ~done[t]
  /\ writers # <<>> /\ pc[Head(writers)] = "wait"
        => \E t \in Threads : pc[t] = "retire"

\* A Write that returned OK, as leader or as follower, has its records in the
\* log.
AckedIsLogged == acked \subseteq Range(wal)

\* The log is what writers_ received, in the order it received it: groups
\* neither overtake one another nor reorder, repeat or skip the batches they
\* merge.
LogFollowsQueue == IsPrefix(wal, enq)

\* Merging a group leaves the followers' batches as their callers made them;
\* only the leader's own batch grows.
OnlyLeaderBatchGrows ==
  [][\A t \in Threads : pc[t] # "idle" /\ rep'[t] # rep[t] =>
        /\ pc[t] = "build"
        /\ IsPrefix(rep[t], rep'[t])]_vars

\* Every Write returns.
EveryWriteReturns == \A t \in Threads : pc[t] # "idle" ~> pc[t] = "idle"

\* Refinement: a call is committed from the log I/O of its group on.
Logged(t) ==
  \/ done[t]
  \/ \E u \in Threads : pc[u] \in {"relock", "retire"} /\ t \in Group(u) \cup {u}

Abstract == INSTANCE CommitLog WITH
  log <- wal,
  batch <- sub,
  call <- [t \in Threads |-> IF pc[t] = "idle" THEN "idle"
                             ELSE IF Logged(t) THEN "committed"
                             ELSE "pending"]

\* Write implements the commit log.
ImplementsCommitLog == Abstract!Spec
=============================================================================
