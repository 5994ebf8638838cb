------------------------- MODULE GroupCommit_proofs -------------------------
(***************************************************************************)
(* Proofs about DBImpl::Write for any number of threads, any batch limit   *)
(* and any number of calls.  The argument goes in layers, each of which    *)
(* uses ones before it:                                                    *)
(*   TypeOK       where the values lie;                                    *)
(*   ControlInv   who holds the mutex, who is queued, who leads;           *)
(*   DurableInv   what a leader's batch and the log cover;                 *)
(*   OrderInv     where each batch lies in what the queue has received;    *)
(*   GroupMerged  what a leader's batch is made of, from which every step  *)
(*                is a step of CommitLog or none.                          *)
(***************************************************************************)
EXTENDS GroupCommit, SequenceTheorems, FiniteSetTheorems,
        WellFoundedInduction, TLAPS

(* The mutex is held exactly at the program points between the calls of    *)
(* Lock and Unlock.                                                        *)
LockInv == \A t \in Threads : mu = t <=> pc[t] \in {"check", "build", "retire"}

(* A writer that waits for a leader is in the queue, and one that has yet  *)
(* to take the mutex is not done.                                          *)
WaitersQueued ==
  \A t \in Threads :
    /\ pc[t] \in {"check", "wait", "wake"} /\ ~done[t] => t \in Queued
    /\ pc[t] = "lock" => ~done[t]

(* A retiring leader has left the queue or is at its front.                *)
RetiringAtFront ==
  \A t \in Threads : pc[t] = "retire" => t \notin Queued \/ Head(writers) = t

ControlInv ==
  /\ LockInv
  /\ QueueIsAlive
  /\ OneLeader
  /\ WaitersQueued
  /\ RetiringAtFront

(* Until a leader merges into it, a batch is as its caller submitted it.   *)
BatchIntact == \A t \in Threads : pc[t] \in Waiting => rep[t] = sub[t]

(* Everything a leader's group submitted is in the leader's batch before   *)
(* the log I/O and in the log after it.                                    *)
GroupCovered ==
  \A t \in Threads : \A u \in Group(t) :
    /\ pc[t] \in {"build", "io"} => Range(sub[u]) \subseteq Range(rep[t])
    /\ pc[t] \in {"relock", "retire"} => Range(sub[u]) \subseteq Range(wal)

(* So is what a leader itself submitted, also when it has left the queue,  *)
(* and what a writer submitted that has been told to return.               *)
DoneCovered ==
  \A t \in Threads :
    \/ pc[t] \in {"relock", "retire"}
    \/ pc[t] \in {"check", "wait", "wake"} /\ done[t]
    => Range(sub[t]) \subseteq Range(wal)

DurableInv == BatchIntact /\ GroupCovered /\ DoneCovered /\ AckedIsLogged

IInv == TypeOK /\ ControlInv /\ NoLostWakeup /\ DurableInv

-----------------------------------------------------------------------------
(* Queues without repetition, as sets *)

LEMMA InQueue ==
  ASSUME NEW S, NEW s \in Seq(S), NEW x \in Range(s)
  PROVE  s # <<>> /\ Len(s) \in Nat \ {0}
BY DEF Range

LEMMA PushBack ==
  ASSUME NEW S, NEW s \in Seq(S), NEW x \in S,
         IsInjective(s), x \notin Range(s)
  PROVE  /\ Range(Append(s, x)) = Range(s) \cup {x}
         /\ IsInjective(Append(s, x))
         /\ Head(Append(s, x)) = IF s = <<>> THEN x ELSE Head(s)
<1> DEFINE q == Append(s, x)
<1>1. /\ q \in Seq(S) /\ Len(q) = Len(s) + 1 /\ q[Len(s) + 1] = x
      /\ \A i \in 1 .. Len(s) : q[i] = s[i]
  BY AppendProperties
<1>2. Range(q) = Range(s) \cup {x}
  BY <1>1 DEF Range
<1>3. IsInjective(q)
  BY <1>1 DEF Range, IsInjective
<1>4. Head(q) = IF s = <<>> THEN x ELSE Head(s)
  BY <1>1
<1>5. QED BY <1>2, <1>3, <1>4

LEMMA PopFront ==
  ASSUME NEW S, NEW s \in Seq(S), s # <<>>, IsInjective(s)
  PROVE  /\ Head(s) \in Range(s)
         /\ Range(Tail(s)) = Range(s) \ {Head(s)}
         /\ IsInjective(Tail(s))
<1> DEFINE q == Tail(s)
<1>1. /\ q \in Seq(S) /\ Len(q) = Len(s) - 1 /\ Len(s) \in Nat \ {0}
      /\ \A i \in 1 .. Len(q) : q[i] = s[i + 1]
  BY HeadTailProperties
<1>2. Head(s) = s[1]
  OBVIOUS
<1>3. Head(s) \in Range(s)
  BY <1>1, <1>2 DEF Range
<1>4. IsInjective(q)
  BY <1>1 DEF IsInjective
<1>5. Range(q) \subseteq Range(s) \ {Head(s)}
  BY <1>1, <1>2 DEF Range, IsInjective
<1>6. ASSUME NEW x \in Range(s) \ {Head(s)} PROVE x \in Range(q)
  <2>1. PICK i \in 1 .. Len(s) : x = s[i]
    BY DEF Range
  <2>2. i # 1 /\ i - 1 \in 1 .. Len(q)
    BY <1>1, <1>2, <2>1
  <2>3. x = q[i - 1]
    BY <1>1, <2>1, <2>2
  <2>4. QED BY <1>1, <2>2, <2>3, RangeEquality
<1>7. QED BY <1>3, <1>4, <1>5, <1>6

-----------------------------------------------------------------------------
(* Type correctness *)

LEMMA RecordsOfBatch ==
  ASSUME NEW s \in Seq(Record)
  PROVE  Range(s) \subseteq Record
BY RangeOfSeq

LEMMA TypeInit == Init => TypeOK
BY DEF Init, TypeOK, Location

(* The retiring loop ends before the queue runs empty.                     *)
LEMMA LeaderSeesQueue ==
  ASSUME TypeOK, ControlInv, NEW t \in Threads, pc[t] \in Leading
  PROVE  writers # <<>> /\ Len(writers) \in Nat \ {0}
<1>1. last[t] \in Range(writers)
  BY DEF ControlInv, OneLeader, Queued
<1>2. QED BY <1>1, InQueue DEF TypeOK

LEMMA TypeStep == TypeOK /\ ControlInv /\ [Next]_vars => TypeOK'
<1> SUFFICES ASSUME TypeOK, ControlInv, [Next]_vars PROVE TypeOK'
  OBVIOUS
<1> USE DEF TypeOK
<1>1. CASE UNCHANGED vars
  BY <1>1 DEF vars
<1>2. ASSUME NEW t \in Threads, Client(t) PROVE TypeOK'
  <2>1. CASE Put(t)
    <3>1. <<t, puts[t] + 1>> \in Record
      BY DEF Record
    <3>2. Append(rep[t], <<t, puts[t] + 1>>) \in Seq(Record)
      BY <3>1
    <3>3. rep' \in [Threads -> Seq(Record)]
      BY <2>1, <3>2 DEF Put
    <3>4. puts' \in [Threads -> Nat]
      BY <2>1 DEF Put
    <3>5. UNCHANGED <<pc, mu, writers, done, last, wal, sub, enq, acked, calls,
                      spurious>>
      BY <2>1 DEF Put
    <3>6. QED BY <3>3, <3>4, <3>5
  <2>2. CASE Clear(t)
    BY <2>2 DEF Clear
  <2>3. CASE Call(t)
    <3>1. "lock" \in Location
      BY DEF Location, Waiting
    <3>2. pc' \in [Threads -> Location]
      BY <2>3, <3>1 DEF Call, Goto
    <3>3. done' \in [Threads -> BOOLEAN] /\ last' \in [Threads -> Threads]
      BY <2>3 DEF Call
    <3>4. sub' \in [Threads -> Seq(Record)] /\ calls' \in [Threads -> Nat]
      BY <2>3 DEF Call
    <3> QED
      BY <2>3, <3>2, <3>3, <3>4 DEF Call
  <2>4. QED BY <1>2, <2>1, <2>2, <2>3 DEF Client
<1>3. ASSUME NEW t \in Threads, Writing(t) PROVE TypeOK'
  <2> USE DEF mem, Goto, Acquire, Release, Location, Waiting, Leading
  <2>1. CASE Enqueue(t)
    BY <2>1 DEF Enqueue
  <2>2. CASE Wait(t)
    BY <2>2 DEF Wait, MustWait
  <2>3. CASE Rewake(t)
    BY <2>3 DEF Rewake
  <2>4. CASE ReturnDone(t)
    BY <2>4, RecordsOfBatch DEF ReturnDone
  <2>5. CASE Lead(t)
    BY <2>5 DEF Lead, MustWait
  <2>6. CASE AppendNext(t)
    <3>1. PICK i \in DOMAIN writers :
            /\ Joins(t, i)
            /\ rep' = [rep EXCEPT ![t] = AppendBatch(@, rep[writers[i]])]
            /\ last' = [last EXCEPT ![t] = writers[i]]
      BY <2>6 DEF AppendNext
    <3>2. writers[i] \in Threads
      OBVIOUS
    <3>3. AppendBatch(rep[t], rep[writers[i]]) \in Seq(Record)
      BY <3>2, ConcatProperties DEF AppendBatch
    <3>4. QED BY <2>6, <3>1, <3>2, <3>3 DEF AppendNext
  <2>7. CASE EndBuild(t)
    BY <2>7 DEF EndBuild
  <2>8. CASE LogGroup(t)
    BY <2>8 DEF LogGroup
  <2>9. CASE Relock(t)
    BY <2>9 DEF Relock
  <2>10. CASE RetireNext(t)
    <3>1. Tail(writers) \in Seq(Threads)
      BY <2>10, LeaderSeesQueue, HeadTailProperties DEF RetireNext
    <3>2. QED BY <2>10, <3>1 DEF RetireNext, PopReady, Signalled
  <2>11. CASE RetireLast(t)
    <3>1. Tail(writers) \in Seq(Threads)
      BY <2>11, LeaderSeesQueue, HeadTailProperties DEF RetireLast
    <3>2. QED
      BY <2>11, <3>1, RecordsOfBatch DEF RetireLast, PopReady, Signalled
  <2>12. QED
    BY <1>3, <2>1, <2>2, <2>3, <2>4, <2>5, <2>6, <2>7, <2>8, <2>9, <2>10,
       <2>11 DEF Writing
<1>4. ASSUME NEW t \in Threads, SpuriousWakeup(t) PROVE TypeOK'
  BY <1>4 DEF SpuriousWakeup, mem, Goto, Location, Waiting
<1>5. QED
  BY <1>1, <1>2, <1>3, <1>4 DEF Next

-----------------------------------------------------------------------------
(* Control *)

LEMMA ControlInit == Init => ControlInv
<1> SUFFICES ASSUME Init PROVE ControlInv
  OBVIOUS
<1>1. Queued = {} /\ IsInjective(writers)
  BY DEF Init, Queued, Range, IsInjective
<1>2. \A t \in Threads : pc[t] = "idle" /\ mu # t
  BY ThreadsAssumption DEF Init
<1>3. QED
  BY <1>1, <1>2
     DEF ControlInv, LockInv, QueueIsAlive, OneLeader, WaitersQueued,
         RetiringAtFront, Leading

LEMMA ControlStep == TypeOK /\ ControlInv /\ [Next]_vars => ControlInv'
<1> SUFFICES ASSUME TypeOK, ControlInv, [Next]_vars PROVE ControlInv'
  OBVIOUS
<1> USE ThreadsAssumption
    DEF TypeOK, Goto, Acquire, Release, Leading, ControlInv, LockInv,
        QueueIsAlive, OneLeader, WaitersQueued, RetiringAtFront
<1>q. Queued \subseteq Threads
  BY RangeOfSeq DEF Queued
<1>1. ASSUME UNCHANGED <<pc, mu, writers, done, last>> PROVE ControlInv'
  BY <1>1 DEF Queued
<1>2. ASSUME NEW t \in Threads, Call(t) PROVE ControlInv'
  <2>1. Queued' = Queued /\ t \notin Queued
    BY <1>2 DEF Call, Queued
  <2>2. QED BY <1>2, <2>1 DEF Call
<1>3. ASSUME NEW t \in Threads, Enqueue(t) PROVE ControlInv'
  <2>1. /\ Queued' = Queued \cup {t} /\ IsInjective(writers')
        /\ Head(writers') = IF writers = <<>> THEN t ELSE Head(writers)
    BY <1>3, PushBack DEF Enqueue, Queued
  <2>2. \A u \in Threads : pc[u] \in Leading => writers # <<>>
    BY LeaderSeesQueue
  <2>3. QED
    <3>1. LockInv'
      BY <1>3, <2>1, <2>2 DEF Enqueue
    <3>2. QueueIsAlive'
      <4>1. ASSUME NEW u \in Queued'
            PROVE  pc'[u] \notin {"idle", "lock"} /\ ~done'[u]
        BY <1>3, <2>1, <1>q DEF Enqueue
      <4>2. QED BY <2>1, <4>1
    <3>3. OneLeader'
      <4>1. /\ last' = last
            /\ \A u \in Threads : pc'[u] = IF u = t THEN "check" ELSE pc[u]
        BY <1>3 DEF Enqueue
      <4>2. \A u \in Threads : pc'[u] \in Leading => u # t /\ pc'[u] = pc[u]
        BY <4>1
      <4> QED
        BY <2>1, <2>2, <4>1, <4>2
    <3>4. WaitersQueued'
      BY <1>3, <2>1, <2>2 DEF Enqueue
    <3>5. RetiringAtFront'
      BY <1>3, <2>1, <2>2 DEF Enqueue
    <3>6. QED BY <3>1, <3>2, <3>3, <3>4, <3>5
<1>4. ASSUME NEW t \in Threads, AppendNext(t) PROVE ControlInv'
  <2>1. Queued' = Queued /\ last'[t] \in Queued
    BY <1>4 DEF AppendNext, Queued, Range
  <2>2. QED BY <1>4, <2>1 DEF AppendNext
<1>5. ASSUME NEW t \in Threads, RetireNext(t) PROVE ControlInv'
  <2>1. /\ Head(writers) \in Queued /\ Queued' = Queued \ {Head(writers)}
        /\ IsInjective(writers')
    <3>1. writers # <<>> /\ writers' = Tail(writers)
      BY <1>5, LeaderSeesQueue DEF RetireNext, PopReady
    <3>2. writers \in Seq(Threads) /\ IsInjective(writers)
      OBVIOUS
    <3>3. QED BY <3>1, <3>2, PopFront DEF Queued
  <2>2. /\ pc[t] = "retire" /\ pc'[t] = "retire"
        /\ \A u \in Threads \ {t} :
             pc'[u] = pc[u] \/ (pc[u] = "wait" /\ pc'[u] = "wake")
    BY <1>5 DEF RetireNext, PopReady, Signalled
  <2>3. /\ \A u \in Threads : done'[u] = (done[u] \/ (u = Head(writers) /\ u # t))
        /\ UNCHANGED last
    <3>1. PICK h \in Threads :
            h = Head(writers) /\ done' = [done EXCEPT ![h] = @ \/ h # t]
      BY <1>5 DEF RetireNext, PopReady
    <3>2. QED BY ONLY <3>1, <1>5, TypeOK DEF RetireNext
  <2>4. QED
    <3>1. LockInv'
      BY <1>5, <2>1 DEF RetireNext, PopReady, Signalled
    <3>2. QueueIsAlive'
      <4>1. ASSUME NEW u \in Queued'
            PROVE  pc'[u] \notin {"idle", "lock"} /\ ~done'[u]
        BY <1>5, <2>1, <1>q DEF RetireNext, PopReady, Signalled
      <4>2. QED BY <2>1, <4>1
    <3>3. OneLeader'
      <4>1. \A u \in Threads : pc'[u] \in Leading => u = t
        BY <2>2
      <4>2. last'[t] \in Queued'
        BY <1>5, <2>1, <2>2, <2>3 DEF RetireNext
      <4>3. QED BY <2>2, <4>1, <4>2
    <3>4. WaitersQueued'
      <4>1. ASSUME NEW u \in Threads,
                   pc'[u] \in {"check", "wait", "wake"}, ~done'[u]
            PROVE  u \in Queued'
        BY <2>1, <2>2, <2>3, <4>1
      <4>2. ASSUME NEW u \in Threads, pc'[u] = "lock" PROVE ~done'[u]
        <5>1. u # t /\ pc[u] = "lock"
          BY <2>2, <4>2
        <5>2. u # Head(writers)
          BY <2>1, <5>1
        <5>3. QED BY <2>3, <5>1, <5>2
      <4>3. QED BY <4>1, <4>2
    <3>5. RetiringAtFront'
      BY <1>5, <2>1 DEF RetireNext, PopReady, Signalled
    <3>6. QED BY <3>1, <3>2, <3>3, <3>4, <3>5
<1>6. ASSUME NEW t \in Threads, RetireLast(t) PROVE ControlInv'
  <2>1. /\ Head(writers) \in Queued /\ Queued' = Queued \ {Head(writers)}
        /\ IsInjective(writers')
    <3>1. writers # <<>> /\ writers' = Tail(writers)
      BY <1>6, LeaderSeesQueue DEF RetireLast, PopReady
    <3>2. writers \in Seq(Threads) /\ IsInjective(writers)
      OBVIOUS
    <3>3. QED BY <3>1, <3>2, PopFront DEF Queued
  <2>2. /\ pc[t] = "retire" /\ pc'[t] = "idle"
        /\ \A u \in Threads \ {t} :
             pc'[u] = pc[u] \/ (pc[u] = "wait" /\ pc'[u] = "wake")
    BY <1>6 DEF RetireLast, PopReady, Signalled
  <2>3. /\ \A u \in Threads : done'[u] = (done[u] \/ (u = Head(writers) /\ u # t))
        /\ UNCHANGED last
    <3>1. PICK h \in Threads :
            h = Head(writers) /\ done' = [done EXCEPT ![h] = @ \/ h # t]
      BY <1>6 DEF RetireLast, PopReady
    <3>2. QED BY ONLY <3>1, <1>6, TypeOK DEF RetireLast
  <2>4. QED
    <3>1. LockInv'
      BY <1>6, <2>1 DEF RetireLast, PopReady, Signalled
    <3>2. QueueIsAlive'
      <4>1. ASSUME NEW u \in Queued'
            PROVE  pc'[u] \notin {"idle", "lock"} /\ ~done'[u]
        BY <1>6, <2>1, <1>q DEF RetireLast, PopReady, Signalled
      <4>2. QED BY <2>1, <4>1
    <3>3. OneLeader'
      <4>1. \A u \in Threads : pc'[u] \notin Leading
        BY <2>2
      <4>2. QED BY <2>1, <4>1
    <3>4. WaitersQueued'
      <4>1. ASSUME NEW u \in Threads,
                   pc'[u] \in {"check", "wait", "wake"}, ~done'[u]
            PROVE  u \in Queued'
        BY <2>1, <2>2, <2>3, <4>1
      <4>2. ASSUME NEW u \in Threads, pc'[u] = "lock" PROVE ~done'[u]
        <5>1. u # t /\ pc[u] = "lock"
          BY <2>2, <4>2
        <5>2. u # Head(writers)
          BY <2>1, <5>1
        <5>3. QED BY <2>3, <5>1, <5>2
      <4>3. QED BY <4>1, <4>2
    <3>5. RetiringAtFront'
      BY <1>6, <2>1 DEF RetireLast, PopReady, Signalled
    <3>6. QED BY <3>1, <3>2, <3>3, <3>4, <3>5
<1>7. ASSUME NEW t \in Threads, Wait(t) PROVE ControlInv'
  <2>1. Queued' = Queued
    BY <1>7 DEF Wait, MustWait, Queued
  <2>2. QED BY <1>7, <2>1 DEF Wait
<1>8. ASSUME NEW t \in Threads, Rewake(t) PROVE ControlInv'
  <2>1. Queued' = Queued
    BY <1>8 DEF Rewake, Queued
  <2>2. QED BY <1>8, <2>1 DEF Rewake
<1>9. ASSUME NEW t \in Threads, ReturnDone(t) PROVE ControlInv'
  <2>1. /\ Queued' = Queued /\ UNCHANGED <<writers, done>>
        /\ pc[t] = "check" /\ pc'[t] = "idle" /\ done[t] /\ UNCHANGED last
        /\ mu = t /\ mu' = NoThread
        /\ \A u \in Threads \ {t} : pc'[u] = pc[u] /\ last'[u] = last[u]
    BY <1>9 DEF ReturnDone, Queued
  <2>2. LockInv' /\ WaitersQueued'
    BY <2>1
  <2>3. QueueIsAlive'
    BY <2>1, <1>q
  <2>4. OneLeader' /\ RetiringAtFront'
    <3>1. \A u \in Threads : pc'[u] \in Leading => pc'[u] = pc[u]
      BY <2>1
    <3>2. \A u, v \in Threads :
             pc'[u] \in Leading /\ pc'[v] \in Leading => u = v
      BY <3>1
    <3>3. \A u \in Threads :
             pc'[u] \in {"build", "io", "relock"} => Head(writers') = u
      BY <2>1, <3>1
    <3>4. \A u \in Threads : pc'[u] \in Leading => last'[u] \in Queued'
      BY <2>1, <3>1
    <3>5. RetiringAtFront'
      BY <2>1, <3>1
    <3>6. QED BY <3>2, <3>3, <3>4, <3>5
  <2>5. QED BY <2>2, <2>3, <2>4
<1>10. ASSUME NEW t \in Threads, Lead(t) PROVE ControlInv'
  <2>1. /\ Queued' = Queued /\ UNCHANGED <<writers, done>>
        /\ pc[t] = "check" /\ pc'[t] = "build" /\ last'[t] = t /\ mu' = mu
        /\ ~done[t] /\ Head(writers) = t
        /\ \A u \in Threads \ {t} : pc'[u] = pc[u] /\ last'[u] = last[u]
    BY <1>10 DEF Lead, MustWait, Queued
  <2>2. LockInv' /\ WaitersQueued'
    BY <2>1
  <2>3. QueueIsAlive'
    BY <2>1, <1>q
  <2>4. OneLeader' /\ RetiringAtFront'
    <3>1. \A u \in Threads : pc[u] \notin Leading
      <4>1. SUFFICES ASSUME NEW u \in Threads, pc[u] \in Leading PROVE FALSE
        OBVIOUS
      <4>2. u # t /\ mu = t
        <5>1. mu = t <=> pc[t] \in {"check", "build", "retire"}
          BY LockInv
        <5>2. QED BY ONLY <2>1, <4>1, <5>1 DEF Leading
      <4>3. pc[u] # "retire"
        BY <4>2
      <4>4. QED BY <2>1, <4>1, <4>2, <4>3
    <3>2. \A u \in Threads : pc'[u] \in Leading => u = t
      BY <2>1, <3>1
    <3>3. t \in Queued
      BY <2>1
    <3>4. QED BY <2>1, <3>2, <3>3
  <2>5. QED BY <2>2, <2>3, <2>4
<1>11. ASSUME NEW t \in Threads, EndBuild(t) PROVE ControlInv'
  <2>1. /\ Queued' = Queued /\ UNCHANGED <<writers, done>>
        /\ pc[t] = "build" /\ pc'[t] = "io" /\ UNCHANGED last
        /\ mu = t /\ mu' = NoThread
        /\ \A u \in Threads \ {t} : pc'[u] = pc[u] /\ last'[u] = last[u]
    BY <1>11 DEF EndBuild, Queued
  <2>2. LockInv' /\ WaitersQueued'
    BY <2>1
  <2>3. QueueIsAlive'
    BY <2>1, <1>q
  <2>4. OneLeader' /\ RetiringAtFront'
    BY <2>1
  <2>5. QED BY <2>2, <2>3, <2>4
<1>12. ASSUME NEW t \in Threads, LogGroup(t) PROVE ControlInv'
  <2>1. /\ Queued' = Queued /\ UNCHANGED <<writers, done>>
        /\ pc[t] = "io" /\ pc'[t] = "relock" /\ UNCHANGED <<mu, last>>
        /\ \A u \in Threads \ {t} : pc'[u] = pc[u] /\ last'[u] = last[u]
    BY <1>12 DEF LogGroup, Queued
  <2>2. LockInv' /\ WaitersQueued'
    BY <2>1
  <2>3. QueueIsAlive'
    BY <2>1, <1>q
  <2>4. OneLeader' /\ RetiringAtFront'
    <3>1. \A u \in Threads : pc'[u] \in Leading <=> pc[u] \in Leading
      BY <2>1
    <3>2. \A u \in Threads : pc'[u] \in Leading => u = t
      BY <2>1, <3>1
    <3>3. Head(writers) = t /\ last[t] \in Queued
      BY <2>1
    <3>4. QED BY <2>1, <3>2, <3>3
  <2>5. QED BY <2>2, <2>3, <2>4
<1>13. ASSUME NEW t \in Threads, Relock(t) PROVE ControlInv'
  <2>1. Queued' = Queued
    BY <1>13 DEF Relock, Queued
  <2>2. LockInv' /\ WaitersQueued'
    BY <1>13, <2>1 DEF Relock
  <2>3. QueueIsAlive'
    BY <1>13, <2>1 DEF Relock
  <2>4. OneLeader' /\ RetiringAtFront'
    BY <1>13, <2>1 DEF Relock
  <2>5. QED BY <2>2, <2>3, <2>4
<1>14. ASSUME NEW t \in Threads, SpuriousWakeup(t) PROVE ControlInv'
  <2>1. /\ Queued' = Queued /\ UNCHANGED <<writers, done>>
        /\ pc[t] = "wait" /\ pc'[t] = "wake" /\ UNCHANGED <<mu, last>>
        /\ \A u \in Threads \ {t} : pc'[u] = pc[u] /\ last'[u] = last[u]
    BY <1>14 DEF SpuriousWakeup, Queued
  <2>2. LockInv' /\ WaitersQueued'
    BY <2>1
  <2>3. QueueIsAlive'
    BY <2>1, <1>q
  <2>4. OneLeader' /\ RetiringAtFront'
    BY <2>1
  <2>5. QED BY <2>2, <2>3, <2>4
<1>15. QED
  BY <1>1, <1>2, <1>3, <1>4, <1>5, <1>6, <1>7, <1>8, <1>9, <1>10, <1>11, <1>12, <1>13, <1>14
     DEF Next, Client, Writing, Put, Clear, vars, mem

LEMMA TypeControlInvariant == Spec => [](TypeOK /\ ControlInv)
<1>1. Init => TypeOK /\ ControlInv
  BY TypeInit, ControlInit
<1>2. TypeOK /\ ControlInv /\ [Next]_vars => (TypeOK /\ ControlInv)'
  BY TypeStep, ControlStep
<1>3. QED
  BY <1>1, <1>2, PTL DEF Spec

(* Every variable keeps its type: threads are at a program point of Write, *)
(* the queue holds Writers of threads, batches and the log hold records.   *)
THEOREM TypeCorrect == Spec => []TypeOK
BY TypeControlInvariant, PTL

(* writers_ never refers to a Writer whose call has returned or been told  *)
(* to, however many threads write and however they interleave.             *)
THEOREM QueueStaysAlive == Spec => []QueueIsAlive
<1>1. ControlInv => QueueIsAlive
  BY DEF ControlInv
<1>2. QED BY <1>1, TypeControlInvariant, PTL

(* There is at most one leader, also while the mutex is free for the log   *)
(* I/O, and its group stays queued until it retires it.                    *)
THEOREM OneLeaderAtATime == Spec => []OneLeader
<1>1. ControlInv => OneLeader
  BY DEF ControlInv
<1>2. QED BY <1>1, TypeControlInvariant, PTL

-----------------------------------------------------------------------------
(* Wakeups *)

LEMMA WakeStep ==
  TypeOK /\ ControlInv /\ NoLostWakeup /\ [Next]_vars => NoLostWakeup'
<1> SUFFICES ASSUME TypeOK, ControlInv, NoLostWakeup, [Next]_vars
             PROVE  NoLostWakeup'
  OBVIOUS
<1> USE ThreadsAssumption
    DEF TypeOK, Goto, Acquire, Release, Leading, ControlInv, LockInv,
        OneLeader, WaitersQueued, NoLostWakeup
<1>1. ASSUME UNCHANGED <<pc, writers, done>> PROVE NoLostWakeup'
  BY <1>1
<1>2. ASSUME NEW t \in Threads, Enqueue(t) PROVE NoLostWakeup'
  <2>1. Head(writers') = IF writers = <<>> THEN t ELSE Head(writers)
    BY <1>2 DEF Enqueue
  <2>2. /\ pc[t] = "lock" /\ pc'[t] = "check" /\ done' = done
        /\ \A u \in Threads \ {t} : pc'[u] = pc[u]
    BY <1>2 DEF Enqueue
  <2>3. \A u \in Threads : pc[u] = "retire" => pc'[u] = "retire"
    BY <2>2
  <2>4. writers # <<>> => Head(writers) \in Threads
    BY HeadTailProperties
  <2>5. QED BY <2>1, <2>2, <2>3, <2>4
<1>3. ASSUME NEW t \in Threads, RetireNext(t) PROVE NoLostWakeup'
  <2>1. pc'[t] = "retire"
    BY <1>3 DEF RetireNext, Signalled
  <2>2. ASSUME NEW u \in Threads, pc'[u] = "wait" PROVE ~done'[u]
    <3>1. PICK h \in Threads :
            /\ done' = [done EXCEPT ![h] = @ \/ h # t]
            /\ pc' = Signalled({h} \ {t})
      BY <1>3 DEF RetireNext, PopReady
    <3>2. pc[u] = "wait" /\ (u # h \/ u = t)
      BY <2>2, <3>1 DEF Signalled
    <3>3. u # t
      BY <2>1, <2>2
    <3>4. ~done[u] /\ done'[u] = done[u]
      BY <3>1, <3>2, <3>3
    <3>5. QED BY <3>4
  <2>3. QED BY <2>1, <2>2
<1>4. ASSUME NEW t \in Threads, RetireLast(t) PROVE NoLostWakeup'
  <2>1. writers' # <<>> => Head(writers') \in Threads
    BY <1>4, LeaderSeesQueue, HeadTailProperties DEF RetireLast, PopReady
  <2>2. QED BY <1>4, <2>1 DEF RetireLast, PopReady, Signalled, NextLeader
<1>5. ASSUME NEW t \in Threads, Call(t) PROVE NoLostWakeup'
  <2>1. /\ pc[t] = "idle" /\ pc'[t] = "lock" /\ writers' = writers
        /\ \A u \in Threads \ {t} : pc'[u] = pc[u] /\ done'[u] = done[u]
    BY <1>5 DEF Call
  <2>2. \A u \in Threads : pc'[u] = "wait" => ~done'[u]
    BY <2>1
  <2>3. ASSUME writers' # <<>>, pc'[Head(writers')] = "wait"
        PROVE  \E u \in Threads : pc'[u] = "retire"
    <3>1. Head(writers) \in Threads /\ writers # <<>>
      BY <2>1, <2>3
    <3>2. pc[Head(writers)] = "wait"
      BY <2>1, <2>3, <3>1
    <3>3. PICK u \in Threads : pc[u] = "retire"
      BY <3>1, <3>2
    <3>4. QED BY <2>1, <3>3
  <2>4. QED BY <2>2, <2>3
<1>6. ASSUME NEW t \in Threads, Wait(t) PROVE NoLostWakeup'
  BY <1>6 DEF Wait, MustWait
<1>7. ASSUME NEW t \in Threads, Rewake(t) PROVE NoLostWakeup'
  BY <1>7 DEF Rewake
<1>8. ASSUME NEW t \in Threads, ReturnDone(t) PROVE NoLostWakeup'
  BY <1>8 DEF ReturnDone
<1>9. ASSUME NEW t \in Threads, Lead(t) PROVE NoLostWakeup'
  BY <1>9 DEF Lead, MustWait
<1>10. ASSUME NEW t \in Threads, AppendNext(t) PROVE NoLostWakeup'
  BY <1>10 DEF AppendNext
<1>11. ASSUME NEW t \in Threads, EndBuild(t) PROVE NoLostWakeup'
  <2>1. /\ pc[t] = "build" /\ UNCHANGED <<writers, done>>
        /\ pc'[t] = "io"
        /\ \A u \in Threads \ {t} : pc'[u] = pc[u]
    BY <1>11 DEF EndBuild
  <2>2. \A u \in Threads : pc'[u] = "wait" <=> pc[u] = "wait"
    BY <2>1
  <2>3. ASSUME writers # <<>>, pc'[Head(writers)] = "wait"
        PROVE  \E u \in Threads : pc'[u] = "retire"
    <3>1. PICK u \in Threads : pc[u] = "retire"
      BY <2>2, <2>3
    <3>2. QED BY <2>1, <3>1
  <2>4. QED BY <2>1, <2>2, <2>3
<1>12. ASSUME NEW t \in Threads, LogGroup(t) PROVE NoLostWakeup'
  BY <1>12 DEF LogGroup
<1>13. ASSUME NEW t \in Threads, Relock(t) PROVE NoLostWakeup'
  BY <1>13 DEF Relock
<1>14. ASSUME NEW t \in Threads, SpuriousWakeup(t) PROVE NoLostWakeup'
  <2>1. /\ pc[t] = "wait" /\ pc' = [pc EXCEPT ![t] = "wake"]
        /\ UNCHANGED <<writers, done>>
    BY <1>14 DEF SpuriousWakeup
  <2>2. \A u \in Threads : pc'[u] = "wait" => pc[u] = "wait"
    BY <2>1
  <2>3. \A u \in Threads : pc[u] = "retire" => pc'[u] = "retire"
    BY <2>1
  <2>4. writers # <<>> => Head(writers) \in Threads
    BY HeadTailProperties
  <2>5. QED BY <2>1, <2>2, <2>3, <2>4
<1>15. QED
  BY <1>1, <1>2, <1>3, <1>4, <1>5, <1>6, <1>7, <1>8, <1>9, <1>10, <1>11, <1>12, <1>13, <1>14
     DEF Next, Client, Writing, Put, Clear, vars, mem

(* No wakeup is lost: a writer told to return does not sleep, and the front *)
(* of the queue sleeps only while a leader is on its way to signal it.      *)
THEOREM NoWakeupIsLost == Spec => []NoLostWakeup
<1>1. Init => NoLostWakeup
  BY DEF Init, NoLostWakeup
<1>2. QED
  BY <1>1, WakeStep, TypeControlInvariant, PTL DEF Spec

-----------------------------------------------------------------------------
(* Durability *)

LEMMA FrontInGroup ==
  ASSUME TypeOK, NEW t \in Threads, writers # <<>>
  PROVE  Head(writers) \in Group(t)
<1>1. 1 \in DOMAIN writers /\ Head(writers) = writers[1]
  BY DEF TypeOK
<1>2. QED BY <1>1 DEF Group

LEMMA GroupIsQueued ==
  ASSUME TypeOK, NEW t \in Threads
  PROVE  Group(t) \subseteq Queued /\ Group(t) \subseteq Threads
<1>1. Group(t) \subseteq Queued
  BY DEF Group, Queued, Range
<1>2. QED BY <1>1, RangeOfSeq DEF TypeOK, Queued

(* Writers that arrive after the group was built do not join it.           *)
LEMMA GroupAfterPush ==
  ASSUME TypeOK, NEW t \in Threads, NEW x \in Threads,
         last[t] \in Queued, writers' = Append(writers, x), last' = last
  PROVE  Group(t)' \subseteq Group(t)
<1>1. PICK p \in DOMAIN writers : writers[p] = last[t]
  BY DEF Queued, Range
<1>2. /\ Len(writers) \in Nat /\ DOMAIN writers = 1 .. Len(writers)
      /\ DOMAIN writers' = 1 .. Len(writers) + 1
      /\ \A i \in DOMAIN writers : writers'[i] = writers[i]
  <2>1. writers \in Seq(Threads)
    BY DEF TypeOK
  <2>2. writers' \in Seq(Threads) /\ Len(writers') = Len(writers) + 1
    BY <2>1, AppendProperties
  <2>3. QED BY <2>1, <2>2, AppendProperties
<1>3. SUFFICES ASSUME NEW i \in DOMAIN writers',
                      \A k \in 1 .. i - 1 : writers'[k] # last[t]
               PROVE  writers'[i] \in Group(t)
  BY DEF Group
<1>4. i \in DOMAIN writers
  BY <1>1, <1>2, <1>3
<1>5. QED BY <1>2, <1>3, <1>4 DEF Group

(* Popping a Writer other than the last leaves the rest of the group.      *)
LEMMA GroupAfterPop ==
  ASSUME TypeOK, NEW t \in Threads, writers # <<>>,
         Head(writers) # last[t], writers' = Tail(writers), last' = last
  PROVE  Group(t)' \subseteq Group(t)
<1>1. /\ Len(writers') = Len(writers) - 1 /\ Len(writers) \in Nat \ {0}
      /\ DOMAIN writers' = 1 .. Len(writers)'
      /\ DOMAIN writers = 1 .. Len(writers)
      /\ \A i \in DOMAIN writers' : writers'[i] = writers[i + 1]
      /\ Head(writers) = writers[1]
  BY HeadTailProperties DEF TypeOK
<1>2. SUFFICES ASSUME NEW i \in DOMAIN writers',
                      \A k \in 1 .. i - 1 : writers'[k] # last[t]
               PROVE  writers'[i] \in Group(t)
  BY DEF Group
<1>3. ASSUME NEW k \in 1 .. i PROVE writers[k] # last[t]
  <2>1. CASE k = 1
    BY <1>1, <2>1
  <2>2. CASE k # 1
    <3>1. k - 1 \in 1 .. i - 1 /\ k - 1 \in DOMAIN writers'
      BY <1>1, <2>2
    <3>2. writers'[k - 1] = writers[k]
      BY <1>1, <3>1
    <3>3. QED BY <1>2, <3>1, <3>2
  <2>3. QED BY <2>1, <2>2
<1>4. i + 1 \in DOMAIN writers
  BY <1>1
<1>5. QED BY <1>1, <1>3, <1>4 DEF Group

(* Taking writers[i] into the group adds nobody else.                      *)
LEMMA GroupAfterJoin ==
  ASSUME TypeOK, IsInjective(writers), NEW t \in Threads,
         NEW i \in 2 .. Len(writers), writers[i - 1] = last[t],
         last'[t] = writers[i], writers' = writers
  PROVE  Group(t)' \subseteq Group(t) \cup {writers[i]}
<1>1. DOMAIN writers = 1 .. Len(writers) /\ Len(writers) \in Nat
  BY DEF TypeOK
<1>2. SUFFICES ASSUME NEW j \in DOMAIN writers, j # i,
                      \A k \in 1 .. j - 1 : writers[k] # writers[i]
               PROVE  writers[j] \in Group(t)
  BY DEF Group
<1>3. j \in 1 .. i - 1
  BY <1>1, <1>2
<1>4. ASSUME NEW k \in 1 .. j - 1 PROVE writers[k] # last[t]
  BY <1>1, <1>3 DEF IsInjective
<1>5. QED BY <1>4 DEF Group

LEMMA DurableStep ==
  TypeOK /\ ControlInv /\ DurableInv /\ [Next]_vars => DurableInv'
<1> SUFFICES ASSUME TypeOK, ControlInv, DurableInv, [Next]_vars
             PROVE  DurableInv'
  OBVIOUS
<1> USE DEF TypeOK, Goto, mem, DurableInv, BatchIntact, GroupCovered,
            DoneCovered, AckedIsLogged, Waiting
<1>g. \A t \in Threads : Group(t) \subseteq Queued /\ Group(t) \subseteq Threads
  BY GroupIsQueued
<1>1. ASSUME UNCHANGED vars PROVE DurableInv'
  <2>1. \A t \in Threads : Group(t)' = Group(t)
    BY <1>1 DEF vars, Group
  <2>2. QED BY <1>1, <2>1 DEF vars
<1>2. ASSUME NEW t \in Threads, Put(t) PROVE DurableInv'
  <2>1. \A u \in Threads : Group(u)' = Group(u)
    BY <1>2 DEF Put, Group
  <2>2. QED BY <1>2, <2>1 DEF Put
<1>3. ASSUME NEW t \in Threads, Clear(t) PROVE DurableInv'
  <2>1. \A u \in Threads : Group(u)' = Group(u)
    BY <1>3 DEF Clear, Group
  <2>2. QED BY <1>3, <2>1 DEF Clear
<1>4. ASSUME NEW t \in Threads, Wait(t) PROVE DurableInv'
  <2>1. \A u \in Threads : Group(u)' = Group(u)
    BY <1>4 DEF Wait, Group
  <2>2. QED BY <1>4, <2>1 DEF Wait
<1>5. ASSUME NEW t \in Threads, Rewake(t) PROVE DurableInv'
  <2>1. \A u \in Threads : Group(u)' = Group(u)
    BY <1>5 DEF Rewake, Group
  <2>2. QED BY <1>5, <2>1 DEF Rewake
<1>6. ASSUME NEW t \in Threads, ReturnDone(t) PROVE DurableInv'
  <2>1. \A u \in Threads : Group(u)' = Group(u)
    BY <1>6 DEF ReturnDone, Group
  <2>2. QED BY <1>6, <2>1 DEF ReturnDone
<1>7. ASSUME NEW t \in Threads, EndBuild(t) PROVE DurableInv'
  <2>1. \A u \in Threads : Group(u)' = Group(u)
    BY <1>7 DEF EndBuild, Group
  <2>2. QED BY <1>7, <2>1 DEF EndBuild
<1>8. ASSUME NEW t \in Threads, Relock(t) PROVE DurableInv'
  <2>1. \A u \in Threads : Group(u)' = Group(u)
    BY <1>8 DEF Relock, Group
  <2>2. QED BY <1>8, <2>1 DEF Relock
<1>9. ASSUME NEW t \in Threads, SpuriousWakeup(t) PROVE DurableInv'
  <2>1. \A u \in Threads : Group(u)' = Group(u)
    BY <1>9 DEF SpuriousWakeup, Group
  <2>2. QED BY <1>9, <2>1 DEF SpuriousWakeup
<1>10. ASSUME NEW t \in Threads, Call(t) PROVE DurableInv'
  <2>1. \A u \in Threads \ {t} : Group(u)' = Group(u)
    BY <1>10 DEF Call, Group
  <2>2. t \notin Queued
    BY <1>10 DEF Call, ControlInv, QueueIsAlive
  <2>3. BatchIntact' /\ DoneCovered' /\ AckedIsLogged'
    BY <1>10 DEF Call
  <2>4. ASSUME NEW u \in Threads, NEW v \in Group(u)', u # t
        PROVE  v # t /\ v \in Group(u)
    BY <1>g, <2>1, <2>2, <2>4
  <2>5. GroupCovered'
    <3>1. /\ pc'[t] = "lock" /\ UNCHANGED <<rep, wal>>
          /\ \A u \in Threads \ {t} : pc'[u] = pc[u] /\ sub'[u] = sub[u]
      BY <1>10 DEF Call
    <3>2. ASSUME NEW u \in Threads, NEW v \in Group(u)', u # t
          PROVE  /\ pc'[u] \in {"build", "io"}
                      => Range(sub'[v]) \subseteq Range(rep'[u])
                 /\ pc'[u] \in {"relock", "retire"}
                      => Range(sub'[v]) \subseteq Range(wal')
      <4>1. v \in Group(u) /\ v \in Threads \ {t}
        BY <1>g, <2>4, <3>2
      <4>2. sub'[v] = sub[v] /\ pc'[u] = pc[u]
        BY <3>1, <3>2, <4>1
      <4>3. QED BY <3>1, <4>1, <4>2
    <3>3. QED BY <3>1, <3>2
  <2>6. QED BY <2>3, <2>5
<1>11. ASSUME NEW t \in Threads, Enqueue(t) PROVE DurableInv'
  <2>1. \A u \in Threads : pc[u] \in Leading => Group(u)' \subseteq Group(u)
    BY <1>11, GroupAfterPush DEF Enqueue, ControlInv, OneLeader
  <2>2. ~ done[t]
    BY <1>11 DEF Enqueue, ControlInv, WaitersQueued
  <2>3. BatchIntact' /\ AckedIsLogged'
    BY <1>11 DEF Enqueue
  <2>4. GroupCovered'
    BY <1>11, <1>g, <2>1 DEF Enqueue, Leading
  <2>5. DoneCovered'
    BY <1>11, <2>2 DEF Enqueue
  <2>6. QED BY <2>3, <2>4, <2>5
<1>12. ASSUME NEW t \in Threads, Lead(t) PROVE DurableInv'
  <2>1. Group(t)' \subseteq {t}
    <3>1. /\ pc[t] = "check" /\ Head(writers) = t /\ last'[t] = t
          /\ writers' = writers
      BY <1>12 DEF Lead, MustWait
    <3>2. t \in Queued
      BY <1>12 DEF Lead, MustWait, ControlInv, WaitersQueued
    <3>3. Len(writers) \in Nat \ {0} /\ DOMAIN writers = 1 .. Len(writers)
          /\ writers[1] = t
      BY <3>1, <3>2, InQueue DEF Queued
    <3>4. ASSUME NEW i \in 1 .. Len(writers),
                 \A k \in 1 .. i - 1 : writers[k] # t
          PROVE  i = 1
      <4>1. i \in Nat /\ i >= 1
        BY ONLY <3>3, i \in 1 .. Len(writers)
      <4>2. 1 \notin 1 .. i - 1
        BY ONLY <3>3, <3>4
      <4>3. QED BY ONLY <4>1, <4>2
    <3>5. SUFFICES ASSUME NEW v \in Group(t)' PROVE v = t
      OBVIOUS
    <3>6. PICK i \in DOMAIN writers :
            v = writers[i] /\ \A k \in 1 .. i - 1 : writers[k] # t
      BY ONLY <3>1, <3>5 DEF Group
    <3>7. i = 1
      BY ONLY <3>3, <3>4, <3>6
    <3>8. QED BY ONLY <3>3, <3>6, <3>7
  <2>2. \A u \in Threads \ {t} : Group(u)' = Group(u)
    BY <1>12 DEF Lead, MustWait, Group
  <2>3. /\ pc[t] = "check" /\ pc'[t] = "build" /\ ~done[t]
        /\ UNCHANGED <<done, rep, sub, wal, acked>>
        /\ \A u \in Threads \ {t} : pc'[u] = pc[u]
    BY <1>12 DEF Lead, MustWait
  <2>4. BatchIntact' /\ DoneCovered' /\ AckedIsLogged'
    BY <2>3
  <2>5. GroupCovered'
    <3>1. ASSUME NEW v \in Group(t)'
          PROVE  Range(sub'[v]) \subseteq Range(rep'[t])
      <4>1. v = t /\ rep[t] = sub[t]
        BY <2>1, <2>3
      <4>2. QED BY <2>3, <4>1
    <3>2. ASSUME NEW u \in Threads \ {t}, NEW v \in Group(u)'
          PROVE  /\ pc'[u] \in {"build", "io"}
                      => Range(sub'[v]) \subseteq Range(rep'[u])
                 /\ pc'[u] \in {"relock", "retire"}
                      => Range(sub'[v]) \subseteq Range(wal')
      <4>1. v \in Group(u) /\ pc'[u] = pc[u]
        BY <2>2, <2>3
      <4>2. QED BY <2>3, <4>1
    <3>3. QED BY <2>3, <3>1, <3>2
  <2>6. QED BY <2>4, <2>5
<1>13. ASSUME NEW t \in Threads, AppendNext(t) PROVE DurableInv'
  <2>1. PICK i \in 2 .. Len(writers) :
          /\ writers[i - 1] = last[t]
          /\ rep' = [rep EXCEPT ![t] = rep[t] \o rep[writers[i]]]
          /\ last' = [last EXCEPT ![t] = writers[i]]
          /\ pc[t] = "build" /\ UNCHANGED <<pc, writers, done, sub, wal, acked>>
    BY <1>13 DEF AppendNext, Joins, AppendBatch
  <2> DEFINE w == writers[i]
  <2>2. w \in Threads /\ w \in Queued /\ w # t
    <3>1. i \in DOMAIN writers /\ 1 \in DOMAIN writers /\ i # 1
      <4>1. Len(writers) \in Nat /\ DOMAIN writers = 1 .. Len(writers)
        BY DEF TypeOK
      <4>2. QED BY ONLY <2>1, <4>1
    <3>2. Head(writers) = t
      BY <2>1 DEF ControlInv, OneLeader
    <3>3. writers[1] = t
      BY <3>1, <3>2
    <3>4. w # t
      BY <3>1, <3>3 DEF ControlInv, QueueIsAlive, IsInjective
    <3>5. QED BY <3>1, <3>4 DEF Queued, Range
  <2>3. pc[w] \in Waiting
    <3>1. pc[w] \in Location /\ pc[w] # "idle" /\ pc[w] \notin Leading
      BY <2>1, <2>2 DEF ControlInv, OneLeader, QueueIsAlive, Leading
    <3>2. QED BY <3>1 DEF Location
  <2>4. Range(rep'[t]) = Range(rep[t]) \cup Range(sub[w])
    <3>1. rep'[t] = rep[t] \o rep[w] /\ rep[w] = sub[w]
      BY <2>1, <2>2, <2>3
    <3>2. rep[t] \in Seq(Record) /\ rep[w] \in Seq(Record)
      BY ONLY TypeOK, <2>2 DEF TypeOK
    <3>3. Range(rep[t] \o rep[w]) = Range(rep[t]) \cup Range(rep[w])
      BY ONLY <3>2, RangeConcatenation
    <3>4. QED BY ONLY <3>1, <3>3
  <2>5. Group(t)' \subseteq Group(t) \cup {w}
    BY <2>1, GroupAfterJoin DEF ControlInv, QueueIsAlive
  <2>6. \A u \in Threads \ {t} : Group(u)' = Group(u) /\ rep'[u] = rep[u]
    BY <2>1 DEF Group
  <2>7. BatchIntact' /\ DoneCovered' /\ AckedIsLogged'
    BY <2>1, <2>6
  <2>8. GroupCovered'
    <3>1. \A u \in Threads \ {t} : pc'[u] \notin Leading
      BY <2>1 DEF ControlInv, OneLeader, Leading
    <3>2. ASSUME NEW v \in Group(t)'
          PROVE  Range(sub'[v]) \subseteq Range(rep'[t])
      BY <2>1, <2>4, <2>5
    <3>3. QED BY <2>1, <3>1, <3>2 DEF Leading
  <2>9. QED BY <2>7, <2>8
<1>14. ASSUME NEW t \in Threads, LogGroup(t) PROVE DurableInv'
  <2>1. \A u \in Threads : Group(u)' = Group(u)
    BY <1>14 DEF LogGroup, Group
  <2>2. Range(wal') = Range(wal) \cup Range(rep[t])
    BY <1>14, RangeConcatenation DEF LogGroup
  <2>3. t \in Group(t)
    BY <1>14, FrontInGroup, LeaderSeesQueue
       DEF LogGroup, ControlInv, OneLeader, Leading
  <2>4. /\ pc[t] = "io" /\ pc'[t] = "relock" /\ \A u \in Threads \ {t} : pc'[u] = pc[u]
        /\ UNCHANGED <<done, rep, sub, acked>>
    BY <1>14 DEF LogGroup
  <2>5. BatchIntact' /\ AckedIsLogged'
    BY <2>2, <2>4
  <2>6. GroupCovered'
    <3>1. ASSUME NEW u \in Threads, NEW v \in Group(u)
          PROVE  /\ pc'[u] \in {"build", "io"} => Range(sub[v]) \subseteq Range(rep[u])
                 /\ pc'[u] \in {"relock", "retire"} => Range(sub[v]) \subseteq Range(wal')
      BY <2>2, <2>4
    <3>2. QED BY <2>1, <2>4, <3>1
  <2>7. DoneCovered'
    BY <2>2, <2>3, <2>4
  <2>8. QED BY <2>5, <2>6, <2>7
<1>15. ASSUME NEW t \in Threads, RetireNext(t) PROVE DurableInv'
  <2>1. /\ pc[t] = "retire" /\ pc'[t] = "retire"
        /\ \A u \in Threads \ {t} :
             pc'[u] = pc[u] \/ (pc[u] = "wait" /\ pc'[u] = "wake")
    BY <1>15 DEF RetireNext, PopReady, Signalled
  <2>2. /\ \A u \in Threads : done'[u] => done[u] \/ u = Head(writers)
        /\ UNCHANGED <<last, rep, sub, wal, acked>>
        /\ writers' = Tail(writers) /\ Head(writers) # last[t]
    BY <1>15 DEF RetireNext, PopReady
  <2>3. Group(t)' \subseteq Group(t) /\ Head(writers) \in Group(t)
    BY <2>1, <2>2, LeaderSeesQueue, GroupAfterPop, FrontInGroup DEF Leading
  <2>4. \A u \in Threads : pc[u] \in Leading => u = t
    BY <2>1 DEF ControlInv, OneLeader, Leading
  <2>5. BatchIntact' /\ AckedIsLogged'
    BY <2>1, <2>2
  <2>6. GroupCovered'
    BY <2>1, <2>2, <2>3, <2>4 DEF Leading
  <2>7. DoneCovered'
    <3>1. ASSUME NEW u \in Threads, u # t,
                 pc'[u] \in {"check", "wait", "wake"}, done'[u]
          PROVE  Range(sub[u]) \subseteq Range(wal)
      BY <2>1, <2>2, <2>3, <3>1
    <3>2. QED BY <2>1, <2>2, <2>4, <3>1 DEF Leading
  <2>8. QED BY <2>5, <2>6, <2>7
<1>16. ASSUME NEW t \in Threads, RetireLast(t) PROVE DurableInv'
  <2>1. /\ pc[t] = "retire" /\ pc'[t] = "idle"
        /\ \A u \in Threads \ {t} :
             pc'[u] = pc[u] \/ (pc[u] = "wait" /\ pc'[u] = "wake")
    BY <1>16 DEF RetireLast, PopReady, Signalled
  <2>2. /\ \A u \in Threads : done'[u] => done[u] \/ u = Head(writers)
        /\ UNCHANGED <<rep, sub, wal>> /\ acked' = acked \cup Range(sub[t])
    BY <1>16 DEF RetireLast, PopReady
  <2>3. Head(writers) \in Group(t)
    BY <2>1, LeaderSeesQueue, FrontInGroup DEF Leading
  <2>4. \A u \in Threads : pc'[u] \notin Leading
    BY <2>1 DEF ControlInv, OneLeader, Leading
  <2>5. BatchIntact' /\ AckedIsLogged'
    BY <2>1, <2>2
  <2>6. GroupCovered'
    BY <2>4 DEF Leading
  <2>7. DoneCovered'
    <3>1. ASSUME NEW u \in Threads, u # t,
                 pc'[u] \in {"check", "wait", "wake"}, done'[u]
          PROVE  Range(sub[u]) \subseteq Range(wal)
      BY <2>1, <2>2, <2>3, <3>1
    <3>2. QED BY <2>1, <2>2, <2>4, <3>1 DEF Leading
  <2>8. QED BY <2>5, <2>6, <2>7
<1>17. QED
  BY <1>1, <1>2, <1>3, <1>4, <1>5, <1>6, <1>7, <1>8, <1>9, <1>10, <1>11, <1>12, <1>13, <1>14, <1>15, <1>16
     DEF Next, Client, Writing

(* A Write that has returned, as leader or as follower, has its records in *)
(* the log, for any number of threads and calls and any batch limit.       *)
THEOREM AckedStaysLogged == Spec => []AckedIsLogged
<1>1. Init => DurableInv
  BY DEF Init, DurableInv, BatchIntact, GroupCovered, DoneCovered,
         AckedIsLogged, Waiting
<1>2. DurableInv => AckedIsLogged
  BY DEF DurableInv
<1>3. QED
  BY <1>1, <1>2, DurableStep, TypeControlInvariant, PTL DEF Spec

-----------------------------------------------------------------------------
(* Batches *)

LEMMA PrefixOfConcat ==
  ASSUME NEW S, NEW s \in Seq(S), NEW x \in Seq(S)
  PROVE  IsPrefix(s, s \o x)
<1>1. /\ Len(s) \in Nat /\ Len(x) \in Nat
      /\ Len(s \o x) = Len(s) + Len(x)
      /\ \A i \in 1 .. Len(s) : (s \o x)[i] = s[i]
  BY ConcatProperties
<1>2. SubSeq(s, 1, Len(s)) = SubSeq(s \o x, 1, Len(s))
  BY <1>1
<1>3. QED BY <1>1, <1>2 DEF IsPrefix

(* While a call is in progress its batch changes only by growing, and only *)
(* if its thread is the leader that builds a group.                        *)
THEOREM FollowersBatchesKept == Spec => OnlyLeaderBatchGrows
<1> DEFINE A == \A t \in Threads : pc[t] # "idle" /\ rep'[t] # rep[t] =>
                  /\ pc[t] = "build"
                  /\ IsPrefix(rep[t], rep'[t])
<1>1. ASSUME TypeOK, [Next]_vars PROVE [A]_vars
  <2>1. ASSUME NEW t \in Threads, Put(t) \/ Clear(t) PROVE A
    BY <1>1, <2>1 DEF Put, Clear, TypeOK
  <2>2. ASSUME NEW t \in Threads, AppendNext(t) PROVE A
    <3>1. PICK i \in DOMAIN writers :
            rep' = [rep EXCEPT ![t] = rep[t] \o rep[writers[i]]]
      BY <2>2 DEF AppendNext, AppendBatch
    <3>2. pc[t] = "build" /\ writers[i] \in Threads
      BY <1>1, <2>2, ElementOfSeq DEF AppendNext, TypeOK
    <3>3. IsPrefix(rep[t], rep'[t])
      BY <1>1, <3>1, <3>2, PrefixOfConcat DEF TypeOK
    <3>4. QED BY <1>1, <3>1, <3>2, <3>3 DEF TypeOK
  <2>3. ASSUME rep' = rep PROVE A
    BY <2>3
  <2>4. QED
    BY <1>1, <2>1, <2>2, <2>3
       DEF Next, Client, Writing, SpuriousWakeup, Call, Enqueue, Wait, Rewake,
           ReturnDone, Lead, EndBuild, LogGroup, Relock, RetireNext,
           RetireLast, mem, vars
<1>2. QED
  BY <1>1, TypeCorrect, PTL DEF Spec, OnlyLeaderBatchGrows

-----------------------------------------------------------------------------
(* The log is what writers_ received, in its order.                        *)
(*                                                                         *)
(* The argument cuts enq at the borders of the batches: cut[i - 1] and     *)
(* cut[i] are the borders of what was received for writers_[i].  A batch   *)
(* that no leader has taken lies between its own borders, the batch of a   *)
(* leader that has taken writers_[1] to writers_[j] between cut[0] and     *)
(* cut[j], and the log ends at cut[0] or, when the group is logged and not *)
(* yet retired, at cut[j].                                                 *)

Positions == 1 .. Len(writers)

(* The batch b is what enq holds from this border to that.                 *)
Matches(b, from, to) ==
  /\ Len(b) = to - from
  /\ \A k \in 1 .. Len(b) : b[k] = enq[from + k]

(* Every leader's group ends before writers_[i].                           *)
NotTaken(i) ==
  \A t \in Threads :
    pc[t] \in Leading => \E j \in 1 .. i - 1 : writers[j] = last[t]

OwnPlace(cut) ==
  \A i \in Positions :
    NotTaken(i) => Matches(rep[writers[i]], cut[i - 1], cut[i])

GroupPlace(cut) ==
  \A t \in Threads : \A j \in Positions :
    pc[t] \in {"build", "io"} /\ writers[j] = last[t]
      => Matches(rep[t], cut[0], cut[j])

LogEnd(cut) ==
  /\ \A t \in Threads : \A j \in Positions :
       pc[t] \in {"relock", "retire"} /\ writers[j] = last[t]
         => Len(wal) = cut[j]
  /\ (\A t \in Threads : pc[t] \notin {"relock", "retire"})
       => Len(wal) = cut[0]

LogMatches ==
  /\ Len(wal) <= Len(enq)
  /\ \A k \in 1 .. Len(wal) : wal[k] = enq[k]

Cuts == [0 .. Len(writers) -> 0 .. Len(enq)]

InPlace(cut) ==
  /\ cut[Len(writers)] = Len(enq)
  /\ OwnPlace(cut)
  /\ GroupPlace(cut)
  /\ LogEnd(cut)

OrderInv == LogMatches /\ \E cut \in Cuts : InPlace(cut)

-----------------------------------------------------------------------------
LEMMA OrderInit == Init => OrderInv
<1> SUFFICES ASSUME Init PROVE OrderInv
  OBVIOUS
<1> DEFINE cut == [i \in 0 .. 0 |-> 0]
<1>1. /\ Len(writers) = 0 /\ Len(enq) = 0 /\ Len(wal) = 0
      /\ \A t \in Threads : pc[t] = "idle"
  BY DEF Init
<1>2. cut \in Cuts
  BY <1>1 DEF Cuts
<1>3. InPlace(cut)
  BY <1>1 DEF InPlace, OwnPlace, GroupPlace, LogEnd, Positions
<1>4. QED BY <1>1, <1>2, <1>3 DEF OrderInv, LogMatches

(* The types of the queue, of the batches and of the logs, for arithmetic. *)
LEMMA Lengths ==
  ASSUME TypeOK
  PROVE  /\ writers \in Seq(Threads) /\ Len(writers) \in Nat
         /\ enq \in Seq(Record) /\ Len(enq) \in Nat
         /\ wal \in Seq(Record) /\ Len(wal) \in Nat
         /\ \A i \in Positions : writers[i] \in Threads
         /\ \A t \in Threads : rep[t] \in Seq(Record) /\ Len(rep[t]) \in Nat
BY DEF TypeOK, Positions

(* Steps that leave the queue, the log and the batches of queued writers   *)
(* alone, and nobody begins to lead, logs or retires.                      *)
LEMMA OrderKept ==
  ASSUME TypeOK, ControlInv, OrderInv,
         writers' = writers, enq' = enq, wal' = wal,
         \A t \in Threads :
           /\ pc[t] \in {"build", "io"} <=> pc'[t] \in {"build", "io"}
           /\ pc[t] \in {"relock", "retire"} <=> pc'[t] \in {"relock", "retire"}
           /\ pc[t] \in Leading => last'[t] = last[t]
           /\ t \in Queued => rep'[t] = rep[t]
  PROVE  OrderInv'
<1>1. PICK cut \in Cuts : InPlace(cut)
  BY DEF OrderInv
<1>2. \A t \in Threads : pc[t] \in Leading <=> pc'[t] \in Leading
  BY DEF Leading
<1>3. \A i \in Positions : writers[i] \in Queued /\ writers[i] \in Threads
  BY Lengths DEF Queued, Range, Positions
<1>4. \A i \in Positions : NotTaken(i)' => NotTaken(i)
  BY <1>2 DEF NotTaken
<1>5. OwnPlace(cut)'
  <2>1. Positions' = Positions
    BY DEF Positions
  <2>2. ASSUME NEW i \in Positions, NotTaken(i)'
        PROVE  Matches(rep[writers[i]], cut[i - 1], cut[i])'
    <3>1. Matches(rep[writers[i]], cut[i - 1], cut[i])
      BY <1>1, <1>4, <2>2 DEF InPlace, OwnPlace
    <3>2. rep'[writers'[i]] = rep[writers[i]]
      BY <1>3
    <3> QED
      BY <3>1, <3>2 DEF Matches
  <2> QED
    BY <2>1, <2>2 DEF OwnPlace
<1>6. \A t \in Threads : pc[t] \in {"build", "io"} => t \in Queued
  BY LeaderSeesQueue, Lengths DEF ControlInv, OneLeader, Leading, Queued, Range
<1>7. GroupPlace(cut)'
  BY <1>1, <1>6 DEF InPlace, GroupPlace, Matches, Positions, Leading
<1>8. LogEnd(cut)'
  BY <1>1 DEF InPlace, LogEnd, Positions, Leading
<1>9. cut \in Cuts' /\ InPlace(cut)'
  BY <1>1, <1>5, <1>7, <1>8 DEF Cuts, InPlace
<1>10. QED BY <1>9 DEF OrderInv, LogMatches

-----------------------------------------------------------------------------
(* One lemma for each step that moves a border or a batch *)

LEMMA OrderEnqueue ==
  ASSUME TypeOK, ControlInv, OrderInv, NEW t \in Threads, Enqueue(t)
  PROVE  OrderInv'
<1>1. PICK cut \in Cuts : InPlace(cut)
  BY DEF OrderInv
<1>2. /\ writers' = Append(writers, t) /\ enq' = enq \o rep[t]
      /\ rep' = rep /\ wal' = wal /\ last' = last
      /\ pc[t] = "lock" /\ pc' = [pc EXCEPT ![t] = "check"]
  BY DEF Enqueue, mem, Goto
<1> DEFINE n == Len(writers)
           e == Len(enq)
<1>3. /\ n \in Nat /\ e \in Nat /\ Len(rep[t]) \in Nat /\ Len(wal) \in Nat
      /\ Len(writers)' = n + 1 /\ writers'[n + 1] = t
      /\ \A i \in 1 .. n : writers'[i] = writers[i]
  BY <1>2, Lengths, AppendProperties
<1>4. /\ Len(enq)' = e + Len(rep[t])
      /\ \A k \in 1 .. e : enq'[k] = enq[k]
      /\ \A k \in 1 .. Len(rep[t]) : enq'[e + k] = rep[t][k]
  BY <1>2, Lengths, ConcatProperties
<1>5. /\ cut \in [0 .. n -> 0 .. e] /\ cut[n] = e
      /\ OwnPlace(cut) /\ GroupPlace(cut) /\ LogEnd(cut)
  BY <1>1 DEF Cuts, InPlace
<1>6. t \notin Queued
  BY <1>2 DEF ControlInv, QueueIsAlive
<1>7. \A u \in Threads : pc'[u] = pc[u] \/ (u = t /\ pc'[u] = "check")
  BY <1>2 DEF TypeOK
<1>8. \A u \in Threads : pc[u] \in Leading => last[u] # t
  BY <1>6 DEF ControlInv, OneLeader
<1>9. PICK new : new = [i \in 0 .. n + 1 |-> IF i = n + 1 THEN e + Len(rep[t]) ELSE cut[i]]
  OBVIOUS
<1>10. /\ new \in Cuts'
       /\ new[n + 1] = e + Len(rep[t]) /\ \A i \in 0 .. n : new[i] = cut[i]
  BY <1>3, <1>4, <1>5, <1>9 DEF Cuts
<1>11. ASSUME NEW i \in 1 .. n + 1, NotTaken(i)'
       PROVE  Matches(rep[writers[i]], new[i - 1], new[i])'
  <2>1. CASE i = n + 1
    <3>1. new[i - 1] = e /\ new[i] = e + Len(rep[t])
      BY <1>3, <1>5, <1>10, <2>1
    <3>2. rep'[writers'[i]] = rep[t]
      BY <1>2, <1>3, <2>1
    <3>3. Len(rep[t]) = new[i] - new[i - 1]
      BY <1>3, <3>1
    <3>4. \A k \in 1 .. Len(rep[t]) : rep[t][k] = enq'[new[i - 1] + k]
      BY <1>4, <3>1
    <3>5. QED BY <3>2, <3>3, <3>4 DEF Matches
  <2>2. CASE i # n + 1
    <3>1. i \in 1 .. n /\ i - 1 \in 0 .. n /\ i \in 0 .. n
      BY <1>3, <2>2
    <3>2. \A u \in Threads : pc[u] \in Leading => pc'[u] \in Leading
      BY <1>2, <1>7 DEF Leading
    <3>3. \A j \in 1 .. i - 1 : writers'[j] = writers[j]
      BY <1>3, <3>1
    <3>4. NotTaken(i)
      BY <1>2, <1>11, <3>2, <3>3 DEF NotTaken
    <3>5. Matches(rep[writers[i]], cut[i - 1], cut[i])
      BY <1>5, <3>1, <3>4 DEF OwnPlace, Positions
    <3>6. writers'[i] = writers[i] /\ writers[i] \in Threads
      BY <1>3, <3>1, Lengths DEF Positions
    <3>7. cut[i - 1] \in 0 .. e /\ cut[i] \in 0 .. e
      BY <1>5, <3>1
    <3>8. rep[writers[i]] \in Seq(Record) /\ Len(rep[writers[i]]) \in Nat
      BY <3>6, Lengths
    <3>9. \A k \in 1 .. Len(rep[writers[i]]) : cut[i - 1] + k \in 1 .. e
      BY <1>3, <3>5, <3>7, <3>8 DEF Matches
    <3>10. QED
      BY <1>2, <1>4, <1>10, <3>1, <3>5, <3>6, <3>9 DEF Matches
  <2>3. QED BY <2>1, <2>2
<1>12. ASSUME NEW u \in Threads, NEW j \in 1 .. n + 1,
              pc'[u] \in Leading, writers'[j] = last[u]
       PROVE  j \in 1 .. n /\ writers[j] = last[u] /\ pc'[u] = pc[u]
  <2>1. pc'[u] = pc[u]
    BY <1>7, <1>12 DEF Leading
  <2>2. j # n + 1
    BY <1>3, <1>8, <1>12, <2>1
  <2>3. QED BY <1>3, <1>12, <2>1, <2>2
<1>13. GroupPlace(new)'
  <2>1. SUFFICES ASSUME NEW u \in Threads, NEW j \in 1 .. n + 1,
                        pc'[u] \in {"build", "io"}, writers'[j] = last[u]
                 PROVE  Matches(rep[u], new[0], new[j])'
    BY <1>2, <1>3 DEF GroupPlace, Positions
  <2>2. j \in 1 .. n /\ writers[j] = last[u] /\ pc'[u] = pc[u]
    BY <1>12, <2>1 DEF Leading
  <2>3. Matches(rep[u], cut[0], cut[j])
    BY <1>5, <2>1, <2>2 DEF GroupPlace, Positions
  <2>4. cut[0] \in 0 .. e /\ cut[j] \in 0 .. e
    BY <1>3, <1>5, <2>2
  <2>5. \A k \in 1 .. Len(rep[u]) : cut[0] + k \in 1 .. e
    BY <1>3, <2>3, <2>4, Lengths DEF Matches
  <2>6. new[0] = cut[0] /\ new[j] = cut[j]
    BY <1>3, <1>10, <2>2
  <2>7. QED BY <1>2, <1>4, <2>3, <2>5, <2>6 DEF Matches
<1>14. LogEnd(new)'
  <2>1. ASSUME NEW u \in Threads, NEW j \in 1 .. n + 1,
               pc'[u] \in {"relock", "retire"}, writers'[j] = last[u]
        PROVE  Len(wal) = new[j]
    <3>1. j \in 1 .. n /\ writers[j] = last[u] /\ pc'[u] = pc[u]
      BY <1>12, <2>1 DEF Leading
    <3>2. Len(wal) = cut[j]
      BY <1>5, <2>1, <3>1 DEF LogEnd, Positions
    <3>3. QED BY <1>3, <1>10, <3>1, <3>2
  <2>2. ASSUME \A u \in Threads : pc'[u] \notin {"relock", "retire"}
        PROVE  Len(wal) = new[0]
    <3>1. \A u \in Threads : pc[u] \notin {"relock", "retire"}
      BY <1>2, <1>7, <2>2
    <3>2. QED BY <1>3, <1>5, <1>10, <3>1 DEF LogEnd
  <2>3. QED BY <1>2, <1>3, <2>1, <2>2 DEF LogEnd, Positions
<1>15. LogMatches'
  BY <1>2, <1>3, <1>4 DEF OrderInv, LogMatches
<1>16. InPlace(new)'
  BY <1>3, <1>4, <1>10, <1>11, <1>13, <1>14 DEF InPlace, OwnPlace, Positions
<1>17. QED BY <1>10, <1>15, <1>16 DEF OrderInv

LEMMA OrderLead ==
  ASSUME TypeOK, ControlInv, OrderInv, NEW t \in Threads, Lead(t)
  PROVE  OrderInv'
<1>1. PICK cut \in Cuts : InPlace(cut)
  BY DEF OrderInv
<1>2. /\ writers' = writers /\ enq' = enq /\ wal' = wal /\ rep' = rep
      /\ pc[t] = "check" /\ pc' = [pc EXCEPT ![t] = "build"]
      /\ last' = [last EXCEPT ![t] = t]
      /\ ~done[t] /\ Head(writers) = t
  BY DEF Lead, MustWait, Goto, mem
<1>3. /\ pc'[t] = "build" /\ last'[t] = t
      /\ \A u \in Threads \ {t} : pc'[u] = pc[u] /\ last'[u] = last[u]
  BY <1>2 DEF TypeOK
<1>4. ControlInv'
  BY ControlStep DEF Next, Writing
<1>5. \A u \in Threads : pc[u] \notin Leading
  <2>1. ASSUME NEW u \in Threads, u # t PROVE pc[u] \notin Leading
    BY <1>3, <1>4, <2>1 DEF ControlInv, OneLeader, Leading
  <2>2. QED BY <1>2, <2>1 DEF Leading
<1>6. t \in Queued
  BY <1>2 DEF ControlInv, WaitersQueued
<1>7. writers # <<>> /\ 1 \in Positions /\ writers[1] = t
  BY <1>2, <1>6, Lengths DEF Queued, Range, Positions
<1>8. \A j \in Positions : writers[j] = t => j = 1
  BY <1>7, Lengths DEF ControlInv, QueueIsAlive, IsInjective, Positions
<1>9. \A i \in Positions : NotTaken(i)
  BY <1>5 DEF NotTaken
<1>10. \A i \in Positions : Matches(rep[writers[i]], cut[i - 1], cut[i])
  BY <1>1, <1>9 DEF InPlace, OwnPlace
<1>11. \A a, x, y : Matches(rep[a], x, y)' <=> Matches(rep[a], x, y)
  BY <1>2 DEF Matches
<1>12. OwnPlace(cut)'
  BY <1>2, <1>10, <1>11 DEF OwnPlace, Positions
<1>13. GroupPlace(cut)'
  <2>1. SUFFICES ASSUME NEW u \in Threads, NEW j \in Positions,
                        pc'[u] \in {"build", "io"}, writers[j] = last'[u]
                 PROVE  Matches(rep[u], cut[0], cut[j])
    BY <1>2, <1>11 DEF GroupPlace, Positions
  <2>2. u = t
    BY <1>3, <1>5, <2>1 DEF Leading
  <2>3. j = 1
    BY <1>3, <1>8, <2>1, <2>2
  <2>4. QED BY <1>7, <1>10, <2>2, <2>3
<1>14. Len(wal) = cut[0]
  BY <1>1, <1>5 DEF InPlace, LogEnd, Leading
<1>15. LogEnd(cut)'
  BY <1>2, <1>3, <1>5, <1>14 DEF LogEnd, Positions, Leading
<1>16. cut \in Cuts' /\ InPlace(cut)' /\ LogMatches'
  BY <1>1, <1>2, <1>12, <1>13, <1>15
     DEF Cuts, InPlace, OrderInv, LogMatches
<1>17. QED BY <1>16 DEF OrderInv

LEMMA OrderAppendNext ==
  ASSUME TypeOK, ControlInv, OrderInv, NEW t \in Threads, AppendNext(t)
  PROVE  OrderInv'
<1>1. PICK cut \in Cuts : InPlace(cut)
  BY DEF OrderInv
<1>2. PICK i \in DOMAIN writers :
        /\ Joins(t, i)
        /\ rep' = [rep EXCEPT ![t] = rep[t] \o rep[writers[i]]]
        /\ last' = [last EXCEPT ![t] = writers[i]]
  BY DEF AppendNext, AppendBatch
<1>3. /\ writers' = writers /\ enq' = enq /\ wal' = wal /\ pc' = pc
      /\ pc[t] = "build"
  BY DEF AppendNext
<1>4. /\ i \in Positions /\ i - 1 \in Positions /\ writers[i - 1] = last[t]
      /\ writers[i] \in Threads
  BY <1>2, Lengths DEF Joins, Positions
<1>5. \A u \in Threads : pc[u] \in Leading => u = t
  BY <1>3 DEF ControlInv, OneLeader, Leading
<1>6. \A j, k \in Positions : writers[j] = writers[k] => j = k
  BY Lengths DEF ControlInv, QueueIsAlive, IsInjective, Positions
<1>7. /\ cut \in [0 .. Len(writers) -> 0 .. Len(enq)]
      /\ OwnPlace(cut) /\ GroupPlace(cut) /\ LogEnd(cut)
  BY <1>1 DEF Cuts, InPlace
<1>8. Matches(rep[t], cut[0], cut[i - 1])
  BY <1>3, <1>4, <1>7 DEF GroupPlace
<1>9. NotTaken(i)
  <2>1. i - 1 \in 1 .. i - 1
    BY <1>4 DEF Positions
  <2>2. QED BY <1>4, <1>5, <2>1 DEF NotTaken
<1>10. Matches(rep[writers[i]], cut[i - 1], cut[i])
  BY <1>4, <1>7, <1>9 DEF OwnPlace
<1>11. rep'[t] = rep[t] \o rep[writers[i]]
       /\ \A u \in Threads \ {t} : rep'[u] = rep[u]
  BY <1>2 DEF TypeOK
<1>12. last'[t] = writers[i] /\ \A u \in Threads \ {t} : last'[u] = last[u]
  BY <1>2 DEF TypeOK
<1>13. Matches(rep[t] \o rep[writers[i]], cut[0], cut[i])
  <2> DEFINE a == rep[t]
             b == rep[writers[i]]
  <2>1. /\ Len(a) \in Nat /\ Len(b) \in Nat /\ Len(a \o b) = Len(a) + Len(b)
        /\ \A k \in 1 .. Len(a) : (a \o b)[k] = a[k]
        /\ \A k \in 1 .. Len(b) : (a \o b)[Len(a) + k] = b[k]
    <3>1. a \in Seq(Record) /\ b \in Seq(Record)
      BY <1>4, Lengths
    <3> HIDE DEF a, b
    <3>2. QED BY <3>1, ConcatProperties
  <2>2. cut[0] \in Nat /\ cut[i - 1] \in Nat /\ cut[i] \in Nat
    <3>1. 0 \in 0 .. Len(writers) /\ i - 1 \in 0 .. Len(writers) /\ i \in 0 .. Len(writers)
      BY <1>4, Lengths DEF Positions
    <3>2. \A k \in 0 .. Len(enq) : k \in Nat
      BY Lengths
    <3> QED
      BY <1>7, <3>1, <3>2
  <2>3. /\ Len(a) = cut[i - 1] - cut[0] /\ Len(b) = cut[i] - cut[i - 1]
        /\ \A k \in 1 .. Len(a) : a[k] = enq[cut[0] + k]
        /\ \A k \in 1 .. Len(b) : b[k] = enq[cut[i - 1] + k]
    BY <1>8, <1>10 DEF Matches
  <2> HIDE DEF a, b
  <2>4. ASSUME NEW k \in 1 .. Len(a \o b) PROVE (a \o b)[k] = enq[cut[0] + k]
    <3>1. CASE k \in 1 .. Len(a)
      BY <2>1, <2>3, <3>1
    <3>2. CASE k \notin 1 .. Len(a)
      <4>1. PICK m \in 1 .. Len(b) : k = Len(a) + m
        <5>1. k - Len(a) \in 1 .. Len(b) /\ k = Len(a) + (k - Len(a))
          BY <2>1, <2>4, <3>2
        <5>2. QED BY <5>1
      <4>2. cut[0] + k = cut[i - 1] + m
        <5>1. Len(a) \in Nat /\ m \in Nat
          BY <2>1, <4>1
        <5>2. QED BY ONLY <2>2, <2>3, <4>1, <5>1
      <4>3. QED BY <2>1, <2>3, <4>1, <4>2
    <3>3. QED BY <3>1, <3>2
  <2>5. Len(a \o b) = cut[i] - cut[0]
    BY <2>1, <2>2, <2>3
  <2>6. QED BY <2>4, <2>5 DEF Matches, a, b
<1>14. OwnPlace(cut)'
  <2>1. SUFFICES ASSUME NEW j \in Positions, NotTaken(j)'
                 PROVE  Matches(rep[writers[j]], cut[j - 1], cut[j])'
    BY <1>3 DEF OwnPlace, Positions
  <2>2. PICK k \in 1 .. j - 1 : writers[k] = writers[i]
    BY <1>3, <1>12, <2>1 DEF NotTaken, Leading
  <2>3. k \in Positions /\ k = i /\ i - 1 \in 1 .. j - 1
    BY <1>4, <1>6, <2>2, Lengths DEF Positions
  <2>4. NotTaken(j)
    BY <1>4, <1>5, <2>3 DEF NotTaken
  <2>5. writers[j] # t
    <3>1. PICK m \in Positions : m <= 1 /\ writers[m] = t
      <4>1. Head(writers) = t /\ writers # <<>>
        BY <1>3, LeaderSeesQueue DEF ControlInv, OneLeader, Leading
      <4>2. QED BY <1>4, <4>1, Lengths DEF Positions
    <3>2. m # j
      BY <1>4, <2>3, <3>1 DEF Positions
    <3>3. QED BY <1>6, <3>1, <3>2
  <2>6. writers[j] \in Threads
    BY Lengths
  <2>7. QED BY <1>3, <1>7, <1>11, <2>4, <2>5, <2>6 DEF OwnPlace, Matches
<1>15. GroupPlace(cut)'
  <2>1. SUFFICES ASSUME NEW u \in Threads, NEW j \in Positions,
                        pc[u] \in {"build", "io"}, writers[j] = last'[u]
                 PROVE  Matches(rep[u], cut[0], cut[j])'
    BY <1>3 DEF GroupPlace, Positions
  <2>2. u = t
    BY <1>5, <2>1 DEF Leading
  <2>3. j = i
    BY <1>4, <1>6, <1>12, <2>1, <2>2
  <2>4. QED BY <1>3, <1>11, <1>13, <2>2, <2>3 DEF Matches
<1>16. LogEnd(cut)'
  <2>1. \A u \in Threads : pc[u] \notin {"relock", "retire"}
    BY <1>3, <1>5 DEF Leading
  <2>2. QED BY <1>3, <1>7, <2>1 DEF LogEnd
<1>17. cut \in Cuts' /\ InPlace(cut)' /\ LogMatches'
  BY <1>1, <1>3, <1>14, <1>15, <1>16 DEF Cuts, InPlace, OrderInv, LogMatches
<1>18. QED BY <1>17 DEF OrderInv

LEMMA OrderLogGroup ==
  ASSUME TypeOK, ControlInv, OrderInv, NEW t \in Threads, LogGroup(t)
  PROVE  OrderInv'
<1>1. PICK cut \in Cuts : InPlace(cut)
  BY DEF OrderInv
<1>2. /\ writers' = writers /\ enq' = enq /\ rep' = rep /\ last' = last
      /\ pc[t] = "io" /\ pc' = [pc EXCEPT ![t] = "relock"]
      /\ wal' = wal \o rep[t]
  BY DEF LogGroup, Goto, mem
<1>3. pc'[t] = "relock" /\ \A u \in Threads \ {t} : pc'[u] = pc[u]
  BY <1>2 DEF TypeOK
<1>4. \A u \in Threads : pc[u] \in Leading => u = t
  BY <1>2 DEF ControlInv, OneLeader, Leading
<1>5. \A u \in Threads : pc'[u] \in Leading <=> pc[u] \in Leading
  BY <1>2, <1>3 DEF Leading
<1>6. /\ cut \in [0 .. Len(writers) -> 0 .. Len(enq)]
      /\ OwnPlace(cut) /\ GroupPlace(cut) /\ LogEnd(cut) /\ LogMatches
  BY <1>1 DEF Cuts, InPlace, OrderInv
<1>7. PICK j \in Positions : writers[j] = last[t]
  BY <1>2, Lengths DEF ControlInv, OneLeader, Leading, Queued, Range, Positions
<1>8. Matches(rep[t], cut[0], cut[j])
  BY <1>2, <1>6, <1>7 DEF GroupPlace
<1>9. Len(wal) = cut[0]
  BY <1>2, <1>4, <1>6 DEF LogEnd, Leading
<1>10. /\ Len(wal') = Len(wal) + Len(rep[t])
       /\ \A k \in 1 .. Len(wal) : wal'[k] = wal[k]
       /\ \A k \in 1 .. Len(rep[t]) : wal'[Len(wal) + k] = rep[t][k]
  <2>1. wal \in Seq(Record) /\ rep[t] \in Seq(Record)
    BY Lengths
  <2>2. QED BY <1>2, <2>1, ConcatProperties
<1>11. /\ cut[0] \in 0 .. Len(enq) /\ cut[j] \in 0 .. Len(enq)
       /\ Len(enq) \in Nat /\ Len(wal) \in Nat /\ Len(rep[t]) \in Nat
  BY <1>6, <1>7, Lengths DEF Positions
<1>12. Len(wal') = cut[j]
  BY <1>8, <1>9, <1>10, <1>11 DEF Matches
<1>13. ASSUME NEW k \in 1 .. Len(wal') PROVE wal'[k] = enq[k]
  <2>1. CASE k \in 1 .. Len(wal)
    BY <1>6, <1>10, <2>1 DEF LogMatches
  <2>2. CASE k \notin 1 .. Len(wal)
    <3>1. k - Len(wal) \in 1 .. Len(rep[t]) /\ Len(wal) + (k - Len(wal)) = k
      BY <1>10, <1>11, <1>13, <2>2
    <3>2. wal'[k] = rep[t][k - Len(wal)]
      BY <1>10, <3>1
    <3>3. rep[t][k - Len(wal)] = enq[cut[0] + (k - Len(wal))]
      BY <1>8, <3>1 DEF Matches
    <3>4. QED BY <1>9, <3>1, <3>2, <3>3
  <2>3. QED BY <2>1, <2>2
<1>14. LogMatches'
  BY <1>2, <1>11, <1>12, <1>13 DEF LogMatches
<1>15. OwnPlace(cut)'
  <2>1. \A i : NotTaken(i)' => NotTaken(i)
    BY <1>2, <1>5 DEF NotTaken
  <2>2. QED BY <1>2, <1>6, <2>1 DEF OwnPlace, Matches, Positions
<1>16. GroupPlace(cut)'
  BY <1>2, <1>3, <1>4 DEF GroupPlace, Leading
<1>17. LogEnd(cut)'
  <2>1. ASSUME NEW u \in Threads, NEW i \in Positions,
               pc'[u] \in {"relock", "retire"}, writers[i] = last[u]
        PROVE  Len(wal') = cut[i]
    <3>1. u = t
      BY <1>3, <1>4, <2>1 DEF Leading
    <3>2. i = j
      BY <1>7, <2>1, <3>1, Lengths
         DEF ControlInv, QueueIsAlive, IsInjective, Positions
    <3>3. QED BY <1>12, <3>2
  <2>2. QED BY <1>2, <1>3, <2>1 DEF LogEnd, Positions
<1>18. cut \in Cuts' /\ InPlace(cut)'
  BY <1>1, <1>2, <1>15, <1>16, <1>17 DEF Cuts, InPlace
<1>19. QED BY <1>14, <1>18 DEF OrderInv

(* Popping the front, by the leader that retires its group: the borders    *)
(* move down by one.                                                       *)
LEMMA OrderPop ==
  ASSUME TypeOK, ControlInv, OrderInv, NEW t \in Threads, pc[t] = "retire",
         writers' = Tail(writers), enq' = enq, wal' = wal, rep' = rep,
         last' = last,
         \A u \in Threads \ {t} : pc'[u] \notin Leading,
         \/ pc'[t] = "retire" /\ Head(writers) # last[t]
         \/ pc'[t] = "idle" /\ Head(writers) = last[t]
  PROVE  OrderInv'
<1>1. PICK cut \in Cuts : InPlace(cut)
  BY DEF OrderInv
<1> DEFINE n == Len(writers)
<1>2. /\ n \in Nat \ {0} /\ Len(writers)' = n - 1
      /\ Head(writers) = writers[1]
      /\ \A i \in 1 .. n - 1 : writers'[i] = writers[i + 1]
  BY LeaderSeesQueue, Lengths, HeadTailProperties DEF Leading
<1>3. /\ cut \in [0 .. n -> 0 .. Len(enq)] /\ cut[n] = Len(enq)
      /\ OwnPlace(cut) /\ LogEnd(cut)
  BY <1>1 DEF Cuts, InPlace
<1>4. \A u \in Threads : pc[u] \in Leading => u = t
  BY DEF ControlInv, OneLeader, Leading
<1>5. PICK new : new = [i \in 0 .. n - 1 |-> cut[i + 1]]
  OBVIOUS
<1>6. new \in Cuts' /\ \A i \in 0 .. n - 1 : new[i] = cut[i + 1]
  BY <1>2, <1>3, <1>5 DEF Cuts
<1>7. PICK l \in 1 .. n : writers[l] = last[t]
  <2>1. last[t] \in Queued
    BY DEF ControlInv, OneLeader, Leading
  <2>2. QED BY <2>1, Lengths DEF Queued, Range
<1>8. Len(wal) = cut[l]
  BY <1>3, <1>7 DEF LogEnd, Positions
<1>9. \A i, j \in 1 .. n : writers[i] = writers[j] => i = j
  BY Lengths DEF ControlInv, QueueIsAlive, IsInjective
<1>10. ASSUME NEW i \in 1 .. n - 1, NotTaken(i)'
       PROVE  Matches(rep[writers[i]], new[i - 1], new[i])'
  <2>1. \E j \in 1 .. i : writers[j] = last[t]
    <3>1. CASE pc'[t] = "idle"
      BY <1>2, <1>10, <3>1
    <3>2. CASE pc'[t] = "retire"
      <4>1. PICK j \in 1 .. i - 1 : writers'[j] = last[t]
        BY <1>10, <3>2 DEF NotTaken, Leading
      <4>2. j + 1 \in 1 .. i /\ writers[j + 1] = last[t]
        BY <1>2, <1>10, <4>1
      <4>3. QED BY <4>2
    <3>3. QED BY <3>1, <3>2
  <2>2. NotTaken(i + 1)
    BY <1>2, <1>4, <1>10, <2>1 DEF NotTaken
  <2>3. Matches(rep[writers[i + 1]], cut[i], cut[i + 1])
    <3>1. i + 1 \in 1 .. n /\ (i + 1) - 1 = i
      BY <1>2, <1>10
    <3>2. QED BY <1>3, <2>2, <3>1 DEF OwnPlace, Positions
  <2>4. new[i - 1] = cut[i] /\ new[i] = cut[i + 1]
    BY <1>2, <1>6, <1>10
  <2>5. QED BY <1>2, <1>10, <2>3, <2>4 DEF Matches
<1>11. GroupPlace(new)'
  BY DEF GroupPlace, Leading
<1>12. LogEnd(new)'
  <2>1. ASSUME NEW u \in Threads, NEW j \in 1 .. n - 1,
               pc'[u] \in {"relock", "retire"}, writers'[j] = last[u]
        PROVE  Len(wal) = new[j]
    <3>1. u = t
      BY <2>1 DEF Leading
    <3>2. j + 1 = l
      BY <1>2, <1>7, <1>9, <2>1, <3>1
    <3>3. QED BY <1>2, <1>6, <1>8, <2>1, <3>2
  <2>2. ASSUME \A u \in Threads : pc'[u] \notin {"relock", "retire"}
        PROVE  Len(wal) = new[0]
    <3>1. Head(writers) = last[t]
      BY <2>2
    <3>2. l = 1
      BY <1>2, <1>7, <1>9, <3>1
    <3>3. QED BY <1>2, <1>6, <1>8, <3>2
  <2>3. QED BY <1>2, <2>1, <2>2 DEF LogEnd, Positions
<1>13. new[n - 1] = Len(enq)
  BY <1>2, <1>3, <1>6
<1>14. InPlace(new)'
  BY <1>2, <1>10, <1>11, <1>12, <1>13 DEF InPlace, OwnPlace, Positions
<1>15. LogMatches'
  BY DEF OrderInv, LogMatches
<1>16. QED BY <1>6, <1>14, <1>15 DEF OrderInv

LEMMA OrderRetire ==
  ASSUME TypeOK, ControlInv, OrderInv, NEW t \in Threads,
         RetireNext(t) \/ RetireLast(t)
  PROVE  OrderInv'
<1>1. /\ pc[t] = "retire" /\ writers' = Tail(writers)
      /\ enq' = enq /\ wal' = wal /\ rep' = rep /\ last' = last
  BY DEF RetireNext, RetireLast, PopReady, mem
<1>2. \A u \in Threads : pc[u] \in Leading => u = t
  BY <1>1 DEF ControlInv, OneLeader, Leading
<1>3. \A u \in Threads \ {t} : pc'[u] \in {pc[u], "wake"}
  BY DEF RetireNext, RetireLast, Signalled
<1>4. \/ pc'[t] = "retire" /\ Head(writers) # last[t]
      \/ pc'[t] = "idle" /\ Head(writers) = last[t]
  BY <1>1 DEF RetireNext, RetireLast, Signalled
<1>5. \A u \in Threads \ {t} : pc'[u] \notin Leading
  BY <1>2, <1>3 DEF Leading
<1>6. QED BY <1>1, <1>4, <1>5, OrderPop

-----------------------------------------------------------------------------
LEMMA OrderStep ==
  TypeOK /\ ControlInv /\ OrderInv /\ [Next]_vars => OrderInv'
<1> SUFFICES ASSUME TypeOK, ControlInv, OrderInv, [Next]_vars PROVE OrderInv'
  OBVIOUS
<1>1. CASE UNCHANGED vars
  BY <1>1, OrderKept DEF vars
<1>2. ASSUME NEW t \in Threads, Client(t) PROVE OrderInv'
  <2>1. pc[t] = "idle" /\ t \notin Queued
    BY <1>2 DEF Client, Put, Clear, Call, ControlInv, QueueIsAlive
  <2>2. writers' = writers /\ enq' = enq /\ wal' = wal
    BY <1>2 DEF Client, Put, Clear, Call
  <2>3. /\ \A u \in Threads \ {t} :
             pc'[u] = pc[u] /\ last'[u] = last[u] /\ rep'[u] = rep[u]
        /\ pc'[t] \in {"idle", "lock"}
    BY <1>2, <2>1 DEF Client, Put, Clear, Call, Goto, TypeOK
  <2>4. QED BY <2>1, <2>2, <2>3, OrderKept DEF Leading
<1>3. ASSUME NEW t \in Threads,
             \/ Wait(t) \/ Rewake(t) \/ ReturnDone(t) \/ SpuriousWakeup(t)
             \/ EndBuild(t) \/ Relock(t)
      PROVE  OrderInv'
  <2>1. /\ writers' = writers /\ enq' = enq /\ wal' = wal
        /\ rep' = rep /\ last' = last
    BY <1>3 DEF Wait, Rewake, ReturnDone, SpuriousWakeup, EndBuild, Relock, mem
  <2>2. \A u \in Threads \ {t} : pc'[u] = pc[u]
    BY <1>3 DEF Wait, Rewake, ReturnDone, SpuriousWakeup, EndBuild, Relock,
                Goto, TypeOK
  <2>3. \/ pc[t] \in Waiting /\ pc'[t] \in {"idle"} \cup Waiting
        \/ pc[t] = "build" /\ pc'[t] = "io"
        \/ pc[t] = "relock" /\ pc'[t] = "retire"
    BY <1>3 DEF Wait, Rewake, ReturnDone, SpuriousWakeup, EndBuild, Relock,
                Goto, TypeOK, Waiting
  <2>4. QED BY <2>1, <2>2, <2>3, OrderKept DEF Waiting, Leading
<1>4. ASSUME NEW t \in Threads, Enqueue(t) PROVE OrderInv'
  BY <1>4, OrderEnqueue
<1>5. ASSUME NEW t \in Threads, Lead(t) PROVE OrderInv'
  BY <1>5, OrderLead
<1>6. ASSUME NEW t \in Threads, AppendNext(t) PROVE OrderInv'
  BY <1>6, OrderAppendNext
<1>7. ASSUME NEW t \in Threads, LogGroup(t) PROVE OrderInv'
  BY <1>7, OrderLogGroup
<1>8. ASSUME NEW t \in Threads, RetireNext(t) \/ RetireLast(t) PROVE OrderInv'
  BY <1>8, OrderRetire
<1>9. QED
  BY <1>1, <1>2, <1>3, <1>4, <1>5, <1>6, <1>7, <1>8 DEF Next, Writing

(* The log is a prefix of what the queue received, for any number of       *)
(* threads and any size of batches and groups: groups neither overtake one *)
(* another nor reorder, repeat or skip the batches they merge.             *)
THEOREM LogIsTheQueue == Spec => []LogFollowsQueue
<1>1. ASSUME TypeOK, OrderInv PROVE LogFollowsQueue
  <2>1. Len(wal) \in Nat /\ Len(enq) \in Nat /\ Len(wal) <= Len(enq)
    BY <1>1, Lengths DEF OrderInv, LogMatches
  <2>2. SubSeq(wal, 1, Len(wal)) = SubSeq(enq, 1, Len(wal))
    BY <1>1, <2>1, Lengths DEF OrderInv, LogMatches
  <2>3. QED BY <2>1, <2>2 DEF LogFollowsQueue, IsPrefix
<1>2. QED
  BY <1>1, OrderInit, OrderStep, TypeControlInvariant, PTL DEF Spec

-----------------------------------------------------------------------------
(* Write implements the commit log *)

LEMMA Least ==
  ASSUME NEW T \in SUBSET Nat, T # {}
  PROVE  \E x \in T : \A y \in T : x <= y
<1> DEFINE R == {ss \in Nat \X Nat : ss[1] < ss[2]}
<1>1. IsWellFoundedOn(R, Nat)
  BY NatLessThanWellFounded DEF OpToRel
<1> HIDE DEF R
<1>2. PICK x \in T : \A y \in T : ~ (<<y, x>> \in R)
  BY <1>1, WFMin
<1>3. \A y \in T : ~(y < x)
  BY <1>2 DEF R
<1> QED
  BY <1>3

(* g[i] is what the first i sequences of seqs are, one after the other.    *)
Concatenates(g, seqs) ==
  /\ g = [i \in 1 .. Len(seqs) |-> g[i]]
  /\ \A i \in 1 .. Len(seqs) :
       g[i] = IF i = 1 THEN seqs[i] ELSE g[i - 1] \o seqs[i]

LEMMA Concatenated ==
  ASSUME NEW S, NEW seqs \in Seq(S), Len(seqs) > 0, NEW g, Concatenates(g, seqs)
  PROVE  FlattenSeq(seqs) = g[Len(seqs)]
<1> DEFINE n == Len(seqs)
           Eqn(f) == f = [i \in 1 .. n |-> IF i = 1 THEN seqs[i] ELSE f[i - 1] \o seqs[i]]
           f == CHOOSE f : Eqn(f)
<1>1. n \in Nat
  OBVIOUS
<1>2. FlattenSeq(seqs) = f[n]
  BY DEF FlattenSeq
<1>3. Eqn(g)
  BY DEF Concatenates
<1>4. Eqn(f)
  <2> HIDE DEF Eqn
  <2> QED
    BY <1>3
<1> HIDE DEF n, f
<1>5. ASSUME NEW i \in 1 .. n
      PROVE  /\ f[i] = IF i = 1 THEN seqs[i] ELSE f[i - 1] \o seqs[i]
             /\ g[i] = IF i = 1 THEN seqs[i] ELSE g[i - 1] \o seqs[i]
  BY <1>3, <1>4
<1> HIDE DEF Eqn
<1> DEFINE Bad == {i \in Nat : i \in 1 .. n /\ f[i] # g[i]}
<1>6. Bad = {}
  <2> SUFFICES ASSUME Bad # {} PROVE FALSE
    OBVIOUS
  <2>1. PICK i \in Bad : \A j \in Bad : i <= j
    <3>1. Bad \in SUBSET Nat
      OBVIOUS
    <3> HIDE DEF Bad
    <3> QED
      BY <3>1, Least
  <2>2. CASE i = 1
    BY <1>5, <2>1, <2>2
  <2>3. CASE i # 1
    <3>1. i - 1 \in 1 .. n /\ i - 1 \in Nat /\ i - 1 < i
      BY <1>1, <2>1, <2>3
    <3>2. f[i - 1] = g[i - 1]
      BY <2>1, <3>1
    <3> QED
      BY <1>5, <2>1, <2>3, <3>2
  <2> QED
    BY <2>2, <2>3
<1>7. n \in 1 .. n /\ n \in Nat
  BY <1>1 DEF n
<1>8. f[n] = g[n]
  BY <1>6, <1>7
<1> QED
  BY <1>2, <1>8 DEF n

(* What the first j writers of the queue submitted.                        *)
Submitted(j) == [i \in 1 .. j |-> sub[writers[i]]]

(* Until it is logged, the batch of a leader is what the writers of its    *)
(* group submitted, in the order of the queue.                             *)
GroupMerged ==
  \A t \in Threads : \A j \in 1 .. Len(writers) :
    pc[t] \in {"build", "io"} /\ writers[j] = last[t]
      => \E g : Concatenates(g, Submitted(j)) /\ rep[t] = g[j]

LEMMA SubmittedLength ==
  ASSUME TypeOK, NEW j \in 1 .. Len(writers)
  PROVE  Submitted(j) \in Seq(Seq(Record)) /\ Len(Submitted(j)) = j
<1>1. writers \in Seq(Threads) /\ sub \in [Threads -> Seq(Record)] /\ j \in Nat
  BY DEF TypeOK
<1>2. \A i \in 1 .. j : sub[writers[i]] \in Seq(Record)
  <2>1. \A i \in 1 .. j : writers[i] \in Threads
    BY <1>1
  <2> QED
    BY <1>1, <2>1
<1> QED
  BY <1>1, <1>2 DEF Submitted

(* Steps that change neither the group nor what its writers submitted.     *)
LEMMA MergedKept ==
  ASSUME TypeOK, GroupMerged,
         \A i \in 1 .. Len(writers) : writers'[i] = writers[i] /\ sub'[writers[i]] = sub[writers[i]],
         \A t \in Threads : pc'[t] \in {"build", "io"} =>
           /\ pc[t] \in {"build", "io"} /\ rep'[t] = rep[t] /\ last'[t] = last[t]
           /\ \A j \in 1 .. Len(writers') :
                writers'[j] = last[t] => j \in 1 .. Len(writers)
  PROVE  GroupMerged'
<1> SUFFICES ASSUME NEW t \in Threads, NEW j \in 1 .. Len(writers'),
                    pc'[t] \in {"build", "io"}, writers'[j] = last'[t]
             PROVE  \E g : Concatenates(g, Submitted(j)') /\ rep'[t] = g[j]
  BY DEF GroupMerged, Concatenates
<1>1. j \in 1 .. Len(writers) /\ writers[j] = last[t] /\ pc[t] \in {"build", "io"}
  OBVIOUS
<1>2. Submitted(j)' = Submitted(j)
  <2>1. Len(writers) \in Nat
    BY DEF TypeOK
  <2>2. \A i \in 1 .. j : i \in 1 .. Len(writers)
    BY <1>1, <2>1
  <2> QED
    BY <2>2 DEF Submitted
<1> QED
  BY <1>1, <1>2 DEF GroupMerged

(* A Writer that a leader takes into its group still sleeps or will look.  *)
LEMMA JoiningWaits ==
  ASSUME TypeOK, ControlInv, NEW t \in Threads, pc[t] = "build",
         NEW i \in DOMAIN writers, Joins(t, i)
  PROVE  /\ i \in 2 .. Len(writers) /\ i \in Nat /\ writers[i] \in Threads
         /\ writers[i] # t /\ pc[writers[i]] \in Waiting
<1>1. Len(writers) \in Nat /\ DOMAIN writers = 1 .. Len(writers) /\ i \in 2 .. Len(writers)
  BY DEF TypeOK, Joins
<1>2. i \in DOMAIN writers /\ 1 \in DOMAIN writers /\ i # 1 /\ i \in Nat
  BY ONLY <1>1
<1>3. Head(writers) = t
  BY DEF ControlInv, OneLeader
<1>4. writers[1] = t
  BY <1>2, <1>3
<1>5. writers[i] # t
  BY <1>2, <1>4 DEF ControlInv, QueueIsAlive, IsInjective
<1>6. writers[i] \in Queued /\ writers[i] \in Threads
  BY <1>2 DEF Queued, Range, TypeOK
<1>7. pc[writers[i]] \in Location /\ pc[writers[i]] # "idle" /\ pc[writers[i]] \notin Leading
  BY <1>5, <1>6 DEF TypeOK, ControlInv, OneLeader, QueueIsAlive, Leading
<1> QED
  BY <1>1, <1>2, <1>5, <1>6, <1>7 DEF Location

LEMMA MergedLead ==
  ASSUME TypeOK, ControlInv, ControlInv', BatchIntact, NEW t \in Threads, Lead(t)
  PROVE  GroupMerged'
<1>1. /\ writers' = writers /\ sub' = sub /\ rep' = rep
      /\ pc[t] = "check" /\ pc'[t] = "build" /\ last'[t] = t
      /\ ~done[t] /\ Head(writers) = t
  BY DEF Lead, MustWait, Goto, mem, TypeOK
<1>2. \A u \in Threads : pc'[u] \in Leading => u = t
  BY <1>1 DEF ControlInv, OneLeader, Leading
<1>3. t \in Queued
  BY <1>1 DEF ControlInv, WaitersQueued
<1>4. Len(writers) \in Nat \ {0} /\ DOMAIN writers = 1 .. Len(writers) /\ writers[1] = t
  BY <1>1, <1>3, InQueue DEF TypeOK, Queued
<1>5. \A j \in 1 .. Len(writers) : writers[j] = t => j = 1
  BY <1>4 DEF ControlInv, QueueIsAlive, IsInjective
<1>6. rep[t] = sub[t]
  BY <1>1 DEF BatchIntact, Waiting
<1> SUFFICES ASSUME NEW u \in Threads, NEW j \in 1 .. Len(writers),
                    pc'[u] \in {"build", "io"}, writers[j] = last'[u]
             PROVE  \E g : Concatenates(g, Submitted(j)') /\ rep'[u] = g[j]
  BY <1>1 DEF GroupMerged, Concatenates
<1>7. u = t /\ j = 1
  BY <1>1, <1>2, <1>5 DEF Leading
<1> DEFINE g == [i \in 1 .. 1 |-> sub[t]]
<1>8. Submitted(j)' = [i \in 1 .. 1 |-> sub[writers[i]]]
  BY <1>1, <1>7 DEF Submitted
<1>9. Submitted(j)' = <<sub[t]>>
  BY <1>4, <1>8
<1>10. Concatenates(g, Submitted(j)')
  BY <1>9 DEF Concatenates
<1>11. rep'[u] = g[j]
  BY <1>1, <1>6, <1>7
<1> QED
  BY <1>10, <1>11

LEMMA MergedAppend ==
  ASSUME TypeOK, ControlInv, BatchIntact, GroupMerged, NEW t \in Threads, AppendNext(t)
  PROVE  GroupMerged'
<1>1. PICK i \in DOMAIN writers :
        /\ Joins(t, i)
        /\ rep' = [rep EXCEPT ![t] = rep[t] \o rep[writers[i]]]
        /\ last' = [last EXCEPT ![t] = writers[i]]
  BY DEF AppendNext, AppendBatch
<1>2. pc[t] = "build" /\ pc' = pc /\ writers' = writers /\ sub' = sub
  BY DEF AppendNext
<1>3. /\ i \in 2 .. Len(writers) /\ i \in Nat /\ writers[i] \in Threads
      /\ pc[writers[i]] \in Waiting
  BY <1>1, <1>2, JoiningWaits
<1>4. \A u \in Threads : pc[u] \in Leading => u = t
  BY <1>2 DEF ControlInv, OneLeader, Leading
<1>5. Len(writers) \in Nat /\ DOMAIN writers = 1 .. Len(writers)
  BY DEF TypeOK
<1>6. \A j, k \in 1 .. Len(writers) : writers[j] = writers[k] => j = k
  BY <1>5 DEF ControlInv, QueueIsAlive, IsInjective
<1>7. i - 1 \in 1 .. Len(writers) /\ i \in 1 .. Len(writers) /\ writers[i - 1] = last[t]
  BY <1>1, <1>3, <1>5 DEF Joins
<1>8. PICK g : Concatenates(g, Submitted(i - 1)) /\ rep[t] = g[i - 1]
  BY <1>2, <1>7 DEF GroupMerged
<1>9. rep'[t] = g[i - 1] \o sub[writers[i]] /\ last'[t] = writers[i]
  BY <1>1, <1>3, <1>8 DEF BatchIntact, TypeOK
<1> SUFFICES ASSUME NEW u \in Threads, NEW j \in 1 .. Len(writers),
                    pc'[u] \in {"build", "io"}, writers[j] = last'[u]
             PROVE  \E h : Concatenates(h, Submitted(j)') /\ rep'[u] = h[j]
  BY <1>2 DEF GroupMerged, Concatenates
<1>10. u = t /\ j = i /\ Submitted(j)' = Submitted(i)
  <2>1. u = t /\ j = i
    BY <1>2, <1>4, <1>6, <1>7, <1>9 DEF Leading
  <2> QED
    BY <1>2, <2>1 DEF Submitted
<1> DEFINE a == Submitted(i - 1)
           b == Submitted(i)
           h == [k \in 1 .. i |-> IF k = i THEN g[i - 1] \o sub[writers[i]] ELSE g[k]]
<1>11. Len(a) = i - 1 /\ Len(b) = i
  BY <1>7, SubmittedLength
<1>12. b[i] = sub[writers[i]] /\ \A k \in 1 .. i - 1 : b[k] = a[k]
  BY <1>3 DEF Submitted
<1>13. /\ h[i] = g[i - 1] \o b[i]
       /\ \A k \in 1 .. i - 1 : h[k] = g[k]
       /\ h = [k \in 1 .. i |-> h[k]]
  <2>1. i \in 1 .. i /\ \A k \in 1 .. i - 1 : k \in 1 .. i /\ k # i
    BY <1>3
  <2>2. h[i] = g[i - 1] \o sub[writers[i]]
    BY <2>1
  <2>3. \A k \in 1 .. i - 1 : h[k] = g[k]
    BY <2>1
  <2>4. h = [k \in 1 .. i |-> h[k]]
    OBVIOUS
  <2> QED
    BY <1>12, <2>2, <2>3, <2>4
<1>14. \A k \in 1 .. i - 1 : g[k] = IF k = 1 THEN a[k] ELSE g[k - 1] \o a[k]
  BY <1>8, <1>11 DEF Concatenates
<1> HIDE DEF a, b, h
<1>15. ASSUME NEW k \in 1 .. i PROVE h[k] = IF k = 1 THEN b[k] ELSE h[k - 1] \o b[k]
  <2>1. CASE k = i
    <3>1. i # 1 /\ i - 1 \in 1 .. i - 1
      BY <1>3
    <3>2. h[i - 1] = g[i - 1]
      BY <1>13, <3>1
    <3> QED
      BY <1>13, <2>1, <3>1, <3>2
  <2>2. CASE k # i
    <3>1. k \in 1 .. i - 1
      BY <1>3, <2>2
    <3>2. g[k] = IF k = 1 THEN a[k] ELSE g[k - 1] \o a[k]
      BY <1>14, <3>1
    <3>3. h[k] = g[k] /\ a[k] = b[k]
      BY <1>12, <1>13, <3>1
    <3>4. k # 1 => h[k - 1] = g[k - 1]
      <4>1. k # 1 => k - 1 \in 1 .. i - 1
        BY <1>3, <3>1
      <4> QED
        BY <1>13, <4>1
    <3> QED
      BY <3>2, <3>3, <3>4
  <2> QED
    BY <2>1, <2>2
<1>16. Concatenates(h, b)
  BY <1>11, <1>13, <1>15 DEF Concatenates
<1>17. rep'[t] = h[i]
  BY <1>9, <1>12, <1>13
<1> QED
  BY <1>10, <1>16, <1>17 DEF b

LEMMA MergedStep ==
  ASSUME TypeOK, TypeOK', ControlInv, ControlInv', BatchIntact, GroupMerged, [Next]_vars
  PROVE  GroupMerged'
<1>1. /\ Len(writers) \in Nat /\ DOMAIN writers = 1 .. Len(writers)
      /\ \A i \in 1 .. Len(writers) : writers[i] \in Queued /\ writers[i] \in Threads
  <2>1. writers \in Seq(Threads)
    BY DEF TypeOK
  <2>2. Len(writers) \in Nat /\ DOMAIN writers = 1 .. Len(writers)
    BY <2>1
  <2>3. \A i \in 1 .. Len(writers) : writers[i] \in Threads
    BY <2>1
  <2>4. \A i \in 1 .. Len(writers) : writers[i] \in Queued
    BY <2>2 DEF Queued, Range
  <2> QED
    BY <2>2, <2>3, <2>4
<1>2. CASE UNCHANGED vars
  BY <1>2, MergedKept DEF vars
<1>3. ASSUME NEW t \in Threads, Client(t) PROVE GroupMerged'
  <2>1. pc[t] = "idle" /\ t \notin Queued
    BY <1>3 DEF Client, Put, Clear, Call, ControlInv, QueueIsAlive
  <2>2. writers' = writers /\ pc'[t] \in {"idle", "lock"}
    BY <1>3, <2>1 DEF Client, Put, Clear, Call, Goto, TypeOK
  <2>3. \A u \in Threads \ {t} : pc'[u] = pc[u] /\ last'[u] = last[u]
                                 /\ rep'[u] = rep[u] /\ sub'[u] = sub[u]
    BY <1>3 DEF Client, Put, Clear, Call, Goto, TypeOK
  <2>4. \A i \in 1 .. Len(writers) : writers[i] # t
    BY <1>1, <2>1
  <2> QED
    BY <1>1, <2>2, <2>3, <2>4, MergedKept
<1>4. ASSUME NEW t \in Threads,
             \/ Wait(t) \/ Rewake(t) \/ ReturnDone(t) \/ SpuriousWakeup(t)
             \/ EndBuild(t) \/ LogGroup(t) \/ Relock(t)
      PROVE  GroupMerged'
  <2>1. writers' = writers /\ rep' = rep /\ last' = last /\ sub' = sub
    BY <1>4 DEF Wait, Rewake, ReturnDone, SpuriousWakeup, EndBuild, LogGroup, Relock, mem
  <2>2. \A u \in Threads : pc'[u] \in {"build", "io"} => pc[u] \in {"build", "io"}
    BY <1>4 DEF Wait, Rewake, ReturnDone, SpuriousWakeup, EndBuild, LogGroup, Relock,
                Goto, TypeOK
  <2> QED
    BY <2>1, <2>2, MergedKept
<1>5. ASSUME NEW t \in Threads, Enqueue(t) PROVE GroupMerged'
  <2>1. /\ writers' = Append(writers, t) /\ rep' = rep /\ sub' = sub /\ last' = last
        /\ pc[t] = "lock" /\ pc'[t] = "check"
        /\ \A u \in Threads \ {t} : pc'[u] = pc[u]
    BY <1>5 DEF Enqueue, mem, Goto, TypeOK
  <2>2. /\ Len(writers') = Len(writers) + 1 /\ writers'[Len(writers) + 1] = t
        /\ \A i \in 1 .. Len(writers) : writers'[i] = writers[i]
    <3>1. writers \in Seq(Threads)
      BY DEF TypeOK
    <3> QED
      BY <2>1, <3>1, AppendProperties
  <2>3. t \notin Queued
    BY <2>1 DEF ControlInv, QueueIsAlive
  <2>4. \A u \in Threads : pc'[u] \in {"build", "io"} =>
           pc[u] \in {"build", "io"} /\ last[u] \in Queued
    BY <2>1 DEF ControlInv, OneLeader, Leading
  <2>5. \A j \in 1 .. Len(writers') : j \in 1 .. Len(writers) \/ writers'[j] = t
    BY <1>1, <2>2
  <2> QED
    BY <1>1, <2>1, <2>2, <2>3, <2>4, <2>5, MergedKept
<1>6. ASSUME NEW t \in Threads, Lead(t) PROVE GroupMerged'
  BY <1>6, MergedLead
<1>7. ASSUME NEW t \in Threads, AppendNext(t) PROVE GroupMerged'
  BY <1>7, MergedAppend
<1>8. ASSUME NEW t \in Threads, RetireNext(t) \/ RetireLast(t) PROVE GroupMerged'
  <2>1. pc[t] = "retire" /\ pc'[t] \in {"retire", "idle"}
    BY <1>8 DEF RetireNext, RetireLast, PopReady, Signalled, TypeOK
  <2>2. \A u \in Threads : pc[u] \in Leading => u = t
    BY <2>1 DEF ControlInv, OneLeader, Leading
  <2>3. \A u \in Threads \ {t} : pc'[u] = pc[u] \/ pc'[u] = "wake"
    BY <1>8 DEF RetireNext, RetireLast, PopReady, Signalled, TypeOK
  <2>4. \A u \in Threads : pc'[u] \notin {"build", "io"}
    BY <2>1, <2>2, <2>3 DEF Leading
  <2> QED
    BY <2>4 DEF GroupMerged
<1> QED
  BY <1>2, <1>3, <1>4, <1>5, <1>6, <1>7, <1>8 DEF Next, Writing

-----------------------------------------------------------------------------
(* What Write shows of itself as a commit log *)

CallState == [t \in Threads |-> IF pc[t] = "idle" THEN "idle"
                                ELSE IF Logged(t) THEN "committed"
                                ELSE "pending"]

(* The calls that are committed only as long as their leader retires them. *)
InLoggedGroup(t) ==
  \E u \in Threads : pc[u] \in {"relock", "retire"} /\ t \in Group(u) \cup {u}

LEMMA LoggedIs == ASSUME NEW t PROVE Logged(t) <=> done[t] \/ InLoggedGroup(t)
BY DEF Logged, InLoggedGroup

(* A writer that arrives does not take anyone out of a group.              *)
LEMMA GroupKeptByPush ==
  ASSUME TypeOK, NEW t \in Threads, NEW x \in Threads,
         writers' = Append(writers, x), last' = last
  PROVE  Group(t) \subseteq Group(t)'
<1>1. /\ Len(writers) \in Nat /\ DOMAIN writers = 1 .. Len(writers)
      /\ DOMAIN writers' = 1 .. Len(writers) + 1
      /\ \A i \in DOMAIN writers : writers'[i] = writers[i]
  <2>1. writers \in Seq(Threads)
    BY DEF TypeOK
  <2>2. writers' \in Seq(Threads) /\ Len(writers') = Len(writers) + 1
    BY <2>1, AppendProperties
  <2>3. QED BY <2>1, <2>2, AppendProperties
<1>2. SUFFICES ASSUME NEW i \in DOMAIN writers,
                      \A k \in 1 .. i - 1 : writers[k] # last[t]
               PROVE  writers[i] \in Group(t)'
  BY DEF Group
<1>3. i \in DOMAIN writers' /\ writers'[i] = writers[i]
  BY <1>1
<1>4. ASSUME NEW k \in 1 .. i - 1 PROVE writers'[k] # last'[t]
  <2>1. k \in DOMAIN writers
    BY <1>1
  <2> QED
    BY <1>1, <1>2, <2>1
<1> QED
  BY <1>3, <1>4 DEF Group

(* Popping takes only the front out of a group that goes on behind it.     *)
LEMMA GroupKeptByPop ==
  ASSUME TypeOK, NEW t \in Threads, writers # <<>>,
         writers' = Tail(writers), last' = last
  PROVE  Group(t) \subseteq Group(t)' \cup {Head(writers)}
<1>1. /\ Len(writers') = Len(writers) - 1 /\ Len(writers) \in Nat \ {0}
      /\ DOMAIN writers' = 1 .. Len(writers)'
      /\ DOMAIN writers = 1 .. Len(writers)
      /\ \A i \in DOMAIN writers' : writers'[i] = writers[i + 1]
      /\ Head(writers) = writers[1]
  BY HeadTailProperties DEF TypeOK
<1>2. SUFFICES ASSUME NEW i \in DOMAIN writers, i # 1,
                      \A k \in 1 .. i - 1 : writers[k] # last[t]
               PROVE  writers[i] \in Group(t)'
  BY <1>1 DEF Group
<1>3. i - 1 \in DOMAIN writers' /\ writers'[i - 1] = writers[i]
  <2>1. i - 1 \in DOMAIN writers' /\ (i - 1) + 1 = i
    BY <1>1, <1>2
  <2> QED
    BY <1>1, <2>1
<1>4. ASSUME NEW k \in 1 .. (i - 1) - 1 PROVE writers'[k] # last'[t]
  <2>1. k \in DOMAIN writers' /\ k + 1 \in 1 .. i - 1
    BY <1>1, <1>2
  <2> QED
    BY <1>1, <1>2, <2>1
<1> QED
  BY <1>3, <1>4 DEF Group

(* A leader's group is the queue up to its last writer.                    *)
LEMMA GroupUpTo ==
  ASSUME TypeOK, IsInjective(writers), NEW t \in Threads,
         NEW j \in DOMAIN writers, writers[j] = last[t]
  PROVE  Group(t) = {writers[i] : i \in 1 .. j}
<1>1. Len(writers) \in Nat /\ DOMAIN writers = 1 .. Len(writers) /\ j \in Nat
  <2>1. Len(writers) \in Nat /\ DOMAIN writers = 1 .. Len(writers)
    BY DEF TypeOK
  <2> QED
    BY <2>1
<1>2. ASSUME NEW i \in DOMAIN writers, \A k \in 1 .. i - 1 : writers[k] # last[t]
      PROVE  i \in 1 .. j
  BY <1>1, <1>2
<1>3. ASSUME NEW i \in 1 .. j
      PROVE  i \in DOMAIN writers /\ \A k \in 1 .. i - 1 : writers[k] # last[t]
  <2>1. i \in DOMAIN writers
    BY <1>1
  <2>2. ASSUME NEW k \in 1 .. i - 1 PROVE writers[k] # writers[j]
    <3>1. k \in DOMAIN writers /\ k # j
      BY <1>1
    <3> QED
      BY <3>1 DEF IsInjective
  <2> QED
    BY <2>1, <2>2
<1>4. Group(t) \subseteq {writers[i] : i \in 1 .. j}
  BY <1>2 DEF Group
<1>5. {writers[i] : i \in 1 .. j} \subseteq Group(t)
  BY <1>3 DEF Group
<1> QED
  BY <1>4, <1>5

(* Nobody is committed or uncommitted by a step that tells no one to       *)
(* return, does not log and leaves the groups that are logged alone.       *)
LEMMA LoggedKept ==
  ASSUME done' = done,
         \A u \in Threads :
           pc'[u] \in {"relock", "retire"} <=> pc[u] \in {"relock", "retire"},
         \A u \in Threads : pc[u] \in {"relock", "retire"} => Group(u)' = Group(u),
         NEW t
  PROVE  Logged(t)' <=> Logged(t)
BY DEF Logged

LEMMA SameCalls ==
  ASSUME wal' = wal, sub' = sub,
         \A t \in Threads : /\ pc'[t] = "idle" <=> pc[t] = "idle"
                            /\ Logged(t)' <=> Logged(t)
  PROVE  UNCHANGED Abstract!vars
BY DEF Abstract!vars

(* Mutex and condition variable, and the building of a group: no call is   *)
(* submitted, committed or returned.                                       *)
LEMMA QuietSteps ==
  ASSUME TypeOK, ControlInv, ControlInv', NEW t \in Threads,
         \/ Put(t) \/ Clear(t) \/ Wait(t) \/ Rewake(t) \/ SpuriousWakeup(t)
         \/ Lead(t) \/ AppendNext(t) \/ EndBuild(t) \/ Relock(t)
  PROVE  UNCHANGED Abstract!vars
<1>1. wal' = wal /\ sub' = sub /\ done' = done /\ writers' = writers
  BY DEF Put, Clear, Wait, Rewake, SpuriousWakeup, Lead, AppendNext, EndBuild,
         Relock, mem
<1>2. \A u \in Threads :
        /\ pc'[u] = "idle" <=> pc[u] = "idle"
        /\ pc'[u] \in {"relock", "retire"} <=> pc[u] \in {"relock", "retire"}
  BY DEF Put, Clear, Wait, Rewake, SpuriousWakeup, Lead, AppendNext, EndBuild,
         Relock, Goto, TypeOK
<1>3. ASSUME NEW u \in Threads, pc[u] \in {"relock", "retire"}
      PROVE  last'[u] = last[u]
  <2>1. CASE last' = last
    BY <2>1
  <2>2. CASE Lead(t) \/ AppendNext(t)
    <3>1. pc'[t] = "build" /\ pc'[u] = pc[u]
      BY <1>3, <2>2 DEF Lead, AppendNext, Goto, TypeOK
    <3>2. t = u
      BY <1>3, <3>1 DEF ControlInv, OneLeader, Leading
    <3> QED
      BY <1>3, <3>1, <3>2
  <2> QED
    BY <2>1, <2>2 DEF Put, Clear, Wait, Rewake, SpuriousWakeup, EndBuild, Relock, mem
<1>4. \A u \in Threads : pc[u] \in {"relock", "retire"} => Group(u)' = Group(u)
  BY <1>1, <1>3 DEF Group
<1>5. \A u \in Threads : Logged(u)' <=> Logged(u)
  BY <1>1, <1>2, <1>4, LoggedKept
<1> QED
  BY <1>1, <1>2, <1>5, SameCalls

LEMMA EnqueueIsQuiet ==
  ASSUME TypeOK, ControlInv, NEW t \in Threads, Enqueue(t)
  PROVE  UNCHANGED Abstract!vars
<1>1. /\ wal' = wal /\ sub' = sub /\ done' = done /\ last' = last
      /\ writers' = Append(writers, t)
      /\ pc[t] = "lock" /\ pc'[t] = "check"
      /\ \A u \in Threads \ {t} : pc'[u] = pc[u]
  BY DEF Enqueue, mem, Goto, TypeOK
<1>2. \A u \in Threads :
        /\ pc'[u] = "idle" <=> pc[u] = "idle"
        /\ pc'[u] \in {"relock", "retire"} <=> pc[u] \in {"relock", "retire"}
  BY <1>1
<1>3. ASSUME NEW u \in Threads, pc[u] \in {"relock", "retire"}
      PROVE  Group(u)' = Group(u)
  <2>1. last[u] \in Queued
    BY <1>3 DEF ControlInv, OneLeader, Leading
  <2> QED
    BY <1>1, <2>1, GroupAfterPush, GroupKeptByPush
<1>4. \A u \in Threads : Logged(u)' <=> Logged(u)
  BY <1>1, <1>2, <1>3, LoggedKept
<1> QED
  BY <1>1, <1>2, <1>4, SameCalls

LEMMA CallSubmits ==
  ASSUME TypeOK, TypeOK', ControlInv, NEW t \in Threads, Call(t)
  PROVE  Abstract!Submit(t)
<1>1. /\ wal' = wal /\ writers' = writers
      /\ pc[t] = "idle" /\ pc'[t] = "lock" /\ ~done'[t]
      /\ \A u \in Threads \ {t} :
           pc'[u] = pc[u] /\ done'[u] = done[u] /\ last'[u] = last[u] /\ sub'[u] = sub[u]
  BY DEF Call, Goto, TypeOK
<1>2. t \notin Queued
  BY <1>1 DEF ControlInv, QueueIsAlive
<1>3. \A u \in Threads \ {t} : Group(u)' = Group(u)
  BY <1>1 DEF Group
<1>4. ~Logged(t)'
  <2>1. \A u \in Threads \ {t} : t \notin Group(u)'
    BY <1>2, <1>3, GroupIsQueued
  <2> QED
    BY <1>1, <2>1 DEF Logged
<1>5. ASSUME NEW u \in Threads \ {t} PROVE Logged(u)' <=> Logged(u)
  BY <1>1, <1>3 DEF Logged
<1>6. CallState' = [CallState EXCEPT ![t] = "pending"]
  <2>1. CallState'[t] = "pending"
    BY <1>1, <1>4 DEF CallState
  <2>2. \A u \in Threads \ {t} : CallState'[u] = CallState[u]
    BY <1>1, <1>5 DEF CallState
  <2> QED
    BY <2>1, <2>2 DEF CallState
<1>7. CallState[t] = "idle"
  BY <1>1 DEF CallState
<1>8. sub' \in [Threads -> Seq(Record)]
  BY DEF TypeOK
<1> QED
  BY <1>1, <1>6, <1>7, <1>8 DEF Abstract!Submit, CallState

LEMMA FollowerReturns ==
  ASSUME TypeOK, ControlInv, NEW t \in Threads, ReturnDone(t)
  PROVE  Abstract!Return(t)
<1>1. /\ wal' = wal /\ sub' = sub /\ done' = done /\ writers' = writers /\ last' = last
      /\ pc[t] = "check" /\ done[t] /\ pc'[t] = "idle"
      /\ \A u \in Threads \ {t} : pc'[u] = pc[u]
  BY DEF ReturnDone, mem, Goto, TypeOK
<1>2. \A u \in Threads : Group(u)' = Group(u)
  BY <1>1 DEF Group
<1>3. \A u \in Threads : pc'[u] \in {"relock", "retire"} <=> pc[u] \in {"relock", "retire"}
  BY <1>1
<1>4. \A u \in Threads : Logged(u)' <=> Logged(u)
  BY <1>1, <1>2, <1>3, LoggedKept
<1>5. CallState' = [CallState EXCEPT ![t] = "idle"]
  <2>1. CallState'[t] = "idle"
    BY <1>1 DEF CallState
  <2>2. \A u \in Threads \ {t} : CallState'[u] = CallState[u]
    BY <1>1, <1>4 DEF CallState
  <2> QED
    BY <2>1, <2>2 DEF CallState
<1>6. CallState[t] = "committed"
  BY <1>1 DEF CallState, Logged
<1> QED
  BY <1>1, <1>5, <1>6 DEF Abstract!Return, CallState

(* What a leader pops was logged with its group and is told to return.     *)
LEMMA RetireLogged ==
  ASSUME TypeOK, ControlInv, NEW t \in Threads, pc[t] = "retire",
         NEW ready \in Threads, PopReady(t, ready)
  PROVE  /\ writers # <<>> /\ ready = Head(writers) /\ ready \in Group(t)
         /\ writers' = Tail(writers)
         /\ \A u \in Threads : done'[u] <=> done[u] \/ (u = ready /\ u # t)
         /\ \A u \in Threads : pc[u] \in Leading => u = t
         /\ \A u \in Threads : Logged(u) <=> done[u] \/ u \in Group(t) \cup {t}
<1>1. writers # <<>>
  BY LeaderSeesQueue DEF Leading
<1>2. ready = Head(writers) /\ writers' = Tail(writers)
  BY DEF PopReady
<1>3. ready \in Group(t)
  BY <1>1, <1>2, FrontInGroup
<1>4. \A u \in Threads : done'[u] <=> done[u] \/ (u = ready /\ u # t)
  BY DEF PopReady, TypeOK
<1>5. \A u \in Threads : pc[u] \in Leading => u = t
  BY DEF ControlInv, OneLeader, Leading
<1>6. \A u \in Threads : Logged(u) <=> done[u] \/ u \in Group(t) \cup {t}
  BY <1>5 DEF Logged, Leading
<1> QED
  BY <1>1, <1>2, <1>3, <1>4, <1>5, <1>6

LEMMA RetireNextIsQuiet ==
  ASSUME TypeOK, ControlInv, ControlInv', NEW t \in Threads, RetireNext(t)
  PROVE  UNCHANGED Abstract!vars
<1>1. PICK ready \in Threads : PopReady(t, ready) /\ pc' = Signalled({ready} \ {t})
  BY DEF RetireNext
<1>2. /\ wal' = wal /\ sub' = sub /\ last' = last
      /\ pc[t] = "retire" /\ Head(writers) # last[t]
  BY DEF RetireNext, mem
<1>3. /\ writers # <<>> /\ ready = Head(writers) /\ ready \in Group(t)
      /\ writers' = Tail(writers)
      /\ \A u \in Threads : done'[u] <=> done[u] \/ (u = ready /\ u # t)
      /\ \A u \in Threads : pc[u] \in Leading => u = t
      /\ \A u \in Threads : Logged(u) <=> done[u] \/ u \in Group(t) \cup {t}
  BY <1>1, <1>2, RetireLogged
<1>4. /\ pc'[t] = "retire"
      /\ \A u \in Threads : pc'[u] = pc[u] \/ (pc[u] = "wait" /\ pc'[u] = "wake")
  BY <1>1, <1>2 DEF Signalled
<1>5. Group(t)' \subseteq Group(t) /\ Group(t) \subseteq Group(t)' \cup {ready}
  BY <1>2, <1>3, GroupAfterPop, GroupKeptByPop
<1>6. \A u \in Threads : Logged(u)' <=> done'[u] \/ u \in Group(t)' \cup {t}
  <2>1. \A u \in Threads : pc'[u] \in {"relock", "retire"} <=> u = t
    BY <1>3, <1>4 DEF Leading
  <2> QED
    BY <2>1 DEF Logged
<1>7. \A u \in Threads : Logged(u)' <=> Logged(u)
  BY <1>3, <1>5, <1>6
<1>8. \A u \in Threads : pc'[u] = "idle" <=> pc[u] = "idle"
  BY <1>4
<1> QED
  BY <1>2, <1>7, <1>8, SameCalls

LEMMA LeaderReturns ==
  ASSUME TypeOK, ControlInv, NEW t \in Threads, RetireLast(t)
  PROVE  Abstract!Return(t)
<1>1. /\ wal' = wal /\ sub' = sub /\ last' = last
      /\ pc[t] = "retire" /\ Head(writers) = last[t] /\ PopReady(t, last[t])
      /\ pc' = [Signalled({last[t]} \cup NextLeader(writers')) EXCEPT ![t] = "idle"]
      /\ last[t] \in Threads
  BY DEF RetireLast, mem, TypeOK
<1>2. /\ writers # <<>> /\ last[t] \in Group(t)
      /\ \A u \in Threads : done'[u] <=> done[u] \/ (u = last[t] /\ u # t)
      /\ \A u \in Threads : pc[u] \in Leading => u = t
      /\ \A u \in Threads : Logged(u) <=> done[u] \/ u \in Group(t) \cup {t}
  BY <1>1, RetireLogged
<1>3. /\ pc'[t] = "idle"
      /\ \A u \in Threads \ {t} : pc'[u] = pc[u] \/ (pc[u] = "wait" /\ pc'[u] = "wake")
  BY <1>1 DEF Signalled
<1>4. Group(t) \subseteq {last[t]}
  <2>1. 1 \in DOMAIN writers /\ writers[1] = last[t]
    <3>1. writers \in Seq(Threads) /\ writers # <<>>
      BY <1>2 DEF TypeOK
    <3>2. 1 \in DOMAIN writers /\ Head(writers) = writers[1]
      BY ONLY <3>1
    <3> QED
      BY <1>1, <3>2
  <2>2. Group(t) = {writers[i] : i \in 1 .. 1}
    BY <2>1, GroupUpTo DEF ControlInv, QueueIsAlive
  <2> QED
    BY <2>1, <2>2
<1>5. \A u \in Threads \ {t} : Logged(u)' <=> Logged(u)
  <2>1. \A u \in Threads : pc'[u] \notin {"relock", "retire"}
    BY <1>2, <1>3 DEF Leading
  <2>2. \A u \in Threads : Logged(u)' <=> done'[u]
    BY <2>1 DEF Logged
  <2> QED
    BY <1>2, <1>4, <2>2
<1>6. CallState' = [CallState EXCEPT ![t] = "idle"]
  <2>1. CallState'[t] = "idle"
    BY <1>3 DEF CallState
  <2>2. \A u \in Threads \ {t} : CallState'[u] = CallState[u]
    BY <1>3, <1>5 DEF CallState
  <2> QED
    BY <2>1, <2>2 DEF CallState
<1>7. CallState[t] = "committed"
  BY <1>1, <1>2 DEF CallState
<1> QED
  BY <1>1, <1>6, <1>7 DEF Abstract!Return, CallState

(* The instance of the abstract module brings the library along under      *)
(* names of its own.                                                       *)
LEMMA SameOperators ==
  /\ \A S : Abstract!SetToSeqs(S) = SetToSeqs(S)
  /\ \A s : Abstract!FlattenSeq(s) = FlattenSeq(s)
  /\ \A f : Abstract!Range(f) = Range(f)
<1>1. \A S : Abstract!SetToSeqs(S) = SetToSeqs(S)
  BY DEF Abstract!SetToSeqs, SetToSeqs, Abstract!Cardinality, Cardinality
<1>2. \A s : Abstract!FlattenSeq(s) = FlattenSeq(s)
  BY DEF Abstract!FlattenSeq, FlattenSeq
<1>3. \A f : Abstract!Range(f) = Range(f)
  BY DEF Abstract!Range, Range
<1> QED
  BY <1>1, <1>2, <1>3

(* The log I/O of a leader commits its group, in the order of the queue.   *)
LEMMA LogGroupCommits ==
  ASSUME TypeOK, ControlInv, GroupMerged, NEW t \in Threads, LogGroup(t)
  PROVE  Abstract!Commit
<1>1. /\ wal' = wal \o rep[t] /\ sub' = sub /\ done' = done
      /\ writers' = writers /\ last' = last
      /\ pc[t] = "io" /\ pc'[t] = "relock" /\ \A u \in Threads \ {t} : pc'[u] = pc[u]
  BY DEF LogGroup, mem, Goto, TypeOK
<1>2. \A u \in Threads : pc[u] \in Leading => u = t
  BY <1>1 DEF ControlInv, OneLeader, Leading
<1>3. last[t] \in Queued /\ Head(writers) = t
  BY <1>1 DEF ControlInv, OneLeader, Leading
<1>4. writers \in Seq(Threads) /\ IsInjective(writers)
  BY DEF TypeOK, ControlInv, QueueIsAlive
<1>5. PICK j \in DOMAIN writers : writers[j] = last[t]
  BY <1>3 DEF Queued, Range
<1>6. /\ Len(writers) \in Nat /\ DOMAIN writers = 1 .. Len(writers)
      /\ j \in 1 .. Len(writers)
  BY <1>4
<1> DEFINE order == [i \in 1 .. j |-> writers[i]]
<1>7. Group(t) = {writers[i] : i \in 1 .. j}
  BY <1>4, <1>5, GroupUpTo
<1>8. t \in Group(t) /\ Group(t) \subseteq Queued /\ Group(t) \subseteq Threads
  <2>1. writers # <<>>
    BY <1>1, LeaderSeesQueue DEF Leading
  <2> QED
    BY <1>3, <2>1, FrontInGroup, GroupIsQueued
<1>9. DOMAIN order = 1 .. j /\ Range(order) = Group(t)
  BY <1>7 DEF Range
<1>10. order \in SetToSeqs(Group(t))
  <2>1. \A i \in 1 .. j : i \in DOMAIN writers
    BY <1>6
  <2>2. order \in [1 .. j -> Group(t)]
    BY <1>7
  <2>3. \A i, k \in 1 .. j : i # k => order[i] # order[k]
    BY <1>4, <2>1 DEF IsInjective
  <2>4. order \in Bijection(1 .. j, Group(t))
    <3>1. \A i, k \in 1 .. j : order[i] = order[k] => i = k
      BY <2>3
    <3>2. \A x \in Group(t) : \E i \in 1 .. j : order[i] = x
      BY <1>7
    <3> HIDE DEF order
    <3> QED
      BY <2>2, <3>1, <3>2 DEF Bijection, Injection, Surjection, IsInjective
  <2>5. IsFiniteSet(1 .. j) /\ Cardinality(1 .. j) = j
    <3>1. j \in Int /\ 1 \in Int /\ ~(1 > j) /\ (j - 1) + 1 = j
      BY <1>6
    <3> QED
      BY <3>1, FS_Interval
  <2>6. Cardinality(Group(t)) = j
    <3>1. ExistsBijection(1 .. j, Group(t))
      BY <2>4 DEF ExistsBijection
    <3> QED
      BY <2>5, <3>1, FS_Bijection
  <2> HIDE DEF order
  <2> QED
    BY <2>2, <2>3, <2>6 DEF SetToSeqs
<1>11. [i \in DOMAIN order |-> sub[order[i]]] = Submitted(j)
  BY <1>9 DEF Submitted
<1>12. rep[t] = FlattenSeq(Submitted(j))
  <2>1. PICK g : Concatenates(g, Submitted(j)) /\ rep[t] = g[j]
    BY <1>1, <1>5, <1>6 DEF GroupMerged
  <2>2. Submitted(j) \in Seq(Seq(Record)) /\ Len(Submitted(j)) = j /\ j > 0
    BY <1>6, SubmittedLength
  <2>3. FlattenSeq(Submitted(j)) = g[j]
    <3> DEFINE seqs == Submitted(j)
    <3>1. seqs \in Seq(Seq(Record)) /\ Len(seqs) = j /\ Len(seqs) > 0 /\ Concatenates(g, seqs)
      BY <2>1, <2>2
    <3> HIDE DEF seqs
    <3>2. FlattenSeq(seqs) = g[j]
      BY <3>1, Concatenated
    <3> QED
      BY <3>2 DEF seqs
  <2> QED
    BY <2>1, <2>3
<1> HIDE DEF order
<1>13. \A u \in Threads : Logged(u) <=> done[u]
  BY <1>1, <1>2 DEF Logged, Leading
<1>14. ASSUME NEW u \in Group(t) PROVE CallState[u] = "pending"
  <2>1. u \in Queued /\ u \in Threads
    BY <1>8
  <2>2. pc[u] # "idle" /\ ~done[u]
    BY <2>1 DEF ControlInv, QueueIsAlive
  <2> QED
    BY <1>13, <2>1, <2>2 DEF CallState
<1>15. order \in Abstract!Orders({u \in Threads : CallState[u] = "pending"})
  <2> DEFINE P == {u \in Threads : CallState[u] = "pending"}
  <2>1. Group(t) \in SUBSET P
    BY <1>8, <1>14
  <2>2. Group(t) \in (SUBSET P) \ {{}}
    BY <1>8, <2>1
  <2> HIDE DEF P
  <2>3. Abstract!Orders(P) = UNION {SetToSeqs(T) : T \in (SUBSET P) \ {{}}}
    BY SameOperators DEF Abstract!Orders
  <2>4. SetToSeqs(Group(t)) \in {SetToSeqs(T) : T \in (SUBSET P) \ {{}}}
    BY <2>2
  <2>5. order \in Abstract!Orders(P)
    BY <1>10, <2>3, <2>4
  <2> QED
    BY <2>5 DEF P
<1>16. wal' = wal \o FlattenSeq([i \in DOMAIN order |-> sub[order[i]]])
  BY <1>1, <1>11, <1>12
<1>17. CallState' = [u \in Threads |-> IF u \in Range(order) THEN "committed" ELSE CallState[u]]
  <2>1. Group(t)' = Group(t)
    BY <1>1 DEF Group
  <2>2. \A u \in Threads : pc'[u] \in {"relock", "retire"} <=> u = t
    BY <1>1, <1>2 DEF Leading
  <2>3. \A u \in Threads : Logged(u)' <=> done[u] \/ u \in Group(t)
    BY <1>1, <1>8, <2>1, <2>2 DEF Logged
  <2>4. \A u \in Group(t) : CallState'[u] = "committed"
    <3>1. \A u \in Group(t) : pc'[u] # "idle"
      BY <1>1, <1>8 DEF ControlInv, QueueIsAlive
    <3> QED
      BY <1>8, <2>3, <3>1 DEF CallState
  <2>5. \A u \in Threads \ Group(t) : CallState'[u] = CallState[u]
    <3>1. \A u \in Threads : pc'[u] = "idle" <=> pc[u] = "idle"
      BY <1>1
    <3> QED
      BY <1>13, <2>3, <3>1 DEF CallState
  <2> QED
    BY <1>8, <1>9, <2>4, <2>5 DEF CallState
<1> QED
  <2> DEFINE P == {u \in Threads : CallState[u] = "pending"}
  <2>1. PICK o : /\ o \in Abstract!Orders(P) /\ sub' = sub
                 /\ wal' = wal \o FlattenSeq([i \in DOMAIN o |-> sub[o[i]]])
                 /\ CallState' = [u \in Threads |-> IF u \in Range(o) THEN "committed"
                                                    ELSE CallState[u]]
    BY <1>1, <1>15, <1>16, <1>17
  <2> QED
    BY <2>1, SameOperators DEF Abstract!Commit, CallState, P

LEMMA StepCommits ==
  ASSUME TypeOK, TypeOK', ControlInv, ControlInv', GroupMerged, [Next]_vars
  PROVE  [Abstract!Next]_(Abstract!vars)
<1> SUFFICES Abstract!Next \/ UNCHANGED Abstract!vars
  OBVIOUS
<1>1. CASE UNCHANGED vars
  <2>1. \A t \in Threads : Logged(t)' <=> Logged(t)
    BY <1>1 DEF Logged, Group, vars
  <2> QED
    BY <1>1, <2>1, SameCalls DEF vars
<1>2. ASSUME NEW t \in Threads, Client(t) \/ SpuriousWakeup(t)
      PROVE  Abstract!Next \/ UNCHANGED Abstract!vars
  <2>1. CASE Call(t)
    BY <2>1, CallSubmits DEF Abstract!Next
  <2>2. CASE Put(t) \/ Clear(t) \/ SpuriousWakeup(t)
    BY <2>2, QuietSteps
  <2> QED
    BY <1>2, <2>1, <2>2 DEF Client
<1>3. ASSUME NEW t \in Threads, Writing(t)
      PROVE  Abstract!Next \/ UNCHANGED Abstract!vars
  <2>1. CASE LogGroup(t)
    BY <2>1, LogGroupCommits DEF Abstract!Next
  <2>2. CASE ReturnDone(t) \/ RetireLast(t)
    BY <2>2, FollowerReturns, LeaderReturns DEF Abstract!Next
  <2>3. CASE Enqueue(t) \/ RetireNext(t)
    BY <2>3, EnqueueIsQuiet, RetireNextIsQuiet
  <2>4. CASE \/ Wait(t) \/ Rewake(t) \/ Lead(t) \/ AppendNext(t)
             \/ EndBuild(t) \/ Relock(t)
    BY <2>4, QuietSteps
  <2> QED
    BY <1>3, <2>1, <2>2, <2>3, <2>4 DEF Writing
<1> QED
  BY <1>1, <1>2, <1>3 DEF Next

LEMMA InitEmptyLog == Init => Abstract!Init
<1> SUFFICES ASSUME Init PROVE Abstract!Init
  OBVIOUS
<1>1. wal = <<>> /\ sub = [t \in Threads |-> <<>>] /\ \A t \in Threads : pc[t] = "idle"
  BY DEF Init
<1> QED
  BY <1>1 DEF Abstract!Init

(* Write implements the commit log: the records of a call enter the log as *)
(* one block, at one instant between the call and its return, with the     *)
(* blocks of whatever calls its leader has merged, in one row.             *)
THEOREM WriteImplementsLog == Spec => ImplementsCommitLog
<1>1. Init => DurableInv /\ GroupMerged
  BY DEF Init, DurableInv, BatchIntact, GroupCovered, DoneCovered,
         AckedIsLogged, Waiting, GroupMerged
<1>2. DurableInv => BatchIntact
  BY DEF DurableInv
<1> QED
  BY <1>1, <1>2, TypeControlInvariant, DurableStep, MergedStep, InitEmptyLog, StepCommits, PTL
     DEF Spec, ImplementsCommitLog, Abstract!Spec

=============================================================================
