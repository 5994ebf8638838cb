# Verification of c-plus-plus-examples

The repository is a collection of small C++ programs: data structures with and without
concurrency, some taken over in miniature from databases (group commit and batches from LevelDB,
the writable file, the varint coding), and trials of the language. There is hardly any
documentation; the reference is the code with its comments and its tests. This directory
models the parts that have state or an algorithm of their own, checks them with TLC, and proves
what matters most about the core with TLAPS.

The core is **group commit** (`example-ping-pong-batch`): several threads, one mutex, a queue
of writers and a leader that does the work for others. It is modelled first, in the finest
steps. The proofs began there and now reach every component: each safety property and each
refinement that a passing run checks is also a theorem, and what is left to TLC alone is liveness.

## The parts of the system

| Part | State | Operations | What is hard | What makes it right |
|---|---|---|---|---|
| Group commit, `DBImpl::Write` | mutex, condition variables, `writers_`, batches | `Write`, `BuildBatchGroup`, the caller's `Put`, `Clear` | interleaving, wakeups, lifetime of stack objects | one leader; nobody sleeps forever; acknowledged means logged; the log is the queue |
| Time wheel | slots, level indices, clock | `AddTimer`, `Tick`, `Cascade`, callbacks | callbacks in the middle of a tick, wraps | no timer lost, each fires once, not early and boundedly late |
| Lock-free queue | `head_`, `tail_`, linked nodes, the static `null_tail` | `enqueue`, `dequeue`, `empty`, destructor | memory reuse, retries | FIFO, no use after delete, nothing leaks |
| Fair request queue | map of clients, queue of queues | `Push`, `Pop` | the two containers must agree | each client in order, no client starved |
| Writable file, `WriteStringToFile` | buffer, descriptor, file | `Append`, `Flush`, `Close`, destructor; open to unlink | partial writes, failures | no silent loss, OK means complete |
| LRU cache | list, map of iterators | `Get`, `Put` | dangling iterators, capacity limits | holds what was used last |
| Block list | records of failures, clock | `ReportFailed` | clock read several times | blocked for a cause, none overlooked |
| Dynamic bit set | levels of summary words | `set`, `clear`, finders | early stops when summaries are updated | summaries agree, finders right |
| Status | the address of an array, owned by the object | factories, copy, move, assignment, destructor, `ToString` | aliasing, self-assignment, addresses used again | one owner for each array; a Status is a value |
| Memory-order tests | atomics, plain data, a counter | a store and a spinning load; `fetch_add` by many tasks | loads that return old writes | the asserts hold, exactly one task reports and knows of all |
| `MapList` | hash map, cursor | `Push`, `Run`, the limit of a round | a rehash between two rounds, buckets beyond the limit | every item is displayed in time |
| Write batch, slices | bytes | `Put`, `Delete`, `Append`, header fields; `compare`, `==`, `starts_with` | two headers and one count, common prefixes | the documented format; a total order |
| Free space, `MetaDataLayout` | a bit for each unit | search in two versions, marks | borders of words, the end of the space | the first fit, no unit with two holders |
| Top k, coding, section files | none | functions | borders of groups, heaps and files | result as defined |

The parts hardly interact: each example is a program of its own. `example-ping-pong-batch`
and `example-writablefile` use `common/` (mutex and condition variable, slices, status), and
write batches hand their records to group commit. Where one part calls another, the modules are
composed: `StringToFile` extends `WritableFile`, `WriteBatch` extends `Coding`, `GroupCommit`
holds the mutex, the condition variables and the batches in its own state. There a batch is the
sequence of its records; that its bytes stand for that sequence, `Append` included, is what
`WriteBatch` shows.

## The modules

| Module | Models | Checked by | 
|---|---|---|
| `CommitLog` | what `Write` promises: each call's records enter the log at one instant between call and return | refined by `GroupCommit` |
| `GroupCommit` | `example-ping-pong-batch/main.cc`, `write_batch.cc`, `common/port_stdcxx.h` | `MCGroupCommit`, `GroupCommit_proofs` |
| `TimeWheel` | `example-time-wheel/time_wheel.cc` | `MCTimeWheel`, `TimeWheel_proofs` |
| `FifoQueue` | a queue whose operations take effect at one instant | refined by `LockFreeQueue` |
| `LockFreeQueue` | `example-lfq/main.cc` | `MCLockFreeQueue`, `LockFreeQueue_proofs` |
| `FairService` | requests served so that no client goes twice while another waits | refined by `FairQueue` |
| `FairQueue` | `example-fq/fair_queue.cc` | `MCFairQueue`, `Containers_proofs` |
| `WritableFile` | `example-writablefile/writable_file.h` | through `StringToFile` |
| `StringToFile` | `example-writablefile/writable_file.cc` | `MCStringToFile`, `StringToFile_proofs` |
| `StatusValues` | objects that hold a value each: copies are equal and independent | refined by `Status` |
| `Status` | `common/status.cc`, `common/status.h` | `MCStatus`, `Status_proofs` |
| `MemoryOrdered` | `example-memory-ordered/main.cc` | `MCMemoryOrdered`, `MemoryOrdered_proofs` |
| `LruCache` | `common/lru.h` | `MCContainers`, `Containers_proofs` |
| `BlockList` | `example-blocklist/block_list.cc` | `MCContainers`, `Containers_proofs` |
| `MapList` | `example-tmp/tmp.cc` | `MCContainers`, `Containers_proofs` |
| `DynamicBits` | `example-dynamic-bits/dynamic_bits.cc`, `common/align.h`, `common/bitopts.h` | `MCContainers`, `Containers_proofs` |
| `MetaDataLayout` | `example-bitset/main.cc` | `MCContainers`, `Containers_proofs` |
| `MinHeap`, `Coding`, `Slices`, `WriteBatch`, `Section` | the functions of `example-minheap-topk`, `common/coding`, `common/slice.h`, `example-ping-pong-batch/write_batch.cc`, `example-str-utils/section.cc` as operators, each with a definition of what it is for | `Algorithms`, `MCAlgorithms`, `Algorithms_proofs` |

`MCContainers` takes its five modules as instances beside each other; a behaviour is one of a
single `subject` and leaves the variables of the others alone. What these modules ask of their
constants is an operator there (`LruParameters`, `BlockListParameters`, `MapListParameters`,
`BitsParameters`, `LayoutParameters`), and `MCContainers` assumes them all.
`MCFairQueue` takes `FairQueue` in the same way and assumes its `FairQueueParameters`.

Names of variables and operators are those of the source, with `_` dropped where TLA+ would
not take it. A few operators exist in a second form whose name tells a plausible mistake
(`NextLeader_Forgotten`, `Ends_OneLess`): put in the place of the operator they break a
property, which shows that the property depends on that line of the code. They are used
nowhere else.

### Group commit

`pc[t]` is the place of thread `t` in `Write`; a step is what happens between two operations on
the mutex or a condition variable, except that a leader takes the other writers one by one, in
the loop of `BuildBatchGroup` and in the loop that retires the group.

| Action | Code (`main.cc`) |
|---|---|
| `Call`, `Enqueue` | 46-59: make a `Writer`, lock, `push_back` |
| `MustWait`, `Wait`, `Signalled`, `SpuriousWakeup`, `Rewake` | 60-62: the wait loop; waking up means taking the mutex again |
| `ReturnDone` | 64-66 |
| `Lead`, `AppendNext`, `EndBuild` | 106-125 and 70-73: build the group, unlock |
| `LogGroup`, `Relock` | 75-84: the log I/O outside the mutex |
| `PopReady`, `RetireNext`, `RetireLast`, `NextLeader` | 86-104 |
| `Put`, `Clear` | `write_batch.cc`: what a caller does to its batch between calls, or leaves undone |

A batch is the sequence of its records, whose length is the header's count; the record `<<t, n>>`
is the n-th that thread `t` put. `LogGroup` appends the leader's batch to `wal`, which the code only announces in a
comment (line 75): the variable stands for the log. `enq` and `acked` are history: the records
in the order `writers_` received them, and those of the calls that returned.

The tests make a fresh batch for every write or clear it. Nothing in the interface asks for
that, so the model also lets a caller hand in its batch again as it is, with what
`BuildBatchGroup` appended to it. Then the records of followers are logged a second time, under
the caller's name; `LogFollowsQueue` says precisely this, that the log is what was submitted.

### The others

*Time wheel.* `Tick` is split where it calls a timer's callback, which may add timers (also the
one that fires): `Scan` looks through the slot, each `Fire` is one callback, `Advance` and
`Cascade` move the indices. `RemoveTimer` does nothing for a timer and has no action. The number
of slots of a level, `TVN_SIZE`, is a constant; the code's 256 are used in `TimeWheelTest` only.

*Lock-free queue.* One action for each access of an atomic or of a node. `heap` is the set of
nodes that are alive; `delete` makes the address free for the next `new`, so that old pointers
may meet new nodes. `compare_exchange_weak` may fail for no reason, at most `MaxFails` times in
a run, and on failure overwrites its expected value, the static `null_tail` that all calls
share. Accesses are sequentially consistent, which is the default order the code leaves its loads
and stores, and `empty`, in. Only the linking compare-exchange is weaker, a release and relaxed when
it fails: the loads of `next_` that find the link acquire it, and the model gives it the order of
the others.

*Fair queue.* `Push` and `Pop` are one step each: the class has no lock and no thread of its
own. `Pop` reads a reference to a deque element after `pop_front`; the model takes what the
build does, where the memory is left alone.

*Status.* A call is one action. `heap` has the arrays that are allocated, by address; `delete[]`
makes the address free again, also within the same call, and a deleted array reads as garbage.
`Shown` is what `ToString` says of an object, and the value of `StatusValues` that refines it.

*Memory-order tests.* Memory is weaker than sequentially consistent: a location is the sequence
of its writes, and a load returns any of them that is not older than what the thread must know
of, its `view`. A release attaches the writer's view to the write, an acquire that reads it joins
it to the reader's; starting and joining a thread hand views on; `fetch_add` reads the last write.
The plain variables (`*p2`, `data`, a task's line of output) are read and written with no view
attached, so that they are seen only through the atomics. The relaxed form of the store, as a
mutant, makes the consumer's assert fail.

*Files.* A file is the sequence of byte numbers that reached it. `write(2)` may take any part of
the data and then fail; `fsync`, `close`, `open` and `unlink` may fail. `faulty` records that
any of them did. In `StringToFile` either `DoWriteStringToFile` runs, or, with `step = "free"`,
somebody else uses a file object in any order of calls.

*LRU cache.* List nodes are addresses, iterators are addresses; erased addresses are reused. A
`splice` to the front is taking the node out and putting it before the others.

*Block list.* `ReportFailed` reads the clock for the record and again for the age of the
records; time passes in between. A record is the number of its failure and its time, so that two
failures of the same tick are two records.

*MapList.* An item's bucket is its key modulo `bucket_cnt`, which grows through the counts of the
library when items are pushed. The static cursor only grows, so it is kept modulo a number that
all counts divide. `waits` is history: the calls of `Run` since an item was displayed. A rehash may
move an item's bucket behind the cursor, so what bounds the wait is the number of buckets of all
the counts that the map grew through, `Buckets`.

*Dynamic bits.* A word is a set of positions. `set` and `clear` stop at the first level whose
word says that the levels above are right already; this is `SetReaches` and `ClearReaches`.
`find_next_set` is `Climb`, which gives the first level at which its loop stops with the position it has
there, and `Down`, the positions of the levels below. On the way down an `unsigned` is shifted
(`Shifted`), which loses what does not fit: `FindersAgree` asks of `find_next_set` only the positions
an unsigned can hold, which are all of them in sets of up to 2^32 bits, and `nopos` when none is left.
The index of a word is an `unsigned` too; `BitsParameters` takes the sizes whose words it can count,
up to 2^38 bits.

*Free space.* Callers of `MetaDataLayout` mark the run that a search found for them and free what
they hold, from any marks the space may begin with; that is how the tests use it, and the class
itself asks for nothing. `held` is history. A mark outside the space throws in the code and is left
out, for no search returns one.

*Functions.* `Algorithms` has one variable for a call with its arguments and one for its result;
its initial states are all the calls, and each action makes one. What a function is for is written
without its steps: `SmallestOf` takes the i-th element as the least value that i elements do not
exceed, `Format` is the comment at the head of `write_batch.cc`, `AsWritten` speaks of the lines of
the file and of no parser. The values, slices, records, files and heaps a call may have are
constants; `InputsAssumption` says what they may be, and a batch may have as many records as its
count has room for. Loops and recursion are recursive functions (`PutSlices`, `ReadAll`, `Filled`,
`ParseSectionFile`), which the proofs can unfold.

## What the runs check

Eleven runs pass. In all of them every action of the modules is taken.

| Run | Bounds | Shows |
|---|---|---|
| `GroupCommitSafe` | 3 threads, 2 calls and 1 `Put` each, groups of 2 records (the code's `kMaxBatchSize`), 1 spurious wakeup | `QueueIsAlive`, `OneLeader`, `NoLostWakeup`, `AckedIsLogged`, `LogFollowsQueue`, `OnlyLeaderBatchGrows`, `ImplementsCommitLog` |
| `GroupCommitLive` | the same with groups of 1 record and no spurious wakeup, which could only help | `EveryWriteReturns` |
| `TimeWheelLists` | 2 timers added up to twice, 2 levels of 4 slots, time to 12 | `EachTimerOnce`, `FiresWhenDue` |
| `TimeWheelLate` | 1 timer, 3 levels of 4 slots, time to 120, past a full rotation of 64 | `ClockDigits`, `NeverOverdue`, `AlignedIsPrompt` |
| `LockFreeQueueTest` | 1 producer, 1 consumer, 4 values, 4 addresses, 1 spurious failure | `NodesOutliveTheirUse`, `NonEmptyStays`, `ImplementsFifo`, `EveryValueArrives` |
| `FairQueueTurns` | 3 clients, 2 requests waiting for each | `QueuesMatchClients`, `ImplementsFairService`, `NoClientStarves` |
| `FileFaults` | a buffer of 3 bytes, appends of 0 to 7, 9 bytes in all | `FileFollowsAppends`, `AllOrNothing`, `LossIsReported` |
| `StatusCopies` | 3 objects, 4 addresses, 2 codes, messages with and without a second part | `OneOwnerEach`, `ImplementsValues` |
| `MemoryOrderedTests` | the program's own: a producer, a consumer, 5 tasks | `AssertsHold`, `LastReportsAll`, `TestsEnd` |
| `Containers` | LRU: 4 keys, capacities 0 to 2, 3 addresses; block list: 2 disks, 2 types of failures, time to 3; `MapList`: 5 keys, limits 0 to 4, up to 7 buckets; bits: words of 2, sizes 1 to 9, up to 4 levels; free space: 9 units in chunks of 4 | `HoldsMostRecent`, `BlockedIffCause`, `ShownInTime`, `SummariesAgree`, `FindersAgree`, `FindsFirstFit` |
| `Algorithms` | heaps of 7 elements; varints of 5 bits in groups of 2; slices of 3 bytes; batches of 2 records each with headers of 2 and 1 bytes; files of 5 lines; numbers -40 to 40 for types of 2 and 4 bits | `FindsSmallest`, `ReadsWhatWasPut`, `SlicesOrdered`, `BatchesFormatted`, `SectionsAsWritten`, `NumbersFit` |

One run, `TimeWheelTest`, finds its property violated: the test of the wheel comments its first
timer "timer 1: fires after 5 ms" (`example-time-wheel/main.cc:8`) and the timer, set 5 ticks
ahead, fires in tick 6. `Tick` scans the slot of the tick before and moves on afterwards.

Why the bounds are enough:

- *Group commit*: with three threads there is a leader, a follower in its group and a writer that
  is queued behind the group or cut off by its size, all at once, and any of them may come back
  for a second call while the others are still in their first.
- *Time wheel*: the timers' distances lie at, below and above each level's border; time runs past
  the wrap of the highest level, so every cascade happens.
- *Lock-free queue*: the four addresses are the sentinel, the last node, the one being enqueued
  and the one being deleted; the fourth value reuses an address.
- *Files*: data smaller than, as long as, and more than twice the buffer, at every fill level.
- *LRU*: more keys than the largest capacity, and a capacity of 0. As many addresses as items
  that ever exist at once.
- *Status*: three objects let one be copied to a second and moved to a third while the first is
  assigned; a copy may land at the address just deleted or at another.
- *Memory-order tests*: the program has no more threads than these, nor more tasks; the proofs
  take any number of tasks.
- *MapList*: two keys share a bucket before the rehash and not after it, and the limits lie below
  and above what a bucket holds; a tour of the map is interrupted by the rehash at every place.
- *Free space*: three chunks, the last of one unit; searches start at every place in a chunk.
- *Slices and batches*: three slices for transitivity, prefixes of each other among them; either
  batch may be empty.
- *Dynamic bits and the functions*: several words on several levels, last words half full, values
  that need every number of groups. `UNSIGNED` is 8 and the largest set has nine bits, so that the
  shift loses the last position on the highest level, as the code's does from 2^32 on.

### Deadlock

Deadlock is checked for `FairQueueTurns` and `StatusCopies`, which can always take a step. The
other systems stop when their bounded work is done; that group commit, the lock-free queue and
the memory-order tests do not stop before it is done is what the liveness properties say.

### Fairness

- `GroupCommitLive`: weak fairness of `Writing(t)`, the steps of a call that has begun. Threads
  that can run do run, and a sleeping thread gets no fairness for spurious wakeups, so that only a
  signal counts. Taking the mutex is such a step too. Weak fairness is enough for it because calls
  are bounded: after finitely many steps of the others the mutex stays free until this thread
  takes it. Nothing makes a caller call `Write`.
- `LockFreeQueueTest`: weak fairness of the producer's steps inside `enqueue` and of the consumer's
  steps, strong fairness of a consumer's beginning a `dequeue`: the test's consumer calls it in a
  loop, whatever it asks in between. Spurious failures are bounded: the hardware's are not, but do
  not go on forever.
- `FairQueueTurns`: weak fairness of `Pop`: somebody keeps popping. Nothing is assumed of `Push`.
- `MemoryOrderedTests`: weak fairness of every thread's steps. The consumer's is of the turn of
  its loop that sees the pointer, so it says besides that a store becomes visible in the end,
  which the standard asks of implementations.

## What is proved

Each theorem holds for every value of the constants its module allows, under no assumption but
those the modules name. These say that bounds are numbers, sets finite where they are counted
and "none" is no element; that the wheel has at least two levels of at least two slots
(`WheelAssumption`), words two bits or more, a bit set no more words than an `unsigned` counts,
and a `MapList` a bucket count for all its keys (`ContainersAssumption`). Of the functions' inputs they say what the types of the arguments say
(`InputsAssumption`: slices of bytes, heaps of integers that are heaps, records as `Put` and `Delete`
make them, lines of the three kinds), that a batch has no more records than its count can hold, that
integers have some bits (`CodingAssumption`), the header's fields some bytes (`HeaderAssumption`), and
`long` at least twice the values of `int` (`NumbersAssumption`). For the lock-free queue there is `OneOfEach` besides: one producer and one
consumer, as the code is made for. `GroupCommit_proofs` proves, for any set of threads, any
`MaxBatchSize` and any bounds:

| Theorem | States |
|---|---|
| `TypeCorrect` | `Spec => []TypeOK` |
| `QueueStaysAlive` | `Spec => []QueueIsAlive`: the deque holds only Writers whose calls are in progress and not done, each once |
| `OneLeaderAtATime` | `Spec => []OneLeader`: a single leader, which owns the front until it has retired its group, and whose last writer stays queued meanwhile |
| `NoWakeupIsLost` | `Spec => []NoLostWakeup`: who is done, or at the front with nobody retiring, is not asleep |
| `AckedStaysLogged` | `Spec => []AckedIsLogged` |
| `FollowersBatchesKept` | `Spec => OnlyLeaderBatchGrows` |
| `LogIsTheQueue` | `Spec => []LogFollowsQueue`: the log is a prefix of what the queue received |
| `WriteImplementsLog` | `Spec => ImplementsCommitLog`, the refinement of `CommitLog` |

The assumptions are those of the module: `BoundsAssumption` (the bounds are numbers)
and `ThreadsAssumption` (`NoThread` is no thread). The argument goes in layers, each inductive relative to those before:

1. `TypeOK` and `ControlInv` are inductive together: that the leader finds its `last` in the queue
   is what keeps `Head(writers)` and `Tail(writers)` well typed.
2. `ControlInv` ties the program counters to the queue, the mutex and `done_`: who holds the mutex
   where, who is queued where, that a leader's `last` is in the queue and a retiring leader at its front or gone from it. `QueueIsAlive` and `OneLeader` follow. It is needed because each
   of the two says nothing of the places between lock operations, where a step of another thread
   may come in.
3. `NoLostWakeup` is inductive given `ControlInv`: a signal is sent whenever the front changes or
   `done_` is set.
4. `DurableInv` adds where the records of a call are: in its own batch before it is taken, in its
   leader's batch until that is logged, in the log from then on. `AckedIsLogged` follows.

5. `OrderInv` says where in `enq` each batch is. There are borders
   `cut[0] .. cut[Len(writers)]` such that what was received for `writers[i]` lies between
   `cut[i-1]` and `cut[i]`; the leader's batch lies between `cut[0]` and the border of its last
   writer; the log ends at `cut[0]`, or at that border once the group is logged. The borders are
   bound by an existential quantifier, so nothing has to be computed by recursion: a step that
   queues a writer adds one, one that pops a writer drops the first, all others keep them.
   `LogFollowsQueue` follows.
6. `GroupMerged` says what a leader's batch is made of: it is the concatenation of what the writers of
   its group handed in, in the order of the queue. `CommitLog` logs a group in one step, as such a
   concatenation, so `LogGroup` is that step and every other step one of its calls, its returns or
   a stutter. The concatenation is given by its partial results (`Concatenates`), of which a
   lemma shows that they end in what the recursive `FlattenSeq` gives.

`FollowersBatchesKept` is an action property and follows from the types, action by action.

The other proof modules:

| Theorem | States |
|---|---|
| `Status_proofs`: `OneOwner` | `Spec => []OneOwnerEach`: no array has two owners, is deleted while owned, or is left over |
| `StatusIsAValue` | `Spec => ImplementsValues`, the refinement of `StatusValues` |
| `LockFreeQueue_proofs`: `NodesOutlive` | `OneOfEach /\ Spec => []NodesOutliveTheirUse` |
| `NonEmptyUntilTaken` | `OneOfEach /\ Spec => NonEmptyStays` |
| `QueueIsFifo` | `OneOfEach /\ Spec => ImplementsFifo`, the refinement of `FifoQueue` |
| `MemoryOrdered_proofs`: `AssertsAlwaysHold` | `Spec => []AssertsHold` |
| `LastOneReports` | `Spec => []LastReportsAll`, for any number of tasks |
| `StringToFile_proofs`: `FileIsAppends` | `Spec => []FileFollowsAppends`, for any size of the buffer and of the data |
| `NoSilentLoss` | `Spec => LossIsReported` |
| `WholeFileOrError` | `Spec => []AllOrNothing` |
| `TimeWheel_proofs`: `TypeCorrect` | `Spec => []TypeOK` |
| `IndicesAreTheClock` | `Spec => []ClockDigits`: the index of each level is a digit of the clock |
| `TimersAreKept` | `Spec => []EachTimerOnce`: as many references to a timer as it was added, until it fires |
| `CallbacksAreDue` | `Spec => FiresWhenDue`: no callback runs early or twice |
| `LatenessIsBounded` | `Spec => []NeverOverdue` |
| `AlignedTimersArePrompt` | `Spec => AlignedIsPrompt` |
| `Containers_proofs`: `HeldIsMostRecent` | `Spec => []HoldsMostRecent`, for any capacity |
| `BlocksForCause` | `Spec => []BlockedIffCause`, for any policies |
| `ItemsAreShownInTime` | `Spec => []ShownInTime`, for any limits and bucket counts |
| `SummariesStayRight` | `Spec => []SummariesAgree`, for any width of a word and any size whose words an `unsigned` can count |
| `FindersFindMembers` | `Spec => []FindersAgree`, for the same sizes and any width of an `unsigned`; `find_next_set` for positions that fit |
| `SearchFindsFirstFit` | `Spec => []FindsFirstFit`: both searches, for any space and chunks |
| `ContainersAgree` | `Fair!Spec => []QueuesMatchClients`, where `Fair` is `FairQueue` |
| `QueueIsFair` | `Fair!Spec => ImplementsFairService`, the refinement of `FairService` |
| `Algorithms_proofs`: `SlicesAreOrdered` | `Spec => []SlicesOrdered`, for slices of any length |
| `NumbersAreFit` | `Spec => []NumbersFit`, for types of any width |
| `SmallestAreFound` | `Spec => []FindsSmallest`, for any heap of integers |
| `WhatWasPutIsRead` | `Spec => []ReadsWhatWasPut`, for varints of any width in groups of any size, and any stream cut anywhere |
| `BatchesAreFormatted` | `Spec => []BatchesFormatted`, for any records and widths of the header's fields |
| `SectionsAreAsWritten` | `Spec => []SectionsAsWritten`, for files of any length |

- *Status.* `Owners` is `OneOwnerEach` object by object; an assignment may delete before
  it copies because no array has two owners: where the two addresses differ, the deleted array is
  not the one to be copied. The refinement needs `HeapInv`
  besides: every array is one that a constructor laid out, so that the size in its head is the
  length of its text and a copy of `size + 5` bytes is the whole of it. Then every call maps to
  the step of `StatusValues` of the same name.
- *Fair queue.* `Queued` says that the queue of queues has each client of the map once and
  nothing else, `Filled` that a client in the map has a request and its object bears its name,
  `InTurn` that whoever is ahead of a client was not served since it began to wait. The last is
  what fairness rests on: `Pop` takes the first, so nobody else who waits has seen it served, and
  moves it behind all of them.
- *Lock-free queue.* The invariant says that there is a list, linked by `next_` from `head_` and
  without repetitions, which `tail_` ends unless the producer is about to swing it; that the heap
  has its nodes, the one the producer made and has not linked, the one the consumer took off and
  has not deleted, and no other; and what each of the two remembers of it. The list is bound by an
  existential quantifier: enqueuing appends to it, dequeuing drops its first. That addresses are
  used again is no case of its own, for a new node is one that is in neither of the three. For
  the refinement, the abstract queue is the values of that list behind its sentinel
  (`Contents`); `ValueInv` adds that the nodes hold values and what the consumer read is what
  the node it unlinked held. The mapping reads the list off the links by recursion, and the list
  being without repetitions is what makes that recursion end at the right node.
- *Memory-order tests.* `Typed` says that a view tells of writes that there are. `Published` says
  that the write of the pointer carries a view of the string and the data, `Received` that a
  consumer past its loop knows both, which are the last writes, so it reads nothing older.
  `Counted` says that the counter's last write carries the lines of all who have counted, because
  each `fetch_add` joins the view it read to its own and releases both. `Reported` follows from the counter being the number of those who counted.
- *Files.* What a call leaves in file and buffer together is a beginning, a `Cut`, of what was there
  and what it was given, and all of it if it returns OK: `WrittenCut` shows it of `WriteUnbuffered`,
  `FlushCut` and `AppendCut` put its uses together. A beginning of an ordered sequence is ordered
  (`CutOrdered`), and no failure means no cut, so `FileInv` is inductive for every order of calls.
  `Progress` says for each step of `DoWriteStringToFile` what it has seen to by then: whether the
  descriptor is still open, and that an OK so far means that nothing has failed, `Close` included.
- *Time wheel.* Three layers. `ClockInv` relates the indices to the clock in the middle of a `Tick`
  too: a level shows the tick before until its cascade is due, and a cascade of a level happens
  only when one of its slots begins. `TimersInv` counts: an entry of a timer is a place (level, slot,
  position), and every move of a list is a one-to-one map of the places before to those after
  it. `LatenessInv` follows one entry of a pending timer (`Waits`): it lies in the slot that
  is dealt with at tick `Span[l] * m` for an `m` that is still to come, and that is neither later than the
  bound of `NeverOverdue` allows nor, if the timer was added where its level begins, late at all. A
  cascade hands it to a level below with an `m` that satisfies the same.
- *LRU cache.* `CacheInv` compares list and map place by place with the history: the i-th node holds
  the i-th key of `used`. Using the key at place p permutes places (`Before`) in the same way in both.
  That the map has as many keys as the list has nodes (`KeysCounted`) ties the eviction, which looks
  at the map's size, to the list's last node.
- *Block list.* Dropping old records loses none that counts later, because the clock does not go
  back: `Suspected` says that the records are exactly the failures since the last count's
  interval began, and that they are too few.
- *MapList.* The wait of an item and the distance of its bucket from the cursor add up to less than
  the number of `Buckets`: a `Run` that does not show an item brings the cursor nearer
  (`OffsetShrinks`), and a rehash, after which the bucket may be anywhere, adds as many buckets as
  the distance can have (`BucketsGrow`).
- *Dynamic bits.* A bit's place on a level is its number divided by a power of two, so that word and
  bit there are quotient and remainder (`Digits`), and the words above follow from those below.
  `BitsInv` is `SummariesAgree` with types: a loop that stops early finds the level above right.
  The finders need `BitsInRange` besides, that every summary bit stands for a bit of the set. Then
  `BitsOfMembers` reads each level as what the members leave of themselves there, `DescendFinds`
  goes down to an end of the set, and `ClimbReaches` and `DownFinds` keep, level by level, that the
  next member is not before the position reached and lies in its block. On the way down the number
  that is shifted is at most that member, so that nothing is lost if the member fits
  (`ShiftedFits`, `TurnDown`). `LevelsShape`
  shows that the highest level is a single word, which the descent starts from.
- *Free space.* Each turn of either search leaves out only places where no run fits (`SearchTurn`),
  and the next zero or one is found bit by bit (`FirstByBits`) or chunk by chunk (`FirstByChunks`) alike.
  So both versions return the first fit, or the size if there is none (`NoRoom`). `SpaceInv` adds
  that runs handed out are marked and disjoint.

- *Slices.* Two sequences have a first difference or one is a prefix of the other (`FirstDifference`,
  from `Least`), and that is all `compare` looks at: `Decides` gives its result by it, and of three slices the two
  differences that come first decide the third comparison (`ComparesOrderly`).
- *Numbers.* A text read as `long` is its number if the type is signed and `long` has it. That the
  check against a narrower type's limits then does not mistake another number for it needs
  `2 * INT <= LONG`, for `AsLong` of a `uint32_t` must not wrap into the range of the type.
- *Top k.* `TakenInv` says of the loop which indices were taken: they are closed under parents, the
  candidates are the untaken children of those (or the root), and no taken value exceeds an untaken one. In a heap the least of
  the untaken is then among the candidates (`OpenBelow`), and with `Before` to break ties the next taken
  is the next of `SmallestOf` (`NextAscending`).
- *Coding.* `DivModUnique` and `DivDiv` make the groups of a number its digits. Both encoders write the
  same sequence (`SameVarint`): the loop's step takes off the lowest group, the case distinction's
  first byte is that group (`NextGroup`). The first byte below `B` is the last (`VarintRead`), which no proper prefix has
  (`VarintCut`). `FixedRead` says the same of integers of fixed width. A stream is read by
  induction over its slices: `StreamRead` says that as long as the next slice is complete a turn reads
  it and leaves what lies behind it, and that a slice which the cut falls into, or the end, stops the
  reader for good (`NextRead`). `LeftOf` is what is left of the stream behind some of its slices, and
  `StreamPrefix` where each of them is written.
- *Write batch.* `Overwritten` replaces one of three parts of a sequence and keeps the others
  (`PartOverwritten`). `Filled` has the format of the records added so far, by induction (`FilledIs`,
  whose step is `RecordAdded`); the body of a batch is the concatenation of its entries, which `Append` joins (`BatchAppended`).
- *Section files.* `ReadInv` says what the parser knows after n lines: the current section is that
  of the last header, its data are what the lines since then say, the map has the first section of each
  name before it, and the parser aborted exactly if a pair among those lines has no section. Each
  kind of line keeps it (`LineRead`), and the end of the file stores the last section like
  another header would (`FinishedKeeps`).

In the runs' instances TLC finds these invariants true as well, where it can evaluate them; the
tick of `Waits` is given a bound for that.

Induction over the naturals is done from the library's theorem that `<` on them is well-founded:
`Least` and `Induction` are lemmas about sets of numbers, and `Recursion` shows that a function
defined by recursion on a number obeys its definition; `UpTo` does the same on an interval, for the
loops. The functions that go over lists, levels, bits, chunks, bytes or lines are unfolded with
them. Definitions that hold a fold (`FlattenSeq`) are met by partial results: `Joins` says what the
concatenations of the beginnings of a sequence are, and `JoinedAll` that they end in what `FlattenSeq` gives.

Only model-checked:

- liveness (`EveryWriteReturns`, `EveryValueArrives`, `NoClientStarves`, `TestsEnd`): fairness and
  ENABLED are beyond the prover;
- `TimeWheelTest`, whose property is false, and the deadlock checks.

## Observations

Met while modelling; apart from the first no doc, comment or test of the repository says what
should happen, or the matter is one of wording:

- `time_wheel.cc:67`: a timer set `d` ticks ahead between two ticks fires in the `d + 1`-th tick at
  the earliest, for `Tick` scans its slot before it advances (see `TimeWheelTest`); and since the slot is chosen
  from the distance alone, a timer added in the middle of a rotation of its level may be late by
  up to that rotation. `NeverOverdue` states the bound.
- `time_wheel.cc:75`: the comment says `[256, 131071]`, the bound in the code is 65535.
- `time_wheel.cc:38`: `RemoveTimer` tests for null the wrong way round.
- `dynamic_bits.h:43`: the comment of `mask_higer_bits` says "all bits > n"; the mask has bit n too,
  which `find_next_set` needs.
- `dynamic_bits.cc:91`: `count_trailing_zeros` is an `unsigned`, and is shifted as one: in sets of more
  than 2^32 bits `find_next_set` loses the upper part of positions from there on, and beyond 2^36 bits
  it shifts by more bits than an `unsigned` has, which is undefined. The constructor, `set` and `clear` keep the index of a
  word in an `unsigned`, which does not count the words of sets beyond 2^38 bits.
- `write_batch.cc`, `main.cc:120`: a batch that led a group comes back to its caller with its
  followers' records; handed in again without `Clear` it logs them again.
- `example-lfq/main.cc`: with a second producer the shared `null_tail` lets a failed exchange
  replace a link, and with a second consumer a sentinel is deleted twice. The test has one of each,
  and the properties are stated for that.
- `fair_queue.cc:51`: a reference is used after `pop_front`; line 55: a client's queue is never
  deleted.
- `writable_file.h:102`: after a failed write the buffer is dropped, and later data is written behind
  the hole; line 122: `SyncFd` takes the success of `fsync` for failure.
- `block_list.cc:44`: the subtraction is unsigned and would wrap if a policy's interval were longer
  than the clock's whole count since 1970; the model's clock counts from when the list is made.
- `block_list.h:76`: `Now` counts ticks of the system clock, the policy's interval is called
  milliseconds.
- `section.cc:60`, `81`: `stoul` takes negative texts; `uint64_t` gets them modulo 2^64, which is why
  `NumbersFit` leaves them out.
- `coding.cc:140`: `GetLengthPrefixedSlice` has consumed the length when it fails.

## Not modelled

- The trials in `example-tmp/main.cc`, `example-algorithm`, `example-udl`,
  `example-perfect-forwarding`, `example-inc`, `example-gperftools` and `example-singleton`, which
  try out the language or the library and keep no state that a property could be about.
- `example-posix`, which is I/O; `example-wal`, which declares an interface and implements nothing.
- `Defer` and the helpers for memory and assertions, which keep no state; the build.
- Of modelled components: in section files the trimming and splitting of text and `Get` of bool
  and string, which compare characters; in the
  fair queue a library whose deque overwrites what was popped (see the observation on line 51);
  in the lock-free queue a second producer or consumer, for which the code is not made.

## Plan

Done: the models of every component with state or an algorithm of its own; proofs of the safety
properties and of the refinements of all of them, and of the functions.

Left: what the code itself does not have yet (the write-ahead log is an interface, `RemoveTimer`
does nothing), and the text handling of section files if a property of it were wanted.
