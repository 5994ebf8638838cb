--------------------------- MODULE MemoryOrdered ----------------------------
(***************************************************************************)
(* The two tests of example-memory-ordered: a consumer that spins on a     *)
(* pointer until a producer has stored it, and tasks that count themselves *)
(* off, the last of which reports.                                         *)
(*                                                                         *)
(* Memory is that of C++: a location is the sequence of its writes, and a  *)
(* thread may read any of them that is not older than one it must know of. *)
(* What it must know of is its view.  A release attaches the view of the   *)
(* writer to the write, and an acquire that reads it takes the view over;  *)
(* so do starting and joining a thread.                                    *)
(***************************************************************************)
EXTENDS Integers, Sequences, FiniteSets, FiniteSetsExt

CONSTANTS TOTAL_TASKS,
          Main, Producer, Consumer,         \* the other threads
          string, data, ptr, completed_tasks  \* the locations

Tasks == 0 .. TOTAL_TASKS - 1

ASSUME TasksAssumption ==
  /\ TOTAL_TASKS \in Nat \ {0}
  /\ Main # Producer /\ Main # Consumer /\ Producer # Consumer
  /\ {Main, Producer, Consumer} \cap Tasks = {}
  /\ string # data /\ ptr \notin {string, data}
  /\ completed_tasks \notin {string, data, ptr}
  /\ {string, data, ptr, completed_tasks} \cap Tasks = {}

VARIABLES
  pc,      \* where each thread is
  memory,  \* the writes to each location, with the views attached to them
  view,    \* how many of the writes to each location each thread must know of
  read,    \* what the consumer read of *p2 and of data, 0 before
  reports  \* the threads that called on_all_tasks_completed, in order

vars == <<pc, memory, view, read, reports>>

Threads   == Tasks \cup {Main, Producer, Consumer}
Locations == Tasks \cup {string, data, ptr, completed_tasks}  \* i: the line of task i

Nothing == [l \in Locations |-> 1]

Init ==
  /\ pc = [t \in Threads |-> IF t = Main THEN "begin" ELSE "none"]
  /\ memory = [l \in Locations |-> <<[value |-> 0, view |-> Nothing]>>]
  /\ view = [t \in Threads |-> Nothing]
  /\ read = [l \in {string, data} |-> 0]
  /\ reports = <<>>

-----------------------------------------------------------------------------
(* Memory *)

Newer(v, w) == [l \in Locations |-> Max({v[l], w[l]})]
At(t, l)    == pc[t] = l
Goto(t, l)  == pc' = [pc EXCEPT ![t] = l]

\* The writes a thread may read
Visible_LoadedOnce(t, l) == {view[t][l]}
Visible(t, l) == view[t][l] .. Len(memory[l])

Append_(l, value, attached) ==
  memory' = [memory EXCEPT ![l] = Append(@, [value |-> value, view |-> attached])]

\* A write that is not atomic, or relaxed: nothing is attached.
Write(t, l, value) ==
  /\ Append_(l, value, Nothing)
  /\ view' = [view EXCEPT ![t][l] = Len(memory[l]) + 1]

Released_Relaxed(v) == Nothing
Released(v) == v

StoreRelease(t, l, value) ==
  /\ view' = [view EXCEPT ![t][l] = Len(memory[l]) + 1]
  /\ Append_(l, value, Released(view'[t]))

\* fetch_add: reads the last write and writes the next one.
Added(t, l) == memory[l][Len(memory[l])]

FetchAdd(t, l, prev) ==
  /\ prev = Added(t, l).value
  /\ view' = [view EXCEPT ![t] = [Newer(@, Added(t, l).view) EXCEPT
                                    ![l] = Len(memory[l]) + 1]]
  /\ Append_(l, prev + 1, Released(view'[t]))

-----------------------------------------------------------------------------
(* TestMemoryOrdered *)

NewString ==
  /\ At(Producer, "new") /\ Write(Producer, string, 1)
  /\ Goto(Producer, "data") /\ UNCHANGED <<read, reports>>

SetData ==
  /\ At(Producer, "data") /\ Write(Producer, data, 42)
  /\ Goto(Producer, "store") /\ UNCHANGED <<read, reports>>

StorePtr ==
  /\ At(Producer, "store") /\ StoreRelease(Producer, ptr, 1)
  /\ Goto(Producer, "end") /\ UNCHANGED <<read, reports>>

\* The turn of the loop that ends it; a turn that reads null changes nothing.
LoadPtr ==
  /\ At(Consumer, "load")
  /\ \E i \in Visible(Consumer, ptr) :
       /\ memory[ptr][i].value # 0
       /\ view' = [view EXCEPT ![Consumer] =
                     [Newer(@, memory[ptr][i].view) EXCEPT ![ptr] = i]]
  /\ Goto(Consumer, "string") /\ UNCHANGED <<memory, read, reports>>

Check(l, here, next) ==
  /\ At(Consumer, here)
  /\ \E i \in Visible(Consumer, l) :
       /\ read' = [read EXCEPT ![l] = memory[l][i].value]
       /\ view' = [view EXCEPT ![Consumer][l] = i]
  /\ Goto(Consumer, next) /\ UNCHANGED <<memory, reports>>

-----------------------------------------------------------------------------
(* perform_task *)

PrintLine(t) ==
  /\ At(t, "task") /\ Write(t, t, 1)
  /\ Goto(t, "add") /\ UNCHANGED <<read, reports>>

IsLast_OffByOne(prev) == prev = TOTAL_TASKS
IsLast(prev) == prev + 1 = TOTAL_TASKS

Count(t) ==
  /\ At(t, "add")
  /\ \E prev \in 0 .. TOTAL_TASKS :
       /\ FetchAdd(t, completed_tasks, prev)
       /\ Goto(t, IF IsLast(prev) THEN "report" ELSE "end")
  /\ UNCHANGED <<read, reports>>

on_all_tasks_completed(t) ==
  /\ At(t, "report")
  /\ reports' = Append(reports, t)
  /\ Goto(t, "end") /\ UNCHANGED <<memory, view, read>>

-----------------------------------------------------------------------------
(* main *)

\* The first test starts its two threads and joins them.
Begin ==
  /\ At(Main, "begin")
  /\ pc' = [pc EXCEPT ![Main] = "first", ![Producer] = "new", ![Consumer] = "load"]
  /\ UNCHANGED <<memory, view, read, reports>>

Joined(S) == [l \in Locations |-> Max({view[t][l] : t \in S \cup {Main}})]

JoinFirst ==
  /\ At(Main, "first") /\ At(Producer, "end") /\ At(Consumer, "end")
  /\ view' = [view EXCEPT ![Main] = Joined({Producer, Consumer})]
  /\ Goto(Main, "second") /\ UNCHANGED <<memory, read, reports>>

\* The second starts the tasks one by one, while the first of them run.
Start(t) ==
  /\ At(Main, "second") /\ At(t, "none") /\ \A u \in 0 .. t - 1 : ~At(u, "none")
  /\ view' = [view EXCEPT ![t] = view[Main]]
  /\ Goto(t, "task") /\ UNCHANGED <<memory, read, reports>>

JoinTasks ==
  /\ At(Main, "second") /\ \A t \in Tasks : At(t, "end")
  /\ view' = [view EXCEPT ![Main] = Joined(Tasks)]
  /\ Goto(Main, "end") /\ UNCHANGED <<memory, read, reports>>

MainStep == Begin \/ JoinFirst \/ (\E t \in Tasks : Start(t)) \/ JoinTasks
Producing == NewString \/ SetData \/ StorePtr
Consuming == LoadPtr \/ Check(string, "string", "data") \/ Check(data, "data", "end")
Performing(t) == PrintLine(t) \/ Count(t) \/ on_all_tasks_completed(t)

Next == MainStep \/ Producing \/ Consuming \/ \E t \in Tasks : Performing(t)

\* Threads keep running, and a store becomes visible in the end.
Spec == /\ Init /\ [][Next]_vars
        /\ WF_vars(MainStep) /\ WF_vars(Producing) /\ WF_vars(Consuming)
        /\ \A t \in Tasks : WF_vars(Performing(t))

-----------------------------------------------------------------------------
(* Properties *)

TypeOK ==
  /\ DOMAIN pc = Threads /\ DOMAIN memory = Locations
  /\ \A t \in Threads, l \in Locations : view[t][l] \in 1 .. Len(memory[l])
  /\ \A l \in Locations : \A i \in DOMAIN memory[l] :
       memory[l][i].view \in [Locations -> Nat]

\* The asserts of the consumer: once it has the pointer it sees the string and
\* the data that were written before, and nothing older.
AssertsHold ==
  /\ pc[Consumer] \in {"data", "end"} => read[string] = 1
  /\ pc[Consumer] = "end" => read[data] = 42

\* Exactly one task reports, when all have counted themselves off, and it
\* knows of the line of every one of them.
LastReportsAll ==
  /\ Len(reports) <= 1
  /\ \A t \in Tasks : pc[t] = "report" =>
       \A u \in Tasks : pc[u] \in {"report", "end"} /\ view[t][u] = 2
  /\ pc[Main] = "end" => Len(reports) = 1

\* The consumer's loop ends, and so do both tests.
TestsEnd == <>(pc[Main] = "end")
=============================================================================
