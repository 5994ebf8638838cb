------------------------ MODULE MemoryOrdered_proofs ------------------------
(***************************************************************************)
(* Proofs about MemoryOrdered for any number of tasks: the consumer's      *)
(* asserts hold, and the task that reports is the only one and knows of    *)
(* the lines of all.  Both rest on what is attached to the writes: a view  *)
(* that contains what the writer knew.                                     *)
(***************************************************************************)
EXTENDS MemoryOrdered, FiniteSetTheorems, TLAPS

(* A view tells of writes that there are.                                  *)
IsView(v, writes) == /\ v \in [Locations -> Nat]
                     /\ \A l \in Locations : v[l] \in 1 .. Len(writes[l])

Writes == [value : Nat, view : [Locations -> Nat]]

Typed ==
  /\ pc \in [Threads -> {pc[t] : t \in Threads}]
  /\ DOMAIN view = Threads /\ DOMAIN read = {string, data}
  /\ \A t \in Threads : t # Main \/ pc[Main] # "end" => IsView(view[t], memory)
  /\ memory \in [Locations -> Seq(Writes)]
  /\ \A l \in Locations : Len(memory[l]) > 0
  /\ \A l \in Locations : \A i \in 1 .. Len(memory[l]) : IsView(memory[l][i].view, memory)

(* The first test: the pointer carries what was written before it.         *)
Published ==
  /\ pc[Producer] \in {"none", "new", "data", "store", "end"}
  /\ Len(memory[string]) = IF pc[Producer] \in {"none", "new"} THEN 1 ELSE 2
  /\ Len(memory[data]) = IF pc[Producer] \in {"none", "new", "data"} THEN 1 ELSE 2
  /\ Len(memory[ptr]) = IF pc[Producer] # "end" THEN 1 ELSE 2
  /\ Len(memory[string]) = 2 => memory[string][2].value = 1 /\ view[Producer][string] = 2
  /\ Len(memory[data]) = 2 => memory[data][2].value = 42 /\ view[Producer][data] = 2
  /\ memory[ptr][1].value = 0
  /\ Len(memory[ptr]) = 2 => memory[ptr][2].view[string] = 2 /\ memory[ptr][2].view[data] = 2

Received ==
  /\ pc[Main] = "begin" => pc[Producer] = "none"
  /\ pc[Consumer] \in {"string", "data", "end"} =>
       pc[Producer] = "end" /\ view[Consumer][string] = 2 /\ view[Consumer][data] = 2
  /\ AssertsHold

(* The second: each count carries the lines of those that have counted.    *)
Done == {t \in Tasks : pc[t] \in {"report", "end"}}

Counted ==
  LET counts == memory[completed_tasks]
  IN  /\ Len(counts) = Cardinality(Done) + 1
      /\ \A k \in 1 .. Len(counts) : counts[k].value = k - 1
      /\ \A t \in Done : counts[Len(counts)].view[t] = 2

Printed ==
  /\ \A t \in Tasks : pc[t] \in {"none", "task", "add", "report", "end"}
  /\ \A t \in Tasks : Len(memory[t]) = IF pc[t] \in {"none", "task"} THEN 1 ELSE 2
  /\ \A t \in Tasks : pc[t] \notin {"none", "task"} => view[t][t] = 2
  /\ \A t, u \in Tasks : pc[t] = "report" => view[t][u] = 2

Reported ==
  /\ Done # Tasks => reports = <<>> /\ \A t \in Tasks : pc[t] # "report"
  /\ \A t, u \in Tasks : pc[t] = "report" => reports = <<>> /\ (pc[u] = "report" => u = t)
  /\ Done = Tasks => (\E t \in Tasks : pc[t] = "report") \/ Len(reports) = 1
  /\ Len(reports) <= 1
  /\ pc[Main] = "end" => \A t \in Tasks : pc[t] = "end"

IInv == Typed /\ Published /\ Received /\ Counted /\ Printed /\ Reported

-----------------------------------------------------------------------------
LEMMA Places ==
  /\ Main \in Threads /\ Producer \in Threads /\ Consumer \in Threads
  /\ Main # Producer /\ Main # Consumer /\ Producer # Consumer
  /\ \A t \in Tasks : t \in Threads /\ t # Main /\ t # Producer /\ t # Consumer
  /\ {string, data, ptr, completed_tasks} \subseteq Locations
  /\ string # data /\ ptr # string /\ ptr # data /\ completed_tasks # string
  /\ completed_tasks # data /\ completed_tasks # ptr
  /\ \A t \in Tasks : /\ t \in Locations /\ t # string /\ t # data /\ t # ptr
                      /\ t # completed_tasks
BY TasksAssumption DEF Threads, Locations

LEMMA MaxOfTwo ==
  ASSUME NEW a \in Nat, NEW b \in Nat
  PROVE  Max({a, b}) = IF a >= b THEN a ELSE b
BY DEF Max

LEMMA NewerAt ==
  ASSUME NEW v \in [Locations -> Nat], NEW w \in [Locations -> Nat], NEW l \in Locations
  PROVE  Newer(v, w)[l] = IF v[l] >= w[l] THEN v[l] ELSE w[l]
BY MaxOfTwo DEF Newer

LEMMA NewerIsView ==
  ASSUME NEW writes, NEW v, NEW w, IsView(v, writes), IsView(w, writes)
  PROVE  IsView(Newer(v, w), writes)
<1>1. /\ v \in [Locations -> Nat] /\ w \in [Locations -> Nat]
      /\ \A l \in Locations : v[l] \in 1 .. Len(writes[l]) /\ w[l] \in 1 .. Len(writes[l])
  BY DEF IsView
<1>2. DOMAIN Newer(v, w) = Locations /\ Newer(v, w) = [l \in Locations |-> Newer(v, w)[l]]
  BY DEF Newer
<1>3. ASSUME NEW l \in Locations
      PROVE  Newer(v, w)[l] \in Nat /\ Newer(v, w)[l] \in 1 .. Len(writes[l])
  BY <1>1, NewerAt
<1> QED
  BY <1>2, <1>3 DEF IsView

LEMMA InitKnown == Init => IInv
<1> SUFFICES ASSUME Init PROVE IInv
  OBVIOUS
<1>1. /\ \A t \in Threads : pc[t] = IF t = Main THEN "begin" ELSE "none"
      /\ \A l \in Locations : /\ memory[l] = <<[value |-> 0, view |-> Nothing]>>
                              /\ Len(memory[l]) = 1 /\ memory[l][1].value = 0
                              /\ memory[l][1].view = Nothing
      /\ \A t \in Threads : view[t] = Nothing
  BY DEF Init
<1>2. IsView(Nothing, memory)
  BY <1>1 DEF Nothing, IsView
<1>3. Typed
  <2>1. [value |-> 0, view |-> Nothing] \in Writes
    BY DEF Nothing, Writes
  <2>2. memory \in [Locations -> Seq(Writes)]
    BY <2>1 DEF Init
  <2> QED
    BY <1>1, <1>2, <2>2 DEF Init, Typed
<1>4. Published /\ Received
  BY <1>1, Places DEF Published, Received, AssertsHold
<1>5. Done = {}
  BY <1>1, Places DEF Done
<1>6. Counted
  <2>1. Cardinality(Done) = 0
    BY <1>5, FS_EmptySet
  <2>2. Len(memory[completed_tasks]) = 1 /\ memory[completed_tasks][1].value = 0
    BY <1>1, Places
  <2> QED
    BY <1>5, <2>1, <2>2 DEF Counted
<1>7. Printed
  BY <1>1, Places DEF Printed
<1>8. Reported
  <2>1. 0 \in Tasks
    BY TasksAssumption DEF Tasks
  <2> QED
    BY <1>1, <1>5, <2>1, Places DEF Reported, Init
<1> QED
  BY <1>3, <1>4, <1>6, <1>7, <1>8 DEF IInv

-----------------------------------------------------------------------------
(* What a write does, whatever is attached to it                           *)

Longer(l, x, a) ==
  /\ memory' \in [Locations -> Seq(Writes)]
  /\ Len(memory'[l]) = Len(memory[l]) + 1
  /\ memory'[l][Len(memory[l]) + 1] = [value |-> x, view |-> a]
  /\ \A i \in 1 .. Len(memory[l]) : memory'[l][i] = memory[l][i]
  /\ \A m \in Locations : m # l => memory'[m] = memory[m]
  /\ \A m \in Locations :
       Len(memory[m]) \in Nat /\ Len(memory'[m]) >= Len(memory[m])
  /\ \A v : IsView(v, memory) => IsView(v, memory')

LEMMA AppendLonger ==
  ASSUME Typed, NEW l \in Locations, NEW x \in Nat, NEW a \in [Locations -> Nat],
         Append_(l, x, a)
  PROVE  Longer(l, x, a)
<1>1. [value |-> x, view |-> a] \in Writes
  BY DEF Writes
<1>2. memory' = [memory EXCEPT ![l] = Append(@, [value |-> x, view |-> a])]
  BY DEF Append_
<1>3. memory \in [Locations -> Seq(Writes)]
  BY DEF Typed
<1>4. /\ memory' \in [Locations -> Seq(Writes)]
      /\ Len(memory'[l]) = Len(memory[l]) + 1
      /\ memory'[l][Len(memory[l]) + 1] = [value |-> x, view |-> a]
      /\ \A i \in 1 .. Len(memory[l]) : memory'[l][i] = memory[l][i]
      /\ \A m \in Locations : m # l => memory'[m] = memory[m]
  <2> DEFINE entry == [value |-> x, view |-> a]
  <2> HIDE DEF entry
  <2>1. /\ Append(memory[l], entry) \in Seq(Writes)
        /\ Len(Append(memory[l], entry)) = Len(memory[l]) + 1
        /\ Append(memory[l], entry)[Len(memory[l]) + 1] = entry
        /\ \A i \in 1 .. Len(memory[l]) : Append(memory[l], entry)[i] = memory[l][i]
    BY <1>1, <1>3 DEF entry
  <2>2. memory'[l] = Append(memory[l], entry)
    BY <1>2, <1>3 DEF entry
  <2>3. \A m \in Locations : m # l => memory'[m] = memory[m]
    BY <1>2, <1>3
  <2>4. memory' \in [Locations -> Seq(Writes)]
    BY <1>2, <1>3, <2>1 DEF entry
  <2> QED
    BY <2>1, <2>2, <2>3, <2>4 DEF entry
<1>5. ASSUME NEW m \in Locations
      PROVE  Len(memory[m]) \in Nat /\ Len(memory'[m]) >= Len(memory[m])
  <2>1. Len(memory[m]) \in Nat
    BY <1>3
  <2>2. Len(memory'[m]) = Len(memory[m]) + 1 \/ Len(memory'[m]) = Len(memory[m])
    BY <1>4
  <2> QED
    BY <2>1, <2>2
<1>6. \A v : IsView(v, memory) => IsView(v, memory')
  BY <1>3, <1>4, <1>5 DEF IsView
<1> QED
  BY <1>4, <1>5, <1>6 DEF Longer

LEMMA WriteTyped ==
  ASSUME Typed, NEW t \in Threads, t # Main, NEW l \in Locations, NEW x \in Nat,
         NEW a, NEW w, NEW place,
         Longer(l, x, a), IsView(a, memory'), IsView(w, memory'),
         view' = [view EXCEPT ![t] = w], Goto(t, place), UNCHANGED read
  PROVE  Typed'
<1>1. /\ DOMAIN pc = Threads /\ DOMAIN pc' = Threads /\ pc'[Main] = pc[Main]
      /\ pc' \in [Threads -> {pc'[u] : u \in Threads}]
  BY DEF Typed, Goto
<1>2. DOMAIN view' = Threads /\ view'[t] = w /\ \A u \in Threads : u # t => view'[u] = view[u]
  BY DEF Typed
<1>3. \A u \in Threads : u # Main \/ pc'[Main] # "end" => IsView(view'[u], memory')
  BY <1>1, <1>2 DEF Typed, Longer
<1>4. memory \in [Locations -> Seq(Writes)] /\ memory' \in [Locations -> Seq(Writes)]
  BY DEF Typed, Longer
<1>5. ASSUME NEW m \in Locations PROVE Len(memory'[m]) > 0
  <2>1. /\ Len(memory[m]) \in Nat /\ Len(memory[m]) > 0
        /\ Len(memory'[m]) >= Len(memory[m]) /\ Len(memory'[m]) \in Nat
    BY <1>4 DEF Typed, Longer
  <2> QED
    BY ONLY <2>1
<1>6. ASSUME NEW m \in Locations, NEW i \in 1 .. Len(memory'[m])
      PROVE  IsView(memory'[m][i].view, memory')
  <2>1. CASE i \in 1 .. Len(memory[m])
    <3>1. IsView(memory[m][i].view, memory) /\ memory'[m][i] = memory[m][i]
      BY <2>1 DEF Typed, Longer
    <3> QED
      BY <3>1 DEF Longer
  <2>2. CASE i \notin 1 .. Len(memory[m])
    <3>1. m = l /\ i = Len(memory[l]) + 1
      BY <1>4, <2>2 DEF Longer
    <3>2. memory'[m][i].view = a
      BY <3>1 DEF Longer
    <3> QED
      BY <3>2
  <2> QED
    BY <2>1, <2>2
<1> QED
  BY <1>1, <1>2, <1>3, <1>4, <1>5, <1>6 DEF Typed

Wrote(t, l, x, a) ==
  /\ Longer(l, x, a)
  /\ view'[t][l] = Len(memory[l]) + 1
  /\ \A m \in Locations : m # l => view'[t][m] = view[t][m]
  /\ \A u \in Threads : u # t => view'[u] = view[u]

LEMMA WriteWrote ==
  ASSUME Typed, NEW t \in Threads, t # Main, NEW l \in Locations, NEW x \in Nat,
         NEW place, Goto(t, place), UNCHANGED read,
         Write(t, l, x) \/ StoreRelease(t, l, x)
  PROVE  /\ Typed'
         /\ Write(t, l, x) => Wrote(t, l, x, Nothing)
         /\ StoreRelease(t, l, x) => Wrote(t, l, x, view'[t])
<1> DEFINE w == [view[t] EXCEPT ![l] = Len(memory[l]) + 1]
<1>1. /\ view' = [view EXCEPT ![t] = w] /\ DOMAIN view = Threads /\ view'[t] = w
      /\ \A u \in Threads : u # t => view'[u] = view[u]
  BY DEF Write, StoreRelease, Typed
<1>2. IsView(view[t], memory) /\ memory \in [Locations -> Seq(Writes)]
  BY DEF Typed
<1>3. /\ w \in [Locations -> Nat] /\ w[l] = Len(memory[l]) + 1
      /\ \A m \in Locations : m # l => w[m] = view[t][m]
  BY <1>2 DEF IsView
<1>4. Nothing \in [Locations -> Nat]
  BY DEF Nothing
<1> HIDE DEF w
<1>5. ASSUME NEW a, Longer(l, x, a), a = Nothing \/ a = w
      PROVE  Typed'
  <2>1. IsView(w, memory')
    BY <1>2, <1>3, <1>5 DEF IsView, Longer
  <2>2. IsView(Nothing, memory')
    <3>1. \A m \in Locations : Len(memory'[m]) \in Nat /\ Len(memory'[m]) > 0
      BY <1>2, <1>5 DEF Longer, Typed
    <3> QED
      BY <3>1 DEF Nothing, IsView
  <2> QED
    BY <1>1, <1>5, <2>1, <2>2, WriteTyped
<1>6. ASSUME Write(t, l, x) PROVE Typed' /\ Wrote(t, l, x, Nothing)
  <2>1. Longer(l, x, Nothing)
    BY <1>4, <1>6, AppendLonger DEF Write
  <2> QED
    BY <1>1, <1>3, <1>5, <1>6, <2>1 DEF Wrote
<1>7. ASSUME StoreRelease(t, l, x) PROVE Typed' /\ Wrote(t, l, x, view'[t])
  <2>1. Longer(l, x, w)
    BY <1>1, <1>3, <1>7, AppendLonger DEF StoreRelease, Released
  <2> QED
    BY <1>1, <1>3, <1>5, <1>7, <2>1 DEF Wrote
<1> QED
  BY <1>6, <1>7

-----------------------------------------------------------------------------
(* The tests do not meddle with each other *)

LEMMA SecondKept ==
  ASSUME IInv, reports' = reports, pc'[Main] = "end" => pc[Main] = "end",
         memory'[completed_tasks] = memory[completed_tasks],
         \A t \in Tasks : memory'[t] = memory[t] /\ pc'[t] = pc[t] /\ view'[t] = view[t]
  PROVE  Counted' /\ Printed' /\ Reported'
<1>1. Done' = Done
  BY DEF Done
<1>2. Counted'
  BY <1>1 DEF IInv, Counted
<1>3. Printed'
  BY DEF IInv, Printed
<1>4. Reported'
  BY <1>1 DEF IInv, Reported
<1> QED
  BY <1>2, <1>3, <1>4

LEMMA FirstKept ==
  ASSUME IInv, pc'[Main] = "begin" => pc[Main] = "begin", read' = read,
         \A l \in {string, data, ptr} : memory'[l] = memory[l],
         \A t \in {Producer, Consumer} : pc'[t] = pc[t] /\ view'[t] = view[t]
  PROVE  Published' /\ Received'
BY DEF IInv, Published, Received, AssertsHold

-----------------------------------------------------------------------------
(* The producer *)

LEMMA ProducingKeeps == IInv /\ Producing => IInv'
<1> SUFFICES ASSUME IInv, Producing PROVE IInv'
  OBVIOUS
<1> USE Places
<1>1. memory \in [Locations -> Seq(Writes)] /\ pc \in [Threads -> {pc[t] : t \in Threads}]
  BY DEF IInv, Typed
<1>2. ASSUME NEW l \in {string, data, ptr}, NEW x \in Nat, NEW a, NEW place,
             Wrote(Producer, l, x, a), Goto(Producer, place), Typed', reports' = reports,
             Published', Received'
      PROVE  IInv'
  <2>1. \A t \in Tasks : memory'[t] = memory[t] /\ pc'[t] = pc[t] /\ view'[t] = view[t]
    BY <1>1, <1>2 DEF Wrote, Longer, Goto
  <2>2. memory'[completed_tasks] = memory[completed_tasks] /\ pc'[Main] = pc[Main]
    BY <1>1, <1>2 DEF Wrote, Longer, Goto
  <2> QED
    BY <1>2, <2>1, <2>2, SecondKept DEF IInv
<1>3. CASE NewString
  <2>1. /\ pc[Producer] = "new" /\ Goto(Producer, "data") /\ Typed'
        /\ Wrote(Producer, string, 1, Nothing) /\ read' = read /\ reports' = reports
    BY <1>3, WriteWrote DEF NewString, At, IInv
  <2>2. /\ pc'[Producer] = "data" /\ pc'[Consumer] = pc[Consumer] /\ pc'[Main] = pc[Main]
        /\ Len(memory[string]) = 1
    BY <1>1, <2>1 DEF Goto, IInv, Published
  <2>3. /\ Len(memory'[string]) = 2 /\ memory'[string][2].value = 1
        /\ view'[Producer][string] = 2
        /\ memory'[data] = memory[data] /\ memory'[ptr] = memory[ptr]
        /\ view'[Consumer] = view[Consumer]
    BY <2>1, <2>2 DEF Wrote, Longer
  <2>4. Published'
    BY <2>1, <2>2, <2>3 DEF IInv, Published
  <2>5. Received'
    BY <2>1, <2>2, <2>3 DEF IInv, Received, AssertsHold
  <2> QED
    BY <1>2, <2>1, <2>4, <2>5
<1>4. CASE SetData
  <2>1. /\ pc[Producer] = "data" /\ Goto(Producer, "store") /\ Typed'
        /\ Wrote(Producer, data, 42, Nothing) /\ read' = read /\ reports' = reports
    BY <1>4, WriteWrote DEF SetData, At, IInv
  <2>2. /\ pc'[Producer] = "store" /\ pc'[Consumer] = pc[Consumer] /\ pc'[Main] = pc[Main]
        /\ Len(memory[data]) = 1
    BY <1>1, <2>1 DEF Goto, IInv, Published
  <2>3. /\ Len(memory'[data]) = 2 /\ memory'[data][2].value = 42
        /\ view'[Producer][data] = 2 /\ view'[Producer][string] = view[Producer][string]
        /\ memory'[string] = memory[string] /\ memory'[ptr] = memory[ptr]
        /\ view'[Consumer] = view[Consumer]
    BY <2>1, <2>2 DEF Wrote, Longer
  <2>4. Published'
    BY <2>1, <2>2, <2>3 DEF IInv, Published
  <2>5. Received'
    BY <2>1, <2>2, <2>3 DEF IInv, Received, AssertsHold
  <2> QED
    BY <1>2, <2>1, <2>4, <2>5
<1>5. CASE StorePtr
  <2>1. /\ pc[Producer] = "store" /\ Goto(Producer, "end") /\ Typed'
        /\ Wrote(Producer, ptr, 1, view'[Producer]) /\ read' = read /\ reports' = reports
    BY <1>5, WriteWrote DEF StorePtr, At, IInv
  <2>2. /\ pc'[Producer] = "end" /\ pc'[Consumer] = pc[Consumer] /\ pc'[Main] = pc[Main]
        /\ Len(memory[ptr]) = 1 /\ Len(memory[string]) = 2 /\ Len(memory[data]) = 2
    BY <1>1, <2>1 DEF Goto, IInv, Published
  <2>3. /\ Len(memory'[ptr]) = 2 /\ memory'[ptr][1] = memory[ptr][1]
        /\ memory'[ptr][2].view = view'[Producer]
        /\ view'[Producer][data] = view[Producer][data]
        /\ view'[Producer][string] = view[Producer][string]
        /\ memory'[string] = memory[string] /\ memory'[data] = memory[data]
        /\ view'[Consumer] = view[Consumer]
    BY <2>1, <2>2 DEF Wrote, Longer
  <2>4. Published'
    BY <2>1, <2>2, <2>3 DEF IInv, Published
  <2>5. Received'
    BY <2>1, <2>2, <2>3 DEF IInv, Received, AssertsHold
  <2> QED
    BY <1>2, <2>1, <2>4, <2>5
<1> QED
  BY <1>3, <1>4, <1>5 DEF Producing

-----------------------------------------------------------------------------
(* The consumer *)

LEMMA ConsumingKeeps == IInv /\ Consuming => IInv'
<1> SUFFICES ASSUME IInv, Consuming PROVE IInv'
  OBVIOUS
<1> USE Places
<1>1. /\ memory \in [Locations -> Seq(Writes)] /\ DOMAIN view = Threads
      /\ pc \in [Threads -> {pc[t] : t \in Threads}] /\ DOMAIN read = {string, data}
      /\ IsView(view[Consumer], memory)
  BY DEF IInv, Typed
<1>2. ASSUME NEW w, IsView(w, memory), view' = [view EXCEPT ![Consumer] = w],
             NEW place, Goto(Consumer, place), memory' = memory, reports' = reports,
             DOMAIN read' = {string, data}, Received'
      PROVE  IInv'
  <2>1. /\ pc' \in [Threads -> {pc'[t] : t \in Threads}]
        /\ \A t \in Threads : t # Consumer => pc'[t] = pc[t] /\ view'[t] = view[t]
        /\ DOMAIN view' = Threads /\ view'[Consumer] = w
    BY <1>1, <1>2 DEF Goto
  <2>2. Typed'
    BY <1>2, <2>1 DEF IInv, Typed
  <2>3. Published'
    BY <1>2, <2>1 DEF IInv, Published
  <2>4. Counted' /\ Printed' /\ Reported'
    BY <1>2, <2>1, SecondKept
  <2> QED
    BY <1>2, <2>2, <2>3, <2>4 DEF IInv
<1>3. CASE LoadPtr
  <2>1. PICK i \in Visible(Consumer, ptr) :
          /\ memory[ptr][i].value # 0
          /\ view' = [view EXCEPT ![Consumer] =
                         [Newer(@, memory[ptr][i].view) EXCEPT ![ptr] = i]]
    BY <1>3 DEF LoadPtr
  <2>2. Len(memory[ptr]) \in Nat /\ i \in 1 .. Len(memory[ptr])
    BY <1>1 DEF Visible, IsView
  <2>3. i = 2 /\ Len(memory[ptr]) = 2 /\ pc[Producer] = "end"
    BY <2>1, <2>2 DEF IInv, Published
  <2>4. IsView(memory[ptr][i].view, memory)
    BY <2>2 DEF IInv, Typed
  <2> DEFINE own == view[Consumer]
             got == memory[ptr][i].view
             n == Newer(own, got)
             w == [n EXCEPT ![ptr] = i]
  <2>5. IsView(n, memory) /\ n[string] >= 2 /\ n[data] >= 2
    <3>1. got[string] = 2 /\ got[data] = 2
      BY <2>3 DEF IInv, Published
    <3>2. IsView(own, memory) /\ IsView(got, memory)
      BY <1>1, <2>4
    <3> HIDE DEF own, got
    <3>3. IsView(n, memory)
      BY <3>2, NewerIsView
    <3>4. \A l \in Locations : n[l] = IF own[l] >= got[l] THEN own[l] ELSE got[l]
      BY <3>2, NewerAt DEF IsView
    <3>5. own[string] \in Nat /\ own[data] \in Nat
      BY <3>2 DEF IsView
    <3> HIDE DEF n
    <3> QED
      BY <3>1, <3>3, <3>4, <3>5
  <2>6. view' = [view EXCEPT ![Consumer] = w]
    BY <1>1, <2>1
  <2> HIDE DEF n
  <2>7. IsView(w, memory) /\ w[string] = 2 /\ w[data] = 2
    <3>1. Len(memory[string]) = 2 /\ Len(memory[data]) = 2
      BY <2>3 DEF IInv, Published
    <3>2. IsView(w, memory) /\ w[string] = n[string] /\ w[data] = n[data]
      BY <2>2, <2>5 DEF IsView
    <3>3. n[string] \in 1 .. 2 /\ n[data] \in 1 .. 2
      BY <2>5, <3>1 DEF IsView
    <3> HIDE DEF w
    <3> QED
      BY <2>5, <3>2, <3>3
  <2> HIDE DEF w
  <2>8. /\ Goto(Consumer, "string") /\ memory' = memory /\ read' = read
        /\ reports' = reports /\ pc[Consumer] = "load"
    BY <1>3 DEF LoadPtr, At
  <2>9. Received'
    <3>1. pc'[Consumer] = "string" /\ pc'[Producer] = "end" /\ pc'[Main] = pc[Main]
      BY <1>1, <2>3, <2>8 DEF Goto
    <3>2. view'[Consumer] = w
      BY <1>1, <2>6
    <3> QED
      BY <2>3, <2>7, <2>8, <3>1, <3>2 DEF IInv, Received, AssertsHold
  <2> QED
    BY <1>1, <1>2, <2>6, <2>7, <2>8, <2>9
<1>4. ASSUME NEW l \in {string, data}, NEW next,
             Check(l, IF l = string THEN "string" ELSE "data", next),
             next = IF l = string THEN "data" ELSE "end"
      PROVE  IInv'
  <2>1. PICK i \in Visible(Consumer, l) :
          /\ read' = [read EXCEPT ![l] = memory[l][i].value]
          /\ view' = [view EXCEPT ![Consumer][l] = i]
    BY <1>4 DEF Check
  <2>2. /\ pc[Consumer] = IF l = string THEN "string" ELSE "data"
        /\ Goto(Consumer, next) /\ memory' = memory /\ reports' = reports
    BY <1>4 DEF Check, At
  <2>3. /\ pc[Producer] = "end" /\ view[Consumer][string] = 2 /\ view[Consumer][data] = 2
        /\ Len(memory[string]) = 2 /\ Len(memory[data]) = 2
        /\ memory[string][2].value = 1 /\ memory[data][2].value = 42
    BY <1>4, <2>2 DEF IInv, Received, Published
  <2>4. i = 2
    <3>1. view[Consumer][l] = 2 /\ Len(memory[l]) = 2
      BY <1>4, <2>3
    <3> QED
      BY <2>1, <3>1 DEF Visible
  <2> DEFINE w == [view[Consumer] EXCEPT ![l] = i]
  <2>5. IsView(w, memory) /\ w[string] = 2 /\ w[data] = 2
    BY <1>1, <1>4, <2>3, <2>4 DEF IsView
  <2>6. view' = [view EXCEPT ![Consumer] = w]
    BY <1>1, <2>1
  <2> HIDE DEF w
  <2>7. /\ DOMAIN read' = {string, data}
        /\ read'[l] = IF l = string THEN 1 ELSE 42
        /\ \A m \in {string, data} : m # l => read'[m] = read[m]
    BY <1>1, <1>4, <2>1, <2>3, <2>4
  <2>8. Received'
    <3>1. pc'[Consumer] = next /\ pc'[Producer] = "end" /\ pc'[Main] = pc[Main]
      BY <1>1, <2>2, <2>3 DEF Goto
    <3>2. view'[Consumer] = w
      BY <1>1, <2>6
    <3> QED
      BY <1>4, <2>2, <2>3, <2>5, <2>7, <3>1, <3>2 DEF IInv, Received, AssertsHold
  <2> QED
    BY <1>2, <2>2, <2>5, <2>6, <2>7, <2>8
<1> QED
  BY <1>3, <1>4 DEF Consuming

-----------------------------------------------------------------------------
(* The tasks *)

LEMMA TasksCounted ==
  /\ IsFiniteSet(Tasks) /\ Cardinality(Tasks) = TOTAL_TASKS
  /\ IsFiniteSet(Done) /\ Cardinality(Done) \in Nat
  /\ \A t \in Tasks \ Done : Cardinality(Done \cup {t}) = Cardinality(Done) + 1
  /\ \A S \in SUBSET Tasks : Cardinality(S) = TOTAL_TASKS => S = Tasks
<1>1. TOTAL_TASKS \in Nat \ {0}
  BY TasksAssumption
<1>2. IsFiniteSet(Tasks) /\ Cardinality(Tasks) = TOTAL_TASKS
  BY <1>1, FS_Interval DEF Tasks
<1>3. IsFiniteSet(Done)
  BY <1>2, FS_Subset DEF Done
<1>4. Cardinality(Done) \in Nat
  BY <1>3, FS_CardinalityType
<1>5. \A t \in Tasks \ Done : Cardinality(Done \cup {t}) = Cardinality(Done) + 1
  BY <1>3, FS_AddElement
<1>6. \A S \in SUBSET Tasks : Cardinality(S) = TOTAL_TASKS => S = Tasks
  BY <1>2, FS_Subset
<1> QED
  BY <1>2, <1>3, <1>4, <1>5, <1>6

LEMMA PerformingKeeps ==
  ASSUME IInv, NEW t \in Tasks, Performing(t)
  PROVE  IInv'
<1> USE Places
<1>1. /\ memory \in [Locations -> Seq(Writes)] /\ DOMAIN view = Threads
      /\ pc \in [Threads -> {pc[u] : u \in Threads}] /\ DOMAIN read = {string, data}
      /\ IsView(view[t], memory) /\ Typed /\ t \in Threads
  BY DEF IInv, Typed
<1>2. ASSUME NEW l \in Tasks \cup {completed_tasks}, NEW place, Goto(t, place), read' = read,
             \A m \in Locations : m # l => memory'[m] = memory[m],
             \A u \in Threads : u # t => view'[u] = view[u]
      PROVE  /\ Published' /\ Received'
             /\ pc'[t] = place /\ \A u \in Threads : u # t => pc'[u] = pc[u]
  <2>1. pc'[t] = place /\ \A u \in Threads : u # t => pc'[u] = pc[u]
    BY <1>1, <1>2 DEF Goto
  <2>2. \A m \in {string, data, ptr} : memory'[m] = memory[m]
    BY <1>2
  <2>3. \A u \in {Producer, Consumer} : pc'[u] = pc[u] /\ view'[u] = view[u]
    BY <1>2, <2>1
  <2>4. pc'[Main] = pc[Main]
    BY <2>1
  <2> QED
    BY <1>2, <2>1, <2>2, <2>3, <2>4, FirstKept
<1>3. CASE PrintLine(t)
  <2>1. /\ pc[t] = "task" /\ Goto(t, "add") /\ Typed'
        /\ Wrote(t, t, 1, Nothing) /\ read' = read /\ reports' = reports
    BY <1>1, <1>3, WriteWrote DEF PrintLine, At
  <2>2. /\ \A m \in Locations : m # t => memory'[m] = memory[m]
        /\ \A u \in Threads : u # t => view'[u] = view[u]
        /\ Len(memory'[t]) = Len(memory[t]) + 1 /\ view'[t][t] = Len(memory[t]) + 1
    BY <1>1, <2>1 DEF Wrote, Longer
  <2>3. /\ Published' /\ Received'
        /\ pc'[t] = "add" /\ \A u \in Threads : u # t => pc'[u] = pc[u]
    BY <1>2, <2>1, <2>2
  <2>4. Done' = Done
    BY <2>1, <2>3 DEF Done
  <2>5. Counted'
    BY <2>2, <2>4 DEF IInv, Counted
  <2>6. Printed'
    BY <2>1, <2>2, <2>3 DEF IInv, Printed
  <2>7. Reported'
    BY <2>1, <2>3, <2>4 DEF IInv, Reported
  <2> QED
    BY <2>1, <2>3, <2>5, <2>6, <2>7 DEF IInv
<1>4. CASE on_all_tasks_completed(t)
  <2>1. /\ pc[t] = "report" /\ Goto(t, "end") /\ reports' = Append(reports, t)
        /\ memory' = memory /\ view' = view /\ read' = read
    BY <1>4 DEF on_all_tasks_completed, At
  <2>2. /\ Published' /\ Received'
        /\ pc'[t] = "end" /\ \A u \in Threads : u # t => pc'[u] = pc[u]
    BY <1>2, <2>1
  <2>3. Typed'
    <3>1. pc' \in [Threads -> {pc'[u] : u \in Threads}]
      BY <1>1, <2>1 DEF Goto
    <3> QED
      BY <1>1, <2>1, <2>2, <3>1 DEF Typed
  <2>4. Done' = Done /\ Done = Tasks
    BY <2>1, <2>2 DEF Done, IInv, Reported
  <2>5. Counted'
    BY <2>1, <2>4 DEF IInv, Counted
  <2>6. Printed'
    BY <2>1, <2>2 DEF IInv, Printed
  <2>7. Reported'
    <3>1. reports = <<>> /\ \A u \in Tasks : pc[u] = "report" => u = t
      BY <2>1 DEF IInv, Reported
    <3>2. Len(reports') = 1
      BY <2>1, <3>1
    <3>3. \A u \in Tasks : pc'[u] # "report"
      BY <2>2, <3>1
    <3>4. pc'[Main] = "end" => \A u \in Tasks : pc'[u] = "end"
      BY <2>1, <2>2 DEF IInv, Reported
    <3> QED
      BY <2>4, <3>2, <3>3, <3>4 DEF Reported
  <2> QED
    BY <2>2, <2>3, <2>5, <2>6, <2>7 DEF IInv
<1>5. CASE Count(t)
  <2> DEFINE l    == completed_tasks
             len  == Len(memory[l])
             last == memory[l][len].view
             n    == Newer(view[t], last)
             w    == [n EXCEPT ![l] = len + 1]
  <2>1. PICK prev \in 0 .. TOTAL_TASKS : /\ FetchAdd(t, l, prev)
                                        /\ Goto(t, IF IsLast(prev) THEN "report" ELSE "end")
    BY <1>5 DEF Count
  <2>2. pc[t] = "add" /\ read' = read /\ reports' = reports
    BY <1>5 DEF Count, At
  <2>3. /\ t \notin Done /\ Done # Tasks /\ len = Cardinality(Done) + 1
        /\ len \in Nat \ {0} /\ prev = len - 1 /\ len \in 1 .. len
    <3>1. t \notin Done /\ Done # Tasks
      BY <2>2 DEF Done
    <3>2. len = Cardinality(Done) + 1 /\ \A k \in 1 .. len : memory[l][k].value = k - 1
      BY DEF IInv, Counted
    <3>3. len \in Nat \ {0} /\ len \in 1 .. len
      BY <3>2, TasksCounted
    <3>4. prev = memory[l][len].value
      BY <2>1 DEF FetchAdd, Added
    <3> QED
      BY <3>1, <3>2, <3>3, <3>4
  <2>4. IsView(last, memory)
    BY <2>3 DEF IInv, Typed
  <2>5. IsView(n, memory) /\ \A m \in Locations : n[m] >= view[t][m] /\ n[m] >= last[m]
    <3>1. \A m \in Locations : n[m] = IF view[t][m] >= last[m] THEN view[t][m] ELSE last[m]
      BY <1>1, <2>4, NewerAt DEF IsView
    <3>2. IsView(n, memory)
      BY <1>1, <2>4, NewerIsView
    <3>3. \A m \in Locations : view[t][m] \in Nat /\ last[m] \in Nat
      BY <1>1, <2>4 DEF IsView
    <3> HIDE DEF n, last
    <3> QED
      BY <3>1, <3>2, <3>3
  <2>6. view' = [view EXCEPT ![t] = w] /\ view'[t] = w
        /\ \A u \in Threads : u # t => view'[u] = view[u]
    BY <1>1, <2>1 DEF FetchAdd, Added
  <2> HIDE DEF n
  <2>7. /\ w \in [Locations -> Nat] /\ w[l] = len + 1
        /\ \A m \in Locations : m # l => w[m] = n[m]
    BY <2>3, <2>5 DEF IsView
  <2> HIDE DEF w
  <2>8. Longer(l, len, w)
    <3>1. Append_(l, prev + 1, w)
      BY <2>1, <2>6 DEF FetchAdd, Released
    <3>2. prev + 1 = len
      BY ONLY <2>3
    <3> HIDE DEF last
    <3> QED
      BY <1>1, <2>3, <2>7, <3>1, <3>2, AppendLonger
  <2>9. Typed'
    <3>1. IsView(w, memory')
      <4>1. \A m \in Locations : m # l => w[m] \in 1 .. Len(memory'[m])
        BY <2>5, <2>7, <2>8 DEF IsView, Longer
      <4>2. w[l] \in 1 .. Len(memory'[l])
        BY <2>3, <2>7, <2>8 DEF Longer
      <4> QED
        BY <2>7, <4>1, <4>2 DEF IsView
    <3> QED
      BY <1>1, <2>1, <2>2, <2>3, <2>6, <2>8, <3>1, WriteTyped
  <2>10. /\ Published' /\ Received' /\ pc'[t] = IF IsLast(prev) THEN "report" ELSE "end"
         /\ \A u \in Threads : u # t => pc'[u] = pc[u]
    BY <1>2, <2>1, <2>2, <2>6, <2>8 DEF Longer
  <2>11. Done' = Done \cup {t} /\ Cardinality(Done') = len
    <3>1. Done' = Done \cup {t}
      BY <2>10 DEF Done
    <3> QED
      BY <2>3, <3>1, TasksCounted
  <2>12. \A u \in Done' : w[u] = 2
    <3>1. ASSUME NEW u \in Done' PROVE u \in Locations /\ u # l /\ Len(memory[u]) = 2
      <4>1. u \in Tasks /\ pc[u] \notin {"none", "task"}
        BY <2>2, <2>11 DEF Done
      <4> QED
        BY <4>1 DEF IInv, Printed
    <3>2. ASSUME NEW u \in Done' PROVE n[u] >= 2
      <4>1. CASE u = t
        BY <2>2, <2>5, <4>1 DEF IInv, Printed
      <4>2. CASE u \in Done
        BY <2>5, <3>1, <4>2 DEF IInv, Counted
      <4> QED
        BY <2>11, <4>1, <4>2
    <3>3. ASSUME NEW u \in Done' PROVE n[u] \in 1 .. 2
      BY <2>5, <3>1 DEF IsView
    <3> QED
      BY <2>7, <3>1, <3>2, <3>3
  <2>13. Counted'
    <3>1. Len(memory'[l]) = len + 1 /\ memory'[l][len + 1] = [value |-> len, view |-> w]
      BY <2>8 DEF Longer
    <3>2. \A k \in 1 .. len : memory'[l][k].value = k - 1
      BY <2>8 DEF IInv, Counted, Longer
    <3>3. \A k \in 1 .. len + 1 : memory'[l][k].value = k - 1
      <4>1. memory'[l][len + 1].value = (len + 1) - 1
        BY <2>3, <3>1
      <4>2. \A k \in 1 .. len + 1 : k \in 1 .. len \/ k = len + 1
        BY <2>3
      <4> QED
        BY <3>2, <4>1, <4>2
    <3> QED
      BY <2>11, <2>12, <3>1, <3>3 DEF Counted
  <2>14. IsLast(prev) <=> Done' = Tasks
    <3>1. IsLast(prev) <=> len = TOTAL_TASKS
      <4>1. TOTAL_TASKS \in Nat
        BY TasksAssumption
      <4> QED
        BY <2>3, <4>1 DEF IsLast
    <3>2. Done' \in SUBSET Tasks
      BY <2>11 DEF Done
    <3> QED
      BY <2>11, <3>1, <3>2, TasksCounted
  <2>15. Printed'
    <3>1. \A u \in Tasks : memory'[u] = memory[u]
      BY <2>8 DEF Longer
    <3>2. t \in Done' /\ w[t] = 2
      BY <2>11, <2>12
    <3>3. pc'[t] = "report" => \A u \in Tasks : view'[t][u] = 2
      BY <2>6, <2>10, <2>12, <2>14
    <3>4. \A u \in Tasks : pc'[u] \in {"none", "task", "add", "report", "end"}
      BY <2>10 DEF IInv, Printed
    <3>5. \A u \in Tasks : Len(memory'[u]) = IF pc'[u] \in {"none", "task"} THEN 1 ELSE 2
      BY <2>2, <2>10, <3>1 DEF IInv, Printed
    <3>6. \A u \in Tasks : pc'[u] \notin {"none", "task"} => view'[u][u] = 2
      BY <2>6, <2>10, <3>2 DEF IInv, Printed
    <3>7. \A u, v \in Tasks : pc'[u] = "report" => view'[u][v] = 2
      BY <2>6, <2>10, <3>3 DEF IInv, Printed
    <3> QED
      BY <3>4, <3>5, <3>6, <3>7 DEF Printed
  <2>16. Reported'
    <3>1. reports = <<>> /\ \A u \in Tasks : pc[u] # "report"
      BY <2>3 DEF IInv, Reported
    <3>2. pc'[Main] # "end"
      BY <2>2, <2>10 DEF IInv, Reported
    <3>3. \A u \in Tasks : pc'[u] = "report" => u = t /\ Done' = Tasks
      BY <2>10, <2>14, <3>1
    <3>4. Done' = Tasks => pc'[t] = "report"
      BY <2>10, <2>14
    <3> QED
      BY <2>2, <3>1, <3>2, <3>3, <3>4 DEF Reported
  <2> QED
    BY <2>9, <2>10, <2>13, <2>15, <2>16 DEF IInv
<1> QED
  BY <1>3, <1>4, <1>5 DEF Performing

-----------------------------------------------------------------------------
(* main *)

LEMMA MaxOfThree ==
  ASSUME NEW n \in Nat, NEW a \in 1 .. n, NEW b \in 1 .. n, NEW c \in 1 .. n
  PROVE  Max({a, b, c}) \in Nat /\ Max({a, b, c}) \in 1 .. n
<1>1. \E m \in {a, b, c} : \A x \in {a, b, c} : m >= x
  OBVIOUS
<1>2. Max({a, b, c}) \in {a, b, c}
  BY <1>1 DEF Max
<1> QED
  BY <1>2

LEMMA MainKeeps == IInv /\ MainStep => IInv'
<1> SUFFICES ASSUME IInv, MainStep PROVE IInv'
  OBVIOUS
<1> USE Places
<1>1. /\ memory \in [Locations -> Seq(Writes)] /\ DOMAIN view = Threads
      /\ pc \in [Threads -> {pc[u] : u \in Threads}] /\ DOMAIN read = {string, data}
  BY DEF IInv, Typed
<1>2. memory' = memory /\ read' = read /\ reports' = reports
  BY DEF MainStep, Begin, JoinFirst, Start, JoinTasks
<1>3. CASE Begin
  <2>1. /\ pc[Main] = "begin" /\ view' = view /\ pc'[Main] = "first"
        /\ pc'[Producer] = "new" /\ pc'[Consumer] = "load"
        /\ pc' \in [Threads -> {pc'[u] : u \in Threads}]
        /\ \A u \in Tasks : pc'[u] = pc[u]
    BY <1>1, <1>3 DEF Begin, At
  <2>2. pc[Producer] = "none"
    BY <2>1 DEF IInv, Received
  <2>3. Typed'
    BY <1>2, <2>1 DEF IInv, Typed
  <2>4. Published'
    BY <1>2, <2>1, <2>2 DEF IInv, Published
  <2>5. Received'
    BY <2>1 DEF Received, AssertsHold
  <2> QED
    BY <1>2, <2>1, <2>3, <2>4, <2>5, SecondKept DEF IInv
<1>4. CASE JoinFirst
  <2>1. /\ pc[Main] = "first" /\ pc' = [pc EXCEPT ![Main] = "second"]
        /\ view' = [view EXCEPT ![Main] = Joined({Producer, Consumer})]
    BY <1>4 DEF JoinFirst, At, Goto
  <2>2. /\ pc' \in [Threads -> {pc'[u] : u \in Threads}] /\ pc'[Main] = "second"
        /\ view'[Main] = Joined({Producer, Consumer}) /\ DOMAIN view' = Threads
        /\ \A u \in Threads : u # Main => pc'[u] = pc[u] /\ view'[u] = view[u]
    BY <1>1, <2>1
  <2>3. IsView(Joined({Producer, Consumer}), memory)
    <3>1. \A u \in {Main, Producer, Consumer} : IsView(view[u], memory)
      BY <2>1 DEF IInv, Typed
    <3>2. ASSUME NEW m \in Locations
          PROVE  /\ Joined({Producer, Consumer})[m] \in Nat
                 /\ Joined({Producer, Consumer})[m] \in 1 .. Len(memory[m])
      <4>1. /\ view[Main][m] \in 1 .. Len(memory[m]) /\ view[Producer][m] \in 1 .. Len(memory[m])
            /\ view[Consumer][m] \in 1 .. Len(memory[m]) /\ Len(memory[m]) \in Nat
        BY <1>1, <3>1 DEF IsView
      <4>2. {view[u][m] : u \in {Producer, Consumer} \cup {Main}}
              = {view[Main][m], view[Producer][m], view[Consumer][m]}
        OBVIOUS
      <4>3. Joined({Producer, Consumer})[m]
              = Max({view[Main][m], view[Producer][m], view[Consumer][m]})
        BY <4>2 DEF Joined
      <4> QED
        BY <4>1, <4>3, MaxOfThree
    <3>3. Joined({Producer, Consumer}) = [m \in Locations |-> Joined({Producer, Consumer})[m]]
      BY DEF Joined
    <3>4. Joined({Producer, Consumer}) \in [Locations -> Nat]
      BY <3>2, <3>3
    <3> QED
      BY <3>2, <3>4 DEF IsView
  <2>4. Typed'
    BY <1>2, <2>2, <2>3 DEF IInv, Typed
  <2>5. Published' /\ Received'
    BY <1>2, <2>2, FirstKept
  <2>6. Counted' /\ Printed' /\ Reported'
    BY <1>2, <2>2, SecondKept
  <2> QED
    BY <2>4, <2>5, <2>6 DEF IInv
<1>5. ASSUME NEW t \in Tasks, Start(t) PROVE IInv'
  <2>1. /\ pc[Main] = "second" /\ pc[t] = "none" /\ pc' = [pc EXCEPT ![t] = "task"]
        /\ view' = [view EXCEPT ![t] = view[Main]]
    BY <1>5 DEF Start, At, Goto
  <2>2. /\ pc' \in [Threads -> {pc'[u] : u \in Threads}] /\ pc'[t] = "task"
        /\ view'[t] = view[Main] /\ DOMAIN view' = Threads
        /\ \A u \in Threads : u # t => pc'[u] = pc[u] /\ view'[u] = view[u]
    BY <1>1, <2>1
  <2>3. Typed'
    <3>1. IsView(view[Main], memory)
      BY <2>1 DEF IInv, Typed
    <3> QED
      BY <1>2, <2>1, <2>2, <3>1 DEF IInv, Typed
  <2>4. Published' /\ Received'
    BY <1>2, <2>2, FirstKept
  <2>5. Done' = Done
    BY <2>1, <2>2 DEF Done
  <2>6. Counted'
    BY <1>2, <2>5 DEF IInv, Counted
  <2>7. Printed'
    BY <1>2, <2>1, <2>2 DEF IInv, Printed
  <2>8. Reported'
    BY <1>2, <2>1, <2>2, <2>5 DEF IInv, Reported
  <2> QED
    BY <2>3, <2>4, <2>6, <2>7, <2>8 DEF IInv
<1>6. CASE JoinTasks
  <2>1. /\ pc[Main] = "second" /\ pc' = [pc EXCEPT ![Main] = "end"]
        /\ view' = [view EXCEPT ![Main] = Joined(Tasks)]
        /\ \A u \in Tasks : pc[u] = "end"
    BY <1>6 DEF JoinTasks, At, Goto
  <2>2. /\ pc' \in [Threads -> {pc'[u] : u \in Threads}] /\ pc'[Main] = "end"
        /\ DOMAIN view' = Threads
        /\ \A u \in Threads : u # Main => pc'[u] = pc[u] /\ view'[u] = view[u]
    BY <1>1, <2>1
  <2>3. Typed'
    BY <1>2, <2>2 DEF IInv, Typed
  <2>4. Published' /\ Received'
    BY <1>2, <2>2, FirstKept
  <2>5. Done' = Done
    BY <2>2 DEF Done
  <2>6. Counted'
    BY <1>2, <2>5 DEF IInv, Counted
  <2>7. Printed'
    BY <1>2, <2>2 DEF IInv, Printed
  <2>8. Reported'
    BY <1>2, <2>1, <2>2, <2>5 DEF IInv, Reported
  <2> QED
    BY <2>3, <2>4, <2>6, <2>7, <2>8 DEF IInv
<1> QED
  BY <1>3, <1>4, <1>5, <1>6 DEF MainStep

-----------------------------------------------------------------------------
(* The theorems *)

LEMMA StepKnown == IInv /\ [Next]_vars => IInv'
<1> SUFFICES ASSUME IInv, [Next]_vars PROVE IInv'
  OBVIOUS
<1>1. CASE UNCHANGED vars
  <2>1. pc' = pc /\ memory' = memory /\ view' = view /\ read' = read /\ reports' = reports
    BY <1>1 DEF vars
  <2>2. Typed'
    BY <2>1 DEF IInv, Typed
  <2> QED
    BY <2>1, <2>2, FirstKept, SecondKept, Places DEF IInv
<1>2. CASE Next
  BY <1>2, MainKeeps, ProducingKeeps, ConsumingKeeps, PerformingKeeps DEF Next
<1> QED
  BY <1>1, <1>2

LEMMA Known == Spec => []IInv
BY InitKnown, StepKnown, PTL DEF Spec

(* What the asserts of the consumer say holds however the two threads are  *)
(* interleaved and whatever the memory model lets the consumer read        *)
(* (example-memory-ordered/main.cc, the asserts on *p2 and data).          *)
THEOREM AssertsAlwaysHold == Spec => []AssertsHold
<1>1. IInv => AssertsHold
  BY DEF IInv, Received
<1> QED
  BY <1>1, Known, PTL

(* With any number of tasks exactly one reports, and it knows the lines of *)
(* all of them (perform_task's fetch_add and on_all_tasks_completed).      *)
THEOREM LastOneReports == Spec => []LastReportsAll
<1>1. IInv => LastReportsAll
  <2> SUFFICES ASSUME IInv PROVE LastReportsAll
    OBVIOUS
  <2>1. Len(reports) <= 1
    BY DEF IInv, Reported
  <2>2. \A t, u \in Tasks : pc[t] = "report" => pc[u] \in {"report", "end"} /\ view[t][u] = 2
    BY DEF IInv, Reported, Printed, Done
  <2>3. pc[Main] = "end" => Len(reports) = 1
    BY DEF IInv, Reported, Done
  <2> QED
    BY <2>1, <2>2, <2>3 DEF LastReportsAll
<1> QED
  BY <1>1, Known, PTL
=============================================================================
