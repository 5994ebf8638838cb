------------------------ MODULE StringToFile_proofs -------------------------
(***************************************************************************)
(* Proofs about a WritableFileImpl and DoWriteStringToFile, for any size   *)
(* of the buffer and of the data: every call leaves in file and buffer a   *)
(* beginning of what was there and what it was given, all of it if it      *)
(* returns OK.  Everything else follows from this.                         *)
(***************************************************************************)
EXTENDS StringToFile, SequenceTheorems, TLAPS

(* h is what g begins with, and all of g if it went well.                  *)
Cut(h, g, ok) ==
  h \in Seq(Nat) /\ \E t \in Seq(Nat) : g = h \o t /\ (ok => t = <<>>)

Ordered(g, a) ==
  /\ \A i \in 1 .. Len(g) : g[i] \in 1 .. a
  /\ \A i, j \in 1 .. Len(g) : i < j => g[i] < g[j]

Whole(g, a) == Len(g) = a /\ \A i \in 1 .. Len(g) : g[i] = i

FileTyped ==
  /\ file \in Seq(Nat) /\ buf \in Seq(Nat) /\ Len(buf) <= BufferSize
  /\ fd \in {"open", "closed", "gone"}
  /\ appended \in Nat /\ faulty \in BOOLEAN

FileInv ==
  /\ FileTyped
  /\ Ordered(file \o buf, appended)
  /\ ~faulty => Whole(file \o buf, appended) /\ (fd # "open" => buf = <<>>)

(* Where DoWriteStringToFile is, and what it has seen to.                  *)
Fresh == file = <<>> /\ buf = <<>> /\ appended = 0 /\ ~faulty /\ fd = "open"

Progress ==
  /\ step = "open" => Fresh /\ ~opened /\ s = "ok" /\ closes = 0
  /\ step = "append" => Fresh /\ opened /\ exists /\ closes = 0
  /\ step \in {"sync", "close"} =>
       /\ opened /\ exists /\ closes = 0 /\ fd = "open"
       /\ appended = size /\ (step = "close" => ~faulty)
  /\ step = "delete" =>
       /\ opened /\ exists /\ fd # "gone"
       /\ closes = (IF fd = "open" THEN 0 ELSE 1)
       /\ s = "ok" => fd = "closed" /\ ~faulty /\ appended = size
  /\ step = "remove" => opened /\ closes = 1 /\ fd = "gone" /\ s = "error"
  /\ step = "done" =>
       /\ opened => closes = 1 /\ fd = "gone"
       /\ s = "ok" => opened /\ exists /\ ~faulty /\ fd = "gone" /\ appended = size
       /\ s = "error" /\ opened /\ removed => ~exists

Steps == {"open", "append", "sync", "close", "delete", "remove", "done", "free"}

IInv == FileInv /\ Progress /\ size \in Nat /\ step \in Steps /\ s \in {"ok", "error"}

-----------------------------------------------------------------------------
(* Cuts *)

LEMMA Associative ==
  ASSUME NEW s1 \in Seq(Nat), NEW s2 \in Seq(Nat), NEW s3 \in Seq(Nat)
  PROVE  (s1 \o s2) \o s3 = s1 \o (s2 \o s3)
OBVIOUS

LEMMA CutOrdered ==
  ASSUME NEW a \in Nat, NEW g \in Seq(Nat), NEW h, NEW ok, Ordered(g, a), Cut(h, g, ok)
  PROVE  Ordered(h, a)
<1>1. PICK t \in Seq(Nat) : g = h \o t
  BY DEF Cut
<1>2. h \in Seq(Nat)
  BY DEF Cut
<1>3. Len(h) \in Nat /\ Len(t) \in Nat /\ Len(g) = Len(h) + Len(t)
  BY <1>1, <1>2, ConcatProperties
<1>4. \A i \in 1 .. Len(h) : i \in 1 .. Len(g) /\ g[i] = h[i]
  BY <1>1, <1>2, <1>3, ConcatProperties
<1> QED
  BY <1>4 DEF Ordered

LEMMA CutWhole ==
  ASSUME NEW g \in Seq(Nat), NEW h, Cut(h, g, TRUE)
  PROVE  h = g
<1>1. h \in Seq(Nat) /\ g = h \o <<>>
  BY DEF Cut
<1> QED
  BY <1>1, ConcatEmptySeq

(* A cut of what comes before a part is a cut of the whole.                *)
LEMMA CutLonger ==
  ASSUME NEW g \in Seq(Nat), NEW u \in Seq(Nat), NEW h, NEW ok, Cut(h, g, ok)
  PROVE  Cut(h, g \o u, FALSE)
<1>1. PICK t \in Seq(Nat) : g = h \o t
  BY DEF Cut
<1>2. h \in Seq(Nat)
  BY DEF Cut
<1>3. g \o u = h \o (t \o u) /\ t \o u \in Seq(Nat)
  BY <1>1, <1>2, Associative, ConcatProperties
<1> QED
  BY <1>2, <1>3 DEF Cut

LEMMA KeepSkip ==
  ASSUME NEW g \in Seq(Nat), NEW n \in 0 .. Len(g)
  PROVE  /\ Keep(g, n) \in Seq(Nat) /\ Skip(g, n) \in Seq(Nat)
         /\ Len(Keep(g, n)) = n /\ Len(Skip(g, n)) = Len(g) - n
         /\ g = Keep(g, n) \o Skip(g, n)
<1>1. Len(g) \in Nat
  BY LenProperties
<1>2. /\ SubSeq(g, 1, n) \in Seq(Nat) /\ SubSeq(g, n + 1, Len(g)) \in Seq(Nat)
      /\ Len(SubSeq(g, 1, n)) = n /\ Len(SubSeq(g, n + 1, Len(g))) = Len(g) - n
  BY <1>1
<1>3. SubSeq(g, 1, n) \o SubSeq(g, n + 1, Len(g)) = SubSeq(g, 1, Len(g))
  <2>1. 1 \in 1 .. Len(g) + 1 /\ n \in 1 - 1 .. Len(g) /\ Len(g) \in n .. Len(g)
    BY <1>1
  <2> QED
    BY <2>1, ConcatAdjacentSubSeq
<1>4. SubSeq(g, 1, Len(g)) = g
  BY SubSeqFull
<1> QED
  BY <1>2, <1>3, <1>4 DEF Keep, Skip

LEMMA WrittenCut ==
  ASSUME NEW f \in Seq(Nat), NEW data \in Seq(Nat), NEW w \in WriteUnbuffered(f, data)
  PROVE  /\ w.ok \in BOOLEAN /\ Cut(w.file, f \o data, w.ok)
         /\ fd # "open" /\ data # <<>> => ~w.ok
<1>1. CASE data = <<>>
  <2>1. w.file = f /\ w.ok = TRUE
    BY <1>1 DEF WriteUnbuffered
  <2>2. <<>> \in Seq(Nat)
    BY EmptySeq
  <2> QED
    BY <1>1, <2>1, <2>2 DEF Cut
<1>2. CASE data # <<>>
  <2>1. PICK n \in IF fd = "open" THEN 0 .. Len(data) ELSE {0} :
          w = [file |-> f \o Keep(data, n), ok |-> n = Len(data)]
    BY <1>2 DEF WriteUnbuffered
  <2>2. Len(data) \in Nat /\ Len(data) # 0
    BY <1>2, LenProperties, EmptySeq
  <2>3. n \in 0 .. Len(data) /\ (fd # "open" => n # Len(data))
    BY <2>2
  <2>4. /\ Keep(data, n) \in Seq(Nat) /\ Skip(data, n) \in Seq(Nat)
        /\ Len(Skip(data, n)) = Len(data) - n
        /\ data = Keep(data, n) \o Skip(data, n)
    BY <2>3, KeepSkip
  <2>5. n = Len(data) => Skip(data, n) = <<>>
    BY <2>2, <2>4, EmptySeq
  <2>6. f \o data = (f \o Keep(data, n)) \o Skip(data, n) /\ f \o Keep(data, n) \in Seq(Nat)
    <3>1. f \o Keep(data, n) \in Seq(Nat)
      BY <2>4, ConcatProperties
    <3>2. (f \o Keep(data, n)) \o Skip(data, n) = f \o (Keep(data, n) \o Skip(data, n))
      BY <2>4, Associative
    <3> QED
      BY <2>4, <3>1, <3>2
  <2>7. w.file = f \o Keep(data, n) /\ w.ok = (n = Len(data))
    BY <2>1
  <2>8. Cut(w.file, f \o data, w.ok)
    BY <2>4, <2>5, <2>6, <2>7 DEF Cut
  <2> QED
    BY <2>3, <2>7, <2>8
<1> QED
  BY <1>1, <1>2

-----------------------------------------------------------------------------
(* The calls of the file object: what becomes of file and buffer           *)

LEMMA FlushCut ==
  ASSUME FileTyped, NEW w \in WriteUnbuffered(file, buf), file' = w.file, buf' = <<>>
  PROVE  /\ w.ok \in BOOLEAN /\ Cut(file' \o buf', file \o buf, w.ok)
         /\ file' \in Seq(Nat) /\ buf' \in Seq(Nat) /\ Len(buf') <= BufferSize
<1>1. file \in Seq(Nat) /\ buf \in Seq(Nat)
  BY DEF FileTyped
<1>2. w.ok \in BOOLEAN /\ Cut(w.file, file \o buf, w.ok)
  BY <1>1, WrittenCut
<1>3. w.file \in Seq(Nat)
  BY <1>2 DEF Cut
<1>4. file' \o buf' = w.file
  BY <1>3, ConcatEmptySeq
<1>5. buf' \in Seq(Nat) /\ Len(buf') <= BufferSize
  BY BufferAssumption
<1> QED
  BY <1>2, <1>3, <1>4, <1>5

LEMMA AppendCut ==
  ASSUME FileTyped, NEW data \in Seq(Nat), AppendData(data)
  PROVE  /\ Cut(file' \o buf', (file \o buf) \o data, status' = "ok")
         /\ file' \in Seq(Nat) /\ buf' \in Seq(Nat) /\ Len(buf') <= BufferSize
         /\ faulty' \in BOOLEAN
         /\ ~faulty' => ~faulty /\ fd = "open" /\ status' = "ok"
         /\ status' = "ok" /\ ~faulty /\ fd = "open" => ~faulty'
<1> DEFINE c == Copied(data)
           first == buf \o Keep(data, c)
           rest == Skip(data, c)
<1>1. file \in Seq(Nat) /\ buf \in Seq(Nat) /\ faulty \in BOOLEAN
  BY DEF FileTyped
<1>2. Len(buf) \in Nat /\ Len(data) \in Nat /\ BufferSize \in Nat /\ BufferSize > 0
  BY <1>1, BufferAssumption
<1>3. /\ c \in 0 .. Len(data) /\ c <= BufferSize - Len(buf)
      /\ c # Len(data) => c = BufferSize - Len(buf)
  <2>1. Len(buf) <= BufferSize
    BY DEF FileTyped
  <2>2. ASSUME NEW x \in Nat, NEW y \in Nat PROVE Min({x, y}) = IF x <= y THEN x ELSE y
    BY DEF Min
  <2>3. BufferSize - Len(buf) \in Nat
    BY <1>2, <2>1
  <2>4. c = IF Len(data) <= BufferSize - Len(buf) THEN Len(data) ELSE BufferSize - Len(buf)
    BY <1>2, <2>2, <2>3 DEF Copied
  <2> HIDE DEF c
  <2> QED
    BY <1>2, <2>3, <2>4
<1> HIDE DEF c
<1>4. /\ Keep(data, c) \in Seq(Nat) /\ rest \in Seq(Nat) /\ Len(Keep(data, c)) = c
      /\ data = Keep(data, c) \o rest
  BY <1>3, KeepSkip
<1> HIDE DEF rest
<1>5. first \in Seq(Nat) /\ Len(first) = Len(buf) + c
  BY <1>1, <1>4, ConcatProperties
<1>6. (file \o first) \o rest = (file \o buf) \o data
  <2>1. file \o (buf \o Keep(data, c)) = (file \o buf) \o Keep(data, c)
    BY <1>1, <1>4, Associative
  <2>2. file \o buf \in Seq(Nat)
    BY <1>1, ConcatProperties
  <2>3. ((file \o buf) \o Keep(data, c)) \o rest = (file \o buf) \o (Keep(data, c) \o rest)
    BY <1>4, <2>2, Associative
  <2> QED
    BY <1>4, <2>1, <2>3
<1>7. CASE c = Len(data)
  <2>1. /\ buf' = buf \o data /\ file' = file /\ status' = "ok"
        /\ faulty' = (faulty \/ fd # "open")
    BY <1>7 DEF AppendData, Return, c
  <2>2. file' \o buf' = (file \o buf) \o data
    BY <1>1, <2>1, Associative
  <2>3. (file \o buf) \o data \in Seq(Nat) /\ buf' \in Seq(Nat) /\ Len(buf') = Len(buf) + Len(data)
    BY <1>1, <2>1, ConcatProperties
  <2>4. Cut(file' \o buf', (file \o buf) \o data, TRUE)
    BY <2>2, <2>3, ConcatEmptySeq, EmptySeq DEF Cut
  <2>5. Len(buf') <= BufferSize
    BY <1>2, <1>3, <1>7, <2>3
  <2> QED
    BY <1>1, <2>1, <2>3, <2>4, <2>5
<1>8. CASE c # Len(data)
  <2>1. PICK w \in WriteUnbuffered(file, first) :
          \E v \in AfterFlush(w, rest) :
            /\ file' = v.file /\ buf' = v.buf /\ Return(v.ok) /\ faulty' = (faulty \/ ~v.ok)
    BY <1>8 DEF AppendData, Overflow, c, rest
  <2>2. PICK v \in AfterFlush(w, rest) :
          file' = v.file /\ buf' = v.buf /\ Return(v.ok) /\ faulty' = (faulty \/ ~v.ok)
    BY <2>1
  <2>3. w.ok \in BOOLEAN /\ Cut(w.file, file \o first, w.ok) /\ (fd # "open" => ~w.ok)
    <3>1. first # <<>>
      <4>1. Len(first) = BufferSize
        BY <1>2, <1>3, <1>5, <1>8
      <4> QED
        BY <1>2, <4>1
    <3> QED
      BY <1>1, <1>5, <3>1, WrittenCut
  <2>4. w.file \in Seq(Nat)
    BY <2>3 DEF Cut
  <2>5. file \o first \in Seq(Nat)
    BY <1>1, <1>5, ConcatProperties
  <2> HIDE DEF first
  <2>6. /\ v.ok \in BOOLEAN /\ Cut(v.file \o v.buf, (file \o buf) \o data, v.ok)
        /\ v.file \in Seq(Nat) /\ v.buf \in Seq(Nat) /\ Len(v.buf) <= BufferSize
        /\ v.ok => fd = "open"
    <3>1. CASE ~w.ok
      <4>1. v = [file |-> w.file, buf |-> <<>>, ok |-> FALSE]
        BY <3>1 DEF AfterFlush
      <4>2. v.file = w.file /\ v.buf = <<>> /\ v.ok = FALSE
        BY <4>1
      <4>3. Cut(w.file, (file \o buf) \o data, FALSE)
        BY <1>4, <1>6, <2>3, <2>5, CutLonger
      <4>4. v.file \o v.buf = w.file
        BY <2>4, <4>2, ConcatEmptySeq
      <4>5. Cut(v.file \o v.buf, (file \o buf) \o data, v.ok)
        BY <4>2, <4>3, <4>4
      <4>6. v.buf \in Seq(Nat) /\ Len(v.buf) <= BufferSize
        BY <1>2, <4>2
      <4> QED
        BY <2>4, <4>2, <4>5, <4>6
    <3>2. CASE w.ok /\ Len(rest) < BufferSize
      <4>1. v = [file |-> w.file, buf |-> rest, ok |-> TRUE]
        BY <3>2 DEF AfterFlush
      <4>2. v.file = w.file /\ v.buf = rest /\ v.ok = TRUE
        BY <4>1
      <4>3. w.file = file \o first
        BY <2>3, <2>5, <3>2, CutWhole
      <4>4. v.file \o v.buf = (file \o buf) \o data
        BY <1>6, <4>2, <4>3
      <4>5. (file \o buf) \o data \in Seq(Nat)
        BY <1>1, ConcatProperties
      <4>6. Cut(v.file \o v.buf, (file \o buf) \o data, TRUE)
        BY <4>4, <4>5, ConcatEmptySeq, EmptySeq DEF Cut
      <4>7. Len(rest) <= BufferSize
        <5>1. Len(rest) \in Nat
          BY <1>4
        <5> QED
          BY <1>2, <3>2, <5>1
      <4> QED
        BY <1>4, <2>3, <2>4, <3>2, <4>2, <4>6, <4>7
    <3>3. CASE w.ok /\ ~(Len(rest) < BufferSize)
      <4>1. PICK x \in WriteUnbuffered(w.file, rest) :
              v = [file |-> x.file, buf |-> <<>>, ok |-> x.ok]
        BY <3>3 DEF AfterFlush
      <4>2. v.file = x.file /\ v.buf = <<>> /\ v.ok = x.ok
        BY <4>1
      <4>3. w.file = file \o first
        BY <2>3, <2>5, <3>3, CutWhole
      <4>4. x.ok \in BOOLEAN /\ Cut(x.file, w.file \o rest, x.ok)
        BY <1>4, <2>4, WrittenCut
      <4>5. Cut(x.file, (file \o buf) \o data, x.ok) /\ x.file \in Seq(Nat)
        BY <1>6, <4>3, <4>4 DEF Cut
      <4>6. v.file \o v.buf = x.file
        BY <4>2, <4>5, ConcatEmptySeq
      <4> QED
        BY <1>2, <2>3, <3>3, <4>2, <4>4, <4>5, <4>6, EmptySeq
    <3> QED
      BY <2>3, <3>1, <3>2, <3>3
  <2>7. /\ file' = v.file /\ buf' = v.buf /\ status' = (IF v.ok THEN "ok" ELSE "error")
        /\ faulty' = (faulty \/ ~v.ok)
    BY <2>2 DEF Return
  <2> HIDE DEF c
  <2>8. (status' = "ok") = v.ok
    BY <2>6, <2>7
  <2>9. Cut(file' \o buf', (file \o buf) \o data, status' = "ok")
    BY <2>6, <2>7, <2>8
  <2> QED
    BY <1>1, <2>6, <2>7, <2>8, <2>9
<1> QED
  BY <1>7, <1>8

-----------------------------------------------------------------------------
(* The calls keep what is known of the file                                *)

Numbered(n) == [i \in 1 .. n |-> appended + i]

FileCall == \/ \E n \in Nat : AppendData(Numbered(n))
            \/ Flush \/ Close \/ Destroy \/ UNCHANGED wfvars

Reported == Missing' \subseteq Missing \/ status' = "error" \/ fd' = "gone"

LEMMA Numbers ==
  ASSUME NEW g \in Seq(Nat), NEW a \in Nat, NEW n \in Nat, NEW data,
         data = [i \in 1 .. n |-> a + i]
  PROVE  /\ data \in Seq(Nat) /\ Len(data) = n /\ g \o data \in Seq(Nat)
         /\ Len(g \o data) = Len(g) + n /\ Len(g) \in Nat
         /\ \A i \in 1 .. Len(g) : (g \o data)[i] = g[i]
         /\ \A i \in 1 .. n : (g \o data)[Len(g) + i] = a + i
<1>1. data \in Seq(Nat) /\ Len(data) = n /\ \A i \in 1 .. n : data[i] = a + i
  BY IsASeq
<1>2. Len(g) \in Nat
  OBVIOUS
<1>3. /\ g \o data \in Seq(Nat) /\ Len(g \o data) = Len(g) + n
      /\ \A i \in 1 .. Len(g) + n :
           (g \o data)[i] = IF i <= Len(g) THEN g[i] ELSE data[i - Len(g)]
  BY <1>1, ConcatProperties
<1>4. ASSUME NEW i \in 1 .. Len(g) PROVE (g \o data)[i] = g[i]
  BY <1>2, <1>3
<1>5. ASSUME NEW i \in 1 .. n PROVE (g \o data)[Len(g) + i] = a + i
  <2>1. Len(g) + i \in 1 .. Len(g) + n /\ ~(Len(g) + i <= Len(g)) /\ (Len(g) + i) - Len(g) = i
    BY <1>2
  <2>2. (g \o data)[Len(g) + i] = data[(Len(g) + i) - Len(g)]
    BY <1>3, <2>1
  <2> QED
    BY <1>1, <2>1, <2>2
<1> QED
  BY <1>1, <1>2, <1>3, <1>4, <1>5

LEMMA MoreOrdered ==
  ASSUME NEW g \in Seq(Nat), NEW a \in Nat, NEW n \in Nat, NEW data,
         data = [i \in 1 .. n |-> a + i], Ordered(g, a)
  PROVE  Ordered(g \o data, a + n) /\ (Whole(g, a) => Whole(g \o data, a + n))
<1> DEFINE h == g \o data
<1>1. /\ Len(h) = Len(g) + n /\ Len(g) \in Nat
      /\ \A i \in 1 .. Len(g) : h[i] = g[i]
      /\ \A i \in 1 .. n : h[Len(g) + i] = a + i
  BY Numbers
<1> HIDE DEF h
<1>2. ASSUME NEW i \in 1 .. Len(h)
      PROVE  \/ i \in 1 .. Len(g) /\ h[i] = g[i]
             \/ i > Len(g) /\ i - Len(g) \in 1 .. n /\ h[i] = a + (i - Len(g))
  <2>1. CASE i <= Len(g)
    BY <1>1, <2>1
  <2>2. CASE i > Len(g)
    <3>1. i - Len(g) \in 1 .. n /\ Len(g) + (i - Len(g)) = i
      BY <1>1, <2>2
    <3>2. h[Len(g) + (i - Len(g))] = a + (i - Len(g))
      BY <1>1, <3>1
    <3> QED
      BY <2>2, <3>1, <3>2
  <2> QED
    BY <1>1, <2>1, <2>2
<1>3. /\ \A i \in 1 .. Len(g) : g[i] \in 1 .. a
      /\ \A i, j \in 1 .. Len(g) : i < j => g[i] < g[j]
  BY DEF Ordered
<1>4. ASSUME NEW i \in 1 .. Len(h) PROVE h[i] \in 1 .. a + n
  <2>1. CASE i \in 1 .. Len(g) /\ h[i] = g[i]
    <3>1. g[i] \in 1 .. a
      BY <1>3, <2>1
    <3> QED
      BY <2>1, <3>1
  <2>2. CASE i - Len(g) \in 1 .. n /\ h[i] = a + (i - Len(g))
    BY <1>1, <2>2
  <2> QED
    BY <1>2, <2>1, <2>2
<1>5. ASSUME NEW i \in 1 .. Len(h), NEW j \in 1 .. Len(h), i < j PROVE h[i] < h[j]
  <2>1. CASE j <= Len(g)
    <3>1. i \in 1 .. Len(g) /\ j \in 1 .. Len(g)
      BY <1>1, <1>5, <2>1
    <3>2. h[i] = g[i] /\ h[j] = g[j]
      BY <1>1, <3>1
    <3> QED
      BY <1>3, <1>5, <3>1, <3>2
  <2>2. CASE j > Len(g)
    <3>1. h[j] = a + (j - Len(g)) /\ j - Len(g) >= 1
      BY <1>1, <1>2, <2>2
    <3>2. CASE i <= Len(g)
      <4>1. h[i] \in 1 .. a
        <5>1. i \in 1 .. Len(g)
          BY <1>1, <3>2
        <5> QED
          BY <1>1, <1>3, <5>1
      <4> QED
        BY <1>1, <3>1, <4>1
    <3>3. CASE i > Len(g)
      <4>1. h[i] = a + (i - Len(g))
        BY <1>1, <1>2, <3>3
      <4> QED
        BY <1>1, <1>5, <3>1, <4>1
    <3> QED
      BY <1>1, <3>2, <3>3
  <2> QED
    BY <1>1, <2>1, <2>2
<1>6. ASSUME Whole(g, a) PROVE Whole(h, a + n)
  <2>1. Len(g) = a /\ \A i \in 1 .. Len(g) : g[i] = i
    BY <1>6 DEF Whole
  <2>2. ASSUME NEW i \in 1 .. Len(h) PROVE h[i] = i
    BY <1>1, <1>2, <2>1
  <2> QED
    BY <1>1, <2>1, <2>2 DEF Whole
<1>7. Ordered(h, a + n)
  BY <1>4, <1>5 DEF Ordered
<1> QED
  BY <1>6, <1>7 DEF h

(* What is in g is still there with more behind it, and the more with it.  *)
LEMMA NoneMissing ==
  ASSUME NEW g \in Seq(Nat), NEW a \in Nat, NEW n \in Nat, NEW data,
         data = [i \in 1 .. n |-> a + i]
  PROVE  (1 .. a + n) \ ToSet(g \o data) \subseteq (1 .. a) \ ToSet(g)
<1>1. /\ g \o data \in Seq(Nat) /\ Len(g \o data) = Len(g) + n /\ Len(g) \in Nat
      /\ \A i \in 1 .. Len(g) : (g \o data)[i] = g[i]
      /\ \A i \in 1 .. n : (g \o data)[Len(g) + i] = a + i
  BY Numbers
<1>2. /\ ToSet(g) = {g[i] : i \in 1 .. Len(g)}
      /\ ToSet(g \o data) = {(g \o data)[i] : i \in 1 .. Len(g) + n}
  BY <1>1, LenProperties DEF ToSet
<1>3. ASSUME NEW x \in 1 .. a + n, x \notin ToSet(g \o data)
      PROVE  x \in 1 .. a /\ x \notin ToSet(g)
  <2>1. x <= a
    <3> SUFFICES ASSUME x > a PROVE FALSE
      OBVIOUS
    <3>1. x - a \in 1 .. n /\ a + (x - a) = x /\ Len(g) + (x - a) \in 1 .. Len(g) + n
      BY <1>1
    <3>2. (g \o data)[Len(g) + (x - a)] = x
      BY <1>1, <3>1
    <3> QED
      BY <1>2, <1>3, <3>1, <3>2
  <2>2. x \notin ToSet(g)
    <3>1. \A i \in 1 .. Len(g) : i \in 1 .. Len(g) + n
      BY <1>1
    <3> QED
      BY <1>1, <1>2, <1>3, <3>1
  <2> QED
    BY <2>1, <2>2
<1> QED
  BY <1>3

LEMMA CallKeeps ==
  ASSUME FileInv, FileCall
  PROVE  FileInv' /\ Reported
<1> DEFINE g == file \o buf
           h == file' \o buf'
<1>1. /\ FileTyped /\ Ordered(g, appended) /\ appended \in Nat
      /\ ~faulty => Whole(g, appended) /\ (fd # "open" => buf = <<>>)
  BY DEF FileInv, FileTyped
<1>2. g \in Seq(Nat) /\ file \in Seq(Nat) /\ buf \in Seq(Nat)
  BY <1>1, ConcatProperties DEF FileTyped
<1>3. ASSUME NEW n \in Nat, AppendData(Numbered(n)) PROVE FileInv' /\ Reported
  <2> DEFINE data == Numbered(n)
  <2>1. data = [i \in 1 .. n |-> appended + i]
    BY DEF Numbered
  <2> HIDE DEF data
  <2>2. data \in Seq(Nat) /\ Len(data) = n /\ g \o data \in Seq(Nat)
    BY <1>1, <1>2, <2>1, Numbers
  <2>3. AppendData(data)
    BY <1>3 DEF data
  <2>4. fd' = fd /\ appended' = appended + n
    BY <2>2, <2>3 DEF AppendData
  <2>5. /\ Cut(h, g \o data, status' = "ok")
        /\ file' \in Seq(Nat) /\ buf' \in Seq(Nat) /\ Len(buf') <= BufferSize
        /\ faulty' \in BOOLEAN /\ (~faulty' => ~faulty /\ fd = "open" /\ status' = "ok")
    BY <1>1, <2>2, <2>3, AppendCut
  <2>6. Ordered(g \o data, appended + n) /\ (Whole(g, appended) => Whole(g \o data, appended + n))
    BY <1>1, <1>2, <2>1, MoreOrdered
  <2>7. status' = "ok" => h = g \o data
    BY <2>2, <2>5, CutWhole
  <2>8. Ordered(h, appended')
    <3>1. appended + n \in Nat
      BY <1>1
    <3>2. Ordered(h, appended + n)
      BY <2>2, <2>5, <2>6, <3>1, CutOrdered
    <3> QED
      BY <2>4, <3>2
  <2>9. ~faulty' => Whole(h, appended') /\ fd' = "open"
    BY <1>1, <2>4, <2>5, <2>6, <2>7
  <2>10. FileTyped'
    BY <1>1, <2>4, <2>5 DEF FileTyped
  <2>11. FileInv'
    BY <2>8, <2>9, <2>10 DEF FileInv
  <2>12. status' = "ok" => Missing' \subseteq Missing
    BY <1>1, <1>2, <2>1, <2>4, <2>7, NoneMissing DEF Missing
  <2>13. status' \in {"ok", "error"}
    BY <2>3 DEF AppendData, Return
  <2> QED
    BY <2>11, <2>12, <2>13 DEF Reported
<1>4. ASSUME NEW w \in WriteUnbuffered(file, buf), NEW ok, file' = w.file, buf' = <<>>,
             Return(w.ok /\ ok), appended' = appended, fd' \in {"open", "closed", "gone"},
             faulty' \in BOOLEAN, ~faulty' => ~faulty /\ w.ok
      PROVE  FileInv' /\ Reported
  <2>1. /\ w.ok \in BOOLEAN /\ Cut(h, g, w.ok)
        /\ file' \in Seq(Nat) /\ buf' \in Seq(Nat) /\ Len(buf') <= BufferSize
    BY <1>1, <1>4, FlushCut
  <2>2. w.ok => h = g
    BY <1>2, <2>1, CutWhole
  <2>3. Ordered(h, appended')
    BY <1>1, <1>2, <1>4, <2>1, CutOrdered
  <2>4. ~faulty' => Whole(h, appended') /\ buf' = <<>>
    BY <1>1, <1>4, <2>2
  <2>5. FileTyped'
    BY <1>1, <1>4, <2>1 DEF FileTyped
  <2>6. FileInv'
    BY <2>3, <2>4, <2>5 DEF FileInv
  <2>7. w.ok => Missing' = Missing
    BY <1>4, <2>2 DEF Missing
  <2>8. ~w.ok => status' = "error"
    BY <1>4 DEF Return
  <2> QED
    BY <2>1, <2>6, <2>7, <2>8 DEF Reported
<1>5. CASE Flush
  <2>1. PICK w \in WriteUnbuffered(file, buf), synced \in BOOLEAN :
          /\ file' = w.file /\ buf' = Flushed(w)
          /\ Return(w.ok /\ ~synced)
          /\ faulty' = (faulty \/ ~w.ok \/ ~synced)
    BY <1>5 DEF Flush
  <2>2. fd' = fd /\ appended' = appended /\ buf' = <<>>
    BY <1>5, <2>1 DEF Flush, Flushed
  <2> QED
    BY <1>1, <1>4, <2>1, <2>2 DEF FileTyped
<1>6. ASSUME CloseFd, appended' = appended, fd' \in {"open", "closed", "gone"}
      PROVE  FileInv' /\ Reported
  <2>1. PICK w \in WriteUnbuffered(file, buf), closed \in BOOLEAN :
          /\ file' = w.file /\ buf' = Flushed(w)
          /\ Return(w.ok /\ closed)
          /\ faulty' = (faulty \/ ~w.ok \/ ~closed)
    BY <1>6 DEF CloseFd
  <2>2. buf' = <<>>
    BY <2>1 DEF Flushed
  <2> QED
    BY <1>1, <1>4, <1>6, <2>1, <2>2 DEF FileTyped
<1>7. CASE Close
  BY <1>6, <1>7 DEF Close
<1>8. ASSUME UNCHANGED <<file, buf, faulty, appended>>, fd' = fd \/ (fd # "open" /\ fd' = "gone")
      PROVE  FileInv' /\ Reported
  <2>1. FileTyped'
    BY <1>1, <1>8 DEF FileTyped
  <2>2. FileInv'
    BY <1>1, <1>8, <2>1 DEF FileInv
  <2>3. Missing' = Missing
    BY <1>8 DEF Missing
  <2> QED
    BY <2>2, <2>3 DEF Reported
<1>9. CASE Destroy
  <2>1. CASE fd = "open"
    BY <1>6, <1>9, <2>1 DEF Destroy
  <2>2. CASE fd # "open"
    BY <1>8, <1>9, <2>2 DEF Destroy
  <2> QED
    BY <2>1, <2>2
<1>10. CASE UNCHANGED wfvars
  BY <1>8, <1>10 DEF wfvars
<1> QED
  BY <1>3, <1>5, <1>7, <1>9, <1>10 DEF FileCall

-----------------------------------------------------------------------------
(* The steps of DoWriteStringToFile and of the other user                  *)

LEMMA Start == Init => IInv
<1> SUFFICES ASSUME Init PROVE IInv
  OBVIOUS
<1>1. /\ file = <<>> /\ buf = <<>> /\ fd = "open" /\ appended = 0 /\ faulty = FALSE
      /\ s = "ok" /\ closes = 0 /\ step \in {"open", "free"}
      /\ step = "open" => opened = FALSE
      /\ size \in Nat
  <2>1. Sizes \subseteq Nat
    BY BufferAssumption
  <2>2. \/ step = "open" /\ opened = FALSE /\ size \in Sizes
        \/ step = "free" /\ size = 0
    BY DEF Init
  <2>3. /\ file = <<>> /\ buf = <<>> /\ fd = "open" /\ appended = 0 /\ faulty = FALSE
        /\ s = "ok" /\ closes = 0
    BY DEF Init, FileInit
  <2>4. size \in Nat
    <3>1. CASE size \in Sizes
      BY <2>1, <3>1
    <3>2. CASE size = 0
      BY <3>2
    <3> QED
      BY <2>2, <3>1, <3>2
  <2> QED
    BY <2>2, <2>3, <2>4
<1>2. file \o buf = <<>> /\ <<>> \in Seq(Nat) /\ Len(<<>>) = 0
  BY <1>1, ConcatEmptySeq
<1>3. FileInv
  <2>1. FileTyped
    <3>1. BufferSize \in Nat
      BY BufferAssumption
    <3>2. Len(buf) <= BufferSize
      BY <1>1, <1>2, <3>1
    <3>3. file \in Seq(Nat) /\ buf \in Seq(Nat) /\ appended \in Nat /\ faulty \in BOOLEAN
      BY <1>1, <1>2
    <3> QED
      BY <1>1, <3>2, <3>3 DEF FileTyped
  <2> QED
    BY <1>1, <1>2, <2>1 DEF FileInv, Ordered, Whole
<1>4. Progress
  BY <1>1 DEF Progress, Fresh
<1> QED
  BY <1>1, <1>3, <1>4 DEF IInv, Steps

LEMMA AppendAllCalls ==
  ASSUME FileInv, Fresh, size \in Nat, AppendData(Data)
  PROVE  /\ FileInv' /\ Reported
         /\ appended' = size /\ fd' = "open" /\ status' \in {"ok", "error"}
         /\ status' = "ok" => ~faulty'
<1>1. appended = 0 /\ fd = "open" /\ ~faulty
  BY DEF Fresh
<1>2. Data = Numbered(size)
  BY <1>1 DEF Data, Numbered
<1>3. FileInv' /\ Reported
  BY <1>2, CallKeeps DEF FileCall
<1>4. Data = [i \in 1 .. size |-> appended + i]
  BY <1>2 DEF Numbered
<1>5. Data \in Seq(Nat) /\ Len(Data) = size
  <2>1. <<>> \in Seq(Nat) /\ appended \in Nat
    BY <1>1
  <2> QED
    BY ONLY <1>4, <2>1, size \in Nat, Numbers
<1>6. appended' = size /\ fd' = "open" /\ status' \in {"ok", "error"}
  BY <1>1, <1>5 DEF AppendData, Return
<1>7. status' = "ok" => ~faulty'
  BY <1>1, <1>5, AppendCut DEF FileInv
<1> QED
  BY <1>3, <1>6, <1>7

LEMMA CloseTells ==
  ASSUME faulty \in BOOLEAN, Close
  PROVE  /\ fd # "gone" /\ fd' = "closed" /\ appended' = appended
         /\ status' \in {"ok", "error"} /\ (status' = "ok" => faulty' = faulty)
<1>1. PICK w \in WriteUnbuffered(file, buf), closed \in BOOLEAN :
        Return(w.ok /\ closed) /\ faulty' = (faulty \/ ~w.ok \/ ~closed)
  BY DEF Close, CloseFd
<1>2. fd # "gone" /\ fd' = "closed" /\ appended' = appended
  BY DEF Close
<1>3. status' \in {"ok", "error"} /\ (status' = "ok" => w.ok /\ closed)
  BY <1>1 DEF Return
<1> QED
  BY <1>1, <1>2, <1>3

LEMMA StepKnown ==
  ASSUME IInv, [Step]_vars
  PROVE  IInv' /\ (Reported \/ UNCHANGED wfvars)
<1>1. /\ FileInv /\ Progress /\ size \in Nat /\ step \in Steps /\ s \in {"ok", "error"}
      /\ faulty \in BOOLEAN
  BY DEF IInv, FileInv, FileTyped
<1>2. CASE Open
  <2>1. FileInv' /\ Reported
    BY <1>1, <1>2, CallKeeps DEF Open, FileCall
  <2>2. step = "open" /\ Fresh /\ ~opened /\ s = "ok" /\ closes = 0
    BY <1>1, <1>2 DEF Open, Progress
  <2>3. Fresh' /\ closes' = 0 /\ size' = size
    BY <1>2, <2>2 DEF Open, Fresh, wfvars, args
  <2>4. \/ step' = "append" /\ exists' = TRUE /\ opened' = TRUE /\ s' = s
        \/ step' = "done" /\ s' = "error" /\ opened' = opened
    BY <1>2 DEF Open
  <2>5. Progress'
    BY <2>2, <2>3, <2>4 DEF Progress
  <2> QED
    BY <1>1, <2>1, <2>2, <2>3, <2>4, <2>5 DEF IInv, Steps
<1>3. CASE AppendAll
  <2>1. step = "append" /\ Fresh /\ opened /\ exists /\ closes = 0
    BY <1>1, <1>3 DEF AppendAll, Progress
  <2>2. AppendData(Data) /\ s' = status' /\ step' = AfterAppend(status' = "ok")
    BY <1>3 DEF AppendAll
  <2>3. size' = size /\ exists' = exists /\ opened' = opened /\ closes' = closes
    BY <1>3 DEF AppendAll, args
  <2>4. /\ FileInv' /\ Reported
        /\ appended' = size /\ fd' = "open" /\ status' \in {"ok", "error"}
        /\ status' = "ok" => ~faulty'
    BY <1>1, <2>1, <2>2, AppendAllCalls
  <2>5. /\ step' \in {"delete", "sync", "close"}
        /\ step' # "delete" => s' = "ok"
        /\ step' = "delete" => s' # "ok"
    BY <2>2 DEF AfterAppend
  <2>6. Progress'
    BY <2>1, <2>2, <2>3, <2>4, <2>5 DEF Progress
  <2> QED
    BY <1>1, <2>2, <2>3, <2>4, <2>5, <2>6 DEF IInv, Steps
<1>4. CASE SyncFails
  <2>1. FileInv' /\ Reported
    BY <1>1, <1>4, CallKeeps DEF SyncFails, FileCall
  <2>2. opened /\ exists /\ closes = 0 /\ fd = "open"
    BY <1>1, <1>4 DEF SyncFails, Progress
  <2>3. /\ step' = "delete" /\ s' = "error" /\ size' = size /\ exists' = exists
        /\ opened' = opened /\ closes' = closes /\ fd' = fd
    BY <1>4 DEF SyncFails, wfvars, args
  <2>4. Progress'
    BY <2>2, <2>3 DEF Progress
  <2> QED
    BY <1>1, <2>1, <2>3, <2>4 DEF IInv, Steps
<1>5. CASE CloseFile
  <2>1. Close /\ s' = status' /\ step' = "delete" /\ closes' = closes + 1
    BY <1>5 DEF CloseFile, Result
  <2>2. size' = size /\ exists' = exists /\ opened' = opened
    BY <1>5 DEF CloseFile, args
  <2>3. opened /\ exists /\ closes = 0 /\ appended = size /\ ~faulty
    BY <1>1, <1>5 DEF CloseFile, Progress
  <2>4. FileInv' /\ Reported
    BY <1>1, <2>1, CallKeeps DEF FileCall
  <2>5. /\ fd' = "closed" /\ appended' = appended
        /\ status' \in {"ok", "error"} /\ (status' = "ok" => faulty' = faulty)
    BY <1>1, <2>1, CloseTells
  <2>6. Progress'
    BY <2>1, <2>2, <2>3, <2>5 DEF Progress
  <2> QED
    BY <1>1, <2>1, <2>2, <2>4, <2>5, <2>6 DEF IInv, Steps
<1>6. CASE DeleteObject
  <2>1. Destroy /\ step' = AfterDelete /\ fd' = "gone" /\ appended' = appended
    BY <1>6 DEF DeleteObject, Destroy
  <2>2. /\ size' = size /\ exists' = exists /\ opened' = opened /\ s' = s
        /\ closes' = IF fd = "open" THEN closes + 1 ELSE closes
    BY <1>6 DEF DeleteObject, args
  <2>3. /\ opened /\ exists /\ fd # "gone"
        /\ closes = (IF fd = "open" THEN 0 ELSE 1)
        /\ s = "ok" => fd = "closed" /\ ~faulty /\ appended = size
    BY <1>1, <1>6 DEF DeleteObject, Progress
  <2>4. FileInv' /\ Reported
    BY <1>1, <2>1, CallKeeps DEF FileCall
  <2>5. closes' = 1
    BY <2>2, <2>3
  <2>6. CASE s = "ok"
    <3>1. faulty' = faulty /\ step' = "done"
      BY <2>1, <2>3, <2>6 DEF Destroy, AfterDelete
    <3>2. Progress'
      BY <2>1, <2>2, <2>3, <2>5, <2>6, <3>1 DEF Progress
    <3> QED
      BY <1>1, <2>2, <2>4, <3>1, <3>2 DEF IInv, Steps
  <2>7. CASE s # "ok"
    <3>1. s' = "error" /\ step' = "remove"
      BY <1>1, <2>1, <2>2, <2>7 DEF AfterDelete
    <3>2. Progress'
      BY <2>1, <2>2, <2>3, <2>5, <3>1 DEF Progress
    <3> QED
      BY <1>1, <2>2, <2>4, <3>1, <3>2 DEF IInv, Steps
  <2> QED
    BY <2>6, <2>7
<1>7. CASE RemoveFile
  <2>1. FileInv' /\ Reported
    BY <1>1, <1>7, CallKeeps DEF RemoveFile, FileCall
  <2>2. opened /\ closes = 1 /\ fd = "gone" /\ s = "error"
    BY <1>1, <1>7 DEF RemoveFile, Progress
  <2>3. /\ step' = "done" /\ exists' = ~removed' /\ s' = s /\ size' = size
        /\ opened' = opened /\ closes' = closes /\ fd' = fd
    BY <1>7 DEF RemoveFile, wfvars, args
  <2>4. Progress'
    BY <2>2, <2>3 DEF Progress
  <2> QED
    BY <1>1, <2>1, <2>3, <2>4 DEF IInv, Steps
<1>8. CASE OtherUser
  <2>1. Next /\ step = "free" /\ step' = step /\ s' = s /\ size' = size
    BY <1>8 DEF OtherUser, args
  <2>2. FileCall
    <3>1. ASSUME Append_ PROVE \E n \in Nat : AppendData(Numbered(n))
      BY <3>1, BufferAssumption DEF Append_, Numbered
    <3> QED
      BY <2>1, <3>1 DEF Next, FileCall
  <2>3. FileInv' /\ Reported
    BY <1>1, <2>2, CallKeeps
  <2>4. Progress'
    BY <2>1 DEF Progress
  <2> QED
    BY <1>1, <2>1, <2>3, <2>4 DEF IInv
<1>9. CASE UNCHANGED vars
  <2>1. UNCHANGED <<wfvars, args, step, s, exists, opened, closes, removed>>
    BY <1>9 DEF vars
  <2>2. FileInv'
    BY <1>1, <2>1, CallKeeps DEF FileCall
  <2>3. Progress'
    BY <1>1, <2>1 DEF Progress, Fresh, wfvars, args
  <2> QED
    BY <1>1, <2>1, <2>2, <2>3 DEF IInv, args
<1> QED
  BY <1>2, <1>3, <1>4, <1>5, <1>6, <1>7, <1>8, <1>9 DEF Step

LEMMA Known == Spec => []IInv
<1>1. IInv /\ [Step]_vars => IInv'
  BY StepKnown
<1> QED
  BY Start, <1>1, PTL DEF Spec

-----------------------------------------------------------------------------
(* The theorems                                                            *)

LEMMA InvFollows ==
  ASSUME FileInv
  PROVE  FileFollowsAppends
<1>1. /\ file \in Seq(Nat) /\ buf \in Seq(Nat) /\ appended \in Nat
      /\ file \o buf \in Seq(Nat)
  BY ConcatProperties DEF FileInv, FileTyped
<1>2. \A i, j \in DOMAIN (file \o buf) : i < j => (file \o buf)[i] < (file \o buf)[j]
  <2>1. DOMAIN (file \o buf) = 1 .. Len(file \o buf)
    BY <1>1, LenProperties
  <2> QED
    BY <2>1 DEF FileInv, Ordered
<1>3. ASSUME ~faulty PROVE file \o buf = [i \in 1 .. appended |-> i]
  <2> DEFINE g == file \o buf
  <2>1. Len(g) = appended /\ \A i \in 1 .. Len(g) : g[i] = i
    BY <1>3 DEF FileInv, Whole
  <2>2. g = [i \in 1 .. Len(g) |-> g[i]]
    BY <1>1, LenProperties
  <2> QED
    BY <2>1, <2>2
<1>4. ASSUME ~faulty, fd # "open" PROVE file = [i \in 1 .. appended |-> i]
  <2>1. buf = <<>>
    BY <1>4 DEF FileInv
  <2> QED
    BY <1>1, <1>3, <1>4, <2>1, ConcatEmptySeq
<1> QED
  BY <1>2, <1>3, <1>4 DEF FileFollowsAppends

(* For any size of the buffer and of the data, whatever calls come in      *)
(* whatever order and fail wherever they may: without a failure file and   *)
(* buffer are what was appended, and with failures the file still has no   *)
(* byte twice or out of order.                                             *)
THEOREM FileIsAppends == Spec => []FileFollowsAppends
<1>1. IInv => FileFollowsAppends
  BY InvFollows DEF IInv
<1> QED
  BY Known, <1>1, PTL

(* A byte that Append took is lost only in a call that returns an error,   *)
(* or in the destructor, which tells nobody.                               *)
THEOREM NoSilentLoss == Spec => LossIsReported
<1>1. IInv /\ [Step]_vars =>
        [Missing' \subseteq Missing \/ status' = "error" \/ fd' = "gone"]_wfvars
  BY StepKnown DEF Reported
<1> QED
  BY Known, <1>1, PTL DEF Spec, LossIsReported

(* DoWriteStringToFile leaves the whole file or says so, removes what it   *)
(* half wrote if it can, and closes the descriptor exactly once.           *)
THEOREM WholeFileOrError == Spec => []AllOrNothing
<1>1. ASSUME IInv PROVE AllOrNothing
  <2>1. FileInv /\ Progress
    BY <1>1 DEF IInv
  <2>2. ASSUME step = "done" PROVE /\ opened => closes = 1 /\ fd = "gone"
                                   /\ s = "error" /\ opened /\ removed => ~exists
    BY <2>1, <2>2 DEF Progress
  <2>3. ASSUME step = "done", s = "ok" PROVE exists /\ file = Data
    <3>1. exists /\ ~faulty /\ fd = "gone" /\ appended = size
      BY <2>1, <2>3 DEF Progress
    <3>2. file = [i \in 1 .. appended |-> i]
      BY <2>1, <3>1, InvFollows DEF FileFollowsAppends
    <3> QED
      BY <3>1, <3>2 DEF Data
  <2> QED
    BY <2>2, <2>3 DEF AllOrNothing
<1>2. IInv => AllOrNothing
  BY <1>1
<1> QED
  BY Known, <1>2, PTL
=============================================================================
