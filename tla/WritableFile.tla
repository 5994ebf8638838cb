---------------------------- MODULE WritableFile ----------------------------
(***************************************************************************)
(* WritableFileImpl of example-writablefile: a file behind a buffer, used  *)
(* by one thread, so that a call is one action.  The system calls in it    *)
(* may fail, and write(2) may write a part before it fails; one that EINTR *)
(* interrupts is tried again, which changes nothing.                       *)
(*                                                                         *)
(* Bytes are numbered in the order in which they are appended, so the file *)
(* shows which came through, and in which order.                           *)
(***************************************************************************)
EXTENDS Integers, Sequences, SequencesExt

CONSTANTS BufferSize,  \* kWritableFileBufferSize
          Sizes,       \* bound: the sizes of the data a caller appends
          MaxBytes     \* bound: bytes appended in a behaviour

ASSUME BufferAssumption ==
  BufferSize \in Nat \ {0} /\ MaxBytes \in Nat /\ Sizes \subseteq Nat

VARIABLES
  file,      \* the contents of the file
  fd,        \* fd_: "open", "closed" for -1, "gone" with the object
  buf,       \* buf_[0 .. pos_ - 1]
  status,    \* what the last call returned: "ok" or "error"
  appended,  \* history: how many bytes Append was given
  faulty     \* history: a system call has failed, or a closed file was used

wfvars == <<file, fd, buf, status, appended, faulty>>

FileInit ==
  /\ file = <<>> /\ fd = "open" /\ buf = <<>>
  /\ status = "ok" /\ appended = 0 /\ faulty = FALSE

-----------------------------------------------------------------------------
(* Parts of the calls: what each may leave in the file, and whether it is OK *)

Keep(s, n) == SubSeq(s, 1, n)
Skip(s, n) == SubSeq(s, n + 1, Len(s))

\* WriteUnbuffered: the loop ends when all is written or write(2) fails.
WriteUnbuffered_OncePerCall(f, data) ==
  {[file |-> f \o Keep(data, n), ok |-> TRUE] : n \in 0 .. Len(data)}

WriteUnbuffered(f, data) ==
  IF data = <<>> THEN {[file |-> f, ok |-> TRUE]}
  ELSE {[file |-> f \o Keep(data, n), ok |-> n = Len(data)] :
          n \in IF fd = "open" THEN 0 .. Len(data) ELSE {0}}

\* How much of the data Append copies behind what is in the buffer
Copied(data) == Min({Len(data), BufferSize - Len(buf)})

\* Append when the buffer takes only a part of the data: it is flushed, and
\* the rest goes into the buffer or, if it is large, to the file.
AfterFlush(flushed, rest) ==
  IF ~flushed.ok THEN {[file |-> flushed.file, buf |-> <<>>, ok |-> FALSE]}
  ELSE IF Len(rest) < BufferSize
  THEN {[file |-> flushed.file, buf |-> rest, ok |-> TRUE]}
  ELSE {[file |-> w.file, buf |-> <<>>, ok |-> w.ok] :
          w \in WriteUnbuffered(flushed.file, rest)}

Overflow(data) ==
  UNION {AfterFlush(w, Skip(data, Copied(data))) :
           w \in WriteUnbuffered(file, buf \o Keep(data, Copied(data)))}

\* The buffer after FlushBuffer, which empties it even if the write failed
Flushed_KeptOnError(w) == IF w.ok THEN <<>> ELSE buf
Flushed(w) == <<>>

Return(ok) == status' = IF ok THEN "ok" ELSE "error"

-----------------------------------------------------------------------------
(* The calls *)

AppendData(data) ==
  /\ fd # "gone"
  /\ appended' = appended + Len(data)
  /\ IF Copied(data) = Len(data)
     THEN /\ buf' = buf \o data /\ Return(TRUE) /\ UNCHANGED file
          /\ faulty' = (faulty \/ fd # "open")
     ELSE \E w \in Overflow(data) :
            /\ file' = w.file /\ buf' = w.buf /\ Return(w.ok)
            /\ faulty' = (faulty \/ ~w.ok)
  /\ UNCHANGED fd

Append_ == \E n \in Sizes : /\ appended + n <= MaxBytes
                            /\ AppendData([i \in 1 .. n |-> appended + i])

\* SyncFd takes the result of fsync, 0 for success, for a truth value.
Flush ==
  /\ fd # "gone"
  /\ \E w \in WriteUnbuffered(file, buf), synced \in BOOLEAN :
       /\ synced => fd = "open"
       /\ file' = w.file /\ buf' = Flushed(w)
       /\ Return(w.ok /\ ~synced)
       /\ faulty' = (faulty \/ ~w.ok \/ ~synced)
  /\ UNCHANGED <<fd, appended>>

\* close(2) gives the descriptor up even if it fails.
CloseFd ==
  \E w \in WriteUnbuffered(file, buf), closed \in BOOLEAN :
    /\ closed => fd = "open"
    /\ file' = w.file /\ buf' = Flushed(w)
    /\ Return(w.ok /\ closed)
    /\ faulty' = (faulty \/ ~w.ok \/ ~closed)

Close ==
  /\ fd # "gone"
  /\ CloseFd
  /\ fd' = "closed"
  /\ UNCHANGED appended

\* The destructor closes what is open and tells nobody what came of it.
Destroy ==
  /\ fd # "gone"
  /\ IF fd = "open" THEN CloseFd ELSE UNCHANGED <<file, buf, status, faulty>>
  /\ fd' = "gone"
  /\ UNCHANGED appended

Next == Append_ \/ Flush \/ Close \/ Destroy

FileSpec == FileInit /\ [][Next]_wfvars

-----------------------------------------------------------------------------
(* Properties *)

FileTypeOK ==
  /\ file \in Seq(1 .. MaxBytes) /\ buf \in Seq(1 .. MaxBytes)
  /\ Len(buf) <= BufferSize
  /\ fd \in {"open", "closed", "gone"} /\ status \in {"ok", "error"}
  /\ appended \in Nat /\ faulty \in BOOLEAN

\* As long as no system call fails and nothing is appended to a closed file,
\* file and buffer together are what was appended, whatever the sizes and
\* wherever Flush and Close come in, and closing or destroying the object
\* leaves nothing behind in the buffer.  Also after failures the file never
\* holds a byte twice nor two bytes in the wrong order: what a failed write
\* left of the buffer is not written again.
FileFollowsAppends ==
  /\ ~faulty => /\ file \o buf = [i \in 1 .. appended |-> i]
                /\ fd # "open" => file = [i \in 1 .. appended |-> i]
  /\ \A i, j \in DOMAIN (file \o buf) : i < j => (file \o buf)[i] < (file \o buf)[j]

Missing == 1 .. appended \ ToSet(file \o buf)

\* A byte that was appended is lost only in a call that returns an error, or
\* in the destructor.
LossIsReported ==
  [][Missing' \subseteq Missing \/ status' = "error" \/ fd' = "gone"]_wfvars
=============================================================================
