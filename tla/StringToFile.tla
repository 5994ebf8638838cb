---------------------------- MODULE StringToFile ----------------------------
(***************************************************************************)
(* DoWriteStringToFile of example-writablefile: open, append, maybe sync,  *)
(* close and delete a WritableFileImpl, and remove the file again when     *)
(* anything went wrong.  Beside it stands any other user of a              *)
(* WritableFileImpl, who calls it as he likes.                             *)
(***************************************************************************)
EXTENDS WritableFile

VARIABLES
  step,     \* the next thing to do, or "done"; "free" for the other user
  size,     \* the argument data: the bytes 1 .. size
  sync,     \* the argument should_sync
  s,        \* the local s: "ok" or "error"
  exists,   \* the file is there
  opened,   \* history: open(2) succeeded
  closes,   \* history: how often close(2) was called on its descriptor
  removed   \* history: unlink(2) did not fail

args == <<size, sync>>
vars == <<wfvars, step, args, s, exists, opened, closes, removed>>

Data == [i \in 1 .. size |-> i]

Init ==
  /\ FileInit
  /\ s = "ok" /\ closes = 0 /\ removed = TRUE
  /\ \/ /\ step = "open" /\ opened = FALSE
        /\ size \in Sizes /\ sync \in BOOLEAN /\ exists \in BOOLEAN
     \/ /\ step = "free" /\ opened = TRUE
        /\ size = 0 /\ sync = FALSE /\ exists = TRUE

\* NewWritableFile; open(2) truncates the file if there is one.
Open ==
  /\ step = "open"
  /\ \/ step' = "append" /\ exists' = TRUE /\ opened' = TRUE /\ UNCHANGED s
     \/ step' = "done" /\ s' = "error" /\ UNCHANGED <<exists, opened>>
  /\ UNCHANGED <<wfvars, args, closes, removed>>

AfterAppend(ok) == IF ~ok THEN "delete" ELSE IF sync THEN "sync" ELSE "close"

AppendAll ==
  /\ step = "append"
  /\ AppendData(Data)
  /\ s' = status'
  /\ step' = AfterAppend(status' = "ok")
  /\ UNCHANGED <<args, exists, opened, closes, removed>>

\* WritableFileImpl::Sync is not supported.
SyncFails ==
  /\ step = "sync"
  /\ s' = "error" /\ step' = "delete"
  /\ UNCHANGED <<wfvars, args, exists, opened, closes, removed>>

Result_Dropped(result) == s
Result(result) == result

CloseFile ==
  /\ step = "close"
  /\ Close
  /\ s' = Result(status') /\ step' = "delete" /\ closes' = closes + 1
  /\ UNCHANGED <<args, exists, opened, removed>>

AfterDelete == IF s = "ok" THEN "done" ELSE "remove"

DeleteObject ==
  /\ step = "delete"
  /\ Destroy
  /\ closes' = IF fd = "open" THEN closes + 1 ELSE closes
  /\ step' = AfterDelete
  /\ UNCHANGED <<args, s, exists, opened, removed>>

\* unlink(2) may fail; nobody looks at the result of RemoveFile.
RemoveFile ==
  /\ step = "remove"
  /\ removed' \in BOOLEAN /\ exists' = ~removed'
  /\ step' = "done"
  /\ UNCHANGED <<wfvars, args, s, opened, closes>>

OtherUser ==
  /\ step = "free"
  /\ Next
  /\ UNCHANGED <<step, args, s, exists, opened, closes, removed>>

Step == \/ Open \/ AppendAll \/ SyncFails \/ CloseFile \/ DeleteObject
        \/ RemoveFile \/ OtherUser

Spec == Init /\ [][Step]_vars

-----------------------------------------------------------------------------
(* Properties *)

\* If DoWriteStringToFile returns OK the file holds the data, all of it; if it
\* returns an error after it opened the file, no half-written file stays
\* behind, unless it could not be removed either; and on every path the
\* descriptor is closed exactly once, by Close or by the destructor.
AllOrNothing ==
  step = "done" =>
    /\ s = "ok" => exists /\ file = Data
    /\ s = "error" /\ opened /\ removed => ~exists
    /\ opened => closes = 1 /\ fd = "gone"
=============================================================================
