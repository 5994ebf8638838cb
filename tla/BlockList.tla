------------------------------ MODULE BlockList ------------------------------
(***************************************************************************)
(* BlockList of example-blocklist: virtual disks on which too many         *)
(* operations failed lately are put on a list and stay there.              *)
(*                                                                         *)
(* ReportFailed reads the clock up to three times, and the clock goes on   *)
(* between the readings.  Times are ticks of the system clock, which is    *)
(* taken to be monotonic; record_interval_ms is compared with them as it   *)
(* is, whatever a tick is.  They are counted from when the list is made.   *)
(* The clock itself counts from 1970 and is far beyond any interval, so    *)
(* that the unsigned subtraction of an interval from it does not wrap.     *)
(***************************************************************************)
EXTENDS Integers, Sequences, FiniteSets, SequencesExt

CONSTANTS VDiskIds,
          BlockTypes,   \* the types of BlockType but BLOCK_TYPE_NUM
          Policies,     \* bound: the policies the table may hold
          NoPolicy,     \* "the table has no policy for this type"
          MaxNow        \* bound: how far the clock runs

BlockListParameters ==
  /\ MaxNow \in Nat
  /\ Policies \subseteq [record_interval_ms : Nat, block_threhold_cnt : Nat]
  /\ NoPolicy \notin Policies

VARIABLES
  block_policy,   \* block_policy_
  block_items,    \* block_items_: the disks on the list
  suspect_items,  \* suspect_items_: disk -> type -> the failures on record, of
                  \* each its number and its time
  now,            \* the system clock
  reports,        \* history: the failures reported before a disk is blocked
  checked         \* history: when they were counted last

vars == <<block_policy, block_items, suspect_items, now, reports, checked>>

Interval(b)  == block_policy[b].record_interval_ms
Threshold(b) == block_policy[b].block_threhold_cnt

Init ==
  /\ block_policy \in [BlockTypes -> Policies \cup {NoPolicy}]
  /\ block_items = {}
  /\ suspect_items = [v \in VDiskIds |-> [b \in BlockTypes |-> {}]]
  /\ now = 0
  /\ reports = [v \in VDiskIds |-> [b \in BlockTypes |-> <<>>]]
  /\ checked = [v \in VDiskIds |-> [b \in BlockTypes |-> 0]]

Tick ==
  /\ now < MaxNow
  /\ now' = now + 1
  /\ UNCHANGED <<block_policy, block_items, suspect_items, reports, checked>>

-----------------------------------------------------------------------------
(* ReportFailed; it changes nothing for other kinds of errors, for disks     *)
(* that are blocked and for types without a policy                           *)

Heard(v, b) == v \notin block_items /\ block_policy[b] # NoPolicy

\* The records that are not older than the interval at the second reading
Recent_Strictly(records, b, t2) ==
  {r \in records : r[2] > t2 - Interval(b)}

Recent(records, b, t2) ==
  {r \in records : r[2] >= t2 - Interval(b)}

Blocks(records, b) == Interval(b) > 0 => Cardinality(records) >= Threshold(b)

Kept(records, b) == IF Blocks(records, b) THEN {} ELSE records

ReportFailed(v, b) ==
  /\ Heard(v, b)
  /\ \E t1, t2 \in now .. MaxNow :
       LET failure == <<Len(reports[v][b]) + 1, t1>>
           stamped == suspect_items[v][b] \cup {failure}
           records == IF Interval(b) > 0 THEN Recent(stamped, b, t2) ELSE stamped
       IN  /\ t1 <= t2 /\ now' = t2
           /\ suspect_items' = [suspect_items EXCEPT ![v][b] = Kept(records, b)]
           /\ block_items' = IF Blocks(records, b)
                             THEN block_items \cup {v} ELSE block_items
           /\ reports' = [reports EXCEPT ![v][b] = Append(@, t1)]
           /\ checked' = [checked EXCEPT ![v][b] = t2]
  /\ UNCHANGED block_policy

-----------------------------------------------------------------------------
Next == Tick \/ \E v \in VDiskIds, b \in BlockTypes : ReportFailed(v, b)

Spec == Init /\ [][Next]_vars

-----------------------------------------------------------------------------
(* Properties *)

\* The types, and the limit on the records that are kept of a disk.
TypeOK ==
  /\ block_policy \in [BlockTypes -> Policies \cup {NoPolicy}]
  /\ block_items \subseteq VDiskIds
  /\ suspect_items \in [VDiskIds -> [BlockTypes -> SUBSET (Nat \X (0 .. now))]]
  /\ reports \in [VDiskIds -> [BlockTypes -> Seq(0 .. now)]]
  /\ checked \in [VDiskIds -> [BlockTypes -> 0 .. now]]
  /\ \A v \in VDiskIds, b \in BlockTypes :
       suspect_items[v][b] # {} =>
         /\ Interval(b) > 0
         /\ Cardinality(suspect_items[v][b]) < Threshold(b)

Within(v, b, from, to) ==
  Cardinality({i \in DOMAIN reports[v][b] : reports[v][b][i] \in from .. to})

\* A disk is blocked only for a cause: for some type one failure that the
\* policy does not count, or as many as its threshold within one interval.  And
\* none is overlooked: a disk that is not blocked had, whenever its failures of
\* a type were counted last, fewer than the threshold in the interval, although
\* the records that were too old at an earlier count are gone.
BlockedIffCause ==
  /\ \A v \in block_items : \E b \in BlockTypes :
       /\ reports[v][b] # <<>>
       /\ \/ Interval(b) = 0
          \/ \E from \in -Interval(b) .. now :
               Within(v, b, from, from + Interval(b)) >= Threshold(b)
  /\ \A v \in VDiskIds \ block_items, b \in BlockTypes :
       reports[v][b] # <<>> =>
         /\ Interval(b) > 0
         /\ Within(v, b, checked[v][b] - Interval(b), now) < Threshold(b)
=============================================================================
