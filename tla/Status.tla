------------------------------- MODULE Status -------------------------------
(***************************************************************************)
(* Status of common/status: null for success, or the address of an array   *)
(* that the object owns,                                                   *)
(*   state_[0..3] the length of the message, [4] the code, [5..] the text. *)
(*                                                                         *)
(* A call is one action.  The heap may hand the address of a deleted array *)
(* out again, in the same call too; the bytes behind the length are left   *)
(* out of an array that has none.                                          *)
(***************************************************************************)
EXTENDS Integers, Sequences, Functions

CONSTANTS Objects,   \* the places where a Status may live
          Arrays,    \* the addresses of arrays
          Null,      \* nullptr
          Codes,     \* the values of Code but kOk
          Chars,     \* the characters of a text
          Messages   \* bound: the Slices a Status is made from

ASSUME StatusAssumption ==
  /\ Null \notin Arrays /\ "kOk" \notin Codes
  /\ {"colon", "space"} \subseteq Chars
  /\ \A m \in Messages : m \in Seq(Chars)

VARIABLES
  alive,   \* the objects that are constructed and not destroyed
  state_,  \* state_ of each object
  heap     \* the arrays that are allocated

vars == <<alive, state_, heap>>

Init ==
  /\ alive = {} /\ heap = <<>>
  /\ state_ = [o \in Objects |-> Null]

-----------------------------------------------------------------------------
(* Arrays *)

Separator == <<"colon", "space">>

\* The array for two messages; a second one that is empty is left out.
Layout_NoSeparator(code, msg1, msg2) ==
  [size |-> Len(msg1) + Len(msg2), code |-> code,
   text |-> msg1 \o (IF msg2 = <<>> THEN <<>> ELSE Separator \o msg2)]

Layout(code, msg1, msg2) ==
  LET size == Len(msg1) + (IF msg2 = <<>> THEN 0 ELSE Len(msg2) + 2)
  IN  [size |-> size, code |-> code,
       text |-> msg1 \o (IF msg2 = <<>> THEN <<>> ELSE Separator \o msg2)]

\* CopyState copies size + 5 bytes; a deleted array reads as anything at all.
Read(memory, a) ==
  IF a \in DOMAIN memory
  THEN [memory[a] EXCEPT !.text = SubSeq(@, 1, memory[a].size)]
  ELSE [size |-> 0, code |-> "deleted", text |-> <<>>]

Added(memory, a, array) ==
  [b \in DOMAIN memory \cup {a} |-> IF b = a THEN array ELSE memory[b]]

Deleted(memory, a) == Restrict(memory, DOMAIN memory \ {a})

-----------------------------------------------------------------------------
(* Construction and destruction *)

MakeOK(o) ==
  /\ o \notin alive
  /\ alive' = alive \cup {o}
  /\ state_' = [state_ EXCEPT ![o] = Null]
  /\ UNCHANGED heap

\* NotFound, Corruption, NotSupported, InvalidArgument and IOError
Make(o, code, msg1, msg2) ==
  /\ o \notin alive
  /\ alive' = alive \cup {o}
  /\ \E a \in Arrays \ DOMAIN heap :
       /\ state_' = [state_ EXCEPT ![o] = a]
       /\ heap' = Added(heap, a, Layout(code, msg1, msg2))

\* o gets a copy of the array of p, in the memory that is left of the heap.
CopyState(o, p, memory) ==
  IF state_[p] = Null
  THEN state_' = [state_ EXCEPT ![o] = Null] /\ heap' = memory
  ELSE \E a \in Arrays \ DOMAIN memory :
         /\ state_' = [state_ EXCEPT ![o] = a]
         /\ heap' = Added(memory, a, Read(memory, state_[p]))

CopyConstruct(o, p) ==
  /\ o \notin alive /\ p \in alive
  /\ alive' = alive \cup {o}
  /\ CopyState(o, p, heap)

MoveConstruct(o, p) ==
  /\ o \notin alive /\ p \in alive
  /\ alive' = alive \cup {o}
  /\ state_' = [state_ EXCEPT ![o] = state_[p], ![p] = Null]
  /\ UNCHANGED heap

Destroy(o) ==
  /\ o \in alive
  /\ alive' = alive \ {o}
  /\ heap' = Deleted(heap, state_[o])
  /\ state_' = [state_ EXCEPT ![o] = Null]   \* nobody looks at it any more

-----------------------------------------------------------------------------
(* Assignment, also of an object to itself *)

Differ(o, p) == state_[o] # state_[p]

CopyAssign(o, p) ==
  /\ o \in alive /\ p \in alive
  /\ IF Differ(o, p) THEN CopyState(o, p, Deleted(heap, state_[o]))
     ELSE UNCHANGED <<state_, heap>>
  /\ UNCHANGED alive

Swapped_OldDropped(o, p) == [state_ EXCEPT ![o] = state_[p], ![p] = Null]
Swapped(o, p) == [state_ EXCEPT ![o] = state_[p], ![p] = state_[o]]

MoveAssign(o, p) ==
  /\ o \in alive /\ p \in alive
  /\ state_' = Swapped(o, p)
  /\ UNCHANGED <<alive, heap>>

-----------------------------------------------------------------------------
Next ==
  \E o \in Objects :
    \/ MakeOK(o) \/ Destroy(o)
    \/ \E code \in Codes, msg1, msg2 \in Messages : Make(o, code, msg1, msg2)
    \/ \E p \in Objects : \/ CopyConstruct(o, p) \/ MoveConstruct(o, p)
                          \/ CopyAssign(o, p) \/ MoveAssign(o, p)

Spec == Init /\ [][Next]_vars

-----------------------------------------------------------------------------
(* What a caller sees *)

\* ok(), IsNotFound() and the other predicates: the one that is true
code(o) == IF state_[o] = Null THEN "kOk" ELSE Read(heap, state_[o]).code

ToString_(o) ==
  IF code(o) = "kOk" THEN <<"OK">>
  ELSE <<code(o)>> \o Separator \o Read(heap, state_[o]).text

-----------------------------------------------------------------------------
(* Properties *)

TypeOK ==
  /\ alive \subseteq Objects
  /\ state_ \in [Objects -> Arrays \cup {Null}]
  /\ DOMAIN heap \subseteq Arrays

Owned(o) == IF state_[o] = Null THEN {} ELSE {state_[o]}

\* Every array has exactly one owner that lives: none is deleted twice or used
\* after it was deleted, and none is left over.
OneOwnerEach ==
  /\ \A o, p \in alive : o # p => Owned(o) \cap Owned(p) = {}
  /\ DOMAIN heap = UNION {Owned(o) : o \in alive}

\* What a Status may say: its code and msg1, or msg1: msg2.
Said(c, msg1, msg2) ==
  [code |-> c, text |-> <<c>> \o Separator \o IF msg2 = <<>> THEN msg1
                                               ELSE msg1 \o Separator \o msg2]
Success   == [code |-> "kOk", text |-> <<"OK">>]
Destroyed == [code |-> "none", text |-> <<>>]

Sayings == {Success} \cup {Said(c, m1, m2) : c \in Codes, m1, m2 \in Messages}

Shown == [o \in Objects |->
            IF o \notin alive THEN Destroyed
                              ELSE [code |-> code(o), text |-> ToString_(o)]]

Abstract == INSTANCE StatusValues WITH
  Values <- Sayings, OK <- Success, Dead <- Destroyed, value <- Shown

ASSUME SaidAssumption == Abstract!ValuesParameters

\* Status has value semantics, however it is copied, moved and assigned.
ImplementsValues == Abstract!Spec
=============================================================================
