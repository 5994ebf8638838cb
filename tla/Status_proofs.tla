--------------------------- MODULE Status_proofs ----------------------------
(***************************************************************************)
(* Proofs about Status for any number of objects, addresses and messages:  *)
(* every array has one owner, and a Status is a value.  The second needs   *)
(* that the arrays in the heap are as a constructor laid them out, so that *)
(* a copy of size + 5 bytes is all of it.                                  *)
(***************************************************************************)
EXTENDS Status, SequenceTheorems, TLAPS

(* The array tells what the constructor was given.                         *)
LaidOut(array) ==
  \E c \in Codes, msg1, msg2 \in Messages : array = Layout(c, msg1, msg2)

HeapInv == \A a \in DOMAIN heap : LaidOut(heap[a])

(* OneOwnerEach, object by object and array by array.                      *)
Owners ==
  /\ \A o, p \in alive : o # p /\ state_[o] # Null => state_[o] # state_[p]
  /\ \A o \in alive : state_[o] # Null => state_[o] \in DOMAIN heap
  /\ \A a \in DOMAIN heap : \E o \in alive : state_[o] = a

IInv == TypeOK /\ Owners /\ HeapInv

-----------------------------------------------------------------------------
(* Arrays *)

LEMMA Joined ==
  ASSUME NEW S, NEW s \in Seq(S), NEW t \in Seq(S)
  PROVE  s \o t \in Seq(S) /\ Len(s \o t) = Len(s) + Len(t)
OBVIOUS

LEMMA LayoutIsWhole ==
  ASSUME NEW c \in Codes, NEW msg1 \in Messages, NEW msg2 \in Messages
  PROVE  /\ Layout(c, msg1, msg2).text \in Seq(Chars)
         /\ Layout(c, msg1, msg2).size = Len(Layout(c, msg1, msg2).text)
<1>1. msg1 \in Seq(Chars) /\ msg2 \in Seq(Chars)
  BY StatusAssumption
<1> DEFINE end == IF msg2 = <<>> THEN <<>> ELSE Separator \o msg2
<1>2. /\ end \in Seq(Chars)
      /\ Len(end) = IF msg2 = <<>> THEN 0 ELSE Len(msg2) + 2
  <2>1. Separator \in Seq(Chars) /\ Len(Separator) = 2
    BY StatusAssumption DEF Separator
  <2>2. /\ Separator \o msg2 \in Seq(Chars)
        /\ Len(Separator \o msg2) = 2 + Len(msg2)
    <3>1. /\ Separator \o msg2 \in Seq(Chars)
          /\ Len(Separator \o msg2) = Len(Separator) + Len(msg2)
      BY <1>1, <2>1, Joined
    <3> QED
      BY <2>1, <3>1
  <2>3. <<>> \in Seq(Chars) /\ Len(<<>>) = 0 /\ Len(msg2) \in Nat
    BY <1>1
  <2>4. CASE msg2 = <<>>
    BY <2>3, <2>4
  <2>5. CASE msg2 # <<>>
    BY <2>2, <2>3, <2>5
  <2> QED
    BY <2>4, <2>5
<1> HIDE DEF end
<1>3. msg1 \o end \in Seq(Chars) /\ Len(msg1 \o end) = Len(msg1) + Len(end)
  BY <1>1, <1>2, Joined
<1>4. /\ Layout(c, msg1, msg2).text = msg1 \o end
      /\ Layout(c, msg1, msg2).size =
           Len(msg1) + (IF msg2 = <<>> THEN 0 ELSE Len(msg2) + 2)
  BY DEF Layout, end
<1> QED
  BY <1>2, <1>3, <1>4

(* What is read of an array is all of it.                                  *)
LEMMA ReadIsWhole ==
  ASSUME NEW memory, NEW a \in DOMAIN memory, LaidOut(memory[a])
  PROVE  Read(memory, a) = memory[a]
<1>1. PICK c \in Codes, msg1 \in Messages, msg2 \in Messages :
        memory[a] = Layout(c, msg1, msg2)
  BY DEF LaidOut
<1> DEFINE text == Layout(c, msg1, msg2).text
<1>2. text \in Seq(Chars) /\ Layout(c, msg1, msg2).size = Len(text)
  BY LayoutIsWhole
<1>3. SubSeq(text, 1, Len(text)) = text
  BY <1>2
<1>4. Layout(c, msg1, msg2) =
        [Layout(c, msg1, msg2) EXCEPT !.text = SubSeq(@, 1, Layout(c, msg1, msg2).size)]
  BY <1>2, <1>3 DEF Layout
<1> QED
  BY <1>1, <1>4 DEF Read

-----------------------------------------------------------------------------
(* The heap *)

LEMMA OneLess ==
  ASSUME NEW memory, NEW a
  PROVE  /\ DOMAIN Deleted(memory, a) = DOMAIN memory \ {a}
         /\ \A b \in DOMAIN memory \ {a} : Deleted(memory, a)[b] = memory[b]
BY DEF Deleted, Restrict

-----------------------------------------------------------------------------
(* Owners *)

LEMMA OwnersSuffice == TypeOK /\ Owners => OneOwnerEach
<1> SUFFICES ASSUME TypeOK, Owners PROVE OneOwnerEach
  OBVIOUS
<1>1. Null \notin DOMAIN heap
  BY StatusAssumption DEF TypeOK
<1>2. \A o, p \in alive : o # p => Owned(o) \cap Owned(p) = {}
  BY DEF Owners, Owned
<1>3. \A a \in DOMAIN heap : a \in UNION {Owned(o) : o \in alive}
  <2> TAKE a \in DOMAIN heap
  <2>1. PICK o \in alive : state_[o] = a
    BY DEF Owners
  <2>2. a \in Owned(o)
    BY <1>1, <2>1 DEF Owned
  <2> QED
    BY <2>2
<1>4. \A o \in alive : Owned(o) \subseteq DOMAIN heap
  BY DEF Owners, Owned
<1> QED
  BY <1>2, <1>3, <1>4 DEF OneOwnerEach

LEMMA InitOwned == Init => IInv
BY DEF Init, IInv, TypeOK, Owners, HeapInv

(* What a step that gives o an array of its own keeps.                     *)
LEMMA NewOwner ==
  ASSUME IInv, NEW o \in Objects, NEW a \in Arrays, NEW array, LaidOut(array),
         NEW memory,
         DOMAIN memory = DOMAIN heap \ (IF o \in alive THEN {state_[o]} ELSE {}),
         \A b \in DOMAIN memory : memory[b] = heap[b],
         a \notin DOMAIN memory,
         alive' = alive \cup {o},
         state_' = [state_ EXCEPT ![o] = a],
         heap' = Added(memory, a, array)
  PROVE  IInv'
<1> USE DEF IInv
<1>1. /\ DOMAIN heap' = DOMAIN memory \cup {a}
      /\ heap'[a] = array
      /\ \A b \in DOMAIN memory \ {a} : heap'[b] = memory[b]
  BY DEF Added
<1>2. TypeOK'
  BY <1>1 DEF TypeOK
<1>3. HeapInv'
  BY <1>1 DEF HeapInv, LaidOut
<1>4. a # Null /\ a \in DOMAIN heap'
  BY <1>1, StatusAssumption
<1>5. state_'[o] = a /\ \A p \in alive \ {o} : state_'[p] = state_[p]
  BY DEF TypeOK
<1>6. \A p \in alive \ {o} : state_[p] # Null => state_[p] \in DOMAIN memory
  BY DEF Owners
<1>7. \A b \in DOMAIN memory : \E p \in alive \ {o} : state_[p] = b
  BY DEF Owners
<1>8. Owners'
  BY <1>1, <1>4, <1>5, <1>6, <1>7 DEF Owners
<1> QED
  BY <1>2, <1>3, <1>8

(* What a step that leaves o without an array keeps.                       *)
LEMMA NoOwner ==
  ASSUME IInv, NEW o \in Objects,
         DOMAIN heap' = DOMAIN heap \ (IF o \in alive THEN {state_[o]} ELSE {}),
         \A b \in DOMAIN heap' : heap'[b] = heap[b],
         alive' \subseteq Objects,
         alive' \ {o} = alive \ {o},
         state_' = [state_ EXCEPT ![o] = Null]
  PROVE  IInv'
<1> USE DEF IInv
<1>1. TypeOK'
  BY DEF TypeOK
<1>2. HeapInv'
  BY DEF HeapInv, LaidOut
<1>3. state_'[o] = Null /\ \A p \in alive \ {o} : state_'[p] = state_[p]
  BY DEF TypeOK
<1>4. \A p \in alive \ {o} : state_[p] # Null => state_[p] \in DOMAIN heap'
  BY DEF Owners
<1>5. \A b \in DOMAIN heap' : \E p \in alive \ {o} : state_[p] = b
  BY DEF Owners
<1>6. Owners'
  BY <1>3, <1>4, <1>5 DEF Owners
<1> QED
  BY <1>1, <1>2, <1>6

LEMMA StepOwned == IInv /\ [Next]_vars => IInv'
<1> SUFFICES ASSUME IInv, [Next]_vars PROVE IInv'
  OBVIOUS
<1>1. CASE UNCHANGED vars
  BY <1>1 DEF vars, IInv, TypeOK, Owners, HeapInv, LaidOut
<1> SUFFICES ASSUME NEW o \in Objects,
                    \/ MakeOK(o) \/ Destroy(o)
                    \/ \E c \in Codes, m1, m2 \in Messages : Make(o, c, m1, m2)
                    \/ \E p \in Objects : \/ CopyConstruct(o, p) \/ MoveConstruct(o, p)
                                          \/ CopyAssign(o, p) \/ MoveAssign(o, p)
             PROVE  IInv'
  BY <1>1 DEF Next
<1>0. Null \notin DOMAIN heap /\ state_ \in [Objects -> Arrays \cup {Null}]
  BY StatusAssumption DEF IInv, TypeOK
<1>2. CASE MakeOK(o)
  BY <1>2, NoOwner DEF MakeOK, IInv, TypeOK
<1>3. CASE Destroy(o)
  <2>1. /\ DOMAIN heap' = DOMAIN heap \ {state_[o]}
        /\ \A b \in DOMAIN heap' : heap'[b] = heap[b]
    BY <1>3, OneLess DEF Destroy
  <2> QED
    BY <1>3, <2>1, NoOwner DEF Destroy, IInv, TypeOK
<1>4. ASSUME NEW c \in Codes, NEW m1 \in Messages, NEW m2 \in Messages,
             Make(o, c, m1, m2)
      PROVE  IInv'
  <2>1. PICK a \in Arrays \ DOMAIN heap :
          /\ state_' = [state_ EXCEPT ![o] = a]
          /\ heap' = Added(heap, a, Layout(c, m1, m2))
    BY <1>4 DEF Make
  <2>2. LaidOut(Layout(c, m1, m2))
    BY DEF LaidOut
  <2>3. o \notin alive /\ alive' = alive \cup {o}
    BY <1>4 DEF Make
  <2> QED
    BY <2>1, <2>2, <2>3, NewOwner
<1>5. ASSUME NEW p \in Objects,
             \/ CopyConstruct(o, p)
             \/ CopyAssign(o, p) /\ Differ(o, p)
      PROVE  IInv'
  <2> DEFINE memory == IF o \in alive THEN Deleted(heap, state_[o]) ELSE heap
  <2>1. CopyState(o, p, memory) /\ alive' = alive \cup {o} /\ p \in alive
    BY <1>5 DEF CopyConstruct, CopyAssign
  <2>2. /\ DOMAIN memory =
             DOMAIN heap \ (IF o \in alive THEN {state_[o]} ELSE {})
        /\ \A b \in DOMAIN memory : memory[b] = heap[b]
    BY OneLess
  <2> HIDE DEF memory
  <2>3. CASE state_[p] = Null
    <3>1. state_' = [state_ EXCEPT ![o] = Null] /\ heap' = memory
      BY <2>1, <2>3 DEF CopyState
    <3>2. alive' \subseteq Objects /\ alive' \ {o} = alive \ {o}
      BY <2>1 DEF IInv, TypeOK
    <3> QED
      BY <2>2, <3>1, <3>2, NoOwner
  <2>4. CASE state_[p] # Null
    <3>1. PICK a \in Arrays \ DOMAIN memory :
            /\ state_' = [state_ EXCEPT ![o] = a]
            /\ heap' = Added(memory, a, Read(memory, state_[p]))
      BY <2>1, <2>4 DEF CopyState
    <3>2. state_[p] \in DOMAIN memory
      BY <1>5, <2>1, <2>2, <2>4 DEF IInv, Owners, CopyConstruct, Differ
    <3>3. LaidOut(memory[state_[p]])
      BY <2>2, <3>2 DEF IInv, HeapInv, LaidOut
    <3>4. LaidOut(Read(memory, state_[p]))
      BY <3>2, <3>3, ReadIsWhole
    <3> QED
      BY <2>1, <2>2, <3>1, <3>4, NewOwner
  <2> QED
    BY <2>3, <2>4
<1>6. ASSUME NEW p \in Objects, CopyAssign(o, p), ~Differ(o, p)
      PROVE  IInv'
  <2>1. UNCHANGED vars
    BY <1>6 DEF CopyAssign, vars
  <2> QED
    BY <2>1 DEF vars, IInv, TypeOK, Owners, HeapInv, LaidOut
<1>7. ASSUME NEW p \in Objects, MoveConstruct(o, p) \/ MoveAssign(o, p)
      PROVE  IInv'
  <2>1. heap' = heap /\ p \in alive /\ alive' = alive \cup {o}
    BY <1>7 DEF MoveConstruct, MoveAssign
  <2>2. HeapInv'
    BY <2>1 DEF IInv, HeapInv, LaidOut
  <2>3. TypeOK'
    BY <1>0, <1>7, <2>1 DEF IInv, TypeOK, MoveConstruct, MoveAssign, Swapped
  <2>4. Owners'
    BY <1>0, <1>7, <2>1
       DEF IInv, TypeOK, Owners, MoveConstruct, MoveAssign, Swapped
  <2> QED
    BY <2>2, <2>3, <2>4 DEF IInv
<1>8. ASSUME NEW p \in Objects, \/ CopyConstruct(o, p) \/ MoveConstruct(o, p)
                                 \/ CopyAssign(o, p) \/ MoveAssign(o, p)
      PROVE  IInv'
  <2>1. CASE CopyConstruct(o, p)
    BY <1>5, <2>1
  <2>2. CASE MoveConstruct(o, p) \/ MoveAssign(o, p)
    BY <1>7, <2>2
  <2>3. CASE CopyAssign(o, p) /\ Differ(o, p)
    BY <1>5, <2>3
  <2>4. CASE CopyAssign(o, p) /\ ~Differ(o, p)
    BY <1>6, <2>4
  <2> QED
    BY <1>8, <2>1, <2>2, <2>3, <2>4
<1> QED
  BY <1>2, <1>3, <1>4, <1>8

(* None is deleted twice or used after it was deleted, and none is left    *)
(* over: every array has exactly one owner that lives.                     *)
THEOREM OneOwner == Spec => []OneOwnerEach
<1>1. IInv => OneOwnerEach
  BY OwnersSuffice DEF IInv
<1> QED
  BY InitOwned, StepOwned, <1>1, PTL DEF Spec

-----------------------------------------------------------------------------
(* Values *)

(* What an array makes its Status say.                                     *)
Told(array) == [code |-> array.code,
                text |-> <<array.code>> \o Separator \o array.text]

LEMMA ToldIsSaid ==
  ASSUME NEW array, LaidOut(array)
  PROVE  array.code \in Codes /\ Told(array) \in Sayings
<1>1. PICK c \in Codes, m1 \in Messages, m2 \in Messages :
        array = Layout(c, m1, m2)
  BY DEF LaidOut
<1>2. /\ array.code = c
      /\ array.text = m1 \o (IF m2 = <<>> THEN <<>> ELSE Separator \o m2)
  BY <1>1 DEF Layout
<1>3. m1 \in Seq(Chars) /\ m2 \in Seq(Chars) /\ Separator \in Seq(Chars)
  BY StatusAssumption DEF Separator
<1>4. array.text = IF m2 = <<>> THEN m1 ELSE m1 \o Separator \o m2
  BY <1>2, <1>3, ConcatAssociative, ConcatEmptySeq
<1>5. Told(array) = Said(c, m1, m2)
  BY <1>2, <1>4 DEF Told, Said
<1> QED
  BY <1>2, <1>5 DEF Sayings

(* A Status says what its array tells.                                     *)
SaysSo(o) == /\ Shown[o] = IF state_[o] = Null THEN Success
                                               ELSE Told(heap[state_[o]])
             /\ Shown[o] \in Sayings

AllSaySo == \A o \in alive : SaysSo(o)

LEMMA ShownIsTold == IInv => AllSaySo
<1> SUFFICES ASSUME IInv, NEW o \in alive PROVE SaysSo(o)
  BY DEF AllSaySo
<1>1. o \in Objects
  BY DEF IInv, TypeOK
<1>2. Shown[o] = [code |-> code(o), text |-> ToString_(o)]
  BY <1>1 DEF Shown
<1>3. CASE state_[o] = Null
  BY <1>2, <1>3 DEF code, ToString_, Success, Sayings, SaysSo
<1>4. CASE state_[o] # Null
  <2>1. state_[o] \in DOMAIN heap
    BY <1>4 DEF IInv, Owners
  <2>2. LaidOut(heap[state_[o]])
    BY <2>1 DEF IInv, HeapInv
  <2>3. Read(heap, state_[o]) = heap[state_[o]]
    BY <2>1, <2>2, ReadIsWhole
  <2>4. heap[state_[o]].code \in Codes /\ Told(heap[state_[o]]) \in Sayings
    BY <2>2, ToldIsSaid
  <2>5. code(o) = heap[state_[o]].code /\ code(o) # "kOk"
    BY <1>4, <2>3, <2>4, StatusAssumption DEF code
  <2>6. Shown[o] = Told(heap[state_[o]])
    BY <1>2, <2>3, <2>5 DEF ToString_, Told
  <2> QED
    BY <1>4, <2>4, <2>6 DEF SaysSo
<1> QED
  BY <1>3, <1>4

LEMMA ShownIsToldNext == IInv' => AllSaySo'
BY ShownIsTold, PTL

(* A step that makes one Status say v and changes nothing else.            *)
LEMMA OneSays ==
  ASSUME NEW o \in Objects, NEW v, IInv, IInv',
         Shown'[o] = v, alive' \ {o} = alive \ {o},
         \A p \in alive \ {o} : /\ state_'[p] = state_[p]
                                /\ state_[p] # Null =>
                                     heap'[state_[p]] = heap[state_[p]]
  PROVE  Shown' = [Shown EXCEPT ![o] = v]
<1>1. AllSaySo /\ AllSaySo'
  BY ShownIsTold, ShownIsToldNext
<1>2. ASSUME NEW p \in Objects \ {o} PROVE Shown'[p] = Shown[p]
  <2>1. CASE p \in alive
    <3>1. SaysSo(p) /\ SaysSo(p)'
      BY <1>1, <1>2, <2>1 DEF AllSaySo
    <3>2. /\ state_'[p] = state_[p]
          /\ state_[p] # Null => heap'[state_[p]] = heap[state_[p]]
      BY <1>2, <2>1
    <3> QED
      BY <3>1, <3>2 DEF SaysSo, Told
  <2>2. CASE p \notin alive
    BY <1>2, <2>2 DEF Shown
  <2> QED
    BY <2>1, <2>2
<1>3. Shown \in [Objects -> {Shown[p] : p \in Objects}]
  BY DEF Shown
<1>4. DOMAIN Shown' = Objects
  BY DEF Shown
<1> QED
  BY <1>2, <1>3, <1>4 DEF Shown

LEMMA AliveIsAlive ==
  ASSUME IInv, NEW o \in Objects
  PROVE  Abstract!Alive(o) <=> o \in alive
<1>1. Destroyed \notin Sayings
  BY SaidAssumption DEF Abstract!ValuesParameters
<1>2. o \in alive => Shown[o] \in Sayings
  BY ShownIsTold DEF AllSaySo, SaysSo
<1>3. o \notin alive => Shown[o] = Destroyed
  BY DEF Shown
<1> QED
  BY <1>1, <1>2, <1>3 DEF Abstract!Alive

LEMMA CopySays ==
  ASSUME IInv, IInv', NEW o \in Objects, NEW p \in Objects,
         CopyConstruct(o, p) \/ (CopyAssign(o, p) /\ Differ(o, p))
  PROVE  Abstract!Copy(o, p)
<1> DEFINE memory == IF o \in alive THEN Deleted(heap, state_[o]) ELSE heap
<1>1. /\ CopyState(o, p, memory) /\ alive' = alive \cup {o} /\ p \in alive
      /\ p # o /\ (o \in alive => state_[o] # state_[p])
  BY DEF CopyConstruct, CopyAssign, Differ
<1>2. state_ \in [Objects -> Arrays \cup {Null}]
  BY DEF IInv, TypeOK
<1>3. /\ \A b \in DOMAIN memory : memory[b] = heap[b]
      /\ \A q \in alive \ {o} : state_[q] # Null => state_[q] \in DOMAIN memory
  <2>1. /\ DOMAIN memory =
             DOMAIN heap \ (IF o \in alive THEN {state_[o]} ELSE {})
        /\ \A b \in DOMAIN memory : memory[b] = heap[b]
    BY OneLess
  <2> QED
    BY <2>1 DEF IInv, Owners
<1> HIDE DEF memory
<1>4. /\ \A q \in alive \ {o} :
            /\ state_'[q] = state_[q]
            /\ state_[q] # Null => heap'[state_[q]] = heap[state_[q]]
      /\ IF state_[p] = Null THEN state_'[o] = Null
         ELSE state_'[o] # Null /\ heap'[state_'[o]] = heap[state_[p]]
  <2>1. CASE state_[p] = Null
    <3>1. state_' = [state_ EXCEPT ![o] = Null] /\ heap' = memory
      BY <1>1, <2>1 DEF CopyState
    <3>2. state_'[o] = Null /\ \A q \in alive \ {o} : state_'[q] = state_[q]
      BY <1>2, <3>1 DEF IInv, TypeOK
    <3> QED
      BY <1>3, <2>1, <3>1, <3>2
  <2>2. CASE state_[p] # Null
    <3>1. PICK a \in Arrays \ DOMAIN memory :
            /\ state_' = [state_ EXCEPT ![o] = a]
            /\ heap' = Added(memory, a, Read(memory, state_[p]))
      BY <1>1, <2>2 DEF CopyState
    <3>2. state_[p] \in DOMAIN memory /\ state_[p] \in DOMAIN heap
      BY <1>1, <1>3, <2>2 DEF IInv, Owners
    <3>3. LaidOut(memory[state_[p]])
      BY <1>3, <3>2 DEF IInv, HeapInv, LaidOut
    <3>4. Read(memory, state_[p]) = heap[state_[p]]
      BY <1>3, <3>2, <3>3, ReadIsWhole
    <3>5. heap'[a] = heap[state_[p]]
      BY <3>1, <3>4 DEF Added
    <3>6. \A q \in alive \ {o} : state_[q] # Null =>
                                 heap'[state_[q]] = heap[state_[q]]
      BY <1>3, <3>1 DEF Added
    <3> QED
      BY <1>2, <2>2, <3>1, <3>5, <3>6, StatusAssumption
  <2> QED
    BY <2>1, <2>2
<1>5. SaysSo(p) /\ SaysSo(o)'
  BY <1>1, ShownIsTold, ShownIsToldNext DEF AllSaySo
<1>6. Shown'[o] = Shown[p]
  BY <1>4, <1>5 DEF SaysSo, Told
<1>7. Shown' = [Shown EXCEPT ![o] = Shown[p]]
  <2>1. alive' \ {o} = alive \ {o}
    BY <1>1
  <2> QED
    BY <1>4, <1>6, <2>1, OneSays
<1> QED
  BY <1>1, <1>7, AliveIsAlive DEF Abstract!Copy

LEMMA MoveSays ==
  ASSUME IInv, IInv', NEW o \in Objects, NEW p \in Objects, o # p,
         MoveConstruct(o, p) \/ MoveAssign(o, p)
  PROVE  Abstract!Move(o, p)
<1>1. heap' = heap /\ p \in alive /\ alive' = alive \cup {o}
  BY DEF MoveConstruct, MoveAssign
<1>2. /\ state_ \in [Objects -> Arrays \cup {Null}]
      /\ state_'[o] = state_[p]
      /\ \A q \in Objects \ {o, p} : state_'[q] = state_[q]
  BY DEF IInv, TypeOK, MoveConstruct, MoveAssign, Swapped
<1>3. AllSaySo /\ AllSaySo'
  BY ShownIsTold, ShownIsToldNext
<1>4. Shown'[o] = Shown[p] /\ Shown'[p] \in Sayings
  <2>1. SaysSo(p) /\ SaysSo(o)' /\ (p \in alive' => SaysSo(p)')
    BY <1>1, <1>3 DEF AllSaySo
  <2>2. p \in alive'
    BY <1>1
  <2> QED
    BY <1>1, <1>2, <2>1, <2>2 DEF SaysSo, Told
<1>5. \A q \in Objects \ {o, p} : Shown'[q] = Shown[q]
  <2> TAKE q \in Objects \ {o, p}
  <2>1. CASE q \in alive
    <3>1. SaysSo(q) /\ SaysSo(q)'
      BY <1>1, <1>3, <2>1 DEF AllSaySo
    <3> QED
      BY <1>1, <1>2, <3>1 DEF SaysSo, Told
  <2>2. CASE q \notin alive
    BY <1>1, <2>2 DEF Shown
  <2> QED
    BY <2>1, <2>2
<1>6. Shown' = [Shown EXCEPT ![o] = Shown[p], ![p] = Shown'[p]]
  BY <1>4, <1>5 DEF Shown
<1> QED
  BY <1>1, <1>4, <1>6, AliveIsAlive DEF Abstract!Move

LEMMA InitShown == Init => Abstract!Init
BY DEF Init, Abstract!Init, Shown

LEMMA StepShown == IInv /\ IInv' /\ [Next]_vars => [Abstract!Next]_Shown
<1> SUFFICES ASSUME IInv, IInv', [Next]_vars PROVE [Abstract!Next]_Shown
  OBVIOUS
<1>1. ASSUME UNCHANGED vars PROVE UNCHANGED Shown
  BY <1>1 DEF vars, Shown, code, ToString_, Read
<1> SUFFICES ASSUME NEW o \in Objects,
                    \/ MakeOK(o) \/ Destroy(o)
                    \/ \E c \in Codes, m1, m2 \in Messages : Make(o, c, m1, m2)
                    \/ \E p \in Objects : \/ CopyConstruct(o, p) \/ MoveConstruct(o, p)
                                          \/ CopyAssign(o, p) \/ MoveAssign(o, p)
             PROVE  Abstract!Next \/ UNCHANGED Shown
  BY <1>1 DEF Next
<1>0. state_ \in [Objects -> Arrays \cup {Null}]
  BY DEF IInv, TypeOK
<1>2. AllSaySo /\ AllSaySo'
  BY ShownIsTold, ShownIsToldNext
<1>3. ASSUME MakeOK(o) \/ \E c \in Codes, m1, m2 \in Messages : Make(o, c, m1, m2)
      PROVE  Abstract!Make(o)
  <2>1. /\ o \notin alive /\ alive' = alive \cup {o}
        /\ \A p \in alive \ {o} :
              /\ state_'[p] = state_[p]
              /\ state_[p] # Null => heap'[state_[p]] = heap[state_[p]]
    <3>1. CASE MakeOK(o)
      BY <1>0, <3>1 DEF MakeOK, IInv, TypeOK
    <3>2. CASE \E c \in Codes, m1, m2 \in Messages : Make(o, c, m1, m2)
      <4>1. PICK c \in Codes, m1 \in Messages, m2 \in Messages : Make(o, c, m1, m2)
        BY <3>2
      <4>2. PICK a \in Arrays \ DOMAIN heap :
              /\ state_' = [state_ EXCEPT ![o] = a]
              /\ heap' = Added(heap, a, Layout(c, m1, m2))
        BY <4>1 DEF Make
      <4>3. o \notin alive /\ alive' = alive \cup {o}
        BY <4>1 DEF Make
      <4>4. \A p \in alive : state_[p] # Null => state_[p] \in DOMAIN heap
        BY DEF IInv, Owners
      <4> QED
        BY <1>0, <4>2, <4>3, <4>4 DEF Added
    <3> QED
      BY <1>3, <3>1, <3>2
  <2>2. Shown'[o] \in Sayings
    BY <1>2, <2>1 DEF AllSaySo, SaysSo
  <2>3. alive' \ {o} = alive \ {o}
    BY <2>1
  <2>4. Shown' = [Shown EXCEPT ![o] = Shown'[o]]
    BY <2>1, <2>3, OneSays
  <2> QED
    BY <2>1, <2>2, <2>4, AliveIsAlive DEF Abstract!Make
<1>4. ASSUME Destroy(o) PROVE Abstract!Destroy(o)
  <2>1. o \in alive /\ alive' = alive \ {o}
    BY <1>4 DEF Destroy
  <2>2. DOMAIN Deleted(heap, state_[o]) = DOMAIN heap \ {state_[o]}
    BY OneLess
  <2>3. \A p \in alive \ {o} :
          /\ state_'[p] = state_[p]
          /\ state_[p] # Null => heap'[state_[p]] = heap[state_[p]]
    <3> TAKE p \in alive \ {o}
    <3>1. state_'[p] = state_[p]
      BY <1>0, <1>4 DEF Destroy
    <3>2. ASSUME state_[p] # Null PROVE heap'[state_[p]] = heap[state_[p]]
      <4>1. state_[p] \in DOMAIN heap \ {state_[o]}
        BY <2>1, <3>2 DEF IInv, Owners
      <4>2. heap' = Deleted(heap, state_[o])
        BY <1>4 DEF Destroy
      <4> QED
        BY <4>1, <4>2, OneLess
    <3> QED
      BY <3>1, <3>2
  <2>4. Shown'[o] = Destroyed
    BY <2>1 DEF Shown
  <2>5. alive' \ {o} = alive \ {o}
    BY <2>1
  <2>6. Shown' = [Shown EXCEPT ![o] = Destroyed]
    BY <2>3, <2>4, <2>5, OneSays
  <2> QED
    BY <2>1, <2>6, AliveIsAlive DEF Abstract!Destroy
<1>5. ASSUME NEW p \in Objects, \/ CopyConstruct(o, p) \/ MoveConstruct(o, p)
                                 \/ CopyAssign(o, p) \/ MoveAssign(o, p)
      PROVE  Abstract!Copy(o, p) \/ Abstract!Move(o, p) \/ UNCHANGED Shown
  <2>1. CASE CopyConstruct(o, p) \/ (CopyAssign(o, p) /\ Differ(o, p))
    BY <2>1, CopySays
  <2>2. CASE CopyAssign(o, p) /\ ~Differ(o, p)
    BY <1>1, <2>2 DEF CopyAssign, vars
  <2>3. CASE (MoveConstruct(o, p) \/ MoveAssign(o, p)) /\ o # p
    BY <2>3, MoveSays
  <2>4. CASE MoveConstruct(o, p) /\ o = p
    BY <2>4 DEF MoveConstruct
  <2>5. CASE MoveAssign(o, p) /\ o = p
    <3>1. UNCHANGED vars
      BY <1>0, <2>5 DEF MoveAssign, Swapped, vars
    <3> QED
      BY <1>1, <3>1
  <2> QED
    BY <1>5, <2>1, <2>2, <2>3, <2>4, <2>5
<1> QED
  BY <1>3, <1>4, <1>5 DEF Abstract!Next

(* Status has value semantics: every construction, assignment and          *)
(* destruction is one of a value, whatever addresses the heap hands out.   *)
THEOREM StatusIsAValue == Spec => ImplementsValues
<1> QED
  BY InitOwned, StepOwned, InitShown, StepShown, PTL
     DEF Spec, ImplementsValues, Abstract!Spec
=============================================================================
