---------------------------- MODULE StatusValues ----------------------------
(***************************************************************************)
(* What a Status promises its users: it is a value.  A copy is equal to    *)
(* what was copied and independent of it; of an object that was moved from *)
(* nothing is promised but that it is still a Status.                      *)
(***************************************************************************)
CONSTANTS Objects,  \* the places where a Status may live
          Values,   \* what a Status may tell
          OK,       \* the value of success
          Dead      \* "no Status lives there"

ValuesParameters == OK \in Values /\ Dead \notin Values

VARIABLE value

Init == value = [o \in Objects |-> Dead]

Alive(o) == value[o] # Dead

Make(o) ==
  /\ ~Alive(o)
  /\ \E v \in Values : value' = [value EXCEPT ![o] = v]

Copy(o, p) ==
  /\ Alive(p)
  /\ value' = [value EXCEPT ![o] = value[p]]

Move(o, p) ==
  /\ Alive(p) /\ o # p
  /\ \E left \in Values : value' = [value EXCEPT ![o] = value[p], ![p] = left]

Destroy(o) ==
  /\ Alive(o)
  /\ value' = [value EXCEPT ![o] = Dead]

Next == \E o \in Objects : \/ Make(o) \/ Destroy(o)
                           \/ \E p \in Objects : Copy(o, p) \/ Move(o, p)

Spec == Init /\ [][Next]_value
=============================================================================
