------------------------------ MODULE Section ------------------------------
(***************************************************************************)
(* ParseSectionFile and Section::Get of example-str-utils.  A line is what *)
(* the parser takes it for: a section header with its name, which may be   *)
(* empty; a key with its value; or anything else, which it skips (blanks,  *)
(* comments, lines without "=" or with nothing on one side of it).         *)
(*                                                                         *)
(* Texts of numbers are numbers.  LONG and INT are the numbers of values   *)
(* of a long and of an int32_t, 2^64 and 2^32.                             *)
(***************************************************************************)
EXTENDS Integers, Sequences, SequencesExt

CONSTANTS LONG, INT

ASSUME NumbersAssumption == INT \in Nat /\ LONG \in Nat /\ 2 * INT <= LONG

NoName == ""
Header(name) == [kind |-> "section", name |-> name]
Pair(key, value) == [kind |-> "pair", key |-> key, value |-> value]
Other == [kind |-> "other"]

Line == [kind : {"section"}, name : STRING]
        \cup [kind : {"pair"}, key : STRING, value : STRING] \cup {Other}

\* std::unordered_map: the map with x for k; emplace keeps what is there.
With(map, k, x) == [j \in DOMAIN map \cup {k} |-> IF j = k THEN x ELSE map[j]]

Emplaced_Overwrites(sections, curr) == With(sections, curr.name, curr.data)
Emplaced(sections, curr) ==
  IF curr.name \in DOMAIN sections THEN sections
  ELSE With(sections, curr.name, curr.data)

\* The section read so far goes to the others, unless there is none.
Finished(st) ==
  IF st.curr.name = NoName THEN st.sections ELSE Emplaced(st.sections, st.curr)

\* One turn of the loop; Section::Set asserts that the section has a name.
ReadLine(st, line) ==
  IF st.aborted \/ line.kind = "other" THEN st
  ELSE IF line.kind = "section"
  THEN [st EXCEPT !.sections = Finished(st),
                  !.curr = [name |-> line.name, data |-> <<>>]]
  ELSE IF st.curr.name = NoName THEN [st EXCEPT !.aborted = TRUE]
  ELSE [st EXCEPT !.curr.data = With(@, line.key, line.value)]

ParseSectionFile(lines) ==
  LET start == [sections |-> <<>>, aborted |-> FALSE,
                curr |-> [name |-> NoName, data |-> <<>>]]
      read[n \in 0 .. Len(lines)] ==
        IF n = 0 THEN start ELSE ReadLine(read[n - 1], lines[n])
      end   == read[Len(lines)]
  IN  [aborted |-> end.aborted, sections |-> Finished(end)]

-----------------------------------------------------------------------------
(* What it is for: sections by their names, the first of a name counts, and  *)
(* in it the last value of a key.                                            *)

IsHeader(lines, i) == lines[i].kind = "section"

\* The header that line i belongs to, or 0
HeaderOf(lines, i) ==
  LET above == {j \in 1 .. i : IsHeader(lines, j)} IN Max(above \cup {0})

Orphans(lines) ==
  {i \in DOMAIN lines : /\ lines[i].kind = "pair"
                        /\ LET h == HeaderOf(lines, i)
                           IN  h = 0 \/ lines[h].name = NoName}

FirstHeaders(lines) ==
  {i \in DOMAIN lines :
     /\ IsHeader(lines, i) /\ lines[i].name # NoName
     /\ \A j \in 1 .. i - 1 : IsHeader(lines, j) => lines[j].name # lines[i].name}

PairsOf(lines, h) ==
  {i \in DOMAIN lines : lines[i].kind = "pair" /\ HeaderOf(lines, i) = h}

AsWritten(lines, sections) ==
  /\ DOMAIN sections = {lines[h].name : h \in FirstHeaders(lines)}
  /\ \A h \in FirstHeaders(lines) :
       LET data == sections[lines[h].name]
       IN  /\ DOMAIN data = {lines[i].key : i \in PairsOf(lines, h)}
           /\ \A i \in PairsOf(lines, h) :
                \/ data[lines[i].key] = lines[i].value
                \/ \E j \in PairsOf(lines, h) : j > i /\ lines[j].key = lines[i].key

-----------------------------------------------------------------------------
(* Section::Get of the integer types for the text of number n *)

Signed(size)   == -(size \div 2) .. (size \div 2) - 1
Unsigned(size) == 0 .. size - 1

RangeOf(type) ==
  CASE type = "int32_t"  -> Signed(INT)
    [] type = "int64_t"  -> Signed(LONG)
    [] type = "uint32_t" -> Unsigned(INT)
    [] type = "uint64_t" -> Unsigned(LONG)

AsLong_OfInt(n) == n % INT

\* stoul takes a minus sign, and its result is put into a long.
AsLong(n) == LET u == n % LONG IN IF u \in Signed(LONG) THEN u ELSE u - LONG

\* The comparisons with the limits of uint64_t are unsigned and never true.
Get(type, n, def) ==
  IF type \in {"int32_t", "int64_t"}
  THEN IF n \in Signed(LONG) \cap RangeOf(type) THEN n ELSE def
  ELSE IF n \notin -(LONG - 1) .. LONG - 1 THEN def
  ELSE IF type = "uint64_t" THEN n % LONG
  ELSE IF AsLong(n) \in RangeOf(type) THEN AsLong(n) ELSE def
=============================================================================
