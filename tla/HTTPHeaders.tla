---------------------------- MODULE HTTPHeaders -----------------------------
(***************************************************************************)
(* The headers of a request and of a reply (common/CHTTP.cc).  The object  *)
(* keeps those it sends in a map by name in small letters, from one        *)
(* request to the next; PerformRequest takes those of a reply apart.  A    *)
(* line of a reply is a name, a value and whether it has the form of a     *)
(* header; one that has not has a space in its name.  A name is a sequence *)
(* of letters.                                                             *)
(***************************************************************************)
EXTENDS Integers, SequencesExt

CONSTANT Decimal(_)  \* IntToStr, as one letter

Line(name, value, wellFormed) == [name |-> name, value |-> value, wellFormed |-> wellFormed]

Lower(letter) == IF letter = "A" THEN "a" ELSE letter
StrToLower(name) == [i \in DOMAIN name |-> Lower(name[i])]

\* headers[key] = value
Put(headers, key, value) ==
  [k \in DOMAIN headers \cup {key} |-> IF k = key THEN value ELSE headers[k]]

\* Mutant: map.insert, which keeps a value that is there.
SetHeader_Inserts(headers, name, value) ==
  IF StrToLower(name) \in DOMAIN headers THEN headers ELSE Put(headers, StrToLower(name), value)

SetHeader(headers, name, value) == Put(headers, StrToLower(name), value)

DelHeader(headers, name) == RestrictDomain(headers, LAMBDA key : key # StrToLower(name))
ClearHeaders == <<>>

\* The first letter of a name is written large, and those behind a dash.
Upper(letter) == IF letter = "a" THEN "A" ELSE letter
Written(name) ==
  [i \in DOMAIN name |-> IF i = 1 \/ name[i - 1] = "-" THEN Upper(name[i]) ELSE name[i]]

\* The lines AppendHeaders writes (in the order of the map).
AppendHeaders(headers) == {[name |-> Written(n), value |-> headers[n]] : n \in DOMAIN headers}

\* Mutant: one index is tried.
Unused_First(name, headers) == Append(name, Decimal(1))

\* The name with the first index that gives one not in use.
Unused(name, headers) ==
  LET index == CHOOSE i \in 1..(Cardinality(DOMAIN headers) + 1) :
                 /\ Append(name, Decimal(i)) \notin DOMAIN headers
                 /\ \A k \in 1..(i - 1) : Append(name, Decimal(k)) \in DOMAIN headers
  IN  Append(name, Decimal(index))

Insert(headers, line) ==
  LET name == StrToLower(line.name)
      key  == IF name \in DOMAIN headers THEN Unused(name, headers) ELSE name
  IN  Put(headers, key, line.value)

\* The lines FindAndConsume finds one after the other: the expression is
\* anchored, so that it stops at the first that is not a header, and asks for
\* the end of the line, which the last has lost to the empty line behind it.
Consumed(lines) ==
  LET bad == {i \in 1..Len(lines) : ~lines[i].wellFormed}
  IN  SubSeq(lines, 1, Min(bad \cup {Len(lines)}) - 1)

Headers(lines) ==
  LET consumed == Consumed(lines)
      after[n \in 0..Len(consumed)] ==
        IF n = 0 THEN ClearHeaders ELSE Insert(after[n - 1], consumed[n])
  IN  after[Len(consumed)]
=============================================================================
