------------------------------ MODULE Framing ------------------------------
(***************************************************************************)
(* The message CMessageBuilder::Send puts together (CMessageBuilder.cc)    *)
(* and the strings DISKCHECK packs into its segment (armt.cc), in bytes of *)
(* any base.  A host is big-endian or not; its numbers are written as they *)
(* are in its memory.                                                      *)
(***************************************************************************)
EXTENDS Integers, SequencesExt

CONSTANT Base  \* of a byte, 256

\* A number of w bytes, at most four, in the memory of a host: what does not fit
\* is cut off.
Shifted(n) == n \div Base
LE(n, w) ==
  LET shifted == <<n, Shifted(n), Shifted(Shifted(n)), Shifted(Shifted(Shifted(n)))>>
  IN  [i \in 1..w |-> shifted[i] % Base]
HostBytes(n, w, be) == IF be THEN Reverse(LE(n, w)) ELSE LE(n, w)

\* swab of two bytes.
Swab(bytes) == <<bytes[2], bytes[1]>>

\* Mutant: the length is not swapped on a big-endian host.
PackString_HostOrder(value, be) == HostBytes(Len(value), 2, be) \o value

\* The string and, before it, its length in two bytes, the low one first.
PackString(value, be) ==
  LET len == HostBytes(Len(value), 2, be)
  IN  (IF be THEN Swab(len) ELSE len) \o value

\* What DISKCHECK writes: the strings of the faulting devices, one after another.
Packed(strings, be) == FlattenSeq([i \in DOMAIN strings |-> PackString(strings[i], be)])

\* A segment: its function is NULL, has nothing to send, or has written strings.
Sends(s) == s.function # "nothing"
Data(s, be) == IF s.function = "NULL" THEN <<>> ELSE Packed(s.strings, be)

\* The lengths of the name and of the data, both as in memory, then the two.
Segment(s, be) ==
  LET data == Data(s, be)
  IN  HostBytes(Len(s.name), 1, be) \o HostBytes(Len(data), 4, be) \o s.name \o data

\* m_segments is a map: the segments come in the order of their names.
Message(segments, be) ==
  FlattenSeq([i \in DOMAIN segments |->
                IF Sends(segments[i]) THEN Segment(segments[i], be) ELSE <<>>])

-----------------------------------------------------------------------------
(* A reader of the format, to compare with.  It is at a byte and has read  *)
(* so much; a step reads what begins there.                                *)

Reader == [at |-> 1, got |-> <<>>]

\* Up to four bytes as a number.
Number(bytes, be) ==
  LET low == IF be THEN Reverse(bytes) ELSE bytes
      byte(i) == IF i \in DOMAIN low THEN low[i] ELSE 0
  IN  byte(1) + Base * (byte(2) + Base * (byte(3) + Base * byte(4)))

\* As much of it as there is.
Field(bytes, from, len) ==
  LET to == from + len - 1
  IN  SubSeq(bytes, from, IF to > Len(bytes) THEN Len(bytes) ELSE to)

\* The length of a string has its low byte first.
ReadString(bytes, r) ==
  LET len == Number(Field(bytes, r.at, 2), FALSE)
  IN  IF r.at > Len(bytes) THEN r
      ELSE [at |-> r.at + 2 + len, got |-> Append(r.got, Field(bytes, r.at + 2, len))]

\* The strings that are all of the bytes.
Strings(bytes) ==
  LET read[n \in 0..Len(bytes)] == IF n = 0 THEN Reader ELSE ReadString(bytes, read[n - 1])
  IN  read[Len(bytes)].got

\* The lengths in front of a segment have the order of the host.
ReadSegment(bytes, r, be) ==
  LET nameLen == Number(Field(bytes, r.at, 1), be)
      dataLen == Number(Field(bytes, r.at + 1, 4), be)
      data    == r.at + 5 + nameLen
  IN  IF r.at > Len(bytes) THEN r
      ELSE [at  |-> data + dataLen,
            got |-> Append(r.got, [name    |-> Field(bytes, r.at + 5, nameLen),
                                   strings |-> Strings(Field(bytes, data, dataLen))])]

\* The segments of a message from a host of which one knows the order of bytes.
Parsed(bytes, be) ==
  LET read[n \in 0..Len(bytes)] == IF n = 0 THEN Reader ELSE ReadSegment(bytes, read[n - 1], be)
  IN  read[Len(bytes)].got
=============================================================================
