----------------------------- MODULE DNSMessage -----------------------------
(***************************************************************************)
(* The messages of CDNS (common/CDNS.cc): the name in a question, and the  *)
(* walk over the records of a reply.                                       *)
(*                                                                         *)
(* A name is a sequence of labels, a label a sequence of bytes.            *)
(***************************************************************************)
EXTENDS Integers, SequencesExt

HeaderSize   == 12   \* sizeof(DNSQuery)
QuestionSize == 4    \* sizeof(DNSQuestion)
AnswerSize   == 10   \* sizeof(DNSAnswer)

DNS_TYPE_A   == 1
DNS_CLASS_IN == 1

Dot == 46

-----------------------------------------------------------------------------
(* The question: host, as the user wrote it, is a sequence of bytes, 46    *)
(* between the labels.  The name is put together where it is sent from.    *)

\* The host behind the first byte of the name; the rest is 0, as is what comes
\* behind the name.
Copied(host) == [i \in 0..(Len(host) + 1) |-> IF i \in 1..Len(host) THEN host[i] ELSE 0]
Char(buffer, i) == IF i \in DOMAIN buffer THEN buffer[i] ELSE 0

\* Mutant: the last label, which a NUL ends, gets no length.
Scan_NoLast(s) ==
  IF Char(s.buffer, s.ptr) = 0 \/ Char(s.buffer, s.ptr + s.len) = 0 THEN s
  ELSE IF Char(s.buffer, s.ptr + s.len) = Dot
  THEN [buffer |-> [s.buffer EXCEPT ![s.ptr - 1] = s.len], ptr |-> s.ptr + s.len + 1, len |-> 0]
  ELSE [s EXCEPT !.len = (s.len + 1) % 256]

\* A step of the loop: at the end of a label its length, in 8 bits, is written
\* in front of it, over the dot there was.
Scan(s) ==
  IF Char(s.buffer, s.ptr) = 0 THEN s
  ELSE IF Char(s.buffer, s.ptr + s.len) \in {Dot, 0}
  THEN [buffer |-> [s.buffer EXCEPT ![s.ptr - 1] = s.len], ptr |-> s.ptr + s.len + 1, len |-> 0]
  ELSE [s EXCEPT !.len = (s.len + 1) % 256]

\* The bytes of the name in the question.  A step takes one of the host or its
\* end (on a label of more than 255 bytes the loop does not end).
Question(host) ==
  LET loop[n \in 0..(Len(host) + 1)] ==
        IF n = 0 THEN [buffer |-> Copied(host), ptr |-> 1, len |-> 0] ELSE Scan(loop[n - 1])
  IN  loop[Len(host) + 1].buffer

-----------------------------------------------------------------------------
(* ParseDNSName and the loops over questions and answers in DNSLookup.  A  *)
(* reply is a sequence of bytes, the first at offset 0; behind the last    *)
(* there is none: reading one is an error of the walk.                     *)

Byte(buffer, offset) == buffer[offset + 1]

\* Two bytes, which DNSLookup has swapped on a host that needs it.
Short(buffer, offset) == (Byte(buffer, offset) * 256) + Byte(buffer, offset + 1)

\* A step of the loop over a name: a label is passed, or a pointer is followed,
\* once, and to where the low six bits of its first byte say: the second, which
\* in a message of less than 256 bytes says it all, is not looked at.
ReadLabel(buffer, s) ==
  LET length == Byte(buffer, s.at)
  IN  IF length = 0 THEN s
      ELSE IF ~s.followed /\ length >= 192
      THEN [at |-> HeaderSize + (length % 64), followed |-> TRUE, len |-> s.len + 1]
      ELSE [at |-> s.at + length + 1, followed |-> s.followed,
            len |-> IF s.followed THEN s.len ELSE s.len + length + 1]

\* The bytes to skip for the name at offset; the name itself the callers throw
\* away.  Before and behind a pointer a label takes two bytes or more: the loop
\* makes no more steps than there are bytes.
ParseDNSName(buffer, offset) ==
  LET loop[n \in 0..Len(buffer)] ==
        IF n = 0 THEN [at |-> offset, followed |-> FALSE, len |-> 1]
        ELSE ReadLabel(buffer, loop[n - 1])
  IN  loop[Len(buffer)].len

\* Mutant: a record of another type is taken to be as long as an address.
RecordSize_Four(buffer, answer) == AnswerSize + 4

\* The bytes of a record behind its name.
RecordSize(buffer, answer) == AnswerSize + Short(buffer, answer + 8)

\* IPv4 internet addresses only.
HoldsAddress(buffer, answer) ==
  /\ Short(buffer, answer) = DNS_TYPE_A
  /\ Short(buffer, answer + 2) = DNS_CLASS_IN
  /\ Short(buffer, answer + 8) = 4

\* A step of the loop over the answers, the next of which is at r.at.
ReadAnswer(buffer, r) ==
  LET answer == r.at + ParseDNSName(buffer, r.at)
      data   == [i \in 1..4 |-> Byte(buffer, answer + AnswerSize + i - 1)]
  IN  [at  |-> answer + RecordSize(buffer, answer),
       got |-> IF HoldsAddress(buffer, answer) THEN Append(r.got, data) ELSE r.got]

\* The addresses in count answers from offset on.
Addresses(buffer, offset, count) ==
  LET loop[n \in 0..count] ==
        IF n = 0 THEN [at |-> offset, got |-> <<>>] ELSE ReadAnswer(buffer, loop[n - 1])
  IN  loop[count].got

\* What a reply with one question holds.
ReadReply(buffer, count) ==
  Addresses(buffer, HeaderSize + ParseDNSName(buffer, HeaderSize) + QuestionSize, count)

-----------------------------------------------------------------------------
(* The references (RFC 1035)                                               *)

\* A name on the wire, which ends in 0 or in a pointer.
Wire(labels, end) == FlattenSeq([i \in 1..Len(labels) |-> <<Len(labels[i])>> \o labels[i]]) \o end

End == <<0>>
PointerTo(offset) == <<192 + (offset \div 256), offset % 256>>

\* The same name as it is written.
Dotted(labels) ==
  FlattenSeq([i \in 1..Len(labels) |-> IF i = 1 THEN labels[i] ELSE <<Dot>> \o labels[i]])

\* A record: the name is given by its bytes, the data too.
Record(name, type, class, data) ==
  name \o (<<0, type, 0, class, 0, 0, 0, 0, Len(data) \div 256, Len(data) % 256>> \o data)

\* A reply with a question for labels.
Reply(labels, answers) ==
  ([i \in 1..HeaderSize |-> 0] \o Wire(labels, End))
    \o (<<0, DNS_TYPE_A, 0, DNS_CLASS_IN>> \o FlattenSeq(answers))
=============================================================================
