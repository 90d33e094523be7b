---------------------------- MODULE SSLRecords -----------------------------
(***************************************************************************)
(* What CHTTP's Write and Read do with polarssl's record layer             *)
(* (libs/polarssl/library: ssl_tls.c, net.c): CHTTP with ssl_write and     *)
(* ssl_read taken apart into calls of write and read on the socket, which  *)
(* take or give a part, are interrupted, or fail.                          *)
(*                                                                         *)
(* A record is HeaderLen units, one for each piece of its content and one  *)
(* for the code that authenticates it.  In the units on their way to the   *)
(* peer a piece is its number, a header the negative length of the         *)
(* content, and the code 0.  The header of a record is taken whole: after  *)
(* a part of it ssl_flush_output would send bytes from before out_msg.     *)
(***************************************************************************)
EXTENDS CHTTP, Functions, SequencesExt

CONSTANTS
  HeaderLen,   \* units of the header of a record, 5
  MaxContent,  \* SSL_MAX_CONTENT_LEN, in pieces
  ReadSize     \* the size of Read's buffer, in pieces

ASSUME RecordAssumption == {HeaderLen, MaxContent, ReadSize} \subseteq Nat \ {0}

VARIABLES
  out_msg,   \* the record in the output buffer
  out_left,  \* how many units of it are not sent
  flushing,  \* ssl_write is in ssl_flush_output
  unread,    \* the units the peer got that are not a whole record yet
  conn,      \* "up"; "ended": the peer sends no more; "broken": every call fails
  posted,    \* how many pieces of the reply the peer has put into records
  record,    \* the record the peer sends, if it does
  in_left,   \* how many units of it have been read
  second,    \* ssl_read has read a record without content and reads another
  in_msg,    \* content read and not yet handed out
  body       \* the pieces of the reply in Read's stream

output   == <<out_msg, out_left, flushing, unread>>
incoming == <<posted, record, in_left, second, in_msg, body>>
session  == <<output, conn, incoming>>
recordVars == <<vars, session>>

NoRecord == [type |-> "none", content |-> <<>>]

Least(a, b) == IF a < b THEN a ELSE b

RecordInit ==
  /\ Init
  /\ out_msg = <<>> /\ out_left = 0 /\ flushing = FALSE /\ unread = <<>>
  /\ conn = "up"
  /\ posted = 0 /\ record = NoRecord /\ in_left = 0 /\ second = FALSE /\ in_msg = <<>> /\ body = <<>>

\* ssl_init, on a context that Connect has cleared.
SSLInit ==
  /\ ConnectOpens
  /\ out_msg' = <<>> /\ out_left' = 0 /\ flushing' = FALSE
  /\ conn' = "up"
  /\ record' = NoRecord /\ in_left' = 0 /\ second' = FALSE /\ in_msg' = <<>>
  /\ UNCHANGED <<unread, posted, body>>

StartRequest ==
  /\ RequestStart
  /\ unread' = <<>> /\ posted' = 0 /\ body' = <<>>
  /\ UNCHANGED <<out_msg, out_left, flushing, conn, record, in_left, second, in_msg>>

-----------------------------------------------------------------------------
(* Write                                                                   *)

Header(n) == [i \in 1..HeaderLen |-> -n]

\* The record for the next pieces of the request.
NextRecord == LET n == Least(ReqLen - offset, MaxContent)
              IN  Header(n) \o [i \in 1..n |-> offset + i] \o <<0>>

\* How long a record is as its header says, and what its content is.
RecordLen(units) == HeaderLen - units[1] + 1
Whole(units)     == HeaderLen <= Len(units) /\ RecordLen(units) <= Len(units)
Content(units)   == SubSeq(units, HeaderLen + 1, RecordLen(units) - 1)

\* The peer gets units; it takes a record from them when it has all of it.
PeerGets(units) ==
  IF Whole(units)
  THEN /\ wire' = wire \o Content(units)
       /\ unread' = SubSeq(units, RecordLen(units) + 1, Len(units))
  ELSE wire' = wire /\ unread' = units

\* Mutant: what an interrupted call left in the buffer is not sent first.
SSLWrite_Discards ==
  /\ hpc = "write" /\ ~flushing /\ offset < ReqLen
  /\ flushing' = TRUE
  /\ out_msg' = NextRecord
  /\ out_left' = Len(NextRecord)
  /\ UNCHANGED <<vars, unread, conn, incoming>>

\* Write calls ssl_write with the rest of the request.  If a call that was
\* interrupted has left something, that is sent and nothing is added: Write
\* repeats its arguments, so that it is what this call was to send.
SSLWrite ==
  /\ hpc = "write" /\ ~flushing /\ offset < ReqLen
  /\ flushing' = TRUE
  /\ IF out_left # 0
       THEN UNCHANGED <<out_msg, out_left>>
       ELSE out_msg' = NextRecord /\ out_left' = Len(NextRecord)
  /\ UNCHANGED <<vars, unread, conn, incoming>>

\* ssl_flush_output gives the header to f_send, then the rest; f_send takes n.
Takes(n) == IF out_left = Len(out_msg) THEN n = HeaderLen ELSE n \in 1..out_left

Taken(n) == LET done == Len(out_msg) - out_left IN SubSeq(out_msg, done + 1, done + n)

\* Mutant: ssl_write returns the number of pieces of the whole rest.
NetSend_AllWritten ==
  /\ hpc = "write" /\ flushing /\ conn # "broken"
  /\ \E n \in 1..out_left :
       /\ Takes(n)
       /\ PeerGets(unread \o Taken(n))
       /\ out_left' = out_left - n
  /\ flushing' = (out_left' # 0)
  /\ offset' = IF flushing' THEN offset ELSE ReqLen
  /\ UNCHANGED <<object, fdTable, hpc, returned, error, got, reply, out_msg, conn, incoming>>

\* net_send: the socket takes some.  With the last of it ssl_write returns the
\* number of pieces, which it computes from its arguments.
NetSend ==
  /\ hpc = "write" /\ flushing /\ conn # "broken"
  /\ \E n \in 1..out_left :
       /\ Takes(n)
       /\ PeerGets(unread \o Taken(n))
       /\ out_left' = out_left - n
  /\ flushing' = (out_left' # 0)
  /\ offset' = IF flushing' THEN offset ELSE offset + Least(ReqLen - offset, MaxContent)
  /\ UNCHANGED <<object, fdTable, hpc, returned, error, got, reply, out_msg, conn, incoming>>

\* EINTR: ssl_write returns POLARSSL_ERR_NET_WANT_WRITE, Write calls it again.
SendInterrupted ==
  /\ hpc = "write" /\ flushing
  /\ flushing' = FALSE
  /\ UNCHANGED <<vars, out_msg, out_left, unread, conn, incoming>>

SendFails ==
  /\ flushing
  /\ WriteFails
  /\ flushing' = FALSE
  /\ conn' = "broken"
  /\ UNCHANGED <<out_msg, out_left, unread, incoming>>

-----------------------------------------------------------------------------
(* Read                                                                    *)

Units(r) == HeaderLen + Len(r.content) + 1

\* The peer sends the next record: pieces of the reply, none of them (OpenSSL
\* does that to randomise the IV), or an alert, after which it sends no more.
PeerSends ==
  /\ hpc = "read" /\ conn = "up" /\ record = NoRecord /\ in_msg = <<>>
  /\ \/ \E n \in 0..Least(RespLen - posted, MaxContent) :
          /\ record' = [type |-> "data", content |-> [i \in 1..n |-> posted + i]]
          /\ posted' = posted + n
     \/ \E t \in {"close_notify", "fatal", "warning"} :
          record' = [type |-> t, content |-> <<>>] /\ posted' = posted
  /\ conn' = IF record'.type = "data" THEN conn ELSE "ended"
  /\ UNCHANGED <<vars, output, in_left, second, in_msg, body>>

\* What ssl_fetch_input is asked for: the header, then all of the record.
Wanted == IF in_left < HeaderLen THEN HeaderLen ELSE Units(record)

Fetching == hpc = "read" /\ in_msg = <<>>

NetRecv ==
  /\ Fetching /\ record # NoRecord /\ conn # "broken"
  /\ \E n \in 1..(Wanted - in_left) : in_left' = in_left + n
  /\ UNCHANGED <<vars, output, conn, posted, record, second, in_msg, body>>

\* Mutant: what was read of the record is forgotten.
RecvInterrupted_Forgets ==
  /\ Fetching /\ in_left # Units(record)
  /\ second' = FALSE
  /\ record' = NoRecord /\ in_left' = 0
  /\ UNCHANGED <<vars, output, conn, posted, in_msg, body>>

\* EINTR: ssl_read returns POLARSSL_ERR_NET_WANT_READ, Read calls it again.
RecvInterrupted ==
  /\ Fetching /\ in_left # Units(record)
  /\ second' = FALSE
  /\ UNCHANGED <<vars, output, conn, posted, record, in_left, in_msg, body>>

RecvFails ==
  /\ Fetching /\ in_left # Units(record)
  /\ ReadFails
  /\ conn' = "broken" /\ second' = FALSE
  /\ UNCHANGED <<output, posted, record, in_left, in_msg, body>>

\* The connection ends, between two records or inside one: ssl_read returns 0
\* for POLARSSL_ERR_SSL_CONN_EOF.
RecvEnds ==
  /\ Fetching /\ in_left # Units(record)
  /\ ReadClosed
  /\ UNCHANGED session

Complete(type) == Fetching /\ in_left = Units(record) /\ record.type = type

\* ssl_read_record has it all.
DataRead ==
  /\ Complete("data") /\ ~(second /\ record.content = <<>>)
  /\ in_msg' = record.content
  /\ second' = (record.content = <<>>)
  /\ record' = NoRecord /\ in_left' = 0
  /\ UNCHANGED <<vars, output, conn, posted, body>>

\* After a second record without content ssl_read returns 0, as for the end.
EmptyTwice ==
  /\ Complete("data") /\ second /\ record.content = <<>>
  /\ ReadClosed
  /\ UNCHANGED session

CloseNotify ==
  /\ Complete("close_notify")
  /\ ReadClosed
  /\ UNCHANGED session

\* in_left is not reset: ssl_read would find the fatal alert again.
FatalAlert ==
  /\ Complete("fatal")
  /\ ReadFails
  /\ second' = FALSE
  /\ UNCHANGED <<output, conn, posted, record, in_left, in_msg, body>>

\* ssl_read_record lets a warning pass; ssl_read takes it for unexpected.
Warning ==
  /\ Complete("warning")
  /\ ReadFails
  /\ record' = NoRecord /\ in_left' = 0 /\ second' = FALSE
  /\ UNCHANGED <<output, conn, posted, in_msg, body>>

\* ssl_read fills Read's buffer, or empties its own.
HandOut ==
  /\ hpc = "read" /\ in_msg # <<>>
  /\ LET n == Least(ReadSize, Len(in_msg)) IN
       /\ body' = body \o SubSeq(in_msg, 1, n)
       /\ got' = got + n
       /\ in_msg' = SubSeq(in_msg, n + 1, Len(in_msg))
  /\ UNCHANGED <<object, fdTable, hpc, returned, error, offset, wire, reply, output, conn, posted,
                 record, in_left, second>>

-----------------------------------------------------------------------------
\* The steps of CHTTP that the record layer has no part in.
Elsewhere ==
  /\ \/ ConnectRefused \/ ConnectPlain \/ ConnectFails
     \/ HandshakeFails \/ HandshakeDone \/ CertificateRejected \/ ConnectSucceeds
     \/ Disconnect \/ RequestNotConnected \/ WriteDone \/ Parse \/ Other
  /\ UNCHANGED session

WriteSteps == SSLWrite \/ NetSend \/ SendInterrupted \/ SendFails

ReadSteps ==
  \/ PeerSends \/ NetRecv \/ RecvInterrupted \/ RecvFails \/ RecvEnds
  \/ DataRead \/ EmptyTwice \/ CloseNotify \/ FatalAlert \/ Warning \/ HandOut

RecordNext == SSLInit \/ StartRequest \/ WriteSteps \/ ReadSteps \/ Elsewhere

RecordSpec == RecordInit /\ [][RecordNext]_recordVars

-----------------------------------------------------------------------------
\* However the socket cuts what is given to it and wherever a call of it is
\* interrupted, ssl_write and ssl_read are for CHTTP calls that take and give
\* some of the pieces, or fail: the pieces of an ssl_write reach the peer with
\* its return and not before, a retry neither loses nor repeats one.
ImplementsCHTTP == Spec

\* Read's stream is the beginning of the reply, however records, interruptions
\* and the size of its buffer cut it: ssl_read loses and repeats nothing.
ReadInOrder == body = [i \in 1..got |-> i]
=============================================================================
