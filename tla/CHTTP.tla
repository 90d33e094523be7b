------------------------------- MODULE CHTTP --------------------------------
(***************************************************************************)
(* CHTTP (common/CHTTP.cc): one HTTPS connection and the request sent on   *)
(* it.  The object owns a socket number in the descriptor table of the     *)
(* process, which the rest of the program (key file, pipes of RunCommand,  *)
(* resolver sockets) opens and closes descriptors in as well.              *)
(*                                                                         *)
(* A call is split where it meets the network: net_connect, ssl_handshake, *)
(* each ssl_write and each ssl_read are steps.  hpc says where the call in *)
(* progress is; it is "idle" outside Connect and PerformRequest.           *)
(***************************************************************************)
EXTENDS Integers, Sequences, FiniteSets

CONSTANTS
  ReqLen,   \* pieces of the request: method line, headers and body
  HeadLen,  \* pieces of a reply up to and including its blank line
  RespLen,  \* pieces of a whole reply, head and body
  MaxFD,    \* the descriptor limit of the process: numbers 0..MaxFD
  Codes,    \* the codes the peer may answer with
  Garbage,  \* a reply that is not HTTP
  NoReply   \* there is no reply yet

ASSUME HTTPAssumption ==
  /\ ReqLen \in Nat \ {0}
  /\ HeadLen \in Nat \ {0}
  /\ RespLen \in Nat /\ HeadLen <= RespLen
  /\ MaxFD \in Nat
  /\ Codes \subseteq Nat \ {0}
  /\ Garbage \notin Codes /\ NoReply \notin Codes /\ Garbage # NoReply

VARIABLES
  m_connected, m_ssl, m_sslFD,  \* members of the object
  open,      \* the descriptors the kernel has open for the process
  others,    \* those the rest of the program opened and still uses
  leaks,     \* history: sockets given up without being closed
  hpc,       \* "idle" or the stage of the call in progress
  returned,  \* the last call and what it returned
  error,     \* the out parameter of PerformRequest
  offset,    \* bytes Write has handed to ssl_write
  wire,      \* the pieces of this request in the order the peer got them
  got,       \* pieces of the reply Read has buffered
  reply      \* the reply of the peer, chosen once it has the whole request

object   == <<m_connected, m_ssl, m_sslFD>>
fdTable  == <<open, others, leaks>>
exchange == <<error, offset, wire, got, reply>>
vars     == <<object, fdTable, hpc, returned, exchange>>

FDs  == 0..MaxFD
NoFD == -1

\* The kernel hands out the lowest number that is free.
Lowest(fd) == fd \notin open /\ \A f \in FDs \ open : fd <= f

\* The object is responsible for a socket.
Holding == m_connected \/ hpc \in {"handshake", "verify"}

Results == [call : {"CHTTP", "Connect", "Disconnect", "PerformRequest"}, ok : BOOLEAN]

Returns(call, ok) == returned' = [call |-> call, ok |-> ok]

-----------------------------------------------------------------------------
\* m_ssl and m_sslFD are not initialised by the constructor.
Init ==
  /\ m_connected = FALSE
  /\ m_ssl \in BOOLEAN
  /\ m_sslFD \in FDs \cup {NoFD}
  /\ open = {} /\ others = {} /\ leaks = 0
  /\ hpc = "idle"
  /\ returned = [call |-> "CHTTP", ok |-> TRUE]
  /\ error = 0 /\ offset = 0 /\ wire = <<>> /\ got = 0
  /\ reply = NoReply

-----------------------------------------------------------------------------
(* Connect                                                                 *)

ConnectRefused ==
  /\ hpc = "idle"
  /\ m_connected
  /\ Returns("Connect", FALSE)
  /\ UNCHANGED <<object, fdTable, hpc, exchange>>

\* ssl = false is not implemented.
ConnectPlain ==
  /\ hpc = "idle"
  /\ ~m_connected
  /\ m_ssl' = FALSE
  /\ Returns("Connect", FALSE)
  /\ UNCHANGED <<m_connected, m_sslFD, fdTable, hpc, exchange>>

\* net_connect fails: the name does not resolve, there is no descriptor left,
\* or connect() is refused and net_connect closes the socket again.
ConnectFails ==
  /\ hpc = "idle"
  /\ ~m_connected
  /\ m_ssl' = TRUE
  /\ \/ m_sslFD' = m_sslFD
     \/ FDs \subseteq open /\ m_sslFD' = NoFD
     \/ \E fd \in FDs : Lowest(fd) /\ m_sslFD' = fd
  /\ Returns("Connect", FALSE)
  /\ UNCHANGED <<m_connected, fdTable, hpc, exchange>>

\* Mutant: Connect does not test whether the object is connected.
ConnectOpens_Reconnects ==
  /\ hpc = "idle"
  /\ m_ssl' = TRUE
  /\ \E fd \in FDs :
       /\ Lowest(fd)
       /\ m_sslFD' = fd
       /\ open' = open \cup {fd}
  /\ hpc' = "handshake"
  /\ UNCHANGED <<m_connected, others, leaks, returned, exchange>>

\* net_connect succeeds.
ConnectOpens ==
  /\ hpc = "idle"
  /\ ~m_connected
  /\ m_ssl' = TRUE
  /\ \E fd \in FDs :
       /\ Lowest(fd)
       /\ m_sslFD' = fd
       /\ open' = open \cup {fd}
  /\ hpc' = "handshake"
  /\ UNCHANGED <<m_connected, others, leaks, returned, exchange>>

\* The socket stays open and nobody will close it.
HandshakeFails ==
  /\ hpc = "handshake"
  /\ hpc' = "idle"
  /\ leaks' = leaks + 1
  /\ Returns("Connect", FALSE)
  /\ UNCHANGED <<object, open, others, exchange>>

HandshakeDone ==
  /\ hpc = "handshake"
  /\ hpc' = "verify"
  /\ UNCHANGED <<object, fdTable, returned, exchange>>

\* ssl_get_verify_result: as for HandshakeFails the socket stays open.
CertificateRejected ==
  /\ hpc = "verify"
  /\ hpc' = "idle"
  /\ leaks' = leaks + 1
  /\ Returns("Connect", FALSE)
  /\ UNCHANGED <<object, open, others, exchange>>

ConnectSucceeds ==
  /\ hpc = "verify"
  /\ hpc' = "idle"
  /\ m_connected' = TRUE
  /\ Returns("Connect", TRUE)
  /\ UNCHANGED <<m_ssl, m_sslFD, fdTable, exchange>>

-----------------------------------------------------------------------------
(* Disconnect                                                              *)

\* Mutant: the test of m_connected is missing, the last number is closed again.
Disconnected_Unguarded ==
  /\ m_connected' = FALSE
  /\ open' = IF m_ssl THEN open \ {m_sslFD} ELSE open

\* Mutant: net_close is missing.
Disconnected_NoClose ==
  /\ m_connected' = FALSE
  /\ open' = open

\* What a call of Disconnect does to the object and its socket.
Disconnected ==
  /\ m_connected' = FALSE
  /\ open' = IF m_connected /\ m_ssl THEN open \ {m_sslFD} ELSE open

\* Called by the owner, or by the destructor.
Disconnect ==
  /\ hpc = "idle"
  /\ Disconnected
  /\ Returns("Disconnect", TRUE)
  /\ UNCHANGED <<m_ssl, m_sslFD, others, leaks, hpc, exchange>>

-----------------------------------------------------------------------------
(* PerformRequest                                                          *)

RequestStart ==
  /\ hpc = "idle"
  /\ m_connected
  /\ hpc' = "write"
  /\ error' = 0 /\ offset' = 0 /\ wire' = <<>> /\ got' = 0
  /\ reply' = NoReply
  /\ UNCHANGED <<object, fdTable, returned>>

\* Write finds the object not connected.
RequestNotConnected ==
  /\ hpc = "idle"
  /\ ~m_connected
  /\ error' = 0
  /\ Returns("PerformRequest", FALSE)
  /\ UNCHANGED <<object, fdTable, hpc, offset, wire, got, reply>>

\* ssl_write takes the first n of the pieces it is given.
WriteSome ==
  /\ hpc = "write"
  /\ \E n \in 1..(ReqLen - offset) :
       /\ offset' = offset + n
       /\ wire' = wire \o [i \in 1..n |-> offset + i]
  /\ UNCHANGED <<object, fdTable, hpc, returned, error, got, reply>>

\* ssl_write fails; the object stays connected.
WriteFails ==
  /\ hpc = "write"
  /\ offset < ReqLen
  /\ hpc' = "idle"
  /\ Returns("PerformRequest", FALSE)
  /\ UNCHANGED <<object, fdTable, exchange>>

\* The request is out: the peer, which has all of it, makes up its answer.
WriteDone ==
  /\ hpc = "write"
  /\ offset = ReqLen
  /\ hpc' = "read"
  /\ reply' \in Codes \cup {Garbage}
  /\ UNCHANGED <<object, fdTable, returned, error, offset, wire, got>>

ReadSome ==
  /\ hpc = "read"
  /\ \E n \in 1..(RespLen - got) : got' = got + n
  /\ UNCHANGED <<object, fdTable, hpc, returned, error, offset, wire, reply>>

\* ssl_read says that the peer closed, with a close_notify or without; Read
\* disconnects and returns true, whatever has arrived so far.
ReadClosed ==
  /\ hpc = "read"
  /\ Disconnected
  /\ hpc' = "parse"
  /\ UNCHANGED <<m_ssl, m_sslFD, others, leaks, returned, exchange>>

\* ssl_read fails; the object stays connected.
ReadFails ==
  /\ hpc = "read"
  /\ hpc' = "idle"
  /\ Returns("PerformRequest", FALSE)
  /\ UNCHANGED <<object, fdTable, exchange>>

\* Mutant: any reply with a first line will do.
Parsable_FirstLine == reply \in Codes /\ got >= 1

\* The regular expression needs a status line, headers and the blank line; the
\* body is whatever follows.
Parsable == reply \in Codes /\ got >= HeadLen

Parse ==
  /\ hpc = "parse"
  /\ hpc' = "idle"
  /\ error' = IF Parsable THEN reply ELSE error
  /\ Returns("PerformRequest", Parsable)
  /\ UNCHANGED <<object, fdTable, offset, wire, got, reply>>

-----------------------------------------------------------------------------
(* The rest of the program, which runs between the calls.                  *)

OtherOpens ==
  /\ hpc = "idle"
  /\ \E fd \in FDs :
       /\ Lowest(fd)
       /\ open' = open \cup {fd}
       /\ others' = others \cup {fd}
  /\ UNCHANGED <<object, leaks, hpc, returned, exchange>>

OtherCloses ==
  /\ hpc = "idle"
  /\ \E fd \in others :
       /\ open' = open \ {fd}
       /\ others' = others \ {fd}
  /\ UNCHANGED <<object, leaks, hpc, returned, exchange>>

-----------------------------------------------------------------------------
Connect ==
  \/ ConnectRefused \/ ConnectPlain \/ ConnectFails \/ ConnectOpens
  \/ HandshakeFails \/ HandshakeDone
  \/ CertificateRejected \/ ConnectSucceeds

PerformRequest ==
  \/ RequestStart \/ RequestNotConnected
  \/ WriteSome \/ WriteFails \/ WriteDone
  \/ ReadSome \/ ReadClosed \/ ReadFails \/ Parse

Other == OtherOpens \/ OtherCloses

Next == Connect \/ Disconnect \/ PerformRequest \/ Other

Spec == Init /\ [][Next]_vars

-----------------------------------------------------------------------------
TypeOK ==
  /\ m_connected \in BOOLEAN
  /\ m_ssl \in BOOLEAN
  /\ m_sslFD \in FDs \cup {NoFD}
  /\ open \subseteq FDs
  /\ others \subseteq FDs
  /\ leaks \in Nat
  /\ hpc \in {"idle", "handshake", "verify", "write", "read", "parse"}
  /\ returned \in Results
  /\ error \in Codes \cup {0}
  /\ offset \in 0..ReqLen
  /\ wire \in Seq(1..ReqLen)
  /\ got \in 0..RespLen
  /\ reply \in Codes \cup {Garbage, NoReply}

\* m_sslFD survives Disconnect and failed calls as a bare number the kernel
\* hands out again.  Nothing CHTTP does closes a descriptor of the rest of the
\* program, and the socket it works on is its own and open.
DescriptorsKept ==
  /\ others \subseteq open
  /\ Holding => m_ssl /\ m_sslFD \in open \ others

\* The sockets of the process are the one in use and those that HandshakeFails
\* and CertificateRejected gave up: no other path of any call loses one.
SocketsAccounted ==
  Cardinality(open \ others) = leaks + (IF Holding THEN 1 ELSE 0)

\* However ssl_write cuts the request, the peer gets its pieces in order, each
\* once (Write's offset and length).
WireInOrder ==
  /\ Len(wire) = offset
  /\ \A i \in 1..Len(wire) : wire[i] = i

\* "True if valid HTTP communication was established with the server"
\* (CHTTP.h): the peer had the whole request, it answered in HTTP up to the
\* blank line, error is its code, and the connection is closed, so that the
\* next Connect is not refused.
TrueMeansAnswered ==
  returned = [call |-> "PerformRequest", ok |-> TRUE] /\ hpc = "idle" =>
    /\ wire = [i \in 1..ReqLen |-> i]
    /\ got >= HeadLen
    /\ error = reply /\ error \in Codes
    /\ ~m_connected

\* "output will be the body of the reply" (CHTTP.h): a request that returned
\* true handed out the whole reply.  Not if the connection ended before.
BodyIsWholeReply ==
  hpc = "idle" /\ returned = [call |-> "PerformRequest", ok |-> TRUE] => got = RespLen
=============================================================================
