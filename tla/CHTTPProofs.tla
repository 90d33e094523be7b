---------------------------- MODULE CHTTPProofs -----------------------------
(***************************************************************************)
(* Proofs about CHTTP, for every length of request and reply, every        *)
(* descriptor limit and every set of codes.                                *)
(***************************************************************************)
EXTENDS SSLRecords, SequenceTheorems, FiniteSetTheorems, TLAPS

\* What each stage of a call knows: the object is connected while a request is
\* on its way and not before the handshake is through or after the end of the
\* reply; from the end of Write on the peer has the request and a reply.
Stage ==
  /\ hpc \in {"write", "read"} => m_connected
  /\ hpc \in {"handshake", "verify", "parse"} => ~m_connected
  /\ hpc \in {"read", "parse"} => offset = ReqLen /\ reply \in Codes \cup {Garbage}

-----------------------------------------------------------------------------
(* Types                                                                   *)

\* The type of the record Returns makes.
LEMMA ReturnsType ==
  ASSUME NEW call \in {"CHTTP", "Connect", "Disconnect", "PerformRequest"},
         NEW ok \in BOOLEAN, Returns(call, ok)
  PROVE  returned' \in Results
  BY Zenon DEF Returns, Results

\* WriteSome puts the next pieces of the request at the end of the wire.
LEMMA WireGrows ==
  ASSUME NEW w \in Seq(1..ReqLen), NEW k \in 0..ReqLen, NEW n \in 1..(ReqLen - k),
         ReqLen \in Nat
  PROVE  /\ w \o [i \in 1..n |-> k + i] \in Seq(1..ReqLen)
         /\ Len(w \o [i \in 1..n |-> k + i]) = Len(w) + n
         /\ \A j \in 1..(Len(w) + n) :
              (w \o [i \in 1..n |-> k + i])[j] =
                IF j <= Len(w) THEN w[j] ELSE k + (j - Len(w))
<1> DEFINE s == [i \in 1..n |-> k + i]
<1>1. s \in Seq(1..ReqLen) /\ Len(s) = n
  BY SMT
<1>2. \A i \in 1..n : s[i] = k + i
  OBVIOUS
<1>3. Len(w) \in Nat
  OBVIOUS
<1> HIDE DEF s
<1>4. /\ w \o s \in Seq(1..ReqLen)
      /\ Len(w \o s) = Len(w) + Len(s)
      /\ \A j \in 1..(Len(w) + Len(s)) :
           (w \o s)[j] = IF j <= Len(w) THEN w[j] ELSE s[j - Len(w)]
  BY <1>1, ConcatProperties
<1>5. ASSUME NEW j \in 1..(Len(w) + n)
      PROVE  (w \o s)[j] = IF j <= Len(w) THEN w[j] ELSE k + (j - Len(w))
  BY <1>1, <1>2, <1>3, <1>4
<1> QED BY <1>1, <1>4, <1>5 DEF s

\* What a step of PerformRequest can do to the object and its socket: nothing,
\* or Disconnect.
LEMMA PerformRequestObject ==
  PerformRequest =>
    /\ UNCHANGED <<m_ssl, m_sslFD, others, leaks>>
    /\ UNCHANGED <<m_connected, open>> \/ Disconnected
<1> USE DEF object, fdTable
<1>1. CASE RequestStart \/ RequestNotConnected
  BY <1>1 DEF RequestStart, RequestNotConnected
<1>2. CASE WriteSome \/ WriteFails \/ WriteDone
  BY <1>2 DEF WriteSome, WriteFails, WriteDone
<1>3. CASE ReadSome \/ ReadFails \/ Parse
  BY <1>3 DEF ReadSome, ReadFails, Parse
<1>4. CASE ReadClosed
  BY <1>4 DEF ReadClosed
<1> QED BY <1>1, <1>2, <1>3, <1>4 DEF PerformRequest

\* Every step keeps the types of the object and the descriptor table.
LEMMA TypeObject ==
  ASSUME TypeOK, [Next]_vars
  PROVE  /\ m_sslFD' \in FDs \cup {NoFD}
         /\ open' \subseteq FDs
         /\ others' \subseteq FDs
         /\ leaks' \in Nat
<1> USE DEF object, fdTable
<1>0. /\ m_sslFD \in FDs \cup {NoFD}
      /\ open \subseteq FDs
      /\ others \subseteq FDs
      /\ leaks \in Nat
  BY DEF TypeOK
<1>1. CASE Connect
  <2>1. CASE ConnectRefused \/ ConnectPlain \/ HandshakeDone \/ ConnectSucceeds
    BY <1>0, <2>1 DEF ConnectRefused, ConnectPlain, HandshakeDone, ConnectSucceeds
  <2>2. CASE ConnectFails
    BY <1>0, <2>2 DEF ConnectFails
  <2>3. CASE ConnectOpens
    BY <1>0, <2>3 DEF ConnectOpens
  <2>4. CASE HandshakeFails \/ CertificateRejected
    <3>1. leaks' = leaks + 1 /\ m_sslFD' = m_sslFD /\ UNCHANGED <<open, others>>
      BY <2>4, Zenon DEF HandshakeFails, CertificateRejected
    <3> QED BY <1>0, <3>1
  <2> QED BY <1>1, <2>1, <2>2, <2>3, <2>4 DEF Connect
<1>2. CASE Disconnect
  BY <1>0, <1>2 DEF Disconnect, Disconnected
<1>3. CASE PerformRequest
  <2>1. /\ UNCHANGED <<m_sslFD, others, leaks>>
        /\ open' = open \/ open' = open \ {m_sslFD}
    BY <1>3, PerformRequestObject DEF Disconnected
  <2> QED BY <1>0, <2>1
<1>4. CASE Other
  BY <1>0, <1>4 DEF Other, OtherOpens, OtherCloses
<1>5. CASE UNCHANGED vars
  BY <1>0, <1>5 DEF vars
<1> QED BY <1>1, <1>2, <1>3, <1>4, <1>5 DEF Next

\* Every step keeps the types of m_connected and m_ssl.
LEMMA TypeFlags ==
  ASSUME TypeOK, [Next]_vars
  PROVE  m_connected' \in BOOLEAN /\ m_ssl' \in BOOLEAN
<1> USE DEF object
<1>0. m_connected \in BOOLEAN /\ m_ssl \in BOOLEAN
  BY DEF TypeOK
<1>1. CASE Connect
  BY <1>0, <1>1
  DEF Connect, ConnectRefused, ConnectPlain, ConnectFails, ConnectOpens,
      HandshakeFails, HandshakeDone, CertificateRejected, ConnectSucceeds
<1>2. CASE Disconnect
  BY <1>0, <1>2 DEF Disconnect, Disconnected
<1>3. CASE PerformRequest
  BY <1>0, <1>3, PerformRequestObject DEF Disconnected
<1>4. CASE Other
  BY <1>0, <1>4 DEF Other, OtherOpens, OtherCloses
<1>5. CASE UNCHANGED vars
  BY <1>0, <1>5 DEF vars
<1> QED BY <1>1, <1>2, <1>3, <1>4, <1>5 DEF Next

\* Every step keeps the types of the stage and of what calls return.
LEMMA TypeControl ==
  ASSUME TypeOK, [Next]_vars
  PROVE  /\ hpc' \in {"idle", "handshake", "verify", "write", "read", "parse"}
         /\ returned' \in Results
<1>0. /\ hpc \in {"idle", "handshake", "verify", "write", "read", "parse"}
      /\ returned \in Results
  BY DEF TypeOK
<1>a. \A ok \in BOOLEAN : Returns("Connect", ok) => returned' \in Results
  BY ReturnsType
<1>b. Returns("Disconnect", TRUE) => returned' \in Results
  BY ReturnsType
<1>c. \A ok \in BOOLEAN : Returns("PerformRequest", ok) => returned' \in Results
  BY ReturnsType
<1>d. Parsable \in BOOLEAN
  BY DEF Parsable
<1>1. CASE Connect
  BY <1>0, <1>1, <1>a, Zenon
  DEF Connect, ConnectRefused, ConnectPlain, ConnectFails, ConnectOpens,
      HandshakeFails, HandshakeDone, CertificateRejected, ConnectSucceeds
<1>2. CASE Disconnect
  BY <1>0, <1>2, <1>b DEF Disconnect
<1>3. CASE PerformRequest
  BY <1>0, <1>3, <1>c, <1>d, Zenon
  DEF PerformRequest, RequestStart, RequestNotConnected, WriteSome,
      WriteFails, WriteDone, ReadSome, ReadClosed, ReadFails, Parse
<1>4. CASE Other
  BY <1>0, <1>4 DEF Other, OtherOpens, OtherCloses
<1>5. CASE UNCHANGED vars
  BY <1>0, <1>5 DEF vars
<1> QED BY <1>1, <1>2, <1>3, <1>4, <1>5 DEF Next

\* Every step keeps the types of the exchange.
LEMMA TypeExchange ==
  ASSUME TypeOK, [Next]_vars
  PROVE  /\ error' \in Codes \cup {0}
         /\ offset' \in 0..ReqLen
         /\ wire' \in Seq(1..ReqLen)
         /\ got' \in 0..RespLen
         /\ reply' \in Codes \cup {Garbage, NoReply}
<1> USE DEF exchange
<1>0. /\ error \in Codes \cup {0}
      /\ offset \in 0..ReqLen
      /\ wire \in Seq(1..ReqLen)
      /\ got \in 0..RespLen
      /\ reply \in Codes \cup {Garbage, NoReply}
  BY DEF TypeOK
<1>1. CASE Connect
  BY <1>0, <1>1
  DEF Connect, ConnectRefused, ConnectPlain, ConnectFails, ConnectOpens,
      HandshakeFails, HandshakeDone, CertificateRejected, ConnectSucceeds
<1>2. CASE Disconnect
  BY <1>0, <1>2 DEF Disconnect
<1>3. CASE PerformRequest
  <2>1. CASE RequestStart \/ RequestNotConnected
    <3>1. 0 \in 0..ReqLen /\ 0 \in 0..RespLen
      BY HTTPAssumption
    <3>2. <<>> \in Seq(1..ReqLen)
      OBVIOUS
    <3>3. CASE RequestStart
      BY <1>0, <3>1, <3>2, <3>3, Zenon DEF RequestStart
    <3>4. CASE RequestNotConnected
      BY <1>0, <3>4 DEF RequestNotConnected
    <3> QED BY <2>1, <3>3, <3>4
  <2>2. CASE WriteSome
    BY <1>0, <2>2, HTTPAssumption, WireGrows DEF WriteSome
  <2>3. CASE WriteFails \/ WriteDone \/ ReadClosed \/ ReadFails
    BY <1>0, <2>3 DEF WriteFails, WriteDone, ReadClosed, ReadFails
  <2>4. CASE ReadSome
    BY <1>0, <2>4, HTTPAssumption DEF ReadSome
  <2>5. CASE Parse
    BY <1>0, <2>5 DEF Parse, Parsable
  <2> QED BY <1>3, <2>1, <2>2, <2>3, <2>4, <2>5 DEF PerformRequest
<1>4. CASE Other
  BY <1>0, <1>4 DEF Other, OtherOpens, OtherCloses
<1>5. CASE UNCHANGED vars
  BY <1>0, <1>5 DEF vars
<1> QED BY <1>1, <1>2, <1>3, <1>4, <1>5 DEF Next

\* The initial state has the types.
LEMMA TypeInit == Init => TypeOK
<1> SUFFICES ASSUME Init PROVE TypeOK
  OBVIOUS
<1>1. returned \in Results
  BY Zenon DEF Init, Results
<1>2. m_connected \in BOOLEAN /\ m_ssl \in BOOLEAN
  BY DEF Init
<1>3. /\ m_sslFD \in FDs \cup {NoFD} /\ open \subseteq FDs /\ others \subseteq FDs
      /\ leaks \in Nat
      /\ hpc \in {"idle", "handshake", "verify", "write", "read", "parse"}
  BY DEF Init
<1>4. /\ error \in Codes \cup {0} /\ offset \in 0..ReqLen /\ wire \in Seq(1..ReqLen)
      /\ got \in 0..RespLen /\ reply \in Codes \cup {Garbage, NoReply}
  BY HTTPAssumption DEF Init
<1> QED BY <1>1, <1>2, <1>3, <1>4 DEF TypeOK

\* The variables of a CHTTP object keep their types, whatever it is called for.
THEOREM TypeCorrect == Spec => []TypeOK
<1>1. TypeOK /\ [Next]_vars => TypeOK'
  BY TypeObject, TypeFlags, TypeControl, TypeExchange DEF TypeOK, FDs
<1> QED BY TypeInit, <1>1, PTL DEF Spec
-----------------------------------------------------------------------------
(* The inductive invariant                                                 *)

IInv ==
  /\ TypeOK
  /\ Stage
  /\ DescriptorsKept
  /\ SocketsAccounted
  /\ WireInOrder
  /\ TrueMeansAnswered

\* Every step keeps Stage.
LEMMA StageKept ==
  ASSUME TypeOK, Stage, [Next]_vars
  PROVE  Stage'
<1> USE DEF Stage, object, exchange
<1>1. CASE Connect
  <2>1. CASE ConnectRefused \/ ConnectPlain \/ ConnectFails
    BY <2>1 DEF ConnectRefused, ConnectPlain, ConnectFails
  <2>2. CASE ConnectOpens \/ HandshakeDone
    BY <2>2 DEF ConnectOpens, HandshakeDone
  <2>3. CASE HandshakeFails \/ CertificateRejected \/ ConnectSucceeds
    BY <2>3 DEF HandshakeFails, CertificateRejected, ConnectSucceeds
  <2> QED BY <1>1, <2>1, <2>2, <2>3 DEF Connect
<1>2. CASE Disconnect
  BY <1>2 DEF Disconnect
<1>3. CASE PerformRequest
  <2>1. CASE RequestStart \/ RequestNotConnected
    BY <2>1 DEF RequestStart, RequestNotConnected
  <2>2. CASE WriteSome \/ WriteFails
    BY <2>2 DEF WriteSome, WriteFails
  <2>3. CASE WriteDone
    BY <2>3 DEF WriteDone
  <2>4. CASE ReadSome
    BY <2>4 DEF ReadSome
  <2>5. CASE ReadClosed
    BY <2>5 DEF ReadClosed, Disconnected
  <2>6. CASE ReadFails \/ Parse
    BY <2>6 DEF ReadFails, Parse
  <2> QED BY <1>3, <2>1, <2>2, <2>3, <2>4, <2>5, <2>6 DEF PerformRequest
<1>4. CASE Other
  BY <1>4 DEF Other, OtherOpens, OtherCloses
<1>5. CASE UNCHANGED vars
  BY <1>5 DEF vars
<1> QED BY <1>1, <1>2, <1>3, <1>4, <1>5 DEF Next

\* Every step keeps the descriptors of the rest of the program: a new socket
\* gets a number that is free, and Disconnect closes one the object holds.
LEMMA DescriptorsStay ==
  ASSUME TypeOK, Stage, DescriptorsKept, [Next]_vars
  PROVE  DescriptorsKept'
<1> USE DEF DescriptorsKept, Holding, object, fdTable
<1>1. CASE Connect
  <2>1. CASE ConnectRefused
    BY <2>1 DEF ConnectRefused
  <2>2. CASE ConnectPlain \/ ConnectFails
    <3>1. hpc' = "idle" /\ UNCHANGED <<m_connected, open, others>> /\ ~m_connected
      <4>1. CASE ConnectPlain
        BY <4>1, Zenon DEF ConnectPlain
      <4>2. CASE ConnectFails
        BY <4>2, Zenon DEF ConnectFails
      <4> QED BY <2>2, <4>1, <4>2
    <3> QED BY <3>1
  <2>3. CASE ConnectOpens
    BY <2>3 DEF ConnectOpens, Lowest
  <2>4. CASE HandshakeFails \/ CertificateRejected
    BY <2>4 DEF HandshakeFails, CertificateRejected, Stage
  <2>5. CASE HandshakeDone \/ ConnectSucceeds
    BY <2>5 DEF HandshakeDone, ConnectSucceeds
  <2> QED BY <1>1, <2>1, <2>2, <2>3, <2>4, <2>5 DEF Connect
<1>2. CASE Disconnect
  BY <1>2 DEF Disconnect, Disconnected
<1>3. CASE PerformRequest
  <2>1. hpc' \notin {"handshake", "verify"}
    BY <1>3 DEF PerformRequest, RequestStart, RequestNotConnected, WriteSome,
       WriteFails, WriteDone, ReadSome, ReadClosed, ReadFails, Parse
  <2> QED BY <1>3, <2>1, PerformRequestObject DEF Disconnected
<1>4. CASE Other
  BY <1>4 DEF Other, OtherOpens, OtherCloses, Lowest
<1>5. CASE UNCHANGED vars
  BY <1>5 DEF vars
<1> QED BY <1>1, <1>2, <1>3, <1>4, <1>5 DEF Next

\* The sockets of the process that are not of the rest of the program.
Sockets == open \ others

\* What a step does to them and to who answers for them: nothing, a socket is
\* opened and held, the one held is closed, or the one held is given up.
LEMMA SocketSteps ==
  ASSUME TypeOK, Stage, DescriptorsKept, [Next]_vars
  PROVE  \/ Sockets' = Sockets /\ leaks' = leaks /\ (Holding' <=> Holding)
         \/ /\ \E fd \in FDs \ Sockets : Sockets' = Sockets \cup {fd}
            /\ leaks' = leaks /\ ~Holding /\ Holding'
         \/ /\ \E fd \in Sockets : Sockets' = Sockets \ {fd}
            /\ leaks' = leaks /\ Holding /\ ~Holding'
         \/ /\ Sockets' = Sockets
            /\ leaks' = leaks + 1 /\ Holding /\ ~Holding'
<1> USE DEF Sockets, Holding, object, fdTable
<1>0. Disconnected /\ hpc \notin {"handshake", "verify"}
        /\ hpc' \notin {"handshake", "verify"} /\ UNCHANGED <<others, leaks>> =>
        \/ Sockets' = Sockets /\ leaks' = leaks /\ (Holding' <=> Holding)
        \/ /\ \E fd \in Sockets : Sockets' = Sockets \ {fd}
           /\ leaks' = leaks /\ Holding /\ ~Holding'
  BY DEF Disconnected, DescriptorsKept
<1>1. CASE Connect
  <2>1. CASE ConnectRefused \/ ConnectPlain
    BY <2>1 DEF ConnectRefused, ConnectPlain
  <2>2. CASE ConnectFails
    BY <2>2, Zenon DEF ConnectFails
  <2>3. CASE ConnectOpens
    BY <2>3 DEF ConnectOpens, Lowest, DescriptorsKept
  <2>4. CASE HandshakeFails \/ CertificateRejected
    BY <2>4 DEF HandshakeFails, CertificateRejected, Stage
  <2>5. CASE HandshakeDone \/ ConnectSucceeds
    BY <2>5 DEF HandshakeDone, ConnectSucceeds
  <2> QED BY <1>1, <2>1, <2>2, <2>3, <2>4, <2>5 DEF Connect
<1>2. CASE Disconnect
  BY <1>0, <1>2 DEF Disconnect
<1>3. CASE PerformRequest
  <2>1. hpc \notin {"handshake", "verify"} /\ hpc' \notin {"handshake", "verify"}
    BY <1>3 DEF PerformRequest, RequestStart, RequestNotConnected, WriteSome,
       WriteFails, WriteDone, ReadSome, ReadClosed, ReadFails, Parse
  <2> QED BY <1>0, <1>3, <2>1, PerformRequestObject
<1>4. CASE Other
  BY <1>4 DEF Other, OtherOpens, OtherCloses, Lowest, DescriptorsKept
<1>5. CASE UNCHANGED vars
  BY <1>5 DEF vars
<1> QED BY <1>1, <1>2, <1>3, <1>4, <1>5 DEF Next

\* Every step keeps the account of the sockets.
LEMMA SocketsStay ==
  ASSUME TypeOK, Stage, DescriptorsKept, SocketsAccounted, [Next]_vars
  PROVE  SocketsAccounted'
<1> DEFINE held == IF Holding THEN 1 ELSE 0
<1>1. IsFiniteSet(Sockets) /\ Cardinality(Sockets) \in Nat
  <2>1. IsFiniteSet(FDs)
    BY HTTPAssumption, FS_Interval DEF FDs
  <2> QED BY <2>1, FS_Subset, FS_CardinalityType DEF TypeOK, Sockets
<1>2. Cardinality(Sockets) = leaks + held /\ leaks \in Nat
  BY DEF SocketsAccounted, Sockets, TypeOK
<1>3. SUFFICES Cardinality(Sockets') = leaks' + held'
  BY DEF SocketsAccounted, Sockets
<1>4. CASE Sockets' = Sockets /\ leaks' = leaks /\ (Holding' <=> Holding)
  BY <1>2, <1>4
<1>5. CASE /\ \E fd \in FDs \ Sockets : Sockets' = Sockets \cup {fd}
           /\ leaks' = leaks /\ ~Holding /\ Holding'
  <2>1. Cardinality(Sockets') = Cardinality(Sockets) + 1
    BY <1>1, <1>5, FS_AddElement
  <2>2. held = 0 /\ held' = 1 /\ leaks' = leaks
    BY <1>5
  <2> QED BY <1>2, <2>1, <2>2
<1>6. CASE /\ \E fd \in Sockets : Sockets' = Sockets \ {fd}
           /\ leaks' = leaks /\ Holding /\ ~Holding'
  <2>1. Cardinality(Sockets') = Cardinality(Sockets) - 1
    BY <1>1, <1>6, FS_RemoveElement
  <2>2. held = 1 /\ held' = 0 /\ leaks' = leaks
    BY <1>6
  <2> QED BY <1>2, <2>1, <2>2
<1>7. CASE Sockets' = Sockets /\ leaks' = leaks + 1 /\ Holding /\ ~Holding'
  BY <1>2, <1>7
<1> QED BY <1>4, <1>5, <1>6, <1>7, SocketSteps

\* Only RequestStart and WriteSome touch the request on the wire.
LEMMA WireSteps ==
  ASSUME [Next]_vars
  PROVE  UNCHANGED <<offset, wire>> \/ RequestStart \/ WriteSome
<1> USE DEF exchange
<1>1. CASE Connect
  BY <1>1
  DEF Connect, ConnectRefused, ConnectPlain, ConnectFails, ConnectOpens,
      HandshakeFails, HandshakeDone, CertificateRejected, ConnectSucceeds
<1>2. CASE Disconnect
  BY <1>2 DEF Disconnect
<1>3. CASE PerformRequest
  BY <1>3 DEF PerformRequest, RequestNotConnected,
     WriteFails, WriteDone, ReadSome, ReadClosed, ReadFails, Parse
<1>4. CASE Other
  BY <1>4 DEF Other, OtherOpens, OtherCloses
<1>5. CASE UNCHANGED vars
  BY <1>5 DEF vars
<1> QED BY <1>1, <1>2, <1>3, <1>4, <1>5 DEF Next

\* Every step keeps the order of the pieces on the wire.
LEMMA WireStays ==
  ASSUME TypeOK, WireInOrder, [Next]_vars
  PROVE  WireInOrder'
<1>0. wire \in Seq(1..ReqLen) /\ offset \in 0..ReqLen /\ ReqLen \in Nat
  BY HTTPAssumption DEF TypeOK
<1>1. CASE UNCHANGED <<offset, wire>>
  BY <1>1 DEF WireInOrder
<1>2. CASE RequestStart
  BY <1>2 DEF RequestStart, WireInOrder
<1>3. CASE WriteSome
  <2>1. PICK n \in 1..(ReqLen - offset) :
          /\ offset' = offset + n
          /\ wire' = wire \o [i \in 1..n |-> offset + i]
    BY <1>3 DEF WriteSome
  <2>2. /\ Len(wire') = Len(wire) + n
        /\ \A j \in 1..(Len(wire) + n) :
             wire'[j] = IF j <= Len(wire) THEN wire[j] ELSE offset + (j - Len(wire))
    BY <1>0, <2>1, WireGrows
  <2>3. Len(wire) = offset /\ \A i \in 1..offset : wire[i] = i
    BY DEF WireInOrder
  <2>4. ASSUME NEW j \in 1..(offset + n)
        PROVE  wire'[j] = j
    BY <1>0, <2>2, <2>3
  <2> QED BY <1>0, <2>1, <2>2, <2>3, <2>4 DEF WireInOrder
<1> QED BY <1>1, <1>2, <1>3, WireSteps

\* The result of a request that is handed to the caller.
Answered == [call |-> "PerformRequest", ok |-> TRUE]

\* Only Parse makes it, from a reply that can be parsed.
LEMMA AnsweredSteps ==
  ASSUME [Next]_vars, returned' = Answered, hpc' = "idle"
  PROVE  \/ Parse /\ Parsable
         \/ UNCHANGED <<hpc, returned, exchange, m_connected>>
<1> USE DEF object
<1>0. returned'.call = "PerformRequest" /\ returned'.ok = TRUE
  BY Zenon DEF Answered
<1>a. ~Returns("Connect", FALSE) /\ ~Returns("Connect", TRUE) /\ ~Returns("Disconnect", TRUE)
  BY <1>0 DEF Returns
<1>b. ASSUME NEW ok, Returns("PerformRequest", ok)
      PROVE  ok = TRUE
  <2>1. returned'.ok = ok
    BY <1>b DEF Returns
  <2> QED BY <1>0, <2>1
<1>c. ~Returns("PerformRequest", FALSE)
  BY <1>b
<1>d. Returns("PerformRequest", Parsable) => Parsable
  BY <1>b
<1>1. CASE Connect
  BY <1>1, <1>a, Zenon
  DEF Connect, ConnectRefused, ConnectPlain, ConnectFails, ConnectOpens,
      HandshakeFails, HandshakeDone, CertificateRejected, ConnectSucceeds
<1>2. CASE Disconnect
  BY <1>2, <1>a DEF Disconnect
<1>3. CASE PerformRequest
  <2>1. CASE RequestStart \/ RequestNotConnected
    BY <2>1, <1>c, Zenon DEF RequestStart, RequestNotConnected
  <2>2. CASE WriteSome \/ WriteFails \/ WriteDone
    BY <2>2, <1>c, Zenon DEF WriteSome, WriteFails, WriteDone
  <2>3. CASE ReadSome \/ ReadClosed \/ ReadFails
    BY <2>3, <1>c, Zenon DEF ReadSome, ReadClosed, ReadFails
  <2>4. CASE Parse
    BY <2>4, <1>d DEF Parse
  <2> QED BY <1>3, <2>1, <2>2, <2>3, <2>4 DEF PerformRequest
<1>4. CASE Other
  BY <1>4 DEF Other, OtherOpens, OtherCloses
<1>5. CASE UNCHANGED vars
  BY <1>5 DEF vars
<1> QED BY <1>1, <1>2, <1>3, <1>4, <1>5 DEF Next

\* Every step keeps what a result of true means.
LEMMA TrueStays ==
  ASSUME TypeOK, Stage, WireInOrder, TrueMeansAnswered, [Next]_vars
  PROVE  TrueMeansAnswered'
<1> SUFFICES ASSUME returned' = Answered, hpc' = "idle"
             PROVE  /\ wire' = [i \in 1..ReqLen |-> i]
                    /\ got' >= HeadLen
                    /\ error' = reply' /\ error' \in Codes
                    /\ ~m_connected'
  BY DEF TrueMeansAnswered, Answered
<1>1. CASE UNCHANGED <<hpc, returned, exchange, m_connected>>
  BY <1>1 DEF TrueMeansAnswered, Answered, exchange
<1>2. CASE Parse /\ Parsable
  <2>1. hpc = "parse" /\ UNCHANGED <<wire, got, reply>> /\ error' = reply
    BY <1>2 DEF Parse
  <2>2. ~m_connected'
    BY <1>2 DEF Parse, Stage, object
  <2>3. got >= HeadLen /\ reply \in Codes
    BY <1>2 DEF Parsable
  <2>4. wire = [i \in 1..ReqLen |-> i]
    <3>1. wire \in Seq(1..ReqLen) /\ ReqLen \in Nat
      BY HTTPAssumption DEF TypeOK
    <3>2. Len(wire) = ReqLen /\ \A i \in 1..ReqLen : wire[i] = i
      BY <2>1 DEF Stage, WireInOrder
    <3> QED BY <3>1, <3>2
  <2> QED BY <2>1, <2>2, <2>3, <2>4
<1> QED BY <1>1, <1>2, AnsweredSteps

\* The invariant is inductive.
LEMMA Inductive ==
  /\ Init => IInv
  /\ IInv /\ [Next]_vars => IInv'
<1>1. Init => IInv
  <2> SUFFICES ASSUME Init PROVE IInv
    OBVIOUS
  <2>1. Stage
    BY DEF Init, Stage
  <2>2. DescriptorsKept
    BY DEF Init, DescriptorsKept, Holding
  <2>3. SocketsAccounted
    <3>1. open \ others = {} /\ leaks = 0 /\ ~Holding
      BY DEF Init, Holding
    <3> QED BY <3>1, FS_EmptySet DEF SocketsAccounted
  <2>4. WireInOrder
    BY DEF Init, WireInOrder
  <2>5. TrueMeansAnswered
    <3>1. returned.call = "CHTTP"
      BY DEF Init
    <3> QED BY <3>1 DEF TrueMeansAnswered
  <2> QED BY TypeInit, <2>1, <2>2, <2>3, <2>4, <2>5 DEF IInv
<1>2. TypeOK /\ [Next]_vars => TypeOK'
  BY TypeObject, TypeFlags, TypeControl, TypeExchange DEF TypeOK, FDs
<1> QED BY <1>1, <1>2, StageKept, DescriptorsStay, SocketsStay, WireStays, TrueStays DEF IInv

LEMMA AlwaysIInv == Spec => []IInv
BY Inductive, PTL DEF Spec

\* Nothing CHTTP does closes a descriptor of the rest of the program, and the
\* socket it works on is its own: for every limit of descriptors.
THEOREM DescriptorsKeptCorrect == Spec => []DescriptorsKept
BY AlwaysIInv, PTL DEF IInv

\* No path of any call loses a socket but a failed handshake and a rejected
\* certificate: for every limit of descriptors.
THEOREM SocketsAccountedCorrect == Spec => []SocketsAccounted
BY AlwaysIInv, PTL DEF IInv

\* Write sends the request in order and once, however ssl_write cuts it.
THEOREM WireInOrderCorrect == Spec => []WireInOrder
BY AlwaysIInv, PTL DEF IInv

\* A request that returns true was sent whole and answered in HTTP, and leaves
\* the object ready to be connected again.
THEOREM TrueMeansAnsweredCorrect == Spec => []TrueMeansAnswered
BY AlwaysIInv, PTL DEF IInv

-----------------------------------------------------------------------------
(* The record layer                                                        *)

\* What is in the output buffer while Write is at work: nothing, or the record
\* for the next pieces, of which the peer has what is not left.  Outside Write
\* nothing is left, unless the connection is broken.
OutInv ==
  /\ out_left \in Nat
  /\ flushing => hpc = "write" /\ offset < ReqLen
  /\ Holding /\ hpc # "write" /\ conn # "broken" => out_left = 0
  /\ hpc = "write" /\ conn # "broken" =>
       IF out_left = 0 THEN ~flushing /\ unread = <<>>
       ELSE /\ offset < ReqLen /\ out_msg = NextRecord /\ out_left \in 1..Len(NextRecord)
            /\ unread = SubSeq(NextRecord, 1, Len(NextRecord) - out_left)

\* The n pieces after the first a, in order.
From(a, n) == [i \in 1..n |-> a + i]

\* The pieces of the reply are in Read's stream, then in the content not handed
\* out or in the record that is read, with none between; a request begins with
\* nothing of an earlier reply, but for a record that cannot be completed.
InInv ==
  /\ ReadInOrder
  /\ posted \in 0..RespLen
  /\ in_msg \in Seq(Int) /\ record.content \in Seq(Int)
  /\ record.type # "data" => record.content = <<>>
  /\ hpc = "write" => got = 0 /\ posted = 0
  /\ Holding /\ conn = "broken" =>
       in_msg = <<>> /\ (record.type = "data" => in_left # Units(record))
  /\ Holding /\ conn # "broken" /\ hpc # "read" => in_msg = <<>> /\ record.type # "data"
  /\ hpc = "read" /\ conn # "broken" =>
       /\ in_msg = From(got, Len(in_msg))
       /\ record.content = From(got + Len(in_msg), Len(record.content))
       /\ got + Len(in_msg) + Len(record.content) = posted
       /\ in_msg # <<>> => record = NoRecord

RecordInv == IInv /\ OutInv /\ InInv

-----------------------------------------------------------------------------
(* The way out                                                             *)

\* How many pieces the next record has.
Pieces == Least(ReqLen - offset, MaxContent)

\* The next record: as long as its header says, around the next pieces.
LEMMA NextRecordForm ==
  ASSUME offset \in 0..ReqLen, offset < ReqLen
  PROVE  /\ Pieces \in 1..(ReqLen - offset)
         /\ NextRecord \in Seq(Int) /\ Len(NextRecord) = HeaderLen + Pieces + 1
         /\ RecordLen(NextRecord) = Len(NextRecord)
         /\ Content(NextRecord) = [i \in 1..Pieces |-> offset + i]
<1>1. Pieces \in 1..(ReqLen - offset) /\ HeaderLen \in Nat \ {0} /\ offset \in Nat
  <2>1. HeaderLen \in Nat \ {0} /\ MaxContent \in Nat \ {0} /\ ReqLen \in Nat
    BY HTTPAssumption, RecordAssumption
  <2> QED
    BY <2>1 DEF Pieces, Least
<1> DEFINE header  == [i \in 1..HeaderLen |-> -Pieces]
           content == [i \in 1..Pieces |-> offset + i]
<1>2. NextRecord = (header \o content) \o <<0>>
  BY DEF NextRecord, Pieces, Header
<1>3. /\ header \in Seq(Int) /\ Len(header) = HeaderLen
      /\ \A i \in 1..HeaderLen : header[i] = -Pieces
  BY <1>1
<1>4. /\ content \in Seq(Int) /\ Len(content) = Pieces
      /\ \A i \in 1..Pieces : content[i] = offset + i
  BY <1>1
<1>5. <<0>> \in Seq(Int) /\ Len(<<0>>) = 1
  OBVIOUS
<1> HIDE DEF header, content
<1>6. /\ header \o content \in Seq(Int) /\ Len(header \o content) = HeaderLen + Pieces
      /\ \A i \in 1..(HeaderLen + Pieces) :
           (header \o content)[i] = IF i <= HeaderLen THEN header[i] ELSE content[i - HeaderLen]
  BY <1>3, <1>4, ConcatProperties
<1>7. /\ NextRecord \in Seq(Int) /\ Len(NextRecord) = HeaderLen + Pieces + 1
      /\ \A i \in 1..(HeaderLen + Pieces) : NextRecord[i] = (header \o content)[i]
  <2> DEFINE front == header \o content
  <2>1. front \in Seq(Int) /\ Len(front) = HeaderLen + Pieces /\ NextRecord = front \o <<0>>
    BY <1>2, <1>6
  <2> HIDE DEF front
  <2>2. /\ NextRecord \in Seq(Int) /\ Len(NextRecord) = Len(front) + 1
        /\ \A i \in 1..(Len(front) + 1) :
             NextRecord[i] = IF i <= Len(front) THEN front[i] ELSE <<0>>[i - Len(front)]
    BY <1>5, <2>1, ConcatProperties
  <2>3. \A i \in 1..(HeaderLen + Pieces) : NextRecord[i] = front[i]
    BY <1>1, <2>1, <2>2
  <2> QED
    BY <2>1, <2>2, <2>3 DEF front
<1>8. NextRecord[1] = -Pieces
  <2>1. 1 \in 1..(HeaderLen + Pieces) /\ 1 \in 1..HeaderLen /\ 1 <= HeaderLen
    BY <1>1
  <2> QED
    BY <1>3, <1>6, <1>7, <2>1
<1>9. RecordLen(NextRecord) = Len(NextRecord)
  BY <1>1, <1>7, <1>8 DEF RecordLen
<1>10. Content(NextRecord) = content
  <2>1. Content(NextRecord) = SubSeq(NextRecord, HeaderLen + 1, HeaderLen + Pieces)
    BY <1>1, <1>7, <1>9 DEF Content
  <2>2. \A i \in (HeaderLen + 1)..(HeaderLen + Pieces) : NextRecord[i] \in Int
    BY <1>1, <1>7
  <2>3. /\ Content(NextRecord) \in Seq(Int) /\ Len(Content(NextRecord)) = Pieces
        /\ \A i \in 1..Pieces : Content(NextRecord)[i] = NextRecord[HeaderLen + i]
    BY <1>1, <2>1, <2>2, SubSeqProperties
  <2>4. \A i \in 1..Pieces : Content(NextRecord)[i] = content[i]
    <3> TAKE i \in 1..Pieces
    <3>1. /\ HeaderLen + i \in 1..(HeaderLen + Pieces) /\ ~(HeaderLen + i <= HeaderLen)
          /\ (HeaderLen + i) - HeaderLen = i
      BY <1>1
    <3> QED
      BY <1>6, <1>7, <2>3, <3>1
  <2> QED
    BY <1>4, <2>3, <2>4, SeqEqual
<1> QED
  BY <1>1, <1>7, <1>9, <1>10 DEF content

\* The peer takes a record from what it got when it has all of it and not before.
LEMMA PeerGetsPart ==
  ASSUME offset \in 0..ReqLen, offset < ReqLen, NEW k \in 1..Len(NextRecord),
         PeerGets(SubSeq(NextRecord, 1, k))
  PROVE  IF k = Len(NextRecord)
         THEN wire' = wire \o [i \in 1..Pieces |-> offset + i] /\ unread' = <<>>
         ELSE wire' = wire /\ unread' = SubSeq(NextRecord, 1, k)
<1> DEFINE units == SubSeq(NextRecord, 1, k)
<1>1. /\ NextRecord \in Seq(Int) /\ Len(NextRecord) \in Nat
      /\ RecordLen(NextRecord) = Len(NextRecord) /\ Len(NextRecord) >= HeaderLen
      /\ HeaderLen \in Nat \ {0}
  BY NextRecordForm, RecordAssumption
<1>2. /\ units \in Seq(Int) /\ Len(units) = k /\ units[1] = NextRecord[1]
  <2>1. \A i \in 1..k : NextRecord[i] \in Int
    BY <1>1
  <2> QED
    BY <1>1, <2>1, SubSeqProperties
<1>3. RecordLen(units) = Len(NextRecord)
  BY <1>1, <1>2 DEF RecordLen
<1>4. Whole(units) <=> k = Len(NextRecord)
  BY <1>1, <1>2, <1>3 DEF Whole
<1>5. CASE k = Len(NextRecord)
  <2>1. units = NextRecord
    BY <1>1, <1>5, SubSeqFull
  <2>2. SubSeq(units, RecordLen(units) + 1, Len(units)) = <<>>
    BY <1>1, <1>2, <1>3, <1>5, SubSeqEmpty
  <2> QED
    BY <1>4, <1>5, <2>1, <2>2, NextRecordForm DEF PeerGets
<1>6. CASE k # Len(NextRecord)
  BY <1>4, <1>6 DEF PeerGets
<1> QED
  BY <1>5, <1>6

\* One call of write on the socket: the peer has more of the record, or all of
\* it, and then ssl_write returns the number of its pieces.
LEMMA NetSendStep ==
  ASSUME TypeOK, OutInv, NetSend
  PROVE  /\ hpc = "write" /\ offset < ReqLen /\ out_msg = NextRecord /\ conn # "broken"
         /\ \/ /\ out_left' = 0 /\ ~flushing' /\ unread' = <<>>
               /\ Pieces \in 1..(ReqLen - offset)
               /\ offset' = offset + Pieces
               /\ wire' = wire \o [i \in 1..Pieces |-> offset + i]
            \/ /\ out_left' \in 1..Len(NextRecord) /\ flushing'
               /\ unread' = SubSeq(NextRecord, 1, Len(NextRecord) - out_left')
               /\ offset' = offset /\ wire' = wire
<1> DEFINE L == Len(NextRecord)
<1>1. /\ hpc = "write" /\ flushing /\ conn # "broken"
      /\ out_left' = 0 => ~flushing' /\ offset' = offset + Pieces
      /\ out_left' # 0 => flushing' /\ offset' = offset
  BY Zenon DEF NetSend, Pieces
<1>2. PICK n \in 1..out_left : /\ PeerGets(unread \o Taken(n))
                               /\ out_left' = out_left - n
  BY DEF NetSend
<1>3. /\ offset < ReqLen /\ out_msg = NextRecord /\ out_left \in 1..L
      /\ unread = SubSeq(NextRecord, 1, L - out_left) /\ offset \in 0..ReqLen
  BY <1>1, <1>2 DEF OutInv, TypeOK
<1>4. NextRecord \in Seq(Int) /\ L \in Nat /\ Pieces \in 1..(ReqLen - offset)
  BY <1>3, NextRecordForm
<1> DEFINE k == (L - out_left) + n
<1>5. k \in 1..L /\ L - k = out_left - n
  BY <1>2, <1>3, <1>4
<1>6. unread \o Taken(n) = SubSeq(NextRecord, 1, k)
  <2>1. Taken(n) = SubSeq(NextRecord, (L - out_left) + 1, k)
    BY <1>3 DEF Taken
  <2>2. 1 \in 1..(L + 1) /\ L - out_left \in (1 - 1)..L /\ k \in (L - out_left)..L
    BY <1>2, <1>3, <1>4, <1>5
  <2> QED
    BY <1>3, <1>4, <2>1, <2>2, ConcatAdjacentSubSeq
<1>7. PeerGets(SubSeq(NextRecord, 1, k))
  BY <1>2, <1>6
<1>8. IF k = L
      THEN wire' = wire \o [i \in 1..Pieces |-> offset + i] /\ unread' = <<>>
      ELSE wire' = wire /\ unread' = SubSeq(NextRecord, 1, k)
  BY <1>3, <1>5, <1>7, PeerGetsPart
<1> HIDE DEF k
<1>9. CASE k = L
  <2>1. out_left' = 0
    BY <1>2, <1>4, <1>5, <1>9
  <2> QED
    BY <1>1, <1>3, <1>4, <1>8, <1>9, <2>1
<1>10. CASE k # L
  <2>1. out_left' \in 1..L /\ k = L - out_left'
    BY <1>2, <1>3, <1>4, <1>5, <1>10
  <2> QED
    BY <1>1, <1>3, <1>8, <1>10, <2>1
<1> QED
  BY <1>9, <1>10

\* Read's steps leave the output alone, and end the connection if they end the call.
LEMMA ReadStepsFrame ==
  ASSUME ReadSteps
  PROVE  /\ hpc = "read" /\ hpc' \in {"read", "parse", "idle"}
         /\ UNCHANGED <<output, offset>>
         /\ conn = "broken" => conn' = "broken"
         /\ m_connected' => m_connected
<1> USE DEF vars, object, exchange
<1>1. CASE PeerSends
  BY <1>1, Zenon DEF PeerSends
<1>2. CASE NetRecv
  BY <1>2, Zenon DEF NetRecv, Fetching
<1>3. CASE RecvInterrupted
  BY <1>3, Zenon DEF RecvInterrupted, Fetching
<1>4. CASE DataRead
  BY <1>4, Zenon DEF DataRead, Complete, Fetching
<1>5. CASE HandOut
  BY <1>5, Zenon DEF HandOut
<1>6. CASE RecvFails
  BY <1>6, Zenon DEF RecvFails, ReadFails
<1>7. CASE FatalAlert
  BY <1>7, Zenon DEF FatalAlert, ReadFails
<1>8. CASE Warning
  BY <1>8, Zenon DEF Warning, ReadFails
<1>9. CASE RecvEnds \/ EmptyTwice \/ CloseNotify
  <2>1. ReadClosed /\ UNCHANGED session
    BY <1>9, Zenon DEF RecvEnds, EmptyTwice, CloseNotify
  <2> QED
    BY <2>1, Zenon DEF ReadClosed, Disconnected, session
<1> QED
  BY <1>1, <1>2, <1>3, <1>4, <1>5, <1>6, <1>7, <1>8, <1>9 DEF ReadSteps

\* What the other steps of CHTTP do to the stage of a call.
LEMMA ElsewhereFrame ==
  ASSUME Elsewhere, Stage
  PROVE  /\ UNCHANGED <<session, got>>
         /\ \/ hpc' \notin {"write", "read"} /\ hpc \notin {"write", "read"} /\ (Holding' => Holding)
            \/ WriteDone
<1>0. UNCHANGED session
  BY Zenon DEF Elsewhere
<1> SUFFICES \/ /\ hpc' \notin {"write", "read"} /\ hpc \notin {"write", "read"}
                /\ Holding' => Holding
                /\ got' = got
             \/ WriteDone
  BY <1>0, Zenon DEF WriteDone
<1> USE DEF object, exchange, Holding
<1>1. CASE ConnectRefused
  BY <1>1 DEF ConnectRefused
<1>2. CASE ConnectPlain
  BY <1>2 DEF ConnectPlain
<1>3. CASE ConnectFails
  BY <1>3 DEF ConnectFails
<1>4. CASE HandshakeFails
  BY <1>4 DEF HandshakeFails, Stage
<1>5. CASE HandshakeDone
  BY <1>5 DEF HandshakeDone
<1>6. CASE CertificateRejected
  BY <1>6 DEF CertificateRejected, Stage
<1>7. CASE ConnectSucceeds
  BY <1>7 DEF ConnectSucceeds
<1>8. CASE Disconnect
  BY <1>8 DEF Disconnect, Disconnected
<1>9. CASE RequestNotConnected
  BY <1>9 DEF RequestNotConnected
<1>10. CASE Parse
  BY <1>10 DEF Parse
<1>11. CASE Other
  BY <1>11 DEF Other, OtherOpens, OtherCloses
<1> QED
  BY <1>1, <1>2, <1>3, <1>4, <1>5, <1>6, <1>7, <1>8, <1>9, <1>10, <1>11 DEF Elsewhere

\* Every step keeps what is said of the output buffer.
LEMMA OutKept ==
  ASSUME IInv, OutInv, [RecordNext]_recordVars
  PROVE  OutInv'
<1> USE DEF OutInv, IInv, Stage, Holding
<1>1. CASE SSLInit
  BY <1>1 DEF SSLInit, ConnectOpens
<1>2. CASE StartRequest
  BY <1>2 DEF StartRequest, RequestStart, object
<1>3. CASE SSLWrite
  <2>1. hpc = "write" /\ offset < ReqLen /\ offset \in 0..ReqLen
    BY <1>3 DEF SSLWrite, TypeOK
  <2>2. /\ UNCHANGED <<hpc, m_connected, offset, unread, conn>> /\ flushing'
        /\ \/ out_left # 0 /\ UNCHANGED <<out_msg, out_left>>
           \/ out_left = 0 /\ out_msg' = NextRecord /\ out_left' = Len(NextRecord)
    <3>1. UNCHANGED <<hpc, m_connected, offset, unread, conn>> /\ flushing'
      BY <1>3 DEF SSLWrite, vars, object, exchange
    <3> QED
      BY <1>3, <3>1 DEF SSLWrite
  <2>3. NextRecord' = NextRecord
    BY <2>2 DEF NextRecord
  <2>4. Len(NextRecord) \in Nat \ {0} /\ NextRecord \in Seq(Int)
    BY <2>1, NextRecordForm, RecordAssumption
  <2>5. SubSeq(NextRecord, 1, Len(NextRecord) - Len(NextRecord)) = <<>>
    BY <2>4, SubSeqEmpty
  <2>6. CASE out_left # 0 /\ UNCHANGED <<out_msg, out_left>>
    BY <2>1, <2>2, <2>3, <2>6
  <2>7. CASE out_left = 0 /\ out_msg' = NextRecord /\ out_left' = Len(NextRecord)
    <3>1. out_left' \in Nat \ {0} /\ out_left' \in 1..Len(NextRecord)
      BY <2>4, <2>7
    <3>2. conn # "broken" => unread = SubSeq(NextRecord, 1, Len(NextRecord) - Len(NextRecord))
      BY <2>1, <2>5, <2>7
    <3> QED
      BY <2>1, <2>2, <2>3, <2>7, <3>1, <3>2
  <2> QED
    BY <2>2, <2>6, <2>7
<1>4. CASE NetSend
  <2>1. UNCHANGED <<hpc, m_connected, conn, out_msg>> /\ hpc = "write"
    BY <1>4 DEF NetSend, object
  <2>2. CASE out_left' = 0 /\ ~flushing' /\ unread' = <<>>
    BY <2>1, <2>2
  <2>3. CASE /\ out_left' \in 1..Len(NextRecord) /\ flushing'
             /\ unread' = SubSeq(NextRecord, 1, Len(NextRecord) - out_left')
             /\ offset' = offset /\ wire' = wire
    <3>1. NextRecord' = NextRecord /\ out_msg = NextRecord /\ offset < ReqLen
      BY <1>4, <2>3, NetSendStep DEF NextRecord
    <3> QED
      BY <2>1, <2>3, <3>1
  <2> QED
    BY <1>4, <2>2, <2>3, NetSendStep
<1>5. CASE SendInterrupted
  <2>1. UNCHANGED <<hpc, m_connected, offset, unread, conn, out_left, out_msg>> /\ ~flushing'
        /\ hpc = "write" /\ flushing
    BY <1>5, Zenon DEF SendInterrupted, vars, object, exchange
  <2>2. NextRecord' = NextRecord
    BY <2>1 DEF NextRecord
  <2> QED
    BY <2>1, <2>2
<1>6. CASE SendFails
  BY <1>6 DEF SendFails, WriteFails, object
<1>7. CASE ReadSteps
  <2>1. /\ hpc = "read" /\ hpc' \in {"read", "parse", "idle"}
        /\ UNCHANGED <<out_left, flushing>>
        /\ conn = "broken" => conn' = "broken"
        /\ m_connected' => m_connected
    BY <1>7, ReadStepsFrame DEF output
  <2> QED
    BY <2>1
<1>8. CASE Elsewhere
  <2>1. UNCHANGED <<out_left, out_msg, flushing, unread, conn>>
    BY <1>8, ElsewhereFrame DEF session, output
  <2>2. CASE WriteDone
    <3>1. hpc = "write" /\ offset = ReqLen /\ hpc' = "read" /\ UNCHANGED <<m_connected, offset>>
      BY <2>2 DEF WriteDone, object
    <3>2. ~(offset < ReqLen)
      BY <3>1, HTTPAssumption
    <3> QED
      BY <2>1, <3>1, <3>2
  <2>3. CASE hpc' \notin {"write", "read"} /\ hpc \notin {"write", "read"} /\ (Holding' => Holding)
    BY <2>1, <2>3
  <2> QED
    BY <1>8, <2>2, <2>3, ElsewhereFrame
<1>9. CASE UNCHANGED recordVars
  <2>1. /\ UNCHANGED <<hpc, m_connected, offset>>
        /\ UNCHANGED <<out_left, out_msg, flushing, unread, conn>>
    BY <1>9 DEF recordVars, vars, object, exchange, session, output
  <2>2. NextRecord' = NextRecord
    BY <2>1 DEF NextRecord
  <2> QED
    BY <2>1, <2>2
<1> QED
  BY <1>1, <1>2, <1>3, <1>4, <1>5, <1>6, <1>7, <1>8, <1>9 DEF RecordNext, WriteSteps

-----------------------------------------------------------------------------
(* The way in                                                              *)

\* From(a, n) is a sequence of length n.
LEMMA FromType ==
  ASSUME NEW a \in Nat, NEW n \in Nat
  PROVE  /\ From(a, n) \in Seq(Int) /\ Len(From(a, n)) = n
         /\ \A i \in 1..n : From(a, n)[i] = a + i
BY DEF From

\* Pieces in order, cut in two.
LEMMA FromCut ==
  ASSUME NEW a \in Nat, NEW L \in Nat, NEW n \in 1..L
  PROVE  /\ SubSeq(From(a, L), 1, n) = From(a, n)
         /\ SubSeq(From(a, L), n + 1, L) = From(a + n, L - n)
<1> DEFINE s == From(a, L)
<1>1. s \in Seq(Int) /\ Len(s) = L /\ \A i \in 1..L : s[i] = a + i
  BY FromType
<1>2. \A i \in 1..L : s[i] \in Int
  BY <1>1
<1> HIDE DEF s
<1>3. /\ SubSeq(s, 1, n) \in Seq(Int) /\ Len(SubSeq(s, 1, n)) = n
      /\ \A i \in 1..n : SubSeq(s, 1, n)[i] = a + i
  <2>1. \A i \in 1..n : s[i] \in Int
    BY <1>2
  <2>2. /\ SubSeq(s, 1, n) \in Seq(Int) /\ Len(SubSeq(s, 1, n)) = n
        /\ \A i \in 1..n : SubSeq(s, 1, n)[i] = s[1 + i - 1]
    BY <2>1, SubSeqProperties
  <2> QED
    BY <1>1, <2>2
<1>4. /\ SubSeq(s, n + 1, L) \in Seq(Int) /\ Len(SubSeq(s, n + 1, L)) = L - n
      /\ \A i \in 1..(L - n) : SubSeq(s, n + 1, L)[i] = (a + n) + i
  <2>1. \A i \in (n + 1)..L : s[i] \in Int
    BY <1>2
  <2>2. /\ SubSeq(s, n + 1, L) \in Seq(Int)
        /\ Len(SubSeq(s, n + 1, L)) = IF n + 1 <= L THEN L - (n + 1) + 1 ELSE 0
        /\ \A i \in 1..(L - (n + 1) + 1) : SubSeq(s, n + 1, L)[i] = s[(n + 1) + i - 1]
    BY <2>1, SubSeqProperties
  <2>3. L - (n + 1) + 1 = L - n /\ (L < n + 1 => L - n = 0)
    OBVIOUS
  <2>4. \A i \in 1..(L - n) : (n + 1) + i - 1 \in 1..L /\ a + ((n + 1) + i - 1) = (a + n) + i
    OBVIOUS
  <2> QED
    BY <1>1, <2>2, <2>3, <2>4
<1>5. SubSeq(s, 1, n) = From(a, n)
  BY <1>3, FromType, SeqEqual
<1>6. SubSeq(s, n + 1, L) = From(a + n, L - n)
  <2>1. a + n \in Nat /\ L - n \in Nat
    OBVIOUS
  <2>2. /\ From(a + n, L - n) \in Seq(Int) /\ Len(From(a + n, L - n)) = L - n
        /\ \A i \in 1..(L - n) : From(a + n, L - n)[i] = (a + n) + i
    BY <2>1, FromType
  <2> QED
    BY <1>4, <2>2, SeqEqual
<1> QED
  BY <1>5, <1>6 DEF s

\* Pieces in order, put together.
LEMMA FromJoin ==
  ASSUME NEW a \in Nat, NEW n \in Nat
  PROVE  From(0, a) \o From(a, n) = From(0, a + n)
<1> DEFINE s == From(0, a)
           t == From(a, n)
           r == From(0, a + n)
<1>1. /\ s \in Seq(Int) /\ Len(s) = a /\ \A i \in 1..a : s[i] = i
      /\ t \in Seq(Int) /\ Len(t) = n /\ \A i \in 1..n : t[i] = a + i
      /\ r \in Seq(Int) /\ Len(r) = a + n /\ \A i \in 1..(a + n) : r[i] = i
  BY DEF From
<1> HIDE DEF s, t, r
<1>2. /\ s \o t \in Seq(Int) /\ Len(s \o t) = a + n
      /\ \A i \in 1..(a + n) : (s \o t)[i] = IF i <= a THEN s[i] ELSE t[i - a]
  BY <1>1, ConcatProperties
<1>3. \A i \in 1..(a + n) : (s \o t)[i] = r[i]
  BY <1>1, <1>2
<1>4. s \o t = r
  BY <1>1, <1>2, <1>3, SeqEqual
<1> QED
  BY <1>4 DEF s, t, r

LEMMA FromZero ==
  /\ \A a : From(a, 0) = <<>>
  /\ \A n \in Nat : From(0, n) = [i \in 1..n |-> i]
BY DEF From

\* Write's steps leave the input alone.
LEMMA WriteStepsFrame ==
  ASSUME WriteSteps
  PROVE  /\ hpc = "write" /\ hpc' \in {"write", "idle"}
         /\ UNCHANGED <<posted, record, in_left, in_msg, body, got, m_connected>>
         /\ conn' = conn \/ conn' = "broken"
<1> USE DEF vars, object, exchange, incoming
<1>1. CASE SSLWrite
  BY <1>1, Zenon DEF SSLWrite
<1>2. CASE NetSend
  BY <1>2, Zenon DEF NetSend
<1>3. CASE SendInterrupted
  BY <1>3, Zenon DEF SendInterrupted
<1>4. CASE SendFails
  BY <1>4, Zenon DEF SendFails, WriteFails
<1> QED
  BY <1>1, <1>2, <1>3, <1>4 DEF WriteSteps

\* ssl_read hands out the next pieces, as many as Read's buffer takes.
LEMMA HandOutStep ==
  ASSUME TypeOK, Stage, InInv, HandOut
  PROVE  \E n \in 1..Len(in_msg) :
           /\ hpc = "read" /\ conn # "broken" /\ n <= RespLen - got /\ record = NoRecord
           /\ got' = got + n /\ got' \in Nat
           /\ in_msg' = From(got + n, Len(in_msg) - n) /\ Len(in_msg') = Len(in_msg) - n
           /\ body' = [i \in 1..(got + n) |-> i]
           /\ UNCHANGED <<hpc, m_connected, conn, posted, record, in_left>>
<1> DEFINE n == Least(ReadSize, Len(in_msg))
           L == Len(in_msg)
<1>1. /\ hpc = "read" /\ in_msg # <<>>
      /\ got' = got + n
      /\ body' = body \o SubSeq(in_msg, 1, n)
      /\ in_msg' = SubSeq(in_msg, n + 1, L)
      /\ UNCHANGED <<hpc, m_connected, conn, posted, record, in_left>>
  BY Zenon DEF HandOut, object
<1>2. L \in Nat \ {0} /\ n \in 1..L /\ got \in Nat /\ RespLen \in Nat
  <2>1. L \in Nat \ {0}
    BY <1>1, EmptySeq DEF InInv
  <2> QED
    BY <2>1, HTTPAssumption, RecordAssumption DEF TypeOK, Least
<1>3. conn # "broken"
  BY <1>1 DEF InInv, Stage, Holding
<1>4. /\ in_msg = From(got, L) /\ record = NoRecord /\ got + L = posted /\ posted <= RespLen
      /\ body = From(0, got)
  <2>1. in_msg = From(got, L) /\ record = NoRecord /\ got + L + Len(record.content) = posted
    BY <1>1, <1>3 DEF InInv
  <2>2. Len(record.content) = 0
    BY <2>1 DEF NoRecord
  <2>3. body = From(0, got)
    BY <1>2, FromZero DEF InInv, ReadInOrder
  <2> QED
    BY <1>2, <2>1, <2>2, <2>3 DEF InInv
<1> HIDE DEF n, L
<1>5. in_msg' = From(got + n, L - n) /\ body' = From(0, got + n)
  <2>1. n \in Nat /\ L \in Nat
    BY <1>2
  <2>2. SubSeq(in_msg, 1, n) = From(got, n) /\ SubSeq(in_msg, n + 1, L) = From(got + n, L - n)
    BY <1>2, <1>4, <2>1, FromCut
  <2> QED
    BY <1>1, <1>2, <1>4, <2>1, <2>2, FromJoin
<1>6. got + n \in Nat /\ L - n \in Nat /\ n <= RespLen - got
  BY <1>2, <1>4
<1>7. Len(in_msg') = L - n /\ body' = [i \in 1..(got + n) |-> i]
  BY <1>5, <1>6, FromType, FromZero
<1> QED
  BY <1>1, <1>2, <1>3, <1>4, <1>5, <1>6, <1>7 DEF L

\* Every step keeps what is said of the input.
LEMMA InKept ==
  ASSUME IInv, InInv, [RecordNext]_recordVars
  PROVE  InInv'
<1> USE DEF InInv, Holding, NoRecord, Units, ReadInOrder
<1>0. TypeOK /\ Stage /\ RespLen \in Nat /\ got \in Nat
  BY HTTPAssumption DEF IInv, TypeOK
<1>1. CASE SSLInit
  BY <1>1 DEF SSLInit, ConnectOpens, exchange
<1>2. CASE StartRequest
  <2>1. /\ hpc = "idle" /\ m_connected /\ hpc' = "write" /\ got' = 0 /\ posted' = 0 /\ body' = <<>>
        /\ UNCHANGED <<m_connected, conn, record, in_left, in_msg>>
    BY <1>2, Zenon DEF StartRequest, RequestStart, object
  <2>2. body' = [i \in 1..got' |-> i]
    BY <2>1
  <2> QED
    BY <1>0, <2>1, <2>2
<1>3. CASE WriteSteps
  BY <1>0, <1>3, WriteStepsFrame DEF Stage
<1>4. CASE PeerSends
  <2>1. /\ hpc = "read" /\ conn = "up" /\ record = NoRecord /\ in_msg = <<>>
        /\ conn' # "broken"
        /\ UNCHANGED <<hpc, m_connected, got, in_left, in_msg, body>>
    BY <1>4, Zenon DEF PeerSends, vars, object, exchange
  <2>2. got = posted
    BY <1>0, <2>1
  <2>3. CASE \E n \in 0..Least(RespLen - posted, MaxContent) :
               /\ record' = [type |-> "data", content |-> From(posted, n)]
               /\ posted' = posted + n
    <3>1. PICK n \in 0..Least(RespLen - posted, MaxContent) :
               /\ record' = [type |-> "data", content |-> From(posted, n)]
               /\ posted' = posted + n
      BY <2>3
    <3>2. n \in Nat /\ posted + n \in 0..RespLen
      BY <1>0, RecordAssumption DEF Least
    <3>3. /\ record'.type = "data" /\ record'.content = From(posted, n)
          /\ record'.content \in Seq(Int) /\ Len(record'.content) = n
      BY <3>1, <3>2, FromType
    <3> QED
      BY <1>0, <2>1, <2>2, <3>1, <3>2, <3>3
  <2>4. CASE \E t \in {"close_notify", "fatal", "warning"} :
               record' = [type |-> t, content |-> <<>>] /\ posted' = posted
    <3>1. record'.type # "data" /\ record'.content = <<>> /\ posted' = posted
      BY <2>4
    <3> QED
      BY <1>0, <2>1, <2>2, <3>1, FromZero
  <2> QED
    BY <1>4, <2>3, <2>4 DEF PeerSends, From
<1>5. CASE NetRecv
  BY <1>0, <1>5 DEF NetRecv, vars, object, exchange
<1>6. CASE RecvInterrupted
  BY <1>0, <1>6 DEF RecvInterrupted, vars, object, exchange
<1>7. CASE RecvFails
  BY <1>0, <1>7 DEF RecvFails, Fetching, ReadFails, object, exchange
<1>8. CASE RecvEnds \/ EmptyTwice \/ CloseNotify
  <2>1. ReadClosed /\ UNCHANGED session
    BY <1>8, Zenon DEF RecvEnds, EmptyTwice, CloseNotify
  <2>2. /\ hpc' = "parse" /\ ~m_connected' 
        /\ UNCHANGED <<got, posted, conn, record, in_left, in_msg, body>>
    BY <2>1, Zenon DEF ReadClosed, Disconnected, exchange, session, incoming
  <2> QED
    BY <1>0, <2>2
<1>9. CASE DataRead
  <2>1. /\ hpc = "read" /\ in_msg = <<>> /\ record.type = "data" /\ in_left = Units(record)
        /\ in_msg' = record.content /\ record' = NoRecord
        /\ UNCHANGED <<hpc, m_connected, got, conn, posted, body>>
    BY <1>9, Zenon DEF DataRead, Complete, Fetching, vars, object, exchange
  <2>2. conn # "broken"
    BY <1>0, <2>1 DEF Stage
  <2>3. Len(in_msg) = 0 /\ Len(record.content) \in Nat
    BY <2>1
  <2> QED
    BY <1>0, <2>1, <2>2, <2>3, FromZero
<1>10. CASE FatalAlert
  BY <1>0, <1>10 DEF FatalAlert, Complete, Fetching, ReadFails, object, exchange
<1>11. CASE Warning
  BY <1>0, <1>11 DEF Warning, Complete, Fetching, ReadFails, object, exchange
<1>12. CASE HandOut
  <2>1. PICK n \in 1..Len(in_msg) :
           /\ hpc = "read" /\ conn # "broken" /\ n <= RespLen - got /\ record = NoRecord
           /\ got' = got + n /\ got' \in Nat
           /\ in_msg' = From(got + n, Len(in_msg) - n) /\ Len(in_msg') = Len(in_msg) - n
           /\ body' = [i \in 1..(got + n) |-> i]
           /\ UNCHANGED <<hpc, m_connected, conn, posted, record, in_left>>
    BY <1>0, <1>12, HandOutStep
  <2>2. Len(in_msg) \in Nat /\ Len(record.content) = 0 /\ record.content = <<>>
    BY <2>1
  <2>3. in_msg' \in Seq(Int)
    BY <2>1, <2>2, FromType
  <2>4. in_msg' = From(got', Len(in_msg')) /\ got' + Len(in_msg') = posted'
    <3>1. got + Len(in_msg) + 0 = posted /\ posted' = posted
      BY <2>1, <2>2
    <3>2. got' = got + n /\ Len(in_msg') = Len(in_msg) - n /\ in_msg' = From(got + n, Len(in_msg) - n)
      BY <2>1
    <3>3. (got + n) + (Len(in_msg) - n) = got + Len(in_msg) + 0
      BY <1>0, <2>2
    <3>4. got' + Len(in_msg') = posted'
      BY <3>1, <3>2, <3>3, Zenon
    <3> QED
      BY <3>2, <3>4, Zenon
  <2>5. record'.content = From(got' + Len(in_msg'), Len(record'.content))
    BY <2>1, <2>2, FromZero
  <2> QED
    BY <1>0, <2>1, <2>2, <2>3, <2>4, <2>5
<1>13. CASE Elsewhere
  <2>1. UNCHANGED <<got, posted, conn, record, in_left, in_msg, body>>
    BY <1>0, <1>13, ElsewhereFrame DEF session, incoming
  <2>2. CASE WriteDone
    BY <1>0, <2>1, <2>2, FromZero DEF WriteDone, Stage, object
  <2>3. CASE hpc' \notin {"write", "read"} /\ hpc \notin {"write", "read"} /\ (Holding' => Holding)
    BY <1>0, <2>1, <2>3
  <2> QED
    BY <1>0, <1>13, <2>2, <2>3, ElsewhereFrame
<1>14. CASE UNCHANGED recordVars
  BY <1>14 DEF recordVars, vars, object, exchange, session, incoming
<1> QED
  BY <1>1, <1>2, <1>3, <1>4, <1>5, <1>6, <1>7, <1>8, <1>9, <1>10, <1>11, <1>12, <1>13, <1>14
  DEF RecordNext, ReadSteps

-----------------------------------------------------------------------------
(* The record layer does for CHTTP what CHTTP expects of it                *)

\* Every step is one of CHTTP, or none.
LEMMA StepRefines ==
  ASSUME RecordInv, [RecordNext]_recordVars
  PROVE  [Next]_vars
<1>0. TypeOK /\ Stage /\ OutInv /\ InInv /\ RespLen \in Nat /\ got \in Nat
  BY HTTPAssumption DEF RecordInv, IInv, TypeOK
<1>1. CASE SSLInit
  BY <1>1, Zenon DEF SSLInit, Next, Connect
<1>2. CASE StartRequest
  BY <1>2, Zenon DEF StartRequest, Next, PerformRequest
<1>3. CASE SSLWrite \/ SendInterrupted
  BY <1>3, Zenon DEF SSLWrite, SendInterrupted
<1>4. CASE NetSend
  <2>1. /\ hpc = "write"
        /\ UNCHANGED <<object, fdTable, hpc, returned, error, got, reply>>
    BY <1>4, Zenon DEF NetSend
  <2>2. CASE /\ Pieces \in 1..(ReqLen - offset)
             /\ offset' = offset + Pieces
             /\ wire' = wire \o [i \in 1..Pieces |-> offset + i]
    <3>1. WriteSome
      BY <2>1, <2>2, Zenon DEF WriteSome
    <3> QED
      BY <3>1, Zenon DEF Next, PerformRequest
  <2>3. CASE offset' = offset /\ wire' = wire
    BY <2>1, <2>3, Zenon DEF vars, exchange
  <2> QED
    BY <1>0, <1>4, <2>2, <2>3, NetSendStep
<1>5. CASE SendFails
  BY <1>5, Zenon DEF SendFails, Next, PerformRequest
<1>6. CASE PeerSends \/ NetRecv \/ RecvInterrupted \/ DataRead
  BY <1>6, Zenon DEF PeerSends, NetRecv, RecvInterrupted, DataRead
<1>7. CASE RecvFails \/ FatalAlert \/ Warning
  BY <1>7, Zenon DEF RecvFails, FatalAlert, Warning, Next, PerformRequest
<1>8. CASE RecvEnds \/ EmptyTwice \/ CloseNotify
  BY <1>8, Zenon DEF RecvEnds, EmptyTwice, CloseNotify, Next, PerformRequest
<1>9. CASE HandOut
  <2>1. PICK n \in 1..Len(in_msg) : n <= RespLen - got /\ got' = got + n
    BY <1>0, <1>9, HandOutStep
  <2>2. n \in 1..(RespLen - got)
    BY <1>0, <2>1
  <2>3. /\ hpc = "read"
        /\ UNCHANGED <<object, fdTable, hpc, returned, error, offset, wire, reply>>
    BY <1>9, Zenon DEF HandOut
  <2>4. ReadSome
    BY <2>1, <2>2, <2>3, Zenon DEF ReadSome
  <2> QED
    BY <2>4, Zenon DEF Next, PerformRequest
<1>10. CASE Elsewhere
  BY <1>10, Zenon DEF Elsewhere, Next, Connect, PerformRequest
<1>11. CASE UNCHANGED recordVars
  BY <1>11, Zenon DEF recordVars
<1> QED
  BY <1>1, <1>2, <1>3, <1>4, <1>5, <1>6, <1>7, <1>8, <1>9, <1>10, <1>11
  DEF RecordNext, WriteSteps, ReadSteps

\* The invariant is inductive.
LEMMA RecordInductive ==
  /\ RecordInit => RecordInv
  /\ RecordInv /\ [RecordNext]_recordVars => RecordInv' /\ [Next]_vars
<1>1. RecordInit => RecordInv
  <2> SUFFICES ASSUME RecordInit PROVE RecordInv
    OBVIOUS
  <2>1. IInv
    BY Inductive DEF RecordInit
  <2>2. hpc = "idle" /\ ~m_connected /\ got = 0
    BY DEF RecordInit, Init
  <2>3. OutInv
    BY <2>2, Zenon DEF RecordInit, OutInv, Holding
  <2>4. InInv
    <3>1. body = [i \in 1..got |-> i]
      BY <2>2 DEF RecordInit
    <3>2. posted \in 0..RespLen
      BY HTTPAssumption DEF RecordInit
    <3> QED
      BY <2>2, <3>1, <3>2 DEF RecordInit, InInv, ReadInOrder, Holding, NoRecord
  <2> QED
    BY <2>1, <2>3, <2>4 DEF RecordInv
<1>2. ASSUME RecordInv, [RecordNext]_recordVars PROVE RecordInv' /\ [Next]_vars
  <2>1. [Next]_vars
    BY <1>2, StepRefines
  <2>2. IInv'
    BY <1>2, <2>1, Inductive DEF RecordInv
  <2> QED
    BY <1>2, <2>1, <2>2, OutKept, InKept DEF RecordInv
<1> QED
  BY <1>1, <1>2

LEMMA AlwaysRecordInv == RecordSpec => []RecordInv
BY RecordInductive, PTL DEF RecordSpec

\* Whatever write and read on the socket take, give or refuse, ssl_write and
\* ssl_read are for Write and Read what CHTTP says of them: for every length of
\* request, reply, record and buffer.
THEOREM ImplementsCHTTPCorrect == RecordSpec => ImplementsCHTTP
<1>1. RecordInit => Init
  BY DEF RecordInit
<1> QED
  BY <1>1, RecordInductive, AlwaysRecordInv, PTL DEF RecordSpec, ImplementsCHTTP, Spec

\* ssl_read loses and repeats no piece of the reply, however the peer cuts it
\* into records and Read's buffer cuts those.
THEOREM ReadInOrderCorrect == RecordSpec => []ReadInOrder
<1>1. RecordInv => ReadInOrder
  BY DEF RecordInv, InInv
<1> QED
  BY <1>1, AlwaysRecordInv, PTL

\* What was proved of CHTTP holds of it over the record layer.
THEOREM OverRecords ==
  RecordSpec => [](DescriptorsKept /\ SocketsAccounted /\ WireInOrder /\ TrueMeansAnswered)
<1>1. RecordInv => DescriptorsKept /\ SocketsAccounted /\ WireInOrder /\ TrueMeansAnswered
  BY DEF RecordInv, IInv
<1> QED
  BY <1>1, AlwaysRecordInv, PTL
=============================================================================
