-------------------------------- MODULE ARMT --------------------------------
(***************************************************************************)
(* The program: main (armt.cc), which authenticates, schedules the jobs    *)
(* FSCHECK and DISKCHECK and then loops for ever, and the CMessageBuilder  *)
(* it sends with, composed with CScheduler and CHTTP.                      *)
(*                                                                         *)
(* One thread runs, pc says where: in the loop ("loop", "run", "sleep"),   *)
(* in Send ("build" to "requesting"), after Send ("sent").  Around it the  *)
(* clock goes on, disks fail and are replaced, the network and the server  *)
(* take their decisions (which of the actions of CHTTP is taken).          *)
(***************************************************************************)
EXTENDS Integers, Sequences

CONSTANTS
  FsInterval, DiskInterval,    \* 86400 and 60 in armt.cc
  Hour, Timezone, Daylight,    \* the server's clock, see Midnight
  MaxTime, MaxSetBacks,        \* bounds, see CScheduler
  ReqLen, HeadLen, RespLen, MaxFD, Garbage, NoReply,   \* see CHTTP
  ErrorCode,                   \* an answer other than 202
  FailureKinds,                \* the failures that can happen
  MaxFailures                  \* bound: how many happen

Accepted == 202
JobNames == {"FSCHECK", "DISKCHECK"}
JobInterval == [FSCHECK |-> FsInterval, DISKCHECK |-> DiskInterval]

ASSUME ARMTAssumption ==
  /\ FsInterval \in Nat \ {0} /\ DiskInterval \in Nat \ {0}
  /\ Hour \in 0..FsInterval /\ Timezone \in Int /\ Daylight \in {0, 1}
  /\ -(FsInterval - Hour) <= Timezone
  /\ MaxTime \in Nat /\ MaxSetBacks \in Nat
  /\ ReqLen \in Nat \ {0} /\ HeadLen \in Nat \ {0} /\ RespLen \in Nat
  /\ HeadLen <= RespLen /\ MaxFD \in Nat
  /\ ErrorCode \in Nat \ {0, Accepted}
  /\ Garbage \notin {Accepted, ErrorCode} /\ NoReply \notin {Accepted, ErrorCode}
  /\ Garbage # NoReply
  /\ FailureKinds \subseteq
       {"connect", "tls", "sign", "write", "read", "truncated", "answer"}
  /\ MaxFailures \in Nat

VARIABLES
  now, setBacks, m_jobs, nextRun, iter, currentTime, ran,      \* CScheduler
  first, runs, passRuns,
  m_connected, m_ssl, m_sslFD, open, others, leaks, hpc,       \* CHTTP
  returned, offset, wire, got, reply,
  result,      \* main's result, which Send fills in through PerformRequest
  pc,          \* where the program is
  authed,      \* main has got past the AUTH message
  m_segments,  \* the segments of the message, each with the slot of its job
  body,        \* the segments that had data when Send packed them
  sendOK,      \* what Send returned
  faulting,    \* some block device reports a failure
  welcomed,    \* history: the server answered an AUTH message with 202
  inbox,       \* history: the sets of reports the server answered with 202
  failures     \* how many failures happened

S == INSTANCE CScheduler WITH Jobs <- JobNames, Interval <- JobInterval, FirstRuns <- Nat
H == INSTANCE CHTTP WITH Codes <- {Accepted, ErrorCode}, error <- result
M == INSTANCE Midnight WITH Day <- FsInterval

schedVars  == <<now, setBacks, m_jobs, nextRun, iter, currentTime, ran,
                first, runs, passRuns>>
httpVars   == <<m_connected, m_ssl, m_sslFD, open, others, leaks, hpc,
                returned, offset, wire, got, reply>>
msgVars    == <<m_segments, body, sendOK>>
serverVars == <<welcomed, inbox>>
vars == <<schedVars, httpVars, result, pc, authed, msgVars, faulting, serverVars,
          failures>>

\* A segment of the message: a name in m_segments and the run it came from.
Seg(name, slot) == [name |-> name, slot |-> slot]
AUTH == Seg("AUTH", 0)

\* The reports among a set of segments.
ReportsOf(segs) == {s \in segs : s.name # "AUTH"}

Delivered == UNION {inbox[i] : i \in 1..Len(inbox)}

\* A failure of one of the kinds that can happen, while any is left.
Fails(kind) ==
  /\ kind \in FailureKinds
  /\ failures < MaxFailures
  /\ failures' = failures + 1

Goes(from, to) == pc = from /\ pc' = to

-----------------------------------------------------------------------------
\* Start of main: the constructors have run, AUTH is the only segment.
Init ==
  /\ S!Init
  /\ H!Init
  /\ pc = "build"
  /\ authed = FALSE
  /\ m_segments = {AUTH}
  /\ body = {}
  /\ sendOK = FALSE
  /\ faulting \in BOOLEAN
  /\ welcomed = FALSE
  /\ inbox = <<>>
  /\ failures = 0

-----------------------------------------------------------------------------
(* CMessageBuilder::Send                                                   *)

\* What the functions of the segments return: FSCHECK always has data to send,
\* DISKCHECK if some device is not IsOK() when Send calls it.
FSCHECK   == TRUE
DISKCHECK == faulting

\* The segments that are packed; AUTH has no function.
WithData ==
  {s \in m_segments : /\ s.name = "FSCHECK" => FSCHECK
                      /\ s.name = "DISKCHECK" => DISKCHECK}

\* Mutant: a segment without data ends the message instead of being skipped.
Build_ReturnsEarly ==
  /\ pc = "build"
  /\ body' = IF WithData = m_segments THEN m_segments ELSE {}
  /\ IF body' = {}
     THEN pc' = "sent" /\ sendOK' = TRUE /\ result' = Accepted
     ELSE pc' = "connect" /\ UNCHANGED <<sendOK, result>>
  /\ UNCHANGED <<schedVars, httpVars, authed, m_segments, faulting, serverVars, failures>>

\* Packs the segments; with nothing to send a 202 response is forged.
Build ==
  /\ pc = "build"
  /\ body' = WithData
  /\ IF WithData = {}
     THEN pc' = "sent" /\ sendOK' = TRUE /\ result' = Accepted
     ELSE pc' = "connect" /\ UNCHANGED <<sendOK, result>>
  /\ UNCHANGED <<schedVars, httpVars, authed, m_segments, faulting, serverVars, failures>>

\* The part of the state no step of Send touches outside CHTTP and pc.
SendFrame ==
  UNCHANGED <<schedVars, authed, m_segments, body, faulting>>

\* Connect returned false.
ConnectFails ==
  /\ Goes("connect", "sent")
  /\ sendOK' = FALSE
  /\ \/ H!ConnectRefused /\ UNCHANGED failures
     \/ H!ConnectFails /\ (Fails("connect") \/ (open = H!FDs /\ UNCHANGED failures))
  /\ SendFrame /\ UNCHANGED serverVars

ConnectOpens ==
  /\ Goes("connect", "connecting")
  /\ H!ConnectOpens
  /\ SendFrame /\ UNCHANGED <<sendOK, serverVars, failures>>

HandshakeFails ==
  /\ Goes("connecting", "sent")
  /\ (H!HandshakeFails \/ H!CertificateRejected)
  /\ sendOK' = FALSE
  /\ Fails("tls")
  /\ SendFrame /\ UNCHANGED serverVars

HandshakeDone ==
  /\ Goes("connecting", "connecting")
  /\ H!HandshakeDone
  /\ SendFrame /\ UNCHANGED <<sendOK, serverVars, failures>>

ConnectSucceeds ==
  /\ Goes("connecting", "sign")
  /\ H!ConnectSucceeds
  /\ SendFrame /\ UNCHANGED <<sendOK, serverVars, failures>>

\* x509_write_pubkey_der or SignPayload fails: Send returns, connected.
SignFails ==
  /\ Goes("sign", "sent")
  /\ sendOK' = FALSE
  /\ Fails("sign")
  /\ SendFrame /\ UNCHANGED <<httpVars, result, serverVars>>

\* The headers are set and PerformRequest called.
Sign ==
  /\ Goes("sign", "requesting")
  /\ H!RequestStart
  /\ SendFrame /\ UNCHANGED <<sendOK, serverVars, failures>>

\* A step of PerformRequest that concerns CHTTP alone.
Exchange ==
  /\ Goes("requesting", "requesting")
  /\ \/ (H!WriteSome \/ H!ReadSome) /\ UNCHANGED failures
     \/ H!ReadClosed /\ IF reply = Garbage \/ got >= HeadLen
                        THEN UNCHANGED failures ELSE Fails("truncated")
  /\ SendFrame /\ UNCHANGED <<sendOK, serverVars>>

\* The server has the whole message: with 202 it accepts what is in it.
ServerAnswers ==
  /\ Goes("requesting", "requesting")
  /\ H!WriteDone
  /\ IF reply' = Accepted
     THEN /\ welcomed' = (welcomed \/ AUTH \in body)
          /\ inbox' = IF ReportsOf(body) = {} THEN inbox
                      ELSE Append(inbox, ReportsOf(body))
          /\ UNCHANGED failures
     ELSE Fails("answer") /\ UNCHANGED serverVars
  /\ SendFrame /\ UNCHANGED sendOK

\* Mutant: a request that failed is sent again.
RequestFails_Retries ==
  /\ Goes("requesting", "sign")
  /\ \/ H!WriteFails /\ Fails("write")
     \/ H!ReadFails /\ Fails("read")
  /\ SendFrame /\ UNCHANGED <<sendOK, serverVars>>

RequestFails ==
  /\ Goes("requesting", "sent")
  /\ \/ H!WriteFails /\ Fails("write")
     \/ H!ReadFails /\ Fails("read")
  /\ sendOK' = FALSE
  /\ SendFrame /\ UNCHANGED serverVars

RequestReturns ==
  /\ Goes("requesting", "sent")
  /\ H!Parse
  /\ sendOK' = returned'.ok
  /\ SendFrame /\ UNCHANGED <<serverVars, failures>>

Send ==
  \/ Build \/ ConnectFails \/ ConnectOpens
  \/ HandshakeFails \/ HandshakeDone \/ ConnectSucceeds
  \/ SignFails \/ Sign
  \/ Exchange \/ ServerAnswers \/ RequestFails \/ RequestReturns

-----------------------------------------------------------------------------
(* main                                                                    *)

MainFrame ==
  UNCHANGED <<body, sendOK, faulting, serverVars, failures>>

\* Mutant: the code the server answered with is not looked at.
AuthAccepted_AnyCode ==
  /\ Goes("sent", "addFS")
  /\ ~authed
  /\ sendOK
  /\ authed' = TRUE
  /\ MainFrame /\ UNCHANGED <<schedVars, httpVars, result, m_segments>>

AuthAccepted ==
  /\ Goes("sent", "addFS")
  /\ ~authed
  /\ sendOK /\ result = Accepted
  /\ authed' = TRUE
  /\ MainFrame /\ UNCHANGED <<schedVars, httpVars, result, m_segments>>

\* main returns; the destructors disconnect.
AuthRefused ==
  /\ Goes("sent", "exit")
  /\ ~authed
  /\ ~(sendOK /\ result = Accepted)
  /\ H!Disconnect
  /\ MainFrame /\ UNCHANGED <<schedVars, authed, m_segments>>

AddFSCheck ==
  /\ Goes("addFS", "addDisk")
  /\ S!AddJob("FSCHECK", M!FirstMidnight(now, Timezone, Daylight))
  /\ MainFrame /\ UNCHANGED <<httpVars, result, authed, m_segments>>

AddDiskCheck ==
  /\ Goes("addDisk", "loop")
  /\ S!AddJob("DISKCHECK", now)
  /\ MainFrame /\ UNCHANGED <<httpVars, result, authed, m_segments>>

Reset == m_segments' = {}

\* A segment replaces one of the same name.
AppendSegment(name, slot) ==
  m_segments' = {s \in m_segments : s.name # name} \cup {Seg(name, slot)}

\* Mutant: the segments of the last message are kept.
Loop_NoReset ==
  /\ Goes("loop", "run")
  /\ S!RunStart
  /\ MainFrame /\ UNCHANGED <<httpVars, result, authed, m_segments>>

\* The message is reset, whether the last one was delivered or not, and Run
\* called.
Loop ==
  /\ Goes("loop", "run")
  /\ Reset
  /\ S!RunStart
  /\ MainFrame /\ UNCHANGED <<httpVars, result, authed>>

SkipJob ==
  /\ Goes("run", "run")
  /\ S!RunSkip
  /\ MainFrame /\ UNCHANGED <<httpVars, result, authed, m_segments>>

\* CMSGJob::Execute appends the segment of the job.
ExecuteJob ==
  /\ Goes("run", "run")
  /\ S!RunExecute
  /\ AppendSegment(m_jobs[iter], runs[m_jobs[iter]])
  /\ MainFrame /\ UNCHANGED <<httpVars, result, authed>>

\* Run returns: Send if any job ran.
RunReturns ==
  /\ pc = "run"
  /\ S!RunReturn
  /\ IF ran THEN pc' = "build" /\ result' = 0
            ELSE pc' = "sleep" /\ UNCHANGED result
  /\ MainFrame /\ UNCHANGED <<httpVars, authed, m_segments>>

\* A failure to send is printed and forgotten.
SendReturned ==
  /\ Goes("sent", "sleep")
  /\ authed
  /\ MainFrame /\ UNCHANGED <<schedVars, httpVars, result, authed, m_segments>>

Sleep ==
  /\ Goes("sleep", "loop")
  /\ MainFrame /\ UNCHANGED <<schedVars, httpVars, result, authed, m_segments>>

Main ==
  \/ AuthAccepted \/ AuthRefused
  \/ AddFSCheck \/ AddDiskCheck
  \/ Loop \/ SkipJob \/ ExecuteJob \/ RunReturns
  \/ SendReturned \/ Sleep

-----------------------------------------------------------------------------
(* The environment                                                         *)

EnvFrame ==
  UNCHANGED <<httpVars, result, pc, authed, msgVars, serverVars, failures>>

ClockMoves ==
  /\ pc # "exit"
  /\ S!Tick \/ S!SetClockBack
  /\ EnvFrame /\ UNCHANGED faulting

\* A disk fails, or the last failing one is replaced.
DiskChanges ==
  /\ pc # "exit"
  /\ faulting' = ~faulting
  /\ EnvFrame /\ UNCHANGED schedVars

Program == Send \/ Main

Next == Program \/ ClockMoves \/ DiskChanges

Spec == Init /\ [][Next]_vars

\* The process is scheduled, the calls on the network return (there is no
\* timeout in CHTTP: that a peer keeps the connection open and says nothing
\* for ever is excluded here), and time passes.
Fairness == WF_vars(Program) /\ WF_vars(S!Tick /\ EnvFrame /\ UNCHANGED faulting)

FairSpec == Spec /\ Fairness

-----------------------------------------------------------------------------
Segments == [name : JobNames \cup {"AUTH"}, slot : Nat]

TypeOK ==
  /\ S!TypeOK
  /\ H!TypeOK
  /\ pc \in {"build", "connect", "connecting", "sign", "requesting", "sent",
             "addFS", "addDisk", "loop", "run", "sleep", "exit"}
  /\ authed \in BOOLEAN
  /\ m_segments \subseteq Segments
  /\ body \subseteq Segments
  /\ sendOK \in BOOLEAN
  /\ faulting \in BOOLEAN
  /\ welcomed \in BOOLEAN
  /\ inbox \in Seq(SUBSET Segments)
  /\ failures \in 0..MaxFailures

\* "send an AUTH message to verify the remote host": the server has no report
\* from a client whose AUTH it has not answered with 202.
AuthFirst == (authed \/ inbox # <<>>) => welcomed

\* When main sees Send succeed with 202 (and prints nothing), every segment
\* that had something to say reached the server, also when the 202 is forged.
SuccessIsReal ==
  pc = "sent" /\ sendOK /\ result = Accepted =>
    \A s \in m_segments :
      CASE s.name = "AUTH"      -> welcomed
        [] s.name = "FSCHECK"   -> s \in Delivered
        [] s.name = "DISKCHECK" -> s \in body => s \in Delivered

\* Between the requests the object is connected only after one that failed.
Left == m_connected /\ pc \notin {"sign", "requesting", "exit"}

\* A connection left by a failed Send (signature, write or read) is never used
\* for another message, whose reply could be the answer to the first: Connect
\* refuses while it is there.  The price is that nothing is delivered any more
\* and the connection never closed until main returns.
LeftConnectionIsDead ==
  [][Left => /\ inbox' = inbox /\ wire' = wire
             /\ (Left' \/ pc' = "exit")]_vars

\* A disk that stays faulting is reported by a DISKCHECK that runs from now
\* on, if more of its slots are left than failures; only a connection left by a
\* failed Send and handshakes that have used up the descriptors prevent it.
FaultReported ==
  \A n \in 0..MaxTime :
    /\ pc = "loop" /\ runs["DISKCHECK"] = n
    /\ nextRun["DISKCHECK"] + DiskInterval * (MaxFailures - failures) <= MaxTime
    /\ []faulting
    ~> \/ \E s \in Delivered : s.name = "DISKCHECK" /\ s.slot >= n
       \/ Left
       \/ leaks > MaxFD

\* "connect to the host" (CMessageBuilder.cc): when Send gets there it has no
\* connection yet, so that Connect does connect.
ConnectsToTheHost == pc = "connect" => ~m_connected

-----------------------------------------------------------------------------
\* ARMT implements Reporting.
R == INSTANCE Reporting WITH
       Reports <- [name : JobNames, slot : 0..MaxTime],
       session <- IF authed THEN "open" ELSE IF pc = "exit" THEN "refused" ELSE "new",
       taken   <- {s \in [name : JobNames, slot : 0..MaxTime] : s.slot < runs[s.name]},
       owed    <- ReportsOf(m_segments) \ Delivered,
       inbox   <- inbox

\* Every step of the program is a step of Reporting or none: in particular a
\* failed Send has lost its reports (Reset and SetRunTime are unconditional),
\* none is sent again, and none is sent before AUTH was answered with 202.
ImplementsReporting == R!Spec

\* What Reporting promises, of the program: the server gets each report at most
\* once, however the calls of CHTTP end after the message has left.
ReportsAtMostOnce == R!AtMostOnce
=============================================================================
