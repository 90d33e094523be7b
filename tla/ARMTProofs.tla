----------------------------- MODULE ARMTProofs -----------------------------
(***************************************************************************)
(* The program's safety properties, and that it implements Reporting, for  *)
(* all intervals of the jobs, lengths of messages, numbers of descriptors  *)
(* and failures, and whatever the clock does.                              *)
(***************************************************************************)
EXTENDS ARMT, TLAPS

\* What is proved of the scheduler and of the connection alone.
SP == INSTANCE CSchedulerProofs WITH
        Jobs <- JobNames, Interval <- JobInterval, FirstRuns <- Nat
HP == INSTANCE CHTTPProofs WITH
        Codes <- {Accepted, ErrorCode}, error <- result,
        \* of the record layer nothing is used
        HeaderLen <- 1, MaxContent <- 1, ReadSize <- 1,
        out_msg <- <<>>, out_left <- 0, flushing <- FALSE, unread <- <<>>, conn <- "up",
        posted <- 0, record <- <<>>, in_left <- 0, second <- FALSE, in_msg <- <<>>, body <- <<>>

\* The refinement mapping of R, with names.
Reports == [name : JobNames, slot : 0..MaxTime]
Session == IF authed THEN "open" ELSE IF pc = "exit" THEN "refused" ELSE "new"
Taken   == {s \in Reports : s.slot < runs[s.name]}
Owed    == ReportsOf(m_segments) \ Delivered

Sending    == {"build", "connect", "connecting", "sign", "requesting", "sent"}
HasBody    == {"connect", "connecting", "sign", "requesting"}
AllJobs    == <<"FSCHECK", "DISKCHECK">>

-----------------------------------------------------------------------------
(* The invariant                                                           *)

\* main adds its jobs in a fixed order before it runs any, and a job has not
\* run more often than the time its next run is at.
JobsInv ==
  /\ now \in 0..MaxTime /\ currentTime \in 0..MaxTime
  /\ runs \in [JobNames -> Nat] /\ nextRun \in [JobNames -> Nat]
  /\ \A j \in JobNames : runs[j] <= nextRun[j]
  /\ m_jobs = IF pc = "addDisk" THEN <<"FSCHECK">>
              ELSE IF authed /\ pc # "addFS" THEN AllJobs ELSE <<>>
  /\ m_jobs # AllJobs => \A j \in JobNames : runs[j] = 0
  /\ IF pc = "run" THEN iter \in 1..3 ELSE iter = 0

\* Until main is past AUTH that is the message, and Send all it does.
AuthInv == ~authed => m_segments = {AUTH} /\ pc \in Sending \cup {"exit"}

\* The message holds reports that were taken; during a pass none of a job that
\* the pass has still to reach.
MessageInv ==
  /\ m_segments \subseteq {AUTH} \cup Taken
  /\ pc = "run" => \A s \in m_segments, k \in 1..2 : k >= iter => s.name # AllJobs[k]

\* The server has none of the reports of a message it has not yet answered.
Unanswered ==
  pc \in {"run", "build", "connect", "connecting", "sign"} \/ (pc = "requesting" /\ hpc = "write")

InboxInv ==
  /\ inbox \in Seq(SUBSET Reports)
  /\ Delivered \subseteq Taken
  /\ Unanswered => ReportsOf(m_segments) \cap Delivered = {}

\* All of the message that had something to say has reached the server.
Reached ==
  \A s \in m_segments :
    IF s = AUTH THEN welcomed ELSE s.name = "FSCHECK" \/ s \in body => s \in Delivered

\* What Send packed, what a 202 means while it is read, and after.
SendInv ==
  /\ pc \in HasBody => /\ body \subseteq m_segments
                       /\ \A s \in m_segments : s.name # "DISKCHECK" => s \in body
  /\ pc = "requesting" /\ reply = Accepted =>
       (AUTH \in body => welcomed) /\ ReportsOf(body) \subseteq Delivered
  /\ pc = "sent" /\ sendOK /\ result = Accepted => Reached
  /\ pc = "connecting" => ~m_connected

-----------------------------------------------------------------------------
(* What the steps do                                                       *)

\* The steps of Send between packing and returning in which the server does
\* not answer.
Quiet ==
  \/ ConnectFails \/ ConnectOpens \/ HandshakeFails \/ HandshakeDone
  \/ ConnectSucceeds \/ SignFails \/ Sign \/ Exchange
  \/ RequestFails \/ RequestReturns

\* They leave the schedule, the message and what the server has alone.
LEMMA QuietFrame ==
  ASSUME Quiet
  PROVE  /\ UNCHANGED <<schedVars, authed, m_segments, body, faulting, serverVars>>
         /\ pc \in HasBody /\ pc' \in HasBody \cup {"sent"}
         /\ Unanswered' => Unanswered
<1> USE DEF SendFrame, Goes, HasBody, Unanswered, serverVars
<1>1. CASE ConnectFails
  BY <1>1 DEF ConnectFails
<1>2. CASE ConnectOpens
  BY <1>2 DEF ConnectOpens
<1>3. CASE HandshakeFails
  BY <1>3 DEF HandshakeFails
<1>4. CASE HandshakeDone
  BY <1>4 DEF HandshakeDone
<1>5. CASE ConnectSucceeds
  BY <1>5 DEF ConnectSucceeds
<1>6. CASE SignFails
  BY <1>6 DEF SignFails
<1>7. CASE Sign
  BY <1>7 DEF Sign
<1>8. CASE Exchange
  BY <1>8 DEF Exchange, H!WriteSome, H!ReadSome, H!ReadClosed
<1>9. CASE RequestFails
  BY <1>9 DEF RequestFails
<1>10. CASE RequestReturns
  BY <1>10 DEF RequestReturns
<1> QED
  BY <1>1, <1>2, <1>3, <1>4, <1>5, <1>6, <1>7, <1>8, <1>9, <1>10 DEF Quiet

\* A step outside Run and AddJob that keeps the jobs and the message keeps all
\* but SendInv, unless it authenticates or enters another part of the program.
LEMMA FrameKept ==
  ASSUME JobsInv, AuthInv, MessageInv, InboxInv, AuthFirst,
         UNCHANGED <<m_jobs, nextRun, iter, currentTime, runs, authed, m_segments, inbox, welcomed>>,
         now' \in 0..MaxTime,
         Unanswered' => Unanswered,
         \/ pc' = pc
         \/ pc \in Sending /\ pc' \in Sending
         \/ pc \in Sending /\ ~authed /\ pc' = "exit"
         \/ authed /\ pc \in {"sent", "sleep"} /\ pc' \in {"sleep", "loop"}
  PROVE  (JobsInv /\ AuthInv /\ MessageInv /\ InboxInv /\ AuthFirst)'
<1>1. Taken' = Taken /\ Delivered' = Delivered
  BY DEF Taken, Delivered
<1>2. JobsInv'
  BY DEF JobsInv, AuthInv, Sending
<1>3. AuthInv' /\ AuthFirst'
  BY DEF AuthInv, AuthFirst, Sending
<1>4. MessageInv'
  BY <1>1 DEF MessageInv, AuthInv, Sending
<1>5. InboxInv'
  BY <1>1 DEF InboxInv, ReportsOf
<1> QED
  BY <1>2, <1>3, <1>4, <1>5

-----------------------------------------------------------------------------
(* What is kept but for SendInv                                            *)

FrameInv == JobsInv /\ AuthInv /\ MessageInv /\ InboxInv /\ AuthFirst

\* Division has one result.
LEMMA Division ==
  ASSUME NEW d \in Nat \ {0}, NEW t \in Int, NEW q \in Int, NEW r \in 0..(d - 1),
         t = (d * q) + r
  PROVE  t \div d = q /\ t % d = r
<1> DEFINE p == t \div d
           s == t % d
<1>1. p \in Int /\ s \in 0..(d - 1) /\ t = (d * p) + s
  OBVIOUS
<1> HIDE DEF p, s
<1>2. d * (q - p) = s - r
  BY <1>1
<1>3. q - p = 0
  <2>1. d * (q - p) < d /\ -d < d * (q - p) /\ q - p \in Int
    BY <1>1, <1>2
  <2> QED
    BY <2>1
<1>4. p = q /\ s = r
  BY <1>1, <1>2, <1>3
<1> QED
  BY <1>4 DEF p, s

\* FirstMidnight is not before the clock's zero: what is cut off the clock is
\* at most the clock, and the zone takes away less than a day.
LEMMA FirstMidnightIsNat ==
  ASSUME NEW t \in Nat
  PROVE  M!FirstMidnight(t, Timezone, Daylight) \in Nat
<1>1. FsInterval \in Nat \ {0} /\ Hour \in Nat /\ Timezone \in Int /\ Daylight \in {0, 1}
      /\ -(FsInterval - Hour) <= Timezone
  BY ARMTAssumption
<1> DEFINE cut == t % FsInterval
           whole == t \div FsInterval
<1>2. cut \in Nat /\ whole \in Nat /\ t = FsInterval * whole + cut
  BY <1>1
<1>3. FsInterval * whole \in Nat
  BY <1>1, <1>2
<1>4. t - cut \in Nat
  BY <1>2, <1>3
<1>5. Daylight * Hour <= Hour /\ Daylight * Hour \in Nat
  BY <1>1
<1> HIDE DEF cut, whole
<1>6. (t - cut) + FsInterval + (Timezone - (Daylight * Hour)) \in Nat
  <2>1. FsInterval + (Timezone - (Daylight * Hour)) >= 0
    BY <1>1, <1>5
  <2> QED
    BY <1>1, <1>4, <1>5, <2>1
<1> QED
  BY <1>6 DEF M!FirstMidnight, cut

\* At first.
LEMMA FrameInit == Init => FrameInv
<1> SUFFICES ASSUME Init PROVE FrameInv
  OBVIOUS
<1>1. JobsInv
  BY ARMTAssumption DEF Init, S!Init, JobsInv, AllJobs
<1>2. AuthInv /\ MessageInv /\ AuthFirst
  BY DEF Init, AuthInv, MessageInv, AuthFirst, Sending
<1>3. inbox = <<>> /\ Delivered = {}
  BY DEF Init, Delivered
<1>4. InboxInv
  BY <1>3 DEF InboxInv
<1> QED
  BY <1>1, <1>2, <1>4 DEF FrameInv

\* Send packs, waits and returns.
LEMMA FrameBuildQuiet ==
  ASSUME FrameInv, Build \/ Quiet
  PROVE  FrameInv'
<1>1. /\ UNCHANGED <<schedVars, authed, m_segments, serverVars>>
      /\ pc \in Sending /\ pc' \in Sending
      /\ Unanswered' => Unanswered
  <2>1. CASE Build
    BY <2>1 DEF Build, Sending, Unanswered
  <2>2. CASE Quiet
    BY <2>2, QuietFrame DEF HasBody, Sending
  <2> QED
    BY <2>1, <2>2
<1>2. now' \in 0..MaxTime
  BY <1>1 DEF FrameInv, JobsInv, schedVars
<1> QED
  BY <1>1, <1>2, FrameKept DEF FrameInv, schedVars, serverVars

\* main goes on after Send, and the environment.
LEMMA FrameRest ==
  ASSUME FrameInv, AuthRefused \/ SendReturned \/ Sleep \/ ClockMoves \/ DiskChanges
  PROVE  FrameInv'
<1> USE DEF schedVars, serverVars, MainFrame, Goes, Sending
<1>1. CASE AuthRefused
  <2>1. now' \in 0..MaxTime
    BY <1>1 DEF AuthRefused, FrameInv, JobsInv
  <2>2. ~Unanswered'
    BY <1>1 DEF AuthRefused, Unanswered
  <2> QED
    BY <1>1, <2>1, <2>2, FrameKept DEF AuthRefused, FrameInv
<1>2. CASE SendReturned \/ Sleep
  <2>1. now' \in 0..MaxTime
    BY <1>2 DEF SendReturned, Sleep, FrameInv, JobsInv
  <2>2. ~Unanswered'
    BY <1>2 DEF SendReturned, Sleep, Unanswered
  <2>3. authed
    BY <1>2 DEF SendReturned, Sleep, FrameInv, AuthInv
  <2> QED
    BY <1>2, <2>1, <2>2, <2>3, FrameKept DEF SendReturned, Sleep, FrameInv
<1>3. CASE ClockMoves
  <2>1. now' \in 0..MaxTime
    BY <1>3, ARMTAssumption DEF ClockMoves, S!Tick, S!SetClockBack, FrameInv, JobsInv
  <2>2. Unanswered' => Unanswered
    BY <1>3 DEF ClockMoves, EnvFrame, Unanswered, httpVars
  <2>3. UNCHANGED <<m_jobs, nextRun, iter, currentTime, runs>>
    BY <1>3 DEF ClockMoves, S!Tick, S!SetClockBack, S!passVars, S!jobVars
  <2> QED
    BY <1>3, <2>1, <2>2, <2>3, FrameKept DEF ClockMoves, EnvFrame, FrameInv, msgVars
<1>4. CASE DiskChanges
  <2>1. now' \in 0..MaxTime
    BY <1>4 DEF DiskChanges, FrameInv, JobsInv
  <2>2. Unanswered' => Unanswered
    BY <1>4 DEF DiskChanges, EnvFrame, Unanswered, httpVars
  <2> QED
    BY <1>4, <2>1, <2>2, FrameKept DEF DiskChanges, EnvFrame, FrameInv, msgVars
<1> QED
  BY <1>1, <1>2, <1>3, <1>4

\* What the server has when it accepts one more message.
LEMMA DeliveredGrows ==
  ASSUME inbox \in Seq(SUBSET Reports), NEW D \in SUBSET Reports, inbox' = Append(inbox, D)
  PROVE  inbox' \in Seq(SUBSET Reports) /\ Delivered' = Delivered \cup D /\ inbox' # <<>>
<1>1. /\ Len(inbox) \in Nat
      /\ Len(inbox') = Len(inbox) + 1
      /\ inbox'[Len(inbox) + 1] = D
      /\ \A i \in 1..Len(inbox) : inbox'[i] = inbox[i]
      /\ inbox' \in Seq(SUBSET Reports) /\ inbox' # <<>>
  OBVIOUS
<1>2. 1..Len(inbox') = (1..Len(inbox)) \cup {Len(inbox) + 1}
  BY <1>1
<1>3. ASSUME NEW r PROVE r \in Delivered' <=> r \in Delivered \/ r \in D
  <2>1. r \in Delivered' <=> \E i \in 1..Len(inbox') : r \in inbox'[i]
    BY DEF Delivered
  <2>2. r \in Delivered <=> \E i \in 1..Len(inbox) : r \in inbox[i]
    BY DEF Delivered
  <2>3. (\E i \in 1..Len(inbox') : r \in inbox'[i])
          <=> (\E i \in 1..Len(inbox) : r \in inbox[i]) \/ r \in D
    BY <1>1, <1>2
  <2> QED
    BY <2>1, <2>2, <2>3
<1> QED
  BY <1>1, <1>3

\* The reports of a message were taken, and are new to the server until it
\* answers.
LEMMA BodyReports ==
  ASSUME FrameInv, SendInv, pc \in HasBody
  PROVE  /\ ReportsOf(body) \subseteq ReportsOf(m_segments)
         /\ ReportsOf(m_segments) \subseteq Taken /\ Taken \subseteq Reports
         /\ ~authed => ReportsOf(body) = {}
<1>1. body \subseteq m_segments /\ m_segments \subseteq {AUTH} \cup Taken
  BY DEF FrameInv, MessageInv, SendInv
<1>2. ~authed => m_segments = {AUTH}
  BY DEF FrameInv, AuthInv
<1> QED
  BY <1>1, <1>2 DEF ReportsOf, AUTH, Seg, Taken

\* The server answers: its 202 delivers reports that were taken.
LEMMA FrameAnswers ==
  ASSUME FrameInv, SendInv, ServerAnswers
  PROVE  FrameInv'
<1>1. /\ UNCHANGED <<schedVars, authed, m_segments, body>>
      /\ pc = "requesting" /\ pc' = pc /\ hpc = "write" /\ hpc' = "read"
  BY DEF ServerAnswers, Goes, SendFrame, H!WriteDone
<1>2. Unanswered /\ ~Unanswered' /\ now' \in 0..MaxTime
  BY <1>1 DEF Unanswered, FrameInv, JobsInv, schedVars
<1>3. CASE UNCHANGED serverVars
  BY <1>1, <1>2, <1>3, FrameKept DEF FrameInv, schedVars, serverVars
<1>4. CASE welcomed' = (welcomed \/ AUTH \in body) /\ UNCHANGED inbox
  <2>1. Taken' = Taken /\ Delivered' = Delivered
    BY <1>1, <1>4 DEF Taken, Delivered, schedVars
  <2>2. JobsInv'
    BY <1>1 DEF FrameInv, JobsInv, schedVars
  <2>3. AuthInv' /\ AuthFirst'
    BY <1>1, <1>4 DEF FrameInv, AuthInv, AuthFirst
  <2>4. MessageInv'
    BY <1>1, <2>1 DEF FrameInv, MessageInv
  <2>5. InboxInv'
    BY <1>1, <1>2, <1>4, <2>1 DEF FrameInv, InboxInv
  <2> QED
    BY <2>2, <2>3, <2>4, <2>5 DEF FrameInv
<1>5. CASE /\ welcomed' = (welcomed \/ AUTH \in body)
           /\ ReportsOf(body) # {} /\ inbox' = Append(inbox, ReportsOf(body))
  <2>1. ReportsOf(body) \subseteq Taken /\ ReportsOf(body) \in SUBSET Reports /\ authed
    BY <1>1, <1>5, BodyReports DEF HasBody
  <2>2. inbox' \in Seq(SUBSET Reports) /\ Delivered' = Delivered \cup ReportsOf(body)
    BY <1>5, <2>1, DeliveredGrows DEF FrameInv, InboxInv
  <2>3. Taken' = Taken
    BY <1>1 DEF Taken, schedVars
  <2>4. JobsInv'
    BY <1>1 DEF FrameInv, JobsInv, schedVars
  <2>5. AuthInv' /\ AuthFirst'
    BY <1>1, <1>5, <2>1 DEF FrameInv, AuthInv, AuthFirst
  <2>6. MessageInv'
    BY <1>1, <2>3 DEF FrameInv, MessageInv
  <2>7. InboxInv'
    BY <1>1, <1>2, <2>1, <2>2, <2>3 DEF FrameInv, InboxInv
  <2> QED
    BY <2>4, <2>5, <2>6, <2>7 DEF FrameInv
<1> QED
  BY <1>3, <1>4, <1>5 DEF ServerAnswers

\* main gets past the AUTH message: Send said so, so the server has it.
LEMMA FrameAuthAccepted ==
  ASSUME FrameInv, SendInv, AuthAccepted
  PROVE  FrameInv'
<1>1. /\ pc = "sent" /\ pc' = "addFS" /\ ~authed /\ authed' = TRUE
      /\ sendOK /\ result = Accepted
      /\ UNCHANGED <<schedVars, m_segments, serverVars>>
  BY DEF AuthAccepted, Goes, MainFrame
<1>2. welcomed
  <2>1. m_segments = {AUTH}
    BY <1>1 DEF FrameInv, AuthInv
  <2> QED
    BY <1>1, <2>1 DEF SendInv, Reached
<1>3. Taken' = Taken /\ Delivered' = Delivered
  BY <1>1 DEF Taken, Delivered, schedVars, serverVars
<1>4. JobsInv'
  BY <1>1 DEF FrameInv, JobsInv, schedVars
<1>5. AuthInv' /\ AuthFirst'
  BY <1>1, <1>2 DEF AuthInv, AuthFirst, serverVars
<1>6. MessageInv' /\ InboxInv'
  BY <1>1, <1>3 DEF FrameInv, MessageInv, InboxInv, Unanswered, serverVars
<1> QED
  BY <1>4, <1>5, <1>6 DEF FrameInv

\* The vector of both jobs.
LEMMA TwoJobs == Append(<<"FSCHECK">>, "DISKCHECK") = AllJobs
<1> DEFINE s == Append(<<"FSCHECK">>, "DISKCHECK")
<1>1. <<"FSCHECK">> \in Seq(JobNames) /\ Len(<<"FSCHECK">>) = 1
  BY DEF JobNames
<1>2. s \in Seq(JobNames) /\ Len(s) = 2 /\ s[1] = "FSCHECK" /\ s[2] = "DISKCHECK"
  BY <1>1 DEF JobNames
<1>3. AllJobs \in Seq(JobNames) /\ Len(AllJobs) = 2
      /\ AllJobs[1] = "FSCHECK" /\ AllJobs[2] = "DISKCHECK"
  BY DEF AllJobs, JobNames
<1> HIDE DEF s
<1>4. \A i \in 1..Len(s) : s[i] = AllJobs[i]
  BY <1>2, <1>3
<1>5. s = AllJobs
  BY <1>2, <1>3, <1>4
<1> QED
  BY <1>5 DEF s

\* main adds its jobs, and each of them only here.
LEMMA FrameAddJobs ==
  ASSUME FrameInv, AddFSCheck \/ AddDiskCheck
  PROVE  FrameInv'
<1>1. UNCHANGED <<now, iter, currentTime, runs, authed, m_segments, serverVars>>
  BY DEF AddFSCheck, AddDiskCheck, MainFrame, S!AddJob, S!clockVars, S!passVars
<1>2. /\ pc \notin Sending \cup {"run", "exit"} /\ pc' \notin Sending \cup {"run"}
      /\ authed
  BY DEF AddFSCheck, AddDiskCheck, Goes, Sending, FrameInv, AuthInv
<1>3. Taken' = Taken /\ Delivered' = Delivered
  BY <1>1 DEF Taken, Delivered, serverVars
<1>4. JobsInv'
  <2>1. now \in Nat /\ nextRun \in [JobNames -> Nat] /\ runs \in [JobNames -> Nat]
    BY ARMTAssumption DEF FrameInv, JobsInv
  <2>2. CASE AddFSCheck
    <3>1. M!FirstMidnight(now, Timezone, Daylight) \in Nat
      BY <2>1, FirstMidnightIsNat
    <3>2. pc = "addFS" /\ pc' = "addDisk" /\ m_jobs = <<>> /\ runs = [j \in JobNames |-> 0]
      BY <2>1, <2>2 DEF AddFSCheck, Goes, FrameInv, JobsInv, AllJobs
    <3>3. m_jobs' = Append(<<>>, "FSCHECK")
          /\ nextRun' = [nextRun EXCEPT !["FSCHECK"] = M!FirstMidnight(now, Timezone, Daylight)]
      BY <2>2, <3>2 DEF AddFSCheck, S!AddJob
    <3>4. m_jobs' = <<"FSCHECK">>
      BY <3>3
    <3>5. nextRun' \in [JobNames -> Nat]
      BY <2>1, <3>1, <3>3
    <3> QED
      BY <1>1, <2>1, <3>2, <3>4, <3>5 DEF FrameInv, JobsInv, AllJobs
  <2>3. CASE AddDiskCheck
    <3>1. /\ pc = "addDisk" /\ pc' = "loop" /\ m_jobs = <<"FSCHECK">>
          /\ m_jobs # AllJobs
      BY <2>3 DEF AddDiskCheck, Goes, FrameInv, JobsInv, AllJobs
    <3>2. \A j \in JobNames : runs[j] = 0
      BY <3>1 DEF FrameInv, JobsInv
    <3>3. m_jobs' = Append(<<"FSCHECK">>, "DISKCHECK")
          /\ nextRun' = [nextRun EXCEPT !["DISKCHECK"] = now]
      BY <2>3, <3>1 DEF AddDiskCheck, S!AddJob
    <3>4. m_jobs' = AllJobs
      BY <3>3, TwoJobs
    <3>5. nextRun' \in [JobNames -> Nat]
      BY <2>1, <3>3
    <3> QED
      BY <1>1, <1>2, <2>1, <3>1, <3>2, <3>4, <3>5 DEF FrameInv, JobsInv
  <2> QED
    BY <2>2, <2>3
<1>5. AuthInv' /\ AuthFirst'
  BY <1>1, <1>2 DEF FrameInv, AuthInv, AuthFirst, serverVars
<1>6. MessageInv' /\ InboxInv'
  BY <1>1, <1>2, <1>3 DEF FrameInv, MessageInv, InboxInv, Unanswered, Sending, serverVars
<1> QED
  BY <1>4, <1>5, <1>6 DEF FrameInv

\* A new round: the message is emptied and a pass begins.
LEMMA FrameLoop ==
  ASSUME FrameInv, Loop
  PROVE  FrameInv'
<1>1. /\ pc = "loop" /\ pc' = "run" /\ authed
      /\ m_segments' = {} /\ iter = 0 /\ iter' = 1 /\ currentTime' = now
      /\ UNCHANGED <<now, m_jobs, nextRun, runs, authed, serverVars>>
  BY DEF Loop, Goes, Reset, MainFrame, S!RunStart, S!clockVars, S!jobVars,
         FrameInv, AuthInv, Sending
<1>2. Taken' = Taken /\ Delivered' = Delivered
  BY <1>1 DEF Taken, Delivered, serverVars
<1>3. JobsInv'
  BY <1>1 DEF FrameInv, JobsInv
<1>4. AuthInv' /\ AuthFirst' /\ MessageInv'
  BY <1>1 DEF FrameInv, AuthInv, AuthFirst, MessageInv, serverVars
<1>5. InboxInv'
  BY <1>1, <1>2 DEF FrameInv, InboxInv, ReportsOf, serverVars
<1> QED
  BY <1>3, <1>4, <1>5 DEF FrameInv

\* A pass leaves out a job that is not due, and returns after the last.
LEMMA FrameSkipReturn ==
  ASSUME FrameInv, SkipJob \/ RunReturns
  PROVE  FrameInv'
<1>1. /\ UNCHANGED <<now, currentTime, m_jobs, nextRun, runs, authed, m_segments, serverVars>>
      /\ pc = "run" /\ authed
  BY DEF SkipJob, RunReturns, Goes, MainFrame, S!RunSkip, S!RunReturn, S!clockVars, S!jobVars,
         FrameInv, AuthInv, Sending
<1>2. m_jobs = AllJobs /\ Len(m_jobs) = 2 /\ iter \in 1..3
  BY <1>1 DEF FrameInv, JobsInv, AllJobs
<1>3. \/ pc' = "run" /\ iter' = iter + 1 /\ iter \in 1..2
      \/ pc' \in {"build", "sleep"} /\ iter' = 0
  BY <1>2 DEF SkipJob, RunReturns, Goes, S!RunSkip, S!RunReturn, S!InPass
<1>4. Taken' = Taken /\ Delivered' = Delivered
  BY <1>1 DEF Taken, Delivered, serverVars
<1>5. JobsInv'
  BY <1>1, <1>2, <1>3 DEF FrameInv, JobsInv
<1>6. AuthInv' /\ AuthFirst'
  BY <1>1 DEF FrameInv, AuthInv, AuthFirst, serverVars
<1>7. MessageInv'
  BY <1>1, <1>2, <1>3, <1>4 DEF FrameInv, MessageInv
<1>8. InboxInv'
  BY <1>1, <1>4 DEF FrameInv, InboxInv, Unanswered, serverVars
<1> QED
  BY <1>5, <1>6, <1>7, <1>8 DEF FrameInv

\* What executing a job changes: its report is taken, is in the message and new.
LEMMA ExecuteTakes ==
  ASSUME FrameInv, ExecuteJob
  PROVE  \E j \in JobNames :
           /\ j = AllJobs[iter] /\ m_jobs = AllJobs /\ iter \in 1..2 /\ iter' = iter + 1
           /\ pc = "run" /\ pc' = pc /\ authed
           /\ runs' = [runs EXCEPT ![j] = @ + 1]
           /\ nextRun' = [nextRun EXCEPT ![j] = @ + JobInterval[j]]
           /\ Seg(j, runs[j]) \in Reports \ Taken
           /\ Taken' = Taken \cup {Seg(j, runs[j])}
           /\ m_segments' = m_segments \cup {Seg(j, runs[j])}
           /\ UNCHANGED <<now, currentTime, m_jobs, authed, serverVars>>
<1>1. /\ UNCHANGED <<now, currentTime, m_jobs, authed, serverVars>>
      /\ pc = "run" /\ pc' = pc /\ authed
  BY DEF ExecuteJob, Goes, MainFrame, S!RunExecute, S!clockVars, FrameInv, AuthInv, Sending
<1>2. m_jobs = AllJobs /\ Len(m_jobs) = 2
  BY <1>1 DEF FrameInv, JobsInv, AllJobs
<1>3. iter \in 1..2 /\ iter' = iter + 1
  BY <1>2 DEF ExecuteJob, S!RunExecute, S!InPass
<1> DEFINE j == AllJobs[iter]
<1>4. j \in JobNames /\ j = m_jobs[iter]
  BY <1>2, <1>3 DEF AllJobs, JobNames
<1>5. /\ nextRun[j] <= currentTime
      /\ runs' = [runs EXCEPT ![j] = @ + 1]
      /\ nextRun' = [nextRun EXCEPT ![j] = @ + JobInterval[j]]
      /\ m_segments' = {s \in m_segments : s.name # j} \cup {Seg(j, runs[j])}
  BY <1>4 DEF ExecuteJob, S!RunExecute, S!Due, AppendSegment
<1> HIDE DEF j
<1>6. /\ runs \in [JobNames -> Nat] /\ nextRun \in [JobNames -> Nat]
      /\ runs[j] <= nextRun[j] /\ currentTime \in 0..MaxTime /\ MaxTime \in Nat
  BY <1>4, ARMTAssumption DEF FrameInv, JobsInv
<1>7. runs[j] \in 0..MaxTime
  BY <1>4, <1>5, <1>6
<1>8. Seg(j, runs[j]) \in Reports \ Taken
  BY <1>4, <1>6, <1>7 DEF Seg, Reports, Taken
<1>9. Taken' = Taken \cup {Seg(j, runs[j])}
  <2>1. ASSUME NEW s \in Reports
        PROVE  s.slot < runs'[s.name] <=> s.slot < runs[s.name] \/ s = Seg(j, runs[j])
    <3>1. s.name \in JobNames /\ s.slot \in Nat /\ s = [name |-> s.name, slot |-> s.slot]
      BY <1>6 DEF Reports
    <3>2. CASE s.name = j
      BY <1>4, <1>5, <1>6, <3>1, <3>2 DEF Seg
    <3>3. CASE s.name # j
      BY <1>5, <1>6, <3>1, <3>3 DEF Seg
    <3> QED
      BY <3>2, <3>3
  <2> QED
    BY <1>8, <2>1 DEF Taken
<1>10. {s \in m_segments : s.name # j} = m_segments
  <2>1. \A s \in m_segments : s.name # AllJobs[iter]
    BY <1>1, <1>3 DEF FrameInv, MessageInv
  <2> QED
    BY <2>1 DEF j
<1> QED
  BY <1>1, <1>2, <1>3, <1>4, <1>5, <1>8, <1>9, <1>10 DEF j

\* A job is executed: nothing in the message is replaced.
LEMMA FrameExecute ==
  ASSUME FrameInv, ExecuteJob
  PROVE  FrameInv'
<1>1. PICK j \in JobNames :
           /\ j = AllJobs[iter] /\ m_jobs = AllJobs /\ iter \in 1..2 /\ iter' = iter + 1
           /\ pc = "run" /\ pc' = pc /\ authed
           /\ runs' = [runs EXCEPT ![j] = @ + 1]
           /\ nextRun' = [nextRun EXCEPT ![j] = @ + JobInterval[j]]
           /\ Seg(j, runs[j]) \in Reports \ Taken
           /\ Taken' = Taken \cup {Seg(j, runs[j])}
           /\ m_segments' = m_segments \cup {Seg(j, runs[j])}
           /\ UNCHANGED <<now, currentTime, m_jobs, authed, serverVars>>
  BY ExecuteTakes
<1>2. Delivered' = Delivered
  BY <1>1 DEF Delivered, serverVars
<1>3. JobsInv'
  <2>1. JobInterval[j] \in Nat \ {0}
    BY <1>1, ARMTAssumption DEF JobInterval, JobNames
  <2> QED
    BY <1>1, <2>1 DEF FrameInv, JobsInv
<1>4. AuthInv' /\ AuthFirst'
  BY <1>1 DEF FrameInv, AuthInv, AuthFirst, serverVars
<1>5. MessageInv'
  <2>1. m_segments' \subseteq {AUTH} \cup Taken'
    BY <1>1 DEF FrameInv, MessageInv
  <2>2. \A k \in 1..2 : k >= iter' => k >= iter /\ j # AllJobs[k]
    BY <1>1 DEF AllJobs
  <2>3. \A s \in m_segments', k \in 1..2 : k >= iter' => s.name # AllJobs[k]
    BY <1>1, <2>2 DEF FrameInv, MessageInv, Seg
  <2> QED
    BY <1>1, <2>1, <2>3 DEF MessageInv
<1>6. InboxInv'
  <2>1. Unanswered /\ ReportsOf(m_segments) \cap Delivered = {} /\ Delivered \subseteq Taken
    BY <1>1 DEF FrameInv, InboxInv, Unanswered
  <2>2. ReportsOf(m_segments)' \cap Delivered = {}
    BY <1>1, <2>1 DEF ReportsOf
  <2> QED
    BY <1>1, <1>2, <2>1, <2>2 DEF FrameInv, InboxInv, serverVars
<1> QED
  BY <1>3, <1>4, <1>5, <1>6 DEF FrameInv

-----------------------------------------------------------------------------
(* What Send packed                                                        *)

\* At first nothing is packed.
LEMMA SendInit == Init => SendInv
BY DEF Init, SendInv, HasBody

\* Packing: only DISKCHECK can have nothing to say.
LEMMA SendBuild ==
  ASSUME FrameInv, Build
  PROVE  SendInv'
<1>1. /\ body' = WithData /\ UNCHANGED <<m_segments, welcomed, inbox, faulting>>
      /\ IF WithData = {} THEN pc' = "sent" ELSE pc' = "connect"
  BY DEF Build, serverVars
<1>2. body' \subseteq m_segments' /\ \A s \in m_segments' : s.name # "DISKCHECK" => s \in body'
  BY <1>1 DEF WithData, FSCHECK
<1>3. \A s \in m_segments : s = AUTH => s.name # "DISKCHECK"
  BY DEF AUTH, Seg
<1>4. WithData = {} => Reached'
  BY <1>1, <1>2, <1>3 DEF Reached
<1> QED
  BY <1>1, <1>2, <1>4 DEF SendInv, HasBody

\* While Send waits and returns, only the reply of the server decides.
LEMMA SendQuiet ==
  ASSUME FrameInv, SendInv, Quiet
  PROVE  SendInv'
<1>1. /\ UNCHANGED <<authed, m_segments, body, welcomed, inbox>>
      /\ pc \in HasBody /\ pc' \in HasBody \cup {"sent"}
  BY QuietFrame DEF serverVars
<1>2. pc' \in HasBody => body' \subseteq m_segments' /\ \A s \in m_segments' : s.name # "DISKCHECK" => s \in body'
  BY <1>1 DEF SendInv
<1>3. Delivered' = Delivered /\ Reached' = Reached /\ ReportsOf(body)' = ReportsOf(body)
  BY <1>1 DEF Delivered, Reached, ReportsOf
<1>4. pc' = "requesting" /\ reply' = Accepted => pc = "requesting" /\ reply = Accepted
  <2>1. NoReply # Accepted
    BY ARMTAssumption
  <2>2. CASE Sign
    BY <2>1, <2>2 DEF Sign, H!RequestStart
  <2>3. CASE Exchange
    BY <2>3 DEF Exchange, Goes, H!WriteSome, H!ReadSome, H!ReadClosed, H!exchange
  <2>4. CASE ~Sign /\ ~Exchange
    BY <2>4 DEF Quiet, ConnectFails, ConnectOpens, HandshakeFails, HandshakeDone,
         ConnectSucceeds, SignFails, RequestFails, RequestReturns, Goes
  <2> QED
    BY <2>2, <2>3, <2>4
<1>5. pc' = "sent" /\ sendOK' /\ result' = Accepted => pc = "requesting" /\ reply = Accepted
  <2>1. SUFFICES ASSUME pc' = "sent" /\ sendOK' /\ result' = Accepted
                 PROVE  pc = "requesting" /\ reply = Accepted
    OBVIOUS
  <2>2. RequestReturns
    BY <2>1 DEF Quiet, ConnectFails, ConnectOpens, HandshakeFails, HandshakeDone,
         ConnectSucceeds, SignFails, Sign, Exchange, RequestFails, Goes
  <2>3. returned' = [call |-> "PerformRequest", ok |-> H!Parsable] /\ sendOK' = returned'.ok
        /\ pc = "requesting" /\ result' = IF H!Parsable THEN reply ELSE result
    BY <2>2 DEF RequestReturns, Goes, H!Parse, H!Returns
  <2> QED
    BY <2>1, <2>3
<1>6. pc' = "sent" /\ sendOK' /\ result' = Accepted => Reached'
  <2>1. SUFFICES ASSUME pc = "requesting" /\ reply = Accepted PROVE Reached
    BY <1>3, <1>5
  <2>2. ReportsOf(body) \subseteq Delivered /\ (AUTH \in body => welcomed)
    BY <2>1 DEF SendInv
  <2>3. \A s \in m_segments : s.name # "DISKCHECK" => s \in body
    BY <1>1 DEF SendInv
  <2>4. \A s \in m_segments : s = AUTH \/ s.name # "AUTH"
    BY DEF FrameInv, MessageInv, Taken, Reports, JobNames
  <2>5. AUTH.name = "AUTH"
    BY DEF AUTH, Seg
  <2> QED
    BY <2>2, <2>3, <2>4, <2>5 DEF Reached, ReportsOf
<1>7. pc' = "connecting" => ~m_connected'
  <2>1. SUFFICES ASSUME pc' = "connecting" PROVE ~m_connected'
    OBVIOUS
  <2>2. CASE ConnectOpens
    BY <2>2 DEF ConnectOpens, H!ConnectOpens
  <2>3. CASE HandshakeDone
    BY <2>3 DEF HandshakeDone, Goes, H!HandshakeDone, H!object, SendInv
  <2>4. CASE ~ConnectOpens /\ ~HandshakeDone
    BY <2>1, <2>4 DEF Quiet, ConnectFails, HandshakeFails, ConnectSucceeds, SignFails, Sign, Exchange,
         RequestFails, RequestReturns, Goes
  <2> QED
    BY <2>2, <2>3, <2>4
<1> QED
  BY <1>1, <1>2, <1>3, <1>4, <1>6, <1>7 DEF SendInv

\* The server answers: with 202 it has all that was packed.
LEMMA SendAnswers ==
  ASSUME FrameInv, SendInv, ServerAnswers
  PROVE  SendInv'
<1>1. /\ UNCHANGED <<m_segments, body>>
      /\ pc = "requesting" /\ pc' = "requesting"
  BY DEF ServerAnswers, Goes, SendFrame
<1>2. reply' = Accepted => ReportsOf(body) \subseteq Delivered' /\ (AUTH \in body => welcomed')
  <2>1. ReportsOf(body) \in SUBSET Reports
    BY <1>1, BodyReports DEF HasBody
  <2>2. CASE reply' = Accepted /\ ReportsOf(body) # {}
    <3>1. welcomed' = (welcomed \/ AUTH \in body) /\ inbox' = Append(inbox, ReportsOf(body))
      BY <2>2 DEF ServerAnswers
    <3>2. Delivered' = Delivered \cup ReportsOf(body)
      BY <2>1, <3>1, DeliveredGrows DEF FrameInv, InboxInv
    <3> QED
      BY <3>1, <3>2
  <2>3. CASE reply' = Accepted /\ ReportsOf(body) = {}
    BY <2>3 DEF ServerAnswers
  <2> QED
    BY <2>2, <2>3
<1>3. ReportsOf(body)' = ReportsOf(body)
  BY <1>1 DEF ReportsOf
<1> QED
  BY <1>1, <1>2, <1>3 DEF SendInv, HasBody

\* Outside Send there is nothing to keep; the environment leaves Send alone.
LEMMA SendRest ==
  ASSUME SendInv, Main \/ ClockMoves \/ DiskChanges
  PROVE  SendInv'
<1>1. CASE Main
  <2>1. pc' \notin HasBody \cup {"sent"}
    BY <1>1 DEF Main, AuthAccepted, AuthRefused, AddFSCheck, AddDiskCheck, Loop, SkipJob,
         ExecuteJob, RunReturns, SendReturned, Sleep, Goes, HasBody
  <2> QED
    BY <2>1 DEF SendInv, HasBody
<1>2. CASE ClockMoves \/ DiskChanges
  <2>1. UNCHANGED <<httpVars, result, pc, msgVars, serverVars>>
    BY <1>2 DEF ClockMoves, DiskChanges, EnvFrame
  <2>2. Reached' = Reached /\ Delivered' = Delivered /\ ReportsOf(body)' = ReportsOf(body)
    BY <2>1 DEF Reached, Delivered, ReportsOf, msgVars, serverVars
  <2> QED
    BY <2>1, <2>2 DEF SendInv, httpVars, msgVars, serverVars
<1> QED
  BY <1>1, <1>2

-----------------------------------------------------------------------------
(* The theorems                                                            *)

\* Every step of the program and its environment keeps the invariant.
LEMMA Inductive == FrameInv /\ SendInv /\ [Next]_vars => (FrameInv /\ SendInv)'
<1> SUFFICES ASSUME FrameInv, SendInv, [Next]_vars PROVE (FrameInv /\ SendInv)'
  OBVIOUS
<1>1. CASE Send
  <2>1. Build \/ Quiet \/ ServerAnswers
    BY <1>1 DEF Send, Quiet
  <2> QED
    BY <2>1, FrameBuildQuiet, FrameAnswers, SendBuild, SendQuiet, SendAnswers
<1>2. CASE Main
  <2>1. FrameInv'
    BY <1>2, FrameRest, FrameAuthAccepted, FrameAddJobs, FrameLoop, FrameSkipReturn, FrameExecute
       DEF Main
  <2> QED
    BY <1>2, <2>1, SendRest
<1>3. CASE ClockMoves \/ DiskChanges
  BY <1>3, FrameRest, SendRest
<1>4. CASE UNCHANGED vars
  <2>1. now' \in 0..MaxTime
    BY <1>4 DEF vars, schedVars, FrameInv, JobsInv
  <2>2. UNCHANGED <<schedVars, httpVars, result, pc, authed, msgVars, serverVars>>
    BY <1>4 DEF vars
  <2>3. FrameInv'
    BY <2>1, <2>2, FrameKept DEF FrameInv, Unanswered, schedVars, httpVars, msgVars, serverVars
  <2>4. Reached' = Reached /\ Delivered' = Delivered /\ ReportsOf(body)' = ReportsOf(body)
    BY <2>2 DEF Reached, Delivered, ReportsOf, msgVars, serverVars
  <2> QED
    BY <2>2, <2>3, <2>4 DEF SendInv, httpVars, msgVars, serverVars
<1> QED
  BY <1>1, <1>2, <1>3, <1>4 DEF Next, Program

\* So it always holds.
LEMMA AlwaysInv == Spec => [](FrameInv /\ SendInv)
BY FrameInit, SendInit, Inductive, PTL DEF Spec

\* The server has no report from a client whose AUTH message it has not
\* answered with 202 (main, armt.cc).
THEOREM AuthFirstCorrect == Spec => []AuthFirst
<1>1. FrameInv => AuthFirst
  BY DEF FrameInv
<1> QED
  BY <1>1, AlwaysInv, PTL

\* When main sees Send succeed with 202, all that had something to say has
\* reached the server, whether the 202 came from it or was forged.
THEOREM SuccessIsRealCorrect == Spec => []SuccessIsReal
<1>1. FrameInv /\ SendInv => SuccessIsReal
  <2> SUFFICES ASSUME FrameInv, SendInv, pc = "sent", sendOK, result = Accepted, NEW s \in m_segments
               PROVE  CASE s.name = "AUTH"      -> welcomed
                        [] s.name = "FSCHECK"   -> s \in Delivered
                        [] s.name = "DISKCHECK" -> s \in body => s \in Delivered
    BY DEF SuccessIsReal
  <2>1. IF s = AUTH THEN welcomed ELSE s.name = "FSCHECK" \/ s \in body => s \in Delivered
    BY DEF SendInv, Reached
  <2>2. s = AUTH \/ s.name \in {"FSCHECK", "DISKCHECK"}
    BY DEF FrameInv, MessageInv, Taken, Reports, JobNames
  <2>3. AUTH.name = "AUTH"
    BY DEF AUTH, Seg
  <2> QED
    BY <2>1, <2>2, <2>3
<1> QED
  BY <1>1, AlwaysInv, PTL

\* A connection that a failed Send left is used for no other message, and stays
\* until main returns: Connect refuses while it is there (CHTTP::Connect).
THEOREM LeftConnectionIsDeadCorrect == Spec => LeftConnectionIsDead
<1>1. FrameInv /\ SendInv /\ [Next]_vars =>
        [Left => /\ inbox' = inbox /\ wire' = wire
                 /\ (Left' \/ pc' = "exit")]_vars
  <2> SUFFICES ASSUME FrameInv, SendInv, Next, Left
               PROVE  inbox' = inbox /\ wire' = wire /\ (Left' \/ pc' = "exit")
    OBVIOUS
  <2>1. m_connected /\ pc \notin {"connecting", "sign", "requesting", "exit"}
    BY DEF Left, SendInv
  <2>2. CASE Send
    <3>1. Build \/ ConnectFails
      BY <2>1, <2>2 DEF Send, ConnectOpens, HandshakeFails, HandshakeDone, ConnectSucceeds,
           SignFails, Sign, Exchange, ServerAnswers, RequestFails, RequestReturns, Goes,
           H!ConnectOpens
    <3>2. CASE Build
      BY <2>1, <3>2 DEF Build, Left, httpVars, serverVars
    <3>3. CASE ConnectFails
      BY <2>1, <3>3 DEF ConnectFails, Goes, Left, serverVars, H!ConnectRefused, H!ConnectFails,
           H!object, H!exchange
    <3> QED
      BY <3>1, <3>2, <3>3
  <2>3. CASE Main
    <3>1. CASE AuthRefused
      BY <3>1 DEF AuthRefused, Goes, MainFrame, serverVars, H!Disconnect, H!exchange
    <3>2. CASE ~AuthRefused
      <4>1. UNCHANGED <<httpVars, inbox>> /\ pc' \notin {"sign", "requesting", "exit"}
        BY <2>3, <3>2 DEF Main, AuthAccepted, AddFSCheck, AddDiskCheck, Loop, SkipJob,
             ExecuteJob, RunReturns, SendReturned, Sleep, Goes, MainFrame, serverVars
      <4> QED
        BY <2>1, <4>1 DEF httpVars, Left
    <3> QED
      BY <3>1, <3>2
  <2>4. CASE ClockMoves \/ DiskChanges
    BY <2>1, <2>4 DEF ClockMoves, DiskChanges, EnvFrame, httpVars, serverVars, Left
  <2> QED
    BY <2>2, <2>3, <2>4 DEF Next, Program
<1> QED
  BY <1>1, AlwaysInv, PTL DEF Spec, LeftConnectionIsDead

-----------------------------------------------------------------------------
(* The program implements Reporting                                        *)

\* A step that leaves the four variables of Reporting alone is a stutter.
LEMMA Stutters ==
  ASSUME UNCHANGED <<Session, Taken, Owed, inbox>>
  PROVE  UNCHANGED R!vars
BY DEF R!vars, Session, Taken, Owed, Reports

\* Nothing is taken, owed or delivered at first.
LEMMA InitRefines == Init => R!Init
<1> SUFFICES ASSUME Init PROVE R!Init
  OBVIOUS
<1>1. Session = "new"
  BY DEF Init, Session
<1>2. Taken = {}
  BY DEF Init, S!Init, Taken, Reports
<1>3. Owed = {}
  BY DEF Init, Owed, ReportsOf, AUTH, Seg
<1> QED
  BY <1>1, <1>2, <1>3 DEF Init, R!Init, Session, Taken, Owed, Reports

\* Steps that change neither main's place before or after AUTH, nor what was
\* taken, nor the message, nor what the server has.
LEMMA QuietRefines ==
  ASSUME UNCHANGED <<runs, authed, m_segments, inbox>>,
         authed \/ (pc = "exit" <=> pc' = "exit")
  PROVE  UNCHANGED R!vars
<1>1. Session' = Session /\ Taken' = Taken
  BY DEF Session, Taken
<1>2. Owed' = Owed
  BY DEF Owed, ReportsOf, Delivered
<1> QED
  BY <1>1, <1>2, Stutters

\* The server's 202 delivers what the message packed of the reports owed.
LEMMA AnswersRefines ==
  ASSUME FrameInv, SendInv, ServerAnswers
  PROVE  [R!Next]_R!vars
<1>1. /\ UNCHANGED <<runs, authed, m_segments>>
      /\ pc = "requesting" /\ pc' = pc /\ hpc = "write"
  BY DEF ServerAnswers, Goes, SendFrame, schedVars, H!WriteDone
<1>2. CASE inbox' = inbox
  BY <1>1, <1>2, QuietRefines
<1>3. CASE ReportsOf(body) # {} /\ inbox' = Append(inbox, ReportsOf(body))
  <2> DEFINE D == ReportsOf(body)
  <2>1. /\ D \subseteq ReportsOf(m_segments) /\ D \in SUBSET Reports
        /\ D # {} /\ authed
    BY <1>1, <1>3, BodyReports DEF HasBody
  <2>2. D \subseteq Owed
    BY <1>1, <2>1 DEF FrameInv, InboxInv, Unanswered, Owed
  <2>3. Delivered' = Delivered \cup D
    BY <1>3, <2>1, DeliveredGrows DEF FrameInv, InboxInv
  <2> HIDE DEF D
  <2>4. Owed' = Owed \ D
    BY <1>1, <2>3 DEF Owed, ReportsOf
  <2>5. Session = "open" /\ Session' = Session /\ Taken' = Taken
    BY <1>1, <2>1 DEF Session, Taken
  <2>6. R!Deliver(D)
    BY <1>3, <2>1, <2>2, <2>4, <2>5 DEF R!Deliver, Session, Taken, Owed, Reports, D
  <2> QED
    BY <2>1, <2>6 DEF R!Next, Reports
<1> QED
  BY <1>2, <1>3 DEF ServerAnswers, serverVars

\* Executing a job takes its next report.
LEMMA ExecuteRefines ==
  ASSUME FrameInv, ExecuteJob
  PROVE  R!Next
<1>1. PICK j \in JobNames :
           /\ pc = "run" /\ pc' = pc /\ authed
           /\ Seg(j, runs[j]) \in Reports \ Taken
           /\ Taken' = Taken \cup {Seg(j, runs[j])}
           /\ m_segments' = m_segments \cup {Seg(j, runs[j])}
           /\ UNCHANGED <<authed, serverVars>>
  BY ExecuteTakes
<1>0. PICK r \in Reports : r = Seg(j, runs[j])
  BY <1>1
<1>2. Delivered' = Delivered /\ Delivered \subseteq Taken
  BY <1>1 DEF Delivered, serverVars, FrameInv, InboxInv
<1>3. Owed' = Owed \cup {r}
  <2>1. r.name # "AUTH"
    BY <1>0 DEF Seg, JobNames
  <2> QED
    BY <1>0, <1>1, <1>2, <2>1 DEF Owed, ReportsOf
<1>4. Session = "open" /\ Session' = Session
  BY <1>1 DEF Session
<1>5. R!Take(r)
  BY <1>0, <1>1, <1>3, <1>4 DEF R!Take, Session, Taken, Owed, Reports, serverVars
<1> QED
  BY <1>5 DEF R!Next, Reports

\* What is left of the last message when a round begins is given up.
LEMMA LoopRefines ==
  ASSUME FrameInv, Loop
  PROVE  [R!Next]_R!vars
<1>1. /\ authed /\ m_segments' = {}
      /\ UNCHANGED <<runs, authed, serverVars>>
  BY DEF Loop, Goes, Reset, MainFrame, S!RunStart, S!jobVars, FrameInv, AuthInv, Sending
<1>2. Session' = Session /\ Taken' = Taken /\ Owed' = {}
  BY <1>1 DEF Session, Taken, Owed, ReportsOf
<1>3. CASE Owed = {}
  BY <1>1, <1>2, <1>3, Stutters DEF serverVars
<1>4. CASE Owed # {}
  <2>1. R!GiveUp
    BY <1>1, <1>2, <1>4 DEF R!GiveUp, Session, Taken, Owed, Reports, serverVars
  <2> QED
    BY <2>1 DEF R!Next
<1> QED
  BY <1>3, <1>4

\* main's decision on the AUTH message.
LEMMA AuthRefines ==
  ASSUME FrameInv, AuthAccepted \/ AuthRefused
  PROVE  R!Next
<1>1. /\ pc = "sent" /\ ~authed
      /\ UNCHANGED <<runs, m_segments, inbox>>
      /\ \/ authed' = TRUE
         \/ authed' = authed /\ pc' = "exit"
  BY DEF AuthAccepted, AuthRefused, Goes, MainFrame, schedVars, serverVars
<1>2. Taken' = Taken /\ Owed' = Owed
  BY <1>1 DEF Taken, Owed, ReportsOf, Delivered
<1>3. Session = "new" /\ Session' \in {"open", "refused"}
  BY <1>1 DEF Session
<1>4. R!Accept \/ R!Refuse
  BY <1>1, <1>2, <1>3 DEF R!Accept, R!Refuse, Session, Taken, Owed, Reports
<1> QED
  BY <1>4 DEF R!Next

\* Every step is one of Reporting or none.
LEMMA StepRefines ==
  ASSUME FrameInv, SendInv, [Next]_vars
  PROVE  [R!Next]_R!vars
<1>1. CASE Build \/ Quiet
  <2>1. UNCHANGED <<schedVars, authed, m_segments, inbox>> /\ pc # "exit" /\ pc' # "exit"
    BY <1>1, QuietFrame DEF Build, HasBody, serverVars
  <2> QED
    BY <2>1, QuietRefines DEF schedVars
<1>2. CASE AddFSCheck \/ AddDiskCheck \/ SkipJob \/ RunReturns \/ SendReturned \/ Sleep
  <2>1. UNCHANGED <<runs, authed, m_segments, inbox>> /\ pc # "exit" /\ pc' # "exit"
    BY <1>2 DEF AddFSCheck, AddDiskCheck, SkipJob, RunReturns, SendReturned, Sleep, Goes,
         MainFrame, serverVars, schedVars, S!AddJob, S!RunSkip, S!RunReturn, S!jobVars
  <2> QED
    BY <2>1, QuietRefines
<1>3. CASE ClockMoves \/ DiskChanges \/ UNCHANGED vars
  <2>1. UNCHANGED <<runs, authed, m_segments, inbox, pc>>
    BY <1>3 DEF ClockMoves, DiskChanges, EnvFrame, S!Tick, S!SetClockBack, S!jobVars,
         vars, schedVars, msgVars, serverVars
  <2> QED
    BY <2>1, QuietRefines
<1> QED
  BY <1>1, <1>2, <1>3, AnswersRefines, ExecuteRefines, LoopRefines, AuthRefines
     DEF Next, Program, Send, Main, Quiet

\* Every behaviour of the program is one of Reporting: a report is taken once
\* for each run of a job, delivered at most once and only while it is owed, and
\* given up when the next round begins (main, CMessageBuilder::Send).
THEOREM ImplementsReportingCorrect == Spec => ImplementsReporting
<1>1. Init => R!Init
  BY InitRefines
<1>2. FrameInv /\ SendInv /\ [Next]_vars => [R!Next]_R!vars
  BY StepRefines
<1> QED
  BY <1>1, <1>2, AlwaysInv, PTL DEF Spec, ImplementsReporting, R!Spec

-----------------------------------------------------------------------------
(* What Reporting promises                                                 *)

DeliveryInv ==
  /\ Taken \subseteq Reports /\ Owed \subseteq Taken
  /\ inbox \in Seq(SUBSET Reports)
  /\ \A i \in 1..Len(inbox) : inbox[i] \subseteq Taken \ Owed
  /\ \A i, k \in 1..Len(inbox) : i # k => inbox[i] \cap inbox[k] = {}
  /\ inbox # <<>> => Session = "open"

\* A delivery adds reports that were owed, and so are in no earlier one.
LEMMA DeliverKeeps ==
  ASSUME DeliveryInv, NEW D \in SUBSET Reports, R!Deliver(D)
  PROVE  DeliveryInv'
<1>1. /\ Session = "open" /\ D \subseteq Owed /\ inbox' = Append(inbox, D)
      /\ Owed' = Owed \ D /\ Session' = Session /\ Taken' = Taken
  BY DEF R!Deliver, Session, Taken, Owed, Reports
<1>2. /\ inbox' \in Seq(SUBSET Reports)
      /\ Len(inbox') = Len(inbox) + 1 /\ Len(inbox) \in Nat
      /\ inbox'[Len(inbox) + 1] = D
      /\ \A i \in 1..Len(inbox) : inbox'[i] = inbox[i]
  BY <1>1 DEF DeliveryInv
<1>3. \A i \in 1..Len(inbox') : i \in 1..Len(inbox) \/ i = Len(inbox) + 1
  BY <1>2
<1>4. \A i \in 1..Len(inbox') : inbox'[i] \subseteq Taken' \ Owed'
  <2>1. \A i \in 1..Len(inbox) : inbox[i] \subseteq Taken \ Owed
    BY DEF DeliveryInv
  <2> QED
    BY <1>1, <1>2, <1>3, <2>1 DEF DeliveryInv
<1>5. \A i, k \in 1..Len(inbox') : i # k => inbox'[i] \cap inbox'[k] = {}
  <2>1. \A i \in 1..Len(inbox) : inbox[i] \cap D = {}
    BY <1>1 DEF DeliveryInv
  <2>2. \A i, k \in 1..Len(inbox) : i # k => inbox[i] \cap inbox[k] = {}
    BY DEF DeliveryInv
  <2> QED
    BY <1>2, <1>3, <2>1, <2>2
<1> QED
  BY <1>1, <1>2, <1>4, <1>5 DEF DeliveryInv

\* Every step of Reporting keeps what it promises.
LEMMA DeliveryInductive ==
  /\ R!Init => DeliveryInv
  /\ DeliveryInv /\ [R!Next]_R!vars => DeliveryInv'
<1>1. ASSUME R!Init PROVE DeliveryInv
  <2>1. Session = "new" /\ Taken = {} /\ Owed = {} /\ inbox = <<>>
    BY <1>1 DEF R!Init, Session, Taken, Owed, Reports
  <2> QED
    BY <2>1 DEF DeliveryInv
<1>2. ASSUME DeliveryInv, [R!Next]_R!vars PROVE DeliveryInv'
  <2>1. CASE R!Accept \/ R!Refuse
    <3>1. Session = "new" /\ Taken' = Taken /\ Owed' = Owed /\ inbox' = inbox
      BY <2>1 DEF R!Accept, R!Refuse, Session, Taken, Owed, Reports
    <3> QED
      BY <1>2, <3>1 DEF DeliveryInv
  <2>2. ASSUME NEW r \in Reports, R!Take(r) PROVE DeliveryInv'
    <3>1. /\ r \notin Taken /\ Taken' = Taken \cup {r} /\ Owed' = Owed \cup {r}
          /\ Session' = Session /\ inbox' = inbox
      BY <2>2 DEF R!Take, Session, Taken, Owed, Reports
    <3>2. \A i \in 1..Len(inbox) : inbox[i] \subseteq Taken' \ Owed'
      BY <1>2, <3>1 DEF DeliveryInv
    <3> QED
      BY <1>2, <3>1, <3>2 DEF DeliveryInv
  <2>3. ASSUME NEW D \in SUBSET Reports, R!Deliver(D) PROVE DeliveryInv'
    BY <1>2, <2>3, DeliverKeeps
  <2>4. CASE R!GiveUp \/ UNCHANGED R!vars
    <3>1. /\ Owed' = {} \/ Owed' = Owed
          /\ Session' = Session /\ Taken' = Taken /\ inbox' = inbox
      BY <2>4 DEF R!GiveUp, R!vars, Session, Taken, Owed, Reports
    <3> QED
      BY <1>2, <3>1 DEF DeliveryInv
  <2> QED
    BY <1>2, <2>1, <2>2, <2>3, <2>4 DEF R!Next, Reports
<1> QED
  BY <1>1, <1>2

\* So the server gets each report at most once, only reports that were taken,
\* and none from a client it has not accepted, however the calls of CHTTP end
\* after the message has left.
THEOREM ReportsAtMostOnceCorrect == Spec => []ReportsAtMostOnce
<1>1. Init => DeliveryInv
  BY InitRefines, DeliveryInductive
<1>2. FrameInv /\ SendInv /\ DeliveryInv /\ [Next]_vars => DeliveryInv'
  BY StepRefines, DeliveryInductive
<1>3. DeliveryInv => ReportsAtMostOnce
  BY DEF DeliveryInv, ReportsAtMostOnce, R!AtMostOnce, Session, Taken, Owed, Reports
<1> QED
  BY <1>1, <1>2, <1>3, AlwaysInv, PTL DEF Spec

-----------------------------------------------------------------------------
(* When FSCHECK runs                                                       *)

\* The offset of the server's clock, and how the time that main computes lies
\* on the days of that clock.
LEMMA FirstMidnightOnGrid ==
  ASSUME NEW t \in Int
  PROVE  /\ M!East(Timezone, Daylight) \in Int
         /\ t \div FsInterval \in Int
         /\ M!FirstMidnight(t, Timezone, Daylight) =
              (((t \div FsInterval) + 1) * FsInterval) - M!East(Timezone, Daylight)
<1> DEFINE h == Daylight * Hour
           q == t \div FsInterval
           c == t % FsInterval
<1>1. FsInterval \in Nat \ {0} /\ Timezone \in Int /\ h \in Nat
  BY ARMTAssumption
<1>2. q \in Int /\ c \in Nat /\ t = (FsInterval * q) + c
  BY <1>1
<1> HIDE DEF h, q, c
<1>3. (q + 1) * FsInterval = (FsInterval * q) + FsInterval
  BY <1>1, <1>2
<1>4. ((t - c) + FsInterval) + (Timezone - h) = ((q + 1) * FsInterval) - (h - Timezone)
  <2>1. FsInterval * q \in Int
    BY <1>1, <1>2
  <2> QED
    BY <1>1, <1>2, <1>3, <2>1
<1> QED
  BY <1>1, <1>2, <1>4 DEF M!FirstMidnight, M!East, h, q, c

\* On a clock that is in daylight saving time or not (isdst), FSCHECK is due at
\* a midnight if that is what main took the zone to be on (daylight), and no more
\* than the hour of daylight saving before one if it is not.
NearMidnight(isdst) ==
  \E off \in {0, Hour} :
    /\ isdst = Daylight => off = 0
    /\ (nextRun["FSCHECK"] + off + M!East(Timezone, isdst)) % FsInterval = 0

\* For the proof: which one.
MidnightInv ==
  m_jobs # <<>> =>
    \E k \in Int : nextRun["FSCHECK"] = (k * FsInterval) - M!East(Timezone, Daylight)

\* However many runs were missed or came late and however often the clock was
\* set back, FSCHECK stays as near to a midnight of the server's clock as main's
\* first computation brought it (armt.cc with CScheduler::Run): in summer, and in
\* winter when armt.cc:191 still subtracts the hour, it does not drift.
THEOREM FSCHECKNearMidnight == Spec => [](m_jobs # <<>> => \A isdst \in 0..Daylight : NearMidnight(isdst))
<1>1. Init => MidnightInv
  BY DEF Init, S!Init, MidnightInv
<1>2. FrameInv /\ MidnightInv /\ [Next]_vars => MidnightInv'
  <2> SUFFICES ASSUME FrameInv, MidnightInv, [Next]_vars PROVE MidnightInv'
    OBVIOUS
  <2>1. now \in Int /\ nextRun \in [JobNames -> Nat] /\ FsInterval \in Nat
    BY ARMTAssumption DEF FrameInv, JobsInv
  <2>2. CASE UNCHANGED <<m_jobs, nextRun>>
    BY <2>2 DEF MidnightInv
  <2>3. CASE AddFSCheck
    <3>1. nextRun' = [nextRun EXCEPT !["FSCHECK"] = M!FirstMidnight(now, Timezone, Daylight)]
      BY <2>3 DEF AddFSCheck, S!AddJob
    <3>2. nextRun'["FSCHECK"] =
            (((now \div FsInterval) + 1) * FsInterval) - M!East(Timezone, Daylight)
      BY <2>1, <3>1, FirstMidnightOnGrid DEF JobNames
    <3>3. (now \div FsInterval) + 1 \in Int
      BY <2>1, FirstMidnightOnGrid
    <3> QED
      BY <3>2, <3>3 DEF MidnightInv
  <2>4. CASE AddDiskCheck
    <3>1. pc = "addDisk" /\ nextRun' = [nextRun EXCEPT !["DISKCHECK"] = now]
      BY <2>4 DEF AddDiskCheck, S!AddJob, Goes
    <3>2. m_jobs # <<>> /\ nextRun'["FSCHECK"] = nextRun["FSCHECK"]
      BY <2>1, <3>1 DEF FrameInv, JobsInv, JobNames
    <3> QED
      BY <3>2 DEF MidnightInv
  <2>5. CASE ExecuteJob
    <3>1. PICK j \in JobNames :
            nextRun' = [nextRun EXCEPT ![j] = @ + JobInterval[j]] /\ m_jobs = AllJobs
      BY <2>5, ExecuteTakes
    <3>2. m_jobs # <<>>
      BY <3>1 DEF AllJobs
    <3>3. PICK k \in Int : nextRun["FSCHECK"] = (k * FsInterval) - M!East(Timezone, Daylight)
      BY <3>2 DEF MidnightInv
    <3>4. CASE j = "FSCHECK"
      <4>1. nextRun'["FSCHECK"] = nextRun["FSCHECK"] + FsInterval
        BY <2>1, <3>1, <3>4 DEF JobNames, JobInterval
      <4>2. (k + 1) * FsInterval = (k * FsInterval) + FsInterval
            /\ k * FsInterval \in Int /\ k + 1 \in Int
        BY <2>1
      <4>3. M!East(Timezone, Daylight) \in Int
        BY <2>1, FirstMidnightOnGrid
      <4>4. nextRun'["FSCHECK"] = ((k + 1) * FsInterval) - M!East(Timezone, Daylight)
        BY <2>1, <3>3, <4>1, <4>2, <4>3
      <4> QED
        BY <4>2, <4>4 DEF MidnightInv
    <3>5. CASE j # "FSCHECK"
      <4>1. nextRun'["FSCHECK"] = nextRun["FSCHECK"]
        BY <2>1, <3>1, <3>5 DEF JobNames
      <4> QED
        BY <3>3, <4>1 DEF MidnightInv
    <3> QED
      BY <3>4, <3>5
  <2>6. CASE Build \/ Quiet \/ ServerAnswers
    <3>1. UNCHANGED schedVars
      BY <2>6, QuietFrame DEF Build, ServerAnswers, SendFrame
    <3> QED
      BY <2>2, <3>1 DEF schedVars
  <2>7. CASE \/ AuthAccepted \/ AuthRefused \/ Loop \/ SkipJob \/ RunReturns
             \/ SendReturned \/ Sleep
    <3>1. UNCHANGED <<m_jobs, nextRun>>
      BY <2>7 DEF AuthAccepted, AuthRefused, Loop, SkipJob, RunReturns, SendReturned, Sleep,
           schedVars, S!RunStart, S!RunSkip, S!RunReturn, S!jobVars
    <3> QED
      BY <2>2, <3>1
  <2>8. CASE ClockMoves \/ DiskChanges \/ UNCHANGED vars
    <3>1. UNCHANGED <<m_jobs, nextRun>>
      BY <2>8 DEF ClockMoves, DiskChanges, S!Tick, S!SetClockBack, S!jobVars, vars, schedVars
    <3> QED
      BY <2>2, <3>1
  <2> QED
    BY <2>3, <2>4, <2>5, <2>6, <2>7, <2>8 DEF Next, Program, Send, Main, Quiet
<1>3. FrameInv /\ MidnightInv => (m_jobs # <<>> => \A isdst \in 0..Daylight : NearMidnight(isdst))
  <2> SUFFICES ASSUME FrameInv, MidnightInv, m_jobs # <<>>, NEW isdst \in 0..Daylight
               PROVE  NearMidnight(isdst)
    OBVIOUS
  <2> DEFINE e    == M!East(Timezone, Daylight)
             east == M!East(Timezone, isdst)
             next == nextRun["FSCHECK"]
             off  == IF isdst = Daylight THEN 0 ELSE Hour
  <2>1. /\ FsInterval \in Nat \ {0} /\ e \in Int
        /\ off \in {0, Hour} /\ (isdst = Daylight => off = 0)
    BY ARMTAssumption, FirstMidnightOnGrid
  <2>2. off \in Int /\ east \in Int /\ off + east = e
    BY ARMTAssumption DEF M!East
  <2>3. PICK k \in Int : next = (k * FsInterval) - e
    BY DEF MidnightInv
  <2> HIDE DEF e, east, next, off
  <2>4. /\ next + off + east = (FsInterval * k) + 0
        /\ next + off + east \in Int /\ 0 \in 0..(FsInterval - 1)
    BY <2>1, <2>2, <2>3
  <2>5. (next + off + east) % FsInterval = 0
    BY <2>1, <2>4, Division
  <2> QED
    BY <2>1, <2>5 DEF NearMidnight, east, next
<1> QED
  BY <1>1, <1>2, <1>3, AlwaysInv, PTL DEF Spec

-----------------------------------------------------------------------------
(* The parts in the whole                                                  *)

\* main gives its scheduler jobs as CScheduler asks for them.
LEMMA JobsFit == JobInterval \in [JobNames -> Nat \ {0}] /\ Nat \subseteq Nat
                 /\ MaxTime \in Nat /\ MaxSetBacks \in Nat
BY ARMTAssumption DEF JobInterval, JobNames

\* The steps that the scheduler has no part in.
LEMMA ScheduleStays ==
  ASSUME \/ Build \/ Quiet \/ ServerAnswers
         \/ AuthAccepted \/ AuthRefused \/ SendReturned \/ Sleep
         \/ DiskChanges \/ UNCHANGED vars
  PROVE  UNCHANGED schedVars
<1>1. CASE Build \/ ServerAnswers
  BY <1>1 DEF Build, ServerAnswers, SendFrame
<1>2. CASE Quiet
  BY <1>2, QuietFrame
<1>3. CASE AuthAccepted \/ AuthRefused \/ SendReturned \/ Sleep
  BY <1>3 DEF AuthAccepted, AuthRefused, SendReturned, Sleep
<1>4. CASE DiskChanges \/ UNCHANGED vars
  BY <1>4 DEF DiskChanges, vars
<1> QED
  BY <1>1, <1>2, <1>3, <1>4

\* main adds each job once and outside a pass, and calls Run only between passes.
LEMMA StepSchedules ==
  ASSUME FrameInv, [Next]_vars
  PROVE  [SP!Next]_SP!vars
<1> USE DEF SP!clockVars, SP!passVars, SP!jobVars, S!clockVars, S!passVars, S!jobVars
<1>1. CASE AddFSCheck
  <2>1. "FSCHECK" \in JobNames /\ M!FirstMidnight(now, Timezone, Daylight) \in Nat
    <3>1. now \in Nat
      BY ARMTAssumption DEF FrameInv, JobsInv
    <3> QED
      BY <3>1, FirstMidnightIsNat DEF JobNames
  <2>2. SP!AddJob("FSCHECK", M!FirstMidnight(now, Timezone, Daylight))
    BY <1>1 DEF AddFSCheck, S!AddJob, SP!AddJob, S!Added, SP!Added
  <2> QED
    BY <2>1, <2>2 DEF SP!Next
<1>2. CASE AddDiskCheck
  <2>1. "DISKCHECK" \in JobNames /\ now \in Nat
    BY ARMTAssumption DEF FrameInv, JobsInv, JobNames
  <2>2. SP!AddJob("DISKCHECK", now)
    BY <1>2 DEF AddDiskCheck, S!AddJob, SP!AddJob, S!Added, SP!Added
  <2> QED
    BY <2>1, <2>2 DEF SP!Next
<1>3. CASE Loop
  BY <1>3 DEF Loop, S!RunStart, SP!RunStart, SP!Run, SP!Next
<1>4. CASE SkipJob
  BY <1>4 DEF SkipJob, S!RunSkip, SP!RunSkip, S!InPass, SP!InPass, S!Due, SP!Due, SP!Run, SP!Next
<1>5. CASE ExecuteJob
  BY <1>5 DEF ExecuteJob, S!RunExecute, SP!RunExecute, S!InPass, SP!InPass, S!Due, SP!Due,
       SP!Run, SP!Next
<1>6. CASE RunReturns
  BY <1>6 DEF RunReturns, S!RunReturn, SP!RunReturn, SP!Run, SP!Next
<1>7. CASE ClockMoves
  BY <1>7 DEF ClockMoves, S!Tick, SP!Tick, S!SetClockBack, SP!SetClockBack, SP!Next
<1>8. CASE UNCHANGED schedVars
  BY <1>8 DEF schedVars, SP!vars
<1> QED
  BY <1>1, <1>2, <1>3, <1>4, <1>5, <1>6, <1>7, <1>8, ScheduleStays
     DEF Next, Program, Send, Main, Quiet

\* The program's jobs run as CScheduler promises: none of their slots is skipped or
\* repeated, and a pass runs just the jobs that were due at its start, while
\* messages are sent in between and the clock does what it likes (main with
\* CScheduler::Run).
THEOREM ScheduleCorrect == Spec => [](S!TypeOK /\ S!GridKept /\ S!PassExact)
<1>1. Init => SP!Init
  BY DEF Init, S!Init, SP!Init
<1>2. FrameInv /\ [Next]_vars => [SP!Next]_SP!vars
  BY StepSchedules
<1>3. Spec => SP!Spec
  BY <1>1, <1>2, AlwaysInv, PTL DEF Spec, SP!Spec
<1>4. SP!Spec => []SP!TypeOK /\ []SP!GridKept /\ []SP!PassExact
  BY JobsFit, SP!TypeCorrect, SP!GridKeptCorrect, SP!PassExactCorrect
<1>5. SP!TypeOK /\ SP!GridKept /\ SP!PassExact => S!TypeOK /\ S!GridKept /\ S!PassExact
  BY DEF SP!TypeOK, SP!GridKept, SP!PassExact, SP!Added, S!TypeOK, S!GridKept, S!PassExact, S!Added
<1> QED
  BY <1>3, <1>4, <1>5, PTL

\* ARMT's constants fit CHTTP.
LEMMA ConnectionFits ==
  /\ ReqLen \in Nat \ {0}
  /\ HeadLen \in Nat \ {0}
  /\ RespLen \in Nat /\ HeadLen <= RespLen
  /\ MaxFD \in Nat
  /\ {Accepted, ErrorCode} \subseteq Nat \ {0}
  /\ Garbage \notin {Accepted, ErrorCode} /\ NoReply \notin {Accepted, ErrorCode}
  /\ Garbage # NoReply
  /\ {1} \subseteq Nat \ {0}
BY ARMTAssumption DEF Accepted

\* The part of CHTTP's invariant that does not speak of error, which is main's
\* result and changes between the calls too.
ConnectionInv ==
  HP!TypeOK /\ HP!Stage /\ HP!DescriptorsKept /\ HP!SocketsAccounted /\ HP!WireInOrder

\* The actions of Connect and Disconnect are those CHTTPProofs speaks of.
LEMMA ConnectActions ==
  /\ H!ConnectRefused => HP!ConnectRefused
  /\ H!ConnectFails => HP!ConnectFails
  /\ H!ConnectOpens => HP!ConnectOpens
  /\ H!HandshakeFails => HP!HandshakeFails
  /\ H!HandshakeDone => HP!HandshakeDone
  /\ H!CertificateRejected => HP!CertificateRejected
  /\ H!ConnectSucceeds => HP!ConnectSucceeds
  /\ H!Disconnect => HP!Disconnect
<1> USE DEF H!Returns, HP!Returns, H!object, HP!object, H!fdTable, HP!fdTable,
     H!exchange, HP!exchange, H!FDs, HP!FDs, H!NoFD, HP!NoFD, H!Lowest, HP!Lowest,
     H!Disconnected, HP!Disconnected, H!Parsable, HP!Parsable
<1>1. H!ConnectRefused => HP!ConnectRefused
  BY DEF H!ConnectRefused, HP!ConnectRefused
<1>2. H!ConnectFails => HP!ConnectFails
  BY DEF H!ConnectFails, HP!ConnectFails
<1>3. H!ConnectOpens => HP!ConnectOpens
  BY DEF H!ConnectOpens, HP!ConnectOpens
<1>4. H!HandshakeFails => HP!HandshakeFails
  BY DEF H!HandshakeFails, HP!HandshakeFails
<1>5. H!HandshakeDone => HP!HandshakeDone
  BY DEF H!HandshakeDone, HP!HandshakeDone
<1>6. H!CertificateRejected => HP!CertificateRejected
  BY DEF H!CertificateRejected, HP!CertificateRejected
<1>7. H!ConnectSucceeds => HP!ConnectSucceeds
  BY DEF H!ConnectSucceeds, HP!ConnectSucceeds
<1>8. H!Disconnect => HP!Disconnect
  BY DEF H!Disconnect, HP!Disconnect
<1> QED
  BY <1>1, <1>2, <1>3, <1>4, <1>5, <1>6, <1>7, <1>8

\* So are those of PerformRequest.
LEMMA RequestActions ==
  /\ H!RequestStart => HP!RequestStart
  /\ H!WriteSome => HP!WriteSome
  /\ H!WriteFails => HP!WriteFails
  /\ H!WriteDone => HP!WriteDone
  /\ H!ReadSome => HP!ReadSome
  /\ H!ReadClosed => HP!ReadClosed
  /\ H!ReadFails => HP!ReadFails
  /\ H!Parse => HP!Parse
<1> USE DEF H!Returns, HP!Returns, H!object, HP!object, H!fdTable, HP!fdTable,
     H!exchange, HP!exchange, H!FDs, HP!FDs, H!NoFD, HP!NoFD, H!Lowest, HP!Lowest,
     H!Disconnected, HP!Disconnected, H!Parsable, HP!Parsable
<1>1. H!RequestStart => HP!RequestStart
  BY DEF H!RequestStart, HP!RequestStart
<1>2. H!WriteSome => HP!WriteSome
  BY DEF H!WriteSome, HP!WriteSome
<1>3. H!WriteFails => HP!WriteFails
  BY DEF H!WriteFails, HP!WriteFails
<1>4. H!WriteDone => HP!WriteDone
  BY DEF H!WriteDone, HP!WriteDone
<1>5. H!ReadSome => HP!ReadSome
  BY DEF H!ReadSome, HP!ReadSome
<1>6. H!ReadClosed => HP!ReadClosed
  BY DEF H!ReadClosed, HP!ReadClosed
<1>7. H!ReadFails => HP!ReadFails
  BY DEF H!ReadFails, HP!ReadFails
<1>8. H!Parse => HP!Parse
  BY DEF H!Parse, HP!Parse
<1> QED
  BY <1>1, <1>2, <1>3, <1>4, <1>5, <1>6, <1>7, <1>8

\* Send takes CHTTP's steps, main disconnects at its end, and all else leaves
\* CHTTP alone but for result, which it sets to 0 or forges.
LEMMA StepConnects ==
  ASSUME [Next]_vars
  PROVE  \/ [HP!Next]_HP!vars
         \/ UNCHANGED httpVars /\ result' \in {0, Accepted}
<1>1. HP!Connect \/ HP!Disconnect \/ HP!PerformRequest => HP!Next
  BY DEF HP!Next
<1>2. UNCHANGED <<httpVars, result>> => UNCHANGED HP!vars
  BY DEF httpVars, HP!vars, HP!object, HP!fdTable, HP!exchange
<1>3. CASE Send
  <2>1. CASE Build
    BY <1>2, <2>1 DEF Build
  <2>2. CASE ConnectFails \/ ConnectOpens
    BY <1>1, <2>2, ConnectActions DEF ConnectFails, ConnectOpens, HP!Connect
  <2>3. CASE HandshakeFails \/ HandshakeDone \/ ConnectSucceeds
    BY <1>1, <2>3, ConnectActions DEF HandshakeFails, HandshakeDone, ConnectSucceeds, HP!Connect
  <2>4. CASE SignFails
    BY <1>2, <2>4 DEF SignFails
  <2>5. CASE Sign \/ Exchange \/ ServerAnswers
    BY <1>1, <2>5, RequestActions DEF Sign, Exchange, ServerAnswers, HP!PerformRequest
  <2>6. CASE RequestFails \/ RequestReturns
    BY <1>1, <2>6, RequestActions DEF RequestFails, RequestReturns, HP!PerformRequest
  <2> QED
    BY <1>3, <2>1, <2>2, <2>3, <2>4, <2>5, <2>6 DEF Send
<1>4. CASE Main
  <2>1. CASE AuthRefused
    BY <1>1, <2>1, ConnectActions DEF AuthRefused
  <2>2. CASE RunReturns
    BY <1>2, <2>2 DEF RunReturns
  <2>3. CASE AuthAccepted \/ AddFSCheck \/ AddDiskCheck
    BY <1>2, <2>3 DEF AuthAccepted, AddFSCheck, AddDiskCheck
  <2>4. CASE Loop \/ SkipJob \/ ExecuteJob
    BY <1>2, <2>4 DEF Loop, SkipJob, ExecuteJob
  <2>5. CASE SendReturned \/ Sleep
    BY <1>2, <2>5 DEF SendReturned, Sleep
  <2> QED
    BY <1>4, <2>1, <2>2, <2>3, <2>4, <2>5 DEF Main
<1>5. CASE ClockMoves \/ DiskChanges
  BY <1>2, <1>5 DEF ClockMoves, DiskChanges, EnvFrame
<1>6. CASE UNCHANGED vars
  BY <1>2, <1>6 DEF vars
<1> QED
  BY <1>3, <1>4, <1>5, <1>6 DEF Next, Program

\* Every step keeps what is true of the connection.
LEMMA ConnectionStays ==
  ASSUME ConnectionInv, [Next]_vars
  PROVE  ConnectionInv'
<1> USE DEF ConnectionInv
<1>1. CASE [HP!Next]_HP!vars
  <2>1. HP!TypeOK'
    BY <1>1, ConnectionFits, HP!TypeObject, HP!TypeFlags, HP!TypeControl, HP!TypeExchange
       DEF HP!TypeOK, HP!FDs
  <2>2. HP!Stage'
    BY <1>1, ConnectionFits, HP!StageKept
  <2>3. HP!DescriptorsKept'
    BY <1>1, ConnectionFits, HP!DescriptorsStay
  <2>4. HP!SocketsAccounted'
    BY <1>1, ConnectionFits, HP!SocketsStay
  <2>5. HP!WireInOrder'
    BY <1>1, ConnectionFits, HP!WireStays
  <2> QED
    BY <2>1, <2>2, <2>3, <2>4, <2>5
<1>2. CASE UNCHANGED httpVars /\ result' \in {0, Accepted}
  <2>1. UNCHANGED httpVars
    BY <1>2
  <2>2. HP!TypeOK'
    BY <1>2 DEF HP!TypeOK, HP!FDs, httpVars
  <2>3. HP!Stage' /\ HP!WireInOrder'
    BY <2>1 DEF HP!Stage, HP!WireInOrder, httpVars
  <2>4. HP!DescriptorsKept' /\ HP!SocketsAccounted'
    BY <2>1 DEF HP!DescriptorsKept, HP!SocketsAccounted, HP!Holding, httpVars
  <2> QED
    BY <2>2, <2>3, <2>4
<1> QED
  BY <1>1, <1>2, StepConnects

\* The connection the program sends with is as sound as CHTTP's alone, though
\* main reuses its result between the calls and gives up after a failed
\* signature: Send closes no descriptor but its own socket's, loses no socket
\* but those of failed handshakes, and writes the message in order
\* (CMessageBuilder::Send with CHTTP).
THEOREM ConnectionCorrect ==
  Spec => [](H!TypeOK /\ H!DescriptorsKept /\ H!SocketsAccounted /\ H!WireInOrder)
<1>1. Init => ConnectionInv
  <2>1. Init => HP!Init
    BY DEF Init, H!Init, HP!Init, H!FDs, HP!FDs, H!NoFD, HP!NoFD
  <2>2. HP!Init => HP!IInv
    BY ConnectionFits, HP!Inductive
  <2> QED
    BY <2>1, <2>2 DEF HP!IInv, ConnectionInv
<1>2. ConnectionInv /\ [Next]_vars => ConnectionInv'
  BY ConnectionStays
<1>3. ConnectionInv => H!TypeOK /\ H!DescriptorsKept /\ H!SocketsAccounted /\ H!WireInOrder
  <2>1. HP!TypeOK => H!TypeOK
    <3>1. HP!Results = H!Results /\ HP!FDs = H!FDs /\ HP!NoFD = H!NoFD
      BY Zenon DEF HP!Results, H!Results, HP!FDs, H!FDs, HP!NoFD, H!NoFD
    <3> QED
      BY <3>1 DEF HP!TypeOK, H!TypeOK
  <2>2. HP!DescriptorsKept /\ HP!SocketsAccounted => H!DescriptorsKept /\ H!SocketsAccounted
    BY DEF HP!DescriptorsKept, H!DescriptorsKept, HP!SocketsAccounted, H!SocketsAccounted,
         HP!Holding, H!Holding, HP!Cardinality, H!Cardinality
  <2>3. HP!WireInOrder => H!WireInOrder
    BY DEF HP!WireInOrder, H!WireInOrder
  <2> QED
    BY <2>1, <2>2, <2>3 DEF ConnectionInv
<1> QED
  BY <1>1, <1>2, <1>3, PTL DEF Spec

-----------------------------------------------------------------------------
(* Types                                                                   *)

\* The variables that are main's own and Send's.
OwnTypeOK ==
  /\ pc \in {"build", "connect", "connecting", "sign", "requesting", "sent",
             "addFS", "addDisk", "loop", "run", "sleep", "exit"}
  /\ authed \in BOOLEAN /\ sendOK \in BOOLEAN
  /\ faulting \in BOOLEAN /\ welcomed \in BOOLEAN
  /\ failures \in 0..MaxFailures

\* A failure is counted up to the bound.
LEMMA FailsType ==
  ASSUME NEW kind, Fails(kind), failures \in 0..MaxFailures
  PROVE  failures' \in 0..MaxFailures
BY ARMTAssumption DEF Fails

\* Every step of Send keeps the types of main's and Send's variables.
LEMMA SendTypes ==
  ASSUME OwnTypeOK, Send
  PROVE  OwnTypeOK'
<1> USE DEF OwnTypeOK, Goes, SendFrame, serverVars
<1>1. CASE Build
  BY <1>1 DEF Build
<1>2. CASE ConnectFails
  BY <1>2, FailsType DEF ConnectFails
<1>3. CASE ConnectOpens \/ HandshakeDone \/ ConnectSucceeds \/ Sign
  BY <1>3 DEF ConnectOpens, HandshakeDone, ConnectSucceeds, Sign
<1>4. CASE HandshakeFails \/ SignFails \/ RequestFails
  BY <1>4, FailsType DEF HandshakeFails, SignFails, RequestFails
<1>5. CASE Exchange
  BY <1>5, FailsType DEF Exchange
<1>6. CASE ServerAnswers
  BY <1>6, FailsType DEF ServerAnswers
<1>7. CASE RequestReturns
  <2>1. returned'.ok \in BOOLEAN
    BY <1>7 DEF RequestReturns, H!Parse, H!Returns, H!Parsable
  <2> QED
    BY <1>7, <2>1 DEF RequestReturns
<1> QED
  BY <1>1, <1>2, <1>3, <1>4, <1>5, <1>6, <1>7 DEF Send

\* So does every other step.
LEMMA OtherTypes ==
  ASSUME OwnTypeOK, Main \/ ClockMoves \/ DiskChanges \/ UNCHANGED vars
  PROVE  OwnTypeOK'
<1> USE DEF OwnTypeOK, Goes, MainFrame, serverVars
<1>1. CASE AuthAccepted \/ AuthRefused \/ SendReturned \/ Sleep
  BY <1>1 DEF AuthAccepted, AuthRefused, SendReturned, Sleep
<1>2. CASE AddFSCheck \/ AddDiskCheck
  BY <1>2 DEF AddFSCheck, AddDiskCheck
<1>3. CASE Loop \/ SkipJob \/ ExecuteJob \/ RunReturns
  BY <1>3 DEF Loop, SkipJob, ExecuteJob, RunReturns
<1>4. CASE ClockMoves \/ DiskChanges
  BY <1>4 DEF ClockMoves, DiskChanges, EnvFrame, msgVars
<1>5. CASE UNCHANGED vars
  BY <1>5 DEF vars, msgVars
<1> QED
  BY <1>1, <1>2, <1>3, <1>4, <1>5 DEF Main

\* The message holds AUTH and reports; what was packed of it stays as it was.
LEMMA BodyKept ==
  ASSUME FrameInv, body \subseteq Segments, [Next]_vars
  PROVE  body' \subseteq Segments
<1>1. m_segments \subseteq Segments
  BY DEF FrameInv, MessageInv, Taken, Reports, Segments, AUTH, Seg
<1>2. body' = body \/ body' \subseteq m_segments
  <2>1. CASE Build
    BY <2>1 DEF Build, WithData
  <2>2. CASE Send /\ ~Build
    BY <2>2 DEF Send, SendFrame, ConnectFails, ConnectOpens, HandshakeFails, HandshakeDone,
         ConnectSucceeds, SignFails, Sign, Exchange, ServerAnswers, RequestFails, RequestReturns
  <2>3. CASE Main
    BY <2>3 DEF Main, MainFrame, AuthAccepted, AuthRefused, AddFSCheck, AddDiskCheck,
         Loop, SkipJob, ExecuteJob, RunReturns, SendReturned, Sleep
  <2>4. CASE ClockMoves \/ DiskChanges \/ UNCHANGED vars
    BY <2>4 DEF ClockMoves, DiskChanges, EnvFrame, msgVars, vars
  <2> QED
    BY <2>1, <2>2, <2>3, <2>4 DEF Next, Program
<1> QED
  BY <1>1, <1>2

\* All variables of the program keep their types, those of the scheduler and of
\* the connection among them (main with all it composes).
THEOREM TypeCorrect == Spec => []TypeOK
<1> DEFINE Typed == OwnTypeOK /\ body \subseteq Segments
<1>1. Init => Typed
  <2>1. 0 \in 0..MaxFailures
    BY ARMTAssumption
  <2> QED
    BY <2>1, Zenon DEF Init, OwnTypeOK
<1>2. FrameInv /\ Typed /\ [Next]_vars => Typed'
  BY SendTypes, OtherTypes, BodyKept DEF Next, Program
<1>3. Spec => []Typed
  <2> HIDE DEF Typed
  <2> QED
    BY <1>1, <1>2, AlwaysInv, PTL DEF Spec
<1>4. FrameInv => m_segments \subseteq Segments /\ inbox \in Seq(SUBSET Segments)
  <2> SUFFICES ASSUME FrameInv PROVE m_segments \subseteq Segments /\ inbox \in Seq(SUBSET Segments)
    OBVIOUS
  <2>1. Reports \subseteq Segments /\ AUTH \in Segments
    BY DEF Reports, Segments, AUTH, Seg
  <2>2. m_segments \subseteq {AUTH} \cup Reports
    BY DEF FrameInv, MessageInv, Taken
  <2>3. inbox \in Seq(SUBSET Reports)
    BY DEF FrameInv, InboxInv
  <2> QED
    BY <2>1, <2>2, <2>3
<1>5. S!TypeOK /\ H!TypeOK /\ Typed /\ FrameInv => TypeOK
  BY <1>4 DEF TypeOK, OwnTypeOK
<1> QED
  BY <1>3, <1>5, AlwaysInv, ScheduleCorrect, ConnectionCorrect, PTL
=============================================================================
