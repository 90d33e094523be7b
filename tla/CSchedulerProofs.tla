-------------------------- MODULE CSchedulerProofs --------------------------
(***************************************************************************)
(* Proofs about CScheduler, for every set of jobs, all intervals and any   *)
(* behaviour of the clock: its types, GridKept and PassExact.              *)
(***************************************************************************)
EXTENDS CScheduler, TLAPS

\* The vector holds a job once.  Without it GridKept and PassExact are not
\* inductive: a job at two positions would run twice in a pass.
AddedOnce ==
  \A i, k \in 1..Len(m_jobs) : m_jobs[i] = m_jobs[k] => i = k

\* A job that was not added has not run: what AddJob starts from.
NotAddedNotRun ==
  \A j \in Jobs \ Added : runs[j] = 0

IInv == TypeOK /\ AddedOnce /\ NotAddedNotRun /\ GridKept /\ PassExact

-----------------------------------------------------------------------------
\* One more run moves the grid by one interval.
LEMMA OneMoreSlot ==
  ASSUME NEW f \in Nat, NEW r \in Nat, NEW i \in Nat
  PROVE  (f + r * i) + i = f + (r + 1) * i
  OBVIOUS

\* The initial state satisfies the inductive invariant.
LEMMA InitIInv == Init => IInv
<1> SUFFICES ASSUME Init PROVE IInv
  OBVIOUS
<1>1. Added = {}
  BY DEF Init, Added
<1>2. TypeOK
  <2>1. m_jobs \in Seq(Jobs) /\ Len(m_jobs) = 0
    BY DEF Init
  <2>2. /\ nextRun \in [Jobs -> Nat]
        /\ first \in [Jobs -> Nat]
        /\ runs \in [Jobs -> Nat]
    BY DEF Init
  <2>3. now \in 0..MaxTime /\ currentTime \in 0..MaxTime /\ setBacks \in 0..MaxSetBacks
    BY SchedulerAssumption DEF Init
  <2>4. iter \in 0..(Len(m_jobs) + 1)
    BY <2>1 DEF Init
  <2>5. ran \in BOOLEAN /\ passRuns \subseteq Jobs
    BY DEF Init
  <2> QED BY <2>1, <2>2, <2>3, <2>4, <2>5 DEF TypeOK
<1>3. AddedOnce /\ PassExact
  BY DEF Init, AddedOnce, PassExact
<1>4. NotAddedNotRun /\ GridKept
  BY <1>1 DEF Init, NotAddedNotRun, GridKept
<1> QED BY <1>2, <1>3, <1>4 DEF IInv

\* AddJob puts the new job at the end and leaves the others where they are.
LEMMA AddJobVector ==
  ASSUME NEW j \in Jobs, m_jobs \in Seq(Jobs), m_jobs' = Append(m_jobs, j)
  PROVE  /\ m_jobs' \in Seq(Jobs)
         /\ Len(m_jobs') = Len(m_jobs) + 1
         /\ \A i \in 1..Len(m_jobs) : m_jobs'[i] = m_jobs[i]
         /\ m_jobs'[Len(m_jobs) + 1] = j
         /\ Added' = Added \cup {j}
  BY DEF Added

\* The clock moves outside the control of the scheduler.
LEMMA ClockIInv == IInv /\ (Tick \/ SetClockBack) => IInv'
<1> SUFFICES ASSUME IInv, Tick \/ SetClockBack PROVE IInv'
  OBVIOUS
<1>1. UNCHANGED <<passVars, jobVars>>
  BY DEF Tick, SetClockBack
<1>2. now' \in 0..MaxTime /\ setBacks' \in 0..MaxSetBacks
  BY SchedulerAssumption DEF IInv, TypeOK, Tick, SetClockBack
<1>3. TypeOK'
  BY <1>1, <1>2 DEF IInv, TypeOK, passVars, jobVars
<1>4. Added' = Added
  BY <1>1 DEF Added, jobVars
<1>5. AddedOnce' /\ NotAddedNotRun' /\ GridKept' /\ PassExact'
  BY <1>1, <1>4
  DEF IInv, AddedOnce, NotAddedNotRun, GridKept, PassExact, passVars, jobVars
<1> QED BY <1>3, <1>5 DEF IInv

\* AddJob preserves the inductive invariant.
LEMMA AddJobIInv ==
  ASSUME IInv, NEW j \in Jobs, NEW t \in FirstRuns, AddJob(j, t)
  PROVE  IInv'
<1> USE DEF clockVars, passVars
<1>1. /\ m_jobs' \in Seq(Jobs)
      /\ Len(m_jobs') = Len(m_jobs) + 1
      /\ \A i \in 1..Len(m_jobs) : m_jobs'[i] = m_jobs[i]
      /\ m_jobs'[Len(m_jobs) + 1] = j
      /\ Added' = Added \cup {j}
  BY AddJobVector DEF IInv, TypeOK, AddJob
<1>2. Len(m_jobs) \in Nat
  BY DEF IInv, TypeOK
<1>3. TypeOK'
  BY <1>1, <1>2, SchedulerAssumption DEF IInv, TypeOK, AddJob
<1>4. AddedOnce'
  BY <1>1, <1>2 DEF IInv, AddedOnce, AddJob, Added
<1>5. NotAddedNotRun'
  BY <1>1 DEF IInv, NotAddedNotRun, AddJob
<1>6. GridKept'
  <2> SUFFICES ASSUME NEW k \in Added'
               PROVE  nextRun'[k] = first'[k] + runs'[k] * Interval[k]
    BY DEF GridKept
  <2>1. CASE k = j
    <3>1. runs'[k] = 0 /\ nextRun'[k] = t /\ first'[k] = t
      BY <2>1 DEF IInv, TypeOK, NotAddedNotRun, AddJob
    <3> QED BY <2>1, <3>1, SchedulerAssumption
  <2>2. CASE k # j
    BY <1>1, <2>2 DEF IInv, TypeOK, GridKept, AddJob
  <2> QED BY <2>1, <2>2
<1>7. PassExact'
  BY DEF PassExact, AddJob
<1> QED BY <1>3, <1>4, <1>5, <1>6, <1>7 DEF IInv

\* RunStart preserves the inductive invariant: nothing is passed yet.
LEMMA RunStartIInv == IInv /\ RunStart => IInv'
<1> SUFFICES ASSUME IInv, RunStart PROVE IInv'
  OBVIOUS
<1> USE DEF clockVars, jobVars
<1>0. Len(m_jobs) \in Nat
  BY DEF IInv, TypeOK
<1>1. TypeOK'
  <2>1. ran' \in BOOLEAN /\ passRuns' \subseteq Jobs
    BY DEF RunStart
  <2>2. iter' \in 0..(Len(m_jobs) + 1) /\ currentTime' \in 0..MaxTime
    BY <1>0 DEF IInv, TypeOK, RunStart
  <2>3. UNCHANGED <<now, setBacks, m_jobs, nextRun, first, runs>>
    BY DEF RunStart
  <2> QED BY <2>1, <2>2, <2>3 DEF IInv, TypeOK
<1>2. AddedOnce' /\ NotAddedNotRun' /\ GridKept'
  BY DEF IInv, AddedOnce, NotAddedNotRun, GridKept, Added, RunStart
<1>3. PassExact'
  <2>1. ran' = (passRuns' # {})
    BY DEF RunStart
  <2>2. iter' = 1 /\ passRuns' = {} /\ m_jobs' = m_jobs
    BY DEF RunStart
  <2>3. \A k \in 1..Len(m_jobs) : ~(k < 1)
    BY <1>0
  <2> QED BY <2>1, <2>2, <2>3 DEF PassExact
<1> QED BY <1>1, <1>2, <1>3 DEF IInv

\* RunSkip preserves the inductive invariant: the job it passes is not due.
LEMMA RunSkipIInv == IInv /\ RunSkip => IInv'
<1> SUFFICES ASSUME IInv, RunSkip PROVE IInv'
  OBVIOUS
<1> USE DEF clockVars, jobVars
<1>1. iter \in Nat /\ Len(m_jobs) \in Nat /\ iter \in 1..Len(m_jobs)
  BY DEF IInv, TypeOK, RunSkip, InPass
<1>2. TypeOK'
  BY <1>1 DEF IInv, TypeOK, RunSkip
<1>3. AddedOnce' /\ NotAddedNotRun' /\ GridKept'
  BY DEF IInv, AddedOnce, NotAddedNotRun, GridKept, Added, RunSkip
<1>4. PassExact'
  <2>1. m_jobs[iter] \in Jobs /\ nextRun[m_jobs[iter]] > currentTime
    BY <1>1 DEF IInv, TypeOK, RunSkip, Due
  <2> QED BY <1>1, <2>1 DEF IInv, PassExact, RunSkip
<1> QED BY <1>2, <1>3, <1>4 DEF IInv

\* RunExecute preserves the inductive invariant: it moves the due job by one
\* slot and, the vector holding it once, no job the pass has already judged.
LEMMA RunExecuteIInv == IInv /\ RunExecute => IInv'
<1> SUFFICES ASSUME IInv, RunExecute PROVE IInv'
  OBVIOUS
<1> USE DEF clockVars
<1> DEFINE j == m_jobs[iter]
<1>1. /\ iter \in Nat
      /\ Len(m_jobs) \in Nat
      /\ iter \in 1..Len(m_jobs)
      /\ j \in Jobs
      /\ j \in Added
  <2>1. m_jobs \in Seq(Jobs) /\ iter \in 1..Len(m_jobs)
    BY DEF IInv, TypeOK, RunExecute, InPass
  <2>2. Len(m_jobs) \in Nat /\ m_jobs[iter] \in Jobs
    BY <2>1
  <2> QED BY <2>1, <2>2 DEF Added
<1>2. Interval[j] \in Nat /\ first[j] \in Nat /\ runs[j] \in Nat /\ nextRun[j] \in Nat
  BY <1>1, SchedulerAssumption DEF IInv, TypeOK
<1>3. /\ nextRun[j] <= currentTime
      /\ runs' = [runs EXCEPT ![j] = @ + 1]
      /\ nextRun' = [nextRun EXCEPT ![j] = @ + Interval[j]]
      /\ passRuns' = passRuns \cup {j}
  BY DEF RunExecute, Due
<1> HIDE DEF j
<1>4. TypeOK'
  <2>1. ran' \in BOOLEAN
    BY DEF RunExecute
  <2>2. passRuns' \subseteq Jobs
    BY <1>1, <1>3 DEF IInv, TypeOK
  <2>3. iter' \in 0..(Len(m_jobs) + 1)
    BY <1>1 DEF RunExecute
  <2>4. nextRun' \in [Jobs -> Nat] /\ runs' \in [Jobs -> Nat]
    <3>1. nextRun[j] + Interval[j] \in Nat /\ runs[j] + 1 \in Nat
      BY <1>2
    <3>2. nextRun \in [Jobs -> Nat] /\ runs \in [Jobs -> Nat]
      BY DEF IInv, TypeOK
    <3> QED BY <1>1, <1>3, <3>1, <3>2
  <2>5. UNCHANGED <<now, setBacks, currentTime, m_jobs, first>>
    BY DEF RunExecute
  <2> QED BY <2>1, <2>2, <2>3, <2>4, <2>5 DEF IInv, TypeOK
<1>5. AddedOnce'
  BY DEF IInv, AddedOnce, RunExecute
<1>6. NotAddedNotRun'
  BY <1>1, <1>3 DEF IInv, TypeOK, NotAddedNotRun, Added, RunExecute
<1>7. GridKept'
  <2> SUFFICES ASSUME NEW k \in Added
               PROVE  nextRun'[k] = first[k] + runs'[k] * Interval[k]
    BY DEF GridKept, Added, RunExecute
  <2>1. CASE k = j
    <3>1. nextRun'[j] = nextRun[j] + Interval[j] /\ runs'[j] = runs[j] + 1
      BY <1>1, <1>3 DEF IInv, TypeOK
    <3>2. nextRun[j] = first[j] + runs[j] * Interval[j]
      BY <1>1 DEF IInv, GridKept
    <3>3. (first[j] + runs[j] * Interval[j]) + Interval[j]
            = first[j] + (runs[j] + 1) * Interval[j]
      BY <1>2, OneMoreSlot
    <3> QED BY <2>1, <3>1, <3>2, <3>3
  <2>2. CASE k # j
    <3>1. nextRun'[k] = nextRun[k] /\ runs'[k] = runs[k]
      BY <1>3, <2>2 DEF IInv, TypeOK
    <3> QED BY <3>1 DEF IInv, GridKept
  <2> QED BY <2>1, <2>2
<1>8. PassExact'
  <2>1. ran' = (passRuns' # {})
    BY <1>3 DEF RunExecute
  <2>2. ASSUME NEW k \in 1..Len(m_jobs)
        PROVE  LET i == m_jobs[k]
               IN  IF i \in passRuns'
                   THEN k < iter + 1 /\ nextRun'[i] - Interval[i] <= currentTime
                   ELSE k < iter + 1 => nextRun'[i] > currentTime
    <3>1. m_jobs[k] \in Jobs /\ k \in Nat
      BY DEF IInv, TypeOK
    <3>2. CASE k = iter
      <4>1. m_jobs[k] = j /\ nextRun'[j] = nextRun[j] + Interval[j]
        BY <1>1, <1>3, <3>2 DEF IInv, TypeOK, j
      <4>2. currentTime \in Int
        BY SchedulerAssumption DEF IInv, TypeOK
      <4> QED BY <1>1, <1>2, <1>3, <3>2, <4>1, <4>2
    <3>3. CASE k # iter
      <4>1. m_jobs[k] # j
        BY <1>1, <3>3 DEF IInv, AddedOnce, j
      <4>2. nextRun'[m_jobs[k]] = nextRun[m_jobs[k]]
        BY <1>3, <3>1, <4>1 DEF IInv, TypeOK
      <4>3. m_jobs[k] \in passRuns' <=> m_jobs[k] \in passRuns
        BY <1>3, <4>1
      <4> QED BY <1>1, <3>1, <3>3, <4>2, <4>3 DEF IInv, PassExact
    <3> QED BY <3>2, <3>3
  <2> QED BY <2>1, <2>2 DEF PassExact, RunExecute
<1> QED BY <1>4, <1>5, <1>6, <1>7, <1>8 DEF IInv

\* RunReturn preserves the inductive invariant.
LEMMA RunReturnIInv == IInv /\ RunReturn => IInv'
  BY DEF IInv, TypeOK, AddedOnce, NotAddedNotRun, GridKept, PassExact, Added,
         RunReturn, clockVars, jobVars

\* Every step preserves the inductive invariant.
LEMMA NextIInv == IInv /\ [Next]_vars => IInv'
<1> SUFFICES ASSUME IInv, [Next]_vars PROVE IInv'
  OBVIOUS
<1>1. CASE Tick \/ SetClockBack
  BY <1>1, ClockIInv
<1>2. CASE \E j \in Jobs, t \in FirstRuns : AddJob(j, t)
  BY <1>2, AddJobIInv
<1>3. CASE Run
  BY <1>3, RunStartIInv, RunSkipIInv, RunExecuteIInv, RunReturnIInv DEF Run
<1>4. CASE UNCHANGED vars
  BY <1>4
  DEF IInv, TypeOK, AddedOnce, NotAddedNotRun, GridKept, PassExact, Added,
      vars, clockVars, passVars, jobVars
<1> QED BY <1>1, <1>2, <1>3, <1>4 DEF Next

LEMMA SpecIInv == Spec => []IInv
  BY InitIInv, NextIInv, PTL DEF Spec

-----------------------------------------------------------------------------
\* The variables keep their types (CScheduler::Run, CScheduler::AddJob).
THEOREM TypeCorrect == Spec => []TypeOK
  BY SpecIInv, PTL DEF IInv

\* No slot of a job is skipped or run twice, however late the passes come and
\* however the clock is set (SetRunTime(GetRunTime() + GetDelayInterval())).
THEOREM GridKeptCorrect == Spec => []GridKept
  BY SpecIInv, PTL DEF IInv

\* A pass runs exactly the jobs due when it sampled the clock and returns
\* whether there were any (the doc comment of CScheduler::Run).
THEOREM PassExactCorrect == Spec => []PassExact
  BY SpecIInv, PTL DEF IInv
=============================================================================
