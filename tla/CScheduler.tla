----------------------------- MODULE CScheduler -----------------------------
(***************************************************************************)
(* CScheduler (common/CScheduler.cc): recurring jobs run by polling the    *)
(* wall clock.  The object keeps only the vector of jobs; the time a job   *)
(* runs next is kept by the job itself (CMSGJob in armt.cc).               *)
(*                                                                         *)
(* One call of Run is a pass over the vector.  It samples the clock once,  *)
(* at its start, and the clock goes on while the pass runs, so a pass is   *)
(* several steps here: RunStart, one RunSkip or RunExecute per job, and    *)
(* RunReturn.                                                              *)
(***************************************************************************)
EXTENDS Integers, Sequences

CONSTANTS
  Jobs,         \* the ISchedulerJob objects
  Interval,     \* Interval[j] is what j's GetDelayInterval() returns
  FirstRuns,    \* the run times jobs are added with
  MaxTime,      \* bound: the clock stops here
  MaxSetBacks   \* bound: how often the wall clock is set back

ASSUME SchedulerAssumption ==
  /\ Interval \in [Jobs -> Nat \ {0}]
  /\ FirstRuns \subseteq Nat
  /\ MaxTime \in Nat
  /\ MaxSetBacks \in Nat

VARIABLES
  now,          \* what std::time(NULL) returns
  setBacks,     \* how often the wall clock was set back
  m_jobs,       \* the vector of jobs, in the order of AddJob
  nextRun,      \* nextRun[j] is what j's GetRunTime() returns
  iter,         \* 0 outside Run, else the position of the pass in m_jobs
  currentTime,  \* the clock as sampled at the start of the pass
  ran,          \* the return value of the pass
  first,        \* history: the run time j had when it was added
  runs,         \* history: how often j's Execute() was called
  passRuns      \* history: the jobs executed by the current pass

clockVars == <<now, setBacks>>
passVars  == <<iter, currentTime, ran, passRuns>>
jobVars   == <<m_jobs, nextRun, first, runs>>
vars      == <<clockVars, passVars, jobVars>>

Added == {m_jobs[i] : i \in 1..Len(m_jobs)}

-----------------------------------------------------------------------------
Init ==
  /\ now = 0
  /\ setBacks = 0
  /\ m_jobs = <<>>
  /\ nextRun = [j \in Jobs |-> 0]
  /\ iter = 0
  /\ currentTime = 0
  /\ ran = FALSE
  /\ first = [j \in Jobs |-> 0]
  /\ runs = [j \in Jobs |-> 0]
  /\ passRuns = {}

\* A second passes.
Tick ==
  /\ now < MaxTime
  /\ now' = now + 1
  /\ UNCHANGED <<setBacks, passVars, jobVars>>

\* The administrator or NTP sets the wall clock back.
SetClockBack ==
  /\ setBacks < MaxSetBacks
  /\ setBacks' = setBacks + 1
  /\ now' \in {t \in 0..MaxTime : t < now}
  /\ UNCHANGED <<passVars, jobVars>>

\* The caller hands over a job whose first run is at time t, outside Run and
\* only once (the destructor deletes every entry of the vector).
AddJob(j, t) ==
  /\ iter = 0
  /\ j \notin Added
  /\ m_jobs' = Append(m_jobs, j)
  /\ nextRun' = [nextRun EXCEPT ![j] = t]
  /\ first' = [first EXCEPT ![j] = t]
  /\ UNCHANGED <<clockVars, passVars, runs>>

\* Mutant: the flag of the previous pass survives.
RunStart_KeepsFlag ==
  /\ iter = 0
  /\ iter' = 1
  /\ currentTime' = now
  /\ passRuns' = {}
  /\ UNCHANGED <<clockVars, ran, jobVars>>

RunStart ==
  /\ iter = 0
  /\ iter' = 1
  /\ currentTime' = now
  /\ ran' = FALSE
  /\ passRuns' = {}
  /\ UNCHANGED <<clockVars, jobVars>>

\* The test a pass makes on the job it looks at.
Due(j) == nextRun[j] <= currentTime

InPass == iter \in 1..Len(m_jobs)

\* Mutant: break instead of continue.
RunSkip_Break ==
  /\ InPass
  /\ ~Due(m_jobs[iter])
  /\ iter' = Len(m_jobs) + 1
  /\ UNCHANGED <<clockVars, currentTime, ran, passRuns, jobVars>>

RunSkip ==
  /\ InPass
  /\ ~Due(m_jobs[iter])
  /\ iter' = iter + 1
  /\ UNCHANGED <<clockVars, currentTime, ran, passRuns, jobVars>>

\* Mutant: the next run is counted from the clock.
RunExecute_FromClock ==
  /\ InPass
  /\ LET j == m_jobs[iter]
     IN  /\ Due(j)
         /\ runs' = [runs EXCEPT ![j] = @ + 1]
         /\ nextRun' = [nextRun EXCEPT ![j] = currentTime + Interval[j]]
         /\ passRuns' = passRuns \cup {j}
  /\ ran' = TRUE
  /\ iter' = iter + 1
  /\ UNCHANGED <<clockVars, currentTime, m_jobs, first>>

\* Execute() and then SetRunTime(GetRunTime() + GetDelayInterval()): the next
\* run is counted from the run that was due, not from the clock.
RunExecute ==
  /\ InPass
  /\ LET j == m_jobs[iter]
     IN  /\ Due(j)
         /\ runs' = [runs EXCEPT ![j] = @ + 1]
         /\ nextRun' = [nextRun EXCEPT ![j] = @ + Interval[j]]
         /\ passRuns' = passRuns \cup {j}
  /\ ran' = TRUE
  /\ iter' = iter + 1
  /\ UNCHANGED <<clockVars, currentTime, m_jobs, first>>

RunReturn ==
  /\ iter = Len(m_jobs) + 1
  /\ iter' = 0
  /\ UNCHANGED <<clockVars, currentTime, ran, passRuns, jobVars>>

Run == RunStart \/ RunSkip \/ RunExecute \/ RunReturn

Next ==
  \/ Tick
  \/ SetClockBack
  \/ \E j \in Jobs, t \in FirstRuns : AddJob(j, t)
  \/ Run

Spec == Init /\ [][Next]_vars

\* The main loop of armt.cc calls Run for ever.
Fairness == WF_vars(Run)

FairSpec == Spec /\ Fairness

-----------------------------------------------------------------------------
TypeOK ==
  /\ now \in 0..MaxTime
  /\ setBacks \in 0..MaxSetBacks
  /\ m_jobs \in Seq(Jobs)
  /\ nextRun \in [Jobs -> Nat]
  /\ iter \in 0..(Len(m_jobs) + 1)
  /\ currentTime \in 0..MaxTime
  /\ ran \in BOOLEAN
  /\ first \in [Jobs -> Nat]
  /\ runs \in [Jobs -> Nat]
  /\ passRuns \subseteq Jobs

\* Whatever the clock does (passes that come late, a clock set back), a job
\* runs once for each slot first, first + interval, first + 2 * interval ...
\* and skips or repeats none: FSCHECK stays at the same hour of the day.
GridKept ==
  \A j \in Added : nextRun[j] = first[j] + runs[j] * Interval[j]

\* "Run's any jobs that need running; @return True if any jobs ran"
\* (CScheduler.h): at every point of a pass the jobs it has passed were
\* executed exactly if they were due when it sampled the clock, however far
\* the clock moved since; no job it has still to reach was, and the flag it
\* will return says whether any was.
PassExact ==
  iter # 0 =>
    /\ \A k \in 1..Len(m_jobs) :
         LET j == m_jobs[k]
         IN  IF j \in passRuns
             THEN k < iter /\ nextRun[j] - Interval[j] <= currentTime
             ELSE k < iter => nextRun[j] > currentTime
    /\ ran = (passRuns # {})

\* Once the clock stands still the backlog that built up while passes were
\* late is worked off, one run per pass, and no job is left due.
CaughtUp ==
  \A j \in Jobs : <>[](j \in Added => nextRun[j] > now)
=============================================================================
