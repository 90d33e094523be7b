---------------------------- MODULE MCCScheduler ----------------------------
(* Instance of CScheduler for TLC: the two jobs of armt.cc, with intervals  *)
(* short enough for several slots of both to pass before MaxTime.           *)
EXTENDS CScheduler

MCInterval == [FSCHECK |-> 3, DISKCHECK |-> 1]
=============================================================================
