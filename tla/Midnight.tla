------------------------------ MODULE Midnight ------------------------------
(***************************************************************************)
(* The first run time of FSCHECK, as main (armt.cc) computes it from       *)
(* time(NULL) and the timezone and daylight variables tzset() sets.        *)
(***************************************************************************)
EXTENDS Integers

CONSTANTS
  Day,   \* the length of a day in the unit of the clock, 86400 in armt.cc
  Hour   \* what daylight saving adds, 3600 in armt.cc

ASSUME MidnightAssumption == Day \in Nat \ {0} /\ Hour \in 0..Day

\* Mutant: the sign of timezone, which counts seconds west of Greenwich.
FirstMidnight_East(now, timezone, daylight) ==
  ((now - (now % Day)) + Day) - (timezone - (daylight * Hour))

\* timezone is the standard time's; daylight is 1 if the zone ever has
\* daylight saving time, not if it has it now.
FirstMidnight(now, timezone, daylight) ==
  (now - (now % Day)) + Day + (timezone - (daylight * Hour))

-----------------------------------------------------------------------------
\* What a clock on the wall of the server adds to GMT, when daylight saving
\* time is in effect (isdst = 1) or not (isdst = 0).
East(timezone, isdst) == (isdst * Hour) - timezone

\* The next time the date changes on that clock.
MidnightTonight(now, timezone, isdst) ==
  LET east == East(timezone, isdst)
  IN  ((((now + east) \div Day) + 1) * Day) - east

\* A time that is within a day and an hour of tonight's midnight, within the
\* hour if the date is the same as in Greenwich, and at a midnight of the
\* server's clock if that is on the time that its zone's rules name.
NearMidnight(time, now, timezone, daylight, isdst) ==
  LET tonight == MidnightTonight(now, timezone, isdst)
      off     == time - tonight
  IN  /\ off \in (-(Day + Hour))..Day
      /\ now \div Day = (now + East(timezone, isdst)) \div Day => off \in (-Hour)..0
      /\ isdst = daylight => off \in {-Day, 0, Day}
=============================================================================
