----------------------------- MODULE Reporting ------------------------------
(***************************************************************************)
(* What ARMT promises the server, without connection, schedule or memory   *)
(* layout: nothing is delivered before the server has accepted the client, *)
(* every report is taken once, delivered at most once, and only while it   *)
(* is owed; a report that could not be delivered is given up.              *)
(***************************************************************************)
EXTENDS Integers, Sequences

CONSTANT Reports  \* the reports there can be: one per job and slot

VARIABLES
  session,  \* "new", "open" once the server accepted the client, "refused"
  taken,    \* the reports taken so far
  owed,     \* those taken and neither delivered nor given up
  inbox     \* what the server accepted: a sequence of sets of reports

vars == <<session, taken, owed, inbox>>

Init ==
  /\ session = "new"
  /\ taken = {} /\ owed = {}
  /\ inbox = <<>>

Accept ==
  /\ session = "new"
  /\ session' = "open"
  /\ UNCHANGED <<taken, owed, inbox>>

Refuse ==
  /\ session = "new"
  /\ session' = "refused"
  /\ UNCHANGED <<taken, owed, inbox>>

\* A job comes due.
Take(r) ==
  /\ session = "open"
  /\ r \notin taken
  /\ taken' = taken \cup {r}
  /\ owed' = owed \cup {r}
  /\ UNCHANGED <<session, inbox>>

\* The server accepts one message with the reports D.
Deliver(D) ==
  /\ session = "open"
  /\ D # {} /\ D \subseteq owed
  /\ inbox' = Append(inbox, D)
  /\ owed' = owed \ D
  /\ UNCHANGED <<session, taken>>

\* What is still owed when the next round begins is dropped.
GiveUp ==
  /\ owed # {}
  /\ owed' = {}
  /\ UNCHANGED <<session, taken, inbox>>

Next ==
  \/ Accept \/ Refuse
  \/ \E r \in Reports : Take(r)
  \/ \E D \in SUBSET Reports : Deliver(D)
  \/ GiveUp

Spec == Init /\ [][Next]_vars

-----------------------------------------------------------------------------
TypeOK ==
  /\ session \in {"new", "open", "refused"}
  /\ taken \subseteq Reports
  /\ owed \subseteq taken
  /\ inbox \in Seq(SUBSET Reports)

\* The server gets a report at most once, one that was taken and is no longer
\* owed, and nothing from a client it has not accepted.
AtMostOnce ==
  /\ \A i \in 1..Len(inbox) : inbox[i] \subseteq taken \ owed
  /\ \A i, k \in 1..Len(inbox) : i # k => inbox[i] \cap inbox[k] = {}
  /\ inbox # <<>> => session = "open"
=============================================================================
