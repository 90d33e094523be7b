------------------------------ MODULE MCHelpers ------------------------------
(***************************************************************************)
(* The helpers of common/ that loop over a pipe or a stream, RunCommand    *)
(* and CCompress, in the one thread that calls them: DISKCHECK runs its    *)
(* commands and Send compresses what it packed, in any order but never one *)
(* within the other.  The commands and what they leave behind go on.       *)
(***************************************************************************)
EXTENDS RunCommand, CCompress

\* Deflate or Inflate has been called and has not returned.
Compressing == pos > 0 \/ cpc = "call"
Returned    == cpc = "done"

HelpersInit == Init /\ CompressInit

CallsCommand   == (Returned \/ ~Compressing) /\ Parent /\ UNCHANGED stream
CallsCompress  == ppc = "idle" /\ CompressNext /\ UNCHANGED vars
CommandGoesOn  == Command /\ UNCHANGED stream

HelpersNext == CallsCommand \/ CallsCompress \/ CommandGoesOn

\* The processes are scheduled: a call that has begun goes on, and the input is
\* compressed some time when no command runs.  The command ends, and what it
\* starts ends, unless they are blocked: the utilities do, and RunCommand has no
\* timeout for one that would not.
HelpersSpec ==
  /\ HelpersInit /\ [][HelpersNext]_<<vars, stream>>
  /\ WF_<<vars, stream>>(ppc # "idle" /\ CallsCommand)
  /\ WF_<<vars, stream>>(CallsCompress)
  /\ WF_<<vars, stream>>(Exits /\ NotBlocked /\ UNCHANGED stream)
  /\ WF_<<vars, stream>>(LateExits /\ NotBlocked /\ UNCHANGED stream)
=============================================================================
