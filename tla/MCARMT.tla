------------------------------- MODULE MCARMT -------------------------------
(* Instance of ARMT for TLC.                                                *)
EXTENDS ARMT

AllKinds == {"connect", "tls", "sign", "write", "read", "truncated", "answer"}

\* A Timezone cannot be written as a negative number in a .cfg.
OneEast == -1
=============================================================================
