------------------------------ MODULE MCCHTTP -------------------------------
(* CHTTP over the record layer, for TLC: a request of two records and a      *)
(* reply in up to three.                                                     *)
EXTENDS SSLRecords

MCCodes == {202, 500}
=============================================================================
