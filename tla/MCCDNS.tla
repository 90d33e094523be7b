------------------------------- MODULE MCCDNS -------------------------------
(* CDNS with the two resolvers of main, one of which may time out. *)
EXTENDS CDNS

MCTTLs == {0, 2}
=============================================================================
