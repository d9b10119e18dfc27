---------------------------- MODULE MCScanService ----------------------------
(***************************************************************************)
(* A library with two directories, which share the loops and the channels, *)
(* and a path outside of it; channels of one event, so that notify drops.  *)
(***************************************************************************)
EXTENDS ScanService

CONSTANTS d1, d2, lib

OneLibrary == [d \in Dir |-> lib]
=============================================================================
