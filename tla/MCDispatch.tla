----------------------------- MODULE MCDispatch -----------------------------
(***************************************************************************)
(* Instances of the dispatcher: Musixmatch first, then a fallback lane.    *)
(***************************************************************************)
EXTENDS Dispatch

CONSTANTS mxm, petit

MCOrder == <<mxm, petit>>
=============================================================================
