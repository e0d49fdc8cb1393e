---------------------------- MODULE MCDashboard ----------------------------
(***************************************************************************)
(* Instance of Dashboard for TLC: two probes, four results, and channels   *)
(* of two slots, so that the event loop and the page can each fall behind, *)
(* two results of one probe can be in flight beside one of the other, and  *)
(* the page can lose its stream once.                                      *)
(***************************************************************************)
EXTENDS Dashboard

CONSTANTS p1, p2

MCProbes == {p1, p2}
============================================================================
