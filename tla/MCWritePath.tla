---------------------------- MODULE MCWritePath ----------------------------
(***************************************************************************)
(* Instance of WritePath for TLC: four batches of 2, 1, 3 and 6 bytes      *)
(* against a budget of 4.  The third push evicts the first batch only, if  *)
(* it is still there; the fourth is larger than the whole budget and       *)
(* evicts whatever is there, up to two batches.                            *)
(***************************************************************************)
EXTENDS WritePath

MCOffset == <<0, 2, 3, 6, 12>>
============================================================================
