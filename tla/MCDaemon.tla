------------------------------ MODULE MCDaemon ------------------------------
(***************************************************************************)
(* Instance of Daemon for TLC: two probes, one of which may block, three   *)
(* results in batches of up to two, so that a full batch, a partial one    *)
(* and a result still in the hub can coexist when the signal comes.        *)
(***************************************************************************)
EXTENDS Daemon

CONSTANTS p1, p2

MCProbes   == {p1, p2}
MCStubborn == {p2}
============================================================================
