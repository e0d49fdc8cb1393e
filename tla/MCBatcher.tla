----------------------------- MODULE MCBatcher -----------------------------
(***************************************************************************)
(* Instance of Batcher for TLC: seven results through a channel of two     *)
(* slots, so that the receiver can fall behind more than once, in batches  *)
(* of three with a deadline of two ticks, so that each of the three kinds  *)
(* of flush finds a full, a partial and an empty buffer.                   *)
(***************************************************************************)
EXTENDS Batcher
============================================================================
