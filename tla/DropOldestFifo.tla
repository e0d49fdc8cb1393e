--------------------------- MODULE DropOldestFifo ---------------------------
(***************************************************************************)
(* What the write buffer of huginn.io promises, without saying how: a FIFO *)
(* of batches with a byte budget.  A batch that does not fit makes room by *)
(* losing batches from the old end, one at a time and no more than needed; *)
(* a batch larger than the whole budget is still taken, alone.  Every      *)
(* batch handed over has exactly one fate: pending, finished (InfluxDB     *)
(* gave a verdict while the buffer still owned it) or lost.                *)
(*                                                                         *)
(* WritePath implements this specification (WritePath!Fifo).               *)
(***************************************************************************)
EXTENDS Naturals, Sequences

CONSTANTS
    NBatches,    \* batches are numbered 1..NBatches in the order they are handed over
    Offset,      \* Offset[b]: bytes handed over before batch b
    Capacity     \* the byte budget

VARIABLES
    sent,        \* the number of batches handed over so far
    pending,     \* the batches the buffer still owns, oldest first
    pendingBytes,\* their size
    lost,        \* batches given up to make room
    finished     \* batches taken from the old end after a verdict

fifoVars == <<sent, pending, pendingBytes, lost, finished>>

Size(b) == Offset[b + 1] - Offset[b]

FifoInit ==
    /\ sent = 0
    /\ pending = <<>>
    /\ pendingBytes = 0
    /\ lost = {}
    /\ finished = {}

\* The next batch fits beside what is pending, or nothing is pending.
Fits == pending = <<>> \/ pendingBytes + Size(sent + 1) <= Capacity

Send ==
    /\ sent < NBatches
    /\ Fits
    /\ sent' = sent + 1
    /\ pending' = Append(pending, sent + 1)
    /\ pendingBytes' = pendingBytes + Size(sent + 1)
    /\ UNCHANGED <<lost, finished>>

Lose ==
    /\ sent < NBatches
    /\ ~Fits
    /\ pending' = Tail(pending)
    /\ pendingBytes' = pendingBytes - Size(Head(pending))
    /\ lost' = lost \cup {Head(pending)}
    /\ UNCHANGED <<sent, finished>>

Finish ==
    /\ pending # <<>>
    /\ pending' = Tail(pending)
    /\ pendingBytes' = pendingBytes - Size(Head(pending))
    /\ finished' = finished \cup {Head(pending)}
    /\ UNCHANGED <<sent, lost>>

FifoNext == Send \/ Lose \/ Finish

FifoSpec == FifoInit /\ [][FifoNext]_fifoVars
=============================================================================
