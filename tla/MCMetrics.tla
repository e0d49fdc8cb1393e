----------------------------- MODULE MCMetrics -----------------------------
(***************************************************************************)
(* Instance of Metrics for TLC: two batches of 2 and 1 bytes against a    *)
(* budget of 2, so that the second push evicts the first one unless it is  *)
(* gone, a result that arrives while a response is rendered, loads that    *)
(* are one store behind, and a clock that may be set back.  The wrong      *)
(* token differs from the key in its first byte only.                      *)
(***************************************************************************)
EXTENDS Metrics

CONSTANT p1

MCOffset == <<0, 2, 3>>
MCProbes == {p1}
MCFamilies == <<"success", "duration_seconds">>

MCLoads == <<"writtenBatches", "writtenBytes", "droppedBatches", "droppedBytes",
             "rejectedBatches", "lastWrite">>
MCClock == {1, 2}

MCKey == << {1}, {0} >>
MCHeaders == {NoKey, [scheme |-> "Bearer", token |-> MCKey],
              [scheme |-> "Bearer", token |-> << {0, 1}, {0} >>]}
============================================================================
