-------------------------- MODULE MCTelemetryWatch --------------------------
(* Values for the bounded instances of TelemetryWatch.                     *)
EXTENDS WatchDelivery

SparseEventLedgers == {1, 3}
SparseFailedLedgers == {2, 3}
=============================================================================
