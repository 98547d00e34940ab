------------------------ MODULE MCObservationLedgers ------------------------
(* Two callback workers; outcomes with a cost, with headers, with both, and  *)
(* one without a request id.                                                 *)
EXTENDS ObservationLedgers, TLC

CONSTANTS both, cost, anonymous

=============================================================================
