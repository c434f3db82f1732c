----------------------------- MODULE MCCounters -----------------------------
(* The adapter with its counters, for streams of a few messages.           *)
EXTENDS AdapterCounters, MCInputs

OnTimeOrLate == {0, 2}
SomeEndpoints == {<<>>, <<Endpoint(1, relay)>>}
SomeBatches ==
  {<<Status(0, 0, {})>>, <<Status(1, 0, {})>>, <<Status(1, 0, {}), Status(2, 0, {})>>,
   <<Status(2, 0, {}), Status(1, 0, {"value"})>>,
   <<Status(2, 0, {}), Status(1, 0, {}), Status(1, 0, {})>>}
=============================================================================
