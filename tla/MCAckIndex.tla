---------------------------- MODULE MCAckIndex ----------------------------
(* Two miners that take turns: one query, for long or with a restart, or two queries; *)
(* or bills at every height, of failed requests too or with a restart.                *)
EXTENDS AckIndex

TwoMiners == <<"m1", "m2">>
NoBills(queries, sends, until, stops) ==
  [queries |-> queries, acked |-> TRUE, sends |-> sends, until |-> until,
   restarts |-> stops, failed |-> {0}, period |-> 0]
Bills(queries, until, stops, failed, period) ==
  [queries |-> queries, acked |-> FALSE, sends |-> 1, until |-> until,
   restarts |-> stops, failed |-> failed, period |-> period]
OneOrTwo ==
  {NoBills({"q1"}, 3, 4, 0), NoBills({"q1"}, 2, 3, 1), NoBills({"q1", "q2"}, 1, 3, 0),
   Bills({"q1"}, 3, 0, {1}, 1), Bills({"q1"}, 2, 1, {0}, 1)}
=============================================================================
