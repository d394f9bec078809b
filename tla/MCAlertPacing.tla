---------------------------- MODULE MCAlertPacing ----------------------------
(***************************************************************************)
(* Bounds for AlertPacing: every strategy, factors 1 to 3, maxima 1, 2 and *)
(* 4, and outages of up to MaxFailed rounds: 260 reaches the first due     *)
(* round past the maximum of every schedule (the latest is round 256, of   *)
(* the exponential strategy with factor 3 and maximum 4).                  *)
(***************************************************************************)
EXTENDS AlertPacing

CONSTANT MaxFailed    \* bound: failed rounds of one outage

MCSettings ==
  [strategy : Strategies, factor : 1 .. 3, maxTimes : {1, 2, 4}]

MCPower(b, e) == b ^ e

MCNext ==
  \/ RoundUp
  \/ nsd.failed < MaxFailed /\ RoundDown
  \/ Restart

MCSpec == Init /\ [][MCNext]_vars
=============================================================================
