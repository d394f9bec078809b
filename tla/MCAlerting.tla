----------------------------- MODULE MCAlerting -----------------------------
(***************************************************************************)
(* Bounds for Alerting: one prober with thresholds of one round and the    *)
(* default or a repeating strategy, MaxRounds rounds.                      *)
(***************************************************************************)
EXTENDS Alerting

CONSTANTS
  MaxRounds,    \* bound: rounds of a behaviour
  n1, n2        \* notifiers

Config(failure, success, strategy, factor, maxTimes) ==
  [failure |-> failure, success |-> success, strategy |-> strategy,
   factor |-> factor, maxTimes |-> maxTimes]

EdgeSettings == { Config(1, 1, "regular", 1, 1), Config(1, 1, "regular", 1, 2) }

ThresholdSettings == { Config(2, 1, "regular", 1, 1) }

MCNext ==
  \/ now < MaxRounds /\ \E ok \in BOOLEAN : Probe(ok)
  \/ Send
  \/ Watch
  \/ \E n \in Notifiers : Deliver(n)

MCSpec == Init /\ [][MCNext]_vars /\ Fairness
=============================================================================
