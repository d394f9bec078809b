------------------------------ MODULE MCProber ------------------------------
(***************************************************************************)
(* Bounds for Prober: thresholds from 1 to 3 that raise, lower and swap at *)
(* restarts, strategies of different maxima, and MaxRounds rounds.         *)
(***************************************************************************)
EXTENDS Prober

CONSTANT MaxRounds    \* bound: rounds of a behaviour

Config(failure, success, strategy, factor, maxTimes) ==
  [failure |-> failure, success |-> success, strategy |-> strategy,
   factor |-> factor, maxTimes |-> maxTimes]

MCSettings ==
  { Config(1, 1, "regular", 1, 1), Config(2, 1, "increment", 1, 3),
    Config(1, 3, "regular", 2, 2), Config(3, 2, "exponent", 1, 2) }

MCNext ==
  \/ now < MaxRounds /\ \E ok \in BOOLEAN : Round(ok)
  \/ Save
  \/ \E s \in Settings : Restart(s)

MCSpec == Init /\ [][MCNext]_vars
=============================================================================
