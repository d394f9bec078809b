----------------------------- MODULE AlertRounds -----------------------------
(***************************************************************************)
(* The failed rounds at which an outage alerts, as the comments of         *)
(* NextNotification (probe/notification_strategy.go) list them: 1, 1+f,    *)
(* 1+2f, ... (regular); 1, 1+f, 1+3f, 1+6f, ... (increment); 1, 1+f,       *)
(* (1+f)^2, ... (exponent).                                                *)
(***************************************************************************)
EXTENDS Naturals, NotificationStrategy

CONSTANTS
  Settings,     \* the notification strategies that may be configured
  Power(_, _)   \* Power(b, e) is b to the e

ASSUME SettingsAssumption == Settings \subseteq StrategySettings

\* Power is what its recurrence says, as far as the schedules reach.
ASSUME PowerAssumption ==
  \A s \in Settings :
    /\ Power(1 + s.factor, 0) = 1
    /\ \A k \in 0 .. s.maxTimes :
         /\ Power(1 + s.factor, k) \in Nat
         /\ Power(1 + s.factor, k + 1) = Power(1 + s.factor, k) * (1 + s.factor)

\* The failed round, counted from 1, of the k-th alert of an outage.
Due(s, k) ==
  CASE s.strategy = "regular"   -> 1 + s.factor * (k - 1)
    [] s.strategy = "increment" -> 1 + s.factor * ((k * (k - 1)) \div 2)
    [] s.strategy = "exponent"  -> Power(1 + s.factor, k - 1)
=============================================================================
