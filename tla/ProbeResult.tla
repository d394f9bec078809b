----------------------------- MODULE ProbeResult -----------------------------
(***************************************************************************)
(* probe/result.go: the result of a prober and its statistics.  Time is    *)
(* counted in probe intervals: a round adds one interval to the up or the  *)
(* down time, and the wall clock is the number of rounds made.  Messages,  *)
(* endpoints and round-trip times are left out.                            *)
(***************************************************************************)
EXTENDS StatusCounter, NotificationStrategy

Statuses == {"init", "up", "down"}

\* The thresholds and the alert strategy of a configured prober.
ProbeSettings ==
  [failure : Nat \ {0}, success : Nat \ {0}, strategy : Strategies,
   factor : Nat \ {0}, maxTimes : Nat \ {0}]

ProbeResults ==
  [status : Statuses, preStatus : Statuses,
   total : Nat, times : [Statuses -> Nat], upTime : Nat, downTime : Nat,
   latestDown : Nat, recovery : Nat,
   counter : StatusCounterData, nsd : NotificationStrategyData]

DefaultStrategy == [strategy |-> "regular", factor |-> 1, maxTimes |-> 1]

NewResult ==
  [status |-> "init", preStatus |-> "init",
   total |-> 0, times |-> [s \in Statuses |-> 0], upTime |-> 0, downTime |-> 0,
   latestDown |-> 0, recovery |-> 0,
   counter |-> NewStatusCounter(1),
   nsd |-> NewNotificationStrategyData(DefaultStrategy)]

\* Mutant: a round that is not down counts as up time.
DoStatInitIsUp(r) ==
  [r EXCEPT !.total = @ + 1, !.times[r.status] = @ + 1,
            !.upTime = IF r.status # "down" THEN @ + 1 ELSE @,
            !.downTime = IF r.status # "down" THEN @ ELSE @ + 1]

\* The statistics of one round; a round that is not up, the initial status
\* included, counts as down time.
DoStat(r) ==
  [r EXCEPT !.total = @ + 1, !.times[r.status] = @ + 1,
            !.upTime = IF r.status = "up" THEN @ + 1 ELSE @,
            !.downTime = IF r.status = "up" THEN @ ELSE @ + 1]

\* Mutant: the time of the failure moves with every round that is down.
DownTimeMoves(r, now) ==
  [r EXCEPT !.latestDown = IF r.status = "down" THEN now ELSE @,
            !.recovery = IF r.preStatus = "down" /\ r.status = "up"
                         THEN now - r.latestDown ELSE @]

\* Mutant: the operands of the duration are swapped.
DownTimeBackwards(r, now) ==
  [r EXCEPT !.latestDown =
              IF r.preStatus # "down" /\ r.status = "down" THEN now ELSE @,
            !.recovery =
              IF r.preStatus = "down" /\ r.status = "up"
              THEN r.latestDown - now ELSE @]

\* When an outage begins its time is noted, when it ends its duration.
DownTimeCalculation(r, now) ==
  [r EXCEPT !.latestDown =
              IF r.preStatus # "down" /\ r.status = "down" THEN now ELSE @,
            !.recovery =
              IF r.preStatus = "down" /\ r.status = "up"
              THEN now - r.latestDown ELSE @]

\* The kind of notification Title announces.
Title(r) ==
  IF r.preStatus = "init" /\ r.status = "up" THEN "monitoring"
  ELSE IF r.status # "up" THEN "failure" ELSE "recovery"
=============================================================================
