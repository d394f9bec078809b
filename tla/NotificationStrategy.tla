------------------------ MODULE NotificationStrategy ------------------------
(***************************************************************************)
(* The alert pacing of one prober: probe/notification_strategy.go and the  *)
(* settings of global/probe.go it is configured with.  Every failed round  *)
(* is counted; an alert is due when the count reaches `next', and the      *)
(* strategy then decides how many rounds to wait for the following one.    *)
(* Operators on records only, so that other modules can embed the data.    *)
(***************************************************************************)
EXTENDS Naturals

Strategies == {"regular", "increment", "exponent"}

\* NormalizeNotificationStrategy leaves only positive factors and maxima.
StrategySettings ==
  [strategy : Strategies, factor : Nat \ {0}, maxTimes : Nat \ {0}]

NotificationStrategyData ==
  [strategy : Strategies, factor : Nat \ {0}, maxTimes : Nat \ {0},
   notified : Nat, failed : Nat, next : Nat, interval : Nat, isSent : BOOLEAN]

NewNotificationStrategyData(s) ==
  [strategy |-> s.strategy, factor |-> s.factor, maxTimes |-> s.maxTimes,
   notified |-> 0, failed |-> 0, next |-> 1, interval |-> 0, isSent |-> FALSE]

\* Mutant: the last interval survives a recovery.
ResetKeepsInterval(n) ==
  [n EXCEPT !.failed = 0, !.notified = 0, !.next = 1, !.isSent = FALSE]

\* An up round, or a recovery notified: the outage is over.
Reset(n) ==
  [n EXCEPT !.failed = 0, !.notified = 0, !.next = 1, !.interval = 0,
            !.isSent = FALSE]

\* Mutant: off by one, one alert more than the maximum.
ExceedsByTwo(n) == n.notified > n.maxTimes + 1

IsExceedMaxTimes(n) == n.notified > n.maxTimes

NextInterval(n) ==
  CASE n.strategy = "regular"   -> n.factor
    [] n.strategy = "increment" -> n.interval + n.factor
    [] n.strategy = "exponent"  -> n.failed * n.factor

NextNotification(n) ==
  [n EXCEPT !.interval = NextInterval(n), !.next = n.failed + NextInterval(n)]

\* Mutant: the flag of an earlier alert is not cleared on a quiet round.
ProcessStatusKeepsFlag(n, up) ==
  LET failing == [n EXCEPT !.failed = @ + 1]
      due     == [failing EXCEPT !.notified = @ + 1]
  IN  IF up THEN Reset(n)
      ELSE IF failing.failed < failing.next THEN failing
      ELSE IF IsExceedMaxTimes(due) THEN due
      ELSE [NextNotification(due) EXCEPT !.isSent = TRUE]

\* One probe round: an up round ends the outage, a failed one is counted and
\* alerts when it is due and the maximum is not exceeded.  Past the maximum
\* `notified' goes on counting the rounds that are due.
ProcessStatus(n, up) ==
  LET failing == [n EXCEPT !.isSent = FALSE, !.failed = @ + 1]
      due     == [failing EXCEPT !.notified = @ + 1]
  IN  IF up THEN Reset(n)
      ELSE IF failing.failed < failing.next THEN failing
      ELSE IF IsExceedMaxTimes(due) THEN due
      ELSE [NextNotification(due) EXCEPT !.isSent = TRUE]

NeedToSendNotification(n) == n.isSent
=============================================================================
