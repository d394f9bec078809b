----------------------------- MODULE AlertPacing -----------------------------
(***************************************************************************)
(* NotificationStrategyData as one prober drives it: ProcessStatus once a  *)
(* round, and a restart of the program, which reloads the data from the    *)
(* data file with every counter but not the isSent flag (yaml:"-").        *)
(***************************************************************************)
EXTENDS AlertRounds

VARIABLES
  nsd,     \* the NotificationStrategyData of the prober
  sent     \* history: alerts flagged since the outage began

vars == <<nsd, sent>>

Init ==
  /\ nsd \in {NewNotificationStrategyData(s) : s \in Settings}
  /\ sent = 0

\* Probe: the round is up.
RoundUp ==
  /\ nsd' = ProcessStatus(nsd, TRUE)
  /\ sent' = 0

\* Probe: the round has failed.
RoundDown ==
  /\ nsd' = ProcessStatus(nsd, FALSE)
  /\ sent' = IF NeedToSendNotification(nsd') THEN sent + 1 ELSE sent

\* Mutant: the strategy settings are not set again after the reload.
ReloadLosesSettings(n) == [n EXCEPT !.isSent = FALSE, !.maxTimes = 0]

\* The program restarts with the same configuration and a current data file.
Reload(n) == [n EXCEPT !.isSent = FALSE]

Restart ==
  /\ nsd' = Reload(nsd)
  /\ UNCHANGED sent

Next == RoundUp \/ RoundDown \/ Restart

Spec == Init /\ [][Next]_vars
-----------------------------------------------------------------------------
(***************************************************************************)
(* Properties                                                              *)
(***************************************************************************)
SettingsOf(n) ==
  [strategy |-> n.strategy, factor |-> n.factor, maxTimes |-> n.maxTimes]

Schedule ==
  INSTANCE AlertSchedule WITH settings <- SettingsOf(nsd), failed <- nsd.failed

\* The type of the state of ProcessStatus and Reset.
TypeOK ==
  /\ nsd \in NotificationStrategyData
  /\ SettingsOf(nsd) \in Settings
  /\ sent \in Nat

\* While the maximum is not reached the next alert is always still ahead and
\* at the round of the closed form: no failed round slips past a due alert
\* whatever ups, downs and restarts came before (ProcessStatus, `next').
NextIsDue ==
  nsd.notified <= nsd.maxTimes =>
    /\ nsd.failed < nsd.next
    /\ nsd.next = Due(SettingsOf(nsd), sent + 1)

\* `notified' counts the alerts sent until the maximum, and past it the rounds
\* that were due: the alerts of one outage never exceed maxTimes.
QuotaKept ==
  sent = (IF nsd.notified <= nsd.maxTimes THEN nsd.notified ELSE nsd.maxTimes)

\* NotificationStrategyData implements the schedule the comments of
\* NextNotification list: same alerts, at the same failed rounds.
ImplementsSchedule == Schedule!Spec
=============================================================================
