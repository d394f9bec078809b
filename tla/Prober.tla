------------------------------- MODULE Prober -------------------------------
(***************************************************************************)
(* One prober (probe/base/base.go): Config when the program starts, Probe  *)
(* once per interval, and the snapshots of its result the program saves in *)
(* the data file and restarts from.  A restart may come at any moment with *)
(* other settings; what was probed since the last save is then lost.       *)
(***************************************************************************)
EXTENDS ProbeResult

CONSTANT Settings    \* the configurations the prober may be given

ASSUME SettingsAssumption == Settings \subseteq ProbeSettings

VARIABLES
  settings,   \* the prober's normalised configuration
  result,     \* DefaultProbe.ProbeResult
  now,        \* rounds made so far, the wall clock
  trace,      \* history: what the recorded rounds were
  stored      \* the result, and its trace, in the data file

vars == <<settings, result, now, trace, stored>>

-----------------------------------------------------------------------------
(***************************************************************************)
(* The trace: the last outcome `ok' and the number `len' of trailing equal *)
(* ones, the rounds `fresh' made since the last start, the trailing rounds *)
(* that were down; the alerts flagged since the last round that was up,    *)
(* those of them not saved yet, and those a restart has forgotten.         *)
(***************************************************************************)
NoTrace == [ok |-> TRUE, len |-> 0, fresh |-> 0, downRounds |-> 0,
            alerts |-> 0, unsaved |-> 0, forgotten |-> 0]

Traced(t, ok, r) ==
  LET flagged(n) == IF r.status = "up" THEN 0
                    ELSE IF r.nsd.isSent THEN n + 1 ELSE n
  IN  [ok |-> ok,
       len |-> IF ok = t.ok THEN t.len + 1 ELSE 1,
       fresh |-> t.fresh + 1,
       downRounds |-> IF r.status = "down" THEN t.downRounds + 1 ELSE 0,
       alerts |-> flagged(t.alerts),
       unsaved |-> flagged(t.unsaved),
       forgotten |-> IF r.status = "up" THEN 0 ELSE t.forgotten]

\* A restart loses the rounds made since the last save, not the alerts sent.
Rewound(t, saved) ==
  [ok |-> saved.ok, len |-> saved.len, fresh |-> 0,
   downRounds |-> saved.downRounds, alerts |-> t.alerts, unsaved |-> 0,
   forgotten |-> t.forgotten + t.unsaved]

-----------------------------------------------------------------------------
(***************************************************************************)
(* Config: the result comes from the data file, whose isSent flag is not   *)
(* saved; the strategy and the length of the counter are set anew.         *)
(***************************************************************************)
ThresholdLength(s) == IF s.success > s.failure THEN s.success ELSE s.failure

\* Mutant: the counter is only as long as the failure threshold.
ConfiguredFailureOnly(r, s) ==
  [r EXCEPT !.nsd = [@ EXCEPT !.isSent = FALSE, !.strategy = s.strategy,
                              !.factor = s.factor, !.maxTimes = s.maxTimes],
            !.counter = SetMaxLen(@, s.failure)]

\* Mutant: the alerts of the outage are forgotten by a restart.
ConfiguredForgetsAlerts(r, s) ==
  [r EXCEPT !.nsd = NewNotificationStrategyData(s),
            !.counter = SetMaxLen(@, ThresholdLength(s))]

Configured(r, s) ==
  [r EXCEPT !.nsd = [@ EXCEPT !.isSent = FALSE, !.strategy = s.strategy,
                              !.factor = s.factor, !.maxTimes = s.maxTimes],
            !.counter = SetMaxLen(@, ThresholdLength(s))]

\* The status after the outcome the counter of r has just counted.  Below the
\* threshold it is the status before the last one.
CheckStatusThreshold(r, s) ==
  IF r.counter.current /\ r.counter.count >= s.success THEN "up"
  ELSE IF ~ r.counter.current /\ r.counter.count >= s.failure THEN "down"
  ELSE r.preStatus

\* Probe, from the outcome of the probe function on.
Probed(r, s, ok, time) ==
  LET counted == [r EXCEPT !.counter = AppendStatus(@, ok)]
      status  == CheckStatusThreshold(counted, s)
      judged  == [counted EXCEPT !.nsd = ProcessStatus(@, status = "up"),
                                 !.preStatus = r.status, !.status = status]
  IN  DoStat(DownTimeCalculation(judged, time))

-----------------------------------------------------------------------------
Init ==
  /\ settings \in Settings
  /\ result = Configured(NewResult, settings)
  /\ now = 0
  /\ trace = NoTrace
  /\ stored = [result |-> NewResult, trace |-> NoTrace]

\* One round of the prober: `ok' is what its probe function returned.
Round(ok) ==
  /\ now' = now + 1
  /\ result' = Probed(result, settings, ok, now')
  /\ trace' = Traced(trace, ok, result')
  /\ UNCHANGED <<settings, stored>>

\* saveData writes the data file.
Save ==
  /\ trace' = [trace EXCEPT !.unsaved = 0]
  /\ stored' = [result |-> result, trace |-> trace']
  /\ UNCHANGED <<settings, result, now>>

\* The program is started again, with s, from what the data file holds.
Restart(s) ==
  /\ settings' = s
  /\ result' = Configured(stored.result, s)
  /\ trace' = Rewound(trace, stored.trace)
  /\ UNCHANGED <<now, stored>>

Next == \/ \E ok \in BOOLEAN : Round(ok)
        \/ Save
        \/ \E s \in Settings : Restart(s)

Spec == Init /\ [][Next]_vars
-----------------------------------------------------------------------------
(***************************************************************************)
(* Properties                                                              *)
(***************************************************************************)
Traces == [ok : BOOLEAN, len : Nat, fresh : Nat, downRounds : Nat,
           alerts : Nat, unsaved : Nat, forgotten : Nat]

\* The types of the prober's state and of what is saved of it.
TypeOK ==
  /\ settings \in Settings
  /\ result \in ProbeResults
  /\ now \in Nat
  /\ trace \in Traces
  /\ stored \in [result : ProbeResults, trace : Traces]

\* The counter agrees with its own history, whatever lengths SetMaxLen has
\* given the history at the restarts on the way (status_counter.go).
CounterMatchesHistory == MatchesHistory(result.counter)

\* The count never claims more consecutive outcomes than were observed.
CountIsObserved ==
  /\ result.counter.count <= trace.len
  /\ trace.len > 0 => result.counter.current = trace.ok

\* Once a threshold's worth of equal outcomes has been observed since the
\* start the status is decided, and stays so while they last: neither the
\* capped count nor a history cut by Config may delay the decision.
ThresholdDecides ==
  LET observed == IF trace.len < trace.fresh THEN trace.len ELSE trace.fresh IN
  /\ observed > 0 /\ trace.ok /\ observed >= settings.success =>
       result.status = "up"
  /\ observed > 0 /\ ~ trace.ok /\ observed >= settings.failure =>
       result.status = "down"

\* Every alert of an outage is counted, across restarts and when a restart
\* changes the strategy, but for those a restart forgot because no save had
\* followed them: by no more than these does an outage exceed its maximum.
AlertsCounted ==
  /\ trace.alerts <= result.nsd.notified + trace.forgotten
  /\ result.nsd.isSent => /\ result.status # "up"
                          /\ trace.alerts <= settings.maxTimes + trace.forgotten

\* The statistics account for every recorded round once, as up or down time.
StatAddsUp ==
  /\ result.total = result.times["init"] + result.times["up"]
                      + result.times["down"]
  /\ result.upTime = result.times["up"]
  /\ result.upTime + result.downTime = result.total

\* A recovery reports a downtime no shorter than the rounds that were down.
RecoverySpansOutage ==
  [][now' > now /\ result.status = "down" /\ result'.status = "up" =>
       result'.recovery >= trace.downRounds]_vars

\* The manual: failure is the "number of consecutive failed probes needed to
\* determine the status down", success the one for the status up.
StatusChangesOnThreshold ==
  [][now' > now /\ result'.status # result.status =>
       /\ result'.status = "down" => trace'.len >= settings.failure
       /\ result'.status = "up" => trace'.len >= settings.success]_vars
=============================================================================
