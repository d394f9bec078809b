---------------------------- MODULE Prober_proofs ----------------------------
(***************************************************************************)
(* Proofs about Prober, for every set of configurations, any number of     *)
(* rounds, and restarts at any moment with any other configuration.        *)
(***************************************************************************)
EXTENDS Prober, DataLemmas, TLAPS

\* What a round does to a result, field by field.
LEMMA ProbedFields ==
  ASSUME NEW r \in ProbeResults, Sound(r.counter), NEW s \in ProbeSettings,
         NEW ok \in BOOLEAN, NEW time \in Nat, r.latestDown <= time
  PROVE  LET p == Probed(r, s, ok, time)
             c == AppendStatus(r.counter, ok)
         IN  /\ p \in ProbeResults
             /\ p.counter = c /\ p.preStatus = r.status
             /\ p.status = IF c.current /\ c.count >= s.success THEN "up"
                           ELSE IF ~ c.current /\ c.count >= s.failure
                                THEN "down" ELSE r.preStatus
             /\ p.nsd = ProcessStatus(r.nsd, p.status = "up")
             /\ p.total = r.total + 1
             /\ p.times = [r.times EXCEPT ![p.status] = @ + 1]
             /\ p.upTime = IF p.status = "up" THEN r.upTime + 1 ELSE r.upTime
             /\ p.downTime =
                  IF p.status = "up" THEN r.downTime ELSE r.downTime + 1
             /\ p.latestDown = IF r.status # "down" /\ p.status = "down"
                               THEN time ELSE r.latestDown
             /\ p.recovery = IF r.status = "down" /\ p.status = "up"
                             THEN time - r.latestDown ELSE r.recovery
<1> DEFINE c == AppendStatus(r.counter, ok)
           counted == [r EXCEPT !.counter = c]
           status == CheckStatusThreshold(counted, s)
           nsd == ProcessStatus(r.nsd, status = "up")
           judged == [counted EXCEPT !.nsd = nsd,
                                     !.preStatus = r.status, !.status = status]
           timed == DownTimeCalculation(judged, time)
           p == Probed(r, s, ok, time)
<1>1. /\ r.counter \in StatusCounterData /\ r.nsd \in NotificationStrategyData
      /\ r.status \in Statuses /\ r.preStatus \in Statuses
      /\ r.total \in Nat /\ r.times \in [Statuses -> Nat]
      /\ r.upTime \in Nat /\ r.downTime \in Nat
      /\ r.latestDown \in Nat /\ r.recovery \in Nat
  BY DEF ProbeResults
<1>2. c \in StatusCounterData
  BY <1>1, AppendStatusSound
<1> HIDE DEF c
<1>3. /\ counted \in ProbeResults /\ counted.counter = c
      /\ counted.nsd = r.nsd /\ counted.status = r.status
      /\ counted.preStatus = r.preStatus /\ counted.total = r.total
      /\ counted.times = r.times /\ counted.upTime = r.upTime
      /\ counted.downTime = r.downTime /\ counted.latestDown = r.latestDown
      /\ counted.recovery = r.recovery
  BY <1>2 DEF ProbeResults
<1>4. /\ status = IF c.current /\ c.count >= s.success THEN "up"
                  ELSE IF ~ c.current /\ c.count >= s.failure
                       THEN "down" ELSE r.preStatus
      /\ status \in Statuses
  <2> HIDE DEF counted
  <2> QED BY <1>1, <1>3 DEF CheckStatusThreshold, Statuses
<1>5. nsd \in NotificationStrategyData
  <2>1. CASE status = "up"
    BY <1>1, <2>1, UpRound
  <2>2. CASE status # "up"
    <3>1. (status = "up") = FALSE
      BY <2>2
    <3> QED BY <1>1, <3>1, FailedRound
  <2> QED BY <2>1, <2>2
<1>6. p = DoStat(timed)
  BY <1>3 DEF Probed, c
<1> HIDE DEF counted, status, nsd
<1>7. /\ judged \in ProbeResults /\ judged.counter = c /\ judged.nsd = nsd
      /\ judged.status = status /\ judged.preStatus = r.status
      /\ judged.total = r.total
      /\ judged.times = r.times /\ judged.upTime = r.upTime
      /\ judged.downTime = r.downTime /\ judged.latestDown = r.latestDown
      /\ judged.recovery = r.recovery
  BY <1>1, <1>3, <1>4, <1>5 DEF ProbeResults
<1> HIDE DEF judged
<1> DEFINE latest == IF r.status # "down" /\ status = "down"
                     THEN time ELSE r.latestDown
           recovery == IF r.status = "down" /\ status = "up"
                       THEN time - r.latestDown ELSE r.recovery
<1>8. latest \in Nat /\ recovery \in Nat
  BY <1>1
<1>9. timed = [judged EXCEPT !.latestDown = latest, !.recovery = recovery]
  BY <1>7 DEF DownTimeCalculation
<1> HIDE DEF latest, recovery, timed
<1>10. /\ timed \in ProbeResults /\ timed.counter = c /\ timed.nsd = nsd
       /\ timed.status = status /\ timed.preStatus = r.status
       /\ timed.total = r.total
       /\ timed.times = r.times /\ timed.upTime = r.upTime
       /\ timed.downTime = r.downTime /\ timed.latestDown = latest
       /\ timed.recovery = recovery
  BY <1>7, <1>8, <1>9 DEF ProbeResults
<1> DEFINE times == [r.times EXCEPT ![status] = @ + 1]
           up == IF status = "up" THEN r.upTime + 1 ELSE r.upTime
           down == IF status = "up" THEN r.downTime ELSE r.downTime + 1
<1>11. times \in [Statuses -> Nat] /\ up \in Nat /\ down \in Nat
       /\ r.total + 1 \in Nat
  BY <1>1, <1>4
<1>12. p = [timed EXCEPT !.total = r.total + 1, !.times = times,
                         !.upTime = up, !.downTime = down]
  BY <1>6, <1>10 DEF DoStat
<1> HIDE DEF times, up, down, p
<1>13. /\ p \in ProbeResults /\ p.counter = c /\ p.nsd = nsd
       /\ p.status = status /\ p.preStatus = r.status /\ p.total = r.total + 1
       /\ p.times = times /\ p.upTime = up /\ p.downTime = down
       /\ p.latestDown = latest /\ p.recovery = recovery
  BY <1>10, <1>11, <1>12 DEF ProbeResults
<1> QED BY <1>4, <1>13 DEF p, c, nsd, times, up, down, latest, recovery

\* Of these, what the status and the alerts depend on.
LEMMA ProbedStatus ==
  ASSUME NEW r \in ProbeResults, Sound(r.counter), NEW s \in ProbeSettings,
         NEW ok \in BOOLEAN, NEW time \in Nat, r.latestDown <= time
  PROVE  LET p == Probed(r, s, ok, time)
             c == AppendStatus(r.counter, ok)
         IN  /\ p \in ProbeResults /\ Sound(p.counter)
             /\ p.preStatus = r.status
             /\ p.status = IF c.current /\ c.count >= s.success THEN "up"
                           ELSE IF ~ c.current /\ c.count >= s.failure
                                THEN "down" ELSE r.preStatus
             /\ p.nsd = ProcessStatus(r.nsd, p.status = "up")
             /\ p.latestDown <= time
<1>1. r.counter \in StatusCounterData /\ r.latestDown \in Nat
  BY DEF ProbeResults
<1>2. Sound(AppendStatus(r.counter, ok))
  BY <1>1, AppendStatusSound
<1> DEFINE p == Probed(r, s, ok, time)
           c == AppendStatus(r.counter, ok)
<1>3. /\ p \in ProbeResults
      /\ p.counter = c /\ p.preStatus = r.status
      /\ p.status = IF c.current /\ c.count >= s.success THEN "up"
                    ELSE IF ~ c.current /\ c.count >= s.failure
                         THEN "down" ELSE r.preStatus
      /\ p.nsd = ProcessStatus(r.nsd, p.status = "up")
      /\ p.total = r.total + 1
      /\ p.times = [r.times EXCEPT ![p.status] = @ + 1]
      /\ p.upTime = IF p.status = "up" THEN r.upTime + 1 ELSE r.upTime
      /\ p.downTime = IF p.status = "up" THEN r.downTime ELSE r.downTime + 1
      /\ p.latestDown = IF r.status # "down" /\ p.status = "down"
                        THEN time ELSE r.latestDown
      /\ p.recovery = IF r.status = "down" /\ p.status = "up"
                      THEN time - r.latestDown ELSE r.recovery
  BY ProbedFields, SMTT(40)
<1> HIDE DEF p, c
<1>4. p.latestDown <= time
  BY <1>1, <1>3
<1> QED BY <1>2, <1>3, <1>4 DEF p, c

\* What Config does to a result, field by field.
LEMMA ConfiguredFields ==
  ASSUME NEW r \in ProbeResults, Sound(r.counter), NEW s \in ProbeSettings
  PROVE  LET q == Configured(r, s) IN
         /\ q \in ProbeResults /\ Sound(q.counter)
         /\ q.counter.maxLen = ThresholdLength(s)
         /\ q.counter.count = r.counter.count
         /\ q.counter.current = r.counter.current
         /\ q.nsd.isSent = FALSE /\ q.nsd.maxTimes = s.maxTimes
         /\ q.nsd.notified = r.nsd.notified /\ q.nsd.failed = r.nsd.failed
         /\ q.nsd.next = r.nsd.next
         /\ q.status = r.status
         /\ q.total = r.total /\ q.times = r.times
         /\ q.upTime = r.upTime /\ q.downTime = r.downTime
         /\ q.latestDown = r.latestDown
<1> DEFINE nsd == [r.nsd EXCEPT !.isSent = FALSE, !.strategy = s.strategy,
                                !.factor = s.factor, !.maxTimes = s.maxTimes]
           c == SetMaxLen(r.counter, ThresholdLength(s))
           q == Configured(r, s)
<1>1. ThresholdLength(s) \in Nat \ {0}
  BY DEF ThresholdLength, ProbeSettings
<1>2. /\ c \in StatusCounterData /\ Sound(c) /\ c.maxLen = ThresholdLength(s)
      /\ c.count = r.counter.count /\ c.current = r.counter.current
  <2>1. r.counter \in StatusCounterData
    BY DEF ProbeResults
  <2> QED BY <1>1, <2>1, SetMaxLenSound
<1>3. /\ nsd \in NotificationStrategyData /\ nsd.isSent = FALSE
      /\ nsd.maxTimes = s.maxTimes /\ nsd.notified = r.nsd.notified
      /\ nsd.failed = r.nsd.failed /\ nsd.next = r.nsd.next
  <2>1. r.nsd \in NotificationStrategyData
    BY DEF ProbeResults
  <2> QED BY <2>1 DEF NotificationStrategyData, ProbeSettings
<1>4. q = [r EXCEPT !.nsd = nsd, !.counter = c]
  BY DEF Configured, ProbeResults
<1> HIDE DEF c, nsd, q
<1>5. /\ q \in ProbeResults /\ q.counter = c /\ q.nsd = nsd
      /\ q.status = r.status /\ q.total = r.total /\ q.times = r.times
      /\ q.upTime = r.upTime /\ q.downTime = r.downTime
      /\ q.latestDown = r.latestDown
  BY <1>2, <1>3, <1>4 DEF ProbeResults
<1> QED BY <1>2, <1>3, <1>5 DEF q

-----------------------------------------------------------------------------
(***************************************************************************)
(* The invariant.  Agrees relates a result to the trace of the rounds it   *)
(* records, and holds of the running prober and of what is stored, which a *)
(* restart brings back.  Decides and Paces hold of the running one only:   *)
(* its counter is long enough for its thresholds and has counted every     *)
(* round since the start that its length lets it count; the alerts of an   *)
(* outage are those its strategy counts and those a restart has forgotten, *)
(* and no more than the stored ones, the forgotten and the unsaved, which  *)
(* is what makes the first bound survive the next restart.                 *)
(***************************************************************************)
Counts(r, t) ==
  /\ r.counter.count <= t.len
  /\ t.len > 0 => r.counter.current = t.ok

Adds(r) ==
  /\ r.total = r.times["init"] + r.times["up"] + r.times["down"]
  /\ r.upTime = r.times["up"]
  /\ r.upTime + r.downTime = r.total

Spans(r, t) ==
  /\ r.latestDown <= now
  /\ r.status = "down" => r.latestDown + t.downRounds <= now + 1
  /\ r.status # "down" => t.downRounds = 0

Agrees(r, t) ==
  /\ r \in ProbeResults /\ t \in Traces
  /\ Sound(r.counter)
  /\ Counts(r, t)
  /\ Adds(r)
  /\ Spans(r, t)

Observed(t) == IF t.len < t.fresh THEN t.len ELSE t.fresh

Decides ==
  LET c == result.counter IN
  /\ c.maxLen = ThresholdLength(settings)
  /\ Observed(trace) <= c.maxLen => Observed(trace) <= c.count
  /\ Observed(trace) > c.maxLen => c.maxLen <= c.count
  /\ trace.fresh > 0 =>
       /\ c.current /\ c.count >= settings.success => result.status = "up"
       /\ ~ c.current /\ c.count >= settings.failure => result.status = "down"

Paces ==
  /\ result.nsd.maxTimes = settings.maxTimes
  /\ result.nsd.isSent = TRUE => /\ result.status # "up"
                                 /\ trace.alerts <= settings.maxTimes
                                                     + trace.forgotten
  /\ trace.alerts <= result.nsd.notified + trace.forgotten
  /\ trace.alerts <= stored.result.nsd.notified + trace.forgotten
                       + trace.unsaved

Inv ==
  /\ settings \in Settings
  /\ now \in Nat
  /\ Agrees(result, trace)
  /\ stored \in [result : ProbeResults, trace : Traces]
  /\ Agrees(stored.result, stored.trace)
  /\ Decides
  /\ Paces

LEMMA NewResultAgrees == now \in Nat => Agrees(NewResult, NoTrace)
<1> SUFFICES ASSUME now \in Nat PROVE Agrees(NewResult, NoTrace)
  OBVIOUS
<1> DEFINE c == NewStatusCounter(1)
           nsd == NewNotificationStrategyData(DefaultStrategy)
           times == [x \in Statuses |-> 0]
<1>1. c \in StatusCounterData /\ Sound(c) /\ c.count = 0
  BY NewCounterSound, 1 \in Nat \ {0}
<1>2. nsd \in NotificationStrategyData /\ nsd.notified = 0
  BY DEF NewNotificationStrategyData, NotificationStrategyData,
         DefaultStrategy, Strategies
<1>3. times \in [Statuses -> Nat] /\ times["init"] = 0 /\ times["up"] = 0
      /\ times["down"] = 0
  BY DEF Statuses
<1> HIDE DEF c, nsd, times
<1>4. /\ NewResult \in ProbeResults /\ NewResult.counter = c
      /\ NewResult.nsd = nsd /\ NewResult.times = times
      /\ NewResult.status = "init" /\ NewResult.total = 0
      /\ NewResult.upTime = 0 /\ NewResult.downTime = 0
      /\ NewResult.latestDown = 0
  BY <1>1, <1>2, <1>3 DEF NewResult, ProbeResults, Statuses, c, nsd, times
<1>5. NoTrace \in Traces /\ NoTrace.len = 0 /\ NoTrace.downRounds = 0
  BY DEF NoTrace, Traces
<1> QED BY <1>1, <1>2, <1>3, <1>4, <1>5 DEF Agrees, Counts, Adds, Spans

\* Config, at the first start or at a restart, establishes what concerns the
\* running prober, and leaves the agreement with the trace alone.
LEMMA ConfiguredAgrees ==
  ASSUME NEW r, NEW t, Agrees(r, t), now \in Nat, NEW s \in ProbeSettings,
         NEW before \in Traces
  PROVE  LET q == Configured(r, s)
             u == Rewound(before, t)
         IN  /\ Agrees(q, u) /\ u.fresh = 0 /\ u.len \in Nat
             /\ q.counter.maxLen = ThresholdLength(s)
             /\ q.counter.count \in Nat
             /\ q.nsd.maxTimes = s.maxTimes /\ q.nsd.isSent = FALSE
             /\ q.nsd.notified = r.nsd.notified
<1> DEFINE q == Configured(r, s)
           u == Rewound(before, t)
<1>1. r \in ProbeResults /\ t \in Traces /\ Sound(r.counter)
  BY DEF Agrees
<1>2. /\ u \in Traces /\ u.fresh = 0 /\ u.len = t.len /\ u.ok = t.ok
      /\ u.downRounds = t.downRounds /\ u.len \in Nat
  BY <1>1 DEF Traces, Rewound
<1>3. /\ q \in ProbeResults /\ Sound(q.counter)
      /\ q.counter.maxLen = ThresholdLength(s)
      /\ q.counter.count = r.counter.count
      /\ q.counter.current = r.counter.current
      /\ q.nsd.isSent = FALSE /\ q.nsd.maxTimes = s.maxTimes
      /\ q.nsd.notified = r.nsd.notified /\ q.status = r.status
      /\ q.total = r.total /\ q.times = r.times
      /\ q.upTime = r.upTime /\ q.downTime = r.downTime
      /\ q.latestDown = r.latestDown
  BY <1>1, ConfiguredFields
<1> HIDE DEF q, u
<1>4. Agrees(q, u)
  BY <1>2, <1>3 DEF Agrees, Counts, Adds, Spans
<1>5. q.counter.count \in Nat
  BY <1>3 DEF ProbeResults, StatusCounterData
<1> QED BY <1>2, <1>3, <1>4, <1>5 DEF q, u

LEMMA InitInv == Init => Inv
<1> SUFFICES ASSUME Init PROVE Inv
  OBVIOUS
<1>1. /\ settings \in Settings /\ settings \in ProbeSettings /\ now \in Nat
      /\ result = Configured(NewResult, settings) /\ trace = NoTrace
      /\ stored = [result |-> NewResult, trace |-> NoTrace]
  BY SettingsAssumption DEF Init
<1>2. Agrees(NewResult, NoTrace)
  BY <1>1, NewResultAgrees
<1>3. Rewound(NoTrace, NoTrace) = NoTrace /\ NoTrace \in Traces
  BY DEF NoTrace, Rewound, Traces
<1>4. /\ Agrees(result, trace) /\ trace.fresh = 0 /\ trace.len \in Nat
      /\ result.counter.maxLen = ThresholdLength(settings)
      /\ result.counter.count \in Nat
      /\ result.nsd.maxTimes = settings.maxTimes /\ result.nsd.isSent = FALSE
  <2> DEFINE q == Configured(NewResult, settings)
             u == Rewound(NoTrace, NoTrace)
  <2>1. /\ Agrees(q, u) /\ u.fresh = 0 /\ u.len \in Nat
        /\ q.counter.maxLen = ThresholdLength(settings)
        /\ q.counter.count \in Nat
        /\ q.nsd.maxTimes = settings.maxTimes /\ q.nsd.isSent = FALSE
    BY <1>1, <1>2, <1>3, ConfiguredAgrees
  <2>2. result = q /\ trace = u
    BY <1>1, <1>3
  <2> HIDE DEF q, u
  <2> QED BY <2>1, <2>2
<1>5. stored \in [result : ProbeResults, trace : Traces]
      /\ Agrees(stored.result, stored.trace)
  BY <1>1, <1>2 DEF Agrees
<1>6. ThresholdLength(settings) \in Nat \ {0}
  BY <1>1 DEF ThresholdLength, ProbeSettings
<1>7. result.nsd.notified \in Nat /\ stored.result.nsd.notified \in Nat
  BY <1>4, <1>5 DEF Agrees, ProbeResults, NotificationStrategyData
<1>8. trace.alerts = 0 /\ trace.forgotten = 0 /\ trace.unsaved = 0
  BY <1>1 DEF NoTrace
<1>9. Decides
  BY <1>4, <1>6 DEF Decides, Observed
<1>10. Paces
  BY <1>4, <1>7, <1>8 DEF Paces
<1> QED BY <1>1, <1>4, <1>5, <1>9, <1>10 DEF Inv

\* What a round of the prober leaves in each field of its result.
LEMMA RoundFields ==
  ASSUME Inv, NEW ok \in BOOLEAN, Round(ok)
  PROVE  LET c == AppendStatus(result.counter, ok)
             st == result'.status
         IN  /\ result \in ProbeResults /\ Sound(result.counter)
             /\ result.counter \in StatusCounterData
             /\ trace \in Traces /\ settings \in ProbeSettings
             /\ now \in Nat /\ now' = now + 1 /\ now' \in Nat
             /\ result.latestDown \in Nat /\ result.latestDown <= now
             /\ result' \in ProbeResults
             /\ result'.counter = c
             /\ st = IF c.current /\ c.count >= settings.success THEN "up"
                     ELSE IF ~ c.current /\ c.count >= settings.failure
                          THEN "down" ELSE result.preStatus
             /\ result'.nsd = ProcessStatus(result.nsd, st = "up")
             /\ result'.total = result.total + 1
             /\ result'.times = [result.times EXCEPT ![st] = @ + 1]
             /\ result'.upTime =
                  IF st = "up" THEN result.upTime + 1 ELSE result.upTime
             /\ result'.downTime =
                  IF st = "up" THEN result.downTime ELSE result.downTime + 1
             /\ result'.latestDown = IF result.status # "down" /\ st = "down"
                                     THEN now' ELSE result.latestDown
             /\ result'.recovery = IF result.status = "down" /\ st = "up"
                                   THEN now' - result.latestDown
                                   ELSE result.recovery
<1> DEFINE p == Probed(result, settings, ok, now')
           c == AppendStatus(result.counter, ok)
<1>1. /\ result \in ProbeResults /\ Sound(result.counter)
      /\ trace \in Traces /\ settings \in ProbeSettings
      /\ now \in Nat /\ now' = now + 1 /\ result.latestDown <= now
  BY SettingsAssumption DEF Inv, Round, Agrees, Spans
<1>2. result.latestDown \in Nat /\ result.counter \in StatusCounterData
  BY <1>1 DEF ProbeResults
<1>3. now' \in Nat /\ result.latestDown <= now'
  BY <1>1, <1>2
<1>4. /\ p \in ProbeResults
      /\ p.counter = c
      /\ p.status = IF c.current /\ c.count >= settings.success THEN "up"
                    ELSE IF ~ c.current /\ c.count >= settings.failure
                         THEN "down" ELSE result.preStatus
      /\ p.nsd = ProcessStatus(result.nsd, p.status = "up")
      /\ p.total = result.total + 1
      /\ p.times = [result.times EXCEPT ![p.status] = @ + 1]
      /\ p.upTime = IF p.status = "up" THEN result.upTime + 1 ELSE result.upTime
      /\ p.downTime =
           IF p.status = "up" THEN result.downTime ELSE result.downTime + 1
      /\ p.latestDown = IF result.status # "down" /\ p.status = "down"
                        THEN now' ELSE result.latestDown
      /\ p.recovery = IF result.status = "down" /\ p.status = "up"
                      THEN now' - result.latestDown ELSE result.recovery
  <2>1. /\ result \in ProbeResults /\ Sound(result.counter)
        /\ settings \in ProbeSettings /\ now' \in Nat
        /\ result.latestDown <= now'
    BY <1>1, <1>3
  <2> QED BY ONLY <2>1, ok \in BOOLEAN, ProbedFields
<1>5. result' = p
  BY DEF Round
<1> HIDE DEF p, c
<1> QED BY <1>1, <1>2, <1>3, <1>4, <1>5 DEF c

\* What one round does to the counts the trace keeps.
LEMMA RoundCounts ==
  ASSUME Inv, NEW ok \in BOOLEAN, Round(ok)
  PROVE  /\ Sound(result'.counter) /\ Counts(result', trace')
         /\ result'.counter.maxLen = result.counter.maxLen
         /\ result'.counter.current = ok
         /\ Decides'
<1> DEFINE c == result.counter
           d == result'.counter
           L == ThresholdLength(settings)
<1>1. /\ result \in ProbeResults /\ c \in StatusCounterData /\ Sound(c)
      /\ trace \in Traces /\ settings \in ProbeSettings
      /\ result' \in ProbeResults
  BY RoundFields
<1>2. /\ d = AppendStatus(c, ok)
      /\ result'.status =
           IF d.current /\ d.count >= settings.success THEN "up"
           ELSE IF ~ d.current /\ d.count >= settings.failure
                THEN "down" ELSE result.preStatus
      /\ d \in StatusCounterData
  <2>1. d \in StatusCounterData
    BY <1>1 DEF ProbeResults
  <2> QED BY <2>1, RoundFields
<1>3. /\ Sound(d) /\ d.maxLen = c.maxLen /\ d.current = ok /\ d.count > 0
      /\ ok # c.current => d.count = 1
      /\ ok = c.current /\ c.count < c.maxLen => d.count = c.count + 1
      /\ ok = c.current /\ c.count >= c.maxLen => d.count = c.count
  BY <1>1, <1>2, AppendStatusSound
<1>4. /\ c.count \in Nat /\ d.count \in Nat /\ c.maxLen \in Nat \ {0}
      /\ trace.len \in Nat /\ trace.fresh \in Nat
  BY <1>1, <1>2 DEF StatusCounterData, Traces
<1>5. /\ trace'.ok = ok /\ trace'.fresh = trace.fresh + 1
      /\ trace'.len = IF ok = trace.ok THEN trace.len + 1 ELSE 1
  BY DEF Round, Traced
<1>6. /\ c.count <= trace.len
      /\ trace.len > 0 => c.current = trace.ok
  BY DEF Inv, Agrees, Counts
<1>7. Counts(result', trace')
  <2>1. CASE ok # c.current
    BY <1>3, <1>4, <1>5, <2>1 DEF Counts
  <2>2. CASE ok = c.current
    <3>1. trace'.len = trace.len + 1
      BY <1>4, <1>5, <1>6, <2>2
    <3>2. d.count <= c.count + 1
      BY <1>3, <1>4, <2>2
    <3>3. d.count <= trace'.len
      BY <1>4, <1>6, <3>1, <3>2
    <3> QED BY <1>3, <1>5, <3>3 DEF Counts
  <2> QED BY <2>1, <2>2
<1>8. settings' = settings /\ c.maxLen = L /\ L \in Nat \ {0}
      /\ settings.success <= L /\ settings.failure <= L
  BY <1>1, <1>4 DEF Inv, Decides, Round, ThresholdLength, ProbeSettings
<1>9. /\ Observed(trace') <= L => Observed(trace') <= d.count
      /\ Observed(trace') > L => L <= d.count
  <2>1. CASE ok # c.current
    <3>1. d.count = 1
      BY <1>3, <2>1
    <3>2. trace'.len = 1
      BY <1>4, <1>5, <1>6, <2>1
    <3> QED BY <1>4, <1>5, <1>8, <3>1, <3>2 DEF Observed
  <2>2. CASE ok = c.current
    <3>1. trace'.len = trace.len + 1
      BY <1>4, <1>5, <1>6, <2>2
    <3>2. Observed(trace') = Observed(trace) + 1 /\ Observed(trace) \in Nat
      BY <1>4, <1>5, <3>1 DEF Observed
    <3>3. /\ Observed(trace) <= L => Observed(trace) <= c.count
          /\ Observed(trace) > L => L <= c.count
      BY <1>8 DEF Inv, Decides
    <3>4. \/ c.count < L /\ d.count = c.count + 1
          \/ c.count >= L /\ d.count = c.count
      BY <1>3, <1>4, <1>8, <2>2
    <3> HIDE DEF L, d, c
    <3> QED BY <1>4, <1>8, <3>2, <3>3, <3>4
  <2> QED BY <2>1, <2>2
<1>10. Decides'
  <2>1. ThresholdLength(settings') = L
    BY <1>8
  <2> QED BY <1>2, <1>3, <1>8, <1>9, <2>1 DEF Decides
<1> QED BY <1>3, <1>7, <1>10

\* One round counts its alert against the maximum, and its time as up or down.
LEMMA RoundAgrees ==
  ASSUME Inv, NEW ok \in BOOLEAN, Round(ok)
  PROVE  /\ Agrees(result, trace)' /\ Paces'
<1> DEFINE n == result.nsd
           st == result'.status
<1>1. /\ result \in ProbeResults
      /\ trace \in Traces /\ settings \in ProbeSettings
      /\ now \in Nat /\ now' = now + 1 /\ now' \in Nat
      /\ result.latestDown \in Nat /\ result.latestDown <= now
      /\ n \in NotificationStrategyData /\ n.notified \in Nat
      /\ n.maxTimes \in Nat
  <2>1. n \in NotificationStrategyData
    BY RoundFields DEF ProbeResults
  <2> QED BY <2>1, RoundFields DEF NotificationStrategyData
<1>2. /\ result' \in ProbeResults
      /\ result'.nsd = ProcessStatus(n, st = "up")
      /\ result'.total = result.total + 1
      /\ result'.times = [result.times EXCEPT ![st] = @ + 1]
      /\ result'.upTime = IF st = "up" THEN result.upTime + 1 ELSE result.upTime
      /\ result'.downTime =
           IF st = "up" THEN result.downTime ELSE result.downTime + 1
      /\ result'.latestDown = IF result.status # "down" /\ st = "down"
                              THEN now' ELSE result.latestDown
  BY RoundFields
<1>3. st \in Statuses
  BY <1>2 DEF ProbeResults
<1>4. /\ trace'.alerts = IF st = "up" THEN 0
                         ELSE IF result'.nsd.isSent THEN trace.alerts + 1
                              ELSE trace.alerts
      /\ trace'.unsaved = IF st = "up" THEN 0
                          ELSE IF result'.nsd.isSent THEN trace.unsaved + 1
                               ELSE trace.unsaved
      /\ trace'.forgotten = IF st = "up" THEN 0 ELSE trace.forgotten
      /\ trace'.downRounds = IF st = "down" THEN trace.downRounds + 1 ELSE 0
  BY DEF Round, Traced
<1>5. /\ trace.alerts \in Nat /\ trace.downRounds \in Nat
      /\ trace.unsaved \in Nat /\ trace.forgotten \in Nat
      /\ stored.result.nsd.notified \in Nat
      /\ stored' = stored
  BY <1>1 DEF Traces, Inv, Agrees, ProbeResults, NotificationStrategyData, Round
<1>6. trace' \in Traces
  <2>1. trace' = Traced(trace, ok, result')
    BY DEF Round
  <2> QED BY <1>1, <2>1 DEF Traced, Traces
<1>7. Paces'
  <2> DEFINE kept == stored.result.nsd.notified
  <2>1. /\ trace.alerts <= n.notified + trace.forgotten
        /\ trace.alerts <= kept + trace.forgotten + trace.unsaved
        /\ n.maxTimes = settings.maxTimes
        /\ settings' = settings
    BY DEF Inv, Paces, Round
  <2>4. kept \in Nat /\ stored'.result.nsd.notified = kept
    BY <1>5
  <2> HIDE DEF kept
  <2>2. CASE st = "up"
    <3>1. (st = "up") = TRUE
      BY <2>2
    <3>2. result'.nsd = ProcessStatus(n, TRUE)
      BY <1>2, <3>1
    <3>3. result'.nsd.notified = 0 /\ result'.nsd.maxTimes = n.maxTimes
          /\ result'.nsd.isSent = FALSE
      BY <1>1, <3>2, UpRound DEF ProcessStatus, Reset, NotificationStrategyData
    <3>4. trace'.alerts = 0 /\ trace'.unsaved = 0 /\ trace'.forgotten = 0
      BY <1>4, <2>2
    <3>5. result'.nsd.maxTimes = settings'.maxTimes
      BY <2>1, <3>3
    <3> QED BY <2>4, <3>3, <3>4, <3>5 DEF Paces
  <2>3. CASE st # "up"
    <3>1. (st = "up") = FALSE
      BY <2>3
    <3>2. result'.nsd = ProcessStatus(n, FALSE)
      BY <1>2, <3>1
    <3>3. /\ result'.nsd.maxTimes = n.maxTimes
          /\ \/ result'.nsd.notified \in {n.notified, n.notified + 1}
                /\ result'.nsd.isSent = FALSE
             \/ /\ result'.nsd.notified = n.notified + 1
                /\ n.notified + 1 <= n.maxTimes
                /\ result'.nsd.isSent = TRUE
      <4>1. \/ n.failed + 1 < n.next
            \/ n.failed + 1 >= n.next /\ n.notified + 1 > n.maxTimes
            \/ n.failed + 1 >= n.next /\ n.notified + 1 <= n.maxTimes
        BY <1>1 DEF NotificationStrategyData
      <4> QED BY <1>1, <3>2, <4>1, FailedRound
    <3>4. CASE /\ result'.nsd.notified \in {n.notified, n.notified + 1}
               /\ result'.nsd.isSent = FALSE
      <4>1. /\ trace'.alerts = trace.alerts /\ trace'.unsaved = trace.unsaved
            /\ trace'.forgotten = trace.forgotten
        BY <1>4, <2>3, <3>4
      <4>2. trace'.alerts <= result'.nsd.notified + trace'.forgotten
        BY <1>1, <1>5, <2>1, <3>4, <4>1
      <4>3. trace'.alerts <= kept + trace'.forgotten + trace'.unsaved
        BY <2>1, <4>1
      <4> QED BY <2>1, <2>4, <3>3, <3>4, <4>2, <4>3 DEF Paces
    <3>5. CASE /\ result'.nsd.notified = n.notified + 1
               /\ n.notified + 1 <= n.maxTimes
               /\ result'.nsd.isSent = TRUE
      <4>1. /\ trace'.alerts = trace.alerts + 1
            /\ trace'.unsaved = trace.unsaved + 1
            /\ trace'.forgotten = trace.forgotten
        BY <1>4, <2>3, <3>5
      <4>2. trace'.alerts <= result'.nsd.notified + trace'.forgotten
            /\ trace'.alerts <= settings.maxTimes + trace'.forgotten
        BY <1>1, <1>5, <2>1, <3>5, <4>1
      <4>3. trace'.alerts <= kept + trace'.forgotten + trace'.unsaved
        BY <1>5, <2>1, <2>4, <4>1
      <4> QED BY <2>1, <2>3, <2>4, <3>3, <4>2, <4>3 DEF Paces
    <3> QED BY <3>3, <3>4, <3>5
  <2> QED BY <2>2, <2>3
<1>8. Adds(result')
  <2> DEFINE old == result.times
  <2>1. /\ old \in [Statuses -> Nat] /\ result.upTime \in Nat
        /\ result.downTime \in Nat /\ result.total \in Nat
    BY <1>1 DEF ProbeResults
  <2>2. Adds(result)
    BY DEF Inv, Agrees
  <2>3. st = "init" \/ st = "up" \/ st = "down"
    BY <1>3 DEF Statuses
  <2>4. old["init"] \in Nat /\ old["up"] \in Nat /\ old["down"] \in Nat
    BY <2>1 DEF Statuses
  <2>5. /\ result'.times["init"] =
             IF st = "init" THEN old["init"] + 1 ELSE old["init"]
        /\ result'.times["up"] = IF st = "up" THEN old["up"] + 1 ELSE old["up"]
        /\ result'.times["down"] =
             IF st = "down" THEN old["down"] + 1 ELSE old["down"]
    BY <1>2, <2>1 DEF Statuses
  <2> HIDE DEF st
  <2> QED BY <1>2, <2>1, <2>2, <2>3, <2>4, <2>5 DEF Adds
<1>9. Spans(result, trace)'
  <2>1. Spans(result, trace)
    BY DEF Inv, Agrees
  <2>2. result'.latestDown <= now'
    BY <1>1, <1>2, <2>1 DEF Spans
  <2>3. st = "down" => result'.latestDown + trace'.downRounds <= now' + 1
    <3>1. CASE st = "down" /\ result.status # "down"
      <4>1. trace'.downRounds = 1 /\ result'.latestDown = now'
        BY <1>2, <1>4, <1>5, <2>1, <3>1 DEF Spans
      <4> QED BY <1>1, <4>1
    <3>2. CASE st = "down" /\ result.status = "down"
      <4>1. trace'.downRounds = trace.downRounds + 1
            /\ result'.latestDown = result.latestDown
        BY <1>2, <1>4, <3>2
      <4>2. result.latestDown + trace.downRounds <= now + 1
        BY <2>1, <3>2 DEF Spans
      <4> QED BY <1>1, <1>5, <4>1, <4>2
    <3> QED BY <3>1, <3>2
  <2>4. st # "down" => trace'.downRounds = 0
    BY <1>4
  <2> QED BY <2>2, <2>3, <2>4 DEF Spans
<1>10. Sound(result'.counter) /\ Counts(result', trace')
  BY RoundCounts
<1> QED BY <1>2, <1>6, <1>7, <1>8, <1>9, <1>10 DEF Agrees

LEMMA NextInv == Inv /\ [Next]_vars => Inv'
<1> SUFFICES ASSUME Inv, [Next]_vars PROVE Inv'
  OBVIOUS
<1>1. ASSUME NEW ok \in BOOLEAN, Round(ok) PROVE Inv'
  <2>1. Agrees(result, trace)' /\ Paces' /\ Decides'
    BY <1>1, RoundAgrees, RoundCounts
  <2>2. settings' = settings /\ stored' = stored /\ now' = now + 1
    BY <1>1 DEF Round
  <2>3. now' \in Nat /\ Agrees(stored.result, stored.trace)'
    <3>1. /\ now \in Nat /\ stored.result \in ProbeResults
          /\ stored.trace \in Traces /\ Agrees(stored.result, stored.trace)
      BY DEF Inv, Agrees
    <3>2. stored.result.latestDown \in Nat /\ stored.trace.downRounds \in Nat
      BY <3>1 DEF ProbeResults, Traces
    <3>3. Spans(stored.result, stored.trace)'
      BY <2>2, <3>1, <3>2 DEF Agrees, Spans
    <3> QED BY <2>2, <3>1, <3>3 DEF Agrees, Counts, Adds
  <2> QED BY <2>1, <2>2, <2>3 DEF Inv
<1>2. CASE Save
  <2>1. /\ stored'.result = result /\ stored'.trace = trace'
        /\ trace' = [trace EXCEPT !.unsaved = 0]
        /\ UNCHANGED <<settings, result, now>>
    BY <1>2 DEF Save
  <2>2. trace \in Traces /\ result \in ProbeResults
        /\ result.nsd.notified \in Nat
    BY DEF Inv, Agrees, ProbeResults, NotificationStrategyData
  <2>3. /\ trace' \in Traces /\ trace'.unsaved = 0
        /\ trace'.len = trace.len /\ trace'.ok = trace.ok
        /\ trace'.fresh = trace.fresh /\ trace'.downRounds = trace.downRounds
        /\ trace'.alerts = trace.alerts /\ trace'.forgotten = trace.forgotten
        /\ trace.forgotten \in Nat
    BY <2>1, <2>2 DEF Traces
  <2>4. stored' \in [result : ProbeResults, trace : Traces]
    BY <1>2, <2>1, <2>2, <2>3 DEF Save
  <2>5. Agrees(result, trace)' /\ Agrees(stored.result, stored.trace)'
    BY <2>1, <2>2, <2>3 DEF Inv, Agrees, Counts, Adds, Spans
  <2>6. Decides'
    BY <2>1, <2>3 DEF Inv, Decides, Observed
  <2>7. Paces'
    BY <2>1, <2>2, <2>3 DEF Inv, Paces
  <2> QED BY <2>1, <2>4, <2>5, <2>6, <2>7 DEF Inv
<1>3. ASSUME NEW s \in Settings, Restart(s) PROVE Inv'
  <2> DEFINE r == stored.result
             t == stored.trace
             q == Configured(r, s)
             u == Rewound(trace, t)
  <2>1. s \in ProbeSettings /\ now \in Nat /\ Agrees(r, t) /\ trace \in Traces
    BY SettingsAssumption DEF Inv, Agrees
  <2>2. /\ Agrees(q, u) /\ u.fresh = 0 /\ u.len \in Nat
        /\ q.counter.maxLen = ThresholdLength(s) /\ q.counter.count \in Nat
        /\ q.nsd.maxTimes = s.maxTimes /\ q.nsd.isSent = FALSE
        /\ q.nsd.notified = r.nsd.notified
    BY <2>1, ConfiguredAgrees
  <2>3. /\ settings' = s /\ result' = q /\ trace' = u
        /\ now' = now /\ stored' = stored
    BY <1>3 DEF Restart
  <2>4. /\ u.alerts = trace.alerts /\ u.unsaved = 0
        /\ u.forgotten = trace.forgotten + trace.unsaved
        /\ trace.forgotten \in Nat /\ trace.unsaved \in Nat
    <3>1. t \in Traces
      BY <2>1 DEF Agrees
    <3> HIDE DEF t
    <3> QED BY <2>1, <3>1 DEF Rewound, Traces
  <2>5. r.nsd.notified \in Nat
        /\ trace.alerts <= r.nsd.notified + trace.forgotten + trace.unsaved
    BY <2>1 DEF Inv, Paces, Agrees, ProbeResults, NotificationStrategyData
  <2>6. stored'.result = r
    BY <2>3
  <2>7. Agrees(stored.result, stored.trace)'
    BY <2>1, <2>3 DEF Agrees, Counts, Adds, Spans
  <2> HIDE DEF r, t, q, u
  <2>8. Agrees(result, trace)'
    BY <2>2, <2>3 DEF Agrees, Counts, Adds, Spans
  <2>9. ThresholdLength(s) \in Nat \ {0}
    BY <2>1 DEF ThresholdLength, ProbeSettings
  <2>10. Decides'
    BY <2>2, <2>3, <2>9 DEF Decides, Observed
  <2>11. Paces'
    BY <2>2, <2>3, <2>4, <2>5, <2>6 DEF Paces
  <2>12. stored' \in [result : ProbeResults, trace : Traces]
    BY <2>3 DEF Inv
  <2> QED BY <1>3, <2>1, <2>3, <2>7, <2>8, <2>10, <2>11, <2>12 DEF Inv
<1>4. CASE UNCHANGED vars
  BY <1>4 DEF vars, Inv, Agrees, Counts, Adds, Spans, Decides, Paces
<1> QED BY <1>1, <1>2, <1>3, <1>4 DEF Next

-----------------------------------------------------------------------------
\* The state of a prober keeps its types: in particular a downtime is never
\* negative, and no counter or status leaves its range.
THEOREM ProberTyped == Spec => []TypeOK
<1>1. Inv => TypeOK
  BY DEF Inv, Agrees, TypeOK
<1> QED BY <1>1, InitInv, NextInv, PTL DEF Spec

\* The counter agrees with its history, and claims no more consecutive
\* outcomes than there were, whatever thresholds the restarts bring.
THEOREM CounterCorrect == Spec => [](CounterMatchesHistory /\ CountIsObserved)
<1>1. Inv => CounterMatchesHistory /\ CountIsObserved
  BY DEF Inv, Agrees, Sound, Counts, CounterMatchesHistory, CountIsObserved
<1> QED BY <1>1, InitInv, NextInv, PTL DEF Spec

\* The count a threshold is compared with never exceeds the equal outcomes that
\* were seen, also after a restart with a longer or a shorter history.
THEOREM CountHonest == Spec => []CountIsObserved
<1>1. Inv => CountIsObserved
  BY DEF Inv, Agrees, Sound, Counts, CountIsObserved
<1> QED BY <1>1, InitInv, NextInv, PTL DEF Spec

\* For every threshold, that many equal outcomes since the start decide the
\* status: the cap of the count never hides them.
THEOREM ThresholdsDecide == Spec => []ThresholdDecides
<1>1. Inv => ThresholdDecides
  <2> SUFFICES ASSUME Inv PROVE ThresholdDecides
    OBVIOUS
  <2> DEFINE c == result.counter
             o == Observed(trace)
  <2>1. /\ settings \in ProbeSettings /\ trace \in Traces
        /\ c \in StatusCounterData
    BY SettingsAssumption DEF Inv, Agrees, ProbeResults
  <2>2. /\ settings.success \in Nat /\ settings.failure \in Nat
        /\ settings.success <= ThresholdLength(settings)
        /\ settings.failure <= ThresholdLength(settings)
        /\ ThresholdLength(settings) \in Nat
    BY <2>1 DEF ThresholdLength, ProbeSettings
  <2>3. trace.len \in Nat /\ trace.fresh \in Nat /\ o \in Nat
        /\ c.count \in Nat
    BY <2>1 DEF Traces, Observed, StatusCounterData
  <2>4. o > 0 => trace.fresh > 0 /\ trace.len > 0
    BY <2>3 DEF Observed
  <2>5. o > 0 => c.current = trace.ok
    BY <2>4 DEF Inv, Agrees, Counts
  <2>6. \A x \in Nat :
          x <= ThresholdLength(settings) /\ o >= x => c.count >= x
    BY <2>2, <2>3 DEF Inv, Decides
  <2>7. /\ o >= settings.success => c.count >= settings.success
        /\ o >= settings.failure => c.count >= settings.failure
    BY <2>2, <2>6
  <2>8. /\ o > 0 /\ c.current /\ o >= settings.success => result.status = "up"
        /\ o > 0 /\ ~ c.current /\ o >= settings.failure =>
             result.status = "down"
    BY <2>4, <2>7 DEF Inv, Decides
  <2>9. /\ o > 0 /\ trace.ok /\ o >= settings.success => result.status = "up"
        /\ o > 0 /\ ~ trace.ok /\ o >= settings.failure =>
             result.status = "down"
    BY <2>5, <2>8
  <2> QED BY <2>9 DEF ThresholdDecides, Observed
<1> QED BY <1>1, InitInv, NextInv, PTL DEF Spec

\* Over any number of restarts an outage is alerted of more often than the
\* maximum only by the alerts that a restart forgot before they were saved.
THEOREM AlertsBounded == Spec => []AlertsCounted
<1>1. Inv => AlertsCounted
  BY DEF Inv, Agrees, Paces, AlertsCounted
<1> QED BY <1>1, InitInv, NextInv, PTL DEF Spec

\* Every round is counted once, as up time or as down time.
THEOREM StatCorrect == Spec => []StatAddsUp
<1>1. Inv => StatAddsUp
  BY DEF Inv, Agrees, Adds, StatAddsUp
<1> QED BY <1>1, InitInv, NextInv, PTL DEF Spec

\* The downtime a recovery reports covers every round the outage was seen
\* down, over restarts that lost some of them too.
THEOREM RecoveryCovers == Spec => RecoverySpansOutage
<1>1. ASSUME Inv, [Next]_vars, now' > now,
             result.status = "down", result'.status = "up"
      PROVE  result'.recovery >= trace.downRounds
  <2>1. now \in Nat /\ Agrees(result, trace) /\ settings \in ProbeSettings
    BY <1>1, SettingsAssumption DEF Inv
  <2>2. PICK ok \in BOOLEAN : Round(ok)
    BY <1>1, <2>1 DEF Next, Save, Restart, vars
  <2>3. /\ now' = now + 1 /\ result.latestDown \in Nat
        /\ result'.recovery = IF result.status = "down" /\ result'.status = "up"
                              THEN now' - result.latestDown ELSE result.recovery
    BY <1>1, <2>2, RoundFields
  <2>4. result'.recovery = now' - result.latestDown
    BY <1>1, <2>3
  <2>5. trace.downRounds \in Nat
    BY <2>1 DEF Agrees, Traces
  <2>6. result.latestDown + trace.downRounds <= now + 1
    BY <1>1, <2>1 DEF Agrees, Spans
  <2> QED BY <2>1, <2>3, <2>4, <2>5, <2>6
<1> QED BY <1>1, InitInv, NextInv, PTL DEF Spec, RecoverySpansOutage
=============================================================================
