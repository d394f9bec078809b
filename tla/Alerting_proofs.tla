--------------------------- MODULE Alerting_proofs ---------------------------
(***************************************************************************)
(* Proofs about Alerting, for any strategy, maximum, buffer, notifiers and *)
(* number of attempts; what is told of an outage, for the default          *)
(* thresholds of one round.  The lemmas about a round of the prober are    *)
(* those of Prober_proofs.                                                 *)
(***************************************************************************)
EXTENDS Alerting, SequenceTheorems, TLAPS

R == INSTANCE Prober_proofs

-----------------------------------------------------------------------------
(***************************************************************************)
(* The prober of Alerting is the one of Prober_proofs.                     *)
(***************************************************************************)
LEMMA SameTypes ==
  /\ P!ProbeResults = R!ProbeResults /\ P!ProbeSettings = R!ProbeSettings
  /\ P!Traces = R!Traces /\ P!NewResult = R!NewResult
<1>1. /\ P!Statuses = R!Statuses /\ P!Strategies = R!Strategies
      /\ P!StatusCounterData = R!StatusCounterData
  BY DEF P!Statuses, R!Statuses, P!Strategies, R!Strategies,
         P!StatusCounterData, R!StatusCounterData
<1>2. P!NotificationStrategyData = R!NotificationStrategyData
  BY <1>1 DEF P!NotificationStrategyData, R!NotificationStrategyData
<1>3. P!ProbeResults = R!ProbeResults /\ P!ProbeSettings = R!ProbeSettings
  BY <1>1, <1>2 DEF P!ProbeResults, R!ProbeResults, P!ProbeSettings,
                    R!ProbeSettings
<1>4. P!Traces = R!Traces
  BY DEF P!Traces, R!Traces
<1>5. P!NewResult = R!NewResult
  <2>1. P!DefaultStrategy = R!DefaultStrategy
    BY DEF P!DefaultStrategy, R!DefaultStrategy
  <2>2. P!NewNotificationStrategyData(P!DefaultStrategy)
          = R!NewNotificationStrategyData(R!DefaultStrategy)
    BY <2>1 DEF P!NewNotificationStrategyData, R!NewNotificationStrategyData
  <2>3. P!NewStatusCounter(1) = R!NewStatusCounter(1)
    BY DEF P!NewStatusCounter, R!NewStatusCounter
  <2> QED BY <1>1, <2>2, <2>3 DEF P!NewResult, R!NewResult
<1> QED BY <1>3, <1>4, <1>5

\* The assumption of Prober_proofs, which each use of its lemmas rests on.
LEMMA Accepted == Settings \subseteq R!ProbeSettings
BY SettingsAssumption, SameTypes

LEMMA SameConfigured ==
  ASSUME NEW r, NEW s
  PROVE  P!Configured(r, s) = R!Configured(r, s)
<1>1. P!ThresholdLength(s) = R!ThresholdLength(s)
  BY DEF P!ThresholdLength, R!ThresholdLength
<1>2. \A c, n : P!SetMaxLen(c, n) = R!SetMaxLen(c, n)
  BY DEF P!SetMaxLen, R!SetMaxLen
<1> QED BY <1>1, <1>2 DEF P!Configured, R!Configured

LEMMA SameProbed ==
  ASSUME NEW r, NEW s, NEW ok, NEW time
  PROVE  P!Probed(r, s, ok, time) = R!Probed(r, s, ok, time)
<1>1. \A c, b : P!AppendStatus(c, b) = R!AppendStatus(c, b)
  BY DEF P!AppendStatus, R!AppendStatus
<1>2. \A x, y : P!CheckStatusThreshold(x, y) = R!CheckStatusThreshold(x, y)
  BY DEF P!CheckStatusThreshold, R!CheckStatusThreshold
<1>3. ASSUME NEW x, NEW y \in BOOLEAN
      PROVE  P!ProcessStatus(x, y) = R!ProcessStatus(x, y)
  <2> DEFINE f == [x EXCEPT !.isSent = FALSE, !.failed = @ + 1]
             d == [f EXCEPT !.notified = @ + 1]
  <2>1. \A n : P!NextInterval(n) = R!NextInterval(n)
    BY DEF P!NextInterval, R!NextInterval
  <2>2. \A n : P!NextNotification(n) = R!NextNotification(n)
    BY <2>1 DEF P!NextNotification, R!NextNotification
  <2>3. \A n : P!Reset(n) = R!Reset(n)
    BY DEF P!Reset, R!Reset
  <2>4. \A n : P!IsExceedMaxTimes(n) <=> R!IsExceedMaxTimes(n)
    BY DEF P!IsExceedMaxTimes, R!IsExceedMaxTimes
  <2>5. P!ProcessStatus(x, y) =
          IF y THEN P!Reset(x) ELSE IF f.failed < f.next THEN f
          ELSE IF P!IsExceedMaxTimes(d) THEN d
          ELSE [P!NextNotification(d) EXCEPT !.isSent = TRUE]
    BY DEF P!ProcessStatus
  <2>6. R!ProcessStatus(x, y) =
          IF y THEN R!Reset(x) ELSE IF f.failed < f.next THEN f
          ELSE IF R!IsExceedMaxTimes(d) THEN d
          ELSE [R!NextNotification(d) EXCEPT !.isSent = TRUE]
    BY DEF R!ProcessStatus
  <2>7. /\ P!Reset(x) = R!Reset(x)
        /\ P!IsExceedMaxTimes(d) <=> R!IsExceedMaxTimes(d)
        /\ P!NextNotification(d) = R!NextNotification(d)
    BY <2>2, <2>3, <2>4
  <2> DEFINE quiet == f.failed < f.next
  <2> HIDE DEF f, d, quiet
  <2>8. CASE y
    BY <2>5, <2>6, <2>7, <2>8
  <2>9. CASE ~ y /\ quiet
    BY <2>5, <2>6, <2>9 DEF quiet
  <2>10. CASE ~ y /\ ~ quiet /\ P!IsExceedMaxTimes(d)
    BY <2>5, <2>6, <2>7, <2>10 DEF quiet
  <2>11. CASE ~ y /\ ~ quiet /\ ~ P!IsExceedMaxTimes(d)
    BY <2>5, <2>6, <2>7, <2>11 DEF quiet
  <2> QED BY <2>8, <2>9, <2>10, <2>11
<1>4. \A x : P!DoStat(x) = R!DoStat(x)
  BY DEF P!DoStat, R!DoStat
<1>5. \A x, y : P!DownTimeCalculation(x, y) = R!DownTimeCalculation(x, y)
  BY DEF P!DownTimeCalculation, R!DownTimeCalculation
<1> QED BY <1>1, <1>2, <1>3, <1>4, <1>5 DEF P!Probed, R!Probed

-----------------------------------------------------------------------------
(***************************************************************************)
(* Types, the order of the counter's outcomes among them.                  *)
(***************************************************************************)
Sequenced ==
  /\ queue \in Seq(R!ProbeResults) /\ Len(queue) <= Capacity
  /\ sending \in {<< >>, <<result>>}
  /\ decided \in Seq({"failure", "recovery"})

ProberTyped ==
  /\ settings \in Settings
  /\ result \in R!ProbeResults /\ R!Sound(result.counter)
  /\ now \in Nat /\ result.latestDown <= now
  /\ result.nsd.maxTimes = settings.maxTimes
  /\ trace \in R!Traces
  /\ stored \in [result : R!ProbeResults, trace : R!Traces]

Typed == ProberTyped /\ Sequenced

\* What Config leaves of a new result.
LEMMA ConfiguredNew ==
  ASSUME Init
  PROVE  /\ ProberTyped
         /\ result.status = "init" /\ result.nsd.failed = 0
         /\ result.nsd.notified = 0 /\ result.nsd.next = 1
<1> DEFINE r == R!NewResult
           q == R!Configured(R!NewResult, settings)
<1>1. /\ settings \in Settings /\ settings \in R!ProbeSettings
      /\ result = q /\ now = 0 /\ trace = P!NoTrace
      /\ stored = [result |-> r, trace |-> P!NoTrace]
  BY SettingsAssumption, SameTypes, SameConfigured DEF Init, P!Init
<1>2. P!NoTrace \in R!Traces
  BY DEF P!NoTrace, R!Traces
<1>3. R!Agrees(r, R!NoTrace)
  <2>1. now \in Nat => R!Agrees(R!NewResult, R!NoTrace)
    BY Accepted, R!NewResultAgrees
  <2> QED BY <1>1, <2>1
<1>4. r \in R!ProbeResults /\ R!Sound(r.counter)
  BY <1>3 DEF R!Agrees
<1>5. /\ r.status = "init" /\ r.latestDown = 0 /\ r.nsd.failed = 0
      /\ r.nsd.notified = 0 /\ r.nsd.next = 1
  BY DEF R!NewResult, R!NewNotificationStrategyData
<1>6. /\ q \in R!ProbeResults /\ R!Sound(q.counter)
      /\ q.nsd.maxTimes = settings.maxTimes
      /\ q.nsd.notified = r.nsd.notified /\ q.nsd.failed = r.nsd.failed
      /\ q.nsd.next = r.nsd.next
      /\ q.status = r.status /\ q.latestDown = r.latestDown
  BY <1>1, <1>4, Accepted, R!ConfiguredFields
<1> HIDE DEF r, q
<1> QED BY <1>1, <1>2, <1>4, <1>5, <1>6 DEF ProberTyped

\* What a round of the prober leaves of its result.
LEMMA RoundResult ==
  ASSUME ProberTyped, NEW ok \in BOOLEAN, P!Round(ok)
  PROVE  LET c == R!AppendStatus(result.counter, ok) IN
         /\ settings' = settings /\ settings \in R!ProbeSettings
         /\ ProberTyped' /\ result.counter \in R!StatusCounterData
         /\ result'.preStatus = result.status
         /\ result'.status =
              IF c.current /\ c.count >= settings.success THEN "up"
              ELSE IF ~ c.current /\ c.count >= settings.failure
                   THEN "down" ELSE result.preStatus
         /\ result'.nsd = R!ProcessStatus(result.nsd, result'.status = "up")
<1> DEFINE c == R!AppendStatus(result.counter, ok)
           p == R!Probed(result, settings, ok, now')
<1>1. /\ settings \in R!ProbeSettings /\ now' = now + 1
      /\ result \in R!ProbeResults /\ R!Sound(result.counter)
      /\ now \in Nat /\ result.latestDown <= now
      /\ result' = p
      /\ trace' = P!Traced(trace, ok, result')
      /\ settings' = settings /\ stored' = stored
  BY SettingsAssumption, SameTypes, SameProbed DEF ProberTyped, P!Round
<1>2. /\ result.latestDown \in Nat /\ result.counter \in R!StatusCounterData
      /\ result.nsd \in R!NotificationStrategyData
  BY <1>1 DEF R!ProbeResults
<1>3. now' \in Nat /\ result.latestDown <= now'
  BY <1>1, <1>2
<1>4. /\ p \in R!ProbeResults /\ R!Sound(p.counter)
      /\ p.preStatus = result.status
      /\ p.status = IF c.current /\ c.count >= settings.success THEN "up"
                    ELSE IF ~ c.current /\ c.count >= settings.failure
                         THEN "down" ELSE result.preStatus
      /\ p.nsd = R!ProcessStatus(result.nsd, p.status = "up")
      /\ p.latestDown <= now'
  BY <1>1, <1>3, Accepted, R!ProbedStatus
<1> HIDE DEF p, c
<1>6. p.nsd.maxTimes = result.nsd.maxTimes
  <2>1. CASE p.status = "up"
    BY <1>2, <1>4, <2>1, Accepted, R!UpRound
  <2>2. CASE p.status # "up"
    <3>1. (p.status = "up") = FALSE
      BY <2>2
    <3> QED BY <1>2, <1>4, <3>1, Accepted, R!FailedRound
  <2> QED BY <2>1, <2>2
<1>7. P!Traced(trace, ok, result') \in R!Traces
  BY DEF ProberTyped, P!Traced, R!Traces
<1>8. ProberTyped'
  BY <1>1, <1>3, <1>4, <1>6, <1>7 DEF ProberTyped
<1> QED BY <1>1, <1>2, <1>4, <1>8 DEF c

-----------------------------------------------------------------------------
(***************************************************************************)
(* The goroutines of the notifiers: one for each decision and notifier,    *)
(* running as long as DoRetry does not return.                             *)
(***************************************************************************)
Count == Len(decided)

Goroutines == N!Job(1 .. Count)

Running ==
  \A j \in jobs :
    j \in Goroutines /\ j.last \notin {"sent", "refused"} /\ j.tries < RetryTimes

Returned ==
  \A j \in finished :
    /\ j \in Goroutines /\ j.last \in N!Answers
    /\ j.last = "error" => j.tries = RetryTimes

OnePerNotifier ==
  \A j, k \in jobs \cup finished : j.id = k.id /\ j.to = k.to => j = k

Notifying ==
  /\ dry \subseteq Notifiers /\ Count \in Nat
  /\ Running /\ Returned /\ OnePerNotifier /\ EveryNotifierStarted

IInv == Typed /\ Notifying

LEMMA NotifyingStays ==
  ASSUME Notifying, UNCHANGED <<decided, dry, jobs, finished>>
  PROVE  Notifying'
BY DEF Notifying, Running, Returned, OnePerNotifier,
       EveryNotifierStarted, Count, Goroutines, N!Job

\* A decision starts a goroutine for each notifier that is not dry; those of
\* earlier decisions are left alone.
LEMMA NotifyNotifying ==
  ASSUME Notifying, Count' = Count + 1, N!Notify(Count + 1)
  PROVE  Notifying'
<1> DEFINE new == N!Started(Count + 1, Notifiers)
<1>1. /\ jobs' = jobs \cup new /\ dry' = dry /\ finished' = finished
      /\ dry \subseteq Notifiers /\ Count \in Nat
  BY DEF N!Notify, Notifying
<1>2. \A j \in new :
        /\ j = [id |-> Count + 1, to |-> j.to, tries |-> 0, last |-> "none"]
        /\ j.id = Count + 1 /\ j.to \in Notifiers \ dry
        /\ j.tries = 0 /\ j.last = "none"
  BY DEF N!Started
<1>3. \A n \in Notifiers \ dry : \E j \in new : j.id = Count + 1 /\ j.to = n
  <2> SUFFICES ASSUME NEW n \in Notifiers \ dry
               PROVE  \E j \in new : j.id = Count + 1 /\ j.to = n
    OBVIOUS
  <2> DEFINE g == [id |-> Count + 1, to |-> n, tries |-> 0, last |-> "none"]
  <2>1. g \in new /\ g.id = Count + 1 /\ g.to = n
    BY DEF N!Started
  <2> QED BY <2>1
<1>4. \A j \in jobs \cup finished : j.id \in 1 .. Count /\ j.id # Count + 1
  <2>1. \A j \in jobs \cup finished : j.id \in 1 .. Count
    BY DEF Notifying, Running, Returned, Goroutines, N!Job
  <2> QED BY <1>1, <2>1
<1>5. Goroutines \subseteq Goroutines'
  BY <1>1 DEF Goroutines, N!Job
<1>6. \A j \in new : j \in Goroutines'
  <2> SUFFICES ASSUME NEW j \in new PROVE j \in Goroutines'
    OBVIOUS
  <2>1. /\ Count + 1 \in 1 .. Count' /\ 0 \in 0 .. RetryTimes
    BY <1>1, RetryAssumption
  <2>2. j.to \in Notifiers \ dry'
    BY <1>1, <1>2
  <2> HIDE DEF new
  <2> QED BY <1>2, <2>1, <2>2 DEF Goroutines, N!Job
<1> HIDE DEF new
<1>7. Running'
  BY <1>1, <1>2, <1>5, <1>6, RetryAssumption DEF Notifying, Running
<1>8. Returned'
  BY <1>1, <1>5 DEF Notifying, Returned
<1>9. OnePerNotifier'
  <2> SUFFICES ASSUME NEW j \in jobs' \cup finished',
                      NEW k \in jobs' \cup finished',
                      j.id = k.id, j.to = k.to
               PROVE  j = k
    BY DEF OnePerNotifier
  <2>1. CASE j \in new
    <3>1. k \in new
      BY <1>1, <1>2, <1>4, <2>1
    <3> QED BY <1>2, <2>1, <3>1
  <2>2. CASE j \notin new
    <3>1. j \in jobs \cup finished /\ k \in jobs \cup finished
      BY <1>1, <1>2, <1>4, <2>2
    <3> QED BY <3>1 DEF Notifying, OnePerNotifier
  <2> QED BY <2>1, <2>2
<1>10. EveryNotifierStarted'
  <2> SUFFICES ASSUME NEW id \in 1 .. Count', NEW n \in Notifiers
               PROVE  (n \in dry) #
                      (\E j \in jobs' \cup finished' : j.id = id /\ j.to = n)
    BY <1>1 DEF EveryNotifierStarted, Count
  <2>1. jobs' \cup finished' = (jobs \cup finished) \cup new
    BY <1>1
  <2>2. CASE id \in 1 .. Count
    <3>1. (n \in dry) # (\E j \in jobs \cup finished : j.id = id /\ j.to = n)
      BY <2>2 DEF Notifying, EveryNotifierStarted, Count
    <3>2. \A j \in new : j.id # id
      BY <1>1, <1>2, <2>2
    <3> QED BY <2>1, <3>1, <3>2
  <2>3. CASE id = Count + 1
    <3>1. \A j \in jobs \cup finished : j.id # id
      BY <1>4, <2>3
    <3> QED BY <1>2, <1>3, <2>1, <2>3, <3>1
  <2>4. id \in 1 .. Count \/ id = Count + 1
    BY <1>1
  <2> QED BY <2>2, <2>3, <2>4
<1> QED BY <1>1, <1>7, <1>8, <1>9, <1>10 DEF Notifying

\* An attempt: the goroutine goes on, or returns with its reason.
LEMMA AttemptNotifying ==
  ASSUME Notifying, NEW j \in jobs, N!Attempt(j), Count' = Count,
         decided' = decided
  PROVE  Notifying'
<1>1. PICK answer \in N!Answers :
        LET tried == [j EXCEPT !.tries = @ + 1, !.last = answer]
        IN  /\ jobs' = (jobs \ {j}) \cup
                         (IF N!Returns(tried) THEN {} ELSE {tried})
            /\ finished' = finished \cup
                             (IF N!Returns(tried) THEN {tried} ELSE {})
            /\ dry' = dry
  BY DEF N!Attempt
<1> DEFINE tried == [j EXCEPT !.tries = @ + 1, !.last = answer]
<1>2. j \in Goroutines /\ j.tries < RetryTimes
  BY DEF Notifying, Running
<1>3. j.tries \in Nat /\ RetryTimes \in Nat
  BY <1>2, RetryAssumption DEF Goroutines, N!Job
<1>4. /\ tried.id = j.id /\ tried.to = j.to /\ tried.last = answer
      /\ tried.tries = j.tries + 1
  BY <1>2 DEF Goroutines, N!Job
<1>5. tried \in Goroutines
  <2>1. tried.tries \in 0 .. RetryTimes
    BY <1>2, <1>3, <1>4
  <2> QED BY <1>2, <1>4, <2>1 DEF Goroutines, N!Job, tried
<1>6. /\ jobs' = (jobs \ {j}) \cup (IF N!Returns(tried) THEN {} ELSE {tried})
      /\ finished' = finished \cup (IF N!Returns(tried) THEN {tried} ELSE {})
      /\ dry' = dry
  BY <1>1
<1> HIDE DEF tried
<1>7. Goroutines' = Goroutines
  BY <1>6 DEF Goroutines, N!Job
<1>8. /\ ~ N!Returns(tried) =>
           /\ tried.last \notin {"sent", "refused"}
           /\ tried.tries < RetryTimes
      /\ tried.last \in N!Answers
      /\ N!Returns(tried) /\ tried.last = "error" => tried.tries = RetryTimes
  BY <1>2, <1>3, <1>4 DEF N!Returns
<1>10. Running'
  BY <1>5, <1>6, <1>7, <1>8 DEF Notifying, Running
<1>11. Returned'
  BY <1>5, <1>6, <1>7, <1>8 DEF Notifying, Returned
<1>12. j \notin finished
  <2>1. SUFFICES ASSUME j \in finished PROVE FALSE
    OBVIOUS
  <2>2. j.last \notin {"sent", "refused"}
    BY DEF Notifying, Running
  <2>3. /\ j.last \in N!Answers
        /\ j.last = "error" => j.tries = RetryTimes
    BY <2>1 DEF Notifying, Returned
  <2> QED BY <1>2, <1>3, <2>2, <2>3 DEF N!Answers
<1>13. jobs' \cup finished' = ((jobs \cup finished) \ {j}) \cup {tried}
  BY <1>6, <1>12
<1>14. OnePerNotifier'
  <2>1. \A x, y \in (jobs \cup finished) \ {j} :
          x.id = y.id /\ x.to = y.to => x = y
    BY DEF Notifying, OnePerNotifier
  <2>2. \A x \in (jobs \cup finished) \ {j} :
          ~ (x.id = tried.id /\ x.to = tried.to)
    BY <1>4 DEF Notifying, OnePerNotifier
  <2> QED BY <1>13, <2>1, <2>2 DEF OnePerNotifier
<1>15. EveryNotifierStarted'
  <2> SUFFICES ASSUME NEW id \in 1 .. Count, NEW n \in Notifiers
               PROVE  (n \in dry) #
                      (\E k \in jobs' \cup finished' : k.id = id /\ k.to = n)
    BY <1>6 DEF EveryNotifierStarted, Count
  <2>1. (n \in dry) # (\E k \in jobs \cup finished : k.id = id /\ k.to = n)
    BY DEF Notifying, EveryNotifierStarted, Count
  <2>2. (\E k \in jobs \cup finished : k.id = id /\ k.to = n)
          <=> (\E k \in jobs' \cup finished' : k.id = id /\ k.to = n)
    BY <1>4, <1>13
  <2> QED BY <2>1, <2>2
<1> QED BY <1>6, <1>10, <1>11, <1>14, <1>15 DEF Notifying

-----------------------------------------------------------------------------
(***************************************************************************)
(* The invariant of the types and of the notifiers.                        *)
(***************************************************************************)
LEMMA InitInv == Init => IInv
<1> SUFFICES ASSUME Init PROVE IInv
  OBVIOUS
<1>1. ProberTyped
  BY ConfiguredNew
<1>2. Sequenced
  BY CapacityAssumption DEF Init, Sequenced
<1>3. Notifying
  <2>1. decided = << >> /\ jobs = {} /\ finished = {} /\ dry \subseteq Notifiers
    BY DEF Init, N!Init
  <2>2. Count = 0
    BY <2>1 DEF Count
  <2> QED BY <2>1, <2>2 DEF Notifying, Running, Returned, OnePerNotifier,
                            EveryNotifierStarted, Count
<1> QED BY <1>1, <1>2, <1>3 DEF IInv, Typed

\* What Watch takes from the channel, and what it adds when it is to be told.
LEMMA WatchTakes ==
  ASSUME IInv, Watch
  PROVE  /\ Head(queue) \in R!ProbeResults
         /\ queue' = Tail(queue) /\ queue' \in Seq(R!ProbeResults)
         /\ Len(queue') = Len(queue) - 1
         /\ NeedsNotification(Head(queue)) =>
              decided' = Append(decided, IF Head(queue).status = "up"
                                         THEN "recovery" ELSE "failure")
         /\ ~ NeedsNotification(Head(queue)) => decided' = decided
<1>1. queue \in Seq(R!ProbeResults) /\ queue # << >>
  BY DEF IInv, Typed, Sequenced, Watch
<1>2. /\ Head(queue) \in R!ProbeResults /\ Tail(queue) \in Seq(R!ProbeResults)
      /\ Len(Tail(queue)) = Len(queue) - 1
  BY <1>1, HeadTailProperties
<1>3. /\ queue' = Tail(queue)
      /\ NeedsNotification(Head(queue)) =>
           decided' = Append(decided, P!Title(Head(queue)))
      /\ ~ NeedsNotification(Head(queue)) => decided' = decided
  BY DEF Watch
<1>4. NeedsNotification(Head(queue)) =>
        P!Title(Head(queue)) =
          IF Head(queue).status = "up" THEN "recovery" ELSE "failure"
  BY DEF NeedsNotification, P!Title
<1> HIDE DEF NeedsNotification
<1> QED BY <1>2, <1>3, <1>4

LEMMA NextInv == IInv /\ [Next]_vars => IInv'
<1> SUFFICES ASSUME IInv, [Next]_vars PROVE IInv'
  OBVIOUS
<1>1. ASSUME NEW ok \in BOOLEAN, Probe(ok) PROVE IInv'
  <2>1. /\ P!Round(ok) /\ sending' = <<result'>>
        /\ UNCHANGED <<queue, decided, dry, jobs, finished>>
    BY <1>1 DEF Probe
  <2>2. ProberTyped'
    BY <2>1, RoundResult DEF IInv, Typed
  <2>3. Sequenced'
    BY <2>1 DEF IInv, Typed, Sequenced
  <2>4. Notifying'
    BY <2>1, NotifyingStays DEF IInv
  <2> QED BY <2>2, <2>3, <2>4 DEF IInv, Typed
<1>2. CASE Send
  <2>1. /\ sending = <<result>> /\ Len(queue) < Capacity
        /\ queue' = queue \o <<result>> /\ sending' = << >>
        /\ UNCHANGED <<settings, result, now, trace, stored, decided,
                       dry, jobs, finished>>
    BY <1>2 DEF Send, IInv, Typed, Sequenced
  <2>2. Sequenced'
    <3>1. queue \in Seq(R!ProbeResults) /\ result \in R!ProbeResults
      BY DEF IInv, Typed, Sequenced, ProberTyped
    <3>2. /\ queue \o <<result>> \in Seq(R!ProbeResults)
          /\ Len(queue \o <<result>>) = Len(queue) + 1
      BY <3>1, AppendIsConcat, AppendProperties
    <3>3. Len(queue) \in Nat
      BY <3>1, LenProperties
    <3> QED BY <2>1, <3>2, <3>3, CapacityAssumption
            DEF IInv, Typed, Sequenced
  <2>3. ProberTyped' /\ Notifying'
    BY <2>1, NotifyingStays DEF IInv, Typed, ProberTyped
  <2> QED BY <2>2, <2>3 DEF IInv, Typed
<1>3. CASE Watch
  <2>1. UNCHANGED <<settings, result, now, trace, stored, sending>>
    BY <1>3 DEF Watch
  <2>2. ProberTyped'
    BY <2>1 DEF IInv, Typed, ProberTyped
  <2>3. decided \in Seq({"failure", "recovery"})
    BY DEF IInv, Typed, Sequenced
  <2>4. CASE NeedsNotification(Head(queue))
    <3>1. /\ decided' \in Seq({"failure", "recovery"}) /\ Count' = Count + 1
      <4> DEFINE told == IF Head(queue).status = "up"
                         THEN "recovery" ELSE "failure"
      <4>1. told \in {"failure", "recovery"} /\ decided' = Append(decided, told)
        BY <1>3, <2>4, WatchTakes
      <4> HIDE DEF told
      <4> QED BY <2>3, <4>1, AppendProperties DEF Count
    <3>2. N!Notify(Count + 1)
      BY <1>3, <2>4 DEF Watch, Count
    <3>3. Notifying'
      BY <3>1, <3>2, NotifyNotifying DEF IInv
    <3>4. Len(queue') <= Capacity
      <4>1. Len(queue) \in Nat /\ Len(queue) <= Capacity
        BY LenProperties DEF IInv, Typed, Sequenced
      <4>2. Len(queue') = Len(queue) - 1
        BY <1>3, WatchTakes
      <4> QED BY <4>1, <4>2, CapacityAssumption
    <3> QED BY <1>3, <2>1, <2>2, <3>1, <3>3, <3>4, WatchTakes
            DEF IInv, Typed, Sequenced
  <2>5. CASE ~ NeedsNotification(Head(queue))
    <3>1. UNCHANGED <<decided, dry, jobs, finished>>
      BY <1>3, <2>5 DEF Watch
    <3>2. Notifying'
      BY <3>1, NotifyingStays DEF IInv
    <3>3. Len(queue') <= Capacity
      <4>1. Len(queue) \in Nat /\ Len(queue) <= Capacity
        BY LenProperties DEF IInv, Typed, Sequenced
      <4>2. Len(queue') = Len(queue) - 1
        BY <1>3, WatchTakes
      <4> QED BY <4>1, <4>2, CapacityAssumption
    <3> QED BY <1>3, <2>1, <2>2, <2>3, <3>1, <3>2, <3>3, WatchTakes
            DEF IInv, Typed, Sequenced
  <2> QED BY <2>4, <2>5
<1>4. ASSUME NEW n \in Notifiers, Deliver(n) PROVE IInv'
  <2>1. UNCHANGED <<settings, result, now, trace, stored, sending, queue,
                    decided>>
    BY <1>4 DEF Deliver
  <2>2. PICK j \in jobs : N!Attempt(j)
    BY <1>4 DEF Deliver, N!Deliver
  <2>3. Notifying'
    BY <2>1, <2>2, AttemptNotifying DEF IInv, Count
  <2> QED BY <2>1, <2>3 DEF IInv, Typed, ProberTyped, Sequenced
<1>5. CASE UNCHANGED vars
  <2>1. ProberTyped' /\ Sequenced'
    BY <1>5 DEF vars, IInv, Typed, ProberTyped, Sequenced
  <2>2. Notifying'
    BY <1>5, NotifyingStays DEF vars, IInv
  <2> QED BY <2>1, <2>2 DEF IInv, Typed
<1> QED BY <1>1, <1>2, <1>3, <1>4, <1>5 DEF Next

\* The composition keeps its types, for any configuration of the probers: no
\* more results in the channel than it has room for, only goroutines of
\* notifications that were decided, and no more attempts than RetryTimes.
THEOREM AlertingTyped == Spec => []TypeOK
<1>1. IInv => TypeOK
  <2> SUFFICES ASSUME IInv PROVE TypeOK
    OBVIOUS
  <2>1. P!TypeOK
    BY SameTypes DEF IInv, Typed, ProberTyped, P!TypeOK
  <2>2. /\ \A i \in 1 .. Len(queue) : queue[i] \in P!ProbeResults
        /\ \A i \in 1 .. Len(decided) : decided[i] \in {"failure", "recovery"}
    BY SameTypes, ElementOfSeq DEF IInv, Typed, Sequenced
  <2>3. jobs \cup finished \subseteq N!Job(1 .. Len(decided))
    BY DEF IInv, Notifying, Running, Returned, Goroutines, Count
  <2> QED BY <2>1, <2>2, <2>3 DEF TypeOK, IInv, Typed, Sequenced
<1> QED BY <1>1, InitInv, NextInv, PTL DEF Spec

\* Whatever the order of the watcher and of the deliveries, each decision has
\* started one goroutine for every notifier that is not dry, and no other one.
THEOREM NotifiersStarted == Spec => []EveryNotifierStarted
<1>1. IInv => EveryNotifierStarted
  BY DEF IInv, Notifying, OnePerNotifier
<1> QED BY <1>1, InitInv, NextInv, PTL DEF Spec

\* For any number of attempts and any notifiers, no goroutine of
\* SendWithRetry returns but after an attempt that went through or was not to
\* be tried again, or after the last one, and none is started twice.
THEOREM NotifiersEnd == Spec => []EndsForAReason
<1>1. IInv => EndsForAReason
  BY DEF IInv, Notifying, OnePerNotifier, Running, Returned, EndsForAReason,
         N!EndsForAReason
<1> QED BY <1>1, InitInv, NextInv, PTL DEF Spec

-----------------------------------------------------------------------------
(***************************************************************************)
(* What is told of an outage, with the thresholds a prober has when none   *)
(* is configured (global.StatusChangeThresholdSettings).  The watcher may  *)
(* be rounds behind: each snapshot that waits in the channel carries the   *)
(* status before it, and how many alerts of the outage were flagged.       *)
(***************************************************************************)
DefaultThresholds == \A s \in Settings : s.failure = 1 /\ s.success = 1

\* The results on their way to the watcher, the oldest first.
Waiting == queue \o sending

\* The alerts of the outage up to the snapshot r, and before it.
AlertsBy(r) ==
  IF r.status # "down" THEN 0
  ELSE IF r.nsd.notified <= r.nsd.maxTimes THEN r.nsd.notified
  ELSE r.nsd.maxTimes

AlertsBefore(r) ==
  IF r.preStatus # "down" THEN 0
  ELSE IF r.status # "down" THEN r.nsd.maxTimes
  ELSE IF r.nsd.isSent THEN r.nsd.notified - 1
  ELSE AlertsBy(r)

\* An outage begins with an alert, and an alert is counted.
Snapshot(r) ==
  /\ r.status \in {"up", "down"}
  /\ r.nsd.maxTimes = settings.maxTimes
  /\ r.status = "down" /\ r.preStatus # "down" => r.nsd.isSent
  /\ r.status = "down" /\ r.nsd.isSent => AlertsBy(r) = AlertsBefore(r) + 1

Follows(q, r) == r.preStatus = q.status /\ AlertsBy(q) <= AlertsBefore(r)

Chained ==
  /\ \A i \in 1 .. Len(Waiting) : Snapshot(Waiting[i])
  /\ \A i \in 1 .. Len(Waiting) - 1 : Follows(Waiting[i], Waiting[i + 1])
  /\ Waiting # << >> => Waiting[Len(Waiting)] = result

\* The first failed round of an outage finds the strategy reset.
Rested ==
  result.status # "down" =>
    result.nsd.failed = 0 /\ result.nsd.notified = 0 /\ result.nsd.next = 1

\* What has been told fits a status, and the failures told last the alerts.
Told(status, alerts) ==
  /\ status = "init" => decided = << >>
  /\ status = "up" => LastDecided \in {"none", "recovery"}
  /\ status = "down" => LastDecided = "failure"
  /\ \A i \in 1 .. Len(decided) :
       (\A k \in i .. Len(decided) : decided[k] = "failure") =>
         Len(decided) - i < alerts

Heard ==
  IF Waiting = << >> THEN Told(result.status, AlertsBy(result))
  ELSE Told(Waiting[1].preStatus, AlertsBefore(Waiting[1]))

EdgeInv ==
  /\ IInv /\ Chained /\ Rested /\ Heard
  /\ RecoveryFollowsFailure /\ AlertsWithinMaximum

LEMMA AlertsTyped ==
  ASSUME NEW r \in R!ProbeResults
  PROVE  /\ r.nsd.notified \in Nat /\ r.nsd.maxTimes \in Nat \ {0}
         /\ r.nsd.isSent \in BOOLEAN
         /\ AlertsBy(r) \in Nat /\ AlertsBy(r) <= r.nsd.maxTimes
         /\ AlertsBefore(r) \in Int
         /\ r.status \in {"init", "up", "down"}
         /\ r.preStatus \in {"init", "up", "down"}
<1>1. r.nsd \in R!NotificationStrategyData
  BY DEF R!ProbeResults
<1>2. /\ r.nsd.notified \in Nat /\ r.nsd.maxTimes \in Nat \ {0}
      /\ r.nsd.isSent \in BOOLEAN
  BY <1>1 DEF R!NotificationStrategyData
<1>3. AlertsBy(r) \in Nat /\ AlertsBy(r) <= r.nsd.maxTimes
  BY <1>2 DEF AlertsBy
<1>4. AlertsBefore(r) \in Int
  BY <1>2, <1>3 DEF AlertsBefore
<1> QED BY <1>2, <1>3, <1>4 DEF R!ProbeResults, R!Statuses

\* A round of a prober with the default thresholds.
LEMMA RoundFollows ==
  ASSUME DefaultThresholds, ProberTyped, Rested, NEW ok \in BOOLEAN,
         P!Round(ok)
  PROVE  Snapshot(result') /\ Follows(result, result') /\ Rested'
<1> DEFINE n == result.nsd
           m == result'.nsd
           c == R!AppendStatus(result.counter, ok)
<1>1. /\ settings' = settings /\ result.counter \in R!StatusCounterData
      /\ ProberTyped' /\ result'.preStatus = result.status
      /\ result'.status = IF c.current /\ c.count >= settings.success THEN "up"
                          ELSE IF ~ c.current /\ c.count >= settings.failure
                               THEN "down" ELSE result.preStatus
      /\ m = R!ProcessStatus(n, result'.status = "up")
  BY RoundResult
<1>2. result.counter \in R!StatusCounterData /\ R!Sound(result.counter)
  BY <1>1 DEF ProberTyped
<1>3. c.current = ok /\ c.count > 0 /\ c.count \in Nat
  <2>1. c \in R!StatusCounterData /\ c.current = ok /\ c.count > 0
    BY <1>2, Accepted, R!AppendStatusSound
  <2> HIDE DEF c
  <2> QED BY <2>1 DEF R!StatusCounterData
<1>4. settings.failure = 1 /\ settings.success = 1
  BY DEF DefaultThresholds, ProberTyped
<1> HIDE DEF c
<1>5. result'.status = IF ok THEN "up" ELSE "down"
  BY <1>1, <1>3, <1>4
<1>6. /\ result \in R!ProbeResults /\ result' \in R!ProbeResults
      /\ n \in R!NotificationStrategyData
      /\ n.maxTimes = settings.maxTimes /\ m.maxTimes = settings.maxTimes
  BY <1>1 DEF ProberTyped, R!ProbeResults
<1>7. /\ n.notified \in Nat /\ n.failed \in Nat /\ n.next \in Nat
      /\ n.maxTimes \in Nat \ {0} /\ m.notified \in Nat
      /\ m.isSent \in BOOLEAN
      /\ AlertsBy(result) \in Nat /\ AlertsBy(result) <= n.maxTimes
  BY <1>6, AlertsTyped DEF R!NotificationStrategyData
<1>8. CASE ok
  <2>1. result'.status = "up" /\ m = R!ProcessStatus(n, TRUE)
    BY <1>1, <1>5, <1>8
  <2>2. m.failed = 0 /\ m.notified = 0 /\ m.next = 1
    BY <1>6, <2>1, Accepted, R!UpRound
  <2>3. Snapshot(result') /\ Rested'
    BY <1>6, <2>1, <2>2 DEF Snapshot, Rested
  <2>4. AlertsBy(result) <= AlertsBefore(result')
    BY <1>1, <1>6, <1>7, <2>1 DEF AlertsBy, AlertsBefore
  <2> QED BY <1>1, <2>3, <2>4 DEF Follows
<1>9. CASE ~ ok
  <2>1. result'.status = "down" /\ m = R!ProcessStatus(n, FALSE)
    BY <1>1, <1>5, <1>9
  <2>2. /\ n.failed + 1 < n.next => m.notified = n.notified /\ m.isSent = FALSE
        /\ n.failed + 1 >= n.next /\ n.notified + 1 > n.maxTimes =>
             m.notified = n.notified + 1 /\ m.isSent = FALSE
        /\ n.failed + 1 >= n.next /\ n.notified + 1 <= n.maxTimes =>
             m.notified = n.notified + 1 /\ m.isSent = TRUE
    BY <1>6, <2>1, Accepted, R!FailedRound
  <2>3. CASE result.status # "down"
    <3>1. n.failed = 0 /\ n.notified = 0 /\ n.next = 1
      BY <2>3 DEF Rested
    <3>2. m.notified = 1 /\ m.isSent = TRUE
      BY <1>7, <2>2, <3>1
    <3>3. /\ AlertsBy(result) = 0 /\ AlertsBefore(result') = 0
          /\ AlertsBy(result') = 1
      BY <1>1, <1>6, <1>7, <2>1, <2>3, <3>2 DEF AlertsBy, AlertsBefore
    <3> QED BY <1>1, <1>6, <2>1, <3>2, <3>3 DEF Snapshot, Follows, Rested
  <2>4. CASE result.status = "down"
    <3>1. m.isSent => AlertsBy(result') = AlertsBefore(result') + 1
      BY <1>1, <1>6, <1>7, <2>1, <2>2, <2>4 DEF AlertsBy, AlertsBefore
    <3>2. AlertsBy(result) <= AlertsBefore(result')
      BY <1>1, <1>6, <1>7, <2>1, <2>2, <2>4 DEF AlertsBy, AlertsBefore
    <3> QED BY <1>1, <1>6, <2>1, <2>4, <3>1, <3>2 DEF Snapshot, Follows, Rested
  <2> QED BY <2>3, <2>4
<1> QED BY <1>8, <1>9

\* More alerts than were told may be allowed for.
LEMMA ToldMonotone ==
  ASSUME NEW status, NEW a \in Int, NEW b \in Int, a <= b, Told(status, a),
         decided \in Seq({"failure", "recovery"})
  PROVE  Told(status, b)
<1>1. Len(decided) \in Nat
  BY LenProperties
<1> QED BY <1>1 DEF Told

\* The watcher's decision on r keeps what is told in step with the status.
LEMMA Hears ==
  ASSUME NEW r \in R!ProbeResults, Snapshot(r),
         Told(r.preStatus, AlertsBefore(r)),
         decided \in Seq({"failure", "recovery"}),
         RecoveryFollowsFailure, AlertsWithinMaximum,
         settings' = settings, settings.maxTimes \in Nat \ {0},
         NeedsNotification(r) =>
           decided' = Append(decided, IF r.status = "up"
                                      THEN "recovery" ELSE "failure"),
         ~ NeedsNotification(r) => decided' = decided
  PROVE  /\ Told(r.status, AlertsBy(r))'
         /\ RecoveryFollowsFailure' /\ AlertsWithinMaximum'
<1> DEFINE L == Len(decided)
           word == IF r.status = "up" THEN "recovery" ELSE "failure"
<1>1. L \in Nat /\ \A i \in 1 .. L : decided[i] \in {"failure", "recovery"}
  BY LenProperties, ElementOfSeq
<1>2. /\ r.status \in {"up", "down"} /\ r.nsd.maxTimes = settings.maxTimes
      /\ AlertsBy(r) \in Nat /\ AlertsBy(r) <= settings.maxTimes
      /\ AlertsBefore(r) \in Int
      /\ r.preStatus \in {"init", "up", "down"} /\ r.nsd.isSent \in BOOLEAN
  BY AlertsTyped DEF Snapshot
<1>3. NeedsNotification(r) <=>
        IF r.status = "up" THEN r.preStatus = "down" ELSE r.nsd.isSent
  BY <1>2 DEF NeedsNotification, P!NeedToSendNotification
<1>4. LastDecided \in {"none", "failure", "recovery"}
      /\ (LastDecided = "none" <=> L = 0)
      /\ (L > 0 => LastDecided = decided[L])
  <2>1. decided = << >> <=> L = 0
    BY <1>1, EmptySeq
  <2>2. L > 0 => L \in 1 .. L
    BY <1>1
  <2> QED BY <1>1, <2>1, <2>2 DEF LastDecided
<1>5. /\ r.preStatus = "init" => L = 0
      /\ r.preStatus = "up" => LastDecided \in {"none", "recovery"}
      /\ r.preStatus = "down" => LastDecided = "failure"
      /\ \A i \in 1 .. L : (\A k \in i .. L : decided[k] = "failure") =>
                             L - i < AlertsBefore(r)
  BY <1>1, EmptySeq DEF Told
<1>6. CASE NeedsNotification(r)
  <2>1. /\ Len(decided') = L + 1 /\ decided'[L + 1] = word
        /\ \A i \in 1 .. L : decided'[i] = decided[i]
        /\ decided' \in Seq({"failure", "recovery"}) /\ decided' # << >>
        /\ LastDecided' = word
    <3>1. decided' = Append(decided, word) /\ word \in {"failure", "recovery"}
      BY <1>6
    <3> HIDE DEF word
    <3>2. /\ Len(decided') = L + 1 /\ decided'[L + 1] = word
          /\ \A i \in 1 .. L : decided'[i] = decided[i]
          /\ decided' \in Seq({"failure", "recovery"}) /\ decided' # << >>
      BY <3>1, AppendProperties
    <3> QED BY <3>2 DEF LastDecided
  <2>2. CASE r.status = "up"
    <3>1. word = "recovery" /\ L > 0 /\ decided[L] = "failure"
      BY <1>1, <1>3, <1>4, <1>5, <1>6, <2>2
    <3>2. Told(r.status, AlertsBy(r))'
      <4>1. \A i \in 1 .. L + 1 :
              ~ (\A k \in i .. L + 1 : decided'[k] = "failure")
        BY <1>1, <2>1, <3>1
      <4> QED BY <2>1, <2>2, <3>1, <4>1 DEF Told
    <3>3. RecoveryFollowsFailure'
      <4> SUFFICES ASSUME NEW i \in 1 .. L + 1, decided'[i] = "recovery"
                   PROVE  i > 1 /\ decided'[i - 1] = "failure"
        BY <2>1 DEF RecoveryFollowsFailure
      <4>1. CASE i = L + 1
        BY <1>1, <2>1, <3>1, <4>1
      <4>2. CASE i \in 1 .. L
        BY <1>1, <2>1, <4>2 DEF RecoveryFollowsFailure
      <4> QED BY <1>1, <4>1, <4>2
    <3>4. AlertsWithinMaximum'
      <4> SUFFICES ASSUME NEW i \in 1 .. L + 1, NEW j \in 1 .. L + 1,
                          \A k \in i .. j : decided'[k] = "failure"
                   PROVE  j - i < settings.maxTimes
        BY <2>1 DEF AlertsWithinMaximum
      <4>1. CASE i <= L /\ j <= L
        <5>1. i \in 1 .. L /\ j \in 1 .. L
          BY <1>1, <4>1
        <5>2. \A k \in i .. j : k \in 1 .. L
          BY <1>1, <5>1
        <5>3. \A k \in i .. j : decided[k] = "failure"
          BY <2>1, <5>2
        <5> QED BY <5>1, <5>3 DEF AlertsWithinMaximum
      <4>2. CASE j = L + 1
        <5>1. ~ (j \in i .. j)
          BY <2>1, <3>1, <4>2
        <5> QED BY <1>1, <4>2, <5>1
      <4>3. CASE i = L + 1 /\ j <= L
        BY <1>1, <4>3
      <4> QED BY <1>1, <4>1, <4>2, <4>3
    <3> QED BY <3>2, <3>3, <3>4
  <2>3. CASE r.status = "down"
    <3>1. word = "failure" /\ AlertsBy(r) = AlertsBefore(r) + 1
      BY <1>3, <1>6, <2>3 DEF Snapshot
    <3>2. \A i \in 1 .. L + 1 :
            (\A k \in i .. L + 1 : decided'[k] = "failure") =>
              L + 1 - i < AlertsBy(r)
      <4> SUFFICES ASSUME NEW i \in 1 .. L + 1,
                          \A k \in i .. L + 1 : decided'[k] = "failure"
                   PROVE  L + 1 - i < AlertsBy(r)
        OBVIOUS
      <4>1. CASE i \in 1 .. L
        <5>1. \A k \in i .. L : decided[k] = "failure"
          BY <1>1, <2>1, <4>1
        <5> QED BY <1>1, <1>2, <1>5, <3>1, <4>1, <5>1
      <4>2. CASE i = L + 1
        <5>1. AlertsBy(r) > 0
          <6>1. r.preStatus # "down" => AlertsBefore(r) = 0
            BY DEF AlertsBefore
          <6>2. r.preStatus = "down" => L > 0 /\ LastDecided = "failure"
            BY <1>1, <1>4, <1>5
          <6>3. r.preStatus = "down" => 0 < AlertsBefore(r)
            <7>1. SUFFICES ASSUME r.preStatus = "down"
                           PROVE  0 < AlertsBefore(r)
              OBVIOUS
            <7>2. L \in 1 .. L /\ \A k \in L .. L : decided[k] = "failure"
              BY <1>1, <1>4, <6>2, <7>1
            <7> QED BY <1>1, <1>5, <7>2
          <6> QED BY <1>2, <3>1, <6>1, <6>3
        <5> QED BY <1>1, <1>2, <4>2, <5>1
      <4> QED BY <1>1, <4>1, <4>2
    <3>3. Told(r.status, AlertsBy(r))'
      BY <2>1, <2>3, <3>1, <3>2 DEF Told
    <3>4. RecoveryFollowsFailure'
      <4> SUFFICES ASSUME NEW i \in 1 .. L + 1, decided'[i] = "recovery"
                   PROVE  i > 1 /\ decided'[i - 1] = "failure"
        BY <2>1 DEF RecoveryFollowsFailure
      <4>1. i \in 1 .. L
        BY <1>1, <2>1, <3>1
      <4> QED BY <1>1, <2>1, <4>1, SMTT(30) DEF RecoveryFollowsFailure
    <3>5. AlertsWithinMaximum'
      <4> SUFFICES ASSUME NEW i \in 1 .. L + 1, NEW j \in 1 .. L + 1,
                          \A k \in i .. j : decided'[k] = "failure"
                   PROVE  j - i < settings.maxTimes
        BY <2>1 DEF AlertsWithinMaximum
      <4>1. CASE i <= L /\ j <= L
        <5>1. i \in 1 .. L /\ j \in 1 .. L
          BY <1>1, <4>1
        <5>2. \A k \in i .. j : k \in 1 .. L
          BY <1>1, <5>1
        <5>3. \A k \in i .. j : decided[k] = "failure"
          BY <2>1, <5>2
        <5> QED BY <5>1, <5>3 DEF AlertsWithinMaximum
      <4>2. CASE j = L + 1
        BY <1>1, <1>2, <3>2, <4>2
      <4>3. CASE i = L + 1 /\ j <= L
        BY <1>1, <4>3
      <4> QED BY <1>1, <4>1, <4>2, <4>3
    <3> QED BY <3>3, <3>4, <3>5
  <2> QED BY <1>2, <2>2, <2>3
<1>7. CASE ~ NeedsNotification(r)
  <2>1. decided' = decided /\ LastDecided' = LastDecided
    BY <1>7 DEF LastDecided
  <2>2. Told(r.status, AlertsBy(r))
    <3>1. CASE r.status = "up"
      <4>1. r.preStatus # "down" /\ AlertsBefore(r) = 0 /\ AlertsBy(r) = 0
        BY <1>3, <1>7, <3>1 DEF AlertsBefore, AlertsBy
      <4>2. LastDecided \in {"none", "recovery"}
        BY <1>2, <1>4, <1>5, <4>1
      <4> QED BY <1>5, <3>1, <4>1, <4>2 DEF Told
    <3>2. CASE r.status = "down"
      <4>1. r.preStatus = "down" /\ AlertsBefore(r) = AlertsBy(r)
        BY <1>2, <1>3, <1>7, <3>2 DEF Snapshot, AlertsBefore
      <4> QED BY <1>5, <3>2, <4>1 DEF Told
    <3> QED BY <1>2, <3>1, <3>2
  <2> QED BY <2>1, <2>2 DEF Told, RecoveryFollowsFailure, AlertsWithinMaximum
<1> QED BY <1>6, <1>7

\* What waits for the watcher, and what is left when it has taken the oldest.
LEMMA WaitingTyped ==
  ASSUME IInv
  PROVE  /\ Waiting \in Seq(R!ProbeResults) /\ queue \in Seq(R!ProbeResults)
         /\ result \in R!ProbeResults
         /\ sending = << >> => Waiting = queue
         /\ sending = <<result>> => Waiting = Append(queue, result)
<1>1. /\ queue \in Seq(R!ProbeResults) /\ result \in R!ProbeResults
      /\ sending = << >> \/ sending = <<result>>
  BY DEF IInv, Typed, Sequenced, ProberTyped
<1>2. /\ queue \o << >> = queue /\ queue \o <<result>> = Append(queue, result)
      /\ Append(queue, result) \in Seq(R!ProbeResults)
  BY <1>1, ConcatEmptySeq, AppendIsConcat, AppendProperties
<1> QED BY <1>1, <1>2 DEF Waiting

LEMMA WatchLeaves ==
  ASSUME IInv, Watch
  PROVE  /\ Waiting # << >> /\ Waiting[1] = Head(queue)
         /\ Waiting' \in Seq(R!ProbeResults)
         /\ Len(Waiting') = Len(Waiting) - 1 /\ Len(Waiting) \in Nat \ {0}
         /\ \A i \in 1 .. Len(Waiting') : Waiting'[i] = Waiting[i + 1]
<1>1. /\ queue \in Seq(R!ProbeResults) /\ queue # << >>
      /\ sending \in Seq(R!ProbeResults)
      /\ queue' = Tail(queue) /\ sending' = sending
  <2>1. /\ queue \in Seq(R!ProbeResults) /\ result \in R!ProbeResults
        /\ sending \in {<< >>, <<result>>}
    BY DEF IInv, Typed, Sequenced, ProberTyped
  <2>2. << >> \in Seq(R!ProbeResults) /\ <<result>> \in Seq(R!ProbeResults)
    BY <2>1
  <2> QED BY <2>1, <2>2 DEF Watch
<1>2. /\ Tail(queue) \in Seq(R!ProbeResults)
      /\ Len(Tail(queue)) = Len(queue) - 1
      /\ \A i \in 1 .. Len(Tail(queue)) : Tail(queue)[i] = queue[i + 1]
  BY <1>1, HeadTailProperties
<1>3. Len(queue) \in Nat \ {0} /\ Len(sending) \in Nat
      /\ Head(queue) = queue[1]
  BY <1>1, EmptySeq, LenProperties
<1>4. /\ Waiting \in Seq(R!ProbeResults)
      /\ Len(Waiting) = Len(queue) + Len(sending)
      /\ \A i \in 1 .. Len(queue) + Len(sending) :
           Waiting[i] = IF i <= Len(queue) THEN queue[i]
                        ELSE sending[i - Len(queue)]
  BY <1>1, ConcatProperties DEF Waiting
<1>5. /\ Waiting' \in Seq(R!ProbeResults)
      /\ Len(Waiting') = Len(queue) - 1 + Len(sending)
      /\ \A i \in 1 .. Len(queue) - 1 + Len(sending) :
           Waiting'[i] = IF i <= Len(queue) - 1 THEN Tail(queue)[i]
                         ELSE sending[i - (Len(queue) - 1)]
  <2>1. Waiting' = Tail(queue) \o sending
    BY <1>1 DEF Waiting
  <2> HIDE DEF Waiting
  <2> QED BY <1>1, <1>2, <1>3, <2>1, ConcatProperties
<1>6. Waiting # << >> /\ Waiting[1] = Head(queue)
  BY <1>3, <1>4, EmptySeq
<1>7. ASSUME NEW i \in 1 .. Len(Waiting')
      PROVE  Waiting'[i] = Waiting[i + 1]
  <2>1. CASE i <= Len(queue) - 1
    BY <1>2, <1>3, <1>4, <1>5, <2>1
  <2>2. CASE i > Len(queue) - 1
    <3>1. i + 1 \in 1 .. Len(queue) + Len(sending) /\ ~ (i + 1 <= Len(queue))
      BY <1>3, <1>5, <2>2
    <3>2. i - (Len(queue) - 1) = i + 1 - Len(queue)
      BY <1>3, <1>5
    <3> QED BY <1>3, <1>4, <1>5, <2>2, <3>1, <3>2
  <2> QED BY <1>3, <1>5, <2>1, <2>2
<1> QED BY <1>3, <1>4, <1>5, <1>6, <1>7

LEMMA EdgeInit == Init => EdgeInv
<1> SUFFICES ASSUME Init PROVE EdgeInv
  OBVIOUS
<1>1. queue = << >> /\ sending = << >> /\ decided = << >>
  BY DEF Init
<1>2. Waiting = << >>
  BY <1>1 DEF Waiting
<1>3. /\ result.status = "init" /\ Rested
      /\ AlertsBy(result) = 0
  BY ConfiguredNew DEF Rested, AlertsBy
<1>4. Heard
  BY <1>1, <1>2, <1>3 DEF Heard, Told, LastDecided
<1> QED BY <1>1, <1>2, <1>3, <1>4, InitInv
        DEF EdgeInv, Chained, RecoveryFollowsFailure, AlertsWithinMaximum

LEMMA EdgeProbe ==
  ASSUME DefaultThresholds, EdgeInv, NEW ok \in BOOLEAN, Probe(ok)
  PROVE  Chained' /\ Rested' /\ Heard'
<1>1. /\ P!Round(ok) /\ sending = << >> /\ sending' = <<result'>>
      /\ UNCHANGED <<queue, decided>>
  BY DEF Probe
<1>2. /\ Snapshot(result') /\ Follows(result, result') /\ Rested'
      /\ settings' = settings
  BY <1>1, RoundFollows, RoundResult DEF EdgeInv, IInv, Typed
<1>3. IInv'
  BY NextInv DEF EdgeInv, Next
<1>4. /\ Waiting = queue /\ Waiting' = Append(queue, result')
      /\ queue \in Seq(R!ProbeResults) /\ result \in R!ProbeResults
      /\ result' \in R!ProbeResults
  <2>1. queue \in Seq(R!ProbeResults) /\ result' \in R!ProbeResults
    BY <1>3 DEF EdgeInv, IInv, Typed, Sequenced, ProberTyped
  <2>2. Waiting' = queue \o <<result'>>
    BY <1>1 DEF Waiting
  <2>3. Waiting' = Append(queue, result')
    BY <2>1, <2>2, AppendIsConcat
  <2> QED BY <1>1, <2>1, <2>3, WaitingTyped DEF EdgeInv
<1> DEFINE L == Len(queue)
<1>5. /\ L \in Nat /\ Len(Waiting') = L + 1
      /\ \A i \in 1 .. L : Waiting'[i] = Waiting[i]
      /\ Waiting'[L + 1] = result' /\ Waiting' # << >>
      /\ L = 0 <=> queue = << >>
  BY <1>4, AppendProperties, LenProperties, EmptySeq
<1>6. /\ \A i \in 1 .. L : Snapshot(Waiting[i])
      /\ \A i \in 1 .. L - 1 : Follows(Waiting[i], Waiting[i + 1])
      /\ L > 0 => Waiting[L] = result
  BY <1>4, <1>5 DEF EdgeInv, Chained
<1>7. Chained'
  <2>1. ASSUME NEW i \in 1 .. L + 1 PROVE Snapshot(Waiting'[i])
    BY <1>2, <1>5, <1>6
  <2>2. ASSUME NEW i \in 1 .. L
        PROVE  Follows(Waiting'[i], Waiting'[i + 1])
    <3>1. CASE i < L
      BY <1>5, <1>6, <3>1
    <3>2. CASE i = L
      BY <1>2, <1>5, <1>6, <3>2
    <3> QED BY <1>5, <3>1, <3>2
  <2>3. \A i \in 1 .. Len(Waiting') : Snapshot(Waiting[i])'
    BY <1>2, <1>5, <2>1 DEF Snapshot, AlertsBy, AlertsBefore
  <2>4. \A i \in 1 .. Len(Waiting') - 1 : Follows(Waiting[i], Waiting[i + 1])'
    BY <1>5, <2>2 DEF Follows, AlertsBy, AlertsBefore
  <2> QED BY <1>5, <2>3, <2>4 DEF Chained
<1>8. Heard'
  <2>1. CASE L = 0
    <3>1. Told(result.status, AlertsBy(result)) /\ Waiting'[1] = result'
      BY <1>4, <1>5, <2>1 DEF EdgeInv, Heard
    <3>2. /\ result'.preStatus = result.status
          /\ AlertsBy(result) <= AlertsBefore(result')
          /\ AlertsBy(result) \in Int /\ AlertsBefore(result') \in Int
      BY <1>2, <1>4, AlertsTyped DEF Follows
    <3>3. decided \in Seq({"failure", "recovery"})
      BY DEF EdgeInv, IInv, Typed, Sequenced
    <3>4. Told(result'.preStatus, AlertsBefore(result'))
      BY <3>1, <3>2, <3>3, ToldMonotone
    <3> QED BY <1>1, <1>5, <3>1, <3>4 DEF Heard, Told, LastDecided
  <2>2. CASE L > 0
    <3>1. Told(Waiting[1].preStatus, AlertsBefore(Waiting[1]))
          /\ Waiting'[1] = Waiting[1]
      BY <1>4, <1>5, <2>2 DEF EdgeInv, Heard
    <3> QED BY <1>1, <1>5, <3>1 DEF Heard, Told, LastDecided, AlertsBefore,
                                    AlertsBy
  <2> QED BY <1>5, <2>1, <2>2
<1> QED BY <1>2, <1>7, <1>8

LEMMA EdgeWatch ==
  ASSUME EdgeInv, Watch
  PROVE  /\ Chained' /\ Rested' /\ Heard'
         /\ RecoveryFollowsFailure' /\ AlertsWithinMaximum'
<1>1. /\ UNCHANGED <<settings, result>>
      /\ Waiting # << >> /\ Waiting[1] = Head(queue)
      /\ Waiting' \in Seq(R!ProbeResults)
      /\ Len(Waiting') = Len(Waiting) - 1 /\ Len(Waiting) \in Nat \ {0}
      /\ \A i \in 1 .. Len(Waiting') : Waiting'[i] = Waiting[i + 1]
  BY WatchLeaves DEF EdgeInv, Watch
<1> PICK r : r = Waiting[1]
  OBVIOUS
<1>2. /\ r \in R!ProbeResults /\ r = Head(queue) /\ Snapshot(r)
      /\ Told(r.preStatus, AlertsBefore(r))
  <2>1. Head(queue) \in R!ProbeResults
    BY WatchTakes DEF EdgeInv
  <2>2. Snapshot(Waiting[1])
    BY <1>1 DEF EdgeInv, Chained
  <2>3. Told(Waiting[1].preStatus, AlertsBefore(Waiting[1]))
    BY <1>1 DEF EdgeInv, Heard
  <2> QED BY <1>1, <2>1, <2>2, <2>3
<1>3. /\ decided \in Seq({"failure", "recovery"})
      /\ settings.maxTimes \in Nat \ {0}
      /\ RecoveryFollowsFailure /\ AlertsWithinMaximum
  <2>1. settings \in R!ProbeSettings
    BY Accepted DEF EdgeInv, IInv, Typed, ProberTyped
  <2> QED BY <2>1 DEF EdgeInv, IInv, Typed, Sequenced, R!ProbeSettings
<1>4. /\ NeedsNotification(r) =>
           decided' = Append(decided, IF r.status = "up"
                                      THEN "recovery" ELSE "failure")
      /\ ~ NeedsNotification(r) => decided' = decided
  BY <1>2, WatchTakes DEF EdgeInv
<1>5. /\ Told(r.status, AlertsBy(r))'
      /\ RecoveryFollowsFailure' /\ AlertsWithinMaximum'
  BY <1>1, <1>2, <1>3, <1>4, Hears
<1>6. IInv'
  BY NextInv DEF EdgeInv, Next
<1>7. decided' \in Seq({"failure", "recovery"})
  BY <1>6 DEF IInv, Typed, Sequenced
<1>8. Rested'
  BY <1>1 DEF EdgeInv, Rested
<1>9. Chained'
  <2>1. \A i \in 1 .. Len(Waiting') : Snapshot(Waiting[i])'
    <3>1. \A i \in 1 .. Len(Waiting') : Snapshot(Waiting'[i])
      BY <1>1 DEF EdgeInv, Chained
    <3> QED BY <1>1, <3>1 DEF Snapshot, AlertsBy, AlertsBefore
  <2>2. \A i \in 1 .. Len(Waiting') - 1 : Follows(Waiting[i], Waiting[i + 1])'
    <3>1. \A i \in 1 .. Len(Waiting') - 1 :
            Follows(Waiting'[i], Waiting'[i + 1])
      BY <1>1 DEF EdgeInv, Chained
    <3> QED BY <3>1 DEF Follows, AlertsBy, AlertsBefore
  <2>3. Waiting' # << >> => Waiting'[Len(Waiting')] = result'
    <3>1. Waiting[Len(Waiting)] = result
      BY <1>1 DEF EdgeInv, Chained
    <3>2. Waiting' # << >> => Len(Waiting') \in Nat \ {0}
      BY <1>1, EmptySeq
    <3> QED BY <1>1, <3>1, <3>2
  <2> QED BY <2>1, <2>2, <2>3 DEF Chained
<1>10. Heard'
  <2>1. CASE Waiting' = << >>
    <3>1. Len(Waiting) = 1
      BY <1>1, <2>1, EmptySeq
    <3>2. r = result'
      BY <1>1, <3>1 DEF EdgeInv, Chained
    <3> QED BY <1>5, <2>1, <3>2 DEF Heard, AlertsBy
  <2>2. CASE Waiting' # << >>
    <3>1. Len(Waiting') \in Nat \ {0}
      BY <1>1, <2>2, EmptySeq
    <3>2. Follows(Waiting[1], Waiting[2]) /\ Waiting'[1] = Waiting[2]
      BY <1>1, <3>1 DEF EdgeInv, Chained
    <3> PICK q : q = Waiting[2]
      OBVIOUS
    <3>3. q = Waiting'[1] /\ q \in R!ProbeResults
      BY <1>1, <3>1, <3>2, ElementOfSeq
    <3>4. /\ q.preStatus = r.status /\ AlertsBy(r) <= AlertsBefore(q)
          /\ AlertsBy(r) \in Int /\ AlertsBefore(q) \in Int
      <4>1. Follows(r, q)
        BY <3>2
      <4>2. AlertsBy(r) \in Int /\ AlertsBefore(q) \in Int
        BY <1>2, <3>3, AlertsTyped
      <4> QED BY <4>1, <4>2 DEF Follows
    <3>5. Told(q.preStatus, AlertsBefore(q))'
      <4>1. \A a, b \in Int : a <= b /\ Told(r.status, a)' => Told(r.status, b)'
        <5>1. Len(decided') \in Nat
          BY <1>7, LenProperties
        <5> QED BY <5>1 DEF Told
      <4>2. Told(r.status, AlertsBefore(q))'
        BY <1>5, <3>4, <4>1
      <4> QED BY <3>4, <4>2 DEF Told
    <3> QED BY <2>2, <3>3, <3>5 DEF Heard, Told, AlertsBefore, AlertsBy
  <2> QED BY <2>1, <2>2
<1> QED BY <1>5, <1>8, <1>9, <1>10

\* A step that leaves what waits and what was told.
LEMMA EdgeStays ==
  ASSUME EdgeInv, Waiting' = Waiting, UNCHANGED <<settings, result, decided>>
  PROVE  /\ Chained' /\ Rested' /\ Heard'
         /\ RecoveryFollowsFailure' /\ AlertsWithinMaximum'
<1>1. /\ Chained /\ Rested /\ Heard
      /\ RecoveryFollowsFailure /\ AlertsWithinMaximum
      /\ settings' = settings /\ result' = result /\ decided' = decided
  BY DEF EdgeInv
<1>2. Chained'
  BY <1>1 DEF Chained, Snapshot, Follows, AlertsBy, AlertsBefore
<1>3. Rested' /\ RecoveryFollowsFailure' /\ AlertsWithinMaximum'
  BY <1>1 DEF Rested, RecoveryFollowsFailure, AlertsWithinMaximum
<1>4. Heard'
  BY <1>1 DEF Heard, Told, LastDecided, AlertsBy, AlertsBefore
<1> QED BY <1>2, <1>3, <1>4

LEMMA EdgeNext ==
  ASSUME DefaultThresholds
  PROVE  EdgeInv /\ [Next]_vars => EdgeInv'
<1> SUFFICES ASSUME EdgeInv, [Next]_vars PROVE EdgeInv'
  OBVIOUS
<1>1. IInv'
  BY NextInv DEF EdgeInv
<1>2. ASSUME NEW ok \in BOOLEAN, Probe(ok) PROVE EdgeInv'
  <2>1. RecoveryFollowsFailure' /\ AlertsWithinMaximum'
    <3>1. decided' = decided
      BY <1>2 DEF Probe
    <3>2. settings' = settings
      BY <1>2, RoundResult DEF Probe, EdgeInv, IInv, Typed
    <3> QED BY <3>1, <3>2
            DEF EdgeInv, RecoveryFollowsFailure, AlertsWithinMaximum
  <2> QED BY <1>1, <1>2, <2>1, EdgeProbe DEF EdgeInv
<1>3. CASE Send
  <2>1. /\ sending = <<result>> /\ queue' = queue \o sending
        /\ sending' = << >> /\ UNCHANGED <<settings, result, decided>>
    BY <1>3 DEF Send, EdgeInv, IInv, Typed, Sequenced
  <2>2. Waiting' = Waiting
    <3>1. queue' \in Seq(R!ProbeResults)
      BY <1>1 DEF IInv, Typed, Sequenced
    <3> QED BY <2>1, <3>1, ConcatEmptySeq DEF Waiting
  <2> QED BY <1>1, <2>1, <2>2, EdgeStays DEF EdgeInv
<1>4. CASE Watch
  BY <1>1, <1>4, EdgeWatch DEF EdgeInv
<1>5. ASSUME NEW n \in Notifiers, Deliver(n) PROVE EdgeInv'
  <2>1. Waiting' = Waiting /\ UNCHANGED <<settings, result, decided>>
    BY <1>5 DEF Deliver, Waiting
  <2> QED BY <1>1, <2>1, EdgeStays DEF EdgeInv
<1>6. CASE UNCHANGED vars
  <2>1. Waiting' = Waiting /\ UNCHANGED <<settings, result, decided>>
    BY <1>6 DEF vars, Waiting
  <2> QED BY <1>1, <2>1, EdgeStays DEF EdgeInv
<1> QED BY <1>2, <1>3, <1>4, <1>5, <1>6 DEF Next

\* With the default thresholds, for every alert strategy and any buffer: once
\* the watcher has handled what was sent, the last notification tells the
\* prober's status, however many rounds it was behind.
THEOREM AlertingIsEdgeTriggered ==
  ASSUME DefaultThresholds
  PROVE  Spec => []EdgeTriggered
<1>1. EdgeInv => EdgeTriggered
  <2> SUFFICES ASSUME EdgeInv, Drained PROVE EdgeTriggered
    BY DEF EdgeTriggered
  <2>1. Waiting = << >>
    BY DEF Drained, Waiting
  <2> QED BY <2>1 DEF EdgeInv, Heard, Told, EdgeTriggered
<1>2. EdgeInv /\ [Next]_vars => EdgeInv'
  BY EdgeNext
<1> QED BY <1>1, <1>2, EdgeInit, PTL DEF Spec

\* With the default thresholds a recovery is told only right after a failure:
\* neither a doubled recovery nor one of an outage nobody was told of.
THEOREM RecoveriesTold ==
  ASSUME DefaultThresholds
  PROVE  Spec => []RecoveryFollowsFailure
<1>1. EdgeInv => RecoveryFollowsFailure
  BY DEF EdgeInv
<1>2. EdgeInv /\ [Next]_vars => EdgeInv'
  BY EdgeNext
<1> QED BY <1>1, <1>2, EdgeInit, PTL DEF Spec

\* With the default thresholds, between two recoveries no more failures are
\* told than the maximum of the alert strategy, however far the watcher is
\* behind the rounds.
THEOREM OutagesBounded ==
  ASSUME DefaultThresholds
  PROVE  Spec => []AlertsWithinMaximum
<1>1. EdgeInv => AlertsWithinMaximum
  BY DEF EdgeInv
<1>2. EdgeInv /\ [Next]_vars => EdgeInv'
  BY EdgeNext
<1> QED BY <1>1, <1>2, EdgeInit, PTL DEF Spec
=============================================================================
