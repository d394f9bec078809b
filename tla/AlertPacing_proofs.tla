-------------------------- MODULE AlertPacing_proofs --------------------------
(***************************************************************************)
(* Proofs about AlertPacing, for every set of strategies, every factor and *)
(* every maximum.  The invariant Inv adds to the properties the interval   *)
(* the increment strategy has accumulated: without it the next due round   *)
(* of that strategy cannot be derived from the current one.                *)
(***************************************************************************)
EXTENDS AlertPacing, DataLemmas, Integers, TLAPS

\* The increment strategy has added its factor once per alert.
IntervalAccumulates ==
  nsd.strategy = "increment" /\ nsd.notified <= nsd.maxTimes =>
    nsd.interval = nsd.factor * nsd.notified

Inv == TypeOK /\ NextIsDue /\ QuotaKept /\ IntervalAccumulates

\* Triangular numbers step by k, halves included.
LEMMA Triangle ==
  ASSUME NEW k \in Nat
  PROVE  ((k + 1) * k) \div 2 = ((k * (k - 1)) \div 2) + k
<1> DEFINE m == k * (k - 1)
<1>1. m \in Int /\ (k + 1) * k = m + 2 * k
  OBVIOUS
<1>2. \A i \in Int : (i + 2 * k) \div 2 = (i \div 2) + k
  OBVIOUS
<1> HIDE DEF m
<1>3. ((k + 1) * k) \div 2 = (m \div 2) + k
  BY <1>1, <1>2
<1> QED BY <1>3 DEF m

\* From one due round to the next: the interval each strategy adds.
LEMMA DueStep ==
  ASSUME NEW s \in Settings, NEW k \in Nat, k <= s.maxTimes
  PROVE  /\ Due(s, 1) = 1
         /\ s.strategy = "regular" => Due(s, k + 2) = Due(s, k + 1) + s.factor
         /\ s.strategy = "increment" =>
              Due(s, k + 2) = Due(s, k + 1) + s.factor * (k + 1)
         /\ s.strategy = "exponent" =>
              Due(s, k + 2) = Due(s, k + 1) + Due(s, k + 1) * s.factor
         /\ Due(s, k + 1) \in Nat
<1>1. s \in StrategySettings
  BY SettingsAssumption
<1>2. PICK f \in Nat \ {0} : f = s.factor
  BY <1>1 DEF StrategySettings
<1>3. s.strategy \in Strategies /\ s.maxTimes \in Nat
  BY <1>1 DEF StrategySettings
<1>4. CASE s.strategy = "regular"
  <2>1. Due(s, 1) = 1 + f * 0 /\ Due(s, k + 1) = 1 + f * k
        /\ Due(s, k + 2) = 1 + f * (k + 1)
    BY <1>2, <1>4 DEF Due
  <2>2. f * (k + 1) = f * k + f /\ f * k \in Nat /\ f * 0 = 0
    BY <1>2
  <2> QED BY <1>2, <1>4, <2>1, <2>2
<1>5. CASE s.strategy = "increment"
  <2> DEFINE T == (k * (k + 1)) \div 2
  <2>1. ((k + 2) * (k + 1)) \div 2 = T + (k + 1)
    BY Triangle, k + 1 \in Nat
  <2>2. T \in Nat
    <3>1. k * (k + 1) \in Nat
      OBVIOUS
    <3>2. \A i \in Nat : i \div 2 \in Nat
      OBVIOUS
    <3> QED BY <3>1, <3>2
  <2>3. Due(s, 1) = 1 + f * 0
    <3>1. Due(s, 1) = 1 + f * ((1 * 0) \div 2)
      BY <1>2, <1>5 DEF Due
    <3> QED BY <3>1
  <2>4. Due(s, k + 1) = 1 + f * T
    <3>1. Due(s, k + 1) = 1 + f * (((k + 1) * (k + 1 - 1)) \div 2)
      BY <1>2, <1>5 DEF Due
    <3>2. (k + 1) * (k + 1 - 1) = k * (k + 1)
      OBVIOUS
    <3> QED BY <3>1, <3>2
  <2>5. Due(s, k + 2) = 1 + f * (T + (k + 1))
    <3>1. Due(s, k + 2) = 1 + f * (((k + 2) * (k + 2 - 1)) \div 2)
      BY <1>2, <1>5 DEF Due
    <3>2. (k + 2) * (k + 2 - 1) = (k + 2) * (k + 1)
      OBVIOUS
    <3> QED BY <3>1, <3>2, <2>1
  <2> HIDE DEF T
  <2> DEFINE A == f * T
             B == f * (k + 1)
  <2>6. f * (T + (k + 1)) = A + B /\ A \in Nat /\ B \in Nat /\ f * 0 = 0
    BY <1>2, <2>2
  <2>7. Due(s, k + 1) = 1 + A /\ Due(s, k + 2) = 1 + (A + B)
    BY <2>4, <2>5, <2>6
  <2>8. s.factor * (k + 1) = B
    BY <1>2
  <2> HIDE DEF A, B
  <2>9. /\ Due(s, k + 2) = Due(s, k + 1) + B
        /\ Due(s, k + 1) \in Nat
    BY <2>6, <2>7
  <2> QED BY <1>5, <2>3, <2>6, <2>8, <2>9
<1>6. CASE s.strategy = "exponent"
  <2> DEFINE P == Power(1 + f, k)
  <2>1. Power(1 + f, 0) = 1 /\ P \in Nat /\ Power(1 + f, k + 1) = P * (1 + f)
    BY <1>2, <1>3, PowerAssumption
  <2>2. Due(s, 1) = Power(1 + f, 0) /\ Due(s, k + 1) = P
        /\ Due(s, k + 2) = Power(1 + f, k + 1)
    <3>1. 1 - 1 = 0 /\ k + 1 - 1 = k /\ k + 2 - 1 = k + 1
      OBVIOUS
    <3> QED BY <3>1, <1>2, <1>6 DEF Due
  <2> HIDE DEF P
  <2>3. P * (1 + f) = P + P * f
    BY <2>1, <1>2
  <2> QED BY <1>2, <1>6, <2>1, <2>2, <2>3
<1> QED BY <1>3, <1>4, <1>5, <1>6 DEF Strategies

\* A restart loses nothing but the flag.
LEMMA Reloaded ==
  ASSUME NEW n \in NotificationStrategyData
  PROVE  LET r == Reload(n) IN
         /\ r \in NotificationStrategyData
         /\ r.strategy = n.strategy /\ r.factor = n.factor
         /\ r.maxTimes = n.maxTimes /\ r.failed = n.failed
         /\ r.notified = n.notified /\ r.next = n.next
         /\ r.interval = n.interval
  BY DEF Reload, NotificationStrategyData

-----------------------------------------------------------------------------

LEMMA InitInv == Init => Inv
<1> SUFFICES ASSUME Init PROVE Inv
  OBVIOUS
<1>1. PICK s \in Settings : nsd = NewNotificationStrategyData(s)
  BY DEF Init
<1>2. s \in StrategySettings
  BY SettingsAssumption
<1>3. /\ nsd \in NotificationStrategyData
      /\ SettingsOf(nsd) = s /\ nsd.notified = 0 /\ nsd.failed = 0
      /\ nsd.next = 1 /\ nsd.interval = 0
      /\ nsd.maxTimes \in Nat /\ nsd.factor \in Nat
  BY <1>1, <1>2 DEF NewNotificationStrategyData, NotificationStrategyData,
                    StrategySettings, SettingsOf
<1>4. sent = 0
  BY DEF Init
<1>5. Due(s, 1) = 1
  BY <1>2, DueStep, 0 \in Nat DEF StrategySettings
<1>6. TypeOK
  BY <1>3, <1>4 DEF TypeOK
<1>7. NextIsDue
  BY <1>3, <1>4, <1>5 DEF NextIsDue
<1>8. QuotaKept /\ IntervalAccumulates
  BY <1>3, <1>4 DEF QuotaKept, IntervalAccumulates
<1> QED BY <1>6, <1>7, <1>8 DEF Inv

LEMMA NextInv == Inv /\ [Next]_vars => Inv'
<1> SUFFICES ASSUME Inv, [Next]_vars PROVE Inv'
  OBVIOUS
<1>1. /\ nsd \in NotificationStrategyData /\ SettingsOf(nsd) \in Settings
      /\ sent \in Nat
  BY DEF Inv, TypeOK
<1>2. /\ nsd.failed \in Nat /\ nsd.next \in Nat /\ nsd.notified \in Nat
      /\ nsd.interval \in Nat /\ nsd.maxTimes \in Nat \ {0}
      /\ nsd.factor \in Nat \ {0} /\ nsd.strategy \in Strategies
  BY <1>1 DEF NotificationStrategyData
<1> DEFINE s == SettingsOf(nsd)
<1>3. /\ s.strategy = nsd.strategy /\ s.factor = nsd.factor
      /\ s.maxTimes = nsd.maxTimes /\ s \in Settings
  BY <1>1 DEF SettingsOf
<1>4. CASE RoundUp
  <2>1. /\ nsd' \in NotificationStrategyData
        /\ nsd'.strategy = nsd.strategy /\ nsd'.factor = nsd.factor
        /\ nsd'.maxTimes = nsd.maxTimes /\ nsd'.failed = 0
        /\ nsd'.notified = 0 /\ nsd'.next = 1 /\ nsd'.interval = 0
    BY <1>1, <1>4, UpRound DEF RoundUp
  <2>2. sent' = 0 /\ SettingsOf(nsd)' = s
    BY <1>4, <2>1 DEF RoundUp, SettingsOf
  <2>3. Due(s, 1) = 1
    BY <1>2, <1>3, DueStep, 0 \in Nat
  <2> HIDE DEF s
  <2>4. TypeOK'
    BY <1>3, <2>1, <2>2 DEF TypeOK
  <2>5. NextIsDue'
    BY <2>1, <2>2, <2>3 DEF NextIsDue
  <2>6. QuotaKept' /\ IntervalAccumulates'
    BY <1>2, <2>1, <2>2 DEF QuotaKept, IntervalAccumulates
  <2> QED BY <2>4, <2>5, <2>6 DEF Inv
<1>5. CASE RoundDown
  <2> DEFINE r == ProcessStatus(nsd, FALSE)
  <2>1. /\ nsd' \in NotificationStrategyData
        /\ nsd'.strategy = nsd.strategy /\ nsd'.factor = nsd.factor
        /\ nsd'.maxTimes = nsd.maxTimes /\ nsd'.failed = nsd.failed + 1
        /\ sent' = IF nsd'.isSent THEN sent + 1 ELSE sent
    BY <1>1, <1>5, FailedRound DEF RoundDown, NeedToSendNotification
  <2>2. SettingsOf(nsd)' = s
    BY <2>1 DEF SettingsOf
  <2> HIDE DEF s
  <2>3. TypeOK'
    BY <1>1, <1>3, <2>1, <2>2 DEF TypeOK
  <2>4. CASE nsd.failed + 1 < nsd.next
    <3>1. /\ nsd'.notified = nsd.notified /\ nsd'.next = nsd.next
          /\ nsd'.interval = nsd.interval /\ nsd'.isSent = FALSE
      BY <1>1, <1>5, <2>4, FailedRound DEF RoundDown
    <3>2. sent' = sent
      BY <2>1, <3>1
    <3>3. NextIsDue'
      BY <1>2, <2>1, <2>2, <2>4, <3>1, <3>2 DEF Inv, NextIsDue, s
    <3>4. QuotaKept' /\ IntervalAccumulates'
      BY <2>1, <3>1, <3>2 DEF Inv, QuotaKept, IntervalAccumulates
    <3> QED BY <2>3, <3>3, <3>4 DEF Inv
  <2>5. CASE nsd.failed + 1 >= nsd.next /\ nsd.notified + 1 > nsd.maxTimes
    <3>1. nsd'.notified = nsd.notified + 1 /\ nsd'.isSent = FALSE
      BY <1>1, <1>5, <2>5, FailedRound DEF RoundDown
    <3>2. sent' = sent
      BY <2>1, <3>1
    <3>3. ~ (nsd'.notified <= nsd'.maxTimes)
      BY <1>2, <2>1, <2>5, <3>1
    <3>4. sent = nsd.maxTimes
      BY <1>2, <2>5 DEF Inv, QuotaKept
    <3> QED BY <2>1, <2>3, <3>2, <3>3, <3>4
            DEF Inv, NextIsDue, QuotaKept, IntervalAccumulates
  <2>6. CASE nsd.failed + 1 >= nsd.next /\ nsd.notified + 1 <= nsd.maxTimes
    <3>1. /\ nsd'.notified = nsd.notified + 1 /\ nsd'.isSent = TRUE
          /\ nsd'.next = nsd'.failed + nsd'.interval
          /\ nsd.strategy = "regular" => nsd'.interval = nsd.factor
          /\ nsd.strategy = "increment" =>
               nsd'.interval = nsd.interval + nsd.factor
          /\ nsd.strategy = "exponent" =>
               nsd'.interval = (nsd.failed + 1) * nsd.factor
      BY <1>1, <1>5, <2>6, FailedRound DEF RoundDown
    <3>2. sent' = sent + 1 /\ sent = nsd.notified
      BY <1>2, <2>1, <2>6, <3>1 DEF Inv, QuotaKept
    <3>3. nsd.failed + 1 = nsd.next /\ nsd.next = Due(s, sent + 1)
      BY <1>2, <2>6 DEF Inv, NextIsDue, s
    <3>4. /\ s.strategy = "regular" =>
               Due(s, sent + 2) = Due(s, sent + 1) + s.factor
          /\ s.strategy = "increment" =>
               Due(s, sent + 2) = Due(s, sent + 1) + s.factor * (sent + 1)
          /\ s.strategy = "exponent" =>
               Due(s, sent + 2) =
                 Due(s, sent + 1) + Due(s, sent + 1) * s.factor
      BY <1>1, <1>2, <1>3, <2>6, <3>2, DueStep
    <3>5. /\ nsd.strategy = "increment" =>
               nsd'.interval = nsd.factor * (sent + 1)
          /\ nsd'.interval \in Nat \ {0}
      <4>1. nsd.strategy = "increment" => nsd.interval = nsd.factor * sent
        BY <1>2, <2>6, <3>2 DEF Inv, IntervalAccumulates
      <4>2. nsd.factor * (sent + 1) = nsd.factor * sent + nsd.factor
        BY <1>1, <1>2
      <4>3. (nsd.failed + 1) * nsd.factor \in Nat \ {0}
        BY <1>2
      <4> QED BY <1>2, <3>1, <4>1, <4>2, <4>3 DEF Strategies
    <3>6. nsd'.next = Due(s, sent + 2)
      BY <1>2, <1>3, <2>1, <3>1, <3>3, <3>4, <3>5 DEF Strategies
    <3>7. NextIsDue'
      <4>1. nsd'.failed < nsd'.next
        BY <1>2, <2>1, <3>1, <3>5
      <4>2. sent' + 1 = sent + 2
        BY <1>1, <3>2
      <4> QED BY <2>2, <3>6, <4>1, <4>2 DEF NextIsDue
    <3>8. QuotaKept' /\ IntervalAccumulates'
      BY <2>1, <2>6, <3>1, <3>2, <3>5 DEF QuotaKept, IntervalAccumulates
    <3> QED BY <2>3, <3>7, <3>8 DEF Inv
  <2>7. \/ nsd.failed + 1 < nsd.next
        \/ nsd.failed + 1 >= nsd.next /\ nsd.notified + 1 > nsd.maxTimes
        \/ nsd.failed + 1 >= nsd.next /\ nsd.notified + 1 <= nsd.maxTimes
    BY <1>2
  <2> QED BY <2>4, <2>5, <2>6, <2>7
<1>6. CASE Restart
  <2>1. /\ nsd' \in NotificationStrategyData
        /\ nsd'.strategy = nsd.strategy /\ nsd'.factor = nsd.factor
        /\ nsd'.maxTimes = nsd.maxTimes /\ nsd'.failed = nsd.failed
        /\ nsd'.notified = nsd.notified /\ nsd'.next = nsd.next
        /\ nsd'.interval = nsd.interval /\ sent' = sent
    BY <1>1, <1>6, Reloaded DEF Restart
  <2>2. SettingsOf(nsd)' = SettingsOf(nsd)
    BY <2>1 DEF SettingsOf
  <2> QED BY <2>1, <2>2
          DEF Inv, TypeOK, NextIsDue, QuotaKept, IntervalAccumulates
<1>7. CASE UNCHANGED vars
  BY <1>7 DEF vars, Inv, TypeOK, NextIsDue, QuotaKept, IntervalAccumulates,
              SettingsOf
<1> QED BY <1>4, <1>5, <1>6, <1>7 DEF Next

-----------------------------------------------------------------------------
\* The counters of ProcessStatus keep their types, whatever the settings.
THEOREM PacingTyped == Spec => []TypeOK
<1>1. Inv => TypeOK
  BY DEF Inv
<1> QED BY <1>1, InitInv, NextInv, PTL DEF Spec

\* For every strategy, factor and maximum the next alert is always due at the
\* round of the closed form, and an outage never alerts more than maxTimes.
THEOREM PacingCorrect == Spec => [](NextIsDue /\ QuotaKept)
<1>1. Inv => NextIsDue /\ QuotaKept
  BY DEF Inv
<1> QED BY <1>1, InitInv, NextInv, PTL DEF Spec

\* In particular the round of the next alert is that of the closed form after
\* any number of alerts, of recoveries and of restarts.
THEOREM NextAlertDue == Spec => []NextIsDue
<1>1. Inv => NextIsDue
  BY DEF Inv
<1> QED BY <1>1, InitInv, NextInv, PTL DEF Spec

LEMMA InitRefines == Init => Schedule!Init
<1> SUFFICES ASSUME Init PROVE Schedule!Init
  OBVIOUS
<1>1. SettingsOf(nsd) \in Settings
  BY InitInv DEF Inv, TypeOK
<1>2. nsd.failed = 0
  BY DEF Init, NewNotificationStrategyData
<1> QED BY <1>1, <1>2 DEF Init, Schedule!Init

LEMMA NextRefines == Inv /\ [Next]_vars => [Schedule!Next]_(Schedule!vars)
<1> SUFFICES ASSUME Inv, [Next]_vars
             PROVE  Schedule!Next \/ UNCHANGED Schedule!vars
  OBVIOUS
<1>1. /\ nsd \in NotificationStrategyData /\ SettingsOf(nsd) \in Settings
      /\ sent \in Nat
  BY DEF Inv, TypeOK
<1>2. /\ nsd.failed \in Nat /\ nsd.next \in Nat /\ nsd.notified \in Nat
      /\ nsd.maxTimes \in Nat /\ SettingsOf(nsd).maxTimes = nsd.maxTimes
  BY <1>1 DEF NotificationStrategyData, SettingsOf
<1>3. CASE RoundUp
  <2>1. /\ nsd'.strategy = nsd.strategy /\ nsd'.factor = nsd.factor
        /\ nsd'.maxTimes = nsd.maxTimes /\ nsd'.failed = 0
    BY <1>1, <1>3, UpRound DEF RoundUp
  <2>2. sent' = 0 /\ SettingsOf(nsd)' = SettingsOf(nsd)
    BY <1>3, <2>1 DEF RoundUp, SettingsOf
  <2>3. Schedule!Recover
    BY <2>1, <2>2 DEF Schedule!Recover
  <2> QED BY <2>3 DEF Schedule!Next
<1>4. CASE RoundDown
  <2>1. /\ nsd'.strategy = nsd.strategy /\ nsd'.factor = nsd.factor
        /\ nsd'.maxTimes = nsd.maxTimes /\ nsd'.failed = nsd.failed + 1
        /\ sent' = IF nsd'.isSent THEN sent + 1 ELSE sent
    BY <1>1, <1>4, FailedRound DEF RoundDown, NeedToSendNotification
  <2>2. SettingsOf(nsd)' = SettingsOf(nsd)
    BY <2>1 DEF SettingsOf
  <2> DEFINE due == /\ sent < nsd.maxTimes
                    /\ nsd.failed + 1 = Due(SettingsOf(nsd), sent + 1)
  <2>3. sent' = IF due THEN sent + 1 ELSE sent
    <3>1. CASE nsd.failed + 1 < nsd.next
      <4>1. nsd'.isSent = FALSE
        BY <1>1, <1>4, <3>1, FailedRound DEF RoundDown
      <4>2. ~ due
        BY <1>2, <3>1 DEF Inv, NextIsDue, QuotaKept
      <4> QED BY <2>1, <4>1, <4>2
    <3>2. CASE nsd.failed + 1 >= nsd.next /\ nsd.notified + 1 > nsd.maxTimes
      <4>1. nsd'.isSent = FALSE
        BY <1>1, <1>4, <3>2, FailedRound DEF RoundDown
      <4>2. ~ due
        BY <1>2, <3>2 DEF Inv, QuotaKept
      <4> QED BY <2>1, <4>1, <4>2
    <3>3. CASE nsd.failed + 1 >= nsd.next /\ nsd.notified + 1 <= nsd.maxTimes
      <4>1. nsd'.isSent = TRUE
        BY <1>1, <1>4, <3>3, FailedRound DEF RoundDown
      <4>2. sent = nsd.notified /\ nsd.notified <= nsd.maxTimes
        BY <1>2, <3>3 DEF Inv, QuotaKept
      <4>3. nsd.failed + 1 = nsd.next /\ nsd.next = Due(SettingsOf(nsd), sent + 1)
        BY <1>2, <3>3, <4>2 DEF Inv, NextIsDue
      <4>4. due
        BY <1>2, <3>3, <4>2, <4>3
      <4> HIDE DEF due
      <4> QED BY <2>1, <4>1, <4>4
    <3>4. \/ nsd.failed + 1 < nsd.next
          \/ nsd.failed + 1 >= nsd.next /\ nsd.notified + 1 > nsd.maxTimes
          \/ nsd.failed + 1 >= nsd.next /\ nsd.notified + 1 <= nsd.maxTimes
      BY <1>2
    <3> QED BY <3>1, <3>2, <3>3, <3>4
  <2>4. Schedule!Due(SettingsOf(nsd), sent + 1) = Due(SettingsOf(nsd), sent + 1)
    BY DEF Schedule!Due, Due
  <2>5. Schedule!Fail
    BY <1>2, <2>1, <2>2, <2>3, <2>4 DEF Schedule!Fail
  <2> QED BY <2>5 DEF Schedule!Next
<1>5. CASE Restart
  <2>1. /\ nsd'.strategy = nsd.strategy /\ nsd'.factor = nsd.factor
        /\ nsd'.maxTimes = nsd.maxTimes /\ nsd'.failed = nsd.failed
        /\ sent' = sent
    BY <1>1, <1>5, Reloaded DEF Restart
  <2> QED BY <2>1 DEF Schedule!vars, SettingsOf
<1>6. CASE UNCHANGED vars
  BY <1>6 DEF vars, Schedule!vars, SettingsOf
<1> QED BY <1>3, <1>4, <1>5, <1>6 DEF Next

\* The code implements the schedule its comments list: in every outage the
\* same number of alerts at the same failed rounds.
THEOREM PacingImplementsSchedule == Spec => ImplementsSchedule
<1>1. Inv /\ [Next]_vars => [Schedule!Next]_(Schedule!vars)
  BY NextRefines
<1>2. Spec => []Inv
  BY InitInv, NextInv, PTL DEF Spec
<1> QED BY <1>1, <1>2, InitRefines, PTL
        DEF Spec, ImplementsSchedule, Schedule!Spec
=============================================================================
