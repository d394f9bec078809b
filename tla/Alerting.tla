------------------------------ MODULE Alerting ------------------------------
(***************************************************************************)
(* From a probe round to the notifications: the prober goroutine of        *)
(* runProbers (cmd/easeprobe/probe.go) sends its results to the buffered   *)
(* channel, the watcher goroutine WatchEvent (channel/channel.go) takes    *)
(* them in order and decides, and each decision starts one goroutine per   *)
(* notifier.                                                               *)
(***************************************************************************)
EXTENDS Integers, Sequences, FiniteSets

CONSTANTS
  Settings,     \* the configurations the prober may be given
  Capacity,     \* the buffer of the channel: the number of its probers
  Notifiers,    \* the notifiers of the channel
  MayBlock,     \* those of a kind whose attempts may never return
  RetryTimes    \* attempts to send one notification

ASSUME CapacityAssumption == Capacity \in Nat \ {0}

ASSUME MayBlockAssumption == MayBlock \subseteq Notifiers

ASSUME RetryAssumption == RetryTimes \in Nat \ {0}

VARIABLES
  settings, result, now, trace, stored,   \* the prober
  sending,                                \* the result the prober is to send
  queue,                                  \* the channel's buffer
  decided,                                \* history: the notifications decided
  dry, jobs, finished                     \* the notifiers

P == INSTANCE Prober
N == INSTANCE Notifier

ASSUME SettingsAssumption == Settings \subseteq P!ProbeSettings

vars == <<settings, result, now, trace, stored, sending, queue, decided,
          dry, jobs, finished>>

Init ==
  /\ P!Init
  /\ N!Init
  /\ sending = << >>
  /\ queue = << >>
  /\ decided = << >>

\* The prober makes a round; its result is to be sent.
Probe(ok) ==
  /\ sending = << >>
  /\ P!Round(ok)
  /\ sending' = <<result'>>
  /\ UNCHANGED <<queue, decided, dry, jobs, finished>>

\* Channel.Send: blocks while the buffer is full.
Send ==
  /\ sending # << >>
  /\ Len(queue) < Capacity
  /\ queue' = queue \o sending
  /\ sending' = << >>
  /\ UNCHANGED <<settings, result, now, trace, stored, decided,
                 dry, jobs, finished>>

\* Mutant: every round that is down is notified.
NeedsNotificationAlways(r) ==
  /\ ~ (r.preStatus = "init" /\ r.status = "up")
  /\ ~ (r.preStatus = r.status /\ r.status \in {"up", "init"})

\* Mutant: only failures are notified.
NeedsNotificationFailures(r) ==
  r.status = "down" /\ P!NeedToSendNotification(r.nsd)

\* Mutant: an up that lasts is notified again.
NeedsNotificationRepeatsUp(r) ==
  /\ ~ (r.preStatus = "init" /\ r.status = "up")
  /\ ~ (r.preStatus = r.status /\ r.status = "init")
  /\ r.status = "down" => P!NeedToSendNotification(r.nsd)

\* Mutant: nothing is notified of the first status, whatever it is.
NeedsNotificationFromUp(r) ==
  /\ r.preStatus # "init"
  /\ ~ (r.preStatus = r.status /\ r.status \in {"up", "init"})
  /\ r.status = "down" => P!NeedToSendNotification(r.nsd)

\* WatchEvent's decision: not for the first up, not for an unchanged up or
\* init, and for a down status only when the alert strategy flags the round.
NeedsNotification(r) ==
  /\ ~ (r.preStatus = "init" /\ r.status = "up")
  /\ ~ (r.preStatus = r.status /\ r.status \in {"up", "init"})
  /\ r.status = "down" => P!NeedToSendNotification(r.nsd)

\* The watcher takes one result and, if it is to be notified, starts the
\* notifiers.
Watch ==
  /\ queue # << >>
  /\ queue' = Tail(queue)
  /\ IF NeedsNotification(Head(queue))
     THEN /\ decided' = Append(decided, P!Title(Head(queue)))
          /\ N!Notify(Len(decided) + 1)
     ELSE UNCHANGED <<decided, dry, jobs, finished>>
  /\ UNCHANGED <<settings, result, now, trace, stored, sending>>

\* A goroutine of the notifier n makes an attempt.
Deliver(n) ==
  /\ N!Deliver(n)
  /\ UNCHANGED <<settings, result, now, trace, stored, sending, queue, decided>>

Next == \/ \E ok \in BOOLEAN : Probe(ok)
        \/ Send
        \/ Watch
        \/ \E n \in Notifiers : Deliver(n)

\* The goroutines run: the prober gets its result through, the watcher goes on,
\* and so does a notifier whose attempts time out.  Nothing makes a round
\* happen, intervals may be long, nor an attempt of the others return.
Fairness ==
  /\ WF_vars(Send) /\ WF_vars(Watch)
  /\ \A n \in Notifiers \ MayBlock : WF_vars(Deliver(n))

Spec == Init /\ [][Next]_vars /\ Fairness
-----------------------------------------------------------------------------
(***************************************************************************)
(* Properties                                                              *)
(***************************************************************************)
\* The types of the composition's own state.
TypeOK ==
  /\ P!TypeOK
  /\ sending \in {<< >>, <<result>>}
  /\ Len(queue) <= Capacity
  /\ \A i \in 1 .. Len(queue) : queue[i] \in P!ProbeResults
  /\ \A i \in 1 .. Len(decided) : decided[i] \in {"failure", "recovery"}
  /\ jobs \cup finished \subseteq N!Job(1 .. Len(decided))

Drained == sending = << >> /\ queue = << >>

LastDecided == IF decided = << >> THEN "none" ELSE decided[Len(decided)]

\* With the default strategy alerting is edge triggered (docs/Manual.md, note 1
\* of 1.1.2): once the results sent are all handled, the last notification
\* tells the prober's status, a failure when it is down, a recovery or nothing
\* when it is up.
EdgeTriggered ==
  Drained =>
    /\ result.status = "down" => LastDecided = "failure"
    /\ result.status = "up" => LastDecided \in {"none", "recovery"}

\* A recovery is only ever announced after a failure was.
RecoveryFollowsFailure ==
  \A i \in 1 .. Len(decided) :
    decided[i] = "recovery" => i > 1 /\ decided[i - 1] = "failure"

\* The failures announced in a row stay within the configured maximum, however
\* far the watcher is behind the prober.
AlertsWithinMaximum ==
  \A i, j \in 1 .. Len(decided) :
    (\A k \in i .. j : decided[k] = "failure") => j - i < settings.maxTimes

\* Each decision starts one goroutine for every notifier that is not dry, and
\* none for the others.
EveryNotifierStarted ==
  \A id \in 1 .. Len(decided), n \in Notifiers :
    (n \in dry) # (\E j \in jobs \cup finished : j.id = id /\ j.to = n)

\* See Notifier.
EndsForAReason == N!EndsForAReason

\* An outage is announced, without waiting for another round, nor for the
\* notifiers: one that never returns holds up neither watcher nor prober.
OutageAnnounced ==
  result.status = "down" ~> LastDecided = "failure"

\* Every notification of a notifier whose attempts time out comes to an end,
\* also while the attempts of another one never return.
NotificationsEnd ==
  \A n \in Notifiers \ MayBlock :
    (\E j \in jobs : j.to = n) ~> (\A j \in jobs : j.to # n)
=============================================================================
