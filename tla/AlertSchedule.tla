---------------------------- MODULE AlertSchedule ----------------------------
(***************************************************************************)
(* What the alert pacing promises: in an outage the k-th alert is sent at  *)
(* the failed round the closed form Due gives, and at most maxTimes alerts *)
(* are sent.                                                               *)
(***************************************************************************)
EXTENDS AlertRounds

VARIABLES
  settings,   \* the strategy of this prober
  failed,     \* consecutive failed rounds
  sent        \* alerts sent in the current outage

vars == <<settings, failed, sent>>

Init == settings \in Settings /\ failed = 0 /\ sent = 0

Recover == failed' = 0 /\ sent' = 0 /\ UNCHANGED settings

Fail ==
  /\ failed' = failed + 1
  /\ sent' = IF sent < settings.maxTimes /\ failed' = Due(settings, sent + 1)
             THEN sent + 1 ELSE sent
  /\ UNCHANGED settings

Next == Recover \/ Fail

Spec == Init /\ [][Next]_vars
=============================================================================
