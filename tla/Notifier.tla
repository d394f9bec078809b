------------------------------ MODULE Notifier ------------------------------
(***************************************************************************)
(* Sending notifications (notify/base/base.go and DoRetry of               *)
(* global/global.go).  Every notification is sent by a goroutine of its    *)
(* own, which tries until the notifier accepts, refuses for good           *)
(* (ErrNoRetry), or RetryTimes attempts have failed.  An attempt may never *)
(* return: the e-mail and the shell notifier have no timeout that covers   *)
(* all of it.  What the services make of an attempt is in Delivery.        *)
(***************************************************************************)
EXTENDS Naturals, FiniteSets

CONSTANTS
  Notifiers,      \* the notifiers of the channel
  RetryTimes      \* Retry.Times, at least 1 once normalised

VARIABLES
  dry,        \* notifiers in dry mode: they log the notification only
  jobs,       \* the running goroutines, and what they have done so far
  finished    \* history: the goroutines that have returned

vars == <<dry, jobs, finished>>

\* What one call of the send function may come to.
Answers == {"sent", "error", "refused"}

Init ==
  /\ dry \in SUBSET Notifiers
  /\ jobs = {}
  /\ finished = {}

\* Mutant: the dry mode is not looked at.
StartedAlsoDry(id, to) ==
  {[id |-> id, to |-> n, tries |-> 0, last |-> "none"] : n \in to}

\* The goroutines started for the notification id.
Started(id, to) ==
  {[id |-> id, to |-> n, tries |-> 0, last |-> "none"] : n \in to \ dry}

Notify(id) ==
  /\ jobs' = jobs \cup Started(id, Notifiers)
  /\ UNCHANGED <<dry, finished>>

\* Mutant: one attempt more than the retry times.
ReturnsLate(j) == j.last \in {"sent", "refused"} \/ j.tries > RetryTimes

\* Mutant: no retry, the first answer is the last.
ReturnsAtOnce(j) == j.last # "none"

\* DoRetry returns.
Returns(j) == j.last \in {"sent", "refused"} \/ j.tries >= RetryTimes

\* Mutant: the send function hangs once an attempt has failed.
AttemptHangs(j) ==
  \E answer \in Answers :
    LET tried == [j EXCEPT !.tries = @ + 1, !.last = answer]
    IN  /\ j.last # "error"
        /\ jobs' = (jobs \ {j}) \cup (IF Returns(tried) THEN {} ELSE {tried})
        /\ finished' = finished \cup (IF Returns(tried) THEN {tried} ELSE {})
        /\ UNCHANGED dry

\* One call of the send function by the goroutine j.
Attempt(j) ==
  \E answer \in Answers :
    LET tried == [j EXCEPT !.tries = @ + 1, !.last = answer]
    IN  /\ jobs' = (jobs \ {j}) \cup (IF Returns(tried) THEN {} ELSE {tried})
        /\ finished' = finished \cup (IF Returns(tried) THEN {tried} ELSE {})
        /\ UNCHANGED dry

\* A goroutine of the notifier n makes an attempt.
Deliver(n) == \E j \in jobs : j.to = n /\ Attempt(j)

Next == \E n \in Notifiers : Deliver(n)

-----------------------------------------------------------------------------
(***************************************************************************)
(* Properties                                                              *)
(***************************************************************************)
Job(ids) ==
  [id : ids, to : Notifiers \ dry, tries : 0 .. RetryTimes,
   last : Answers \cup {"none"}]

\* A goroutine returns once, and gives up only for a reason: it was refused,
\* or every attempt was made and failed.
EndsForAReason ==
  /\ \A j, k \in jobs \cup finished :
       j.id = k.id /\ j.to = k.to => j = k
  /\ \A j \in finished : j.last = "error" => j.tries = RetryTimes
  /\ \A j \in jobs : j.last \notin {"sent", "refused"}
=============================================================================
