--------------------------- MODULE Service_proofs ---------------------------
(***************************************************************************)
(* What the log says of a report is what the service has taken, for any    *)
(* probers, notifiers, sizes of parts and number of attempts; a report is  *)
(* cut into pages and sections without a row lost or shown twice; no page  *)
(* and no report meets a prober without a result; and what pages and       *)
(* reports show, whatever is saved while they read, is what was saved.     *)
(***************************************************************************)
EXTENDS Service, FiniteSetTheorems, SequenceTheorems, TLAPS

D == INSTANCE DataLemmas

Marks == {"none", "sent", "failed"}

\* A report has an account of each of its parts, and is at one of them.
Kept(j) ==
  /\ j = [at |-> j.at, text |-> j.text, part |-> j.part, tries |-> j.tries,
          got |-> j.got, log |-> j.log, lossy |-> j.lossy]
  /\ j.got \in Seq(Nat) /\ j.log \in Seq(Marks) /\ Len(j.got) = Len(j.log)
  /\ j.lossy \in BOOLEAN
  /\ j.at = "send" /\ Len(j.log) > 0 => j.part \in 1 .. Len(j.log)

\* Only Discord and Telegram get a report in parts.
InParts(j, v) == v \notin {"discord", "telegram"} => Len(j.log) <= 1

\* The parts before that a report is at have been taken; Discord goes on after
\* a part that has not.
BeforeTaken(j, v) ==
  j.at = "send" /\ v \notin Careless \cup {"discord"} =>
    \A i \in 1 .. Len(j.log) : i < j.part => j.got[i] >= 1

SentTaken(j, v) ==
  \A i \in 1 .. Len(j.log) : j.log[i] = "sent" => j.got[i] >= 1 \/ v \in Careless

\* While no answer has been lost, no part has been taken twice, and none from
\* that on which the report is at.
TakenOnce(j, v) ==
  ~ j.lossy /\ v \notin Strict /\ ~ (v = "telegram" /\ Len(j.log) > 1) =>
    \A i \in 1 .. Len(j.log) :
      j.got[i] <= 1 /\ (j.at = "send" /\ i >= j.part => j.got[i] = 0)

Accounted(j, v) ==
  Kept(j) /\ InParts(j, v) /\ BeforeTaken(j, v) /\ SentTaken(j, v) /\ TakenOnce(j, v)

IsSeq(s) == \E S : s \in Seq(S)

\* The rows of a reader are a sequence.
Reading(m) ==
  "rows" \in DOMAIN m /\ IsSeq(m.rows)

ReadersRead == read = [r \in Readers |-> read[r]] /\ \A r \in Readers : Reading(read[r])

JobsKept ==
  job = [n \in Notifiers |-> job[n]] /\ \A n \in Notifiers : Accounted(job[n], provider[n])

Inv == provider \in [Notifiers -> Providers] /\ ReadersRead /\ JobsKept

-----------------------------------------------------------------------------
\* A function on 1 .. k is a sequence of length k.
LEMMA Tuples ==
  ASSUME NEW k \in Nat, NEW S, NEW f \in [1 .. k -> S]
  PROVE  f \in Seq(S) /\ Len(f) = k
<1>1. f \in Seq(S)
  BY SeqDef
<1>2. DOMAIN f = 1 .. k
  OBVIOUS
<1> QED BY <1>1, <1>2, LenProperties

\* The largest and the smallest of the numbers from 1 to k, and of one.
LEMMA Bounds ==
  /\ \A k \in Nat \ {0} : Max(1 .. k) = k /\ Min(1 .. k) = 1
  /\ \A x \in Nat : Max({x}) = x /\ Min({x}) = x
<1>1. ASSUME NEW k \in Nat \ {0} PROVE Max(1 .. k) = k
  <2>1. k \in 1 .. k /\ \A y \in 1 .. k : k >= y
    OBVIOUS
  <2>2. \A x \in 1 .. k : (\A y \in 1 .. k : x >= y) => x = k
    OBVIOUS
  <2> QED BY <2>1, <2>2 DEF Max
<1>2. ASSUME NEW k \in Nat \ {0} PROVE Min(1 .. k) = 1
  <2>1. 1 \in 1 .. k /\ \A y \in 1 .. k : 1 =< y
    OBVIOUS
  <2>2. \A x \in 1 .. k : (\A y \in 1 .. k : x =< y) => x = 1
    OBVIOUS
  <2> QED BY <2>1, <2>2 DEF Min
<1>3. ASSUME NEW x \in Nat PROVE Max({x}) = x /\ Min({x}) = x
  BY <1>3 DEF Max, Min
<1> QED BY <1>1, <1>2, <1>3

\* An attempt without an error has been taken, where the provider looks.
LEMMA OkIsTaken ==
  ASSUME NEW v \in Providers, NEW a \in Answers(v), Judge(v, a) = "ok"
  PROVE  a.accepted = TRUE \/ v \in Careless
<1>1. a.status # "none" /\ Success(v, a)
  BY DEF Judge
<1>2. CASE v \in Http
  <2>1. /\ a.accepted = Tells(v, a)
        /\ v \in ByBody /\ a.body = "ok" => a.status = "200"
    BY <1>1, <1>2 DEF Answers, NoAnswer, Http, ByStatus, ByBody
  <2>2. v \in Http \ Careless => Tells(v, a)
    BY <1>1, <2>1 DEF Success, Tells, Taken, Http, ByStatus, ByBody, Careless,
       Slack, Telegram, Twilio, Yunpian, Discord, Lark, Dingtalk, RingCentral
  <2> QED BY <1>2, <2>1, <2>2
<1>3. CASE v \notin Http /\ v # "unknown"
  BY <1>1, <1>3 DEF Answers, NoAnswer
<1>4. CASE v = "unknown"
  BY <1>1, <1>4 DEF Answers, NoAnswer, Http, ByStatus, ByBody
<1> QED BY <1>2, <1>3, <1>4

\* An answer that tells the message has been taken is no error, but Twilio's.
LEMMA TakenIsOk ==
  ASSUME NEW v \in Providers \ Strict, NEW a \in Answers(v), a.accepted = TRUE,
         a.status # "none"
  PROVE  Judge(v, a) = "ok"
<1>1. CASE v \in Http
  <2>1. Tells(v, a)
    BY <1>1 DEF Answers, NoAnswer, Http, ByStatus, ByBody
  <2>2. Success(v, a)
    BY <1>1, <2>1 DEF Success, Tells, Taken, Http, ByStatus, ByBody, Strict,
       Slack, Telegram, Wecom, Nexmo, Yunpian, Discord, Teams, Lark, Dingtalk, RingCentral
  <2> QED BY <2>2 DEF Judge
<1>2. CASE v \notin Http /\ v # "unknown"
  <2>1. a.status = "done"
    BY <1>2 DEF Answers, NoAnswer
  <2>2. v \in {"email", "shell", "log", "aws"}
    BY <1>2 DEF Providers, Http, ByStatus, ByBody
  <2>3. Success(v, a)
    BY <2>1, <2>2 DEF Success, Email, Shell, Log, Aws
  <2> QED BY <2>3 DEF Judge
<1>3. CASE v = "unknown"
  BY <1>3 DEF Answers, NoAnswer, Http, ByStatus, ByBody
<1> QED BY <1>1, <1>2, <1>3

-----------------------------------------------------------------------------
\* The parts of a report that an attempt's outcome is logged for.
LEMMA Units ==
  ASSUME NEW n \in Notifiers, Kept(job[n]), Len(job[n].log) > 0, job[n].at = "send"
  PROVE  /\ provider[n] = "discord" =>
              /\ Unit(n) = {job[n].part}
              /\ Max(Unit(n)) = job[n].part /\ Min(Unit(n)) = job[n].part
         /\ provider[n] # "discord" =>
              /\ Unit(n) = 1 .. Len(job[n].log)
              /\ Max(Unit(n)) = Len(job[n].log) /\ Min(Unit(n)) = 1
<1>1. Len(job[n].log) \in Nat \ {0} /\ DOMAIN job[n].log = 1 .. Len(job[n].log)
  BY DEF Kept
<1>2. job[n].part \in Nat
  BY <1>1 DEF Kept
<1> QED BY <1>1, <1>2, Bounds DEF Unit

\* The fields of a job whose part or parts have been logged.
LEMMA LoggedFields ==
  ASSUME NEW j, Kept(j), NEW parts, NEW how \in Marks, Max(parts) \in 1 .. Len(j.log)
  PROVE  LET m == Max(parts)
             l == Logged(j, parts, how)
         IN  /\ Kept(l) /\ Len(l.log) = Len(j.log)
             /\ l.got = j.got /\ l.lossy = j.lossy /\ l.text = j.text /\ l.tries = 0
             /\ \A i \in 1 .. Len(j.log) :
                  l.log[i] = IF i \in parts THEN how ELSE j.log[i]
             /\ m < Len(j.log) => l.at = "send" /\ l.part = m + 1
             /\ ~ (m < Len(j.log)) => l.at = "done"
<1> DEFINE m == Max(parts)
           l == Logged(j, parts, how)
           log == [i \in 1 .. Len(j.log) |-> IF i \in parts THEN how ELSE j.log[i]]
<1>1. Len(j.log) \in Nat /\ DOMAIN j.log = 1 .. Len(j.log)
      /\ \A i \in 1 .. Len(j.log) : j.log[i] \in Marks
  BY DEF Kept
<1>2. log \in [1 .. Len(j.log) -> Marks]
  BY <1>1
<1>3. log \in Seq(Marks) /\ Len(log) = Len(j.log)
  BY <1>1, <1>2, Tuples
<1> HIDE DEF log
<1>4. l = [at |-> IF m < Len(j.log) THEN "send" ELSE "done", text |-> j.text,
           part |-> IF m < Len(j.log) THEN m + 1 ELSE j.part, tries |-> 0,
           got |-> j.got, log |-> log, lossy |-> j.lossy]
  <2>1. log = [i \in DOMAIN j.log |-> IF i \in parts THEN how ELSE j.log[i]]
    BY <1>1 DEF log
  <2>2. l = [j EXCEPT !.log = log, !.tries = 0,
                      !.part = IF m < Len(j.log) THEN m + 1 ELSE j.part,
                      !.at = IF m < Len(j.log) THEN "send" ELSE "done"]
    BY <2>1 DEF Logged
  <2>3. j = [at |-> j.at, text |-> j.text, part |-> j.part, tries |-> j.tries,
             got |-> j.got, log |-> j.log, lossy |-> j.lossy]
    BY DEF Kept
  <2> HIDE DEF m, l
  <2> QED BY <2>2, <2>3
<1>5. Kept(l) /\ Len(l.log) = Len(j.log)
  BY <1>1, <1>3, <1>4 DEF Kept
<1>6. \A i \in 1 .. Len(j.log) : l.log[i] = IF i \in parts THEN how ELSE j.log[i]
  BY <1>1, <1>4 DEF log
<1> QED BY <1>4, <1>5, <1>6

\* An attempt is taken or not.
LEMMA TakenOrNot ==
  ASSUME NEW v, NEW a \in Answers(v) PROVE a.accepted \in BOOLEAN
<1>1. CASE v \in Http
  BY <1>1 DEF Answers, NoAnswer
<1>2. CASE v = "unknown"
  BY <1>2 DEF Answers, NoAnswer, Http, ByStatus, ByBody
<1>3. CASE v \notin Http /\ v # "unknown"
  <2>1. a \in NoAnswer \cup {[accepted |-> TRUE, status |-> "done", body |-> "none"]}
    BY <1>3 DEF Answers
  <2>2. CASE a \in NoAnswer
    BY <2>2 DEF NoAnswer
  <2>3. CASE a = [accepted |-> TRUE, status |-> "done", body |-> "none"]
    <3>1. a.accepted = TRUE
      BY <2>3
    <3> QED BY <3>1
  <2> QED BY <2>1, <2>2, <2>3
<1> QED BY <1>1, <1>2, <1>3

\* The job after an attempt, before it is judged.
Attempted(j, a) ==
  [j EXCEPT !.got[j.part] = IF a.accepted THEN @ + 1 ELSE @,
            !.lossy = @ \/ (a.accepted /\ a.status = "none")]

LEMMA AttemptedFields ==
  ASSUME NEW j, Kept(j), NEW a, a.accepted \in BOOLEAN
  PROVE  LET b == Attempted(j, a)
         IN  /\ Kept(b)
             /\ b.at = j.at /\ b.part = j.part /\ b.log = j.log
             /\ b.text = j.text /\ b.tries = j.tries
             /\ b.lossy = (j.lossy \/ (a.accepted /\ a.status = "none"))
             /\ \A i \in 1 .. Len(j.log) :
                  b.got[i] = IF i = j.part /\ a.accepted THEN j.got[i] + 1 ELSE j.got[i]
<1> DEFINE b == Attempted(j, a)
           got == [j.got EXCEPT ![j.part] = IF a.accepted THEN @ + 1 ELSE @]
           lossy == j.lossy \/ (a.accepted /\ a.status = "none")
<1>1. /\ Len(j.log) \in Nat /\ DOMAIN j.got = 1 .. Len(j.log)
      /\ \A i \in 1 .. Len(j.log) : j.got[i] \in Nat
  BY DEF Kept
<1>2. got \in [1 .. Len(j.log) -> Nat]
      /\ \A i \in 1 .. Len(j.log) :
           got[i] = IF i = j.part /\ a.accepted THEN j.got[i] + 1 ELSE j.got[i]
  <2>1. j.got \in [1 .. Len(j.log) -> Nat]
    BY SeqDef DEF Kept
  <2>2. DOMAIN got = 1 .. Len(j.log) /\ got = [i \in 1 .. Len(j.log) |-> got[i]]
    BY <2>1
  <2>3. \A i \in 1 .. Len(j.log) :
          got[i] = IF i = j.part THEN (IF a.accepted THEN j.got[i] + 1 ELSE j.got[i])
                   ELSE j.got[i]
    BY <2>1
  <2> HIDE DEF got
  <2>4. \A i \in 1 .. Len(j.log) : got[i] \in Nat
    BY <1>1, <2>3
  <2> QED BY <2>2, <2>3, <2>4
<1>3. got \in Seq(Nat) /\ Len(got) = Len(j.log)
  BY <1>1, <1>2, Tuples
<1>4. b = [j EXCEPT !.got = got, !.lossy = lossy]
  BY DEF Attempted, Kept
<1>5. lossy \in BOOLEAN
  BY DEF Kept
<1> HIDE DEF b, got, lossy
<1>6. j = [at |-> j.at, text |-> j.text, part |-> j.part, tries |-> j.tries,
           got |-> j.got, log |-> j.log, lossy |-> j.lossy]
  BY DEF Kept
<1>7. b = [at |-> j.at, text |-> j.text, part |-> j.part, tries |-> j.tries,
           got |-> got, log |-> j.log, lossy |-> lossy]
  BY <1>4, <1>6
<1>8. Kept(b)
  BY <1>3, <1>5, <1>7 DEF Kept
<1>9. /\ b.at = j.at /\ b.part = j.part /\ b.log = j.log /\ b.lossy = lossy
      /\ b.got = got /\ b.text = j.text /\ b.tries = j.tries
  BY <1>7
<1> QED BY <1>2, <1>8, <1>9 DEF b, lossy

\* A job that goes on to another part, in the same attempt or in the next.
Moved(b, x)      == [b EXCEPT !.part = x]
Retried(b, t, x) == [b EXCEPT !.tries = t, !.part = x]

Goes(b, c, x) ==
  /\ Kept(c)
  /\ c.at = b.at /\ c.part = x /\ c.got = b.got /\ c.log = b.log /\ c.lossy = b.lossy
  /\ c.text = b.text

LEMMA MovedFields ==
  ASSUME NEW b, Kept(b), NEW x, NEW t, Len(b.log) > 0 => x \in 1 .. Len(b.log)
  PROVE  /\ Goes(b, Moved(b, x), x) /\ Moved(b, x).tries = b.tries
         /\ Goes(b, Retried(b, t, x), x) /\ Retried(b, t, x).tries = t
<1>1. b = [at |-> b.at, text |-> b.text, part |-> b.part, tries |-> b.tries,
           got |-> b.got, log |-> b.log, lossy |-> b.lossy]
  BY DEF Kept
<1>2. ASSUME NEW c, NEW u,
             c = [at |-> b.at, text |-> b.text, part |-> x, tries |-> u,
                  got |-> b.got, log |-> b.log, lossy |-> b.lossy]
      PROVE  Goes(b, c, x) /\ c.tries = u
  BY <1>2 DEF Kept, Goes
<1>3. Moved(b, x) =
        [at |-> b.at, text |-> b.text, part |-> x, tries |-> b.tries,
         got |-> b.got, log |-> b.log, lossy |-> b.lossy]
  BY <1>1 DEF Moved
<1>4. Retried(b, t, x) =
        [at |-> b.at, text |-> b.text, part |-> x, tries |-> t,
         got |-> b.got, log |-> b.log, lossy |-> b.lossy]
  <2> DEFINE c1 == [b EXCEPT !.tries = t]
  <2>1. c1 = [at |-> b.at, text |-> b.text, part |-> b.part, tries |-> t,
              got |-> b.got, log |-> b.log, lossy |-> b.lossy]
    BY <1>1
  <2>2. Retried(b, t, x) = [c1 EXCEPT !.part = x]
    BY DEF Retried
  <2> HIDE DEF c1
  <2> QED BY <2>1, <2>2
<1> QED BY <1>2, <1>3, <1>4

\* What becomes of a job, in these terms.
LEMMA Outcomes ==
  ASSUME NEW n, NEW b, NEW verdict
  PROVE  After(n, b, verdict) =
           CASE verdict = "ok" ->
                  IF b.part < Max(Unit(n)) THEN Moved(b, b.part + 1)
                  ELSE Logged(b, Unit(n), "sent")
             [] verdict = "retry" /\ b.tries + 1 < RetryTimes ->
                  Retried(b, b.tries + 1, Min(Unit(n)))
             [] OTHER -> Logged(b, Unit(n), "failed")
BY DEF After, Moved, Retried

\* A report without parts stays one.
LEMMA NoPartsKept ==
  ASSUME NEW b, Kept(b), Len(b.log) = 0, NEW n, NEW verdict
  PROVE  Kept(After(n, b, verdict)) /\ Len(After(n, b, verdict).log) = 0
<1>1. b.log = << >> /\ b.got = << >>
  BY EmptySeq DEF Kept
<1>2. b = [at |-> b.at, text |-> b.text, part |-> b.part, tries |-> b.tries,
           got |-> b.got, log |-> b.log, lossy |-> b.lossy]
  BY DEF Kept
<1>3. ASSUME NEW ps, NEW h
      PROVE  Kept(Logged(b, ps, h)) /\ Len(Logged(b, ps, h).log) = 0
  <2> DEFINE log == [i \in DOMAIN b.log |-> IF i \in ps THEN h ELSE b.log[i]]
             l == Logged(b, ps, h)
  <2>1. log = << >>
    BY <1>1
  <2> HIDE DEF log
  <2> DEFINE at == IF Max(ps) < Len(b.log) THEN "send" ELSE "done"
             part == IF Max(ps) < Len(b.log) THEN Max(ps) + 1 ELSE b.part
  <2>2. l = [b EXCEPT !.log = log, !.tries = 0, !.part = part, !.at = at]
    BY DEF Logged, log
  <2> HIDE DEF l, at, part
  <2>3. l = [at |-> at, text |-> b.text, part |-> part, tries |-> 0,
             got |-> b.got, log |-> log, lossy |-> b.lossy]
    BY <1>2, <2>2
  <2>4. Kept(l) /\ Len(l.log) = 0
    BY <1>1, <2>1, <2>3 DEF Kept
  <2> QED BY <2>4 DEF l
<1>4. ASSUME NEW x, NEW t
      PROVE  /\ Kept(Moved(b, x)) /\ Len(Moved(b, x).log) = 0
             /\ Kept(Retried(b, t, x)) /\ Len(Retried(b, t, x).log) = 0
  <2>1. Len(b.log) > 0 => x \in 1 .. Len(b.log)
    OBVIOUS
  <2> QED BY <2>1, MovedFields DEF Goes
<1> QED BY <1>3, <1>4, Outcomes

-----------------------------------------------------------------------------
\* An attempt keeps the account, however it ends and whatever is tried next.
LEMMA PostAccounted ==
  ASSUME NEW n \in Notifiers, NEW v \in Providers, v = provider[n],
         Accounted(job[n], v), job[n].at = "send", NEW a \in Answers(v)
  PROVE  Accounted(After(n, Attempted(job[n], a), Judge(v, a)), v)
<1> DEFINE j == job[n]
           k == Len(j.log)
           verdict == Judge(v, a)
           b == Attempted(j, a)
           c == After(n, b, verdict)
<1> SUFFICES Accounted(c, v)
  OBVIOUS
<1>1. a.accepted \in BOOLEAN
  BY TakenOrNot
<1>2. verdict \in {"ok", "retry", "noRetry"}
  BY DEF Judge
<1>3. /\ Kept(b)
      /\ b.at = "send" /\ b.part = j.part /\ b.log = j.log
      /\ b.lossy = (j.lossy \/ (a.accepted /\ a.status = "none"))
      /\ \A i \in 1 .. k :
           b.got[i] = IF i = j.part /\ a.accepted THEN j.got[i] + 1 ELSE j.got[i]
  BY <1>1, AttemptedFields DEF Accounted
<1>4. verdict = "ok" => a.accepted = TRUE \/ v \in Careless
  BY OkIsTaken
<1>5. k \in Nat /\ Kept(j)
  BY DEF Accounted, Kept
<1> HIDE DEF c, b, verdict
<1>6. CASE k = 0
  <2>1. Kept(c) /\ Len(c.log) = 0
    BY <1>3, <1>6, NoPartsKept DEF c
  <2> QED BY <2>1 DEF Accounted, InParts, BeforeTaken, SentTaken, TakenOnce
<1>7. CASE k > 0
  <2>1. /\ j.part \in 1 .. k
        /\ \A i \in 1 .. k : j.got[i] \in Nat /\ b.got[i] \in Nat
    <3>1. /\ j.got \in Seq(Nat) /\ Len(j.got) = k
          /\ b.got \in Seq(Nat) /\ Len(b.got) = k
      BY <1>3, <1>5 DEF Kept
    <3>2. j.part \in 1 .. k
      BY <1>5, <1>7 DEF Kept
    <3>3. \A i \in 1 .. k : j.got[i] \in Nat /\ b.got[i] \in Nat
      <4>1. PICK x, y : x = j.got /\ y = b.got
        OBVIOUS
      <4>2. x \in Seq(Nat) /\ Len(x) = k /\ y \in Seq(Nat) /\ Len(y) = k
        BY <3>1, <4>1
      <4> HIDE DEF k
      <4>3. \A i \in 1 .. k : x[i] \in Nat /\ y[i] \in Nat
        BY ONLY <4>2, ElementOfSeq
      <4> QED BY <4>1, <4>3
    <3> QED BY <3>2, <3>3
  <2>2. b.got[j.part] >= 1 \/ ~ (a.accepted = TRUE)
    BY <1>3, <2>1
  <2>3. verdict = "ok" /\ v \notin Careless => b.got[j.part] >= 1
    BY <1>4, <2>2
  <2>4. v \notin Careless \cup {"discord"} =>
          \A i \in 1 .. k : i < j.part => b.got[i] >= 1
    BY <1>3, <1>7, <2>1 DEF Accounted, BeforeTaken
  <2>5. \A i \in 1 .. k : j.log[i] = "sent" => b.got[i] >= 1 \/ v \in Careless
    BY <1>3, <2>1 DEF Accounted, SentTaken
  <2>6. ~ b.lossy /\ v \notin Strict /\ ~ (v = "telegram" /\ k > 1) =>
          \A i \in 1 .. k :
            /\ b.got[i] <= 1
            /\ i > j.part => b.got[i] = 0
            /\ i = j.part /\ verdict # "ok" => b.got[i] = 0
    <3>1. ASSUME ~ b.lossy, v \notin Strict, ~ (v = "telegram" /\ k > 1)
          PROVE  \A i \in 1 .. k : j.got[i] <= 1 /\ (i >= j.part => j.got[i] = 0)
      BY <1>3, <3>1 DEF Accounted, TakenOnce
    <3>2. ASSUME ~ b.lossy, v \notin Strict, verdict # "ok" PROVE a.accepted = FALSE
      <4>1. a.accepted = TRUE /\ a.status # "none" => verdict = "ok"
        BY <3>2, TakenIsOk DEF verdict
      <4> QED BY <1>1, <1>3, <3>2, <4>1
    <3>3. ASSUME ~ b.lossy, v \notin Strict, ~ (v = "telegram" /\ k > 1), NEW i \in 1 .. k
          PROVE  /\ b.got[i] <= 1
                 /\ i > j.part => b.got[i] = 0
                 /\ i = j.part /\ verdict # "ok" => b.got[i] = 0
      <4>1. j.got[i] \in Nat /\ j.got[i] <= 1 /\ (i >= j.part => j.got[i] = 0)
        BY <2>1, <3>1, <3>3
      <4>2. b.got[i] = IF i = j.part /\ a.accepted THEN j.got[i] + 1 ELSE j.got[i]
        BY <1>3, <3>3
      <4>3. verdict # "ok" => a.accepted = FALSE
        BY <3>2, <3>3
      <4>4. i \in Nat /\ j.part \in Nat
        BY <2>1, <3>3
      <4> QED BY <1>1, <4>1, <4>2, <4>3, <4>4
    <3> QED BY <3>3
  <2>7. v \notin {"discord", "telegram"} => k <= 1
    BY DEF Accounted, InParts
  <2>8. /\ v = "discord" => /\ Unit(n) = {j.part}
                            /\ Max(Unit(n)) = j.part /\ Min(Unit(n)) = j.part
        /\ v # "discord" => /\ Unit(n) = 1 .. k
                            /\ Max(Unit(n)) = k /\ Min(Unit(n)) = 1
    BY <1>5, <1>7, Units
  <2>9. Max(Unit(n)) \in 1 .. Len(b.log) /\ Min(Unit(n)) \in 1 .. Len(b.log)
    BY <1>3, <1>5, <1>7, <2>1, <2>8
  <2>10. CASE verdict = "ok" /\ b.part < Max(Unit(n))
    <3>1. c = Moved(b, b.part + 1)
      BY <2>10, Outcomes DEF c
    <3>2. v = "telegram" /\ k > 1
      BY <1>3, <1>5, <2>1, <2>7, <2>8, <2>10
    <3>3. Len(b.log) > 0 => b.part + 1 \in 1 .. Len(b.log)
      BY <1>3, <1>5, <2>1, <2>8, <2>10
    <3>4. Goes(b, c, b.part + 1)
      BY <1>3, <3>1, <3>3, MovedFields
    <3>5. BeforeTaken(c, v)
      BY <1>3, <2>1, <2>3, <2>4, <2>10, <3>2, <3>4 DEF Goes, BeforeTaken, Careless
    <3> QED BY <1>3, <2>5, <2>7, <3>2, <3>4, <3>5
            DEF Goes, Accounted, InParts, SentTaken, TakenOnce
  <2>11. CASE verdict = "retry" /\ b.tries + 1 < RetryTimes
    <3>1. c = Retried(b, b.tries + 1, Min(Unit(n)))
      BY <2>11, Outcomes DEF c
    <3>2. Goes(b, c, Min(Unit(n)))
      BY <1>3, <2>9, <3>1, MovedFields
    <3>3. BeforeTaken(c, v)
      BY <1>3, <1>5, <2>8, <3>2 DEF Goes, BeforeTaken
    <3>4. TakenOnce(c, v)
      <4>1. v = "discord" => c.part = j.part
        BY <2>8, <3>2 DEF Goes
      <4>2. ASSUME v # "discord", ~ (v = "telegram" /\ k > 1)
            PROVE  j.part = 1 /\ c.part = 1
        <5>1. k = 1
          <6>1. v = "telegram" => ~ (k > 1)
            BY <4>2
          <6>2. v # "telegram" => k <= 1
            BY <2>7, <4>2
          <6> HIDE DEF k
          <6> QED BY <1>5, <1>7, <6>1, <6>2
        <5>2. j.part = 1
          BY <2>1, <5>1
        <5> QED BY <2>8, <3>2, <4>2, <5>2 DEF Goes
      <4>3. ~ (v = "telegram" /\ k > 1) => c.part = j.part
        BY <4>1, <4>2
      <4> QED BY <1>3, <1>5, <2>1, <2>6, <2>11, <3>2, <4>3 DEF Goes, TakenOnce
    <3> QED BY <1>3, <2>5, <2>7, <3>2, <3>3, <3>4 DEF Goes, Accounted, InParts, SentTaken
  <2>12. ASSUME NEW how \in Marks, c = Logged(b, Unit(n), how),
                how = "sent" => verdict = "ok" /\ ~ (b.part < Max(Unit(n)))
         PROVE  Accounted(c, v)
    <3>1. /\ Kept(c) /\ Len(c.log) = k
          /\ c.got = b.got /\ c.lossy = b.lossy
          /\ \A i \in 1 .. k : c.log[i] = IF i \in Unit(n) THEN how ELSE j.log[i]
          /\ Max(Unit(n)) < k => c.at = "send" /\ c.part = Max(Unit(n)) + 1
          /\ ~ (Max(Unit(n)) < k) => c.at = "done"
      BY <1>3, <2>9, <2>12, LoggedFields
    <3>2. c.at = "send" => v = "discord" /\ c.part = j.part + 1
      BY <1>5, <2>8, <3>1
    <3>3. SentTaken(c, v)
      <4>1. ASSUME NEW i \in 1 .. k, c.log[i] = "sent", v \notin Careless
            PROVE  b.got[i] >= 1
        <5>1. CASE i \notin Unit(n)
          BY <2>5, <3>1, <4>1, <5>1
        <5>2. CASE i \in Unit(n) /\ v = "discord"
          BY <2>3, <2>8, <2>12, <3>1, <4>1, <5>2
        <5>3. CASE i \in Unit(n) /\ v # "discord"
          <6>1. how = "sent" /\ verdict = "ok" /\ ~ (j.part < k)
            BY <1>3, <2>8, <2>12, <3>1, <4>1, <5>3
          <6>2. j.part = k
            BY <1>5, <2>1, <6>1
          <6>3. i < j.part \/ i = j.part
            BY <1>5, <2>1, <6>2
          <6> QED BY <2>3, <2>4, <4>1, <5>3, <6>1, <6>3
        <5> QED BY <5>1, <5>2, <5>3
      <4> QED BY <3>1, <4>1 DEF SentTaken
    <3>4. TakenOnce(c, v)
      BY <1>5, <2>1, <2>6, <3>1, <3>2 DEF TakenOnce
    <3>5. BeforeTaken(c, v)
      BY <3>2 DEF BeforeTaken
    <3> QED BY <2>7, <3>1, <3>3, <3>4, <3>5 DEF Accounted, InParts
  <2>13. Accounted(c, v)
    <3>1. \/ verdict = "ok" /\ b.part < Max(Unit(n))
          \/ verdict = "retry" /\ b.tries + 1 < RetryTimes
          \/ c = Logged(b, Unit(n), "sent")
             /\ verdict = "ok" /\ ~ (b.part < Max(Unit(n)))
          \/ c = Logged(b, Unit(n), "failed")
      BY <1>2, Outcomes DEF c
    <3> QED BY <2>10, <2>11, <2>12, <3>1 DEF Marks
  <2> QED BY <2>13
<1> QED BY <1>5, <1>6, <1>7

-----------------------------------------------------------------------------
\* The sections of a text are a sequence of them.
LEMMA SectionsCounted ==
  ASSUME NEW rows, IsSeq(rows), NEW size \in Nat \ {0}
  PROVE  Len(Sections(rows, size)) \in Nat
<1>1. Len(rows) \in Nat
  BY DEF IsSeq
<1>2. SectionCount(Len(rows), size) \in Nat
  <2>1. Len(rows) \div size \in Nat
    BY <1>1
  <2> QED BY <2>1 DEF SectionCount
<1> DEFINE k == SectionCount(Len(rows), size)
           f == Sections(rows, size)
<1>3. f \in [1 .. k -> { f[i] : i \in 1 .. k }]
  BY DEF Sections
<1> HIDE DEF f, k
<1>4. Len(f) = k
  BY <1>2, <1>3, Tuples DEF k
<1> QED BY <1>2, <1>4 DEF f, k

\* What a job is before its report is composed.
LEMMA NoJobShape ==
  NoJob = [at |-> NoJob.at, text |-> NoJob.text, part |-> NoJob.part,
           tries |-> NoJob.tries, got |-> NoJob.got, log |-> NoJob.log,
           lossy |-> NoJob.lossy]
BY DEF NoJob

LEMMA NoJobFields ==
  /\ NoJob.part = 1 /\ NoJob.got = <<>> /\ NoJob.log = <<>> /\ NoJob.at = "idle"
  /\ NoJob.lossy \in BOOLEAN /\ ~ NoJob.lossy
<1>1. NoJob.part = 1 /\ NoJob.got = <<>> /\ NoJob.log = <<>> /\ NoJob.at = "idle"
  BY DEF NoJob
<1>2. NoJob.lossy \in BOOLEAN /\ ~ NoJob.lossy
  BY DEF NoJob
<1> QED BY <1>1, <1>2

\* A report begins with an account of none of its parts taken.
LEMMA ComposeAccounted ==
  ASSUME Inv, NEW n \in Notifiers, Compose(n)
  PROVE  job' = [job EXCEPT ![n] = job'[n]] /\ Accounted(job'[n], provider[n])
<1> DEFINE t == Text(n)
           k == Parts(n, t)
           v == provider[n]
           got == [i \in 1 .. k |-> 0]
           log == [i \in 1 .. k |-> "none"]
           c == [NoJob EXCEPT !.at = "send", !.text = t, !.got = got, !.log = log]
<1>1. n \in Readers /\ IsSeq(read[n].rows) /\ v \in Providers
  BY DEF Inv, ReadersRead, Reading, Readers
<1>2. SlackFields \in Nat \ {0} /\ DiscordFields \in Nat \ {0} /\ TelegramRows \in Nat \ {0}
  BY ServiceAssumption DEF ServiceAssumption
<1>3. k \in Nat /\ (v \notin {"discord", "telegram"} => k = 1)
  <2>1. CASE v = "slack"
    BY <2>1 DEF Parts
  <2>2. CASE v = "discord"
    BY <1>1, <1>2, <2>2, SectionsCounted DEF Parts, Text
  <2>3. CASE v = "telegram"
    BY <1>1, <1>2, <2>3, SectionsCounted DEF Parts, Text
  <2>4. CASE v \notin {"slack", "discord", "telegram"}
    <3>1. t = <<read[n].rows>>
      BY <2>4 DEF Text
    <3> QED BY <2>4, <3>1 DEF Parts
  <2> QED BY <2>1, <2>2, <2>3, <2>4
<1>4. job' = [job EXCEPT ![n] = c]
  BY DEF Compose
<1> HIDE DEF t, k
<1>5. got \in [1 .. k -> Nat] /\ log \in [1 .. k -> Marks]
  BY DEF Marks
<1>6. /\ got \in Seq(Nat) /\ log \in Seq(Marks) /\ Len(got) = k /\ Len(log) = k
      /\ \A i \in 1 .. k : got[i] = 0 /\ log[i] = "none"
  BY <1>3, <1>5, Tuples
<1> HIDE DEF got, log
<1>7. c = [at |-> "send", text |-> t, part |-> NoJob.part, tries |-> NoJob.tries,
           got |-> got, log |-> log, lossy |-> NoJob.lossy]
  <2> DEFINE c1 == [NoJob EXCEPT !.at = "send"]
  <2>1. c1 = [at |-> "send", text |-> NoJob.text, part |-> NoJob.part,
              tries |-> NoJob.tries, got |-> NoJob.got, log |-> NoJob.log,
              lossy |-> NoJob.lossy]
    BY NoJobShape
  <2>2. c = [c1 EXCEPT !.text = t, !.got = got, !.log = log]
    OBVIOUS
  <2> HIDE DEF c, c1
  <2> QED BY <2>1, <2>2
<1> HIDE DEF c
<1>8. Accounted(c, v)
  <2>1. Kept(c)
    BY <1>3, <1>6, <1>7, NoJobFields DEF Kept
  <2> QED BY <1>3, <1>6, <1>7, <2>1, NoJobFields
          DEF Accounted, InParts, BeforeTaken, SentTaken, TakenOnce
<1>9. job'[n] = c
  BY <1>4 DEF Inv, JobsKept
<1> QED BY <1>4, <1>8, <1>9

\* A report that is not composed yet has no parts.
LEMMA NewJobAccounted ==
  ASSUME NEW at, at # "send", NEW v
  PROVE  Accounted([NoJob EXCEPT !.at = at], v)
<1> DEFINE c == [NoJob EXCEPT !.at = at]
<1>1. c = [at |-> at, text |-> NoJob.text, part |-> NoJob.part, tries |-> NoJob.tries,
           got |-> NoJob.got, log |-> NoJob.log, lossy |-> NoJob.lossy]
  BY NoJobShape
<1> HIDE DEF c
<1>2. Kept(c) /\ Len(c.log) = 0
  BY <1>1, NoJobFields DEF Kept
<1>3. Accounted(c, v)
  BY <1>2 DEF Accounted, InParts, BeforeTaken, SentTaken, TakenOnce
<1> QED BY <1>3 DEF c

-----------------------------------------------------------------------------
\* A reader begins without rows.
LEMMA IdleReading == Reading(Idle)
<1>1. "rows" \in DOMAIN Idle /\ Idle.rows = <<>>
  BY DEF Idle
<1>2. <<>> \in Seq({})
  OBVIOUS
<1> QED BY <1>1, <1>2 DEF Reading, IsSeq

\* Rows are added at the end.
LEMMA AppendIsSeq ==
  ASSUME NEW s, IsSeq(s), NEW e PROVE IsSeq(Append(s, e))
<1>1. PICK S : s \in Seq(S)
  BY DEF IsSeq
<1>2. s \in Seq(S \cup {e})
  BY <1>1, SeqDef
<1>3. Append(s, e) \in Seq(S \cup {e})
  BY <1>2
<1> QED BY <1>3 DEF IsSeq

\* What the actions make of a reader.
LEMMA ReaderFields ==
  ASSUME NEW m, Reading(m), NEW x, NEW y, NEW z
  PROVE  /\ Reading([m EXCEPT !.at = x])
         /\ Reading([m EXCEPT !.at = x, !.filter = y])
         /\ Reading([m EXCEPT !.at = x, !.next = y])
         /\ Reading([m EXCEPT !.next = x, !.cnt = y, !.picked = z])
         /\ Reading([m EXCEPT !.saved = x])
         /\ IsSeq(x) => Reading([m EXCEPT !.next = y, !.rows = x])
BY DEF Reading

LEMMA BeginsReading ==
  ASSUME NEW plan, NEW f, NEW picked PROVE Reading(Begins(plan, f, picked))
BY IdleReading DEF Reading, Begins

\* One reader goes on, the others stay as they are.
LEMMA OneReads ==
  ASSUME ReadersRead, NEW r \in Readers, NEW m, Reading(m), read' = [read EXCEPT ![r] = m]
  PROVE  ReadersRead'
BY DEF ReadersRead

LEMMA PanicReads ==
  ASSUME ReadersRead, NEW r \in Readers, Panics(r) PROVE ReadersRead'
<1>1. CASE UNCHANGED read
  BY <1>1 DEF ReadersRead
<1>2. CASE read' = [read EXCEPT ![r].at = "failed"]
  <2>1. read' = [read EXCEPT ![r] = [read[r] EXCEPT !.at = "failed"]]
    BY <1>2
  <2>2. Reading(read[r])
    BY DEF ReadersRead
  <2> QED BY <2>1, <2>2, OneReads, ReaderFields
<1> QED BY <1>1, <1>2 DEF Panics

LEMMA RequestReads ==
  ASSUME ReadersRead, NEW f, Request(f) PROVE ReadersRead'
<1> Web \in Readers
  BY DEF Readers
<1>1. CASE ~ Check(f)
  <2>1. read' = [read EXCEPT ![Web] = [Idle EXCEPT !.at = "refused", !.filter = f]]
    BY <1>1 DEF Request
  <2> QED BY <2>1, OneReads, IdleReading, ReaderFields
<1>2. CASE Check(f) /\ probers
  <2>1. read' = [read EXCEPT ![Web] = Begins("filter", f, <<>>)]
    BY <1>2 DEF Request
  <2> QED BY <2>1, OneReads, BeginsReading
<1>3. CASE Check(f) /\ ~ probers
  <2>1. read' = [read EXCEPT ![Web] = [Idle EXCEPT !.at = "failed", !.filter = f]]
    BY <1>3 DEF Request
  <2> QED BY <2>1, OneReads, IdleReading, ReaderFields
<1> QED BY <1>1, <1>2, <1>3

LEMMA SelectReads ==
  ASSUME ReadersRead, NEW r \in Readers, Select(r) PROVE ReadersRead'
<1> DEFINE me == read[r]
           p  == valid[me.next]
           matches == Matches(me.filter, data[p])
           cnt == IF matches THEN me.cnt + 1 ELSE me.cnt
           picked == IF matches /\ InPage(me.filter, me.cnt)
                     THEN Append(me.picked, p) ELSE me.picked
<1>1. Reading(me)
  BY DEF ReadersRead
<1>2. CASE me.next > Len(valid)
  <2>1. read' = [read EXCEPT ![r] = [me EXCEPT !.at = "render", !.next = 1]]
    BY <1>2 DEF Select
  <2> QED BY <1>1, <2>1, OneReads, ReaderFields
<1>3. CASE ~ (me.next > Len(valid)) /\ data[p] = Nil
  <2>1. Panics(r)
    BY <1>3 DEF Select
  <2> QED BY <2>1, PanicReads
<1>4. CASE ~ (me.next > Len(valid)) /\ data[p] # Nil
  <2>1. read' = [read EXCEPT ![r] =
                   [me EXCEPT !.next = @ + 1, !.cnt = cnt, !.picked = picked]]
    BY <1>4 DEF Select
  <2> HIDE DEF me, cnt, picked
  <2>2. Reading([me EXCEPT !.next = me.next + 1, !.cnt = cnt, !.picked = picked])
    BY <1>1, ReaderFields
  <2> QED BY <2>1, <2>2, OneReads
<1> QED BY <1>2, <1>3, <1>4

LEMMA RenderReads ==
  ASSUME ReadersRead, NEW r \in Readers, Render(r) PROVE ReadersRead'
<1> DEFINE me == read[r]
           p  == me.picked[me.next]
           Row(result) == read' = [read EXCEPT ![r].next = @ + 1,
                             ![r].rows = Append(@, [prober |-> p, result |-> result])]
<1>1. Reading(me)
  BY DEF ReadersRead
<1>2. \/ me.next > Len(me.picked) /\ read' = [read EXCEPT ![r].at = "done"]
      \/ Panics(r)
      \/ \E result : Row(result)
  BY DEF Render
<1>3. CASE read' = [read EXCEPT ![r].at = "done"]
  <2>1. read' = [read EXCEPT ![r] = [me EXCEPT !.at = "done"]]
    BY <1>3
  <2> QED BY <1>1, <2>1, OneReads, ReaderFields
<1>4. CASE Panics(r)
  BY <1>4, PanicReads
<1>5. CASE \E result : Row(result)
  <2>1. PICK result : Row(result)
    BY <1>5
  <2> DEFINE rows == Append(me.rows, [prober |-> p, result |-> result])
  <2>2. IsSeq(rows)
    BY <1>1, AppendIsSeq DEF Reading
  <2>3. read' = [read EXCEPT ![r] = [me EXCEPT !.next = me.next + 1, !.rows = rows]]
    BY <2>1 DEF ReadersRead
  <2> HIDE DEF me, rows
  <2>4. Reading([me EXCEPT !.next = me.next + 1, !.rows = rows])
    BY <1>1, <2>2, ReaderFields
  <2> QED BY <2>3, <2>4, OneReads
<1> QED BY <1>2, <1>3, <1>4, <1>5

LEMMA SaveReads ==
  ASSUME ReadersRead, SaveResult PROVE ReadersRead'
<1> DEFINE saved(r) == IF read[r].at \in {"select", "render"}
                       THEN read[r].saved \cup {Head(saveChannel).prober}
                       ELSE read[r].saved
<1>1. read' = [r \in Readers |-> [read[r] EXCEPT !.saved = saved(r)]]
  BY DEF SaveResult
<1> HIDE DEF saved
<1>2. \A r \in Readers : Reading([read[r] EXCEPT !.saved = saved(r)])
  BY ReaderFields DEF ReadersRead
<1> QED BY <1>1, <1>2 DEF ReadersRead

-----------------------------------------------------------------------------
LEMMA InitInv == Init => Inv
<1> SUFFICES ASSUME Init PROVE Inv
  OBVIOUS
<1>1. provider \in [Notifiers -> Providers]
  BY DEF Init
<1>2. ReadersRead
  BY IdleReading DEF Init, ReadersRead
<1>3. JobsKept
  <2>1. Kept(NoJob) /\ Len(NoJob.log) = 0
    BY NoJobShape, NoJobFields DEF Kept
  <2>2. \A v : Accounted(NoJob, v)
    BY <2>1 DEF Accounted, InParts, BeforeTaken, SentTaken, TakenOnce
  <2> QED BY <2>2 DEF Init, JobsKept
<1> QED BY <1>1, <1>2, <1>3 DEF Inv

\* The report of one notifier goes on, those of the others stay as they are.
LEMMA OneJob ==
  ASSUME JobsKept, NEW n \in Notifiers, NEW c, Accounted(c, provider[n]),
         job' = [job EXCEPT ![n] = c], UNCHANGED provider
  PROVE  JobsKept'
<1>1. \A m \in Notifiers : job'[m] = IF m = n THEN c ELSE job[m]
  BY DEF JobsKept
<1>2. \A m \in Notifiers : Accounted(job'[m], provider[m])
  BY <1>1 DEF JobsKept
<1>3. job' = [m \in Notifiers |-> job'[m]]
  BY DEF JobsKept
<1> QED BY <1>2, <1>3 DEF JobsKept

LEMMA NextInv == Inv /\ [Next]_vars => Inv'
<1> SUFFICES ASSUME Inv, [Next]_vars PROVE Inv'
  OBVIOUS
<1> USE DEF Inv
<1>1. UNCHANGED provider
  BY DEF Next, vars, config, notifiersConfig, Main, Server, Serve, ConfigProbers,
         ConfigChannels, RunProbers, SetProbers, ScheduleSLA, Shutdown, Exit, RoundBegins,
         RoundEnds, SendResult, SaveResult, Request, Select, Render, NotifyStat, Compose, Post
<1>2. ASSUME UNCHANGED <<read, job>> PROVE Inv'
  BY <1>1, <1>2 DEF ReadersRead, JobsKept
<1>3. ASSUME UNCHANGED job, ReadersRead' PROVE Inv'
  BY <1>1, <1>3 DEF JobsKept
<1>4. CASE Main \/ Serve \/ Shutdown \/ Exit
           \/ \E p \in Probers : RoundBegins(p) \/ RoundEnds(p) \/ SendResult(p)
  BY <1>2, <1>4 DEF Main, Server, Serve, ConfigProbers, ConfigChannels, RunProbers, SetProbers,
     ScheduleSLA, Shutdown, Exit, RoundBegins, RoundEnds, SendResult
<1>5. CASE SaveResult
  <2>1. UNCHANGED job
    BY <1>5 DEF SaveResult
  <2> QED BY <1>3, <1>5, <2>1, SaveReads
<1>6. ASSUME NEW f \in Requests, Request(f) PROVE Inv'
  <2>1. UNCHANGED job
    BY <1>6 DEF Request
  <2> QED BY <1>3, <1>6, <2>1, RequestReads
<1>7. ASSUME NEW r \in Readers, Select(r) \/ Render(r) PROVE Inv'
  <2>1. UNCHANGED job
    BY <1>7 DEF Select, Render
  <2> QED BY <1>3, <1>7, <2>1, SelectReads, RenderReads
<1>8. ASSUME NEW n \in Notifiers, NotifyStat(n) PROVE Inv'
  <2>1. CASE UNCHANGED <<read, job>>
    BY <1>2, <2>1
  <2>2. CASE /\ read' = [read EXCEPT ![n] = Begins(Plan(n), NewEmptyFilter, Picked(n))]
             /\ job' = [job EXCEPT ![n] = [NoJob EXCEPT !.at = "text"]]
    <3>1. ReadersRead'
      BY <2>2, BeginsReading, OneReads DEF Readers
    <3>2. JobsKept'
      BY <1>1, <2>2, NewJobAccounted, OneJob
    <3> QED BY <1>1, <3>1, <3>2
  <2> QED BY <1>8, <2>1, <2>2 DEF NotifyStat
<1>9. ASSUME NEW n \in Notifiers, Compose(n) PROVE Inv'
  <2>1. job' = [job EXCEPT ![n] = job'[n]] /\ Accounted(job'[n], provider[n])
    BY <1>9, ComposeAccounted
  <2>2. JobsKept'
    BY <1>1, <2>1, OneJob
  <2>3. UNCHANGED read
    BY <1>9 DEF Compose
  <2> QED BY <1>1, <2>2, <2>3 DEF ReadersRead
<1>10. ASSUME NEW n \in Notifiers, Post(n) PROVE Inv'
  <2> DEFINE v == provider[n]
  <2>1. PICK a \in Answers(v) :
          job' = [job EXCEPT ![n] = After(n, Attempted(job[n], a), Judge(v, a))]
    BY <1>10 DEF Post, Attempted
  <2>2. v \in Providers /\ Accounted(job[n], v) /\ job[n].at = "send"
    BY <1>10 DEF JobsKept, Post
  <2>3. Accounted(After(n, Attempted(job[n], a), Judge(v, a)), v)
    BY <2>2, PostAccounted
  <2>4. JobsKept'
    BY <1>1, <2>1, <2>3, OneJob
  <2>5. UNCHANGED read
    BY <1>10 DEF Post
  <2> QED BY <1>1, <2>4, <2>5 DEF ReadersRead
<1>11. CASE UNCHANGED vars
  BY <1>2, <1>11 DEF vars
<1> QED BY <1>4, <1>5, <1>6, <1>7, <1>8, <1>9, <1>10, <1>11 DEF Next

\* For any probers and notifiers, however long the report and however often it
\* is tried, what is logged as sent has been taken by a provider that looks,
\* and nothing is taken twice but after a lost answer, or with the earlier
\* parts of a Telegram message (DoRetry, SendTelegram, LogSend).
THEOREM ReportsAccepted == Spec => []SentMeansAccepted
<1>1. Inv => SentMeansAccepted
  <2> SUFFICES ASSUME Inv, NEW n \in Notifiers, NEW i \in DOMAIN job[n].log
               PROVE  /\ job[n].log[i] = "sent" =>
                           job[n].got[i] >= 1 \/ provider[n] \in Careless
                      /\ job[n].got[i] > 1 =>
                           \/ job[n].lossy \/ provider[n] \in Strict
                           \/ provider[n] = "telegram" /\ Len(job[n].log) > 1
    BY DEF SentMeansAccepted
  <2>1. Accounted(job[n], provider[n])
    BY DEF Inv, JobsKept
  <2>2. i \in 1 .. Len(job[n].log) /\ job[n].got[i] \in Nat
    BY <2>1 DEF Accounted, Kept
  <2>3. job[n].log[i] = "sent" => job[n].got[i] >= 1 \/ provider[n] \in Careless
    BY <2>1, <2>2 DEF Accounted, SentTaken
  <2>4. ~ job[n].lossy /\ provider[n] \notin Strict /\ ~ (provider[n] = "telegram" /\ Len(job[n].log) > 1) =>
          job[n].got[i] <= 1
    BY <2>1, <2>2 DEF Accounted, TakenOnce
  <2> QED BY <2>2, <2>3, <2>4
<1> QED BY <1>1, InitInv, NextInv, PTL DEF Spec

-----------------------------------------------------------------------------
\* Division with a remainder.
LEMMA Division ==
  ASSUME NEW n \in Nat, NEW size \in Nat \ {0}
  PROVE  /\ n \div size \in Nat
         /\ (n \div size) * size <= n /\ n < (n \div size) * size + size
         /\ n % size = n - (n \div size) * size
  OBVIOUS

\* A number lies in one multiple of a size only.
LEMMA Quotient ==
  ASSUME NEW n \in Nat, NEW size \in Nat \ {0}, NEW q \in Nat,
         q * size <= n, n < q * size + size
  PROVE  q = n \div size
<1> DEFINE d == n \div size
<1>1. d \in Nat /\ d * size <= n /\ n < d * size + size
  BY Division
<1> HIDE DEF d
<1>2. ASSUME NEW x \in Nat, NEW y \in Nat, x < y PROVE x * size + size <= y * size
  <2>1. PICK e \in Nat : y = x + 1 + e
    <3>1. y - x - 1 \in Nat /\ y = x + 1 + (y - x - 1)
      BY <1>2
    <3> QED BY <3>1
  <2>2. y * size = x * size + size + e * size
    BY <2>1
  <2>3. e * size \in Nat /\ x * size \in Nat
    OBVIOUS
  <2> QED BY <2>2, <2>3
<1>3. ~ (d < q)
  BY <1>1, <1>2
<1>4. ~ (q < d)
  BY <1>1, <1>2
<1>5. q = d
  BY <1>1, <1>3, <1>4
<1> QED BY <1>5 DEF d

\* What is in the range of an int stays as it is.
LEMMA WrapIs ==
  ASSUME NEW n \in MinInt .. MaxInt
  PROVE  Wrap(n) = n
<1>1. PICK w : w = 2 * (MaxInt + 1)
  OBVIOUS
<1>2. /\ MaxInt \in Nat /\ MinInt \in Int /\ w \in Nat \ {0}
      /\ n - MinInt \in 0 .. w - 1
  BY <1>1, PageSizeAssumption DEF MinInt
<1>3. PICK x : x = n - MinInt
  OBVIOUS
<1>4. x % w = x
  BY <1>2, <1>3
<1> QED BY <1>1, <1>2, <1>3, <1>4 DEF Wrap

\* The first and the last number of a page that fits.
LEMMA PageInInt ==
  ASSUME NEW f, f.page \in Nat \ {0}, f.size \in Nat \ {0}, Fits(f)
  PROVE  Start(f) = (f.page - 1) * f.size /\ End(f) = f.page * f.size - 1
<1>1. PICK q, y : q = f.page - 1 /\ y = f.size
  OBVIOUS
<1>2. q \in Nat /\ y \in Nat \ {0} /\ f.page = q + 1
  BY <1>1
<1>3. PICK a : a = q * y
  OBVIOUS
<1>4. a \in Nat /\ (q + 1) * y = a + y
  BY <1>2, <1>3
<1>5. MaxInt \in Nat /\ MinInt = - MaxInt - 1
  BY PageSizeAssumption DEF MinInt
<1>6. a + y - 1 <= MaxInt
  BY <1>1, <1>2, <1>4 DEF Fits
<1>7. PICK u, z : u = (f.page - 1) * f.size /\ z = f.page * f.size
  OBVIOUS
<1>8. u = a
  BY <1>1, <1>3, <1>7, Zenon
<1>9. z = a + y
  <2>1. z = (q + 1) * y
    BY <1>1, <1>2, <1>7, Zenon
  <2> QED BY <1>4, <2>1, Zenon
<1>10. PICK e : e = z - 1
  OBVIOUS
<1>11. u \in MinInt .. MaxInt /\ e \in MinInt .. MaxInt
  BY <1>2, <1>4, <1>5, <1>6, <1>8, <1>9, <1>10
<1>12. Wrap(u) = u /\ Wrap(e) = e
  BY <1>11, WrapIs
<1>13. Start(f) = Wrap(u) /\ End(f) = Wrap(e)
  BY <1>7, <1>10, Zenon DEF Start, End
<1> QED BY <1>7, <1>10, <1>12, <1>13, Zenon

\* For every page size, a match is on the page that its number among all the
\* matches gives: none is left out, and none is on two pages, of those that an
\* int can number (getIndics, Filter).
THEOREM PagesNumbered ==
  ASSUME NEW f, f.page \in Nat \ {0}, f.size \in Nat \ {0}, Fits(f), NEW cnt \in Nat
  PROVE  InPage(f, cnt) <=> cnt \div f.size + 1 = f.page
<1> DEFINE q == f.page - 1
           size == f.size
<1>1. q \in Nat /\ f.page = q + 1
  OBVIOUS
<1>2. f.page * size = q * size + size
  BY <1>1
<1>3. InPage(f, cnt) <=> q * size <= cnt /\ cnt < q * size + size
  <2>1. q * size \in Nat /\ size \in Nat
    BY <1>1
  <2>2. Start(f) = q * size /\ End(f) = q * size + size - 1
    BY <1>1, <1>2, PageInInt
  <2> QED BY <2>1, <2>2 DEF InPage
<1>4. q * size <= cnt /\ cnt < q * size + size <=> q = cnt \div size
  BY <1>1, Division, Quotient
<1>5. cnt \div size \in Nat
  BY Division
<1> QED BY <1>1, <1>3, <1>4, <1>5

\* For every size of a section, a row of a report is in one section, and in one
\* only (SLASlack, NewEmbeds, splitMessage).
THEOREM SectionsPartition ==
  ASSUME NEW n \in Nat, NEW size \in Nat \ {0}, NEW i \in 1 .. n
  PROVE  /\ (i - 1) \div size + 1 \in 1 .. SectionCount(n, size)
         /\ \A p \in 1 .. SectionCount(n, size) :
              i \in SectionStart(p, size) .. SectionEnd(p, n, size)
                <=> p = (i - 1) \div size + 1
<1> DEFINE m == i - 1
           d == m \div size
           e == n \div size
<1>1. m \in Nat /\ m + 1 = i /\ m < n
  OBVIOUS
<1>2. d \in Nat /\ d * size <= m /\ m < d * size + size
  BY <1>1, Division
<1>3. /\ e \in Nat /\ e * size <= n /\ n < e * size + size
      /\ n % size = n - e * size
  BY Division
<1> HIDE DEF m, d, e
<1>4. ASSUME NEW x \in Nat, NEW y \in Nat, x * size < y * size PROVE x < y
  <2>1. CASE y <= x
    <3>1. PICK z \in Nat : x = y + z
      <4>1. x - y \in Nat /\ x = y + (x - y)
        BY <2>1
      <4> QED BY <4>1
    <3>2. x * size = y * size + z * size /\ z * size \in Nat /\ y * size \in Nat
      BY <3>1
    <3> QED BY <1>4, <3>2
  <2> QED BY <2>1
<1>5. d + 1 \in 1 .. SectionCount(n, size)
  <2>1. d * size \in Nat /\ e * size \in Nat /\ (e + 1) * size = e * size + size
    BY <1>2, <1>3
  <2>2. CASE n % size > 0
    <3>1. d < e + 1
      BY <1>1, <1>2, <1>3, <1>4, <2>1
    <3>2. SectionCount(n, size) = e + 1
      BY <2>2 DEF SectionCount, e
    <3> QED BY <1>2, <1>3, <3>1, <3>2
  <2>3. CASE ~ (n % size > 0)
    <3>1. n = e * size
      BY <1>3, <2>1, <2>3
    <3>2. d < e
      BY <1>1, <1>2, <1>3, <1>4, <2>1, <3>1
    <3>3. SectionCount(n, size) = e
      BY <1>3, <2>3 DEF SectionCount, e
    <3> QED BY <1>2, <1>3, <3>2, <3>3
  <2> QED BY <2>2, <2>3
<1>6. SectionCount(n, size) \in Nat
  BY <1>3 DEF SectionCount, e
<1>7. ASSUME NEW p \in 1 .. SectionCount(n, size)
      PROVE  i \in SectionStart(p, size) .. SectionEnd(p, n, size) <=> p = d + 1
  <2> DEFINE q == p - 1
  <2>1. q \in Nat /\ p = q + 1
    BY <1>6
  <2>2. p * size = q * size + size /\ q * size \in Nat
    BY <2>1
  <2>3. i \in SectionStart(p, size) .. SectionEnd(p, n, size)
          <=> q * size <= m /\ m < q * size + size
    <3>1. SectionStart(p, size) = q * size + 1
      BY DEF SectionStart
    <3>2. SectionEnd(p, n, size) = IF n < q * size + size THEN n ELSE q * size + size
      BY <2>2 DEF SectionEnd
    <3> HIDE DEF q
    <3> QED BY <1>1, <2>2, <3>1, <3>2
  <2>4. q * size <= m /\ m < q * size + size <=> q = d
    BY <1>1, <1>2, <2>1, Quotient DEF d
  <2> QED BY <1>2, <2>1, <2>3, <2>4
<1> QED BY <1>5, <1>7 DEF d, m

-----------------------------------------------------------------------------
(***************************************************************************)
(* A selection from a sequence: what its loop has appended after i turns.  *)
(***************************************************************************)
Chosen(s, I) ==
  CHOOSE f : f = [i \in 0 .. Len(s) |->
                    IF i = 0 THEN <<>>
                    ELSE IF i \in I THEN Append(f[i - 1], s[i]) ELSE f[i - 1]]

Chooses(s, I, f) ==
  /\ DOMAIN f = 0 .. Len(s) /\ f[0] = <<>>
  /\ \A i \in 1 .. Len(s) : f[i] = IF i \in I THEN Append(f[i - 1], s[i]) ELSE f[i - 1]

LEMMA ChosenIs ==
  ASSUME NEW s, Len(s) \in Nat, NEW I
  PROVE  Chooses(s, I, Chosen(s, I)) /\ Selected(s, I) = Chosen(s, I)[Len(s)]
<1> DEFINE Turn(f, i) == IF i \in I THEN Append(f[i - 1], s[i]) ELSE f[i - 1]
           Body(f, i) == IF i = 0 THEN <<>> ELSE Turn(f, i)
           Eq(f, n) == f = [i \in 0 .. n |-> Body(f, i)]
           S == { n \in Nat : \E f : Eq(f, n) }
<1>0. ASSUME NEW f, NEW n \in Nat, Eq(f, n)
      PROVE  DOMAIN f = 0 .. n /\ f[0] = <<>> /\ \A i \in 1 .. n : f[i] = Turn(f, i)
  <2> HIDE DEF Body
  <2>1. DOMAIN f = 0 .. n /\ \A i \in 0 .. n : f[i] = Body(f, i)
    BY <1>0, Zenon
  <2>2. 0 \in 0 .. n /\ \A i \in 1 .. n : i \in 0 .. n /\ i # 0
    OBVIOUS
  <2> HIDE DEF Turn
  <2> QED BY <2>1, <2>2, Zenon DEF Body
<1>1. 0 \in S
  <2>1. Eq([i \in 0 .. 0 |-> <<>>], 0)
    OBVIOUS
  <2> HIDE DEF Eq
  <2> QED BY <2>1
<1>2. ASSUME NEW n \in Nat, n \in S PROVE n + 1 \in S
  <2>1. PICK f : Eq(f, n)
    BY <1>2
  <2> DEFINE e == IF n + 1 \in I THEN Append(f[n], s[n + 1]) ELSE f[n]
             g == [i \in 0 .. n + 1 |-> IF i <= n THEN f[i] ELSE e]
  <2>2. f[0] = <<>> /\ \A i \in 1 .. n : f[i] = Turn(f, i)
    <3> HIDE DEF Eq, Turn
    <3> QED BY <1>0, <2>1
  <2>3. /\ g[0] = <<>> /\ \A i \in 0 .. n : g[i] = f[i]
        /\ g[n + 1] = e
    BY <2>2
  <2>6. g = [i \in 0 .. n + 1 |-> g[i]]
    OBVIOUS
  <2> HIDE DEF g
  <2>4. ASSUME NEW i \in 1 .. n + 1 PROVE g[i] = Turn(g, i)
    <3>1. CASE i = n + 1
      <4>1. n \in 0 .. n /\ (n + 1) - 1 = n
        OBVIOUS
      <4> QED BY <2>3, <3>1, <4>1
    <3>2. CASE i # n + 1
      <4>1. i \in 1 .. n /\ i \in 0 .. n /\ i - 1 \in 0 .. n
        BY <3>2
      <4> QED BY <2>2, <2>3, <4>1
    <3> QED BY <3>1, <3>2
  <2>5. Eq(g, n + 1)
    <3> HIDE DEF Turn
    <3>1. \A i \in 0 .. n + 1 : g[i] = Body(g, i)
      BY <2>3, <2>4
    <3> HIDE DEF Body
    <3> QED BY <2>6, <3>1, Zenon
  <2> HIDE DEF Eq
  <2> QED BY <2>5
<1> HIDE DEF S
<1>3. Len(s) \in S
  BY <1>1, <1>2, D!Induct
<1>4. \E f : f = [i \in 0 .. Len(s) |->
                  IF i = 0 THEN <<>>
                  ELSE IF i \in I THEN Append(f[i - 1], s[i]) ELSE f[i - 1]]
  BY <1>3, Zenon DEF S
<1> DEFINE c == Chosen(s, I)
<1>5. Eq(c, Len(s))
  BY <1>4, Zenon DEF Chosen
<1>6. Selected(s, I) = c[Len(s)]
  BY DEF Selected, Chosen
<1> HIDE DEF c
<1>7. DOMAIN c = 0 .. Len(s) /\ c[0] = <<>> /\ \A i \in 1 .. Len(s) : c[i] = Turn(c, i)
  <2> HIDE DEF Eq, Turn
  <2> QED BY <1>0, <1>5
<1>8. Chooses(s, I, c)
  BY <1>7, Zenon DEF Chooses
<1> QED BY <1>6, <1>8 DEF c

\* What is chosen is at one of the positions, and no position twice.
LEMMA ChosenFrom ==
  ASSUME NEW S, NEW s \in Seq(S), NEW I, NEW f, Chooses(s, I, f), NEW k \in 0 .. Len(s)
  PROVE  LET P == { s[i] : i \in { j \in 1 .. k : j \in I } } IN
         f[k] \in Seq(P) /\ (IsInjective(s) => IsInjective(f[k]))
<1> DEFINE P(i) == { s[j] : j \in { l \in 1 .. i : l \in I } }
           Good(i) == f[i] \in Seq(P(i)) /\ (IsInjective(s) => IsInjective(f[i]))
           T == { i \in Nat : i <= Len(s) => Good(i) }
<1>1. 0 \in T
  <2>1. f[0] = <<>>
    BY DEF Chooses
  <2>2. f[0] \in Seq(P(0)) /\ IsInjective(f[0])
    BY <2>1 DEF IsInjective
  <2> QED BY <2>2
<1>2. ASSUME NEW i \in Nat, i \in T PROVE i + 1 \in T
  <2> SUFFICES ASSUME i + 1 <= Len(s) PROVE Good(i + 1)
    OBVIOUS
  <2>0. Len(s) \in Nat /\ DOMAIN s = 1 .. Len(s)
    BY LenProperties
  <2>1. Good(i)
    BY <1>2, <2>0
  <2>2. PICK n : n = i + 1
    OBVIOUS
  <2>3. n \in 1 .. Len(s) /\ n - 1 = i
    BY <2>0, <2>2
  <2>4. f[n] = IF n \in I THEN Append(f[i], s[n]) ELSE f[i]
    BY <2>3 DEF Chooses
  <2>5. P(i) \subseteq P(n)
    BY <2>2
  <2>6. f[i] \in Seq(P(n))
    <3> HIDE DEF P
    <3> QED BY <2>1, <2>5, SeqMonotonic
  <2>7. CASE n \notin I
    BY <2>1, <2>2, <2>4, <2>6, <2>7
  <2>8. CASE n \in I
    <3>1. s[n] \in P(n)
      BY <2>3, <2>8
    <3> DEFINE t == f[i]
    <3>2. /\ Append(t, s[n]) \in Seq(P(n)) /\ Len(t) \in Nat
          /\ Len(Append(t, s[n])) = Len(t) + 1
          /\ \A j \in 1 .. Len(t) : Append(t, s[n])[j] = t[j]
          /\ Append(t, s[n])[Len(t) + 1] = s[n]
      <4> HIDE DEF P, t
      <4>1. t \in Seq(P(n))
        BY <2>6 DEF t
      <4> QED BY <3>1, <4>1, AppendProperties, LenProperties
    <3>3. ASSUME IsInjective(s) PROVE IsInjective(Append(t, s[n]))
      <4>1. IsInjective(t) /\ \A j \in 1 .. Len(t) : t[j] \in P(i)
        BY <2>1, <3>3, ElementOfSeq
      <4>2. s[n] \notin P(i)
        BY <2>0, <2>3, <3>3 DEF IsInjective
      <4> HIDE DEF P, t
      <4>3. /\ DOMAIN t = 1 .. Len(t)
            /\ DOMAIN Append(t, s[n]) = 1 .. Len(t) + 1
        BY <2>6, <3>2, LenProperties DEF t
      <4> QED BY <3>2, <4>1, <4>2, <4>3 DEF IsInjective
    <3> QED BY <2>2, <2>4, <2>8, <3>2, <3>3
  <2> QED BY <2>7, <2>8
<1> HIDE DEF T
<1>3. Len(s) \in Nat
  BY LenProperties
<1>4. k \in T
  <2>1. Nat \subseteq T
    BY <1>1, <1>2, D!Induct
  <2> QED BY <1>3, <2>1
<1>5. Good(k)
  BY <1>3, <1>4 DEF T
<1> QED BY <1>5

\* The probers that are run are among those configured, each once.
LEMMA ValidAre ==
  ASSUME NEW accepted
  PROVE  ValidProbers(accepted) \in Seq(Probers) /\ IsInjective(ValidProbers(accepted))
<1> DEFINE I == { i \in DOMAIN Listed : Listed[i] \in accepted }
           c == Chosen(Listed, I)
<1>1. Listed \in Seq(Probers) /\ IsInjective(Listed)
  BY ServiceAssumption DEF ServiceAssumption, Probers
<1>2. Len(Listed) \in Nat /\ DOMAIN Listed = 1 .. Len(Listed)
  BY <1>1, LenProperties
<1>3. Chooses(Listed, I, c) /\ ValidProbers(accepted) = c[Len(Listed)]
  BY <1>2, ChosenIs DEF ValidProbers
<1> HIDE DEF I, c
<1> DEFINE P == { Listed[i] : i \in { j \in 1 .. Len(Listed) : j \in I } }
<1>4. c[Len(Listed)] \in Seq(P) /\ IsInjective(c[Len(Listed)])
  <2>1. PICK k, f : k = Len(Listed) /\ f = c
    OBVIOUS
  <2>2. k \in 0 .. Len(Listed) /\ Chooses(Listed, I, f)
    BY <1>2, <1>3, <2>1
  <2>3. f[k] \in Seq({ Listed[i] : i \in { j \in 1 .. k : j \in I } })
        /\ (IsInjective(Listed) => IsInjective(f[k]))
    BY <1>1, <2>2, ChosenFrom, Zenon
  <2> QED BY <1>1, <2>1, <2>3, Zenon
<1>5. P \subseteq Probers
  BY <1>2, <1>4 DEF Probers, Range
<1> QED BY <1>3, <1>4, <1>5, SeqMonotonic

-----------------------------------------------------------------------------
(***************************************************************************)
(* No page and no report meets a prober without a result: from the time    *)
(* that readers begin every prober that is run has one, and what a reader  *)
(* has picked is among them.                                               *)
(***************************************************************************)
Begun == {"shown", "running", "exiting"}

Shaped(m) ==
  m = [at |-> m.at, plan |-> m.plan, filter |-> m.filter, next |-> m.next,
       cnt |-> m.cnt, picked |-> m.picked, rows |-> m.rows, began |-> m.began,
       saved |-> m.saved]

\* A reader is at a record of its fields, and while it reads: what it has
\* picked has results; a page is filtered; a report is that of a reporter, and
\* one read from the probers themselves that of Discord.
Proper(r, m, st, d, rep, v) ==
  /\ Shaped(m)
  /\ m.at \in {"select", "render"} =>
       /\ m.next \in Nat \ {0}
       /\ m.picked \in Seq(Probers)
       /\ \A i \in 1 .. Len(m.picked) : d[m.picked[i]] # Nil
       /\ IF r = Web THEN st \in Begun /\ m.plan = "filter"
          ELSE /\ st \in {"running", "exiting"} /\ r \in rep
               /\ m.plan = "live" => v = "discord"

\* What the steps of a reader make of its fields.
LEMMA ShapedSteps ==
  ASSUME NEW m, Shaped(m), NEW x, NEW y
  PROVE  /\ [m EXCEPT !.at = x, !.next = y] =
              [at |-> x, plan |-> m.plan, filter |-> m.filter, next |-> y,
               cnt |-> m.cnt, picked |-> m.picked, rows |-> m.rows,
               began |-> m.began, saved |-> m.saved]
         /\ [m EXCEPT !.next = x, !.rows = y] =
              [at |-> m.at, plan |-> m.plan, filter |-> m.filter, next |-> x,
               cnt |-> m.cnt, picked |-> m.picked, rows |-> y,
               began |-> m.began, saved |-> m.saved]
<1>1. ASSUME NEW a, NEW b, NEW c, NEW d, NEW e, NEW f, NEW g, NEW h, NEW i,
             m = [at |-> a, plan |-> b, filter |-> c, next |-> d, cnt |-> e,
                  picked |-> f, rows |-> g, began |-> h, saved |-> i]
      PROVE  /\ [m EXCEPT !.at = x, !.next = y] =
                  [at |-> x, plan |-> b, filter |-> c, next |-> y, cnt |-> e,
                   picked |-> f, rows |-> g, began |-> h, saved |-> i]
             /\ [m EXCEPT !.next = x, !.rows = y] =
                  [at |-> a, plan |-> b, filter |-> c, next |-> x, cnt |-> e,
                   picked |-> f, rows |-> y, began |-> h, saved |-> i]
  <2>1. [m EXCEPT !.at = x, !.next = y] =
          [at |-> x, plan |-> b, filter |-> c, next |-> y, cnt |-> e,
           picked |-> f, rows |-> g, began |-> h, saved |-> i]
    <3> DEFINE m1 == [m EXCEPT !.at = x]
    <3>1. m1 = [at |-> x, plan |-> b, filter |-> c, next |-> d, cnt |-> e,
                picked |-> f, rows |-> g, began |-> h, saved |-> i]
      BY <1>1
    <3>2. [m EXCEPT !.at = x, !.next = y] = [m1 EXCEPT !.next = y]
      OBVIOUS
    <3> HIDE DEF m1
    <3>3. [m1 EXCEPT !.next = y] =
            [at |-> x, plan |-> b, filter |-> c, next |-> y, cnt |-> e,
             picked |-> f, rows |-> g, began |-> h, saved |-> i]
      BY <3>1
    <3> QED BY <3>2, <3>3
  <2>2. [m EXCEPT !.next = x, !.rows = y] =
          [at |-> a, plan |-> b, filter |-> c, next |-> x, cnt |-> e,
           picked |-> f, rows |-> y, began |-> h, saved |-> i]
    <3> DEFINE m1 == [m EXCEPT !.next = x]
    <3>1. m1 = [at |-> a, plan |-> b, filter |-> c, next |-> x, cnt |-> e,
                picked |-> f, rows |-> g, began |-> h, saved |-> i]
      BY <1>1
    <3>2. [m EXCEPT !.next = x, !.rows = y] = [m1 EXCEPT !.rows = y]
      OBVIOUS
    <3> HIDE DEF m1
    <3>3. [m1 EXCEPT !.rows = y] =
            [at |-> a, plan |-> b, filter |-> c, next |-> x, cnt |-> e,
             picked |-> f, rows |-> y, began |-> h, saved |-> i]
      BY <3>1
    <3> QED BY <3>2, <3>3
  <2> QED BY <2>1, <2>2
<1> QED BY <1>1, ZenonT(60) DEF Shaped

ReadersProper ==
  /\ read = [r \in Readers |-> read[r]]
  /\ \A r \in Readers : Proper(r, read[r], stage, data, reporters, provider[r])

Message == [prober : Probers, result : Results]

Provided ==
  /\ kind \in [Probers -> Kinds] /\ label \in [Probers -> SUBSET UserLabels]
  /\ provider \in [Notifiers -> Providers] /\ format \in [Notifiers -> Formats]
  /\ probers => stage \in Begun
  /\ valid \in Seq(Probers)
  /\ live \in [Probers -> Results] /\ data \in [Probers -> Results \cup {Nil}]
  /\ saveChannel \in Seq(Message)
  /\ stage \in {"probers", "channels", "probing"} \cup Begun =>
       \A i \in 1 .. Len(valid) : data[valid[i]] # Nil
  /\ \A p \in Probers : metrics[p] = "nil" => LabelsClash

Found == Provided /\ ReadersProper

LEMMA NilIsNone == Nil \notin Results /\ NewResult \in Results
BY DEF Nil, Results, NewResult

\* The gauges of a kind fail for a label that clashes.
LEMMA MetricsFail ==
  ASSUME Provided, NEW p \in Probers,
         NewMetrics(kind[p], MergeConstLabels(label)) # "made"
  PROVE  LabelsClash
<1> DEFINE const == MergeConstLabels(label)
           k == kind[p]
<1>1. \A x \in const : \E q \in Probers : x \in label[q]
  BY DEF MergeConstLabels, Range, Provided
<1>2. PICK l \in MetricLabels(k) : NewGauge(l, const) # "gauge"
  BY DEF NewMetrics
<1>3. l \subseteq {"name", "status", "endpoint", "exit"}
      /\ ("exit" \in l => k \in {"shell", "ssh"})
  BY <1>2 DEF MetricLabels, KindLabels, BaseLabels, HTTPLabels, PingLabels, ShellLabels,
     SSHLabels, TLSLabels
<1>4. const \subseteq UserLabels
  BY <1>1 DEF Provided
<1>5. \/ "not a label" \in const \/ "__reserved" \in const
      \/ l \cap const # {}
  BY <1>2 DEF NewGauge, GetAndValid
<1>6. l \cap const # {} => "name" \in const \/ ("exit" \in const /\ k \in {"shell", "ssh"})
  BY <1>3, <1>4 DEF UserLabels
<1> HIDE DEF const, k
<1>7. \/ \E x \in {"not a label", "__reserved", "name"} : x \in const
      \/ "exit" \in const /\ k \in {"shell", "ssh"}
  BY <1>5, <1>6
<1>8. CASE \E x \in {"not a label", "__reserved", "name"} : x \in const
  BY <1>1, <1>8 DEF LabelsClash
<1>9. CASE "exit" \in const /\ k \in {"shell", "ssh"}
  BY <1>1, <1>9 DEF LabelsClash, k
<1> QED BY <1>7, <1>8, <1>9

LEMMA IdleProper ==
  \A r, st, d, rep, v : Proper(r, Idle, st, d, rep, v)
BY DEF Proper, Shaped, Idle

LEMMA InitFound == Init => Found
<1> SUFFICES ASSUME Init PROVE Found
  OBVIOUS
<1>1. ReadersProper
  BY IdleProper DEF Init, ReadersProper
<1>2. Provided
  BY NilIsNone DEF Init, Provided
<1> QED BY <1>1, <1>2 DEF Found

\* A reader stays as it is, and what it rests on too.
LEMMA ProperStays ==
  ASSUME NEW r, NEW m, NEW st, NEW d, NEW rep, NEW v, Proper(r, m, st, d, rep, v),
         NEW st2, NEW d2, NEW rep2,
         st \in Begun => st2 \in Begun,
         st \in {"running", "exiting"} => st2 \in {"running", "exiting"} /\ rep2 = rep,
         st \in Begun => \A p \in Probers : d[p] # Nil => d2[p] # Nil
  PROVE  Proper(r, m, st2, d2, rep2, v)
<1>1. CASE m.at \notin {"select", "render"}
  BY <1>1 DEF Proper
<1>2. CASE m.at \in {"select", "render"}
  <2>1. /\ m.picked \in Seq(Probers) /\ st \in Begun
        /\ \A i \in 1 .. Len(m.picked) : d[m.picked[i]] # Nil
    BY <1>2 DEF Proper, Begun
  <2>2. \A i \in 1 .. Len(m.picked) : m.picked[i] \in Probers
    BY <2>1, ElementOfSeq
  <2>3. \A i \in 1 .. Len(m.picked) : d2[m.picked[i]] # Nil
    BY <2>1, <2>2
  <2> QED BY <1>2, <2>3 DEF Proper, Begun
<1> QED BY <1>1, <1>2

\* The steps of main.
LEMMA MainFound ==
  ASSUME Found, Main \/ Serve \/ Shutdown \/ Exit
  PROVE  Found'
<1> USE DEF Found
<1>1. UNCHANGED <<config, read, job, busy, live, saveChannel>>
  BY DEF Main, Server, Serve, ConfigProbers, ConfigChannels, RunProbers, SetProbers,
         ScheduleSLA, Shutdown, Exit, results, main
<1>2. /\ stage \in Begun => stage' \in Begun /\ data' = data
      /\ stage \in {"running", "exiting"} =>
           stage' \in {"running", "exiting"} /\ reporters' = reporters
  BY DEF Main, Server, Serve, ConfigProbers, ConfigChannels, RunProbers, SetProbers,
         ScheduleSLA, Shutdown, Exit, results, main, Begun
<1>3. ReadersProper'
  <2>1. \A r \in Readers : Proper(r, read[r], stage, data, reporters, provider[r])
    BY DEF ReadersProper
  <2>2. \A r \in Readers : Proper(r, read[r], stage', data', reporters', provider[r])
    BY <1>2, <2>1, ProperStays
  <2> QED BY <1>1, <2>2 DEF ReadersProper, config, notifiersConfig
<1>4. UNCHANGED <<kind, label, provider, format, live, saveChannel>>
  BY <1>1 DEF config, probersConfig, notifiersConfig
<1>5. LabelsClash' <=> LabelsClash
  BY <1>4 DEF LabelsClash
<1>6. CASE ConfigProbers
  <2> DEFINE accepted == { p \in Probers : Accepts(kind[p], wrong[p]) }
  <2>1. /\ metrics' = [p \in Probers |-> NewMetrics(kind[p], MergeConstLabels(label))]
        /\ valid' = ValidProbers(accepted) /\ data' = [p \in Probers |-> NewResult]
        /\ stage' = "probers" /\ probers' = probers /\ stage = "listening"
    BY <1>6 DEF ConfigProbers
  <2>2. valid' \in Seq(Probers)
    <3> QED BY <2>1, ValidAre
  <2>3. /\ data' \in [Probers -> Results \cup {Nil}]
        /\ \A i \in 1 .. Len(valid') : data'[valid'[i]] # Nil
    BY <2>1, <2>2, ElementOfSeq, NilIsNone
  <2>4. \A p \in Probers : metrics'[p] = "nil" => LabelsClash
    BY <2>1, MetricsFail
  <2>5. ~ probers
    BY <2>1 DEF Provided, Begun
  <2> QED BY <1>3, <1>4, <1>5, <2>1, <2>2, <2>3, <2>4, <2>5 DEF Provided
<1>7. CASE RunProbers
  <2>1. /\ data' = CleanData /\ stage' = "probing" /\ stage = "channels"
        /\ UNCHANGED <<valid, metrics, probers>>
    BY <1>7 DEF RunProbers
  <2>2. /\ valid \in Seq(Probers) /\ data \in [Probers -> Results \cup {Nil}]
        /\ \A i \in 1 .. Len(valid) : data[valid[i]] # Nil /\ ~ probers
    BY <2>1 DEF Provided, Begun
  <2>3. \A i \in 1 .. Len(valid) : valid[i] \in Probers /\ valid[i] \in Range(valid)
    BY <2>2, ElementOfSeq, LenProperties DEF Range
  <2>4. /\ data' \in [Probers -> Results \cup {Nil}]
        /\ \A i \in 1 .. Len(valid) : data'[valid[i]] # Nil
    BY <2>1, <2>2, <2>3 DEF CleanData
  <2>5. ~ probers
    BY <2>1 DEF Provided, Begun
  <2> QED BY <1>3, <1>4, <1>5, <2>1, <2>4, <2>5 DEF Provided
<1>8. CASE Server \/ ConfigChannels \/ SetProbers \/ ScheduleSLA \/ Serve \/ Shutdown \/ Exit
  <2>1. /\ UNCHANGED <<valid, metrics, data>>
        /\ \/ probers' = probers \/ stage' \in Begun
        /\ \/ stage = "init" /\ stage' = "listening"
           \/ stage = "probers" /\ stage' = "channels"
           \/ stage = "probing" /\ stage' = "shown"
           \/ stage = "shown" /\ stage' = "running"
           \/ stage = "running" /\ stage' = "exiting"
           \/ stage' = stage
    BY <1>8 DEF Server, ConfigChannels, SetProbers, ScheduleSLA, Serve, Shutdown, Exit,
       results, main, Begun
  <2> QED BY <1>3, <1>4, <1>5, <2>1 DEF Provided, Begun
<1> QED BY <1>6, <1>7, <1>8 DEF Main

\* The probers' rounds, and the posting of a report.
LEMMA RoundFound ==
  ASSUME Found,
         \/ \E p \in Probers : RoundBegins(p) \/ RoundEnds(p) \/ SendResult(p)
         \/ \E n \in Notifiers : Compose(n) \/ Post(n)
  PROVE  Found'
<1> USE DEF Found
<1>1. UNCHANGED <<config, main, read, data>>
  BY DEF RoundBegins, RoundEnds, SendResult, Compose, Post, results
<1>2. UNCHANGED <<kind, label, provider, format, stage, valid, metrics, probers,
                  reporters>>
  BY <1>1 DEF config, probersConfig, notifiersConfig, main
<1>3. ReadersProper'
  BY <1>1, <1>2 DEF ReadersProper
<1>4. live' \in [Probers -> Results]
  <2>1. ASSUME NEW p \in Probers, RoundEnds(p) PROVE live' \in [Probers -> Results]
    <3>1. PICK up \in BOOLEAN :
            live' = [live EXCEPT ![p] = [round |-> @.round + 1, up |-> up]]
      BY <2>1 DEF RoundEnds
    <3> QED BY <3>1 DEF Provided, Results
  <2>2. CASE live' = live
    BY <2>2 DEF Provided
  <2> QED BY <2>1, <2>2 DEF RoundBegins, SendResult, Compose, Post, results
<1>5. saveChannel' \in Seq(Message)
  <2>1. ASSUME NEW p \in Probers, SendResult(p) PROVE saveChannel' \in Seq(Message)
    <3>1. [prober |-> p, result |-> live[p]] \in Message
      BY DEF Provided, Message
    <3> QED BY <2>1, <3>1, AppendProperties DEF SendResult, Provided
  <2>2. CASE saveChannel' = saveChannel
    BY <2>2 DEF Provided
  <2> QED BY <2>1, <2>2 DEF RoundBegins, RoundEnds, Compose, Post, results
<1>6. LabelsClash' <=> LabelsClash
  BY <1>2 DEF LabelsClash
<1> QED BY <1>1, <1>2, <1>3, <1>4, <1>5, <1>6 DEF Provided

\* Only readers, and how the process ends, change.
LEMMA ReadFound ==
  ASSUME Found, UNCHANGED <<config, main, results>>, ReadersProper'
  PROVE  Found'
<1>1. UNCHANGED <<kind, label, provider, format, stage, valid, metrics, probers,
                  reporters, live, saveChannel, data>>
  BY DEF config, probersConfig, notifiersConfig, main, results
<1>2. LabelsClash' <=> LabelsClash
  BY <1>1 DEF LabelsClash
<1> QED BY <1>1, <1>2 DEF Found, Provided

LEMMA OneProper ==
  ASSUME ReadersProper, NEW r \in Readers, NEW m,
         Proper(r, m, stage, data, reporters, provider[r]),
         read' = [read EXCEPT ![r] = m],
         UNCHANGED <<stage, data, reporters, provider>>
  PROVE  ReadersProper'
BY DEF ReadersProper

LEMMA SaveFound ==
  ASSUME Found, SaveResult PROVE Found'
<1> DEFINE res == Head(saveChannel)
           saved(r) == IF read[r].at \in {"select", "render"}
                       THEN read[r].saved \cup {res.prober} ELSE read[r].saved
<1> USE DEF Found
<1>1. /\ UNCHANGED <<config, main, live>> /\ saveChannel # <<>>
      /\ data' = [data EXCEPT ![res.prober] = res.result]
      /\ saveChannel' = Tail(saveChannel)
      /\ read' = [r \in Readers |-> [read[r] EXCEPT !.saved = saved(r)]]
  BY DEF SaveResult
<1>2. UNCHANGED <<kind, label, provider, format, stage, valid, metrics, probers,
                  reporters>>
  BY <1>1 DEF config, probersConfig, notifiersConfig, main
<1>3. /\ saveChannel \in Seq(Message) /\ data \in [Probers -> Results \cup {Nil}]
      /\ valid \in Seq(Probers)
  BY DEF Provided
<1>4. res \in Message /\ saveChannel' \in Seq(Message)
  BY <1>1, <1>3, HeadTailProperties
<1>5. res.prober \in Probers /\ res.result \in Results /\ res.result # Nil
  BY <1>4, NilIsNone DEF Message
<1> HIDE DEF res, saved
<1>6. /\ data' \in [Probers -> Results \cup {Nil}]
      /\ \A p \in Probers : data[p] # Nil => data'[p] # Nil
  BY <1>1, <1>3, <1>5
<1>7. ReadersProper'
  <2>1. ASSUME NEW r \in Readers
        PROVE  Proper(r, [read[r] EXCEPT !.saved = saved(r)], stage, data', reporters, provider[r])
    <3>1. Proper(r, read[r], stage, data, reporters, provider[r])
      BY DEF ReadersProper
    <3>2. Proper(r, read[r], stage, data', reporters, provider[r])
      BY <1>6, <3>1, ProperStays
    <3> QED BY <3>2 DEF Proper, Shaped
  <2>2. \A r \in Readers : Proper(r, read'[r], stage, data', reporters, provider[r])
    BY <1>1, <2>1
  <2> QED BY <1>1, <1>2, <2>2 DEF ReadersProper
<1>8. LabelsClash' <=> LabelsClash
  BY <1>2 DEF LabelsClash
<1>9. \A i \in 1 .. Len(valid) : valid[i] \in Probers
  BY <1>3, ElementOfSeq
<1> QED BY <1>1, <1>2, <1>4, <1>6, <1>7, <1>8, <1>9 DEF Provided

LEMMA IdleShape ==
  Idle = [at |-> Idle.at, plan |-> Idle.plan, filter |-> Idle.filter,
          next |-> Idle.next, cnt |-> Idle.cnt, picked |-> Idle.picked,
          rows |-> Idle.rows, began |-> Idle.began, saved |-> Idle.saved]
BY DEF Idle

\* The record that a reader begins with.
LEMMA BeginsIs ==
  ASSUME NEW plan, NEW f, NEW picked
  PROVE  Begins(plan, f, picked) =
           [at |-> IF plan = "filter" THEN "select" ELSE "render", plan |-> plan,
            filter |-> f, next |-> 1, cnt |-> 0, picked |-> picked, rows |-> <<>>,
            began |-> data, saved |-> {}]
<1> DEFINE at == IF plan = "filter" THEN "select" ELSE "render"
           c == [Idle EXCEPT !.at = at]
           e == [c EXCEPT !.plan = plan]
           g == [e EXCEPT !.filter = f]
<1>1. Begins(plan, f, picked) = [g EXCEPT !.picked = picked, !.began = data]
  BY DEF Begins
<1> HIDE DEF at
<1>2. c = [at |-> at, plan |-> Idle.plan, filter |-> Idle.filter, next |-> Idle.next,
           cnt |-> Idle.cnt, picked |-> Idle.picked, rows |-> Idle.rows,
           began |-> Idle.began, saved |-> Idle.saved]
  BY IdleShape
<1> HIDE DEF c
<1>3. e = [at |-> at, plan |-> plan, filter |-> Idle.filter, next |-> Idle.next,
           cnt |-> Idle.cnt, picked |-> Idle.picked, rows |-> Idle.rows,
           began |-> Idle.began, saved |-> Idle.saved]
  BY <1>2
<1> HIDE DEF e
<1>4. g = [at |-> at, plan |-> plan, filter |-> f, next |-> Idle.next,
           cnt |-> Idle.cnt, picked |-> Idle.picked, rows |-> Idle.rows,
           began |-> Idle.began, saved |-> Idle.saved]
  BY <1>3
<1> HIDE DEF g
<1>5. Idle.next = 1 /\ Idle.cnt = 0
  BY DEF Idle
<1>6. Idle.rows = <<>> /\ Idle.saved = {}
  BY DEF Idle
<1> DEFINE h == [g EXCEPT !.picked = picked]
<1>7. h = [at |-> at, plan |-> plan, filter |-> f, next |-> Idle.next,
           cnt |-> Idle.cnt, picked |-> picked, rows |-> Idle.rows,
           began |-> Idle.began, saved |-> Idle.saved]
  BY <1>4
<1>8. Begins(plan, f, picked) = [h EXCEPT !.began = data]
  BY <1>1
<1> HIDE DEF h
<1>9. Begins(plan, f, picked) =
        [at |-> at, plan |-> plan, filter |-> f, next |-> Idle.next,
         cnt |-> Idle.cnt, picked |-> picked, rows |-> Idle.rows,
         began |-> data, saved |-> Idle.saved]
  BY <1>7, <1>8
<1> QED BY <1>5, <1>6, <1>9, Zenon DEF at

\* What a reader begins with.
LEMMA BeginsProper ==
  ASSUME NEW r, NEW st, NEW d, NEW rep, NEW v, NEW plan, NEW f,
         NEW picked \in Seq(Probers),
         \A i \in 1 .. Len(picked) : d[picked[i]] # Nil,
         IF r = Web THEN st \in Begun /\ plan = "filter"
         ELSE st \in {"running", "exiting"} /\ r \in rep /\ (plan = "live" => v = "discord")
  PROVE  Proper(r, Begins(plan, f, picked), st, d, rep, v)
<1>1. PICK m : m = Begins(plan, f, picked)
  OBVIOUS
<1>2. m = [at |-> IF plan = "filter" THEN "select" ELSE "render", plan |-> plan,
           filter |-> f, next |-> 1, cnt |-> 0, picked |-> picked, rows |-> <<>>,
           began |-> data, saved |-> {}]
  BY <1>1, BeginsIs
<1>3. Shaped(m) /\ m.next = 1 /\ m.picked = picked /\ m.plan = plan
  BY <1>2 DEF Shaped
<1> QED BY <1>1, <1>3 DEF Proper

LEMMA RequestFound ==
  ASSUME Found, NEW f, Request(f)
  PROVE  Found' /\ (read'[Web].at = "failed" => ~ probers)
<1> Web \in Readers
  BY DEF Readers
<1> DEFINE m == IF ~ Check(f) THEN [Idle EXCEPT !.at = "refused", !.filter = f]
                ELSE IF probers THEN Begins("filter", f, <<>>)
                ELSE [Idle EXCEPT !.at = "failed", !.filter = f]
<1>1. /\ UNCHANGED <<config, main, results>> /\ read' = [read EXCEPT ![Web] = m]
  BY DEF Request
<1>2. Proper(Web, m, stage, data, reporters, provider[Web])
  <2>1. CASE Check(f) /\ probers
    <3>1. stage \in Begun
      BY <2>1 DEF Found, Provided
    <3>2. <<>> \in Seq(Probers) /\ \A i \in 1 .. Len(<<>>) : data[<<>>[i]] # Nil
      OBVIOUS
    <3>3. Proper(Web, Begins("filter", f, <<>>), stage, data, reporters, provider[Web])
      BY <3>1, <3>2, BeginsProper
    <3> QED BY <2>1, <3>3
  <2>2. CASE ~ (Check(f) /\ probers)
    BY <2>2 DEF Proper, Shaped, Idle
  <2> QED BY <2>1, <2>2
<1>3. m.at = "failed" => ~ probers
  BY DEF Begins, Idle
<1> HIDE DEF m
<1>4. Found'
  <2>1. UNCHANGED <<stage, data, reporters, provider>>
    BY <1>1 DEF main, results, config, notifiersConfig
  <2>2. ReadersProper'
    BY <1>1, <1>2, <2>1, OneProper DEF Found
  <2> QED BY <1>1, <2>2, ReadFound
<1>5. read'[Web] = m
  BY <1>1 DEF Found, ReadersProper
<1> QED BY <1>3, <1>4, <1>5

\* Steps that no panic comes of, and that leave the page as it is but for
\* where it reads.
Harmless ==
  /\ end' # "panic"
  /\ read'[Web].at = "failed" => read[Web].at = "failed"

LEMMA SelectFound ==
  ASSUME Found, NEW r \in Readers, Select(r)
  PROVE  Found' /\ Harmless
<1> DEFINE me == read[r]
           p  == valid[me.next]
           matches == Matches(me.filter, data[p])
           cnt == IF matches THEN me.cnt + 1 ELSE me.cnt
           taken == matches /\ InPage(me.filter, me.cnt)
           picked == IF taken THEN Append(me.picked, p) ELSE me.picked
           v == provider[r]
<1> USE DEF Found
<1>1. /\ Proper(r, me, stage, data, reporters, v) /\ me.at = "select" /\ end = "none"
      /\ UNCHANGED <<config, main, results>>
  BY DEF Select, ReadersProper, Running
<1>2. UNCHANGED <<stage, data, reporters, provider>>
  BY <1>1 DEF main, results, config, notifiersConfig
<1>3. /\ me.next \in Nat \ {0} /\ stage \in Begun /\ me.picked \in Seq(Probers)
      /\ \A i \in 1 .. Len(me.picked) : data[me.picked[i]] # Nil
  BY <1>1 DEF Proper, Begun
<1>4. valid \in Seq(Probers) /\ \A i \in 1 .. Len(valid) : data[valid[i]] # Nil
  BY <1>3 DEF Provided
<1>5. CASE me.next > Len(valid)
  <2> DEFINE m == [me EXCEPT !.at = "render", !.next = 1]
  <2>1. read' = [read EXCEPT ![r] = m] /\ end' = end
    BY <1>5 DEF Select
  <2>2. Proper(r, m, stage, data, reporters, v) /\ m.at = "render"
    <3> HIDE DEF me, v
    <3>1. m = [at |-> "render", plan |-> me.plan, filter |-> me.filter, next |-> 1,
               cnt |-> me.cnt, picked |-> me.picked, rows |-> me.rows,
               began |-> me.began, saved |-> me.saved]
      BY <1>1, ShapedSteps DEF Proper
    <3> HIDE DEF m
    <3> QED BY <1>1, <3>1 DEF Proper, Shaped
  <2> HIDE DEF m
  <2>3. Found'
    BY <1>1, <1>2, <2>1, <2>2, OneProper, ReadFound
  <2>4. read'[Web].at = "failed" => read[Web].at = "failed"
    BY <2>1, <2>2 DEF ReadersProper, Readers
  <2> QED BY <1>1, <2>1, <2>3, <2>4 DEF Harmless
<1>6. CASE ~ (me.next > Len(valid))
  <2> DEFINE m == [me EXCEPT !.next = me.next + 1, !.cnt = cnt, !.picked = picked]
  <2>1. p \in Probers /\ data[p] # Nil
    <3>1. Len(valid) \in Nat
      BY <1>4, LenProperties
    <3>2. me.next \in 1 .. Len(valid)
      BY <1>3, <1>6, <3>1
    <3> HIDE DEF me
    <3> QED BY <1>4, <3>2, ElementOfSeq
  <2>2. read' = [read EXCEPT ![r] = m] /\ end' = end
    BY <1>6, <2>1 DEF Select
  <2>3. picked \in Seq(Probers) /\ \A i \in 1 .. Len(picked) : data[picked[i]] # Nil
    <3> HIDE DEF me, p, matches, taken
    <3>1. CASE taken
      <4>1. /\ Append(me.picked, p) \in Seq(Probers) /\ Len(me.picked) \in Nat
            /\ Len(Append(me.picked, p)) = Len(me.picked) + 1
            /\ \A i \in 1 .. Len(me.picked) : Append(me.picked, p)[i] = me.picked[i]
            /\ Append(me.picked, p)[Len(me.picked) + 1] = p
        BY <1>3, <2>1, AppendProperties, LenProperties
      <4>2. picked = Append(me.picked, p)
        BY <3>1
      <4> HIDE DEF picked
      <4> QED BY <1>3, <2>1, <4>1, <4>2
    <3>2. CASE ~ taken
      BY <1>3, <3>2
    <3> QED BY <3>1, <3>2
  <2>4. Proper(r, m, stage, data, reporters, v) /\ m.at = "select"
    <3> HIDE DEF me, v, cnt, picked
    <3>1. m = [at |-> me.at, plan |-> me.plan, filter |-> me.filter, next |-> me.next + 1,
               cnt |-> cnt, picked |-> picked, rows |-> me.rows, began |-> me.began,
               saved |-> me.saved]
      <4> DEFINE m1 == [me EXCEPT !.next = me.next + 1]
                 m2 == [m1 EXCEPT !.cnt = cnt]
      <4>1. me = [at |-> me.at, plan |-> me.plan, filter |-> me.filter,
                  next |-> me.next, cnt |-> me.cnt, picked |-> me.picked,
                  rows |-> me.rows, began |-> me.began, saved |-> me.saved]
        BY <1>1 DEF Proper, Shaped
      <4>2. m1 = [at |-> me.at, plan |-> me.plan, filter |-> me.filter,
                  next |-> me.next + 1, cnt |-> me.cnt, picked |-> me.picked,
                  rows |-> me.rows, began |-> me.began, saved |-> me.saved]
        BY <4>1
      <4>3. m = [m2 EXCEPT !.picked = picked]
        BY Zenon
      <4> HIDE DEF m1, m
      <4>4. m2 = [at |-> me.at, plan |-> me.plan, filter |-> me.filter,
                  next |-> me.next + 1, cnt |-> cnt, picked |-> me.picked,
                  rows |-> me.rows, began |-> me.began, saved |-> me.saved]
        BY <4>2
      <4> HIDE DEF m2
      <4> QED BY <4>3, <4>4
    <3>2. me.next + 1 \in Nat \ {0}
      BY <1>3
    <3> HIDE DEF m
    <3> QED BY <1>1, <2>3, <3>1, <3>2 DEF Proper, Shaped
  <2> HIDE DEF m
  <2>5. Found'
    BY <1>1, <1>2, <2>2, <2>4, OneProper, ReadFound
  <2>6. read'[Web].at = "failed" => read[Web].at = "failed"
    BY <2>2, <2>4 DEF ReadersProper, Readers
  <2> QED BY <1>1, <2>2, <2>5, <2>6 DEF Harmless
<1> QED BY <1>5, <1>6

\* The map of a prober whose round is on is read for a report to Discord.
ReadInRound ==
  \E n \in reporters, p \in Probers :
    provider[n] = "discord" /\ read[n].at = "render" /\ busy[p] = "round"

LEMMA RenderFound ==
  ASSUME Found, NEW r \in Readers, Render(r)
  PROVE  Found' /\ (Harmless \/ (ReadInRound /\ UNCHANGED read))
<1> DEFINE me == read[r]
           p  == me.picked[me.next]
           v == provider[r]
           Row(result) == read' = [read EXCEPT ![r].next = @ + 1,
                             ![r].rows = Append(@, [prober |-> p, result |-> result])]
<1> USE DEF Found
<1>1. /\ Proper(r, me, stage, data, reporters, v) /\ me.at = "render" /\ end = "none"
      /\ UNCHANGED <<config, main, results>>
  BY DEF Render, ReadersProper, Running
<1>2. UNCHANGED <<stage, data, reporters, provider>>
  BY <1>1 DEF main, results, config, notifiersConfig
<1>3. /\ me.next \in Nat \ {0} /\ me.picked \in Seq(Probers)
      /\ \A i \in 1 .. Len(me.picked) : data[me.picked[i]] # Nil
      /\ r = Web => me.plan = "filter"
      /\ r # Web => r \in reporters /\ (me.plan = "live" => v = "discord")
  BY <1>1 DEF Proper
<1>4. CASE me.next > Len(me.picked)
  <2> DEFINE m == [me EXCEPT !.at = "done"]
  <2>1. read' = [read EXCEPT ![r] = m] /\ end' = end
    BY <1>4 DEF Render
  <2>2. Proper(r, m, stage, data, reporters, v) /\ m.at = "done"
    <3> HIDE DEF me, v
    <3> QED BY <1>1 DEF Proper, Shaped
  <2> HIDE DEF m
  <2>3. Found'
    BY <1>1, <1>2, <2>1, <2>2, OneProper, ReadFound
  <2>4. read'[Web].at = "failed" => read[Web].at = "failed"
    BY <2>1, <2>2 DEF ReadersProper, Readers
  <2> QED BY <1>1, <2>1, <2>3, <2>4 DEF Harmless
<1>5. CASE ~ (me.next > Len(me.picked))
  <2>1. p \in Probers /\ data[p] # Nil
    <3>1. Len(me.picked) \in Nat
      BY <1>3, LenProperties
    <3>2. me.next \in 1 .. Len(me.picked)
      BY <1>3, <1>5, <3>1
    <3> HIDE DEF me
    <3> QED BY <1>3, <3>2, ElementOfSeq
  <2>2. \/ (\E result : Row(result)) /\ end' = end
        \/ me.plan = "live" /\ busy[p] = "round" /\ Panics(r)
    BY <1>5, <2>1 DEF Render
  <2>3. CASE (\E result : Row(result)) /\ end' = end
    <3>1. PICK result : Row(result)
      BY <2>3
    <3> DEFINE rows == Append(me.rows, [prober |-> p, result |-> result])
               m == [me EXCEPT !.next = me.next + 1, !.rows = rows]
    <3>2. read' = [read EXCEPT ![r] = m]
      BY <3>1 DEF ReadersProper
    <3>3. Proper(r, m, stage, data, reporters, v) /\ m.at = "render"
      <4> HIDE DEF me, v, rows
      <4>1. m = [at |-> me.at, plan |-> me.plan, filter |-> me.filter, next |-> me.next + 1,
                 cnt |-> me.cnt, picked |-> me.picked, rows |-> rows, began |-> me.began,
                 saved |-> me.saved]
        BY <1>1, ShapedSteps DEF Proper
      <4>2. me.next + 1 \in Nat \ {0}
        BY <1>3
      <4> HIDE DEF m
      <4> QED BY <1>1, <4>1, <4>2 DEF Proper, Shaped
    <3> HIDE DEF m
    <3>4. Found'
      BY <1>1, <1>2, <3>2, <3>3, OneProper, ReadFound
    <3>5. read'[Web].at = "failed" => read[Web].at = "failed"
      BY <3>2, <3>3 DEF ReadersProper, Readers
    <3> QED BY <1>1, <2>3, <3>4, <3>5 DEF Harmless
  <2>4. CASE me.plan = "live" /\ busy[p] = "round" /\ Panics(r)
    <3>1. r # Web
      BY <1>3, <2>4
    <3>2. UNCHANGED read
      BY <2>4, <3>1 DEF Panics
    <3>3. ReadInRound
      BY <1>1, <1>3, <2>1, <2>4, <3>1 DEF ReadInRound
    <3>4. ReadersProper'
      BY <1>2, <3>2 DEF ReadersProper
    <3> QED BY <1>1, <3>2, <3>3, <3>4, ReadFound
  <2> QED BY <2>2, <2>3, <2>4
<1> QED BY <1>4, <1>5

\* Only the format of Discord has no functions, and only AWS can be given it.
LEMMA FormatsKnown ==
  ASSUME Provided, NEW n \in Notifiers, provider[n] # "discord", FormatOf(n) \notin FormatFuncs
  PROVE  provider[n] = "aws" /\ format[n] = "discord"
<1>1. provider[n] \in Providers /\ format[n] \in FormatFuncs \cup {"discord"}
  BY ServiceAssumption DEF Provided, ServiceAssumption
<1>2. provider[n] = "aws"
  BY <1>1 DEF Providers, FormatOf, Format, FormatFuncs, SMS
<1>3. FormatOf(n) = format[n]
  BY <1>2 DEF FormatOf, Format, SMS
<1> QED BY <1>1, <1>2, <1>3

LEMMA NotifyFound ==
  ASSUME Found, NEW n \in Notifiers, NotifyStat(n)
  PROVE  /\ Found'
         /\ end' = "panic" => n \in reporters /\ provider[n] = "aws" /\ format[n] = "discord"
         /\ read'[Web] = read[Web]
<1> USE DEF Found
<1>1. /\ n \in Readers /\ n # Web /\ n \in reporters /\ end = "none"
      /\ stage \in {"running", "exiting"} /\ UNCHANGED <<config, main, results>>
  BY WebAssumption DEF NotifyStat, Readers, Running
<1>2. UNCHANGED <<stage, data, reporters, provider>>
  BY <1>1 DEF main, results, config, notifiersConfig
<1>3. CASE provider[n] # "discord" /\ FormatOf(n) \notin FormatFuncs
  <2>1. UNCHANGED read
    BY <1>3 DEF NotifyStat
  <2>2. ReadersProper'
    BY <1>2, <2>1 DEF ReadersProper
  <2> QED BY <1>1, <1>3, <2>1, <2>2, FormatsKnown, ReadFound
<1>4. CASE ~ (provider[n] # "discord" /\ FormatOf(n) \notin FormatFuncs)
  <2> DEFINE m == Begins(Plan(n), NewEmptyFilter, Picked(n))
  <2>1. read' = [read EXCEPT ![n] = m] /\ end' = end
    BY <1>4 DEF NotifyStat
  <2>2. valid \in Seq(Probers) /\ \A i \in 1 .. Len(valid) : data[valid[i]] # Nil
    BY <1>1 DEF Provided, Begun
  <2>3. /\ Picked(n) \in Seq(Probers)
        /\ \A i \in 1 .. Len(Picked(n)) : data[Picked(n)[i]] # Nil
    <3>1. CASE Picked(n) = <<>>
      BY <3>1
    <3>2. CASE Picked(n) = valid
      BY <2>2, <3>2
    <3>3. CASE Picked(n) = valid \o valid
      <4>1. /\ valid \o valid \in Seq(Probers) /\ Len(valid) \in Nat
            /\ Len(valid \o valid) = Len(valid) + Len(valid)
            /\ \A i \in 1 .. Len(valid) + Len(valid) :
                 (valid \o valid)[i] = IF i <= Len(valid) THEN valid[i]
                                       ELSE valid[i - Len(valid)]
        BY <2>2, ConcatProperties, LenProperties
      <4>2. \A i \in 1 .. Len(valid) + Len(valid) : data[(valid \o valid)[i]] # Nil
        <5> TAKE i \in 1 .. Len(valid) + Len(valid)
        <5>1. CASE i <= Len(valid)
          BY <2>2, <4>1, <5>1
        <5>2. CASE ~ (i <= Len(valid))
          <6>1. i - Len(valid) \in 1 .. Len(valid)
            BY <4>1, <5>2
          <6> QED BY <2>2, <4>1, <5>2, <6>1
        <5> QED BY <5>1, <5>2
      <4> QED BY <3>3, <4>1, <4>2
    <3> QED BY <3>1, <3>2, <3>3 DEF Picked
  <2>4. Plan(n) = "live" => provider[n] = "discord"
    BY DEF Plan
  <2>5. Proper(n, m, stage, data, reporters, provider[n])
    BY <1>1, <2>3, <2>4, BeginsProper
  <2> HIDE DEF m
  <2>6. Found'
    BY <1>1, <1>2, <2>1, <2>5, OneProper, ReadFound
  <2>7. read'[Web] = read[Web]
    BY <1>1, <2>1 DEF ReadersProper, Readers
  <2> QED BY <1>1, <2>1, <2>6, <2>7
<1> QED BY <1>3, <1>4

\* What PanicsForKnownReason says of a step.
Known ==
  /\ end' = "panic" =>
       \/ LabelsClash
       \/ \E n \in reporters : provider[n] = "aws" /\ format[n] = "discord"
       \/ \E n \in reporters, p \in Probers :
            provider[n] = "discord" /\ read[n].at = "render" /\ busy[p] = "round"
  /\ read'[Web].at = "failed" /\ read[Web].at # "failed" => ~ probers

LEMMA MainKnown ==
  ASSUME Found, Main \/ Serve \/ Shutdown \/ Exit
  PROVE  Known
<1>1. UNCHANGED read
  BY DEF Main, Server, Serve, ConfigProbers, ConfigChannels, RunProbers, SetProbers,
         ScheduleSLA, Shutdown, Exit
<1>2. CASE ConfigProbers
  <2> DEFINE made == [p \in Probers |-> NewMetrics(kind[p], MergeConstLabels(label))]
             good == ValidProbers({ p \in Probers : Accepts(kind[p], wrong[p]) })
  <2>1. end' = IF "panic" \in Range(made) THEN "panic"
               ELSE IF good = <<>> THEN "fatal" ELSE "none"
    BY <1>2 DEF ConfigProbers
  <2> HIDE DEF good
  <2>2. ASSUME "panic" \in Range(made) PROVE LabelsClash
    <3>1. PICK p \in Probers : NewMetrics(kind[p], MergeConstLabels(label)) = "panic"
      BY <2>2 DEF Range
    <3> QED BY <3>1, MetricsFail DEF Found
  <2> HIDE DEF made
  <2> QED BY <1>1, <2>1, <2>2 DEF Known
<1>3. CASE ~ ConfigProbers
  <2>1. end' # "panic"
    BY <1>3 DEF Main, Server, Serve, ConfigChannels, RunProbers, SetProbers, ScheduleSLA,
           Shutdown, Exit, Running
  <2> QED BY <1>1, <2>1 DEF Known
<1> QED BY <1>2, <1>3

LEMMA KnownStep == Found /\ [Next]_vars => Found' /\ [Known]_vars
<1> SUFFICES ASSUME Found, [Next]_vars PROVE Found' /\ [Known]_vars
  OBVIOUS
<1>1. CASE Main \/ Serve \/ Shutdown \/ Exit
  BY <1>1, MainFound, MainKnown
<1>2. CASE \/ \E p \in Probers : RoundBegins(p) \/ RoundEnds(p) \/ SendResult(p)
           \/ \E n \in Notifiers : Compose(n) \/ Post(n)
  <2>1. UNCHANGED read
    BY <1>2 DEF RoundBegins, RoundEnds, SendResult, Compose, Post
  <2>2. end' = "panic" => \E p \in Probers : metrics[p] = "nil"
    BY <1>2 DEF RoundBegins, RoundEnds, SendResult, Compose, Post, Running
  <2> QED BY <1>2, <2>1, <2>2, RoundFound DEF Known, Found, Provided
<1>3. CASE SaveResult
  <2>1. end' # "panic" /\ Web \in Readers
    BY <1>3 DEF SaveResult, Running, Readers
  <2>2. ASSUME NEW s PROVE [read[Web] EXCEPT !.saved = s].at = read[Web].at
    BY <2>1 DEF Found, ReadersProper, Proper, Shaped
  <2>3. read'[Web].at = read[Web].at
    BY <1>3, <2>1, <2>2 DEF SaveResult
  <2> QED BY <1>3, <2>1, <2>3, SaveFound DEF Known
<1>4. ASSUME NEW f \in Requests, Request(f) PROVE Found' /\ Known
  BY <1>4, RequestFound DEF Request, Running, Known
<1>5. ASSUME NEW r \in Readers, Select(r) PROVE Found' /\ Known
  BY <1>5, SelectFound DEF Harmless, Known
<1>6. ASSUME NEW r \in Readers, Render(r) PROVE Found' /\ Known
  BY <1>6, RenderFound DEF Harmless, ReadInRound, Known
<1>7. ASSUME NEW n \in Notifiers, NotifyStat(n) PROVE Found' /\ Known
  BY <1>7, NotifyFound DEF Known
<1>8. CASE UNCHANGED vars
  <2>1. ReadersProper'
    BY <1>8 DEF Found, ReadersProper, vars, config, notifiersConfig, main, results
  <2> QED BY <1>8, <2>1, ReadFound DEF vars
<1> QED BY <1>1, <1>2, <1>3, <1>4, <1>5, <1>6, <1>7, <1>8 DEF Next

\* The process panics for a label that clashes, for a format of SNS that has
\* no functions, or for a report to Discord that reads a map a round writes,
\* and for no other reason; a page fails before the probers are set and never
\* after (NewGauge, FormatFuncs, NewEmbeds, SetProbers).
THEOREM PanicsKnown == Spec => PanicsForKnownReason
<1>1. Init => Found
  BY InitFound
<1>2. Found /\ [Next]_vars => Found' /\ [Known]_vars
  BY KnownStep
<1> QED BY <1>1, <1>2, PTL DEF Spec, PanicsForKnownReason, Known

-----------------------------------------------------------------------------
(***************************************************************************)
(* What a reader has read: what it began with and what has been saved      *)
(* since, its rows, and for a page the matches that it has counted.        *)
(***************************************************************************)
Reads(m) == m.at \in {"select", "render", "done"}

\* The reader remembers the results it began with, and the probers whose
\* results were saved since.
Recalls(m, d) ==
  /\ m.began \in [Probers -> Results \cup {Nil}] /\ m.saved \subseteq Probers
  /\ m.at # "done" =>
       \A p \in Probers :
         m.began[p].round <= d[p].round /\ (p \notin m.saved => d[p] = m.began[p])

RowTold(m, row) ==
  /\ m.began[row.prober].round <= row.result.round
  /\ m.plan # "live" /\ row.prober \notin m.saved => row.result = m.began[row.prober]

RowsTold(m) ==
  m.rows \in Seq(Message) /\ \A i \in 1 .. Len(m.rows) : RowTold(m, m.rows[i])

\* The rows are those of what was picked, so far in its order.
InOrder(m) ==
  /\ m.picked \in Seq(Probers) /\ m.next \in Nat \ {0}
  /\ m.at = "select" => m.rows = <<>>
  /\ m.at = "render" => m.next = Len(m.rows) + 1 /\ m.next <= Len(m.picked) + 1
  /\ m.at = "done" => Len(m.rows) = Len(m.picked)
  /\ \A i \in 1 .. Len(m.rows) : m.rows[i].prober = m.picked[i]

\* The matches among the first k probers, and those of the page, by what the
\* reader began with.
Hits(f, b, v, k) == { j \in 1 .. k : Matches(f, b[v[j]]) }
Page(f, b, v) ==
  { i \in 1 .. Len(v) :
      Matches(f, b[v[i]]) /\ Cardinality(Hits(f, b, v, i - 1)) \div f.size + 1 = f.page }

\* After k probers, while nothing has been saved.
Numbered(f, b, v, k, cnt, picked) ==
  cnt = Cardinality(Hits(f, b, v, k)) /\ picked = Chosen(v, Page(f, b, v))[k]

\* After k probers, for the filter that all of them match.
FirstPage(v, k, cnt, picked) ==
  cnt = k /\ picked = SubSeq(v, 1, Min({DefaultPageSize, k}))

Reached(m, v) == IF m.at = "select" THEN m.next - 1 ELSE Len(v)

Filters(f, b, v, k, cnt, picked, saved) ==
  /\ f.page \in Nat \ {0} /\ f.size \in Nat \ {0} /\ cnt \in Nat
  /\ k \in 0 .. Len(v)
  /\ Fits(f) => (picked = <<>> <=> cnt <= Start(f))
  /\ \A i \in 1 .. Len(picked) : picked[i] \notin saved => Matches(f, b[picked[i]])
  /\ Fits(f) /\ saved = {} => Numbered(f, b, v, k, cnt, picked)
  /\ f = NewEmptyFilter => FirstPage(v, k, cnt, picked)

Faithful(m, d, v) ==
  Reads(m) =>
    /\ Recalls(m, d) /\ RowsTold(m) /\ InOrder(m)
    /\ m.plan = "filter" =>
         Filters(m.filter, m.began, v, Reached(m, v), m.cnt, m.picked, m.saved)
    /\ m.at = "select" => m.plan = "filter"

\* The smaller of two numbers.
LEMMA Smaller ==
  ASSUME NEW a \in Int, NEW b \in Int
  PROVE  Min({a, b}) = IF a <= b THEN a ELSE b
<1>1. CASE a <= b
  <2>1. \A x \in {a, b} : (\A y \in {a, b} : x =< y) => x = a
    BY <1>1
  <2> QED BY <1>1, <2>1 DEF Min
<1>2. CASE ~ (a <= b)
  <2>1. \A x \in {a, b} : (\A y \in {a, b} : x =< y) => x = b
    BY <1>2
  <2>2. b =< a
    BY <1>2
  <2> QED BY <1>2, <2>1, <2>2 DEF Min
<1> QED BY <1>1, <1>2

\* Before the first prober nothing matches and nothing is picked.
LEMMA NothingYet ==
  ASSUME NEW f, f.page \in Nat \ {0}, f.size \in Nat \ {0}, NEW b,
         NEW v \in Seq(Probers)
  PROVE  Filters(f, b, v, 0, 0, <<>>, {})
<1>1. Len(v) \in Nat
  BY LenProperties
<1>2. Fits(f) => 0 <= Start(f)
  <2>1. PICK x, y : x = f.page /\ y = f.size
    OBVIOUS
  <2>2. x \in Nat \ {0} /\ y \in Nat \ {0}
    BY <2>1
  <2>3. x - 1 \in Nat
    BY <2>2
  <2>4. (x - 1) * y \in Nat
    BY <2>2, <2>3
  <2> QED BY <2>1, <2>4, PageInInt
<1>3. Numbered(f, b, v, 0, 0, <<>>)
  <2>1. Hits(f, b, v, 0) = {}
    BY DEF Hits
  <2>2. Chooses(v, Page(f, b, v), Chosen(v, Page(f, b, v)))
    BY <1>1, ChosenIs
  <2> QED BY <2>1, <2>2, FS_EmptySet DEF Numbered, Chooses
<1>4. FirstPage(v, 0, 0, <<>>)
  <2>1. DefaultPageSize \in Nat \ {0}
    BY PageSizeAssumption
  <2>2. Min({DefaultPageSize, 0}) = 0
    BY <2>1, Smaller
  <2>3. SubSeq(v, 1, 0) = <<>>
    BY SubSeqEmpty
  <2> QED BY <2>2, <2>3 DEF FirstPage
<1> QED BY <1>1, <1>2, <1>3, <1>4 DEF Filters

\* What a filter makes of a prober that matches, or does not.
Counted(f, x, cnt) == IF Matches(f, x) THEN cnt + 1 ELSE cnt
Gathered(f, x, cnt, picked, p) ==
  IF Matches(f, x) /\ InPage(f, cnt) THEN Append(picked, p) ELSE picked

\* The matches among the first k probers can be counted.
LEMMA HitsFinite ==
  ASSUME NEW f, NEW b, NEW v, NEW k \in Nat
  PROVE  IsFiniteSet(Hits(f, b, v, k)) /\ Cardinality(Hits(f, b, v, k)) \in Nat
<1>1. IsFiniteSet(1 .. k)
  BY FS_Interval
<1>2. Hits(f, b, v, k) \in SUBSET (1 .. k)
  BY DEF Hits
<1>3. IsFiniteSet(Hits(f, b, v, k))
  BY <1>1, <1>2, FS_Subset
<1> QED BY <1>3, FS_CardinalityType

\* While nothing has been saved, the count is the number of the matches, and
\* those picked are the ones whose numbers are of the page.
LEMMA NumberedOn ==
  ASSUME NEW f, f.page \in Nat \ {0}, f.size \in Nat \ {0}, Fits(f), NEW b,
         NEW v, Len(v) \in Nat, NEW k \in Nat, NEW n \in 1 .. Len(v), n = k + 1,
         NEW cnt, NEW picked, Numbered(f, b, v, k, cnt, picked)
  PROVE  Numbered(f, b, v, n, Counted(f, b[v[n]], cnt), Gathered(f, b[v[n]], cnt, picked, v[n]))
<1> DEFINE hit == Matches(f, b[v[n]])
           P == Page(f, b, v)
           h == Hits(f, b, v, k)
<1>1. cnt = Cardinality(h) /\ picked = Chosen(v, P)[k]
  BY DEF Numbered
<1>2. IsFiniteSet(h) /\ cnt \in Nat
  BY <1>1, HitsFinite
<1>3. n \notin h /\ n - 1 = k
  BY DEF Hits
<1>4. Hits(f, b, v, n) = IF hit THEN h \cup {n} ELSE h
  <2>1. \A j : j \in 1 .. n <=> j \in 1 .. k \/ j = n
    OBVIOUS
  <2> QED BY <2>1 DEF Hits
<1>5. Cardinality(Hits(f, b, v, n)) = Counted(f, b[v[n]], cnt)
  <2>1. Cardinality(h \cup {n}) = Cardinality(h) + 1
    BY <1>2, <1>3, FS_AddElement
  <2> HIDE DEF h
  <2> QED BY <1>1, <1>4, <2>1 DEF Counted
<1>6. n \in P <=> hit /\ InPage(f, cnt)
  <2>1. n \in P <=> hit /\ cnt \div f.size + 1 = f.page
    BY <1>1, <1>3 DEF Page
  <2>2. InPage(f, cnt) <=> cnt \div f.size + 1 = f.page
    BY <1>2, PagesNumbered
  <2> QED BY <2>1, <2>2
<1>7. Chosen(v, P)[n] = IF n \in P THEN Append(picked, v[n]) ELSE picked
  <2>1. Chooses(v, P, Chosen(v, P))
    BY ChosenIs
  <2> HIDE DEF P
  <2> QED BY <1>1, <1>3, <2>1 DEF Chooses
<1>8. Chosen(v, P)[n] = Gathered(f, b[v[n]], cnt, picked, v[n])
  <2> HIDE DEF P
  <2> QED BY <1>6, <1>7 DEF Gathered
<1> QED BY <1>5, <1>8 DEF Numbered

\* Everything matches the empty filter, and its page is the first.
LEMMA FirstPageOn ==
  ASSUME NEW v \in Seq(Probers), NEW k \in Nat, NEW n \in 1 .. Len(v), n = k + 1,
         NEW cnt, NEW picked, FirstPage(v, k, cnt, picked), NEW x
  PROVE  FirstPage(v, n, Counted(NewEmptyFilter, x, cnt),
                   Gathered(NewEmptyFilter, x, cnt, picked, v[n]))
<1> DEFINE f == NewEmptyFilter
           size == DefaultPageSize
<1>1. size \in Nat \ {0} /\ Len(v) \in Nat
  BY PageSizeAssumption, LenProperties
<1>2. Matches(f, x)
  BY DEF Matches, NewEmptyFilter, Filter
<1>3. f.page = 1 /\ f.size = size
  BY DEF NewEmptyFilter, Filter
<1>4. cnt = k /\ picked = SubSeq(v, 1, Min({size, k}))
  BY DEF FirstPage
<1>5. Start(f) = 0 /\ End(f) = size - 1
  <2>1. (1 - 1) * size = 0 /\ 1 * size = size
    BY <1>1
  <2>2. Fits(f)
    BY <1>1, <1>3, <2>1, PageSizeAssumption DEF Fits
  <2> QED BY <1>1, <1>3, <2>1, <2>2, PageInInt
<1> HIDE DEF f, size
<1>6. InPage(f, cnt) <=> k < size
  BY <1>1, <1>4, <1>5 DEF InPage
<1>7. Counted(f, x, cnt) = n
  BY <1>2, <1>4 DEF Counted
<1>8. Gathered(f, x, cnt, picked, v[n]) = IF k < size THEN Append(picked, v[n]) ELSE picked
  BY <1>2, <1>6 DEF Gathered
<1>9. CASE k < size
  <2>1. Min({size, k}) = k /\ Min({size, n}) = n
    BY <1>1, <1>9, Smaller
  <2>2. SubSeq(v, 1, n) = SubSeq(v, 1, n - 1) \o <<v[n]>>
    <3>1. 1 \in 1 .. Len(v) /\ n \in 1 .. Len(v)
      BY <1>1
    <3> QED BY <3>1, SubSeqRecursiveSecond
  <2>3. SubSeq(v, 1, k) \in Seq(Probers)
    <3>1. \A i \in 1 .. k : v[i] \in Probers
      BY <1>1, ElementOfSeq
    <3> QED BY <3>1, SubSeqProperties
  <2>4. v[n] \in Probers
    BY ElementOfSeq
  <2>5. Append(SubSeq(v, 1, k), v[n]) = SubSeq(v, 1, k) \o <<v[n]>>
    BY <2>3, <2>4, AppendIsConcat
  <2>6. n - 1 = k
    OBVIOUS
  <2> QED BY <1>4, <1>7, <1>8, <1>9, <2>1, <2>2, <2>5, <2>6 DEF FirstPage, f, size
<1>10. CASE ~ (k < size)
  <2>1. Min({size, k}) = size /\ Min({size, n}) = size
    BY <1>1, <1>10, Smaller
  <2> QED BY <1>4, <1>7, <1>8, <1>10, <2>1 DEF FirstPage, f, size
<1> QED BY <1>9, <1>10

\* The matches before the page fill the pages before it.
LEMMA PageBounds ==
  ASSUME NEW f, f.page \in Nat \ {0}, f.size \in Nat \ {0}, Fits(f)
  PROVE  Start(f) \in Nat /\ End(f) \in Nat /\ Start(f) <= End(f)
<1>1. PICK q, y : q = f.page - 1 /\ y = f.size
  OBVIOUS
<1>2. q \in Nat /\ y \in Nat \ {0} /\ f.page = q + 1
  BY <1>1
<1>3. q * y \in Nat /\ (q + 1) * y = q * y + y
  BY <1>2
<1>4. Start(f) = q * y
  BY <1>1, PageInInt
<1>5. End(f) = (q + 1) * y - 1
  BY <1>1, <1>2, PageInInt
<1> QED BY <1>2, <1>3, <1>4, <1>5

\* The next prober of the loop is counted and picked as the numbering has it.
LEMMA FiltersOn ==
  ASSUME NEW v \in Seq(Probers), NEW k \in Nat, NEW n \in 1 .. Len(v), n = k + 1,
         NEW f, NEW b, NEW cnt, NEW picked \in Seq(Probers), NEW saved,
         Filters(f, b, v, k, cnt, picked, saved),
         NEW x, v[n] \notin saved => x = b[v[n]]
  PROVE  Filters(f, b, v, n, Counted(f, x, cnt), Gathered(f, x, cnt, picked, v[n]), saved)
<1> DEFINE p == v[n]
           c == Counted(f, x, cnt)
           t == Gathered(f, x, cnt, picked, v[n])
<1>1. f.page \in Nat \ {0} /\ f.size \in Nat \ {0} /\ cnt \in Nat /\ Len(v) \in Nat
  BY LenProperties DEF Filters
<1>2. p \in Probers /\ Len(picked) \in Nat
  BY ElementOfSeq, LenProperties
<1>3. c \in Nat /\ cnt <= c /\ (Matches(f, x) => c = cnt + 1) /\ (~ Matches(f, x) => c = cnt)
  BY <1>1 DEF Counted
<1>4. t = picked \/ (t = Append(picked, p) /\ Matches(f, x) /\ InPage(f, cnt))
  BY DEF Gathered
<1>5. Fits(f) => Start(f) \in Nat /\ End(f) \in Nat /\ Start(f) <= End(f)
  BY <1>1, PageBounds
<1>6. ASSUME Fits(f) PROVE t = <<>> <=> c <= Start(f)
  <2>1. picked = <<>> <=> cnt <= Start(f)
    BY <1>6 DEF Filters
  <2>2. CASE Matches(f, x) /\ InPage(f, cnt)
    <3>1. t = Append(picked, p)
      BY <2>2 DEF Gathered
    <3>2. t # <<>>
      BY <1>2, <3>1, AppendProperties
    <3>3. ~ (c <= Start(f))
      BY <1>1, <1>3, <1>5, <1>6, <2>2 DEF InPage
    <3> QED BY <3>2, <3>3
  <2>3. CASE ~ (Matches(f, x) /\ InPage(f, cnt))
    <3>1. t = picked
      BY <2>3 DEF Gathered
    <3>2. CASE Matches(f, x)
      <4>1. cnt < Start(f) \/ cnt > End(f)
        BY <1>1, <1>5, <1>6, <2>3, <3>2 DEF InPage
      <4> HIDE DEF c, t
      <4> QED BY <1>1, <1>3, <1>5, <1>6, <2>1, <3>1, <3>2, <4>1
    <3>3. CASE ~ Matches(f, x)
      BY <1>3, <2>1, <3>1, <3>3
    <3> QED BY <3>2, <3>3
  <2> QED BY <2>2, <2>3
<1>7. \A i \in 1 .. Len(t) : t[i] \notin saved => Matches(f, b[t[i]])
  <2>1. \A i \in 1 .. Len(picked) : picked[i] \notin saved => Matches(f, b[picked[i]])
    BY DEF Filters
  <2>2. CASE t = picked
    <3> HIDE DEF t
    <3> QED BY <2>1, <2>2
  <2>3. CASE t = Append(picked, p) /\ Matches(f, x)
    <3>1. /\ Len(t) = Len(picked) + 1 /\ t[Len(picked) + 1] = p
          /\ \A i \in 1 .. Len(picked) : t[i] = picked[i]
      BY <1>2, <2>3, AppendProperties
    <3>2. p \notin saved => Matches(f, b[p])
      BY <2>3
    <3> HIDE DEF t, p
    <3>3. ASSUME NEW i \in 1 .. Len(t), t[i] \notin saved PROVE Matches(f, b[t[i]])
      <4>1. CASE i = Len(picked) + 1
        BY <3>1, <3>2, <3>3, <4>1
      <4>2. CASE i # Len(picked) + 1
        <5>1. i \in 1 .. Len(picked)
          BY <1>2, <3>1, <4>2
        <5> QED BY <2>1, <3>1, <3>3, <5>1
      <4> QED BY <4>1, <4>2
    <3> QED BY <3>3
  <2> QED BY <1>4, <2>2, <2>3
<1>8. ASSUME Fits(f), saved = {} PROVE Numbered(f, b, v, n, c, t)
  <2>1. x = b[v[n]] /\ Numbered(f, b, v, k, cnt, picked)
    BY <1>8 DEF Filters
  <2> QED BY <1>1, <1>8, <2>1, NumberedOn
<1>9. ASSUME f = NewEmptyFilter PROVE FirstPage(v, n, c, t)
  <2>1. FirstPage(v, k, cnt, picked)
    BY <1>9 DEF Filters
  <2> QED BY <1>9, <2>1, FirstPageOn
<1>10. n \in 0 .. Len(v)
  BY <1>1
<1> HIDE DEF c, t
<1> QED BY <1>1, <1>3, <1>6, <1>7, <1>8, <1>9, <1>10 DEF Filters, c, t

\* A reader begins with the results of the moment.
LEMMA BeginsFaithful ==
  ASSUME NEW plan, NEW f, NEW picked \in Seq(Probers), valid \in Seq(Probers),
         data \in [Probers -> Results \cup {Nil}],
         plan = "filter" => f.page \in Nat \ {0} /\ f.size \in Nat \ {0} /\ picked = <<>>
  PROVE  Faithful(Begins(plan, f, picked), data, valid)
<1> DEFINE at == IF plan = "filter" THEN "select" ELSE "render"
           m == Begins(plan, f, picked)
<1>1. m = [at |-> at, plan |-> plan, filter |-> f, next |-> 1, cnt |-> 0,
           picked |-> picked, rows |-> <<>>, began |-> data, saved |-> {}]
  BY BeginsIs
<1>2. at \in {"select", "render"} /\ (at = "select" <=> plan = "filter")
  OBVIOUS
<1> HIDE DEF m, at
<1>3. Recalls(m, data)
  <2>1. \A p \in Probers : data[p].round <= data[p].round
    BY DEF Results, Nil
  <2> QED BY <1>1, <2>1 DEF Recalls
<1>4. RowsTold(m)
  BY <1>1, EmptySeq DEF RowsTold
<1>5. InOrder(m)
  BY <1>1, <1>2, EmptySeq, LenProperties DEF InOrder
<1>6. ASSUME m.plan = "filter"
      PROVE  Filters(m.filter, m.began, valid, Reached(m, valid), m.cnt, m.picked, m.saved)
  <2>1. Reached(m, valid) = 0
    BY <1>1, <1>2, <1>6 DEF Reached
  <2>2. Filters(f, data, valid, 0, 0, <<>>, {})
    BY <1>1, <1>6, NothingYet
  <2> QED BY <1>1, <1>6, <2>1, <2>2
<1>7. m.at = "select" => m.plan = "filter"
  BY <1>1, <1>2
<1> QED BY <1>3, <1>4, <1>5, <1>6, <1>7 DEF Faithful, m

-----------------------------------------------------------------------------
\* The steps of a reader.
LEMMA SelectFaithfulness ==
  ASSUME NEW v \in Seq(Probers), NEW d, NEW m, Shaped(m), Faithful(m, d, v), m.at = "select",
         ~ (m.next > Len(v)),
         NEW m2, NEW p, p = v[m.next],
         m2 = [at |-> m.at, plan |-> m.plan, filter |-> m.filter, next |-> m.next + 1,
               cnt |-> Counted(m.filter, d[p], m.cnt),
               picked |-> Gathered(m.filter, d[p], m.cnt, m.picked, p), rows |-> m.rows,
               began |-> m.began, saved |-> m.saved]
  PROVE  Faithful(m2, d, v)
<1>1. /\ Recalls(m, d) /\ RowsTold(m) /\ InOrder(m) /\ m.plan = "filter"
      /\ Filters(m.filter, m.began, v, Reached(m, v), m.cnt, m.picked, m.saved)
  BY DEF Faithful, Reads
<1>2. /\ m.next \in Nat \ {0} /\ m.picked \in Seq(Probers) /\ m.rows = <<>>
      /\ Len(v) \in Nat
  BY <1>1, LenProperties DEF InOrder
<1>3. PICK k, n : k = m.next - 1 /\ n = m.next
  OBVIOUS
<1>4. k \in Nat /\ n \in 1 .. Len(v) /\ n = k + 1 /\ p = v[n] /\ p \in Probers
  <2>1. k \in Nat /\ n \in 1 .. Len(v) /\ n = k + 1
    BY <1>2, <1>3
  <2> QED BY <1>3, <2>1, ElementOfSeq
<1>5. Reached(m, v) = k
  BY <1>3 DEF Reached
<1> DEFINE f == m.filter
           c == Counted(f, d[p], m.cnt)
           t == Gathered(f, d[p], m.cnt, m.picked, p)
<1>6. v[n] \notin m.saved => d[p] = m.began[v[n]]
  BY <1>1, <1>4 DEF Recalls
<1>7. Filters(f, m.began, v, n, c, t, m.saved)
  BY <1>1, <1>2, <1>4, <1>5, <1>6, FiltersOn
<1>8. t \in Seq(Probers)
  <2>1. Append(m.picked, p) \in Seq(Probers)
    BY <1>2, <1>4, AppendProperties
  <2> QED BY <1>2, <2>1 DEF Gathered
<1> HIDE DEF c, t
<1>9. /\ m2.at = "select" /\ m2.plan = "filter" /\ m2.filter = m.filter
      /\ m2.next = n + 1 /\ m2.cnt = c /\ m2.picked = t /\ m2.rows = <<>>
      /\ m2.began = m.began /\ m2.saved = m.saved
  BY <1>1, <1>2, <1>3 DEF c, t
<1>10. Reached(m2, v) = n
  BY <1>4, <1>9 DEF Reached
<1>11. Recalls(m2, d)
  BY <1>1, <1>9 DEF Recalls
<1>12. RowsTold(m2)
  <2>1. <<>> \in Seq(Message) /\ Len(<<>>) = 0
    BY EmptySeq
  <2>2. m2.rows \in Seq(Message) /\ Len(m2.rows) = 0
    BY <1>9, <2>1
  <2> QED BY <2>2 DEF RowsTold
<1>13. InOrder(m2)
  BY <1>4, <1>8, <1>9 DEF InOrder
<1> QED BY <1>7, <1>9, <1>10, <1>11, <1>12, <1>13 DEF Faithful

\* The loop of Filter is at its end, and the rows begin.
LEMMA SelectedFaithful ==
  ASSUME NEW v \in Seq(Probers), NEW d, NEW m, Shaped(m), Faithful(m, d, v), m.at = "select",
         m.next > Len(v),
         NEW m2,
         m2 = [at |-> "render", plan |-> m.plan, filter |-> m.filter, next |-> 1,
               cnt |-> m.cnt, picked |-> m.picked, rows |-> m.rows,
               began |-> m.began, saved |-> m.saved]
  PROVE  Faithful(m2, d, v)
<1>1. /\ Recalls(m, d) /\ RowsTold(m) /\ InOrder(m) /\ m.plan = "filter"
      /\ Filters(m.filter, m.began, v, Reached(m, v), m.cnt, m.picked, m.saved)
  BY DEF Faithful, Reads
<1>2. /\ m.next \in Nat \ {0} /\ m.picked \in Seq(Probers) /\ m.rows = <<>>
      /\ Len(v) \in Nat /\ Len(m.picked) \in Nat
  BY <1>1, LenProperties DEF InOrder
<1>3. Reached(m, v) = m.next - 1 /\ Reached(m, v) \in 0 .. Len(v)
  BY <1>1 DEF Reached, Filters
<1>4. Reached(m, v) = Len(v)
  BY <1>2, <1>3
<1>5. /\ m2.at = "render" /\ m2.plan = "filter" /\ m2.filter = m.filter
      /\ m2.next = 1 /\ m2.cnt = m.cnt /\ m2.picked = m.picked /\ m2.rows = <<>>
      /\ m2.began = m.began /\ m2.saved = m.saved
  BY <1>1, <1>2
<1>6. Reached(m2, v) = Len(v)
  BY <1>5 DEF Reached
<1>7. Recalls(m2, d)
  BY <1>1, <1>5 DEF Recalls
<1>8. RowsTold(m2)
  <2>1. <<>> \in Seq(Message) /\ Len(<<>>) = 0
    BY EmptySeq
  <2>2. m2.rows \in Seq(Message) /\ Len(m2.rows) = 0
    BY <1>5, <2>1
  <2> QED BY <2>2 DEF RowsTold
<1>9. InOrder(m2)
  BY <1>2, <1>5 DEF InOrder
<1> QED BY <1>1, <1>4, <1>5, <1>6, <1>7, <1>8, <1>9 DEF Faithful

\* A row is added at the end.
LEMMA RenderFaithfulness ==
  ASSUME NEW v, NEW d, NEW m, Shaped(m), Faithful(m, d, v), m.at = "render",
         ~ (m.next > Len(m.picked)),
         NEW p, p = m.picked[m.next], NEW x \in Results, m.began[p].round <= x.round,
         m.plan # "live" /\ p \notin m.saved => x = m.began[p],
         NEW m2,
         m2 = [at |-> m.at, plan |-> m.plan, filter |-> m.filter, next |-> m.next + 1,
               cnt |-> m.cnt, picked |-> m.picked,
               rows |-> Append(m.rows, [prober |-> p, result |-> x]),
               began |-> m.began, saved |-> m.saved]
  PROVE  Faithful(m2, d, v)
<1>1. /\ Recalls(m, d) /\ RowsTold(m) /\ InOrder(m)
      /\ m.plan = "filter" =>
           Filters(m.filter, m.began, v, Reached(m, v), m.cnt, m.picked, m.saved)
  BY DEF Faithful, Reads
<1>2. PICK n, q : n = m.next /\ q = m.picked
  OBVIOUS
<1>3. /\ n \in Nat \ {0} /\ q \in Seq(Probers) /\ m.rows \in Seq(Message)
      /\ Len(q) \in Nat /\ Len(m.rows) \in Nat
      /\ n = Len(m.rows) + 1 /\ n <= Len(q) + 1
  BY <1>1, <1>2, LenProperties DEF InOrder, RowsTold
<1>4. n \in 1 .. Len(q)
  BY <1>2, <1>3
<1>5. p \in Probers /\ p = q[n]
  BY <1>2, <1>3, <1>4, ElementOfSeq
<1> DEFINE row  == [prober |-> p, result |-> x]
           rows == Append(m.rows, row)
<1>6. row \in Message /\ row.prober = p /\ row.result = x
  BY <1>5 DEF Message
<1> HIDE DEF row
<1>7. /\ rows \in Seq(Message) /\ Len(rows) = n /\ rows[n] = row
      /\ \A i \in 1 .. Len(m.rows) : rows[i] = m.rows[i]
  <2>1. /\ rows \in Seq(Message) /\ Len(rows) = Len(m.rows) + 1
        /\ rows[Len(m.rows) + 1] = row
        /\ \A i \in 1 .. Len(m.rows) : rows[i] = m.rows[i]
    BY <1>3, <1>6, AppendProperties
  <2> HIDE DEF rows
  <2> QED BY <1>3, <2>1
<1> HIDE DEF rows
<1>8. /\ m2.at = "render" /\ m2.plan = m.plan /\ m2.filter = m.filter
      /\ m2.next = n + 1 /\ m2.cnt = m.cnt /\ m2.picked = q /\ m2.rows = rows
      /\ m2.began = m.began /\ m2.saved = m.saved
  BY <1>2 DEF rows, row
<1>9. \A i \in 1 .. n : i = n \/ i \in 1 .. Len(m.rows)
  BY <1>3
<1>10. RowsTold(m2)
  <2>1. RowTold(m2, row)
    BY <1>6, <1>8 DEF RowTold
  <2>2. ASSUME NEW i \in 1 .. Len(m.rows) PROVE RowTold(m2, m.rows[i])
    <3>1. RowTold(m, m.rows[i])
      BY <1>1 DEF RowsTold
    <3> QED BY <1>8, <3>1 DEF RowTold
  <2> QED BY <1>7, <1>8, <1>9, <2>1, <2>2 DEF RowsTold
<1>11. InOrder(m2)
  <2>1. \A i \in 1 .. n : rows[i].prober = q[i]
    BY <1>1, <1>2, <1>5, <1>6, <1>7, <1>9 DEF InOrder
  <2> QED BY <1>3, <1>4, <1>7, <1>8, <2>1 DEF InOrder
<1>12. Recalls(m2, d)
  BY <1>1, <1>8 DEF Recalls
<1>13. m.plan = "filter" =>
         Filters(m2.filter, m2.began, v, Reached(m2, v), m2.cnt, m2.picked, m2.saved)
  BY <1>1, <1>2, <1>8 DEF Reached
<1> QED BY <1>8, <1>10, <1>11, <1>12, <1>13 DEF Faithful

\* The last row is there.
LEMMA RenderedFaithful ==
  ASSUME NEW v, NEW d, NEW m, Shaped(m), Faithful(m, d, v), m.at = "render",
         m.next > Len(m.picked)
  PROVE  Faithful([m EXCEPT !.at = "done"], d, v)
<1> DEFINE m2 == [m EXCEPT !.at = "done"]
<1>1. /\ Recalls(m, d) /\ RowsTold(m) /\ InOrder(m)
      /\ m.plan = "filter" =>
           Filters(m.filter, m.began, v, Reached(m, v), m.cnt, m.picked, m.saved)
  BY DEF Faithful, Reads
<1>2. /\ m2.at = "done" /\ m2.plan = m.plan /\ m2.filter = m.filter
      /\ m2.next = m.next /\ m2.cnt = m.cnt /\ m2.picked = m.picked /\ m2.rows = m.rows
      /\ m2.began = m.began /\ m2.saved = m.saved
  BY DEF Shaped
<1> HIDE DEF m2
<1>3. /\ m.next \in Nat \ {0} /\ Len(m.picked) \in Nat /\ Len(m.rows) \in Nat
      /\ m.next = Len(m.rows) + 1 /\ m.next <= Len(m.picked) + 1
  BY <1>1, LenProperties DEF InOrder, RowsTold
<1>4. Len(m.rows) = Len(m.picked)
  BY <1>3
<1>5. InOrder(m2)
  BY <1>1, <1>2, <1>4 DEF InOrder
<1>6. RowsTold(m2)
  BY <1>1, <1>2 DEF RowsTold, RowTold
<1>7. Recalls(m2, d)
  BY <1>1, <1>2 DEF Recalls
<1>8. Reached(m2, v) = Reached(m, v)
  BY <1>2 DEF Reached
<1> QED BY <1>1, <1>2, <1>5, <1>6, <1>7, <1>8 DEF Faithful, m2

\* The saver saves a result that is no older.
LEMMA SaveFaithfulness ==
  ASSUME NEW v, NEW d, NEW m, Shaped(m), Faithful(m, d, v),
         d \in [Probers -> Results \cup {Nil}],
         NEW q \in Probers, NEW x \in Results, d[q].round <= x.round,
         NEW s, s = IF m.at \in {"select", "render"} THEN m.saved \cup {q} ELSE m.saved
  PROVE  Faithful([m EXCEPT !.saved = s], [d EXCEPT ![q] = x], v)
<1> DEFINE m2 == [m EXCEPT !.saved = s]
           d2 == [d EXCEPT ![q] = x]
<1>1. /\ m2.at = m.at /\ m2.plan = m.plan /\ m2.filter = m.filter
      /\ m2.next = m.next /\ m2.cnt = m.cnt /\ m2.picked = m.picked /\ m2.rows = m.rows
      /\ m2.began = m.began /\ m2.saved = s
  BY DEF Shaped
<1> HIDE DEF m2
<1> SUFFICES ASSUME Reads(m) PROVE Faithful(m2, d2, v)
  BY <1>1 DEF Faithful, Reads, m2
<1>2. /\ Recalls(m, d) /\ RowsTold(m) /\ InOrder(m)
      /\ m.plan = "filter" =>
           Filters(m.filter, m.began, v, Reached(m, v), m.cnt, m.picked, m.saved)
      /\ m.at = "select" => m.plan = "filter"
  BY DEF Faithful
<1>3. /\ m.saved \subseteq s /\ s \subseteq Probers
      /\ m.at # "done" => s = m.saved \cup {q}
      /\ m.at = "done" => s = m.saved
  BY <1>2 DEF Recalls, Reads
<1>4. InOrder(m2)
  BY <1>1, <1>2 DEF InOrder
<1>5. RowsTold(m2)
  <2>1. ASSUME NEW row, RowTold(m, row) PROVE RowTold(m2, row)
    BY <1>1, <1>3, <2>1 DEF RowTold
  <2> QED BY <1>1, <1>2, <2>1 DEF RowsTold
<1>6. Recalls(m2, d2)
  <2>1. m.began \in [Probers -> Results \cup {Nil}]
    BY <1>2 DEF Recalls
  <2>2. ASSUME NEW p \in Probers, m.at # "done"
        PROVE  m.began[p].round <= d2[p].round /\ (p \notin s => d2[p] = m.began[p])
    <3>1. m.began[p].round <= d[p].round /\ (p \notin m.saved => d[p] = m.began[p])
      BY <1>2, <2>2 DEF Recalls
    <3>2. CASE p = q
      <4>1. d2[p] = x /\ p \in s
        BY <1>3, <2>2, <3>2
      <4>2. m.began[p].round \in Int /\ d[p].round \in Int /\ x.round \in Int
        BY <2>1 DEF Results, Nil
      <4> HIDE DEF d2
      <4> QED BY <3>1, <3>2, <4>1, <4>2
    <3>3. CASE p # q
      <4>1. d2[p] = d[p]
        BY <3>3
      <4> HIDE DEF d2
      <4> QED BY <1>3, <3>1, <4>1
    <3> QED BY <3>2, <3>3
  <2> HIDE DEF d2
  <2> QED BY <1>1, <1>3, <2>1, <2>2 DEF Recalls
<1>7. ASSUME m.plan = "filter"
      PROVE  Filters(m.filter, m.began, v, Reached(m, v), m.cnt, m.picked, s)
  <2>1. \A i \in 1 .. Len(m.picked) :
          m.picked[i] \notin s => Matches(m.filter, m.began[m.picked[i]])
    BY <1>2, <1>3, <1>7 DEF Filters
  <2>2. s = {} => m.saved = {}
    BY <1>3
  <2> QED BY <1>2, <1>7, <2>1, <2>2 DEF Filters
<1>8. Reached(m2, v) = Reached(m, v)
  BY <1>1 DEF Reached
<1> HIDE DEF d2
<1> QED BY <1>1, <1>2, <1>4, <1>5, <1>6, <1>7, <1>8 DEF Faithful

-----------------------------------------------------------------------------
(***************************************************************************)
(* What main has done, and the results on their way to the saver, which    *)
(* get no older.                                                           *)
(***************************************************************************)
Placed ==
  /\ stage \in {"init", "listening", "probers", "channels", "probing", "shown",
                "running", "exiting"}
  /\ end \in {"none", "panic", "fatal", "exit"}
  /\ server \in {"none", "listening", "serving", "closed"}
  /\ IsInjective(valid)
  /\ metrics \in [Probers -> {"none", "nil", "made", "panic"}]
  /\ joined \in [Channels -> SUBSET Notifiers] /\ reporters \subseteq Notifiers
  /\ busy \in [Probers -> {"idle", "round", "sends"}]
  /\ Len(saveChannel) <= Len(valid)
  /\ ~ Probed => saveChannel = <<>> /\ \A p \in Probers : busy[p] = "idle"
  /\ Running /\ stage \notin {"init", "listening"} => valid # <<>>

\* Before main has done anything.
LEMMA InitPlaced == Init => Placed
<1> SUFFICES ASSUME Init PROVE Placed
  OBVIOUS
<1>1. IsInjective(<<>>) /\ Len(<<>>) = 0
  BY DEF IsInjective
<1> QED BY <1>1 DEF Init, Placed

\* What main does.
LEMMA MainPlaced ==
  ASSUME Found, Placed, Main \/ Serve \/ Shutdown \/ Exit
  PROVE  Placed'
<1> USE DEF Running
<1>1. CASE ConfigProbers
  <2> DEFINE made == [p \in Probers |-> NewMetrics(kind[p], MergeConstLabels(label))]
             good == ValidProbers({ p \in Probers : Accepts(kind[p], wrong[p]) })
  <2>1. /\ metrics' = made /\ valid' = good /\ stage' = "probers" /\ end = "none"
        /\ stage = "listening"
        /\ end' = IF "panic" \in Range(made) THEN "panic"
                  ELSE IF good = <<>> THEN "fatal" ELSE "none"
        /\ UNCHANGED <<server, joined, reporters, busy, saveChannel>>
    BY <1>1 DEF ConfigProbers
  <2>2. made \in [Probers -> {"none", "nil", "made", "panic"}]
    BY DEF NewMetrics
  <2>3. IsInjective(good) /\ good \in Seq(Probers)
    BY ValidAre
  <2>4. saveChannel = <<>> /\ \A p \in Probers : busy[p] = "idle"
    BY <2>1 DEF Placed, Probed
  <2>5. Len(saveChannel) <= Len(good)
    <3>1. Len(<<>>) = 0 /\ Len(good) \in Nat
      BY <2>3, LenProperties
    <3> HIDE DEF good
    <3> QED BY <2>4, <3>1
  <2> HIDE DEF made, good
  <2> QED BY <2>1, <2>2, <2>3, <2>4, <2>5 DEF Placed
<1>2. CASE ConfigChannels
  <2>1. joined' \in [Channels -> SUBSET Notifiers]
    BY <1>2 DEF ConfigChannels, Notifiers, Range
  <2>2. /\ stage' = "channels" /\ stage = "probers"
        /\ UNCHANGED <<end, server, valid, metrics, reporters, busy, saveChannel>>
    BY <1>2 DEF ConfigChannels, results
  <2> QED BY <2>1, <2>2 DEF Placed, Probed
<1>3. CASE ScheduleSLA
  <2>1. reporters' \subseteq Notifiers
    BY <1>3 DEF ScheduleSLA, GetNotifiers
  <2>2. /\ stage' = "running" /\ stage = "shown"
        /\ UNCHANGED <<end, server, valid, metrics, joined, busy, saveChannel>>
    BY <1>3 DEF ScheduleSLA, results
  <2> QED BY <2>1, <2>2 DEF Placed, Probed
<1>4. CASE Server \/ RunProbers \/ SetProbers \/ Serve \/ Shutdown \/ Exit
  <2>1. UNCHANGED <<valid, metrics, joined, reporters, busy, saveChannel>>
    BY <1>4 DEF Server, RunProbers, SetProbers, Serve, Shutdown, Exit, main, results
  <2>2. /\ server' \in {server, "listening", "serving", "closed"}
        /\ end' \in {end, "exit"} /\ (end' = "none" => end = "none")
    BY <1>4 DEF Server, RunProbers, SetProbers, Serve, Shutdown, Exit, main, results
  <2>3. \/ stage = "init" /\ stage' = "listening"
        \/ stage = "channels" /\ stage' = "probing"
        \/ stage = "probing" /\ stage' = "shown"
        \/ stage = "running" /\ stage' = "exiting"
        \/ stage' = stage
    BY <1>4 DEF Server, RunProbers, SetProbers, Serve, Shutdown, Exit, main, results
  <2> QED BY <2>1, <2>2, <2>3 DEF Placed, Probed
<1> QED BY <1>1, <1>2, <1>3, <1>4 DEF Main

\* The probers, the saver, the readers and the reports leave main where it is.
LEMMA OtherPlaced ==
  ASSUME Found, Placed,
         \/ \E p \in Probers : RoundBegins(p) \/ RoundEnds(p) \/ SendResult(p)
         \/ SaveResult
         \/ \E f \in Requests : Request(f)
         \/ \E r \in Readers : Select(r) \/ Render(r)
         \/ \E n \in Notifiers : NotifyStat(n) \/ Compose(n) \/ Post(n)
  PROVE  Placed'
<1> USE DEF Running
<1>1. /\ UNCHANGED main /\ UNCHANGED server /\ end' \in {end, "panic"} /\ end = "none"
  BY DEF RoundBegins, RoundEnds, SendResult, SaveResult, Request, Select, Render, NotifyStat,
         Compose, Post, Panics
<1>2. UNCHANGED <<stage, valid, metrics, joined, reporters>>
  BY <1>1 DEF main
<1>3. saveChannel \in Seq(Message) /\ valid \in Seq(Probers) /\ Len(valid) \in Nat
      /\ Len(saveChannel) \in Nat
  BY LenProperties DEF Found, Provided
<1>4. /\ busy' \in [Probers -> {"idle", "round", "sends"}]
      /\ Len(saveChannel') <= Len(valid)
      /\ ~ Probed => saveChannel' = <<>> /\ \A p \in Probers : busy'[p] = "idle"
  <2>1. ASSUME NEW p \in Probers, RoundBegins(p) \/ RoundEnds(p)
        PROVE  <1>4!:
    <3>1. Probed /\ saveChannel' = saveChannel
      BY <2>1 DEF RoundBegins, RoundEnds, Placed
    <3>2. busy' \in [Probers -> {"idle", "round", "sends"}]
      BY <2>1 DEF RoundBegins, RoundEnds, Placed
    <3> QED BY <3>1, <3>2 DEF Placed
  <2>2. ASSUME NEW p \in Probers, SendResult(p)
        PROVE  <1>4!:
    <3>1. Probed
      BY <2>2 DEF SendResult, Placed
    <3>2. busy' \in [Probers -> {"idle", "round", "sends"}]
      BY <2>2 DEF SendResult, Placed
    <3>3. Len(saveChannel') <= Len(valid)
      <4>1. [prober |-> p, result |-> live[p]] \in Message
        BY DEF Message, Found, Provided
      <4>2. Len(saveChannel') = Len(saveChannel) + 1 /\ Len(saveChannel) < Len(valid)
        BY <1>3, <2>2, <4>1, AppendProperties DEF SendResult
      <4> QED BY <1>3, <4>2
    <3> QED BY <3>1, <3>2, <3>3
  <2>3. CASE SaveResult
    <3>1. Probed /\ busy' = busy
      BY <2>3 DEF SaveResult, Placed
    <3>2. Len(saveChannel') <= Len(valid)
      <4>1. Len(saveChannel') = Len(saveChannel) - 1
        BY <1>3, <2>3, HeadTailProperties DEF SaveResult
      <4> QED BY <1>3, <4>1 DEF Placed
    <3> QED BY <3>1, <3>2 DEF Placed
  <2>4. CASE \/ \E f \in Requests : Request(f)
             \/ \E r \in Readers : Select(r) \/ Render(r)
             \/ \E n \in Notifiers : NotifyStat(n) \/ Compose(n) \/ Post(n)
    <3>1. UNCHANGED results
      BY <2>4 DEF Request, Select, Render, NotifyStat, Compose, Post
    <3> QED BY <3>1 DEF results, Placed
  <2> QED BY <2>1, <2>2, <2>3, <2>4
<1> QED BY <1>1, <1>2, <1>4 DEF Placed, Probed

\* A result is saved in the order of its rounds: what is saved is no newer than
\* what is to be, and that no newer than the prober's own.
Ordered ==
  /\ \A p \in Probers : data[p].round <= live[p].round
  /\ \A i \in 1 .. Len(saveChannel) :
       /\ data[saveChannel[i].prober].round <= saveChannel[i].result.round
       /\ saveChannel[i].result.round <= live[saveChannel[i].prober].round
       /\ \A j \in 1 .. i :
            saveChannel[j].prober = saveChannel[i].prober =>
              saveChannel[j].result.round <= saveChannel[i].result.round

\* The rounds of results are numbers.
LEMMA RoundsAre ==
  /\ \A x \in Results : x.round \in Nat
  /\ Nil.round = -1 /\ NewResult.round = 0
  /\ \A x \in Results \cup {Nil} : x.round \in Int /\ -1 <= x.round
BY DEF Results, Nil, NewResult

\* No result is on its way at first.
LEMMA InitOrdered == Init => Ordered
<1> SUFFICES ASSUME Init PROVE Ordered
  OBVIOUS
<1>1. Len(saveChannel) = 0 /\ data = [p \in Probers |-> Nil] /\ live = [p \in Probers |-> NewResult]
  BY DEF Init
<1> QED BY <1>1, RoundsAre DEF Ordered

\* main resets and cleans the results while none is on its way.
LEMMA MainOrdered ==
  ASSUME Found, Placed, Ordered, Main \/ Serve \/ Shutdown \/ Exit
  PROVE  Ordered'
<1>0. live \in [Probers -> Results] /\ data \in [Probers -> Results \cup {Nil}]
  BY DEF Found, Provided
<1>1. UNCHANGED <<live, saveChannel>>
  BY DEF Main, Server, Serve, ConfigProbers, ConfigChannels, RunProbers, SetProbers,
         ScheduleSLA, Shutdown, Exit, results
<1>2. CASE UNCHANGED data
  BY <1>1, <1>2 DEF Ordered
<1>3. CASE ConfigProbers \/ RunProbers
  <2>1. saveChannel = <<>>
    BY <1>3 DEF ConfigProbers, RunProbers, Placed, Probed
  <2>2. \A p \in Probers : data'[p] \in {NewResult, Nil, data[p]}
    BY <1>3 DEF ConfigProbers, RunProbers, CleanData
  <2>3. \A p \in Probers : data'[p].round <= live[p].round
    <3>1. ASSUME NEW p \in Probers PROVE data'[p].round <= live[p].round
      <4>1. live[p].round \in Nat
        BY <1>0, RoundsAre
      <4>2. data[p].round <= live[p].round
        BY DEF Ordered
      <4> QED BY <2>2, <4>1, <4>2, RoundsAre
    <3> QED BY <3>1
  <2>4. Len(saveChannel') = 0
    BY <1>1, <2>1
  <2> QED BY <1>1, <2>3, <2>4 DEF Ordered
<1> QED BY <1>2, <1>3 DEF Main, Server, Serve, ConfigChannels, SetProbers,
         ScheduleSLA, Shutdown, Exit, results

\* A round makes a result newer than all that were sent.
LEMMA RoundOrdered ==
  ASSUME Found, Placed, Ordered, NEW q \in Probers,
         RoundBegins(q) \/ RoundEnds(q) \/ SendResult(q)
  PROVE  Ordered'
<1>0. /\ live \in [Probers -> Results] /\ data \in [Probers -> Results \cup {Nil}]
      /\ saveChannel \in Seq(Message) /\ Len(saveChannel) \in Nat
      /\ \A i \in 1 .. Len(saveChannel) :
           saveChannel[i].prober \in Probers /\ saveChannel[i].result \in Results
  <2>1. saveChannel \in Seq(Message)
    BY DEF Found, Provided
  <2>2. \A i \in 1 .. Len(saveChannel) : saveChannel[i] \in Message
    BY <2>1, ElementOfSeq
  <2> QED BY <2>1, <2>2, LenProperties DEF Found, Provided, Message
<1>1. CASE RoundBegins(q)
  BY <1>1 DEF RoundBegins, Ordered
<1>2. CASE RoundEnds(q)
  <2>1. PICK up \in BOOLEAN : live' = [live EXCEPT ![q] = [round |-> @.round + 1, up |-> up]]
    BY <1>2 DEF RoundEnds
  <2>2. UNCHANGED <<data, saveChannel>>
    BY <1>2 DEF RoundEnds
  <2>3. \A p \in Probers : live[p].round \in Nat /\ live'[p].round \in Nat
                           /\ live[p].round <= live'[p].round
    <3>1. ASSUME NEW p \in Probers
          PROVE  live[p].round \in Nat /\ live'[p].round \in Nat
                 /\ live[p].round <= live'[p].round
      <4>1. live[p].round \in Nat
        BY <1>0, RoundsAre
      <4>2. live'[p].round = IF p = q THEN live[p].round + 1 ELSE live[p].round
        BY <1>0, <2>1
      <4> QED BY <4>1, <4>2
    <3> QED BY <3>1
  <2>4. \A p \in Probers : data[p].round <= live'[p].round
    <3>1. ASSUME NEW p \in Probers PROVE data[p].round <= live'[p].round
      <4>1. data[p].round <= live[p].round /\ data[p].round \in Int
        BY <1>0, RoundsAre DEF Ordered
      <4> QED BY <2>3, <4>1
    <3> QED BY <3>1
  <2>5. \A i \in 1 .. Len(saveChannel) :
          saveChannel[i].result.round <= live'[saveChannel[i].prober].round
    <3>1. ASSUME NEW i \in 1 .. Len(saveChannel), NEW x, x = saveChannel[i].result.round,
                 NEW p, p = saveChannel[i].prober
          PROVE  x <= live'[p].round
      <4>1. x <= live[p].round /\ x \in Nat /\ p \in Probers
        BY <1>0, <3>1, RoundsAre DEF Ordered
      <4> QED BY <2>3, <4>1
    <3> QED BY <3>1
  <2> QED BY <2>2, <2>4, <2>5 DEF Ordered
<1>3. CASE SendResult(q)
  <2> DEFINE e == [prober |-> q, result |-> live[q]]
             n == Len(saveChannel) + 1
  <2>1. e \in Message
    BY <1>0 DEF Message
  <2>2. /\ Len(saveChannel') = n /\ saveChannel'[n] = e
        /\ \A i \in 1 .. Len(saveChannel) : saveChannel'[i] = saveChannel[i]
    BY <1>0, <1>3, <2>1, AppendProperties DEF SendResult
  <2>3. UNCHANGED <<data, live>>
    BY <1>3 DEF SendResult
  <2>4. e.prober = q /\ e.result = live[q]
    OBVIOUS
  <2> HIDE DEF e
  <2>5. ASSUME NEW i \in 1 .. n
        PROVE  /\ data[saveChannel'[i].prober].round <= saveChannel'[i].result.round
               /\ saveChannel'[i].result.round <= live[saveChannel'[i].prober].round
               /\ \A j \in 1 .. i :
                    saveChannel'[j].prober = saveChannel'[i].prober =>
                      saveChannel'[j].result.round <= saveChannel'[i].result.round
    <3>1. CASE i = n
      <4>1. data[q].round <= live[q].round /\ live[q].round \in Nat
        BY <1>0, RoundsAre DEF Ordered
      <4>2. ASSUME NEW j \in 1 .. n, saveChannel'[j].prober = q
            PROVE  saveChannel'[j].result.round <= live[q].round
        <5>1. CASE j = n
          BY <2>2, <2>4, <4>1, <5>1
        <5>2. CASE j # n
          <6>1. j \in 1 .. Len(saveChannel)
            BY <1>0, <5>2
          <6> QED BY <2>2, <4>2, <6>1 DEF Ordered
        <5> QED BY <5>1, <5>2
      <4>3. saveChannel'[i].prober = q /\ saveChannel'[i].result = live[q]
        BY <2>2, <2>4, <3>1
      <4> QED BY <3>1, <4>1, <4>2, <4>3
    <3>2. CASE i # n
      <4>1. i \in 1 .. Len(saveChannel) /\ \A j \in 1 .. i : j \in 1 .. Len(saveChannel)
        BY <1>0, <3>2
      <4> HIDE DEF n
      <4> QED BY <2>2, <4>1 DEF Ordered
    <3> QED BY <3>1, <3>2
  <2>6. \A p \in Probers : data[p].round <= live[p].round
    BY DEF Ordered
  <2> HIDE DEF n
  <2> QED BY <2>2, <2>3, <2>5, <2>6 DEF Ordered
<1> QED BY <1>1, <1>2, <1>3

\* What the saver takes is no older than what it has saved.
LEMMA HeadNewer ==
  ASSUME Found, Ordered, saveChannel # <<>>
  PROVE  LET res == Head(saveChannel) IN
         /\ res.prober \in Probers /\ res.result \in Results
         /\ data[res.prober].round <= res.result.round
<1>1. saveChannel \in Seq(Message)
  BY DEF Found, Provided
<1>2. Len(saveChannel) \in Nat \ {0} /\ Head(saveChannel) = saveChannel[1]
      /\ Head(saveChannel) \in Message
  BY <1>1, EmptySeq, HeadTailProperties
<1>3. 1 \in 1 .. Len(saveChannel)
  BY <1>2
<1> QED BY <1>2, <1>3 DEF Message, Ordered

\* The oldest on its way is saved first.
LEMMA SaveOrdered ==
  ASSUME Found, Ordered, SaveResult
  PROVE  Ordered'
<1>0. /\ live \in [Probers -> Results] /\ data \in [Probers -> Results \cup {Nil}]
      /\ saveChannel \in Seq(Message) /\ Len(saveChannel) \in Nat \ {0}
  BY EmptySeq DEF Found, Provided, SaveResult
<1>1. PICK res : res = Head(saveChannel)
  OBVIOUS
<1>2. /\ res = saveChannel[1] /\ Len(saveChannel') = Len(saveChannel) - 1
      /\ \A i \in 1 .. Len(saveChannel) - 1 : saveChannel'[i] = saveChannel[i + 1]
  BY <1>0, <1>1, HeadTailProperties DEF SaveResult
<1>3. /\ res.prober \in Probers /\ res.result \in Results
      /\ data' = [data EXCEPT ![res.prober] = res.result] /\ live' = live
  BY <1>1, HeadNewer DEF SaveResult
<1>4. \A p \in Probers : data'[p] = IF p = res.prober THEN res.result ELSE data[p]
  BY <1>0, <1>3
<1>5. 1 \in 1 .. Len(saveChannel)
  BY <1>0
<1>6. \A p \in Probers : data'[p].round <= live'[p].round
  BY <1>2, <1>3, <1>4, <1>5 DEF Ordered
<1>7. ASSUME NEW i \in 1 .. Len(saveChannel')
      PROVE  /\ data'[saveChannel'[i].prober].round <= saveChannel'[i].result.round
             /\ saveChannel'[i].result.round <= live'[saveChannel'[i].prober].round
             /\ \A j \in 1 .. i :
                  saveChannel'[j].prober = saveChannel'[i].prober =>
                    saveChannel'[j].result.round <= saveChannel'[i].result.round
  <2>1. PICK n : n = i + 1
    OBVIOUS
  <2>2. n \in 1 .. Len(saveChannel) /\ 1 \in 1 .. n /\ saveChannel'[i] = saveChannel[n]
    BY <1>0, <1>2, <2>1
  <2>3. saveChannel[n] \in Message
    BY <1>0, <2>2, ElementOfSeq
  <2>4. saveChannel[n].prober \in Probers
    BY <2>3 DEF Message
  <2>5. /\ data[saveChannel[n].prober].round <= saveChannel[n].result.round
        /\ saveChannel[n].result.round <= live[saveChannel[n].prober].round
        /\ \A j \in 1 .. n :
             saveChannel[j].prober = saveChannel[n].prober =>
               saveChannel[j].result.round <= saveChannel[n].result.round
    BY <2>2 DEF Ordered
  <2>6. data'[saveChannel[n].prober].round <= saveChannel[n].result.round
    BY <1>2, <1>4, <2>2, <2>4, <2>5
  <2>7. ASSUME NEW j \in 1 .. i, saveChannel'[j].prober = saveChannel[n].prober
        PROVE  saveChannel'[j].result.round <= saveChannel[n].result.round
    <3>1. PICK k : k = j + 1
      OBVIOUS
    <3>2. k \in 1 .. n /\ saveChannel'[j] = saveChannel[k]
      BY <1>0, <1>2, <2>1, <3>1
    <3> QED BY <2>5, <2>7, <3>2
  <2> QED BY <1>3, <2>2, <2>5, <2>6, <2>7
<1> QED BY <1>6, <1>7 DEF Ordered

-----------------------------------------------------------------------------
\* Where main is while a reader reads, and what a report begins with.
InPlace(r, m) ==
  /\ m.at \in {"idle", "refused", "failed", "select", "render", "done"}
  /\ Reads(m) =>
       /\ stage \in Begun
       /\ IF r = Web THEN m.plan = "filter"
          ELSE /\ stage \in {"running", "exiting"} /\ m.plan = Plan(r)
               /\ IF m.plan = "filter" THEN m.filter = NewEmptyFilter ELSE m.picked = Picked(r)

ReadersFaithful ==
  \A r \in Readers : Faithful(read[r], data, valid) /\ InPlace(r, read[r])

\* Nobody reads at first.
LEMMA InitFaithful == Init => ReadersFaithful
<1> SUFFICES ASSUME Init PROVE ReadersFaithful
  OBVIOUS
<1>1. ~ Reads(Idle) /\ Idle.at = "idle"
  BY DEF Reads, Idle
<1> QED BY <1>1 DEF Init, ReadersFaithful, Faithful, InPlace

\* The readers and what they rest on stay as they are.
LEMMA SameFaithful ==
  ASSUME ReadersFaithful, UNCHANGED <<read, data, valid, provider, format>>,
         stage \in Begun => stage' \in Begun,
         stage \in {"running", "exiting"} => stage' \in {"running", "exiting"}
  PROVE  ReadersFaithful'
<1>1. ASSUME NEW r \in Readers PROVE InPlace(r, read[r])'
  <2>1. InPlace(r, read[r])
    BY DEF ReadersFaithful
  <2>2. UNCHANGED <<Plan(r), Picked(r)>>
    BY DEF Plan, Picked, FormatOf
  <2> QED BY <2>1, <2>2 DEF InPlace
<1>2. ASSUME NEW r \in Readers PROVE Faithful(read[r], data, valid)'
  BY DEF ReadersFaithful
<1> QED BY <1>1, <1>2 DEF ReadersFaithful

\* Nothing is read before the probers are shown.
LEMMA MainFaithful ==
  ASSUME Found, ReadersFaithful, Main \/ Serve \/ Shutdown \/ Exit
  PROVE  ReadersFaithful'
<1>1. UNCHANGED <<read, provider, format>>
  BY DEF Main, Server, Serve, ConfigProbers, ConfigChannels, RunProbers, SetProbers,
         ScheduleSLA, Shutdown, Exit, config, notifiersConfig
<1>2. /\ stage \in Begun => stage' \in Begun /\ UNCHANGED <<data, valid>>
      /\ stage \in {"running", "exiting"} => stage' \in {"running", "exiting"}
  BY DEF Main, Server, Serve, ConfigProbers, ConfigChannels, RunProbers, SetProbers,
         ScheduleSLA, Shutdown, Exit, results, main, Begun
<1>3. CASE stage \in Begun
  BY <1>1, <1>2, <1>3, SameFaithful
<1>4. CASE stage \notin Begun
  <2>1. \A r \in Readers :
          /\ ~ Reads(read[r])
          /\ read[r].at \in {"idle", "refused", "failed", "select", "render", "done"}
    BY <1>4 DEF ReadersFaithful, InPlace
  <2>2. \A r \in Readers :
          /\ ~ Reads(read'[r])
          /\ read'[r].at \in {"idle", "refused", "failed", "select", "render", "done"}
    BY <1>1, <2>1
  <2> QED BY <2>2 DEF ReadersFaithful, Faithful, InPlace
<1> QED BY <1>3, <1>4

\* One reader takes a step.
LEMMA OneFaithful ==
  ASSUME ReadersFaithful, NEW r \in Readers, NEW m,
         read' = [read EXCEPT ![r] = m], read = [x \in Readers |-> read[x]],
         UNCHANGED <<config, main, results>>,
         Faithful(m, data, valid), InPlace(r, m)
  PROVE  ReadersFaithful'
<1>1. UNCHANGED <<stage, data, valid, provider, format>>
  BY DEF config, notifiersConfig, main, results
<1>2. ASSUME NEW x \in Readers PROVE Faithful(read'[x], data, valid) /\ InPlace(x, read'[x])
  BY DEF ReadersFaithful
<1>3. \A x \in Readers : UNCHANGED <<Plan(x), Picked(x)>>
  BY <1>1 DEF Plan, Picked, FormatOf
<1>4. ASSUME NEW x \in Readers PROVE InPlace(x, read[x])'
  BY <1>1, <1>2, <1>3 DEF InPlace
<1>5. ASSUME NEW x \in Readers PROVE Faithful(read[x], data, valid)'
  BY <1>1, <1>2
<1> QED BY <1>4, <1>5 DEF ReadersFaithful

\* A result is saved while others read.
LEMMA SaveFaithful ==
  ASSUME Found, Ordered, ReadersFaithful, SaveResult
  PROVE  ReadersFaithful'
<1>1. PICK res : res = Head(saveChannel)
  OBVIOUS
<1>2. /\ res.prober \in Probers /\ res.result \in Results
      /\ data[res.prober].round <= res.result.round
      /\ data' = [data EXCEPT ![res.prober] = res.result]
  BY <1>1, HeadNewer DEF SaveResult
<1>3. UNCHANGED <<stage, valid, provider, format>>
  BY DEF SaveResult, config, notifiersConfig, main
<1> DEFINE saved(r) == IF read[r].at \in {"select", "render"}
                       THEN read[r].saved \cup {res.prober} ELSE read[r].saved
<1>4. read' = [r \in Readers |-> [read[r] EXCEPT !.saved = saved(r)]]
  BY <1>1 DEF SaveResult
<1>5. data \in [Probers -> Results \cup {Nil}]
  BY DEF Found, Provided
<1>6. ASSUME NEW r \in Readers
      PROVE  Faithful(read'[r], data', valid) /\ InPlace(r, read'[r])
  <2>1. PICK m, s : m = read[r] /\ s = saved(r)
    OBVIOUS
  <2>2. Shaped(m) /\ Faithful(m, data, valid) /\ InPlace(r, m)
    BY <2>1 DEF Found, ReadersProper, Proper, ReadersFaithful
  <2>3. read'[r] = [m EXCEPT !.saved = s]
    BY <1>4, <2>1
  <2>4. s = IF m.at \in {"select", "render"} THEN m.saved \cup {res.prober} ELSE m.saved
    BY <2>1
  <2>5. Faithful([m EXCEPT !.saved = s], data', valid)
    BY <1>2, <1>5, <2>2, <2>4, SaveFaithfulness
  <2>6. InPlace(r, [m EXCEPT !.saved = s])
    <3> DEFINE m2 == [m EXCEPT !.saved = s]
    <3>1. m2.at = m.at /\ m2.plan = m.plan /\ m2.filter = m.filter /\ m2.picked = m.picked
      BY <2>2 DEF Shaped
    <3> HIDE DEF m2
    <3> QED BY <2>2, <3>1 DEF InPlace, Reads
  <2> QED BY <2>3, <2>5, <2>6
<1>7. \A x \in Readers : UNCHANGED <<Plan(x), Picked(x)>>
  BY <1>3 DEF Plan, Picked, FormatOf
<1>8. ASSUME NEW x \in Readers PROVE InPlace(x, read[x])'
  BY <1>3, <1>6, <1>7 DEF InPlace
<1>9. ASSUME NEW x \in Readers PROVE Faithful(read[x], data, valid)'
  BY <1>3, <1>6
<1> QED BY <1>8, <1>9 DEF ReadersFaithful

\* A request is refused, fails, or begins a page.
LEMMA RequestFaithful ==
  ASSUME Found, ReadersFaithful, NEW f \in Requests, Request(f)
  PROVE  ReadersFaithful'
<1> DEFINE m == IF ~ Check(f) THEN [Idle EXCEPT !.at = "refused", !.filter = f]
                ELSE IF probers THEN Begins("filter", f, <<>>)
                ELSE [Idle EXCEPT !.at = "failed", !.filter = f]
<1>1. /\ read' = [read EXCEPT ![Web] = m] /\ UNCHANGED <<config, main, results>>
      /\ Web \in Readers /\ read = [x \in Readers |-> read[x]]
  BY DEF Request, Readers, Found, ReadersProper
<1>2. Faithful(m, data, valid) /\ InPlace(Web, m)
  <2>1. CASE Check(f) /\ probers
    <3>1. f.page \in Nat \ {0} /\ f.size \in Nat \ {0}
      BY <2>1, ServiceAssumption DEF ServiceAssumption, Check
    <3>2. valid \in Seq(Probers) /\ data \in [Probers -> Results \cup {Nil}] /\ stage \in Begun
      BY <2>1 DEF Found, Provided
    <3>3. <<>> \in Seq(Probers)
      BY EmptySeq
    <3>4. Faithful(Begins("filter", f, <<>>), data, valid)
      BY <3>1, <3>2, <3>3, BeginsFaithful
    <3>5. Begins("filter", f, <<>>).plan = "filter" /\ Begins("filter", f, <<>>).at = "select"
      BY BeginsIs
    <3>6. m = Begins("filter", f, <<>>)
      BY <2>1
    <3> HIDE DEF m
    <3> QED BY <3>2, <3>4, <3>5, <3>6 DEF InPlace
  <2>2. CASE ~ (Check(f) /\ probers)
    <3>1. m.at \in {"refused", "failed"}
      BY <2>2 DEF Idle
    <3> HIDE DEF m
    <3> QED BY <3>1 DEF Faithful, InPlace, Reads
  <2> QED BY <2>1, <2>2
<1> HIDE DEF m
<1> QED BY <1>1, <1>2, OneFaithful

\* A reader takes a step of the loop of Filter.
LEMMA SelectFaithful ==
  ASSUME Found, ReadersFaithful, NEW r \in Readers, Select(r)
  PROVE  ReadersFaithful'
<1>1. PICK m : m = read[r]
  OBVIOUS
<1>2. /\ Shaped(m) /\ Faithful(m, data, valid) /\ InPlace(r, m) /\ m.at = "select"
      /\ UNCHANGED <<config, main, results>> /\ read = [x \in Readers |-> read[x]]
  BY <1>1 DEF Select, Found, ReadersProper, Proper, ReadersFaithful
<1>3. /\ valid \in Seq(Probers) /\ Len(valid) \in Nat /\ stage \in Begun
      /\ \A i \in 1 .. Len(valid) : data[valid[i]] # Nil
  BY <1>2, LenProperties DEF InPlace, Reads, Found, Provided
<1>4. m.next \in Nat \ {0}
  BY <1>2 DEF Faithful, Reads, InOrder
<1>5. m = [at |-> m.at, plan |-> m.plan, filter |-> m.filter, next |-> m.next,
           cnt |-> m.cnt, picked |-> m.picked, rows |-> m.rows, began |-> m.began,
           saved |-> m.saved]
  BY <1>2 DEF Shaped
<1>6. CASE m.next > Len(valid)
  <2> DEFINE m2 == [m EXCEPT !.at = "render", !.next = 1]
  <2>1. read' = [read EXCEPT ![r] = m2]
    BY <1>1, <1>6 DEF Select
  <2>2. m2 = [at |-> "render", plan |-> m.plan, filter |-> m.filter, next |-> 1,
              cnt |-> m.cnt, picked |-> m.picked, rows |-> m.rows,
              began |-> m.began, saved |-> m.saved]
    BY <1>2, ShapedSteps
  <2> HIDE DEF m2
  <2>3. Faithful(m2, data, valid)
    BY <1>2, <1>3, <1>6, <2>2, SelectedFaithful
  <2>4. /\ m2.at = "render"
        /\ m2.plan = m.plan /\ m2.filter = m.filter /\ m2.picked = m.picked
    BY <2>2
  <2>5. InPlace(r, m2)
    BY <1>2, <2>4 DEF InPlace, Reads
  <2> QED BY <1>2, <2>1, <2>3, <2>5, OneFaithful
<1>7. CASE ~ (m.next > Len(valid))
  <2>1. PICK p : p = valid[m.next]
    OBVIOUS
  <2>2. p \in Probers /\ data[p] # Nil
    <3>1. m.next \in 1 .. Len(valid)
      BY <1>3, <1>4, <1>7
    <3> QED BY <1>3, <2>1, <3>1, ElementOfSeq
  <2> DEFINE cnt == Counted(m.filter, data[p], m.cnt)
             picked == Gathered(m.filter, data[p], m.cnt, m.picked, p)
             m2 == [m EXCEPT !.next = m.next + 1, !.cnt = cnt, !.picked = picked]
  <2>3. read' = [read EXCEPT ![r] = m2]
    BY <1>1, <1>7, <2>1, <2>2 DEF Select, Counted, Gathered
  <2> HIDE DEF cnt, picked
  <2>4. m2 = [at |-> m.at, plan |-> m.plan, filter |-> m.filter, next |-> m.next + 1,
              cnt |-> cnt, picked |-> picked, rows |-> m.rows, began |-> m.began,
              saved |-> m.saved]
    <3> DEFINE c1 == [m EXCEPT !.next = m.next + 1]
               c2 == [c1 EXCEPT !.cnt = cnt]
    <3>1. c1 = [at |-> m.at, plan |-> m.plan, filter |-> m.filter,
                next |-> m.next + 1, cnt |-> m.cnt, picked |-> m.picked,
                rows |-> m.rows, began |-> m.began, saved |-> m.saved]
      BY <1>5
    <3>2. m2 = [c2 EXCEPT !.picked = picked]
      BY Zenon
    <3> HIDE DEF c1, m2
    <3>3. c2 = [at |-> m.at, plan |-> m.plan, filter |-> m.filter,
                next |-> m.next + 1, cnt |-> cnt, picked |-> m.picked,
                rows |-> m.rows, began |-> m.began, saved |-> m.saved]
      BY <3>1
    <3> HIDE DEF c2
    <3> QED BY <3>2, <3>3
  <2> HIDE DEF m2
  <2>5. Faithful(m2, data, valid)
    BY <1>2, <1>3, <1>7, <2>1, <2>4, SelectFaithfulness DEF cnt, picked
  <2>6. m2.at = m.at /\ m2.plan = m.plan /\ m2.filter = m.filter
    BY <2>4
  <2>7. m.plan = "filter"
    BY <1>2 DEF Faithful, Reads
  <2>8. InPlace(r, m2)
    BY <1>2, <2>6, <2>7 DEF InPlace, Reads
  <2> QED BY <1>2, <2>3, <2>5, <2>8, OneFaithful
<1> QED BY <1>6, <1>7

\* A reader adds a row; Discord's may be of a round that is still on.
LEMMA RenderFaithful ==
  ASSUME Found, Ordered, ReadersFaithful, NEW r \in Readers, Render(r)
  PROVE  ReadersFaithful'
<1>1. PICK m : m = read[r]
  OBVIOUS
<1>2. /\ Shaped(m) /\ Faithful(m, data, valid) /\ InPlace(r, m) /\ m.at = "render"
      /\ UNCHANGED <<config, main, results>> /\ read = [x \in Readers |-> read[x]]
      /\ Proper(r, m, stage, data, reporters, provider[r])
  BY <1>1 DEF Render, Found, ReadersProper, Proper, ReadersFaithful
<1>3. /\ m.next \in Nat \ {0} /\ m.picked \in Seq(Probers)
      /\ \A i \in 1 .. Len(m.picked) : data[m.picked[i]] # Nil
      /\ r = Web => m.plan = "filter"
  BY <1>2 DEF Proper
<1>4. CASE m.next > Len(m.picked)
  <2>1. read' = [read EXCEPT ![r] = [m EXCEPT !.at = "done"]]
    BY <1>1, <1>4 DEF Render
  <2>2. Faithful([m EXCEPT !.at = "done"], data, valid)
    BY <1>2, <1>4, RenderedFaithful
  <2>3. InPlace(r, [m EXCEPT !.at = "done"])
    <3> DEFINE m2 == [m EXCEPT !.at = "done"]
    <3>1. /\ m2.at = "done"
          /\ m2.plan = m.plan /\ m2.filter = m.filter /\ m2.picked = m.picked
      BY <1>2 DEF Shaped
    <3> HIDE DEF m2
    <3> QED BY <1>2, <3>1 DEF InPlace, Reads
  <2> QED BY <1>2, <2>1, <2>2, <2>3, OneFaithful
<1>5. CASE ~ (m.next > Len(m.picked))
  <2>1. PICK p : p = m.picked[m.next]
    OBVIOUS
  <2>2. p \in Probers /\ data[p] # Nil
    <3>1. Len(m.picked) \in Nat
      BY <1>3, LenProperties
    <3>2. m.next \in 1 .. Len(m.picked)
      BY <1>3, <1>5, <3>1
    <3> QED BY <1>3, <2>1, <3>2, ElementOfSeq
  <2> DEFINE Row(x) == read' = [read EXCEPT ![r].next = @ + 1,
                          ![r].rows = Append(@, [prober |-> p, result |-> x])]
  <2>3. \/ \E x \in Copies(p) : m.plan = "live" /\ Row(x)
        \/ m.plan = "live" /\ Panics(r)
        \/ m.plan # "live" /\ Row(data[p])
    BY <1>1, <1>5, <2>1, <2>2 DEF Render
  <2>4. data \in [Probers -> Results \cup {Nil}] /\ live \in [Probers -> Results]
    BY DEF Found, Provided
  <2>5. m.began[p].round <= data[p].round /\ (p \notin m.saved => data[p] = m.began[p])
        /\ m.began[p].round \in Int
    BY <1>2, <2>2, RoundsAre DEF Faithful, Reads, Recalls
  <2>6. ASSUME NEW x \in Results, m.began[p].round <= x.round,
               m.plan # "live" /\ p \notin m.saved => x = m.began[p], Row(x)
        PROVE  ReadersFaithful'
    <3> DEFINE rows == Append(m.rows, [prober |-> p, result |-> x])
               m2 == [m EXCEPT !.next = m.next + 1, !.rows = rows]
    <3>1. read' = [read EXCEPT ![r] = m2]
      BY <1>1, <1>2, <2>6
    <3> HIDE DEF Row
    <3>2. m2 = [at |-> m.at, plan |-> m.plan, filter |-> m.filter, next |-> m.next + 1,
                cnt |-> m.cnt, picked |-> m.picked, rows |-> rows, began |-> m.began,
                saved |-> m.saved]
      <4> HIDE DEF rows
      <4> QED BY <1>2, ShapedSteps
    <3> HIDE DEF m2
    <3>3. Faithful(m2, data, valid)
      BY <1>2, <1>5, <2>1, <2>6, <3>2, RenderFaithfulness DEF rows
    <3>4. /\ m2.at = m.at
          /\ m2.plan = m.plan /\ m2.filter = m.filter /\ m2.picked = m.picked
      BY <3>2
    <3>5. InPlace(r, m2)
      BY <1>2, <3>4 DEF InPlace, Reads
    <3> QED BY <1>2, <3>1, <3>3, <3>5, OneFaithful
  <2>7. CASE m.plan # "live" /\ Row(data[p])
    <3>1. data[p] \in Results
      BY <2>2, <2>4
    <3> HIDE DEF Row
    <3> QED BY <2>5, <2>6, <2>7, <3>1
  <2>8. ASSUME NEW x \in Copies(p), m.plan = "live", Row(x) PROVE ReadersFaithful'
    <3>1. live[p].round \in Nat /\ live[p] \in Results /\ data[p].round <= live[p].round
          /\ data[p].round \in Int
      BY <2>2, <2>4, RoundsAre DEF Ordered
    <3>2. x \in Results /\ live[p].round <= x.round /\ x.round \in Nat
      <4>1. x = live[p] \/ x \in [round : {live[p].round + 1}, up : BOOLEAN]
        BY <2>8 DEF Copies
      <4>2. CASE x = live[p]
        BY <3>1, <4>2
      <4>3. CASE x \in [round : {live[p].round + 1}, up : BOOLEAN]
        BY <3>1, <4>3 DEF Results
      <4> QED BY <4>1, <4>2, <4>3
    <3>3. m.began[p].round <= x.round
      BY <2>5, <3>1, <3>2
    <3> HIDE DEF Row
    <3> QED BY <2>6, <2>8, <3>2, <3>3
  <2>9. CASE m.plan = "live" /\ Panics(r)
    <3>1. r # Web
      BY <1>3, <2>9
    <3>2. UNCHANGED <<read, data, valid, provider, format, stage>>
      BY <1>2, <2>9, <3>1 DEF Panics, config, notifiersConfig, main, results
    <3> QED BY <3>2, SameFaithful
  <2> QED BY <2>3, <2>7, <2>8, <2>9
<1> QED BY <1>4, <1>5

\* A report begins.
LEMMA NotifyFaithful ==
  ASSUME Found, ReadersFaithful, NEW n \in Notifiers, NotifyStat(n)
  PROVE  ReadersFaithful'
<1>1. /\ n \in Readers /\ n # Web /\ stage \in {"running", "exiting"}
      /\ UNCHANGED <<config, main, results>> /\ read = [x \in Readers |-> read[x]]
  BY WebAssumption DEF NotifyStat, Readers, Found, ReadersProper
<1>2. CASE UNCHANGED read
  <2>1. UNCHANGED <<data, valid, provider, format, stage>>
    BY <1>1 DEF config, notifiersConfig, main, results
  <2> QED BY <1>2, <2>1, SameFaithful
<1>3. CASE read' = [read EXCEPT ![n] = Begins(Plan(n), NewEmptyFilter, Picked(n))]
  <2>1. PICK plan, picked : plan = Plan(n) /\ picked = Picked(n)
    OBVIOUS
  <2>2. valid \in Seq(Probers) /\ data \in [Probers -> Results \cup {Nil}]
    BY DEF Found, Provided
  <2>3. picked \in Seq(Probers) /\ (plan = "filter" => picked = <<>>)
    <3>1. valid \o valid \in Seq(Probers) /\ <<>> \in Seq(Probers)
      BY <2>2, ConcatProperties, EmptySeq
    <3>2. Picked(n) = <<>> \/ Picked(n) = valid \/ Picked(n) = valid \o valid
      BY DEF Picked
    <3>3. Plan(n) = "filter" => Picked(n) = <<>>
      <4>1. Plan(n) = "filter" => FormatOf(n) = "html"
        BY DEF Plan
      <4> QED BY <4>1 DEF Picked
    <3>4. picked \in Seq(Probers)
      BY <2>1, <2>2, <3>1, <3>2
    <3> QED BY <2>1, <3>3, <3>4
  <2>4. NewEmptyFilter.page \in Nat \ {0} /\ NewEmptyFilter.size \in Nat \ {0}
    BY PageSizeAssumption DEF NewEmptyFilter, Filter
  <2> DEFINE m == Begins(plan, NewEmptyFilter, picked)
  <2>5. Faithful(m, data, valid)
    BY <2>2, <2>3, <2>4, BeginsFaithful
  <2>6. /\ m.at \in {"select", "render"}
        /\ m.plan = plan /\ m.filter = NewEmptyFilter /\ m.picked = picked
    BY BeginsIs
  <2>7. InPlace(n, m)
    <3> HIDE DEF m
    <3> QED BY <1>1, <2>1, <2>6 DEF InPlace, Begun
  <2>8. read' = [read EXCEPT ![n] = m]
    BY <1>3, <2>1
  <2> HIDE DEF m
  <2> QED BY <1>1, <2>5, <2>7, <2>8, OneFaithful
<1> QED BY <1>2, <1>3 DEF NotifyStat

-----------------------------------------------------------------------------
(***************************************************************************)
(* A report, put together from its parts, has the rows it was composed of. *)
(***************************************************************************)
LEMMA FlattenedIs ==
  ASSUME NEW s, Len(s) \in Nat \ {0}
  PROVE  \E f : /\ FlattenSeq(s) = f[Len(s)] /\ f[1] = s[1]
                /\ \A i \in 2 .. Len(s) : f[i] = f[i - 1] \o s[i]
<1> DEFINE Body(f, i) == IF i = 1 THEN s[i] ELSE f[i - 1] \o s[i]
           c == CHOOSE f : f = [i \in 1 .. Len(s) |-> Body(f, i)]
<1>1. \E f : f = [i \in 1 .. Len(s) |-> Body(f, i)]
  BY D!FlattenExists
<1>2. FlattenSeq(s) = c[Len(s)]
  BY DEF FlattenSeq
<1> HIDE DEF Body
<1>3. c = [i \in 1 .. Len(s) |-> Body(c, i)]
  BY <1>1, Zenon
<1> HIDE DEF c
<1>4. \A i \in 1 .. Len(s) : c[i] = Body(c, i)
  BY <1>3, Zenon
<1>5. 1 \in 1 .. Len(s) /\ \A i \in 2 .. Len(s) : i \in 1 .. Len(s) /\ i # 1
  OBVIOUS
<1>6. c[1] = s[1] /\ \A i \in 2 .. Len(s) : c[i] = c[i - 1] \o s[i]
  BY <1>4, <1>5, Zenon DEF Body
<1> QED BY <1>2, <1>6, Zenon

\* The larger of two numbers has the larger multiple.
LEMMA Multiples ==
  ASSUME NEW x \in Nat, NEW y \in Nat, NEW size \in Nat \ {0}
  PROVE  x * size \in Nat /\ (x <= y => x * size <= y * size)
<1>1. x * size \in Nat /\ y * size \in Nat
  OBVIOUS
<1>2. ASSUME x <= y PROVE x * size <= y * size
  <2>1. PICK z \in Nat : y = x + z
    <3>1. y - x \in Nat /\ y = x + (y - x)
      BY <1>2
    <3> QED BY <3>1
  <2>2. y * size = x * size + z * size /\ z * size \in Nat
    BY <2>1
  <2> QED BY <1>1, <2>2
<1> QED BY <1>1, <1>2

\* The last section is the one that ends with the last row.
LEMMA LastSection ==
  ASSUME NEW n \in Nat \ {0}, NEW size \in Nat \ {0}
  PROVE  \E k \in Nat : /\ SectionCount(n, size) = k + 1
                        /\ k * size < n /\ n <= (k + 1) * size
<1>1. PICK e : e = n \div size
  OBVIOUS
<1>2. /\ e \in Nat /\ e * size <= n /\ n < e * size + size
      /\ n % size = n - e * size
  BY <1>1, Division
<1>3. (e + 1) * size = e * size + size /\ e * size \in Nat
  BY <1>2
<1>4. CASE n % size > 0
  <2>1. SectionCount(n, size) = e + 1
    BY <1>1, <1>4 DEF SectionCount
  <2> QED BY <1>2, <1>3, <1>4, <2>1
<1>5. CASE ~ (n % size > 0)
  <2>1. n = e * size
    BY <1>2, <1>3, <1>5
  <2>2. SectionCount(n, size) = e
    BY <1>1, <1>2, <1>5 DEF SectionCount
  <2>3. e # 0
    BY <2>1
  <2>4. PICK k \in Nat : e = k + 1
    <3>1. e - 1 \in Nat /\ e = (e - 1) + 1
      BY <1>2, <2>3
    <3> QED BY <3>1
  <2>5. (k + 1) * size = k * size + size /\ k * size \in Nat
    BY <2>4
  <2> QED BY <2>1, <2>2, <2>4, <2>5
<1> QED BY <1>4, <1>5

\* The sections of some rows, put together, are these rows.
LEMMA SectionsJoined ==
  ASSUME NEW S, NEW rows \in Seq(S), rows # <<>>, NEW size \in Nat \ {0}
  PROVE  Len(Sections(rows, size)) \in Nat \ {0} /\ FlattenSeq(Sections(rows, size)) = rows
<1>1. PICK n : n = Len(rows)
  OBVIOUS
<1>2. n \in Nat \ {0}
  BY <1>1, EmptySeq
<1>3. PICK k \in Nat : SectionCount(n, size) = k + 1 /\ k * size < n /\ n <= (k + 1) * size
  BY <1>2, LastSection
<1>4. PICK m : m = k + 1
  OBVIOUS
<1> DEFINE t == Sections(rows, size)
           cut(i) == IF n < i * size THEN n ELSE i * size
           c == [i \in 0 .. m |-> cut(i)]
<1>5. m \in Nat \ {0} /\ SectionCount(n, size) = m /\ n <= m * size
  BY <1>3, <1>4
<1>6. t = [p \in 1 .. m |-> SubSeq(rows, SectionStart(p, size), SectionEnd(p, n, size))]
  BY <1>1, <1>5 DEF Sections
<1>7. Len(t) = m
  <2> DEFINE U == { t[i] : i \in 1 .. m }
  <2>1. t \in [1 .. m -> U]
    BY <1>6
  <2> HIDE DEF t, U
  <2> QED BY <1>5, <2>1, Tuples
<1>8. ASSUME NEW i \in 0 .. m
      PROVE  /\ c[i] \in Nat /\ c[i] <= n
             /\ i <= k => c[i] = i * size
             /\ i = m => c[i] = n
  <2>1. i \in Nat /\ i * size \in Nat
    BY <1>5, Multiples
  <2>2. i <= k => i * size <= k * size
    BY <2>1, Multiples
  <2>3. c[i] = IF n < i * size THEN n ELSE i * size
    OBVIOUS
  <2>4. k * size \in Nat /\ m * size \in Nat
    BY <1>5, Multiples
  <2> HIDE DEF c
  <2>5. c[i] \in Nat /\ c[i] <= n
    BY <1>2, <2>1, <2>3
  <2>6. i <= k => c[i] = i * size
    BY <1>2, <1>3, <2>1, <2>2, <2>3, <2>4
  <2>7. i = m => c[i] = n
    BY <1>2, <1>5, <2>3, <2>4
  <2> QED BY <2>5, <2>6, <2>7
<1>9. ASSUME NEW i \in 1 .. m
      PROVE  /\ c[i - 1] <= c[i]
             /\ t[i] = SubSeq(rows, c[i - 1] + 1, c[i])
  <2>1. PICK j : j = i - 1
    OBVIOUS
  <2>2. j \in 0 .. m /\ j <= k /\ i \in 0 .. m /\ j \in Nat /\ i = j + 1
    BY <1>4, <1>5, <2>1
  <2>3. c[j] = j * size /\ c[j] <= n
    BY <1>8, <2>2
  <2>4. c[i] = IF n < i * size THEN n ELSE i * size
    BY <2>2
  <2>5. i * size = j * size + size /\ j * size \in Nat
    BY <2>2
  <2>6. SectionStart(i, size) = c[j] + 1
    BY <2>1, <2>3 DEF SectionStart
  <2>7. SectionEnd(i, n, size) = c[i]
    BY <2>4 DEF SectionEnd
  <2>8. t[i] = SubSeq(rows, SectionStart(i, size), SectionEnd(i, n, size))
    BY <1>6
  <2> HIDE DEF c, t
  <2>9. c[j] <= c[i]
    BY <1>2, <2>3, <2>4, <2>5
  <2> QED BY <2>1, <2>6, <2>7, <2>8, <2>9
<1>10. c \in [0 .. m -> Nat]
  <2>1. c = [i \in 0 .. m |-> c[i]]
    OBVIOUS
  <2> HIDE DEF c
  <2> QED BY <1>8, <2>1
<1> HIDE DEF c, t
<1>11. PICK f : /\ FlattenSeq(t) = f[m] /\ f[1] = t[1]
                /\ \A i \in 2 .. m : f[i] = f[i - 1] \o t[i]
  BY <1>5, <1>7, FlattenedIs
<1>12. D!Cuts(S, rows, m, c, f)
  <2>1. 0 \in 0 .. m /\ m \in 0 .. m /\ 1 \in 1 .. m /\ 0 <= k
    BY <1>5
  <2>2. c[0] = 0 * size /\ 0 * size = 0
    BY <1>8, <2>1
  <2>3. c[0] = 0 /\ c[m] = n
    BY <1>8, <2>1, <2>2
  <2>4. 1 - 1 = 0 /\ 0 + 1 = 1
    OBVIOUS
  <2>5. t[1] = SubSeq(rows, 1, c[1])
    BY <1>9, <2>1, <2>3, <2>4
  <2>6. \A i \in 1 .. m : i \in 0 .. m
    OBVIOUS
  <2>7. \A i \in 1 .. m : c[i - 1] <= c[i] /\ c[i] <= Len(rows)
    BY <1>1, <1>8, <1>9, <2>6
  <2>8. \A i \in 2 .. m : i \in 1 .. m
    OBVIOUS
  <2>9. \A i \in 2 .. m : f[i] = f[i - 1] \o SubSeq(rows, c[i - 1] + 1, c[i])
    BY <1>9, <1>11, <2>8
  <2> QED BY <1>1, <1>5, <1>10, <1>11, <2>3, <2>5, <2>7, <2>9 DEF D!Cuts
<1>13. f[m] = rows
  BY <1>12, D!Pieces
<1> QED BY <1>5, <1>7, <1>11, <1>13 DEF t

-----------------------------------------------------------------------------
(***************************************************************************)
(* The reports: what is posted, part by part, is what was read.            *)
(***************************************************************************)
\* The probers that a report has, in its order.
Order(n) ==
  CASE FormatOf(n) = "shell" -> valid \o valid
    [] FormatOf(n) = "html"  -> SubSeq(valid, 1, Min({DefaultPageSize, Len(valid)}))
    [] OTHER                 -> valid

Column(rows)   == [i \in DOMAIN rows |-> rows[i].prober]
Whole(n, text) == Column(FlattenSeq(text)) = Order(n)

JobTold(n, j) ==
  /\ j.at \in {"idle", "text", "send", "done"}
  /\ j.tries \in Nat /\ j.tries < RetryTimes
  /\ j.at # "idle" => stage \in {"running", "exiting"}
  /\ j.at = "send" => Len(j.log) > 0 /\ Whole(n, j.text)

JobsTold == \A n \in Notifiers : JobTold(n, job[n])

\* No report is on its way at first.
LEMMA InitJobs == Init => JobsTold
<1> SUFFICES ASSUME Init PROVE JobsTold
  OBVIOUS
<1>1. NoJob.at = "idle" /\ NoJob.tries = 0
  BY DEF NoJob
<1>2. 0 < RetryTimes
  BY ServiceAssumption DEF ServiceAssumption
<1>3. \A n \in Notifiers : job[n] = NoJob
  BY DEF Init
<1> QED BY <1>1, <1>2, <1>3 DEF JobsTold, JobTold

\* The jobs and what they rest on stay as they are.
LEMMA SameJobs ==
  ASSUME JobsTold, UNCHANGED <<job, valid, provider, format>>,
         stage \in {"running", "exiting"} => stage' \in {"running", "exiting"}
  PROVE  JobsTold'
<1>1. \A n \in Notifiers : UNCHANGED Order(n)
  BY DEF Order, FormatOf
<1>2. ASSUME NEW n \in Notifiers PROVE JobTold(n, job[n])'
  <2>1. JobTold(n, job[n])
    BY DEF JobsTold
  <2> QED BY <1>1, <2>1 DEF JobTold, Whole
<1> QED BY <1>2 DEF JobsTold

\* Reports begin only when main has done.
LEMMA MainJobs ==
  ASSUME JobsTold, Main \/ Serve \/ Shutdown \/ Exit
  PROVE  JobsTold'
<1>1. UNCHANGED <<job, provider, format>>
  BY DEF Main, Server, Serve, ConfigProbers, ConfigChannels, RunProbers, SetProbers,
         ScheduleSLA, Shutdown, Exit, config, notifiersConfig
<1>2. stage \in {"running", "exiting"} => stage' \in {"running", "exiting"} /\ UNCHANGED valid
  BY DEF Main, Server, Serve, ConfigProbers, ConfigChannels, RunProbers, SetProbers,
         ScheduleSLA, Shutdown, Exit, main
<1>3. CASE stage \in {"running", "exiting"}
  BY <1>1, <1>2, <1>3, SameJobs
<1>4. CASE stage \notin {"running", "exiting"}
  <2>1. \A n \in Notifiers : job[n].at = "idle"
    BY <1>4 DEF JobsTold, JobTold
  <2>2. \A n \in Notifiers :
          job'[n].at = "idle" /\ job'[n].tries \in Nat /\ job'[n].tries < RetryTimes
    BY <1>1, <2>1 DEF JobsTold, JobTold
  <2> QED BY <2>2 DEF JobsTold, JobTold
<1> QED BY <1>3, <1>4

\* One report goes on.
LEMMA OneJobTold ==
  ASSUME JobsTold, NEW n \in Notifiers, NEW c, JobTold(n, c),
         job' = [job EXCEPT ![n] = c], job = [x \in Notifiers |-> job[x]],
         UNCHANGED <<stage, valid, provider, format>>
  PROVE  JobsTold'
<1>1. \A x \in Notifiers : UNCHANGED Order(x)
  BY DEF Order, FormatOf
<1>2. \A x \in Notifiers : JobTold(x, job'[x])
  BY DEF JobsTold
<1>3. ASSUME NEW x \in Notifiers PROVE JobTold(x, job[x])'
  BY <1>1, <1>2 DEF JobTold, Whole
<1> QED BY <1>3 DEF JobsTold

\* A report begins.
LEMMA NotifyJobs ==
  ASSUME Inv, JobsTold, NEW n \in Notifiers, NotifyStat(n)
  PROVE  JobsTold'
<1>1. UNCHANGED <<stage, valid, provider, format>> /\ stage \in {"running", "exiting"}
  BY DEF NotifyStat, config, notifiersConfig, main
<1>2. CASE UNCHANGED job
  BY <1>1, <1>2, SameJobs
<1>3. CASE job' = [job EXCEPT ![n] = [NoJob EXCEPT !.at = "text"]]
  <2> DEFINE c == [NoJob EXCEPT !.at = "text"]
  <2>1. c.at = "text" /\ c.tries = 0
    BY DEF NoJob
  <2>2. 0 < RetryTimes
    BY ServiceAssumption DEF ServiceAssumption
  <2>3. job = [x \in Notifiers |-> job[x]]
    BY DEF Inv, JobsKept
  <2>4. job' = [job EXCEPT ![n] = c]
    BY <1>3
  <2> HIDE DEF c
  <2>5. JobTold(n, c)
    BY <1>1, <2>1, <2>2 DEF JobTold
  <2> QED BY <1>1, <2>3, <2>4, <2>5, OneJobTold
<1> QED BY <1>2, <1>3 DEF NotifyStat

\* An attempt leaves the text and the number of its parts as they are, and
\* counts no more attempts than there may be.
LEMMA PostJobs ==
  ASSUME Inv, JobsTold, NEW n \in Notifiers, Post(n)
  PROVE  JobsTold'
<1> DEFINE v == provider[n]
<1>1. PICK a \in Answers(v) :
        job' = [job EXCEPT ![n] = After(n, Attempted(job[n], a), Judge(v, a))]
  BY DEF Post, Attempted
<1>2. PICK verdict, j : verdict = Judge(v, a) /\ j = job[n]
  OBVIOUS
<1>3. PICK b : b = Attempted(j, a)
  OBVIOUS
<1>4. PICK c : c = After(n, b, verdict)
  OBVIOUS
<1>5. /\ Kept(j) /\ j.at = "send" /\ job = [x \in Notifiers |-> job[x]]
      /\ UNCHANGED <<stage, valid, provider, format>>
  BY <1>2 DEF Inv, JobsKept, Accounted, Post, config, notifiersConfig, main
<1>6. /\ j.tries \in Nat /\ j.tries < RetryTimes /\ stage \in {"running", "exiting"}
      /\ Len(j.log) > 0 /\ Whole(n, j.text)
  BY <1>2, <1>5 DEF JobsTold, JobTold
<1>7. /\ Kept(b) /\ b.at = "send" /\ b.part = j.part /\ b.log = j.log
      /\ b.text = j.text /\ b.tries = j.tries
  BY <1>3, <1>5, TakenOrNot, AttemptedFields
<1>8. Len(j.log) \in Nat \ {0} /\ j.part \in 1 .. Len(j.log)
  BY <1>5, <1>6 DEF Kept
<1>9. /\ Max(Unit(n)) \in 1 .. Len(j.log) /\ Min(Unit(n)) \in 1 .. Len(j.log)
      /\ j.part < Max(Unit(n)) => j.part + 1 \in 1 .. Len(j.log)
  BY <1>2, <1>5, <1>6, <1>8, Units
<1>10. 0 < RetryTimes /\ RetryTimes \in Nat
  BY ServiceAssumption DEF ServiceAssumption
<1> HIDE DEF v
<1> SUFFICES JobTold(n, c)
  BY <1>1, <1>2, <1>3, <1>4, <1>5, OneJobTold
<1>15. Kept(b)
  BY <1>7
<1>11. ASSUME NEW how \in Marks, c = Logged(b, Unit(n), how)
       PROVE  JobTold(n, c)
  <2>1. PICK u : u = Unit(n)
    OBVIOUS
  <2>2. Max(u) \in 1 .. Len(b.log)
    BY <1>7, <1>9, <2>1
  <2>3. c = Logged(b, u, how)
    BY <1>11, <2>1
  <2>4. /\ c.tries = 0 /\ c.text = b.text /\ Len(c.log) = Len(b.log)
        /\ c.at \in {"send", "done"}
    BY <1>15, <1>11, <2>2, <2>3, LoggedFields
  <2>5. /\ c.tries = 0 /\ c.text = j.text /\ Len(c.log) = Len(j.log)
        /\ c.at \in {"send", "done"}
    BY <1>7, <2>4
  <2> QED BY <1>6, <1>10, <2>5 DEF JobTold
<1>12. CASE c = Moved(b, b.part + 1) /\ b.part < Max(Unit(n))
  <2>1. PICK x : x = b.part + 1
    OBVIOUS
  <2>2. Len(b.log) > 0 => x \in 1 .. Len(b.log)
    BY <1>7, <1>9, <1>12, <2>1
  <2>3. Goes(b, c, x) /\ c.tries = b.tries
    <3>1. c = Moved(b, x)
      BY <1>12, <2>1
    <3> QED BY <1>15, <2>2, <3>1, MovedFields
  <2> QED BY <1>6, <1>7, <2>3 DEF JobTold, Goes
<1>13. CASE c = Retried(b, b.tries + 1, Min(Unit(n))) /\ b.tries + 1 < RetryTimes
  <2>1. PICK x, t : x = Min(Unit(n)) /\ t = b.tries + 1
    OBVIOUS
  <2>2. Len(b.log) > 0 => x \in 1 .. Len(b.log)
    BY <1>7, <1>9, <2>1
  <2>3. Goes(b, c, x) /\ c.tries = t
    <3>1. c = Retried(b, t, x)
      BY <1>13, <2>1
    <3> QED BY <1>15, <2>2, <3>1, MovedFields
  <2> QED BY <1>6, <1>7, <1>13, <2>1, <2>3 DEF JobTold, Goes
<1>14. \/ c = Moved(b, b.part + 1) /\ b.part < Max(Unit(n))
       \/ c = Logged(b, Unit(n), "sent")
       \/ c = Retried(b, b.tries + 1, Min(Unit(n))) /\ b.tries + 1 < RetryTimes
       \/ c = Logged(b, Unit(n), "failed")
  BY <1>4, Outcomes
<1> QED BY <1>11, <1>12, <1>13, <1>14 DEF Marks

-----------------------------------------------------------------------------
\* The rows at the end are those of the probers picked.
LEMMA RowsArePicked ==
  ASSUME NEW m, RowsTold(m), InOrder(m), m.at = "done"
  PROVE  Column(m.rows) = m.picked
<1>1. PICK rows, picked : rows = m.rows /\ picked = m.picked
  OBVIOUS
<1>2. /\ rows \in Seq(Message) /\ picked \in Seq(Probers) /\ Len(rows) = Len(picked)
      /\ \A i \in 1 .. Len(rows) : rows[i].prober = picked[i]
  BY <1>1 DEF RowsTold, InOrder
<1>3. DOMAIN rows = 1 .. Len(rows) /\ picked = [i \in 1 .. Len(picked) |-> picked[i]]
  BY <1>2
<1>4. Column(rows) = [i \in 1 .. Len(rows) |-> rows[i].prober]
  BY <1>3 DEF Column
<1>5. Column(rows) = picked
  BY <1>2, <1>3, <1>4
<1> QED BY <1>1, <1>5

\* What the reader of a report has picked at its end.
LEMMA PickedInOrder ==
  ASSUME Found, Placed, Running, ReadersFaithful, NEW n \in Notifiers, read[n].at = "done"
  PROVE  read[n].picked = Order(n) /\ Order(n) # <<>>
<1>1. PICK m : m = read[n]
  OBVIOUS
<1>2. n \in Readers /\ n # Web /\ Reads(m) /\ m.at = "done"
  BY <1>1, WebAssumption DEF Readers, Reads
<1>3. Faithful(m, data, valid) /\ InPlace(n, m)
  BY <1>1, <1>2 DEF ReadersFaithful
<1>4. /\ stage \in {"running", "exiting"} /\ m.plan = Plan(n)
      /\ IF m.plan = "filter" THEN m.filter = NewEmptyFilter ELSE m.picked = Picked(n)
  BY <1>2, <1>3 DEF InPlace
<1>5. valid \in Seq(Probers) /\ valid # <<>>
  BY <1>4 DEF Found, Provided, Placed
<1>6. Len(valid) \in Nat \ {0}
  BY <1>5, EmptySeq
<1>7. PICK k : k = Min({DefaultPageSize, Len(valid)})
  OBVIOUS
<1>8. k \in 1 .. Len(valid)
  BY <1>6, <1>7, PageSizeAssumption, Smaller
<1>9. SubSeq(valid, 1, k) # <<>> /\ valid \o valid # <<>>
  <2>1. Len(SubSeq(valid, 1, k)) = k
    BY <1>5, <1>8, SubSeqProperties
  <2>2. Len(valid \o valid) = Len(valid) + Len(valid)
    BY <1>5, ConcatProperties
  <2>3. Len(<<>>) = 0
    OBVIOUS
  <2> QED BY <1>6, <1>8, <2>1, <2>2, <2>3
<1>10. Order(n) # <<>>
  BY <1>5, <1>7, <1>9 DEF Order
<1>11. CASE m.plan = "filter"
  <2>1. FormatOf(n) = "html"
    BY <1>4, <1>11 DEF Plan
  <2>2. FirstPage(valid, Len(valid), m.cnt, m.picked)
    BY <1>2, <1>3, <1>4, <1>11 DEF Faithful, Filters, Reached
  <2> QED BY <1>1, <1>10, <2>1, <2>2 DEF Order, FirstPage
<1>12. CASE m.plan # "filter"
  <2>1. m.picked = Picked(n)
    BY <1>4, <1>12
  <2>2. Plan(n) # "filter"
    BY <1>4, <1>12
  <2>3. Picked(n) = IF FormatOf(n) = "shell" THEN valid \o valid ELSE valid
    BY <2>2 DEF Picked
  <2>4. FormatOf(n) # "html"
    <3>1. provider[n] # "discord" /\ FormatOf(n) = "html" => Plan(n) = "filter"
      BY DEF Plan
    <3>2. provider[n] = "discord" => FormatOf(n) # "html"
      BY DEF FormatOf, Format, SMS
    <3> QED BY <2>2, <3>1, <3>2
  <2> QED BY <1>1, <1>10, <2>1, <2>3, <2>4 DEF Order
<1> QED BY <1>11, <1>12

\* The parts of a report, put together, are its rows, and there is one at least.
LEMMA TextJoined ==
  ASSUME NEW n, read[n].rows \in Seq(Message), read[n].rows # <<>>
  PROVE  /\ FlattenSeq(Text(n)) = read[n].rows
         /\ Parts(n, Text(n)) \in Nat \ {0}
<1>1. PICK rows : rows = read[n].rows
  OBVIOUS
<1>2. rows \in Seq(Message) /\ rows # <<>>
  BY <1>1
<1>3. SlackFields \in Nat \ {0} /\ DiscordFields \in Nat \ {0} /\ TelegramRows \in Nat \ {0}
  BY ServiceAssumption DEF ServiceAssumption
<1>4. ASSUME NEW size \in Nat \ {0}, Text(n) = Sections(rows, size)
      PROVE  FlattenSeq(Text(n)) = rows /\ Parts(n, Text(n)) \in Nat \ {0}
  <2>1. /\ Len(Sections(rows, size)) \in Nat \ {0}
        /\ FlattenSeq(Sections(rows, size)) = rows
    BY <1>2, SectionsJoined, Zenon
  <2>2. Parts(n, Text(n)) \in {1, Len(Text(n))}
    BY DEF Parts
  <2> QED BY <1>4, <2>1, <2>2
<1>5. CASE provider[n] \in {"slack", "discord", "telegram"}
  BY <1>1, <1>3, <1>4, <1>5 DEF Text
<1>6. CASE provider[n] \notin {"slack", "discord", "telegram"}
  <2>1. PICK t : t = <<rows>>
    OBVIOUS
  <2>2. Len(t) = 1 /\ t[1] = rows
    BY <2>1
  <2>3. FlattenSeq(t) = rows
    <3>1. Len(t) \in Nat \ {0}
      BY <2>2
    <3>2. PICK f : FlattenSeq(t) = f[Len(t)] /\ f[1] = t[1]
      BY <3>1, FlattenedIs
    <3> QED BY <2>2, <3>2
  <2>4. Text(n) = t
    BY <1>1, <1>6, <2>1 DEF Text
  <2>5. Parts(n, t) = Len(t)
    BY <1>6 DEF Parts
  <2>6. Parts(n, Text(n)) \in Nat \ {0}
    BY <2>2, <2>4, <2>5
  <2>7. FlattenSeq(Text(n)) = rows
    BY <2>3, <2>4
  <2> QED BY <1>1, <2>6, <2>7
<1> QED BY <1>5, <1>6

\* A report is composed of all its rows.
LEMMA ComposeJobs ==
  ASSUME Inv, Found, Placed, ReadersFaithful, JobsTold, NEW n \in Notifiers, Compose(n)
  PROVE  JobsTold'
<1>1. PICK t : t = Text(n)
  OBVIOUS
<1>2. PICK k : k = Parts(n, t)
  OBVIOUS
<1>3. /\ Running /\ read[n].at = "done" /\ n \in Readers
      /\ UNCHANGED <<stage, valid, provider, format>>
      /\ job = [x \in Notifiers |-> job[x]]
  BY DEF Compose, config, notifiersConfig, main, Inv, JobsKept, Readers
<1>4. read[n].picked = Order(n) /\ Order(n) # <<>>
  BY <1>3, PickedInOrder
<1>5. PICK m : m = read[n]
  OBVIOUS
<1>6. RowsTold(m) /\ InOrder(m) /\ m.at = "done"
  BY <1>3, <1>5 DEF ReadersFaithful, Faithful, Reads
<1>7. Column(m.rows) = Order(n)
  BY <1>4, <1>5, <1>6, RowsArePicked
<1>8. m.rows \in Seq(Message) /\ m.rows # <<>>
  <2>1. m.rows \in Seq(Message) /\ m.picked \in Seq(Probers) /\ Len(m.rows) = Len(m.picked)
    BY <1>6 DEF RowsTold, InOrder
  <2>2. m.picked # <<>>
    BY <1>4, <1>5
  <2>3. Len(m.picked) # 0
    BY <2>1, <2>2, EmptySeq
  <2>4. Len(<<>>) = 0
    OBVIOUS
  <2> QED BY <2>1, <2>3, <2>4
<1>9. Whole(n, t) /\ k \in Nat \ {0}
  BY <1>1, <1>2, <1>5, <1>7, <1>8, TextJoined DEF Whole
<1>10. stage \in {"running", "exiting"}
  <2>1. job[n].at = "text"
    BY DEF Compose
  <2> QED BY <2>1 DEF JobsTold, JobTold
<1> DEFINE got == [i \in 1 .. k |-> 0]
           log == [i \in 1 .. k |-> "none"]
           c == [NoJob EXCEPT !.at = "send", !.text = t, !.got = got, !.log = log]
<1>11. job' = [job EXCEPT ![n] = c]
  BY <1>1, <1>2 DEF Compose
<1>12. Len(log) = k
  <2>1. log \in [1 .. k -> Marks]
    BY DEF Marks
  <2> HIDE DEF log
  <2> QED BY <1>9, <2>1, Tuples
<1> HIDE DEF got, log
<1>13. c = [at |-> "send", text |-> t, part |-> NoJob.part, tries |-> NoJob.tries,
            got |-> got, log |-> log, lossy |-> NoJob.lossy]
  <2> DEFINE c1 == [NoJob EXCEPT !.at = "send"]
  <2>1. c1 = [at |-> "send", text |-> NoJob.text, part |-> NoJob.part,
              tries |-> NoJob.tries, got |-> NoJob.got, log |-> NoJob.log,
              lossy |-> NoJob.lossy]
    BY NoJobShape
  <2>2. c = [c1 EXCEPT !.text = t, !.got = got, !.log = log]
    OBVIOUS
  <2> HIDE DEF c, c1
  <2> QED BY <2>1, <2>2
<1> HIDE DEF c
<1>14. NoJob.tries = 0 /\ 0 < RetryTimes
  BY ServiceAssumption DEF ServiceAssumption, NoJob
<1>15. JobTold(n, c)
  <2>1. c.at = "send" /\ c.tries = 0 /\ c.text = t /\ c.log = log
    BY <1>13, <1>14
  <2> QED BY <1>9, <1>10, <1>12, <1>14, <2>1 DEF JobTold
<1> QED BY <1>3, <1>11, <1>15, OneJobTold

-----------------------------------------------------------------------------
(***************************************************************************)
(* All of it together.                                                     *)
(***************************************************************************)
Told == Inv /\ Found /\ Placed /\ Ordered /\ ReadersFaithful /\ JobsTold

\* The invariant holds at first.
LEMMA InitTold == Init => Told
BY InitInv, InitFound, InitPlaced, InitOrdered, InitFaithful, InitJobs DEF Told

\* And each part of it stays so in every step.
LEMMA StepPlaced ==
  ASSUME Found, Placed, [Next]_vars PROVE Placed'
<1>1. CASE UNCHANGED vars
  BY <1>1 DEF vars, main, results, Placed, Probed, Running
<1>2. CASE Main \/ Serve \/ Shutdown \/ Exit
  BY <1>2, MainPlaced
<1>3. CASE Next /\ ~ (Main \/ Serve \/ Shutdown \/ Exit)
  BY <1>3, OtherPlaced DEF Next
<1> QED BY <1>1, <1>2, <1>3

LEMMA StepOrdered ==
  ASSUME Found, Placed, Ordered, [Next]_vars PROVE Ordered'
<1>1. ASSUME UNCHANGED results PROVE Ordered'
  BY <1>1 DEF results, Ordered
<1>2. CASE Main \/ Serve \/ Shutdown \/ Exit
  BY <1>2, MainOrdered
<1>3. CASE \E p \in Probers : RoundBegins(p) \/ RoundEnds(p) \/ SendResult(p)
  BY <1>3, RoundOrdered
<1>4. CASE SaveResult
  BY <1>4, SaveOrdered
<1>5. CASE \/ UNCHANGED vars
           \/ \E f \in Requests : Request(f)
           \/ \E r \in Readers : Select(r) \/ Render(r)
           \/ \E n \in Notifiers : NotifyStat(n) \/ Compose(n) \/ Post(n)
  <2>1. UNCHANGED results
    BY <1>5 DEF vars, Request, Select, Render, NotifyStat, Compose, Post
  <2> QED BY <1>1, <2>1
<1> QED BY <1>2, <1>3, <1>4, <1>5 DEF Next

LEMMA StepFaithful ==
  ASSUME Found, Ordered, ReadersFaithful, [Next]_vars PROVE ReadersFaithful'
<1>1. CASE Main \/ Serve \/ Shutdown \/ Exit
  BY <1>1, MainFaithful
<1>2. CASE \/ UNCHANGED vars
           \/ \E p \in Probers : RoundBegins(p) \/ RoundEnds(p) \/ SendResult(p)
           \/ \E n \in Notifiers : Compose(n) \/ Post(n)
  <2>1. UNCHANGED <<read, data, valid, provider, format, stage>>
    BY <1>2 DEF vars, RoundBegins, RoundEnds, SendResult, Compose, Post, config,
           notifiersConfig, main, results
  <2> QED BY <2>1, SameFaithful
<1>3. CASE \/ SaveResult
           \/ \E f \in Requests : Request(f)
           \/ \E r \in Readers : Select(r) \/ Render(r)
           \/ \E n \in Notifiers : NotifyStat(n)
  BY <1>3, SaveFaithful, RequestFaithful, SelectFaithful, RenderFaithful, NotifyFaithful
<1> QED BY <1>1, <1>2, <1>3 DEF Next

LEMMA StepJobs ==
  ASSUME Inv, Found, Placed, ReadersFaithful, JobsTold, [Next]_vars PROVE JobsTold'
<1>1. CASE Main \/ Serve \/ Shutdown \/ Exit
  BY <1>1, MainJobs
<1>2. CASE \/ UNCHANGED vars
           \/ \E p \in Probers : RoundBegins(p) \/ RoundEnds(p) \/ SendResult(p)
           \/ SaveResult
           \/ \E f \in Requests : Request(f)
           \/ \E r \in Readers : Select(r) \/ Render(r)
  <2>1. UNCHANGED <<job, valid, provider, format, stage>>
    BY <1>2 DEF vars, RoundBegins, RoundEnds, SendResult, SaveResult, Request, Select,
           Render, config, notifiersConfig, main
  <2> QED BY <2>1, SameJobs
<1>3. CASE \E n \in Notifiers : NotifyStat(n) \/ Compose(n) \/ Post(n)
  BY <1>3, NotifyJobs, ComposeJobs, PostJobs
<1> QED BY <1>1, <1>2, <1>3 DEF Next

\* The invariant is inductive.
LEMMA NextTold == Told /\ [Next]_vars => Told'
<1> SUFFICES ASSUME Told, [Next]_vars PROVE Told'
  OBVIOUS
<1> USE DEF Told
<1>1. Inv' /\ Found'
  BY NextInv, KnownStep
<1>2. Placed' /\ Ordered'
  BY StepPlaced, StepOrdered
<1>3. ReadersFaithful' /\ JobsTold'
  BY StepFaithful, StepJobs
<1> QED BY <1>1, <1>2, <1>3

\* For any configuration, requests and rounds, the parts of the program keep
\* to their types; a report that is being posted is at one of its parts, and
\* has been tried less than RetryTimes times (NotifyStat, SendTelegram, DoRetry).
THEOREM ServiceTyped == Spec => []TypeOK
<1>1. Told => TypeOK
  <2> SUFFICES ASSUME Told PROVE TypeOK
    OBVIOUS
  <2> USE DEF Told
  <2>1. ASSUME NEW r \in Readers
        PROVE  read[r].at \in {"idle", "refused", "failed", "select", "render", "done"}
    BY DEF ReadersFaithful, InPlace
  <2>2. ASSUME NEW n \in Notifiers
        PROVE  /\ job[n].at \in {"idle", "text", "send", "done"}
               /\ job[n].at = "send" => job[n].part \in DOMAIN job[n].log
               /\ DOMAIN job[n].got = DOMAIN job[n].log
               /\ job[n].tries < RetryTimes
    <3>1. PICK j : j = job[n]
      OBVIOUS
    <3>2. Kept(j) /\ JobTold(n, j)
      BY <3>1 DEF Inv, JobsKept, Accounted, JobsTold
    <3>3. DOMAIN j.got = 1 .. Len(j.log) /\ DOMAIN j.log = 1 .. Len(j.log)
      BY <3>2 DEF Kept
    <3> QED BY <3>1, <3>2, <3>3 DEF Kept, JobTold
  <2>3. /\ live \in [Probers -> Results] /\ data \in [Probers -> Results \cup {Nil}]
        /\ valid \in Seq(Probers)
    BY DEF Found, Provided
  <2> QED BY <2>1, <2>2, <2>3 DEF TypeOK, Placed
<1> QED BY <1>1, InitTold, NextTold, PTL DEF Spec

-----------------------------------------------------------------------------
\* A page begins behind the matches where there are fewer, and where they fill
\* the pages before it.
LEMMA EmptyPage ==
  ASSUME NEW f, f.page \in Nat \ {0}, f.size \in Nat \ {0}, Fits(f), NEW cnt \in Nat
  PROVE  /\ f.page > PageCount(f, cnt) => cnt <= Start(f)
         /\ f.page <= PageCount(f, cnt) /\ cnt <= Start(f) =>
              cnt % f.size = 0 /\ f.page = PageCount(f, cnt)
<1>1. PICK x, size : x = f.page - 1 /\ size = f.size
  OBVIOUS
<1>2. x \in Nat /\ f.page = x + 1 /\ size \in Nat \ {0} /\ Start(f) = x * size
  BY <1>1, PageInInt
<1>3. PICK q : q = cnt \div size
  OBVIOUS
<1>4. /\ q \in Nat /\ q * size <= cnt /\ cnt < q * size + size
      /\ cnt % size = cnt - q * size
  BY <1>2, <1>3, Division
<1>5. PageCount(f, cnt) = q + 1
  BY <1>1, <1>3 DEF PageCount
<1>6. x * size \in Nat /\ q * size \in Nat
  BY <1>2, <1>4
<1>7. ASSUME x + 1 > q + 1 PROVE cnt <= x * size
  <2>1. q + 1 <= x /\ q + 1 \in Nat
    BY <1>2, <1>4, <1>7
  <2>2. (q + 1) * size <= x * size
    BY <1>2, <2>1, Multiples
  <2>3. (q + 1) * size = q * size + size
    BY <1>2, <1>4
  <2> QED BY <1>2, <1>4, <1>6, <2>2, <2>3
<1>8. ASSUME x + 1 <= q + 1, cnt <= x * size PROVE cnt % size = 0 /\ x = q
  <2>1. x * size <= q * size
    BY <1>2, <1>4, <1>8, Multiples
  <2>2. x * size = cnt /\ q * size = cnt
    BY <1>4, <1>6, <1>8, <2>1
  <2>3. x * size <= cnt /\ cnt < x * size + size
    BY <1>2, <2>2
  <2>4. x = cnt \div size
    BY <1>2, <2>3, Quotient
  <2> QED BY <1>3, <1>4, <2>2, <2>4
<1> QED BY <1>1, <1>2, <1>5, <1>7, <1>8

\* What a reader has at its end is as the filter numbers it.
LEMMA PageTold ==
  ASSUME Told, NEW r \in Readers, read[r].at = "done", read[r].plan = "filter"
  PROVE  PageAsNumbered(r)
<1>1. PICK m, f, b : m = read[r] /\ f = m.filter /\ b = m.began
  OBVIOUS
<1>2. Faithful(m, data, valid) /\ Reads(m) /\ m.at = "done" /\ m.plan = "filter"
  BY <1>1 DEF Told, ReadersFaithful, Reads
<1>3. /\ RowsTold(m) /\ InOrder(m)
      /\ Filters(f, b, valid, Len(valid), m.cnt, m.picked, m.saved)
  BY <1>1, <1>2 DEF Faithful, Reached
<1>4. valid \in Seq(Probers) /\ Len(valid) \in Nat /\ DOMAIN valid = 1 .. Len(valid)
  BY LenProperties DEF Told, Found, Provided
<1>5. /\ f.page \in Nat \ {0} /\ f.size \in Nat \ {0} /\ m.cnt \in Nat
      /\ Fits(f) => (m.picked = <<>> <=> m.cnt <= Start(f))
  BY <1>3 DEF Filters
<1>6. Shown(r) = m.picked
  <2>1. Column(m.rows) = m.picked
    BY <1>2, <1>3, RowsArePicked
  <2> QED BY <1>1, <2>1 DEF Shown, Column
<1>7. m.rows = <<>> <=> m.picked = <<>>
  <2>1. m.rows \in Seq(Message) /\ m.picked \in Seq(Probers) /\ Len(m.rows) = Len(m.picked)
    BY <1>2, <1>3 DEF RowsTold, InOrder
  <2>2. Len(<<>>) = 0
    OBVIOUS
  <2> QED BY <2>1, <2>2, EmptySeq
<1>8. ASSUME Fits(f), m.saved = {} PROVE Shown(r) = Selected(valid, OwnMatches(r))
  <2>1. Page(f, b, valid) = OwnMatches(r)
    BY <1>1, <1>4 DEF Page, Hits, OwnMatches, Matched
  <2>2. m.picked = Chosen(valid, Page(f, b, valid))[Len(valid)]
    BY <1>3, <1>8 DEF Filters, Numbered
  <2>3. PICK I : I = OwnMatches(r)
    OBVIOUS
  <2>4. Selected(valid, I) = Chosen(valid, I)[Len(valid)]
    BY <1>4, ChosenIs
  <2> QED BY <1>6, <2>1, <2>2, <2>3, <2>4
<1>9. ASSUME NEW i \in DOMAIN m.rows, m.rows[i].prober \notin m.saved
      PROVE  Matches(f, m.rows[i].result)
  <2>1. i \in 1 .. Len(m.rows) /\ Len(m.rows) = Len(m.picked)
    BY <1>2, <1>3, LenProperties DEF RowsTold, InOrder
  <2>2. m.rows[i].prober = m.picked[i]
    BY <1>3, <2>1 DEF InOrder
  <2>3. m.rows[i].result = b[m.picked[i]]
    BY <1>1, <1>2, <1>3, <1>9, <2>1, <2>2 DEF RowsTold, RowTold
  <2>4. Matches(f, b[m.picked[i]])
    BY <1>3, <1>9, <2>1, <2>2 DEF Filters
  <2> QED BY <2>3, <2>4
<1>10. ASSUME Fits(f)
       PROVE  /\ f.page > PageCount(f, m.cnt) => m.rows = <<>>
              /\ f.page <= PageCount(f, m.cnt) /\ m.rows = <<>> =>
                   m.cnt % f.size = 0 /\ f.page = PageCount(f, m.cnt)
  <2>1. PICK c : c = m.cnt
    OBVIOUS
  <2>2. /\ f.page > PageCount(f, c) => c <= Start(f)
        /\ f.page <= PageCount(f, c) /\ c <= Start(f) =>
             c % f.size = 0 /\ f.page = PageCount(f, c)
    BY <1>5, <1>10, <2>1, EmptyPage
  <2> QED BY <1>5, <1>7, <1>10, <2>1, <2>2
<1> QED BY <1>1, <1>8, <1>9, <1>10 DEF PageAsNumbered

\* The rows at the end are as of the beginning, or newer.
LEMMA RowsAreTold ==
  ASSUME Told, NEW r \in Readers, read[r].at = "done"
  PROVE  RowsAsSaved(r)
<1>1. PICK m : m = read[r]
  OBVIOUS
<1>2. RowsTold(m) /\ Recalls(m, data)
  BY <1>1 DEF Told, ReadersFaithful, Faithful, Reads
<1>3. ASSUME NEW i \in DOMAIN m.rows
      PROVE  LET row == m.rows[i]
                 was == m.began[row.prober]
             IN  /\ row.result.round >= was.round
                 /\ m.plan # "live" /\ row.prober \notin m.saved => row.result = was
  <2>1. PICK row, was : row = m.rows[i] /\ was = m.began[row.prober]
    OBVIOUS
  <2>2. i \in 1 .. Len(m.rows) /\ row \in Message
    BY <1>2, <2>1, LenProperties, ElementOfSeq DEF RowsTold
  <2>3. row.prober \in Probers /\ row.result \in Results
    BY <2>2 DEF Message
  <2>4. was \in Results \cup {Nil}
    BY <1>2, <2>1, <2>3 DEF Recalls
  <2>5. row.result.round \in Int /\ was.round \in Int
    BY <2>3, <2>4, RoundsAre
  <2>6. /\ was.round <= row.result.round
        /\ m.plan # "live" /\ row.prober \notin m.saved => row.result = was
    BY <1>2, <2>1, <2>2 DEF RowsTold, RowTold
  <2>7. row.result.round >= was.round
    BY <2>5, <2>6
  <2> QED BY <2>1, <2>6, <2>7
<1> QED BY <1>1, <1>3 DEF RowsAsSaved

\* For any probers, filters, sizes of pages and of sections, a page and a
\* report show each prober as it was when the reader began or as saved since;
\* a page has the matches that the numbering of all of them puts on it; and
\* the parts of a report, put together, have every prober in its place
\* (SLAFilter.Filter, NewEmbeds, SLASlack, splitMessage).
THEOREM ShownRight == Spec => []ShownAsSaved
<1>1. Told => ShownAsSaved
  <2> SUFFICES ASSUME Told PROVE ShownAsSaved
    OBVIOUS
  <2>1. ASSUME NEW n \in Notifiers, job[n].at = "send" PROVE ReportComplete(n)
    <3>1. Whole(n, job[n].text)
      BY <2>1 DEF Told, JobsTold, JobTold
    <3> QED BY <3>1 DEF Whole, Column, Order, ReportComplete
  <2> QED BY <2>1, PageTold, RowsAreTold DEF ShownAsSaved
<1> QED BY <1>1, InitTold, NextTold, PTL DEF Spec
=============================================================================
