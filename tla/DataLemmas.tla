----------------------------- MODULE DataLemmas -----------------------------
(***************************************************************************)
(* Lemmas about the data the models are built from, cited by the proofs    *)
(* about them: induction over the naturals; a status counter, which        *)
(* AppendStatus and SetMaxLen keep in agreement with its own history for   *)
(* every length it is ever given; and the counters of an outage, by the    *)
(* cases of ProcessStatus.                                                 *)
(***************************************************************************)
EXTENDS StatusCounter, NotificationStrategy, SequenceTheorems,
        WellFoundedInduction, TLAPS

\* Every set of naturals has a least element, if any.
LEMMA Least ==
  ASSUME NEW T, T \subseteq Nat, T # {}
  PROVE  \E m \in T : \A k \in T : m <= k
<1> DEFINE R == OpToRel(<, Nat)
<1>1. IsWellFoundedOn(R, Nat)
  BY NatLessThanWellFounded
<1>2. \A x, y \in Nat : <<y, x>> \in R <=> y < x
  BY DEF OpToRel
<1> HIDE DEF R
<1>3. PICK m \in T : \A k \in T : ~ (<<k, m>> \in R)
  BY <1>1, WFMin
<1>4. \A k \in T : m <= k
  <2> SUFFICES ASSUME NEW k \in T PROVE m <= k
    OBVIOUS
  <2>1. k \in Nat /\ m \in Nat /\ ~ (k < m)
    BY <1>2, <1>3
  <2> QED BY <2>1
<1> QED BY <1>4

\* Induction, for the property that holds of the elements of a set.
LEMMA Induct ==
  ASSUME NEW S, 0 \in S, \A n \in Nat : n \in S => n + 1 \in S
  PROVE  Nat \subseteq S
<1> SUFFICES ASSUME Nat \ S # {} PROVE FALSE
  OBVIOUS
<1>1. PICK m \in Nat \ S : \A k \in Nat \ S : m <= k
  BY Least
<1>2. m # 0 /\ m - 1 \in Nat /\ m - 1 \in S
  BY <1>1
<1> QED BY <1>1, <1>2

\* The recursive function inside FlattenSeq, of the sequences joined so far,
\* exists: what CHOOSE picks there satisfies its equation.
LEMMA FlattenExists ==
  ASSUME NEW s, Len(s) \in Nat \ {0}
  PROVE  \E f : f = [i \in 1 .. Len(s) |-> IF i = 1 THEN s[i] ELSE f[i - 1] \o s[i]]
<1> DEFINE Eq(f, n) == f = [i \in 1 .. n |-> IF i = 1 THEN s[i] ELSE f[i - 1] \o s[i]]
           S == { n \in Nat : n = 0 \/ \E f : Eq(f, n) }
<1>1. 0 \in S
  OBVIOUS
<1>2. ASSUME NEW n \in Nat, n \in S PROVE n + 1 \in S
  <2>1. CASE n = 0
    <3>1. Eq([i \in 1 .. 1 |-> s[1]], 1)
      OBVIOUS
    <3> HIDE DEF Eq
    <3> QED BY <2>1, <3>1
  <2>2. CASE n # 0
    <3>1. PICK f : Eq(f, n)
      BY <1>2, <2>2
    <3> DEFINE g == [i \in 1 .. n + 1 |-> IF i <= n THEN f[i] ELSE f[n] \o s[n + 1]]
    <3>2. \A i \in 1 .. n : f[i] = IF i = 1 THEN s[i] ELSE f[i - 1] \o s[i]
      BY <3>1
    <3>3. ASSUME NEW i \in 1 .. n + 1
          PROVE  g[i] = IF i = 1 THEN s[i] ELSE g[i - 1] \o s[i]
      <4>1. CASE i = n + 1
        BY <2>2, <4>1
      <4>2. CASE i \in 1 .. n
        <5>1. g[i] = f[i] /\ (i # 1 => g[i - 1] = f[i - 1])
          BY <4>2
        <5> QED BY <3>2, <4>2, <5>1
      <4> QED BY <4>1, <4>2
    <3>4. Eq(g, n + 1)
      BY <3>3
    <3> HIDE DEF Eq, g
    <3> QED BY <3>4
  <2> QED BY <2>1, <2>2
<1> HIDE DEF S
<1>3. Len(s) \in S
  BY <1>1, <1>2, Induct
<1> QED BY <1>3 DEF S

\* A sequence is its pieces put together, f[i] being the first i of them,
\* where c[i] is how long those are.
Cuts(S, s, m, c, f) ==
  /\ s \in Seq(S) /\ m \in Nat \ {0} /\ c \in [0 .. m -> Nat]
  /\ c[0] = 0 /\ c[m] = Len(s)
  /\ \A i \in 1 .. m : c[i - 1] <= c[i] /\ c[i] <= Len(s)
  /\ f[1] = SubSeq(s, 1, c[1])
  /\ \A i \in 2 .. m : f[i] = f[i - 1] \o SubSeq(s, c[i - 1] + 1, c[i])

LEMMA Pieces ==
  ASSUME NEW S, NEW s, NEW m, NEW c, NEW f, Cuts(S, s, m, c, f)
  PROVE  f[m] = s
<1> USE DEF Cuts
<1>1. Len(s) \in Nat /\ \A i \in 1 .. Len(s) : s[i] \in S
  BY LenProperties, ElementOfSeq
<1> DEFINE T == { i \in Nat : i + 1 <= m => f[i + 1] = SubSeq(s, 1, c[i + 1]) }
<1>2. 0 \in T
  OBVIOUS
<1>3. ASSUME NEW i \in Nat, i \in T PROVE i + 1 \in T
  <2> SUFFICES ASSUME (i + 1) + 1 <= m
               PROVE  f[(i + 1) + 1] = SubSeq(s, 1, c[(i + 1) + 1])
    OBVIOUS
  <2>1. PICK k, l : k = i + 1 /\ l = k + 1
    OBVIOUS
  <2>2. k \in 1 .. m /\ l \in 2 .. m /\ l - 1 = k /\ k \in 0 .. m /\ l \in 0 .. m
        /\ l \in 1 .. m
    BY <2>1
  <2>3. f[k] = SubSeq(s, 1, c[k])
    BY <1>3, <2>1, <2>2
  <2>4. f[l] = f[k] \o SubSeq(s, c[k] + 1, c[l])
    BY <2>2
  <2>5. PICK a, b : a = c[k] /\ b = c[l]
    OBVIOUS
  <2>6. a \in Nat /\ b \in Nat /\ a <= b /\ b <= Len(s)
    BY <2>2, <2>5
  <2>7. SubSeq(s, 1, a) \o SubSeq(s, a + 1, b) = SubSeq(s, 1, b)
    <3>1. 1 \in 1 .. Len(s) + 1 /\ a \in 1 - 1 .. Len(s) /\ b \in a .. Len(s)
      BY <1>1, <2>6
    <3> QED BY <3>1, ConcatAdjacentSubSeq
  <2> QED BY <2>1, <2>3, <2>4, <2>5, <2>7
<1> HIDE DEF T
<1>4. m - 1 \in T
  <2>1. Nat \subseteq T
    BY <1>2, <1>3, Induct
  <2>2. m - 1 \in Nat
    OBVIOUS
  <2> QED BY <2>1, <2>2
<1>5. f[m] = SubSeq(s, 1, Len(s))
  <2>1. (m - 1) + 1 = m
    OBVIOUS
  <2> QED BY <1>4, <2>1 DEF T
<1> QED BY <1>5, SubSeqFull

-----------------------------------------------------------------------------
\* A counter that has counted nothing has recorded nothing: without it the
\* first outcome after a change could not be told from the one before.
Sound(c) == MatchesHistory(c) /\ (c.count = 0 => c.history = << >>)

LEMMA NewCounterSound ==
  ASSUME NEW maxLen \in Nat \ {0}
  PROVE  LET c == NewStatusCounter(maxLen) IN
         /\ c \in StatusCounterData /\ Sound(c)
         /\ c.maxLen = maxLen /\ c.count = 0 /\ c.current = TRUE
<1> DEFINE c == NewStatusCounter(maxLen)
<1>1. /\ c \in StatusCounterData /\ c.history = << >>
      /\ c.maxLen = maxLen /\ c.count = 0 /\ c.current = TRUE
  BY EmptySeq DEF NewStatusCounter, StatusCounterData
<1>2. Len(c.history) = 0
  BY <1>1, EmptySeq
<1>3. Sound(c)
  BY <1>1, <1>2 DEF Sound, MatchesHistory
<1> QED BY <1>1, <1>3

\* The newest elements of a sequence, n of them.
LEMMA Newest ==
  ASSUME NEW q \in Seq(BOOLEAN), NEW n \in 0 .. Len(q)
  PROVE  LET s == SubSeq(q, Len(q) - n + 1, Len(q)) IN
         /\ s \in Seq(BOOLEAN) /\ Len(s) = n
         /\ \A i \in 1 .. n : s[i] = q[Len(q) - n + i]
<1>1. Len(q) \in Nat
  BY LenProperties
<1> DEFINE s == SubSeq(q, Len(q) - n + 1, Len(q))
<1>2. \A i \in Len(q) - n + 1 .. Len(q) : q[i] \in BOOLEAN
  BY <1>1, ElementOfSeq
<1>3. /\ s \in Seq(BOOLEAN) /\ Len(s) = n
      /\ \A i \in 1 .. n : s[i] = q[(Len(q) - n + 1) + i - 1]
  BY <1>1, <1>2, SubSeqProperties
<1>4. \A i \in 1 .. n : (Len(q) - n + 1) + i - 1 = Len(q) - n + i
  BY <1>1
<1> HIDE DEF s
<1> QED BY <1>3, <1>4 DEF s

\* A new length cuts the history to its newest outcomes and leaves the rest.
LEMMA SetMaxLenSound ==
  ASSUME NEW c \in StatusCounterData, Sound(c), NEW maxLen \in Nat \ {0}
  PROVE  LET d == SetMaxLen(c, maxLen) IN
         /\ d \in StatusCounterData /\ Sound(d)
         /\ d.maxLen = maxLen /\ d.count = c.count /\ d.current = c.current
<1> DEFINE h == c.history
           cut == IF Len(h) > maxLen
                  THEN SubSeq(h, Len(h) - maxLen + 1, Len(h)) ELSE h
           d == SetMaxLen(c, maxLen)
<1>1. /\ h \in Seq(BOOLEAN) /\ Len(h) \in Nat /\ c.count \in Nat
      /\ c.current \in BOOLEAN /\ c.maxLen \in Nat \ {0}
  BY LenProperties DEF StatusCounterData
<1>2. PICK n \in 0 .. Len(h) :
        /\ n <= maxLen /\ (n = 0 => Len(h) = 0)
        /\ cut \in Seq(BOOLEAN) /\ Len(cut) = n
        /\ \A i \in 1 .. n : cut[i] = h[Len(h) - n + i]
  <2>1. CASE Len(h) > maxLen
    <3>1. maxLen \in 0 .. Len(h) /\ maxLen <= maxLen /\ maxLen # 0
      BY <1>1, <2>1
    <3>2. /\ cut \in Seq(BOOLEAN) /\ Len(cut) = maxLen
          /\ \A i \in 1 .. maxLen : cut[i] = h[Len(h) - maxLen + i]
      BY <1>1, <2>1, <3>1, Newest
    <3> HIDE DEF cut
    <3> QED BY <3>1, <3>2
  <2>2. CASE ~ (Len(h) > maxLen)
    <3>1. Len(h) \in 0 .. Len(h) /\ Len(h) <= maxLen
      BY <1>1, <2>2
    <3>2. \A i \in 1 .. Len(h) : cut[i] = h[Len(h) - Len(h) + i]
      BY <1>1, <2>2
    <3> QED BY <1>1, <2>2, <3>1, <3>2
  <2> QED BY <2>1, <2>2
<1>3. /\ d \in StatusCounterData /\ d.history = cut /\ d.maxLen = maxLen
      /\ d.count = c.count /\ d.current = c.current
  <2>1. d = [c EXCEPT !.maxLen = maxLen, !.history = cut]
    BY DEF SetMaxLen
  <2> HIDE DEF d, cut
  <2> QED BY <1>2, <2>1 DEF StatusCounterData
<1> HIDE DEF d, cut
<1>4. MatchesHistory(d)
  <2>1. Len(cut) = n /\ n \in Nat /\ n <= Len(h)
    BY <1>1, <1>2
  <2>2. ASSUME NEW i \in 1 .. n, i > n - c.count
        PROVE  cut[i] = c.current
    <3>1. Len(h) - n + i \in 1 .. Len(h) /\ Len(h) - n + i > Len(h) - c.count
      BY <1>1, <2>1, <2>2
    <3>2. h[Len(h) - n + i] = c.current
      BY <3>1 DEF Sound, MatchesHistory
    <3> QED BY <1>2, <3>2
  <2>3. ASSUME 0 < c.count, c.count < n
        PROVE  cut[n - c.count] # c.current
    <3>1. n - c.count \in 1 .. n /\ Len(h) - n + (n - c.count) = Len(h) - c.count
          /\ c.count < Len(h)
      <4>1. Len(h) \in Nat /\ c.count \in Nat
        BY <1>1
      <4> HIDE DEF h
      <4> QED BY <4>1, <2>1, <2>3
    <3>2. h[Len(h) - c.count] # c.current
      BY <2>3, <3>1 DEF Sound, MatchesHistory
    <3> QED BY <1>2, <3>1, <3>2
  <2> QED BY <1>2, <1>3, <2>1, <2>2, <2>3 DEF MatchesHistory
<1>5. d.count = 0 => d.history = << >>
  <2>1. c.count = 0 => Len(h) = 0
    BY EmptySeq DEF Sound
  <2> QED BY <1>2, <1>3, <2>1, EmptySeq
<1> QED BY <1>3, <1>4, <1>5 DEF Sound, d

\* One outcome: the capped count and the shortened history stay in step.
LEMMA AppendStatusSound ==
  ASSUME NEW c \in StatusCounterData, Sound(c), NEW ok \in BOOLEAN
  PROVE  LET d == AppendStatus(c, ok) IN
         /\ d \in StatusCounterData /\ Sound(d)
         /\ d.maxLen = c.maxLen /\ d.current = ok /\ d.count > 0
         /\ ok # c.current => d.count = 1
         /\ ok = c.current /\ c.count < c.maxLen => d.count = c.count + 1
         /\ ok = c.current /\ c.count >= c.maxLen => d.count = c.count
<1> DEFINE h    == c.history
           run  == IF ok # c.current THEN 0 ELSE c.count
           m    == IF run < c.maxLen THEN run + 1 ELSE run
           full == Append(h, ok)
           kept == IF Len(full) > c.maxLen THEN Tail(full) ELSE full
           d    == AppendStatus(c, ok)
<1>1. /\ h \in Seq(BOOLEAN) /\ Len(h) \in Nat /\ c.count \in Nat
      /\ c.current \in BOOLEAN /\ c.maxLen \in Nat \ {0}
      /\ Len(h) <= c.maxLen
  BY LenProperties DEF StatusCounterData, Sound, MatchesHistory
<1>2. /\ m \in Nat \ {0}
      /\ ok # c.current => m = 1
      /\ ok = c.current /\ c.count < c.maxLen => m = c.count + 1
      /\ ok = c.current /\ c.count >= c.maxLen => m = c.count
  BY <1>1
<1>3. /\ full \in Seq(BOOLEAN) /\ full # << >> /\ Len(full) = Len(h) + 1
      /\ \A i \in 1 .. Len(h) : full[i] = h[i]
      /\ full[Len(h) + 1] = ok
  BY <1>1, AppendProperties
<1> HIDE DEF full
<1>4. \/ /\ Len(h) < c.maxLen /\ kept = full /\ Len(kept) = Len(h) + 1
         /\ kept \in Seq(BOOLEAN)
      \/ /\ Len(h) = c.maxLen /\ Len(kept) = Len(h)
         /\ kept \in Seq(BOOLEAN)
         /\ \A i \in 1 .. Len(h) : kept[i] = full[i + 1]
  <2>1. /\ Tail(full) \in Seq(BOOLEAN) /\ Len(Tail(full)) = Len(h)
        /\ \A i \in 1 .. Len(h) : Tail(full)[i] = full[i + 1]
    <3>1. Len(full) - 1 = Len(h)
      BY <1>1, <1>3
    <3> QED BY <1>3, <3>1, HeadTailProperties
  <2>2. Len(h) < c.maxLen \/ Len(h) = c.maxLen
    BY <1>1
  <2>3. CASE Len(h) < c.maxLen
    <3>1. ~ (Len(full) > c.maxLen)
      BY <1>1, <1>3, <2>3
    <3> QED BY <1>3, <2>3, <3>1
  <2>4. CASE Len(h) = c.maxLen
    <3>1. Len(full) > c.maxLen
      BY <1>1, <1>3, <2>4
    <3>2. kept = Tail(full)
      BY <3>1
    <3> HIDE DEF kept
    <3> QED BY <2>1, <2>4, <3>2
  <2> QED BY <2>2, <2>3, <2>4
<1>5. /\ d \in StatusCounterData /\ d.history = kept /\ d.maxLen = c.maxLen
      /\ d.count = m /\ d.current = ok
  <2>1. d = [c EXCEPT !.current = ok, !.count = m, !.history = kept]
    BY DEF AppendStatus, full
  <2> HIDE DEF d, kept, m
  <2> QED BY <1>2, <1>4, <2>1 DEF StatusCounterData
<1> HIDE DEF d, kept, m
<1>6. PICK o \in {0, 1} :
        /\ Len(kept) = Len(h) + 1 - o
        /\ Len(kept) \in 1 .. c.maxLen
        /\ \A i \in 1 .. Len(kept) : kept[i] = full[i + o]
        /\ o = 1 => Len(h) = c.maxLen
  BY <1>1, <1>4
<1>7. kept[Len(kept)] = ok
  <2>1. Len(kept) \in 1 .. Len(kept) /\ Len(kept) + o = Len(h) + 1
    BY <1>1, <1>6
  <2> QED BY <1>3, <1>6, <2>1
<1>8. \A i \in 1 .. Len(kept) - 1 : i + o \in 1 .. Len(h) /\ kept[i] = h[i + o]
  <2>1. \A i \in 1 .. Len(kept) - 1 : i + o \in 1 .. Len(h)
    BY <1>1, <1>6
  <2>2. \A i \in 1 .. Len(kept) - 1 : i \in 1 .. Len(kept)
    BY <1>1, <1>6
  <2> QED BY <1>3, <1>6, <2>1, <2>2
<1>9. \A i \in 1 .. Len(kept) : i > Len(kept) - m => kept[i] = ok
  <2> SUFFICES ASSUME NEW i \in 1 .. Len(kept) - 1, i > Len(kept) - m
               PROVE  kept[i] = ok
    BY <1>6, <1>7
  <2>1. ok = c.current
    BY <1>1, <1>2, <1>6
  <2>2. i + o > Len(h) - c.count
    BY <1>1, <1>2, <1>6, <2>1
  <2> QED BY <1>8, <2>1, <2>2 DEF Sound, MatchesHistory
<1>10. ASSUME 0 < m, m < Len(kept) PROVE kept[Len(kept) - m] # ok
  <2>1. Len(kept) - m \in 1 .. Len(kept) - 1
    BY <1>2, <1>6, <1>10
  <2>2. CASE ok # c.current
    <3>1. m = 1 /\ Len(kept) - 1 + o = Len(h)
      BY <1>1, <1>2, <1>6, <2>2
    <3>2. kept[Len(kept) - m] = h[Len(h)] /\ Len(h) \in 1 .. Len(h)
      BY <1>1, <1>8, <2>1, <3>1
    <3>3. c.count # 0
      BY <3>2, <1>1, EmptySeq DEF Sound
    <3>4. h[Len(h)] = c.current
      BY <1>1, <3>2, <3>3 DEF Sound, MatchesHistory
    <3> QED BY <2>2, <3>2, <3>4
  <2>3. CASE ok = c.current
    <3>1. c.count < c.maxLen /\ m = c.count + 1
      BY <1>1, <1>2, <1>6, <1>10, <2>3
    <3>2. Len(kept) - m + o = Len(h) - c.count /\ c.count < Len(h)
      <4>1. Len(h) \in Nat /\ c.count \in Nat /\ Len(kept) = Len(h) + 1 - o
            /\ m < Len(kept) /\ o \in {0, 1}
        BY <1>1, <1>6, <1>10
      <4> HIDE DEF h
      <4> QED BY <4>1, <3>1
    <3>3. kept[Len(kept) - m] = h[Len(h) - c.count]
      BY <1>8, <2>1, <3>2
    <3>4. c.count # 0
      BY <1>1, <3>2, EmptySeq DEF Sound
    <3>5. h[Len(h) - c.count] # c.current
      BY <1>1, <3>2, <3>4 DEF Sound, MatchesHistory
    <3> QED BY <2>3, <3>3, <3>5
  <2> QED BY <2>2, <2>3
<1>11. Sound(d)
  <2>1. MatchesHistory(d)
    BY <1>5, <1>6, <1>9, <1>10 DEF MatchesHistory
  <2> QED BY <1>2, <1>5, <2>1 DEF Sound
<1> QED BY <1>1, <1>2, <1>5, <1>11 DEF d

-----------------------------------------------------------------------------
\* What one round does to the counters, by cases of ProcessStatus.
LEMMA FailedRound ==
  ASSUME NEW n \in NotificationStrategyData
  PROVE  LET r == ProcessStatus(n, FALSE) IN
         /\ r \in NotificationStrategyData
         /\ r.strategy = n.strategy /\ r.factor = n.factor
         /\ r.maxTimes = n.maxTimes /\ r.failed = n.failed + 1
         /\ n.failed + 1 < n.next =>
              /\ r.notified = n.notified /\ r.next = n.next
              /\ r.interval = n.interval /\ r.isSent = FALSE
         /\ n.failed + 1 >= n.next /\ n.notified + 1 > n.maxTimes =>
              /\ r.notified = n.notified + 1 /\ r.isSent = FALSE
         /\ n.failed + 1 >= n.next /\ n.notified + 1 <= n.maxTimes =>
              /\ r.notified = n.notified + 1 /\ r.isSent = TRUE
              /\ r.next = r.failed + r.interval
              /\ n.strategy = "regular" => r.interval = n.factor
              /\ n.strategy = "increment" => r.interval = n.interval + n.factor
              /\ n.strategy = "exponent" =>
                   r.interval = (n.failed + 1) * n.factor
<1> DEFINE failing == [n EXCEPT !.isSent = FALSE, !.failed = @ + 1]
           due     == [failing EXCEPT !.notified = @ + 1]
           alerted == [NextNotification(due) EXCEPT !.isSent = TRUE]
<1>1. /\ failing \in NotificationStrategyData
      /\ due \in NotificationStrategyData
      /\ failing.failed = n.failed + 1 /\ failing.next = n.next
      /\ failing.notified = n.notified /\ failing.interval = n.interval
      /\ failing.isSent = FALSE /\ due.isSent = FALSE
      /\ failing.strategy = n.strategy /\ due.strategy = n.strategy
      /\ failing.factor = n.factor /\ due.factor = n.factor
      /\ failing.maxTimes = n.maxTimes /\ due.maxTimes = n.maxTimes
      /\ due.notified = n.notified + 1 /\ due.failed = n.failed + 1
      /\ due.next = n.next /\ due.interval = n.interval
  <2>1. /\ failing \in NotificationStrategyData
        /\ failing.failed = n.failed + 1 /\ failing.next = n.next
        /\ failing.notified = n.notified /\ failing.interval = n.interval
        /\ failing.isSent = FALSE /\ failing.strategy = n.strategy
        /\ failing.factor = n.factor /\ failing.maxTimes = n.maxTimes
    <3> DEFINE quiet == [n EXCEPT !.isSent = FALSE]
    <3>1. /\ quiet \in NotificationStrategyData
          /\ quiet.failed = n.failed /\ quiet.next = n.next
          /\ quiet.notified = n.notified /\ quiet.interval = n.interval
          /\ quiet.isSent = FALSE /\ quiet.strategy = n.strategy
          /\ quiet.factor = n.factor /\ quiet.maxTimes = n.maxTimes
      BY DEF NotificationStrategyData
    <3>2. failing = [quiet EXCEPT !.failed = n.failed + 1]
      BY DEF NotificationStrategyData
    <3> HIDE DEF quiet, failing
    <3> QED BY <3>1, <3>2 DEF NotificationStrategyData
  <2> HIDE DEF failing
  <2>2. /\ due \in NotificationStrategyData
        /\ due.failed = failing.failed /\ due.next = failing.next
        /\ due.notified = failing.notified + 1
        /\ due.interval = failing.interval
        /\ due.isSent = failing.isSent /\ due.strategy = failing.strategy
        /\ due.factor = failing.factor /\ due.maxTimes = failing.maxTimes
    BY <2>1 DEF NotificationStrategyData
  <2> QED BY <2>1, <2>2
<1>2. NextInterval(due) \in Nat
  <2>1. due.strategy \in Strategies /\ due.factor \in Nat
        /\ due.interval \in Nat /\ due.failed \in Nat
    BY <1>1 DEF NotificationStrategyData
  <2>2. due.failed * due.factor \in Nat
    BY <2>1
  <2> QED BY <2>1, <2>2 DEF NextInterval, Strategies
<1>3. /\ alerted \in NotificationStrategyData
      /\ alerted.isSent = TRUE /\ alerted.notified = n.notified + 1
      /\ alerted.failed = n.failed + 1 /\ alerted.strategy = n.strategy
      /\ alerted.factor = n.factor /\ alerted.maxTimes = n.maxTimes
      /\ alerted.interval = NextInterval(due)
      /\ alerted.next = alerted.failed + alerted.interval
  <2> DEFINE waiting == [due EXCEPT !.interval = NextInterval(due)]
  <2>1. /\ waiting \in NotificationStrategyData
        /\ waiting.failed = due.failed /\ waiting.notified = due.notified
        /\ waiting.strategy = due.strategy /\ waiting.factor = due.factor
        /\ waiting.maxTimes = due.maxTimes
        /\ waiting.interval = NextInterval(due)
    <3> HIDE DEF due
    <3> QED BY <1>1, <1>2 DEF NotificationStrategyData
  <2>2. NextNotification(due) =
          [waiting EXCEPT !.next = due.failed + NextInterval(due)]
    <3> HIDE DEF due
    <3> QED BY <1>1 DEF NextNotification, NotificationStrategyData
  <2>3. due.failed + NextInterval(due) \in Nat
    <3>1. due.failed \in Nat
      BY <1>1 DEF NotificationStrategyData
    <3> HIDE DEF due
    <3> QED BY <1>2, <3>1
  <2> DEFINE planned == NextNotification(due)
  <2>4. /\ planned \in NotificationStrategyData
        /\ planned.failed = due.failed /\ planned.notified = due.notified
        /\ planned.strategy = due.strategy /\ planned.factor = due.factor
        /\ planned.maxTimes = due.maxTimes
        /\ planned.interval = NextInterval(due)
        /\ planned.next = due.failed + NextInterval(due)
    <3> HIDE DEF due, waiting
    <3> QED BY <2>1, <2>2, <2>3 DEF NotificationStrategyData
  <2>5. alerted = [planned EXCEPT !.isSent = TRUE]
    OBVIOUS
  <2> HIDE DEF planned, alerted, due
  <2>6. /\ alerted \in NotificationStrategyData
        /\ alerted.failed = planned.failed
        /\ alerted.notified = planned.notified
        /\ alerted.strategy = planned.strategy
        /\ alerted.factor = planned.factor
        /\ alerted.maxTimes = planned.maxTimes
        /\ alerted.interval = planned.interval
        /\ alerted.next = planned.next /\ alerted.isSent = TRUE
    BY <2>4, <2>5 DEF NotificationStrategyData
  <2> QED BY <1>1, <2>4, <2>6
<1>4. ProcessStatus(n, FALSE) =
        IF failing.failed < failing.next THEN failing
        ELSE IF due.notified > due.maxTimes THEN due ELSE alerted
  BY DEF ProcessStatus, IsExceedMaxTimes
<1>5. /\ n.strategy = "regular" => NextInterval(due) = n.factor
      /\ n.strategy = "increment" => NextInterval(due) = n.interval + n.factor
      /\ n.strategy = "exponent" =>
           NextInterval(due) = (n.failed + 1) * n.factor
  BY <1>1 DEF NextInterval
<1>6. n.failed \in Nat /\ n.next \in Nat /\ n.notified \in Nat
      /\ n.maxTimes \in Nat
  BY DEF NotificationStrategyData
<1> HIDE DEF failing, due, alerted
<1> DEFINE r == ProcessStatus(n, FALSE)
<1>7. r = IF n.failed + 1 < n.next THEN failing
          ELSE IF n.notified + 1 > n.maxTimes THEN due ELSE alerted
  BY <1>1, <1>4
<1>8. /\ n.failed + 1 >= n.next => ~ (n.failed + 1 < n.next)
      /\ n.notified + 1 <= n.maxTimes => ~ (n.notified + 1 > n.maxTimes)
  BY <1>6
<1> HIDE DEF r
<1>9. n.failed + 1 < n.next => r = failing
  BY <1>7
<1>10. n.failed + 1 >= n.next /\ n.notified + 1 > n.maxTimes => r = due
  BY <1>6, <1>7, <1>8
<1>11. n.failed + 1 >= n.next /\ n.notified + 1 <= n.maxTimes => r = alerted
  BY <1>6, <1>7, <1>8
<1>12. \/ n.failed + 1 < n.next
       \/ n.failed + 1 >= n.next /\ n.notified + 1 > n.maxTimes
       \/ n.failed + 1 >= n.next /\ n.notified + 1 <= n.maxTimes
  BY <1>6
<1>13. /\ r \in NotificationStrategyData
       /\ r.strategy = n.strategy /\ r.factor = n.factor
       /\ r.maxTimes = n.maxTimes /\ r.failed = n.failed + 1
  BY <1>1, <1>3, <1>9, <1>10, <1>11, <1>12
<1>14. n.failed + 1 < n.next =>
         /\ r.notified = n.notified /\ r.next = n.next
         /\ r.interval = n.interval /\ r.isSent = FALSE
  BY <1>1, <1>9
<1>15. n.failed + 1 >= n.next /\ n.notified + 1 > n.maxTimes =>
         /\ r.notified = n.notified + 1 /\ r.isSent = FALSE
  BY <1>1, <1>10
<1>16. n.failed + 1 >= n.next /\ n.notified + 1 <= n.maxTimes =>
         /\ r.notified = n.notified + 1 /\ r.isSent = TRUE
         /\ r.next = r.failed + r.interval
         /\ n.strategy = "regular" => r.interval = n.factor
         /\ n.strategy = "increment" => r.interval = n.interval + n.factor
         /\ n.strategy = "exponent" => r.interval = (n.failed + 1) * n.factor
  BY <1>3, <1>5, <1>11
<1> QED BY <1>13, <1>14, <1>15, <1>16 DEF r

\* An up round ends the outage.
LEMMA UpRound ==
  ASSUME NEW n \in NotificationStrategyData
  PROVE  LET r == ProcessStatus(n, TRUE) IN
         /\ r \in NotificationStrategyData
         /\ r.strategy = n.strategy /\ r.factor = n.factor
         /\ r.maxTimes = n.maxTimes /\ r.failed = 0 /\ r.notified = 0
         /\ r.next = 1 /\ r.interval = 0
  BY DEF ProcessStatus, Reset, NotificationStrategyData
=============================================================================
