--------------------------- MODULE EaseProbe_proofs ---------------------------
(***************************************************************************)
(* Proofs about EaseProbe, for all probers, channels and assignments of    *)
(* channels.  The wait groups count themselves only once their goroutines  *)
(* run, so what exit() waits for follows from counting: Inv says of each   *)
(* group, and of the done signals, which goroutines its number stands for. *)
(***************************************************************************)
EXTENDS EaseProbe, FiniteSetTheorems, SequenceTheorems, TLAPS

MainSteps ==
  {"running", "tellProbers", "waitProbers", "tellChannels", "waitWatchers",
   "tellSaver", "tellRotator", "exited"}

WatcherSteps == {"created", "selecting", "returning", "exited"}

Counted  == { p \in Probers : Active(p) }
Left     == { p \in Probers : prober[p] # "exited" }
Watching == { c \in Channels : watcher[c] \in {"selecting", "returning"} }

Told(c) == watcher[c] \in {"returning", "exited"}

\* The types the counting needs.
Typed ==
  /\ main \in MainSteps /\ toTell \in Nat /\ doneProbe \in Nat
  /\ channelsLeft \subseteq Channels
  /\ prober \in [Probers -> ProberSteps] /\ watcher \in [Channels -> WatcherSteps]

\* What the numbers stand for.
Counts ==
  /\ wg = Cardinality(Counted)
  /\ watchers = Cardinality(Watching)
  /\ main = "running" => toTell = 0 /\ doneProbe = 0

\* The watchers that have been told to stop.
ToldInTurn ==
  /\ main = "tellChannels" => \A c \in Channels \ channelsLeft : Told(c)
  /\ main \in {"waitWatchers", "tellSaver", "tellRotator", "exited"} =>
       \A c \in Channels : Told(c)

Inv ==
  Typed /\ Counts /\ ToldInTurn /\ SignalsMatchProbers /\ StoppedInOrder /\ WatchersStopped

-----------------------------------------------------------------------------
\* The place of each step in exit().
LEMMA Places ==
  /\ StepOf("tellProbers") = 1 /\ StepOf("waitProbers") = 2
  /\ StepOf("tellChannels") = 3 /\ StepOf("waitWatchers") = 4
  /\ StepOf("tellSaver") = 5 /\ StepOf("tellRotator") = 6 /\ StepOf("exited") = 7
<1>1. /\ Len(StopOrder) = 7
      /\ StopOrder[1] = "tellProbers" /\ StopOrder[2] = "waitProbers"
      /\ StopOrder[3] = "tellChannels" /\ StopOrder[4] = "waitWatchers"
      /\ StopOrder[5] = "tellSaver" /\ StopOrder[6] = "tellRotator"
      /\ StopOrder[7] = "exited"
  BY DEF StopOrder
<1>2. 1 .. 7 = {1, 2, 3, 4, 5, 6, 7}
  OBVIOUS
<1>3. ASSUME NEW k \in 1 .. 7 PROVE StepOf(StopOrder[k]) = k
  <2>1. \A i \in 1 .. 7 : StopOrder[i] = StopOrder[k] => i = k
    BY <1>1, <1>2
  <2> QED BY <1>1, <2>1 DEF StepOf
<1> QED BY <1>1, <1>2, <1>3

\* Which steps come after the waits.
LEMMA PastWaits ==
  ASSUME NEW m \in MainSteps
  PROVE  /\ (m # "running" /\ StepOf(m) > StepOf("waitProbers")) <=>
              m \in {"tellChannels", "waitWatchers", "tellSaver", "tellRotator", "exited"}
         /\ (m # "running" /\ StepOf(m) > StepOf("waitWatchers")) <=>
              m \in {"tellSaver", "tellRotator", "exited"}
  BY Places DEF MainSteps

\* Where main goes on to.
LEMMA Proceeds ==
  ASSUME Proceed
  PROVE  /\ main = "tellProbers" => main' = "waitProbers"
         /\ main = "waitProbers" => main' = "tellChannels"
         /\ main = "tellChannels" => main' = "waitWatchers"
         /\ main = "waitWatchers" => main' = "tellSaver"
         /\ main = "tellSaver" => main' = "tellRotator"
         /\ main = "tellRotator" => main' = "exited"
<1>1. /\ StopOrder[2] = "waitProbers" /\ StopOrder[3] = "tellChannels"
      /\ StopOrder[4] = "waitWatchers" /\ StopOrder[5] = "tellSaver"
      /\ StopOrder[6] = "tellRotator" /\ StopOrder[7] = "exited"
  BY DEF StopOrder
<1>2. main' = StopOrder[StepOf(main) + 1]
  BY DEF Proceed
<1> QED BY <1>1, <1>2, Places

\* Sets that an element joins or leaves, and their numbers.
LEMMA Joins ==
  ASSUME NEW S, IsFiniteSet(S), NEW x, x \notin S
  PROVE  Cardinality(S \cup {x}) = Cardinality(S) + 1
  BY FS_AddElement

LEMMA Leaves ==
  ASSUME NEW S, IsFiniteSet(S), NEW x \in S
  PROVE  Cardinality(S \ {x}) = Cardinality(S) - 1
  BY FS_RemoveElement

LEMMA Finite ==
  /\ IsFiniteSet(Counted) /\ IsFiniteSet(Left) /\ IsFiniteSet(Watching)
  /\ Cardinality(Counted) \in Nat /\ Cardinality(Left) \in Nat
  /\ Cardinality(Watching) \in Nat /\ Cardinality(Probers) \in Nat
<1>1. Counted \subseteq Probers /\ Left \subseteq Probers /\ Watching \subseteq Channels
  BY DEF Counted, Left, Watching
<1>2. IsFiniteSet(Probers) /\ IsFiniteSet(Channels)
  BY ProbersAssumption, ChannelsAssumption
<1> QED BY <1>1, <1>2, FS_Subset, FS_CardinalityType

-----------------------------------------------------------------------------

LEMMA InitInv == Init => Inv
<1> SUFFICES ASSUME Init PROVE Inv
  OBVIOUS
<1>1. Typed
  BY DEF Init, Typed, MainSteps, ProberSteps, WatcherSteps
<1>2. Counted = {} /\ Watching = {} /\ Left = Probers
  BY DEF Init, Counted, Active, Watching, Left
<1>3. Counts
  BY <1>2, FS_EmptySet DEF Init, Counts
<1>4. ToldInTurn
  BY DEF Init, ToldInTurn
<1>5. SignalsMatchProbers
  BY <1>2 DEF Init, SignalsMatchProbers, Left
<1>6. StoppedInOrder /\ WatchersStopped
  BY DEF Init, StoppedInOrder, WatchersStopped, Past
<1> QED BY <1>1, <1>3, <1>4, <1>5, <1>6 DEF Inv

\* What Inv says with the waits spelt out.
AfterProbers == {"tellChannels", "waitWatchers", "tellSaver", "tellRotator", "exited"}
AfterWatchers == {"tellSaver", "tellRotator", "exited"}

LEMMA Spelt ==
  ASSUME Typed
  PROVE  /\ StoppedInOrder <=> (main \in AfterProbers => \A p \in Probers : Active(p) => p \in late)
         /\ WatchersStopped <=> (main \in AfterWatchers => \A c \in Channels : watcher[c] = "exited")
         /\ SignalsMatchProbers <=>
              /\ main = "running" => Cardinality(Left) = Cardinality(Probers)
              /\ main # "running" => doneProbe + toTell = Cardinality(Left)
<1>1. main \in MainSteps
  BY DEF Typed
<1>2. (Past("waitProbers") <=> main \in AfterProbers) /\ (Past("waitWatchers") <=> main \in AfterWatchers)
  BY <1>1, PastWaits DEF Past, AfterProbers, AfterWatchers
<1> QED BY <1>2 DEF StoppedInOrder, WatchersStopped, SignalsMatchProbers, Left

LEMMA SpeltNext ==
  ASSUME Typed'
  PROVE  /\ StoppedInOrder' <=> (main' \in AfterProbers => \A p \in Probers : Active(p)' => p \in late')
         /\ WatchersStopped' <=>
              (main' \in AfterWatchers => \A c \in Channels : watcher'[c] = "exited")
         /\ SignalsMatchProbers' <=>
              /\ main' = "running" => Cardinality(Left') = Cardinality(Probers)
              /\ main' # "running" => doneProbe' + toTell' = Cardinality(Left')
<1>1. main' \in MainSteps
  BY DEF Typed
<1>2. (Past("waitProbers")' <=> main' \in AfterProbers) /\ (Past("waitWatchers")' <=> main' \in AfterWatchers)
  BY <1>1, PastWaits DEF Past, AfterProbers, AfterWatchers
<1> QED BY <1>2 DEF StoppedInOrder, WatchersStopped, SignalsMatchProbers, Left

\* Steps of the saver, of the push sink, and of the results on their way.
LEMMA Elsewhere ==
  ASSUME Inv, UNCHANGED <<mainVars, prober, wg, doneProbe, watcherVars, late>>
  PROVE  Inv'
<1>1. /\ main' = main /\ toTell' = toTell /\ channelsLeft' = channelsLeft /\ prober' = prober
      /\ wg' = wg /\ doneProbe' = doneProbe /\ watcher' = watcher /\ watchers' = watchers
      /\ late' = late
  BY DEF mainVars, watcherVars
<1>2. Counted' = Counted /\ Left' = Left /\ Watching' = Watching
  BY <1>1 DEF Counted, Active, Left, Watching
<1>3. Typed' /\ Counts' /\ ToldInTurn'
  BY <1>1, <1>2 DEF Inv, Typed, Counts, ToldInTurn, Told
<1>4. \A p \in Probers : Active(p)' <=> Active(p)
  BY <1>1 DEF Active
<1> HIDE DEF Inv
<1>5. StoppedInOrder' /\ WatchersStopped' /\ SignalsMatchProbers'
  BY <1>1, <1>2, <1>3, <1>4, Spelt, SpeltNext DEF Inv
<1> QED BY <1>3, <1>5 DEF Inv

\* Steps of a prober that stays active: it remains counted.
LEMMA StaysActive ==
  ASSUME Inv, NEW p \in Probers, Active(p), NEW to \in {"probing", "hung", "sending", "selecting"},
         prober' = [prober EXCEPT ![p] = to],
         UNCHANGED <<mainVars, wg, doneProbe, watcherVars, late>>
  PROVE  Inv'
<1>1. /\ main' = main /\ toTell' = toTell /\ channelsLeft' = channelsLeft
      /\ wg' = wg /\ doneProbe' = doneProbe /\ watcher' = watcher /\ watchers' = watchers
      /\ late' = late
  BY DEF mainVars, watcherVars
<1>2. prober \in [Probers -> ProberSteps]
  BY DEF Inv, Typed
<1>3. \A q \in Probers : Active(q)' <=> Active(q)
  BY <1>2 DEF Active
<1>4. \A q \in Probers : prober'[q] = "exited" <=> prober[q] = "exited"
  BY <1>2 DEF Active
<1>5. Counted' = Counted /\ Left' = Left /\ Watching' = Watching
  BY <1>1, <1>3, <1>4 DEF Counted, Left, Watching
<1>6. prober' \in [Probers -> ProberSteps]
  BY <1>2 DEF ProberSteps
<1>7. Typed' /\ Counts' /\ ToldInTurn'
  BY <1>1, <1>5, <1>6 DEF Inv, Typed, Counts, ToldInTurn, Told
<1>8. StoppedInOrder' /\ WatchersStopped' /\ SignalsMatchProbers'
  BY <1>1, <1>3, <1>5, <1>7, Spelt, SpeltNext DEF Inv
<1> QED BY <1>7, <1>8 DEF Inv

\* A prober counts itself, and is late if it has not been waited for.
LEMMA ProberStartsInv ==
  ASSUME Inv, NEW p \in Probers, ProberStarts(p)
  PROVE  Inv'
<1>1. /\ main' = main /\ toTell' = toTell /\ channelsLeft' = channelsLeft
      /\ doneProbe' = doneProbe /\ watcher' = watcher /\ watchers' = watchers
      /\ wg' = wg + 1 /\ prober[p] = "created" /\ prober' = [prober EXCEPT ![p] = "probing"]
      /\ late' = IF Past("waitProbers") THEN late \cup {p} ELSE late
  BY DEF ProberStarts, mainVars, watcherVars
<1>2. prober \in [Probers -> ProberSteps]
  BY DEF Inv, Typed
<1>3. \A q \in Probers : Active(q)' <=> (Active(q) \/ q = p)
  BY <1>1, <1>2 DEF Active
<1>4. p \notin Counted /\ Counted' = Counted \cup {p}
  BY <1>1, <1>3 DEF Counted, Active
<1>5. Left' = Left /\ Watching' = Watching
  BY <1>1, <1>2 DEF Left, Watching
<1>6. Typed'
  BY <1>1, <1>2 DEF Inv, Typed, ProberSteps
<1>7. Counts' /\ ToldInTurn'
  BY <1>1, <1>4, <1>5, Finite, Joins DEF Inv, Counts, ToldInTurn, Told
<1>8. Past("waitProbers") <=> main \in AfterProbers
  BY PastWaits DEF Inv, Typed, Past, AfterProbers
<1>9. StoppedInOrder' /\ WatchersStopped' /\ SignalsMatchProbers'
  BY <1>1, <1>3, <1>5, <1>6, <1>8, Spelt, SpeltNext DEF Inv
<1> QED BY <1>6, <1>7, <1>9 DEF Inv

\* A prober takes a signal and returns: one less of both.
LEMMA ProberDoneInv ==
  ASSUME Inv, NEW p \in Probers, ProberDone(p)
  PROVE  Inv'
<1>1. /\ main' = main /\ toTell' = toTell /\ channelsLeft' = channelsLeft /\ late' = late
      /\ doneProbe > 0 /\ doneProbe' = doneProbe - 1
      /\ watcher' = watcher /\ watchers' = watchers /\ wg' = wg - 1
      /\ prober[p] = "selecting" /\ prober' = [prober EXCEPT ![p] = "exited"]
  BY DEF ProberDone, mainVars, watcherVars
<1>2. prober \in [Probers -> ProberSteps] /\ doneProbe \in Nat /\ toTell \in Nat
  BY DEF Inv, Typed
<1>3. \A q \in Probers : Active(q)' <=> (Active(q) /\ q # p)
  BY <1>1, <1>2 DEF Active
<1>4. p \in Counted /\ Counted' = Counted \ {p}
  BY <1>1, <1>3 DEF Counted, Active
<1>5. p \in Left /\ Left' = Left \ {p} /\ Watching' = Watching
  BY <1>1, <1>2 DEF Left, Watching
<1>6. Typed'
  BY <1>1, <1>2 DEF Inv, Typed, ProberSteps
<1>7. main # "running"
  BY <1>1 DEF Inv, Counts
<1>8. Counts' /\ ToldInTurn'
  BY <1>1, <1>4, <1>5, <1>7, Finite, Leaves DEF Inv, Counts, ToldInTurn, Told
<1>9. Cardinality(Left') = Cardinality(Left) - 1
  BY <1>5, Finite, Leaves
<1>10. doneProbe' + toTell' = Cardinality(Left')
  <2>1. doneProbe + toTell = Cardinality(Left)
    BY <1>7, Spelt DEF Inv
  <2> QED BY <1>1, <1>2, <1>9, <2>1, Finite
<1>11. StoppedInOrder' /\ WatchersStopped' /\ SignalsMatchProbers'
  BY <1>1, <1>3, <1>6, <1>7, <1>10, Spelt, SpeltNext DEF Inv
<1> QED BY <1>6, <1>8, <1>11 DEF Inv

\* A watcher counts itself.
LEMMA WatcherStartsInv ==
  ASSUME Inv, NEW c \in Channels, WatcherStarts(c)
  PROVE  Inv'
<1>1. /\ main' = main /\ toTell' = toTell /\ channelsLeft' = channelsLeft /\ late' = late
      /\ doneProbe' = doneProbe /\ wg' = wg /\ prober' = prober
      /\ watcher[c] = "created" /\ watcher' = [watcher EXCEPT ![c] = "selecting"]
      /\ watchers' = watchers + 1
  BY DEF WatcherStarts, mainVars, proberVars
<1>2. watcher \in [Channels -> WatcherSteps]
  BY DEF Inv, Typed
<1>3. Counted' = Counted /\ Left' = Left
  BY <1>1 DEF Counted, Active, Left
<1>4. c \notin Watching /\ Watching' = Watching \cup {c}
  BY <1>1, <1>2 DEF Watching
<1>5. Typed'
  BY <1>1, <1>2 DEF Inv, Typed, WatcherSteps
<1>6. ~ Told(c) /\ \A d \in Channels : Told(d) => Told(d)'
  BY <1>1, <1>2 DEF Told
<1>7. Counts' /\ ToldInTurn'
  BY <1>1, <1>3, <1>4, <1>6, Finite, Joins DEF Inv, Counts, ToldInTurn
<1>8. main \notin AfterWatchers
  BY <1>6 DEF Inv, ToldInTurn, AfterWatchers
<1>9. \A p \in Probers : Active(p)' <=> Active(p)
  BY <1>1 DEF Active
<1>10. StoppedInOrder' /\ WatchersStopped' /\ SignalsMatchProbers'
  BY <1>1, <1>3, <1>5, <1>8, <1>9, Spelt, SpeltNext DEF Inv
<1> QED BY <1>5, <1>7, <1>10 DEF Inv

\* A watcher that was told returns.
LEMMA WatcherReturnsInv ==
  ASSUME Inv, NEW c \in Channels, WatcherReturns(c)
  PROVE  Inv'
<1>1. /\ main' = main /\ toTell' = toTell /\ channelsLeft' = channelsLeft /\ late' = late
      /\ doneProbe' = doneProbe /\ wg' = wg /\ prober' = prober
      /\ watcher[c] = "returning" /\ watcher' = [watcher EXCEPT ![c] = "exited"]
      /\ watchers' = watchers - 1
  BY DEF WatcherReturns, mainVars, proberVars
<1>2. watcher \in [Channels -> WatcherSteps]
  BY DEF Inv, Typed
<1>3. Counted' = Counted /\ Left' = Left
  BY <1>1 DEF Counted, Active, Left
<1>4. c \in Watching /\ Watching' = Watching \ {c}
  BY <1>1, <1>2 DEF Watching
<1>5. Typed'
  BY <1>1, <1>2 DEF Inv, Typed, WatcherSteps
<1>6. \A d \in Channels : Told(d) => Told(d)'
  BY <1>1, <1>2 DEF Told
<1>7. Counts' /\ ToldInTurn'
  BY <1>1, <1>3, <1>4, <1>6, Finite, Leaves DEF Inv, Counts, ToldInTurn
<1>8. \A d \in Channels : watcher[d] = "exited" => watcher'[d] = "exited"
  BY <1>1, <1>2
<1>9. \A p \in Probers : Active(p)' <=> Active(p)
  BY <1>1 DEF Active
<1>10. StoppedInOrder' /\ WatchersStopped' /\ SignalsMatchProbers'
  BY <1>1, <1>3, <1>5, <1>8, <1>9, Spelt, SpeltNext DEF Inv
<1> QED BY <1>5, <1>7, <1>10 DEF Inv

\* Steps of main that leave the probers and the watchers alone.
LEMMA MainGoesOn ==
  ASSUME Inv, UNCHANGED <<prober, wg, watcher, watchers, late>>, main' \in MainSteps,
         channelsLeft' \subseteq Channels, toTell' \in Nat, doneProbe' \in Nat,
         main' # "running", doneProbe' + toTell' = Cardinality(Left),
         ToldInTurn',
         main' \in AfterProbers => main \in AfterProbers \/ Counted = {},
         main' \in AfterWatchers => \A c \in Channels : watcher[c] = "exited"
  PROVE  Inv'
<1>1. \A p \in Probers : Active(p)' <=> Active(p)
  BY DEF Active
<1>2. Counted' = Counted /\ Left' = Left /\ Watching' = Watching
  BY <1>1 DEF Counted, Left, Watching
<1>3. Typed' /\ Counts'
  BY <1>2 DEF Inv, Typed, Counts
<1>4. main' \in AfterProbers => \A p \in Probers : Active(p) => p \in late
  BY Spelt DEF Inv, Counted
<1>5. StoppedInOrder' /\ WatchersStopped' /\ SignalsMatchProbers'
  BY <1>1, <1>2, <1>3, <1>4, SpeltNext
<1> QED BY <1>3, <1>5 DEF Inv

LEMMA MainStepInv == Inv /\ MainStep => Inv'
<1> SUFFICES ASSUME Inv, MainStep PROVE Inv'
  OBVIOUS
<1>1. /\ main \in MainSteps /\ toTell \in Nat /\ doneProbe \in Nat
      /\ channelsLeft \subseteq Channels /\ watcher \in [Channels -> WatcherSteps]
      /\ main = "running" => Cardinality(Left) = Cardinality(Probers) /\ doneProbe = 0
      /\ main # "running" => doneProbe + toTell = Cardinality(Left)
      /\ main = "tellChannels" => \A c \in Channels \ channelsLeft : Told(c)
      /\ main \in {"waitWatchers", "tellSaver", "tellRotator", "exited"} =>
           \A c \in Channels : Told(c)
      /\ main \in AfterWatchers => \A c \in Channels : watcher[c] = "exited"
  BY Spelt DEF Inv, Typed, Counts, ToldInTurn
<1>2. Cardinality(Probers) \in Nat /\ IsFiniteSet(Counted) /\ IsFiniteSet(Watching)
  BY Finite
<1>3. CASE Signal
  <2>1. StopOrder[1] = "tellProbers"
    BY DEF StopOrder
  <2>2. /\ main' = "tellProbers" /\ toTell' = Cardinality(Probers) /\ main = "running"
        /\ channelsLeft' = channelsLeft /\ doneProbe' = doneProbe /\ prober' = prober
        /\ wg' = wg /\ watcher' = watcher /\ watchers' = watchers /\ late' = late
    BY <1>3, <2>1 DEF Signal, SignalsToSend, proberVars, watcherVars
  <2>3. ToldInTurn'
    BY <2>2 DEF ToldInTurn
  <2> QED BY <1>1, <1>2, <2>2, <2>3, MainGoesOn DEF MainSteps, AfterProbers, AfterWatchers
<1>4. CASE TellProber
  <2>1. /\ main' = main /\ main = "tellProbers" /\ toTell > 0
        /\ toTell' = toTell - 1 /\ doneProbe' = doneProbe + 1
        /\ channelsLeft' = channelsLeft /\ prober' = prober
        /\ wg' = wg /\ watcher' = watcher /\ watchers' = watchers /\ late' = late
    BY <1>4 DEF TellProber, proberVars, watcherVars
  <2>2. ToldInTurn'
    BY <2>1 DEF ToldInTurn
  <2>3. toTell' \in Nat /\ doneProbe' \in Nat /\ doneProbe' + toTell' = doneProbe + toTell
    BY <1>1, <2>1
  <2> QED BY <1>1, <2>1, <2>2, <2>3, MainGoesOn DEF MainSteps, AfterProbers, AfterWatchers
<1>5. CASE ProbersTold
  <2>1. /\ main = "tellProbers" /\ main' = "waitProbers"
        /\ toTell' = toTell /\ doneProbe' = doneProbe
        /\ channelsLeft' = channelsLeft /\ prober' = prober
        /\ wg' = wg /\ watcher' = watcher /\ watchers' = watchers /\ late' = late
    BY <1>5, Proceeds DEF ProbersTold, proberVars, watcherVars
  <2>2. ToldInTurn'
    BY <2>1 DEF ToldInTurn
  <2> QED BY <1>1, <2>1, <2>2, MainGoesOn DEF MainSteps, AfterProbers, AfterWatchers
<1>6. CASE ProbersWaited
  <2>1. /\ main = "waitProbers" /\ main' = "tellChannels" /\ wg = 0
        /\ toTell' = toTell /\ doneProbe' = doneProbe
        /\ channelsLeft' = Channels /\ prober' = prober
        /\ wg' = wg /\ watcher' = watcher /\ watchers' = watchers /\ late' = late
    BY <1>6, Proceeds DEF ProbersWaited, GroupDone, proberVars, watcherVars
  <2>2. ToldInTurn'
    BY <2>1 DEF ToldInTurn
  <2>3. Counted = {}
    BY <1>2, <2>1, FS_EmptySet DEF Inv, Counts
  <2> QED BY <1>1, <2>1, <2>2, <2>3, MainGoesOn DEF MainSteps, AfterProbers, AfterWatchers
<1>7. ASSUME NEW c \in Channels, TellChannel(c) PROVE Inv'
  <2>1. /\ main' = main /\ main = "tellChannels" /\ toTell' = toTell /\ doneProbe' = doneProbe
        /\ channelsLeft' = channelsLeft \ {c} /\ prober' = prober
        /\ watcher[c] = "selecting" /\ wg' = wg /\ watchers' = watchers /\ late' = late
        /\ watcher' = [watcher EXCEPT ![c] = "returning"]
    BY <1>7 DEF TellChannel, Meets, proberVars
  <2>2. Counted' = Counted /\ Left' = Left /\ Watching' = Watching
    BY <1>1, <2>1 DEF Counted, Active, Left, Watching
  <2>3. Typed'
    BY <1>1, <2>1 DEF Inv, Typed, WatcherSteps
  <2>4. ToldInTurn'
    BY <1>1, <2>1 DEF ToldInTurn, Told
  <2>5. Counts'
    BY <2>1, <2>2 DEF Inv, Counts
  <2>6. \A p \in Probers : Active(p)' <=> Active(p)
    BY <2>1 DEF Active
  <2>7. StoppedInOrder' /\ WatchersStopped' /\ SignalsMatchProbers'
    BY <1>1, <2>1, <2>2, <2>3, <2>6, Spelt, SpeltNext DEF Inv, AfterProbers, AfterWatchers
  <2> QED BY <2>3, <2>4, <2>5, <2>7 DEF Inv
<1>8. CASE ChannelsTold
  <2>1. /\ main = "tellChannels" /\ main' = "waitWatchers" /\ channelsLeft = {}
        /\ toTell' = toTell /\ doneProbe' = doneProbe
        /\ channelsLeft' = channelsLeft /\ prober' = prober
        /\ wg' = wg /\ watcher' = watcher /\ watchers' = watchers /\ late' = late
    BY <1>8, Proceeds DEF ChannelsTold, proberVars, watcherVars
  <2>2. ToldInTurn'
    BY <1>1, <2>1 DEF ToldInTurn, Told
  <2> QED BY <1>1, <2>1, <2>2, MainGoesOn DEF MainSteps, AfterProbers, AfterWatchers
<1>9. CASE WatchersWaited
  <2>1. /\ main = "waitWatchers" /\ main' = "tellSaver" /\ watchers = 0
        /\ toTell' = toTell /\ doneProbe' = doneProbe
        /\ channelsLeft' = channelsLeft /\ prober' = prober
        /\ wg' = wg /\ watcher' = watcher /\ watchers' = watchers /\ late' = late
    BY <1>9, Proceeds DEF WatchersWaited, proberVars, watcherVars
  <2>2. Watching = {}
    BY <1>2, <2>1, FS_EmptySet DEF Inv, Counts
  <2>3. \A c \in Channels : watcher[c] = "exited"
    BY <1>1, <2>1, <2>2 DEF Told, Watching
  <2>4. ToldInTurn'
    BY <1>1, <2>1 DEF ToldInTurn, Told
  <2> QED BY <1>1, <2>1, <2>3, <2>4, MainGoesOn DEF MainSteps, AfterProbers, AfterWatchers
<1>10. CASE TellSaver \/ TellSink
  <2>1. /\ main = "tellSaver" /\ main' = "tellRotator"
        /\ toTell' = toTell /\ doneProbe' = doneProbe
        /\ channelsLeft' = channelsLeft /\ prober' = prober
        /\ wg' = wg /\ watcher' = watcher /\ watchers' = watchers /\ late' = late
    BY <1>10, Proceeds DEF TellSaver, TellSink, proberVars, watcherVars
  <2>2. ToldInTurn'
    BY <1>1, <2>1 DEF ToldInTurn, Told
  <2> QED BY <1>1, <2>1, <2>2, MainGoesOn DEF MainSteps, AfterProbers, AfterWatchers
<1>11. CASE TellRotator
  <2>1. /\ main = "tellRotator" /\ main' = "exited"
        /\ toTell' = toTell /\ doneProbe' = doneProbe
        /\ channelsLeft' = channelsLeft /\ prober' = prober
        /\ wg' = wg /\ watcher' = watcher /\ watchers' = watchers /\ late' = late
    BY <1>11, Proceeds DEF TellRotator, proberVars, watcherVars
  <2>2. ToldInTurn'
    BY <1>1, <2>1 DEF ToldInTurn, Told
  <2> QED BY <1>1, <2>1, <2>2, MainGoesOn DEF MainSteps, AfterProbers, AfterWatchers
<1> QED BY <1>3, <1>4, <1>5, <1>6, <1>7, <1>8, <1>9, <1>10, <1>11 DEF MainStep

LEMMA NextInv == Inv /\ [Next]_vars => Inv'
<1> SUFFICES ASSUME Inv, [Next]_vars PROVE Inv'
  OBVIOUS
<1>1. prober \in [Probers -> ProberSteps]
  BY DEF Inv, Typed
<1>2. ASSUME NEW p \in Probers, ProberStep(p) PROVE Inv'
  <2>1. CASE Probe(p)
    <3>1. Active(p) /\ prober' = [prober EXCEPT ![p] = "sending"]
      BY <2>1 DEF Probe, Active
    <3> QED BY <2>1, <3>1, StaysActive DEF Probe
  <2>2. CASE SendToChannel(p)
    <3>1. PICK to \in {"selecting", "sending"} : prober' = [prober EXCEPT ![p] = to]
      BY <2>2 DEF SendToChannel
    <3>2. Active(p)
      BY <2>2 DEF SendToChannel, Active
    <3> QED BY <2>2, <3>1, <3>2, StaysActive DEF SendToChannel
  <2>3. CASE ProberInterval(p)
    <3>1. Active(p) /\ prober' = [prober EXCEPT ![p] = "probing"]
      BY <2>3 DEF ProberInterval, Active
    <3> QED BY <2>3, <3>1, StaysActive DEF ProberInterval
  <2>4. CASE RoundHangs(p)
    <3>1. Active(p) /\ prober' = [prober EXCEPT ![p] = "hung"]
      BY <2>4 DEF RoundHangs, Active
    <3> QED BY <2>4, <3>1, StaysActive DEF RoundHangs
  <2> QED BY <1>2, <2>1, <2>2, <2>3, <2>4, ProberStartsInv, ProberDoneInv DEF ProberStep
<1>3. CASE SaverStep
  BY <1>3, Elsewhere DEF SaverStep, SaveBegins, SaveEnds, SaverTakes, SaverInterval, proberVars
<1>4. ASSUME NEW c \in Channels, WatcherStep(c) PROVE Inv'
  <2>1. CASE WatcherTakes(c)
    BY <2>1, Elsewhere DEF WatcherTakes, proberVars
  <2> QED BY <1>4, <2>1, WatcherStartsInv, WatcherReturnsInv DEF WatcherStep
<1>5. CASE UNCHANGED vars
  BY <1>5, Elsewhere DEF vars, mainVars, proberVars, watcherVars
<1> QED BY <1>2, <1>3, <1>4, <1>5, MainStepInv DEF Next, Ended

LEMMA Invariant == Spec => []Inv
<1> QED BY InitInv, NextInv, PTL DEF Spec

-----------------------------------------------------------------------------
\* There is a done signal, sent or to be sent, for every prober goroutine that
\* has not returned (exit() in main, runProbers).
THEOREM SignalsMatch == Spec => []SignalsMatchProbers
<1>1. Inv => SignalsMatchProbers
  BY DEF Inv
<1> QED BY <1>1, Invariant, PTL

\* exit() stops the channels and the saver only after the probers that had
\* counted themselves before its wait have returned (the wait group of
\* runProbers); those that count themselves later are not covered.
THEOREM ProbersStopFirst == Spec => []StoppedInOrder
<1>1. Inv => StoppedInOrder
  BY DEF Inv
<1> QED BY <1>1, Invariant, PTL

\* AllDone returns only when every watcher has returned (WatchEvent, AllDone).
THEOREM WatchersStop == Spec => []WatchersStopped
<1>1. Inv => WatchersStopped
  BY DEF Inv
<1> QED BY <1>1, Invariant, PTL

-----------------------------------------------------------------------------
(***************************************************************************)
(* The types: what is not counted, and the buffers.  No goroutine sends    *)
(* past the capacity a buffer was made with, and one that is sending has a *)
(* channel left to send to.                                                *)
(***************************************************************************)
SaverSteps == {"saving", "selecting", "lastSaving", "exited"}

Buffers ==
  /\ persist \in BOOLEAN /\ push \in BOOLEAN /\ torn \in BOOLEAN
  /\ sends \in [Probers -> Seq(Channels)]
  /\ \A p \in Probers : prober[p] = "sending" => sends[p] # << >>
  /\ saveChannel \in Seq(Probers) /\ Len(saveChannel) <= Cardinality(Probers)
  /\ saver \in SaverSteps
  /\ buffered \in [Channels -> Nat]
  /\ \A c \in Channels : buffered[c] <= Capacity(c)
  /\ sink \in {"none", "selecting", "exited"}
  /\ rotator \in {"selecting", "told"}
  /\ late \subseteq Probers

LEMMA CapacityIsNat ==
  ASSUME NEW c \in Channels
  PROVE  Capacity(c) \in Nat
<1> DEFINE S == {p \in Probers : \E i \in 1 .. Len(ChannelsOf(p)) : ChannelsOf(p)[i] = c}
<1>1. IsFiniteSet(S)
  <2>1. S \subseteq Probers
    OBVIOUS
  <2> HIDE DEF S
  <2> QED BY <2>1, ProbersAssumption, FS_Subset DEF ProbersAssumption
<1>2. Cardinality(S) \in Nat
  <2> HIDE DEF S
  <2> QED BY <1>1, FS_CardinalityType
<1> QED BY <1>2 DEF Capacity

LEMMA InitBuffers == Init => Buffers
<1> SUFFICES ASSUME Init PROVE Buffers
  OBVIOUS
<1>1. saveChannel \in Seq(Probers) /\ Len(saveChannel) <= Cardinality(Probers)
  BY Finite DEF Init
<1>2. sends \in [Probers -> Seq(Channels)] /\ \A p \in Probers : prober[p] # "sending"
  BY DEF Init
<1>3. buffered \in [Channels -> Nat] /\ \A c \in Channels : buffered[c] <= Capacity(c)
  BY CapacityIsNat DEF Init
<1> QED BY <1>1, <1>2, <1>3 DEF Init, Buffers, SaverSteps

LEMMA ProberBuffers ==
  ASSUME Typed, Buffers, NEW p \in Probers, ProberStep(p)
  PROVE  Buffers'
<1> USE DEF Buffers, modes, saverVars
<1>1. prober \in [Probers -> ProberSteps]
  BY DEF Typed
<1>2. CASE ProberStarts(p)
  BY <1>1, <1>2 DEF ProberStarts, SaverSteps
<1>3. CASE Probe(p)
  <2>1. /\ saveChannel' = Append(saveChannel, p)
        /\ Len(saveChannel) < Cardinality(Probers)
        /\ sends' = [sends EXCEPT ![p] = ChannelsOf(p)]
        /\ prober' = [prober EXCEPT ![p] = "sending"]
    BY <1>3 DEF Probe
  <2>2. saveChannel' \in Seq(Probers) /\ Len(saveChannel') <= Cardinality(Probers)
    <3>1. /\ saveChannel \in Seq(Probers) /\ Len(saveChannel) \in Nat
          /\ Len(saveChannel') = Len(saveChannel) + 1
      BY <2>1, AppendProperties, LenProperties
    <3> QED BY <2>1, <3>1, Finite, AppendProperties
  <2>3. ChannelsOf(p) \in Seq(Channels) /\ ChannelsOf(p) # << >>
    BY ChannelsAssumption DEF ChannelsAssumption
  <2>4. /\ sends' \in [Probers -> Seq(Channels)]
        /\ \A q \in Probers : prober'[q] = "sending" => sends'[q] # << >>
    BY <1>1, <2>1, <2>3
  <2> QED BY <1>3, <2>2, <2>4 DEF Probe, SaverSteps
<1>4. CASE SendToChannel(p)
  <2> DEFINE c == Head(sends[p])
  <2>1. sends[p] \in Seq(Channels) /\ sends[p] # << >>
    BY <1>4 DEF SendToChannel
  <2>2. c \in Channels /\ Tail(sends[p]) \in Seq(Channels)
    BY <2>1, HeadTailProperties
  <2>3. /\ buffered[c] < Capacity(c) /\ buffered' = [buffered EXCEPT ![c] = @ + 1]
        /\ sends' = [sends EXCEPT ![p] = Tail(@)]
        /\ prober' = [prober EXCEPT ![p] = IF Tail(sends[p]) = << >>
                                           THEN "selecting" ELSE "sending"]
    BY <1>4 DEF SendToChannel
  <2>4. /\ sends' \in [Probers -> Seq(Channels)]
        /\ \A q \in Probers : prober'[q] = "sending" => sends'[q] # << >>
    BY <1>1, <2>2, <2>3
  <2> HIDE DEF c
  <2>5. /\ buffered' \in [Channels -> Nat]
        /\ \A d \in Channels : buffered'[d] <= Capacity(d)
    BY <2>2, <2>3, CapacityIsNat
  <2> QED BY <1>4, <2>4, <2>5 DEF SendToChannel, SaverSteps
<1>5. CASE RoundHangs(p) \/ ProberDone(p) \/ ProberInterval(p)
  BY <1>1, <1>5 DEF RoundHangs, ProberDone, ProberInterval, SaverSteps
<1> QED BY <1>2, <1>3, <1>4, <1>5 DEF ProberStep

LEMMA NextBuffers == Typed /\ Buffers /\ [Next]_vars => Buffers'
<1> SUFFICES ASSUME Typed, Buffers, [Next]_vars PROVE Buffers'
  OBVIOUS
<1>1. CASE SaverStep
  <2>1. /\ UNCHANGED <<modes, proberVars, buffered, sink, rotator, late>>
        /\ torn' \in BOOLEAN /\ saver' \in SaverSteps
        /\ saveChannel' = saveChannel \/ (saveChannel # << >> /\ saveChannel' = Tail(saveChannel))
    BY <1>1 DEF SaverStep, SaveBegins, SaveEnds, SaverTakes, SaverInterval,
         saverVars, SaverSteps, Buffers
  <2>2. saveChannel' \in Seq(Probers) /\ Len(saveChannel') <= Cardinality(Probers)
    <3>1. saveChannel \in Seq(Probers) /\ Len(saveChannel) \in Nat
          /\ Len(saveChannel) <= Cardinality(Probers) /\ Cardinality(Probers) \in Nat
      BY Finite, LenProperties DEF Buffers
    <3> QED BY <2>1, <3>1, HeadTailProperties
  <2> QED BY <2>1, <2>2 DEF Buffers, modes, proberVars
<1>2. ASSUME NEW c \in Channels, WatcherStep(c) PROVE Buffers'
  <2>1. /\ UNCHANGED <<modes, proberVars, saveChannel, saverVars, sink, rotator, late>>
        /\ \/ buffered' = buffered
           \/ buffered[c] > 0 /\ buffered' = [buffered EXCEPT ![c] = @ - 1]
    BY <1>2 DEF WatcherStep, WatcherStarts, WatcherTakes, WatcherReturns
  <2>2. /\ buffered' \in [Channels -> Nat]
        /\ \A d \in Channels : buffered'[d] <= Capacity(d)
    <3>1. buffered \in [Channels -> Nat] /\ \A d \in Channels : buffered[d] <= Capacity(d)
      BY DEF Buffers
    <3>2. CASE buffered' = buffered
      BY <3>1, <3>2
    <3>3. CASE buffered[c] > 0 /\ buffered' = [buffered EXCEPT ![c] = @ - 1]
      <4>1. buffered'[c] \in Nat /\ buffered'[c] <= buffered[c]
        BY <3>1, <3>3
      <4>2. \A d \in Channels : d # c => buffered'[d] = buffered[d]
        BY <3>1, <3>3
      <4>3. buffered' = [d \in Channels |-> buffered'[d]]
        BY <3>1, <3>3
      <4>4. \A d \in Channels : buffered'[d] \in Nat
        BY <3>1, <4>1, <4>2
      <4>5. \A d \in Channels : buffered'[d] <= Capacity(d)
        <5>1. Capacity(c) \in Nat /\ buffered[c] <= Capacity(c) /\ buffered[c] \in Nat
          BY <3>1, CapacityIsNat
        <5>2. buffered'[c] <= Capacity(c)
          BY <4>1, <5>1
        <5> QED BY <3>1, <4>2, <5>2
      <4> QED BY <4>3, <4>4, <4>5
    <3> QED BY <2>1, <3>2, <3>3
  <2> QED BY <2>1, <2>2 DEF Buffers, modes, proberVars, saverVars
<1>3. CASE MainStep
  <2>1. /\ UNCHANGED <<modes, proberVars, saveChannel, torn, buffered, late>>
        /\ saver' \in SaverSteps
        /\ sink' \in {"none", "selecting", "exited"} /\ rotator' \in {"selecting", "told"}
    BY <1>3 DEF MainStep, Signal, TellProber, ProbersTold, ProbersWaited,
         TellChannel, ChannelsTold, WatchersWaited, TellSaver, TellSink,
         TellRotator, saverVars, SaverSteps, Buffers
  <2> QED BY <2>1 DEF Buffers, modes, proberVars
<1>4. CASE UNCHANGED vars
  BY <1>4 DEF vars, Buffers, modes, proberVars, saverVars
<1> QED BY <1>1, <1>2, <1>3, <1>4, ProberBuffers DEF Next, Ended

LEMMA TypesFollow == Inv /\ Buffers => TypeOK
<1> SUFFICES ASSUME Inv, Buffers PROVE TypeOK
  OBVIOUS
<1>1. Typed /\ Counts /\ SignalsMatchProbers
  BY DEF Inv
<1>2. /\ Cardinality(Counted) <= Cardinality(Probers)
      /\ Cardinality(Left) <= Cardinality(Probers)
      /\ Cardinality(Watching) <= Cardinality(Channels)
  <2>1. Counted \subseteq Probers /\ Left \subseteq Probers /\ Watching \subseteq Channels
    BY DEF Counted, Left, Watching
  <2>2. IsFiniteSet(Probers) /\ IsFiniteSet(Channels)
    BY ProbersAssumption, ChannelsAssumption DEF ProbersAssumption, ChannelsAssumption
  <2> QED BY <2>1, <2>2, FS_Subset
<1>3. Cardinality(Channels) \in Nat
  BY ChannelsAssumption, FS_CardinalityType DEF ChannelsAssumption
<1>4. /\ wg \in 0 .. Cardinality(Probers)
      /\ watchers \in 0 .. Cardinality(Channels)
      /\ toTell \in 0 .. Cardinality(Probers) /\ doneProbe \in 0 .. Cardinality(Probers)
  <2>1. main # "running" => doneProbe + toTell = Cardinality(Left)
    BY <1>1 DEF SignalsMatchProbers, Left
  <2>2. toTell \in Nat /\ doneProbe \in Nat
    BY <1>1 DEF Typed
  <2> QED BY <1>1, <1>2, <1>3, <2>1, <2>2, Finite DEF Counts
<1>5. main \in {"running"} \cup {StopOrder[i] : i \in 1 .. Len(StopOrder)}
  BY <1>1 DEF Typed, MainSteps, StopOrder
<1>6. \A c \in Channels : buffered[c] \in 0 .. Capacity(c)
  BY CapacityIsNat DEF Buffers
<1> QED BY <1>1, <1>4, <1>5, <1>6 DEF TypeOK, Typed, Buffers, SaverSteps, WatcherSteps

\* No send of a result overruns a buffer, whatever the assignment of channels
\* to probers and the order of the goroutines: the buffers made in main and in
\* configChannels are the bounds, and a send past them waits.
THEOREM GoroutinesTyped == Spec => []TypeOK
<1>1. Init => Inv /\ Buffers
  BY InitInv, InitBuffers
<1>2. (Inv /\ Buffers) /\ [Next]_vars => (Inv /\ Buffers)'
  BY NextInv, NextBuffers DEF Inv
<1>3. Inv /\ Buffers => TypeOK
  BY TypesFollow
<1> QED BY <1>1, <1>2, <1>3, PTL DEF Spec
=============================================================================
