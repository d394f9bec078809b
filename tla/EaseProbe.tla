------------------------------ MODULE EaseProbe ------------------------------
(***************************************************************************)
(* The goroutines of the program and their graceful shutdown               *)
(* (cmd/easeprobe/main.go): one goroutine per prober (probe.go), one       *)
(* watcher per channel (channel/channel.go), the saver (report.go), the    *)
(* metric push sink of the push mode (metric/prometheus.go), the log       *)
(* rotation, and main, which on SIGTERM or a changed configuration stops   *)
(* them one after the other and returns, which ends them all.              *)
(*                                                                         *)
(* Results are told apart only by the prober that made them.  What they    *)
(* say, and the notifications, are in Prober and Alerting.                 *)
(***************************************************************************)
EXTENDS Integers, Sequences, FiniteSets

CONSTANTS
  Probers,           \* the configured probers
  MayHang,           \* those of a kind whose round may never return
  Channels,          \* the channels
  ChannelsOf(_)      \* the channels of a prober, in the order it sends to them

ASSUME ProbersAssumption == IsFiniteSet(Probers) /\ Probers # {}
ASSUME MayHangAssumption == MayHang \subseteq Probers
\* Config gives a prober without channels the default one.
ASSUME ChannelsAssumption ==
  /\ IsFiniteSet(Channels)
  /\ \A p \in Probers : ChannelsOf(p) \in Seq(Channels) /\ ChannelsOf(p) # << >>

VARIABLES
  persist,      \* a data file is configured (it is not "-")
  push,         \* the metrics are pushed, the sink runs
  main,         \* what main is at: "running" or a step of StopOrder
  toTell,       \* main: done signals for the probers still to send
  channelsLeft, \* main: channels still to be told to stop
  prober,       \* what each prober goroutine is at
  sends,        \* the channels a prober has still to send its result to
  doneProbe,    \* signals in the buffer of doneProbe
  wg,           \* the wait group of the probers
  saveChannel,  \* the buffer of saveChannel
  saver,        \* what the saver is at
  torn,         \* the data file is truncated and not yet written
  buffered,     \* number of results in the buffer of each channel
  watcher,      \* what each watcher is at
  watchers,     \* the wait group of the watchers
  sink,         \* what the push sink is at
  rotator,      \* what the log rotation is at
  late          \* history: probers that started after main had waited for them

mainVars    == <<main, toTell, channelsLeft>>
proberVars  == <<prober, sends, wg>>
saverVars   == <<saver, torn>>
watcherVars == <<watcher, watchers>>
modes       == <<persist, push>>
vars == <<modes, mainVars, proberVars, doneProbe, saveChannel, saverVars,
          buffered, watcherVars, sink, rotator, late>>

-----------------------------------------------------------------------------
\* Mutant: the saver is stopped before the probers are waited for.
StopOrderSaverFirst ==
  <<"tellProbers", "tellSaver", "waitProbers", "tellChannels", "waitWatchers",
    "tellRotator", "exited">>

\* The steps of exit() in main; "exited" is main's return.
StopOrder ==
  <<"tellProbers", "waitProbers", "tellChannels", "waitWatchers", "tellSaver",
    "tellRotator", "exited">>

StepOf(s) == CHOOSE i \in 1 .. Len(StopOrder) : StopOrder[i] = s

\* Main has completed the step s of the shutdown.
Past(s) == main # "running" /\ StepOf(main) > StepOf(s)

\* Main goes on to the step after the current one.
Proceed == main' = StopOrder[StepOf(main) + 1]

Alive == main # "exited"

Active(p) == prober[p] \notin {"created", "exited"}

\* The buffer of a channel holds one result per prober registered with it.
Capacity(c) ==
  Cardinality({p \in Probers : \E i \in 1 .. Len(ChannelsOf(p)) : ChannelsOf(p)[i] = c})

Init ==
  /\ persist \in BOOLEAN
  /\ push \in BOOLEAN
  /\ main = "running"
  /\ toTell = 0
  /\ channelsLeft = {}
  /\ prober = [p \in Probers |-> "created"]
  /\ sends = [p \in Probers |-> << >>]
  /\ doneProbe = 0
  /\ wg = 0
  /\ saveChannel = << >>
  /\ saver = "saving"
  /\ torn = FALSE
  /\ buffered = [c \in Channels |-> 0]
  /\ watcher = [c \in Channels |-> "created"]
  /\ watchers = 0
  /\ sink = IF push THEN "selecting" ELSE "none"
  /\ rotator = "selecting"
  /\ late = {}

-----------------------------------------------------------------------------
(***************************************************************************)
(* A prober goroutine                                                      *)
(***************************************************************************)
\* The goroutine is scheduled: only now is it counted in the wait group.
ProberStarts(p) ==
  /\ prober[p] = "created"
  /\ prober' = [prober EXCEPT ![p] = "probing"]
  /\ wg' = wg + 1
  /\ late' = IF Past("waitProbers") THEN late \cup {p} ELSE late
  /\ UNCHANGED <<modes, mainVars, sends, doneProbe, saveChannel, saverVars,
                 buffered, watcherVars, sink, rotator>>

\* Probe returns, and saveChannel <- res, which blocks while the buffer is full.
Probe(p) ==
  /\ prober[p] = "probing"
  /\ Len(saveChannel) < Cardinality(Probers)
  /\ saveChannel' = Append(saveChannel, p)
  /\ sends' = [sends EXCEPT ![p] = ChannelsOf(p)]
  /\ prober' = [prober EXCEPT ![p] = "sending"]
  /\ UNCHANGED <<modes, mainVars, wg, doneProbe, saverVars, buffered,
                 watcherVars, sink, rotator, late>>

\* A round that never returns: a call of the prober's kind has no timeout that
\* covers it (Probes.MayHang).
RoundHangs(p) ==
  /\ prober[p] = "probing"
  /\ p \in MayHang
  /\ prober' = [prober EXCEPT ![p] = "hung"]
  /\ UNCHANGED <<modes, mainVars, sends, wg, doneProbe, saveChannel, saverVars,
                 buffered, watcherVars, sink, rotator, late>>

\* ch.Send(res), for the next of the prober's channels; after the last one the
\* prober waits in its select.
SendToChannel(p) ==
  /\ prober[p] = "sending"
  /\ LET c == Head(sends[p]) IN
       /\ buffered[c] < Capacity(c)
       /\ buffered' = [buffered EXCEPT ![c] = @ + 1]
  /\ sends' = [sends EXCEPT ![p] = Tail(@)]
  /\ prober' = [prober EXCEPT ![p] = IF Tail(sends[p]) = << >>
                                     THEN "selecting" ELSE "sending"]
  /\ UNCHANGED <<modes, mainVars, wg, doneProbe, saveChannel, saverVars,
                 watcherVars, sink, rotator, late>>

\* case <-done
ProberDone(p) ==
  /\ prober[p] = "selecting"
  /\ doneProbe > 0
  /\ doneProbe' = doneProbe - 1
  /\ prober' = [prober EXCEPT ![p] = "exited"]
  /\ wg' = wg - 1
  /\ UNCHANGED <<modes, mainVars, sends, saveChannel, saverVars, buffered,
                 watcherVars, sink, rotator, late>>

\* case <-interval.C
ProberInterval(p) ==
  /\ prober[p] = "selecting"
  /\ prober' = [prober EXCEPT ![p] = "probing"]
  /\ UNCHANGED <<modes, mainVars, sends, wg, doneProbe, saveChannel,
                 saverVars, buffered, watcherVars, sink, rotator, late>>

-----------------------------------------------------------------------------
(***************************************************************************)
(* The saver: saveData                                                     *)
(***************************************************************************)
\* os.WriteFile truncates the file ...
SaveBegins ==
  /\ saver \in {"saving", "lastSaving"}
  /\ persist /\ ~ torn
  /\ torn' = TRUE
  /\ UNCHANGED <<modes, mainVars, proberVars, doneProbe, saveChannel, saver,
                 buffered, watcherVars, sink, rotator, late>>

\* ... and writes it; without a data file there is nothing to do.  The last
\* save ends the saver.
SaveEnds ==
  /\ saver \in {"saving", "lastSaving"}
  /\ torn = persist
  /\ torn' = FALSE
  /\ saver' = IF saver = "saving" THEN "selecting" ELSE "exited"
  /\ UNCHANGED <<modes, mainVars, proberVars, doneProbe, saveChannel, buffered,
                 watcherVars, sink, rotator, late>>

\* case res := <-saveChannel
SaverTakes ==
  /\ saver = "selecting"
  /\ saveChannel # << >>
  /\ saveChannel' = Tail(saveChannel)
  /\ UNCHANGED <<modes, mainVars, proberVars, doneProbe, saver, torn, buffered,
                 watcherVars, sink, rotator, late>>

\* case <-interval.C
SaverInterval ==
  /\ saver = "selecting"
  /\ saver' = "saving"
  /\ UNCHANGED <<modes, mainVars, proberVars, doneProbe, saveChannel, torn,
                 buffered, watcherVars, sink, rotator, late>>

-----------------------------------------------------------------------------
(***************************************************************************)
(* A watcher: WatchEvent                                                   *)
(***************************************************************************)
\* Mutant: the watcher does not count itself.
WatcherStartsUncounted(c) ==
  /\ watcher[c] = "created"
  /\ watcher' = [watcher EXCEPT ![c] = "selecting"]
  /\ UNCHANGED <<modes, mainVars, proberVars, doneProbe, saveChannel,
                 saverVars, buffered, watchers, sink, rotator, late>>

\* wg.Add(1), by the watcher itself.
WatcherStarts(c) ==
  /\ watcher[c] = "created"
  /\ watcher' = [watcher EXCEPT ![c] = "selecting"]
  /\ watchers' = watchers + 1
  /\ UNCHANGED <<modes, mainVars, proberVars, doneProbe, saveChannel,
                 saverVars, buffered, sink, rotator, late>>

\* case result := <-c.channel
WatcherTakes(c) ==
  /\ watcher[c] = "selecting"
  /\ buffered[c] > 0
  /\ buffered' = [buffered EXCEPT ![c] = @ - 1]
  /\ UNCHANGED <<modes, mainVars, proberVars, doneProbe, saveChannel,
                 saverVars, watcherVars, sink, rotator, late>>

\* The watcher returns: wg.Done().
WatcherReturns(c) ==
  /\ watcher[c] = "returning"
  /\ watcher' = [watcher EXCEPT ![c] = "exited"]
  /\ watchers' = watchers - 1
  /\ UNCHANGED <<modes, mainVars, proberVars, doneProbe, saveChannel,
                 saverVars, buffered, sink, rotator, late>>

-----------------------------------------------------------------------------
(***************************************************************************)
(* Main: the wait for a signal, and exit()                                 *)
(***************************************************************************)
\* Mutant: off by one, the last prober is not told.
SignalsAllButOne == Cardinality(Probers) - 1

\* One done signal per prober: none of the probers that run is bad.
SignalsToSend == Cardinality(Probers)

\* SIGTERM, or the configuration file has changed: exit() begins.
Signal ==
  /\ main = "running"
  /\ main' = StopOrder[1]
  /\ toTell' = SignalsToSend
  /\ UNCHANGED <<modes, channelsLeft, proberVars, doneProbe, saveChannel,
                 saverVars, buffered, watcherVars, sink, rotator, late>>

\* doneProbe <- true
TellProber ==
  /\ main = "tellProbers"
  /\ toTell > 0
  /\ doneProbe < Cardinality(Probers)
  /\ doneProbe' = doneProbe + 1
  /\ toTell' = toTell - 1
  /\ UNCHANGED <<modes, main, channelsLeft, proberVars, saveChannel, saverVars,
                 buffered, watcherVars, sink, rotator, late>>

ProbersTold ==
  /\ main = "tellProbers"
  /\ toTell = 0
  /\ Proceed
  /\ UNCHANGED <<modes, toTell, channelsLeft, proberVars, doneProbe,
                 saveChannel, saverVars, buffered, watcherVars, sink, rotator,
                 late>>

\* Mutant: the prober goroutines are not waited for.
GroupDoneAlways == TRUE

\* wg.Wait() returns.
GroupDone == wg = 0

\* wg.Wait(), then AllDone begins with all channels to be told.
ProbersWaited ==
  /\ main = "waitProbers"
  /\ GroupDone
  /\ Proceed
  /\ channelsLeft' = Channels
  /\ UNCHANGED <<modes, toTell, proberVars, doneProbe, saveChannel, saverVars,
                 buffered, watcherVars, sink, rotator, late>>

\* Mutant: the signal is left for a watcher that does not select yet.
MeetsAny(c) == watcher[c] \in {"created", "selecting"}

\* An unbuffered done channel: main and the watcher meet.
Meets(c) == watcher[c] = "selecting"

\* c.Done() <- true
TellChannel(c) ==
  /\ main = "tellChannels"
  /\ c \in channelsLeft
  /\ Meets(c)
  /\ channelsLeft' = channelsLeft \ {c}
  /\ watcher' = [watcher EXCEPT ![c] = IF @ = "selecting" THEN "returning" ELSE @]
  /\ UNCHANGED <<modes, main, toTell, proberVars, doneProbe, saveChannel,
                 saverVars, buffered, watchers, sink, rotator, late>>

ChannelsTold ==
  /\ main = "tellChannels"
  /\ channelsLeft = {}
  /\ Proceed
  /\ UNCHANGED <<modes, toTell, channelsLeft, proberVars, doneProbe,
                 saveChannel, saverVars, buffered, watcherVars, sink, rotator,
                 late>>

\* The wg.Wait() of AllDone.
WatchersWaited ==
  /\ main = "waitWatchers"
  /\ watchers = 0
  /\ Proceed
  /\ UNCHANGED <<modes, toTell, channelsLeft, proberVars, doneProbe,
                 saveChannel, saverVars, buffered, watcherVars, sink, rotator,
                 late>>

\* doneSave <- true, received by the saver, which begins its last save ...
TellSaver ==
  /\ main = "tellSaver"
  /\ saver = "selecting"
  /\ saver' = "lastSaving"
  /\ Proceed
  /\ UNCHANGED <<modes, toTell, channelsLeft, proberVars, doneProbe,
                 saveChannel, torn, buffered, watcherVars, sink,
                 rotator, late>>

\* ... or by the push sink, which was given the same channel.
TellSink ==
  /\ main = "tellSaver"
  /\ sink = "selecting"
  /\ sink' = "exited"
  /\ Proceed
  /\ UNCHANGED <<modes, toTell, channelsLeft, proberVars, doneProbe,
                 saveChannel, saverVars, buffered, watcherVars, rotator, late>>

\* doneRotate <- true, which is buffered; then main returns.
TellRotator ==
  /\ main = "tellRotator"
  /\ rotator' = "told"
  /\ Proceed
  /\ UNCHANGED <<modes, toTell, channelsLeft, proberVars, doneProbe,
                 saveChannel, saverVars, buffered, watcherVars, sink, late>>

-----------------------------------------------------------------------------
ProberStep(p) ==
  \/ ProberStarts(p) \/ Probe(p) \/ RoundHangs(p) \/ SendToChannel(p)
  \/ ProberDone(p) \/ ProberInterval(p)

SaverStep == SaveBegins \/ SaveEnds \/ SaverTakes \/ SaverInterval

WatcherStep(c) == WatcherStarts(c) \/ WatcherTakes(c) \/ WatcherReturns(c)

MainStep ==
  \/ Signal
  \/ TellProber \/ ProbersTold \/ ProbersWaited
  \/ (\E c \in Channels : TellChannel(c)) \/ ChannelsTold \/ WatchersWaited
  \/ TellSaver \/ TellSink \/ TellRotator

\* The process has ended.
Ended == main = "exited" /\ UNCHANGED vars

Next ==
  \/ /\ Alive
     /\ \/ \E p \in Probers : ProberStep(p)
        \/ SaverStep
        \/ \E c \in Channels : WatcherStep(c)
        \/ MainStep
  \/ Ended

\* Every goroutine runs, and a round that does not hang ends; a signal need not
\* come, a timer need not fire and, of course, no round need hang.  A
\* select chooses at random among the cases that are ready, so the timers do
\* not win for ever against the other cases of the prober's and of the
\* saver's select: strong fairness of those cases.
Fairness ==
  /\ \A p \in Probers :
       WF_vars(Alive /\ (ProberStarts(p) \/ Probe(p) \/ SendToChannel(p)))
  /\ SF_vars(Alive /\ \E p \in Probers : ProberDone(p))
  /\ WF_vars(Alive /\ (SaveBegins \/ SaveEnds))
  /\ SF_vars(Alive /\ (SaverTakes \/ TellSaver \/ TellSink))
  /\ \A c \in Channels : WF_vars(Alive /\ WatcherStep(c))
  /\ WF_vars(TellProber \/ ProbersTold \/ ProbersWaited
             \/ (\E c \in Channels : TellChannel(c)) \/ ChannelsTold
             \/ WatchersWaited \/ TellRotator)

Spec == Init /\ [][Next]_vars /\ Fairness
-----------------------------------------------------------------------------
(***************************************************************************)
(* Properties                                                              *)
(***************************************************************************)
ProberSteps ==
  {"created", "probing", "hung", "sending", "selecting", "exited"}

\* The types of the goroutines' state, and the bounds of the buffers.
TypeOK ==
  /\ persist \in BOOLEAN /\ push \in BOOLEAN /\ torn \in BOOLEAN
  /\ main \in {"running"} \cup {StopOrder[i] : i \in 1 .. Len(StopOrder)}
  /\ toTell \in 0 .. Cardinality(Probers)
  /\ channelsLeft \subseteq Channels
  /\ prober \in [Probers -> ProberSteps]
  /\ \A p \in Probers : sends[p] \in Seq(Channels)
  /\ doneProbe \in 0 .. Cardinality(Probers)
  /\ wg \in 0 .. Cardinality(Probers)
  /\ saveChannel \in Seq(Probers) /\ Len(saveChannel) <= Cardinality(Probers)
  /\ saver \in {"saving", "selecting", "lastSaving", "exited"}
  /\ \A c \in Channels : buffered[c] \in 0 .. Capacity(c)
  /\ watcher \in [Channels -> {"created", "selecting", "returning", "exited"}]
  /\ watchers \in 0 .. Cardinality(Channels)
  /\ sink \in {"none", "selecting", "exited"}
  /\ rotator \in {"selecting", "told"}
  /\ late \subseteq Probers

\* A done signal for every prober goroutine that has not returned, once all
\* are sent: none can be left selecting without one, also one that starts late.
SignalsMatchProbers ==
  LET left == Cardinality({p \in Probers : prober[p] # "exited"})
  IN  /\ main = "running" => left = Cardinality(Probers)
      /\ main # "running" => doneProbe + toTell = left

\* When exit() goes on to stop the channels and the saver, the probers that
\* counted themselves before the wait have returned: no result of theirs can
\* meet a stopped watcher or a stopped saver.  It says nothing of a prober that
\* counts itself only after the wait: that one may start, and meet them.
StoppedInOrder ==
  Past("waitProbers") => \A p \in Probers : Active(p) => p \in late

\* AllDone returns only when every watcher has returned, although each counts
\* itself in the wait group only once it runs.
WatchersStopped ==
  Past("waitWatchers") => \A c \in Channels : watcher[c] = "exited"

\* A shutdown completes, from any state in which the signal comes, unless it
\* waits for a prober whose round never returns: nothing else can hold it up,
\* and it is the wait for the probers that such a round holds up.
ShutdownCompletes ==
  main = "tellProbers" ~>
    \/ main = "exited"
    \/ main = "waitProbers" /\ \E p \in Probers : prober[p] = "hung"

\* Without the push sink the last save is done when the process ends: "EaseProbe
\* would save the SLA statistics data on the disk" (docs/Manual.md:1228).
SavedOnExit == main = "exited" /\ ~ push => saver = "exited"

\* The signal on "the exit channel for saving the data" (doneSave in main.go:168)
\* is received by the saver.
SaverIsTold == Past("tellSaver") => saver \in {"lastSaving", "exited"}
=============================================================================
