# EaseProbe in TLA+

Modules that model EaseProbe, the TLC runs that check them on small instances,
and theorems about them that TLAPS checks for every value of the constants.
Line numbers below are those of the Go sources.

## 1. Inventory of the system

| part (source) | state it keeps | operations | talks to |
|---|---|---|---|
| prober core (`probe/base/base.go`, `probe/result.go`, `probe/status_counter.go`) | `Result`: status and preStatus, statistics, times of the last outage, status counter, alert strategy | `Config`, `Probe`, `CheckStatusThreshold`, `DownTimeCalculation`, `DoStat` | called by its goroutine in `cmd/easeprobe/probe.go`; its result is copied to the data store and the channels |
| alert pacing (`probe/notification_strategy.go`, `global/probe.go`) | `notified`, `failed`, `next`, `interval`, `isSent` per prober | `ProcessStatus`, `Reset`, `NextNotification` | called by `Probe`; its flag is read by the watcher |
| channels (`channel/*.go`) | probers, notifiers, a buffered channel of results, a done channel, `isWatch`; one wait group of all watchers | `SetProber`, `SetNotify`, `Config`, `Send`, `WatchEvent`, `AllDone` | probers send, the watcher receives and starts notifier goroutines |
| notifier base (`notify/base/base.go`, `global/global.go`) | name, channels, dry mode, retry settings | `Config`, `Notify`, `SendWithRetry`, `DoRetry` | one goroutine per notification; the provider's send function |
| notification providers (`notify/*`) | none across calls | format and send | remote services |
| process lifecycle (`cmd/easeprobe/*.go`) | the goroutines, `doneProbe`, `doneSave`, `saveChannel`, `doneRotate`, the wait group | start, run, `exit`, `reRun`, `saveData`, log rotation | everything |
| SLA data store (`probe/data.go`) | `resultData` (name to result), metadata, the data file and its backups | `LoadDataFromFile`, `CleanData`, `SetResultData`, `GetResultData`, `SaveDataToFile`, `CleanDataFile` | saver, report, web server, start |
| configuration (`conf/*.go`) | the loaded `Conf`, `previousYAMLFile` | `New`, `AllProbers`, `AllNotifiers`, `IsConfigModified`, merge | start, the monitor goroutine |
| PID file (`daemon/*.go`) | the PID file | `NewPIDFile`, `CheckPIDFile`, `RemovePIDFile` | main |
| metrics (`metric/prometheus.go`) | registered counters and gauges, the push sink | register, set, push | probers, main |
| web server (`web/*.go`) | `probers`, `webServer` | `Server`, `SetProbers`, `Shutdown`, SLA pages | data store, report |
| report (`report/*.go`) | none | SLA per prober, filter and paging, formats | web server, cron job |
| expression evaluation (`eval/*.go`) | the extracted variables of one evaluation | extract, evaluate | HTTP probe |
| probe kinds (`probe/http`, `tcp`, `tls`, `ping`, `shell`, `ssh`, `websocket`, `host`, `client`) | connection settings; SSH keeps its exit code and output | one `DoProbe` returning an outcome and a message | remote services, `Probe` |
| logging and rotation (`conf/log.go`, `web/log.go`) | open log files | rotate, close | the rotation goroutine |

**Hard behaviours.**  *Start-up*: the web server listens while `main` still
configures; labels are merged over all probers, the dropped ones too.  *Shared
settings*: the WebSocket dialer and the MySQL registry belong to the process.
*Partial failure of a round*: connections must be closed whichever call fails, and
some calls have no deadline, so that a round may never return.  The hooks of an HTTP trace run in the
goroutines of the connection, in an order nobody fixes.  *Reading while writing*: pages and reports read the results one by
one while the saver replaces them; Discord reads the probers' own.  *Parts and
retries*: a report in several parts is retried from the first, or part by part.
*Concurrency*: one goroutine per prober, per channel and
per notification, a saver, a push sink, a rotation goroutine, and main, joined by
buffered and unbuffered channels and two wait groups whose members count
themselves.  *Restarts*: the status counter, the alert counters and the times of an outage are
saved, loaded and given other thresholds and strategies.  *Failure*: attempts to
notify fail, succeed without an answer, or never return; reading, decoding, renaming, removing
and writing the data file may each fail, a write may be cut short, and
the process killed at any step.  *Generations*: `reRun` starts the next process
while this one is still saving, so two of them share the data file, its backups
and the PID file.  *Ordering*: the watcher
decides from snapshots, possibly rounds after they were taken.  *Numbers*: the
count stops at the history's length, the maximum of alerts, the growing intervals.

**What makes each part correct.**  The status changes when a threshold is
reached and is decided once it is; the counter agrees with its history; every
round is accounted for once.  Alerts come at the rounds the strategy lists, and
never more than the maximum in one outage, except for those a restart has forgotten.  The notifications
tell every outage and every recovery, in that order, to every live notifier.
A shutdown completes unless a round never returns, stops each goroutine after those that feed it, and saves the data.
An up is a check of this round, made with the prober's own settings; a round that a timeout
bounds ends and closes what it opened.  A page or a report shows every prober once, as saved;
the report of a notifier that could be configured is delivered, and sent means taken by the service.  Nothing a
server answers ends the process, but for the cases that are known.
One process probes at a time; what a process was started from survives, in a backup or until
its first save; a change of the configuration that the monitor can see is applied.

## 2. Plan

1. **done**: the prober core: `NotificationStrategy` and `AlertPacing` with the
   abstract `AlertSchedule`; `StatusCounter`, `ProbeResult`, `Prober`.
2. **done**: `Notifier`, and `Alerting`, which composes it with `Prober`.
3. **done**: `EaseProbe`, the goroutines of the program and the shutdown.
4. **done**: `DataStore` and `Restart`: the processes of several runs of the
   program over the same configuration, data and PID file, with `reRun`, backups,
   `CleanData` and `IsConfigModified`.
5. **done**: `ProbeCalls`, `HostOutput`, `Evaluation` and `Probes`: every kind of probe as
   the sequence of its calls, over rounds.
6. **done**: `ProberConfig`, `Report`, `Delivery` and `Service`: from the configuration to
   the page and the delivered report.
7. **done**: proofs of the order of stopping (`EaseProbe_proofs`, wait-group counting), of the
   delivery, of the panics and of what pages and reports show (`Service_proofs`), of the safety of `Alerting` (the chain of snapshots), of what
   a start leaves on the disk (`StartSurvives` of `Restart`) and of the rounds of every kind of probe (`Probes_proofs`).
8. Not done: `Normalize`'s precedence of settings and `SLAPercent` as operators.

Abstract specifications worth stating: `AlertSchedule` (done); a "last status
told" specification that `Alerting` implements under the default strategy; an
atomic store whose newest content is never lost, which `StartSurvives` is a first form of.

## 3. Modules

| module | models | how |
|---|---|---|
| `NotificationStrategy` | `NotificationStrategyData` and its methods | operators on a record with the source's fields |
| `AlertRounds` | | constants of the schedules: `Settings`, `Power`, and the closed form `Due` |
| `AlertSchedule` | what the comments of `NextNotification` list | abstract: the number of failed rounds and the number of alerts, which is a function of it |
| `AlertPacing` | one prober's strategy over rounds and restarts | `RoundUp`, `RoundDown`, `Restart`; refines `AlertSchedule` |
| `StatusCounter` | `StatusCounter` | operators; the history is the sequence of outcomes |
| `ProbeResult` | `Result`, `DoStat`, `DownTimeCalculation`, `Title` | operators on a record |
| `Prober` | `DefaultProbe`: `Config`, `Probe`, and what is saved and loaded | `Round`, `Save`, `Restart` |
| `Notifier` | `DefaultNotify.Notify`, `SendWithRetry`, `DoRetry` | a set of running goroutines; one action per attempt |
| `Alerting` | `Channel.Send`, `WatchEvent`'s decision, with `Prober` and `Notifier` | `Probe`, `Send`, `Watch`, `Deliver` |
| `EaseProbe` | the goroutines of `main` and `exit` | one action per channel operation, `main` walks through `StopOrder` |
| `DataStore` | `resultData`, the data file and its backups | operators on a function from names to rounds and on a disk |
| `Restart` | processes over a shared disk: `main`, `LoadDataFromFile`, `CleanDataFile`, `NewPIDFile`, `configProbers`, `saveData`, `monitorYAMLFile`, `exit`, `reRun`, `RemovePIDFile` | one action per step that another process, or a crash, can come between |
| `ProbeCalls` | `DoProbe` of each kind, `RunSSHCmd`, `Probe` of each native client | a constant sequence of calls per kind: what each opens, what it defers, whether a timeout bounds it, and what its error does |
| `HostOutput` | `ParseHostInfo` and the host metrics | operators on the outputs of the remote command, a sequence of lines with their fields |
| `Evaluation` | `ExtractValue`, the extractors of each type of document, the functions of an expression | operators from what a query finds to a value, an error or a panic |
| `Probes` | rounds of probers of one kind, side by side | one action per call of the script, some with data of their own; `Begin`, `Return`; the reader goroutine of a WebSocket |
| `ProberConfig` | `Config` of each kind, `NewGauge`, `MergeConstLabels` | operators: the settings checked, in their order, and the labels of the metrics |
| `Report` | `SLAFilter`, its paging; the sections of Slack, Discord and Telegram | operators |
| `Delivery` | the formats, `FormatFuncs`, and the send function of each provider | operators from a service's answer to success, retry or `ErrNoRetry` |
| `Service` | `main` up to the running program, `web.Server`, the handlers, `SetResultData`, `GetResultData`, `Filter`, `scheduleSLA`, `GetNotifiers`, `NotifyStat`, `DoRetry` | one action per step that another goroutine can come between: a reader takes one result at a time, a delivery is one attempt at one part |
| `DataLemmas` | | induction, and lemmas on sequences, the status counter and the counters of an outage |
| `*_proofs` | | theorems and their proofs |
| `MC*` | | bounds and values for TLC |

### Abstractions

*Prober.*  The probe function is a free choice of an outcome.  Time is counted in
probe intervals: a round adds one to the up or the down time and the clock is the
number of rounds.  Messages, endpoints, tags and round-trip times are left out;
the status `bad` too, since `configProbers` removes those probers before any
goroutine starts.  `trace` is history: `alerts` are those sent in the outage, which no restart takes back;
`unsaved` those among them that no save has followed, which the next restart moves to `forgotten`.  `Round` is the whole `Probe` from the outcome on: count,
threshold, strategy, downtime, statistics.  `Restart` is `NewResultWithName`
followed by `Config` on what the file held; a counter that was never saved is a
`NewResult`.

*Alerting.*  One prober and one channel: the watcher handles results one by one
and its decision looks at one snapshot only.  A goroutine that has given up stays
in `finished` as history.

*Notifier.*  An attempt succeeds, fails or is refused for good (`ErrNoRetry`), or never returns, for the
notifiers in `MayBlock`; whether a failed one has arrived all the same is in `Delivery`.  `dry` is the notifier's
own flag or the program's, one set either way.

*EaseProbe.*  A result is the name of its prober; a notification is part of
`WatcherTakes`.  The watchers' `isWatch` compare-and-swap always succeeds, since
`WatchForAllEvents` is called once.  The sleep at a prober's start is in the gap
between `created` and `ProberStarts`, or in `probing`.  A prober in `MayHang` may be in a round that never
returns (`RoundHangs`); `MayHang` of `Probes` says of which kinds.  `web.Shutdown` is not in it,
and what `reRun` does after `exit` is in `Restart`.  `Ended` is the process that is gone: nothing runs after it.

*DataStore and Restart.*  Of a result only the number of recorded rounds is kept:
it tells an old result from a new one.  The disk numbers the contents of its
files, and the data file and its backups are numbers: a process that has opened
the data file goes on writing the same content after another one has renamed it.
The content of a file is what can be decoded of it, and whether that is all.  A file is empty from
its opening to the write, and an empty file loads as no data; a write that is cut short leaves a part of the
entries, and decodes or not (`SaveTears`); an entry that is cut itself counts as missing, although its first
fields would be read.  A load whose decoding fails returns
before the rename (`LoadFails`), with what it has decoded up to there or nothing; a rename that fails is logged
(`BackUpFails`); a backup that cannot be removed stays (`stuck`); a save that fails is logged (`SaveFails`).
Backups are ordered by their numbers: their names are, as text, except that RFC 3339 with nanoseconds drops
trailing zeros, so that two starts within one second may be sorted the wrong way round.
A configuration file has a raw content that parses or not, which is what `IsConfigModified` looks at, and what
`New` makes of it once the environment is expanded.  How the goroutines of a process
stop, which `EaseProbe` has in detail, is a wait here: `Terminate` and `Poll` begin `exit`, `StopProbers` is the
return of `wg.Wait()`, which never comes while a prober is `hung`,
`TellSaver` is `doneSave <- true`, after which main goes on while the saver may
not have finished.  A SIGTERM after the first is in a channel nobody reads: there is no action for
it.  What was in a process's memory is forgotten when it ends.  The web server's port, which the next process
can find in use, is not modelled.  `CheckPIDFile` is not called by the program.

*ProbeCalls and Probes.*  A round is the calls its probe makes to the outside, in order; each may
return a value or an error, and one without a deadline may never return.  What was
received is data only where the outcome depends on it: the exit code, the values of the
keys, the lines of the host's output, what the queries find.  Computations on it
(the text checker, thresholds, status codes, certificate dates) are a free choice between success and failure.
`sound`, `found`, `ended`, `failed`, `lost` and `since` are history: what the round should have seen.
The close of a connection is the end of the deferred calls (`Return`).  The kinds are those
of the configuration, with a variant where a setting changes the calls: a proxy, a bastion,
data to verify, TLS.  A Memcache pool is left to the garbage collector.
`client.Do` is the phases its trace tells apart, and a call leaves in the trace what its hooks have noted by then:
the first byte of the answer may be noted by the reading goroutine before the writing one notes that the request has been
written.  A redirection makes another request with the same trace; starts of the connection and of the sending, noted only
once, are then those of the first (`trace.go:73`, `:111`) and not followed here.  The output of the host is a sequence of lines
known by the command that printed them: a command prints its line or none, top up to three, df one per mount or two where
a long device name wraps.  PostgreSQL has a variant with a timeout below half a second, which is rounded to
none.  MySQL rounds the timeout of its dial likewise (`mysql.go:51`), and is among the kinds without a deadline anyway.
The handshake timeout that WebSocket probes store in the shared dialer (`ws.go:84`) is not told apart from its proxy.

*ProberConfig.*  A setting is right or wrong; the first wrong one makes the prober bad.  A
label is fine, no label at all, reserved, or the name of a label of the metrics.

*Report and Service.*  The notifiers in `unusable` are those whose `Config` returns an error (`MayFail`: a log file that
cannot be opened, AWS options); `configNotifiers` leaves them out, so they join no channel.  `page * size` is computed in
an int, whose largest value is `MaxInt`.  A result is the number of its round and whether it was up, which is what
tells an old row from a new one.  A prober without data is `Nil`, which a reader dereferences.
The filter is by status; those by name, endpoint, message and SLA
are further predicates of the same loop.  `Select` is one turn of the loop of `Filter`, `Render`
one row: between any two of them the saver may replace a result.  A reader
that copies the prober's own result (Discord) while a round writes it gets one of the possible mixtures, or
the fatal error of a concurrent map access.  A report of a notifier starts when its last is
done, although the scheduler would start another beside a slow one; they share nothing but the data.
The sections of a report stand for the pages of Discord, the blocks of Slack and the
parts of Telegram, whose size in characters is a number of rows here.  `SLASummary`, the text for SMS, has
every prober in its average: its rows are what it reads.  Of `exit`, only that `web.Shutdown` is
its first step is here: the rest is in `EaseProbe`.

*Delivery.*  An attempt has no answer (it may have arrived all the same), or the service's, of which the
status, the body, or nothing, tells whether the message was taken.  What each send function
looks at is an operator of its own.  How a service tells is external: Twilio by 200 or 201, Discord by 204, Nexmo and
those in `ByBody` in the body of a 200.  Of Slack, Telegram and Yunpian the status is all the code looks at and all that is assumed to
tell: for these `SentMeansAccepted` says that retries and parts are put together rightly, not that the status is the truth.

## 4. Runs

| run | module | what it shows |
|---|---|---|
| `pacing` | `MCAlertPacing` | alerts come at the rounds of the closed form, within the maximum; `AlertPacing` implements `AlertSchedule` |
| `prober` | `MCProber` | counter, thresholds, statistics, downtime over rounds, saves and restarts; alerts within the maximum but for those a restart forgot |
| `prober_threshold` | `MCProber` | a counterexample, see 6 |
| `alerting` | `MCAlerting` | every outage and recovery told, in order, within the maximum; each started goroutine ends for a reason, also while another notifier's attempt never returns |
| `alerting_threshold` | `MCAlerting` | a counterexample, see 6 |
| `shutdown` | `MCEaseProbe` | the shutdown stops goroutines in order, leaves no watcher behind, and completes unless a round hangs |
| `restart` | `MCRestart` | one process probes at a time; what a process started from stays among the backups or, if it could not be backed up, in the data file up to the first save; a change of the configuration that can be seen is applied |
| `restart_pid` | `MCRestart` | a counterexample, see 6 |
| `probes` | `MCProbes` | an up is a check of this round; connections are closed whichever call fails, but a bastion's; exports are of this round but for timings without a start; connections use their prober's settings unless another stored its own in between; a response ends the process only in known cases; the rounds of the kinds a timeout bounds end |
| `service` | `MCService` | pages and reports show each prober once, as saved, on the page of its number; sent means taken, and nothing is taken twice without a lost answer; only known configurations panic; every report of a usable notifier is delivered |
| `shutdown_push`, `shutdown_exit` | `MCEaseProbe` | counterexamples, see 6 |

**Bounds.**  `MaxFailed` = 260 failed rounds of one outage: with factors 1 to 3 and maxima
1, 2 and 4 every schedule passes its maximum (the latest is round 256, of the exponential strategy with
factor 3).  `MaxRounds` = 6 in `MCProber`: the thresholds are at most 3, so a
history can fill, be cut by a restart and fill again.  `MaxRounds` = 4 in
`MCAlerting`: down, up, down, up, with a buffer of 2 that fills, a notifier and two
attempts.  `MCEaseProbe` is unbounded in time: two probers, one on both
channels and one on the second only, so that a buffer of one and one of two both fill.
`MCRestart` has two processes, which is what can overlap: a third is started only when
one of the first two is gone (or about to leave).  The disk is new, or holds a data file and a
full set of one backup, so that the next load must remove one.  Of the four configuration files two are
valid with different probers, so that `CleanData` drops one and the history of the other stays; one only parses raw, and one only
expanded.  The edits go forward through them (a file that was left does not come back), which has every kind of change but no
return.  One operation on the disk fails in a history (`MaxFaults`), at any step of either process; histories with more of them
are left to `OneProbes` and `DataSurvives`, which bound neither failures nor edits.  One prober may hang.  One round
(`MaxRounds`) is enough to tell a saved result from one that is lost.
`MCProbes` takes every kind in turn, with two probers of those that share a setting and one of the
others: nothing else connects two probers.  Two keys, one of them without a value, are the two cases of
Memcache; two disks let a line be missing between two others, and three lines of top reach them;
one redirection, where the client follows ten, puts a second hop on the first one's trace; the two expressions have every function and the
types of variables with a path of their own.  Two readers (`MaxStuck`) may be left behind: each waits on a
channel of its own.
`MCService` has integers up to `MaxInt` = 7, so that the fifth page of four rows overflows to the first.  It varies one thing at a time: one setting and one label of one prober over all
kinds (`StartUp`); the filter, over pages 0 to 3 of sizes 1 and 2 (`Pages`); names,
channels and failing `Config` of two log notifiers (`Routing`); the provider, over all of them, and the format of AWS (`Reports`).
The parts of the program they reach share no state but the data.  Two probers with pages of one row make full, part and
empty pages; sections of one row make a report of two parts, where a retry from the
first part differs from one of the part that failed; two attempts are one retry.  One round of one
prober is enough for a result to change under a reader.

**Fairness.**  Every goroutine that can run, runs: weak fairness of its steps; an attempt of a notifier in
`MayBlock` may never return, and a round of a prober in `MayHang` may hang.  With one of each, the runs say that these
hold up nobody but themselves, and `exit`.
Go's `select` chooses at random among the cases that are ready, so a timer does
not win for ever against the done signal or the results: strong
fairness of `ProberDone` and of the saver's receiving cases.  In `Restart`
the saver's receiving of `doneSave` is strongly fair for the same reason, and the monitor polls
again and again.  In `Probes` a call with a deadline, and the return, are weakly fair; nothing makes a call without one
end, so `RoundEnds` is stated for the kinds that have none.  In `Service` main, the saver, the readers and
the deliveries are weakly fair, and so is the schedule of the reports; an attempt of e-mail or of a shell command is not, since no timeout bounds
it, and neither are rounds, requests and the signal.  There is no
fairness on the signal, on the timers, on the rounds, on edits, starts or crashes: nothing relies on them.

`CHECK_DEADLOCK FALSE` is set where the system may stop: `MCAlerting` rests after `MaxRounds`,
`MCRestart` when its last process is gone, `MCProbes` and `MCService` when the process has ended or a bound is reached.

## 5. Proofs

TLAPS checks the theorems of eight modules; nothing is assumed but the named
assumptions of the specifications: the settings are those the normalisation
leaves (positive thresholds, factors and maxima), `Power` is exponentiation by
its two defining equations (`PowerAssumption`), and the intervals of the increment strategy
add up (`IntervalAccumulates`); there are finitely many probers and channels, processes numbered in their order, and disks
well formed, with any number of backups, kept or not; the sizes of parts are
positive, the probers of the configuration are a sequence without repetition, pages are asked for by integers, and
no notifier is the web page.

*Alert pacing.*  `PacingCorrect` rests on an inductive invariant that ties
`notified`, `failed`, `next` and `interval` together: below the maximum, `next` is
`Due(settings, sent + 1)` and `failed` has not reached it; past it, `sent` is the
maximum.  The interval has to be part of it, since the increment strategy
computes the next from the last.  The lemmas `FailedRound` and `UpRound` are the two branches of
`ProcessStatus`.  `PacingImplementsSchedule` maps the counters to the
abstract schedule with `failed` alone, each step to a step or a stutter.

*Prober.*  `Inv` has four parts: `Agrees` of the result and of the stored
result (the counter is `Sound`, counts no more than the trace, the statistics add up, the
outage's time is no later than its first round), `Decides` (the thresholds), and `Paces`
(alerts were counted, but for the `forgotten` ones, which a restart adds to).  `Agrees` of the *stored* result is what makes a restart preserve it.
`Sound` adds to `CounterMatchesHistory` that an empty history counts nothing,
without which an append does not preserve it.  `SetMaxLenSound` and
`AppendStatusSound` are the two lemmas on the counter; `RoundFields`,
`RoundCounts` and `RoundAgrees` are one round; `NextInv` has one step per action.

*Restart.*  `OneProbes` rests on `Handover`: while a process is anything but on its way
out, `wg.Wait()` included, no later one has been started.  `OneProbing` alone is not inductive, since a
process that is still loading will probe.  `OwnStep`, `Ending`, `Beginning` and `HandingOver` are
the four ways a step changes what the main goroutines are at; it holds for any number of processes.
`RestartTyped` adds `Basic`: the types, the file numbers in range (contents are only ever added),
a saver only while the process runs (`Quiet`), and no start known before the load (`Fresh`).
`DataSurvives` follows the file a process was started from (`Kept`): it is the data file until it is
renamed, then the newest backup until the old ones are cleaned, then one of the backups (if any are kept), and
never the file that a save has opened; or, when it was not renamed, the data file until the process saves.  Its `Safe` also says that a process that started alone is alone until
its successor begins, which makes every other step that of a `Bystander` who cannot exist.  The disk's
operators have a lemma each (`OpenedDisk`, `WrittenDisk`, `BackedUpDisk`, `CleanedDisk`).

*Alerting.*  The watcher handles results that the prober has long gone past, so `EdgeTriggered` is a fact about
what waits: `EdgeInv` says that the results in the queue and on their way form a chain, each with
the status before it and its alerts counted on from the one before (`Chained`, `Rested`), and
that the notifications decided so far tell the status before the first of them (`Heard`).  A round adds a
link at one end and the watcher takes one off at the other; the lemmas of `Prober_proofs` on one round give the
link.  `AlertingIsEdgeTriggered`, `RecoveriesTold` and `OutagesBounded` assume thresholds of one round, the default
(`DefaultThresholds`): with others they are false, as the run `alerting_threshold` shows (section 6).
`NotifiersStarted` and `NotifiersEnd` hold for all settings, by an invariant on the goroutines of `Notifier`.

*EaseProbe.*  `SignalsMatch`, `ProbersStopFirst` and `WatchersStop` rest on one inductive invariant
that counts: the wait group of the probers holds those that have added themselves and not
left, the signals still to be sent are as many as the probers that can take one, and a watcher that
main has not yet told to end is before its end.  The counting is what the three
properties need and what their statements leave out: a prober or a watcher that has been created
but has not counted itself yet.  `Joins` and `Leaves` are the two ways a set of goroutines changes, and each
action has its lemma; it holds for any number of probers and channels.  `GoroutinesTyped` adds `Buffers`:
no send overruns the buffer of `saveChannel` or of a channel.

*Service.*  `ReportsAccepted` rests on `Accounted`, what is true of every delivery at every attempt: it
has an account of each part (`Kept`), only Discord and Telegram cut a report in parts (`InParts`),
the parts before the one it is at were taken (`BeforeTaken`, not for Discord, which goes on after
a failed part), what is logged as sent was taken (`SentTaken`), and while no answer was lost
nothing was taken twice and nothing from the present part on (`TakenOnce`).  `SentMeansAccepted` is the
part of it that a user sees, with its exceptions: `Careless` providers, whose refusals nobody looks at, and `Strict` ones,
whose acceptance is retried; without `BeforeTaken` the last part's success would say nothing of the first.
`OkIsTaken` is the fact about the providers, `PostAccounted` the step.  `PagesNumbered`, for the pages
whose numbers fit an int (`Fits`, `WrapIs`), and
`SectionsPartition` are arithmetic: the pages and the sections of any size cut the rows without loss or overlap.
`PanicsKnown` rests on `Found`: once the probers are configured each of those that are run has a result
(`Provided`), and what a page or a report has picked is among them (`Proper`); so no reader ever meets the
nil pointer of a prober without data, and the panics left are those that the property names.  `MetricsFail` is
the fact about labels, `FormatsKnown` that about the formats of SNS.

`ShownRight` and `ServiceTyped` rest on `Told`, the conjunction of these two and four more parts.  `Placed` is where main
is: results are on their way only while the probers run, and something is run.  `Ordered` says that results only get newer: of a prober, the saved one is
no newer than those in `saveChannel`, which are in order, and these no newer than its own.  `ReadersFaithful`
follows each reader through its loop: until it is done a result that was not saved since its beginning is still the
one it began with (`Recalls`); its rows are as of the beginning or newer (`RowsTold`), one for each prober picked, in
that order (`InOrder`); and after `k` turns of the loop of `Filter`, while nothing was saved, it has counted the matches
among the first `k` and picked those that their numbers put on the page (`Numbered`).  What it picked is empty
just as long as it has counted no more than the pages before hold, which is why only the last page can be empty
(`EmptyPage`).  `JobsTold` says that the text being posted, put together, is the whole report (`Whole`): the sections are
contiguous pieces of the rows (`SectionsJoined`, `Pieces`), and an attempt leaves the text alone (`PostJobs`).
`ShownAsSaved` speaks of readers at their end and of reports at their posting only; the invariant has to speak of every
turn, of saves between turns, and of the results that a save will bring.

*Probes.*  Each theorem has an invariant of its own over the calls of all scripts, the constants of `ProbeCalls`
being expanded in one place per kind.  `OnlyBastionLost` rests on `OpenInv`, what is open and not yet deferred: nothing,
but for the bastion between its dial and the client made through it, and on `LossInv`.  `SettingsOwn` follows the
shared slot from a prober's store to its use (`SettingsInv`).  `ExportsOfTheRound` has an invariant per kind that
exports (`ShellInv`, `SSHInv`, `HTTPInv`).  The HTTP one says which starts each
phase, failed or not, leaves noted (`NotedKeeps`, `Measures`), over a redirection too.  `DiesOnly` is about an evaluation of any length: the first
value that is not found decides it, a least element of a set of positions; and about the lines that the disks are given.
`UpIsChecked` keeps `AllSound`, that no accepted round is unsound; its core is `HostChecked`, about the output of the
host's commands for any number of mounts: where each command's lines end (`Laid`), how the fields of
the fourth line and of the last ones pin all the others down, and so each metric its own lines.

*Induction.*  What a recursive function computes for every length is proved by `Induct` of `DataLemmas`: a set that has
0 and the successor of each of its members has all naturals, from the least element of what is left (`Least`).  The
lemmas on `FlattenSeq` (`FlattenExists`, `Pieces`) and on a selection from a sequence (`ChosenIs`, `ChosenFrom`) are
proved this way.

Every invariant and every action property of the runs is stated by a theorem.  Model-checked only are the liveness
properties: they need fairness and `ENABLED`, out of the prover's reach.

## 6. What the code does otherwise

* `prober_threshold`: below the threshold `CheckStatusThreshold` returns the status
  *before the last one*.  With failure 2: down, down, up, and one failed probe takes
  the status down at once, although the manual asks for two.
* `alerting_threshold`: with failure 2, the first failed round has the status init, takes the
  only alert of the default strategy and is not notified; when the status becomes
  down there is no alert left, and the outage is never announced.
* `shutdown_push`: with the metrics pushed, the sink may receive the signal meant for the saver.
* `shutdown_exit`: `exit` does not wait for the last save: the process can end before it or
  with the data file truncated.
* `restart_pid`: `reRun` starts the next process, which writes its PID file, before the deferred
  `RemovePIDFile` of this one removes it: the new process runs without one.

What the properties allow because the code does it:

* `AlertsCounted`: alerts sent since the last save are forgotten by a restart or a crash and may be sent again, over the maximum
  of the outage (`notification_strategy.go:35`; a save is due once per probe interval).
* `NotificationsEnd`, `ShutdownCompletes`: an attempt by e-mail or of a shell command may never return; a round that never
  returns makes `wg.Wait()` wait for ever, and with it `exit` and `reRun` (`main.go:231`).
* `StoppedInOrder`: a prober goroutine that has not been scheduled when `wg.Wait()` returns is not waited for, and runs on
  beside a stopped watcher and saver (`probe.go:72`).
* `StartSurvives`: a data file that cannot be decoded to its end, or not be renamed, is not backed up and is truncated by the
  first save, which comes at once (`data.go:157`, `:170`, `:188`, `report.go:48`); with `backups: 0` no backup is kept.
* `ChangeApplied`: a file whose raw content does not parse is never seen as changed, although it may be valid once its environment is
  expanded (`conf.go:296`, `:364`); one that is only valid raw makes the process end and its successor refuse it, so that nothing runs.
* `PageAsNumbered`: `(page-1)*size` of a far page overflows, and rows of the first pages are shown for it (`report/filter.go:126`).
* `LosesOnlyBastion`: the connection to a bastion stays open when a later step of the client fails
  (`probe/ssh/ssh.go:200`).
* `ExportsThisRound`: SSH exports an exit code of an earlier round after a command that ends with 0 or without
  one (`ssh.go:142`).  A timing of an HTTP round is computed from a start that was never noted: the total where the request
  fails before it asks for a connection (`trace.go:151`), the transfer without an answer (`:152`), the wait where the answer
  begins before the request has been written (`:137`).
* `OwnSettings`: WebSocket probers share `DefaultDialer` and MySQL probers one registered TLS configuration
  (`ws.go:74`, `mysql.go:94`).
* `DiesOnlyOnMissing`: `x_duration`, and queries of HTML, XML and text that find nothing or are
  invalid, end the process (`eval/eval.go:136`, `eval/extract.go`); so does a line with an empty third field among those
  the disks of a host are given: one that df has wrapped, or top's of a busy processor (`host/disk.go:92`).
* `MayHang` of `Probes`: SSH commands, the pipe of a shell command, a SOCKS dialogue, MySQL after the dial, PostgreSQL with a
  timeout below half a second (`postgres.go:52` rounds it to none) and
  the TLS handshake of Zookeeper have no deadline.
* `UpMeansChecked`: host lines are told apart by their number only, so a surplus line can hide a missing one
  (`host.go:140`).
* `PanicsForKnownReason`: a label that is invalid or taken, an AWS notifier with the format of Discord
  (`report/types.go:96`), and Discord's unlocked read (`discord.go:268`) end the process; a request before
  `SetProbers` fails.
* `SentMeansAccepted`: WeCom, Teams and Nexmo do not look at what the service says (`wecom.go:89`,
  `teams.go:91`, `nexmo.go:74`); Twilio's Created is taken for an error and the SMS sent again (`twilio.go:74`); a retry of Telegram repeats the parts before (`telegram.go:73`).
* `ReportsDelivered`: of two notifiers with one name, the last channel's gets the report (`channel/manager.go:112`); one whose `Config`
  fails is dropped with a line in the log and gets none (`cmd/easeprobe/notify.go:35`).
* `PageAsNumbered`: matches that fill their pages are said to have one page more (`report/filter.go:111`).
* `ReportComplete`: an HTML report, also the one by e-mail, ends with its first page of 100 probers
  (`report/sla.go:225`).

## 7. Not modelled

YAML and schema handling, the merge of configuration directories and the precedence of
settings in `Normalize`: text and copying done once, before anything runs.  The drivers of the native clients and
the query languages, which are libraries.  The layout of messages, reports and pages, `SLAPercent`, the
log files, the exported numbers, and packaging.  The dry modes of the command line and of reports,
which print and do nothing else.  Reports of one notifier that overlap.
