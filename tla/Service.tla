------------------------------ MODULE Service ------------------------------
(***************************************************************************)
(* From the configuration to the page and the report: main configures the  *)
(* probers, the channels and the schedule while the web server already     *)
(* listens; the probers' rounds are saved behind their backs; a request    *)
(* and each scheduled report read the saved results one by one, and the    *)
(* report is posted, part by part and attempt by attempt.                  *)
(***************************************************************************)
EXTENDS ProberConfig, Report, Delivery, SequencesExt

CONSTANTS
  Listed,          \* the probers of the configuration, in its order
  ListedNotifiers, \* the notifiers, likewise
  ReportChannels,  \* the channels of the SLA report, a sequence
  Channels,
  Names,           \* the names of the notifiers
  Formats,         \* the formats an AWS notifier may be configured with
  Requests,        \* the filters of the requests for a page
  SlackFields,     \* rows in a section of Slack, 10
  DiscordFields,   \* rows in a message to Discord, 12
  TelegramRows,    \* rows in the text that fits a Telegram message
  RetryTimes       \* attempts at a message

ASSUME ServiceAssumption ==
  /\ Listed \in Seq(Range(Listed)) /\ Listed # <<>> /\ IsInjective(Listed)
  /\ IsInjective(ListedNotifiers)
  /\ Range(ReportChannels) \subseteq Channels
  /\ Formats \subseteq FormatFuncs \cup {"discord"}
  /\ \A f \in Requests : f.page \in MinInt .. MaxInt /\ f.size \in MinInt .. MaxInt
  /\ SlackFields \in Nat \ {0} /\ DiscordFields \in Nat \ {0}
  /\ TelegramRows \in Nat \ {0} /\ RetryTimes \in Nat \ {0}

Probers   == Range(Listed)
Notifiers == Range(ListedNotifiers)
Web       == "web"
Readers   == {Web} \cup Notifiers

ASSUME WebAssumption == Web \notin Notifiers

VARIABLES
  kind, wrong, label,     \* configuration of the probers
  provider, format, name, channels,   \* configuration of the notifiers
  unusable,   \* the notifiers whose Config fails
  stage,      \* what main has done
  end,        \* how the process has ended
  server,     \* the web server
  valid,      \* the probers that are run
  metrics,    \* of each prober: none yet, nil or made
  probers,    \* web's pointer to the probers is set
  joined,     \* the notifiers of each channel
  reporters,  \* the notifiers of the SLA report
  busy,       \* a prober is idle, in a round, or sends its result
  live,       \* the prober's own result
  saveChannel,
  data,       \* resultData
  read,       \* what each reader is doing
  job         \* the delivery of each notifier's report

probersConfig   == <<kind, wrong, label>>
notifiersConfig == <<provider, format, name, channels, unusable>>
config  == <<probersConfig, notifiersConfig>>
main    == <<stage, valid, metrics, probers, joined, reporters>>
results == <<busy, live, saveChannel, data>>
vars    == <<config, main, end, server, results, read, job>>

Running == end = "none"

\* What a row shows of a round.
Results == [round : Nat, up : BOOLEAN]
NewResult == [round |-> 0, up |-> FALSE]

\* The nil pointer GetResultData returns for a prober that has no result.
Nil == [round |-> -1, up |-> FALSE]

Idle ==
  [at |-> "idle", plan |-> "none", filter |-> NewEmptyFilter, next |-> 1,
   cnt |-> 0, picked |-> <<>>, rows |-> <<>>, began |-> <<>>, saved |-> {}]

NoJob ==
  [at |-> "idle", text |-> <<>>, part |-> 1, tries |-> 0, got |-> <<>>,
   log |-> <<>>, lossy |-> FALSE]

Init ==
  /\ kind \in [Probers -> Kinds]
  /\ wrong \in { w \in [Probers -> SUBSET UNION { Range(Checks[k]) : k \in Kinds }] :
                   \A p \in Probers : w[p] \subseteq Range(Checks[kind[p]]) }
  /\ label \in [Probers -> SUBSET UserLabels]
  /\ provider \in [Notifiers -> Providers] /\ format \in [Notifiers -> Formats]
  /\ name \in [Notifiers -> Names] /\ channels \in [Notifiers -> SUBSET Channels]
  /\ unusable \in SUBSET { n \in Notifiers : provider[n] \in MayFail }
  /\ stage = "init" /\ end = "none" /\ server = "none"
  /\ valid = <<>> /\ metrics = [p \in Probers |-> "none"]
  /\ probers = FALSE
  /\ joined = [c \in Channels |-> {}] /\ reporters = {}
  /\ busy = [p \in Probers |-> "idle"] /\ live = [p \in Probers |-> NewResult]
  /\ saveChannel = <<>> /\ data = [p \in Probers |-> Nil]
  /\ read = [r \in Readers |-> Idle] /\ job = [n \in Notifiers |-> NoJob]

-----------------------------------------------------------------------------
(***************************************************************************)
(* main                                                                    *)
(***************************************************************************)
\* web.Server listens; a goroutine is to serve and to set webServer.
Server ==
  /\ Running /\ stage = "init"
  /\ stage' = "listening" /\ server' = "listening"
  /\ UNCHANGED <<config, end, valid, metrics, probers, joined, reporters, results,
                 read, job>>

Serve ==
  /\ Running /\ server = "listening"
  /\ server' = "serving"
  /\ UNCHANGED <<config, main, end, results, read, job>>

\* The elements of a sequence at some of its positions, appended one by one.
Selected(s, positions) ==
  LET kept[i \in 0 .. Len(s)] ==
        IF i = 0 THEN <<>>
        ELSE IF i \in positions THEN Append(kept[i - 1], s[i]) ELSE kept[i - 1]
  IN  kept[Len(s)]

\* The probers that are run, in the order of the configuration.
ValidProbers(accepted) ==
  Selected(Listed, { i \in DOMAIN Listed : Listed[i] \in accepted })

\* configProbers: every prober of the configuration gets a result and its
\* metrics, the bad ones included, which then are dropped.
ConfigProbers ==
  /\ Running /\ stage = "listening"
  /\ LET made == [p \in Probers |-> NewMetrics(kind[p], MergeConstLabels(label))]
         good == ValidProbers({ p \in Probers : Accepts(kind[p], wrong[p]) })
     IN  /\ metrics' = made
         /\ valid' = good
         /\ data' = [p \in Probers |-> NewResult]
         /\ end' = IF "panic" \in Range(made) THEN "panic"
                   ELSE IF good = <<>> THEN "fatal" ELSE "none"
  /\ stage' = "probers"
  /\ UNCHANGED <<config, server, probers, joined, reporters, busy, live, saveChannel,
                 read, job>>

\* A notifier whose Config fails is dropped by configNotifiers.
Offers(c, n) == n \notin unusable /\ c \in channels[n]

\* SetNotify: of the notifiers for a channel, one whose name is there already
\* is ignored.
SetNotify(c, i) ==
  LET n == ListedNotifiers[i] IN
  /\ Offers(c, n)
  /\ \A j \in 1 .. i - 1 :
       Offers(c, ListedNotifiers[j]) => name[ListedNotifiers[j]] # name[n]

ConfigChannels ==
  /\ Running /\ stage = "probers"
  /\ joined' = [c \in Channels |->
       { ListedNotifiers[i] : i \in { j \in DOMAIN ListedNotifiers : SetNotify(c, j) } }]
  /\ stage' = "channels"
  /\ UNCHANGED <<config, end, server, valid, metrics, probers, reporters, results,
                 read, job>>

\* CleanData keeps the results of the probers that are run.
CleanData == [p \in Probers |-> IF p \in Range(valid) THEN data[p] ELSE Nil]

\* The saver and the probers are started, then the watchers.
RunProbers ==
  /\ Running /\ stage = "channels"
  /\ data' = CleanData
  /\ stage' = "probing"
  /\ UNCHANGED <<config, end, server, valid, metrics, probers, joined, reporters,
                 busy, live, saveChannel, read, job>>

SetProbers ==
  /\ Running /\ stage = "probing"
  /\ probers' = TRUE
  /\ stage' = "shown"
  /\ UNCHANGED <<config, end, server, valid, metrics, joined, reporters, results,
                 read, job>>

\* Mutant: the loop over the channels returns with the first.
GetNotifiersFirst == joined[ReportChannels[1]]

\* The members of the channels, one for each name, that of the last channel.
GetNotifiers ==
  { m \in Notifiers : \E i \in DOMAIN ReportChannels :
      /\ m \in joined[ReportChannels[i]]
      /\ \A j \in DOMAIN ReportChannels :
           j > i => \A n \in joined[ReportChannels[j]] : name[n] # name[m] }

ScheduleSLA ==
  /\ Running /\ stage = "shown"
  /\ reporters' = GetNotifiers
  /\ stage' = "running"
  /\ UNCHANGED <<config, end, server, valid, metrics, probers, joined, results,
                 read, job>>

\* The first step of exit(): web.Shutdown waits, for its timeout at most, for
\* the page in progress; before the goroutine that serves has run there is no
\* server to shut down, and it serves after all.
Shutdown ==
  /\ Running /\ stage = "running"
  /\ server' = IF server = "serving" THEN "closed" ELSE server
  /\ stage' = "exiting"
  /\ UNCHANGED <<config, end, valid, metrics, probers, joined, reporters, results,
                 read, job>>

\* The rest of it stops the probers and the saver, and the process ends, with
\* whatever its other goroutines are doing.
Exit ==
  /\ Running /\ stage = "exiting"
  /\ end' = "exit"
  /\ UNCHANGED <<config, main, server, results, read, job>>

-----------------------------------------------------------------------------
(***************************************************************************)
(* The probers and the saver                                               *)
(***************************************************************************)
Probed == stage \in {"probing", "shown", "running", "exiting"}

RoundBegins(p) ==
  /\ Running /\ Probed /\ p \in Range(valid) /\ busy[p] = "idle"
  /\ busy' = [busy EXCEPT ![p] = "round"]
  /\ UNCHANGED <<config, main, end, server, live, saveChannel, data, read, job>>

\* The statistics are done and the metrics exported, through a nil pointer
\* where the gauges could not be made.
RoundEnds(p) ==
  /\ Running /\ busy[p] = "round"
  /\ \E up \in BOOLEAN : live' = [live EXCEPT ![p] = [round |-> @.round + 1, up |-> up]]
  /\ busy' = [busy EXCEPT ![p] = "sends"]
  /\ end' = IF metrics[p] = "nil" THEN "panic" ELSE end
  /\ UNCHANGED <<config, main, server, saveChannel, data, read, job>>

SendResult(p) ==
  /\ Running /\ busy[p] = "sends" /\ Len(saveChannel) < Len(valid)
  /\ saveChannel' = Append(saveChannel, [prober |-> p, result |-> live[p]])
  /\ busy' = [busy EXCEPT ![p] = "idle"]
  /\ UNCHANGED <<config, main, end, server, live, data, read, job>>

\* SetResultData.
SaveResult ==
  /\ Running /\ saveChannel # <<>>
  /\ LET res == Head(saveChannel) IN
       /\ data' = [data EXCEPT ![res.prober] = res.result]
       /\ read' = [r \in Readers |->
                     [read[r] EXCEPT !.saved = IF read[r].at \in {"select", "render"}
                                               THEN @ \cup {res.prober} ELSE @]]
  /\ saveChannel' = Tail(saveChannel)
  /\ UNCHANGED <<config, main, end, server, busy, live, job>>

-----------------------------------------------------------------------------
(***************************************************************************)
(* Readers: the handler of a request for the page, and a report's text     *)
(***************************************************************************)
\* A reader that filters begins with the selection; the others take all
\* probers, the shell report twice, for its JSON and its CSV.
Begins(plan, f, picked) ==
  [Idle EXCEPT !.at = IF plan = "filter" THEN "select" ELSE "render",
               !.plan = plan, !.filter = f, !.picked = picked, !.began = data]

\* slaHTML and slaJSON: a filter that is refused is the answer; before
\* SetProbers the pointer is nil, and the router recovers the panic.
Request(f) ==
  /\ Running /\ server = "serving"
  /\ read[Web].at \notin {"select", "render"}
  /\ read' = [read EXCEPT ![Web] =
       IF ~ Check(f) THEN [Idle EXCEPT !.at = "refused", !.filter = f]
       ELSE IF probers THEN Begins("filter", f, <<>>)
       ELSE [Idle EXCEPT !.at = "failed", !.filter = f]]
  /\ UNCHANGED <<config, main, end, server, results, job>>

\* The panic of a handler is recovered, that of a report is not.
Panics(r) ==
  IF r = Web
  THEN /\ read' = [read EXCEPT ![r].at = "failed"]
       /\ UNCHANGED end
  ELSE /\ end' = "panic"
       /\ UNCHANGED read

\* The next prober of the loop of Filter.
Select(r) ==
  /\ Running /\ read[r].at = "select"
  /\ LET me == read[r] IN
       IF me.next > Len(valid)
       THEN /\ read' = [read EXCEPT ![r].at = "render", ![r].next = 1]
            /\ UNCHANGED end
       ELSE LET p == valid[me.next] IN
            IF data[p] = Nil THEN Panics(r)
            ELSE LET matches == Matches(me.filter, data[p]) IN
                 /\ read' = [read EXCEPT ![r] = [me EXCEPT
                      !.next   = @ + 1,
                      !.cnt    = IF matches THEN @ + 1 ELSE @,
                      !.picked = IF matches /\ InPage(me.filter, me.cnt)
                                 THEN Append(@, p) ELSE @]]
                 /\ UNCHANGED end
  /\ UNCHANGED <<config, main, server, results, job>>

\* What a copy of the prober's own result may hold while a round writes it.
Copies(p) ==
  {live[p]} \cup IF busy[p] = "round"
                 THEN [round : {live[p].round + 1}, up : BOOLEAN] ELSE {}

\* The next row: GetResultData clones the saved result under its lock, but
\* Discord copies the prober's own, and its maps while the round writes them
\* end the process.
Render(r) ==
  /\ Running /\ read[r].at = "render"
  /\ LET me == read[r] IN
       IF me.next > Len(me.picked)
       THEN /\ read' = [read EXCEPT ![r].at = "done"]
            /\ UNCHANGED end
       ELSE LET p == me.picked[me.next]
                Row(result) ==
                  /\ read' = [read EXCEPT ![r].next = @ + 1,
                        ![r].rows = Append(@, [prober |-> p, result |-> result])]
                  /\ UNCHANGED end
            IN  CASE me.plan = "live" ->
                       \/ \E result \in Copies(p) : Row(result)
                       \/ busy[p] = "round" /\ Panics(r)
                  [] me.plan # "live" /\ data[p] = Nil -> Panics(r)
                  [] OTHER -> Row(data[p])
  /\ UNCHANGED <<config, main, server, results, job>>

-----------------------------------------------------------------------------
(***************************************************************************)
(* Reports                                                                 *)
(***************************************************************************)
FormatOf(n) == Format(provider[n], format[n])

Plan(n) ==
  CASE provider[n] = "discord" -> "live"
    [] FormatOf(n) = "html"    -> "filter"
    [] OTHER                   -> "all"

\* The probers a report begins with.
Picked(n) ==
  CASE Plan(n) = "filter"    -> <<>>
    [] FormatOf(n) = "shell" -> valid \o valid
    [] OTHER                 -> valid

\* The scheduler starts NotifyStat; a format without functions is nil.
NotifyStat(n) ==
  /\ Running /\ stage \in {"running", "exiting"} /\ n \in reporters
  /\ job[n].at \in {"idle", "done"}
  /\ IF provider[n] # "discord" /\ FormatOf(n) \notin FormatFuncs
     THEN end' = "panic" /\ UNCHANGED <<read, job>>
     ELSE /\ read' = [read EXCEPT ![n] =
               Begins(Plan(n), NewEmptyFilter, Picked(n))]
          /\ job' = [job EXCEPT ![n] = [NoJob EXCEPT !.at = "text"]]
          /\ UNCHANGED end
  /\ UNCHANGED <<config, main, server, results>>

\* The parts a report is posted in, and the sections of a Slack message.
Text(n) ==
  LET rows == read[n].rows IN
  CASE provider[n] = "slack"    -> Sections(rows, SlackFields)
    [] provider[n] = "discord"  -> Sections(rows, DiscordFields)
    [] provider[n] = "telegram" -> Sections(rows, TelegramRows)
    [] OTHER                    -> <<rows>>

Parts(n, text) == IF provider[n] = "slack" THEN 1 ELSE Len(text)

Compose(n) ==
  /\ Running /\ job[n].at = "text" /\ read[n].at = "done"
  /\ LET k == Parts(n, Text(n)) IN
       job' = [job EXCEPT ![n] =
         [NoJob EXCEPT !.at = "send", !.text = Text(n),
                       !.got = [i \in 1 .. k |-> 0], !.log = [i \in 1 .. k |-> "none"]]]
  /\ UNCHANGED <<config, main, end, server, results, read>>

Logged(j, parts, how) ==
  [j EXCEPT !.log = [i \in DOMAIN @ |-> IF i \in parts THEN how ELSE @[i]],
            !.tries = 0,
            !.part = IF Max(parts) < Len(j.log) THEN Max(parts) + 1 ELSE @,
            !.at = IF Max(parts) < Len(j.log) THEN "send" ELSE "done"]

\* DoRetry tries again each part of a report to Discord, and the whole of any
\* other, from the first part on.
Unit(n) == IF provider[n] = "discord" THEN {job[n].part} ELSE DOMAIN job[n].log

\* Mutant: DoRetry counts one attempt too many.
AfterOnceMore(n, j, verdict) ==
  CASE verdict = "ok" ->
         IF j.part < Max(Unit(n)) THEN [j EXCEPT !.part = @ + 1]
         ELSE Logged(j, Unit(n), "sent")
    [] verdict = "retry" /\ j.tries < RetryTimes ->
         [j EXCEPT !.tries = @ + 1, !.part = Min(Unit(n))]
    [] OTHER -> Logged(j, Unit(n), "failed")

\* What becomes of the job after an attempt that ended as judged.
After(n, j, verdict) ==
  CASE verdict = "ok" ->
         IF j.part < Max(Unit(n)) THEN [j EXCEPT !.part = @ + 1]
         ELSE Logged(j, Unit(n), "sent")
    [] verdict = "retry" /\ j.tries + 1 < RetryTimes ->
         [j EXCEPT !.tries = @ + 1, !.part = Min(Unit(n))]
    [] OTHER -> Logged(j, Unit(n), "failed")

Post(n) ==
  /\ Running /\ job[n].at = "send"
  /\ \E a \in Answers(provider[n]) :
       LET verdict == Judge(provider[n], a)
           j == [job[n] EXCEPT
                  !.got[job[n].part] = IF a.accepted THEN @ + 1 ELSE @,
                  !.lossy = @ \/ (a.accepted /\ a.status = "none")]
       IN  job' = [job EXCEPT ![n] = After(n, j, verdict)]
  /\ UNCHANGED <<config, main, end, server, results, read>>
-----------------------------------------------------------------------------
Main ==
  Server \/ ConfigProbers \/ ConfigChannels \/ RunProbers \/ SetProbers \/ ScheduleSLA

Next ==
  \/ Main \/ Serve \/ Shutdown \/ Exit
  \/ \E p \in Probers : RoundBegins(p) \/ RoundEnds(p) \/ SendResult(p)
  \/ SaveResult
  \/ \E f \in Requests : Request(f)
  \/ \E r \in Readers : Select(r) \/ Render(r)
  \/ \E n \in Notifiers : NotifyStat(n) \/ Compose(n) \/ Post(n)

\* The goroutines run, the schedule comes round, and an attempt ends at its
\* timeout, where it has one.  Nothing promises requests, rounds that end, or
\* a signal to exit.
Fairness ==
  /\ WF_vars(Main) /\ WF_vars(SaveResult)
  /\ \A r \in Readers : WF_vars(Select(r)) /\ WF_vars(Render(r))
  /\ \A n \in Notifiers :
       /\ WF_vars(NotifyStat(n)) /\ WF_vars(Compose(n))
       /\ WF_vars(provider[n] \notin MayBlock /\ Post(n))

Spec == Init /\ [][Next]_vars /\ Fairness

-----------------------------------------------------------------------------
(***************************************************************************)
(* Properties                                                              *)
(***************************************************************************)
\* Types; a report in progress is at one of its parts, and has an account of
\* each (NotifyStat, SendTelegram).
TypeOK ==
  /\ stage \in {"init", "listening", "probers", "channels", "probing", "shown",
                "running", "exiting"}
  /\ end \in {"none", "panic", "fatal", "exit"}
  /\ server \in {"none", "listening", "serving", "closed"}
  /\ valid \in Seq(Probers) /\ IsInjective(valid)
  /\ metrics \in [Probers -> {"none", "nil", "made", "panic"}]
  /\ joined \in [Channels -> SUBSET Notifiers] /\ reporters \subseteq Notifiers
  /\ busy \in [Probers -> {"idle", "round", "sends"}]
  /\ live \in [Probers -> Results] /\ data \in [Probers -> Results \cup {Nil}]
  /\ Len(saveChannel) <= Len(valid)
  /\ \A r \in Readers : read[r].at \in {"idle", "refused", "failed", "select", "render",
                                        "done"}
  /\ \A n \in Notifiers :
       /\ job[n].at \in {"idle", "text", "send", "done"}
       /\ job[n].at = "send" => job[n].part \in DOMAIN job[n].log
       /\ DOMAIN job[n].got = DOMAIN job[n].log
       /\ job[n].tries < RetryTimes

\* The probers of a reader's rows, in their order.
Shown(r) == [i \in DOMAIN read[r].rows |-> read[r].rows[i].prober]

\* The i-th prober matched the filter when the reader began.
Matched(r, i) == Matches(read[r].filter, read[r].began[valid[i]])

\* The positions of the matches whose numbers are of the reader's page.
OwnMatches(r) ==
  LET f == read[r].filter
      number(i) == Cardinality({ j \in 1 .. i - 1 : Matched(r, j) })
  IN  { i \in DOMAIN valid : Matched(r, i) /\ number(i) \div f.size + 1 = f.page }

\* Every row is as of the beginning, or as saved since.
RowsAsSaved(r) ==
  \A i \in DOMAIN read[r].rows :
    LET row == read[r].rows[i]
        was == read[r].began[row.prober]
    IN  /\ row.result.round >= was.round
        /\ read[r].plan # "live" /\ row.prober \notin read[r].saved => row.result = was

\* The last row of the page has a number that is an int.
Fits(f) == f.page * f.size - 1 <= MaxInt

\* A page that an int can number has the rows that the numbering of all the
\* matches puts on it, and the pages it is said to be of hold all the matches;
\* only where the matches fill their pages the last is empty.
PageAsNumbered(r) ==
  LET f == read[r].filter
      c == read[r].cnt
  IN  /\ \A i \in DOMAIN read[r].rows :
           LET row == read[r].rows[i] IN
           row.prober \notin read[r].saved => Matches(f, row.result)
      /\ Fits(f) =>
           /\ read[r].saved = {} => Shown(r) = Selected(valid, OwnMatches(r))
           /\ f.page > PageCount(f, c) => read[r].rows = <<>>
           /\ f.page <= PageCount(f, c) /\ read[r].rows = <<>> =>
                c % f.size = 0 /\ f.page = PageCount(f, c)

\* The parts of a report, put together, have every prober once, for the shell
\* in each of its formats; an HTML report ends with its first page.
ReportComplete(n) ==
  LET order == CASE FormatOf(n) = "shell" -> valid \o valid
                 [] FormatOf(n) = "html"  -> SubSeq(valid, 1, Min({DefaultPageSize, Len(valid)}))
                 [] OTHER                 -> valid
      rows  == FlattenSeq(job[n].text)
  IN  [i \in DOMAIN rows |-> rows[i].prober] = order

\* Pages and reports show what the saver has saved, whatever it saves while
\* they read, each prober where it belongs (SLAFilter.Filter, NewEmbeds,
\* SLASlack, splitMessage).
ShownAsSaved ==
  /\ \A r \in Readers : read[r].at = "done" =>
       RowsAsSaved(r) /\ (read[r].plan = "filter" => PageAsNumbered(r))
  /\ \A n \in Notifiers : job[n].at = "send" => ReportComplete(n)

\* The providers whose test leaves the body unread in which the service
\* refuses, and the one whose test takes an acceptance for a refusal.
Careless == {"wecom", "teams", "nexmo"}
Strict   == {"twilio"}

\* A part logged as sent has been taken by the service, unless its provider is
\* careless; a part is taken twice only after an attempt whose answer was
\* lost, with the earlier parts of a Telegram message, or where an acceptance
\* counts as a refusal (DoRetry, SendTelegram, LogSend, Nexmo, Twilio).
SentMeansAccepted ==
  \A n \in Notifiers : \A i \in DOMAIN job[n].log :
    /\ job[n].log[i] = "sent" => job[n].got[i] >= 1 \/ provider[n] \in Careless
    /\ job[n].got[i] > 1 =>
         \/ job[n].lossy \/ provider[n] \in Strict
         \/ provider[n] = "telegram" /\ Len(job[n].log) > 1

\* The metrics of some prober clash with a label, of any prober.
LabelsClash ==
  \E q \in Probers :
    \/ label[q] \cap {"not a label", "__reserved", "name"} # {}
    \/ "exit" \in label[q] /\ \E p \in Probers : kind[p] \in {"shell", "ssh"}

\* A panic ends the process for a label that clashes, a format of SNS that
\* has no functions, or a report to Discord read during a round; a page fails
\* only before the probers are set (NewGauge, FormatFuncs, NewEmbeds, slaHTML).
PanicsForKnownReason ==
  [][ /\ end' = "panic" =>
           \/ LabelsClash
           \/ \E n \in reporters : provider[n] = "aws" /\ format[n] = "discord"
           \/ \E n \in reporters, p \in Probers :
                provider[n] = "discord" /\ read[n].at = "render" /\ busy[p] = "round"
      /\ read'[Web].at = "failed" /\ read[Web].at # "failed" => ~ probers ]_vars

\* A notifier that could be configured, for a channel of the report, comes to
\* the end of a report again and again, it or one of its name that could be,
\* unless that has no timeout or the process ends (configNotifiers,
\* GetNotifiers, scheduleSLA).
ReportsDelivered ==
  \A n \in Notifiers :
    (n \notin unusable /\ channels[n] \cap Range(ReportChannels) # {}) ~>
      \/ ~ Running \/ stage = "exiting"
      \/ \E m \in Notifiers \ unusable :
           name[m] = name[n] /\ (provider[m] \in MayBlock \/ job[m].at = "done")
=============================================================================
