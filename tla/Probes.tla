------------------------------- MODULE Probes -------------------------------
(***************************************************************************)
(* The rounds of probers of one kind, side by side in one process.  A      *)
(* round makes the calls of the kind's script in order; each may fail, and *)
(* one without a deadline may never return.  The connections open at the   *)
(* return and not deferred stay open; the dialer of the WebSocket probes   *)
(* and the TLS registry of the MySQL driver belong to the whole process;   *)
(* the reader goroutine of a WebSocket may outlive its round.              *)
(***************************************************************************)
EXTENDS ProbeCalls, HostOutput, Evaluation, Functions

CONSTANTS
  Probers,
  Nobody,        \* the settings of the process before any prober's
  Keys,          \* the data a native client verifies, by key
  Blank,         \* the keys configured without a value
  Mounts,        \* the disks of the host probe
  Expressions    \* what the evaluator may be configured with

ASSUME ProbesAssumption ==
  /\ Nobody \notin Probers
  /\ Blank \subseteq Keys
  /\ Mounts \in Nat \ {0}
  /\ \A e \in Expressions :
       e.variables \in Seq(VarTypes) /\ e.functions \in Seq(VarTypes)

VARIABLES
  kind, doc, expr,  \* configuration: the kind, its document and expression
  owners,           \* configuration: the probers with settings of their own
  alive,            \* no goroutine has panicked
  pc,               \* the call a prober is in, 0 between rounds
  ok,               \* the status of the round so far
  sound,            \* history: what the round accepted is what it should be
  found,            \* history: what the evaluator's queries, or the disks, found
  open,             \* the connections of the round
  deferred,         \* those whose Close is deferred
  lost,             \* history: the connections the last round left open
  failed,           \* history: the call the last round failed at
  exit,             \* the exitCode field of a shell or SSH probe
  ended,            \* history: the exit code of this round's command
  exported,         \* the exit code this round exported
  trace,            \* what the trace of this round has noted
  unmeasured,       \* the timings this round exported without a start
  slot,             \* whose settings the dialer, or the registry, holds
  since,            \* history: who stored theirs since one stored one's own
  used,             \* whose settings this round's connection has used
  reader,           \* the reader goroutine of this round's WebSocket
  stuck             \* the readers that wait for ever

config   == <<kind, doc, expr, owners>>
evidence == <<sound, found>>
conns    == <<open, deferred, lost>>
codes    == <<exit, ended>>
metrics  == <<exported, unmeasured>>
settings == <<slot, since, used>>
readers  == <<reader, stuck>>
vars == <<config, alive, pc, ok, evidence, conns, failed, codes, trace, metrics,
          settings, readers>>

NoCode == "none"
Kinds == DOMAIN ProbeScripts
Codes == {"0", "1", "255", NoCode}
Hosts == {"host", "hostBastion"}
Sharing == {"websocket", "mysql", "mysqlData"}

Script == ProbeScripts[kind]
Now(p) == Script[pc[p]]
Calling(p) == pc[p] \in 1 .. Len(Script)
In(p, name) == alive /\ Calling(p) /\ Now(p).name = name

-----------------------------------------------------------------------------
(***************************************************************************)
(* The trace of a request: the starts it has noted of the whole, of the    *)
(* wait and of the transfer; that the first byte of this hop's answer has  *)
(* come, and "early" if it came before the start of the wait was noted.    *)
(***************************************************************************)
Exchange == {"getConn", "resolve", "connect", "handshake", "send", "wait"}
Timings == {"total", "wait", "transfer"}
Marks == Timings \cup {"byte", "early", "redirected"}

GetConn(t)      == t \cup {"total"}
WroteRequest(t) == t \cup {"wait"}

\* The reading goroutine of the connection notes the first byte, the writing
\* one that the request has been written: neither waits for the other.
GotFirstResponseByte(t) ==
  IF "byte" \in t THEN t
  ELSE (t \ {"early"}) \cup {"transfer", "byte"}
         \cup (IF "wait" \in t THEN {} ELSE {"early"})

\* What a call may leave in the trace: one that fails, nothing or a part.  The
\* answer may have come before the request is written, or in the midst of it.
Noted(name, succeeds, t) ==
  CASE name = "getConn" -> {IF succeeds THEN GetConn(t) ELSE t}
    [] name = "send" ->
         { GotFirstResponseByte(t), WroteRequest(t),
           WroteRequest(GotFirstResponseByte(t)) } \cup IF succeeds THEN {} ELSE {t}
    [] name = "wait" ->
         {GotFirstResponseByte(t)} \cup IF succeeds THEN {} ELSE {t}
    [] OTHER -> {t}

\* What Done and the hooks have computed from a start that was never noted.
Unmeasured(t) ==
  ({"total", "transfer"} \ t) \cup (IF "early" \in t THEN {"wait"} ELSE {})

-----------------------------------------------------------------------------
Init ==
  /\ kind \in Kinds
  /\ doc \in IF kind = "http" THEN DocTypes \cup {"none"} ELSE {"none"}
  /\ expr \in Expressions
  /\ owners \in SUBSET Probers
  /\ alive = TRUE
  /\ pc = [p \in Probers |-> 0]
  /\ ok = [p \in Probers |-> TRUE]
  /\ sound = [p \in Probers |-> TRUE] /\ found = [p \in Probers |-> {}]
  /\ open = [p \in Probers |-> {}] /\ deferred = [p \in Probers |-> {}]
  /\ lost = [p \in Probers |-> {}] /\ failed = [p \in Probers |-> {}]
  /\ exit = [p \in Probers |-> "0"] /\ ended = [p \in Probers |-> NoCode]
  /\ trace = [p \in Probers |-> {}]
  /\ exported = [p \in Probers |-> NoCode] /\ unmeasured = [p \in Probers |-> {}]
  /\ slot = Nobody /\ since = [p \in Probers |-> {}]
  /\ used = [p \in Probers |-> Nobody]
  /\ reader = [p \in Probers |-> "none"] /\ stuck = [p \in Probers |-> 0]

\* Mutant: the trace of the last round is used again.
TraceStatsKept(p) == UNCHANGED trace

\* NewTraceStats, for each round.
NewTraceStats(p) == trace' = [trace EXCEPT ![p] = {}]

\* A round begins with nothing of the last but the exitCode field.
Begin(p) ==
  /\ alive /\ pc[p] = 0
  /\ pc' = [pc EXCEPT ![p] = 1]
  /\ ok' = [ok EXCEPT ![p] = TRUE]
  /\ sound' = [sound EXCEPT ![p] = TRUE] /\ found' = [found EXCEPT ![p] = {}]
  /\ lost' = [lost EXCEPT ![p] = {}] /\ failed' = [failed EXCEPT ![p] = {}]
  /\ ended' = [ended EXCEPT ![p] = NoCode]
  /\ exported' = [exported EXCEPT ![p] = NoCode]
  /\ unmeasured' = [unmeasured EXCEPT ![p] = {}]
  /\ NewTraceStats(p)
  /\ used' = [used EXCEPT ![p] = Nobody]
  /\ UNCHANGED <<config, alive, open, deferred, exit, slot, since, readers>>

\* ExportMetrics: the exit code field, and the timings of the trace.
ExportMetrics(p) ==
  /\ exported' = [exported EXCEPT ![p] = exit'[p]]
  /\ unmeasured' = [unmeasured EXCEPT
       ![p] = IF kind = "http" THEN Unmeasured(trace'[p]) ELSE {}]

\* The call returns without an error.
Succeed(p) ==
  /\ pc' = [pc EXCEPT ![p] = @ + 1]
  /\ open' = [open EXCEPT ![p] = @ \cup Now(p).opens]
  /\ deferred' = [deferred EXCEPT ![p] = @ \cup Now(p).defers]
  /\ UNCHANGED <<ok, lost, failed>>
  /\ IF Now(p).name = "export" THEN ExportMetrics(p) ELSE UNCHANGED metrics

\* It returns an error.
Fail(p) ==
  /\ ok' = [ok EXCEPT ![p] = FALSE]
  /\ failed' = [failed EXCEPT ![p] = @ \cup {Now(p).name}]
  /\ pc' = [pc EXCEPT ![p] = IF Now(p).onError = "goOn" THEN @ + 1
                             ELSE Len(Script) + 1]
  /\ UNCHANGED <<sound, conns>>
  /\ IF Now(p).onError = "export" THEN ExportMetrics(p) ELSE UNCHANGED metrics

-----------------------------------------------------------------------------
\* The calls whose answer carries data have actions of their own.
Special ==
  {"settings", "dialShared", "run", "pong", "verify", "parse", "evaluate"}

\* Any other call; those of a request call the hooks of its trace.
Answer(p) ==
  /\ alive /\ Calling(p) /\ Now(p).name \notin Special
  /\ \/ /\ \E t \in Noted(Now(p).name, TRUE, trace[p]) : trace' = [trace EXCEPT ![p] = t]
        /\ UNCHANGED <<exit, sound>>
        /\ Succeed(p)
     \/ /\ Now(p).name # "export"
        /\ \E t \in Noted(Now(p).name, FALSE, trace[p]) : trace' = [trace EXCEPT ![p] = t]
        /\ UNCHANGED exit
        /\ Fail(p)
  /\ UNCHANGED <<config, alive, found, ended, settings, readers>>

\* The answer sends the client elsewhere: client.Do makes another request,
\* with the same trace.  Bound: one redirection, where the client follows ten.
Redirect(p) ==
  /\ kind = "http" /\ In(p, "wait") /\ "redirected" \notin trace[p]
  /\ trace' = [trace EXCEPT
       ![p] = (GotFirstResponseByte(@) \ {"byte"}) \cup {"redirected"}]
  /\ pc' = [pc EXCEPT ![p] = 2]
  /\ UNCHANGED <<config, alive, ok, evidence, conns, failed, codes, metrics, settings,
                 readers>>

\* Mutant: the registry is only written where it is empty.
StoreOnce(p) == slot' = IF p \in owners /\ slot = Nobody THEN p ELSE slot

\* A prober with a proxy, or a TLS configuration, of its own puts it where
\* all probers of the kind have theirs; one without leaves what is there.
Store(p) == slot' = IF p \in owners THEN p ELSE slot

StoreSettings(p) ==
  /\ In(p, "settings")
  /\ Store(p)
  /\ since' = IF p \notin owners THEN since
              ELSE [q \in Probers |-> IF q = p THEN {} ELSE since[q] \cup {p}]
  /\ UNCHANGED exit /\ Succeed(p)
  /\ UNCHANGED <<config, alive, evidence, ended, trace, used, readers>>

\* Every WebSocket probe dials with the dialer's proxy, a MySQL prober takes
\* the registered configuration only if it has one.  A WebSocket has a reader.
DialShared(p) ==
  /\ In(p, "dialShared")
  /\ UNCHANGED exit
  /\ \/ /\ used' = [used EXCEPT ![p] =
                      IF kind = "websocket" \/ p \in owners THEN slot ELSE Nobody]
        /\ reader' = [reader EXCEPT ![p] = IF kind = "websocket" THEN "reads" ELSE @]
        /\ Succeed(p) /\ UNCHANGED sound
     \/ Fail(p) /\ UNCHANGED <<used, reader>>
  /\ UNCHANGED <<config, alive, found, ended, trace, slot, since, stuck>>

\* The reader gets a pong and hands it over, on a channel without a buffer.
PongArrives(p) ==
  /\ alive /\ reader[p] = "reads" /\ "ws" \in open[p]
  /\ reader' = [reader EXCEPT ![p] = "sends"]
  /\ UNCHANGED <<config, alive, pc, ok, evidence, conns, failed, codes, trace,
                 metrics, settings, stuck>>

PongReady(p) == reader[p] = "sends"

\* The select on the pong and the timer, which may fire at any moment.
AwaitPong(p) ==
  /\ In(p, "pong")
  /\ UNCHANGED exit
  /\ \/ /\ PongReady(p)
        /\ Succeed(p)
        /\ sound' = [sound EXCEPT ![p] = @ /\ reader[p] = "sends"]
        /\ reader' = [reader EXCEPT ![p] = "reads"]
     \/ Fail(p) /\ UNCHANGED reader
  /\ UNCHANGED <<config, alive, found, ended, trace, settings, stuck>>

\* The exitCode field after a command that ended with the code: the shell
\* probe resets it in every round, the SSH probe only sets it on these errors.
ExitCode(p, code) ==
  CASE kind = "shell"                          -> IF code = NoCode THEN "0" ELSE code
    [] kind \in {"ssh", "sshBastion"} /\ code \notin {"0", NoCode} -> code
    [] OTHER                                   -> exit[p]

\* The command of a shell, SSH or host probe ends, with an exit code or, when
\* it could not be run, without one.
RunCommand(p) ==
  /\ In(p, "run")
  /\ \E code \in Codes :
       /\ ended' = [ended EXCEPT ![p] = code]
       /\ exit' = [exit EXCEPT ![p] = ExitCode(p, code)]
       /\ IF code = "0" THEN Succeed(p) /\ UNCHANGED sound ELSE Fail(p)
  /\ UNCHANGED <<config, alive, found, trace, settings, readers>>

-----------------------------------------------------------------------------
\* What a native client takes for its data, when the server has, for each
\* key, the value configured, another, or none.  Memcache counts the keys and
\* compares those configured with a value.
Verified(a) ==
  IF kind = "memcacheData"
  THEN /\ \A k \in Keys : a[k] # "absent"
       /\ \A k \in Keys \ Blank : a[k] = "same"
  ELSE \A k \in Keys : a[k] = "same"

Holds(a) ==
  \A k \in Keys : a[k] = "same" \/ (kind = "memcacheData" /\ k \in Blank /\ a[k] = "other")

VerifyData(p) ==
  /\ In(p, "verify")
  /\ UNCHANGED exit
  /\ \/ \E a \in [Keys -> {"same", "other", "absent"}] :
          /\ Verified(a)
          /\ Succeed(p) /\ sound' = [sound EXCEPT ![p] = @ /\ Holds(a)]
     \/ Fail(p)
  /\ UNCHANGED <<config, alive, found, ended, trace, settings, readers>>

\* A panic in the goroutine of a prober ends the process.
Panic(p) ==
  /\ alive' = FALSE
  /\ UNCHANGED <<pc, ok, sound, conns, failed, metrics>>

\* The outputs of the host probe's script that end in the outcome.
OutputsFor(outcome) ==
  { o \in Outputs(Mounts) \X BOOLEAN : ParseHostInfo(o[1], Mounts, o[2]) = outcome }
Parsed   == OutputsFor("value")
Panicked == OutputsFor("panic")

ParseOutput(p) ==
  /\ kind \in Hosts /\ In(p, "parse")
  /\ UNCHANGED exit
  /\ \/ \E o \in Parsed :
          /\ Succeed(p)
          /\ sound' = [sound EXCEPT ![p] =
                         @ /\ (OwnLines(o[1], Mounts) \/ Surplus(o[1]))]
          /\ UNCHANGED <<alive, found>>
     \/ Fail(p) /\ UNCHANGED <<alive, found>>
     \/ \E o \in Panicked :
          /\ Panic(p)
          /\ found' = [found EXCEPT
               ![p] = IF DiskWithout(o[1], Mounts, o[2]) THEN {"no third field"} ELSE @]
  /\ UNCHANGED <<config, ended, trace, settings, readers>>

Evaluated(p, outcome, sane) ==
  CASE outcome = "panic" -> Panic(p)
    [] outcome = "error" -> Fail(p) /\ UNCHANGED alive
    [] OTHER -> /\ UNCHANGED alive
                /\ \/ Succeed(p) /\ sound' = [sound EXCEPT ![p] = @ /\ sane]
                   \/ Fail(p)

\* Evaluate, on the response of this round, whatever it holds.
EvaluateResponse(p) ==
  /\ kind = "http" /\ In(p, "evaluate")
  /\ UNCHANGED exit
  /\ IF doc = "none"
     THEN Succeed(p) /\ UNCHANGED <<alive, evidence>>
     ELSE \E v \in [DOMAIN expr.variables -> Findings],
             f \in [DOMAIN expr.functions -> Findings],
             reached \in 0 .. Len(expr.functions) :
            /\ found' = [found EXCEPT ![p] = Range(v) \cup { f[i] : i \in 1 .. reached }]
            /\ Evaluated(p, Evaluate(doc, expr.variables, expr.functions, v, f, reached),
                 \A i \in DOMAIN v : ExtractValue(doc, expr.variables[i], v[i]) = "value")
  /\ UNCHANGED <<config, ended, trace, settings, readers>>

-----------------------------------------------------------------------------
\* The pool of a Memcache client is freed with the client.
Collected == {"pool"}

\* The function returns and its deferred calls close what they close.  The
\* reader of a closed WebSocket ends, unless it has a pong to hand over, one
\* it still had in its buffer included.
Return(p) ==
  /\ alive /\ pc[p] = Len(Script) + 1
  /\ pc' = [pc EXCEPT ![p] = 0]
  /\ lost' = [lost EXCEPT ![p] = open[p] \ (deferred[p] \cup Collected)]
  /\ open' = [open EXCEPT ![p] = {}] /\ deferred' = [deferred EXCEPT ![p] = {}]
  /\ reader' = [reader EXCEPT ![p] = "none"]
  /\ \/ reader[p] # "none" /\ stuck' = [stuck EXCEPT ![p] = @ + 1]
     \/ reader[p] # "sends" /\ UNCHANGED stuck
  /\ UNCHANGED <<config, alive, ok, evidence, failed, codes, trace, metrics, settings>>

Step(p) ==
  \/ Answer(p) \/ Redirect(p) \/ StoreSettings(p) \/ DialShared(p) \/ AwaitPong(p)
  \/ RunCommand(p) \/ VerifyData(p) \/ ParseOutput(p) \/ EvaluateResponse(p)
  \/ Return(p)

Next == \E p \in Probers : Begin(p) \/ Step(p) \/ PongArrives(p)

\* The calls a timeout bounds, and the return; nothing makes the others end.
Bounded(p) == Calling(p) => Now(p).deadline

Fairness == \A p \in Probers : WF_vars(Bounded(p) /\ Step(p))

Spec == Init /\ [][Next]_vars /\ Fairness

-----------------------------------------------------------------------------
(***************************************************************************)
(* Properties                                                              *)
(***************************************************************************)
\* The types of the state.
TypeOK ==
  /\ kind \in Kinds /\ doc \in DocTypes \cup {"none"}
  /\ expr \in Expressions /\ owners \subseteq Probers /\ alive \in BOOLEAN
  /\ \A p \in Probers : pc[p] \in 0 .. Len(Script) + 1
  /\ ok \in [Probers -> BOOLEAN] /\ sound \in [Probers -> BOOLEAN]
  /\ found \in [Probers -> SUBSET (Findings \cup {"no third field"})]
  /\ open \in [Probers -> SUBSET Connections]
  /\ \A p \in Probers : deferred[p] \subseteq open[p]
  /\ lost \in [Probers -> SUBSET (Connections \ Collected)]
  /\ exit \in [Probers -> Codes] /\ ended \in [Probers -> Codes]
  /\ exported \in [Probers -> Codes]
  /\ trace \in [Probers -> SUBSET Marks]
  /\ unmeasured \in [Probers -> SUBSET Timings]
  /\ slot \in Probers \cup {Nobody} /\ since \in [Probers -> SUBSET Probers]
  /\ used \in [Probers -> Probers \cup {Nobody}]
  /\ reader \in [Probers -> {"none", "reads", "sends"}]
  /\ stuck \in [Probers -> Nat]

\* A round that ends up has checked what it claims, in this round: the data
\* of the native clients by key; the lines of each host metric, which only
\* their number of fields tells apart, unless a surplus line hides a missing
\* one; the values of this response's variables; and the pong of this round's
\* connection, never a late one that an earlier reader still holds.
UpMeansChecked ==
  \A p \in Probers : ok[p] /\ pc[p] \notin 1 .. Len(Script) => sound[p]

\* Every connection a round opens is closed by its return, whichever call
\* fails, but the one to a bastion when a later call of the client fails.
LosesOnlyBastion ==
  \A p \in Probers : lost[p] # {} =>
    /\ lost[p] = {"bastion"}
    /\ kind \in {"sshBastion", "hostBastion"}
    /\ failed[p] \subseteq {"key", "dial", "client"}

\* What a round exports is of this round: the exit code of its command, where
\* it failed with one, and for the shell probe always; and the timings of its
\* own request.  One without a start is that of the total, where the request
\* failed before it asked for a connection; of the transfer, where no answer
\* began, as always when there was no connection to send it on; or of the wait,
\* where the answer began before the request was written, and then the transfer
\* has one; of a request answered in full there is no other.
ExportsThisRound ==
  \A p \in Probers : exported[p] # NoCode =>
    /\ kind = "shell" => exported[p] = IF ended[p] = NoCode THEN "0" ELSE ended[p]
    /\ kind \in {"ssh", "sshBastion"} /\ ended[p] \in {"1", "255"} =>
         exported[p] = ended[p]
    /\ kind = "http" =>
         /\ "redirected" \notin trace[p] =>
              /\ "total" \in unmeasured[p] <=> "getConn" \in failed[p]
              /\ failed[p] \cap {"getConn", "resolve", "connect", "handshake"} # {} =>
                   {"transfer"} = unmeasured[p] \ {"total"}
         /\ "redirected" \in trace[p] => unmeasured[p] \subseteq {"wait"}
         /\ "wait" \in unmeasured[p] => unmeasured[p] = {"wait"}
         /\ failed[p] \cap Exchange = {} => unmeasured[p] \subseteq {"wait"}

\* A connection is made with the settings of its own prober, unless another
\* has stored its own in between; a WebSocket prober without a proxy also
\* takes one that any other has ever stored.
OwnSettings ==
  \A p \in Probers : used[p] # Nobody =>
    IF p \in owners THEN used[p] # p => used[p] \in since[p]
    ELSE kind = "websocket" /\ used[p] \in owners

\* What the other side sends ends the process only through a query of the
\* evaluator that does not find its value, in a JSON response only through
\* x_duration; or through a line without a third field among those the disks
\* of a host are given.
DiesOnlyOnMissing ==
  ~ alive => \E p \in Probers :
    IF kind \in Hosts THEN found[p] = {"no third field"}
    ELSE /\ ~ (found[p] \subseteq {"value"})
         /\ doc = "json" => "duration" \in Range(expr.functions)

\* The kinds with a call that no timeout bounds, PostgreSQL only for timeouts
\* below half a second.
MayHang ==
  { "tcpProxy", "tlsProxy", "shell", "ssh", "sshBastion", "host", "hostBastion",
    "mysql", "mysqlData", "postgresBrief", "postgresBriefData", "zookeeperTLS" }

\* A round of any other kind ends, whatever the other side does.
RoundEnds ==
  \A p \in Probers :
    pc[p] > 0 /\ kind \notin MayHang ~> pc[p] = 0 \/ ~ alive
=============================================================================
