------------------------------ MODULE Restart ------------------------------
(***************************************************************************)
(* The program over several runs: each process loads the data file, backs  *)
(* it up, writes its PID file, probes and saves (cmd/easeprobe/main.go,    *)
(* report.go, probe/data.go, daemon/daemon.go).  It ends by SIGTERM, by a  *)
(* crash, or because its monitor saw another configuration: reRun starts   *)
(* the next process before this one has ended, so that two of them share   *)
(* the disk.  A supervisor may start one when none is left.  Loading,      *)
(* renaming, removing and saving files may each fail, which is logged.     *)
(*                                                                         *)
(* How a process stops its goroutines is in EaseProbe; here it waits until *)
(* none of its probers is in a round that does not return, and stops.      *)
(*                                                                         *)
(* A configuration file is read in two ways: New expands the environment   *)
(* in it, IsConfigModified parses its raw content (conf/conf.go).          *)
(***************************************************************************)
EXTENDS DataStore

CONSTANTS
  Processes,     \* 1 .. n, in the order they are started
  Files,         \* configuration files: the raw content parses, or not; the
                 \* probers of the expanded one, or Invalid
  Backups,       \* settings.sla.backups
  FirstDisks,    \* what earlier runs of the program may have left on the disk
  MayHang,       \* the probers of which a round need not return (see Probes)
  Invalid,       \* a configuration that does not parse
  NoFile         \* no configuration file: config before New has loaded one,
                 \* previousYAMLFile before the first poll

ASSUME ProcessesAssumption == IsFiniteSet(Processes) /\ Processes = 1 .. Cardinality(Processes)
ASSUME FilesAssumption ==
  Files \subseteq [parses : BOOLEAN, probers : {Invalid} \cup SUBSET Names]
ASSUME BackupsAssumption == Backups \in Int
ASSUME FirstDisksAssumption == \A d \in FirstDisks : IsDisk(d)
ASSUME MayHangAssumption == MayHang \subseteq Names
ASSUME NoFileAssumption == NoFile \notin Files

VARIABLES
  configFile,  \* the configuration file
  disk,        \* the data file and its backups
  pidFile,     \* the process the PID file names, 0 when there is none
  main,        \* what the main goroutine of each process is at
  rerun,       \* the process stops in order to start the next one
  config,      \* the configuration file a process has loaded
  data,        \* resultData
  made,        \* the rounds its probers have recorded in their own results
  hung,        \* its probers that are in a round that does not return
  saver,       \* what its saver is at
  opened,      \* the file its saver has opened
  seen,        \* its previousYAMLFile
  started      \* history: what a process has found in which data file, whether
               \* it was alone then, has backed it up, and has saved since

envVars == <<configFile, disk, pidFile>>
vars == <<envVars, main, rerun, config, data, made, hung, saver, opened, seen, started>>

-----------------------------------------------------------------------------
Alive(p) == main[p] \notin {"none", "gone"}

Running(p) == main[p] = "running"

\* Mutant: the probers go on until the process has ended.
ProbingUntilGone(p) ==
  main[p] \in {"running", "waiting", "stopping", "spawning", "leaving"}

\* The probers of p make rounds, also while exit() waits for them.
Probing(p) == main[p] \in {"running", "waiting"}

IsNext(p) == main[p] = "none" /\ \A q \in Processes : q < p => main[q] # "none"

NotStarted ==
  [content |-> Blank, file |-> 0, alone |-> FALSE, backed |-> FALSE, saved |-> FALSE]

Init ==
  /\ configFile \in Files
  /\ disk \in FirstDisks
  /\ pidFile = 0
  /\ main = [p \in Processes |-> "none"]
  /\ rerun = [p \in Processes |-> FALSE]
  /\ config = [p \in Processes |-> NoFile]
  /\ data = [p \in Processes |-> Empty]
  /\ made = [p \in Processes |-> Empty]
  /\ hung = [p \in Processes |-> {}]
  /\ saver = [p \in Processes |-> "none"]
  /\ opened = [p \in Processes |-> 0]
  /\ seen = [p \in Processes |-> NoFile]
  /\ started = [p \in Processes |-> NotStarted]

\* The configuration file is edited.
Edit(c) ==
  /\ configFile' = c
  /\ UNCHANGED <<disk, pidFile, main, rerun, config, data, made, hung, saver,
                 opened, seen, started>>

\* conf.New reads the configuration file; without a valid one the process exits.
Loaded(c) == IF c.probers = Invalid THEN NoFile ELSE c
Begun(c) == IF c.probers = Invalid THEN "gone" ELSE "loading"

\* The supervisor, or a user, starts the next process.
Start(p) ==
  /\ \A q \in Processes : ~ Alive(q)
  /\ IsNext(p)
  /\ config' = [config EXCEPT ![p] = Loaded(configFile)]
  /\ main' = [main EXCEPT ![p] = Begun(configFile)]
  /\ UNCHANGED <<envVars, rerun, data, made, hung, saver, opened, seen, started>>

\* What was in the memory of p is gone, whatever its saver was at.
Ends(p) ==
  /\ main' = [main EXCEPT ![p] = "gone"]
  /\ rerun' = [rerun EXCEPT ![p] = FALSE]
  /\ config' = [config EXCEPT ![p] = NoFile]
  /\ data' = [data EXCEPT ![p] = Empty]
  /\ made' = [made EXCEPT ![p] = Empty]
  /\ hung' = [hung EXCEPT ![p] = {}]
  /\ saver' = [saver EXCEPT ![p] = "none"]
  /\ opened' = [opened EXCEPT ![p] = 0]
  /\ seen' = [seen EXCEPT ![p] = NoFile]
  /\ started' = [started EXCEPT ![p] = NotStarted]

-----------------------------------------------------------------------------
(***************************************************************************)
(* The start of a process                                                  *)
(***************************************************************************)
\* initData finds no data file.
NoData(p) ==
  /\ main[p] = "loading"
  /\ disk.file = 0
  /\ main' = [main EXCEPT ![p] = "writingPID"]
  /\ UNCHANGED <<envVars, rerun, config, data, made, hung, saver, opened, seen, started>>

Found(p) ==
  [content |-> disk.contents[disk.file], file |-> disk.file,
   alone |-> \A q \in Processes \ {p} : ~ Alive(q),
   backed |-> FALSE, saved |-> FALSE]

\* LoadDataFromFile decodes the data file ...
Load(p) ==
  /\ main[p] = "loading"
  /\ disk.file # 0
  /\ disk.contents[disk.file].decodes
  /\ data' = [data EXCEPT ![p] = disk.contents[disk.file].data]
  /\ started' = [started EXCEPT ![p] = Found(p)]
  /\ main' = [main EXCEPT ![p] = "backingUp"]
  /\ UNCHANGED <<envVars, rerun, config, made, hung, saver, opened, seen>>

\* ... or returns, because the file cannot be read, or not be decoded to its
\* end: it is not backed up.
LoadFails(p) ==
  /\ main[p] = "loading"
  /\ disk.file # 0
  /\ \/ data' = data
     \/ /\ ~ disk.contents[disk.file].decodes
        /\ data' = [data EXCEPT ![p] = disk.contents[disk.file].data]
  /\ started' = [started EXCEPT ![p] = Found(p)]
  /\ main' = [main EXCEPT ![p] = "cleaning"]
  /\ UNCHANGED <<envVars, rerun, config, made, hung, saver, opened, seen>>

\* The file that was loaded is renamed ...
BackUp(p) ==
  /\ main[p] = "backingUp"
  /\ disk' = BackedUp(disk)
  /\ started' = [started EXCEPT ![p].backed = TRUE]
  /\ main' = [main EXCEPT ![p] = "cleaning"]
  /\ UNCHANGED <<configFile, pidFile, rerun, config, data, made, hung, saver,
                 opened, seen>>

\* ... or cannot be, and stays the data file.
BackUpFails(p) ==
  /\ main[p] = "backingUp"
  /\ main' = [main EXCEPT ![p] = "cleaning"]
  /\ UNCHANGED <<envVars, rerun, config, data, made, hung, saver, opened, seen, started>>

CleanBackups(p, stuck) ==
  /\ main[p] = "cleaning"
  /\ disk' = CleanDataFile(disk, Backups, stuck)
  /\ main' = [main EXCEPT ![p] = "writingPID"]
  /\ UNCHANGED <<configFile, pidFile, rerun, config, data, made, hung, saver,
                 opened, seen, started>>

NewPIDFile(p) ==
  /\ main[p] = "writingPID"
  /\ pidFile' = p
  /\ main' = [main EXCEPT ![p] = "configuring"]
  /\ UNCHANGED <<configFile, disk, rerun, config, data, made, hung, saver, opened,
                 seen, started>>

\* configProbers leaves the probers that are configured well; without any the
\* process ends, and its PID file stays.  Then CleanData, and the goroutines
\* are started; the saver begins with a save.
ConfigProbers(p, good) ==
  /\ main[p] = "configuring"
  /\ good \subseteq config[p].probers
  /\ IF good = {}
     THEN Ends(p)
     ELSE /\ main' = [main EXCEPT ![p] = "running"]
          /\ made' = [made EXCEPT ![p] = [n \in good |-> NewResultWithName(data[p], n)]]
          /\ data' = [data EXCEPT ![p] = CleanData(@, made'[p])]
          /\ saver' = [saver EXCEPT ![p] = "saving"]
          /\ UNCHANGED <<rerun, config, hung, opened, seen, started>>
  /\ UNCHANGED envVars

-----------------------------------------------------------------------------
(***************************************************************************)
(* A running process                                                       *)
(***************************************************************************)
Round(p, n) ==
  /\ Probing(p)
  /\ n \in DOMAIN made[p] \ hung[p]
  /\ made' = [made EXCEPT ![p][n] = @ + 1]
  /\ UNCHANGED <<envVars, main, rerun, config, data, hung, saver, opened, seen, started>>

\* A round of the prober does not return.
RoundHangs(p, n) ==
  /\ Probing(p)
  /\ n \in (DOMAIN made[p] \cap MayHang) \ hung[p]
  /\ hung' = [hung EXCEPT ![p] = @ \cup {n}]
  /\ UNCHANGED <<envVars, main, rerun, config, data, made, saver, opened, seen, started>>

\* The saver takes the newest result of a prober: SetResultData.
Record(p, n) ==
  /\ Alive(p)
  /\ saver[p] = "selecting"
  /\ n \in DOMAIN made[p]
  /\ data' = [data EXCEPT ![p] = SetResultData(@, n, made[p][n])]
  /\ UNCHANGED <<envVars, main, rerun, config, made, hung, saver, opened, seen, started>>

\* The saver's interval is up.
SaveDue(p) ==
  /\ Alive(p)
  /\ saver[p] = "selecting"
  /\ saver' = [saver EXCEPT ![p] = "saving"]
  /\ UNCHANGED <<envVars, main, rerun, config, data, made, hung, opened, seen, started>>

\* SaveDataToFile: the file is opened ...
SaveOpens(p) ==
  /\ Alive(p)
  /\ saver[p] \in {"saving", "lastSave"}
  /\ opened[p] = 0
  /\ disk' = Opened(disk)
  /\ opened' = [opened EXCEPT ![p] = disk'.file]
  /\ started' = [started EXCEPT ![p].saved = TRUE]
  /\ UNCHANGED <<configFile, pidFile, main, rerun, config, data, made, hung, saver, seen>>

\* ... a part of it is written, which decodes or not, depending on the cut ...
SaveTears(p, some, decodes) ==
  /\ Alive(p)
  /\ opened[p] # 0
  /\ some \subseteq DOMAIN data[p]
  /\ disk' = Written(disk, opened[p], Content(decodes, Part(data[p], some)))
  /\ UNCHANGED <<configFile, pidFile, main, rerun, config, data, made, hung, saver,
                 opened, seen, started>>

\* The saver goes on to its loop, or ends.
AfterSave(p) ==
  saver' = [saver EXCEPT ![p] = IF @ = "lastSave" THEN "done" ELSE "selecting"]

\* ... and all of it.
SaveWrites(p) ==
  /\ Alive(p)
  /\ opened[p] # 0
  /\ disk' = Written(disk, opened[p], Content(TRUE, data[p]))
  /\ opened' = [opened EXCEPT ![p] = 0]
  /\ AfterSave(p)
  /\ UNCHANGED <<configFile, pidFile, main, rerun, config, data, made, hung, seen, started>>

\* The file cannot be opened, or the rest of it not be written: that is logged.
SaveFails(p) ==
  /\ Alive(p)
  /\ saver[p] \in {"saving", "lastSave"}
  /\ opened' = [opened EXCEPT ![p] = 0]
  /\ AfterSave(p)
  /\ UNCHANGED <<envVars, main, rerun, config, data, made, hung, seen, started>>

\* Mutant: the content is remembered before it is compared.
IsConfigModifiedNever(c, previous) == FALSE

\* IsConfigModified, from the second poll on, if the raw content parses.
IsConfigModified(c, previous) ==
  previous # NoFile /\ c.parses /\ c # previous

\* The monitor compares the configuration file with the one it saw before; the
\* first time it only remembers it.  When it has changed the monitor ends, and
\* main, when it gets to it, goes on to reRun.
Poll(p) ==
  /\ Running(p)
  /\ seen[p] = NoFile \/ configFile.parses
  /\ seen' = [seen EXCEPT ![p] = configFile]
  /\ IF IsConfigModified(configFile, seen[p])
     THEN /\ rerun' = [rerun EXCEPT ![p] = TRUE]
          /\ main' = [main EXCEPT ![p] = "waiting"]
     ELSE UNCHANGED <<rerun, main>>
  /\ UNCHANGED <<envVars, config, data, made, hung, saver, opened, started>>

-----------------------------------------------------------------------------
(***************************************************************************)
(* The end of a process                                                    *)
(***************************************************************************)
\* SIGTERM: exit() begins.
Terminate(p) ==
  /\ Running(p)
  /\ main' = [main EXCEPT ![p] = "waiting"]
  /\ UNCHANGED <<envVars, rerun, config, data, made, hung, saver, opened, seen, started>>

\* Its first steps tell the probers to stop and wait until all have: wg.Wait().
StopProbers(p) ==
  /\ main[p] = "waiting"
  /\ hung[p] = {}
  /\ main' = [main EXCEPT ![p] = "stopping"]
  /\ UNCHANGED <<envVars, rerun, config, data, made, hung, saver, opened, seen, started>>

\* doneSave <- true: the saver begins its last save while main goes on.
TellSaver(p) ==
  /\ main[p] = "stopping"
  /\ saver[p] = "selecting"
  /\ saver' = [saver EXCEPT ![p] = "lastSave"]
  /\ main' = [main EXCEPT ![p] = IF rerun[p] THEN "spawning" ELSE "leaving"]
  /\ UNCHANGED <<envVars, rerun, config, data, made, hung, opened, seen, started>>

\* os.StartProcess: the next process is started, and main returns.
Spawn(p, q) ==
  /\ main[p] = "spawning"
  /\ IsNext(q)
  /\ config' = [config EXCEPT ![q] = Loaded(configFile)]
  /\ main' = [main EXCEPT ![p] = "leaving", ![q] = Begun(configFile)]
  /\ UNCHANGED <<envVars, rerun, data, made, hung, saver, opened, seen, started>>

\* It cannot be started: that is logged.
SpawnFails(p) ==
  /\ main[p] = "spawning"
  /\ main' = [main EXCEPT ![p] = "leaving"]
  /\ UNCHANGED <<envVars, rerun, config, data, made, hung, saver, opened, seen, started>>

\* The deferred RemovePIDFile removes the file, whatever process it names, and
\* main returns.
Leave(p) ==
  /\ main[p] = "leaving"
  /\ pidFile' = 0
  /\ Ends(p)
  /\ UNCHANGED <<configFile, disk>>

\* The process is killed, or ends at its start because the PID file cannot be
\* written or the web server's port is taken.
Crash(p) ==
  /\ Alive(p)
  /\ Ends(p)
  /\ UNCHANGED envVars

-----------------------------------------------------------------------------
Begin(p) ==
  \/ NoData(p) \/ Load(p) \/ LoadFails(p) \/ BackUp(p) \/ BackUpFails(p)
  \/ (\E stuck \in SUBSET disk.backups : CleanBackups(p, stuck))
  \/ NewPIDFile(p)
  \/ (\E good \in SUBSET Names : ConfigProbers(p, good))

ProcessStep(p) ==
  \/ Begin(p)
  \/ (\E n \in Names : Round(p, n)) \/ (\E n \in Names : RoundHangs(p, n))
  \/ (\E n \in Names : Record(p, n))
  \/ SaveDue(p) \/ SaveOpens(p)
  \/ (\E some \in SUBSET Names, decodes \in BOOLEAN : SaveTears(p, some, decodes))
  \/ SaveWrites(p) \/ SaveFails(p)
  \/ Poll(p) \/ Terminate(p) \/ StopProbers(p) \/ TellSaver(p)
  \/ (\E q \in Processes : Spawn(p, q)) \/ SpawnFails(p) \/ Leave(p)

Next ==
  \/ \E p \in Processes : Start(p) \/ ProcessStep(p) \/ Crash(p)
  \/ \E c \in Files : Edit(c)

\* The goroutines of a process run, and its monitor polls.  The saver's select
\* does not choose its timer for ever while main waits for it (see EaseProbe).
\* Nothing makes a process start or end, a round happen or the file be edited.
Fairness ==
  \A p \in Processes :
    /\ WF_vars(Begin(p))
    /\ WF_vars(SaveOpens(p) \/ SaveWrites(p) \/ SaveFails(p))
    /\ WF_vars(Poll(p))
    /\ WF_vars(StopProbers(p))
    /\ SF_vars(TellSaver(p))
    /\ WF_vars((\E q \in Processes : Spawn(p, q)) \/ SpawnFails(p) \/ Leave(p))

Spec == Init /\ [][Next]_vars /\ Fairness
-----------------------------------------------------------------------------
(***************************************************************************)
(* Properties                                                              *)
(***************************************************************************)
MainSteps ==
  {"none", "loading", "backingUp", "cleaning", "writingPID", "configuring",
   "running", "waiting", "stopping", "spawning", "leaving", "gone"}

\* The types of the processes' state.  While the probers run every one of them
\* has data, which the SLA pages and reports read without a look (report/sla.go).
TypeOK ==
  /\ configFile \in Files
  /\ IsDisk(disk)
  /\ pidFile \in {0} \cup Processes
  /\ main \in [Processes -> MainSteps]
  /\ rerun \in [Processes -> BOOLEAN]
  /\ \A p \in Processes :
       /\ config[p] \in Files \cup {NoFile}
       /\ IsData(data[p]) /\ IsData(made[p])
       /\ Probing(p) => DOMAIN data[p] = DOMAIN made[p]
       /\ hung[p] \subseteq MayHang
       /\ saver[p] \in {"none", "saving", "selecting", "lastSave", "done"}
       /\ opened[p] \in 0 .. Len(disk.contents)
       /\ seen[p] \in Files \cup {NoFile}
       /\ IsContent(started[p].content)
       /\ started[p].file \in 0 .. Len(disk.contents)

\* No two processes probe at the same time, so that no outage is alerted twice
\* by an old and a new process.
OneProbing ==
  \A p, q \in Processes : Probing(p) /\ Probing(q) => p = q

Newest(p) == Alive(p) /\ \A q \in Processes : q > p => main[q] = "none"

\* What a process that started alone has found in the data file stays on the
\* disk, whenever it is killed: if it could rename the file, among the backups
\* as long as the process runs, unless no backups are wanted; if not, because
\* the file could not be decoded to its end or not be renamed, in the data file
\* until the first save, which truncates the only copy there is.
StartSurvives ==
  \A p \in Processes :
    LET s == started[p] IN
    /\ Newest(p) /\ s.alone
    /\ main[p] \notin {"loading", "backingUp", "cleaning"}
    => /\ s.backed /\ Backups # 0 =>
            s.file \in disk.backups /\ disk.contents[s.file] = s.content
       /\ ~ s.backed /\ ~ s.saved =>
            disk.file = s.file /\ disk.contents[s.file] = s.content

\* A change of the configuration file that the monitor can see, because it has
\* polled before and the raw content parses, and that lasts, is applied: the
\* process it leads to runs with it, unless no process is left, as when New
\* does not accept the file, or the one there is waits for a prober whose round
\* does not return.
ChangeApplied ==
  \A c \in {f \in Files : f.parses} :
    (configFile = c /\ \E p \in Processes : Running(p) /\ seen[p] \notin {NoFile, c})
      ~> \/ configFile # c
         \/ \E p \in Processes : Running(p) /\ config[p] = c
         \/ \A p \in Processes : ~ Alive(p)
         \/ \E p \in Processes : main[p] = "waiting" /\ hung[p] # {}

\* The manual: "The EaseProbe would create a PID file (default
\* `$CWD/easeprobe.pid`) when it starts", which names the process to send the
\* HUP signal to.
PidFileNamesRunning ==
  \A p \in Processes : Running(p) => pidFile = p
=============================================================================
