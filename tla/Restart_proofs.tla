--------------------------- MODULE Restart_proofs ---------------------------
(***************************************************************************)
(* The processes of Restart end in the order they were started: while a    *)
(* process is anything but on its way out, no later one has been started.  *)
(* So no two of them probe at once, however starts, restarts and crashes   *)
(* fall, for any number of processes.  Then the types of the disk and of   *)
(* each process, and that what a process has found in the data file stays  *)
(* on the disk.                                                            *)
(***************************************************************************)
EXTENDS Restart, FiniteSetTheorems, SequenceTheorems, TLAPS

MainTyped == main \in [Processes -> MainSteps]

Handover ==
  \A p, q \in Processes :
    p < q /\ main[q] # "none" => main[p] \in {"leaving", "gone"}

Inv == MainTyped /\ Handover

\* The process numbers are integers.
LEMMA ProcessNumbers == Processes \subseteq Int
  <1>1. IsFiniteSet(Processes) /\ Processes = 1 .. Cardinality(Processes)
    BY ProcessesAssumption DEF ProcessesAssumption
  <1>2. Cardinality(Processes) \in Nat  BY <1>1, FS_CardinalityType
  <1> QED BY <1>1, <1>2

\* Initially no process has been started.
LEMMA InitInv == Init => Inv
  BY DEF Init, Inv, MainTyped, Handover, MainSteps

\* A step of one process p that is neither on its way out nor not yet started
\* moves it on, and leaves the others as they are.
LEMMA OwnStep ==
  ASSUME Inv, NEW p \in Processes, NEW s \in MainSteps \ {"none"},
         main[p] \notin {"none", "leaving", "gone"} \/ (main[p] = "leaving" /\ s = "gone"),
         main' = [main EXCEPT ![p] = s]
  PROVE  Inv'
  BY ProcessNumbers DEF Inv, MainTyped, Handover, MainSteps

\* A process ends, whatever it was at.
LEMMA Ending ==
  ASSUME Inv, NEW p \in Processes, Alive(p), Ends(p)
  PROVE  Inv'
  <1>1. main' = [main EXCEPT ![p] = "gone"]  BY DEF Ends
  <1> QED BY <1>1 DEF Inv, MainTyped, Handover, MainSteps, Alive

\* The next process begins when none is alive, or when its parent turns to leave.
LEMMA Beginning ==
  ASSUME Inv, NEW q \in Processes, IsNext(q), NEW s \in {"loading", "gone"},
         main' = [main EXCEPT ![q] = s],
         \A r \in Processes : ~ Alive(r)
  PROVE  Inv'
  BY ProcessNumbers DEF Inv, MainTyped, Handover, MainSteps, Alive, IsNext

LEMMA HandingOver ==
  ASSUME Inv, NEW p \in Processes, NEW q \in Processes,
         main[p] = "spawning", IsNext(q), NEW s \in {"loading", "gone"},
         main' = [main EXCEPT ![p] = "leaving", ![q] = s]
  PROVE  Inv'
  <1>1. p # q  BY DEF IsNext
  <1>2. MainTyped'  BY DEF Inv, MainTyped, MainSteps
  <1>3. ASSUME NEW a \in Processes, NEW b \in Processes, a < b, main'[b] # "none"
        PROVE  main'[a] \in {"leaving", "gone"}
    <2>1. \A r \in Processes : r # p /\ r # q => main'[r] = main[r]
      BY DEF Inv, MainTyped
    <2>2. main'[p] = "leaving" /\ main'[q] = s  BY <1>1 DEF Inv, MainTyped
    <2>3. p < q /\ main[q] = "none"
      BY <1>1, ProcessNumbers DEF Inv, Handover, IsNext
    <2>4. CASE a = p  BY <2>2, <2>4
    <2>5. CASE a = q
      <3>1. b # p /\ b # q  BY <1>3, <2>3, <2>5, ProcessNumbers
      <3> QED BY <1>3, <2>1, <2>3, <2>5, <3>1 DEF Inv, Handover
    <2>6. CASE a # p /\ a # q /\ b = q
      <3>1. main[a] # "none"  BY <1>3, <2>6 DEF IsNext
      <3>2. a < p
        BY <2>6, <3>1, ProcessNumbers DEF Inv, Handover
      <3> QED BY <2>1, <2>6, <3>2 DEF Inv, Handover
    <2>7. CASE a # p /\ a # q /\ b # q
      <3>1. main[b] # "none"  BY <1>3, <2>1, <2>7
      <3> QED BY <1>3, <2>1, <2>7, <3>1 DEF Inv, Handover
    <2> QED BY <2>4, <2>5, <2>6, <2>7
  <1> QED BY <1>2, <1>3 DEF Inv, Handover

\* Every step of the specification keeps the order.
LEMMA NextInv == Inv /\ [Next]_vars => Inv'
  <1> SUFFICES ASSUME Inv, [Next]_vars PROVE Inv'
    OBVIOUS
  <1>1. CASE main' = main  BY <1>1 DEF Inv, MainTyped, Handover
  <1>2. ASSUME NEW p \in Processes, Start(p) PROVE Inv'
    <2>1. Begun(configFile) \in {"loading", "gone"}  BY DEF Begun
    <2> QED BY <1>2, <2>1, Beginning DEF Start
  <1>3. ASSUME NEW p \in Processes, ProcessStep(p) PROVE Inv'
    <2>1. CASE \/ NoData(p) \/ Load(p) \/ LoadFails(p) \/ BackUp(p) \/ BackUpFails(p)
               \/ \E stuck \in SUBSET disk.backups : CleanBackups(p, stuck)
               \/ NewPIDFile(p)
      <3>1. \E s \in {"writingPID", "backingUp", "cleaning", "configuring"} :
              main' = [main EXCEPT ![p] = s]
        BY <2>1 DEF NoData, Load, LoadFails, BackUp, BackUpFails, CleanBackups, NewPIDFile
      <3>2. main[p] \notin {"none", "leaving", "gone"}
        BY <2>1 DEF NoData, Load, LoadFails, BackUp, BackUpFails, CleanBackups, NewPIDFile
      <3> QED BY <3>1, <3>2, OwnStep DEF MainSteps
    <2>2. ASSUME NEW good \in SUBSET Names, ConfigProbers(p, good) PROVE Inv'
      <3>1. main' = [main EXCEPT ![p] = "gone"] \/ main' = [main EXCEPT ![p] = "running"]
        BY <2>2 DEF ConfigProbers, Ends
      <3>2. main[p] = "configuring"  BY <2>2 DEF ConfigProbers
      <3> QED BY <3>1, <3>2, OwnStep DEF MainSteps
    <2>3. CASE \/ \E n \in Names : Round(p, n) \/ RoundHangs(p, n) \/ Record(p, n)
               \/ SaveDue(p) \/ SaveOpens(p)
               \/ \E some \in SUBSET Names, decodes \in BOOLEAN : SaveTears(p, some, decodes)
               \/ SaveWrites(p) \/ SaveFails(p)
      <3>1. main' = main
        BY <2>3 DEF Round, RoundHangs, Record, SaveDue, SaveOpens, SaveTears,
             SaveWrites, SaveFails
      <3> QED BY <1>1, <3>1
    <2>4. CASE Poll(p)
      <3>1. main' = main \/ main' = [main EXCEPT ![p] = "waiting"]
        BY <2>4 DEF Poll
      <3>2. main[p] = "running"  BY <2>4 DEF Poll, Running
      <3> QED BY <1>1, <3>1, <3>2, OwnStep DEF MainSteps
    <2>5. CASE Terminate(p) \/ StopProbers(p)
      <3>1. /\ \E s \in {"waiting", "stopping"} : main' = [main EXCEPT ![p] = s]
            /\ main[p] \in {"running", "waiting"}
        BY <2>5 DEF Terminate, StopProbers, Running
      <3> QED BY <3>1, OwnStep DEF MainSteps
    <2>6. CASE TellSaver(p)
      <3>1. main' = [main EXCEPT ![p] = "spawning"] \/ main' = [main EXCEPT ![p] = "leaving"]
        BY <2>6 DEF TellSaver
      <3>2. main[p] = "stopping"  BY <2>6 DEF TellSaver
      <3> QED BY <3>1, <3>2, OwnStep DEF MainSteps
    <2>7. ASSUME NEW q \in Processes, Spawn(p, q) PROVE Inv'
      <3>1. Begun(configFile) \in {"loading", "gone"}  BY DEF Begun
      <3> QED BY <2>7, <3>1, HandingOver DEF Spawn
    <2>8. CASE SpawnFails(p)
      <3>1. main' = [main EXCEPT ![p] = "leaving"] /\ main[p] = "spawning"
        BY <2>8 DEF SpawnFails
      <3> QED BY <3>1, OwnStep DEF MainSteps
    <2>9. CASE Leave(p)
      <3>1. main' = [main EXCEPT ![p] = "gone"] /\ main[p] = "leaving"
        BY <2>9 DEF Leave, Ends
      <3> QED BY <3>1, OwnStep DEF MainSteps
    <2> QED BY <1>3, <2>1, <2>2, <2>3, <2>4, <2>5, <2>6, <2>7, <2>8, <2>9
            DEF ProcessStep, Begin
  <1>4. ASSUME NEW p \in Processes, Crash(p) PROVE Inv'
    BY <1>4, Ending DEF Crash
  <1>5. ASSUME NEW c \in Files, Edit(c) PROVE Inv'
    BY <1>5, <1>1 DEF Edit
  <1>6. CASE UNCHANGED vars  BY <1>6, <1>1 DEF vars
  <1> QED BY <1>2, <1>3, <1>4, <1>5, <1>6 DEF Next

\* A process probes only as long as no later one has been started.
LEMMA InvOneProbing == Inv => OneProbing
  <1> SUFFICES ASSUME Inv, NEW p \in Processes, NEW q \in Processes,
                      Probing(p), Probing(q), p # q
               PROVE  FALSE
    BY DEF OneProbing
  <1>1. main[p] \in {"running", "waiting"} /\ main[q] \in {"running", "waiting"}
    BY DEF Probing
  <1>2. p < q \/ q < p  BY ProcessNumbers
  <1> QED BY <1>1, <1>2 DEF Inv, Handover

\* No two processes probe at the same time: exit() has stopped the probers
\* before reRun starts the next process (cmd/easeprobe/main.go).
THEOREM OneProbes == Spec => []OneProbing
  <1>1. Init => Inv  BY InitInv
  <1>2. Inv /\ [Next]_vars => Inv'  BY NextInv
  <1>3. Inv => OneProbing  BY InvOneProbing
  <1> QED BY <1>1, <1>2, <1>3, PTL DEF Spec

-----------------------------------------------------------------------------
(***************************************************************************)
(* The disk.  Contents are only ever added; a backup refers to one of      *)
(* them, and is written by no one who has not opened it as the data file.  *)
(***************************************************************************)
DataSet == UNION { [configured -> Nat] : configured \in SUBSET Names }

ContentSet == [decodes : BOOLEAN, data : DataSet]

DiskTyped(d) ==
  /\ d \in [contents : Seq(ContentSet), file : Nat, backups : SUBSET Nat]
  /\ d.file <= Len(d.contents)
  /\ d.backups \subseteq 1 .. Len(d.contents)
  /\ d.file # 0 => \A f \in d.backups : f < d.file

LEMMA DataOf ==
  ASSUME NEW d
  PROVE  IsData(d) <=> d \in DataSet
<1>1. ASSUME IsData(d) PROVE d \in DataSet
  BY <1>1 DEF IsData, DataSet
<1>2. ASSUME d \in DataSet PROVE IsData(d)
  <2>1. PICK configured \in SUBSET Names : d \in [configured -> Nat]
    BY <1>2 DEF DataSet
  <2> QED BY <2>1 DEF IsData
<1> QED BY <1>1, <1>2

LEMMA ContentOf ==
  ASSUME NEW c
  PROVE  IsContent(c) <=> c \in ContentSet
<1>1. ASSUME IsContent(c) PROVE c \in ContentSet
  <2>1. c = [decodes |-> c.decodes, data |-> c.data] /\ c.decodes \in BOOLEAN
        /\ c.data \in DataSet
    BY <1>1, DataOf DEF IsContent, Content
  <2> QED BY <2>1 DEF ContentSet
<1>2. ASSUME c \in ContentSet PROVE IsContent(c)
  <2>1. c = [decodes |-> c.decodes, data |-> c.data] /\ c.decodes \in BOOLEAN
        /\ c.data \in DataSet
    BY <1>2 DEF ContentSet
  <2> QED BY <2>1, DataOf DEF IsContent, Content
<1> QED BY <1>1, <1>2

LEMMA DiskOf ==
  ASSUME NEW d
  PROVE  IsDisk(d) <=> DiskTyped(d)
<1>1. ASSUME IsDisk(d) PROVE DiskTyped(d)
  <2>1. /\ d = [contents |-> d.contents, file |-> d.file, backups |-> d.backups]
        /\ d.contents \in Seq(ToSet(d.contents))
        /\ \A f \in 1 .. Len(d.contents) : IsContent(d.contents[f])
        /\ d.file \in 0 .. Len(d.contents)
        /\ d.backups \subseteq 1 .. Len(d.contents)
        /\ d.file # 0 => \A f \in d.backups : f < d.file
    BY <1>1 DEF IsDisk
  <2>2. Len(d.contents) \in Nat /\ DOMAIN d.contents = 1 .. Len(d.contents)
    BY <2>1, LenProperties
  <2>3. ToSet(d.contents) \subseteq ContentSet
    BY <2>1, <2>2, ContentOf DEF ToSet
  <2>4. d.contents \in Seq(ContentSet)
    BY <2>1, <2>3, SeqMonotonic
  <2>5. d.backups \in SUBSET Nat /\ d.file \in Nat
    BY <2>1, <2>2
  <2> QED BY <2>1, <2>2, <2>4, <2>5 DEF DiskTyped
<1>2. ASSUME DiskTyped(d) PROVE IsDisk(d)
  <2>1. /\ d \in [contents : Seq(ContentSet), file : Nat, backups : SUBSET Nat]
        /\ d.file <= Len(d.contents)
        /\ d.backups \subseteq 1 .. Len(d.contents)
        /\ d.file # 0 => \A f \in d.backups : f < d.file
    BY <1>2 DEF DiskTyped
  <2>2. /\ Len(d.contents) \in Nat /\ DOMAIN d.contents = 1 .. Len(d.contents)
        /\ d.contents \in [1 .. Len(d.contents) -> ContentSet]
    BY <2>1, LenProperties
  <2>3. d.contents \in Seq(ToSet(d.contents))
    <3>1. d.contents \in [1 .. Len(d.contents) -> ToSet(d.contents)]
      BY <2>2 DEF ToSet
    <3> QED BY <2>2, <3>1
  <2>4. \A f \in 1 .. Len(d.contents) : IsContent(d.contents[f])
    BY <2>2, ContentOf
  <2>5. d = [contents |-> d.contents, file |-> d.file, backups |-> d.backups]
        /\ d.file \in 0 .. Len(d.contents)
    BY <2>1, <2>2
  <2> QED BY <2>1, <2>3, <2>4, <2>5 DEF IsDisk
<1> QED BY <1>1, <1>2

LEMMA EmptyIsData == Empty \in DataSet /\ Blank \in ContentSet
<1>1. Empty \in [{} -> Nat]
  BY DEF Empty
<1>2. Empty \in DataSet
  BY <1>1 DEF DataSet
<1> QED BY <1>2 DEF ContentSet, Blank, Content

\* Opening the data file truncates it, or adds one.
LEMMA OpenedDisk ==
  ASSUME NEW d, DiskTyped(d)
  PROVE  LET o == Opened(d) IN
         /\ DiskTyped(o) /\ o.backups = d.backups
         /\ o.file = IF d.file = 0 THEN Len(d.contents) + 1 ELSE d.file
         /\ Len(d.contents) <= Len(o.contents)
         /\ o.file \in 1 .. Len(o.contents)
         /\ \A f \in 1 .. Len(d.contents) :
              f # d.file => o.contents[f] = d.contents[f]
<1> DEFINE c == d.contents
<1>1. /\ d \in [contents : Seq(ContentSet), file : Nat, backups : SUBSET Nat]
      /\ d.file <= Len(c) /\ c \in Seq(ContentSet) /\ d.file \in Nat
      /\ d.backups \in SUBSET Nat
      /\ \A f \in d.backups : f \in 1 .. Len(c)
      /\ d.file # 0 => \A f \in d.backups : f < d.file
  BY DEF DiskTyped
<1>2. Len(c) \in Nat
  BY <1>1, LenProperties
<1>3. CASE d.file = 0
  <2> DEFINE e == Append(c, Blank)
  <2>1. /\ e \in Seq(ContentSet) /\ Len(e) = Len(c) + 1
        /\ \A i \in 1 .. Len(c) : e[i] = c[i]
    BY <1>1, EmptyIsData, AppendProperties
  <2>2. Opened(d) = [contents |-> e, file |-> Len(c) + 1, backups |-> d.backups]
    BY <1>1, <1>3 DEF Opened
  <2>3. \A f \in d.backups : f \in 1 .. Len(c) + 1 /\ f < Len(c) + 1
    BY <1>1, <1>2
  <2> HIDE DEF e
  <2> QED BY <1>1, <1>2, <1>3, <2>1, <2>2, <2>3 DEF DiskTyped
<1>4. CASE d.file # 0
  <2> DEFINE e == [c EXCEPT ![d.file] = Blank]
  <2>1. /\ e \in Seq(ContentSet) /\ Len(e) = Len(c)
        /\ \A i \in 1 .. Len(c) : i # d.file => e[i] = c[i]
    BY <1>1, <1>2, <1>4, EmptyIsData, ExceptSeq
  <2>2. Opened(d) = [contents |-> e, file |-> d.file, backups |-> d.backups]
    BY <1>1, <1>4 DEF Opened
  <2> HIDE DEF e
  <2> QED BY <1>1, <1>2, <1>4, <2>1, <2>2 DEF DiskTyped
<1> QED BY <1>3, <1>4

LEMMA WrittenDisk ==
  ASSUME NEW d, DiskTyped(d), NEW f \in 1 .. Len(d.contents), NEW x \in ContentSet
  PROVE  LET w == Written(d, f, x) IN
         /\ DiskTyped(w) /\ w.backups = d.backups /\ w.file = d.file
         /\ Len(w.contents) = Len(d.contents)
         /\ \A g \in 1 .. Len(d.contents) :
              g # f => w.contents[g] = d.contents[g]
<1> DEFINE c == d.contents
           e == [c EXCEPT ![f] = x]
<1>1. /\ d \in [contents : Seq(ContentSet), file : Nat, backups : SUBSET Nat]
      /\ d.file <= Len(c) /\ c \in Seq(ContentSet) /\ d.file \in Nat
      /\ d.backups \in SUBSET Nat
      /\ \A g \in d.backups : g \in 1 .. Len(c)
      /\ d.file # 0 => \A g \in d.backups : g < d.file
  BY DEF DiskTyped
<1>2. /\ e \in Seq(ContentSet) /\ Len(e) = Len(c)
      /\ \A i \in 1 .. Len(c) : i # f => e[i] = c[i]
  BY <1>1, ExceptSeq
<1>3. Written(d, f, x) = [d EXCEPT !.contents = e]
  BY DEF Written
<1> HIDE DEF e
<1>4. Written(d, f, x) = [contents |-> e, file |-> d.file, backups |-> d.backups]
  BY <1>1, <1>2, <1>3
<1> QED BY <1>1, <1>2, <1>4 DEF DiskTyped

\* The data file that was is the newest backup.
LEMMA BackedUpDisk ==
  ASSUME NEW d, DiskTyped(d), d.file # 0
  PROVE  LET b == BackedUp(d) IN
         /\ DiskTyped(b) /\ b.contents = d.contents /\ b.file = 0
         /\ d.file \in b.backups /\ \A g \in b.backups : g <= d.file
<1>1. /\ d \in [contents : Seq(ContentSet), file : Nat, backups : SUBSET Nat]
      /\ d.file <= Len(d.contents) /\ d.file \in Nat
      /\ d.contents \in Seq(ContentSet) /\ d.backups \in SUBSET Nat
      /\ d.backups \subseteq 1 .. Len(d.contents)
      /\ \A f \in d.backups : f < d.file
  BY DEF DiskTyped
<1>2. Len(d.contents) \in Nat
  BY <1>1, LenProperties
<1>3. BackedUp(d) = [contents |-> d.contents, file |-> 0,
                     backups |-> d.backups \cup {d.file}]
  BY <1>1 DEF BackedUp
<1>4. d.file \in 1 .. Len(d.contents) /\ \A g \in d.backups \cup {d.file} : g <= d.file
  BY <1>1, <1>2
<1> QED BY <1>1, <1>3, <1>4 DEF DiskTyped

\* Cleaning keeps the newest backup, unless none is wanted.
LEMMA CleanedDisk ==
  ASSUME NEW d, DiskTyped(d), NEW max \in Int, NEW stuck
  PROVE  LET k == CleanDataFile(d, max, stuck) IN
         /\ DiskTyped(k) /\ k.contents = d.contents /\ k.file = d.file
         /\ \A f \in d.backups :
              max # 0 /\ (\A g \in d.backups : g <= f) => f \in k.backups
<1> DEFINE e == {f \in d.backups : \/ max < 0 \/ f \in stuck
                                   \/ Cardinality({g \in d.backups : g > f}) < max}
<1>1. /\ d \in [contents : Seq(ContentSet), file : Nat, backups : SUBSET Nat]
      /\ d.file <= Len(d.contents) /\ d.file \in Nat
      /\ d.contents \in Seq(ContentSet) /\ d.backups \in SUBSET Nat
      /\ d.backups \subseteq 1 .. Len(d.contents)
      /\ d.file # 0 => \A f \in d.backups : f < d.file
  BY DEF DiskTyped
<1>2. CleanDataFile(d, max, stuck) =
        [contents |-> d.contents, file |-> d.file, backups |-> e]
  <2>1. CleanDataFile(d, max, stuck) = [d EXCEPT !.backups = e]
    BY DEF CleanDataFile
  <2> HIDE DEF e
  <2> QED BY <1>1, <2>1
<1>3. e \subseteq d.backups
  OBVIOUS
<1>4. ASSUME NEW f \in d.backups, max # 0, \A g \in d.backups : g <= f
      PROVE  f \in e
  <2>1. {g \in d.backups : g > f} = {}
    <3> SUFFICES ASSUME NEW g \in d.backups, g > f PROVE FALSE
      OBVIOUS
    <3>1. g \in Nat /\ f \in Nat /\ g <= f
      BY <1>1, <1>4
    <3> QED BY <3>1
  <2>2. Cardinality({g \in d.backups : g > f}) = 0
    BY <2>1, FS_EmptySet
  <2> QED BY <1>4, <2>2
<1> HIDE DEF e
<1> QED BY <1>1, <1>2, <1>3, <1>4 DEF DiskTyped

-----------------------------------------------------------------------------
(***************************************************************************)
(* Types, and which parts of a process are there at which step.            *)
(***************************************************************************)
SaverSteps == {"none", "saving", "selecting", "lastSave", "done"}

StartedSet ==
  [content : ContentSet, file : Nat, alone : BOOLEAN, backed : BOOLEAN, saved : BOOLEAN]

Typed ==
  /\ configFile \in Files
  /\ DiskTyped(disk)
  /\ pidFile \in {0} \cup Processes
  /\ main \in [Processes -> MainSteps]
  /\ rerun \in [Processes -> BOOLEAN]
  /\ config \in [Processes -> Files \cup {NoFile}]
  /\ data \in [Processes -> DataSet]
  /\ made \in [Processes -> DataSet]
  /\ hung \in [Processes -> SUBSET MayHang]
  /\ saver \in [Processes -> SaverSteps]
  /\ opened \in [Processes -> Nat]
  /\ seen \in [Processes -> Files \cup {NoFile}]
  /\ started \in [Processes -> StartedSet]

InRange ==
  \A p \in Processes : /\ opened[p] <= Len(disk.contents)
                       /\ started[p].file <= Len(disk.contents)

Recorded ==
  \A p \in Processes : Probing(p) => DOMAIN data[p] = DOMAIN made[p]

\* A process has a saver only once it runs, and until it has ended.
Quiet ==
  \A p \in Processes :
    main[p] \notin {"running", "waiting", "stopping", "spawning", "leaving"} =>
      saver[p] = "none" /\ opened[p] = 0

\* What a process has found is known once it has loaded.
Fresh ==
  \A p \in Processes :
    main[p] \in {"none", "loading", "gone"} => started[p].alone = FALSE

Basic == Typed /\ InRange /\ Recorded /\ Quiet /\ Fresh

LEMMA NotStartedTyped ==
  NotStarted \in StartedSet /\ NotStarted.file = 0 /\ NotStarted.alone = FALSE
BY EmptyIsData DEF NotStarted, StartedSet

LEMMA DiskLength ==
  ASSUME Typed
  PROVE  /\ Len(disk.contents) \in Nat /\ disk.file \in Nat
         /\ disk.file <= Len(disk.contents)
         /\ disk.contents \in Seq(ContentSet)
<1>1. disk.contents \in Seq(ContentSet) /\ disk.file \in Nat
      /\ disk.file <= Len(disk.contents)
  BY DEF Typed, DiskTyped
<1> QED BY <1>1, LenProperties

LEMMA BasicInit == Init => Basic
<1> SUFFICES ASSUME Init PROVE Basic
  OBVIOUS
<1>1. DiskTyped(disk)
  BY FirstDisksAssumption, DiskOf DEF Init, FirstDisksAssumption
<1>2. Typed
  BY <1>1, EmptyIsData, NotStartedTyped
     DEF Init, Typed, MainSteps, SaverSteps
<1>3. InRange
  BY <1>2, DiskLength, NotStartedTyped DEF Init, InRange
<1>4. Recorded /\ Quiet /\ Fresh
  BY NotStartedTyped DEF Init, Recorded, Probing, Quiet, Fresh
<1> QED BY <1>2, <1>3, <1>4 DEF Basic

\* The end of a process.
LEMMA BasicEnds ==
  ASSUME Basic, NEW p \in Processes, Ends(p), disk' = disk,
         configFile' = configFile, pidFile' \in {0, pidFile}
  PROVE  Basic'
<1>1. Typed'
  BY EmptyIsData, NotStartedTyped DEF Basic, Typed, Ends, MainSteps, SaverSteps
<1>2. InRange'
  BY DiskLength, NotStartedTyped DEF Basic, Typed, InRange, Ends
<1>3. Recorded' /\ Quiet' /\ Fresh'
  BY NotStartedTyped
     DEF Basic, Typed, Recorded, Probing, Quiet, Fresh, Ends
<1> QED BY <1>1, <1>2, <1>3 DEF Basic

\* The steps that do not touch the disk.
LEMMA BasicMain ==
  ASSUME Basic, NEW p \in Processes,
         NoData(p) \/ BackUpFails(p) \/ NewPIDFile(p) \/ Poll(p) \/ Terminate(p)
           \/ StopProbers(p) \/ TellSaver(p) \/ SpawnFails(p) \/ SaveDue(p)
  PROVE  Basic'
<1>1. UNCHANGED <<configFile, disk, config, data, made, hung, opened, started>>
  BY DEF NoData, BackUpFails, NewPIDFile, Poll, Terminate, StopProbers, TellSaver,
         SpawnFails, SaveDue, envVars
<1>2. /\ pidFile' \in {pidFile, p}
      /\ rerun' = rerun \/ rerun' = [rerun EXCEPT ![p] = TRUE]
      /\ seen' = seen \/ seen' = [seen EXCEPT ![p] = configFile]
      /\ saver' = saver
           \/ (saver[p] = "selecting" /\
               \E s \in {"saving", "lastSave"} : saver' = [saver EXCEPT ![p] = s])
  BY DEF NoData, BackUpFails, NewPIDFile, Poll, Terminate, StopProbers, TellSaver,
         SpawnFails, SaveDue, envVars
<1>3. \/ main' = main
      \/ main[p] = "loading" /\ main' = [main EXCEPT ![p] = "writingPID"]
      \/ main[p] = "backingUp" /\ main' = [main EXCEPT ![p] = "cleaning"]
      \/ main[p] = "writingPID" /\ main' = [main EXCEPT ![p] = "configuring"]
      \/ main[p] = "running" /\ main' = [main EXCEPT ![p] = "waiting"]
      \/ /\ main[p] \in {"waiting", "stopping", "spawning"}
         /\ \E s \in {"stopping", "spawning", "leaving"} :
              main' = [main EXCEPT ![p] = s]
  BY DEF NoData, BackUpFails, NewPIDFile, Poll, Terminate, StopProbers, TellSaver,
         SpawnFails, SaveDue, Running
<1>4. Typed'
  <2>1. main' \in [Processes -> MainSteps]
    <3>1. main \in [Processes -> MainSteps]
      BY DEF Basic, Typed
    <3>2. {"writingPID", "cleaning", "configuring", "waiting", "stopping", "spawning",
           "leaving"} \subseteq MainSteps
      BY DEF MainSteps
    <3>3. main' = main \/ \E s \in MainSteps : main' = [main EXCEPT ![p] = s]
      BY <1>3, <3>2
    <3> QED BY <3>1, <3>3
  <2>2. /\ rerun' \in [Processes -> BOOLEAN]
        /\ seen' \in [Processes -> Files \cup {NoFile}]
    BY <1>2 DEF Basic, Typed
  <2>3. saver' \in [Processes -> SaverSteps]
    BY <1>2 DEF Basic, Typed, SaverSteps
  <2>4. pidFile' \in {0} \cup Processes
    BY <1>2 DEF Basic, Typed
  <2> QED BY <1>1, <2>1, <2>2, <2>3, <2>4 DEF Basic, Typed
<1>5. InRange' /\ Recorded' /\ Fresh'
  BY <1>1, <1>3 DEF Basic, Typed, InRange, Recorded, Probing, Fresh
<1>6. Quiet'
  BY <1>1, <1>2, <1>3 DEF Basic, Typed, Quiet
<1> QED BY <1>4, <1>5, <1>6 DEF Basic

LEMMA BasicData ==
  ASSUME Basic, NEW p \in Processes, NEW n \in Names,
         Round(p, n) \/ RoundHangs(p, n) \/ Record(p, n)
  PROVE  Basic'
<1>1. UNCHANGED <<configFile, disk, pidFile, main, rerun, config, saver, opened,
                  seen, started>>
  BY DEF Round, RoundHangs, Record, envVars
<1>2. /\ made[p] \in DataSet /\ data[p] \in DataSet /\ n \in DOMAIN made[p]
      /\ data \in [Processes -> DataSet] /\ made \in [Processes -> DataSet]
  BY DEF Round, RoundHangs, Record, Basic, Typed
<1>3. PICK D \in SUBSET Names : made[p] \in [D -> Nat]
  BY <1>2 DEF DataSet
<1>4. PICK E \in SUBSET Names : data[p] \in [E -> Nat]
  BY <1>2 DEF DataSet
<1>5. made[p][n] \in Nat
  BY <1>2, <1>3
<1>6. CASE Round(p, n)
  <2>1. made' = [made EXCEPT ![p][n] = @ + 1] /\ data' = data /\ hung' = hung
    BY <1>6 DEF Round
  <2>2. /\ made'[p] = [made[p] EXCEPT ![n] = @ + 1]
        /\ made' = [made EXCEPT ![p] = made'[p]]
    BY <1>2, <2>1
  <2>3. made'[p] \in [D -> Nat]
    BY <1>2, <1>3, <1>5, <2>2
  <2>4. made'[p] \in DataSet /\ DOMAIN made'[p] = DOMAIN made[p]
    BY <1>3, <2>3 DEF DataSet
  <2>5. Typed'
    BY <1>1, <1>2, <2>1, <2>2, <2>4 DEF Basic, Typed
  <2>6. Recorded'
    BY <1>1, <1>2, <2>1, <2>2, <2>4 DEF Basic, Recorded, Probing
  <2> QED BY <1>1, <2>5, <2>6 DEF Basic, InRange, Quiet, Fresh
<1>7. CASE RoundHangs(p, n)
  <2>1. /\ hung' = [hung EXCEPT ![p] = @ \cup {n}] /\ n \in MayHang
        /\ UNCHANGED <<data, made>>
    BY <1>7 DEF RoundHangs
  <2>2. hung' \in [Processes -> SUBSET MayHang]
    BY <2>1 DEF Basic, Typed
  <2> QED BY <1>1, <2>1, <2>2
          DEF Basic, Typed, InRange, Recorded, Probing, Quiet, Fresh
<1>8. CASE Record(p, n)
  <2> DEFINE x == SetResultData(data[p], n, made[p][n])
  <2>1. data' = [data EXCEPT ![p] = x] /\ made' = made /\ hung' = hung
    BY <1>8 DEF Record
  <2>2. DOMAIN x = E \cup {n} /\ DOMAIN data[p] = E
    BY <1>4 DEF SetResultData
  <2>3. x \in [E \cup {n} -> Nat]
    BY <1>4, <1>5 DEF SetResultData
  <2>4. x \in DataSet
    BY <2>3 DEF DataSet
  <2> HIDE DEF x
  <2>5. Typed'
    BY <1>1, <1>2, <2>1, <2>4 DEF Basic, Typed
  <2>6. Recorded'
    <3>1. Probing(p) => DOMAIN x = DOMAIN made[p]
      BY <1>2, <2>2 DEF Basic, Recorded
    <3> QED BY <1>1, <1>2, <2>1, <3>1 DEF Basic, Recorded, Probing
  <2> QED BY <1>1, <2>5, <2>6 DEF Basic, InRange, Quiet, Fresh
<1> QED BY <1>6, <1>7, <1>8

\* The probers that are configured well start from what was loaded, and the
\* data is theirs alone.
LEMMA BasicConfigProbers ==
  ASSUME Basic, NEW p \in Processes, NEW good \in SUBSET Names,
         ConfigProbers(p, good)
  PROVE  Basic'
<1>1. CASE good = {}
  BY <1>1, BasicEnds DEF ConfigProbers, envVars
<1>2. CASE good # {}
  <2> DEFINE m == [n \in good |-> NewResultWithName(data[p], n)]
             d == CleanData(data[p], m)
  <2>1. /\ main' = [main EXCEPT ![p] = "running"]
        /\ made' = [made EXCEPT ![p] = m]
        /\ data' = [data EXCEPT ![p] = CleanData(data[p], made'[p])]
        /\ saver' = [saver EXCEPT ![p] = "saving"]
        /\ UNCHANGED <<configFile, disk, pidFile, rerun, config, hung, opened, seen,
                       started>>
        /\ main[p] = "configuring"
    BY <1>2 DEF ConfigProbers, envVars
  <2>2. /\ data[p] \in DataSet /\ data \in [Processes -> DataSet]
        /\ made \in [Processes -> DataSet]
    BY DEF Basic, Typed
  <2>3. PICK E \in SUBSET Names : data[p] \in [E -> Nat]
    BY <2>2 DEF DataSet
  <2>4. m \in [good -> Nat]
    BY <2>3 DEF NewResultWithName
  <2>5. d \in [good -> Nat]
    BY <2>3, <2>4 DEF CleanData
  <2>6. /\ m \in DataSet /\ d \in DataSet /\ DOMAIN m = DOMAIN d
    BY <2>2, <2>4, <2>5 DEF DataSet
  <2>7. made'[p] = m /\ data' = [data EXCEPT ![p] = d]
    BY <2>1, <2>2
  <2> HIDE DEF m, d
  <2>8. main' \in [Processes -> MainSteps] /\ saver' \in [Processes -> SaverSteps]
    BY <2>1 DEF Basic, Typed, MainSteps, SaverSteps
  <2>9. Typed'
    BY <2>1, <2>2, <2>6, <2>7, <2>8 DEF Basic, Typed
  <2>10. InRange' /\ Quiet' /\ Fresh'
    BY <2>1 DEF Basic, Typed, InRange, Quiet, Fresh
  <2>11. Recorded'
    BY <2>1, <2>2, <2>6, <2>7 DEF Basic, Typed, Recorded, Probing
  <2> QED BY <2>9, <2>10, <2>11 DEF Basic
<1> QED BY <1>1, <1>2

\* What is found, whether it can be loaded or not.
LEMMA FoundTyped ==
  ASSUME Basic, NEW p \in Processes, disk.file # 0
  PROVE  /\ Found(p) \in StartedSet
         /\ Found(p).file = disk.file /\ Found(p).content = disk.contents[disk.file]
         /\ Found(p).alone = (\A q \in Processes \ {p} : ~ Alive(q))
         /\ Found(p).backed = FALSE /\ Found(p).saved = FALSE
         /\ disk.file \in 1 .. Len(disk.contents)
         /\ disk.contents[disk.file].data \in DataSet
<1> DEFINE b == \A q \in Processes \ {p} : ~ Alive(q)
<1>1. /\ disk.file \in Nat /\ disk.file <= Len(disk.contents)
      /\ disk.file \in 1 .. Len(disk.contents)
      /\ disk.contents[disk.file] \in ContentSet
  BY DiskLength, ElementOfSeq DEF Basic
<1>2. disk.contents[disk.file].data \in DataSet
  BY <1>1 DEF ContentSet
<1>3. Found(p) = [content |-> disk.contents[disk.file], file |-> disk.file,
                  alone |-> b, backed |-> FALSE, saved |-> FALSE]
  BY DEF Found
<1>4. b \in BOOLEAN
  OBVIOUS
<1> HIDE DEF b
<1>5. Found(p) \in StartedSet
  BY <1>1, <1>3, <1>4 DEF StartedSet
<1>6. Found(p).alone = b
  BY <1>3
<1>7. Found(p).alone = (\A q \in Processes \ {p} : ~ Alive(q))
  BY <1>6 DEF b
<1> QED BY <1>1, <1>2, <1>3, <1>5, <1>7

LEMMA BasicLoad ==
  ASSUME Basic, NEW p \in Processes, Load(p) \/ LoadFails(p)
  PROVE  Basic'
<1> DEFINE x == disk.contents[disk.file].data
<1>1. /\ main[p] = "loading" /\ disk.file # 0
      /\ UNCHANGED <<configFile, disk, pidFile, rerun, config, made, hung, saver,
                     opened, seen>>
      /\ main' = [main EXCEPT ![p] = "backingUp"]
           \/ main' = [main EXCEPT ![p] = "cleaning"]
      /\ data' = data \/ data' = [data EXCEPT ![p] = x]
      /\ started' = [started EXCEPT ![p] = Found(p)]
  BY DEF Load, LoadFails, envVars
<1>2. /\ x \in DataSet /\ Found(p) \in StartedSet /\ Found(p).file = disk.file
      /\ disk.file <= Len(disk.contents)
  BY <1>1, FoundTyped, DiskLength DEF Basic
<1> HIDE DEF x
<1>3. Typed'
  BY <1>1, <1>2 DEF Basic, Typed, MainSteps
<1>4. InRange'
  BY <1>1, <1>2 DEF Basic, Typed, InRange
<1>5. Recorded' /\ Quiet' /\ Fresh'
  BY <1>1 DEF Basic, Typed, Recorded, Probing, Quiet, Fresh
<1> QED BY <1>3, <1>4, <1>5 DEF Basic

\* The steps of p that touch the disk.
OnDisk(p) ==
  \/ BackUp(p) \/ (\E stuck \in SUBSET disk.backups : CleanBackups(p, stuck))
  \/ SaveOpens(p)
  \/ (\E some \in SUBSET Names, decodes \in BOOLEAN : SaveTears(p, some, decodes))
  \/ SaveWrites(p) \/ SaveFails(p)

\* What a save writes, as far as it gets.
LEMMA PartTyped ==
  ASSUME NEW d \in DataSet, NEW some, some \subseteq DOMAIN d, NEW decodes \in BOOLEAN
  PROVE  Content(decodes, Part(d, some)) \in ContentSet /\ Content(decodes, d) \in ContentSet
<1>1. PICK D \in SUBSET Names : d \in [D -> Nat]
  BY DEF DataSet
<1>2. Part(d, some) \in [some -> Nat] /\ some \subseteq Names
  BY <1>1 DEF Part
<1>3. Part(d, some) \in DataSet
  BY <1>2 DEF DataSet
<1> QED BY <1>3 DEF Content, ContentSet

\* What they do to the disk.
LEMMA DiskStep ==
  ASSUME Basic, NEW p \in Processes, OnDisk(p)
  PROVE  /\ DiskTyped(disk') /\ Len(disk.contents) <= Len(disk'.contents)
         /\ Len(disk'.contents) \in Nat
         /\ opened' \in [Processes -> Nat]
         /\ \A q \in Processes : opened'[q] <= Len(disk'.contents)
<1>1. /\ DiskTyped(disk) /\ opened \in [Processes -> Nat]
      /\ \A q \in Processes : opened[q] <= Len(disk.contents)
      /\ Len(disk.contents) \in Nat /\ data[p] \in DataSet
  BY DiskLength DEF Basic, Typed, InRange
<1>2. CASE BackUp(p)
  <2>1. disk' = BackedUp(disk) /\ opened' = opened
    BY <1>2 DEF BackUp
  <2>2. DiskTyped(disk') /\ disk'.contents = disk.contents
    <3>1. CASE disk.file = 0
      BY <1>1, <2>1, <3>1 DEF BackedUp
    <3>2. CASE disk.file # 0
      BY <1>1, <2>1, <3>2, BackedUpDisk
    <3> QED BY <3>1, <3>2
  <2> QED BY <1>1, <2>1, <2>2
<1>3. ASSUME NEW stuck \in SUBSET disk.backups, CleanBackups(p, stuck)
      PROVE  /\ DiskTyped(disk') /\ disk'.contents = disk.contents /\ opened' = opened
  BY <1>1, <1>3, BackupsAssumption, CleanedDisk DEF CleanBackups, BackupsAssumption
<1>4. CASE SaveOpens(p)
  <2>1. disk' = Opened(disk) /\ opened' = [opened EXCEPT ![p] = disk'.file]
    BY <1>4 DEF SaveOpens
  <2>2. /\ DiskTyped(disk') /\ Len(disk.contents) <= Len(disk'.contents)
        /\ disk'.file \in 1 .. Len(disk'.contents)
    BY <1>1, <2>1, OpenedDisk
  <2>3. Len(disk'.contents) \in Nat
    BY <2>2, LenProperties DEF DiskTyped
  <2> QED BY <1>1, <2>1, <2>2, <2>3
<1>5. ASSUME NEW x \in ContentSet, opened[p] # 0, disk' = Written(disk, opened[p], x)
      PROVE  DiskTyped(disk') /\ Len(disk'.contents) = Len(disk.contents)
  <2>1. opened[p] \in 1 .. Len(disk.contents)
    BY <1>1, <1>5
  <2> QED BY <1>1, <1>5, <2>1, WrittenDisk
<1>6. ASSUME NEW some \in SUBSET Names, NEW decodes \in BOOLEAN,
             SaveTears(p, some, decodes)
      PROVE  /\ DiskTyped(disk') /\ Len(disk'.contents) = Len(disk.contents)
             /\ opened' = opened
  <2>1. Content(decodes, Part(data[p], some)) \in ContentSet
    BY <1>1, <1>6, PartTyped DEF SaveTears
  <2> QED BY <1>5, <1>6, <2>1 DEF SaveTears
<1>7. CASE SaveWrites(p)
  <2>1. Content(TRUE, data[p]) \in ContentSet
    BY <1>1, PartTyped
  <2>2. DiskTyped(disk') /\ Len(disk'.contents) = Len(disk.contents)
    BY <1>5, <1>7, <2>1 DEF SaveWrites
  <2>3. opened' = [opened EXCEPT ![p] = 0]
    BY <1>7 DEF SaveWrites
  <2> QED BY <1>1, <2>2, <2>3
<1>8. CASE SaveFails(p)
  <2>1. disk' = disk /\ opened' = [opened EXCEPT ![p] = 0]
    BY <1>8 DEF SaveFails, envVars
  <2> QED BY <1>1, <2>1
<1> QED BY <1>1, <1>2, <1>3, <1>4, <1>6, <1>7, <1>8 DEF OnDisk

LEMMA BasicDisk ==
  ASSUME Basic, NEW p \in Processes, OnDisk(p)
  PROVE  Basic'
<1>1. /\ DiskTyped(disk') /\ Len(disk.contents) <= Len(disk'.contents)
      /\ Len(disk'.contents) \in Nat /\ Len(disk.contents) \in Nat
      /\ opened' \in [Processes -> Nat]
      /\ \A q \in Processes : opened'[q] <= Len(disk'.contents)
  BY DiskStep, DiskLength DEF Basic
<1>2. UNCHANGED <<configFile, pidFile, rerun, config, data, made, hung, seen>>
  BY DEF OnDisk, BackUp, CleanBackups, SaveOpens, SaveTears, SaveWrites, SaveFails,
         envVars
<1>3. \/ /\ main[p] = "backingUp" /\ main' = [main EXCEPT ![p] = "cleaning"]
         /\ UNCHANGED <<saver, opened>>
      \/ /\ main[p] = "cleaning" /\ main' = [main EXCEPT ![p] = "writingPID"]
         /\ UNCHANGED <<saver, opened>>
      \/ /\ main' = main /\ saver' = saver /\ saver[p] # "none"
         /\ \A q \in Processes : q # p => opened'[q] = opened[q]
      \/ main' = main /\ UNCHANGED <<saver, opened>>
      \/ /\ main' = main
         /\ opened[p] # 0 \/ saver[p] # "none"
         /\ saver' = [saver EXCEPT ![p] =
                        IF @ = "lastSave" THEN "done" ELSE "selecting"]
         /\ \A q \in Processes : q # p => opened'[q] = opened[q]
  BY DEF OnDisk, BackUp, CleanBackups, SaveOpens, SaveTears, SaveWrites, SaveFails,
         AfterSave, Basic, Typed
<1>4. started' = started \/ started' = [started EXCEPT ![p].backed = TRUE]
        \/ started' = [started EXCEPT ![p].saved = TRUE]
  BY DEF OnDisk, BackUp, CleanBackups, SaveOpens, SaveTears, SaveWrites, SaveFails
<1>5. /\ started' \in [Processes -> StartedSet]
      /\ \A q \in Processes :
           started'[q].file = started[q].file /\ started'[q].alone = started[q].alone
  <2>1. started \in [Processes -> StartedSet]
    BY DEF Basic, Typed
  <2> DEFINE b == [started[p] EXCEPT !.backed = TRUE]
             s == [started[p] EXCEPT !.saved = TRUE]
  <2>2. /\ b \in StartedSet /\ b.file = started[p].file /\ b.alone = started[p].alone
        /\ s \in StartedSet /\ s.file = started[p].file /\ s.alone = started[p].alone
    <3>1. started[p] \in StartedSet
      BY <2>1
    <3> QED BY <3>1 DEF StartedSet
  <2>3. started' = started \/ started' = [started EXCEPT ![p] = b]
          \/ started' = [started EXCEPT ![p] = s]
    BY <1>4, <2>1
  <2> HIDE DEF b, s
  <2> QED BY <2>1, <2>2, <2>3
<1>6. Typed'
  <2>1. main' \in [Processes -> MainSteps]
    BY <1>3 DEF Basic, Typed, MainSteps
  <2>2. saver' \in [Processes -> SaverSteps]
    BY <1>3 DEF Basic, Typed, SaverSteps
  <2> QED BY <1>1, <1>2, <1>5, <2>1, <2>2 DEF Basic, Typed
<1>7. InRange'
  <2>1. \A q \in Processes :
          started[q].file \in Nat /\ started[q].file <= Len(disk.contents)
    BY DEF Basic, Typed, InRange, StartedSet
  <2> QED BY <1>1, <1>5, <2>1 DEF InRange
<1>8. Recorded'
  BY <1>2, <1>3 DEF Basic, Typed, Recorded, Probing
<1>9. Fresh'
  BY <1>3, <1>5 DEF Basic, Typed, Fresh
<1>10. Quiet'
  BY <1>3 DEF Basic, Typed, Quiet
<1> QED BY <1>6, <1>7, <1>8, <1>9, <1>10 DEF Basic

\* A process begins, by itself or as the next one of p.
LEMMA BasicBegins ==
  ASSUME Basic, NEW q \in Processes, main[q] = "none",
         NEW m \in [Processes -> MainSteps],
         \A r \in Processes : r # q /\ main[r] = "none" => m[r] = "none",
         \A r \in Processes :
           r # q => m[r] = main[r] \/ (main[r] = "spawning" /\ m[r] = "leaving"),
         main' = [m EXCEPT ![q] = Begun(configFile)],
         config' = [config EXCEPT ![q] = Loaded(configFile)],
         UNCHANGED <<envVars, rerun, data, made, hung, saver, opened, seen, started>>
  PROVE  Basic'
<1>1. /\ Loaded(configFile) \in Files \cup {NoFile}
      /\ Begun(configFile) \in {"loading", "gone"}
  BY DEF Basic, Typed, Loaded, Begun
<1>2. Typed'
  BY <1>1 DEF Basic, Typed, envVars, MainSteps
<1>3. InRange' /\ Recorded' /\ Quiet' /\ Fresh'
  BY <1>1 DEF Basic, Typed, envVars, InRange, Recorded, Probing, Quiet, Fresh
<1> QED BY <1>2, <1>3 DEF Basic

LEMMA BasicStart ==
  ASSUME Basic, NEW q \in Processes, Start(q)
  PROVE  Basic'
<1>1. /\ main[q] = "none" /\ main \in [Processes -> MainSteps]
      /\ main' = [main EXCEPT ![q] = Begun(configFile)]
      /\ config' = [config EXCEPT ![q] = Loaded(configFile)]
      /\ UNCHANGED <<envVars, rerun, data, made, hung, saver, opened, seen, started>>
  BY DEF Start, IsNext, Basic, Typed
<1> QED BY <1>1, BasicBegins

LEMMA BasicSpawn ==
  ASSUME Basic, NEW p \in Processes, NEW q \in Processes, Spawn(p, q)
  PROVE  Basic'
<1> DEFINE m == [main EXCEPT ![p] = "leaving"]
<1>1. /\ main[q] = "none" /\ main[p] = "spawning"
      /\ main \in [Processes -> MainSteps]
      /\ main' = [main EXCEPT ![p] = "leaving", ![q] = Begun(configFile)]
      /\ config' = [config EXCEPT ![q] = Loaded(configFile)]
      /\ UNCHANGED <<envVars, rerun, data, made, hung, saver, opened, seen, started>>
  BY DEF Spawn, IsNext, Basic, Typed
<1>2. /\ m \in [Processes -> MainSteps] /\ m[p] = "leaving"
      /\ \A r \in Processes : r # p => m[r] = main[r]
  BY <1>1 DEF MainSteps
<1>3. main' = [m EXCEPT ![q] = Begun(configFile)]
  BY <1>1
<1>4. /\ \A r \in Processes : r # q /\ main[r] = "none" => m[r] = "none"
      /\ \A r \in Processes :
           r # q => m[r] = main[r] \/ (main[r] = "spawning" /\ m[r] = "leaving")
  BY <1>1, <1>2
<1> HIDE DEF m
<1> QED BY <1>1, <1>2, <1>3, <1>4, BasicBegins

LEMMA BasicNext == Basic /\ [Next]_vars => Basic'
<1> SUFFICES ASSUME Basic, [Next]_vars PROVE Basic'
  OBVIOUS
<1>1. ASSUME NEW p \in Processes, ProcessStep(p) PROVE Basic'
  <2>1. ASSUME NEW good \in SUBSET Names, ConfigProbers(p, good) PROVE Basic'
    BY <2>1, BasicConfigProbers
  <2>2. ASSUME NEW n \in Names, Round(p, n) \/ RoundHangs(p, n) \/ Record(p, n)
        PROVE  Basic'
    BY <2>2, BasicData
  <2>3. ASSUME NEW q \in Processes, Spawn(p, q) PROVE Basic'
    BY <2>3, BasicSpawn
  <2>4. CASE Leave(p)
    BY <2>4, BasicEnds DEF Leave
  <2>5. CASE OnDisk(p)
    BY <2>5, BasicDisk
  <2> QED BY <1>1, <2>1, <2>2, <2>3, <2>4, <2>5, BasicLoad, BasicMain
          DEF ProcessStep, Begin, OnDisk
<1>2. ASSUME NEW p \in Processes, Crash(p) PROVE Basic'
  BY <1>2, BasicEnds DEF Crash, envVars
<1>3. ASSUME NEW c \in Files, Edit(c) PROVE Basic'
  <2>1. configFile' \in Files
    BY <1>3 DEF Edit
  <2> QED BY <1>3, <2>1
          DEF Edit, Basic, Typed, InRange, Recorded, Probing, Quiet, Fresh
<1>4. CASE UNCHANGED vars
  BY <1>4 DEF vars, envVars, Basic, Typed, InRange, Recorded, Probing, Quiet, Fresh
<1> QED BY <1>1, <1>2, <1>3, <1>4, BasicStart DEF Next

LEMMA BasicTypeOK == Basic => TypeOK
<1> SUFFICES ASSUME Basic PROVE TypeOK
  OBVIOUS
<1>1. IsDisk(disk)
  BY DiskOf DEF Basic, Typed
<1>2. ASSUME NEW p \in Processes
      PROVE  /\ IsData(data[p]) /\ IsData(made[p]) /\ IsContent(started[p].content)
             /\ Probing(p) => DOMAIN data[p] = DOMAIN made[p]
  <2>1. data[p] \in DataSet /\ made[p] \in DataSet /\ started[p].content \in ContentSet
    BY DEF Basic, Typed, StartedSet
  <2> QED BY <2>1, DataOf, ContentOf DEF Basic, Recorded
<1>3. ASSUME NEW p \in Processes
      PROVE  /\ opened[p] \in 0 .. Len(disk.contents)
             /\ started[p].file \in 0 .. Len(disk.contents)
             /\ hung[p] \subseteq MayHang
  BY DiskLength DEF Basic, Typed, InRange, StartedSet
<1> QED BY <1>1, <1>2, <1>3 DEF TypeOK, Basic, Typed, SaverSteps

\* Whatever earlier runs left on the disk, and however processes start, save,
\* fail and die, the disk and the state of each process are of their types, and
\* a process that probes has the data of every one of its probers.
THEOREM RestartTyped == Spec => []TypeOK
<1>1. Init => Basic  BY BasicInit
<1>2. Basic /\ [Next]_vars => Basic'  BY BasicNext
<1>3. Basic => TypeOK  BY BasicTypeOK
<1> QED BY <1>1, <1>2, <1>3, PTL DEF Spec

-----------------------------------------------------------------------------
(***************************************************************************)
(* What a process has found survives.  One that started alone stays alone  *)
(* until its successor begins.  The file it found is the data file until   *)
(* it is renamed, then the newest backup, and it is not the file that is   *)
(* opened by a save; if it is not renamed it stays the data file, and no   *)
(* file is opened until the first save.                                    *)
(***************************************************************************)
Kept(r) ==
  LET s == started[r] IN
  /\ s.file \in 1 .. Len(disk.contents)
  /\ main[r] = "backingUp" => ~ s.backed
  /\ s.backed =>
       /\ disk.contents[s.file] = s.content
       /\ disk.file # s.file /\ opened[r] # s.file
       /\ main[r] = "cleaning" =>
            s.file \in disk.backups /\ \A g \in disk.backups : g <= s.file
       /\ main[r] # "cleaning" /\ Backups # 0 => s.file \in disk.backups
  /\ ~ s.backed /\ ~ s.saved =>
       /\ disk.contents[s.file] = s.content
       /\ disk.file = s.file /\ opened[r] = 0
  /\ s.saved => main[r] \notin {"backingUp", "cleaning"}

Safe(r) ==
  Newest(r) /\ started[r].alone =>
    (\A q \in Processes \ {r} : ~ Alive(q)) /\ Kept(r)

DiskInv == Inv /\ Basic /\ \A r \in Processes : Safe(r)

\* As long as r is the newest and started alone, no other process is there to
\* make a step.
LEMMA Bystander ==
  ASSUME NEW r \in Processes, Safe(r), NEW p \in Processes \ {r}, Alive(p),
         main'[r] = main[r], started'[r] = started[r],
         \A q \in Processes : main'[q] = "none" => main[q] = "none"
  PROVE  Safe(r)'
BY DEF Safe, Newest, Alive

\* r does not touch the disk, and has backed it up or not as before.
LEMMA OwnMainStep ==
  ASSUME NEW r \in Processes, Safe(r), Alive(r), disk' = disk,
         opened'[r] = opened[r], started'[r] = started[r],
         \A q \in Processes : q # r => main'[q] = main[q],
         \/ main'[r] = main[r]
         \/ /\ main[r] \notin {"backingUp", "cleaning"}
            /\ main'[r] \notin {"backingUp", "cleaning"}
         \/ main[r] = "backingUp" /\ main'[r] = "cleaning"
  PROVE  Safe(r)'
<1> SUFFICES ASSUME Newest(r)', started'[r].alone
             PROVE  (\A q \in Processes \ {r} : ~ Alive(q)') /\ Kept(r)'
  BY DEF Safe
<1>1. Newest(r) /\ started[r].alone
  BY ProcessNumbers DEF Newest, Alive
<1>2. (\A q \in Processes \ {r} : ~ Alive(q)) /\ Kept(r)
  BY <1>1 DEF Safe
<1> QED BY <1>2 DEF Kept, Alive

LEMMA SafeLoad ==
  ASSUME Basic, NEW r \in Processes, Load(r) \/ LoadFails(r)
  PROVE  Safe(r)'
<1>1. /\ main[r] = "loading" /\ disk.file # 0
      /\ disk' = disk /\ opened' = opened
      /\ \E s \in {"backingUp", "cleaning"} : main' = [main EXCEPT ![r] = s]
      /\ started' = [started EXCEPT ![r] = Found(r)]
  BY DEF Load, LoadFails, envVars
<1>2. /\ Found(r).file = disk.file /\ Found(r).content = disk.contents[disk.file]
      /\ Found(r).alone = (\A q \in Processes \ {r} : ~ Alive(q))
      /\ Found(r).backed = FALSE /\ Found(r).saved = FALSE
      /\ disk.file \in 1 .. Len(disk.contents)
  BY <1>1, FoundTyped
<1>3. opened[r] = 0 /\ main \in [Processes -> MainSteps] /\ r \in DOMAIN started
  BY <1>1 DEF Basic, Quiet, Typed
<1>4. started'[r] = Found(r) /\ \A q \in Processes \ {r} : main'[q] = main[q]
  BY <1>1, <1>3
<1>5. Kept(r)'
  BY <1>1, <1>2, <1>3, <1>4 DEF Kept
<1>6. Found(r).alone => \A q \in Processes \ {r} : ~ Alive(q)'
  BY <1>2, <1>4 DEF Alive
<1> QED BY <1>4, <1>5, <1>6 DEF Safe

LEMMA SafeDisk ==
  ASSUME Basic, NEW r \in Processes, Safe(r), OnDisk(r)
  PROVE  Safe(r)'
<1> SUFFICES ASSUME Newest(r)', started'[r].alone
             PROVE  (\A q \in Processes \ {r} : ~ Alive(q)') /\ Kept(r)'
  BY DEF Safe
<1> DEFINE f == started[r].file
<1>1. /\ Alive(r)
      /\ \A q \in Processes : q # r => main'[q] = main[q]
  BY DEF OnDisk, BackUp, CleanBackups, SaveOpens, SaveTears, SaveWrites, SaveFails,
         Alive, Basic, Typed
<1>2. /\ started' = started \/ started' = [started EXCEPT ![r].backed = TRUE]
           \/ started' = [started EXCEPT ![r].saved = TRUE]
      /\ started \in [Processes -> StartedSet]
  BY DEF OnDisk, BackUp, CleanBackups, SaveOpens, SaveTears, SaveWrites, SaveFails,
         Basic, Typed
<1>3. /\ started'[r].file = f /\ started'[r].content = started[r].content
      /\ started'[r].alone = started[r].alone
  BY <1>2 DEF StartedSet
<1>4. Newest(r) /\ started[r].alone
  BY <1>1, <1>3, ProcessNumbers DEF Newest, Alive
<1>5. (\A q \in Processes \ {r} : ~ Alive(q)) /\ Kept(r)
  BY <1>4 DEF Safe
<1>6. \A q \in Processes \ {r} : ~ Alive(q)'
  BY <1>1, <1>5 DEF Alive
<1>7. /\ DiskTyped(disk) /\ Len(disk.contents) \in Nat /\ r \in DOMAIN main
      /\ r \in DOMAIN opened /\ f \in 1 .. Len(disk.contents)
      /\ opened[r] \in Nat /\ opened[r] <= Len(disk.contents)
      /\ data[r] \in DataSet
      /\ started[r].backed \in BOOLEAN /\ started[r].saved \in BOOLEAN
  BY <1>5, DiskLength DEF Basic, Typed, InRange, Kept, StartedSet
<1>8. CASE BackUp(r)
  <2>1. /\ main[r] = "backingUp" /\ disk' = BackedUp(disk) /\ opened' = opened
        /\ main'[r] = "cleaning" /\ started' = [started EXCEPT ![r].backed = TRUE]
    BY <1>7, <1>8 DEF BackUp
  <2>2. /\ ~ started[r].backed /\ ~ started[r].saved /\ disk.file = f /\ f # 0
        /\ disk.contents[f] = started[r].content /\ opened[r] = 0
    BY <1>5, <1>7, <2>1 DEF Kept
  <2>3. /\ disk'.contents = disk.contents /\ disk'.file = 0
        /\ f \in disk'.backups /\ \A g \in disk'.backups : g <= f
    BY <1>7, <2>1, <2>2, BackedUpDisk
  <2>4. started'[r].backed /\ ~ started'[r].saved
    BY <1>2, <2>1, <2>2 DEF StartedSet
  <2> HIDE DEF f
  <2>5. Kept(r)'
    BY <1>3, <1>7, <2>1, <2>2, <2>3, <2>4 DEF Kept
  <2> QED BY <1>6, <2>5
<1>9. ASSUME NEW stuck \in SUBSET disk.backups, CleanBackups(r, stuck) PROVE Kept(r)'
  <2>1. /\ disk' = CleanDataFile(disk, Backups, stuck) /\ opened' = opened
        /\ main[r] = "cleaning" /\ main'[r] = "writingPID" /\ started' = started
    BY <1>7, <1>9 DEF CleanBackups
  <2>2. /\ disk'.contents = disk.contents /\ disk'.file = disk.file
        /\ \A g \in disk.backups :
             Backups # 0 /\ (\A h \in disk.backups : h <= g) => g \in disk'.backups
    BY <1>7, <2>1, BackupsAssumption, CleanedDisk DEF BackupsAssumption
  <2> QED BY <1>5, <2>1, <2>2 DEF Kept
<1>10. CASE SaveOpens(r)
  <2>1. /\ disk' = Opened(disk) /\ opened'[r] = disk'.file /\ main' = main
        /\ main[r] \notin {"loading", "backingUp", "cleaning"}
        /\ started' = [started EXCEPT ![r].saved = TRUE]
    BY <1>7, <1>10 DEF SaveOpens, Basic, Quiet
  <2>2. /\ disk'.backups = disk.backups
        /\ disk'.file = IF disk.file = 0 THEN Len(disk.contents) + 1 ELSE disk.file
        /\ Len(disk.contents) <= Len(disk'.contents)
        /\ DiskTyped(disk')
        /\ \A g \in 1 .. Len(disk.contents) :
             g # disk.file => disk'.contents[g] = disk.contents[g]
    BY <1>7, <2>1, OpenedDisk
  <2>3. Len(disk'.contents) \in Nat
    BY <2>2, LenProperties DEF DiskTyped
  <2>4. started'[r].saved /\ started'[r].backed = started[r].backed
    BY <1>2, <2>1 DEF StartedSet
  <2>5. f \in 1 .. Len(disk'.contents)
    BY <1>7, <2>2, <2>3
  <2>6. started[r].backed =>
          /\ disk'.file # f /\ disk'.contents[f] = started[r].content
          /\ Backups # 0 => f \in disk.backups
    BY <1>5, <1>7, <2>1, <2>2 DEF Kept
  <2> HIDE DEF f
  <2>7. Kept(r)'
    BY <1>3, <2>1, <2>2, <2>4, <2>5, <2>6 DEF Kept
  <2> QED BY <1>6, <2>7
<1>11. ASSUME NEW x \in ContentSet, disk' = Written(disk, opened[r], x), opened[r] # 0,
              opened'[r] \in {0, opened[r]}, main' = main, started' = started
       PROVE  Kept(r)'
  <2>1. opened[r] \in 1 .. Len(disk.contents)
    BY <1>7, <1>11
  <2>2. /\ disk'.backups = disk.backups /\ disk'.file = disk.file
        /\ Len(disk'.contents) = Len(disk.contents)
        /\ \A g \in 1 .. Len(disk.contents) :
             g # opened[r] => disk'.contents[g] = disk.contents[g]
    BY <1>7, <1>11, <2>1, WrittenDisk
  <2>3. started[r].backed => opened[r] # f /\ f # 0
    BY <1>5, <1>7 DEF Kept
  <2>4. started[r].backed \/ started[r].saved
    BY <1>5, <1>11 DEF Kept
  <2> QED BY <1>5, <1>7, <1>11, <2>2, <2>3, <2>4 DEF Kept
<1>12. ASSUME NEW some \in SUBSET Names, NEW decodes \in BOOLEAN,
              SaveTears(r, some, decodes)
       PROVE  Kept(r)'
  <2>1. Content(decodes, Part(data[r], some)) \in ContentSet
    BY <1>7, <1>12, PartTyped DEF SaveTears
  <2> QED BY <1>11, <1>12, <2>1 DEF SaveTears
<1>13. CASE SaveWrites(r)
  <2>1. Content(TRUE, data[r]) \in ContentSet
    BY <1>7, PartTyped
  <2>2. opened'[r] = 0
    BY <1>7, <1>13 DEF SaveWrites
  <2>3. Kept(r)'
    BY <1>11, <1>13, <2>1, <2>2 DEF SaveWrites
  <2> QED BY <1>6, <2>3
<1>14. CASE SaveFails(r)
  <2>1. disk' = disk /\ opened'[r] = 0 /\ main' = main /\ started' = started
    BY <1>7, <1>14 DEF SaveFails, envVars
  <2>2. Kept(r)'
    BY <1>5, <1>7, <2>1 DEF Kept
  <2> QED BY <1>6, <2>2
<1> QED BY <1>6, <1>8, <1>9, <1>10, <1>12, <1>13, <1>14 DEF OnDisk

\* r ends, or its successor begins: it is no longer the newest one alive.
LEMMA SafeEnds ==
  ASSUME NEW r \in Processes, main \in [Processes -> MainSteps], Ends(r)
  PROVE  Safe(r)'
BY DEF Ends, Safe, Newest, Alive

LEMMA SafeStart ==
  ASSUME Basic, NEW r \in Processes, NEW q \in Processes, Start(q)
  PROVE  Safe(r)'
<1>1. CASE q = r
  BY <1>1 DEF Start, IsNext, Basic, Fresh, Safe
<1>2. CASE q # r
  <2>1. ~ Alive(r) /\ main'[r] = main[r]
    BY <1>2 DEF Start, Basic, Typed
  <2> QED BY <2>1 DEF Safe, Newest, Alive
<1> QED BY <1>1, <1>2

LEMMA SafeSpawn ==
  ASSUME Inv, Basic, NEW r \in Processes, Safe(r), NEW p \in Processes,
         NEW q \in Processes, Spawn(p, q)
  PROVE  Safe(r)'
<1>1. /\ main[p] = "spawning" /\ main[q] = "none" /\ p # q
      /\ started' = started /\ main \in [Processes -> MainSteps]
      /\ main' = [main EXCEPT ![p] = "leaving", ![q] = Begun(configFile)]
      /\ Begun(configFile) \in {"loading", "gone"}
  BY DEF Spawn, IsNext, Inv, MainTyped, Begun
<1>2. main'[q] # "none" /\ \A s \in Processes : s # p /\ s # q => main'[s] = main[s]
  BY <1>1
<1>3. CASE r = q
  BY <1>1, <1>3 DEF Basic, Fresh, Safe
<1>4. CASE r = p
  <2>1. q > p
    BY <1>1, ProcessNumbers DEF Spawn, IsNext, Inv, Handover
  <2> QED BY <1>2, <1>4, <2>1 DEF Safe, Newest
<1>5. CASE r # p /\ r # q
  <2>1. \A s \in Processes : main'[s] = "none" => main[s] = "none"
    BY <1>1, <1>2
  <2> QED BY <1>1, <1>2, <1>5, <2>1, Bystander DEF Alive
<1> QED BY <1>3, <1>4, <1>5

\* The steps of one process alone: of r itself, or of a bystander.
LEMMA SafeStep ==
  ASSUME Inv, Basic, NEW r \in Processes, Safe(r), NEW p \in Processes,
         ProcessStep(p) \/ Crash(p)
  PROVE  Safe(r)'
<1>1. ASSUME NEW q \in Processes, Spawn(p, q) PROVE Safe(r)'
  BY <1>1, SafeSpawn
<1>2. CASE ~ \E q \in Processes : Spawn(p, q)
  <2>1. CASE p # r
    <3>1. Alive(p)
      BY <1>2 DEF ProcessStep, Begin, NoData, Load, LoadFails, BackUp, BackUpFails,
           CleanBackups, NewPIDFile, ConfigProbers, Round, RoundHangs, Record,
           SaveDue, SaveOpens, SaveTears, SaveWrites, SaveFails, Poll, Terminate,
           StopProbers, TellSaver, SpawnFails, Leave, Crash, Alive, Probing, Running
    <3>2. \/ main' = main
          \/ \E s \in MainSteps \ {"none"} : main' = [main EXCEPT ![p] = s]
      BY <1>2 DEF ProcessStep, Begin, NoData, Load, LoadFails, BackUp, BackUpFails,
           CleanBackups, NewPIDFile, ConfigProbers, Round, RoundHangs, Record,
           SaveDue, SaveOpens, SaveTears, SaveWrites, SaveFails, Poll, Terminate,
           StopProbers, TellSaver, SpawnFails, Leave, Crash, Ends, MainSteps
    <3>3. \/ started' = started \/ \E x : started' = [started EXCEPT ![p] = x]
          \/ started' = [started EXCEPT ![p].backed = TRUE]
          \/ started' = [started EXCEPT ![p].saved = TRUE]
      BY <1>2 DEF ProcessStep, Begin, NoData, Load, LoadFails, BackUp, BackUpFails,
           CleanBackups, NewPIDFile, ConfigProbers, Round, RoundHangs, Record,
           SaveDue, SaveOpens, SaveTears, SaveWrites, SaveFails, Poll, Terminate,
           StopProbers, TellSaver, SpawnFails, Leave, Crash, Ends
    <3>4. /\ main'[r] = main[r]
          /\ \A q \in Processes : main'[q] = "none" => main[q] = "none"
      BY <2>1, <3>2 DEF Basic, Typed
    <3>5. started'[r] = started[r]
      BY <2>1, <3>3 DEF Basic, Typed
    <3> QED BY <2>1, <3>1, <3>4, <3>5, Bystander
  <2>2. CASE p = r
    <3>1. CASE Ends(r)
      BY <3>1, SafeEnds DEF Inv, MainTyped
    <3>2. CASE Load(r) \/ LoadFails(r)
      BY <3>2, SafeLoad
    <3>3. CASE OnDisk(r)
      BY <3>3, SafeDisk
    <3>4. CASE NoData(r)
      <4>1. main[r] = "loading" /\ started' = started
        BY <3>4 DEF NoData
      <4> QED BY <4>1 DEF Basic, Fresh, Safe
    <3>5. CASE \/ BackUpFails(r) \/ NewPIDFile(r) \/ SaveDue(r) \/ Poll(r)
               \/ Terminate(r) \/ StopProbers(r) \/ TellSaver(r) \/ SpawnFails(r)
               \/ \E n \in Names : Round(r, n) \/ RoundHangs(r, n) \/ Record(r, n)
               \/ \E good \in SUBSET Names : ConfigProbers(r, good) /\ ~ Ends(r)
      <4>1. /\ Alive(r) /\ disk' = disk /\ opened' = opened /\ started' = started
        BY <3>5 DEF BackUpFails, NewPIDFile, SaveDue, Poll, Terminate, StopProbers,
             TellSaver, SpawnFails, Round, RoundHangs, Record, ConfigProbers, Alive,
             Probing, Running, envVars
      <4>2. \/ main' = main
            \/ main[r] = "backingUp" /\ main' = [main EXCEPT ![r] = "cleaning"]
            \/ /\ main[r] \in {"writingPID", "configuring", "running", "waiting",
                               "stopping", "spawning"}
               /\ \E s \in {"configuring", "running", "waiting", "stopping",
                            "spawning", "leaving"} : main' = [main EXCEPT ![r] = s]
        BY <3>5 DEF BackUpFails, NewPIDFile, SaveDue, Poll, Terminate, StopProbers,
             TellSaver, SpawnFails, Round, RoundHangs, Record, ConfigProbers, Running
      <4>3. /\ \A q \in Processes : q # r => main'[q] = main[q]
            /\ \/ main'[r] = main[r]
               \/ /\ main[r] \notin {"backingUp", "cleaning"}
                  /\ main'[r] \notin {"backingUp", "cleaning"}
               \/ main[r] = "backingUp" /\ main'[r] = "cleaning"
        BY <4>2 DEF Basic, Typed
      <4> QED BY <4>1, <4>3, OwnMainStep
    <3>6. CASE Leave(r) \/ Crash(r)
      BY <3>1, <3>6 DEF Leave, Crash
    <3> QED BY <1>2, <2>2, <3>1, <3>2, <3>3, <3>4, <3>5, <3>6
            DEF ProcessStep, Begin, OnDisk
  <2> QED BY <2>1, <2>2
<1> QED BY <1>1, <1>2

LEMMA NextDiskInv == DiskInv /\ [Next]_vars => DiskInv'
<1> SUFFICES ASSUME DiskInv, [Next]_vars PROVE DiskInv'
  OBVIOUS
<1>1. Inv' /\ Basic'
  BY NextInv, BasicNext DEF DiskInv
<1>2. ASSUME NEW r \in Processes PROVE Safe(r)'
  <2>1. Inv /\ Basic /\ Safe(r)
    BY DEF DiskInv
  <2>2. CASE UNCHANGED <<disk, main, opened, started>>
    BY <2>1, <2>2 DEF Safe, Newest, Alive, Kept
  <2>3. ASSUME NEW c \in Files, Edit(c) PROVE Safe(r)'
    BY <2>2, <2>3 DEF Edit
  <2>4. ASSUME NEW p \in Processes, Start(p) PROVE Safe(r)'
    BY <2>1, <2>4, SafeStart
  <2>5. ASSUME NEW p \in Processes, ProcessStep(p) \/ Crash(p) PROVE Safe(r)'
    BY <2>1, <2>5, SafeStep
  <2>6. CASE UNCHANGED vars
    BY <2>2, <2>6 DEF vars, envVars
  <2>7. CASE Next
    BY <2>3, <2>4, <2>5, <2>7 DEF Next
  <2> QED BY <2>6, <2>7
<1> QED BY <1>1, <1>2 DEF DiskInv

\* What a process that started alone has found in the data file stays on the
\* disk: among the backups, once LoadDataFromFile has renamed it; otherwise,
\* because it could not be decoded or not be renamed, as the data file until the
\* first save.  No step of LoadDataFromFile, CleanDataFile or SaveDataToFile
\* (probe/data.go), failing or cut short, loses it earlier, whatever the number
\* of backups.
THEOREM DataSurvives == Spec => []StartSurvives
<1>1. Init => DiskInv
  <2>1. Init => \A r \in Processes : Safe(r)
    BY NotStartedTyped DEF Init, Safe
  <2> QED BY <2>1, InitInv, BasicInit DEF DiskInv
<1>2. DiskInv /\ [Next]_vars => DiskInv'
  BY NextDiskInv
<1>3. DiskInv => StartSurvives
  BY DEF DiskInv, Safe, Kept, StartSurvives
<1> QED BY <1>1, <1>2, <1>3, PTL DEF Spec
=============================================================================
