----------------------------- MODULE MCRestart -----------------------------
(***************************************************************************)
(* Bounds for Restart: two processes, with a disk that is new or has a     *)
(* data file and a backup, two probers, MaxRounds recorded rounds of each, *)
(* MaxFaults failing operations on files.  The configuration files: two    *)
(* valid ones, one that only parses before its environment is expanded,    *)
(* and one that only parses after; the edits go forward through them.      *)
(***************************************************************************)
EXTENDS Restart

CONSTANTS
  MaxRounds,    \* bound: rounds of a prober over the whole history
  MaxFaults,    \* bound: operations on files that fail
  n1, n2        \* the names of the probers

VARIABLE faults    \* the operations on files that have failed

ConfigFile(parses, probers) == [parses |-> parses, probers |-> probers]

Edits ==
  << ConfigFile(FALSE, {n2}), ConfigFile(TRUE, {n1}), ConfigFile(TRUE, {n2}),
     ConfigFile(TRUE, Invalid) >>

MCFiles == ToSet(Edits)

Old == [n \in {n1} |-> 0]

MCDisks ==
  { NewDisk,
    [contents |-> <<Blank, Content(TRUE, Old)>>, file |-> 2, backups |-> {1}] }

\* Bound: edits go forward.
EditsGoOn ==
  \E i, j \in DOMAIN Edits : i <= j /\ Edits[i] = configFile /\ Edits[j] = configFile'

\* Bound: rounds.
RoundsBounded ==
  \A p \in Processes, n \in Names :
    n \in DOMAIN made'[p] => made'[p][n] <= MaxRounds

\* A file cannot be read, renamed, removed, opened or written to its end.
Fault ==
  \E p \in Processes :
    \/ LoadFails(p) /\ disk.contents[disk.file].decodes
    \/ BackUpFails(p)
    \/ \E stuck \in SUBSET disk.backups \ {{}} : CleanBackups(p, stuck)
    \/ SaveFails(p)
    \/ \E some \in SUBSET Names, decodes \in BOOLEAN : SaveTears(p, some, decodes)

FaultsBounded ==
  /\ faults' = IF Fault THEN faults + 1 ELSE faults
  /\ faults' <= MaxFaults

MCInit == Init /\ faults = 0

MCSpec ==
  /\ MCInit
  /\ [][Next /\ EditsGoOn /\ RoundsBounded /\ FaultsBounded]_<<vars, faults>>
  /\ Fairness
=============================================================================
