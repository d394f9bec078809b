----------------------------- MODULE DataStore -----------------------------
(***************************************************************************)
(* probe/data.go: the results by prober name, and the data file with its   *)
(* backups.  Of a result only the number of recorded rounds is kept.  A    *)
(* disk has the contents of its files and refers to them by number:        *)
(* renaming the data file to a backup, also while another process writes   *)
(* it, does not change which file is written.                              *)
(*                                                                         *)
(* The content of a file is what can be decoded of it, and whether that is *)
(* all.  A truncated file decodes, to nothing.                             *)
(***************************************************************************)
EXTENDS Integers, FiniteSets, Sequences, SequencesExt

CONSTANT Names    \* the names of the probers

IsData(d) == DOMAIN d \subseteq Names /\ d \in [DOMAIN d -> Nat]

Empty == [n \in {} |-> 0]

Content(decodes, data) == [decodes |-> decodes, data |-> data]

Blank == Content(TRUE, Empty)

IsContent(c) ==
  c = Content(c.decodes, c.data) /\ c.decodes \in BOOLEAN /\ IsData(c.data)

\* file: the data file, 0 when there is none.  Files are numbered as they are
\* created, so that the backups are older than the data file and their numbers
\* have the order of the timestamps in their names.
IsDisk(d) ==
  /\ d = [contents |-> d.contents, file |-> d.file, backups |-> d.backups]
  /\ d.contents \in Seq(ToSet(d.contents))
  /\ \A f \in 1 .. Len(d.contents) : IsContent(d.contents[f])
  /\ d.file \in 0 .. Len(d.contents)
  /\ d.backups \subseteq 1 .. Len(d.contents)
  /\ d.file # 0 => \A f \in d.backups : f < d.file

NewDisk == [contents |-> << >>, file |-> 0, backups |-> {}]

\* The result a prober is configured with.
NewResultWithName(data, n) == IF n \in DOMAIN data THEN data[n] ELSE 0

\* Mutant: the data of other probers is kept.
CleanDataKeepsAll(data, results) ==
  [n \in DOMAIN data \cup DOMAIN results |->
     IF n \in DOMAIN data THEN data[n] ELSE results[n]]

\* CleanData: the data of the configured probers, and no others.
CleanData(data, results) ==
  [n \in DOMAIN results |-> IF n \in DOMAIN data THEN data[n] ELSE results[n]]

SetResultData(data, n, rounds) ==
  [m \in DOMAIN data \cup {n} |-> IF m = n THEN rounds ELSE data[m]]

\* os.WriteFile opens the file, creating or truncating it ...
Opened(d) ==
  IF d.file = 0
  THEN [d EXCEPT !.contents = Append(@, Blank), !.file = Len(d.contents) + 1]
  ELSE [d EXCEPT !.contents[d.file] = Blank]

\* ... and writes to the file f it has opened.
Written(d, f, content) == [d EXCEPT !.contents[f] = content]

\* The data as far as the results of some probers; one that is cut short itself
\* counts as none.
Part(data, some) == [n \in some |-> data[n]]

\* LoadDataFromFile's rename of the data file to a backup, if it is there.
BackedUp(d) ==
  IF d.file = 0 THEN d
  ELSE [d EXCEPT !.backups = @ \cup {d.file}, !.file = 0]

\* Mutant: the newest backups are removed.
CleanDataFileKeepsOldest(d, max, stuck) ==
  [d EXCEPT !.backups =
     {f \in @ : max < 0 \/ f \in stuck \/ Cardinality({g \in @ : g < f}) < max}]

\* CleanDataFile: all backups are kept if max is negative; otherwise those with
\* fewer than max newer ones, and those that cannot be removed (stuck).
CleanDataFile(d, max, stuck) ==
  [d EXCEPT !.backups =
     {f \in @ : max < 0 \/ f \in stuck \/ Cardinality({g \in @ : g > f}) < max}]
=============================================================================
