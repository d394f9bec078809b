----------------------------- MODULE HostOutput -----------------------------
(***************************************************************************)
(* The host probe runs the commands of its metrics as one script and cuts  *)
(* the output into lines by count alone: each metric is handed as many     *)
(* lines as its commands print when all goes well.  Whether a line is its  *)
(* own it can only tell by the number of fields.                           *)
(***************************************************************************)
EXTENDS Naturals, Sequences, FiniteSets

\* The metrics in the order of Info's fields, and the commands of each.
Metrics == <<"basic", "cpu", "mem", "disk", "load">>
Commands ==
  [ basic |-> <<"hostname", "os", "cores">>, cpu |-> <<"top">>, mem |-> <<"free">>,
    disk |-> <<"df">>, load |-> <<"cores", "loadavg">> ]

OutputLines(metric, mounts) ==
  IF metric = "disk" THEN mounts ELSE Len(Commands[metric])

\* A command that prints one line or, where it fails, none.
Line(command) == {<<>>, <<command>>}

\* top may print one line per processor.  Bound: three of them.
Top == {<<>>, <<"top">>, <<"top", "top">>, <<"top", "top", "top">>}

\* df prints a line per mount that is there, or two where a long name of the
\* device wraps: awk leaves the fields of the first empty.
Df(mounts) ==
  { s \in UNION { [1 .. k -> {"df", "wrapped", "rest"}] : k \in 0 .. 2 * mounts } :
      /\ Cardinality({ i \in DOMAIN s : s[i] # "rest" }) <= mounts
      /\ \A i \in DOMAIN s :
           s[i] = "rest" <=> i > 1 /\ s[i - 1] = "wrapped"
      /\ s # <<>> => s[Len(s)] # "wrapped" }

\* One output after the other.
R ** S == { r \o s : r \in R, s \in S }

\* The split of the output at the line ends has an empty last element.
Outputs(mounts) ==
  Line("hostname") ** Line("os") ** Line("cores") ** Top ** Line("free")
    ** Df(mounts) ** Line("cores") ** Line("loadavg") ** {<<"empty">>}

\* The fields of a line, cut at commas or at blanks.
Commas(line) == IF line = "top" THEN 8 ELSE 1
Blanks(line) ==
  CASE line \in {"free", "loadavg"}       -> 3
    [] line \in {"df", "wrapped", "rest"} -> 4
    [] line = "top"                       -> 16
    [] OTHER                              -> 1

\* The third field, between blanks, is empty: that of a wrapped line, and of
\* top's line when a processor is busy to the full, "100.0 us,  0.0 sy".
NoThird(line, busy) == line = "wrapped" \/ (line = "top" /\ busy)

-----------------------------------------------------------------------------
\* The first of the lines without a third field comes before any with less
\* than four: Disks.Parse cuts the last character off that field.
CutsEmpty(lines, busy) ==
  \E i \in DOMAIN lines :
    NoThird(lines[i], busy) /\ \A j \in 1 .. i : Blanks(lines[j]) >= 4

\* Mutant: Load.Parse takes what it is given.
AnyLoad(metric, lines) ==
  CASE metric = "cpu"  -> Commas(lines[1]) >= 8
    [] metric = "mem"  -> Blanks(lines[1]) >= 3
    [] metric = "disk" -> \A i \in DOMAIN lines : Blanks(lines[i]) >= 4
    [] OTHER           -> TRUE

\* The lines have the fields that the metric takes.
HasFields(metric, lines) ==
  CASE metric = "cpu"  -> Commas(lines[1]) >= 8
    [] metric = "mem"  -> Blanks(lines[1]) >= 3
    [] metric = "disk" -> \A i \in DOMAIN lines : Blanks(lines[i]) >= 4
    [] metric = "load" -> Blanks(lines[2]) >= 3
    [] OTHER           -> TRUE

Parse(metric, lines, busy) ==
  IF metric = "disk" /\ CutsEmpty(lines, busy) THEN "panic"
  ELSE IF HasFields(metric, lines) THEN "value" ELSE "error"

\* The number of lines before those of the i-th metric.
Before(i, mounts) ==
  LET before[j \in 1 .. Len(Metrics) + 1] ==
        IF j = 1 THEN 0 ELSE before[j - 1] + OutputLines(Metrics[j - 1], mounts)
  IN  before[i]

Share(i, lines, mounts) ==
  SubSeq(lines, Before(i, mounts) + 1, Before(i + 1, mounts))

\* The metrics parse their lines in order, up to the first that cannot.
ParseHostInfo(lines, mounts, busy) ==
  LET parsed(i) == Parse(Metrics[i], Share(i, lines, mounts), busy)
      upTo(i)   == \A j \in 1 .. i - 1 : parsed(j) = "value"
  IN  IF Len(lines) < Before(Len(Metrics) + 1, mounts) THEN "error"
      ELSE IF \E i \in DOMAIN Metrics : upTo(i) /\ parsed(i) = "panic" THEN "panic"
      ELSE IF \A i \in DOMAIN Metrics : parsed(i) = "value" THEN "value"
      ELSE "error"

-----------------------------------------------------------------------------
\* What a reader of the probe takes for granted: every metric has its lines.
OwnLines(lines, mounts) ==
  \A i \in DOMAIN Metrics :
    LET own == IF Metrics[i] = "disk" THEN [j \in 1 .. mounts |-> "df"]
               ELSE Commands[Metrics[i]]
    IN  Share(i, lines, mounts) = own

\* More lines than expected, one per processor or two for a mount: they may
\* stand in for a line that another command has not printed.
Surplus(lines) ==
  \/ \E i \in DOMAIN lines : lines[i] = "wrapped"
  \/ \E i, j \in DOMAIN lines : i # j /\ lines[i] = "top" /\ lines[j] = "top"

\* The lines handed to the disks have one whose third field is empty.
DiskWithout(lines, mounts, busy) ==
  \E i \in DOMAIN Metrics :
    /\ Metrics[i] = "disk"
    /\ \E j \in DOMAIN Share(i, lines, mounts) :
         NoThird(Share(i, lines, mounts)[j], busy)
=============================================================================
