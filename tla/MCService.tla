------------------------------ MODULE MCService ------------------------------
(***************************************************************************)
(* Bounds for Service.  Configurations vary in one respect at a time: the  *)
(* settings and labels of p1, the names and channels of the notifiers, the *)
(* provider of n1, or the filter of the requests.  Readers share only the  *)
(* data, so pages and reports are looked at one at a time.                 *)
(***************************************************************************)
EXTENDS Service

CONSTANTS
  p1, p2, n1, n2, c1, c2,
  MaxRounds    \* bound: rounds of a prober

MCListed          == <<p1, p2>>
MCListedNotifiers == <<n1, n2>>
MCReportChannels  == <<c1, c2>>
MCRequests ==
  { Filter(status, page, size) : status \in {"any", "up"}, page \in 0 .. 3, size \in 1 .. 2 }
    \cup { Filter("any", 5, 4) }    \* its first match is numbered 16, 0 in an int

PlainProbers ==
  /\ kind = [p \in Probers |-> "tcp"]
  /\ wrong = [p \in Probers |-> {}] /\ label = [p \in Probers |-> {}]

PlainNotifiers ==
  /\ provider = [n \in Notifiers |-> "slack"] /\ format = [n \in Notifiers |-> "text"]
  /\ name = (n1 :> "a" @@ n2 :> "b")
  /\ unusable = {}

NoReports == channels = [n \in Notifiers |-> {}]

\* One setting of p1 is wrong at most, and it has one label at most.
StartUp ==
  /\ \E k \in Kinds : kind = (p1 :> k @@ p2 :> "tcp")
  /\ \E w \in {{}} \cup { {x} : x \in Range(Checks[kind[p1]]) } : wrong = (p1 :> w @@ p2 :> {})
  /\ \E l \in {{}} \cup { {x} : x \in UserLabels } : label = (p1 :> l @@ p2 :> {})
  /\ PlainNotifiers /\ NoReports

Pages == PlainProbers /\ PlainNotifiers /\ NoReports

Routing ==
  /\ PlainProbers
  /\ provider = [n \in Notifiers |-> "log"] /\ format = [n \in Notifiers |-> "text"]
  /\ \E b \in Names : name = (n1 :> "a" @@ n2 :> b)
  /\ channels \in [Notifiers -> SUBSET Channels]

Reports ==
  /\ PlainProbers
  /\ \E v \in Providers : provider = (n1 :> v @@ n2 :> "slack")
  /\ \E f \in Formats : format = (n1 :> f @@ n2 :> "text")
  /\ provider[n1] # "aws" => format[n1] = "text"
  /\ name = (n1 :> "a" @@ n2 :> "b")
  /\ channels = (n1 :> {c1} @@ n2 :> {})

MCInit == (StartUp \/ Pages \/ Routing \/ Reports) /\ Init

MCNext ==
  \/ Main \/ Serve \/ Shutdown \/ Exit
  \/ \E p \in Probers :
       \/ /\ live[p].round < MaxRounds
          /\ Pages \/ (StartUp /\ p = p1) \/ (Reports /\ p = p2)
          /\ RoundBegins(p)
       \/ RoundEnds(p) \/ SendResult(p)
  \/ SaveResult
  \/ \E f \in Requests : (Pages \/ (StartUp /\ f = NewEmptyFilter)) /\ Request(f)
  \/ \E r \in Readers : Select(r) \/ Render(r)
  \/ \E n \in Notifiers : NotifyStat(n) \/ Compose(n) \/ Post(n)

MCSpec == MCInit /\ [][MCNext]_vars /\ Fairness
=============================================================================
