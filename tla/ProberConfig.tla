---------------------------- MODULE ProberConfig ----------------------------
(***************************************************************************)
(* Config of the kinds of probe: the settings each checks, in its order,   *)
(* the first wrong one ending it with an error, and the labels of the      *)
(* metrics each creates.  The user's labels are made the same for all      *)
(* probers before any of them is configured.                               *)
(***************************************************************************)
EXTENDS Sequences, Functions

\* The settings checked by what several kinds share: the text checker, the
\* SSH connection, the native client, and the certificates.
TextChecks   == <<"regexp">>
ServerChecks == <<"credentials", "host">> \o TextChecks
ClientChecks == <<"host", "port", "driver">>
Certificates == <<"certificates">>

\* Settings that are not here are corrected, or only warned about: the method
\* and the codes of an HTTP probe, the thresholds, a bastion that is unknown.
TCPChecks       == <<>>
TLSChecks       == <<"caFile", "caPem">>
PingChecks      == <<"host">>
HTTPChecks      == <<"url">> \o Certificates \o <<"proxy">> \o TextChecks \o <<"evaluator">>
ShellChecks     == TextChecks
SSHChecks       == ServerChecks
HostChecks      == ServerChecks
WebSocketChecks == <<"url", "scheme", "proxy">>
MySQLChecks     == ClientChecks \o Certificates \o <<"data">>
PostgresChecks  == ClientChecks \o Certificates \o <<"data">>
MongoChecks     == ClientChecks \o Certificates \o <<"data">>
KafkaChecks     == ClientChecks \o Certificates
RedisChecks     == ClientChecks \o Certificates
MemcacheChecks  == ClientChecks
ZookeeperChecks == ClientChecks \o Certificates

Checks ==
  [ tcp |-> TCPChecks, tls |-> TLSChecks, ping |-> PingChecks, http |-> HTTPChecks,
    shell |-> ShellChecks, ssh |-> SSHChecks, host |-> HostChecks,
    websocket |-> WebSocketChecks, mysql |-> MySQLChecks, postgres |-> PostgresChecks,
    mongo |-> MongoChecks, kafka |-> KafkaChecks, redis |-> RedisChecks,
    memcache |-> MemcacheChecks, zookeeper |-> ZookeeperChecks ]

Kinds == DOMAIN Checks

\* Config returns no error.
Accepts(kind, wrong) == Range(Checks[kind]) \cap wrong = {}

-----------------------------------------------------------------------------
\* The sets of labels of the metrics of all probers, and of those of a kind.
BaseLabels  == { {"name", "status", "endpoint"}, {"name", "endpoint"} }
HTTPLabels  == { {"name", "status", "endpoint"} }
PingLabels  == { {"name", "endpoint"} }
ShellLabels == { {"name", "exit", "endpoint"} }
SSHLabels   == { {"name", "exit", "endpoint"} }
TLSLabels   == { {"endpoint"} }

KindLabels(kind) ==
  CASE kind = "http"  -> HTTPLabels
    [] kind = "ping"  -> PingLabels
    [] kind = "shell" -> ShellLabels
    [] kind = "ssh"   -> SSHLabels
    [] kind = "tls"   -> TLSLabels
    [] OTHER          -> {}

MetricLabels(kind) == BaseLabels \cup KindLabels(kind)

\* Labels a user may have written: one that is fine, one that is no label,
\* one that Prometheus reserves, and some that the metrics have themselves.
UserLabels == {"fine", "not a label", "__reserved", "name", "exit", "host"}

\* getAndValid: every label is one, and none is there twice.
GetAndValid(labels, constLabels) ==
  /\ "not a label" \notin constLabels
  /\ labels \cap constLabels = {}

\* What NewGauge returns: a gauge, or nil for labels that are not valid; the
\* registration of those the library reserves panics.
NewGauge(labels, constLabels) ==
  IF GetAndValid(labels, constLabels)
  THEN IF "__reserved" \in constLabels THEN "panic" ELSE "gauge"
  ELSE "nil"

\* newMetrics of the base and of the kind.
NewMetrics(kind, constLabels) ==
  LET made == { NewGauge(l, constLabels) : l \in MetricLabels(kind) } IN
  IF "panic" \in made THEN "panic" ELSE IF "nil" \in made THEN "nil" ELSE "made"

\* MergeConstLabels: all probers have the labels of each, the bad ones too.
MergeConstLabels(label) == UNION Range(label)
=============================================================================
