----------------------------- MODULE Probes_proofs -----------------------------
(***************************************************************************)
(* Proofs about Probes, for any number of probers, keys, disks and         *)
(* expressions, with the scripts of all kinds of probe.                    *)
(***************************************************************************)
EXTENDS Probes, SequenceTheorems, FiniteSetTheorems, TLAPS

D == INSTANCE DataLemmas

-----------------------------------------------------------------------------
(***************************************************************************)
(* What the scripts have in common.  A call defers the Close of what it    *)
(* opens, and of nothing else, but for the pool of Memcache, which nobody  *)
(* closes, and the bastion, whose Close is deferred three calls later.     *)
(***************************************************************************)
Bastions == {"sshBastion", "hostBastion"}

Orderly(k, s) ==
  /\ Len(s) \in Nat \ {0}
  /\ \A i \in 1 .. Len(s) :
       /\ s[i].opens \subseteq Connections /\ s[i].defers \subseteq Connections
       /\ s[i].defers \subseteq s[i].opens \/ (k \in Bastions /\ i = 5)
       /\ s[i].opens \subseteq s[i].defers \cup Collected \/ (k \in Bastions /\ i = 2)
       /\ s[i].name = "settings" => k \in Sharing /\ i = 1
       /\ s[i].name = "dialShared" => k \in Sharing /\ i = 2
  /\ k \in Sharing => s[1].name = "settings"

\* The five calls that make a client through a bastion.
Bastion(c1, c2, c3, c4, c5) ==
  /\ c1.opens = {} /\ c1.defers = {} /\ c1.name = "bastion key"
  /\ c2.opens = {"bastion"} /\ c2.defers = {} /\ c2.name = "bastion"
  /\ c3.opens = {} /\ c3.defers = {} /\ c3.name = "key"
  /\ c4.opens = {} /\ c4.defers = {} /\ c4.name = "dial"
  /\ c5.opens = {"client"} /\ c5.defers = {"bastion", "client"}
  /\ c5.name = "client"
  /\ c1.onError # "goOn" /\ c2.onError # "goOn" /\ c3.onError # "goOn"
  /\ c4.onError # "goOn" /\ c5.onError # "goOn"

LEMMA KindsAre ==
  Kinds = { "tcp", "tcpProxy", "tls", "tlsProxy", "ping", "http", "shell",
            "ssh", "sshBastion", "host", "hostBastion", "websocket",
            "mysql", "mysqlData", "postgres", "postgresData",
            "postgresBrief", "postgresBriefData",
            "mongo", "mongoData", "kafka", "redis", "redisData",
            "memcache", "memcacheData", "zookeeper", "zookeeperData",
            "zookeeperTLS" }
BY DEF Kinds, ProbeScripts

\* The concatenations of ProbeCalls, written out.
LEMMA Join21 ==
  ASSUME NEW a, NEW b, NEW c
  PROVE  <<a, b>> \o <<c>>
           = <<a, b, c>>
<1> DEFINE S == {a, b, c}
<1>1. <<a, b>> \in Seq(S) /\ <<c>> \in Seq(S)
      /\ <<a, b, c>> \in Seq(S)
  OBVIOUS
<1> HIDE DEF S
<1>2. /\ <<a, b>> \o <<c>> \in Seq(S)
      /\ Len(<<a, b>> \o <<c>>) = 3
      /\ \A n \in 1 .. 3 : (<<a, b>> \o <<c>>)[n]
                           = <<a, b, c>>[n]
  BY <1>1, ConcatProperties
<1> QED BY <1>1, <1>2, SeqEqual

LEMMA Join22 ==
  ASSUME NEW a, NEW b, NEW c, NEW d
  PROVE  <<a, b>> \o <<c, d>>
           = <<a, b, c, d>>
<1> DEFINE S == {a, b, c, d}
<1>1. <<a, b>> \in Seq(S) /\ <<c, d>> \in Seq(S)
      /\ <<a, b, c, d>> \in Seq(S)
  OBVIOUS
<1> HIDE DEF S
<1>2. /\ <<a, b>> \o <<c, d>> \in Seq(S)
      /\ Len(<<a, b>> \o <<c, d>>) = 4
      /\ \A n \in 1 .. 4 : (<<a, b>> \o <<c, d>>)[n]
                           = <<a, b, c, d>>[n]
  BY <1>1, ConcatProperties
<1> QED BY <1>1, <1>2, SeqEqual

LEMMA Join42 ==
  ASSUME NEW a, NEW b, NEW c, NEW d, NEW e, NEW f
  PROVE  <<a, b, c, d>> \o <<e, f>>
           = <<a, b, c, d, e, f>>
<1> DEFINE S == {a, b, c, d, e, f}
<1>1. <<a, b, c, d>> \in Seq(S) /\ <<e, f>> \in Seq(S)
      /\ <<a, b, c, d, e, f>> \in Seq(S)
  OBVIOUS
<1> HIDE DEF S
<1>2. /\ <<a, b, c, d>> \o <<e, f>> \in Seq(S)
      /\ Len(<<a, b, c, d>> \o <<e, f>>) = 6
      /\ \A n \in 1 .. 6 : (<<a, b, c, d>> \o <<e, f>>)[n]
                           = <<a, b, c, d, e, f>>[n]
  BY <1>1, ConcatProperties
<1> QED BY <1>1, <1>2, SeqEqual

LEMMA Join43 ==
  ASSUME NEW a, NEW b, NEW c, NEW d, NEW e, NEW f, NEW g
  PROVE  <<a, b, c, d>> \o <<e, f, g>>
           = <<a, b, c, d, e, f, g>>
<1> DEFINE S == {a, b, c, d, e, f, g}
<1>1. <<a, b, c, d>> \in Seq(S) /\ <<e, f, g>> \in Seq(S)
      /\ <<a, b, c, d, e, f, g>> \in Seq(S)
  OBVIOUS
<1> HIDE DEF S
<1>2. /\ <<a, b, c, d>> \o <<e, f, g>> \in Seq(S)
      /\ Len(<<a, b, c, d>> \o <<e, f, g>>) = 7
      /\ \A n \in 1 .. 7 : (<<a, b, c, d>> \o <<e, f, g>>)[n]
                           = <<a, b, c, d, e, f, g>>[n]
  BY <1>1, ConcatProperties
<1> QED BY <1>1, <1>2, SeqEqual

LEMMA Join52 ==
  ASSUME NEW a, NEW b, NEW c, NEW d, NEW e, NEW f, NEW g
  PROVE  <<a, b, c, d, e>> \o <<f, g>>
           = <<a, b, c, d, e, f, g>>
<1> DEFINE S == {a, b, c, d, e, f, g}
<1>1. <<a, b, c, d, e>> \in Seq(S) /\ <<f, g>> \in Seq(S)
      /\ <<a, b, c, d, e, f, g>> \in Seq(S)
  OBVIOUS
<1> HIDE DEF S
<1>2. /\ <<a, b, c, d, e>> \o <<f, g>> \in Seq(S)
      /\ Len(<<a, b, c, d, e>> \o <<f, g>>) = 7
      /\ \A n \in 1 .. 7 : (<<a, b, c, d, e>> \o <<f, g>>)[n]
                           = <<a, b, c, d, e, f, g>>[n]
  BY <1>1, ConcatProperties
<1> QED BY <1>1, <1>2, SeqEqual

LEMMA Join72 ==
  ASSUME NEW a, NEW b, NEW c, NEW d, NEW e, NEW f, NEW g, NEW h, NEW i
  PROVE  <<a, b, c, d, e, f, g>> \o <<h, i>>
           = <<a, b, c, d, e, f, g, h, i>>
<1> DEFINE S == {a, b, c, d, e, f, g, h, i}
<1>1. <<a, b, c, d, e, f, g>> \in Seq(S) /\ <<h, i>> \in Seq(S)
      /\ <<a, b, c, d, e, f, g, h, i>> \in Seq(S)
  OBVIOUS
<1> HIDE DEF S
<1>2. /\ <<a, b, c, d, e, f, g>> \o <<h, i>> \in Seq(S)
      /\ Len(<<a, b, c, d, e, f, g>> \o <<h, i>>) = 9
      /\ \A n \in 1 .. 9 : (<<a, b, c, d, e, f, g>> \o <<h, i>>)[n]
                           = <<a, b, c, d, e, f, g, h, i>>[n]
  BY <1>1, ConcatProperties
<1> QED BY <1>1, <1>2, SeqEqual

LEMMA Join73 ==
  ASSUME NEW a, NEW b, NEW c, NEW d, NEW e, NEW f, NEW g, NEW h, NEW i, NEW j
  PROVE  <<a, b, c, d, e, f, g>> \o <<h, i, j>>
           = <<a, b, c, d, e, f, g, h, i, j>>
<1> DEFINE S == {a, b, c, d, e, f, g, h, i, j}
<1>1. <<a, b, c, d, e, f, g>> \in Seq(S) /\ <<h, i, j>> \in Seq(S)
      /\ <<a, b, c, d, e, f, g, h, i, j>> \in Seq(S)
  OBVIOUS
<1> HIDE DEF S
<1>2. /\ <<a, b, c, d, e, f, g>> \o <<h, i, j>> \in Seq(S)
      /\ Len(<<a, b, c, d, e, f, g>> \o <<h, i, j>>) = 10
      /\ \A n \in 1 .. 10 : (<<a, b, c, d, e, f, g>> \o <<h, i, j>>)[n]
                           = <<a, b, c, d, e, f, g, h, i, j>>[n]
  BY <1>1, ConcatProperties
<1> QED BY <1>1, <1>2, SeqEqual

\* A call that leaves nothing open behind it, and shares no settings.
Plain(c) ==
  /\ c.opens \subseteq Connections
  /\ c.defers \subseteq c.opens /\ c.opens \subseteq c.defers \cup Collected
  /\ c.name \notin {"settings", "dialShared"}

LEMMA PlainCalls ==
  ASSUME NEW n, n \notin {"settings", "dialShared"}, NEW b, NEW e
  PROVE  /\ Plain(Does(n, {}, {}, b, e)) /\ Plain(Asks(n, b))
         /\ \A c \in Connections : Plain(Does(n, {c}, {c}, b, e))
BY DEF Plain, Does, Asks, Connections, Collected

\* A script that opens what it also closes, and shares no settings.
OpensKnown(s) ==
  /\ Len(s) \in Nat \ {0}
  /\ \A i \in 1 .. Len(s) : s[i].opens \subseteq Connections

ClosesOwn(s) ==
  \A i \in 1 .. Len(s) :
    s[i].defers \subseteq s[i].opens /\ s[i].opens \subseteq s[i].defers \cup Collected

Unshared(s) ==
  \A i \in 1 .. Len(s) : s[i].name \notin {"settings", "dialShared"}

LEMMA PlainScripts ==
  ASSUME NEW k \in Kinds \ (Bastions \cup Sharing)
  PROVE  OpensKnown(ProbeScripts[k]) /\ ClosesOwn(ProbeScripts[k])
         /\ Unshared(ProbeScripts[k])
<1> DEFINE s == ProbeScripts[k]
<1> USE DEF Connections, Collected
<1>1. CASE k \in {"tcp", "tcpProxy"}
  <2>1. OpensKnown(s)
    BY <1>1 DEF OpensKnown, ProbeScripts, TCP, Connection, Opens, Does
  <2>2. ClosesOwn(s)
    BY <1>1 DEF ClosesOwn, ProbeScripts, TCP, Connection, Opens, Does
  <2>3. Unshared(s)
    BY <1>1 DEF Unshared, ProbeScripts, TCP, Connection, Opens, Does
  <2> QED BY <2>1, <2>2, <2>3
<1>2. CASE k \in {"tls", "tlsProxy"}
  <2>1. CASE k = "tls"
    <3>1. OpensKnown(s)
      BY <2>1 DEF OpensKnown, ProbeScripts, TLS, Connection, Opens, Asks,
             Does, Export
    <3>2. ClosesOwn(s)
      BY <2>1 DEF ClosesOwn, ProbeScripts, TLS, Connection, Opens, Asks,
             Does, Export
    <3>3. Unshared(s)
      BY <2>1 DEF Unshared, ProbeScripts, TLS, Connection, Opens, Asks,
             Does, Export
    <3> QED BY <3>1, <3>2, <3>3
  <2>2. CASE k = "tlsProxy"
    <3>1. OpensKnown(s)
      BY <2>2 DEF OpensKnown, ProbeScripts, TLS, Connection, Opens, Asks,
             Does, Export
    <3>2. ClosesOwn(s)
      BY <2>2 DEF ClosesOwn, ProbeScripts, TLS, Connection, Opens, Asks,
             Does, Export
    <3>3. Unshared(s)
      BY <2>2 DEF Unshared, ProbeScripts, TLS, Connection, Opens, Asks,
             Does, Export
    <3> QED BY <3>1, <3>2, <3>3
  <2> QED BY <1>2, <2>1, <2>2
<1>3. CASE k = "ping"
  <2>1. OpensKnown(s)
    BY <1>3 DEF OpensKnown, ProbeScripts, Ping, Asks, Does, Export
  <2>2. ClosesOwn(s)
    BY <1>3 DEF ClosesOwn, ProbeScripts, Ping, Asks, Does, Export
  <2>3. Unshared(s)
    BY <1>3 DEF Unshared, ProbeScripts, Ping, Asks, Does, Export
  <2> QED BY <2>1, <2>2, <2>3
<1>4. CASE k = "http"
  <2>1. OpensKnown(s)
    BY <1>4 DEF OpensKnown, ProbeScripts, HTTP, Phase, Asks, Does,
           Export, CheckText
  <2>2. ClosesOwn(s)
    BY <1>4 DEF ClosesOwn, ProbeScripts, HTTP, Phase, Asks, Does,
           Export, CheckText
  <2>3. Unshared(s)
    BY <1>4 DEF Unshared, ProbeScripts, HTTP, Phase, Asks, Does,
           Export, CheckText
  <2> QED BY <2>1, <2>2, <2>3
<1>5. CASE k = "shell"
  <2>1. OpensKnown(s)
    BY <1>5 DEF OpensKnown, ProbeScripts, Shell, Does, Export, CheckText
  <2>2. ClosesOwn(s)
    BY <1>5 DEF ClosesOwn, ProbeScripts, Shell, Does, Export, CheckText
  <2>3. Unshared(s)
    BY <1>5 DEF Unshared, ProbeScripts, Shell, Does, Export, CheckText
  <2> QED BY <2>1, <2>2, <2>3
<1>6. CASE k = "ssh"
  <2> DEFINE c1 == Does("key", {}, {}, TRUE, "export")
             c2 == Does("dial", {"client"}, {"client"}, FALSE, "export")
             c3 == Does("session", {"session"}, {"session"}, FALSE, "export")
             c4 == Does("run", {}, {}, FALSE, "export")
             c5 == CheckText
             c6 == Export
  <2>1. s = RunSSHCmd(FALSE, "export") \o <<c5, c6>>
    BY <1>6 DEF ProbeScripts, SSH
  <2>2. RunSSHCmd(FALSE, "export") = <<c1, c2>> \o <<c3, c4>>
    BY DEF RunSSHCmd, Client
  <2>3. /\ Plain(c1) /\ Plain(c2) /\ Plain(c3) /\ Plain(c4)
        /\ Plain(c5) /\ Plain(c6)
    BY PlainCalls DEF Export, CheckText
  <2> HIDE DEF c1, c2, c3, c4, c5, c6
  <2>4. s = <<c1, c2, c3, c4, c5, c6>>
    <3>1. <<c1, c2>> \o <<c3, c4>> = <<c1, c2, c3, c4>>
      BY Join22
    <3>2. <<c1, c2, c3, c4>> \o <<c5, c6>> = <<c1, c2, c3, c4, c5, c6>>
      BY Join42
    <3> QED BY <2>1, <2>2, <3>1, <3>2
  <2>5. Len(s) = 6 /\ \A i \in 1 .. Len(s) : Plain(s[i])
    BY <2>3, <2>4
  <2> QED BY <2>5 DEF Plain, OpensKnown, ClosesOwn, Unshared
<1>7. CASE k = "host"
  <2> DEFINE c1 == Does("key", {}, {}, TRUE, "return")
             c2 == Does("dial", {"client"}, {"client"}, FALSE, "return")
             c3 == Does("session", {"session"}, {"session"}, FALSE, "return")
             c4 == Does("run", {}, {}, FALSE, "return")
             c5 == Asks("parse", TRUE)
             c6 == Export
             c7 == Asks("threshold", TRUE)
  <2>1. s = RunSSHCmd(FALSE, "return") \o <<c5, c6, c7>>
    BY <1>7 DEF ProbeScripts, Host
  <2>2. RunSSHCmd(FALSE, "return") = <<c1, c2>> \o <<c3, c4>>
    BY DEF RunSSHCmd, Client
  <2>3. /\ Plain(c1) /\ Plain(c2) /\ Plain(c3) /\ Plain(c4)
        /\ Plain(c5) /\ Plain(c6) /\ Plain(c7)
    BY PlainCalls DEF Export, CheckText
  <2> HIDE DEF c1, c2, c3, c4, c5, c6, c7
  <2>4. s = <<c1, c2, c3, c4, c5, c6, c7>>
    <3>1. <<c1, c2>> \o <<c3, c4>> = <<c1, c2, c3, c4>>
      BY Join22
    <3>2. <<c1, c2, c3, c4>> \o <<c5, c6, c7>> = <<c1, c2, c3, c4, c5, c6, c7>>
      BY Join43
    <3> QED BY <2>1, <2>2, <3>1, <3>2
  <2>5. Len(s) = 7 /\ \A i \in 1 .. Len(s) : Plain(s[i])
    BY <2>3, <2>4
  <2> QED BY <2>5 DEF Plain, OpensKnown, ClosesOwn, Unshared
<1>8. CASE k \in {"postgres", "postgresData", "postgresBrief", "postgresBriefData"}
  <2>1. CASE k = "postgres"
    <3>1. OpensKnown(s)
      BY <2>1 DEF OpensKnown, ProbeScripts, PostgreSQL, Verify,
             Opens, Asks, Does
    <3>2. ClosesOwn(s)
      BY <2>1 DEF ClosesOwn, ProbeScripts, PostgreSQL, Verify,
             Opens, Asks, Does
    <3>3. Unshared(s)
      BY <2>1 DEF Unshared, ProbeScripts, PostgreSQL, Verify,
             Opens, Asks, Does
    <3> QED BY <3>1, <3>2, <3>3
  <2>2. CASE k = "postgresData"
    <3>1. OpensKnown(s)
      BY <2>2 DEF OpensKnown, ProbeScripts, PostgreSQL, Verify,
             Opens, Asks, Does
    <3>2. ClosesOwn(s)
      BY <2>2 DEF ClosesOwn, ProbeScripts, PostgreSQL, Verify,
             Opens, Asks, Does
    <3>3. Unshared(s)
      BY <2>2 DEF Unshared, ProbeScripts, PostgreSQL, Verify,
             Opens, Asks, Does
    <3> QED BY <3>1, <3>2, <3>3
  <2>3. CASE k = "postgresBrief"
    <3>1. OpensKnown(s)
      BY <2>3 DEF OpensKnown, ProbeScripts, PostgreSQL, Verify,
             Opens, Asks, Does
    <3>2. ClosesOwn(s)
      BY <2>3 DEF ClosesOwn, ProbeScripts, PostgreSQL, Verify,
             Opens, Asks, Does
    <3>3. Unshared(s)
      BY <2>3 DEF Unshared, ProbeScripts, PostgreSQL, Verify,
             Opens, Asks, Does
    <3> QED BY <3>1, <3>2, <3>3
  <2>4. CASE k = "postgresBriefData"
    <3>1. OpensKnown(s)
      BY <2>4 DEF OpensKnown, ProbeScripts, PostgreSQL, Verify,
             Opens, Asks, Does
    <3>2. ClosesOwn(s)
      BY <2>4 DEF ClosesOwn, ProbeScripts, PostgreSQL, Verify,
             Opens, Asks, Does
    <3>3. Unshared(s)
      BY <2>4 DEF Unshared, ProbeScripts, PostgreSQL, Verify,
             Opens, Asks, Does
    <3> QED BY <3>1, <3>2, <3>3
  <2> QED BY <1>8, <2>1, <2>2, <2>3, <2>4
<1>9. CASE k \in {"mongo", "mongoData"}
  <2>1. CASE k = "mongo"
    <3>1. OpensKnown(s)
      BY <2>1 DEF OpensKnown, ProbeScripts, Mongo, Verify, Opens, Asks,
             Does
    <3>2. ClosesOwn(s)
      BY <2>1 DEF ClosesOwn, ProbeScripts, Mongo, Verify, Opens, Asks,
             Does
    <3>3. Unshared(s)
      BY <2>1 DEF Unshared, ProbeScripts, Mongo, Verify, Opens, Asks,
             Does
    <3> QED BY <3>1, <3>2, <3>3
  <2>2. CASE k = "mongoData"
    <3>1. OpensKnown(s)
      BY <2>2 DEF OpensKnown, ProbeScripts, Mongo, Verify, Opens, Asks,
             Does
    <3>2. ClosesOwn(s)
      BY <2>2 DEF ClosesOwn, ProbeScripts, Mongo, Verify, Opens, Asks,
             Does
    <3>3. Unshared(s)
      BY <2>2 DEF Unshared, ProbeScripts, Mongo, Verify, Opens, Asks,
             Does
    <3> QED BY <3>1, <3>2, <3>3
  <2> QED BY <1>9, <2>1, <2>2
<1>10. CASE k = "kafka"
  <2>1. OpensKnown(s)
    BY <1>10 DEF OpensKnown, ProbeScripts, Kafka, Opens, Asks, Does
  <2>2. ClosesOwn(s)
    BY <1>10 DEF ClosesOwn, ProbeScripts, Kafka, Opens, Asks, Does
  <2>3. Unshared(s)
    BY <1>10 DEF Unshared, ProbeScripts, Kafka, Opens, Asks, Does
  <2> QED BY <2>1, <2>2, <2>3
<1>11. CASE k \in {"redis", "redisData"}
  <2>1. CASE k = "redis"
    <3>1. OpensKnown(s)
      BY <2>1 DEF OpensKnown, ProbeScripts, Redis, Verify, Opens, Asks,
             Does
    <3>2. ClosesOwn(s)
      BY <2>1 DEF ClosesOwn, ProbeScripts, Redis, Verify, Opens, Asks,
             Does
    <3>3. Unshared(s)
      BY <2>1 DEF Unshared, ProbeScripts, Redis, Verify, Opens, Asks,
             Does
    <3> QED BY <3>1, <3>2, <3>3
  <2>2. CASE k = "redisData"
    <3>1. OpensKnown(s)
      BY <2>2 DEF OpensKnown, ProbeScripts, Redis, Verify, Opens, Asks,
             Does
    <3>2. ClosesOwn(s)
      BY <2>2 DEF ClosesOwn, ProbeScripts, Redis, Verify, Opens, Asks,
             Does
    <3>3. Unshared(s)
      BY <2>2 DEF Unshared, ProbeScripts, Redis, Verify, Opens, Asks,
             Does
    <3> QED BY <3>1, <3>2, <3>3
  <2> QED BY <1>11, <2>1, <2>2
<1>12. CASE k \in {"memcache", "memcacheData"}
  <2>1. CASE k = "memcache"
    <3>1. OpensKnown(s)
      BY <2>1 DEF OpensKnown, ProbeScripts, Memcache, Verify, Asks, Does
    <3>2. ClosesOwn(s)
      BY <2>1 DEF ClosesOwn, ProbeScripts, Memcache, Verify, Asks, Does
    <3>3. Unshared(s)
      BY <2>1 DEF Unshared, ProbeScripts, Memcache, Verify, Asks, Does
    <3> QED BY <3>1, <3>2, <3>3
  <2>2. CASE k = "memcacheData"
    <3>1. OpensKnown(s)
      BY <2>2 DEF OpensKnown, ProbeScripts, Memcache, Verify, Asks, Does
    <3>2. ClosesOwn(s)
      BY <2>2 DEF ClosesOwn, ProbeScripts, Memcache, Verify, Asks, Does
    <3>3. Unshared(s)
      BY <2>2 DEF Unshared, ProbeScripts, Memcache, Verify, Asks, Does
    <3> QED BY <3>1, <3>2, <3>3
  <2> QED BY <1>12, <2>1, <2>2
<1>13. CASE k \in {"zookeeper", "zookeeperData"}
  <2>1. CASE k = "zookeeper"
    <3>1. OpensKnown(s)
      BY <2>1 DEF OpensKnown, ProbeScripts, Zookeeper, Verify, Opens,
             Asks, Does
    <3>2. ClosesOwn(s)
      BY <2>1 DEF ClosesOwn, ProbeScripts, Zookeeper, Verify, Opens,
             Asks, Does
    <3>3. Unshared(s)
      BY <2>1 DEF Unshared, ProbeScripts, Zookeeper, Verify, Opens,
             Asks, Does
    <3> QED BY <3>1, <3>2, <3>3
  <2>2. CASE k = "zookeeperData"
    <3>1. OpensKnown(s)
      BY <2>2 DEF OpensKnown, ProbeScripts, Zookeeper, Verify, Opens,
             Asks, Does
    <3>2. ClosesOwn(s)
      BY <2>2 DEF ClosesOwn, ProbeScripts, Zookeeper, Verify, Opens,
             Asks, Does
    <3>3. Unshared(s)
      BY <2>2 DEF Unshared, ProbeScripts, Zookeeper, Verify, Opens,
             Asks, Does
    <3> QED BY <3>1, <3>2, <3>3
  <2> QED BY <1>13, <2>1, <2>2
<1>14. CASE k = "zookeeperTLS"
  <2>1. OpensKnown(s)
    BY <1>14 DEF OpensKnown, ProbeScripts, Zookeeper, Verify, Opens, Asks, Does
  <2>2. ClosesOwn(s)
    BY <1>14 DEF ClosesOwn, ProbeScripts, Zookeeper, Verify, Opens, Asks, Does
  <2>3. Unshared(s)
    BY <1>14 DEF Unshared, ProbeScripts, Zookeeper, Verify, Opens, Asks, Does
  <2> QED BY <2>1, <2>2, <2>3
<1> QED
  BY <1>1, <1>2, <1>3, <1>4, <1>5, <1>6, <1>7, <1>8, <1>9, <1>10, <1>11,
     <1>12, <1>13, <1>14, KindsAre
     DEF Bastions, Sharing

\* RunSSHCmd through a bastion, and what the SSH and the host probe add.
LEMMA BastionScripts ==
  ASSUME NEW k \in Bastions
  PROVE  LET s == ProbeScripts[k] IN
         /\ Len(s) \in Nat /\ Len(s) > 8 /\ Bastion(s[1], s[2], s[3], s[4], s[5])
         /\ \A i \in 6 .. Len(s) : Plain(s[i])
<1> DEFINE s == ProbeScripts[k]
<1>1. CASE k = "sshBastion"
  <2> DEFINE c1 == Does("bastion key", {}, {}, TRUE, "export")
             c2 == Does("bastion", {"bastion"}, {}, FALSE, "export")
             c3 == Does("key", {}, {}, TRUE, "export")
             c4 == Does("dial", {}, {}, FALSE, "export")
             c5 == Does("client", {"client"}, {"bastion", "client"}, FALSE, "export")
             c6 == Does("session", {"session"}, {"session"}, FALSE, "export")
             c7 == Does("run", {}, {}, FALSE, "export")
             c8 == CheckText
             c9 == Export
  <2>1. s = RunSSHCmd(TRUE, "export") \o <<c8, c9>>
    BY <1>1 DEF ProbeScripts, SSH
  <2>2. RunSSHCmd(TRUE, "export") = <<c1, c2, c3, c4, c5>> \o <<c6, c7>>
    BY DEF RunSSHCmd, BastionClient
  <2>3. /\ Plain(c6) /\ Plain(c7) /\ Plain(c8) /\ Plain(c9)
    BY PlainCalls DEF Export, CheckText, Connections
  <2>4. Bastion(c1, c2, c3, c4, c5)
    BY DEF Bastion, Does
  <2> HIDE DEF c1, c2, c3, c4, c5, c6, c7, c8, c9
  <2>5. s = <<c1, c2, c3, c4, c5, c6, c7, c8, c9>>
    <3>1. <<c1, c2, c3, c4, c5>> \o <<c6, c7>> = <<c1, c2, c3, c4, c5, c6, c7>>
      BY Join52
    <3>2. <<c1, c2, c3, c4, c5, c6, c7>> \o <<c8, c9>>
            = <<c1, c2, c3, c4, c5, c6, c7, c8, c9>>
      BY Join72
    <3> QED BY <2>1, <2>2, <3>1, <3>2
  <2>6. /\ Len(s) = 9 /\ Bastion(s[1], s[2], s[3], s[4], s[5])
        /\ \A i \in 6 .. Len(s) : Plain(s[i])
    BY <2>3, <2>4, <2>5
  <2> QED BY <2>6
<1>2. CASE k = "hostBastion"
  <2> DEFINE c1 == Does("bastion key", {}, {}, TRUE, "return")
             c2 == Does("bastion", {"bastion"}, {}, FALSE, "return")
             c3 == Does("key", {}, {}, TRUE, "return")
             c4 == Does("dial", {}, {}, FALSE, "return")
             c5 == Does("client", {"client"}, {"bastion", "client"}, FALSE, "return")
             c6 == Does("session", {"session"}, {"session"}, FALSE, "return")
             c7 == Does("run", {}, {}, FALSE, "return")
             c8 == Asks("parse", TRUE)
             c9 == Export
             c10 == Asks("threshold", TRUE)
  <2>1. s = RunSSHCmd(TRUE, "return") \o <<c8, c9, c10>>
    BY <1>2 DEF ProbeScripts, Host
  <2>2. RunSSHCmd(TRUE, "return") = <<c1, c2, c3, c4, c5>> \o <<c6, c7>>
    BY DEF RunSSHCmd, BastionClient
  <2>3. /\ Plain(c6) /\ Plain(c7) /\ Plain(c8) /\ Plain(c9)
        /\ Plain(c10)
    BY PlainCalls DEF Export, CheckText, Connections
  <2>4. Bastion(c1, c2, c3, c4, c5)
    BY DEF Bastion, Does
  <2> HIDE DEF c1, c2, c3, c4, c5, c6, c7, c8, c9, c10
  <2>5. s = <<c1, c2, c3, c4, c5, c6, c7, c8, c9, c10>>
    <3>1. <<c1, c2, c3, c4, c5>> \o <<c6, c7>> = <<c1, c2, c3, c4, c5, c6, c7>>
      BY Join52
    <3>2. <<c1, c2, c3, c4, c5, c6, c7>> \o <<c8, c9, c10>>
            = <<c1, c2, c3, c4, c5, c6, c7, c8, c9, c10>>
      BY Join73
    <3> QED BY <2>1, <2>2, <3>1, <3>2
  <2>6. /\ Len(s) = 10 /\ Bastion(s[1], s[2], s[3], s[4], s[5])
        /\ \A i \in 6 .. Len(s) : Plain(s[i])
    BY <2>3, <2>4, <2>5
  <2> QED BY <2>6
<1> QED BY <1>1, <1>2 DEF Bastions

\* The kinds that share their settings store them first.
LEMMA SharingScripts ==
  ASSUME NEW k \in Sharing
  PROVE  /\ OpensKnown(ProbeScripts[k]) /\ ClosesOwn(ProbeScripts[k])
         /\ Len(ProbeScripts[k]) > 1
         /\ \A i \in 1 .. Len(ProbeScripts[k]) :
              /\ ProbeScripts[k][i].name = "settings" <=> i = 1
              /\ ProbeScripts[k][i].name = "dialShared" => i = 2
<1> DEFINE s == ProbeScripts[k]
<1> USE DEF Connections, Collected
<1>1. CASE k = "websocket"
  <2>1. s = WebSocket
    BY <1>1 DEF ProbeScripts
  <2>2. OpensKnown(s) /\ Len(s) > 1
    BY <2>1 DEF OpensKnown, WebSocket, Settings, Opens, Asks, Does
  <2>3. ClosesOwn(s)
    BY <2>1 DEF ClosesOwn, WebSocket, Settings, Opens, Asks, Does
  <2>4. \A i \in 1 .. Len(s) : s[i].name = "settings" <=> i = 1
    BY <2>1 DEF WebSocket, Settings, Opens, Asks, Does
  <2>5. \A i \in 1 .. Len(s) : s[i].name = "dialShared" => i = 2
    BY <2>1 DEF WebSocket, Settings, Opens, Asks, Does
  <2> QED BY <2>2, <2>3, <2>4, <2>5
<1>2. CASE k \in {"mysql", "mysqlData"}
  <2> DEFINE c1 == Settings
             c2 == Opens("dialShared", "db", TRUE)
             c3 == Verify(FALSE)
             c4 == Asks("ping", FALSE)
             c5 == Asks("query", FALSE)
  <2>1. s = <<c1, c2>> \o <<c3>> \/ s = <<c1, c2>> \o <<c4, c5>>
    <3>1. /\ ProbeScripts["mysql"] = MySQL(FALSE)
          /\ ProbeScripts["mysqlData"] = MySQL(TRUE)
      BY DEF ProbeScripts
    <3>2. /\ MySQL(TRUE) = <<c1, c2>> \o <<c3>>
          /\ MySQL(FALSE) = <<c1, c2>> \o <<c4, c5>>
      BY DEF MySQL
    <3> QED BY <1>2, <3>1, <3>2
  <2>2. /\ Plain(c3) /\ Plain(c4) /\ Plain(c5)
        /\ c3.name = "verify" /\ c4.name = "ping" /\ c5.name = "query"
    BY DEF Plain, Verify, Asks, Does
  <2>3. /\ c1.opens = {} /\ c1.defers = {} /\ c1.name = "settings"
        /\ c2.opens = {"db"} /\ c2.defers = {"db"} /\ c2.name = "dialShared"
    BY DEF Settings, Opens, Asks, Does
  <2> HIDE DEF c1, c2, c3, c4, c5
  <2>4. s = <<c1, c2, c3>> \/ s = <<c1, c2, c4, c5>>
    BY <2>1, Join21, Join22
  <2>5. OpensKnown(s) /\ Len(s) > 1
    <3>1. /\ c1.opens \subseteq Connections /\ c2.opens \subseteq Connections
          /\ c3.opens \subseteq Connections /\ c4.opens \subseteq Connections
          /\ c5.opens \subseteq Connections
      BY <2>2, <2>3 DEF Plain
    <3> HIDE DEF Connections
    <3>2. \A i \in 1 .. Len(s) : s[i].opens \subseteq Connections
      BY <2>4, <3>1
    <3>3. Len(s) \in Nat \ {0} /\ Len(s) > 1
      BY <2>4
    <3> QED BY <3>2, <3>3 DEF OpensKnown
  <2>6. ClosesOwn(s)
    BY <2>2, <2>3, <2>4 DEF ClosesOwn, Plain
  <2>7. \A i \in 1 .. Len(s) : s[i].name = "settings" <=> i = 1
    BY <2>2, <2>3, <2>4
  <2>8. \A i \in 1 .. Len(s) : s[i].name = "dialShared" => i = 2
    BY <2>2, <2>3, <2>4
  <2> QED BY <2>5, <2>6, <2>7, <2>8
<1> QED BY <1>1, <1>2 DEF Sharing

LEMMA OrderlyScripts == \A k \in Kinds : Orderly(k, ProbeScripts[k])
<1> SUFFICES ASSUME NEW k \in Kinds PROVE Orderly(k, ProbeScripts[k])
  OBVIOUS
<1> DEFINE s == ProbeScripts[k]
<1>1. CASE k \in Bastions
  <2>1. /\ Len(s) \in Nat /\ Len(s) > 8 /\ Bastion(s[1], s[2], s[3], s[4], s[5])
        /\ \A i \in 6 .. Len(s) : Plain(s[i])
    BY <1>1, BastionScripts
  <2>2. ASSUME NEW i \in 1 .. Len(s)
        PROVE  /\ s[i].opens \subseteq Connections /\ s[i].defers \subseteq Connections
               /\ s[i].defers \subseteq s[i].opens \/ i = 5
               /\ s[i].opens \subseteq s[i].defers \cup Collected \/ i = 2
               /\ s[i].name \notin {"settings", "dialShared"}
    <3>1. i \in 1 .. 5 \/ i \in 6 .. Len(s)
      BY <2>1
    <3>2. CASE i \in 1 .. 5
      <4>1. i = 1 \/ i = 2 \/ i = 3 \/ i = 4 \/ i = 5
        BY <3>2
      <4>2. s[i].opens \subseteq Connections /\ s[i].defers \subseteq Connections
        BY <2>1, <4>1 DEF Bastion, Connections
      <4>3. /\ s[i].defers \subseteq s[i].opens \/ i = 5
            /\ s[i].opens \subseteq s[i].defers \cup Collected \/ i = 2
        BY <2>1, <4>1 DEF Bastion
      <4>4. s[i].name \notin {"settings", "dialShared"}
        BY <2>1, <4>1 DEF Bastion
      <4> QED BY <4>2, <4>3, <4>4
    <3>3. CASE i \in 6 .. Len(s)
      BY <2>1, <3>3 DEF Plain
    <3> QED BY <3>1, <3>2, <3>3
  <2>3. k \notin Sharing /\ Len(s) \in Nat \ {0}
    BY <1>1, <2>1 DEF Bastions, Sharing
  <2> QED BY <1>1, <2>2, <2>3 DEF Orderly
<1>2. CASE k \in Sharing
  BY <1>2, SharingScripts DEF Orderly, OpensKnown, ClosesOwn
<1>3. CASE k \notin Bastions \cup Sharing
  BY <1>3, PlainScripts DEF Orderly, OpensKnown, ClosesOwn, Unshared
<1> QED BY <1>1, <1>2, <1>3

-----------------------------------------------------------------------------
(***************************************************************************)
(* Types, the connections apart.                                           *)
(***************************************************************************)
ConfigTypes ==
  /\ kind \in Kinds /\ doc \in DocTypes \cup {"none"}
  /\ expr \in Expressions /\ owners \subseteq Probers

RoundTypes ==
  /\ pc \in [Probers -> Nat] /\ \A p \in Probers : pc[p] <= Len(Script) + 1
  /\ ok \in [Probers -> BOOLEAN]
  /\ open \in [Probers -> SUBSET Connections]
  /\ deferred \in [Probers -> SUBSET Connections]
  /\ lost \in [Probers -> SUBSET Connections]
  /\ DOMAIN failed = Probers /\ failed = [p \in Probers |-> failed[p]]
  /\ exported \in [Probers -> Codes] /\ unmeasured \in [Probers -> SUBSET Timings]

OtherTypes ==
  /\ alive \in BOOLEAN
  /\ sound \in [Probers -> BOOLEAN] /\ found \in [Probers -> SUBSET (Findings \cup {"no third field"})]
  /\ exit \in [Probers -> Codes] /\ ended \in [Probers -> Codes]
  /\ trace \in [Probers -> SUBSET Marks]
  /\ slot \in Probers \cup {Nobody} /\ since \in [Probers -> SUBSET Probers]
  /\ used \in [Probers -> Probers \cup {Nobody}]
  /\ reader \in [Probers -> {"none", "reads", "sends"}]
  /\ stuck \in [Probers -> Nat]

Typed == ConfigTypes /\ RoundTypes /\ OtherTypes

LEMMA ScriptLength ==
  ASSUME kind \in Kinds
  PROVE  /\ Len(Script) \in Nat \ {0} /\ Orderly(kind, Script)
         /\ \A p \in Probers : pc[p] \in 1 .. Len(Script) =>
              Now(p).opens \subseteq Connections /\ Now(p).defers \subseteq Connections
BY OrderlyScripts DEF Orderly, Script, Now

LEMMA ExportTypes ==
  ASSUME RoundTypes, NEW p \in Probers, ExportMetrics(p) \/ UNCHANGED metrics,
         exit' \in [Probers -> Codes], trace' \in [Probers -> SUBSET Marks]
  PROVE  exported' \in [Probers -> Codes] /\ unmeasured' \in [Probers -> SUBSET Timings]
<1>1. CASE UNCHANGED metrics
  BY <1>1 DEF metrics, RoundTypes
<1>2. CASE ExportMetrics(p)
  <2>1. (IF kind = "http" THEN Unmeasured(trace'[p]) ELSE {}) \in SUBSET Timings
    BY DEF Unmeasured, Timings
  <2> QED BY <1>2, <2>1 DEF ExportMetrics, RoundTypes
<1> QED BY <1>1, <1>2

LEMMA NotedMarks ==
  ASSUME NEW n, NEW b \in BOOLEAN, NEW t \in SUBSET Marks
  PROVE  Noted(n, b, t) \subseteq SUBSET Marks
<1>1. GotFirstResponseByte(t) \in SUBSET Marks
  BY DEF GotFirstResponseByte, Marks, Timings
<1>2. \A u \in SUBSET Marks : WroteRequest(u) \in SUBSET Marks /\ GetConn(u) \in SUBSET Marks
  BY DEF WroteRequest, GetConn, Marks, Timings
<1>3. n = "getConn" => Noted(n, b, t) \subseteq SUBSET Marks
  BY <1>2 DEF Noted
<1>4. n = "send" => Noted(n, b, t) \subseteq SUBSET Marks
  BY <1>1, <1>2 DEF Noted
<1>5. n = "wait" => Noted(n, b, t) \subseteq SUBSET Marks
  BY <1>1 DEF Noted
<1>6. n \notin {"getConn", "send", "wait"} => Noted(n, b, t) \subseteq SUBSET Marks
  BY DEF Noted
<1> QED BY <1>3, <1>4, <1>5, <1>6

\* A call that ends one way or the other keeps the types of the round.
LEMMA SucceedTypes ==
  ASSUME ConfigTypes, RoundTypes, UNCHANGED config, NEW p \in Probers, Calling(p),
         Succeed(p), exit' \in [Probers -> Codes], trace' \in [Probers -> SUBSET Marks]
  PROVE  RoundTypes'
<1>1. /\ Script' = Script /\ Len(Script) \in Nat \ {0}
      /\ pc[p] \in 1 .. Len(Script)
      /\ Now(p).opens \subseteq Connections /\ Now(p).defers \subseteq Connections
  BY ScriptLength DEF config, Script, ConfigTypes, Calling
<1>2. pc' \in [Probers -> Nat] /\ \A q \in Probers : pc'[q] <= Len(Script) + 1
  BY <1>1 DEF Succeed, RoundTypes
<1>3. /\ open' \in [Probers -> SUBSET Connections]
      /\ deferred' \in [Probers -> SUBSET Connections]
  BY <1>1 DEF Succeed, RoundTypes
<1>4. exported' \in [Probers -> Codes] /\ unmeasured' \in [Probers -> SUBSET Timings]
  BY ExportTypes DEF Succeed
<1> QED BY <1>1, <1>2, <1>3, <1>4 DEF Succeed, RoundTypes

LEMMA FailTypes ==
  ASSUME ConfigTypes, RoundTypes, UNCHANGED config, NEW p \in Probers, Calling(p),
         Fail(p), exit' \in [Probers -> Codes], trace' \in [Probers -> SUBSET Marks]
  PROVE  RoundTypes'
<1>1. /\ Script' = Script /\ Len(Script) \in Nat \ {0}
      /\ pc[p] \in 1 .. Len(Script)
  BY ScriptLength DEF config, Script, ConfigTypes, Calling
<1>2. pc' \in [Probers -> Nat] /\ \A q \in Probers : pc'[q] <= Len(Script) + 1
  BY <1>1 DEF Fail, RoundTypes
<1>3. exported' \in [Probers -> Codes] /\ unmeasured' \in [Probers -> SUBSET Timings]
  BY ExportTypes DEF Fail
<1>4. ok' \in [Probers -> BOOLEAN]
  BY DEF Fail, RoundTypes
<1>5. DOMAIN failed' = Probers /\ failed' = [q \in Probers |-> failed'[q]]
  BY DEF Fail, RoundTypes
<1> QED BY <1>1, <1>2, <1>3, <1>4, <1>5 DEF Fail, RoundTypes, conns

LEMMA TypedInit == Init => Typed
<1> SUFFICES ASSUME Init PROVE Typed
  OBVIOUS
<1> USE DEF Init
<1>1. ConfigTypes
  BY DEF ConfigTypes, DocTypes
<1>2. RoundTypes
  <2>1. Len(Script) \in Nat \ {0}
    BY ScriptLength
  <2> QED BY <2>1 DEF RoundTypes, Codes, NoCode
<1>3. OtherTypes
  BY DEF OtherTypes, Codes, NoCode
<1> QED BY <1>1, <1>2, <1>3 DEF Typed

LEMMA TypedNext == Typed /\ [Next]_vars => Typed'
<1> SUFFICES ASSUME Typed, [Next]_vars PROVE Typed'
  OBVIOUS
<1> USE DEF Typed
<1>1. UNCHANGED config => ConfigTypes'
  BY DEF config, ConfigTypes
<1>2. CASE UNCHANGED vars
  <2>1. ConfigTypes'
    BY <1>1, <1>2 DEF vars
  <2>2. RoundTypes'
    BY <1>2 DEF vars, RoundTypes, config, conns, metrics, Script
  <2>3. OtherTypes'
    BY <1>2 DEF vars, OtherTypes, evidence, codes, settings, readers
  <2> QED BY <2>1, <2>2, <2>3
<1>3. ASSUME NEW p \in Probers, Begin(p) PROVE Typed'
  <2>1. UNCHANGED config
    BY <1>3 DEF Begin
  <2>2. RoundTypes'
    <3>1. Script' = Script /\ Len(Script) \in Nat \ {0}
      BY <2>1, ScriptLength DEF config, Script, ConfigTypes
    <3>2. pc' \in [Probers -> Nat] /\ \A q \in Probers : pc'[q] <= Len(Script) + 1
      BY <1>3, <3>1 DEF Begin, RoundTypes
    <3>3. /\ ok' \in [Probers -> BOOLEAN] /\ lost' \in [Probers -> SUBSET Connections]
          /\ exported' \in [Probers -> Codes]
          /\ unmeasured' \in [Probers -> SUBSET Timings]
      BY <1>3 DEF Begin, RoundTypes, Codes, NoCode
    <3>4. DOMAIN failed' = Probers /\ failed' = [q \in Probers |-> failed'[q]]
      BY <1>3 DEF Begin, RoundTypes
    <3> QED BY <1>3, <3>1, <3>2, <3>3, <3>4 DEF Begin, RoundTypes
  <2>3. OtherTypes'
    BY <1>3 DEF Begin, OtherTypes, NewTraceStats, Codes, NoCode, readers
  <2> QED BY <1>1, <2>1, <2>2, <2>3
<1>4. ASSUME NEW p \in Probers, Answer(p) PROVE Typed'
  <2>1. UNCHANGED config /\ Calling(p) /\ (Succeed(p) \/ Fail(p))
    BY <1>4 DEF Answer
  <2>2. OtherTypes'
    <3>1. PICK t : trace' = [trace EXCEPT ![p] = t] /\ t \in SUBSET Marks
      <4>1. PICK b \in BOOLEAN : \E t \in Noted(Now(p).name, b, trace[p]) :
              trace' = [trace EXCEPT ![p] = t]
        BY <1>4 DEF Answer
      <4>2. trace[p] \in SUBSET Marks
        BY DEF OtherTypes
      <4>3. Noted(Now(p).name, b, trace[p]) \subseteq SUBSET Marks
        BY <4>2, NotedMarks
      <4>4. PICK t \in Noted(Now(p).name, b, trace[p]) : trace' = [trace EXCEPT ![p] = t]
        BY <4>1
      <4>5. t \in SUBSET Marks
        BY <4>3
      <4> QED BY <4>4, <4>5
    <3>2. sound' = sound
      BY <1>4 DEF Answer, Fail
    <3>3. trace' \in [Probers -> SUBSET Marks]
      BY <3>1 DEF OtherTypes
    <3> QED BY <1>4, <3>2, <3>3 DEF Answer, OtherTypes, settings, readers
  <2>3. RoundTypes'
    BY <2>1, <2>2, SucceedTypes, FailTypes DEF OtherTypes
  <2> QED BY <1>1, <2>1, <2>2, <2>3
<1>4a. ASSUME NEW p \in Probers, Redirect(p) PROVE Typed'
  <2>1. UNCHANGED config /\ Calling(p)
    BY <1>4a DEF Redirect, In
  <2>2. OtherTypes'
    <3>1. (GotFirstResponseByte(trace[p]) \ {"byte"}) \cup {"redirected"} \in SUBSET Marks
      BY DEF GotFirstResponseByte, Marks, Timings, OtherTypes
    <3>2. trace' = [trace EXCEPT ![p] =
                      (GotFirstResponseByte(trace[p]) \ {"byte"}) \cup {"redirected"}]
      BY <1>4a DEF Redirect
    <3>3. trace' \in [Probers -> SUBSET Marks]
      BY <3>1, <3>2 DEF OtherTypes
    <3> QED BY <1>4a, <3>3 DEF Redirect, OtherTypes, evidence, codes, settings, readers
  <2>3. RoundTypes'
    <3>1. Script' = Script /\ Len(Script) \in Nat \ {0}
      BY <2>1, ScriptLength DEF config, Script, ConfigTypes
    <3>2. 2 <= Len(Script) + 1
      BY <3>1
    <3>3. pc' \in [Probers -> Nat] /\ \A q \in Probers : pc'[q] <= Len(Script) + 1
      BY <1>4a, <3>2 DEF Redirect, RoundTypes
    <3> QED BY <1>4a, <3>1, <3>3 DEF Redirect, RoundTypes, conns, metrics
  <2> QED BY <1>1, <2>1, <2>2, <2>3
<1>5. ASSUME NEW p \in Probers, StoreSettings(p) PROVE Typed'
  <2>1. UNCHANGED config /\ Calling(p) /\ Succeed(p)
    BY <1>5 DEF StoreSettings, In
  <2>2. OtherTypes'
    BY <1>5 DEF StoreSettings, Store, OtherTypes, evidence, readers
  <2>3. RoundTypes'
    BY <2>1, <2>2, SucceedTypes DEF OtherTypes
  <2> QED BY <1>1, <2>1, <2>2, <2>3
<1>6. ASSUME NEW p \in Probers, DialShared(p) PROVE Typed'
  <2>1. UNCHANGED config /\ Calling(p) /\ (Succeed(p) \/ Fail(p))
    BY <1>6 DEF DialShared, In
  <2>2. OtherTypes'
    <3>1. sound' = sound
      BY <1>6 DEF DialShared, Fail
    <3>2. used' \in [Probers -> Probers \cup {Nobody}]
      BY <1>6 DEF DialShared, OtherTypes
    <3>3. reader' \in [Probers -> {"none", "reads", "sends"}]
      BY <1>6 DEF DialShared, OtherTypes
    <3>4. UNCHANGED <<alive, found, exit, ended, trace, slot, since, stuck>>
      BY <1>6 DEF DialShared
    <3> QED BY <3>1, <3>2, <3>3, <3>4 DEF OtherTypes
  <2>3. RoundTypes'
    BY <2>1, <2>2, SucceedTypes, FailTypes DEF OtherTypes
  <2> QED BY <1>1, <2>1, <2>2, <2>3
<1>7. ASSUME NEW p \in Probers, PongArrives(p) PROVE Typed'
  <2>1. RoundTypes'
    BY <1>7 DEF PongArrives, RoundTypes, conns, metrics, config, Script
  <2>2. OtherTypes'
    BY <1>7 DEF PongArrives, OtherTypes, evidence, codes, settings
  <2> QED BY <1>1, <1>7, <2>1, <2>2 DEF PongArrives
<1>8. ASSUME NEW p \in Probers, AwaitPong(p) PROVE Typed'
  <2>1. UNCHANGED config /\ Calling(p) /\ (Succeed(p) \/ Fail(p))
    BY <1>8 DEF AwaitPong, In
  <2>2. OtherTypes'
    <3>1. sound' \in [Probers -> BOOLEAN]
      BY <1>8 DEF AwaitPong, Fail, OtherTypes
    <3> QED BY <1>8, <3>1 DEF AwaitPong, OtherTypes, settings
  <2>3. RoundTypes'
    BY <2>1, <2>2, SucceedTypes, FailTypes DEF OtherTypes
  <2> QED BY <1>1, <2>1, <2>2, <2>3
<1>9. ASSUME NEW p \in Probers, RunCommand(p) PROVE Typed'
  <2>1. UNCHANGED config /\ Calling(p) /\ (Succeed(p) \/ Fail(p))
    BY <1>9 DEF RunCommand, In
  <2>2. OtherTypes'
    <3>1. PICK code \in Codes : /\ ended' = [ended EXCEPT ![p] = code]
                                /\ exit' = [exit EXCEPT ![p] = ExitCode(p, code)]
      BY <1>9 DEF RunCommand
    <3>2. ExitCode(p, code) \in Codes
      BY DEF ExitCode, Codes, NoCode, OtherTypes
    <3>3. sound' = sound
      BY <1>9 DEF RunCommand, Fail
    <3>4. exit' \in [Probers -> Codes] /\ ended' \in [Probers -> Codes]
      BY <3>1, <3>2 DEF OtherTypes
    <3> QED BY <1>9, <3>3, <3>4 DEF RunCommand, OtherTypes, settings, readers
  <2>3. RoundTypes'
    BY <2>1, <2>2, SucceedTypes, FailTypes DEF OtherTypes
  <2> QED BY <1>1, <2>1, <2>2, <2>3
<1>10. ASSUME NEW p \in Probers, VerifyData(p) PROVE Typed'
  <2>1. UNCHANGED config /\ Calling(p) /\ (Succeed(p) \/ Fail(p))
    BY <1>10 DEF VerifyData, In
  <2>2. OtherTypes'
    <3>1. sound' \in [Probers -> BOOLEAN]
      <4>1. CASE Fail(p)
        BY <4>1 DEF Fail, OtherTypes
      <4>2. ASSUME NEW a, sound' = [sound EXCEPT ![p] = @ /\ Holds(a)]
            PROVE  sound' \in [Probers -> BOOLEAN]
        <5>1. Holds(a) \in BOOLEAN
          BY DEF Holds
        <5> QED BY <4>2, <5>1 DEF OtherTypes
      <4> QED BY <1>10, <4>1, <4>2 DEF VerifyData
    <3> QED BY <1>10, <3>1 DEF VerifyData, OtherTypes, settings, readers
  <2>3. RoundTypes'
    BY <2>1, <2>2, SucceedTypes, FailTypes DEF OtherTypes
  <2> QED BY <1>1, <2>1, <2>2, <2>3
<1>11. ASSUME NEW p \in Probers, ParseOutput(p) PROVE Typed'
  <2>1. /\ UNCHANGED config /\ Calling(p) /\ exit' \in [Probers -> Codes]
        /\ trace' \in [Probers -> SUBSET Marks]
    BY <1>11 DEF ParseOutput, In, OtherTypes
  <2>2. \/ Succeed(p) /\ UNCHANGED <<alive, found>> /\ sound' \in [Probers -> BOOLEAN]
        \/ Fail(p) /\ UNCHANGED <<alive, found>>
        \/ Panic(p) /\ \E x \in {found[p], {"no third field"}} :
                         found' = [found EXCEPT ![p] = x]
    <3>1. ASSUME NEW l, sound' = [sound EXCEPT ![p] =
                                    @ /\ (OwnLines(l, Mounts) \/ Surplus(l))]
          PROVE  sound' \in [Probers -> BOOLEAN]
      BY <3>1 DEF OtherTypes
    <3> QED BY <1>11, <3>1 DEF ParseOutput
  <2>3. alive' \in BOOLEAN /\ sound' \in [Probers -> BOOLEAN]
    BY <2>2 DEF OtherTypes, Panic, Fail
  <2>4. found' \in [Probers -> SUBSET (Findings \cup {"no third field"})]
    BY <2>2 DEF OtherTypes
  <2>5. OtherTypes'
    BY <1>11, <2>3, <2>4 DEF ParseOutput, OtherTypes, settings, readers
  <2>6. RoundTypes'
    <3>1. CASE Panic(p)
      BY <2>1, <3>1 DEF Panic, RoundTypes, conns, metrics, config, Script
    <3> QED BY <2>1, <2>2, <3>1, SucceedTypes, FailTypes
  <2> QED BY <1>1, <2>1, <2>5, <2>6
<1>12. ASSUME NEW p \in Probers, EvaluateResponse(p) PROVE Typed'
  <2>1. UNCHANGED config /\ exit' \in [Probers -> Codes]
        /\ trace' \in [Probers -> SUBSET Marks]
    BY <1>12 DEF EvaluateResponse, OtherTypes
  <2>2. CASE doc = "none"
    <3>1. Calling(p) /\ Succeed(p) /\ UNCHANGED <<alive, sound, found>>
      BY <1>12, <2>2 DEF EvaluateResponse, evidence, In
    <3>2. OtherTypes'
      BY <1>12, <3>1 DEF EvaluateResponse, OtherTypes, settings, readers
    <3> QED BY <1>1, <2>1, <3>1, <3>2, SucceedTypes
  <2>3. CASE doc # "none"
    <3>1. PICK v \in [DOMAIN expr.variables -> Findings],
               f \in [DOMAIN expr.functions -> Findings],
               reached \in 0 .. Len(expr.functions) :
            /\ found' = [found EXCEPT ![p] = Range(v) \cup { f[i] : i \in 1 .. reached }]
            /\ Evaluated(p, Evaluate(doc, expr.variables, expr.functions, v, f, reached),
                 \A i \in DOMAIN v : ExtractValue(doc, expr.variables[i], v[i]) = "value")
      BY <1>12, <2>3 DEF EvaluateResponse
    <3>2. Calling(p)
      BY <1>12 DEF EvaluateResponse, In
    <3>3. \/ Panic(p)
          \/ Fail(p) /\ UNCHANGED alive
          \/ /\ Succeed(p) /\ UNCHANGED alive
             /\ \E sane \in BOOLEAN : sound' = [sound EXCEPT ![p] = @ /\ sane]
      BY <3>1 DEF Evaluated
    <3>4. /\ alive' \in BOOLEAN /\ sound' \in [Probers -> BOOLEAN]
      BY <3>3 DEF OtherTypes, Panic, Fail
    <3>5. found' \in [Probers -> SUBSET (Findings \cup {"no third field"})]
      <4>1. \A i \in 1 .. reached : i \in DOMAIN expr.functions
        BY ProbesAssumption DEF ConfigTypes
      <4>2. Range(v) \cup { f[i] : i \in 1 .. reached } \subseteq Findings
        BY <4>1 DEF Range
      <4> QED BY <3>1, <4>2 DEF OtherTypes
    <3>6. OtherTypes'
      BY <1>12, <3>4, <3>5 DEF EvaluateResponse, OtherTypes, settings, readers
    <3>7. RoundTypes'
      <4>1. CASE Panic(p)
        BY <2>1, <4>1 DEF Panic, RoundTypes, conns, metrics, config, Script
      <4> QED BY <2>1, <3>2, <3>3, <4>1, SucceedTypes, FailTypes
    <3> QED BY <1>1, <2>1, <3>6, <3>7
  <2> QED BY <2>2, <2>3
<1>13. ASSUME NEW p \in Probers, Return(p) PROVE Typed'
  <2>1. UNCHANGED config
    BY <1>13 DEF Return
  <2>2. RoundTypes'
    <3>1. Script' = Script /\ Len(Script) \in Nat \ {0}
      BY <2>1, ScriptLength DEF config, Script, ConfigTypes
    <3>2. pc' \in [Probers -> Nat] /\ \A q \in Probers : pc'[q] <= Len(Script) + 1
      BY <1>13, <3>1 DEF Return, RoundTypes
    <3>3. /\ lost' \in [Probers -> SUBSET Connections]
          /\ open' \in [Probers -> SUBSET Connections]
          /\ deferred' \in [Probers -> SUBSET Connections]
      BY <1>13 DEF Return, RoundTypes
    <3> QED BY <1>13, <3>1, <3>2, <3>3 DEF Return, RoundTypes, metrics
  <2>3. OtherTypes'
    <3>1. reader' \in [Probers -> {"none", "reads", "sends"}]
      BY <1>13 DEF Return, OtherTypes
    <3>2. stuck' \in [Probers -> Nat]
      <4>1. stuck' = [stuck EXCEPT ![p] = @ + 1] \/ stuck' = stuck
        BY <1>13 DEF Return
      <4>2. stuck \in [Probers -> Nat]
        BY DEF OtherTypes
      <4> QED BY <4>1, <4>2
    <3>3. UNCHANGED <<alive, sound, found, exit, ended, trace, slot, since, used>>
      BY <1>13 DEF Return, evidence, codes, settings
    <3> QED BY <3>1, <3>2, <3>3 DEF OtherTypes
  <2> QED BY <1>1, <2>1, <2>2, <2>3
<1> QED
  BY <1>2, <1>3, <1>4, <1>4a, <1>5, <1>6, <1>7, <1>8, <1>9, <1>10, <1>11, <1>12, <1>13
  DEF Next, Step

-----------------------------------------------------------------------------
(***************************************************************************)
(* The connections of a round.  What is open and not deferred is, but for  *)
(* the pool, the bastion alone, from its dial to the client made through   *)
(* it: there the kind's calls are known one by one.                        *)
(***************************************************************************)
Left(p) == open[p] \ (deferred[p] \cup Collected)

OpenInv ==
  \A p \in Probers :
    /\ deferred[p] \subseteq open[p]
    /\ pc[p] = 0 => open[p] = {}
    /\ kind \in Bastions /\ pc[p] \in 1 .. 5 => failed[p] = {}
    /\ kind \in Bastions /\ pc[p] \in 3 .. 5 => "bastion" \in open[p]
    /\ Left(p) # {} =>
         /\ Left(p) = {"bastion"} /\ kind \in Bastions
         /\ failed[p] \subseteq {"key", "dial", "client"}
         /\ pc[p] \in 3 .. 5 \/ pc[p] = Len(Script) + 1

LossInv ==
  \A p \in Probers :
    /\ lost[p] \cap Collected = {}
    /\ lost[p] # {} =>
         /\ lost[p] = {"bastion"} /\ kind \in Bastions
         /\ failed[p] \subseteq {"key", "dial", "client"}
         /\ pc[p] = 0

ConnInv == OpenInv /\ LossInv

\* What a step does to the calls and the connections of the rounds.
Begins(p) ==
  /\ pc[p] = 0 /\ pc' = [pc EXCEPT ![p] = 1]
  /\ lost' = [lost EXCEPT ![p] = {}] /\ failed' = [failed EXCEPT ![p] = {}]
  /\ UNCHANGED <<open, deferred>>

Returns(p) ==
  /\ pc[p] = Len(Script) + 1 /\ pc' = [pc EXCEPT ![p] = 0]
  /\ lost' = [lost EXCEPT ![p] = Left(p)]
  /\ open' = [open EXCEPT ![p] = {}] /\ deferred' = [deferred EXCEPT ![p] = {}]
  /\ UNCHANGED failed

Redirects(p) ==
  /\ kind = "http" /\ Calling(p) /\ pc' = [pc EXCEPT ![p] = 2]
  /\ UNCHANGED <<conns, failed>>

LEMMA StepKinds ==
  ASSUME [Next]_vars
  PROVE  /\ UNCHANGED config
         /\ \/ UNCHANGED <<pc, conns, failed>>
            \/ \E p \in Probers :
                 \/ Begins(p) \/ Returns(p) \/ Redirects(p)
                 \/ Calling(p) /\ (Succeed(p) \/ Fail(p))
<1>1. CASE UNCHANGED vars
  BY <1>1 DEF vars
<1>2. ASSUME NEW p \in Probers, Begin(p) PROVE UNCHANGED config /\ Begins(p)
  BY <1>2 DEF Begin, Begins
<1>3. ASSUME NEW p \in Probers, Return(p) PROVE UNCHANGED config /\ Returns(p)
  BY <1>3 DEF Return, Returns, Left
<1>4. ASSUME NEW p \in Probers, PongArrives(p)
      PROVE  UNCHANGED config /\ UNCHANGED <<pc, conns, failed>>
  BY <1>4 DEF PongArrives
<1>5. ASSUME NEW p \in Probers, EvaluateResponse(p) \/ ParseOutput(p)
      PROVE  /\ UNCHANGED config
             /\ \/ UNCHANGED <<pc, conns, failed>>
                \/ Calling(p) /\ (Succeed(p) \/ Fail(p))
  BY <1>5 DEF EvaluateResponse, ParseOutput, Evaluated, Panic, In
<1>6. ASSUME NEW p \in Probers,
             \/ Answer(p) \/ StoreSettings(p) \/ DialShared(p) \/ AwaitPong(p)
             \/ RunCommand(p) \/ VerifyData(p)
      PROVE  UNCHANGED config /\ Calling(p) /\ (Succeed(p) \/ Fail(p))
  BY <1>6 DEF Answer, StoreSettings, DialShared, AwaitPong, RunCommand, VerifyData, In
<1>7. ASSUME NEW p \in Probers, Redirect(p) PROVE UNCHANGED config /\ Redirects(p)
  BY <1>7 DEF Redirect, Redirects, In
<1> QED BY <1>1, <1>2, <1>3, <1>4, <1>5, <1>6, <1>7 DEF Next, Step

\* The call a prober of a bastion's kind is in, by its number.
LEMMA BastionCall ==
  ASSUME kind \in Bastions, NEW p \in Probers
  PROVE  /\ Len(Script) \in Nat /\ Len(Script) > 8
         /\ pc[p] \in {1, 3, 4} => Now(p).opens = {} /\ Now(p).defers = {}
         /\ pc[p] = 2 => Now(p).opens = {"bastion"} /\ Now(p).defers = {}
         /\ pc[p] = 5 =>
              Now(p).opens = {"client"} /\ Now(p).defers = {"bastion", "client"}
         /\ pc[p] \in 3 .. 5 => Now(p).name \in {"key", "dial", "client"}
         /\ pc[p] \in 1 .. 5 => Now(p).onError # "goOn"
         /\ pc[p] \in 6 .. Len(Script) =>
              /\ Now(p).defers \subseteq Now(p).opens
              /\ Now(p).opens \subseteq Now(p).defers \cup Collected
<1>1. /\ Len(Script) \in Nat /\ Len(Script) > 8
      /\ Bastion(Script[1], Script[2], Script[3], Script[4], Script[5])
      /\ \A i \in 6 .. Len(Script) : Plain(Script[i])
  BY BastionScripts DEF Script
<1>2. pc[p] \in 1 .. 5 => \/ pc[p] = 1 \/ pc[p] = 2 \/ pc[p] = 3 \/ pc[p] = 4
                          \/ pc[p] = 5
  OBVIOUS
<1>3. pc[p] \in {1, 3, 4} => Now(p).opens = {} /\ Now(p).defers = {}
  BY <1>1 DEF Now, Bastion
<1>4. /\ pc[p] = 2 => Now(p).opens = {"bastion"} /\ Now(p).defers = {}
      /\ pc[p] = 5 =>
           Now(p).opens = {"client"} /\ Now(p).defers = {"bastion", "client"}
  BY <1>1 DEF Now, Bastion
<1>5. /\ pc[p] \in 3 .. 5 => Now(p).name \in {"key", "dial", "client"}
      /\ pc[p] \in 1 .. 5 => Now(p).onError # "goOn"
  <2>1. pc[p] \in 3 .. 5 => pc[p] = 3 \/ pc[p] = 4 \/ pc[p] = 5
    OBVIOUS
  <2>2. pc[p] \in 3 .. 5 => Now(p).name \in {"key", "dial", "client"}
    BY <1>1, <2>1 DEF Now, Bastion
  <2>3. pc[p] \in 1 .. 5 => Now(p).onError # "goOn"
    BY <1>1, <1>2 DEF Now, Bastion
  <2> QED BY <2>2, <2>3
<1>6. pc[p] \in 6 .. Len(Script) =>
        /\ Now(p).defers \subseteq Now(p).opens
        /\ Now(p).opens \subseteq Now(p).defers \cup Collected
  BY <1>1 DEF Now, Plain
<1> QED BY <1>1, <1>3, <1>4, <1>5, <1>6

\* Any other kind closes what it opens.
LEMMA PlainCall ==
  ASSUME kind \in Kinds \ Bastions, NEW p \in Probers, Calling(p)
  PROVE  /\ Now(p).defers \subseteq Now(p).opens
         /\ Now(p).opens \subseteq Now(p).defers \cup Collected
BY OrderlyScripts DEF Orderly, Now, Script, Calling

LEMMA OpenNext == Typed /\ OpenInv /\ [Next]_vars => OpenInv'
<1> SUFFICES ASSUME Typed, OpenInv, [Next]_vars PROVE OpenInv'
  OBVIOUS
<1>0. /\ kind' = kind /\ Script' = Script /\ kind \in Kinds
      /\ Len(Script) \in Nat \ {0}
  BY StepKinds, ScriptLength DEF config, Script, Typed, ConfigTypes
<1>1. CASE UNCHANGED <<pc, conns, failed>>
  BY <1>0, <1>1 DEF OpenInv, Left, conns
<1>2. ASSUME NEW p \in Probers, Begins(p) PROVE OpenInv'
  <2>1. Left(p) = {} /\ open[p] = {} /\ deferred[p] = {}
    BY <1>2 DEF Begins, OpenInv, Left
  <2>2. \A q \in Probers : q # p => /\ pc'[q] = pc[q] /\ failed'[q] = failed[q]
                                    /\ open'[q] = open[q] /\ deferred'[q] = deferred[q]
    BY <1>2 DEF Begins, Typed, RoundTypes
  <2>3. /\ pc'[p] = 1 /\ failed'[p] = {} /\ open'[p] = {} /\ deferred'[p] = {}
    BY <1>2, <2>1 DEF Begins, Typed, RoundTypes
  <2> QED BY <1>0, <2>2, <2>3 DEF OpenInv, Left
<1>3. ASSUME NEW p \in Probers, Returns(p) PROVE OpenInv'
  <2>1. \A q \in Probers : q # p => /\ pc'[q] = pc[q] /\ failed'[q] = failed[q]
                                    /\ open'[q] = open[q] /\ deferred'[q] = deferred[q]
    BY <1>3 DEF Returns, Typed, RoundTypes
  <2>2. /\ pc'[p] = 0 /\ open'[p] = {} /\ deferred'[p] = {}
    BY <1>3 DEF Returns, Typed, RoundTypes
  <2> QED BY <1>0, <2>1, <2>2 DEF OpenInv, Left
<1>4. ASSUME NEW p \in Probers, Calling(p), Succeed(p) PROVE OpenInv'
  <2>1. \A q \in Probers : q # p => /\ pc'[q] = pc[q] /\ failed'[q] = failed[q]
                                    /\ open'[q] = open[q] /\ deferred'[q] = deferred[q]
    BY <1>4 DEF Succeed, Typed, RoundTypes
  <2>2. /\ pc'[p] = pc[p] + 1 /\ failed'[p] = failed[p]
        /\ open'[p] = open[p] \cup Now(p).opens
        /\ deferred'[p] = deferred[p] \cup Now(p).defers
        /\ pc[p] \in Nat /\ pc[p] >= 1 /\ pc[p] <= Len(Script)
    BY <1>0, <1>4 DEF Succeed, Typed, RoundTypes, Calling
  <2>3. CASE kind \notin Bastions
    <3>1. deferred'[p] \subseteq open'[p] /\ Left(p)' \subseteq Left(p)
      BY <1>0, <1>4, <2>2, <2>3, PlainCall DEF OpenInv, Left
    <3>2. Left(p)' = {}
      BY <2>3, <3>1 DEF OpenInv
    <3> QED BY <1>0, <2>1, <2>2, <2>3, <3>1, <3>2 DEF OpenInv, Left
  <2>4. CASE kind \in Bastions
    <3>1. deferred'[p] \subseteq open'[p]
      <4>1. CASE pc[p] = 5
        BY <2>2, <2>4, <4>1, BastionCall DEF OpenInv
      <4>2. CASE pc[p] # 5
        <5>1. Now(p).defers \subseteq Now(p).opens
          <6>1. pc[p] \in {1, 3, 4} \/ pc[p] = 2 \/ pc[p] \in 6 .. Len(Script)
            BY <1>0, <2>2, <4>2
          <6> QED BY <2>4, <6>1, BastionCall
        <5> QED BY <2>2, <5>1 DEF OpenInv
      <4> QED BY <4>1, <4>2
    <3>2. CASE pc[p] \in {1, 3, 4}
      <4>1. open'[p] = open[p] /\ deferred'[p] = deferred[p]
        BY <2>2, <2>4, <3>2, BastionCall
      <4>2. Left(p)' = Left(p)
        BY <4>1 DEF Left
      <4>3. Left(p) # {} => pc[p] \in {3, 4}
        BY <2>2, <3>2 DEF OpenInv
      <4> QED BY <1>0, <2>1, <2>2, <2>4, <3>1, <3>2, <4>1, <4>2, <4>3
              DEF OpenInv, Left
    <3>3. CASE pc[p] = 2
      <4>1. Left(p) = {} /\ failed[p] = {}
        BY <1>0, <2>2, <2>4, <3>3 DEF OpenInv
      <4>2. "bastion" \in open'[p] /\ Left(p)' \subseteq {"bastion"}
        BY <2>2, <2>4, <3>3, <4>1, BastionCall DEF Left
      <4> QED BY <1>0, <2>1, <2>2, <2>4, <3>1, <3>3, <4>1, <4>2 DEF OpenInv, Left
    <3>4. CASE pc[p] = 5
      <4>1. Left(p) \subseteq {"bastion"}
        BY DEF OpenInv
      <4>2. Left(p)' = {}
        BY <2>2, <2>4, <3>4, <4>1, BastionCall DEF Left
      <4> QED BY <1>0, <2>1, <2>2, <2>4, <3>1, <3>4, <4>2 DEF OpenInv, Left
    <3>5. CASE pc[p] \in 6 .. Len(Script)
      <4>1. Left(p) = {}
        BY <1>0, <3>5 DEF OpenInv
      <4>2. Left(p)' = {}
        BY <2>2, <2>4, <3>5, <4>1, BastionCall DEF Left
      <4> QED BY <1>0, <2>1, <2>2, <2>4, <3>1, <3>5, <4>2 DEF OpenInv, Left
    <3> QED BY <1>0, <2>2, <3>2, <3>3, <3>4, <3>5
  <2> QED BY <2>3, <2>4
<1>5. ASSUME NEW p \in Probers, Calling(p), Fail(p) PROVE OpenInv'
  <2>1. \A q \in Probers : q # p => /\ pc'[q] = pc[q] /\ failed'[q] = failed[q]
                                    /\ open'[q] = open[q] /\ deferred'[q] = deferred[q]
    BY <1>5 DEF Fail, Typed, RoundTypes, conns
  <2>2. /\ failed'[p] = failed[p] \cup {Now(p).name}
        /\ open'[p] = open[p] /\ deferred'[p] = deferred[p]
        /\ pc[p] \in Nat /\ pc[p] >= 1 /\ pc[p] <= Len(Script)
        /\ pc'[p] = IF Now(p).onError = "goOn" THEN pc[p] + 1 ELSE Len(Script) + 1
    BY <1>0, <1>5 DEF Fail, Typed, RoundTypes, Calling, conns
  <2>3. Left(p)' = Left(p)
    BY <2>2 DEF Left
  <2>4. CASE kind \notin Bastions
    BY <1>0, <2>1, <2>2, <2>3, <2>4 DEF OpenInv, Left
  <2>5. CASE kind \in Bastions
    <3>1. CASE pc[p] \in 1 .. 5
      <4>1. failed[p] = {} /\ pc'[p] = Len(Script) + 1 /\ Len(Script) > 5
        <5>1. failed[p] = {}
          BY <2>5, <3>1 DEF OpenInv
        <5>2. Now(p).onError # "goOn" /\ Len(Script) \in Nat /\ Len(Script) > 8
          BY <2>5, <3>1, BastionCall
        <5>3. pc'[p] = Len(Script) + 1
          BY <2>2, <5>2
        <5>4. Len(Script) > 5
          BY <1>0, <5>2
        <5> QED BY <5>1, <5>3, <5>4
      <4>2. Left(p) # {} => Now(p).name \in {"key", "dial", "client"}
        BY <1>0, <2>2, <2>5, <3>1, BastionCall DEF OpenInv
      <4> QED BY <1>0, <2>1, <2>2, <2>3, <2>5, <4>1, <4>2 DEF OpenInv, Left
    <3>2. CASE pc[p] \in 6 .. Len(Script)
      <4>1. Left(p) = {}
        BY <1>0, <3>2 DEF OpenInv
      <4>2. pc'[p] \in Nat /\ pc'[p] > 5
        BY <1>0, <2>2, <3>2
      <4> QED BY <1>0, <2>1, <2>2, <2>3, <2>5, <4>1, <4>2 DEF OpenInv, Left
    <3> QED BY <1>0, <2>2, <3>1, <3>2
  <2> QED BY <2>4, <2>5
<1>6. ASSUME NEW p \in Probers, Redirects(p) PROVE OpenInv'
  <2>1. kind \notin Bastions
    BY <1>6 DEF Redirects, Bastions
  <2>2. \A q \in Probers : Left(q)' = Left(q) /\ Left(q) = {}
    <3>1. kind \notin Bastions => \A q \in Probers : Left(q) = {}
      BY DEF OpenInv
    <3> QED BY <1>6, <2>1, <3>1 DEF Redirects, Left, conns
  <2>3. \A q \in Probers : pc'[q] = 0 => pc[q] = 0
    BY <1>6 DEF Redirects, Typed, RoundTypes
  <2> QED BY <1>0, <1>6, <2>1, <2>2, <2>3 DEF Redirects, OpenInv, conns
<1> QED BY <1>1, <1>2, <1>3, <1>4, <1>5, <1>6, StepKinds

LEMMA LossNext == Typed /\ OpenInv /\ LossInv /\ [Next]_vars => LossInv'
<1> SUFFICES ASSUME Typed, OpenInv, LossInv, [Next]_vars PROVE LossInv'
  OBVIOUS
<1>0. kind' = kind
  BY StepKinds DEF config
<1>1. CASE UNCHANGED <<pc, conns, failed>>
  BY <1>0, <1>1 DEF LossInv, conns
<1>2. ASSUME NEW p \in Probers, Begins(p) PROVE LossInv'
  BY <1>0, <1>2 DEF Begins, LossInv, Typed, RoundTypes
<1>3. ASSUME NEW p \in Probers, Returns(p) PROVE LossInv'
  <2>1. lost'[p] = Left(p) /\ pc'[p] = 0 /\ failed'[p] = failed[p]
    BY <1>3 DEF Returns, Typed, RoundTypes
  <2>2. Left(p) \cap Collected = {}
    BY DEF Left
  <2>3. \A q \in Probers : q # p =>
          lost'[q] = lost[q] /\ pc'[q] = pc[q] /\ failed'[q] = failed[q]
    BY <1>3 DEF Returns, Typed, RoundTypes
  <2> QED BY <1>0, <2>1, <2>2, <2>3 DEF OpenInv, LossInv
<1>4. ASSUME NEW p \in Probers, Calling(p), Succeed(p) \/ Fail(p) PROVE LossInv'
  <2>1. lost' = lost /\ pc[p] # 0
    BY <1>4 DEF Succeed, Fail, conns, Calling
  <2>2. \A q \in Probers : q # p => pc'[q] = pc[q] /\ failed'[q] = failed[q]
    BY <1>4 DEF Succeed, Fail, Typed, RoundTypes
  <2>3. lost[p] = {}
    BY <2>1 DEF LossInv
  <2> QED BY <1>0, <2>1, <2>2, <2>3 DEF LossInv
<1>5. ASSUME NEW p \in Probers, Redirects(p) PROVE LossInv'
  <2>1. lost' = lost /\ failed' = failed /\ pc[p] # 0
    BY <1>5 DEF Redirects, conns, Calling
  <2>2. \A q \in Probers : q # p => pc'[q] = pc[q]
    BY <1>5 DEF Redirects, Typed, RoundTypes
  <2>3. lost[p] = {}
    BY <2>1 DEF LossInv
  <2> QED BY <1>0, <2>1, <2>2, <2>3 DEF LossInv
<1> QED BY <1>1, <1>2, <1>3, <1>4, <1>5, StepKinds

LEMMA ConnInit == Init => Typed /\ ConnInv
<1> SUFFICES ASSUME Init PROVE ConnInv
  BY TypedInit
<1> QED BY DEF Init, ConnInv, OpenInv, LossInv, Left

LEMMA ConnNext == Typed /\ ConnInv /\ [Next]_vars => (Typed /\ ConnInv)'
BY TypedNext, OpenNext, LossNext DEF ConnInv

\* The rounds keep their types: no call but those of the script, no Close
\* deferred of what the round has not opened, no exit code or timing but those
\* there are, and none but a prober's settings in what they share.
THEOREM ProbesTyped == Spec => []TypeOK
<1>1. Typed /\ ConnInv => TypeOK
  <2> SUFFICES ASSUME Typed, ConnInv PROVE TypeOK
    OBVIOUS
  <2>1. Len(Script) \in Nat \ {0}
    BY ScriptLength DEF Typed, ConfigTypes
  <2>2. \A p \in Probers : pc[p] \in 0 .. Len(Script) + 1
    BY <2>1 DEF Typed, RoundTypes
  <2>3. lost \in [Probers -> SUBSET (Connections \ Collected)]
    BY DEF Typed, RoundTypes, ConnInv, LossInv
  <2> QED
    BY <2>2, <2>3
    DEF TypeOK, Typed, ConfigTypes, RoundTypes, OtherTypes, ConnInv, OpenInv
<1> QED BY <1>1, ConnInit, ConnNext, PTL DEF Spec

\* Whichever call of whichever kind fails, and whatever the other probers do,
\* the return of a round closes every connection the round has opened, but for
\* the one to a bastion when a later call of the client has failed.
THEOREM OnlyBastionLost == Spec => []LosesOnlyBastion
<1>1. ConnInv => LosesOnlyBastion
  BY DEF ConnInv, LossInv, LosesOnlyBastion, Bastions
<1> QED BY <1>1, ConnInit, ConnNext, PTL DEF Spec

-----------------------------------------------------------------------------
(***************************************************************************)
(* The settings in the dialer and in the registry.  From its own store on, *)
(* a prober finds there what it has stored, or what one has stored since.  *)
(***************************************************************************)
SettingsInv ==
  /\ slot \in owners \cup {Nobody}
  /\ \A p \in Probers :
       /\ kind \in Sharing /\ p \in owners /\ pc[p] > 1 =>
            slot = p \/ slot \in since[p]
       /\ pc[p] = 1 => used[p] = Nobody
       /\ used[p] # Nobody =>
            IF p \in owners THEN used[p] = p \/ used[p] \in since[p]
            ELSE kind = "websocket" /\ used[p] \in owners

LEMMA SharedCalls ==
  ASSUME kind \in Kinds, NEW p \in Probers, Calling(p)
  PROVE  /\ Now(p).name = "settings" => kind \in Sharing /\ pc[p] = 1
         /\ Now(p).name = "dialShared" => kind \in Sharing /\ pc[p] = 2
         /\ kind \in Sharing /\ pc[p] = 1 => Now(p).name = "settings"
<1>1. Orderly(kind, Script)
  BY OrderlyScripts DEF Script
<1> QED BY <1>1 DEF Orderly, Now, Calling

\* Where a call leaves the prober that has made it.
LEMMA Moved ==
  ASSUME Typed, NEW p \in Probers, Calling(p), Succeed(p) \/ Fail(p)
  PROVE  /\ pc[p] >= 1 /\ pc'[p] \in Nat /\ pc'[p] > 1
         /\ \A q \in Probers : q # p => pc'[q] = pc[q]
<1>1. Len(Script) \in Nat \ {0} /\ pc[p] \in Nat /\ pc[p] >= 1
  BY ScriptLength DEF Typed, ConfigTypes, RoundTypes, Calling
<1>2. pc'[p] = pc[p] + 1 \/ pc'[p] = Len(Script) + 1
  BY DEF Succeed, Fail, Typed, RoundTypes
<1>3. \A q \in Probers : q # p => pc'[q] = pc[q]
  BY DEF Succeed, Fail, Typed, RoundTypes
<1> QED BY <1>1, <1>2, <1>3

LEMMA SettingsNext == Typed /\ SettingsInv /\ [Next]_vars => SettingsInv'
<1> SUFFICES ASSUME Typed, SettingsInv, [Next]_vars PROVE SettingsInv'
  OBVIOUS
<1>0. kind' = kind /\ owners' = owners /\ kind \in Kinds /\ owners \subseteq Probers
      /\ Nobody \notin Probers
  BY StepKinds, ProbesAssumption DEF config, Typed, ConfigTypes
<1>1. ASSUME UNCHANGED settings, UNCHANGED pc PROVE SettingsInv'
  BY <1>0, <1>1 DEF SettingsInv, settings
<1>2. ASSUME NEW p \in Probers, Begin(p) PROVE SettingsInv'
  <2>1. /\ pc'[p] = 1 /\ used'[p] = Nobody
        /\ \A q \in Probers : q # p => pc'[q] = pc[q] /\ used'[q] = used[q]
        /\ UNCHANGED <<slot, since>>
    BY <1>2 DEF Begin, Typed, RoundTypes, OtherTypes
  <2> QED BY <1>0, <2>1 DEF SettingsInv
<1>3. ASSUME NEW p \in Probers, Return(p) PROVE SettingsInv'
  <2>1. /\ pc'[p] = 0 /\ \A q \in Probers : q # p => pc'[q] = pc[q]
        /\ UNCHANGED <<slot, since, used>>
    BY <1>3 DEF Return, settings, Typed, RoundTypes
  <2> QED BY <1>0, <2>1 DEF SettingsInv
<1>4. ASSUME NEW p \in Probers, Calling(p), Succeed(p) \/ Fail(p),
             Now(p).name # "settings", UNCHANGED settings
      PROVE  SettingsInv'
  <2>1. kind \in Sharing => pc[p] > 1
    <3>1. pc[p] \in Nat /\ pc[p] >= 1
      BY <1>4, Moved DEF Typed, RoundTypes
    <3> QED BY <1>0, <1>4, <3>1, SharedCalls
  <2>2. pc'[p] \in Nat /\ pc'[p] > 1 /\ \A q \in Probers : q # p => pc'[q] = pc[q]
    BY <1>4, Moved
  <2> QED BY <1>0, <1>4, <2>1, <2>2 DEF SettingsInv, settings
<1>5. ASSUME NEW p \in Probers, StoreSettings(p) PROVE SettingsInv'
  <2>1. Calling(p) /\ Succeed(p) /\ Now(p).name = "settings"
    BY <1>5 DEF StoreSettings, In
  <2>2. kind \in Sharing /\ pc[p] = 1 /\ used[p] = Nobody /\ used' = used
    BY <1>0, <1>5, <2>1, SharedCalls DEF SettingsInv, StoreSettings
  <2>3. pc'[p] \in Nat /\ pc'[p] > 1 /\ \A q \in Probers : q # p => pc'[q] = pc[q]
    BY <2>1, Moved
  <2>4. CASE p \in owners
    <3>1. slot' = p /\ since'[p] = {}
          /\ \A q \in Probers : q # p => since'[q] = since[q] \cup {p}
      BY <1>5, <2>4 DEF StoreSettings, Store
    <3> QED BY <1>0, <2>2, <2>3, <2>4, <3>1 DEF SettingsInv
  <2>5. CASE p \notin owners
    BY <1>0, <1>5, <2>2, <2>3, <2>5 DEF SettingsInv, StoreSettings, Store
  <2> QED BY <2>4, <2>5
<1>6. ASSUME NEW p \in Probers, DialShared(p) PROVE SettingsInv'
  <2>1. Calling(p) /\ (Succeed(p) \/ Fail(p)) /\ Now(p).name = "dialShared"
        /\ UNCHANGED <<slot, since>>
    BY <1>6 DEF DialShared, In
  <2>2. kind \in Sharing /\ pc[p] = 2
    BY <1>0, <2>1, SharedCalls
  <2>3. pc'[p] \in Nat /\ pc'[p] > 1 /\ \A q \in Probers : q # p => pc'[q] = pc[q]
    BY <2>1, Moved
  <2>4. /\ \A q \in Probers : q # p => used'[q] = used[q]
        /\ \/ used'[p] = used[p]
           \/ used'[p] = IF kind = "websocket" \/ p \in owners THEN slot ELSE Nobody
    BY <1>6 DEF DialShared, Typed, OtherTypes
  <2> QED BY <1>0, <2>1, <2>2, <2>3, <2>4 DEF SettingsInv
<1>7. ASSUME NEW p \in Probers, EvaluateResponse(p) \/ ParseOutput(p)
      PROVE  SettingsInv'
  <2>1. Calling(p) /\ Now(p).name # "settings" /\ UNCHANGED settings
    BY <1>7 DEF EvaluateResponse, ParseOutput, In
  <2>2. Succeed(p) \/ Fail(p) \/ UNCHANGED pc
    BY <1>7 DEF EvaluateResponse, ParseOutput, Evaluated, Panic
  <2> QED BY <1>1, <1>4, <2>1, <2>2
<1>8. ASSUME NEW p \in Probers,
             Answer(p) \/ AwaitPong(p) \/ RunCommand(p) \/ VerifyData(p)
      PROVE  SettingsInv'
  <2>1. Calling(p) /\ Now(p).name # "settings" /\ UNCHANGED settings
        /\ (Succeed(p) \/ Fail(p))
    BY <1>8 DEF Answer, AwaitPong, RunCommand, VerifyData, In, Special
  <2> QED BY <1>4, <2>1
<1>9. ASSUME NEW p \in Probers, PongArrives(p) PROVE SettingsInv'
  BY <1>1, <1>9 DEF PongArrives
<1>10. CASE UNCHANGED vars
  BY <1>1, <1>10 DEF vars
<1>11. ASSUME NEW p \in Probers, Redirect(p) PROVE SettingsInv'
  <2>1. kind \notin Sharing /\ UNCHANGED settings
    BY <1>11 DEF Redirect, Sharing
  <2>2. /\ pc'[p] = 2 /\ \A q \in Probers : q # p => pc'[q] = pc[q]
    BY <1>11 DEF Redirect, Typed, RoundTypes
  <2> QED BY <1>0, <2>1, <2>2 DEF SettingsInv, settings
<1> QED BY <1>2, <1>3, <1>5, <1>6, <1>7, <1>8, <1>9, <1>10, <1>11 DEF Next, Step

\* Whatever the order in which the probers of a kind store their settings and
\* dial, a connection is made with one's own, or with those of one that stored
\* its own since; and a prober without any takes only a WebSocket proxy that
\* was stored.
THEOREM SettingsOwn == Spec => []OwnSettings
<1>1. Init => Typed /\ SettingsInv
  <2>1. Init => SettingsInv
    BY DEF Init, SettingsInv
  <2> QED BY <2>1, TypedInit
<1>2. Typed /\ SettingsInv /\ [Next]_vars => (Typed /\ SettingsInv)'
  BY TypedNext, SettingsNext
<1>3. Typed /\ SettingsInv => OwnSettings
  BY DEF SettingsInv, OwnSettings
<1> QED BY <1>1, <1>2, <1>3, PTL DEF Spec

-----------------------------------------------------------------------------
(***************************************************************************)
(* What the evaluator makes of the findings, whatever it is configured     *)
(* with.                                                                   *)
(***************************************************************************)
LEMMA Extracted ==
  ASSUME NEW d \in DocTypes, NEW t, NEW w \in Findings
  PROVE  /\ ExtractValue(d, t, w) \in Outcomes /\ Function(d, t, w) \in Outcomes
         /\ ExtractValue(d, t, w) = "panic" => w # "value" /\ d # "json"
         /\ Function(d, t, w) = "panic" =>
              w # "value" /\ (d = "json" => t = "duration")
<1>1. /\ ExtractStr(d, w) \in Outcomes
      /\ ExtractStr(d, w) = "panic" => w # "value" /\ d # "json"
      /\ w = "value" => ExtractStr(d, w) = "value"
  BY DEF ExtractStr, DocTypes, Findings, Outcomes
<1>2. /\ Convert(d, t, w) \in Outcomes
      /\ Convert(d, t, w) = "panic" => w # "value" /\ d # "json"
      /\ w = "value" => Convert(d, t, w) = "value"
  BY DEF Convert, DocTypes, Findings, Outcomes
<1>3. /\ ExtractValue(d, t, w) \in Outcomes
      /\ ExtractValue(d, t, w) = "panic" => w # "value" /\ d # "json"
      /\ w = "value" => ExtractValue(d, t, w) = "value"
  BY <1>1, <1>2 DEF ExtractValue
<1> HIDE DEF ExtractValue
<1> QED BY <1>3 DEF Function, Outcomes

\* The steps made in order give a value each, or what one of them gives.
LEMMA InOrderOf ==
  ASSUME NEW n \in Nat, NEW out, DOMAIN out = 1 .. n
  PROVE  \/ InOrder(out) = "value" /\ \A i \in 1 .. n : out[i] = "value"
         \/ \E i \in 1 .. n : out[i] = InOrder(out) /\ out[i] # "value"
<1> DEFINE bad == { i \in DOMAIN out : out[i] # "value" }
<1>1. CASE bad = {}
  BY <1>1 DEF InOrder
<1>2. CASE bad # {}
  <2> DEFINE first == CHOOSE i \in bad : \A j \in bad : i <= j
  <2>1. bad \subseteq Nat
    OBVIOUS
  <2>2. first \in bad
    <3> HIDE DEF bad
    <3> QED BY <1>2, <2>1, D!Least
  <2>3. InOrder(out) = out[first]
    BY <1>2 DEF InOrder
  <2> QED BY <2>2, <2>3
<1> QED BY <1>1, <1>2

\* Nothing panics but what a query has not found, and with JSON x_duration
\* alone; and where there is a value every variable has one.
LEMMA EvaluateOf ==
  ASSUME NEW d \in DocTypes, NEW V \in Seq(VarTypes), NEW F \in Seq(VarTypes),
         NEW v \in [DOMAIN V -> Findings], NEW f \in [DOMAIN F -> Findings],
         NEW r \in 0 .. Len(F)
  PROVE  LET e == Evaluate(d, V, F, v, f, r) IN
         /\ e \in Outcomes
         /\ e = "value" => \A i \in DOMAIN v : ExtractValue(d, V[i], v[i]) = "value"
         /\ e = "panic" =>
              \/ d # "json" /\ \E i \in DOMAIN V : v[i] # "value"
              \/ \E i \in 1 .. r : /\ i \in DOMAIN F /\ f[i] # "value"
                                   /\ d = "json" => F[i] = "duration"
<1> DEFINE outV == [i \in DOMAIN V |-> ExtractValue(d, V[i], v[i])]
           outF == [i \in 1 .. r |-> Function(d, F[i], f[i])]
<1>1. /\ Len(V) \in Nat /\ DOMAIN V = 1 .. Len(V)
      /\ Len(F) \in Nat /\ DOMAIN F = 1 .. Len(F) /\ r \in Nat
      /\ \A i \in 1 .. r : i \in DOMAIN F
  BY LenProperties
<1>2. /\ Extract(d, V, v) = InOrder(outV)
      /\ Call(d, F, f, r) = InOrder(outF)
  BY DEF Extract, Call
<1>3. /\ DOMAIN outV = 1 .. Len(V) /\ DOMAIN outF = 1 .. r
      /\ \A i \in DOMAIN V : outV[i] = ExtractValue(d, V[i], v[i])
      /\ \A i \in 1 .. r : outF[i] = Function(d, F[i], f[i])
  BY <1>1
<1>4. /\ \A i \in DOMAIN V : v[i] \in Findings
      /\ \A i \in 1 .. r : f[i] \in Findings
  BY <1>1
<1> HIDE DEF outV, outF
<1>5. /\ InOrder(outV) \in Outcomes
      /\ InOrder(outV) = "value" =>
           \A i \in DOMAIN V : ExtractValue(d, V[i], v[i]) = "value"
      /\ InOrder(outV) = "panic" => d # "json" /\ \E i \in DOMAIN V : v[i] # "value"
  <2>1. CASE InOrder(outV) = "value" /\ \A i \in 1 .. Len(V) : outV[i] = "value"
    BY <1>1, <1>3, <2>1 DEF Outcomes
  <2>2. CASE \E i \in 1 .. Len(V) : outV[i] = InOrder(outV) /\ outV[i] # "value"
    <3>1. PICK i \in DOMAIN V : outV[i] = InOrder(outV) /\ outV[i] # "value"
      BY <1>1, <2>2
    <3>2. InOrder(outV) = ExtractValue(d, V[i], v[i])
      BY <1>3, <3>1
    <3> QED BY <1>4, <3>1, <3>2, Extracted
  <2> QED BY <1>1, <1>3, <2>1, <2>2, InOrderOf
<1>6. /\ InOrder(outF) \in Outcomes
      /\ InOrder(outF) = "panic" =>
           \E i \in 1 .. r : f[i] # "value" /\ (d = "json" => F[i] = "duration")
  <2>1. CASE InOrder(outF) = "value"
    BY <2>1 DEF Outcomes
  <2>2. CASE \E i \in 1 .. r : outF[i] = InOrder(outF) /\ outF[i] # "value"
    <3>1. PICK i \in 1 .. r : outF[i] = InOrder(outF) /\ outF[i] # "value"
      BY <2>2
    <3>2. InOrder(outF) = Function(d, F[i], f[i])
      BY <1>3, <3>1
    <3> QED BY <1>4, <3>1, <3>2, Extracted
  <2> QED BY <1>1, <1>3, <2>1, <2>2, InOrderOf
<1>7. DOMAIN v = DOMAIN V
  OBVIOUS
<1> QED BY <1>1, <1>2, <1>5, <1>6, <1>7 DEF Evaluate

LEMMA ValuesOf ==
  ASSUME NEW d \in DocTypes, NEW V \in Seq(VarTypes), NEW F \in Seq(VarTypes),
         NEW v \in [DOMAIN V -> Findings], NEW f \in [DOMAIN F -> Findings],
         NEW r \in 0 .. Len(F)
  PROVE  LET e == Evaluate(d, V, F, v, f, r) IN
         /\ e \in Outcomes
         /\ e = "value" => \A i \in DOMAIN v : ExtractValue(d, V[i], v[i]) = "value"
BY EvaluateOf

LEMMA Panics ==
  ASSUME NEW d \in DocTypes, NEW V \in Seq(VarTypes), NEW F \in Seq(VarTypes),
         NEW v \in [DOMAIN V -> Findings], NEW f \in [DOMAIN F -> Findings],
         NEW r \in 0 .. Len(F), Evaluate(d, V, F, v, f, r) = "panic"
  PROVE  \/ d # "json" /\ \E i \in DOMAIN V : v[i] # "value"
         \/ \E i \in 1 .. r : /\ i \in DOMAIN F /\ f[i] # "value"
                              /\ d = "json" => F[i] = "duration"
BY EvaluateOf

\* Where the host's output panics, it is the disks that are given the line.
LEMMA PanicOf ==
  ASSUME NEW L, NEW M, NEW b, ParseHostInfo(L, M, b) = "panic"
  PROVE  DiskWithout(L, M, b)
<1>1. PICK i \in DOMAIN Metrics : Parse(Metrics[i], Share(i, L, M), b) = "panic"
  BY DEF ParseHostInfo
<1>2. Metrics[i] = "disk" /\ CutsEmpty(Share(i, L, M), b)
  BY <1>1 DEF Parse
<1> QED BY <1>2 DEF CutsEmpty, DiskWithout

\* What the other side sends, whatever the queries find, or do not, whatever is
\* configured and whatever a host prints, ends the process only through a query
\* that does not find its value, in a JSON response only through x_duration, or
\* through an empty third field among the lines the disks are given.
THEOREM DiesOnly == Spec => []DiesOnlyOnMissing
<1>1. Init => Typed /\ DiesOnlyOnMissing
  <2>1. Init => DiesOnlyOnMissing
    BY DEF Init, DiesOnlyOnMissing
  <2> QED BY <2>1, TypedInit
<1>2. Typed /\ DiesOnlyOnMissing /\ [Next]_vars => DiesOnlyOnMissing'
  <2> SUFFICES ASSUME Typed, DiesOnlyOnMissing, [Next]_vars, alive' = FALSE
               PROVE  DiesOnlyOnMissing'
    BY TypedNext DEF Typed, OtherTypes, DiesOnlyOnMissing
  <2>1. CASE UNCHANGED vars
    <3>1. UNCHANGED <<kind, doc, expr, found>> /\ alive' = alive
      BY <2>1 DEF vars, config, evidence
    <3>1a. ~ alive
      <4>1. alive = FALSE
        BY <3>1
      <4> QED BY <4>1
    <3>2. PICK q \in Probers :
            IF kind \in Hosts THEN found[q] = {"no third field"}
            ELSE /\ ~ (found[q] \subseteq {"value"})
                 /\ doc = "json" => "duration" \in Range(expr.functions)
      BY <3>1a DEF DiesOnlyOnMissing
    <3>3. /\ kind \in Hosts <=> kind' \in Hosts
          /\ found'[q] = found[q] /\ doc' = doc
          /\ Range(expr'.functions) = Range(expr.functions)
      BY <3>1
    <3> QED BY <3>2, <3>3 DEF DiesOnlyOnMissing
  <2>2. ASSUME NEW p \in Probers, ParseOutput(p) PROVE DiesOnlyOnMissing'
    <3>1. kind \in Hosts /\ kind' = kind
      BY <2>2 DEF ParseOutput, config
    <3>2. PICK o \in Panicked :
            found' = [found EXCEPT
              ![p] = IF DiskWithout(o[1], Mounts, o[2]) THEN {"no third field"} ELSE @]
      BY <2>2 DEF ParseOutput, In, Succeed, Fail
    <3>3. DiskWithout(o[1], Mounts, o[2])
      BY PanicOf DEF Panicked, OutputsFor
    <3>4. found'[p] = {"no third field"}
      BY <3>2, <3>3 DEF Typed, OtherTypes
    <3> QED BY <3>1, <3>4 DEF DiesOnlyOnMissing
  <2>3. ASSUME NEW p \in Probers, EvaluateResponse(p) PROVE DiesOnlyOnMissing'
    <3>1. doc # "none" /\ kind \notin Hosts /\ kind' = kind
      BY <2>3 DEF EvaluateResponse, In, config, Hosts
    <3>2. PICK v, f, reached :
            /\ v \in [DOMAIN expr.variables -> Findings]
            /\ f \in [DOMAIN expr.functions -> Findings]
            /\ reached \in 0 .. Len(expr.functions)
            /\ found' = [found EXCEPT ![p] = Range(v) \cup { f[i] : i \in 1 .. reached }]
            /\ Evaluated(p, Evaluate(doc, expr.variables, expr.functions, v, f, reached),
                 \A i \in DOMAIN v : ExtractValue(doc, expr.variables[i], v[i]) = "value")
      BY <2>3, <3>1 DEF EvaluateResponse
    <3>3. alive /\ UNCHANGED <<doc, expr>>
      BY <2>3 DEF EvaluateResponse, In, config
    <3>4. Evaluate(doc, expr.variables, expr.functions, v, f, reached) = "panic"
      BY <3>2, <3>3 DEF Evaluated
    <3>5. /\ doc \in DocTypes
          /\ expr.variables \in Seq(VarTypes) /\ expr.functions \in Seq(VarTypes)
      BY <3>1, ProbesAssumption DEF Typed, ConfigTypes
    <3>6. PICK V, F : V = expr.variables /\ F = expr.functions
      OBVIOUS
    <3>7. \/ doc # "json" /\ \E i \in DOMAIN V : v[i] # "value"
          \/ \E i \in 1 .. reached : /\ i \in DOMAIN F /\ f[i] # "value"
                                     /\ doc = "json" => F[i] = "duration"
      <4>1. /\ doc \in DocTypes /\ V \in Seq(VarTypes) /\ F \in Seq(VarTypes)
            /\ v \in [DOMAIN V -> Findings] /\ f \in [DOMAIN F -> Findings]
            /\ reached \in 0 .. Len(F)
        BY <3>2, <3>5, <3>6
      <4>2. Evaluate(doc, V, F, v, f, reached) = "panic"
        BY <3>4, <3>6
      <4> QED BY <4>1, <4>2, Panics
    <3>8. found'[p] = Range(v) \cup { f[i] : i \in 1 .. reached }
      BY <3>2 DEF Typed, OtherTypes
    <3>9. ~ (found'[p] \subseteq {"value"})
      <4>1. CASE \E i \in DOMAIN expr.variables : v[i] # "value"
        <5>1. PICK i \in DOMAIN expr.variables : v[i] # "value"
          BY <4>1
        <5>2. i \in DOMAIN v /\ v[i] \in Range(v)
          BY <3>2, <5>1 DEF Range
        <5> QED BY <5>1, <5>2, <3>8
      <4>2. CASE \E i \in 1 .. reached : f[i] # "value"
        <5>1. PICK i \in 1 .. reached : f[i] # "value"
          BY <4>2
        <5>2. f[i] \in { f[j] : j \in 1 .. reached }
          BY <5>1
        <5> QED BY <5>1, <5>2, <3>8
      <4> QED BY <3>6, <3>7, <4>1, <4>2
    <3>10. doc = "json" => "duration" \in Range(expr.functions)
      BY <3>6, <3>7 DEF Range
    <3> QED BY <3>1, <3>3, <3>9, <3>10 DEF DiesOnlyOnMissing
  <2>4. ASSUME NEW p \in Probers, Begin(p) \/ PongArrives(p) \/ Redirect(p)
        PROVE  FALSE
    BY <2>4 DEF Begin, PongArrives, Redirect, In
  <2>5. ASSUME NEW p \in Probers,
               \/ Answer(p) \/ StoreSettings(p) \/ DialShared(p) \/ AwaitPong(p)
               \/ RunCommand(p) \/ VerifyData(p) \/ Return(p)
        PROVE  FALSE
    BY <2>5 DEF Answer, StoreSettings, DialShared, AwaitPong, RunCommand, VerifyData,
                Return, In
  <2> QED BY <2>1, <2>2, <2>3, <2>4, <2>5 DEF Next, Step
<1> QED BY <1>1, <1>2, TypedNext, PTL DEF Spec
-----------------------------------------------------------------------------
(***************************************************************************)
(* What a round exports.  A step changes the codes, the timings and the    *)
(* call of one prober; what it makes of them depends on the call alone.    *)
(***************************************************************************)
Unmoved(q) ==
  /\ pc'[q] = pc[q] /\ failed'[q] = failed[q] /\ trace'[q] = trace[q]
  /\ exit'[q] = exit[q] /\ ended'[q] = ended[q]
  /\ exported'[q] = exported[q] /\ unmeasured'[q] = unmeasured[q]

Exports(p) ==
  /\ exported'[p] = exit'[p]
  /\ unmeasured'[p] = IF kind = "http" THEN Unmeasured(trace'[p]) ELSE {}

ExportsNot(p) == exported'[p] = exported[p] /\ unmeasured'[p] = unmeasured[p]

Succeeds(p) ==
  /\ pc'[p] = pc[p] + 1 /\ failed'[p] = failed[p]
  /\ IF Now(p).name = "export" THEN Exports(p) ELSE ExportsNot(p)

Fails(p) ==
  /\ pc'[p] = IF Now(p).onError = "goOn" THEN pc[p] + 1 ELSE Len(Script) + 1
  /\ failed'[p] = failed[p] \cup {Now(p).name}
  /\ IF Now(p).onError = "export" THEN Exports(p) ELSE ExportsNot(p)

\* A call other than the command, with what the hooks of the trace note.
Asked(p) ==
  /\ Calling(p) /\ Now(p).name # "run"
  /\ exit'[p] = exit[p] /\ ended'[p] = ended[p]
  /\ \/ Succeeds(p) /\ trace'[p] \in Noted(Now(p).name, TRUE, trace[p])
     \/ /\ Fails(p) /\ Now(p).name # "export"
        /\ trace'[p] \in Noted(Now(p).name, FALSE, trace[p])

Redirected(p) ==
  /\ kind = "http" /\ Calling(p) /\ Now(p).name = "wait"
  /\ trace'[p] = (GotFirstResponseByte(trace[p]) \ {"byte"}) \cup {"redirected"}
  /\ pc'[p] = 2 /\ failed'[p] = failed[p]
  /\ exit'[p] = exit[p] /\ ended'[p] = ended[p] /\ ExportsNot(p)

Commanded(p) ==
  /\ Calling(p) /\ Now(p).name = "run" /\ trace'[p] = trace[p]
  /\ \E code \in Codes :
       /\ ended'[p] = code /\ exit'[p] = ExitCode(p, code)
       /\ IF code = "0" THEN Succeeds(p) ELSE Fails(p)

Begun(p) ==
  /\ pc'[p] = 1 /\ failed'[p] = {} /\ trace'[p] = {} /\ ended'[p] = NoCode
  /\ exported'[p] = NoCode /\ unmeasured'[p] = {}

Returned(p) ==
  /\ pc[p] = Len(Script) + 1 /\ pc'[p] = 0 /\ failed'[p] = failed[p]
  /\ exit'[p] = exit[p] /\ ended'[p] = ended[p] /\ trace'[p] = trace[p]
  /\ ExportsNot(p)

LEMMA CallEnds ==
  ASSUME Typed, NEW p \in Probers, Succeed(p) \/ Fail(p)
  PROVE  /\ Succeed(p) => Succeeds(p)
         /\ Fail(p) => Fails(p)
         /\ \A q \in Probers \ {p} :
              /\ pc'[q] = pc[q] /\ failed'[q] = failed[q]
              /\ exported'[q] = exported[q] /\ unmeasured'[q] = unmeasured[q]
<1>1. /\ ExportMetrics(p) => Exports(p)
      /\ UNCHANGED metrics => ExportsNot(p)
      /\ ExportMetrics(p) \/ UNCHANGED metrics =>
           \A q \in Probers \ {p} :
             exported'[q] = exported[q] /\ unmeasured'[q] = unmeasured[q]
  BY DEF Typed, RoundTypes, ExportMetrics, Exports, ExportsNot, metrics
<1>2. Succeed(p) => Succeeds(p)
  BY <1>1 DEF Typed, RoundTypes, Succeed, Succeeds
<1>3. Fail(p) => Fails(p)
  BY <1>1 DEF Typed, RoundTypes, Fail, Fails
<1>4. \A q \in Probers \ {p} : pc'[q] = pc[q] /\ failed'[q] = failed[q]
  BY DEF Typed, RoundTypes, Succeed, Fail
<1>5. ExportMetrics(p) \/ UNCHANGED metrics
  BY DEF Succeed, Fail
<1> QED BY <1>1, <1>2, <1>3, <1>4, <1>5

LEMMA CallSteps ==
  ASSUME Typed, [Next]_vars
  PROVE  /\ UNCHANGED config
         /\ \/ \A q \in Probers : Unmoved(q)
            \/ \E p \in Probers :
                 /\ \/ Begun(p) \/ Returned(p) \/ Commanded(p)
                    \/ Asked(p) \/ Redirected(p)
                 /\ \A q \in Probers \ {p} : Unmoved(q)
<1>1. CASE UNCHANGED vars
  BY <1>1 DEF vars, codes, metrics, Unmoved
<1>2. ASSUME NEW p \in Probers, Begin(p)
      PROVE  UNCHANGED config /\ Begun(p) /\ \A q \in Probers \ {p} : Unmoved(q)
  <2>1. UNCHANGED config
    BY <1>2 DEF Begin
  <2>2. Begun(p)
    BY <1>2 DEF Begin, NewTraceStats, Begun, Typed, RoundTypes, OtherTypes
  <2>3. \A q \in Probers \ {p} : Unmoved(q)
    BY <1>2 DEF Begin, NewTraceStats, Unmoved, Typed, RoundTypes, OtherTypes
  <2> QED BY <2>1, <2>2, <2>3
<1>3. ASSUME NEW p \in Probers, Return(p)
      PROVE  UNCHANGED config /\ Returned(p) /\ \A q \in Probers \ {p} : Unmoved(q)
  BY <1>3 DEF Return, Returned, ExportsNot, Unmoved, codes, metrics, Typed, RoundTypes
<1>4. ASSUME NEW p \in Probers, PongArrives(p)
      PROVE  UNCHANGED config /\ \A q \in Probers : Unmoved(q)
  BY <1>4 DEF PongArrives, Unmoved, codes, metrics
<1>5. ASSUME NEW p \in Probers, RunCommand(p)
      PROVE  UNCHANGED config /\ Commanded(p) /\ \A q \in Probers \ {p} : Unmoved(q)
  <2>1. PICK code \in Codes :
          /\ ended' = [ended EXCEPT ![p] = code]
          /\ exit' = [exit EXCEPT ![p] = ExitCode(p, code)]
          /\ IF code = "0" THEN Succeed(p) ELSE Fail(p)
    BY <1>5 DEF RunCommand
  <2>2. /\ UNCHANGED <<config, trace>> /\ Calling(p) /\ Now(p).name = "run"
    BY <1>5 DEF RunCommand, In
  <2>3. ended'[p] = code /\ exit'[p] = ExitCode(p, code)
    BY <2>1 DEF Typed, OtherTypes
  <2>4. Commanded(p)
    BY <2>1, <2>2, <2>3, CallEnds DEF Commanded
  <2>5. \A q \in Probers \ {p} : Unmoved(q)
    BY <2>1, <2>2, CallEnds DEF Unmoved, Typed, OtherTypes
  <2> QED BY <2>2, <2>4, <2>5
<1>6. ASSUME NEW p \in Probers, Calling(p), Now(p).name \in Special \ {"run"},
             Succeed(p) \/ Fail(p), UNCHANGED <<config, exit, ended, trace>>
      PROVE  Asked(p) /\ \A q \in Probers \ {p} : Unmoved(q)
  <2>1. trace'[p] = trace[p] /\ \A b \in BOOLEAN : Noted(Now(p).name, b, trace[p]) = {trace[p]}
    BY <1>6 DEF Noted, Special
  <2>2. Asked(p)
    BY <1>6, <2>1, CallEnds DEF Asked, Special
  <2> QED BY <1>6, <2>2, CallEnds DEF Unmoved
<1>7. ASSUME NEW p \in Probers, Answer(p)
      PROVE  /\ UNCHANGED config /\ Asked(p)
             /\ \A q \in Probers \ {p} : Unmoved(q)
  <2>1. /\ UNCHANGED config /\ Calling(p) /\ Now(p).name \notin Special
        /\ UNCHANGED <<exit, ended>>
    BY <1>7 DEF Answer
  <2>2. PICK b \in BOOLEAN :
          /\ IF b THEN Succeed(p) ELSE Fail(p) /\ Now(p).name # "export"
          /\ \E t \in Noted(Now(p).name, b, trace[p]) : trace' = [trace EXCEPT ![p] = t]
    BY <1>7 DEF Answer
  <2>3. PICK t \in Noted(Now(p).name, b, trace[p]) : trace' = [trace EXCEPT ![p] = t]
    BY <2>2
  <2>4. trace'[p] = t /\ \A q \in Probers \ {p} : trace'[q] = trace[q]
    BY <2>3 DEF Typed, OtherTypes
  <2>5. Succeed(p) \/ Fail(p)
    BY <2>2
  <2>6. Asked(p)
    BY <2>1, <2>2, <2>4, <2>5, CallEnds DEF Asked, Special
  <2>7. \A q \in Probers \ {p} : Unmoved(q)
    BY <2>1, <2>4, <2>5, CallEnds DEF Unmoved
  <2> QED BY <2>1, <2>6, <2>7
<1>8. ASSUME NEW p \in Probers,
             StoreSettings(p) \/ DialShared(p) \/ AwaitPong(p) \/ VerifyData(p)
      PROVE  /\ UNCHANGED config /\ Asked(p)
             /\ \A q \in Probers \ {p} : Unmoved(q)
  <2>1. /\ Calling(p) /\ Now(p).name \in Special \ {"run"}
        /\ Succeed(p) \/ Fail(p)
        /\ UNCHANGED <<config, exit, ended, trace>>
    BY <1>8 DEF StoreSettings, DialShared, AwaitPong, VerifyData, In, Special
  <2> QED BY <1>6, <2>1
<1>9. ASSUME NEW p \in Probers, ParseOutput(p) \/ EvaluateResponse(p)
      PROVE  /\ UNCHANGED config
             /\ \/ \A q \in Probers : Unmoved(q)
                \/ Asked(p) /\ \A q \in Probers \ {p} : Unmoved(q)
  <2>1. /\ Calling(p) /\ Now(p).name \in Special \ {"run"}
        /\ UNCHANGED <<config, exit, ended, trace>>
    BY <1>9 DEF ParseOutput, EvaluateResponse, In, Special
  <2>2. Succeed(p) \/ Fail(p) \/ Panic(p)
    BY <1>9 DEF ParseOutput, EvaluateResponse, Evaluated
  <2>3. CASE Panic(p)
    BY <2>1, <2>3 DEF Panic, Unmoved, metrics
  <2> QED BY <1>6, <2>1, <2>2, <2>3
<1>10. ASSUME NEW p \in Probers, Redirect(p)
       PROVE  UNCHANGED config /\ Redirected(p) /\ \A q \in Probers \ {p} : Unmoved(q)
  <2>1. /\ UNCHANGED config /\ kind = "http" /\ Calling(p) /\ Now(p).name = "wait"
        /\ UNCHANGED <<failed, codes, metrics>>
    BY <1>10 DEF Redirect, In
  <2>2. /\ trace'[p] = (GotFirstResponseByte(trace[p]) \ {"byte"}) \cup {"redirected"}
        /\ pc'[p] = 2
        /\ \A q \in Probers \ {p} : trace'[q] = trace[q] /\ pc'[q] = pc[q]
    BY <1>10 DEF Redirect, Typed, RoundTypes, OtherTypes
  <2> QED BY <2>1, <2>2 DEF Redirected, Unmoved, ExportsNot, codes, metrics
<1> QED BY <1>1, <1>2, <1>3, <1>4, <1>5, <1>7, <1>8, <1>9, <1>10 DEF Next, Step

\* The calls of the kinds the exports are told apart by.
LEMMA ShellCalls ==
  ASSUME kind = "shell"
  PROVE  /\ Len(Script) = 3
         /\ Script[1].name = "run" /\ Script[1].onError = "goOn"
         /\ Script[2].name = "export" /\ Script[2].onError = "return"
         /\ Script[3].name = "text" /\ Script[3].onError = "goOn"
<1>1. Script = Shell
  BY DEF Script, ProbeScripts
<1> QED BY <1>1 DEF Shell, Export, CheckText, Does

LEMMA SSHCalls ==
  ASSUME kind \in {"ssh", "sshBastion"}
  PROVE  \A i \in 1 .. Len(Script) : Script[i].name = "run" => Script[i].onError = "export"
<1> DEFINE Told(c) == c.name = "run" => c.onError = "export"
           c1 == Does("bastion key", {}, {}, TRUE, "export")
           c2 == Does("bastion", {"bastion"}, {}, FALSE, "export")
           c3 == Does("key", {}, {}, TRUE, "export")
           c4 == Does("dial", {}, {}, FALSE, "export")
           c5 == Does("client", {"client"}, {"bastion", "client"}, FALSE, "export")
           c6 == Does("session", {"session"}, {"session"}, FALSE, "export")
           c7 == Does("run", {}, {}, FALSE, "export")
           c8 == Does("dial", {"client"}, {"client"}, FALSE, "export")
<1>1. /\ RunSSHCmd(TRUE, "export") = <<c1, c2, c3, c4, c5>> \o <<c6, c7>>
      /\ RunSSHCmd(FALSE, "export") = <<c3, c8>> \o <<c6, c7>>
  BY DEF RunSSHCmd, BastionClient, Client
<1>2. /\ Told(c1) /\ Told(c2) /\ Told(c3) /\ Told(c4) /\ Told(c5) /\ Told(c6)
      /\ Told(c7) /\ Told(c8) /\ Told(CheckText) /\ Told(Export)
  BY DEF Does, CheckText, Export
<1> HIDE DEF Told, c1, c2, c3, c4, c5, c6, c7, c8
<1>3. /\ RunSSHCmd(TRUE, "export") = <<c1, c2, c3, c4, c5, c6, c7>>
      /\ RunSSHCmd(FALSE, "export") = <<c3, c8, c6, c7>>
  <2>1. <<c1, c2, c3, c4, c5>> \o <<c6, c7>> = <<c1, c2, c3, c4, c5, c6, c7>>
    BY Join52
  <2>2. <<c3, c8>> \o <<c6, c7>> = <<c3, c8, c6, c7>>
    BY Join22
  <2> QED BY <1>1, <2>1, <2>2
<1>4. /\ kind = "sshBastion" =>
           Script = RunSSHCmd(TRUE, "export") \o <<CheckText, Export>>
      /\ kind = "ssh" => Script = RunSSHCmd(FALSE, "export") \o <<CheckText, Export>>
  <2>1. /\ ProbeScripts["ssh"] = SSH(FALSE) /\ ProbeScripts["sshBastion"] = SSH(TRUE)
    BY DEF ProbeScripts
  <2> QED BY <2>1 DEF Script, SSH
<1>5. CASE kind = "sshBastion"
  <2>1. Script = <<c1, c2, c3, c4, c5, c6, c7>> \o <<CheckText, Export>>
    BY <1>3, <1>4, <1>5
  <2>2. Script = <<c1, c2, c3, c4, c5, c6, c7, CheckText, Export>>
    BY <2>1, Join72
  <2>3. \A i \in 1 .. Len(Script) : Told(Script[i])
    BY <1>2, <2>2
  <2> QED BY <2>3 DEF Told
<1>6. CASE kind = "ssh"
  <2>1. Script = <<c3, c8, c6, c7>> \o <<CheckText, Export>>
    BY <1>3, <1>4, <1>6
  <2>2. Script = <<c3, c8, c6, c7, CheckText, Export>>
    BY <2>1, Join42
  <2>3. \A i \in 1 .. Len(Script) : Told(Script[i])
    BY <1>2, <2>2
  <2> QED BY <2>3 DEF Told
<1> QED BY <1>5, <1>6

LEMMA HTTPCalls ==
  ASSUME kind = "http"
  PROVE  /\ Len(Script) = 12
         /\ Script[1].name = "request" /\ Script[1].onError = "return"
         /\ Script[2].name = "getConn"
         /\ \A i \in 3 .. 5 : Script[i].name \in {"resolve", "connect", "handshake"}
         /\ Script[6].name = "send"
         /\ \A i \in 1 .. 12 : Script[i].name = "wait" <=> i = 7
         /\ \A i \in 1 .. 12 : Script[i].name = "export" <=> i = 8
         /\ \A i \in 9 .. 12 : Script[i].name \in {"transfer", "code", "text", "evaluate"}
         /\ \A i \in 2 .. 7 : Script[i].onError = "export"
         /\ \A i \in 9 .. 12 : Script[i].onError # "export"
         /\ \A i \in 1 .. 12 : Script[i].name # "run"
<1>1. Script = HTTP
  BY DEF Script, ProbeScripts
<1>2. Len(Script) = 12
  BY <1>1 DEF HTTP
<1>3. /\ Script[1].name = "request" /\ Script[2].name = "getConn"
      /\ Script[3].name = "resolve" /\ Script[4].name = "connect"
      /\ Script[5].name = "handshake" /\ Script[6].name = "send"
      /\ Script[7].name = "wait"
  BY <1>1 DEF HTTP, Phase, Asks, Does
<1>4. /\ Script[8].name = "export" /\ Script[9].name = "transfer"
      /\ Script[10].name = "code" /\ Script[11].name = "text"
      /\ Script[12].name = "evaluate"
  BY <1>1 DEF HTTP, Does, Asks, Export, CheckText
<1>5. /\ Script[1].onError = "return"
      /\ Script[2].onError = "export" /\ Script[3].onError = "export"
      /\ Script[4].onError = "export" /\ Script[5].onError = "export"
      /\ Script[6].onError = "export" /\ Script[7].onError = "export"
  BY <1>1 DEF HTTP, Phase, Asks, Does
<1>6. /\ Script[9].onError = "return" /\ Script[10].onError = "return"
      /\ Script[11].onError = "goOn" /\ Script[12].onError = "return"
  BY <1>1 DEF HTTP, Does, Asks, CheckText
<1>7. /\ \A i \in 1 .. 12 : \/ i = 1 \/ i = 2 \/ i = 3 \/ i = 4 \/ i = 5 \/ i = 6
                            \/ i = 7 \/ i = 8 \/ i = 9 \/ i = 10 \/ i = 11 \/ i = 12
      /\ \A i \in 3 .. 5 : i = 3 \/ i = 4 \/ i = 5
      /\ \A i \in 2 .. 7 : i = 2 \/ i = 3 \/ i = 4 \/ i = 5 \/ i = 6 \/ i = 7
      /\ \A i \in 9 .. 12 : i = 9 \/ i = 10 \/ i = 11 \/ i = 12
  OBVIOUS
<1>8. /\ \A i \in 1 .. 12 : Script[i].name = "export" <=> i = 8
      /\ \A i \in 1 .. 12 : Script[i].name = "wait" <=> i = 7
      /\ \A i \in 1 .. 12 : Script[i].name # "run"
  BY <1>3, <1>4, <1>7
<1>9. /\ \A i \in 2 .. 7 : Script[i].onError = "export"
      /\ \A i \in 9 .. 12 : Script[i].onError # "export"
  BY <1>5, <1>6, <1>7
<1>10. /\ \A i \in 3 .. 5 : Script[i].name \in {"resolve", "connect", "handshake"}
       /\ \A i \in 9 .. 12 : Script[i].name \in {"transfer", "code", "text", "evaluate"}
  BY <1>3, <1>4, <1>7
<1> QED BY <1>2, <1>3, <1>5, <1>8, <1>9, <1>10

Ran(code) == IF code = NoCode THEN "0" ELSE code

\* The shell probe exports after the command, whatever its code; the SSH
\* probe, where the command failed with a code, right away; the HTTP probe
\* either at a phase up to the answer, or when the transfer has begun.
ShellInv(p) ==
  /\ pc[p] = 1 => exported[p] = NoCode
  /\ pc[p] > 1 => exit[p] = Ran(ended[p])
  /\ exported[p] # NoCode => exported[p] = Ran(ended[p])

SSHInv(p) ==
  ended[p] \in {"1", "255"} =>
    exported[p] = ended[p] /\ (pc[p] = 0 \/ pc[p] = Len(Script) + 1)

\* A trace that has noted the first byte of an answer has the start of the
\* transfer.
Settled(t) == "early" \in t \/ "byte" \in t => "transfer" \in t

\* What ExportsThisRound says of the timings, given where the round failed.
Measures(t, fails, none) ==
  /\ "redirected" \notin t =>
       /\ "total" \in none <=> "getConn" \in fails
       /\ fails \cap {"getConn", "resolve", "connect", "handshake"} # {} =>
            {"transfer"} = none \ {"total"}
  /\ "redirected" \in t => none \subseteq {"wait"}
  /\ "wait" \in none => none = {"wait"}
  /\ fails \cap Exchange = {} => none \subseteq {"wait"}

HTTPInv(p) ==
  LET t == trace[p] IN
  /\ Settled(t)
  /\ "redirected" \in t => "total" \in t /\ "transfer" \in t
  /\ pc[p] \in 1 .. 2 /\ "redirected" \notin t => "total" \notin t
  /\ pc[p] \in 3 .. 8 => "total" \in t
  /\ pc[p] \in 1 .. 6 /\ "redirected" \notin t => "transfer" \notin t
  /\ pc[p] = 8 => "transfer" \in t
  /\ pc[p] \in 1 .. 8 => failed[p] = {} /\ exported[p] = NoCode
  /\ exported[p] # NoCode => Measures(t, failed[p], unmeasured[p])

ExportInv ==
  \A p \in Probers :
    /\ kind = "shell" => ShellInv(p)
    /\ kind \in {"ssh", "sshBastion"} => SSHInv(p)
    /\ kind = "http" => HTTPInv(p)

\* What a call adds to the trace, and leaves of it.
LEMMA NotedKeeps ==
  ASSUME NEW n, NEW b \in BOOLEAN, NEW t \in SUBSET Marks, Settled(t),
         NEW u \in Noted(n, b, t)
  PROVE  /\ Settled(u)
         /\ "redirected" \in u <=> "redirected" \in t
         /\ "total" \in t => "total" \in u
         /\ "transfer" \in t => "transfer" \in u
         /\ n # "getConn" => ("total" \in u <=> "total" \in t)
         /\ n \notin {"send", "wait"} => ("transfer" \in u <=> "transfer" \in t)
         /\ n = "getConn" => IF b THEN "total" \in u ELSE u = t
         /\ n = "wait" /\ b => "transfer" \in u
<1> DEFINE g == GotFirstResponseByte(t)
<1>1. /\ Settled(g) /\ "transfer" \in g
      /\ "redirected" \in g <=> "redirected" \in t
      /\ "total" \in g <=> "total" \in t
  BY DEF GotFirstResponseByte, Settled
<1>2. \A w : Settled(w) =>
        /\ Settled(WroteRequest(w))
        /\ "redirected" \in WroteRequest(w) <=> "redirected" \in w
        /\ "total" \in WroteRequest(w) <=> "total" \in w
        /\ "transfer" \in WroteRequest(w) <=> "transfer" \in w
  BY DEF WroteRequest, Settled
<1>3. /\ Settled(GetConn(t)) /\ "total" \in GetConn(t)
      /\ "redirected" \in GetConn(t) <=> "redirected" \in t
      /\ "transfer" \in GetConn(t) <=> "transfer" \in t
  BY DEF GetConn, Settled
<1> HIDE DEF g
<1>4. CASE n = "getConn"
  <2>1. u = IF b THEN GetConn(t) ELSE t
    BY <1>4 DEF Noted
  <2> QED BY <1>3, <1>4, <2>1
<1>5. CASE n = "send"
  <2>1. u \in {g, WroteRequest(t), WroteRequest(g), t}
    BY <1>5 DEF Noted, g
  <2> QED BY <1>1, <1>2, <1>5, <2>1
<1>6. CASE n = "wait"
  <2>1. u = g \/ (~ b /\ u = t)
    BY <1>6 DEF Noted, g
  <2> QED BY <1>1, <1>6, <2>1
<1>7. CASE n \notin {"getConn", "send", "wait"}
  <2>1. u = t
    BY <1>7 DEF Noted
  <2> QED BY <1>7, <2>1
<1> QED BY <1>4, <1>5, <1>6, <1>7

\* A call of the HTTP probe: a phase that fails exports what the trace has.
LEMMA AskedHTTP ==
  ASSUME Typed, NEW p \in Probers, kind = "http", HTTPInv(p), Asked(p)
  PROVE  HTTPInv(p)'
<1> DEFINE t == trace[p]
           u == trace'[p]
           name == Now(p).name
<1>1. /\ Len(Script) = 12 /\ pc[p] \in 1 .. 12 /\ Now(p) = Script[pc[p]]
  BY HTTPCalls DEF Asked, Calling, Now
<1>2. PICK b \in BOOLEAN :
        /\ IF b THEN Succeeds(p) ELSE Fails(p) /\ name # "export"
        /\ u \in Noted(name, b, t)
  BY DEF Asked
<1>3. /\ t \in SUBSET Marks /\ Settled(t)
  BY DEF HTTPInv, Typed, OtherTypes
<1>4. /\ Settled(u)
      /\ "redirected" \in u <=> "redirected" \in t
      /\ "total" \in t => "total" \in u
      /\ "transfer" \in t => "transfer" \in u
      /\ name # "getConn" => ("total" \in u <=> "total" \in t)
      /\ name \notin {"send", "wait"} => ("transfer" \in u <=> "transfer" \in t)
      /\ name = "getConn" => IF b THEN "total" \in u ELSE u = t
      /\ name = "wait" /\ b => "transfer" \in u
  BY <1>2, <1>3, NotedKeeps
<1>5. /\ "redirected" \in t => "total" \in t /\ "transfer" \in t
      /\ pc[p] \in 1 .. 2 /\ "redirected" \notin t => "total" \notin t
      /\ pc[p] \in 3 .. 8 => "total" \in t
      /\ pc[p] \in 1 .. 6 /\ "redirected" \notin t => "transfer" \notin t
      /\ pc[p] = 8 => "transfer" \in t
      /\ pc[p] \in 1 .. 8 => failed[p] = {} /\ exported[p] = NoCode
      /\ exported[p] # NoCode => Measures(t, failed[p], unmeasured[p])
  BY DEF HTTPInv
<1>6. Unmeasured(u) = ({"total", "transfer"} \ u) \cup (IF "early" \in u THEN {"wait"} ELSE {})
  BY DEF Unmeasured
<1>7. SUFFICES
        /\ Settled(u)
        /\ "redirected" \in u => "total" \in u /\ "transfer" \in u
        /\ pc'[p] \in 1 .. 2 /\ "redirected" \notin u => "total" \notin u
        /\ pc'[p] \in 3 .. 8 => "total" \in u
        /\ pc'[p] \in 1 .. 6 /\ "redirected" \notin u => "transfer" \notin u
        /\ pc'[p] = 8 => "transfer" \in u
        /\ pc'[p] \in 1 .. 8 => failed'[p] = {} /\ exported'[p] = NoCode
        /\ exported'[p] # NoCode => Measures(u, failed'[p], unmeasured'[p])
  BY DEF HTTPInv
<1> HIDE DEF t, u, name
<1>8. CASE pc[p] = 1
  <2>1. name = "request" /\ Now(p).onError = "return"
    BY <1>1, <1>8, HTTPCalls DEF name
  <2>2. /\ \/ pc'[p] = 2 /\ failed'[p] = {}
           \/ pc'[p] = 13
        /\ exported'[p] = NoCode
    BY <1>1, <1>2, <1>5, <1>8, <2>1 DEF Succeeds, Fails, ExportsNot, name
  <2> QED BY <1>4, <1>5, <1>8, <2>1, <2>2
<1>9. CASE pc[p] \in 2 .. 7
  <2>1. /\ name # "export" /\ Now(p).onError = "export"
        /\ name = "getConn" <=> pc[p] = 2
        /\ name = "wait" <=> pc[p] = 7
        /\ name \in {"send", "wait"} <=> pc[p] \in 6 .. 7
        /\ name \in {"getConn", "resolve", "connect", "handshake"} <=> pc[p] \in 2 .. 5
        /\ name \in Exchange
    <3>1. pc[p] = 2 \/ pc[p] \in 3 .. 5 \/ pc[p] = 6 \/ pc[p] = 7
      BY <1>9
    <3> QED BY <1>1, <1>9, <3>1, HTTPCalls DEF name, Exchange
  <2>2. failed[p] = {} /\ exported[p] = NoCode
    BY <1>5, <1>9
  <2>3. CASE b
    <3>1. /\ pc'[p] = pc[p] + 1 /\ failed'[p] = {} /\ exported'[p] = NoCode
      BY <1>2, <2>1, <2>2, <2>3 DEF Succeeds, ExportsNot, name
    <3> QED BY <1>4, <1>5, <1>9, <2>1, <2>3, <3>1
  <2>4. CASE ~ b
    <3>1. /\ pc'[p] = 13 /\ failed'[p] = {name} /\ unmeasured'[p] = Unmeasured(u)
      BY <1>1, <1>2, <2>1, <2>2, <2>4 DEF Fails, Exports, name, u
    <3>2. "redirected" \in u => "total" \in u /\ "transfer" \in u
      BY <1>4, <1>5
    <3>3. "total" \notin u /\ "redirected" \notin u => pc[p] = 2
      BY <1>4, <1>5, <1>9
    <3>4. pc[p] = 2 /\ "redirected" \notin u => "total" \notin u
      BY <1>4, <1>5, <2>1, <2>4
    <3>5. pc[p] \in 2 .. 5 /\ "redirected" \notin u => "transfer" \notin u
      BY <1>4, <1>5, <2>1
    <3>6. "early" \in u => "transfer" \in u /\ "total" \in u
      BY <1>4, <1>5, <1>9, <2>1, <3>2, <3>5, <3>3 DEF Settled
    <3>7. Measures(u, {name}, Unmeasured(u))
      BY <1>6, <1>9, <2>1, <3>2, <3>3, <3>4, <3>5, <3>6 DEF Measures
    <3> QED BY <1>4, <3>1, <3>2, <3>7
  <2> QED BY <2>3, <2>4
<1>10. CASE pc[p] = 8
  <2>1. name = "export"
    BY <1>1, <1>10, HTTPCalls DEF name
  <2>2. /\ pc'[p] = 9 /\ failed'[p] = {} /\ unmeasured'[p] = Unmeasured(u)
    BY <1>2, <1>5, <1>10, <2>1 DEF Succeeds, Exports, name, u
  <2>3. "total" \in u /\ "transfer" \in u
    BY <1>4, <1>5, <1>10
  <2>4. Measures(u, {}, Unmeasured(u))
    BY <1>6, <2>3 DEF Measures
  <2> QED BY <1>4, <2>2, <2>3, <2>4
<1>11. CASE pc[p] \in 9 .. 12
  <2>1. /\ name \in {"transfer", "code", "text", "evaluate"}
        /\ Now(p).onError # "export" /\ name # "export"
    BY <1>1, <1>11, HTTPCalls DEF name
  <2>2. u = t
    BY <1>2, <2>1 DEF Noted
  <2>3. /\ pc'[p] \in Nat /\ pc'[p] > 8 /\ ExportsNot(p)
        /\ failed'[p] = failed[p] \/ failed'[p] = failed[p] \cup {name}
    BY <1>1, <1>2, <1>11, <2>1 DEF Succeeds, Fails, name
  <2>4. /\ failed'[p] \cap Exchange = failed[p] \cap Exchange
        /\ "getConn" \in failed'[p] <=> "getConn" \in failed[p]
        /\ failed'[p] \cap {"getConn", "resolve", "connect", "handshake"}
              = failed[p] \cap {"getConn", "resolve", "connect", "handshake"}
    BY <2>1, <2>3 DEF Exchange
  <2>5. exported'[p] # NoCode => Measures(u, failed'[p], unmeasured'[p])
    BY <1>5, <2>2, <2>3, <2>4 DEF Measures, ExportsNot
  <2> QED BY <1>4, <1>5, <2>2, <2>3, <2>5
<1> QED BY <1>1, <1>8, <1>9, <1>10, <1>11

LEMMA ExportNext == Typed /\ ExportInv /\ [Next]_vars => ExportInv'
<1> SUFFICES ASSUME Typed, ExportInv, [Next]_vars, NEW p \in Probers
             PROVE  /\ kind' = "shell" => ShellInv(p)'
                    /\ kind' \in {"ssh", "sshBastion"} => SSHInv(p)'
                    /\ kind' = "http" => HTTPInv(p)'
  BY DEF ExportInv
<1>1. kind' = kind /\ Script' = Script
  BY CallSteps DEF config, Script
<1>2. /\ kind = "shell" => ShellInv(p)
      /\ kind \in {"ssh", "sshBastion"} => SSHInv(p)
      /\ kind = "http" => HTTPInv(p)
  BY DEF ExportInv
<1>3. /\ pc[p] \in Nat /\ Len(Script) \in Nat
      /\ Calling(p) => pc[p] \in 1 .. Len(Script)
      /\ ended[p] \in Codes
  BY ScriptLength DEF Typed, ConfigTypes, RoundTypes, OtherTypes, Calling
<1>4. CASE Unmoved(p)
  BY <1>1, <1>2, <1>4 DEF Unmoved, ShellInv, SSHInv, HTTPInv
<1>5. CASE Begun(p)
  BY <1>1, <1>5 DEF Begun, ShellInv, SSHInv, HTTPInv, Settled, NoCode
<1>6. CASE Returned(p)
  <2>1. kind = "shell" => ShellInv(p)'
    BY <1>1, <1>2, <1>3, <1>6 DEF Returned, ExportsNot, ShellInv
  <2>2. kind \in {"ssh", "sshBastion"} => SSHInv(p)'
    BY <1>1, <1>2, <1>3, <1>6 DEF Returned, ExportsNot, SSHInv
  <2>3. kind = "http" => HTTPInv(p)'
    BY <1>1, <1>2, <1>3, <1>6 DEF Returned, ExportsNot, HTTPInv
  <2> QED BY <1>1, <2>1, <2>2, <2>3
<1>7. CASE Commanded(p)
  <2>1. PICK code \in Codes :
          /\ ended'[p] = code /\ exit'[p] = ExitCode(p, code)
          /\ IF code = "0" THEN Succeeds(p) ELSE Fails(p)
    BY <1>7 DEF Commanded
  <2>2. Calling(p) /\ Now(p).name = "run" /\ pc[p] \in 1 .. Len(Script)
    BY <1>3, <1>7 DEF Commanded
  <2>3. ASSUME kind = "shell" PROVE ShellInv(p)'
    <3>1. pc[p] = 1
      <4>1. pc[p] = 1 \/ pc[p] = 2 \/ pc[p] = 3
        <5>1. Len(Script) = 3
          BY <2>2, <2>3, ShellCalls
        <5>2. pc[p] \in 1 .. 3
          BY <2>2, <5>1
        <5> QED BY <5>2
      <4> QED BY <2>2, <2>3, <4>1, ShellCalls DEF Now
    <3>2. pc'[p] = 2 /\ ExportsNot(p)
      BY <2>1, <2>3, <3>1, ShellCalls DEF Now, Succeeds, Fails
    <3>3. exit'[p] = Ran(code)
      BY <2>1, <2>3 DEF ExitCode, Ran
    <3> QED BY <1>2, <2>1, <2>3, <3>1, <3>2, <3>3 DEF ShellInv, ExportsNot
  <2>4. ASSUME kind \in {"ssh", "sshBastion"} PROVE SSHInv(p)'
    <3>1. SUFFICES ASSUME code \in {"1", "255"} PROVE SSHInv(p)'
      BY <2>1 DEF SSHInv
    <3>2. Now(p).onError = "export"
      BY <2>2, <2>4, SSHCalls DEF Now
    <3>3. Fails(p) /\ exit'[p] = code
      BY <2>1, <2>4, <3>1 DEF ExitCode, NoCode
    <3> QED BY <1>1, <2>1, <3>2, <3>3 DEF Fails, Exports, SSHInv
  <2>5. kind # "http"
    BY <2>2, HTTPCalls DEF Now
  <2> QED BY <1>1, <2>3, <2>4, <2>5
<1>8. CASE Asked(p)
  <2>1. /\ pc[p] \in 1 .. Len(Script) /\ Now(p) = Script[pc[p]]
        /\ exit'[p] = exit[p] /\ ended'[p] = ended[p]
        /\ Succeeds(p) \/ Fails(p)
    BY <1>3, <1>8 DEF Asked, Now
  <2>2. ASSUME kind = "shell" PROVE ShellInv(p)'
    <3>1. pc[p] = 2 \/ pc[p] = 3
      <4>1. pc[p] = 1 \/ pc[p] = 2 \/ pc[p] = 3
        <5>1. Len(Script) = 3
          BY <2>1, <2>2, ShellCalls
        <5>2. pc[p] \in 1 .. 3
          BY <2>1, <5>1
        <5> QED BY <5>2
      <4> QED BY <1>8, <2>1, <2>2, <4>1, ShellCalls DEF Asked
    <3>2. exit[p] = Ran(ended[p]) /\ pc'[p] \in Nat /\ pc'[p] > 1
      BY <1>2, <2>1, <2>2, <3>1, ShellCalls DEF ShellInv, Succeeds, Fails
    <3>3. exported'[p] = exit'[p] \/ exported'[p] = exported[p]
      BY <2>1 DEF Succeeds, Fails, Exports, ExportsNot
    <3> QED BY <1>2, <2>1, <2>2, <3>2, <3>3 DEF ShellInv
  <2>3. ASSUME kind \in {"ssh", "sshBastion"} PROVE SSHInv(p)'
    <3>1. ended[p] \notin {"1", "255"}
      BY <1>2, <1>3, <2>1, <2>3 DEF SSHInv
    <3> QED BY <2>1, <3>1 DEF SSHInv
  <2>4. ASSUME kind = "http" PROVE HTTPInv(p)'
    BY <1>2, <1>8, <2>4, AskedHTTP
  <2> QED BY <1>1, <2>2, <2>3, <2>4
<1>9. CASE Redirected(p)
  <2>1. kind = "http" /\ pc[p] = 7
    BY <1>3, <1>9, HTTPCalls DEF Redirected, Now
  <2>2. /\ HTTPInv(p) /\ pc'[p] = 2 /\ failed'[p] = {} /\ exported'[p] = NoCode
        /\ "total" \in trace[p] /\ Settled(trace[p])
    BY <1>2, <1>9, <2>1 DEF Redirected, ExportsNot, HTTPInv
  <2>3. /\ trace'[p] = (GotFirstResponseByte(trace[p]) \ {"byte"}) \cup {"redirected"}
    BY <1>9 DEF Redirected
  <2>4. /\ Settled(trace'[p]) /\ "redirected" \in trace'[p]
        /\ "total" \in trace'[p] /\ "transfer" \in trace'[p]
    BY <2>2, <2>3 DEF GotFirstResponseByte, Settled
  <2>5. HTTPInv(p)'
    BY <2>2, <2>4 DEF HTTPInv
  <2> QED BY <1>1, <2>1, <2>5
<1> QED BY <1>4, <1>5, <1>6, <1>7, <1>8, <1>9, CallSteps

\* The exit code and the timings a round exports are of this round.
THEOREM ExportsOfTheRound == Spec => []ExportsThisRound
<1>1. Init => Typed /\ ExportInv
  <2>1. Init => ExportInv
    BY DEF Init, ExportInv, ShellInv, SSHInv, HTTPInv, Settled, NoCode
  <2> QED BY <2>1, TypedInit
<1>2. Typed /\ ExportInv /\ [Next]_vars => (Typed /\ ExportInv)'
  BY TypedNext, ExportNext
<1>3. Typed /\ ExportInv => ExportsThisRound
  BY DEF ExportInv, ShellInv, SSHInv, HTTPInv, Measures, Ran, ExportsThisRound
<1> QED BY <1>1, <1>2, <1>3, PTL DEF Spec

-----------------------------------------------------------------------------
(***************************************************************************)
(* The output of the host probe: the lines of each command follow those of *)
(* the ones before, and the shares of the metrics start where the counts   *)
(* say.                                                                    *)
(***************************************************************************)
LEMMA One == ASSUME NEW S, NEW x \in S PROVE <<x>> \in Seq(S) /\ Len(<<x>>) = 1 /\ <<x>>[1] = x
OBVIOUS

LEMMA Block ==
  ASSUME NEW S, NEW T, T \subseteq S, NEW k \in Nat, NEW b \in [1 .. k -> T]
  PROVE  b \in Seq(S)
OBVIOUS

LEMMA Appended ==
  ASSUME NEW S, NEW s \in Seq(S), NEW b \in Seq(S)
  PROVE  /\ s \o b \in Seq(S) /\ Len(s \o b) = Len(s) + Len(b)
         /\ \A i \in 1 .. Len(s) : (s \o b)[i] = s[i]
         /\ \A i \in Len(s) + 1 .. Len(s) + Len(b) : (s \o b)[i] = b[i - Len(s)]
<1>1. Len(s) \in Nat /\ Len(b) \in Nat
  BY LenProperties
<1>2. /\ s \o b \in Seq(S) /\ Len(s \o b) = Len(s) + Len(b)
      /\ \A i \in 1 .. Len(s) + Len(b) :
           (s \o b)[i] = IF i <= Len(s) THEN s[i] ELSE b[i - Len(s)]
  BY ConcatProperties
<1>3. \A i \in Len(s) + 1 .. Len(s) + Len(b) :
        i \in 1 .. Len(s) + Len(b) /\ ~ (i <= Len(s))
  BY <1>1
<1>4. \A i \in 1 .. Len(s) : i \in 1 .. Len(s) + Len(b) /\ i <= Len(s)
  BY <1>1
<1> QED BY <1>2, <1>3, <1>4

LEMMA MetricsAre ==
  /\ Len(Metrics) = 5 /\ DOMAIN Metrics = 1 .. 5
  /\ Metrics[1] = "basic" /\ Metrics[2] = "cpu" /\ Metrics[3] = "mem"
  /\ Metrics[4] = "disk" /\ Metrics[5] = "load"
BY DEF Metrics

LEMMA CommandsAre ==
  /\ Commands["basic"] = <<"hostname", "os", "cores">> /\ Commands["cpu"] = <<"top">>
  /\ Commands["mem"] = <<"free">> /\ Commands["load"] = <<"cores", "loadavg">>
BY DEF Commands

\* What Before sums up: the shares of the metrics start at these lines.
LEMMA BeforeAre ==
  ASSUME NEW M \in Nat
  PROVE  /\ Before(1, M) = 0 /\ Before(2, M) = 3 /\ Before(3, M) = 4
         /\ Before(4, M) = 5 /\ Before(5, M) = 5 + M /\ Before(6, M) = 7 + M
<1> DEFINE Eq(f) == f = [j \in 1 .. Len(Metrics) + 1 |->
                           IF j = 1 THEN 0
                           ELSE f[j - 1] + OutputLines(Metrics[j - 1], M)]
           w == [j \in 1 .. 6 |-> CASE j = 1 -> 0 [] j = 2 -> 3 [] j = 3 -> 4
                                    [] j = 4 -> 5 [] j = 5 -> 5 + M [] OTHER -> 7 + M]
           g == CHOOSE f : Eq(f)
<1>1. /\ OutputLines(Metrics[1], M) = 3 /\ OutputLines(Metrics[2], M) = 1
      /\ OutputLines(Metrics[3], M) = 1 /\ OutputLines(Metrics[4], M) = M
      /\ OutputLines(Metrics[5], M) = 2
  BY MetricsAre, CommandsAre DEF OutputLines
<1>2. Eq(w)
  <2>1. DOMAIN w = 1 .. 6 /\ 1 .. Len(Metrics) + 1 = 1 .. 6
    BY MetricsAre
  <2>2. /\ w[1] = 0 /\ w[2] = 3 /\ w[3] = 4 /\ w[4] = 5 /\ w[5] = 5 + M /\ w[6] = 7 + M
    OBVIOUS
  <2>3. w = [j \in 1 .. 6 |-> w[j]]
    OBVIOUS
  <2> HIDE DEF w
  <2>4. ASSUME NEW j \in 1 .. 6
        PROVE  w[j] = IF j = 1 THEN 0 ELSE w[j - 1] + OutputLines(Metrics[j - 1], M)
    <3>1. j = 1 \/ j = 2 \/ j = 3 \/ j = 4 \/ j = 5 \/ j = 6
      OBVIOUS
    <3> QED BY <1>1, <2>2, <3>1
  <2>5. [j \in 1 .. 6 |-> w[j]]
          = [j \in 1 .. 6 |-> IF j = 1 THEN 0
                              ELSE w[j - 1] + OutputLines(Metrics[j - 1], M)]
    BY <2>4
  <2> QED BY <2>1, <2>3, <2>5
<1>3. Eq(g)
  <2> HIDE DEF Eq, w
  <2> QED BY <1>2
<1>4. \A i : Before(i, M) = g[i]
  BY DEF Before
<1> HIDE DEF g
<1>5. \A j \in 1 .. 6 :
        g[j] = IF j = 1 THEN 0 ELSE g[j - 1] + OutputLines(Metrics[j - 1], M)
  BY <1>3, MetricsAre
<1> HIDE DEF Eq
<1>6. g[1] = 0 /\ g[2] = 3
  BY <1>1, <1>5
<1>7. g[3] = 4 /\ g[4] = 5
  BY <1>1, <1>5, <1>6
<1>8. g[5] = 5 + M /\ g[6] = 7 + M
  BY <1>1, <1>5, <1>7
<1> QED BY <1>4, <1>6, <1>7, <1>8

\* Where the lines of the commands end, in an output of the script.
Laid(L, M, a, b, c, d, e, f, g, h) ==
  /\ a \in Nat /\ b \in Nat /\ c \in Nat /\ d \in Nat /\ e \in Nat /\ f \in Nat
  /\ g \in Nat /\ h \in Nat
  /\ a <= 1 /\ a <= b /\ b <= a + 1 /\ b <= c /\ c <= b + 1 /\ c <= d /\ d <= c + 3
  /\ d <= e /\ e <= d + 1 /\ e <= f /\ f <= e + M /\ f <= g /\ g <= f + 1
  /\ g <= h /\ h <= g + 1
  /\ Len(L) = h + 1 /\ DOMAIN L = 1 .. h + 1 /\ L[h + 1] = "empty"
  /\ \A k \in 1 .. a : L[k] = "hostname"
  /\ \A k \in a + 1 .. b : L[k] = "os"
  /\ \A k \in b + 1 .. c : L[k] = "cores"
  /\ \A k \in c + 1 .. d : L[k] = "top"
  /\ \A k \in d + 1 .. e : L[k] = "free"
  /\ \A k \in e + 1 .. f : L[k] = "df"
  /\ \A k \in f + 1 .. g : L[k] = "cores"
  /\ \A k \in g + 1 .. h : L[k] = "loadavg"

\* The lines of a command that has none but its own.
Rows(S, b, x, m) ==
  b \in Seq(S) /\ Len(b) \in Nat /\ Len(b) <= m /\ \A i \in 1 .. Len(b) : b[i] = x

LEMMA RowsOf ==
  ASSUME NEW S, NEW x \in S, NEW b \in Line(x)
  PROVE  Rows(S, b, x, 1)
<1>1. b = <<>> \/ b = <<x>>
  BY DEF Line
<1>2. CASE b = <<>>
  <2>1. b \in Seq(S) /\ Len(b) = 0
    BY <1>2
  <2> QED BY <2>1 DEF Rows
<1>3. CASE b = <<x>>
  <2>1. b \in Seq(S) /\ Len(b) = 1 /\ b[1] = x
    BY <1>3
  <2> QED BY <2>1 DEF Rows
<1> QED BY <1>1, <1>2, <1>3

LEMMA TopRows ==
  ASSUME NEW S, "top" \in S, NEW b \in Top
  PROVE  Rows(S, b, "top", 3)
<1>1. \/ b = <<>> \/ b = <<"top">> \/ b = <<"top", "top">>
      \/ b = <<"top", "top", "top">>
  BY DEF Top
<1>2. CASE b = <<>>
  <2>1. b \in Seq(S) /\ Len(b) = 0
    BY <1>2
  <2> QED BY <2>1 DEF Rows
<1>3. CASE b = <<"top">>
  <2>1. b \in Seq(S) /\ Len(b) = 1 /\ b[1] = "top"
    BY <1>3
  <2> QED BY <2>1 DEF Rows
<1>4. CASE b = <<"top", "top">>
  <2>1. b \in Seq(S) /\ Len(b) = 2 /\ b[1] = "top" /\ b[2] = "top"
    BY <1>4
  <2> QED BY <2>1 DEF Rows
<1>5. CASE b = <<"top", "top", "top">>
  <2>1. b \in Seq(S) /\ Len(b) = 3 /\ b[1] = "top" /\ b[2] = "top" /\ b[3] = "top"
    BY <1>5
  <2> QED BY <2>1 DEF Rows
<1> QED BY <1>1, <1>2, <1>3, <1>4, <1>5

\* Where no line of df wraps, there is one for each mount at most.
LEMMA DfRows ==
  ASSUME NEW S, {"df", "wrapped", "rest"} \subseteq S, NEW M \in Nat, NEW b \in Df(M),
         \A i \in DOMAIN b : b[i] # "wrapped"
  PROVE  Rows(S, b, "df", M)
<1>1. PICK k \in 0 .. 2 * M : b \in [1 .. k -> {"df", "wrapped", "rest"}]
  BY DEF Df
<1>2. /\ Cardinality({ i \in DOMAIN b : b[i] # "rest" }) <= M
      /\ \A i \in DOMAIN b : b[i] = "rest" <=> i > 1 /\ b[i - 1] = "wrapped"
  BY DEF Df
<1>3. k \in Nat /\ DOMAIN b = 1 .. k
  BY <1>1
<1>4. b \in Seq(S) /\ Len(b) = k
  BY <1>1, <1>3
<1>5. ASSUME NEW i \in 1 .. k PROVE b[i] = "df"
  <2>1. b[i] # "rest"
    <3>1. i > 1 => i - 1 \in 1 .. k
      BY <1>3
    <3> QED BY <1>2, <1>3, <3>1
  <2> QED BY <1>1, <1>3, <2>1
<1>6. { i \in DOMAIN b : b[i] # "rest" } = 1 .. k
  BY <1>3, <1>5
<1>7. Cardinality(1 .. k) = k
  BY <1>3, FS_Interval
<1> QED BY <1>2, <1>3, <1>4, <1>5, <1>6, <1>7 DEF Rows

\* A sequence that begins with t.
StartsWith(t, L) == /\ Len(t) <= Len(L)
                 /\ \A k \in 1 .. Len(t) : L[k] = t[k]

\* The sequence t lies in L after the n-th element.
Placed(L, n, t) ==
  n + Len(t) <= Len(L) /\ \A i \in 1 .. Len(t) : n + i \in 1 .. Len(L) /\ L[n + i] = t[i]

LEMMA Unappended ==
  ASSUME NEW S, NEW t \in Seq(S), NEW b \in Seq(S), NEW L \in Seq(S),
         StartsWith(t \o b, L)
  PROVE  /\ StartsWith(t, L) /\ Placed(L, Len(t), b)
         /\ Len(t) \in Nat /\ Len(t \o b) = Len(t) + Len(b)
<1>1. Len(t) \in Nat /\ Len(b) \in Nat /\ Len(L) \in Nat
  BY LenProperties
<1>2. /\ Len(t \o b) = Len(t) + Len(b)
      /\ \A i \in 1 .. Len(t) : (t \o b)[i] = t[i]
      /\ \A i \in Len(t) + 1 .. Len(t) + Len(b) : (t \o b)[i] = b[i - Len(t)]
  BY Appended
<1>3. /\ Len(t) + Len(b) <= Len(L)
      /\ \A k \in 1 .. Len(t) + Len(b) : L[k] = (t \o b)[k]
  BY <1>2 DEF StartsWith
<1>4. StartsWith(t, L)
  <2>1. \A k \in 1 .. Len(t) : k \in 1 .. Len(t) + Len(b)
    BY <1>1
  <2>2. Len(t) <= Len(L)
    BY <1>1, <1>3
  <2> QED BY <1>2, <1>3, <2>1, <2>2 DEF StartsWith
<1>5. Placed(L, Len(t), b)
  <2>1. \A i \in 1 .. Len(b) : /\ Len(t) + i \in 1 .. Len(t) + Len(b)
                              /\ Len(t) + i \in Len(t) + 1 .. Len(t) + Len(b)
                              /\ Len(t) + i \in 1 .. Len(L)
                              /\ (Len(t) + i) - Len(t) = i
    BY <1>1, <1>3
  <2> QED BY <1>2, <1>3, <2>1 DEF Placed
<1> QED BY <1>1, <1>2, <1>4, <1>5

\* The rows of a command within the output.
LEMMA RowsAt ==
  ASSUME NEW S, NEW t \in Seq(S), NEW b, NEW x, NEW m, NEW L \in Seq(S),
         Rows(S, b, x, m), StartsWith(t \o b, L)
  PROVE  /\ StartsWith(t, L) /\ Len(t \o b) = Len(t) + Len(b)
         /\ \A k \in Len(t) + 1 .. Len(t) + Len(b) : L[k] = x
<1>1. b \in Seq(S) /\ Len(b) \in Nat /\ \A i \in 1 .. Len(b) : b[i] = x
  BY DEF Rows
<1>2. /\ StartsWith(t, L) /\ Len(t \o b) = Len(t) + Len(b)
      /\ Placed(L, Len(t), b) /\ Len(t) \in Nat
  BY <1>1, Unappended
<1>3. ASSUME NEW k \in Len(t) + 1 .. Len(t) + Len(b) PROVE L[k] = x
  <2>1. k - Len(t) \in 1 .. Len(b) /\ Len(t) + (k - Len(t)) = k
    BY <1>1, <1>2
  <2> QED BY <1>1, <1>2, <2>1 DEF Placed
<1> QED BY <1>2, <1>3

LEMMA Joined == ASSUME NEW Q, NEW P, NEW L \in Q ** P PROVE \E q \in Q, r \in P : L = q \o r
BY DEF **

LEMMA OutputLaid ==
  ASSUME NEW M \in Nat, NEW L \in Outputs(M), ~ Surplus(L)
  PROVE  \E a, b, c, d, e, f, g, h : Laid(L, M, a, b, c, d, e, f, g, h)
<1> DEFINE S == {"hostname", "os", "cores", "top", "free", "df", "wrapped", "rest",
                 "loadavg", "empty"}
<1>1. /\ "hostname" \in S /\ "os" \in S /\ "cores" \in S /\ "top" \in S /\ "free" \in S
      /\ {"df", "wrapped", "rest"} \subseteq S /\ "loadavg" \in S /\ "empty" \in S
  OBVIOUS
<1> HIDE DEF S
<1> DEFINE T1 == Line("hostname")
           T2 == T1 ** Line("os")
           T3 == T2 ** Line("cores")
           T4 == T3 ** Top
           T5 == T4 ** Line("free")
           T6 == T5 ** Df(M)
           T7 == T6 ** Line("cores")
           T8 == T7 ** Line("loadavg")
<1>2. PICK t8 \in T8, b9 \in {<<"empty">>} : L = t8 \o b9
  <2>1. L \in T8 ** {<<"empty">>}
    BY Zenon DEF Outputs
  <2> HIDE DEF T8
  <2> QED BY ONLY <2>1, Joined
<1>3. PICK t7 \in T7, b8 \in Line("loadavg") : t8 = t7 \o b8
  <2>1. t8 \in T7 ** Line("loadavg")
    OBVIOUS
  <2> HIDE DEF T7, T8
  <2> QED BY ONLY <2>1, Joined
<1>4. PICK t6 \in T6, b7 \in Line("cores") : t7 = t6 \o b7
  <2>1. t7 \in T6 ** Line("cores")
    OBVIOUS
  <2> HIDE DEF T6, T7, T8
  <2> QED BY ONLY <2>1, Joined
<1>5. PICK t5 \in T5, b6 \in Df(M) : t6 = t5 \o b6
  <2>1. t6 \in T5 ** Df(M)
    OBVIOUS
  <2> HIDE DEF T5, T6, T7, T8
  <2> QED BY ONLY <2>1, Joined
<1>6. PICK t4 \in T4, b5 \in Line("free") : t5 = t4 \o b5
  <2>1. t5 \in T4 ** Line("free")
    OBVIOUS
  <2> HIDE DEF T4, T5, T6, T7, T8
  <2> QED BY ONLY <2>1, Joined
<1>7. PICK t3 \in T3, b4 \in Top : t4 = t3 \o b4
  <2>1. t4 \in T3 ** Top
    OBVIOUS
  <2> HIDE DEF T3, T4, T5, T6, T7, T8
  <2> QED BY ONLY <2>1, Joined
<1>8. PICK t2 \in T2, b3 \in Line("cores") : t3 = t2 \o b3
  <2>1. t3 \in T2 ** Line("cores")
    OBVIOUS
  <2> HIDE DEF T2, T3, T4, T5, T6, T7, T8
  <2> QED BY ONLY <2>1, Joined
<1>9. PICK t1 \in T1, b2 \in Line("os") : t2 = t1 \o b2
  <2>1. t2 \in T1 ** Line("os")
    OBVIOUS
  <2> HIDE DEF T1, T2, T3, T4, T5, T6, T7, T8
  <2> QED BY ONLY <2>1, Joined
<1> HIDE DEF T2, T3, T4, T5, T6, T7, T8
<1>10. /\ Rows(S, t1, "hostname", 1) /\ Rows(S, b2, "os", 1) /\ Rows(S, b3, "cores", 1)
       /\ Rows(S, b4, "top", 3) /\ Rows(S, b5, "free", 1) /\ Rows(S, b7, "cores", 1)
       /\ Rows(S, b8, "loadavg", 1)
  BY <1>1, RowsOf, TopRows
<1>11. b6 \in Seq(S)
  <2>1. PICK k \in 0 .. 2 * M : b6 \in [1 .. k -> {"df", "wrapped", "rest"}]
    BY DEF Df
  <2>2. k \in Nat
    OBVIOUS
  <2> QED BY <1>1, <2>1, <2>2, Block
<1>12. b9 \in Seq(S) /\ Len(b9) = 1 /\ b9[1] = "empty"
  BY <1>1, One
<1>13. /\ t1 \in Seq(S) /\ b2 \in Seq(S) /\ b3 \in Seq(S) /\ b4 \in Seq(S)
       /\ b5 \in Seq(S) /\ b7 \in Seq(S) /\ b8 \in Seq(S)
  BY <1>10 DEF Rows
<1>14. /\ t2 \in Seq(S) /\ t3 \in Seq(S) /\ t4 \in Seq(S) /\ t5 \in Seq(S)
       /\ t6 \in Seq(S) /\ t7 \in Seq(S) /\ t8 \in Seq(S) /\ L \in Seq(S)
  <2>1. \A r, q \in Seq(S) : r \o q \in Seq(S)
    OBVIOUS
  <2> QED BY <1>2, <1>3, <1>4, <1>5, <1>6, <1>7, <1>8, <1>9, <1>11, <1>12, <1>13,
             <2>1, Zenon
<1>15. DOMAIN L = 1 .. Len(L) /\ Len(L) \in Nat
  BY <1>14, LenProperties
<1>16. /\ StartsWith(t8, L) /\ Len(L) = Len(t8) + 1 /\ L[Len(t8) + 1] = "empty"
  <2>1. StartsWith(L, L)
    BY <1>15 DEF StartsWith
  <2>2. StartsWith(t8 \o b9, L) /\ Len(L) = Len(t8 \o b9)
    BY <1>2, <2>1, Zenon
  <2>3. /\ StartsWith(t8, L) /\ Placed(L, Len(t8), b9)
        /\ Len(t8 \o b9) = Len(t8) + Len(b9)
    BY <1>12, <1>14, <2>2, Unappended
  <2>4. 1 \in 1 .. Len(b9)
    BY <1>12
  <2> QED BY <1>12, <2>2, <2>3, <2>4 DEF Placed
<1>17. /\ StartsWith(t7, L) /\ Len(t8) = Len(t7) + Len(b8)
       /\ \A k \in Len(t7) + 1 .. Len(t7) + Len(b8) : L[k] = "loadavg"
  <2>1. StartsWith(t7 \o b8, L)
    BY <1>3, <1>16
  <2>2. /\ StartsWith(t7, L) /\ Len(t7 \o b8) = Len(t7) + Len(b8)
        /\ \A k \in Len(t7) + 1 .. Len(t7) + Len(b8) : L[k] = "loadavg"
    BY <1>10, <1>14, <2>1, RowsAt
  <2> QED BY <1>3, <2>2
<1>18. /\ StartsWith(t6, L) /\ Len(t7) = Len(t6) + Len(b7)
       /\ \A k \in Len(t6) + 1 .. Len(t6) + Len(b7) : L[k] = "cores"
  <2>1. StartsWith(t6 \o b7, L)
    BY <1>4, <1>17
  <2>2. /\ StartsWith(t6, L) /\ Len(t6 \o b7) = Len(t6) + Len(b7)
        /\ \A k \in Len(t6) + 1 .. Len(t6) + Len(b7) : L[k] = "cores"
    BY <1>10, <1>14, <2>1, RowsAt
  <2> QED BY <1>4, <2>2
<1>19. Rows(S, b6, "df", M)
  <2>1. StartsWith(t5 \o b6, L)
    BY <1>5, <1>18
  <2>2. Placed(L, Len(t5), b6)
    BY <1>11, <1>14, <2>1, Unappended
  <2>3. DOMAIN b6 = 1 .. Len(b6)
    BY <1>11, LenProperties
  <2>4. ASSUME NEW i \in DOMAIN b6 PROVE b6[i] # "wrapped"
    BY <1>15, <2>2, <2>3 DEF Placed, Surplus
  <2> QED BY <1>1, <2>4, DfRows
<1>20. /\ StartsWith(t5, L) /\ Len(t6) = Len(t5) + Len(b6)
       /\ \A k \in Len(t5) + 1 .. Len(t5) + Len(b6) : L[k] = "df"
  <2>1. StartsWith(t5 \o b6, L)
    BY <1>5, <1>18
  <2>2. /\ StartsWith(t5, L) /\ Len(t5 \o b6) = Len(t5) + Len(b6)
        /\ \A k \in Len(t5) + 1 .. Len(t5) + Len(b6) : L[k] = "df"
    BY <1>19, <1>14, <2>1, RowsAt
  <2> QED BY <1>5, <2>2
<1>21. /\ StartsWith(t4, L) /\ Len(t5) = Len(t4) + Len(b5)
       /\ \A k \in Len(t4) + 1 .. Len(t4) + Len(b5) : L[k] = "free"
  <2>1. StartsWith(t4 \o b5, L)
    BY <1>6, <1>20
  <2>2. /\ StartsWith(t4, L) /\ Len(t4 \o b5) = Len(t4) + Len(b5)
        /\ \A k \in Len(t4) + 1 .. Len(t4) + Len(b5) : L[k] = "free"
    BY <1>10, <1>14, <2>1, RowsAt
  <2> QED BY <1>6, <2>2
<1>22. /\ StartsWith(t3, L) /\ Len(t4) = Len(t3) + Len(b4)
       /\ \A k \in Len(t3) + 1 .. Len(t3) + Len(b4) : L[k] = "top"
  <2>1. StartsWith(t3 \o b4, L)
    BY <1>7, <1>21
  <2>2. /\ StartsWith(t3, L) /\ Len(t3 \o b4) = Len(t3) + Len(b4)
        /\ \A k \in Len(t3) + 1 .. Len(t3) + Len(b4) : L[k] = "top"
    BY <1>10, <1>14, <2>1, RowsAt
  <2> QED BY <1>7, <2>2
<1>23. /\ StartsWith(t2, L) /\ Len(t3) = Len(t2) + Len(b3)
       /\ \A k \in Len(t2) + 1 .. Len(t2) + Len(b3) : L[k] = "cores"
  <2>1. StartsWith(t2 \o b3, L)
    BY <1>8, <1>22
  <2>2. /\ StartsWith(t2, L) /\ Len(t2 \o b3) = Len(t2) + Len(b3)
        /\ \A k \in Len(t2) + 1 .. Len(t2) + Len(b3) : L[k] = "cores"
    BY <1>10, <1>14, <2>1, RowsAt
  <2> QED BY <1>8, <2>2
<1>24. /\ StartsWith(t1, L) /\ Len(t2) = Len(t1) + Len(b2)
       /\ \A k \in Len(t1) + 1 .. Len(t1) + Len(b2) : L[k] = "os"
  <2>1. StartsWith(t1 \o b2, L)
    BY <1>9, <1>23
  <2>2. /\ StartsWith(t1, L) /\ Len(t1 \o b2) = Len(t1) + Len(b2)
        /\ \A k \in Len(t1) + 1 .. Len(t1) + Len(b2) : L[k] = "os"
    BY <1>10, <1>13, <1>14, <2>1, RowsAt
  <2> QED BY <1>9, <2>2
<1>25. \A k \in 1 .. Len(t1) : L[k] = "hostname"
  BY <1>10, <1>24 DEF Rows, StartsWith
<1> DEFINE a == Len(t1)
           b == Len(t2)
           c == Len(t3)
           d == Len(t4)
           e == Len(t5)
           f == Len(t6)
           g == Len(t7)
           h == Len(t8)
<1>26. /\ b = a + Len(b2) /\ c = b + Len(b3) /\ d = c + Len(b4) /\ e = d + Len(b5)
       /\ f = e + Len(b6) /\ g = f + Len(b7) /\ h = g + Len(b8)
  BY <1>17, <1>18, <1>20, <1>21, <1>22, <1>23, <1>24
<1>27. /\ a \in Nat /\ a <= 1 /\ Len(b2) \in 0 .. 1 /\ Len(b3) \in 0 .. 1
       /\ Len(b4) \in 0 .. 3 /\ Len(b5) \in 0 .. 1 /\ Len(b6) \in 0 .. M
       /\ Len(b7) \in 0 .. 1 /\ Len(b8) \in 0 .. 1
  <2>1. \A r, x : \A m \in Nat : Rows(S, r, x, m) => Len(r) \in 0 .. m
    BY DEF Rows
  <2>2. a \in Nat /\ a <= 1
    BY <1>10, <2>1
  <2>3. Len(b2) \in 0 .. 1 /\ Len(b3) \in 0 .. 1 /\ Len(b4) \in 0 .. 3
    BY <1>10, <2>1
  <2>4. Len(b5) \in 0 .. 1 /\ Len(b6) \in 0 .. M /\ Len(b7) \in 0 .. 1
    BY <1>10, <1>19, <2>1
  <2>5. Len(b8) \in 0 .. 1
    BY <1>10, <2>1
  <2> QED BY <2>2, <2>3, <2>4, <2>5, Zenon
<1>28. /\ Len(L) = h + 1 /\ DOMAIN L = 1 .. h + 1 /\ L[h + 1] = "empty"
       /\ \A k \in 1 .. a : L[k] = "hostname"
       /\ \A k \in a + 1 .. b : L[k] = "os"
       /\ \A k \in b + 1 .. c : L[k] = "cores"
       /\ \A k \in c + 1 .. d : L[k] = "top"
       /\ \A k \in d + 1 .. e : L[k] = "free"
       /\ \A k \in e + 1 .. f : L[k] = "df"
       /\ \A k \in f + 1 .. g : L[k] = "cores"
       /\ \A k \in g + 1 .. h : L[k] = "loadavg"
  BY <1>15, <1>16, <1>17, <1>18, <1>20, <1>21, <1>22, <1>23, <1>24, <1>25, Zenon
<1> HIDE DEF a, b, c, d, e, f, g, h
<1>29. /\ b \in Nat /\ c \in Nat /\ d \in Nat /\ e \in Nat /\ f \in Nat
       /\ g \in Nat /\ h \in Nat
       /\ a <= b /\ b <= a + 1 /\ b <= c /\ c <= b + 1 /\ c <= d /\ d <= c + 3
       /\ d <= e /\ e <= d + 1 /\ e <= f /\ f <= e + M /\ f <= g /\ g <= f + 1
       /\ g <= h /\ h <= g + 1
  <2>1. PICK n2, n3, n4, n5, n6, n7, n8 :
          /\ n2 = Len(b2) /\ n3 = Len(b3) /\ n4 = Len(b4) /\ n5 = Len(b5)
          /\ n6 = Len(b6) /\ n7 = Len(b7) /\ n8 = Len(b8)
    OBVIOUS
  <2>2. /\ n2 \in 0 .. 1 /\ n3 \in 0 .. 1 /\ n4 \in 0 .. 3 /\ n5 \in 0 .. 1
        /\ n6 \in 0 .. M /\ n7 \in 0 .. 1 /\ n8 \in 0 .. 1 /\ a \in Nat
    BY <1>27, <2>1
  <2>3. /\ b = a + n2 /\ c = b + n3 /\ d = c + n4 /\ e = d + n5
        /\ f = e + n6 /\ g = f + n7 /\ h = g + n8
    BY <1>26, <2>1
  <2> QED BY ONLY M \in Nat, <2>2, <2>3
<1>30. Laid(L, M, a, b, c, d, e, f, g, h)
  BY <1>27, <1>28, <1>29 DEF Laid
<1> QED BY <1>30

\* A piece of a sequence.
LEMMA SubSeqAt ==
  ASSUME NEW s, NEW m \in Nat, NEW n \in Nat, m <= n
  PROVE  /\ \E S : SubSeq(s, m, n) \in Seq(S)
         /\ Len(SubSeq(s, m, n)) = n - m + 1
         /\ DOMAIN SubSeq(s, m, n) = 1 .. n - m + 1
         /\ \A i \in 1 .. n - m + 1 : SubSeq(s, m, n)[i] = s[m + i - 1]
<1> DEFINE S == { s[i] : i \in m .. n }
<1>1. \A i \in m .. n : s[i] \in S
  OBVIOUS
<1> HIDE DEF S
<1>2. /\ SubSeq(s, m, n) \in Seq(S) /\ Len(SubSeq(s, m, n)) = n - m + 1
      /\ \A i \in 1 .. n - m + 1 : SubSeq(s, m, n)[i] = s[m + i - 1]
  BY <1>1, SubSeqProperties
<1>3. DOMAIN SubSeq(s, m, n) = 1 .. Len(SubSeq(s, m, n))
  BY <1>2, LenProperties
<1> QED BY <1>2, <1>3

Piece(s, m, n, t) ==
  /\ \E S : t \in Seq(S)
  /\ Len(t) = n - m + 1
  /\ \A i \in 1 .. n - m + 1 : t[i] = s[m + i - 1]

LEMMA PieceAt ==
  ASSUME NEW s, NEW m \in Nat, NEW n \in Nat, m <= n
  PROVE  Piece(s, m, n, SubSeq(s, m, n))
BY SubSeqAt DEF Piece

LEMMA FieldsOf ==
  ASSUME NEW x
  PROVE  /\ Commas(x) >= 8 => x = "top"
         /\ Blanks(x) >= 4 => x \notin {"free", "cores", "loadavg", "empty"}
         /\ Blanks(x) >= 3 => x \notin {"cores", "empty"}
<1>1. Commas(x) >= 8 => x = "top"
  BY DEF Commas
<1>2. /\ Blanks("free") = 3 /\ Blanks("loadavg") = 3 /\ Blanks("cores") = 1
      /\ Blanks("empty") = 1
  BY DEF Blanks
<1>3. x \in {"cores", "empty"} => Blanks(x) = 1
  BY <1>2, Zenon
<1>4. x \in {"free", "loadavg"} => Blanks(x) = 3
  BY <1>2, Zenon
<1>5. PICK n : n = Blanks(x)
  OBVIOUS
<1>6. (n = 1 => ~ (n >= 3) /\ ~ (n >= 4)) /\ (n = 3 => ~ (n >= 4))
  OBVIOUS
<1>7. Blanks(x) >= 3 => x \notin {"cores", "empty"}
  BY <1>3, <1>5, <1>6, Zenon
<1>8. Blanks(x) >= 4 => x \notin {"free", "cores", "loadavg", "empty"}
  BY <1>3, <1>4, <1>5, <1>6, Zenon
<1> QED BY <1>1, <1>7, <1>8

LEMMA SharesAre ==
  ASSUME NEW M \in Nat \ {0}, NEW L
  PROVE  /\ Share(1, L, M) = SubSeq(L, 1, 3) /\ Share(2, L, M) = SubSeq(L, 4, 4)
         /\ Share(3, L, M) = SubSeq(L, 5, 5)
         /\ Share(4, L, M) = SubSeq(L, 6, 5 + M)
         /\ Share(5, L, M) = SubSeq(L, 6 + M, 7 + M)
<1>1. /\ Before(1, M) = 0 /\ Before(2, M) = 3 /\ Before(3, M) = 4
      /\ Before(4, M) = 5 /\ Before(5, M) = 5 + M /\ Before(6, M) = 7 + M
  BY BeforeAre
<1>2. /\ 0 + 1 = 1 /\ 3 + 1 = 4 /\ 4 + 1 = 5 /\ 5 + 1 = 6 /\ (5 + M) + 1 = 6 + M
      /\ 1 + 1 = 2 /\ 2 + 1 = 3
  OBVIOUS
<1> QED BY <1>1, <1>2 DEF Share

\* With one line for the processors, an output that can be parsed has all the
\* lines: its fourth line is that of top, so the first three are there; the
\* last of the disks' is one of df, which comes after that of free; and the
\* last line of all is that of the load.
LEMMA HostChecked ==
  ASSUME NEW M \in Nat \ {0}, NEW L \in Outputs(M), NEW busy,
         ParseHostInfo(L, M, busy) = "value"
  PROVE  OwnLines(L, M) \/ Surplus(L)
<1> SUFFICES ASSUME ~ Surplus(L) PROVE OwnLines(L, M)
  OBVIOUS
<1>1. PICK a, b, c, d, e, f, g, h : Laid(L, M, a, b, c, d, e, f, g, h)
  BY OutputLaid
<1>2. /\ a \in Nat /\ b \in Nat /\ c \in Nat /\ d \in Nat /\ e \in Nat /\ f \in Nat
      /\ g \in Nat /\ h \in Nat /\ M \in Nat /\ M >= 1
  <2>1. /\ a \in Nat /\ b \in Nat /\ c \in Nat /\ d \in Nat /\ e \in Nat /\ f \in Nat
        /\ g \in Nat /\ h \in Nat
    BY <1>1, Zenon DEF Laid
  <2>2. M \in Nat /\ M >= 1
    OBVIOUS
  <2> QED BY <2>1, <2>2
<1>3. /\ a <= 1 /\ a <= b /\ b <= a + 1 /\ b <= c /\ c <= b + 1 /\ c <= d
      /\ d <= c + 3 /\ d <= e /\ e <= d + 1 /\ e <= f /\ f <= e + M /\ f <= g
      /\ g <= f + 1 /\ g <= h /\ h <= g + 1
  BY <1>1, Zenon DEF Laid
<1>4. /\ Share(1, L, M) = SubSeq(L, 1, 3) /\ Share(2, L, M) = SubSeq(L, 4, 4)
      /\ Share(3, L, M) = SubSeq(L, 5, 5)
      /\ Share(4, L, M) = SubSeq(L, 6, 5 + M)
      /\ Share(5, L, M) = SubSeq(L, 6 + M, 7 + M)
  BY SharesAre
<1>5. /\ h + 1 >= 7 + M
      /\ HasFields("cpu", Share(2, L, M)) /\ HasFields("disk", Share(4, L, M))
      /\ HasFields("load", Share(5, L, M))
  <2>1. /\ Len(L) >= Before(6, M)
        /\ \A i \in 1 .. 5 : Parse(Metrics[i], Share(i, L, M), busy) = "value"
    <3>1. /\ ~ (Len(L) < Before(6, M))
          /\ \A i \in 1 .. 5 : Parse(Metrics[i], Share(i, L, M), busy) = "value"
      <4>1. /\ ~ (Len(L) < Before(Len(Metrics) + 1, M))
            /\ \A i \in DOMAIN Metrics : Parse(Metrics[i], Share(i, L, M), busy) = "value"
        BY DEF ParseHostInfo
      <4>2. Len(Metrics) + 1 = 6 /\ DOMAIN Metrics = 1 .. 5
        BY MetricsAre
      <4>3. ~ (Len(L) < Before(6, M))
        BY <4>1, <4>2
      <4>4. \A i \in 1 .. 5 : Parse(Metrics[i], Share(i, L, M), busy) = "value"
        BY <4>1, <4>2, Zenon
      <4> QED BY <4>3, <4>4
    <3>2. Before(6, M) \in Nat /\ Len(L) \in Nat
      <4>1. Before(6, M) = 7 + M /\ Len(L) = h + 1
        BY <1>1, BeforeAre DEF Laid
      <4> QED BY <1>2, <4>1
    <3> QED BY <3>1, <3>2
  <2>2. Before(6, M) = 7 + M
    BY BeforeAre
  <2>3. Len(L) = h + 1
    BY <1>1 DEF Laid
  <2>4. 2 \in 1 .. 5 /\ 4 \in 1 .. 5 /\ 5 \in 1 .. 5
    OBVIOUS
  <2>5. \A i \in 1 .. 5 : HasFields(Metrics[i], Share(i, L, M))
    BY <2>1 DEF Parse
  <2> QED BY <2>1, <2>2, <2>3, <2>4, <2>5, MetricsAre
<1>6. /\ SubSeq(L, 4, 4)[1] = L[4]
      /\ M \in DOMAIN SubSeq(L, 6, 5 + M) /\ SubSeq(L, 6, 5 + M)[M] = L[5 + M]
      /\ SubSeq(L, 6 + M, 7 + M)[2] = L[7 + M]
  <2>1. SubSeq(L, 4, 4)[1] = L[4]
    <3>1. \A i \in 1 .. 4 - 4 + 1 : SubSeq(L, 4, 4)[i] = L[4 + i - 1]
      BY SubSeqAt
    <3>2. 1 \in 1 .. 4 - 4 + 1 /\ 4 + 1 - 1 = 4
      OBVIOUS
    <3> QED BY <3>1, <3>2
  <2>2. M \in DOMAIN SubSeq(L, 6, 5 + M) /\ SubSeq(L, 6, 5 + M)[M] = L[5 + M]
    <3>1. /\ DOMAIN SubSeq(L, 6, 5 + M) = 1 .. (5 + M) - 6 + 1
          /\ \A i \in 1 .. (5 + M) - 6 + 1 : SubSeq(L, 6, 5 + M)[i] = L[6 + i - 1]
      BY <1>2, SubSeqAt
    <3>2. M \in 1 .. (5 + M) - 6 + 1 /\ 6 + M - 1 = 5 + M
      BY <1>2
    <3> QED BY <3>1, <3>2
  <2>3. SubSeq(L, 6 + M, 7 + M)[2] = L[7 + M]
    <3>1. \A i \in 1 .. (7 + M) - (6 + M) + 1 :
            SubSeq(L, 6 + M, 7 + M)[i] = L[(6 + M) + i - 1]
      BY <1>2, SubSeqAt
    <3>2. 2 \in 1 .. (7 + M) - (6 + M) + 1 /\ (6 + M) + 2 - 1 = 7 + M
      BY <1>2
    <3> QED BY <3>1, <3>2
  <2> QED BY <2>1, <2>2, <2>3
<1>7. L[4] = "top" /\ Blanks(L[5 + M]) >= 4 /\ Blanks(L[7 + M]) >= 3
  <2>1. Commas(SubSeq(L, 4, 4)[1]) >= 8
    BY <1>4, <1>5 DEF HasFields
  <2>2. \A i \in DOMAIN SubSeq(L, 6, 5 + M) : Blanks(SubSeq(L, 6, 5 + M)[i]) >= 4
    BY <1>4, <1>5 DEF HasFields
  <2>3. Blanks(SubSeq(L, 6 + M, 7 + M)[2]) >= 3
    BY <1>4, <1>5 DEF HasFields
  <2> QED BY <1>6, <2>1, <2>2, <2>3, FieldsOf
<1>8. d <= c + 1
  <2> SUFFICES ASSUME c + 2 <= d PROVE FALSE
    BY <1>2, <1>3
  <2>1. c + 1 \in c + 1 .. d /\ c + 2 \in c + 1 .. d
    BY <1>2
  <2>2. L[c + 1] = "top" /\ L[c + 2] = "top"
    BY <1>1, <2>1 DEF Laid
  <2>3. c + 1 \in DOMAIN L /\ c + 2 \in DOMAIN L /\ c + 1 # c + 2
    <3>1. DOMAIN L = 1 .. h + 1
      BY <1>1, Zenon DEF Laid
    <3>2. c + 1 \in 1 .. h + 1 /\ c + 2 \in 1 .. h + 1 /\ c + 1 # c + 2
      BY <1>2, <1>3
    <3> QED BY <3>1, <3>2
  <2> QED BY <2>2, <2>3 DEF Surplus
<1>9. a = 1 /\ b = 2 /\ c = 3 /\ d = 4
  <2>1. ~ (4 \in d + 1 .. e) /\ ~ (4 \in e + 1 .. f) /\ ~ (4 \in f + 1 .. g)
        /\ ~ (4 \in g + 1 .. h) /\ 4 # h + 1
    BY <1>1, <1>7 DEF Laid
  <2>2. 4 <= h + 1
    BY <1>2, <1>5
  <2>3. 4 <= d
    BY <1>2, <1>3, <2>1, <2>2
  <2> QED BY <1>2, <1>3, <1>8, <2>3
<1>10. e = 5 /\ f = 5 + M
  <2>1. L[5 + M] \notin {"free", "cores", "loadavg", "empty"}
    BY <1>7, FieldsOf
  <2>2. /\ ~ (5 + M \in d + 1 .. e) /\ ~ (5 + M \in f + 1 .. g)
        /\ ~ (5 + M \in g + 1 .. h) /\ 5 + M # h + 1
    BY <1>1, <2>1 DEF Laid
  <2>3. 5 + M <= f
    BY <1>2, <1>3, <1>5, <1>9, <2>2
  <2> QED BY <1>2, <1>3, <1>9, <2>3
<1>11. g = 6 + M /\ h = 7 + M
  <2>1. L[7 + M] \notin {"cores", "empty"}
    BY <1>7, FieldsOf
  <2>2. ~ (7 + M \in f + 1 .. g) /\ 7 + M # h + 1
    BY <1>1, <2>1 DEF Laid
  <2> QED BY <1>2, <1>3, <1>5, <1>10, <2>2
<1>12. /\ L[1] = "hostname" /\ L[2] = "os" /\ L[3] = "cores" /\ L[5] = "free"
       /\ \A k \in 6 .. 5 + M : L[k] = "df"
       /\ L[6 + M] = "cores" /\ L[7 + M] = "loadavg"
  <2>1. /\ 1 \in 1 .. a /\ 2 \in a + 1 .. b /\ 3 \in b + 1 .. c /\ 5 \in d + 1 .. e
        /\ e + 1 = 6 /\ f = 5 + M /\ 6 + M \in f + 1 .. g /\ 7 + M \in g + 1 .. h
    BY <1>2, <1>9, <1>10, <1>11
  <2> QED BY <1>1, <2>1 DEF Laid
<1>13. /\ SubSeq(L, 1, 3) = <<"hostname", "os", "cores">>
       /\ SubSeq(L, 4, 4) = <<"top">> /\ SubSeq(L, 5, 5) = <<"free">>
  <2>1. SubSeq(L, 1, 3) = <<"hostname", "os", "cores">>
    <3> DEFINE t == SubSeq(L, 1, 3)
    <3>1. /\ \E S : t \in Seq(S)
          /\ Len(t) = 3 - 1 + 1 /\ \A i \in 1 .. 3 - 1 + 1 : t[i] = L[1 + i - 1]
      <4>1. PICK m, n : m = 1 /\ n = 3
        OBVIOUS
      <4>2. m \in Nat /\ n \in Nat /\ m <= n
        BY <4>1
      <4>3. Piece(L, m, n, SubSeq(L, m, n))
        BY <4>2, PieceAt
      <4> QED BY <4>1, <4>3 DEF Piece
    <3>2. Len(t) = 3 /\ t[1] = L[1] /\ t[2] = L[2] /\ t[3] = L[3]
      <4>1. /\ 1 \in 1 .. 3 - 1 + 1 /\ 2 \in 1 .. 3 - 1 + 1 /\ 3 \in 1 .. 3 - 1 + 1
            /\ 3 - 1 + 1 = 3 /\ 1 + 1 - 1 = 1 /\ 1 + 2 - 1 = 2 /\ 1 + 3 - 1 = 3
        OBVIOUS
      <4> QED BY <3>1, <4>1
    <3> HIDE DEF t
    <3>3. t = <<L[1], L[2], L[3]>>
      BY <3>1, <3>2
    <3> QED BY <1>12, <3>3 DEF t
  <2>2. ASSUME NEW k \in Nat PROVE SubSeq(L, k, k) = <<L[k]>>
    <3> DEFINE t == SubSeq(L, k, k)
    <3>1. /\ \E S : t \in Seq(S)
          /\ Len(t) = k - k + 1 /\ \A i \in 1 .. k - k + 1 : t[i] = L[k + i - 1]
      <4>1. Piece(L, k, k, SubSeq(L, k, k))
        BY PieceAt
      <4> QED BY <4>1 DEF Piece
    <3>2. Len(t) = 1 /\ t[1] = L[k]
      <4>1. 1 \in 1 .. k - k + 1 /\ k - k + 1 = 1 /\ k + 1 - 1 = k
        OBVIOUS
      <4> QED BY <3>1, <4>1
    <3> HIDE DEF t
    <3>3. t = <<L[k]>>
      BY <3>1, <3>2
    <3> QED BY <3>3 DEF t
  <2> QED BY <1>7, <1>12, <2>1, <2>2
<1>14. SubSeq(L, 6, 5 + M) = [j \in 1 .. M |-> "df"]
  <2> DEFINE t == SubSeq(L, 6, 5 + M)
  <2>1. /\ \E S : t \in Seq(S)
        /\ Len(t) = (5 + M) - 6 + 1
        /\ \A i \in 1 .. (5 + M) - 6 + 1 : t[i] = L[6 + i - 1]
    <3>1. PICK m, n : m = 6 /\ n = 5 + M
      OBVIOUS
    <3>2. m \in Nat /\ n \in Nat /\ m <= n
      BY <1>2, <3>1
    <3>3. Piece(L, m, n, SubSeq(L, m, n))
      BY <3>2, PieceAt
    <3> QED BY <3>1, <3>3 DEF Piece
  <2>2. (5 + M) - 6 + 1 = M /\ \A i \in 1 .. M : 6 + i - 1 \in 6 .. 5 + M
    BY <1>2
  <2>3. Len(t) = M /\ \A i \in 1 .. M : t[i] = "df"
    BY <1>12, <2>1, <2>2
  <2> HIDE DEF t
  <2>4. t = [j \in 1 .. M |-> "df"]
    BY <2>1, <2>3
  <2> QED BY <2>4 DEF t
<1>15. SubSeq(L, 6 + M, 7 + M) = <<"cores", "loadavg">>
  <2> DEFINE t == SubSeq(L, 6 + M, 7 + M)
  <2>1. /\ \E S : t \in Seq(S)
        /\ Len(t) = (7 + M) - (6 + M) + 1
        /\ \A i \in 1 .. (7 + M) - (6 + M) + 1 : t[i] = L[(6 + M) + i - 1]
    <3>1. PICK m, n : m = 6 + M /\ n = 7 + M
      OBVIOUS
    <3>2. m \in Nat /\ n \in Nat /\ m <= n
      BY <1>2, <3>1
    <3>3. Piece(L, m, n, SubSeq(L, m, n))
      BY <3>2, PieceAt
    <3> QED BY <3>1, <3>3 DEF Piece
  <2>2. /\ (7 + M) - (6 + M) + 1 = 2 /\ (6 + M) + 1 - 1 = 6 + M
        /\ (6 + M) + 2 - 1 = 7 + M /\ 1 \in 1 .. 2 /\ 2 \in 1 .. 2
    BY <1>2
  <2>3. Len(t) = 2 /\ t[1] = L[6 + M] /\ t[2] = L[7 + M]
    BY <2>1, <2>2
  <2> HIDE DEF t
  <2>4. t = <<L[6 + M], L[7 + M]>>
    BY <2>1, <2>3
  <2> QED BY <1>12, <2>4 DEF t
<1> SUFFICES ASSUME NEW i \in 1 .. 5
             PROVE  Share(i, L, M) = IF Metrics[i] = "disk" THEN [j \in 1 .. M |-> "df"]
                                     ELSE Commands[Metrics[i]]
  BY MetricsAre DEF OwnLines
<1>16. i = 1 \/ i = 2 \/ i = 3 \/ i = 4 \/ i = 5
  OBVIOUS
<1>17. CASE i = 4
  BY <1>4, <1>14, <1>17, MetricsAre
<1>18. CASE i # 4
  BY <1>4, <1>13, <1>15, <1>16, <1>18, MetricsAre, CommandsAre
<1> QED BY <1>17, <1>18

-----------------------------------------------------------------------------
\* What a prober takes for checked is: whatever a round accepts, it is sound.
AllSound == \A p \in Probers : sound[p]

LEMMA SoundNext == Typed /\ AllSound /\ [Next]_vars => AllSound'
<1> SUFFICES ASSUME Typed, AllSound, [Next]_vars PROVE AllSound'
  OBVIOUS
<1>1. ASSUME NEW p \in Probers, NEW holds, holds, sound' = [sound EXCEPT ![p] = @ /\ holds]
      PROVE  AllSound'
  BY <1>1 DEF AllSound, Typed, OtherTypes
<1>2. UNCHANGED sound => AllSound'
  BY DEF AllSound
<1>3. CASE UNCHANGED vars
  BY <1>2, <1>3 DEF vars, evidence
<1>4. ASSUME NEW p \in Probers, Begin(p) PROVE AllSound'
  BY <1>4 DEF Begin, AllSound, Typed, OtherTypes
<1>5. ASSUME NEW p \in Probers,
             \/ Answer(p) \/ StoreSettings(p) \/ DialShared(p) \/ PongArrives(p)
             \/ RunCommand(p) \/ Return(p) \/ Redirect(p)
      PROVE  AllSound'
  BY <1>2, <1>5 DEF Answer, StoreSettings, DialShared, PongArrives, RunCommand, Return,
                    Redirect, Fail, evidence
<1>6. ASSUME NEW p \in Probers, AwaitPong(p) PROVE AllSound'
  BY <1>1, <1>2, <1>6 DEF AwaitPong, PongReady, Fail
<1>7. ASSUME NEW p \in Probers, VerifyData(p) PROVE AllSound'
  <2>1. CASE Fail(p)
    BY <1>2, <2>1 DEF Fail
  <2>2. ASSUME NEW x \in [Keys -> {"same", "other", "absent"}], Verified(x),
               sound' = [sound EXCEPT ![p] = @ /\ Holds(x)]
        PROVE  AllSound'
    <3>1. Holds(x)
      BY <2>2, ProbesAssumption DEF Verified, Holds
    <3> QED BY <1>1, <2>2, <3>1
  <2> QED BY <1>7, <2>1, <2>2 DEF VerifyData
<1>8. ASSUME NEW p \in Probers, ParseOutput(p) PROVE AllSound'
  <2>1. CASE Fail(p) \/ Panic(p)
    BY <1>2, <2>1 DEF Fail, Panic
  <2>2. ASSUME NEW o \in Parsed,
               sound' = [sound EXCEPT
                           ![p] = @ /\ (OwnLines(o[1], Mounts) \/ Surplus(o[1]))]
        PROVE  AllSound'
    <3>1. o[1] \in Outputs(Mounts) /\ ParseHostInfo(o[1], Mounts, o[2]) = "value"
      BY DEF Parsed, OutputsFor
    <3>2. OwnLines(o[1], Mounts) \/ Surplus(o[1])
      BY <3>1, HostChecked, ProbesAssumption
    <3> QED BY <1>1, <2>2, <3>2
  <2> QED BY <1>8, <2>1, <2>2 DEF ParseOutput
<1>9. ASSUME NEW p \in Probers, EvaluateResponse(p) PROVE AllSound'
  <2>1. CASE doc = "none"
    BY <1>2, <1>9, <2>1 DEF EvaluateResponse, evidence
  <2>2. CASE doc # "none"
    <3>1. PICK v, f, reached :
            /\ v \in [DOMAIN expr.variables -> Findings]
            /\ f \in [DOMAIN expr.functions -> Findings]
            /\ reached \in 0 .. Len(expr.functions)
            /\ Evaluated(p, Evaluate(doc, expr.variables, expr.functions, v, f, reached),
                 \A i \in DOMAIN v : ExtractValue(doc, expr.variables[i], v[i]) = "value")
      BY <1>9, <2>2 DEF EvaluateResponse
    <3>2. PICK V, F : V = expr.variables /\ F = expr.functions
      OBVIOUS
    <3> DEFINE e == Evaluate(doc, V, F, v, f, reached)
               sane == \A i \in DOMAIN v : ExtractValue(doc, V[i], v[i]) = "value"
    <3>3. /\ doc \in DocTypes /\ V \in Seq(VarTypes) /\ F \in Seq(VarTypes)
          /\ v \in [DOMAIN V -> Findings] /\ f \in [DOMAIN F -> Findings]
          /\ reached \in 0 .. Len(F)
      BY <2>2, <3>1, <3>2, ProbesAssumption DEF Typed, ConfigTypes
    <3>4. e \in Outcomes /\ (e = "value" => sane)
      BY <3>3, ValuesOf
    <3>5. Evaluated(p, e, sane)
      BY <3>1, <3>2
    <3> HIDE DEF e, sane
    <3>6. \/ Panic(p) \/ Fail(p)
          \/ e = "value" /\ sound' = [sound EXCEPT ![p] = @ /\ sane]
      BY <3>4, <3>5 DEF Evaluated, Outcomes
    <3>7. Panic(p) \/ Fail(p) => UNCHANGED sound
      BY DEF Panic, Fail
    <3> QED BY <1>1, <1>2, <3>4, <3>6, <3>7
  <2> QED BY <2>1, <2>2
<1> QED BY <1>3, <1>4, <1>5, <1>6, <1>7, <1>8, <1>9 DEF Next, Step

\* A round that ends up has checked what it claims: the data by key, the lines
\* of each metric, the values of the variables, the pong of its connection.
THEOREM UpIsChecked == Spec => []UpMeansChecked
<1>1. Init => Typed /\ AllSound
  BY TypedInit DEF Init, AllSound
<1>2. Typed /\ AllSound /\ [Next]_vars => (Typed /\ AllSound)'
  BY TypedNext, SoundNext
<1>3. AllSound => UpMeansChecked
  BY DEF AllSound, UpMeansChecked
<1> QED BY <1>1, <1>2, <1>3, PTL DEF Spec
=============================================================================
