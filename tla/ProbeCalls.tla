----------------------------- MODULE ProbeCalls -----------------------------
(***************************************************************************)
(* The probe functions of the kinds of probe (DoProbe, and Probe of the    *)
(* native clients), each as the sequence of the calls it makes to the      *)
(* outside.  A call that succeeds may open a connection, and may make the  *)
(* function defer the Close of connections to its return; `deadline' says  *)
(* whether a timeout of the probe bounds the call; `onError' is what its   *)
(* error does: "return" at once, "goOn" with the status false, or "export" *)
(* the metrics and return.                                                 *)
(***************************************************************************)
EXTENDS Sequences

Connections ==
  {"conn", "body", "bastion", "client", "session", "ws", "db", "rdb", "pool"}

Does(name, opens, defers, deadline, onError) ==
  [name |-> name, opens |-> opens, defers |-> defers,
   deadline |-> deadline, onError |-> onError]

Opens(name, c, deadline) == Does(name, {c}, {c}, deadline, "return")
Asks(name, deadline)     == Does(name, {}, {}, deadline, "return")

\* Steps that ask nobody: they compute on what the round has received.
Export    == Does("export", {}, {}, TRUE, "return")
CheckText == Does("text", {}, {}, TRUE, "goOn")
Settings  == Asks("settings", TRUE)

\* GetProxyConnection: the timeout is the one of the dial to the proxy, not
\* of the dialogue with it.
Connection(proxied) == Opens("dial", "conn", ~ proxied)

-----------------------------------------------------------------------------
TCP(proxied) == <<Connection(proxied)>>

TLS(proxied) ==
  <<Connection(proxied), Asks("handshake", TRUE), Asks("expiry", TRUE), Export>>

Ping == <<Asks("resolve", TRUE), Asks("pings", TRUE), Export, Asks("loss", TRUE)>>

\* What client.Do does, up to the return with the headers, and its failure.
Phase(name, opens) == Does(name, opens, opens, TRUE, "export")

\* The phases the client trace tells apart are calls of their own.  A request
\* that cannot be made exports nothing; client.Do returns with the headers, the
\* response is exported, then the body is read.
HTTP ==
  << Asks("request", TRUE), Phase("getConn", {}), Phase("resolve", {}),
     Phase("connect", {}), Phase("handshake", {}), Phase("send", {}),
     Phase("wait", {"body"}), Export,
     Asks("transfer", TRUE), Asks("code", TRUE), CheckText, Asks("evaluate", TRUE) >>

\* CombinedOutput waits for whoever holds the pipe, also after the context
\* has killed the command.
Shell == << Does("run", {}, {}, FALSE, "goOn"), Export, CheckText >>

\* Mutant: the Close is deferred before the error is looked at.
ClientDefersEarly(onError) ==
  << Does("key", {}, {"client"}, TRUE, onError),
     Does("dial", {"client"}, {"client"}, FALSE, onError) >>

\* The timeout of the SSH configuration is that of the TCP connection.
Client(onError) ==
  << Does("key", {}, {}, TRUE, onError),
     Does("dial", {"client"}, {"client"}, FALSE, onError) >>

\* The Close of the bastion's connection is only deferred once the client
\* that goes through it has been made.
BastionClient(onError) ==
  << Does("bastion key", {}, {}, TRUE, onError),
     Does("bastion", {"bastion"}, {}, FALSE, onError),
     Does("key", {}, {}, TRUE, onError),
     Does("dial", {}, {}, FALSE, onError),
     Does("client", {"client"}, {"bastion", "client"}, FALSE, onError) >>

\* RunSSHCmd, with the client of the server or through the bastion.
RunSSHCmd(bastion, onError) ==
  (IF bastion THEN BastionClient(onError) ELSE Client(onError))
    \o << Does("session", {"session"}, {"session"}, FALSE, onError),
          Does("run", {}, {}, FALSE, onError) >>

SSH(bastion) == RunSSHCmd(bastion, "export") \o <<CheckText, Export>>

Host(bastion) ==
  RunSSHCmd(bastion, "return")
    \o <<Asks("parse", TRUE), Export, Asks("threshold", TRUE)>>

\* The settings go to the dialer of the process, websocket.DefaultDialer.
WebSocket ==
  <<Settings, Opens("dialShared", "ws", TRUE), Asks("ping", TRUE),
    Asks("pong", TRUE)>>

-----------------------------------------------------------------------------
(***************************************************************************)
(* The native clients: with data they verify each key, without it they     *)
(* only see whether the server answers.                                    *)
(***************************************************************************)
Verify(deadline) == Asks("verify", deadline)

\* The TLS settings go to the registry of the driver, under one name for all
\* probers; the timeout in the connection string is the one of the dial.
MySQL(data) ==
  <<Settings, Opens("dialShared", "db", TRUE)>>
    \o IF data THEN <<Verify(FALSE)>>
       ELSE <<Asks("ping", FALSE), Asks("query", FALSE)>>

\* The driver bounds all it does by the timeout rounded to seconds: below half
\* a second that is 0, which is no timeout.  sql.OpenDB connects to nobody; with
\* data, every key has a database of its own, closed with its check.
PostgreSQL(data, deadline) ==
  IF data THEN <<Verify(deadline)>>
  ELSE <<Opens("open", "db", TRUE), Asks("ping", deadline), Asks("query", deadline)>>

Mongo(data) ==
  <<Opens("client", "db", TRUE),
    IF data THEN Verify(TRUE) ELSE Asks("ping", TRUE)>>

\* Mutant: the connection to Kafka is not closed.
KafkaStaysOpen == <<Does("dial", {"conn"}, {}, TRUE, "return"), Asks("partitions", TRUE)>>

\* Mutant: ReadPartitions without SetDeadline.
KafkaNoDeadline == <<Opens("dial", "conn", TRUE), Asks("partitions", FALSE)>>

Kafka == <<Opens("dial", "conn", TRUE), Asks("partitions", TRUE)>>

Redis(data) ==
  <<Opens("client", "rdb", TRUE),
    IF data THEN Verify(TRUE) ELSE Asks("ping", TRUE)>>

\* The pool of the client is not closed but left to the garbage collector.
Memcache(data) ==
  <<Does("client", {"pool"}, {}, TRUE, "return"),
    IF data THEN Verify(TRUE) ELSE Asks("ping", TRUE)>>

\* A request waits for the connection, which a TLS handshake of the dialer
\* makes without a deadline.
Zookeeper(data, tls) ==
  <<Opens("client", "conn", TRUE),
    IF data THEN Verify(~ tls) ELSE Asks("get", ~ tls)>>

-----------------------------------------------------------------------------
\* The probers of a configuration, by kind, driver and the settings that
\* change the calls.
ProbeScripts ==
  [ tcp |-> TCP(FALSE), tcpProxy |-> TCP(TRUE),
    tls |-> TLS(FALSE), tlsProxy |-> TLS(TRUE),
    ping |-> Ping, http |-> HTTP, shell |-> Shell,
    ssh |-> SSH(FALSE), sshBastion |-> SSH(TRUE),
    host |-> Host(FALSE), hostBastion |-> Host(TRUE),
    websocket |-> WebSocket,
    mysql |-> MySQL(FALSE), mysqlData |-> MySQL(TRUE),
    postgres |-> PostgreSQL(FALSE, TRUE), postgresData |-> PostgreSQL(TRUE, TRUE),
    postgresBrief |-> PostgreSQL(FALSE, FALSE),
    postgresBriefData |-> PostgreSQL(TRUE, FALSE),
    mongo |-> Mongo(FALSE), mongoData |-> Mongo(TRUE),
    kafka |-> Kafka,
    redis |-> Redis(FALSE), redisData |-> Redis(TRUE),
    memcache |-> Memcache(FALSE), memcacheData |-> Memcache(TRUE),
    zookeeper |-> Zookeeper(FALSE, FALSE), zookeeperData |-> Zookeeper(TRUE, FALSE),
    zookeeperTLS |-> Zookeeper(FALSE, TRUE) ]
=============================================================================
