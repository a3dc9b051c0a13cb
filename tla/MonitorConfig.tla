---------------------------- MODULE MonitorConfig ----------------------------
(***************************************************************************)
(* From what a request says of a monitor to the configuration that is      *)
(* stored and probed: the validators of the inputs (Valid), the choice of   *)
(* one configuration per type (Mismatch), the resolver (Resolve) and what   *)
(* the probe can do something with (Probeable), which is less (KnownGap).   *)
(* A text is the class of texts that the code or a library of the probes    *)
(* tells apart, trimmed as Trim leaves it; Absent stands for an optional    *)
(* field that is missing or null.                                           *)
(***************************************************************************)
EXTENDS Integers, FiniteSets

Absent == -1

FieldOf == [HTTP |-> "http", REDIS |-> "redis", DATABASE |-> "database",
            TCP |-> "tcp", SSL |-> "ssl", DNS |-> "dns", SMTP |-> "smtp",
            KAFKA |-> "kafka", GRPC |-> "grpc"]

MonitorTypes == DOMAIN FieldOf
Fields       == {FieldOf[t] : t \in MonitorTypes}

(***************************************************************************)
(* Classes of texts.                                                        *)
(***************************************************************************)
\* A URL is a scheme ("none" when there is none) and what comes after it: a host
\* behind two slashes, the slashes alone, or nothing.  Some hosts come with more: a
\* user and password, one that decodeURIComponent cannot decode, a port that fetch
\* blocks, an IPv6 address in brackets, a path that is no number, or options that the
\* client of a database refuses.
WithHost == {"host", "user", "undecodable", "blockedPort", "ipv6", "word", "options"}
Schemes == {"none", "http", "https", "redis", "rediss", "postgres", "postgresql",
            "mysql", "mysql2", "file", "sqlite", "ftp"}
Urls == [scheme : Schemes, rest : WithHost \cup {"slashes", "nothing"}]

\* new URL() throws without a scheme; its hostname is empty without a host.
Absolute(u) == u.scheme # "none"
HasHost(u)  == u.rest \in WithHost

\* Empty, a name, a name that is also a scheme of gRPC ("dns"), an IPv4 or IPv6
\* address, something with a slash or a space, and a host with its port.
Hosts == {"empty", "name", "schemeName", "ipv4", "ipv6", "path", "withPort"}
IsIP(host) == host \in {"ipv4", "ipv6"}
IsValidTcpHost(host) == IsIP(host) \/ host \in {"name", "schemeName"}

Ports    == {0, 1, 65535, 65536}
Days     == {Absent, 0, 365, 366}
Statuses == {Absent, 99, 100, 200, 599, 600}

(***************************************************************************)
(* The inputs a request may hold, and those the validators let through.     *)
(***************************************************************************)
Inputs == [
    http     |-> [url : Urls, method : {"absent", "GET", "TRACE"}, expectedStatus : Statuses],
    redis    |-> [url : Urls],
    database |-> [url : Urls],
    tcp      |-> [host : Hosts, port : Ports],
    ssl      |-> [host : Hosts, port : Ports, serverName : {"absent", "name", "path"},
                  minDaysUntilExpiry : Days, allowUnauthorized : BOOLEAN],
    dns      |-> [host : Hosts, recordType : {"absent", "A", "SOA"},
                  expectedValue : {"absent", "text"}, nameserver : Hosts \cup {"absent"}],
    smtp     |-> [host : Hosts, port : Ports, secure : BOOLEAN, startTls : BOOLEAN],
    kafka    |-> [host : Hosts, port : Ports, tls : BOOLEAN,
                  topic : {"absent", "topic", "badTopic"}],
    grpc     |-> [host : Hosts, port : Ports, tls : BOOLEAN,
                  service : {"absent", "empty", "service", "tooLong"}]]

ValidPorts == 1..65535
HostPortValid(b) == IsValidTcpHost(b.host) /\ b.port \in ValidPorts

\* IsUrl of the library takes a URL without a scheme for one.
HttpValid(b) ==
    /\ HasHost(b.url) /\ b.url.scheme \in {"none", "http", "https"}
    /\ b.method \in {"absent", "GET"}
    /\ b.expectedStatus \in {Absent} \cup 100..599

RedisValid(b)    == b.url.scheme \in {"redis", "rediss"} /\ b.url.rest # "nothing"
DatabaseValid(b) == b.url.scheme \in {"postgres", "postgresql", "mysql", "mysql2",
                                      "file", "sqlite"}
TcpValid(b)      == HostPortValid(b)
SslValid(b) ==
    /\ HostPortValid(b)
    /\ b.serverName # "absent" => IsValidTcpHost(b.serverName)
    /\ b.minDaysUntilExpiry \in {Absent} \cup 0..365
DnsValid(b) ==
    /\ IsValidTcpHost(b.host)
    /\ b.recordType \in {"absent", "A"}
    /\ b.nameserver # "empty"
SmtpValid(b)     == HostPortValid(b)
KafkaValid(b)    == HostPortValid(b) /\ b.topic # "badTopic"
GrpcValid(b)     == HostPortValid(b) /\ b.service # "tooLong"

Valid(field, b) ==
    CASE field = "http"     -> HttpValid(b)
      [] field = "redis"    -> RedisValid(b)
      [] field = "database" -> DatabaseValid(b)
      [] field = "tcp"      -> TcpValid(b)
      [] field = "ssl"      -> SslValid(b)
      [] field = "dns"      -> DnsValid(b)
      [] field = "smtp"     -> SmtpValid(b)
      [] field = "kafka"    -> KafkaValid(b)
      [] field = "grpc"     -> GrpcValid(b)

(***************************************************************************)
(* A request holds a bag: some fields, each with its input.                 *)
(***************************************************************************)
\* validateMonitorTypeConfig; type is "absent" when an update does not change it.
Mismatch(type, present, required) ==
    IF type = "absent"
    THEN Cardinality(present) > 1
    ELSE \/ present \ {FieldOf[type]} # {}
         \/ required /\ FieldOf[type] \notin present

(***************************************************************************)
(* The resolver: the configuration, or what it refuses.  An optional text   *)
(* that is missing or empty is left out.                                    *)
(***************************************************************************)
Refused == [refused |-> TRUE]

Given(name, text) == IF text \in {"absent", "empty"} THEN <<>> ELSE [f \in {name} |-> text]
Merged(f, g) == [n \in DOMAIN f \cup DOMAIN g |-> IF n \in DOMAIN g THEN g[n] ELSE f[n]]
OrElse(n, default) == IF n = Absent THEN default ELSE n

\* Mutation of ResolveHttp: what IsUrl let through is taken for a URL.
ResolveHttpUnparsed(b) ==
    IF HasHost(b.url) /\ b.method \in {"absent", "GET"}
    THEN [url |-> b.url, method |-> "GET", expectedStatus |-> OrElse(b.expectedStatus, 200)]
    ELSE Refused

ResolveHttp(b) ==
    IF /\ Absolute(b.url) /\ b.url.scheme \in {"http", "https"} /\ HasHost(b.url)
       /\ b.method \in {"absent", "GET"}
    THEN [url |-> b.url, method |-> "GET", expectedStatus |-> OrElse(b.expectedStatus, 200)]
    ELSE Refused

ResolveRedis(b) ==
    IF Absolute(b.url) /\ b.url.scheme \in {"redis", "rediss"} /\ HasHost(b.url)
    THEN [url |-> b.url] ELSE Refused

\* The path of an SQLite file is all that follows the scheme, slashes and all.
SqlitePath(u) == u.scheme \in {"file", "sqlite"} /\ u.rest # "nothing"
ServerUrl(u)  == /\ u.scheme \in {"postgres", "postgresql", "mysql", "mysql2"}
                 /\ HasHost(u)
ResolveDatabase(b) ==
    IF SqlitePath(b.url) \/ ServerUrl(b.url) THEN [url |-> b.url] ELSE Refused

HostPort(b) == [host |-> b.host, port |-> b.port]

ResolveTcp(b) == IF HostPortValid(b) THEN HostPort(b) ELSE Refused

ResolveSsl(b) ==
    IF SslValid(b)
    THEN Merged(Merged(HostPort(b), Given("serverName", b.serverName)),
                [minDaysUntilExpiry |-> OrElse(b.minDaysUntilExpiry, 0),
                 allowUnauthorized  |-> b.allowUnauthorized])
    ELSE Refused

ResolveDns(b) ==
    IF /\ IsValidTcpHost(b.host)
       /\ b.recordType \in {"absent", "A"}
       /\ b.nameserver \notin {"absent", "empty"} => IsIP(b.nameserver)
    THEN Merged(Merged([host |-> b.host, recordType |-> "A"],
                       Given("expectedValue", b.expectedValue)),
                Given("nameserver", b.nameserver))
    ELSE Refused

ResolveSmtp(b) ==
    IF HostPortValid(b) /\ ~(b.secure /\ b.startTls)
    THEN Merged(HostPort(b), [secure |-> b.secure, startTls |-> b.startTls])
    ELSE Refused

ResolveKafka(b) ==
    IF HostPortValid(b) /\ b.topic # "badTopic"
    THEN Merged(Merged(HostPort(b), [tls |-> b.tls]), Given("topic", b.topic))
    ELSE Refused

ResolveGrpc(b) ==
    IF HostPortValid(b) /\ b.service # "tooLong"
    THEN Merged(HostPort(b),
                [tls |-> b.tls,
                 service |-> IF b.service = "absent" THEN "empty" ELSE b.service])
    ELSE Refused

Resolve(type, b) ==
    CASE type = "HTTP"     -> ResolveHttp(b)
      [] type = "REDIS"    -> ResolveRedis(b)
      [] type = "DATABASE" -> ResolveDatabase(b)
      [] type = "TCP"      -> ResolveTcp(b)
      [] type = "SSL"      -> ResolveSsl(b)
      [] type = "DNS"      -> ResolveDns(b)
      [] type = "SMTP"     -> ResolveSmtp(b)
      [] type = "KAFKA"    -> ResolveKafka(b)
      [] type = "GRPC"     -> ResolveGrpc(b)

\* resolveMonitorConfig with required = true, which is how it is always called.
ResolveMonitorConfig(type, bag) ==
    IF Mismatch(type, DOMAIN bag, TRUE) THEN Refused
    ELSE Resolve(type, bag[FieldOf[type]])

(***************************************************************************)
(* What the probe of a type can start with: otherwise it fails before it    *)
(* asks the peer it is meant for anything, since a field it needs is missing *)
(* or its library refuses the value or reads another peer from it.          *)
(***************************************************************************)
\* fetch takes no URL with a user, and no connection to some ports.
FetchTakes(u) ==
    /\ u.scheme \in {"http", "https"} /\ HasHost(u)
    /\ u.rest \notin {"user", "undecodable", "blockedPort"}

\* createClient decodes user and password and takes the path for a number; the
\* brackets of an IPv6 host it may leave on, and with them it is no host.
CreateClientTakes(u) ==
    /\ u.scheme \in {"redis", "rediss"} /\ HasHost(u)
    /\ u.rest \notin {"undecodable", "word", "ipv6"}

\* The clients of Postgres and MySQL decode and treat brackets likewise; options may
\* name a profile or a file that there is not.
DatabaseTakes(u) ==
    \/ SqlitePath(u)
    \/ ServerUrl(u) /\ u.rest \notin {"undecodable", "options", "ipv6"}

\* KafkaJS splits a broker, `${host}:${port}`, at its first colon.
BrokerTakes(host) == host # "ipv6"

\* gRPC takes a target, `${host}:${port}`, for a URI when it begins with one of its
\* schemes, and for a host without a port when it has more colons.
TargetTakes(host) == host \notin {"ipv6", "schemeName"}

Has(c, names) == names \subseteq DOMAIN c

HostPortGiven(c) == Has(c, {"host", "port"}) /\ c.host # "empty" /\ c.port \in ValidPorts

Probeable(type, c) ==
    CASE type = "HTTP"     -> Has(c, {"url"}) /\ FetchTakes(c.url)
      [] type = "REDIS"    -> Has(c, {"url"}) /\ CreateClientTakes(c.url)
      [] type = "DATABASE" -> Has(c, {"url"}) /\ DatabaseTakes(c.url)
      [] type = "DNS"      -> /\ Has(c, {"host"}) /\ c.host # "empty"
                              /\ Has(c, {"recordType"}) => c.recordType = "A"
                              /\ Has(c, {"nameserver"}) => IsIP(c.nameserver)
      [] type = "KAFKA"    -> HostPortGiven(c) /\ BrokerTakes(c.host)
      [] type = "GRPC"     -> HostPortGiven(c) /\ TargetTakes(c.host)
      [] OTHER             -> HostPortGiven(c)
==============================================================================
