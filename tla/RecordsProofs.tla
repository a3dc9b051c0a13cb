--------------------------- MODULE RecordsProofs ----------------------------
(***************************************************************************)
(* Proofs about the records users change by requests that may cross:        *)
(* settings (Accounts), notifications (Notifications) and monitors          *)
(* (Monitors), for any number of requests.                                  *)
(***************************************************************************)
EXTENDS Accounts, Notifications, Monitors, TLAPS

-----------------------------------------------------------------------------
(***************************************************************************)
(* Accounts.                                                                *)
(***************************************************************************)
\* Without an account there is no row and no reader; who has lost the race for creating the row
\* finds it; and who registered has an account.
RowsHaveAccounts ==
    /\ ~account => settings = NoSettings
    /\ \A r \in Readers : /\ reader[r] # "idle" => account
                          /\ reader[r] = "raced" => settings # NoSettings
    /\ \A g \in Registrars : registrar[g] = "issued" => account

AccountsInv == AccountsTypeOK /\ RowsHaveAccounts /\ SettingsAsWanted

\* Every table has a column, so a row is not the absence of one.
LEMMA RowIsSome == NoSettings \notin SettingsRows
<1> SUFFICES ASSUME NoSettings \in SettingsRows PROVE FALSE
    OBVIOUS
<1>1. DOMAIN NoSettings = SettingsColumns
    BY DEF SettingsRows
<1>2. DOMAIN NoSettings = {}
    BY DEF NoSettings
<1> QED BY <1>1, <1>2, AccountsAssumption DEF SettingsColumns

\* What a patch makes of a row is a row.
LEMMA OverRow ==
    ASSUME NEW base \in SettingsRows, NEW p \in SettingsPatches
    PROVE  Over(base, NullsAsDefaults(p)) \in SettingsRows
<1>1. PICK cs \in SUBSET SettingsColumns : p \in [cs -> {"default", "set", "null"}]
    BY DEF SettingsPatches
<1>2. NullsAsDefaults(p) \in [cs -> {"default", "set"}]
    BY <1>1 DEF NullsAsDefaults
<1> QED BY <1>2 DEF Over, SettingsRows

\* So are the defaults.
LEMMA DefaultsRow == Defaults \in SettingsRows
    BY DEF Defaults, SettingsRows

\* Before the first request the invariant holds.
LEMMA InitAccounts == AccountsInit => AccountsInv
    BY DefaultsRow, RowIsSome
    DEF AccountsInit, AccountsInv, AccountsTypeOK, RowsHaveAccounts, SettingsAsWanted

\* Every statement keeps the invariant.
LEMMA StepAccounts == AccountsInv /\ [AccountsNext]_accountsVars => AccountsInv'
<1> SUFFICES ASSUME AccountsInv, [AccountsNext]_accountsVars PROVE AccountsInv'
    OBVIOUS
<1> USE DEF AccountsInv, AccountsTypeOK, RowsHaveAccounts, SettingsAsWanted
<1>1. ASSUME NEW g \in Registrars, Register(g) PROVE AccountsInv'
    BY <1>1, DefaultsRow, RowIsSome DEF Register
<1>2. ASSUME NEW r \in Readers, FindSettings(r) PROVE AccountsInv'
    BY <1>2 DEF FindSettings
<1>3. ASSUME NEW r \in Readers, CreateSettings(r) PROVE AccountsInv'
    BY <1>3, DefaultsRow, RowIsSome DEF CreateSettings
<1>4. ASSUME NEW r \in Readers, FindRaced(r) PROVE AccountsInv'
    BY <1>4 DEF FindRaced
<1>5. ASSUME NEW p \in SettingsPatches, UpdateSettings(p) PROVE AccountsInv'
    <2>1. settings' = Over(wanted, NullsAsDefaults(p)) /\ wanted' = settings'
        BY <1>5 DEF UpdateSettings, Created, Updated
    <2>2. settings' \in SettingsRows
        BY <2>1, OverRow
    <2>3. settings' # NoSettings
        BY <2>2, RowIsSome
    <2> QED BY <1>5, <2>1, <2>2, <2>3 DEF UpdateSettings
<1>6. CASE UNCHANGED accountsVars
    BY <1>6 DEF accountsVars
<1> QED BY <1>1, <1>2, <1>3, <1>4, <1>5, <1>6 DEF AccountsNext

\* The invariant of Accounts, for any number of requests.
THEOREM AccountsInvariance == AccountsSpec => []AccountsInv
    BY InitAccounts, StepAccounts, PTL DEF AccountsSpec

\* However many first reads, updates and registrations cross, the row holds what
\* was last asked for, no reader that loses the race fails, and one request has
\* registered the address: SettingsAsWanted for any number of requests and columns.
THEOREM SettingsHold == AccountsSpec => []SettingsAsWanted
<1>1. AccountsInv => SettingsAsWanted
    BY DEF AccountsInv
<1> QED BY AccountsInvariance, <1>1, PTL

-----------------------------------------------------------------------------
(***************************************************************************)
(* Notifications.                                                           *)
(***************************************************************************)
\* A request that is about to mark has found its notification unread.
NotesInv ==
    /\ reads \in Nat
    /\ readAt \in [Notes -> Nat] /\ \A n \in Notes : readAt[n] <= reads
    /\ stored \subseteq Notes
    /\ marking = [m \in Markers |-> marking[m]]
    /\ \A m \in Markers :
          marking[m] # NoMark =>
              /\ marking[m].note \in Notes
              /\ marking[m] = [note |-> marking[m].note, found |-> 0]

\* No request is under way at first.
LEMMA InitNotes == NotesInit => NotesInv
    BY DEF NotesInit, NotesInv

\* Every request keeps the invariant.
LEMMA StepNotes == NotesInv /\ [NotesNext]_notesVars => NotesInv'
<1> SUFFICES ASSUME NotesInv, [NotesNext]_notesVars PROVE NotesInv'
    OBVIOUS
<1> USE DEF NotesInv
<1>1. ASSUME NEW n \in Notes, CreateNote(n) PROVE NotesInv'
    BY <1>1 DEF CreateNote
<1>2. ASSUME NEW n \in Notes, Publish(n) PROVE NotesInv'
    BY <1>2 DEF Publish
<1>3. ASSUME NEW m \in Markers, MarkRead(m) PROVE NotesInv'
    BY <1>3 DEF MarkRead
<1>4. ASSUME NEW m \in Markers, NEW n \in Notes, FindNote(m, n) PROVE NotesInv'
    BY <1>4 DEF FindNote
<1>5. CASE MarkAllRead
    BY <1>5 DEF MarkAllRead
<1>6. CASE UNCHANGED notesVars
    BY <1>6 DEF notesVars
<1> QED BY <1>1, <1>2, <1>3, <1>4, <1>5, <1>6 DEF NotesNext

\* Only a markRead that found the notification unread moves its readAt.
LEMMA StepReadAt ==
    ASSUME NotesInv, NotesNext, NEW n \in Notes, readAt[n] # 0, readAt'[n] # readAt[n]
    PROVE  /\ readAt'[n] > readAt[n]
           /\ \E m \in Markers : marking[m] = [note |-> n, found |-> 0]
<1>1. ~MarkAllRead
    BY DEF MarkAllRead, Unread, NotesInv
<1>2. PICK m \in Markers : MarkRead(m)
    BY <1>1 DEF NotesNext, CreateNote, Publish, FindNote
<1>3. marking[m].note = n /\ readAt'[n] = reads + 1
    BY <1>2 DEF MarkRead, NotesInv
<1>4. marking[m] = [note |-> n, found |-> 0]
    BY <1>2, <1>3 DEF MarkRead, NotesInv
<1> QED BY <1>3, <1>4 DEF NotesInv

\* For any number of requests and notifications: what is read stays read, and its
\* moment moves only when two requests have crossed.
THEOREM ReadStaysRead == NotesSpec => ReadAtMovesOnlyByCrossing
<1>1. NotesSpec => []NotesInv
    BY InitNotes, StepNotes, PTL DEF NotesSpec
<1>2. NotesInv /\ [NotesNext]_notesVars =>
        [\A n \in Notes :
            readAt[n] # 0 /\ readAt'[n] # readAt[n] =>
                /\ readAt'[n] > readAt[n]
                /\ \E m \in Markers : marking[m] = [note |-> n, found |-> 0]]_notesVars
    BY StepReadAt
<1> QED BY <1>1, <1>2, PTL DEF NotesSpec, ReadAtMovesOnlyByCrossing
-----------------------------------------------------------------------------
(***************************************************************************)
(* Monitors.                                                                *)
(***************************************************************************)
\* What Given and Merged make of the fields of a configuration.
LEMMA GivenField ==
    ASSUME NEW name, NEW text
    PROVE  /\ DOMAIN Given(name, text) \subseteq {name}
           /\ name \in DOMAIN Given(name, text) =>
                  Given(name, text)[name] = text /\ text \notin {"absent", "empty"}
<1>1. CASE text \in {"absent", "empty"}
    <2>1. Given(name, text) = <<>>
        BY <1>1 DEF Given
    <2>2. DOMAIN Given(name, text) = {}
        BY <2>1
    <2> QED BY <2>2, Zenon
<1>2. CASE text \notin {"absent", "empty"}
    BY <1>2 DEF Given
<1> QED BY <1>1, <1>2

\* The fields of g come over those of f.
LEMMA MergedField ==
    ASSUME NEW f, NEW g, NEW n
    PROVE  /\ DOMAIN Merged(f, g) = DOMAIN f \cup DOMAIN g
           /\ n \in DOMAIN g => Merged(f, g)[n] = g[n]
           /\ n \in DOMAIN f /\ n \notin DOMAIN g => Merged(f, g)[n] = f[n]
    BY DEF Merged

\* A configuration with a host and a port of an input that has them.
HostAndPort(c, b) ==
    /\ {"host", "port"} \subseteq DOMAIN c
    /\ c["host"] = b.host /\ c["port"] = b.port

\* Host and port stay when fields of other names are merged in ...
LEMMA HostPortMerged ==
    ASSUME NEW f, NEW g, NEW b, HostAndPort(f, b), DOMAIN g \cap {"host", "port"} = {}
    PROVE  HostAndPort(Merged(f, g), b)
    BY MergedField DEF HostAndPort

\* ... and are what resolveHostPort returns.
LEMMA HostPortItself == \A b : HostAndPort(HostPort(b), b)
    BY DEF HostAndPort, HostPort

\* What the resolver lets through, the probe can start with or it is a known gap.
Judged(type, c) == Probeable(type, c) \/ KnownGap(type, c)

\* Types that are probed at a host and a port.
LEMMA HostPortJudged ==
    ASSUME NEW type \in {"TCP", "SSL", "SMTP", "KAFKA", "GRPC"}, NEW c, NEW b,
           HostPortValid(b), HostAndPort(c, b)
    PROVE  Judged(type, c)
<1>1. b.host \in {"name", "schemeName", "ipv4", "ipv6"} /\ b.port \in ValidPorts
    BY Zenon DEF HostPortValid, IsValidTcpHost, IsIP
<1>2. b.host # "empty"
    BY <1>1, Zenon
<1>3. Has(c, {"host", "port"}) /\ c.host = b.host /\ c.port = b.port
    BY Zenon DEF Has, HostAndPort
<1>4. HostPortGiven(c)
    BY <1>1, <1>2, <1>3, Zenon DEF HostPortGiven
<1>5. CASE type \in {"TCP", "SSL", "SMTP"}
    BY <1>4, <1>5 DEF Judged, Probeable
<1>6. CASE type = "KAFKA"
    <2>1. CASE c.host = "ipv6"
        BY <1>6, <2>1 DEF Judged, KnownGap, GapsOf, TextOf
    <2>2. CASE c.host # "ipv6"
        BY <1>4, <1>6, <2>2 DEF Judged, Probeable, BrokerTakes
    <2> QED BY <2>1, <2>2
<1>7. CASE type = "GRPC"
    <2>1. CASE c.host \in {"ipv6", "schemeName"}
        BY <1>7, <2>1 DEF Judged, KnownGap, GapsOf, TextOf
    <2>2. CASE c.host \notin {"ipv6", "schemeName"}
        BY <1>4, <1>7, <2>2 DEF Judged, Probeable, TargetTakes
    <2> QED BY <2>1, <2>2
<1> QED BY <1>5, <1>6, <1>7

\* Types that are probed at a URL: what its library does not take is a known gap.
LEMMA UrlJudged ==
    ASSUME NEW type \in {"HTTP", "REDIS", "DATABASE"}, NEW c, Has(c, {"url"}),
           type = "HTTP"     => c.url.scheme \in {"http", "https"} /\ HasHost(c.url),
           type = "REDIS"    => c.url.scheme \in {"redis", "rediss"} /\ HasHost(c.url),
           type = "DATABASE" => SqlitePath(c.url) \/ ServerUrl(c.url)
    PROVE  Judged(type, c)
<1>1. TextOf(type, c) = c.url.rest
    BY DEF TextOf
<1>2. CASE type = "HTTP"
    <2>1. FetchTakes(c.url) \/ c.url.rest \in GapsOf[type]
        BY <1>2 DEF FetchTakes, GapsOf
    <2> QED BY <1>1, <1>2, <2>1 DEF Judged, KnownGap, GapsOf, Probeable
<1>3. CASE type = "REDIS"
    <2>1. CreateClientTakes(c.url) \/ c.url.rest \in GapsOf[type]
        BY <1>3 DEF CreateClientTakes, GapsOf
    <2> QED BY <1>1, <1>3, <2>1 DEF Judged, KnownGap, GapsOf, Probeable
<1>4. CASE type = "DATABASE"
    <2>1. DatabaseTakes(c.url) \/ (~SqlitePath(c.url) /\ c.url.rest \in GapsOf[type])
        BY <1>4 DEF DatabaseTakes, GapsOf
    <2> QED BY <1>1, <1>4, <2>1 DEF Judged, KnownGap, GapsOf, Probeable
<1> QED BY <1>2, <1>3, <1>4

\* What the resolver does not refuse is one or the other, whatever the input says.
LEMMA ResolvedIsJudged ==
    ASSUME NEW type \in MonitorTypes, NEW b, Resolve(type, b) # Refused
    PROVE  Judged(type, Resolve(type, b))
<1> DEFINE c == Resolve(type, b)
<1>0. type \in {"HTTP", "REDIS", "DATABASE", "TCP", "SSL", "DNS", "SMTP", "KAFKA", "GRPC"}
    BY DEF MonitorTypes, FieldOf
<1>1. CASE type = "HTTP"
    <2>1. c = ResolveHttp(b)
        BY <1>1 DEF Resolve
    <2>2. /\ c = [url |-> b.url, method |-> "GET",
                  expectedStatus |-> OrElse(b.expectedStatus, 200)]
          /\ b.url.scheme \in {"http", "https"} /\ HasHost(b.url)
        BY <2>1, Zenon DEF ResolveHttp
    <2>3. Has(c, {"url"}) /\ c.url = b.url
        BY <2>2 DEF Has
    <2> HIDE DEF c
    <2>4. Judged(type, c)
        BY <1>1, <2>2, <2>3, UrlJudged
    <2> QED BY <2>4 DEF c
<1>2. CASE type = "REDIS"
    <2>1. c = ResolveRedis(b)
        BY <1>2 DEF Resolve
    <2>2. /\ c = [url |-> b.url]
          /\ b.url.scheme \in {"redis", "rediss"} /\ HasHost(b.url)
        BY <2>1, Zenon DEF ResolveRedis
    <2>3. Has(c, {"url"}) /\ c.url = b.url
        BY <2>2 DEF Has
    <2> HIDE DEF c
    <2>4. Judged(type, c)
        BY <1>2, <2>2, <2>3, UrlJudged
    <2> QED BY <2>4 DEF c
<1>3. CASE type = "DATABASE"
    <2>1. c = ResolveDatabase(b)
        BY <1>3 DEF Resolve
    <2>2. c = [url |-> b.url] /\ (SqlitePath(b.url) \/ ServerUrl(b.url))
        BY <2>1, Zenon DEF ResolveDatabase
    <2>3. Has(c, {"url"}) /\ c.url = b.url
        BY <2>2 DEF Has
    <2> HIDE DEF c
    <2>4. Judged(type, c)
        BY <1>3, <2>2, <2>3, UrlJudged
    <2> QED BY <2>4 DEF c
<1>4. CASE type = "TCP"
    <2>1. c = ResolveTcp(b)
        BY <1>4 DEF Resolve
    <2>2. c = HostPort(b) /\ HostPortValid(b)
        BY <2>1, Zenon DEF ResolveTcp
    <2> QED BY <1>4, <2>2, HostPortItself, HostPortJudged
<1>5. CASE type = "SSL"
    <2> DEFINE name  == Given("serverName", b.serverName)
               rules == [minDaysUntilExpiry |-> OrElse(b.minDaysUntilExpiry, 0),
                         allowUnauthorized  |-> b.allowUnauthorized]
    <2>1. c = ResolveSsl(b)
        BY <1>5 DEF Resolve
    <2>2. c = Merged(Merged(HostPort(b), name), rules) /\ HostPortValid(b)
        BY <2>1, Zenon DEF ResolveSsl, SslValid
    <2>3. DOMAIN name \cap {"host", "port"} = {}
        BY GivenField
    <2>4. DOMAIN rules \cap {"host", "port"} = {}
        OBVIOUS
    <2> HIDE DEF name, rules
    <2>5. HostAndPort(c, b)
        BY <2>2, <2>3, <2>4, HostPortItself, HostPortMerged
    <2> QED BY <1>5, <2>2, <2>5, HostPortJudged
<1>6. CASE type = "DNS"
    <2> DEFINE base  == [host |-> b.host, recordType |-> "A"]
               value == Given("expectedValue", b.expectedValue)
               named == Merged(base, value)
               server == Given("nameserver", b.nameserver)
    <2>1. c = ResolveDns(b)
        BY <1>6 DEF Resolve
    <2>2. /\ c = Merged(named, server) /\ IsValidTcpHost(b.host)
          /\ b.nameserver \notin {"absent", "empty"} => IsIP(b.nameserver)
        BY <2>1, Zenon DEF ResolveDns
    <2>3. b.host # "empty"
        BY <2>2 DEF IsValidTcpHost, IsIP
    <2>4. /\ {"host", "recordType"} = DOMAIN base
          /\ base["host"] = b.host /\ base["recordType"] = "A"
        OBVIOUS
    <2>5. DOMAIN value \subseteq {"expectedValue"}
        BY GivenField
    <2>6. /\ DOMAIN server \subseteq {"nameserver"}
          /\ "nameserver" \in DOMAIN server => IsIP(server["nameserver"])
        BY <2>2, GivenField
    <2> HIDE DEF base, value, server
    <2>7. /\ {"host", "recordType"} \subseteq DOMAIN named
          /\ DOMAIN named \subseteq {"host", "recordType", "expectedValue"}
          /\ named["host"] = b.host /\ named["recordType"] = "A"
        <3>1. DOMAIN named = DOMAIN base \cup DOMAIN value
            BY MergedField
        <3>2. "host" \notin DOMAIN value /\ "recordType" \notin DOMAIN value
            BY <2>5
        <3>3. named["host"] = base["host"] /\ named["recordType"] = base["recordType"]
            <4>1. "host" \in DOMAIN base /\ "recordType" \in DOMAIN base
                BY <2>4
            <4>2. Merged(base, value)["host"] = base["host"]
                BY <3>2, <4>1 DEF Merged
            <4>3. Merged(base, value)["recordType"] = base["recordType"]
                BY <3>2, <4>1 DEF Merged
            <4> QED BY <4>2, <4>3
        <3> QED BY <2>4, <2>5, <3>1, <3>3
    <2> HIDE DEF named
    <2>8. /\ {"host", "recordType"} \subseteq DOMAIN c
          /\ c["host"] = b.host /\ c["recordType"] = "A"
          /\ "nameserver" \in DOMAIN c => IsIP(c["nameserver"])
        <3>1. DOMAIN c = DOMAIN named \cup DOMAIN server
            BY <2>2, MergedField
        <3>2. "host" \notin DOMAIN server /\ "recordType" \notin DOMAIN server
            BY <2>6
        <3>3. c["host"] = named["host"] /\ c["recordType"] = named["recordType"]
            <4>1. "host" \in DOMAIN named /\ "recordType" \in DOMAIN named
                BY <2>7
            <4>2. Merged(named, server)["host"] = named["host"]
                BY <3>2, <4>1 DEF Merged
            <4>3. Merged(named, server)["recordType"] = named["recordType"]
                BY <3>2, <4>1 DEF Merged
            <4> QED BY <2>2, <4>2, <4>3
        <3>4. "nameserver" \in DOMAIN c =>
                  "nameserver" \in DOMAIN server /\ c["nameserver"] = server["nameserver"]
            <4>1. "nameserver" \notin DOMAIN named
                BY <2>7
            <4>2. "nameserver" \in DOMAIN server =>
                      Merged(named, server)["nameserver"] = server["nameserver"]
                BY DEF Merged
            <4> QED BY <2>2, <3>1, <4>1, <4>2
        <3> QED BY <2>6, <2>7, <3>1, <3>3, <3>4
    <2> HIDE DEF c
    <2>9. /\ Has(c, {"host"}) /\ c.host # "empty"
          /\ Has(c, {"recordType"}) => c.recordType = "A"
          /\ Has(c, {"nameserver"}) => IsIP(c.nameserver)
        BY <2>3, <2>8 DEF Has
    <2>10. Judged(type, c)
        BY <1>6, <2>9 DEF Judged, Probeable
    <2> QED BY <2>10 DEF c
<1>7. CASE type = "SMTP"
    <2> DEFINE modes == [secure |-> b.secure, startTls |-> b.startTls]
    <2>1. c = ResolveSmtp(b)
        BY <1>7 DEF Resolve
    <2>2. c = Merged(HostPort(b), modes) /\ HostPortValid(b)
        BY <2>1, Zenon DEF ResolveSmtp
    <2>3. DOMAIN modes \cap {"host", "port"} = {}
        OBVIOUS
    <2> HIDE DEF modes
    <2>4. HostAndPort(c, b)
        BY <2>2, <2>3, HostPortItself, HostPortMerged
    <2> QED BY <1>7, <2>2, <2>4, HostPortJudged
<1>8. CASE type = "KAFKA"
    <2> DEFINE secured == [tls |-> b.tls]
               topic   == Given("topic", b.topic)
    <2>1. c = ResolveKafka(b)
        BY <1>8 DEF Resolve
    <2>2. c = Merged(Merged(HostPort(b), secured), topic) /\ HostPortValid(b)
        BY <2>1, Zenon DEF ResolveKafka
    <2>3. DOMAIN secured \cap {"host", "port"} = {}
        OBVIOUS
    <2>4. DOMAIN topic \cap {"host", "port"} = {}
        BY GivenField
    <2> HIDE DEF secured, topic
    <2>5. HostAndPort(c, b)
        BY <2>2, <2>3, <2>4, HostPortItself, HostPortMerged
    <2> QED BY <1>8, <2>2, <2>5, HostPortJudged
<1>9. CASE type = "GRPC"
    <2> DEFINE options == [tls |-> b.tls,
                          service |-> IF b.service = "absent" THEN "empty" ELSE b.service]
    <2>1. c = ResolveGrpc(b)
        BY <1>9 DEF Resolve
    <2>2. c = Merged(HostPort(b), options) /\ HostPortValid(b)
        BY <2>1, Zenon DEF ResolveGrpc
    <2>3. DOMAIN options \cap {"host", "port"} = {}
        OBVIOUS
    <2> HIDE DEF options
    <2>4. HostAndPort(c, b)
        BY <2>2, <2>3, HostPortItself, HostPortMerged
    <2> QED BY <1>9, <2>2, <2>4, HostPortJudged
<1> QED BY <1>0, <1>1, <1>2, <1>3, <1>4, <1>5, <1>6, <1>7, <1>8, <1>9, Zenon

\* A type and a configuration that go together.
Sound(type, config) == type \in MonitorTypes /\ Judged(type, config)

\* The inductive invariant: what is stored and what a request has read go
\* together; a request that nobody overlapped has read the columns as they are,
\* and they are as asked for until an update has run into an overlap.
MonitorsInv ==
    /\ row # NoRow => Sound(row.type, row.config)
    /\ probed # NoProbe => Sound(probed.type, probed.config)
    /\ seen = [e \in Editors |-> seen[e]] /\ overlap \in [Editors -> BOOLEAN]
    /\ lost \in BOOLEAN
    /\ \A e \in Editors : seen[e] # NoRow => row # NoRow /\ Sound(seen[e].type, seen[e].config)
    /\ ~lost => row.columns = asked
    /\ \A e \in Editors :
          seen[e] # NoRow /\ ~overlap[e] => seen[e].columns = row.columns
    /\ asked = [col \in Columns |-> asked[col]]

\* A row has one of the nine types.
LEMMA TypedIsSome ==
    ASSUME NEW type \in MonitorTypes, NEW config, NEW columns
    PROVE  [type |-> type, config |-> config, columns |-> columns] # NoRow
<1>1. type # "none"
    BY DEF MonitorTypes, FieldOf
<1> QED BY <1>1 DEF NoRow

\* What an input that is not refused resolves to is sound.
LEMMA ResolvedIsSound ==
    ASSUME NEW type \in MonitorTypes, NEW bag, ResolveMonitorConfig(type, bag) # Refused
    PROVE  Sound(type, ResolveMonitorConfig(type, bag))
<1>1. ResolveMonitorConfig(type, bag) = Resolve(type, bag[FieldOf[type]])
    BY DEF ResolveMonitorConfig
<1> QED BY <1>1, ResolvedIsJudged DEF Sound

\* And so is what a change makes of a row.
LEMMA ChangeIsSound ==
    ASSUME MonitorsInv, NEW e \in Editors, NEW c \in Changes, seen[e] # NoRow,
           ConfigFor(e, c) # Refused
    PROVE  Sound(TypeFor(e, c), ConfigFor(e, c))
<1>1. Sound(seen[e].type, seen[e].config)
    BY DEF MonitorsInv
<1>2. TypeFor(e, c) \in MonitorTypes
    BY <1>1, MonitorsAssumption DEF TypeFor, Sound
<1>3. CASE DOMAIN c.bag # {}
    <2>1. ConfigFor(e, c) = ResolveMonitorConfig(TypeFor(e, c), c.bag)
        BY <1>3 DEF ConfigFor
    <2> QED BY <1>2, <2>1, ResolvedIsSound
<1>4. CASE DOMAIN c.bag = {}
    <2>1. TypeFor(e, c) = seen[e].type /\ ConfigFor(e, c) = seen[e].config
        BY <1>4, Zenon DEF ConfigFor
    <2> QED BY <1>1, <2>1
<1> QED BY <1>3, <1>4

\* It holds before there is a monitor.
LEMMA InitMonitors == MonitorsInit => MonitorsInv
<1>1. NoRow.columns = [c \in Columns |-> "old"]
    BY DEF NoRow
<1> QED BY <1>1 DEF MonitorsInit, MonitorsInv

\* Every request keeps the invariant.
LEMMA StepMonitors == MonitorsInv /\ [MonitorsNext]_monitorsVars => MonitorsInv'
<1> SUFFICES ASSUME MonitorsInv, [MonitorsNext]_monitorsVars PROVE MonitorsInv'
    OBVIOUS
<1>1. CASE ProbeDraft
    <2>1. PICK d \in Drafts :
              /\ ResolveMonitorConfig(d.type, d.bag) # Refused
              /\ probed' = [type |-> d.type, config |-> ResolveMonitorConfig(d.type, d.bag)]
        BY <1>1 DEF ProbeDraft
    <2>2. Sound(probed'.type, probed'.config)
        BY <2>1, ResolvedIsSound, MonitorsAssumption
    <2> QED BY <1>1, <2>2 DEF ProbeDraft, MonitorsInv
<1>2. CASE Create
    <2>1. PICK d \in Stored :
              /\ ResolveMonitorConfig(d.type, d.bag) # Refused
              /\ row' = [type |-> d.type, config |-> ResolveMonitorConfig(d.type, d.bag),
                         columns |-> [c \in Columns |-> "old"]]
        BY <1>2 DEF Create
    <2>2. Sound(row'.type, row'.config) /\ row' # NoRow
        BY <2>1, ResolvedIsSound, TypedIsSome, MonitorsAssumption
    <2>3. \A e \in Editors : seen[e] = NoRow
        BY <1>2 DEF Create, MonitorsInv
    <2>4. row'.columns = row.columns
        BY <1>2, <2>1 DEF Create, NoRow
    <2> QED BY <1>2, <2>2, <2>3, <2>4 DEF Create, MonitorsInv
<1>3. ASSUME NEW e \in Editors, ReadRow(e) PROVE MonitorsInv'
    BY <1>3 DEF ReadRow, MonitorsInv
<1>4. ASSUME NEW e \in Editors, NEW c \in ValidChanges, QuickCheck(e, c) PROVE MonitorsInv'
    <2>1. Sound(TypeFor(e, c), ConfigFor(e, c))
        BY <1>4, ChangeIsSound DEF QuickCheck, ValidChanges
    <2>2. Sound(probed'.type, probed'.config)
        BY <1>4, <2>1 DEF QuickCheck
    <2> QED BY <1>4, <2>2 DEF QuickCheck, Done, MonitorsInv
<1>5. ASSUME NEW e \in Editors, NEW c \in ValidChanges, NEW p \in Patches, Update(e, c, p)
      PROVE  MonitorsInv'
    <2>1. Sound(TypeFor(e, c), ConfigFor(e, c))
        BY <1>5, ChangeIsSound DEF Update, ValidChanges
    <2>2. row' # NoRow /\ Sound(row'.type, row'.config) /\ row'.columns = ColumnsFor(e, p)
        BY <1>5, <2>1, TypedIsSome DEF Update, Sound
    <2>3. /\ seen' = [seen EXCEPT ![e] = NoRow]
          /\ overlap' = [f \in Editors |-> f # e]
          /\ asked' = [col \in Columns |-> IF Asks(p, col) THEN p[col] ELSE asked[col]]
          /\ lost' = (lost \/ overlap[e])
          /\ probed' = NoProbe
        BY <1>5 DEF Update, Done
    <2>4. ~lost' => row'.columns = asked'
        <3> SUFFICES ASSUME ~lost, ~overlap[e] PROVE ColumnsFor(e, p) = asked'
            BY <2>2, <2>3
        <3>1. seen[e].columns = asked
            BY <1>5 DEF Update, MonitorsInv
        <3> QED BY <2>3, <3>1 DEF ColumnsFor
    <2> QED BY <2>2, <2>3, <2>4 DEF MonitorsInv
<1>6. ASSUME NEW e \in Editors, NEW c \in ValidChanges, NEW p \in Patches, Refuse(e, c, p)
      PROVE  MonitorsInv'
    BY <1>6 DEF Refuse, Done, MonitorsInv
<1>7. CASE UNCHANGED monitorsVars
    BY <1>7 DEF monitorsVars, MonitorsInv
<1> QED BY <1>1, <1>2, <1>3, <1>4, <1>5, <1>6, <1>7 DEF MonitorsNext

\* The invariant of Monitors, for any inputs and any number of requests.
THEOREM MonitorsInvariance == MonitorsSpec => []MonitorsInv
    BY InitMonitors, StepMonitors, PTL DEF MonitorsSpec

\* For any inputs, changes and patches, by any number of requests at a time: what
\* the resolver lets through, and what updates write back of rows they have read
\* earlier, goes with its type and can be probed, but for the known gaps.
THEOREM GapsAreKnown == MonitorsSpec => []OnlyKnownGaps
<1>1. MonitorsInv => OnlyKnownGaps
    BY DEF MonitorsInv, Sound, Judged, OnlyKnownGaps
<1> QED BY MonitorsInvariance, <1>1, PTL

\* An input of a type that shows a gap.
GapInput(type, gap) ==
    CASE type = "HTTP"     -> [url |-> [scheme |-> "http", rest |-> gap], method |-> "GET",
                               expectedStatus |-> 200]
      [] type = "REDIS"    -> [url |-> [scheme |-> "redis", rest |-> gap]]
      [] type = "DATABASE" -> [url |-> [scheme |-> "mysql", rest |-> gap]]
      [] type = "KAFKA"    -> [host |-> gap, port |-> 1, tls |-> FALSE, topic |-> "absent"]
      [] type = "GRPC"     -> [host |-> gap, port |-> 1, tls |-> FALSE, service |-> "absent"]

\* The inputs of a type.
LEMMA InputsOf ==
    /\ Inputs[FieldOf["HTTP"]] =
          [url : Urls, method : {"absent", "GET", "TRACE"}, expectedStatus : Statuses]
    /\ Inputs[FieldOf["REDIS"]] = [url : Urls] /\ Inputs[FieldOf["DATABASE"]] = [url : Urls]
    /\ Inputs[FieldOf["KAFKA"]] =
          [host : Hosts, port : Ports, tls : BOOLEAN, topic : {"absent", "topic", "badTopic"}]
    /\ Inputs[FieldOf["GRPC"]] =
          [host : Hosts, port : Ports, tls : BOOLEAN,
           service : {"absent", "empty", "service", "tooLong"}]
    BY Zenon DEF Inputs, FieldOf

\* And each of these gaps is one: there is an input that the validators let through and
\* the resolver makes a configuration of, with which no probe can start.
THEOREM GapsAreOpen ==
    ASSUME NEW type \in DOMAIN GapsOf, NEW gap \in GapsOf[type]
    PROVE  \E b \in Inputs[FieldOf[type]] :
              /\ Valid(FieldOf[type], b)
              /\ Resolve(type, b) # Refused
              /\ ~Probeable(type, Resolve(type, b))
<1> DEFINE b == GapInput(type, gap)
           c == Resolve(type, b)
<1>1. CASE type = "HTTP"
    <2>1. gap \in {"user", "undecodable", "blockedPort"}
        BY <1>1 DEF GapsOf
    <2>2. /\ b = [url |-> [scheme |-> "http", rest |-> gap], method |-> "GET",
                  expectedStatus |-> 200]
          /\ b.url = [scheme |-> "http", rest |-> gap]
          /\ HasHost(b.url) /\ Absolute(b.url)
        BY <1>1, <2>1 DEF GapInput, HasHost, WithHost, Absolute
    <2>3. b \in Inputs[FieldOf[type]]
        <3>1. [scheme |-> "http", rest |-> gap] \in Urls
            BY <2>1 DEF Urls, Schemes, WithHost
        <3>2. b \in [url : Urls, method : {"absent", "GET", "TRACE"}, expectedStatus : Statuses]
            BY <2>2, <3>1 DEF Statuses
        <3> QED BY <1>1, <3>2, InputsOf
    <2>4. Valid(FieldOf[type], b)
        BY <1>1, <2>2 DEF FieldOf, Valid, HttpValid
    <2>5. c = [url |-> b.url, method |-> "GET", expectedStatus |-> OrElse(b.expectedStatus, 200)]
        BY <1>1, <2>2 DEF Resolve, ResolveHttp
    <2>6. c # Refused /\ c.url.rest = gap
        BY <2>2, <2>5 DEF Refused
    <2>7. ~Probeable(type, c)
        BY <1>1, <2>1, <2>6 DEF Probeable, FetchTakes
    <2> QED BY <2>3, <2>4, <2>6, <2>7
<1>2. CASE type = "REDIS"
    <2>1. gap \in {"undecodable", "word", "ipv6"}
        BY <1>2 DEF GapsOf
    <2>2. /\ b = [url |-> [scheme |-> "redis", rest |-> gap]]
          /\ b.url = [scheme |-> "redis", rest |-> gap]
          /\ HasHost(b.url) /\ Absolute(b.url)
        BY <1>2, <2>1 DEF GapInput, HasHost, WithHost, Absolute
    <2>3. b \in Inputs[FieldOf[type]]
        <3>1. [scheme |-> "redis", rest |-> gap] \in Urls
            BY <2>1 DEF Urls, Schemes, WithHost
        <3>2. b \in [url : Urls]
            BY <2>2, <3>1
        <3> QED BY <1>2, <3>2, InputsOf
    <2>4. Valid(FieldOf[type], b)
        BY <1>2, <2>1, <2>2 DEF FieldOf, Valid, RedisValid
    <2>5. c = [url |-> b.url]
        BY <1>2, <2>2 DEF Resolve, ResolveRedis
    <2>6. c # Refused /\ c.url.rest = gap
        BY <2>2, <2>5 DEF Refused
    <2>7. ~Probeable(type, c)
        BY <1>2, <2>1, <2>6 DEF Probeable, CreateClientTakes
    <2> QED BY <2>3, <2>4, <2>6, <2>7
<1>3. CASE type = "DATABASE"
    <2>1. gap \in {"undecodable", "options", "ipv6"}
        BY <1>3 DEF GapsOf
    <2>2. /\ b = [url |-> [scheme |-> "mysql", rest |-> gap]]
          /\ b.url = [scheme |-> "mysql", rest |-> gap]
          /\ ServerUrl(b.url) /\ ~SqlitePath(b.url)
        BY <1>3, <2>1 DEF GapInput, HasHost, WithHost, ServerUrl, SqlitePath
    <2>3. b \in Inputs[FieldOf[type]]
        <3>1. [scheme |-> "mysql", rest |-> gap] \in Urls
            BY <2>1 DEF Urls, Schemes, WithHost
        <3>2. b \in [url : Urls]
            BY <2>2, <3>1
        <3> QED BY <1>3, <3>2, InputsOf
    <2>4. Valid(FieldOf[type], b)
        BY <1>3, <2>2 DEF FieldOf, Valid, DatabaseValid
    <2>5. c = [url |-> b.url]
        BY <1>3, <2>2 DEF Resolve, ResolveDatabase
    <2>6. c # Refused /\ c.url = b.url /\ c.url.rest = gap
        BY <2>2, <2>5 DEF Refused
    <2>7. ~Probeable(type, c)
        BY <1>3, <2>1, <2>2, <2>6 DEF Probeable, DatabaseTakes
    <2> QED BY <2>3, <2>4, <2>6, <2>7
<1>4. CASE type = "KAFKA"
    <2>1. gap = "ipv6"
        BY <1>4 DEF GapsOf
    <2>2. /\ b = [host |-> "ipv6", port |-> 1, tls |-> FALSE, topic |-> "absent"]
          /\ HostPortValid(b)
        <3>1. b = [host |-> "ipv6", port |-> 1, tls |-> FALSE, topic |-> "absent"]
            BY <1>4, <2>1 DEF GapInput
        <3>2. b.host = "ipv6" /\ b.port = 1
            BY <3>1
        <3>3. IsValidTcpHost(b.host) /\ b.port \in ValidPorts
            <4>1. IsValidTcpHost("ipv6")
                BY Zenon DEF IsValidTcpHost, IsIP
            <4>2. 1 \in ValidPorts
                BY DEF ValidPorts
            <4> QED BY <3>2, <4>1, <4>2
        <3> QED BY <3>1, <3>3 DEF HostPortValid
    <2>3. b \in Inputs[FieldOf[type]]
        <3>1. b \in [host : Hosts, port : Ports, tls : BOOLEAN,
                    topic : {"absent", "topic", "badTopic"}]
            BY <2>2 DEF Hosts, Ports
        <3> QED BY <1>4, <3>1, InputsOf
    <2>4. Valid(FieldOf[type], b)
        BY <1>4, <2>2 DEF FieldOf, Valid, KafkaValid
    <2> DEFINE secured == [tls |-> b.tls]
    <2>5. c = Merged(Merged(HostPort(b), secured), <<>>)
        BY <1>4, <2>2 DEF Resolve, ResolveKafka, Given
    <2>6. DOMAIN secured \cap {"host", "port"} = {} /\ DOMAIN <<>> \cap {"host", "port"} = {}
        OBVIOUS
    <2> HIDE DEF secured
    <2>7. HostAndPort(c, b)
        BY <2>5, <2>6, HostPortItself, HostPortMerged
    <2>8. c # Refused /\ c.host = "ipv6"
        BY <2>2, <2>7 DEF HostAndPort, Refused
    <2>9. ~Probeable(type, c)
        BY <1>4, <2>8 DEF Probeable, BrokerTakes
    <2> QED BY <2>3, <2>4, <2>8, <2>9
<1>5. CASE type = "GRPC"
    <2>1. gap \in {"ipv6", "schemeName"}
        BY <1>5 DEF GapsOf
    <2>2. /\ b = [host |-> gap, port |-> 1, tls |-> FALSE, service |-> "absent"]
          /\ HostPortValid(b)
        <3>1. b = [host |-> gap, port |-> 1, tls |-> FALSE, service |-> "absent"]
            BY <1>5 DEF GapInput
        <3>2. b.host = gap /\ b.port = 1
            BY <3>1
        <3>3. IsValidTcpHost(b.host) /\ b.port \in ValidPorts
            BY <2>1, <3>2 DEF IsValidTcpHost, IsIP, ValidPorts
        <3> QED BY <3>1, <3>3 DEF HostPortValid
    <2>3. b \in Inputs[FieldOf[type]]
        <3>1. b \in [host : Hosts, port : Ports, tls : BOOLEAN,
                    service : {"absent", "empty", "service", "tooLong"}]
            BY <2>1, <2>2 DEF Hosts, Ports
        <3> QED BY <1>5, <3>1, InputsOf
    <2>4. Valid(FieldOf[type], b)
        BY <1>5, <2>2 DEF FieldOf, Valid, GrpcValid
    <2> DEFINE options == [tls |-> b.tls, service |-> "empty"]
    <2>5. c = Merged(HostPort(b), options)
        BY <1>5, <2>2 DEF Resolve, ResolveGrpc
    <2>6. DOMAIN options \cap {"host", "port"} = {}
        OBVIOUS
    <2> HIDE DEF options
    <2>7. HostAndPort(c, b)
        BY <2>5, <2>6, HostPortItself, HostPortMerged
    <2>8. c # Refused /\ c.host = gap
        BY <2>2, <2>7 DEF HostAndPort, Refused
    <2>9. ~Probeable(type, c)
        BY <1>5, <2>1, <2>8 DEF Probeable, TargetTakes
    <2> QED BY <2>3, <2>4, <2>8, <2>9
<1> QED BY <1>1, <1>2, <1>3, <1>4, <1>5 DEF GapsOf
\* And as long as no update has overlapped another, every column holds what was
\* last asked for.
THEOREM EditsStand == MonitorsSpec => []EditsStandWithoutOverlap
<1>1. MonitorsInv => EditsStandWithoutOverlap
    BY DEF MonitorsInv, EditsStandWithoutOverlap
<1> QED BY MonitorsInvariance, <1>1, PTL
==============================================================================
