------------------------------ MODULE Monitors -------------------------------
(***************************************************************************)
(* The mutations of one monitor in MonitorService: a draft is probed or     *)
(* stored (probeForUser, createForUser), and the stored row is updated or   *)
(* checked by several requests at a time (updateForUser, quickCheckForUser).*)
(* An update reads the row and later writes every column of it back, its    *)
(* own changes among them.  Cache and schedulers are in CacheService and    *)
(* JobSchedulers, deletion and the checks themselves in MonitorRunner.      *)
(***************************************************************************)
EXTENDS MonitorConfig

CONSTANTS
    Editors,     \* requests at work on the stored monitor
    Columns,     \* the plain columns a request may change
    Drafts,      \* what is tried as a new monitor: records [type, bag]
    Stored,      \* those among them that are stored, not only probed
    Changes,     \* what is tried as an update: records [type, bag], "absent" the old type
    Patches      \* and the columns it gives, each with its value

\* What a patch leaves out keeps its column; null does too, but for the name, where
\* it is refused (the validators refuse a blank one).
Values == {"old", "new"}

ASSUME MonitorsAssumption ==
    /\ Columns \subseteq {"name", "enabled", "alertsMuted", "intervalSec", "timeoutMs"}
    /\ Stored \subseteq Drafts
    /\ \A d \in Drafts : d.type \in MonitorTypes /\ DOMAIN d.bag \subseteq Fields
    /\ \A c \in Changes : /\ c.type \in MonitorTypes \cup {"absent"}
                          /\ DOMAIN c.bag \subseteq Fields
    /\ Patches \subseteq UNION {[cs -> Values \cup {"null"}] : cs \in SUBSET Columns}

VARIABLES
    row,      \* the stored monitor: type, config, columns; NoRow before it exists
    seen,     \* of each editor, the row as it read it; NoRow outside of a request
    overlap,  \* of each editor: another one has written since it read
    probed,   \* what the last step calls runProbe with: [type, config]
    asked,    \* history: of each column, the value last asked for
    lost      \* history: an update has run into an overlap

monitorsVars == <<row, seen, overlap, probed, asked, lost>>

NoRow    == [type |-> "none", config |-> Refused, columns |-> [c \in Columns |-> "old"]]
NoProbe  == [type |-> "none", config |-> Refused]

BagValid(bag) == \A f \in DOMAIN bag : Valid(f, bag[f])

\* What the validators of the GraphQL inputs let through.
DraftValid(d) == ~Mismatch(d.type, DOMAIN d.bag, TRUE) /\ BagValid(d.bag)
ChangeValid(c) ==
    /\ DOMAIN c.bag # {} => ~Mismatch(c.type, DOMAIN c.bag, FALSE)
    /\ BagValid(c.bag)
ValidChanges == {c \in Changes : ChangeValid(c)}

MonitorsInit ==
    /\ row = NoRow
    /\ seen = [e \in Editors |-> NoRow]
    /\ overlap = [e \in Editors |-> FALSE]
    /\ probed = NoProbe
    /\ asked = [c \in Columns |-> "old"]
    /\ lost = FALSE

\* probeForUser: a refused configuration is an error, and nothing is stored.
ProbeDraft ==
    /\ row = NoRow
    /\ \E d \in Drafts :
          LET config == ResolveMonitorConfig(d.type, d.bag) IN
             /\ DraftValid(d) /\ config # Refused
             /\ probed' = [type |-> d.type, config |-> config]
    /\ UNCHANGED <<row, seen, overlap, asked, lost>>

\* createForUser.
Create ==
    /\ row = NoRow
    /\ \E d \in Stored :
          LET config == ResolveMonitorConfig(d.type, d.bag) IN
             /\ DraftValid(d) /\ config # Refused
             /\ row' = [type |-> d.type, config |-> config,
                        columns |-> [c \in Columns |-> "old"]]
    /\ probed' = NoProbe
    /\ UNCHANGED <<seen, overlap, asked, lost>>

\* A request reads the row.
ReadRow(e) ==
    /\ row # NoRow /\ seen[e] = NoRow
    /\ seen' = [seen EXCEPT ![e] = row]
    /\ overlap' = [overlap EXCEPT ![e] = FALSE]
    /\ probed' = NoProbe
    /\ UNCHANGED <<row, asked, lost>>

\* The type after change c of what e has read.
TypeFor(e, c) == IF c.type = "absent" THEN seen[e].type ELSE c.type

\* The configuration of the change when it brings one, and that of the row else;
\* a new type needs one.
ConfigFor(e, c) ==
    IF DOMAIN c.bag # {}                 THEN ResolveMonitorConfig(TypeFor(e, c), c.bag)
    ELSE IF TypeFor(e, c) # seen[e].type THEN Refused
    ELSE seen[e].config

Asks(p, col)   == col \in DOMAIN p /\ p[col] \in Values
NameRefused(p) == "name" \in DOMAIN p /\ ~Asks(p, "name")

\* Mutation of ColumnsFor: what is left out takes the default of a new monitor.
ColumnsAnew(e, p) ==
    [col \in Columns |-> IF Asks(p, col) THEN p[col] ELSE "old"]

ColumnsFor(e, p) ==
    [col \in Columns |-> IF Asks(p, col) THEN p[col] ELSE seen[e].columns[col]]

Done(e) == seen' = [seen EXCEPT ![e] = NoRow]

\* updateForUser writes every column.
Update(e, c, p) ==
    /\ seen[e] # NoRow
    /\ ConfigFor(e, c) # Refused /\ ~NameRefused(p)
    /\ row' = [type |-> TypeFor(e, c), config |-> ConfigFor(e, c),
               columns |-> ColumnsFor(e, p)]
    /\ Done(e)
    /\ overlap' = [f \in Editors |-> f # e]
    /\ asked' = [col \in Columns |-> IF Asks(p, col) THEN p[col] ELSE asked[col]]
    /\ lost' = (lost \/ overlap[e])
    /\ probed' = NoProbe

\* An update that is refused.
Refuse(e, c, p) ==
    /\ seen[e] # NoRow
    /\ ConfigFor(e, c) = Refused \/ NameRefused(p)
    /\ Done(e)
    /\ probed' = NoProbe
    /\ UNCHANGED <<row, overlap, asked, lost>>

\* quickCheckForUser probes the type and configuration an update would store, and
\* stores nothing.
QuickCheck(e, c) ==
    /\ seen[e] # NoRow
    /\ ConfigFor(e, c) # Refused
    /\ probed' = [type |-> TypeFor(e, c), config |-> ConfigFor(e, c)]
    /\ Done(e)
    /\ UNCHANGED <<row, overlap, asked, lost>>

MonitorsNext ==
    \/ ProbeDraft \/ Create
    \/ \E e \in Editors :
          \/ ReadRow(e)
          \/ \E c \in ValidChanges :
                \/ QuickCheck(e, c)
                \/ \E p \in Patches : Update(e, c, p) \/ Refuse(e, c, p)

MonitorsSpec == MonitorsInit /\ [][MonitorsNext]_monitorsVars

(***************************************************************************)
(* Properties.                                                              *)
(***************************************************************************)
MonitorsTypeOK ==
    /\ row.type \in MonitorTypes \cup {"none"}
    /\ row.columns \in [Columns -> Values]
    /\ \A e \in Editors : seen[e].columns \in [Columns -> Values]
    /\ asked \in [Columns -> Values]
    /\ overlap \in [Editors -> BOOLEAN] /\ lost \in BOOLEAN

\* What passes validators and resolver although no probe can start with it: of each
\* type, the URLs or hosts.  A monitor with one of them is DOWN for good, whatever its
\* peer does.
GapsOf == [HTTP     |-> {"user", "undecodable", "blockedPort"},
           REDIS    |-> {"undecodable", "word", "ipv6"},
           DATABASE |-> {"undecodable", "options", "ipv6"},
           KAFKA    |-> {"ipv6"},
           GRPC     |-> {"ipv6", "schemeName"}]

TextOf(type, c) == IF type \in {"KAFKA", "GRPC"} THEN c.host ELSE c.url.rest

KnownGap(type, c) ==
    /\ type \in DOMAIN GapsOf /\ TextOf(type, c) \in GapsOf[type]
    /\ type = "DATABASE" => ~SqlitePath(c.url)

\* Whatever passes the validators and the resolver can be probed, but for the known
\* gaps, and the type of a row always goes with its configuration, however many
\* updates write back what they read of an older row.
OnlyKnownGaps ==
    /\ row # NoRow => Probeable(row.type, row.config) \/ KnownGap(row.type, row.config)
    /\ probed # NoProbe => \/ Probeable(probed.type, probed.config)
                           \/ KnownGap(probed.type, probed.config)

\* As long as no update has overlapped another, every column holds the value that
\* was last asked for: an update that leaves a column out does not touch it.
EditsStandWithoutOverlap ==
    ~lost => row.columns = asked
==============================================================================
