-------------------------------- MODULE Probe --------------------------------
(***************************************************************************)
(* One call of MonitorProbeService.probe against a peer that may answer,    *)
(* fail or stay silent.  A probe is the list of things it waits for         *)
(* (Script); each of them has a time limit but the writes of the SMTP       *)
(* dialogue.  When a limit cuts a library's promise short, the operation    *)
(* goes on without the probe (pending).  What the peer says is judged by    *)
(* Fits.  The libraries are external: a call of theirs answers or fails     *)
(* once; Redis and MySQL clients close only when nothing is outstanding,    *)
(* and their own limits end with the first byte of the peer.  Time limits   *)
(* of sockets count silence, so each is a limit of one step of the script.  *)
(* A connection is held until the code or its library gives it up: what a   *)
(* pool keeps for a next request is the pool's, and the last words of TCP    *)
(* are the kernel's.                                                        *)
(***************************************************************************)
EXTENDS Integers, Sequences, FiniteSets

\* The probes that are tried: monitor types, DATABASE by the scheme of its URL.
CONSTANT ProbeKinds

Kinds == {"http", "redis", "postgres", "mysql", "sqlite", "tcp", "ssl", "dns",
          "smtp", "kafka", "grpc"}

ASSUME ProbeAssumption == ProbeKinds \subseteq Kinds

VARIABLES
    kind,      \* what is probed
    wants,     \* what its configuration asks of the peer
    step,      \* how far in Script(kind, wants) the probe is
    phase,     \* "idle", "awaiting", "closing", "returned" or "crashed" (the process)
    pending,   \* an operation was cut short and is still under way
    held,      \* connections that are open or being opened
    verdict,   \* "none", "UP" or "DOWN"
    answered   \* history: the steps whose answer came in time and fitted

probeVars == <<kind, wants, step, phase, pending, held, verdict, answered>>

(***************************************************************************)
(* What the probes wait for, what a configuration may ask, and what a peer  *)
(* may answer.  In the SMTP dialogue numbers are the replies waited for and *)
(* words in capitals the lines written.                                     *)
(***************************************************************************)
HttpScript  == <<"fetch">>
RedisScript == <<"connect", "ping">>
DatabaseScript(k) ==
    CASE k = "postgres" -> <<"connect", "query">>
      [] k = "mysql"    -> <<"create", "query">>
      [] k = "sqlite"   -> <<"open">>
TcpScript   == <<"connect">>
SslScript   == <<"secureConnect">>
DnsScript   == <<"resolve">>
KafkaScript == <<"connect", "topics">>
GrpcScript  == <<"check">>
SmtpScript(w) ==
    IF w = "startTls"
    THEN <<"connect", "220", "EHLO", "250", "STARTTLS", "220", "upgrade", "EHLO", "250",
           "QUIT", "221">>
    ELSE <<"connect", "220", "EHLO", "250", "QUIT", "221">>

Script(k, w) ==
    CASE k = "http"  -> HttpScript
      [] k = "redis" -> RedisScript
      [] k \in {"postgres", "mysql", "sqlite"} -> DatabaseScript(k)
      [] k = "tcp"   -> TcpScript
      [] k = "ssl"   -> SslScript
      [] k = "dns"   -> DnsScript
      [] k = "smtp"  -> SmtpScript(w)
      [] k = "kafka" -> KafkaScript
      [] k = "grpc"  -> GrpcScript

Options(k) ==
    CASE k = "http"            -> {200, 204}
      [] k = "ssl"             -> [strict : BOOLEAN, minDays : {0, 1}]
      [] k \in {"dns", "kafka"} -> {"any", "named"}
      [] k = "smtp"            -> {"plain", "startTls"}
      [] OTHER                 -> {"any"}

\* The records of a name, of whatever type is looked up; topics are like them.
Named   == SUBSET {"named", "other"}
Replies == {"220", "250", "221"}

Answers(k, s) ==
    CASE k = "http" -> {200, 204, 500}
      [] k = "ssl"  -> [trusted : BOOLEAN, cert : {"none", "undated", "dated"},
                        daysLeft : {-1, 0, 1}]
      [] s \in {"resolve", "topics"} -> Named
      [] k = "grpc" -> {"SERVING", "NOT_SERVING", "UNKNOWN"}
      [] s \in Replies -> {"expected", "other"}
      [] OTHER -> {"done"}

HttpFits(status, expected) == status = expected

SslFits(w, a) ==
    /\ w.strict => a.trusted
    /\ a.cert = "dated"
    /\ a.daysLeft >= 0
    /\ w.minDays > 0 => a.daysLeft >= w.minDays

DnsFits(w, records) == records # {} /\ (w = "named" => "named" \in records)

KafkaFits(w, topics) == w = "named" => "named" \in topics

GrpcFits(status) == status = "SERVING"

\* Of a reply in several lines the last counts; what follows it is dropped.
ReplyFits(code) == code = "expected"

Fits(k, w, s, a) ==
    CASE k = "http"      -> HttpFits(a, w)
      [] k = "ssl"       -> SslFits(w, a)
      [] s = "resolve"   -> DnsFits(w, a)
      [] s = "topics"    -> KafkaFits(w, a)
      [] k = "grpc"      -> GrpcFits(a)
      [] s \in Replies   -> ReplyFits(a)
      [] OTHER           -> TRUE

(***************************************************************************)
(* Where the probe stands.                                                  *)
(***************************************************************************)
Now      == Script(kind, wants)[step]
IsLast   == step = Len(Script(kind, wants))
Writes   == {"EHLO", "STARTTLS", "QUIT"}
Writing  == Now \in Writes
\* Mutation of Farewell: the catch stands around the greeting as well.
FarewellOrGreeting == Now \in {"220", "221"}
\* The answer to QUIT is waited for, and whatever becomes of it is caught.
Farewell == Now = "221"

\* An 'error' event of the connection finds a listener.  connectSocket,
\* upgradeToTls and readSmtpReply take theirs away when they are done, so there
\* is none while a line is written; the clients of Postgres and MySQL never get
\* one, and emit the event when a connection they had breaks.
Unheard == {"postgres", "mysql"}
Heard   == ~Writing /\ ~(kind \in Unheard /\ Now = "query")

\* withTimeout: the library's promise is raced with a timer, and not cancelled.
Raced == {"redis", "postgres", "mysql", "dns", "kafka", "grpc"}

\* The finally blocks that wait for the client to close.
Closes(h) == kind \in {"redis", "postgres", "mysql", "kafka"} /\ h # {}

\* The probes that close nothing: probeHttp looks at the status and leaves the body
\* unread, probeDns drops its resolver.
ClosesNothing == {"http", "dns"}

\* Mutation of Conclude: no finally block, what is open stays open.
ConcludeOpen(v, h) == phase' = "returned" /\ held' = h /\ verdict' = v

\* The probe's own promise settles; the finally block runs, waiting or not.  Without
\* one what is open stays open, unless it had ended by itself (a short body is all
\* there, a lookup is between two tries).
Conclude(v, h) ==
    /\ verdict' = v
    /\ IF Closes(h)
       THEN phase' = "closing" /\ held' = h
       ELSE phase' = "returned" /\ held' \in {{}, IF kind \in ClosesNothing THEN h ELSE {}}

(***************************************************************************)
(* Actions.                                                                 *)
(***************************************************************************)
ProbeInit ==
    /\ kind \in ProbeKinds
    /\ wants \in Options(kind)
    /\ step = 0
    /\ phase = "idle"
    /\ pending = FALSE
    /\ held = {}
    /\ verdict = "none"
    /\ answered = {}

\* A configuration without URL, host or port, of an unknown scheme, or one that its
\* library refuses (Probeable of MonitorConfig), is DOWN.
Reject ==
    /\ phase = "idle"
    /\ phase' = "returned"
    /\ verdict' = "DOWN"
    /\ UNCHANGED <<kind, wants, step, pending, held, answered>>

\* mysql.createConnection keeps the socket to itself until it has resolved.
Open ==
    /\ phase = "idle"
    /\ phase' = "awaiting"
    /\ step' = 1
    /\ held' = IF kind = "mysql" THEN {} ELSE {"socket"}
    /\ UNCHANGED <<kind, wants, pending, verdict, answered>>

\* What an answer leaves open: a lookup is over with it, a page is not.
AfterAnswer ==
    CASE Now = "create"  -> {"socket"}
      [] Now = "upgrade" -> held \cup {"tls"}
      [] Now = "resolve" -> {}
      [] OTHER           -> held

\* The peer does what was asked, and what it says fits.
AnswerFits ==
    /\ phase = "awaiting" /\ ~Writing
    /\ \E a \in Answers(kind, Now) : Fits(kind, wants, Now, a)
    /\ answered' = answered \cup {step}
    /\ IF IsLast
       THEN Conclude("UP", AfterAnswer) /\ UNCHANGED step
       ELSE step' = step + 1 /\ held' = AfterAnswer /\ UNCHANGED <<phase, verdict>>
    /\ UNCHANGED <<kind, wants, pending>>

\* It says something else.
AnswerUnfit ==
    /\ phase = "awaiting" /\ ~Writing
    /\ \E a \in Answers(kind, Now) : ~Fits(kind, wants, Now, a)
    /\ Conclude(IF Farewell THEN "UP" ELSE "DOWN", AfterAnswer)
    /\ UNCHANGED <<kind, wants, step, pending, answered>>

\* It refuses, resets or shows a certificate nobody trusts.  A Redis client that
\* does not reconnect is not open any more then; a fetch or a lookup is over.
PeerFails ==
    /\ phase = "awaiting" /\ ~Writing
    /\ Conclude(IF Farewell THEN "UP" ELSE "DOWN", IF kind \in {"redis", "http", "dns"} THEN {} ELSE held)
    /\ UNCHANGED <<kind, wants, step, pending, answered>>

\* A connection breaks that nobody listens to: the process ends.  The probe may
\* have returned, when the connection is one that was never ended.
Uncaught ==
    /\ \/ phase = "awaiting" /\ ~Heard
       \/ phase = "returned" /\ kind \in Unheard /\ held # {}
    /\ phase' = "crashed"
    /\ held' = {}
    /\ UNCHANGED <<kind, wants, step, pending, verdict, answered>>

\* Mutation of TimesOut: replies of SMTP servers are awaited without a limit.
TimesOutButForReplies ==
    /\ phase = "awaiting" /\ ~Writing /\ kind # "sqlite" /\ Now \notin Replies
    /\ pending' = (kind \in Raced)
    /\ Conclude("DOWN", IF kind = "http" THEN {} ELSE held)
    /\ UNCHANGED <<kind, wants, step, answered>>

\* The time limit of what is awaited passes; that of a fetch aborts it.
TimesOut ==
    /\ phase = "awaiting" /\ ~Writing /\ kind # "sqlite"
    /\ pending' = (kind \in Raced)
    /\ Conclude(IF Farewell THEN "UP" ELSE "DOWN", IF kind = "http" THEN {} ELSE held)
    /\ UNCHANGED <<kind, wants, step, answered>>

\* The kernel takes a line of the SMTP dialogue.
Written ==
    /\ phase = "awaiting" /\ Writing
    /\ step' = step + 1
    /\ answered' = answered \cup {step}
    /\ UNCHANGED <<kind, wants, phase, pending, held, verdict>>

\* An operation that was cut short ends, a lookup with its sockets.  A MySQL
\* connection that is created now has nobody to end it.
LateAnswer ==
    /\ pending /\ phase \in {"closing", "returned"}
    /\ pending' = FALSE
    /\ \/ held' = IF kind = "dns" THEN {} ELSE held
       \/ kind = "mysql" /\ Now = "create" /\ held' = {"socket"}
    /\ UNCHANGED <<kind, wants, step, phase, verdict, answered>>

\* The signal of a fetch is still armed: it aborts the body nobody reads, if that has
\* not ended, been collected or failed before, which nobody hears of.
BodyEnds ==
    /\ phase = "returned" /\ kind = "http" /\ held # {}
    /\ held' = {}
    /\ UNCHANGED <<kind, wants, step, phase, pending, verdict, answered>>

\* The client has closed; what is outstanding comes first with these two.
QueuesClose == {"redis", "mysql"}
Closed ==
    /\ phase = "closing"
    /\ kind \in QueuesClose => ~pending
    /\ phase' = "returned"
    /\ held' = {}
    /\ UNCHANGED <<kind, wants, step, pending, verdict, answered>>

ProbeNext ==
    \/ Reject \/ Open
    \/ AnswerFits \/ AnswerUnfit \/ PeerFails \/ TimesOut
    \/ Written \/ Uncaught
    \/ LateAnswer \/ BodyEnds \/ Closed

\* The end() of a Postgres client with no query under way says goodbye and waits for
\* the server to close; with one it breaks the connection off.
WaitsForPeer == kind = "postgres" /\ ~pending

\* Timers fire, those of the resolver too, lines are taken by the kernel and clients
\* close when they can; peers owe nothing.  SQLite works in the process and always
\* answers.
ProbeFairness ==
    /\ WF_probeVars(TimesOut)
    /\ WF_probeVars(Written)
    /\ WF_probeVars(~WaitsForPeer /\ Closed)
    /\ WF_probeVars(BodyEnds)
    /\ WF_probeVars(kind = "dns" /\ LateAnswer)
    /\ WF_probeVars(kind = "sqlite" /\ (AnswerFits \/ PeerFails))

ProbeSpec == ProbeInit /\ [][ProbeNext]_probeVars /\ ProbeFairness

(***************************************************************************)
(* Properties.                                                              *)
(***************************************************************************)
ProbeTypeOK ==
    /\ kind \in ProbeKinds
    /\ wants \in Options(kind)
    /\ step \in 0..Len(Script(kind, wants))
    /\ phase \in {"idle", "awaiting", "closing", "returned", "crashed"}
    /\ pending \in BOOLEAN
    /\ held \subseteq {"socket", "tls"}
    /\ verdict \in {"none", "UP", "DOWN"}
    /\ answered \subseteq 1..Len(Script(kind, wants))

\* A monitor is UP only if everything its type asks for was answered in time and
\* fitted: no timer, late answer or failure on the way counts as success.  Only
\* the answer to QUIT is not asked for.
UpMeansAnswered ==
    verdict = "UP" =>
        \A i \in 1..Len(Script(kind, wants)) :
            i \in answered \/ Script(kind, wants)[i] = "221"

\* A probe that has returned holds no connection, whatever way it ended, but for
\* three: a MySQL connection created after the limit on its creation had passed, that
\* of a page whose status was looked at and whose body was not read, and the sockets
\* of a lookup that was cut short and still goes on.  And a failure of the peer ends
\* the process, not the probe, only on a connection whose errors nobody hears: that of
\* MySQL, an established connection of a database client, or the SMTP socket while a
\* line is written to it.
OnlyKnownStrays ==
    /\ (phase = "returned" /\ held # {}) =>
           \/ kind = "mysql" /\ Now = "create" /\ verdict = "DOWN"
           \/ kind = "http"
           \/ kind = "dns" /\ pending /\ verdict = "DOWN"
    /\ phase = "crashed" => \/ kind = "smtp" /\ Writing
                            \/ kind \in Unheard /\ 1 \in answered
                            \/ kind = "mysql" /\ verdict = "DOWN"

\* Waiting for a client to close that waits for an answer of a silent peer.
StuckInClose == phase = "closing" /\ (WaitsForPeer \/ (pending /\ kind \in QueuesClose))

\* Every probe returns although the peer is silent, or is held for good by the
\* closing of a client: of Redis or MySQL, whose last command was never answered, or
\* of Postgres, whose server does not close; the limits of the code do not cover
\* that, and the monitor stays in inFlight.  What a probe leaves open goes some time
\* later, but for the late connection of MySQL.
ProbeReturns ==
    /\ [](phase = "awaiting" => <>(phase \in {"returned", "crashed"}) \/ <>[]StuckInClose)
    /\ [](phase = "returned" /\ kind # "mysql" => <>(held = {}))
==============================================================================
