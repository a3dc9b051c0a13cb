---------------------------- MODULE ProbeProofs ----------------------------
(***************************************************************************)
(* Proofs about Probe, for any probes that are tried.  While a probe waits, *)
(* every earlier step of its script has been answered; the farewell of an   *)
(* SMTP server is its last step; and what a limit has cut short is only     *)
(* ever left behind by a probe that found its monitor down.                 *)
(***************************************************************************)
EXTENDS Probe, TLAPS

\* What is known of a probe that has not begun, or that waits.
BeforeOpen ==
    phase = "idle" => verdict = "none" /\ ~pending /\ held = {}

WhileAwaiting ==
    phase = "awaiting" =>
        /\ step \in 1..Len(Script(kind, wants))
        /\ \A i \in 1..(step - 1) : i \in answered
        /\ verdict = "none" /\ ~pending

\* What was cut short belongs to a probe whose monitor is down; while it is under
\* way a probe that has returned holds nothing but the sockets of a lookup.
CutShort ==
    pending => /\ phase \in {"closing", "returned"} /\ verdict = "DOWN"
               /\ phase = "returned" => held = {} \/ kind = "dns"

\* The inductive invariant.
ProbeInv ==
    /\ ProbeTypeOK /\ BeforeOpen /\ WhileAwaiting /\ CutShort
    /\ UpMeansAnswered /\ OnlyKnownStrays

-----------------------------------------------------------------------------
\* What is asked of a peer but in an SMTP dialogue.
Asked == {"fetch", "connect", "ping", "query", "create", "open", "secureConnect", "resolve",
          "topics", "check"}

\* A script is not empty; only SMTP has lines to write and a farewell, which comes
\* last, as no line does; a query is a second step.
WellFormed(k, s) ==
    /\ Len(s) \in Nat \ {0}
    /\ \A i \in 1..Len(s) :
          /\ s[i] \in Writes => k = "smtp" /\ i # Len(s)
          /\ s[i] = "221" => k = "smtp" /\ i = Len(s)
          /\ s[i] = "query" => i = 2

\* Both dialogues with an SMTP server are.
LEMMA SmtpScripts == ASSUME NEW w PROVE WellFormed("smtp", SmtpScript(w))
<1>1. WellFormed("smtp", <<"connect", "220", "EHLO", "250", "STARTTLS", "220", "upgrade",
                           "EHLO", "250", "QUIT", "221">>)
    BY DEF WellFormed, Writes
<1>2. WellFormed("smtp", <<"connect", "220", "EHLO", "250", "QUIT", "221">>)
    BY DEF WellFormed, Writes
<1> QED BY <1>1, <1>2, Zenon DEF SmtpScript

\* And so are all the others.
LEMMA Scripts ==
    ASSUME NEW k \in Kinds, NEW w
    PROVE  WellFormed(k, Script(k, w))
<1>1. CASE k = "smtp"
    <2>1. Script(k, w) = SmtpScript(w)
        BY <1>1 DEF Script
    <2> QED BY <1>1, <2>1, SmtpScripts, Zenon
<1>2. ASSUME k # "smtp"
      PROVE  \/ \E a \in Asked \ {"query"} : Script(k, w) = <<a>>
             \/ \E a \in Asked \ {"query"}, b \in Asked : Script(k, w) = <<a, b>>
    BY <1>2 DEF Asked, Kinds, Script, HttpScript, RedisScript, DatabaseScript, TcpScript,
                SslScript, DnsScript, KafkaScript, GrpcScript
<1>3. Asked \cap Writes = {} /\ "221" \notin Asked
    BY DEF Asked, Writes
<1>4. \A a \in Asked \ {"query"} : WellFormed(k, <<a>>)
    BY <1>3 DEF WellFormed
<1>5. \A a \in Asked \ {"query"}, b \in Asked : WellFormed(k, <<a, b>>)
    BY <1>3 DEF WellFormed
<1> QED BY <1>1, <1>2, <1>4, <1>5, Zenon

\* It holds before the probe.
LEMMA InitProbe == ProbeInit => ProbeInv
<1> SUFFICES ASSUME ProbeInit PROVE ProbeInv
    OBVIOUS
<1>1. kind \in Kinds
    BY ProbeAssumption DEF ProbeInit
<1>2. Len(Script(kind, wants)) \in Nat
    BY <1>1, Scripts DEF WellFormed
<1>3. ProbeTypeOK
    <2>1. 0 \in 0..Len(Script(kind, wants))
        BY <1>2
    <2>2. step \in 0..Len(Script(kind, wants))
        BY <2>1, Zenon DEF ProbeInit
    <2> QED BY <2>2, Zenon DEF ProbeInit, ProbeTypeOK
<1>4. BeforeOpen /\ WhileAwaiting /\ CutShort
    BY DEF ProbeInit, BeforeOpen, WhileAwaiting, CutShort
<1>5. UpMeansAnswered /\ OnlyKnownStrays
    BY DEF ProbeInit, UpMeansAnswered, OnlyKnownStrays
<1> QED BY <1>3, <1>4, <1>5 DEF ProbeInv

\* What is concluded: the verdict, and what is open still.
LEMMA Concluded ==
    ASSUME NEW v, NEW h, Conclude(v, h)
    PROVE  /\ verdict' = v
           /\ phase' \in {"closing", "returned"}
           /\ phase' = "returned" => held' = {} \/ kind \in ClosesNothing
           /\ held' = h \/ held' = {}
    BY DEF Conclude

\* What an answer leaves open.
LEMMA AfterAnswerType == ProbeTypeOK => AfterAnswer \subseteq {"socket", "tls"}
    BY DEF AfterAnswer, ProbeTypeOK

\* Where a probe that waits stands in its script.
LEMMA Awaiting ==
    ASSUME ProbeInv, phase = "awaiting"
    PROVE  /\ kind \in Kinds /\ wants \in Options(kind)
           /\ Len(Script(kind, wants)) \in Nat \ {0}
           /\ step \in 1..Len(Script(kind, wants))
           /\ verdict = "none" /\ ~pending
           /\ Now = "221" => kind = "smtp" /\ step = Len(Script(kind, wants))
           /\ Writing => kind = "smtp" /\ step # Len(Script(kind, wants))
           /\ Now = "query" => 1 \in answered
           /\ kind = "dns" => Now = "resolve"
<1>1. kind \in Kinds /\ wants \in Options(kind)
    BY ProbeAssumption DEF ProbeInv, ProbeTypeOK
<1>2. step \in 1..Len(Script(kind, wants)) /\ verdict = "none" /\ ~pending
    BY DEF ProbeInv, WhileAwaiting
<1>3. \A i \in 1..(step - 1) : i \in answered
    BY DEF ProbeInv, WhileAwaiting
<1>4. kind = "dns" => Now = "resolve"
    <2>1. SUFFICES ASSUME kind = "dns" PROVE Now = "resolve"
        OBVIOUS
    <2>2. Script(kind, wants) = <<"resolve">>
        BY <2>1 DEF Script, DnsScript
    <2>3. step = 1
        BY <1>2, <2>2
    <2> QED BY <2>2, <2>3 DEF Now
<1> QED BY <1>1, <1>2, <1>3, <1>4, Scripts DEF Now, Writing, WellFormed

\* A probe that ends otherwise than by its last answer keeps the invariant: its
\* monitor is down, unless only the farewell was missing, and of a lookup only one
\* that goes on is left.
LEMMA EndsUnanswered ==
    ASSUME ProbeInv, phase = "awaiting", NEW h \in SUBSET {"socket", "tls"},
           Conclude(IF Farewell THEN "UP" ELSE "DOWN", h),
           pending' \in BOOLEAN, pending' => ~Farewell,
           kind = "dns" => h = {} \/ pending',
           pending' => kind # "http",
           UNCHANGED <<kind, wants, step, answered>>
    PROVE  ProbeInv'
<1>1. /\ verdict' = (IF Farewell THEN "UP" ELSE "DOWN")
      /\ phase' \in {"closing", "returned"}
      /\ phase' = "returned" => held' = {} \/ kind \in ClosesNothing
      /\ held' = h \/ held' = {}
    BY Concluded
<1>2. ProbeTypeOK'
    BY <1>1 DEF ProbeInv, ProbeTypeOK
<1>3. BeforeOpen' /\ WhileAwaiting'
    BY <1>1 DEF BeforeOpen, WhileAwaiting
<1>4. pending' => verdict' = "DOWN"
    BY <1>1
<1>5. CutShort'
    BY <1>1, <1>4 DEF CutShort, ClosesNothing
<1>6. OnlyKnownStrays'
    <2>1. kind = "dns" /\ held' # {} => pending'
        BY <1>1
    <2> QED BY <1>1, <1>4, <2>1 DEF OnlyKnownStrays, ClosesNothing
<1>7. UpMeansAnswered'
    <2>1. CASE Farewell
        <3>1. step = Len(Script(kind, wants)) /\ Script(kind, wants)[step] = "221"
            BY <2>1, Awaiting DEF Farewell, Now
        <3>2. \A i \in 1..(step - 1) : i \in answered
            BY DEF ProbeInv, WhileAwaiting
        <3>3. \A i \in 1..Len(Script(kind, wants)) : i \in 1..(step - 1) \/ i = step
            BY <3>1, Awaiting
        <3> QED BY <3>1, <3>2, <3>3 DEF UpMeansAnswered
    <2>2. CASE ~Farewell
        BY <1>1, <2>2 DEF UpMeansAnswered
    <2> QED BY <2>1, <2>2
<1> QED BY <1>2, <1>3, <1>5, <1>6, <1>7 DEF ProbeInv

\* Every step of the probe and of its peer keeps the invariant.
LEMMA StepProbe == ProbeInv /\ [ProbeNext]_probeVars => ProbeInv'
<1> SUFFICES ASSUME ProbeInv, [ProbeNext]_probeVars PROVE ProbeInv'
    OBVIOUS
<1>1. CASE Reject
    BY <1>1 DEF Reject, ProbeInv, ProbeTypeOK, BeforeOpen, WhileAwaiting, CutShort,
                UpMeansAnswered, OnlyKnownStrays
<1>2. CASE Open
    <2>1. Len(Script(kind, wants)) \in Nat \ {0}
        BY Scripts, ProbeAssumption DEF WellFormed, ProbeInv, ProbeTypeOK
    <2>2. ProbeTypeOK'
        BY <1>2, <2>1 DEF Open, ProbeInv, ProbeTypeOK
    <2>3. BeforeOpen' /\ WhileAwaiting' /\ CutShort'
        BY <1>2, <2>1 DEF Open, ProbeInv, BeforeOpen, WhileAwaiting, CutShort
    <2>4. UpMeansAnswered' /\ OnlyKnownStrays'
        BY <1>2 DEF Open, ProbeInv, BeforeOpen, UpMeansAnswered, OnlyKnownStrays
    <2> QED BY <2>2, <2>3, <2>4 DEF ProbeInv
<1>3. CASE AnswerFits
    <2>1. phase = "awaiting" /\ answered' = answered \cup {step}
          /\ UNCHANGED <<kind, wants, pending>>
        BY <1>3 DEF AnswerFits
    <2>2. \A i \in 1..step : i \in answered'
        BY <2>1, Awaiting DEF ProbeInv, WhileAwaiting
    <2>3. answered' \subseteq 1..Len(Script(kind, wants)) /\ AfterAnswer \subseteq {"socket", "tls"}
        BY <2>1, Awaiting, AfterAnswerType DEF ProbeInv, ProbeTypeOK
    <2>4. CASE IsLast
        <3>1. step' = step /\ Conclude("UP", AfterAnswer)
            BY <1>3, <2>4 DEF AnswerFits
        <3>2. /\ verdict' = "UP" /\ phase' \in {"closing", "returned"}
              /\ phase' = "returned" => held' = {} \/ kind \in ClosesNothing
              /\ held' \subseteq {"socket", "tls"}
              /\ held' = AfterAnswer \/ held' = {}
            BY <2>3, <3>1, Concluded
        <3>3. ProbeTypeOK'
            BY <2>1, <2>3, <3>1, <3>2 DEF ProbeInv, ProbeTypeOK
        <3>4. kind = "dns" => held' = {}
            BY <2>1, <3>2, Awaiting DEF AfterAnswer
        <3>5. BeforeOpen' /\ WhileAwaiting' /\ CutShort' /\ OnlyKnownStrays'
            BY <2>1, <3>2, <3>4, Awaiting
            DEF BeforeOpen, WhileAwaiting, CutShort, OnlyKnownStrays, ClosesNothing
        <3>6. UpMeansAnswered'
            BY <2>1, <2>2, <2>4 DEF IsLast, UpMeansAnswered
        <3> QED BY <3>3, <3>5, <3>6 DEF ProbeInv
    <2>5. CASE ~IsLast
        <3>1. step' = step + 1 /\ held' = AfterAnswer /\ phase' = phase /\ verdict' = verdict
            BY <1>3, <2>5 DEF AnswerFits
        <3>2. step + 1 \in 1..Len(Script(kind, wants))
            BY <2>1, <2>5, Awaiting DEF IsLast
        <3>3. ProbeTypeOK'
            BY <2>1, <2>3, <3>1, <3>2 DEF ProbeInv, ProbeTypeOK
        <3>4. BeforeOpen' /\ CutShort' /\ OnlyKnownStrays' /\ UpMeansAnswered'
            BY <2>1, <3>1, Awaiting DEF BeforeOpen, CutShort, OnlyKnownStrays, UpMeansAnswered
        <3>5. WhileAwaiting'
            BY <2>1, <2>2, <3>1, <3>2, Awaiting DEF WhileAwaiting
        <3> QED BY <3>3, <3>4, <3>5 DEF ProbeInv
    <2> QED BY <2>4, <2>5
<1>4. CASE AnswerUnfit
    <2>1. phase = "awaiting" /\ UNCHANGED <<kind, wants, step, pending, answered>>
          /\ Conclude(IF Farewell THEN "UP" ELSE "DOWN", AfterAnswer)
        BY <1>4 DEF AnswerUnfit
    <2>2. AfterAnswer \in SUBSET {"socket", "tls"} /\ pending' \in BOOLEAN /\ ~pending'
        BY <2>1, AfterAnswerType, Awaiting DEF ProbeInv, ProbeTypeOK
    <2>3. kind = "dns" => AfterAnswer = {}
        BY <2>1, Awaiting DEF AfterAnswer
    <2> QED BY <2>1, <2>2, <2>3, EndsUnanswered
<1>5. CASE PeerFails
    <2> DEFINE h == IF kind \in {"redis", "http", "dns"} THEN {} ELSE held
    <2>1. phase = "awaiting" /\ UNCHANGED <<kind, wants, step, pending, answered>>
          /\ Conclude(IF Farewell THEN "UP" ELSE "DOWN", h)
        BY <1>5 DEF PeerFails
    <2>2. h \in SUBSET {"socket", "tls"} /\ pending' \in BOOLEAN /\ ~pending'
        BY <2>1, Awaiting DEF ProbeInv, ProbeTypeOK
    <2> QED BY <2>1, <2>2, EndsUnanswered
<1>6. CASE TimesOut
    <2> DEFINE h == IF kind = "http" THEN {} ELSE held
    <2>1. phase = "awaiting" /\ UNCHANGED <<kind, wants, step, answered>>
          /\ pending' = (kind \in Raced)
          /\ Conclude(IF Farewell THEN "UP" ELSE "DOWN", h)
        BY <1>6 DEF TimesOut
    <2>2. h \in SUBSET {"socket", "tls"} /\ pending' \in BOOLEAN
        BY <2>1 DEF ProbeInv, ProbeTypeOK
    <2>3. /\ pending' => ~Farewell /\ kind # "http"
          /\ kind = "dns" => pending'
        BY <2>1, Awaiting DEF Raced, Farewell
    <2> HIDE DEF h
    <2> QED BY <2>1, <2>2, <2>3, EndsUnanswered
<1>7. CASE Written
    <2>1. phase = "awaiting" /\ Writing /\ step' = step + 1
          /\ answered' = answered \cup {step}
          /\ UNCHANGED <<kind, wants, phase, pending, held, verdict>>
        BY <1>7 DEF Written
    <2>2. step + 1 \in 1..Len(Script(kind, wants))
        BY <2>1, Awaiting
    <2>3. \A i \in 1..step : i \in answered'
        BY <2>1, Awaiting DEF ProbeInv, WhileAwaiting
    <2>4. ProbeTypeOK'
        BY <2>1, <2>2, Awaiting DEF ProbeInv, ProbeTypeOK
    <2>5. BeforeOpen' /\ CutShort' /\ OnlyKnownStrays' /\ UpMeansAnswered'
        BY <2>1, Awaiting DEF BeforeOpen, CutShort, OnlyKnownStrays, UpMeansAnswered
    <2>6. WhileAwaiting'
        BY <2>1, <2>2, <2>3, Awaiting DEF WhileAwaiting
    <2> QED BY <2>4, <2>5, <2>6 DEF ProbeInv
<1>8. CASE Uncaught
    <2>1. phase' = "crashed" /\ held' = {}
          /\ UNCHANGED <<kind, wants, step, pending, verdict, answered>>
        BY <1>8 DEF Uncaught
    <2>2. \/ phase = "awaiting" /\ ~Heard
          \/ phase = "returned" /\ kind \in Unheard /\ held # {}
        BY <1>8 DEF Uncaught
    <2>3. ProbeTypeOK' /\ BeforeOpen' /\ WhileAwaiting' /\ UpMeansAnswered'
        BY <2>1 DEF ProbeInv, ProbeTypeOK, BeforeOpen, WhileAwaiting, UpMeansAnswered
    <2>4. CASE phase = "awaiting" /\ ~Heard
        <3>1. (kind = "smtp" /\ Writing) \/ (kind \in Unheard /\ 1 \in answered)
            BY <2>4, Awaiting DEF Heard
        <3>2. OnlyKnownStrays'
            BY <2>1, <3>1 DEF OnlyKnownStrays, Writing, Now
        <3>3. CutShort'
            BY <2>1, <2>4, Awaiting DEF CutShort
        <3> QED BY <2>3, <3>2, <3>3 DEF ProbeInv
    <2>5. CASE phase = "returned" /\ kind \in Unheard /\ held # {}
        <3>1. kind = "mysql" /\ verdict = "DOWN" /\ ~pending
            BY <2>5 DEF ProbeInv, OnlyKnownStrays, CutShort, Unheard
        <3>2. OnlyKnownStrays' /\ CutShort'
            BY <2>1, <3>1 DEF OnlyKnownStrays, CutShort
        <3> QED BY <2>3, <3>2 DEF ProbeInv
    <2> QED BY <2>2, <2>4, <2>5
<1>9. CASE LateAnswer
    <2>1. /\ pending /\ phase \in {"closing", "returned"} /\ ~pending'
          /\ UNCHANGED <<kind, wants, step, phase, verdict, answered>>
        BY <1>9 DEF LateAnswer
    <2>2. \/ held' = IF kind = "dns" THEN {} ELSE held
          \/ kind = "mysql" /\ Now = "create" /\ held' = {"socket"}
        BY <1>9 DEF LateAnswer
    <2>3. verdict = "DOWN"
        BY <2>1 DEF ProbeInv, CutShort
    <2>4. ProbeTypeOK' /\ BeforeOpen' /\ WhileAwaiting' /\ CutShort' /\ UpMeansAnswered'
        BY <1>9, <2>1, <2>2
        DEF LateAnswer, ProbeInv, ProbeTypeOK, BeforeOpen, WhileAwaiting, CutShort,
            UpMeansAnswered
    <2>5. OnlyKnownStrays'
        BY <2>1, <2>2, <2>3 DEF ProbeInv, OnlyKnownStrays, Now, Writing
    <2> QED BY <2>4, <2>5 DEF ProbeInv
<1>10. CASE Closed
    BY <1>10 DEF Closed, ProbeInv, ProbeTypeOK, BeforeOpen, WhileAwaiting, CutShort,
                 UpMeansAnswered, OnlyKnownStrays
<1>11. CASE BodyEnds
    BY <1>11 DEF BodyEnds, ProbeInv, ProbeTypeOK, BeforeOpen, WhileAwaiting, CutShort,
                 UpMeansAnswered, OnlyKnownStrays
<1>12. CASE UNCHANGED probeVars
    BY <1>12 DEF probeVars, ProbeInv, ProbeTypeOK, BeforeOpen, WhileAwaiting, CutShort,
                 UpMeansAnswered, OnlyKnownStrays, Now, Writing
<1> QED
    BY <1>1, <1>2, <1>3, <1>4, <1>5, <1>6, <1>7, <1>8, <1>9, <1>10, <1>11, <1>12
    DEF ProbeNext

\* The inductive invariant holds of every probe.
THEOREM ProbeInvariance == ProbeSpec => []ProbeInv
    BY InitProbe, StepProbe, PTL DEF ProbeSpec

\* Type correctness of the probe.
THEOREM ProbeTypeCorrect == ProbeSpec => []ProbeTypeOK
<1>1. ProbeInv => ProbeTypeOK
    BY DEF ProbeInv
<1> QED BY <1>1, ProbeInvariance, PTL

\* A monitor that is found up has answered all its type asks for, in time and as it
\* should, whichever of its promises were cut short or came late.
THEOREM UpIsEarned == ProbeSpec => []UpMeansAnswered
<1>1. ProbeInv => UpMeansAnswered
    BY DEF ProbeInv
<1> QED BY <1>1, ProbeInvariance, PTL

\* There are no other ways to leave a connection open, or to end the process, than
\* the ones OnlyKnownStrays names.
THEOREM StraysAreKnown == ProbeSpec => []OnlyKnownStrays
<1>1. ProbeInv => OnlyKnownStrays
    BY DEF ProbeInv
<1> QED BY <1>1, ProbeInvariance, PTL

-----------------------------------------------------------------------------
(* The safety half of termination: no step of a probe is ever taken twice.  *)

\* What is left to do: the rest of the script, the closing, what was cut short, and
\* the end of a body nobody reads.
StillToCome ==
    CASE phase = "idle"     -> 5 + Len(Script(kind, wants))
      [] phase = "awaiting" -> 4 + Len(Script(kind, wants)) - step
      [] phase = "closing"  -> 2
      [] phase = "returned" -> 1
      [] phase = "crashed"  -> 0
CutOff == IF pending THEN 1 ELSE 0
BodyLeft == IF phase = "returned" /\ kind = "http" /\ held # {} THEN 1 ELSE 0
ProbeWork == StillToCome + CutOff + BodyLeft

\* What is left is a number.
LEMMA ProbeWorkNat == ProbeInv => ProbeWork \in Nat
<1> SUFFICES ASSUME ProbeInv PROVE ProbeWork \in Nat
    OBVIOUS
<1>1. kind \in Kinds /\ Len(Script(kind, wants)) \in Nat
    BY ProbeAssumption, Scripts DEF ProbeInv, ProbeTypeOK, WellFormed
<1>2. phase = "awaiting" => step \in 1..Len(Script(kind, wants))
    BY DEF ProbeInv, WhileAwaiting
<1>3. phase \in {"idle", "awaiting", "closing", "returned", "crashed"}
    BY DEF ProbeInv, ProbeTypeOK
<1>4. StillToCome \in Nat
    BY <1>1, <1>2, <1>3 DEF StillToCome
<1> QED BY <1>4 DEF ProbeWork, CutOff, BodyLeft

\* Every step, of the probe, of its peer or of what was cut short, is work done.
LEMMA ProbeWorkDone ==
    ASSUME ProbeInv, ProbeNext
    PROVE  ProbeWork' < ProbeWork
<1> DEFINE n == Len(Script(kind, wants))
<1>1. UNCHANGED <<kind, wants>>
    BY DEF ProbeNext, Reject, Open, AnswerFits, AnswerUnfit, PeerFails, TimesOut, Written,
           Uncaught, LateAnswer, BodyEnds, Closed
<1>2. kind \in Kinds /\ n \in Nat \ {0} /\ n' = n
    BY <1>1, ProbeAssumption, Scripts DEF ProbeInv, ProbeTypeOK, WellFormed
<1>3. phase = "awaiting" => step \in 1..n /\ ~pending
    BY DEF ProbeInv, WhileAwaiting
<1>4. phase = "idle" => ~pending /\ held = {}
    BY DEF ProbeInv, BeforeOpen
<1>5. /\ StillToCome = CASE phase = "idle"     -> 5 + n
                         [] phase = "awaiting" -> 4 + n - step
                         [] phase = "closing"  -> 2
                         [] phase = "returned" -> 1
                         [] phase = "crashed"  -> 0
      /\ StillToCome' = CASE phase' = "idle"     -> 5 + n
                          [] phase' = "awaiting" -> 4 + n - step'
                          [] phase' = "closing"  -> 2
                          [] phase' = "returned" -> 1
                          [] phase' = "crashed"  -> 0
    BY <1>1 DEF StillToCome
<1>6. /\ ProbeWork = StillToCome + CutOff + BodyLeft
      /\ ProbeWork' = StillToCome' + CutOff' + BodyLeft'
      /\ BodyLeft \in 0..1 /\ BodyLeft' \in 0..1
      /\ phase # "returned" \/ held = {} => BodyLeft = 0
      /\ phase' # "returned" \/ held' = {} => BodyLeft' = 0
    BY DEF ProbeWork, BodyLeft
<1> HIDE DEF n
<1>7. CASE Reject
    BY <1>2, <1>4, <1>5, <1>6, <1>7 DEF Reject, CutOff
<1>8. CASE Open
    BY <1>2, <1>4, <1>5, <1>6, <1>8 DEF Open, CutOff
<1>9. ASSUME phase = "awaiting", phase' \in {"closing", "returned"}
      PROVE  ProbeWork' < ProbeWork
    <2>1. StillToCome \in Nat /\ StillToCome >= 4
        BY <1>2, <1>3, <1>5, <1>9
    <2>2. \/ StillToCome' = 2 /\ BodyLeft' = 0
          \/ StillToCome' = 1 /\ BodyLeft' \in 0..1
        BY <1>5, <1>6, <1>9
    <2>3. CutOff = 0 /\ CutOff' \in 0..1
        BY <1>3, <1>9 DEF CutOff
    <2>4. ProbeWork \in Nat /\ ProbeWork >= 4
        BY <1>6, <2>1, <2>3
    <2>5. ProbeWork' \in 1..3
        <3>1. \A b \in 0..1 : 2 + b + 0 \in 1..3
            OBVIOUS
        <3>2. \A b \in 0..1, c \in 0..1 : 1 + b + c \in 1..3
            OBVIOUS
        <3> QED BY <1>6, <2>2, <2>3, <3>1, <3>2, Zenon
    <2> QED BY <2>4, <2>5
<1>10. ASSUME phase = "awaiting", phase' = "awaiting", step' = step + 1, pending' = pending
       PROVE  ProbeWork' < ProbeWork
    BY <1>2, <1>3, <1>5, <1>6, <1>10 DEF CutOff
<1>11. CASE AnswerFits
    <2>1. CASE IsLast
        BY <1>9, <1>11, <2>1 DEF AnswerFits, Conclude
    <2>2. CASE ~IsLast
        BY <1>10, <1>11, <2>2 DEF AnswerFits
    <2> QED BY <2>1, <2>2
<1>12. CASE AnswerUnfit
    BY <1>9, <1>12 DEF AnswerUnfit, Conclude
<1>13. CASE PeerFails
    BY <1>9, <1>13 DEF PeerFails, Conclude
<1>14. CASE TimesOut
    BY <1>9, <1>14 DEF TimesOut, Conclude
<1>15. CASE Written
    BY <1>10, <1>15 DEF Written
<1>16. CASE Uncaught
    BY <1>2, <1>3, <1>5, <1>6, <1>16 DEF Uncaught, CutOff
<1>17. CASE LateAnswer
    <2>1. UNCHANGED <<phase, kind>> /\ StillToCome' = StillToCome
        BY <1>5, <1>17 DEF LateAnswer
    <2>2. BodyLeft' = BodyLeft
        BY <1>17 DEF LateAnswer, BodyLeft
    <2>3. CutOff = 1 /\ CutOff' = 0
        BY <1>17 DEF LateAnswer, CutOff
    <2>4. StillToCome \in 0..2
        BY <1>5, <1>17 DEF LateAnswer
    <2>5. \A a \in 0..2, b \in 0..1 : a + 0 + b < a + 1 + b
        OBVIOUS
    <2> QED BY <1>6, <2>1, <2>2, <2>3, <2>4, <2>5, Zenon
<1>18. CASE Closed
    BY <1>5, <1>6, <1>18 DEF Closed, CutOff
<1>19. CASE BodyEnds
    BY <1>5, <1>6, <1>19 DEF BodyEnds, CutOff, BodyLeft
<1> QED
    BY <1>7, <1>8, <1>11, <1>12, <1>13, <1>14, <1>15, <1>16, <1>17, <1>18, <1>19 DEF ProbeNext

\* A probe takes finitely many steps, no more than its script is long and five,
\* whatever its peer answers, whenever its limits pass and a late answer comes.
THEOREM ProbeIsFinite ==
    ProbeSpec => [](ProbeWork \in Nat) /\ [][ProbeWork' < ProbeWork]_probeVars
<1>1. ProbeInv => ProbeWork \in Nat
    BY ProbeWorkNat
<1>2. ProbeInv /\ [ProbeNext]_probeVars => [ProbeWork' < ProbeWork]_probeVars
    BY ProbeWorkDone
<1> QED BY <1>1, <1>2, ProbeInvariance, PTL DEF ProbeSpec
=============================================================================
