---------------------------- MODULE AlertDelivery ----------------------------
(***************************************************************************)
(* One call of AlertDeliveryService.deliver: it starts a task for every     *)
(* channel the settings name, and waits until all of them have settled.     *)
(* The tasks run side by side; each catches and logs what it meets.  The    *)
(* receivers are external and owe no answer.                                *)
(***************************************************************************)
CONSTANT Channels

ASSUME DeliveryAssumption == Channels \subseteq {"webhook", "slack", "email"}

VARIABLES
    configured, \* the channels the settings name
    smtpHost,   \* SMTP_HOST is set
    post,       \* of each channel: "none", "posting", "sent", "logged" or "skipped"
    delivery    \* "idle", "waiting" or "returned"

deliveryVars == <<configured, smtpHost, post, delivery>>

DeliveryInit ==
    /\ configured \in SUBSET Channels
    /\ smtpHost \in BOOLEAN
    /\ post = [c \in Channels |-> "none"]
    /\ delivery = "idle"

\* Without SMTP_HOST the task of the e-mail is done before it began.
Deliver ==
    /\ delivery = "idle"
    /\ delivery' = "waiting"
    /\ post' = [c \in Channels |->
                   IF c \notin configured THEN "none"
                   ELSE IF c = "email" /\ ~smtpHost THEN "skipped"
                   ELSE "posting"]
    /\ UNCHANGED <<configured, smtpHost>>

\* The receiver accepts.
Sent(c) ==
    /\ post[c] = "posting"
    /\ post' = [post EXCEPT ![c] = "sent"]
    /\ UNCHANGED <<configured, smtpHost, delivery>>

\* It refuses, breaks or answers with an error status; the library gives up.
SendFails(c) ==
    /\ post[c] = "posting"
    /\ post' = [post EXCEPT ![c] = "logged"]
    /\ UNCHANGED <<configured, smtpHost, delivery>>

PostWebhook == Sent("webhook") \/ SendFails("webhook")
PostSlack   == Sent("slack") \/ SendFails("slack")
SendEmail   == Sent("email") \/ SendFails("email")

\* Mutation of AllSettled: the promise of an e-mail without SMTP_HOST is left open.
AllAttempted == \A c \in configured : post[c] \in {"sent", "logged"}

\* Promise.allSettled.
AllSettled == \A c \in configured : post[c] \in {"sent", "logged", "skipped"}

Return ==
    /\ delivery = "waiting" /\ AllSettled
    /\ delivery' = "returned"
    /\ UNCHANGED <<configured, smtpHost, post>>

DeliveryNext ==
    \/ Deliver \/ Return
    \/ "webhook" \in Channels /\ PostWebhook
    \/ "slack" \in Channels /\ PostSlack
    \/ "email" \in Channels /\ SendEmail

DeliveryFairness == WF_deliveryVars(Return)

DeliverySpec == DeliveryInit /\ [][DeliveryNext]_deliveryVars /\ DeliveryFairness

(***************************************************************************)
(* Properties.                                                              *)
(***************************************************************************)
DeliveryTypeOK ==
    /\ configured \subseteq Channels
    /\ smtpHost \in BOOLEAN
    /\ post \in [Channels -> {"none", "posting", "sent", "logged", "skipped"}]
    /\ delivery \in {"idle", "waiting", "returned"}

\* deliver returns, and throws nothing, whichever of its channels fail, unless a
\* receiver keeps one of them waiting for good: fetch and sendMail are called
\* without a limit, and the check of the monitor waits with them.
DeliveryReturns ==
    [](delivery = "waiting" => \/ <>(delivery = "returned")
                               \/ \E c \in Channels : <>[](post[c] = "posting"))
==============================================================================
