---------------------------- MODULE Notifications ----------------------------
(***************************************************************************)
(* The notifications of one user: they are created by alerts, and marked as *)
(* read one by one (markRead, a look and a write) or all at once            *)
(* (markAllRead, one statement) by requests that may cross.                 *)
(***************************************************************************)
EXTENDS Naturals, FiniteSets

CONSTANTS Notes, Markers, MaxReads

ASSUME NotificationsAssumption == MaxReads \in Nat

VARIABLES
    stored,     \* the notifications that exist
    announced,  \* those that were published to the user's subscription
    readAt,     \* of each: 0 while it is unread, else when it was read
    marking,    \* of each request: [note, found], what markRead is about to write
    reads       \* how many moments of reading have passed (bound MaxReads)

notesVars == <<stored, announced, readAt, marking, reads>>

NoMark == [note |-> "none", found |-> 0]

NotesInit ==
    /\ stored = {}
    /\ announced = {}
    /\ readAt = [n \in Notes |-> 0]
    /\ marking = [m \in Markers |-> NoMark]
    /\ reads = 0

\* createForUser: the row first ...
CreateNote(n) ==
    /\ n \notin stored
    /\ stored' = stored \cup {n}
    /\ UNCHANGED <<announced, readAt, marking, reads>>

\* ... then its publication.
Publish(n) ==
    /\ n \in stored \ announced
    /\ announced' = announced \cup {n}
    /\ UNCHANGED <<stored, readAt, marking, reads>>

\* Mutation of FindNote: a notification that is read is marked again.
FindAnyNote(m, n) ==
    /\ marking[m] = NoMark /\ n \in stored
    /\ marking' = [marking EXCEPT ![m] = [note |-> n, found |-> readAt[n]]]
    /\ UNCHANGED <<stored, announced, readAt, reads>>

\* markRead looks the row up; one that is read is returned as it is.
FindNote(m, n) ==
    /\ marking[m] = NoMark /\ n \in stored
    /\ readAt[n] = 0
    /\ marking' = [marking EXCEPT ![m] = [note |-> n, found |-> readAt[n]]]
    /\ UNCHANGED <<stored, announced, readAt, reads>>

\* It writes readAt whatever the row says by now.
MarkRead(m) ==
    /\ marking[m] # NoMark /\ reads < MaxReads
    /\ reads' = reads + 1
    /\ readAt' = [readAt EXCEPT ![marking[m].note] = reads + 1]
    /\ marking' = [marking EXCEPT ![m] = NoMark]
    /\ UNCHANGED <<stored, announced>>

Unread == {n \in stored : readAt[n] = 0}

MarkAllRead ==
    /\ reads < MaxReads
    /\ reads' = reads + 1
    /\ readAt' = [n \in Notes |-> IF n \in Unread THEN reads + 1 ELSE readAt[n]]
    /\ UNCHANGED <<stored, announced, marking>>

NotesNext ==
    \/ \E n \in Notes : CreateNote(n) \/ Publish(n)
    \/ \E m \in Markers : MarkRead(m) \/ \E n \in Notes : FindNote(m, n)
    \/ MarkAllRead

NotesSpec == NotesInit /\ [][NotesNext]_notesVars

(***************************************************************************)
(* Properties.                                                              *)
(***************************************************************************)
NotesTypeOK ==
    /\ stored \subseteq Notes /\ announced \subseteq stored
    /\ readAt \in [Notes -> 0..MaxReads]
    /\ marking \in [Markers -> {NoMark} \cup [note : Notes, found : 0..MaxReads]]
    /\ reads \in 0..MaxReads

\* What is read stays read, and the moment it was read at moves only when a
\* markRead had found it unread before another request marked it: neither
\* markAllRead nor a markRead that comes after moves it.
ReadAtMovesOnlyByCrossing ==
    [][\A n \in Notes :
          readAt[n] # 0 /\ readAt'[n] # readAt[n] =>
              /\ readAt'[n] > readAt[n]
              /\ \E m \in Markers : marking[m] = [note |-> n, found |-> 0]]_notesVars
==============================================================================
