------------------------------ MODULE Accounts -------------------------------
(***************************************************************************)
(* An e-mail address, the account registered under it and the settings row  *)
(* of that account.  A registration creates both; accounts older than the   *)
(* settings table have no row until it is first read or updated.  Several   *)
(* registrations, first reads and updates may be under way: the cache lets  *)
(* one load of a user's settings run at a time unless its TTL is 0, and an  *)
(* update never waits for a load.                                           *)
(***************************************************************************)
CONSTANTS
    Registrars,  \* requests to register the address
    Readers,     \* loads of the settings
    Plain,       \* columns that are never null: intervals, limits, switches
    Nullable     \* columns that may be: the addresses, maintenanceUntil

ASSUME AccountsAssumption == Plain # {} /\ Plain \cap Nullable = {}

VARIABLES
    account,    \* the address has an account
    settings,   \* its row of settings, or NoSettings
    registrar,  \* of each registration: "hashing", "issued" or "conflict"
    reader,     \* of each load: "idle", "missed", "raced", "served" or "failed"
    wanted      \* history: the settings as the user has asked for them

accountsVars == <<account, settings, registrar, reader, wanted>>

SettingsColumns == Plain \cup Nullable
Defaults   == [c \in SettingsColumns |-> "default"]
NoSettings == <<>>

\* What the GraphQL input may hold; an empty address is turned into null.
SettingsPatches == UNION {[cs -> {"default", "set", "null"}] : cs \in SUBSET SettingsColumns}

AccountsInit ==
    /\ account \in BOOLEAN
    /\ settings = NoSettings
    /\ registrar = [g \in Registrars |-> "hashing"]
    /\ reader = [r \in Readers |-> "idle"]
    /\ wanted = Defaults

\* users.create: account and settings in one statement, or P2002.
Register(g) ==
    /\ registrar[g] = "hashing"
    /\ account' = TRUE
    /\ IF account
       THEN /\ registrar' = [registrar EXCEPT ![g] = "conflict"]
            /\ UNCHANGED settings
       ELSE /\ registrar' = [registrar EXCEPT ![g] = "issued"]
            /\ settings' = Defaults
    /\ UNCHANGED <<reader, wanted>>

\* loadOrCreate looks for the row ...
FindSettings(r) ==
    /\ account /\ reader[r] = "idle"
    /\ reader' = [reader EXCEPT ![r] = IF settings = NoSettings THEN "missed" ELSE "served"]
    /\ UNCHANGED <<account, settings, registrar, wanted>>

\* Mutation of CreateSettings: an upsert that writes the defaults either way.
UpsertDefaults(r) ==
    /\ reader[r] = "missed"
    /\ settings' = Defaults
    /\ reader' = [reader EXCEPT ![r] = "served"]
    /\ UNCHANGED <<account, registrar, wanted>>

\* ... creates it with the defaults of the table, unless it is there by now ...
CreateSettings(r) ==
    /\ reader[r] = "missed"
    /\ IF settings = NoSettings
       THEN /\ settings' = Defaults
            /\ reader' = [reader EXCEPT ![r] = "served"]
       ELSE /\ reader' = [reader EXCEPT ![r] = "raced"]
            /\ UNCHANGED settings
    /\ UNCHANGED <<account, registrar, wanted>>

\* ... and reads it then.
FindRaced(r) ==
    /\ reader[r] = "raced"
    /\ reader' = [reader EXCEPT ![r] = IF settings = NoSettings THEN "failed" ELSE "served"]
    /\ UNCHANGED <<account, settings, registrar, wanted>>

NullsAsDefaults(p) == [c \in DOMAIN p |-> IF p[c] = "null" THEN "default" ELSE p[c]]
Over(base, p)      == [c \in SettingsColumns |-> IF c \in DOMAIN p THEN p[c] ELSE base[c]]

\* The two halves of the upsert: a missing row takes the defaults for what is
\* null; the update refuses a null for a column that has none.
Created(p)  == Over(Defaults, NullsAsDefaults(p))
Updated(p)  == Over(settings, NullsAsDefaults(p))
Accepts(p)  == \A c \in DOMAIN p \cap Plain : p[c] # "null"

UpdateSettings(p) ==
    /\ account
    /\ settings # NoSettings => Accepts(p)
    /\ settings' = IF settings = NoSettings THEN Created(p) ELSE Updated(p)
    /\ wanted' = Over(wanted, NullsAsDefaults(p))
    /\ UNCHANGED <<account, registrar, reader>>

AccountsNext ==
    \/ \E g \in Registrars : Register(g)
    \/ \E r \in Readers : FindSettings(r) \/ CreateSettings(r) \/ FindRaced(r)
    \/ \E p \in SettingsPatches : UpdateSettings(p)

AccountsSpec == AccountsInit /\ [][AccountsNext]_accountsVars

(***************************************************************************)
(* Properties.                                                              *)
(***************************************************************************)
SettingsRows == [SettingsColumns -> {"default", "set"}]

AccountsTypeOK ==
    /\ account \in BOOLEAN
    /\ settings \in SettingsRows \cup {NoSettings}
    /\ registrar \in [Registrars -> {"hashing", "issued", "conflict"}]
    /\ reader \in [Readers -> {"idle", "missed", "raced", "served", "failed"}]
    /\ wanted \in SettingsRows

\* The row holds what the user last asked for and the defaults elsewhere, however
\* first reads that create it race with updates that do; the reader that loses
\* such a race is served, not failed; and one address is registered once.
SettingsAsWanted ==
    /\ settings # NoSettings => settings = wanted
    /\ settings = NoSettings => wanted = Defaults
    /\ \A r \in Readers : reader[r] # "failed"
    /\ \A g, h \in Registrars : registrar[g] = "issued" /\ registrar[h] = "issued" => g = h
==============================================================================
