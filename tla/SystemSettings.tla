---------------------------- MODULE SystemSettings ---------------------------
(***************************************************************************)
(* The cache of the system settings, app/systemc_settings.go, behind the   *)
(* client of the broker: a change of a setting is announced to the         *)
(* consumers of the settings, and listenSystemSettingsEvents removes the   *)
(* cached value.  Concurrent reads of one setting share a query, a flight  *)
(* of golang.org/x/sync/singleflight, and the value of a query that was    *)
(* shared is not cached.                                                   *)
(*                                                                         *)
(* One setting is modelled, record_all_calls.  A value is the number of    *)
(* its version, and 0 stands for none.  Some versions are that there is no *)
(* row: then each RecordAllCalls caches an empty value.  For the others,   *)
(* which are not cached without a row, that is an error as any other.  A   *)
(* flight is named after the reader that leads it.                         *)
(***************************************************************************)
EXTENDS Broker

CONSTANTS Readers, LastVersion,
          Absent   \* the versions in which the setting has no row

ASSUME SettingsAssumption ==
  0 \notin Readers /\ LastVersion \in Nat /\ Absent \subseteq 1..LastVersion

VARIABLES db,      \* the setting in the database
          systemCache,
          sent,    \* announcements on their way on each channel
          changes, \* announcements that listenSystemSettingsEvents has not taken
          clear,   \* where it is
          group,   \* the flight in systemGroup
          reader,  \* where each reader is
          flight,  \* the flight it is in
          shared,  \* the flights that have more than one reader
          val,     \* what the query of each flight returned, then what is to be
                   \* cached
          lost     \* history: an announcement was lost

readVars == <<group, reader, flight, shared, val>>
settingsVars == <<db, systemCache, sent, changes, clear, readVars, lost>>
allVars == <<brokerVars, settingsVars>>

SettingsInit ==
  /\ BrokerInit
  /\ db = 1 /\ systemCache = 0
  /\ sent = [c \in Chan |-> 0] /\ changes = 0 /\ clear = "read"
  /\ group = 0
  /\ reader = [r \in Readers |-> "idle"] /\ flight = [r \in Readers |-> 0]
  /\ shared = {} /\ val = [r \in Readers |-> 0]
  /\ lost = "no"

-----------------------------------------------------------------------------
(* Changes, and how the broker carries them. *)

Listeners == {c \in Chan : subs["settings"][c] > 0}

\* A setting is changed elsewhere.
SettingChanged ==
  /\ db < LastVersion /\ db' = db + 1
  /\ sent' = [c \in Chan |-> sent[c] + subs["settings"][c]]
  /\ lost' = IF Listeners = {} THEN "yes" ELSE lost
  /\ UNCHANGED <<brokerVars, systemCache, changes, clear, readVars>>

ReceiveSettings(c) ==
  /\ sent[c] > 0
  /\ sent' = [sent EXCEPT ![c] = @ - 1] /\ changes' = changes + 1
  /\ UNCHANGED <<brokerVars, db, systemCache, clear, readVars, lost>>

\* The queue of a settings consumer is deleted with the consumer.
LoseQueues ==
  /\ sent' = [c \in Chan |-> IF subs'["settings"][c] < subs["settings"][c] THEN 0 ELSE sent[c]]
  /\ lost' = IF sent' # sent THEN "yes" ELSE lost
  /\ UNCHANGED <<db, systemCache, changes, clear, readVars>>

-----------------------------------------------------------------------------
(* listenSystemSettingsEvents. *)

RemoveSetting ==
  /\ clear = "read" /\ changes > 0
  /\ changes' = changes - 1 /\ systemCache' = 0 /\ clear' = "forget"
  /\ UNCHANGED <<brokerVars, db, sent, readVars, lost>>

\* Mutant: the flight goes on to be shared.
ForgetFlightNot ==
  /\ clear = "forget" /\ clear' = "read"
  /\ UNCHANGED <<brokerVars, db, systemCache, sent, changes, readVars, lost>>

ForgetFlight ==
  /\ clear = "forget"
  /\ group' = 0 /\ clear' = "read"
  /\ UNCHANGED <<brokerVars, db, systemCache, sent, changes, reader, flight, shared, val, lost>>

-----------------------------------------------------------------------------
(* GetSystemSettings. *)

At(r, pc) == reader' = [reader EXCEPT ![r] = pc]

\* A hit changes nothing.
GetMisses(r) ==
  /\ reader[r] = "idle" /\ systemCache = 0
  /\ At(r, "miss")
  /\ UNCHANGED <<brokerVars, db, systemCache, sent, changes, clear, group, flight, shared, val, lost>>

\* The reader leads a flight, or joins the one there is.
Do(r) ==
  /\ reader[r] = "miss"
  /\ IF group = 0
       THEN group' = r /\ At(r, "query") /\ flight' = [flight EXCEPT ![r] = r] /\ UNCHANGED shared
       ELSE /\ At(r, "wait") /\ flight' = [flight EXCEPT ![r] = group]
            /\ shared' = shared \cup {group} /\ UNCHANGED group
  /\ UNCHANGED <<brokerVars, db, systemCache, sent, changes, clear, val, lost>>

Query(r) ==
  /\ reader[r] = "query"
  /\ val' = [val EXCEPT ![r] = db]
  /\ At(r, "land")
  /\ UNCHANGED <<brokerVars, db, systemCache, sent, changes, clear, group, flight, shared, lost>>

\* The readers that go on to cache what the flight of r returned: the one that
\* leads it if there is no other, and RecordAllCalls of each if there is no row.
Fillers(r) ==
  IF val[r] \in Absent THEN {q \in Readers : flight[q] = r} ELSE {r} \ shared

\* The flight ends, with an error or with the value, and its readers return.
Land(r) ==
  /\ reader[r] = "land"
  /\ \E fillers \in {{}, Fillers(r)} :
       /\ reader' = [q \in Readers |->
                       IF flight[q] # r THEN reader[q]
                       ELSE IF q \in fillers THEN "fill" ELSE "idle"]
       /\ val' = [q \in Readers |->
                    IF flight[q] # r THEN val[q]
                    ELSE IF q \in fillers THEN val[r] ELSE 0]
  /\ group' = IF group = r THEN 0 ELSE group
  /\ flight' = [q \in Readers |-> IF flight[q] = r THEN 0 ELSE flight[q]]
  /\ shared' = shared \ {r}
  /\ UNCHANGED <<brokerVars, db, systemCache, sent, changes, clear, lost>>

FillCache(r) ==
  /\ reader[r] = "fill"
  /\ systemCache' = val[r] /\ val' = [val EXCEPT ![r] = 0]
  /\ At(r, "idle")
  /\ UNCHANGED <<brokerVars, db, sent, changes, clear, group, flight, shared, lost>>

\* Mutant: the entry has no expiry.
ExpireNot ==
  /\ systemCache # 0 /\ systemCache' = systemCache
  /\ UNCHANGED <<brokerVars, db, sent, changes, clear, readVars, lost>>

\* The minute of the entry is over.
Expire ==
  /\ systemCache # 0 /\ systemCache' = 0
  /\ UNCHANGED <<brokerVars, db, sent, changes, clear, readVars, lost>>

-----------------------------------------------------------------------------

Reads(r) == Do(r) \/ Query(r) \/ Land(r) \/ FillCache(r)
Listens == RemoveSetting \/ ForgetFlight \/ \E c \in Chan : ReceiveSettings(c)

\* The steps of the client of the broker, and of what stands behind it.
ClientStep == (BrokerGoroutines \/ Faults) /\ LoseQueues
CallStep == PublishCall /\ UNCHANGED settingsVars
SettingsStep ==
  \/ SettingChanged \/ Listens \/ Expire
  \/ \E r \in Readers : GetMisses(r) \/ Reads(r)

SettingsNext == exited = "no" /\ (ClientStep \/ CallStep \/ SettingsStep)

SettingsSpec == SettingsInit /\ [][SettingsNext]_allVars

-----------------------------------------------------------------------------
(* Properties. *)

\* When the listener has dealt with all announcements, and none was lost, a
\* reader never joins a flight that read the setting before its change: this is
\* what Forget is for.
FreshFlights ==
  /\ changes = 0 /\ clear = "read" /\ lost = "no" /\ group # 0
  /\ \A c \in Chan : sent[c] = 0
  => val[group] \in {0, db}

\* A value that is out of date is out of the cache for good in the end, even when
\* its announcement was lost or a late flight cached it after the announcement.
CaughtUp == <>[](exited # "no" \/ systemCache \in {0, db})
====
