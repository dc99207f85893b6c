-------------------------------- MODULE DeviceApi --------------------------------
(***************************************************************************)
(* The mTLS device API (device_api.py) on the registry of client           *)
(* certificates (ClientRegistry of api_security.py) and on the event       *)
(* history a client reads through it (EventHistory).                       *)
(*                                                                         *)
(* A connection proves once, with its first request, which certificate it  *)
(* holds.  The registry is read into memory once and kept there; its file  *)
(* is replaced at every change, and, behind its back, by the restoration   *)
(* of an encrypted backup (apply_secure_configuration_import).             *)
(***************************************************************************)
EXTENDS EventHistory

CONSTANTS
  Client,      \* client certificates issued by a trusted CA
  Reader,      \* the one of the fleet server that follows the events
  MaxClients,  \* registry.maximum
  MaxSteps     \* a bound of the model: events, log lines, changes and crashes

ASSUME ApiAssumption ==
  /\ IsFiniteSet(Client) /\ Reader \in Client
  /\ MaxClients \in Nat \ {0} /\ MaxSteps \in Nat

VARIABLES
  cache,     \* registry._cache
  file,      \* certs/api-clients.json
  conn,      \* by certificate: is a connection open that has proved to hold it
  granted,   \* history: the scopes the owner was told each client has
  promised,  \* history: those the owner was told it will have after the next restart
  barred,    \* history: clients whose revocation was confirmed, and that were not let in since
  steps      \* steps taken of MaxSteps

clientVars == <<cache, file, conn, granted, promised, barred>>
apiVars ==
  <<up, health, number, cursor, owed, forced, queue, sending, sent, messages, apiExposed,
    cache, file, conn, granted, promised, barred, steps>>

(***************************************************************************)
(* Beside those of EventHistory:                                           *)
(*   unsaved      the registry could not be written: memory and file       *)
(*                disagree until the restart, and the owner saw an error   *)
(*   overwritten  a client is enrolled or revoked after a backup was       *)
(*                restored and before the restart it asks for              *)
(***************************************************************************)
ApiExposure == HistoryExposure \cup {"unsaved", "overwritten"}
ApiPromised == apiExposed \cap ApiExcused = {}

\* The scopes an enrolment gives: read and write, or fleet:read and fleet:write
Grant    == {"none", "api", "fleet"}
Scope    == {"api", "fleet"}
Nobody   == [c \in Client |-> "none"]
Unloaded == [c \in Client |-> "unloaded"]
Enrolled(registry) == {c \in Client : registry[c] # "none"}

ApiInit ==
  /\ InitHistory
  /\ up = FALSE /\ apiExposed = {} /\ steps = 0
  /\ cache = Unloaded /\ file = Nobody
  /\ conn = [c \in Client |-> FALSE]
  /\ granted = Nobody /\ promised = Nobody /\ barred = {}

\* _load(): a missing file is an empty registry
Registry == IF cache = Unloaded THEN file ELSE cache

-----------------------------------------------------------------------------
(* The registry.                                                           *)

\* enrol() puts the new record in the place of the client's old one.
With(registry, c, g) == [registry EXCEPT ![c] = g]

\* enrol() and revoke() change the cached registry in place and then save it.  The save
\* succeeds; or it fails, with the old file there or, when the renaming fails, already gone.
Saved(registry) ==
  /\ cache' = registry /\ file' = registry
  /\ apiExposed' = apiExposed \cup IF promised # granted THEN {"overwritten"} ELSE {}

NotSaved(registry) ==
  /\ cache' = registry /\ file' \in {file, Nobody}
  /\ apiExposed' = apiExposed \cup {"unsaved"}
  /\ UNCHANGED <<granted, promised>>

\* activate_uploaded_certificates(): as an API client, or as a fleet server
Enrol(c, g) ==
  /\ up
  /\ Registry[c] # "none" \/ Cardinality(Enrolled(Registry)) < MaxClients
  /\ LET registry == With(Registry, c, g)
     IN \/ Saved(registry) /\ granted' = [granted EXCEPT ![c] = g]
                           /\ promised' = [promised EXCEPT ![c] = g]
        \/ NotSaved(registry)
  /\ barred' = barred \ {c}
  /\ UNCHANGED conn

\* The portal's revoke-api-client.  A client memory does not know is "not found".
Revoke(c) ==
  /\ up /\ Registry[c] # "none"
  /\ LET registry == [Registry EXCEPT ![c] = "none"]
     IN \/ /\ Saved(registry) /\ barred' = barred \cup {c}
           /\ granted' = [granted EXCEPT ![c] = "none"]
           /\ promised' = [promised EXCEPT ![c] = "none"]
        \/ NotSaved(registry) /\ UNCHANGED barred
  /\ UNCHANGED conn

\* apply_secure_configuration_import(): the file is replaced, the cache is not.  A registry
\* nobody has asked for yet takes effect before the restart.
Restore(registry) ==
  /\ up
  /\ file' = registry /\ promised' = registry
  /\ granted' = IF cache = Unloaded THEN registry ELSE granted
  /\ barred' = barred \ Enrolled(registry)
  /\ UNCHANGED <<cache, conn, apiExposed>>

RegistryChanges ==
  /\ steps < MaxSteps /\ steps' = steps + 1
  /\ \/ \E c \in Client : Revoke(c) \/ \E g \in Scope : Enrol(c, g)
     \/ \E c \in Client : Restore([Nobody EXCEPT ![c] = "api"])
  /\ UNCHANGED <<up, historyVars, syslogVars>>

-----------------------------------------------------------------------------
(* Requests.                                                               *)

\* Mutant: who was let in once stays in for as long as the connection lasts.
AuthenticatesConnection(c, scope) == conn[c]

\* authenticate_fingerprint(): the certificate the connection proved to hold is looked up in
\* the registry, for the scope of the route.
Authenticates(c, scope) == conn[c] /\ Registry[c] = scope

\* handle(), connection_opened(): the first request of a connection shows its certificate.
Opens(c) ==
  /\ up /\ ~conn[c] /\ Registry[c] # "none"
  /\ cache' = Registry
  /\ conn' = [conn EXCEPT ![c] = TRUE]
  /\ UNCHANGED <<up, historyVars, syslogVars, file, granted, promised, barred,
                 apiExposed, steps>>

Closes(c) ==
  /\ conn[c] /\ conn' = [conn EXCEPT ![c] = FALSE]
  /\ UNCHANGED <<up, historyVars, syslogVars, cache, file, granted, promised, barred,
                 apiExposed, steps>>

\* _record_request(), then the route: what is only read, the events the reader follows, and
\* what is posted and leaves an event.  A write that fails takes one of the bounded steps.
ServeClient(c, scope) ==
  /\ up /\ Authenticates(c, scope)
  /\ cache' = Registry
  /\ \/ /\ health' = Increment(health, TRUE)
        /\ \/ UNCHANGED <<cursor, owed>>
           \/ c = Reader /\ scope = "api" /\ ReadPage(health)
        /\ UNCHANGED <<number, forced, steps>>
     \/ /\ steps < MaxSteps /\ steps' = steps + 1
        /\ \E works \in BOOLEAN :
             Recorded(Record(Increment(health, works), number + 1, FALSE, works), FALSE)
  /\ UNCHANGED <<up, syslogVars, file, conn, granted, promised, barred, apiExposed>>

\* The answer is 403 and the connection is closed; a failure is counted.
Refuse(c, scope) ==
  /\ up /\ conn[c] /\ ~Authenticates(c, scope)
  /\ cache' = Registry /\ conn' = [conn EXCEPT ![c] = FALSE]
  /\ health' = Increment(health, TRUE)
  /\ UNCHANGED <<up, number, cursor, owed, forced, syslogVars, file, granted, promised,
                 barred, apiExposed, steps>>

-----------------------------------------------------------------------------
ApiBoot ==
  /\ ~up /\ up' = TRUE
  /\ \E works \in BOOLEAN : BootHistory(works)
  /\ granted' = promised
  /\ UNCHANGED <<cache, file, conn, promised, barred, apiExposed, steps>>

\* Power fails, perhaps in a checkpoint or in a save of the registry: between the removal of
\* the old file and the renaming of the new one.
Crash ==
  /\ up /\ up' = FALSE
  /\ steps < MaxSteps /\ steps' = steps + 1
  /\ \E saved \in {health.file, Nothing}, registry \in {file, Nobody} :
       /\ saved = health.file \/ registry = file
       /\ CrashHistory(saved)
       /\ file' = registry
       /\ apiExposed' = apiExposed \cup CrashExposes(saved)
                             \cup IF registry # file THEN {"unsaved"} ELSE {}
  /\ cache' = Unloaded /\ conn' = [c \in Client |-> FALSE]
  /\ UNCHANGED <<granted, promised, barred>>

Records ==
  /\ steps < MaxSteps /\ steps' = steps + 1
  /\ Happens \/ Logs \/ ClearHistory
  /\ UNCHANGED clientVars

Sends == (SendBegins \/ Sent \/ SendFails) /\ UNCHANGED <<clientVars, steps>>

ApiNext ==
  \/ ApiBoot \/ Crash \/ Records \/ Sends \/ RegistryChanges
  \/ \E c \in Client : Opens(c) \/ Closes(c)
  \/ \E c \in Client, scope \in Scope : ServeClient(c, scope) \/ Refuse(c, scope)

ApiSpec == ApiInit /\ [][ApiNext]_apiVars

-----------------------------------------------------------------------------
\* A request is answered only for a client whose revocation was not confirmed since it was
\* let in, whichever connection it comes on and whatever crashed meanwhile (docs/API.md:42,
\* "Revocation is checked for every request").
RevokedStaysOut ==
  \A c \in Client, scope \in Scope : ServeClient(c, scope) => c \notin barred

\* What the owner was told of a client is what the registry does, now and after a restart.
AccessAsTold ==
  ApiPromised =>
    /\ up => Registry = granted
    /\ file = promised

\* What the owner was told of a client holds for every request.
AccessHolds == [][AccessAsTold' /\ RevokedStaysOut]_apiVars
=============================================================================
