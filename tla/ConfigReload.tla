----------------------------- MODULE ConfigReload -----------------------------
(* Configuration that changes while the process runs (config/index,           *)
(* CloudSecretsProvider, ManifestBasedServiceReinitializer): the secrets are  *)
(* fetched by a timer and by hand, a difference is put into the environment,  *)
(* and the service that depends on it is brought up again by the strategy     *)
(* of the manifest.  Nothing keeps two fetches or two of these from           *)
(* overlapping.  The secrets are reduced to one key, of one service.          *)
EXTENDS Naturals

CONSTANTS
  Values,      \* of the key; Absent is one of them
  Absent,
  Services,    \* of "cache", "logger", "coordinator", "d1"
  Reloads,     \* names of the reloads that are under way at a time
  MaxEdits,    \* bound on changes of the secret
  MaxErrors    \* bound on fetches and registrations that fail

VARIABLES
  service,     \* the one that depends on the key
  polling,     \* INFISICAL_POLLING_ENABLED: without it there is no timer and no listener
  source,      \* the value kept by Infisical
  fetch,       \* what the timer and the call by hand have been answered
  current,     \* currentSecrets of the provider
  env,         \* process.env, and the configuration built from it
  reload,      \* where each reload is
  active,      \* the value the service works with
  up,          \* it is connected, or listed
  builder,     \* _lifecyclePromise of the logger
  alive, edits, errors

reloadVars == <<service, polling, source, fetch, current, env, reload, active, up, builder,
                alive, edits, errors>>

Fetchers == {"timer", "hand"}
Nothing == "nothing"
NoReload == [at |-> "none", value |-> Nothing, waits |-> Nothing]

ReloadInit ==
  /\ service \in Services /\ polling \in BOOLEAN
  /\ source \in Values
  /\ fetch = [f \in Fetchers |-> Nothing]
  /\ current = source /\ env = source /\ active = source /\ up = TRUE
  /\ reload = [r \in Reloads |-> NoReload] /\ builder = Nothing
  /\ alive = TRUE /\ edits = 0 /\ errors = 0

Edit ==
  /\ edits < MaxEdits /\ edits' = edits + 1
  /\ source' \in Values \ {source}
  /\ UNCHANGED <<service, polling, fetch, current, env, reload, active, up, builder, alive, errors>>

\* The timer does not wait for its fetch before; one answer under way is kept of each.
Fetch(f) ==
  /\ alive /\ (f = "timer" => polling)
  /\ fetch[f] = Nothing
  /\ fetch' = [fetch EXCEPT ![f] = source]
  /\ UNCHANGED <<service, polling, source, current, env, reload, active, up, builder, alive,
                 edits, errors>>

\* The error of a fetch of the timer is emitted to nobody, which is an unhandled rejection:
\* the process shuts down, unless the error counts as recoverable.
FetchFails(f) ==
  /\ alive /\ errors < MaxErrors /\ errors' = errors + 1
  /\ fetch[f] # Nothing
  /\ fetch' = [fetch EXCEPT ![f] = Nothing]
  /\ alive' \in (IF f = "timer" THEN BOOLEAN ELSE {TRUE})
  /\ UNCHANGED <<service, polling, source, current, env, reload, active, up, builder, edits>>

Changes(new) == current # new

\* detectChanges, and the listener up to its first await: answers are taken in the order
\* in which they come.
Land(f) ==
  /\ alive /\ fetch[f] # Nothing
  /\ fetch' = [fetch EXCEPT ![f] = Nothing]
  /\ IF ~Changes(fetch[f]) THEN UNCHANGED <<current, env, reload>>
     ELSE /\ current' = fetch[f]
          /\ IF ~polling THEN UNCHANGED <<env, reload>>
             ELSE /\ env' = fetch[f]
                  /\ \E r \in Reloads :
                       /\ reload[r].at = "none"
                       /\ reload' = [reload EXCEPT ![r].at = "begin"]
  /\ UNCHANGED <<service, polling, source, active, up, builder, alive, edits, errors>>

-----------------------------------------------------------------------------
\* performReinitialization, after the services were imported

untouched == <<service, polling, source, fetch, current, env, alive, edits>>

Moves(r, from, to) ==
  /\ alive /\ reload[r].at = from
  /\ reload' = [reload EXCEPT ![r] = IF to = "none" THEN NoReload ELSE [@ EXCEPT !.at = to]]

\* destroy_initialize of the cache: destroy closes the connection and leaves isInitialized,
DestroyCache(r) ==
  /\ service = "cache" /\ Moves(r, "begin", "initialize") /\ up' = FALSE
  /\ UNCHANGED <<untouched, active, builder, errors>>

\* so that initialize returns at once.
InitializeCache(r) ==
  /\ service = "cache" /\ Moves(r, "initialize", "none")
  /\ UNCHANGED <<untouched, active, up, builder, errors>>

\* reconnect of D1, which has no such method (nor has the queue destroy, or the object
\* store configure): nothing is done, and success is told.
LeaveAsItIs(r) ==
  /\ service = "d1" /\ Moves(r, "begin", "none")
  /\ UNCHANGED <<untouched, active, up, builder, errors>>

\* Mutant: reload does not wait for one under way.
WaitsForNobody == FALSE

Waits == builder # Nothing

\* reload of the logger: _buildLoggers reads the environment, then connects.  What is under
\* way is waited for once.
LoggerBuilds(r) ==
  /\ service = "logger" /\ alive /\ reload[r].at = "begin"
  /\ IF Waits
     THEN /\ reload' = [reload EXCEPT ![r].at = "wait", ![r].waits = builder]
          /\ UNCHANGED builder
     ELSE /\ reload' = [reload EXCEPT ![r].at = "build", ![r].value = env]
          /\ builder' = r
  /\ UNCHANGED <<untouched, active, up, errors>>

\* The loggers are exchanged, and those that waited for it build theirs.
LoggerBuilt(r) ==
  /\ alive /\ reload[r].at = "build"
  /\ active' = reload[r].value
  /\ LET waiters == {q \in Reloads : reload[q].waits = r} IN
       /\ reload' = [q \in Reloads |->
            IF q = r THEN NoReload
            ELSE IF q \in waiters THEN [at |-> "build", value |-> env, waits |-> Nothing]
            ELSE reload[q]]
       /\ IF waiters # {} THEN builder' \in waiters
          ELSE builder' = IF builder = r THEN Nothing ELSE builder
  /\ UNCHANGED <<untouched, up, errors>>

\* restart of the instance coordinator: stop takes the row away, start writes it again.
CoordinatorStops(r) ==
  /\ service = "coordinator" /\ Moves(r, "begin", "start") /\ up' = FALSE
  /\ UNCHANGED <<untouched, active, builder, errors>>

CoordinatorStarts(r) ==
  /\ Moves(r, "start", "none") /\ up' = TRUE /\ active' = env
  /\ UNCHANGED <<untouched, builder, errors>>

\* The failure is logged, and nobody tries again.
StartFails(r) ==
  /\ errors < MaxErrors /\ errors' = errors + 1
  /\ Moves(r, "start", "none")
  /\ UNCHANGED <<untouched, active, up, builder>>

Reloading(r) ==
  \/ DestroyCache(r) \/ InitializeCache(r) \/ LeaveAsItIs(r)
  \/ LoggerBuilds(r) \/ LoggerBuilt(r)
  \/ CoordinatorStops(r) \/ CoordinatorStarts(r)

ReloadNext ==
  \/ Edit
  \/ \E f \in Fetchers : Fetch(f) \/ FetchFails(f) \/ Land(f)
  \/ \E r \in Reloads : Reloading(r) \/ StartFails(r)

\* The timer comes round, an answer of its fetch is taken, and a reload goes on.
ReloadFairness == WF_reloadVars(Fetch("timer")) /\ WF_reloadVars(Land("timer"))
                  /\ WF_reloadVars(\E r \in Reloads : Reloading(r))

ReloadSpec == ReloadInit /\ [][ReloadNext]_reloadVars /\ ReloadFairness

-----------------------------------------------------------------------------
\* Properties

AtRest == \A r \in Reloads : reload[r].at = "none"

\* Every variable has its type.
ReloadTypeOK ==
  /\ service \in Services /\ polling \in BOOLEAN /\ source \in Values
  /\ fetch \in [Fetchers -> Values \union {Nothing}]
  /\ current \in Values /\ env \in Values /\ active \in Values
  /\ reload \in [Reloads -> [at : {"none", "begin", "initialize", "wait", "build", "start"},
                             value : Values \union {Nothing}, waits : Reloads \union {Nothing}]]
  /\ up \in BOOLEAN /\ builder \in Reloads \union {Nothing}
  /\ alive \in BOOLEAN /\ edits \in 0..MaxEdits /\ errors \in 0..MaxErrors

\* When two reloads overlap, the logger ends up with what the environment says.
LoggerFollows == service = "logger" /\ polling /\ AtRest => active = env

\* A process that polls and lives on comes to have what is kept by Infisical in its
\* environment, whatever order answers came in.
EnvCatchesUp == <>[](alive /\ polling => env = source)

\* What is kept by Infisical comes to the process, and from it to the logger.
ReloadHolds == [](ReloadTypeOK /\ LoggerFollows) /\ EnvCatchesUp

=============================================================================
