----------------------------- MODULE Deployment -----------------------------
(***************************************************************************)
(* How the containers of docker-compose.yml and of                         *)
(* docker-compose.production.yml come up: compose starts a container when  *)
(* the conditions of its depends_on hold, and the schema is migrated by    *)
(* alembic/env.py, in a container of its own or before the API.            *)
(***************************************************************************)
CONSTANT Topology   \* "local" or "production": which of the two files is used

VARIABLES
    state,    \* state[s]: what the container of service s is doing
    schema    \* is the schema of the database at head?

vars == <<state, schema>>

Services == IF Topology = "local" THEN {"api", "worker", "redis", "postgres", "migrator"}
            ELSE {"api", "worker", "redis"}

States == {"created", "running", "healthy", "completed", "failed"}

(* depends_on: the states of a service that start the ones after it.       *)
started   == {"running", "healthy"}
Condition ==
    IF Topology = "production"
    THEN [s \in Services |-> IF s = "redis" THEN <<>> ELSE [redis |-> started]]
    ELSE [s \in Services |->
            CASE s \in {"redis", "postgres"} -> <<>>
              [] s = "migrator" -> [postgres |-> {"healthy"}]
              [] s \in {"api", "worker"} -> [postgres |-> {"healthy"}, redis |-> started,
                                             migrator |-> {"completed"}]]

Start(s) ==
    /\ state[s] = "created"
    /\ \A d \in DOMAIN Condition[s] : state[d] \in Condition[s][d]
    /\ state' = [state EXCEPT ![s] = "running"]
    /\ UNCHANGED schema

\* The healthcheck of postgres; managed hosting provides it in production.
Healthy ==
    /\ "postgres" \in Services /\ state["postgres"] = "running"
    /\ state' = [state EXCEPT !["postgres"] = "healthy"]
    /\ UNCHANGED schema

-----------------------------------------------------------------------------
(* alembic upgrade head.                                                   *)

\* The database URLs that Settings has; other names raise AttributeError.
SettingsAttributes == {"DATABASE_URL", "async_database_url", "sync_database_url"}

\* What env.py takes for sqlalchemy.url.
EnvAttribute == "DATABASE_URL_SYNC"

\* The service whose command runs alembic.
Migrating == IF Topology = "local" THEN "migrator" ELSE "api"

\* In production, "alembic upgrade head && uvicorn ...".
Upgrade ==
    /\ state[Migrating] = "running" /\ ~schema
    /\ EnvAttribute \in SettingsAttributes
    /\ schema' = TRUE
    /\ state' = IF Topology = "local" THEN [state EXCEPT ![Migrating] = "completed"]
                ELSE [state EXCEPT ![Migrating] = "healthy"]

\* The exception ends the container; the migrator has no restart policy.
UpgradeFails ==
    /\ state[Migrating] = "running" /\ ~schema
    /\ EnvAttribute \notin SettingsAttributes
    /\ state' = [state EXCEPT ![Migrating] = "failed"]
    /\ UNCHANGED schema

\* restart: unless-stopped.
Restart(s) ==
    /\ s # "migrator" /\ state[s] = "failed"
    /\ state' = [state EXCEPT ![s] = "running"]
    /\ UNCHANGED schema

Init ==
    /\ state = [s \in Services |-> "created"]
    /\ schema = FALSE

Next ==
    \/ \E s \in Services : Start(s) \/ Restart(s)
    \/ Healthy \/ Upgrade \/ UpgradeFails

(* Compose starts what it may, and what runs gets on.                      *)
FairSpec == Init /\ [][Next]_vars /\ WF_vars(Next)

-----------------------------------------------------------------------------

Serving(s) == IF Topology = "production" /\ s = "api" THEN state[s] = "healthy"
              ELSE IF s = "migrator" THEN state[s] = "completed"
              ELSE state[s] \in started

(***************************************************************************)
(* README.md:102, of "docker compose up --build": "This starts the API,    *)
(* Celery worker, PostgreSQL, Redis, and the Alembic migrator."            *)
(***************************************************************************)
StackStarts == <>(\A s \in Services : Serving(s))
=============================================================================
