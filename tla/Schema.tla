-------------------------------- MODULE Schema --------------------------------
(***************************************************************************)
(* The schema of state.db (state.rs): each migration is one transaction    *)
(* that runs a script and bumps user_version; the orchestrator applies the *)
(* missing ones at start, the vetinari command refuses any other version.  *)
(***************************************************************************)
EXTENDS Integers, Sequences

VARIABLE db    \* [version |-> user_version, has |-> the tables and columns there]

\* MIGRATION_V1 to V3: the tables and columns each script adds.
Migrations == << {"issues", "posted_artifacts", "active_workers", "events"},
                 {"issues.answer_attempts"},
                 {"issues.landing_change"} >>

SCHEMA_VERSION == Len(Migrations)

\* What a database at version v has; a newer build's has columns of its own.
Columns(v) ==
    UNION {Migrations[k] : k \in 1..(IF v > SCHEMA_VERSION THEN SCHEMA_VERSION ELSE v)}
    \cup (IF v > SCHEMA_VERSION THEN {"issues.later"} ELSE {})

\* What the queries of this build name.
Queried == Columns(SCHEMA_VERSION)

\* No database yet, one of an older build, of this one, or of a newer one.
SchemaInit == \E v \in 0..(SCHEMA_VERSION + 1) : db = [version |-> v, has |-> Columns(v)]

\* migrate: too new is refused; the scripts above the version read once, in order.
Refused == db.version > SCHEMA_VERSION
Pending == [k \in 1..(SCHEMA_VERSION - db.version) |-> db.version + k]

\* apply_migration: the script and the version, in one transaction.
apply_migration(version) ==
    db' = [version |-> version, has |-> db.has \cup Migrations[version]]

\* open_read_only: never created, never migrated.
verify_schema_version == db.version = SCHEMA_VERSION
===============================================================================
