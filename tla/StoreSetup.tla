----------------------------- MODULE StoreSetup ------------------------------
(***************************************************************************)
(* SQLiteAuditStore.initialize (persistence.py): every "fwo run" begins by *)
(* creating the schema, so several processes may do so at once on one      *)
(* database file, and any of them may die or be refused the lock half way. *)
(* sqlite3 opens a transaction before an INSERT and not before a CREATE    *)
(* TABLE or a SELECT: each statement below commits on its own.             *)
(*                                                                         *)
(* A process may be of another release, which is taken to run the same     *)
(* statements with a version of its own.                                   *)
(***************************************************************************)
EXTENDS Integers, Sequences

CONSTANTS Procs,            \* processes that initialise the store
          ForeignVersion    \* the schema version of some other release

SchemaVersion == 1

ASSUME SetupAssumption == ForeignVersion \in Nat \ {SchemaVersion}

Releases == {SchemaVersion, ForeignVersion}

VARIABLES tables,     \* the tables that exist
          versions,   \* the rows of schema_version
          release,    \* release[p]: the SCHEMA_VERSION of process p
          at          \* at[p]: where process p stands

setupVars == <<tables, versions, release, at>>

DataTables == {"executions", "step_attempts", "notifications"}
Tables     == DataTables \union {"schema_version"}

Locations == {"create_version_table", "select_version", "create_executions",
              "create_step_attempts", "create_notifications",
              "insert_version", "ready", "unsupported", "gone"}

(* A new file, what an initialisation that died may have left of one, or   *)
(* the database of either release.                                         *)
InitialFile ==
  \/ versions = <<>> /\ tables \in
       { {}, {"schema_version"}, {"schema_version", "executions"},
         {"schema_version", "executions", "step_attempts"}, Tables }
  \/ \E v \in Releases : versions = <<v>> /\ tables = Tables

SetupInit ==
  /\ InitialFile
  /\ release \in [Procs -> Releases]
  /\ at = [p \in Procs |-> "create_version_table"]

Goto(p, from, to) ==
  at[p] = from /\ at' = [at EXCEPT ![p] = to] /\ UNCHANGED release

VersionSet == {versions[i] : i \in DOMAIN versions}

(* CREATE TABLE IF NOT EXISTS                                              *)
CreateTable(p, t, from, to) ==
  /\ Goto(p, from, to)
  /\ tables' = tables \union {t}
  /\ UNCHANGED versions

CreateVersionTable(p) ==
  CreateTable(p, "schema_version", "create_version_table", "select_version")

(* A slip: the tables are created unless the version is the expected one.  *)
SelectOtherVersion(p) ==
  /\ Goto(p, "select_version",
          IF release[p] \in VersionSet THEN "ready" ELSE "create_executions")
  /\ UNCHANGED <<tables, versions>>

(* LIMIT 1 returns any row; a foreign one is refused.                      *)
SelectVersion(p) ==
  /\ IF versions = <<>> THEN Goto(p, "select_version", "create_executions")
     ELSE \E i \in DOMAIN versions :
            Goto(p, "select_version",
                 IF versions[i] = release[p] THEN "ready" ELSE "unsupported")
  /\ UNCHANGED <<tables, versions>>

(* A slip: the version is written before the tables.                       *)
InsertVersionFirst(p) ==
  /\ Goto(p, "create_executions", "create_step_attempts")
  /\ tables' = tables \union {"executions"}
  /\ versions' = Append(versions, release[p])

CreateExecutions(p) ==
  CreateTable(p, "executions", "create_executions", "create_step_attempts")
CreateStepAttempts(p) ==
  CreateTable(p, "step_attempts", "create_step_attempts", "create_notifications")
CreateNotifications(p) ==
  CreateTable(p, "notifications", "create_notifications", "insert_version")

(* A slip: a version that cannot be written is no error.                   *)
TryInsertVersion(p) ==
  /\ Goto(p, "insert_version", "ready")
  /\ versions' \in {versions, Append(versions, release[p])}
  /\ UNCHANGED tables

(* INSERT and the commit at the end of the with block                      *)
InsertVersion(p) ==
  /\ Goto(p, "insert_version", "ready")
  /\ versions' = Append(versions, release[p])
  /\ UNCHANGED tables

(* A crash, or "database is locked" out of any statement.                  *)
Abandon(p) ==
  /\ at[p] \notin {"ready", "unsupported", "gone"}
  /\ at' = [at EXCEPT ![p] = "gone"]
  /\ UNCHANGED <<tables, versions, release>>

SetupStep(p) ==
  \/ CreateVersionTable(p) \/ SelectVersion(p)
  \/ CreateExecutions(p) \/ CreateStepAttempts(p) \/ CreateNotifications(p)
  \/ InsertVersion(p)

Finished == /\ \A p \in Procs : at[p] \in {"ready", "unsupported", "gone"}
            /\ UNCHANGED setupVars

SetupNext == (\E p \in Procs : SetupStep(p) \/ Abandon(p)) \/ Finished

SetupSpec == SetupInit /\ [][SetupNext]_setupVars

----------------------------------------------------------------------------
(* Types of the setup's state.                                             *)
SetupTypeOK ==
  /\ tables \subseteq Tables
  /\ versions \in Seq(Releases)
  /\ release \in [Procs -> Releases]
  /\ at \in [Procs -> Locations]

(* Whoever comes out of initialize finds every table its run will write    *)
(* to and the version of its own release, although others, of whatever     *)
(* release, may still be creating them or have died while they did: the    *)
(* version row is written last (persistence.py:341-346).                   *)
ReadyMeansUsable ==
  \A p \in Procs : at[p] = "ready" => tables = Tables /\ release[p] \in VersionSet

(* Processes of one release never mix versions in a file: the database of  *)
(* another release is left as it was, and a new one gets only theirs.      *)
(* Nothing says so of two releases that initialise one file at once: the   *)
(* version is looked for and inserted by two statements (persistence.py:   *)
(* 341-347), so each may find none and insert its own.                     *)
OneVersionOnly ==
  (\A p, q \in Procs : release[p] = release[q]) =>
     \A i, j \in DOMAIN versions : versions[i] = versions[j]

(* docs/audit-model.md: schema_version holds "version (integer,            *)
(* single-row)".                                                           *)
SingleVersionRow == Len(versions) <= 1
=============================================================================
