------------------------------- MODULE Bootstrap -------------------------------
(***************************************************************************)
(* Bringing the agent up: several processes open one database file and     *)
(* each creates the tables and migrates the schema, every DDL statement    *)
(* committing by itself, while any of them may be killed; and the setup    *)
(* wizard, which lives in the MCP server's memory, collects the operator's *)
(* answers.                                                                *)
(***************************************************************************)
EXTENDS Naturals, FiniteSets

CONSTANTS
    Openers,        \* processes that open the database
    Columns,        \* the columns version 2 adds to deals
    MaxKills,       \* bound: processes killed
    WizardSteps,    \* steps of the setup wizard
    DeveloperSteps, \* those of its developer phase
    DetectedSteps,  \* those whose settings are configured
    LaunchStep,     \* step 8, Review & Launch
    NoStep,         \* a number that is no step's
    MaxAnswers      \* bound: wizard calls

ASSUME BootstrapAssumption ==
    /\ DetectedSteps \subseteq DeveloperSteps /\ DeveloperSteps \subseteq WizardSteps
    /\ LaunchStep \in WizardSteps \ DeveloperSteps /\ NoStep \notin WizardSteps
    /\ MaxKills \in Nat /\ MaxAnswers \in Nat

VARIABLES
    columns,    \* the version 2 columns deals has; "none" before there is a table
    tables,     \* the groups of tables with their indexes
    versions,   \* rows of schema_version
    opener,     \* where each process is in initialize_schema
    wizard,     \* the wizard of the MCP server: the status of each step
    answers,    \* wizard calls
    kills       \* processes killed

bootVars   == <<columns, tables, versions, opener, wizard, answers, kills>>
schemaVars == <<columns, tables, versions, opener>>

SCHEMA_VERSION == 6
\* The groups of tables that create_tables creates; all but the first belong to the
\* migration to a version, which creates them too.
TableGroups == {"core", "library", "campaigns", "templates", "keys"}

Opening == [at |-> "start", from |-> 0, seen |-> {}]
\* _build_steps.
BuildSteps == [s \in WizardSteps |-> "not_started"]

\* A new file, or the database of a release at version 1 (the first ones kept no
\* version), 2 or 5.
BootInit ==
    /\ \/ columns = {"none"} /\ tables = {} /\ versions = {}
       \/ columns = {} /\ tables = {"core"} /\ versions \in {{}, {1}}
       \/ columns = Columns /\ tables = {"core", "library"} /\ versions = {2}
       \/ columns = Columns /\ tables = TableGroups \ {"keys"} /\ versions = {5}
    /\ opener = [p \in Openers |-> Opening]
    /\ wizard = BuildSteps /\ answers = 0 /\ kills = 0

--------------------------------------------------------------------------------
(* Opening the database.                                                   *)

GoTo(p, at) == opener' = [opener EXCEPT ![p].at = at]

\* create_tables: CREATE TABLE IF NOT EXISTS one by one; a fresh deals table has the
\* version 2 columns.
CreateTables(p) ==
    /\ opener[p].at = "start" /\ UNCHANGED <<versions, wizard, answers, kills>>
    /\ \/ /\ "core" \notin tables
          /\ columns' = Columns /\ tables' = tables \cup {"core"} /\ UNCHANGED opener
       \/ /\ "core" \in tables /\ UNCHANGED <<columns, opener>>
          /\ \E g \in TableGroups \ tables : tables' = tables \cup {g}
       \/ /\ TableGroups \subseteq tables
          /\ GoTo(p, "read") /\ UNCHANGED <<columns, tables>>

\* get_schema_version: MAX(version), 0 without a row.
SchemaVersion == IF versions = {} THEN 0 ELSE CHOOSE v \in versions : \A w \in versions : w <= v

\* run_migrations: the version decides which of the migrations run, once and for all.
RunMigrations(p) ==
    /\ opener[p].at = "read"
    /\ opener' = [opener EXCEPT ![p] =
          [at |-> IF SchemaVersion >= SCHEMA_VERSION THEN "open"
                  ELSE IF SchemaVersion < 2 THEN "inspect" ELSE "v4",
           from |-> SchemaVersion, seen |-> {}]]
    /\ UNCHANGED <<columns, tables, versions, wizard, answers, kills>>

\* migrate_v1_to_v2 asks for the columns of deals once.
InspectColumns(p) ==
    /\ opener[p].at = "inspect"
    /\ opener' = [opener EXCEPT ![p].at = "alter", ![p].seen = columns]
    /\ UNCHANGED <<columns, tables, versions, wizard, answers, kills>>

Lacking(p) == Columns \ opener[p].seen
\* ALTER TABLE ADD COLUMN fails on a column that another process added meanwhile.
AddColumn(p) ==
    /\ opener[p].at = "alter" /\ UNCHANGED <<tables, versions, wizard, answers, kills>>
    /\ \E c \in Lacking(p) :
          \/ c \in columns /\ GoTo(p, "failed") /\ UNCHANGED columns
          \/ /\ c \notin columns /\ columns' = columns \cup {c}
             /\ opener' = [opener EXCEPT ![p].seen = @ \cup {c}]

Creates(p, group, next) ==
    /\ tables' = tables \cup {group} /\ GoTo(p, next)
    /\ UNCHANGED <<columns, versions, wizard, answers, kills>>
\* The rest of migrate_v1_to_v2: its indexes and its tables.
MigrateV1ToV2(p) ==
    opener[p].at = "alter" /\ Lacking(p) = {} /\ Creates(p, "library", "v4")
\* There is no migration to version 3.
Skips(p, version) == opener[p].from >= version
MigrateV2ToV4(p) ==
    opener[p].at = "v4" /\ IF Skips(p, 4) THEN GoTo(p, "v5")
                              /\ UNCHANGED <<columns, tables, versions, wizard, answers, kills>>
                           ELSE Creates(p, "campaigns", "v5")
MigrateV4ToV5(p) ==
    opener[p].at = "v5" /\ IF Skips(p, 5) THEN GoTo(p, "v6")
                              /\ UNCHANGED <<columns, tables, versions, wizard, answers, kills>>
                           ELSE Creates(p, "templates", "v6")
MigrateV5ToV6(p) == opener[p].at = "v6" /\ Creates(p, "keys", "record")

\* The version recorded as soon as it is known that a migration is needed (a mutant).
RecordVersionFirst(p) ==
    /\ opener[p].at \in {"inspect", "record"}
    /\ versions' = versions \cup {SCHEMA_VERSION}
    /\ GoTo(p, IF opener[p].at = "record" THEN "open" ELSE "alter")
    /\ UNCHANGED <<columns, tables, wizard, answers, kills>>
\* set_schema_version, after every migration.
SetSchemaVersion(p) ==
    /\ opener[p].at = "record"
    /\ versions' = versions \cup {SCHEMA_VERSION} /\ GoTo(p, "open")
    /\ UNCHANGED <<columns, tables, wizard, answers, kills>>

\* A process dies, or sees "database is locked", and is started again.
Killed(p) ==
    /\ opener[p].at # "start" /\ kills < MaxKills /\ kills' = kills + 1
    /\ opener' = [opener EXCEPT ![p] = Opening]
    /\ UNCHANGED <<columns, tables, versions, wizard, answers>>

OpenDatabase(p) ==
    \/ CreateTables(p) \/ RunMigrations(p) \/ InspectColumns(p) \/ AddColumn(p)
    \/ MigrateV1ToV2(p) \/ MigrateV2ToV4(p) \/ MigrateV4ToV5(p) \/ MigrateV5ToV6(p)
    \/ SetSchemaVersion(p) \/ Killed(p)

--------------------------------------------------------------------------------
(* The setup wizard.                                                       *)

Answering == answers < MaxAnswers /\ answers' = answers + 1 /\ UNCHANGED <<schemaVars, kills>>

\* get_step raises for a number that is no step's, and so do the calls that use it.
GetStep(s) == s \in WizardSteps

CompleteWizardStep(s) ==
    /\ Answering /\ wizard' = IF GetStep(s) THEN [wizard EXCEPT ![s] = "completed"] ELSE wizard

\* Mutant: the launch can be skipped too.
SkipAnyStep(s) ==
    /\ Answering
    /\ wizard' = IF GetStep(s) THEN [wizard EXCEPT ![s] = "skipped"] ELSE wizard
\* skip_step: the launch cannot be skipped.
SkipWizardStep(s) ==
    /\ Answering
    /\ wizard' = IF GetStep(s) /\ s # LaunchStep THEN [wizard EXCEPT ![s] = "skipped"] ELSE wizard

\* Mutant: what the settings say replaces what the operator said.
DetectableAgain == DetectedSteps
\* auto_detect.
Detectable == {s \in DetectedSteps : wizard[s] = "not_started"}

RunSetupWizard ==
    /\ Answering
    /\ wizard' = [s \in WizardSteps |-> IF s \in Detectable THEN "auto_detected" ELSE wizard[s]]

\* The server restarts: its wizard has no state file.
RestartServer ==
    /\ kills < MaxKills /\ kills' = kills + 1
    /\ wizard' = BuildSteps /\ UNCHANGED <<schemaVars, answers>>

UseWizard ==
    \/ \E s \in WizardSteps \cup {NoStep} : CompleteWizardStep(s) \/ SkipWizardStep(s)
    \/ RunSetupWizard \/ RestartServer

BootNext == UseWizard \/ \E p \in Openers : OpenDatabase(p)

BootSpec == BootInit /\ [][BootNext]_bootVars

--------------------------------------------------------------------------------
(* Properties.                                                             *)

\* What run_wizard and get_wizard_step show.
DoneSteps    == {s \in WizardSteps : wizard[s] # "not_started"}
CurrentPhase == IF DeveloperSteps \subseteq DoneSteps THEN "business" ELSE "developer"

WizardStatuses == {"not_started", "completed", "skipped", "auto_detected"}

\* Type invariant of the start.
BootTypeOK ==
    /\ columns = {"none"} \/ columns \subseteq Columns
    /\ tables \subseteq TableGroups /\ versions \subseteq 0 .. SCHEMA_VERSION
    /\ opener \in [Openers ->
          [at : {"start", "read", "inspect", "alter", "v4", "v5", "v6", "record", "open", "failed"},
           from : 0 .. SCHEMA_VERSION, seen : SUBSET Columns]]
    /\ wizard \in [WizardSteps -> WizardStatuses]
    /\ wizard[LaunchStep] \in {"not_started", "completed"}
    /\ answers \in 0 .. MaxAnswers /\ kills \in 0 .. MaxKills

\* However many processes upgrade the file at once and wherever they are killed, a file
\* that says it is at the current version is complete, and so is the schema under a
\* process that is past initialize_schema.
OpenedIsComplete ==
    SCHEMA_VERSION \in versions \/ (\E p \in Openers : opener[p].at = "open") =>
        columns = Columns /\ tables = TableGroups

\* While the server runs, what the operator answered is never replaced by what the
\* settings suggest, and the wizard does not go back: neither in progress nor in phase.
AnswersStand ==
    [][kills' = kills =>
         /\ \A s \in WizardSteps :
              wizard[s] \in {"completed", "skipped"} => wizard'[s] # "auto_detected"
         /\ DoneSteps \subseteq DoneSteps'
         /\ CurrentPhase = "business" => CurrentPhase' = "business"]_bootVars

\* The docstring of migrate_v1_to_v2: it is idempotent, and re-running it on a database
\* that is already at version 2 is safe.
NoOpenerFails == \A p \in Openers : opener[p].at # "failed"
================================================================================
