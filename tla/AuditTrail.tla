------------------------------- MODULE AuditTrail -------------------------------
(***************************************************************************)
(* Two records of what the buyer did: the event bus, behind which a file   *)
(* takes the audit events that the bus would not take, and the audience    *)
(* audit log, one database connection that the threads of a process share. *)
(*                                                                         *)
(* Abstractions.  Each emitter emits one event and each logger logs one.   *)
(* The bus may be any implementation of EventBus, so publishing may fail.  *)
(* Payloads are left out.                                                  *)
(***************************************************************************)
EXTENDS Integers, Sequences, SequencesExt

CONSTANTS
    Emitters,       \* the events emitted, each by a caller of its own
    Audited,        \* those of an audited type (AUDIT_EVENT_TYPES)
    Watchers,       \* callbacks subscribed to every event
    Loggers,        \* threads that log an event of an audience plan
    Limit,          \* how many events a listing shows
    Configurations  \* bound: how often configure names another database

ASSUME AuditAssumption == Configurations \in Nat /\ Limit \in Nat \ {0} /\ Audited \subseteq Emitters

\* How an event is emitted: by await emit_event, by emit_event_sync inside a running
\* loop, which only schedules the publication, or by emit_event_sync elsewhere.
Ways == {"awaited", "scheduled", "alone"}

VARIABLES
    emit,       \* each event: how far it is and how it was emitted
    onBus,      \* InMemoryEventBus._events
    heard,      \* which events each subscriber was called with
    fallback,   \* the fallback file's records
    database,   \* the database that the log's connection is open on, NoConnection
                \* when there is none
    wanted,     \* _database_url
    logger,     \* each logger: where it is and the connection it took
    logged      \* events in each database's audience_audit_log

auditVars == <<emit, onBus, heard, fallback, database, wanted, logger, logged>>
busVars   == <<emit, onBus, heard, fallback>>
logVars   == <<database, wanted, logger, logged>>

NoConnection == -1
Databases == 0 .. Configurations
NewEvent  == [pc |-> "new", way |-> "awaited"]

AuditInit ==
    /\ emit = [e \in Emitters |-> NewEvent] /\ onBus = <<>> /\ fallback = {}
    /\ heard = [s \in Watchers |-> {}]
    /\ database = NoConnection /\ wanted = 0
    /\ logger = [l \in Loggers |-> [pc |-> "new", has |-> NoConnection]]
    /\ logged = [d \in Databases |-> {}]

--------------------------------------------------------------------------------
(* The event bus.                                                          *)

Comes(e, pc) == emit' = [emit EXCEPT ![e].pc = pc]

\* emit_event publishes and waits.
EmitEvent(e) ==
    /\ emit[e].pc = "new"
    /\ emit' = [emit EXCEPT ![e] = [way |-> "awaited", pc |-> "publishing"]]
    /\ UNCHANGED <<onBus, heard, fallback, logVars>>

\* emit_event_sync inside a loop that runs schedules the publication and returns.
EmitEventSync(e) ==
    /\ emit[e].pc = "new"
    /\ emit' = [emit EXCEPT ![e] = [way |-> "scheduled", pc |-> "returned"]]
              \/ emit' = [emit EXCEPT ![e] = [way |-> "alone", pc |-> "publishing"]]
    /\ UNCHANGED <<onBus, heard, fallback, logVars>>

\* InMemoryEventBus.publish: the event is kept, and then every subscriber is called,
\* whatever the others raise.  A scheduled publication ends after its caller returned.
Publish(e) ==
    /\ emit[e].pc \in {"publishing", "returned", "again"}
    /\ Comes(e, "kept")
    /\ onBus' = Append(onBus, e)
    /\ heard' = [s \in Watchers |-> heard[s] \cup {e}]
    /\ UNCHANGED <<fallback, logVars>>

\* A publication without a running loop that fails with a RuntimeError, which an
\* asyncio without a loop would raise as well, is tried again on a loop of its own; the
\* bus may have kept the event.
PublishAgain(e) ==
    /\ emit[e].pc = "publishing" /\ emit[e].way = "alone"
    /\ Comes(e, "again")
    /\ onBus' \in {onBus, Append(onBus, e)}
    /\ UNCHANGED <<heard, fallback, logVars>>

\* write_audit_fallback: the record is appended and forced to the disk, or this fails.
WriteAuditFallback(e, written) == fallback' = IF written THEN fallback \cup {e} ELSE fallback

\* _audit_publish_done, the callback of a scheduled publication of an audited event.
\* Mutant: the scheduled publication has no callback.
NoCallback(e, written) == "dropped"
AuditPublishDone(e, written) ==
    IF e \notin Audited THEN "dropped" ELSE IF written THEN "saved" ELSE "lost"

\* _handle_emit_failure: an audited event goes to the file; if that fails too the
\* failure is raised to the caller.
HandleEmitFailure(e, written) ==
    IF e \notin Audited THEN "dropped" ELSE IF written THEN "saved" ELSE "raised"

PublishFails(e) ==
    /\ emit[e].pc \in {"publishing", "returned", "again"}
    /\ \E written \in BOOLEAN :
         LET outcome == IF emit[e].way = "scheduled" THEN AuditPublishDone(e, written)
                        ELSE HandleEmitFailure(e, written)
         IN  Comes(e, outcome) /\ WriteAuditFallback(e, outcome = "saved")
    /\ UNCHANGED <<onBus, heard, logVars>>

\* get_event finds an event, list_events the last ones.
GetEvent(e) == e \in ToSet(onBus)
ListEvents == IF Len(onBus) <= Limit THEN onBus
              ELSE SubSeq(onBus, Len(onBus) - Limit + 1, Len(onBus))

\* The process ends and another begins: the bus (get_event_bus_sync) is in memory, and a
\* scheduled publication is never run.  The file stays.
BusRestart ==
    /\ emit' = [e \in Emitters |->
                  IF emit[e].pc \in {"publishing", "returned", "again", "kept"}
                  THEN [emit[e] EXCEPT !.pc = "interrupted"] ELSE emit[e]]
    /\ emit' # emit /\ onBus' = <<>>
    /\ UNCHANGED <<heard, fallback, logVars>>

--------------------------------------------------------------------------------
(* The audience audit log.                                                 *)

\* configure: the next call opens the new database.
Configure ==
    /\ wanted < Configurations
    /\ wanted' = wanted + 1 /\ database' = NoConnection
    /\ UNCHANGED <<logger, logged, busVars>>

\* log_event ignores an event without a plan or of an unknown type.
IgnoreEvent(l) ==
    /\ logger[l].pc = "new"
    /\ logger' = [logger EXCEPT ![l].pc = "ignored"]
    /\ UNCHANGED <<database, wanted, logged, busVars>>

\* _get_conn: the connection that is open, or one opened under the lock.
GetConn(l) ==
    /\ logger[l].pc = "new"
    /\ database' = IF database = NoConnection THEN wanted ELSE database
    /\ logger' = [logger EXCEPT ![l] = [pc |-> "writing", has |-> database']]
    /\ UNCHANGED <<wanted, logged, busVars>>

\* The insert, under the lock.  The connection may have been closed since it was taken;
\* that, like any other database error, is only logged.
\* Mutant: the row goes wherever the log now points.
InsertAnywhere(l) ==
    /\ logger[l].pc = "writing"
    /\ logger' = [logger EXCEPT ![l].pc = "written"]
    /\ logged' = [logged EXCEPT ![wanted] = @ \cup {l}]
    /\ UNCHANGED <<database, wanted, busVars>>
Insert(l) ==
    /\ logger[l].pc = "writing"
    /\ \/ /\ logger[l].has = database
          /\ logger' = [logger EXCEPT ![l].pc = "written"]
          /\ logged' = [logged EXCEPT ![database] = @ \cup {l}]
       \/ logger' = [logger EXCEPT ![l].pc = "failed"] /\ UNCHANGED logged
    /\ UNCHANGED <<database, wanted, busVars>>

\* get_events: what was written to the database that the log is open on, or nothing
\* when the connection was closed in the meantime.
GetEvents(has) == IF has = database /\ has # NoConnection THEN logged[has] ELSE {}

AuditNext ==
    \/ BusRestart \/ Configure
    \/ \E e \in Emitters : \/ EmitEvent(e) \/ EmitEventSync(e) \/ Publish(e)
                          \/ PublishAgain(e) \/ PublishFails(e)
    \/ \E l \in Loggers : IgnoreEvent(l) \/ GetConn(l) \/ Insert(l)

AuditSpec == AuditInit /\ [][AuditNext]_auditVars

--------------------------------------------------------------------------------
(* Properties.                                                             *)

\* Type invariant of the two records.
AuditTypeOK ==
    /\ emit \in [Emitters -> [pc : {"new", "publishing", "again", "returned", "kept", "saved",
                                   "raised", "lost", "dropped", "interrupted"},
                              way : Ways]]
    /\ ToSet(onBus) \subseteq Emitters /\ fallback \subseteq Emitters
    /\ heard \in [Watchers -> SUBSET Emitters]
    /\ wanted \in Databases /\ database \in {NoConnection, wanted}
    /\ logger \in [Loggers -> [pc : {"new", "ignored", "writing", "written", "failed"},
                               has : Databases \cup {NoConnection}]]
    /\ logged \in [Databases -> SUBSET Loggers]

\* An audited event, once its emission is over in a process that goes on, can be found:
\* on the bus, where every subscriber was called with it, or in the file, or the caller
\* was told.  Only a publication that was scheduled, and whose fallback failed as well,
\* leaves no trace.  A row of the audience log is in the database of the connection it
\* was written with, and the newest event is always listed.
AuditedIsFound ==
    /\ \A e \in Audited :
         emit[e].pc \notin {"new", "publishing", "again", "returned", "interrupted"} =>
             \/ GetEvent(e) /\ \A s \in Watchers : e \in heard[s]
             \/ e \in fallback \/ emit[e].pc = "raised"
             \/ emit[e].pc = "lost" /\ emit[e].way = "scheduled"
    /\ onBus # <<>> => Last(onBus) \in ToSet(ListEvents)
    /\ \A l \in Loggers, d \in Databases :
         /\ l \in logged[d] <=> logger[l].pc = "written" /\ logger[l].has = d
         /\ d = database /\ logger[l] = [pc |-> "written", has |-> d] => l \in GetEvents(d)
================================================================================
