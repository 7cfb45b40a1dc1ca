---------------------------- MODULE FencePostgres ----------------------------
(***************************************************************************)
(* The source-admission fence of pg-fc: how one database on one PostgreSQL *)
(* guest is closed to its tenant, drained, and given a fixed WAL barrier,  *)
(* and how it is reopened.  Code: fence_locked, fence_selective,           *)
(* fence_postgres, fence_postgres_selective and unfence in                 *)
(* pg-fc/src/replication/orchestrate.rs, with the durable fence record of  *)
(* pg-fc/src/replication/store.rs.                                         *)
(*                                                                         *)
(* The controller runs one operation at a time (the per-database           *)
(* replication_operation mutex), but every statement it sends to the guest *)
(* interleaves with tenant sessions, and both the controller process and   *)
(* PostgreSQL may crash between any two statements.                        *)
(*                                                                         *)
(* Abstractions.  An LSN is the number of tenant WAL records before it:    *)
(* the controller's own records carry no tenant data and are not counted.  *)
(* Tenant commits are asynchronous (the guest runs synchronous_commit=off) *)
(* until something flushes the WAL.  The identity checks on the bound VM   *)
(* and the roles are constant here: a fenced VM is pinned, so its binding  *)
(* does not move.                                                          *)
(***************************************************************************)
EXTENDS Naturals

CONSTANTS
    Clients,        \* tenant connections; each may connect again after leaving
    MaxLsn          \* bound on the tenant WAL records written

ASSUME MaxLsnAssumption == MaxLsn \in Nat

VARIABLES
    \* The durable fence record (ReplRecord.fence).
    fence,          \* its phase, NoFence when there is no record
    mode,           \* Fence.mode, kept by set_fence while a record exists
    barrier,        \* Fence.barrier_lsn, 0 when empty
    \* PostgreSQL.
    allow,          \* pg_database.datallowconn
    login,          \* the tenant owner may LOGIN and CONNECT
    sess,           \* where each tenant connection is
    prepared,       \* clients that left a prepared transaction behind
    insert,         \* pg_current_wal_insert_lsn()
    flushed,        \* pg_current_wal_flush_lsn()
    commits,        \* LSNs of the tenant commits in the WAL
    \* The operation that holds the controller's mutex.
    pc,             \* its next statement, "idle" when none runs
    run,            \* which operation it is
    captured        \* the barrier read, before it is durable

record == <<fence, mode, barrier>>
wal    == <<insert, flushed, commits>>
vars   == <<record, allow, login, sess, prepared, wal, pc, run, captured>>

NoFence == "none"

FencePhases == {"none", "intent", "closing_admission", "draining_startups",
                "draining", "barrier", "ready", "unfencing", "error"}

Modes == {"hard", "selective"}

FenceSteps == {"closing", "altering", "altered", "startups", "prepared1",
               "terminate", "sessions", "prepared2", "capture", "checkpoint",
               "persist"}

UnfenceSteps == {"reopening", "clearing"}

\* out: not connected.  routed: the pooler checked the VM out for it, the
\* startup packet is not answered yet.  starting: PostgreSQL admitted it and it
\* holds the database-object lock, but pg_stat_activity does not attribute it.
\* attached: an ordinary backend.  terminating: signalled, not yet gone.
SessionStates == {"out", "routed", "starting", "attached", "terminating"}

\* datallowconn and the owner's LOGIN/CONNECT, as a starting backend checks them.
TenantAdmissible == allow /\ login

Init ==
    /\ fence = NoFence
    /\ mode = "hard"
    /\ barrier = 0
    /\ allow = TRUE
    /\ login = TRUE
    /\ sess = [c \in Clients |-> "out"]
    /\ prepared = {}
    /\ insert = 0
    /\ flushed = 0
    /\ commits = {}
    /\ pc = "idle"
    /\ run = "hard"
    /\ captured = 0

-----------------------------------------------------------------------------
(* Tenant sessions *)

\* The pooler refuses a tenant while the record holds any fence.
Route(c) ==
    /\ sess[c] = "out"
    /\ fence = NoFence
    /\ sess' = [sess EXCEPT ![c] = "routed"]
    /\ UNCHANGED <<record, allow, login, prepared, wal, pc, run, captured>>

\* PostgreSQL takes the database-object lock and then checks admission.  A
\* connection routed before the fence gets here at any later time.
StartBackend(c) ==
    /\ sess[c] = "routed"
    /\ sess' = [sess EXCEPT ![c] = IF TenantAdmissible THEN "starting" ELSE "out"]
    /\ UNCHANGED <<record, allow, login, prepared, wal, pc, run, captured>>

FinishStartup(c) ==
    /\ sess[c] = "starting"
    /\ sess' = [sess EXCEPT ![c] = "attached"]
    /\ UNCHANGED <<record, allow, login, prepared, wal, pc, run, captured>>

\* A signalled backend may still finish the commit it is in.
Commit(c) ==
    /\ sess[c] \in {"attached", "terminating"}
    /\ insert < MaxLsn
    /\ insert' = insert + 1
    /\ commits' = commits \cup {insert + 1}
    /\ UNCHANGED <<record, allow, login, sess, prepared, flushed, pc, run, captured>>

\* PREPARE TRANSACTION flushes its record; the transaction outlives the backend.
PrepareTransaction(c) ==
    /\ sess[c] \in {"attached", "terminating"}
    /\ c \notin prepared
    /\ insert < MaxLsn
    /\ insert' = insert + 1
    /\ flushed' = insert + 1
    /\ prepared' = prepared \cup {c}
    /\ UNCHANGED <<record, allow, login, sess, commits, pc, run, captured>>

\* Any attached session of the database may finish any prepared transaction.
CommitPrepared(c, p) ==
    /\ sess[c] \in {"attached", "terminating"}
    /\ p \in prepared
    /\ insert < MaxLsn
    /\ insert' = insert + 1
    /\ flushed' = insert + 1
    /\ commits' = commits \cup {insert + 1}
    /\ prepared' = prepared \ {p}
    /\ UNCHANGED <<record, allow, login, sess, pc, run, captured>>

Leave(c) ==
    /\ sess[c] \in {"routed", "starting", "attached", "terminating"}
    /\ sess' = [sess EXCEPT ![c] = "out"]
    /\ UNCHANGED <<record, allow, login, prepared, wal, pc, run, captured>>

-----------------------------------------------------------------------------
(* fence: the hard fence.  A ready record is returned as it is (no step). *)

\* As BeginFence, but a ready record is fenced again and its barrier recaptured.
BeginFenceMoving ==
    /\ pc = "idle"
    /\ fence' = "intent"
    /\ mode' = IF fence = NoFence THEN "hard" ELSE mode
    /\ barrier' = 0
    /\ run' = "hard"
    /\ pc' = "closing"
    /\ UNCHANGED <<allow, login, sess, prepared, wal, captured>>

\* set_fence keeps the mode of an existing record, also a selective one.
BeginFence ==
    /\ pc = "idle"
    /\ fence # "ready"
    /\ fence' = "intent"
    /\ mode' = IF fence = NoFence THEN "hard" ELSE mode
    /\ barrier' = 0
    /\ run' = "hard"
    /\ pc' = "closing"
    /\ UNCHANGED <<allow, login, sess, prepared, wal, captured>>

\* fence_selective: refused while a hard record exists, and it opens a session
\* in the database itself, which needs datallowconn.
BeginFenceSelective ==
    /\ pc = "idle"
    /\ allow
    /\ fence = NoFence \/ (mode = "selective" /\ fence # "ready")
    /\ fence' = "intent"
    /\ mode' = "selective"
    /\ barrier' = 0
    /\ run' = "selective"
    /\ pc' = "closing"
    /\ UNCHANGED <<allow, login, sess, prepared, wal, captured>>

CloseAdmission ==
    /\ pc = "closing"
    /\ fence' = "closing_admission"
    /\ pc' = "altering"
    /\ UNCHANGED <<mode, barrier, allow, login, sess, prepared, wal, run, captured>>

\* One transaction, committed with synchronous_commit = on.
AlterAdmission ==
    /\ pc = "altering"
    /\ allow' = (run = "selective")
    /\ login' = (login /\ run = "hard")
    /\ flushed' = insert
    /\ pc' = "altered"
    /\ UNCHANGED <<record, sess, prepared, insert, commits, run, captured>>

DrainStartups ==
    /\ pc = "altered"
    /\ fence' = "draining_startups"
    /\ pc' = "startups"
    /\ UNCHANGED <<mode, barrier, allow, login, sess, prepared, wal, run, captured>>

\* As StartupsDrained, without the wait for database-object lock holders.
StartupsNotAwaited ==
    /\ pc = "startups"
    /\ fence' = IF run = "hard" THEN "draining" ELSE fence
    /\ pc' = "prepared1"
    /\ UNCHANGED <<mode, barrier, allow, login, sess, prepared, wal, run, captured>>

StartupsDrained ==
    /\ pc = "startups"
    /\ \A c \in Clients : sess[c] # "starting"
    /\ fence' = IF run = "hard" THEN "draining" ELSE fence
    /\ pc' = "prepared1"
    /\ UNCHANGED <<mode, barrier, allow, login, sess, prepared, wal, run, captured>>

NoPreparedBeforeDrain ==
    /\ pc = "prepared1"
    /\ prepared = {}
    /\ pc' = "terminate"
    /\ UNCHANGED <<record, allow, login, sess, prepared, wal, run, captured>>

\* pg_terminate_backend only signals.
TerminateSessions ==
    /\ pc = "terminate"
    /\ sess' = [c \in Clients |->
                   IF sess[c] = "attached" THEN "terminating" ELSE sess[c]]
    /\ pc' = "sessions"
    /\ UNCHANGED <<record, allow, login, prepared, wal, run, captured>>

SessionsDrained ==
    /\ pc = "sessions"
    /\ \A c \in Clients : sess[c] \notin {"attached", "terminating"}
    /\ pc' = "prepared2"
    /\ UNCHANGED <<record, allow, login, sess, prepared, wal, run, captured>>

\* As NoPreparedAfterDrain, without asking for prepared transactions again.
PreparedNotRechecked ==
    /\ pc = "prepared2"
    /\ fence' = "barrier"
    /\ pc' = "capture"
    /\ UNCHANGED <<mode, barrier, allow, login, sess, prepared, wal, run, captured>>

\* A transaction may have been prepared between the first check and the exit.
NoPreparedAfterDrain ==
    /\ pc = "prepared2"
    /\ prepared = {}
    /\ fence' = "barrier"
    /\ pc' = "capture"
    /\ UNCHANGED <<mode, barrier, allow, login, sess, prepared, wal, run, captured>>

CaptureBarrier ==
    /\ pc = "capture"
    /\ captured' = insert
    /\ pc' = "checkpoint"
    /\ UNCHANGED <<record, allow, login, sess, prepared, wal, run>>

Checkpoint ==
    /\ pc = "checkpoint"
    /\ flushed' = insert
    /\ pc' = "persist"
    /\ UNCHANGED <<record, allow, login, sess, prepared, insert, commits, run, captured>>

PersistReady ==
    /\ pc = "persist"
    /\ captured <= flushed
    /\ fence' = "ready"
    /\ barrier' = captured
    /\ pc' = "idle"
    /\ UNCHANGED <<mode, allow, login, sess, prepared, wal, run, captured>>

\* As RecordError, with set_fence's phase and message exchanged.
RecordErrorSwapped ==
    /\ pc' = "idle"
    /\ fence' = IF pc \in FenceSteps THEN "fence retained" ELSE fence
    /\ UNCHANGED <<mode, barrier>>

\* What an operation that ends in an error leaves in the record: a fence keeps
\* the database fenced in phase "error", an unfence leaves "unfencing".
RecordError ==
    /\ pc' = "idle"
    /\ fence' = IF pc \in FenceSteps THEN "error" ELSE fence
    /\ UNCHANGED <<mode, barrier>>

\* As FenceRefused, without the deadlines on the two waits.
FenceRefusedWithoutDeadline ==
    /\ pc \in {"prepared1", "prepared2"}
    /\ prepared # {}
    /\ RecordError
    /\ UNCHANGED <<allow, login, sess, prepared, wal, run, captured>>

\* The refusals of the protocol itself: a drain past its 30 s deadline and a
\* prepared transaction.
FenceRefused ==
    /\ \/ pc = "startups" /\ \E c \in Clients : sess[c] = "starting"
       \/ pc = "sessions" /\ \E c \in Clients : sess[c] \in {"attached", "terminating"}
       \/ pc \in {"prepared1", "prepared2"} /\ prepared # {}
    /\ RecordError
    /\ UNCHANGED <<allow, login, sess, prepared, wal, run, captured>>

\* A statement or a journal write fails (I/O, an unexpected worker, roles).
OperationFails ==
    /\ pc # "idle"
    /\ RecordError
    /\ UNCHANGED <<allow, login, sess, prepared, wal, run, captured>>

-----------------------------------------------------------------------------
(* unfence *)

\* As BeginUnfence, but the ready barrier is not invalidated first.
BeginUnfenceKeepingBarrier ==
    /\ pc = "idle"
    /\ fence # NoFence
    /\ run' = "unfence"
    /\ pc' = "reopening"
    /\ UNCHANGED <<record, allow, login, sess, prepared, wal, captured>>

BeginUnfence ==
    /\ pc = "idle"
    /\ fence # NoFence
    /\ fence' = "unfencing"
    /\ barrier' = 0
    /\ run' = "unfence"
    /\ pc' = "reopening"
    /\ UNCHANGED <<mode, allow, login, sess, prepared, wal, captured>>

\* The durable mode decides what is restored: the owner's LOGIN and CONNECT for
\* a selective record, datallowconn for a hard one.
Reopen ==
    /\ pc = "reopening"
    /\ allow' = (allow \/ mode = "hard")
    /\ login' = (login \/ mode = "selective")
    /\ flushed' = insert
    /\ pc' = "clearing"
    /\ UNCHANGED <<record, sess, prepared, insert, commits, run, captured>>

ClearFence ==
    /\ pc = "clearing"
    /\ fence' = NoFence
    /\ mode' = "hard"
    /\ barrier' = 0
    /\ pc' = "idle"
    /\ UNCHANGED <<allow, login, sess, prepared, wal, run, captured>>

-----------------------------------------------------------------------------
(* The environment *)

\* The WAL writer.
Flush ==
    /\ flushed < insert
    /\ flushed' = insert
    /\ UNCHANGED <<record, allow, login, sess, prepared, insert, commits, pc, run, captured>>

\* PostgreSQL restarts: unflushed WAL and every backend are gone, and the
\* controller's statement fails with the connection.
PostgresCrash ==
    /\ sess' = [c \in Clients |-> "out"]
    /\ insert' = flushed
    /\ commits' = {l \in commits : l <= flushed}
    /\ IF pc = "idle" THEN UNCHANGED <<record, pc>> ELSE RecordError
    /\ UNCHANGED <<allow, login, prepared, flushed, run, captured>>

\* The controller restarts: the operation is gone, the record is as persisted.
ControllerCrash ==
    /\ pc # "idle"
    /\ pc' = "idle"
    /\ UNCHANGED <<record, allow, login, sess, prepared, wal, run, captured>>

-----------------------------------------------------------------------------

\* The steps the running operation takes by itself.
ControllerStep ==
    \/ CloseAdmission \/ AlterAdmission \/ DrainStartups \/ StartupsDrained
    \/ NoPreparedBeforeDrain \/ TerminateSessions \/ SessionsDrained
    \/ NoPreparedAfterDrain \/ CaptureBarrier \/ Checkpoint \/ PersistReady
    \/ FenceRefused \/ Reopen \/ ClearFence

OperatorRequest == BeginFence \/ BeginFenceSelective \/ BeginUnfence

TenantStep(c) ==
    \/ Route(c) \/ StartBackend(c) \/ FinishStartup(c) \/ Commit(c)
    \/ PrepareTransaction(c) \/ Leave(c)
    \/ \E p \in prepared : CommitPrepared(c, p)

Next ==
    \/ \E c \in Clients : TenantStep(c)
    \/ OperatorRequest
    \/ ControllerStep
    \/ OperationFails
    \/ Flush
    \/ PostgresCrash
    \/ ControllerCrash

Spec == Init /\ [][Next]_vars

\* The operation runs on a live task and every wait in it has a deadline.
FairSpec == Spec /\ WF_vars(ControllerStep)

-----------------------------------------------------------------------------
(* Properties *)

\* Type invariant of the fence record, the guest and the running operation.
TypeOK ==
    /\ fence \in FencePhases
    /\ mode \in Modes
    /\ barrier \in Nat
    /\ allow \in BOOLEAN
    /\ login \in BOOLEAN
    /\ sess \in [Clients -> SessionStates]
    /\ prepared \in SUBSET Clients
    /\ insert \in Nat
    /\ flushed \in Nat
    /\ commits \in SUBSET Nat
    /\ pc \in {"idle"} \cup FenceSteps \cup UnfenceSteps
    /\ run \in Modes \cup {"unfence"}
    /\ captured \in Nat

\* Tenant backends that hold, or may still get, a way to write.
Writers == {c \in Clients : sess[c] \in {"starting", "attached", "terminating"}}

\* A ready fence is what a handoff relies on: every tenant commit lies at or
\* below its barrier, the barrier is on disk, and nothing is left (no backend,
\* no prepared transaction) that could commit above it.
ReadyBarrierCovers ==
    fence = "ready" =>
        /\ \A l \in commits : l <= barrier
        /\ barrier <= flushed
        /\ Writers = {}
        /\ prepared = {}

\* unfence: "A crash or failed clear must never leave an open database marked
\* ready-fenced" (orchestrate.rs).
ReadyIsClosed == fence = "ready" => ~TenantAdmissible

\* What each statement of the fence has established by the time the next one
\* runs.  Admission is closed from the ALTER on, so the sets of backends that
\* may write only shrink; with ReadyBarrierCovers and ReadyIsClosed this is
\* the inductive invariant of the protocol.
AfterAlter      == {"altered", "startups", "prepared1", "terminate", "sessions",
                    "prepared2", "capture", "checkpoint", "persist"}
AfterStartups   == {"prepared1", "terminate", "sessions", "prepared2", "capture",
                    "checkpoint", "persist"}
AfterSessions   == {"prepared2", "capture", "checkpoint", "persist"}
AfterPrepared   == {"capture", "checkpoint", "persist"}
AfterCapture    == {"checkpoint", "persist"}

FenceProgress ==
    /\ flushed <= insert
    /\ \A l \in commits : l <= insert
    /\ pc \in FenceSteps => run \in Modes
    /\ pc \in AfterAlter => ~TenantAdmissible
    /\ pc \in AfterStartups => \A c \in Clients : sess[c] # "starting"
    /\ pc \in AfterSessions => \A c \in Clients : sess[c] \notin {"attached", "terminating"}
    /\ pc \in AfterPrepared => prepared = {}
    /\ pc \in AfterCapture => captured = insert
    /\ pc = "persist" => captured <= flushed
    /\ fence = "ready" => pc = "idle"

\* The inductive invariant of the fence: checked on the instance, proved for
\* every set of clients in FencePostgresProofs.
FenceInv == TypeOK /\ FenceProgress /\ ReadyBarrierCovers /\ ReadyIsClosed

\* A step that keeps a ready record keeps its barrier, or is the start of an
\* unfence, which gives the barrier up before anything is reopened.
KeepsBarrier == UNCHANGED <<fence, barrier>> \/ fence' = "unfencing"

\* Only unfence ends a ready fence, and no step adds a commit to, or takes one
\* from, the WAL below its barrier: a retried fence of either mode returns the
\* barrier already captured (fence_locked, fence_selective), and a restart of
\* PostgreSQL cannot take flushed commits back.
ReadyBarrierFixed ==
    [][fence = "ready" => KeepsBarrier /\ UNCHANGED commits]_vars

\* fence and unfence always answer: neither a startup that never finishes nor a
\* backend that never exits nor a prepared transaction holds the operation
\* mutex for ever.
OperationEnds == (pc # "idle") ~> (pc = "idle")

=============================================================================
