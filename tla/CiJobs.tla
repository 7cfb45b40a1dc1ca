------------------------------- MODULE CiJobs -------------------------------
(***************************************************************************)
(* The life of the jobs of one run of the ci application.  Code:           *)
(* ci/src/dispatch.rs (scheduler, delivery, reaper), store.rs (job rows,   *)
(* claims, roll-up), executor.rs (process boots, drain, retirement),       *)
(* vm_cleanup.rs and the runner drain of host_maintenance.rs.              *)
(*                                                                         *)
(* Several ci processes ("boots") share a database and a work queue.  A    *)
(* scheduler pass moves ready jobs to the queue; a worker of any boot      *)
(* takes a delivery, claims the job row, prepares, executes in a VM, hands *)
(* the VM to the durable cleanup and acknowledges the delivery.  The queue *)
(* may deliver again at any time, and anybody may cancel.                  *)
(*                                                                         *)
(* A database transaction is one action.  What a process read before an    *)
(* await and uses after it is kept in its local state (sched, reap, wk).   *)
(*                                                                         *)
(* Abstractions.  One run, one runner, jobs with the default condition     *)
(* (every dependency succeeded) and a VM of their own; no submission gate, *)
(* native jobs or host maintenance.  Steps, logs, outputs, events and the  *)
(* error texts are left out.                                               *)
(***************************************************************************)
EXTENDS Naturals, FiniteSets

CONSTANTS
    None,
    Jobs, Needs,        \* the jobs of the run and what each needs
    Boots,              \* process lifetimes that registered as executors
    Workers, BootOf,    \* delivery slots, and the boot of each
    Retirees,           \* boots the orchestrator may ask to retire
    Replaced,           \* boots a maintenance operation, one for each, may pause and replace
    Cordons,            \* maintenance operations that cordon the runner
    MaxFailures,        \* MAX_PRECLAIM_FAILURES
    MaxDeliveries,      \* bound: deliveries of one message
    Faults              \* what may go wrong

ASSUME CiAssumption ==
    /\ Needs \in [Jobs -> SUBSET Jobs] /\ BootOf \in [Workers -> Boots]
    /\ None \notin Jobs \cup Boots \cup Cordons \cup {"preparing", "execution", "detached_preparation"}
    /\ Retirees \cup Replaced \subseteq Boots
    /\ MaxFailures \in Nat \ {0} /\ MaxDeliveries \in Nat \ {0}
    /\ Faults \subseteq {"crash", "redeliver", "timeout", "publish", "runner", "plan", "database", "wait"}

VARIABLES
    run,        \* ci_run.status
    job,        \* ci_job rows
    work,       \* ci_host_work rows: the executor obligation of each job
    cleanup,    \* jobs with a ci_vm_cleanup row
    vm,         \* the jobs with a VM on the runner
    msg,        \* the message of each job in the work queue
    boot,       \* ci_executor_boot rows, and whether the process lives
    retiring,   \* ci_application_retirement of each boot
    cordon,     \* the operation that drains the runner
    wk,         \* delivery in each worker
    sched,      \* the scheduler pass of each boot
    reap,       \* the job each boot's reaper is about to fail
    execs       \* how often each job's execution began

db    == <<run, job, work, cleanup>>
procs == <<wk, sched, reap>>
vars  == <<db, vm, msg, boot, retiring, cordon, procs, execs>>

Terminal == {"success", "failure", "skipped", "cancelled"}
RunTerminal == {"success", "failure", "cancelled"}

IdleWorker == [pc |-> "idle", job |-> None, attempt |-> 0]
IdleSched  == [pc |-> "idle", ready |-> {}, skip |-> {}, changed |-> FALSE, cur |-> None]

Init ==
    /\ run = "queued"
    /\ job = [j \in Jobs |-> [status |-> "pending", boot |-> None, attempt |-> 0, fails |-> 0]]
    /\ work = [j \in Jobs |-> None]
    /\ cleanup = {}
    /\ vm = {}
    /\ msg = [j \in Jobs |-> [at |-> "none", delivered |-> 0]]
    /\ boot = [b \in Boots |-> [alive |-> TRUE, draining |-> FALSE, retired |-> FALSE, paused |-> FALSE]]
    /\ retiring = [b \in Boots |-> "no"]
    /\ cordon = None
    /\ wk = [w \in Workers |-> IdleWorker]
    /\ sched = [b \in Boots |-> IdleSched]
    /\ reap = [b \in Boots |-> None]
    /\ execs = [j \in Jobs |-> 0]

SetJob(j, s) == job' = [job EXCEPT ![j].status = s]
Goto(w, pc)  == wk' = [wk EXCEPT ![w].pc = pc]

\* effect_permit and admission_permit
Permit(b)   == boot[b].alive /\ ~boot[b].retired /\ retiring[b] # "checked"
Admitted(b) == Permit(b) /\ ~boot[b].draining

-----------------------------------------------------------------------------
(* The scheduler: advance_run, advance_run_wave, roll_up_run *)

\* The wave works on the statuses it reads here: a pending job with every
\* dependency ended runs if they all succeeded, by the default condition, and is
\* skipped if one did not.
ReadWave(b) ==
    LET considered == {j \in Jobs : job[j].status = "pending" /\ \A n \in Needs[j] : job[n].status \in Terminal}
        runnable   == {j \in considered : \A n \in Needs[j] : job[n].status = "success"} IN
    sched' = [sched EXCEPT ![b] = [pc |-> "wave", ready |-> runnable, skip |-> considered \ runnable,
                                   changed |-> FALSE, cur |-> None]]

StartPass(b) == sched[b].pc = "idle" /\ ReadWave(b)

\* A submit, or nudge_stalled_runs over runs_with_pending_jobs.
nudge_stalled_runs(b) ==
    /\ Permit(b)
    /\ run \notin RunTerminal /\ \E j \in Jobs : job[j].status = "pending"
    /\ StartPass(b)
    /\ UNCHANGED <<db, vm, msg, boot, retiring, cordon, wk, reap, execs>>

\* set_job_status: no condition on what the row says now.
set_job_status(j, s) == SetJob(j, s)

\* A plan, condition or route that cannot be resolved fails the job.
SettleUnrunnable(b, j) ==
    /\ sched[b].pc = "wave"
    /\ \/ j \in sched[b].skip /\ set_job_status(j, "skipped")
       \/ "plan" \in Faults /\ j \in sched[b].ready \cup sched[b].skip /\ set_job_status(j, "failure")
    /\ sched' = [sched EXCEPT ![b].ready = @ \ {j}, ![b].skip = @ \ {j}, ![b].changed = TRUE]
    /\ UNCHANGED <<run, work, cleanup, vm, msg, boot, retiring, cordon, wk, reap, execs>>

queue_job(b, j) ==
    /\ sched[b].pc = "wave" /\ j \in sched[b].ready
    /\ IF job[j].status = "pending"
       THEN /\ SetJob(j, "queued")
            /\ sched' = [sched EXCEPT ![b].ready = @ \ {j}, ![b].cur = j, ![b].pc = "publish"]
       ELSE /\ sched' = [sched EXCEPT ![b].ready = @ \ {j}]
            /\ UNCHANGED job
    /\ UNCHANGED <<run, work, cleanup, vm, msg, boot, retiring, cordon, wk, reap, execs>>

\* publish_job: the queue drops a second message with the id of one it holds or
\* lately held.
Stored(j) == [msg EXCEPT ![j].at = IF @ = "none" THEN "ready" ELSE @]

publish_job(b) ==
    /\ sched[b].pc = "publish"
    /\ msg' = Stored(sched[b].cur)
    /\ sched' = [sched EXCEPT ![b].pc = "wave", ![b].cur = None]
    /\ UNCHANGED <<db, vm, boot, retiring, cordon, wk, reap, execs>>

\* The publication fails; the message may be in the queue all the same.
PublishFails(b) ==
    /\ "publish" \in Faults
    /\ sched[b].pc = "publish"
    /\ msg' \in {msg, Stored(sched[b].cur)}
    /\ sched' = [sched EXCEPT ![b].pc = "unqueue"]
    /\ UNCHANGED <<db, vm, boot, retiring, cordon, wk, reap, execs>>

\* The failed publication is only noticed.
UnqueueForgets(b) ==
    /\ sched[b].pc = "unqueue"
    /\ sched' = [sched EXCEPT ![b].pc = "wave", ![b].cur = None]
    /\ UNCHANGED <<db, vm, msg, boot, retiring, cordon, wk, reap, execs>>

unqueue_job(b) ==
    /\ sched[b].pc = "unqueue"
    /\ IF job[sched[b].cur].status = "queued" THEN SetJob(sched[b].cur, "pending") ELSE UNCHANGED job
    /\ sched' = [sched EXCEPT ![b].pc = "wave", ![b].cur = None]
    /\ UNCHANGED <<run, work, cleanup, vm, msg, boot, retiring, cordon, wk, reap, execs>>

WaveOver(b) == sched[b].pc = "wave" /\ sched[b].ready \cup sched[b].skip = {}

\* A wave that settled a job is followed by another.
NextWave(b) ==
    /\ WaveOver(b) /\ sched[b].changed
    /\ ReadWave(b)
    /\ UNCHANGED <<db, vm, msg, boot, retiring, cordon, wk, reap, execs>>

\* roll_up_run_in: a cancelled run stays cancelled.
RollUp ==
    LET statuses == {job[j].status : j \in Jobs} IN
    IF run = "cancelled" \/ "cancelled" \in statuses THEN "cancelled"
    ELSE IF "failure" \in statuses THEN "failure"
    ELSE IF statuses \subseteq {"success", "skipped"} THEN "success" ELSE "running"

roll_up_run(b) ==
    /\ WaveOver(b) /\ ~sched[b].changed
    /\ run' = RollUp
    /\ sched' = [sched EXCEPT ![b] = IdleSched]
    /\ UNCHANGED <<job, work, cleanup, vm, msg, boot, retiring, cordon, wk, reap, execs>>

-----------------------------------------------------------------------------
(* fail_jobs_waiting_for_a_runner, and cancellation *)

\* jobs_waiting_longer_than: the row is read here and written below, with the
\* questions about cordons, hosts and queue depth in between.
ReapRead(b, j) ==
    /\ "wait" \in Faults /\ Permit(b) /\ reap[b] = None
    /\ job[j].status = "queued" /\ run \notin RunTerminal /\ cordon = None
    /\ reap' = [reap EXCEPT ![b] = j]
    /\ UNCHANGED <<db, vm, msg, boot, retiring, cordon, wk, sched, execs>>

ReapWrite(b) ==
    /\ reap[b] # None /\ sched[b].pc = "idle"
    /\ set_job_status(reap[b], "failure")
    /\ reap' = [reap EXCEPT ![b] = None]
    /\ sched' = [sched EXCEPT ![b].pc = "advance"]
    /\ UNCHANGED <<run, work, cleanup, vm, msg, boot, retiring, cordon, wk, execs>>

ReapAdvance(b) ==
    /\ sched[b].pc = "advance"
    /\ ReadWave(b)
    /\ UNCHANGED <<db, vm, msg, boot, retiring, cordon, wk, reap, execs>>

\* The runner is cordoned, a pinned host came online or the queue is only busy.
ReapSpares(b) ==
    /\ reap[b] # None
    /\ reap' = [reap EXCEPT ![b] = None]
    /\ UNCHANGED <<db, vm, msg, boot, retiring, cordon, wk, sched, execs>>

cancel_run ==
    /\ run \notin RunTerminal
    /\ run' = "cancelled"
    /\ job' = [j \in Jobs |-> IF job[j].status \in Terminal THEN job[j]
                              ELSE [job[j] EXCEPT !.status = "cancelled"]]
    /\ UNCHANGED <<work, cleanup, vm, msg, boot, retiring, cordon, procs, execs>>

-----------------------------------------------------------------------------
(* A delivery: consume, process_delivery, run_job, run_claimed *)

Mine(w) ==
    LET j == wk[w].job IN
    /\ job[j].boot = BootOf[w] /\ job[j].attempt = wk[w].attempt

NakDelivery(w) ==
    /\ msg' = [msg EXCEPT ![wk[w].job].at = IF @ = "out" THEN "ready" ELSE @]
    /\ Goto(w, "advance")

\* As below, but one attempt too many is allowed.
RecordsOneMore(w) ==
    LET j == wk[w].job
        fails == job[j].fails + 1
        unclaimed == job[j].status \in {"pending", "queued"} /\ job[j].boot = None /\ work[j] = None IN
    /\ job' = IF unclaimed THEN [job EXCEPT ![j].fails = fails,
                                           ![j].status = IF fails > MaxFailures THEN "failure" ELSE @]
              ELSE job
    /\ IF unclaimed /\ fails <= MaxFailures THEN NakDelivery(w)
       ELSE Goto(w, IF work[j] # None THEN "drop" ELSE "ack") /\ UNCHANGED msg

\* has_host_work and record_unclaimed_job_error: a job that is owned is left as it
\* is, for somebody to reconcile, and the run is not advanced; otherwise the
\* attempt is counted, and the last one fails the job.
record_unclaimed_job_error(w) ==
    LET j == wk[w].job
        fails == job[j].fails + 1
        unclaimed == job[j].status \in {"pending", "queued"} /\ job[j].boot = None /\ work[j] = None IN
    /\ job' = IF unclaimed THEN [job EXCEPT ![j].fails = fails,
                                           ![j].status = IF fails >= MaxFailures THEN "failure" ELSE @]
              ELSE job
    /\ IF unclaimed /\ fails < MaxFailures THEN NakDelivery(w)
       ELSE Goto(w, IF work[j] # None THEN "drop" ELSE "ack") /\ UNCHANGED msg

\* The execution ends in an error.  When the database does not answer either,
\* there is neither an acknowledgement nor an advance.
JobError(w) ==
    \/ record_unclaimed_job_error(w)
    \/ /\ "database" \in Faults
       /\ wk' = [wk EXCEPT ![w] = IdleWorker]
       /\ UNCHANGED <<job, msg>>

\* consume takes the admission permit before it pulls, and keeps it until the
\* delivery is done.
Deliver(w, j) ==
    /\ wk[w].pc = "idle" /\ Admitted(BootOf[w])
    /\ msg[j].at = "ready" /\ msg[j].delivered < MaxDeliveries
    /\ msg' = [msg EXCEPT ![j] = [at |-> "out", delivered |-> @.delivered + 1]]
    /\ wk' = [wk EXCEPT ![w] = [pc |-> "got", job |-> j, attempt |-> msg[j].delivered + 1]]
    /\ UNCHANGED <<db, vm, boot, retiring, cordon, sched, reap, execs>>

\* The admission check, run_job's look at the row and pick_runner.  A cordoned
\* runner keeps the delivery in the loop.
run_job(w) ==
    /\ wk[w].pc = "got"
    /\ \/ /\ ~Admitted(BootOf[w])
          /\ NakDelivery(w) /\ UNCHANGED job
       \/ /\ Admitted(BootOf[w]) /\ job[wk[w].job].status \in Terminal
          /\ Goto(w, "ack") /\ UNCHANGED <<job, msg>>
       \/ /\ Admitted(BootOf[w]) /\ job[wk[w].job].status \notin Terminal
          /\ \/ cordon = None /\ Goto(w, "picked") /\ UNCHANGED <<job, msg>>
             \/ "runner" \in Faults /\ JobError(w)
    /\ UNCHANGED <<run, work, cleanup, vm, boot, retiring, cordon, sched, reap, execs>>

\* The claim without the row conditions.
ClaimsAgain(w) ==
    LET j == wk[w].job b == BootOf[w] IN
    /\ wk[w].pc = "picked" /\ Admitted(b) /\ cordon = None
    /\ job' = [job EXCEPT ![j].status = "running", ![j].boot = b, ![j].attempt = wk[w].attempt]
    /\ work' = [work EXCEPT ![j] = "preparing"]
    /\ Goto(w, "prepare")
    /\ UNCHANGED <<run, cleanup, vm, msg, boot, retiring, cordon, sched, reap, execs>>

\* claim_job_inner: the boot's row, the runner's lock and the job's row.
claim_job_for_boot(w) ==
    LET j == wk[w].job b == BootOf[w] IN
    /\ wk[w].pc = "picked"
    /\ IF Admitted(b) /\ cordon = None /\ job[j].status \in {"pending", "queued"} /\ work[j] = None
       THEN /\ job' = [job EXCEPT ![j].status = "running", ![j].boot = b, ![j].attempt = wk[w].attempt]
            /\ work' = [work EXCEPT ![j] = "preparing"]
            /\ Goto(w, "prepare")
            /\ UNCHANGED msg
       ELSE /\ IF Admitted(b) THEN Goto(w, IF cordon # None THEN "got" ELSE "ack") /\ UNCHANGED msg
               ELSE NakDelivery(w)
            /\ UNCHANGED <<job, work>>
    /\ UNCHANGED <<run, cleanup, vm, boot, retiring, cordon, sched, reap, execs>>

\* Sources and image are prepared, or fail to be; a failure is quiescent when no
\* request to the runner is left open.  begin_job_execution refuses a job that
\* ended meanwhile, and what it refuses is finished here too.
finish_job_preparation(w) ==
    LET j == wk[w].job IN
    /\ wk[w].pc = "prepare"
    /\ IF Mine(w) /\ work[j] = "preparing"
       THEN /\ job' = [job EXCEPT ![j].boot = None,
                                  ![j].status = IF @ \in Terminal THEN @ ELSE "failure"]
            /\ \E quiescent \in BOOLEAN :
                  work' = [work EXCEPT ![j] = IF quiescent THEN None ELSE "detached_preparation"]
            /\ Goto(w, "ack")
            /\ UNCHANGED msg
       ELSE JobError(w) /\ UNCHANGED work
    /\ UNCHANGED <<run, cleanup, vm, boot, retiring, cordon, sched, reap, execs>>

begin_job_execution(w) ==
    LET j == wk[w].job IN
    /\ wk[w].pc = "prepare"
    /\ Mine(w) /\ job[j].status = "running" /\ work[j] = "preparing"
    /\ work' = [work EXCEPT ![j] = "execution"]
    /\ execs' = [execs EXCEPT ![j] = @ + 1]
    /\ Goto(w, "execute")
    /\ UNCHANGED <<run, job, cleanup, vm, msg, boot, retiring, cordon, sched, reap>>

\* A failed or unanswered acquisition may have made the VM.
acquire_vm(w) ==
    /\ wk[w].pc = "execute"
    /\ \/ vm' = vm \cup {wk[w].job} /\ Goto(w, "acquired") /\ UNCHANGED <<job, msg>>
       \/ "runner" \in Faults /\ vm' \in {vm, vm \cup {wk[w].job}} /\ JobError(w)
    /\ UNCHANGED <<run, work, cleanup, boot, retiring, cordon, sched, reap, execs>>

\* Handoff, without the look at the outcome the row has.
HandoffOverwrites(w, s) ==
    LET j == wk[w].job IN
    /\ Mine(w) /\ work[j] # None
    /\ SetJob(j, s)
    /\ cleanup' = cleanup \cup {j}
    /\ Goto(w, "ack")

\* handoff: the result and the cleanup obligation are written together, and an
\* outcome the row already has is kept.
Handoff(w, s) ==
    LET j == wk[w].job IN
    /\ Mine(w) /\ work[j] # None
    /\ job' = [job EXCEPT ![j].status = IF @ \in Terminal THEN @ ELSE s]
    /\ cleanup' = cleanup \cup {j}
    /\ Goto(w, "ack")

start_job_for_boot(w) ==
    /\ wk[w].pc = "acquired"
    /\ IF Mine(w) /\ job[wk[w].job].status = "running"
       THEN Goto(w, "steps") /\ UNCHANGED <<job, cleanup>>
       ELSE Handoff(w, "cancelled")
    /\ UNCHANGED <<run, work, vm, msg, boot, retiring, cordon, sched, reap, execs>>

\* run_steps asks between the steps whether the job was cancelled; a cancellation
\* after the last of them goes unnoticed.
run_steps(w) ==
    /\ wk[w].pc = "steps"
    /\ \E s \in {"success", "failure", "cancelled"} :
          /\ s = "cancelled" => job[wk[w].job].status = "cancelled"
          /\ Handoff(w, s)
    /\ UNCHANGED <<run, work, vm, msg, boot, retiring, cordon, sched, reap, execs>>

\* CI_MAX_JOB_SECONDS drops the future wherever it is.
JobTimeout(w) ==
    /\ "timeout" \in Faults
    /\ wk[w].pc \in {"picked", "prepare", "execute", "acquired", "steps"}
    /\ JobError(w)
    /\ UNCHANGED <<run, work, cleanup, vm, boot, retiring, cordon, sched, reap, execs>>

\* The acknowledgement deletes the message, whichever delivery it is for.
Ack(w) ==
    /\ wk[w].pc \in {"ack", "drop"}
    /\ msg' = [msg EXCEPT ![wk[w].job].at = "acked"]
    /\ wk' = [wk EXCEPT ![w] = IF wk[w].pc = "drop" THEN IdleWorker ELSE [@ EXCEPT !.pc = "advance"]]
    /\ UNCHANGED <<db, vm, boot, retiring, cordon, sched, reap, execs>>

\* advance_run ends the delivery, while other slots of the boot go on.
Advance(w) ==
    /\ wk[w].pc = "advance"
    /\ StartPass(BootOf[w])
    /\ wk' = [wk EXCEPT ![w] = IdleWorker]
    /\ UNCHANGED <<db, vm, msg, boot, retiring, cordon, reap, execs>>

\* AckWait passes: the holder died, or its progress acknowledgements were lost.
Redeliver(j) ==
    /\ msg[j].at = "out"
    /\ "redeliver" \in Faults \/ ~\E w \in Workers : wk[w].job = j /\ wk[w].attempt = msg[j].delivered
    /\ msg' = [msg EXCEPT ![j].at = "ready"]
    /\ UNCHANGED <<db, vm, boot, retiring, cordon, procs, execs>>

-----------------------------------------------------------------------------
(* vm_cleanup::reconcile *)

\* finish: the VM is verified gone before the obligations are dropped, in one
\* transaction.
CleanupFinish(b, j) ==
    /\ Permit(b) /\ j \in cleanup /\ job[j].status \in Terminal
    /\ vm' = vm \ {j}
    /\ work' = [work EXCEPT ![j] = None]
    /\ cleanup' = cleanup \ {j}
    /\ UNCHANGED <<run, job, msg, boot, retiring, cordon, procs, execs>>

\* The process stops after the VM is destroyed and before the commit.
CleanupInterrupted(b, j) ==
    /\ "crash" \in Faults
    /\ Permit(b) /\ j \in cleanup /\ j \in vm
    /\ vm' = vm \ {j}
    /\ UNCHANGED <<db, msg, boot, retiring, cordon, procs, execs>>

-----------------------------------------------------------------------------
(* Drain and retirement: executor.rs, runner_drain *)

has_work(b) ==
    \E j \in Jobs : job[j].boot = b /\ (job[j].status = "running" \/ work[j] # None \/ j \in cleanup)

\* try_write on the process-local lock: every permit holder is done.
LocalIdle(b) ==
    /\ \A w \in Workers : BootOf[w] = b => wk[w].pc = "idle"
    /\ sched[b].pc = "idle" /\ reap[b] = None

\* maintenance_operation is that of the pause.
pause(b) ==
    /\ b \in Replaced /\ boot[b].alive /\ ~boot[b].retired /\ ~boot[b].paused
    /\ boot' = [boot EXCEPT ![b].draining = TRUE, ![b].paused = TRUE]
    /\ UNCHANGED <<db, vm, msg, retiring, cordon, procs, execs>>

resume(b) ==
    /\ boot[b].alive /\ ~boot[b].retired /\ boot[b].paused /\ retiring[b] = "no"
    /\ boot' = [boot EXCEPT ![b].draining = FALSE, ![b].paused = FALSE]
    /\ UNCHANGED <<db, vm, msg, retiring, cordon, procs, execs>>

\* As retire_for_replacement, without has_work.
RetiresBusy(b) ==
    /\ boot[b].alive /\ ~boot[b].retired /\ LocalIdle(b)
    /\ boot[b].draining /\ boot[b].paused
    /\ boot' = [boot EXCEPT ![b].retired = TRUE]
    /\ UNCHANGED <<db, vm, msg, retiring, cordon, procs, execs>>

retire_for_replacement(b) ==
    /\ boot[b].alive /\ ~boot[b].retired /\ LocalIdle(b) /\ ~has_work(b)
    /\ boot[b].draining /\ boot[b].paused
    /\ boot' = [boot EXCEPT ![b].retired = TRUE]
    /\ UNCHANGED <<db, vm, msg, retiring, cordon, procs, execs>>

\* As below, but the drain is left to the commit.
RetirementDrainsLate(b) ==
    /\ b \in Retirees /\ boot[b].alive /\ retiring[b] = "no"
    /\ retiring' = [retiring EXCEPT ![b] = "draining"]
    /\ UNCHANGED <<db, vm, msg, boot, cordon, procs, execs>>

\* retire_application, first transaction: this boot admits nothing more.
BeginRetirement(b) ==
    /\ b \in Retirees /\ boot[b].alive /\ retiring[b] = "no"
    /\ boot' = [boot EXCEPT ![b].draining = TRUE]
    /\ retiring' = [retiring EXCEPT ![b] = "draining"]
    /\ UNCHANGED <<db, vm, msg, cordon, procs, execs>>

\* Idle, without work, and some other boot is seen to be ready.
CheckSurvivor(b) ==
    /\ boot[b].alive /\ retiring[b] = "draining" /\ LocalIdle(b) /\ ~has_work(b)
    /\ \E s \in Boots \ {b} : ~boot[s].draining /\ ~boot[s].retired
    /\ retiring' = [retiring EXCEPT ![b] = "checked"]
    /\ UNCHANGED <<db, vm, msg, boot, cordon, procs, execs>>

CommitRetirement(b) ==
    /\ boot[b].alive /\ retiring[b] = "checked"
    /\ boot' = [boot EXCEPT ![b].retired = TRUE]
    /\ retiring' = [retiring EXCEPT ![b] = "safe"]
    /\ UNCHANGED <<db, vm, msg, cordon, procs, execs>>

runner_drain(o) ==
    /\ \/ cordon = None /\ cordon' = o
       \/ cordon = o /\ cordon' = None
    /\ UNCHANGED <<db, vm, msg, boot, retiring, procs, execs>>

\* runner_drain_status, asked for the work of the jobs that say they run only.
DrainedByStatus ==
    /\ cordon # None /\ cleanup = {}
    /\ \A j \in Jobs : job[j].status # "running"

\* runner_drain_status
Drained ==
    /\ cordon # None /\ cleanup = {}
    /\ \A j \in Jobs : job[j].status # "running" /\ work[j] = None

BootDies(b) ==
    /\ "crash" \in Faults
    /\ boot[b].alive /\ \E c \in Boots \ {b} : boot[c].alive
    /\ boot' = [boot EXCEPT ![b].alive = FALSE]
    /\ wk' = [w \in Workers |-> IF BootOf[w] = b THEN IdleWorker ELSE wk[w]]
    /\ sched' = [sched EXCEPT ![b] = IdleSched]
    /\ reap' = [reap EXCEPT ![b] = None]
    /\ retiring' = [retiring EXCEPT ![b] = IF @ = "checked" THEN "draining" ELSE @]
    /\ UNCHANGED <<db, vm, msg, cordon, execs>>

-----------------------------------------------------------------------------
Scheduler(b) ==
    \/ nudge_stalled_runs(b) \/ publish_job(b) \/ PublishFails(b)
    \/ unqueue_job(b) \/ NextWave(b) \/ roll_up_run(b)
    \/ \E j \in Jobs : SettleUnrunnable(b, j) \/ queue_job(b, j)

Reaper(b) == ReapWrite(b) \/ ReapAdvance(b) \/ ReapSpares(b) \/ \E j \in Jobs : ReapRead(b, j)

Worker(w) ==
    \/ run_job(w) \/ claim_job_for_boot(w)
    \/ finish_job_preparation(w) \/ begin_job_execution(w) \/ acquire_vm(w)
    \/ start_job_for_boot(w) \/ run_steps(w) \/ JobTimeout(w)
    \/ Ack(w) \/ Advance(w)
    \/ \E j \in Jobs : Deliver(w, j)

Drain(b) ==
    \/ pause(b) \/ resume(b) \/ retire_for_replacement(b)
    \/ BeginRetirement(b) \/ CheckSurvivor(b) \/ CommitRetirement(b)

Next ==
    \/ \E b \in Boots :
          \/ Scheduler(b) \/ Reaper(b) \/ Drain(b) \/ BootDies(b)
          \/ \E j \in Jobs : CleanupFinish(b, j) \/ CleanupInterrupted(b, j)
    \/ \E w \in Workers : Worker(w)
    \/ \E j \in Jobs : Redeliver(j)
    \/ \E o \in Cordons : runner_drain(o)
    \/ cancel_run

Spec == Init /\ [][Next]_vars

\* Each loop and task of a process runs on: the ticker and the scheduler passes it
\* starts, and the consumers; the queue redelivers.  A publication that is tried
\* again and again succeeds at last.  Operators and clocks owe nothing.
FairSpec ==
    /\ Spec
    /\ \A b \in Boots : WF_vars(Scheduler(b)) /\ SF_vars(publish_job(b))
    /\ \A w \in Workers : WF_vars(Worker(w))
    /\ \A j \in Jobs : WF_vars(Redeliver(j))

-----------------------------------------------------------------------------
(* Properties *)

\* Rows and messages have their types; in particular no job has more unclaimed
\* failures on record than MAX_PRECLAIM_FAILURES allows.
TypeOK ==
    /\ run \in RunTerminal \cup {"queued", "running"}
    /\ \A j \in Jobs :
          /\ job[j].status \in Terminal \cup {"pending", "queued", "running"}
          /\ job[j].boot \in Boots \cup {None}
          /\ job[j].attempt \in 0 .. MaxDeliveries /\ job[j].fails \in 0 .. MaxFailures
          /\ work[j] \in {None, "preparing", "execution", "detached_preparation"}
          /\ msg[j].at \in {"none", "ready", "out", "acked"} /\ msg[j].delivered \in 0 .. MaxDeliveries
    /\ cleanup \subseteq Jobs /\ cordon \in Cordons \cup {None}

\* Redelivery, retry, drain and crash never begin the execution of a job twice
\* (claim_job_inner: "Redelivery cannot grant a second execution").
OneExecution == \A j \in Jobs : execs[j] <= 1

Acting(w) == wk[w].pc \in {"prepare", "execute", "acquired", "steps"}

\* A runner that is reported drained has no VM of a job left and nobody who may
\* still make or use one: not a worker whose job was cancelled or failed by the
\* reaper, nor a process that died in the middle (runner_drain_status, has_host_work).
DrainedIsQuiet ==
    Drained => /\ vm = {}
               /\ ~\E w \in Workers : Acting(w)

\* A retired boot does nothing more and owns no job, so that it may be replaced
\* (retire_for_replacement, retire_application).
RetiredIsIdle ==
    \A b \in Boots : boot[b].retired =>
        /\ \A w \in Workers : BootOf[w] = b => ~Acting(w)
        /\ ~has_work(b)

\* Application retirements never retire every boot, each relying on another one
\* that is retiring too (retire_application drains before it looks).
SurvivorRemains == Cardinality(Boots) > 1 => \E b \in Boots : retiring[b] # "safe"

\* A run that was cancelled stays cancelled, and a job that was cancelled is never
\* reported as a success, though it may have run to its end since (roll_up_run_in,
\* handoff).
CancelSticks ==
    [][/\ run = "cancelled" => run' = "cancelled"
       /\ \A j \in Jobs : job[j].status = "cancelled" => job'[j].status # "success"]_vars

\* A run comes to an end, though publications fail, boots drain and retire and
\* deliveries change hands, unless in the end every boot is draining
\* (process_delivery, nudge_stalled_runs, advance_run).  ci_live asks it without
\* crashes and without faults of the runner, the timeout and the database.
RunSettles == <>(run \in RunTerminal) \/ <>[](\A b \in Boots : boot[b].draining)

=============================================================================
