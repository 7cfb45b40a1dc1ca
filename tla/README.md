# TLA+ models of the hosting services

The repository is a monorepo of hosting services: a PostgreSQL pooler that runs
one VM per database (`pg-fc`), a load balancer (`app-lb`), a CI service (`ci`),
an orchestrator, an artifact store and the tools around them. These
specifications cover the protocols in it whose correctness depends on the order
of steps of several actors, or on what a crash leaves behind:

- how pg-fc moves the writer of a database to another node (fence, journals,
  handoff), without losing a commit and without a second writer;
- how pg-fc stops, archives, restores and kills the VM of a database that
  clients connect to at the same time;
- how ci runs each job once although its queue delivers twice and its
  processes die, drain and retire;
- how the orchestrator replaces a service one region at a time while load
  balancers lag behind and the reconciler dies between two writes;
- how the artifact store collects garbage while images are published.

Run everything from this directory, for example

    tlc -workers 2 -config Fence.cfg MCFencePostgres
    tlc -workers 2 -config Rollout.cfg MCRegionalRollout
    tlapm FencePostgresProofs.tla

`PROJECT.json` lists the runs, maps every definition to the lines it models,
and lists the hazards with the property that answers for each.

## 1. Inventory

| Part | State it keeps | Operations | Modelled |
|---|---|---|---|
| pg-fc fence (`replication/orchestrate.rs`, `store.rs`) | a durable fence record (phase, mode, VM, barrier); admission in PostgreSQL's catalogs | `fence`, `fence_selective`, `unfence` | `FencePostgres`; coarser in `PhysicalHandoff` |
| pg-fc physical journals (`replication/physical_store.rs`) | source journal and candidate journal: one current record per database and its history | create, reseed, successor, authorize, fence, grant, complete; advance, standby binding, handoff | `PhysicalStore` |
| pg-fc physical handoff (`replication/physical.rs`, guest `physical.sh`) | the journals, the serving binding, the guest's promotion journal; one mutex per database and node | prepare, reseed, seed, standby bind, handoff, accept, recovery worker | `PhysicalHandoff` |
| pg-fc admission and routing (`registry.rs`, `writer_routing.rs`, `main.rs`) | none of its own: decisions over the journals and the binding | route, forward, accept, checkout | `HandoffState`, `PhysicalHandoff` |
| pg-fc VM lifecycle, archive and dump (`registry.rs`, `store.rs`, `vm.rs`, `imgarchive.rs`) | the registry row and its file, warm entries with slots, the daemon's sandboxes, local and S3 copies, the archiving set | checkout, bring-up, bind; reap; archive, freeze, compact, image, promote; purge | `SchemaLifecycle` |
| pg-fc logical pairing | pairing record, publications, slots | provision, resync, promote, detach, forget | only role, failure and fence |
| ci jobs (`dispatch.rs`, `store.rs`, `executor.rs`, `vm_cleanup.rs`) | runs, jobs, host work, cleanups, executor boots, retirements; the work queue | schedule, publish, claim, prepare, execute, hand off, cancel, roll up, drain, retire | `CiJobs` |
| orchestrator regional rollout (`regional_rollout.rs`, `service_discovery.rs`, `regional_observers.rs`) | the rollout row, versioned membership and region drains; each ingress's adopted version | tick, resume, roll back, admit; adopt | `RegionalRollout` |
| artifacts (`store.rs`, `gc.rs`, `lock.rs`) | blobs, manifests, tags, hard links, the store lock | publish, tag, materialize, release, collect | `ArtifactStore` |
| app-lb pool, deployments, proxy | deployments, VM pool, leases | allocate, scale, roll out, retire | only the adoption of a snapshot and requests in flight |
| ci controllers | update and maintenance operations | self-update, host maintenance | only the runner drain and the replacement of a boot |
| orchestrator reconciler and adapters | desired state, observed state | reconcile | no |
| app-obs | segments, indexes | ingest, compact, expire | no |
| heyctl, heyosecret, queue, mcp, ui, printer, codegraph, computer, remote, plugins, skills, examples | - | - | no: clients, presentation, I/O |

How the parts interact.

*pg-fc, two nodes.* The operator calls HTTP handlers of a node; each takes the
node's mutex for the database (`replication_operation`). A handoff on the
source node calls the peer over HTTP, outside of any shared transaction, and
the peer calls back for the grant. The two journals, the logical record, the
serving binding and the guest's promotion file are written separately, each
atomically, so a crash can fall between any two. Tenant connections are routed
from the same records without taking the mutex. A worker on each node retries,
every five seconds, whatever the journals say is unfinished.

*pg-fc, one host.* Checkouts, two reapers, offload jobs and the purge act on
the same database. They meet in a map of entries, an atomic count of slots,
a set of schemas under offload and the registry row; no single lock covers
them, and each awaits the daemon or S3 between looking and acting.

*ci.* Several processes share a database and a JetStream queue. Each runs a
scheduler, a reaper and workers. The database rows decide who may execute; the
queue only says that somebody should look. A maintenance controller drains a
runner, and the orchestrator asks processes to retire.

*orchestrator and app-lb.* A tick of any controller advances one rollout by one
phase under an advisory lock. It publishes membership versions which the
ingresses fetch and adopt in their own time, and it reads back what they report.

*artifacts.* Publishers hold the store lock shared for each object, the
collector holds it exclusively, and tags are written without it.

What is hard, and which property answers for it, is the `hazards` list of
`PROJECT.json`, each entry at its line.

## 2. Modules

| Module | About | Checked by | Proved |
|---|---|---|---|
| `FencePostgres` | the fence, statement by statement | `fence` | `FencePostgresProofs` |
| `PhysicalStore`, `HandoffState`, `PhysicalHandoff` | journals, state and actions of the handoff | `handoff_*` | `PhysicalHandoffProofs`, `PhysicalHandoffDurability`, `PhysicalJournalProofs` |
| `WriterLineage` | abstract: one writer at a time over one log | refined in `handoff_tenants` | - |
| `SchemaLifecycle` | one database's VM, copies and clients | `schema`, `schema_live`, `schema_overlap` | `SchemaLifecycleProofs` |
| `CiJobs` | the jobs of one run | `ci_jobs`, `ci_live` | `CiJobsProofs` |
| `RegionalRollout` | one service's rollouts | `rollout` | `RegionalRolloutProofs` |
| `ArtifactStore` | the store and its collector | `artifacts` | `ArtifactStoreProofs` |

The `MC` modules declare the model values, the small functions the
configurations use, and the symmetry sets.

### The writer of a database

**FencePostgres** has one action per statement the controller sends and per
phase it persists. The operation holds the mutex (`pc # "idle"`); the tenant
sessions, the WAL writer, a PostgreSQL crash and a controller crash interleave
with every statement. A connection is *routed* (past the pooler's check),
*starting* (admitted, holding the database-object lock, not yet attributed in
`pg_stat_activity`), *attached*, or *terminating* (signalled). Commits are
asynchronous: `insert` runs ahead of `flushed`, and a PostgreSQL crash takes
back what lies between. The hard and the selective fence share their steps,
which differ in what the ALTER changes; the selective one does not persist the
"draining" phase. The capture of sequence values is left out (no decision reads
it), and so are unexpected background workers (an `OperationFails`).

**PhysicalStore** is the two journals as pure operators: for each method of
the stores a predicate that the call succeeds, and the journal it leaves. The
names are those of the code. A journal is written to disk whole before memory
changes, so each method is one step. `source_journal` and `candidate_journal`
are the validation on load.

**HandoffState** declares the state of the two nodes (durable journals, serving
binding, logical record and fence; per VM its mode, WAL and promotion journal;
volatile mutex holder, seed workers, messages, sessions) and the read-only
decisions: `physical_admission_ready`, the routes, `maintenance_ok`,
`checkout_ok`, `validate_destination`, `validate_sender`. The WAL of a VM is
the sequence of tenant commits and admission changes, and an LSN is a length;
admission of a VM is *read back from its WAL*, so a standby that has not
replayed the close still admits, and one that has does not.

**PhysicalHandoff** has the actions. A handler is split where it persists
something or waits for something, because a crash or another node can come in
there; between those points its steps are joined. `op[n]` is the operation that
holds node n's mutex, and its step. Requests and answers are messages.

| Code | Actions |
|---|---|
| `prepare_source`, `reseed_source` | `prepare_source`, `reseed_source`, `Provision` |
| `accept_candidate`, `seed`, guest `seed` | `accept_candidate`, `SeedBegins`, `SeedCreates`, `VmVisible`, `SeedOwns`, `SeedRuns`, `SeedCopied`, `SeedVerified` |
| `bind_standby_source`, `accept_standby_bind` | `bind_standby_source`, `accept_standby_bind`, `StandbyVerified`, `StandbyBound` |
| `handoff_source`, `fence_source` | `HandoffBegins`, `AuthorizeHandoff`, `FenceSource`, `CloseSource`, `SourceDrained`, `GrantHandoff`, `HandoffAnswered` |
| `accept_handoff`, guest `prepare_promotion`, `promote`, `OPEN_ADMISSION` | `accept_handoff`, `GrantConfirmed`, `HandoffAccepted`, `PreparePromotion`, `LaunchPromote`, `PgPromote`, `PromotionAcknowledged`, `BindPromoted`, `RetireLogical`, `OpenAdmission`, `Activate` |
| `spawn_handoff_recovery` | `ResumeStandbyBind`, `ResumeHandoff`, `HandoffBegins` for a pending handoff |
| `fence`, `fence_selective`, `unfence` | `fence`, `fence_selective`, `FenceCloses`, `FenceReady`, `unfence`, `UnfenceOpens`, `UnfenceClears` |
| `handle_conn`, `route`, `forward`, `accept_inner`, `checkout` | `Connect`, `ConnectToPeer`, `ClaimVetted`, `checkout`, `SessionStarts`, `Commit`, `Disconnect` |

Faults are `Crash` (the pooler restarts: mutexes, workers, opening connections
and callers that wait for an answer are gone; everything durable, the guests
and established sessions stay), `Abort` (an operation ends at any step: an I/O
error, a timeout, or a handler whose client went away), `Fails` (the same when
no step of the operation is possible) and `LoseMessage`.

**WriterLineage** is the abstract specification: one owner, one log of commits,
transfers to a VM that never owned before. `RefinesLineage` maps the owner to
the VM promoted last, and its log to the commits in that VM's WAL.

Deliberate abstractions of the handoff model:

- Identity fields that are equal in all records of one database (system
  identifier, PostgreSQL major, credentials, peer and slot names) are left out.
- The messages are a set, so two identical requests in flight are one. A
  request that is retried after delivery is a new message.
- The caller of physical-replicas and standby-bind is modelled as releasing its
  mutex with the request: its timeout may come at once and it does nothing after.
- An answer travels on the caller's connection, so a crash of the caller drops it.
- A fence that fails is left in phase "intent" where the code writes "error";
  the two are treated alike by every reader.
- The branch of `unfence` for a physical fence without authorization is left
  out: `handoff_source` authorizes before it fences, so only a journal written
  by an earlier version can hold one.
- A guest command that outlives its caller is modelled for create, seed and
  promote. `OPEN_ADMISSION` is one step under the mutex; a copy of it that is
  still running after its caller died is not modelled.
- Guest reboots (`physical.sh boot_check`) are not modelled.

### The VM of a database

**SchemaLifecycle** follows one database on one host. Its contents are the set
of acknowledged writes a disk or a copy holds, so that a stale copy is told from
a fresh one. A step is split where the code awaits the daemon, S3 or a lock.

| Code | Actions |
|---|---|
| `checkout_inner`, `ConnGuard::acquire`, `bring_up`, `restore` | `Checkout`, `PassOffload`, `Lookup`, `Acquire`, `InitCell`, `Boot`, `BringUp`, `BringUpFails`, `Bind`, `Admit` |
| a served session | `Write`, `Disconnect` |
| `reap_idle`, the untracked reaper | `ReapIdle`, `ReapStop`; `UntrackedPass`, `UntrackedStop` |
| `archive_schema`, freeze, compact, image, promote | `Claim`, `Evict`, `OffBoot`, `Dump`, `Image`, `Upload`, `DeleteStaleDump`, `set_tier`, `KillVM`, `Unlink` |
| `purge_pass` | `PurgeRead`, `PurgeKill` |
| the registry file | `put`, `Flush` |
| a restart of the pooler | `Crash` |

In five places the code looks and acts later, and nothing excludes the other
side meanwhile. All of them are ordinary steps of the model. The ghost `races`
records which of them a behaviour has been through, so that a property can say
what holds as long as none was lost:

| Race | Step that is one |
|---|---|
| overlap | `Claim` while a checkout is past its look at the archiving set and has no slot (`registry.rs` 1620, 3829-3865) |
| purge | `PurgeKill` of a VM that a bring-up has adopted since the pass read its row (4377-4428) |
| rebind | `Lookup` of a cold checkout while a bring-up has not recorded its VM (1701, 1790) |
| reattach | `Boot`, `OffBoot` on another VM although the one of the row exists: its reattach failed (`vm.rs` 2970) |
| restart | `Crash` while `registry.tsv` is behind the row: the detached write of a binding (`store.rs` 351, 584) or a tier whose write failed and was only logged (571-576, 614-617) |

None of them is harmless: for each, TLC finds a behaviour that goes through no
other and loses an acknowledged write (section 5). `schema` and the proofs show
that there is no sixth: every behaviour that loses a write, hides one from a
session or kills a serving VM goes through one of the five first.

Abstractions: an entry is dead as soon as its VM stops, where the code finds
out at the next use; the idle timeout is taken to be longer than the way from
the lookup to the slot; a transfer with its retries and integrity check is one
step that succeeds or fails. Left out: building of spares (an instance starts
with some), disk growth and reclamation, the orphan sweep, the pending-create
janitor, the bring-up breaker, pinned databases, the legacy S3 prefix.

### Jobs

**CiJobs** follows the jobs of one run on one runner. A database transaction is
one action; what a process read before an await and uses after it is in its
local state.

| Code | Actions |
|---|---|
| `advance_run`, `ready_jobs`, `publish_job` | `ReadWave`, `SettleUnrunnable`, `queue_job`, `publish_job`, `unqueue_job`, `NextWave`, `roll_up_run`, `nudge_stalled_runs` |
| `process_delivery`, `run_job` | `Deliver`, `run_job`, `claim_job_for_boot`, `finish_job_preparation`, `begin_job_execution`, `acquire_vm`, `start_job_for_boot`, `run_steps`, `Handoff`, `JobTimeout`, `Ack`, `NakDelivery` |
| JetStream | `Redeliver` |
| reaper, `cancel_run`, VM cleanup | `ReapRead`, `ReapWrite`, `ReapAdvance`; `cancel_run`; `CleanupFinish`, `CleanupInterrupted` |
| executor boots | `pause`, `resume`, `retire_for_replacement`; `BeginRetirement`, `CheckSurvivor`, `CommitRetirement` |
| host maintenance | `runner_drain` |
| a process dies | `BootDies` |

Left out: submission gates, native runners, existing VMs, conditions other than
the default one, step outputs, and the controllers that decide when to drain.

### Regional rollouts

**RegionalRollout** follows the rollouts of one service. A tick takes the
lifecycle lock, reads the row and performs one phase. A phase is a sequence of
durable writes, the last of them to the row: `todo` holds what remains, the lock
is held while it is not empty, and `Crash` forgets it, so that a crash can fall
between any two writes. `history` keeps the serving set of every version of the
membership, because an ingress may adopt any version later than its own. What
serves at first is in the regions of the request and, if `Elsewhere` has any, in
others. A deadline is the time left on it; `evidence` is a ghost that records how long the
region in bake was really observed.

| Code | Actions |
|---|---|
| `step` | `Preflight`, `ExcludeRegion`, `WaitDrained`, `CreateSlot`, `Creating`, `ProbeCandidates`, `MarkOldDraining`, `RestoreRegion`, `WaitRestored`, `BakeTick` |
| `verify_complete` | `Verify` |
| `rollback_step` | `RollbackSkip`, `RollbackRestore`, `RollbackWait`, `RolledBack` |
| the writes of a phase | `WriteRow`, `WriteDiscovery`, `RequestVM`, `NoCalls` |
| `compensate_failed_candidate`, `block` | `Compensate`, `Fail` |
| HTTP handlers | `Resume`, `Rollback`, `Admit` |
| app-lb's discovery loop and proxy | `Refresh`, `Start`, `End` |

Abstractions: a version 1 plan and no lifecycle contract, so that
`before_withdrawal` passes; an endpoint that is down, an observer that does not
answer and a database error are one choice, `Fail`; ingresses are neither
restarted nor edited by hand and have no scope; a snapshot an ingress cannot
persist is left out. The lock is lost only with the process that holds it.

### Artifacts

**ArtifactStore** has the publication (`commit_blob` and `StatBlob` for each
blob, `put_manifest`, `set_tag`), the operator (`Retag`, `materialize`,
`release`, `rm`) and the collection (`CollectBegins`, `mark` tag by tag or
`MarkFails` where a tag or its manifest cannot be read, `BeginSweep`,
`SweepBlob`, `SweepManifests`, `CollectorDies`). Time is one bit per object,
whether it is older than `min_age` (`Ages`). It is assumed, and no code
enforces it, that `min_age`, which `--min-age` sets and which counts from the
birth of the staged file, outlasts the publication that made the object.

Two ghosts say what the properties are about. `steady` has the tags nobody wrote
since the collection began and whose read did not fail; the `made` of a
publication has what it stored itself, without what `art rm` or a manifest's
failed stat took away.

## 3. Runs

| Run | Instance | Shows |
|---|---|---|
| fence | 2 connections, 3 WAL records | `ReadyBarrierCovers`, `ReadyIsClosed`, `FenceProgress`, `ReadyBarrierFixed`, `OperationEnds` |
| handoff_tenants | 1 generation, 1 tenant, 1 commit, standby binding, all faults | `NoSplitBrain`, `AckedSurvive`, `ActivatedIsBound`, `OneCreatePerCandidate`, `RefinesLineage` |
| handoff_fences | 1 generation, 1 tenant, hard and selective fences, crashes | `GrantedNeverOpens` |
| handoff_chain | 2 generations, standby binding, reseed, lost messages | `JournalsReload`, `GrantLookupComplete`, `GrantIrrevocable`, `PhaseForward` |
| handoff_liveness | 1 generation, all faults | `HandoffFinishes` |
| schema | 2 clients, 2 VMs of which 1 spare, 2 writes, 1 slot, dump and image archives, all faults, up to the first race | `AckedKept`, `SessionSeesAcked`, `ServingNeverKilled` |
| schema_live | 1 client, 2 VMs, freezes and promotions, both reapers, restarts, all races but a failed reattach | `CheckoutEnds`, `UnusedStops` |
| schema_overlap | 2 clients, 2 VMs of which 1 spare, four offload jobs | `OverlapHarmless` is violated |
| ci_jobs | 1 job, 2 processes, 2 deliveries, a replacement, a cordon, all faults but failed publication | `OneExecution`, `DrainedIsQuiet`, `RetiredIsIdle`, `CancelSticks` |
| ci_live | 2 jobs, one needing the other, 2 processes that may both retire, failed publications | `SurvivorRemains`, `RunSettles` |
| rollout | 2 regions of 1 replica growing to 2 each, 1 endpoint elsewhere, 2 ingresses, 2 operations, all faults | `CapacityKept`, `DrainedBeforeCreate`, `CreatedOnce`, `SettledServes`, `BakeIsObserved` |
| artifacts | 1 blob, 1 manifest, 2 tags that name either, 2 publishers, failed reads and stats | `PublishedWhole`, `SteadyTagKeeps` |

Bounds.

- Fence: two connections suffice for one to hold a lock while another commits or
  prepares; three WAL records let a commit lie on either side of a barrier and a
  prepared transaction be resolved after it.
- Handoff: two nodes are the protocol's pairing. One generation is one handoff;
  two are a handoff and either a switch-back or a reseed. `MaxCommits` bounds the
  tenant's commits: one suffices to be lost or duplicated. Tenants run with one
  generation only, so the refinement is checked across one transfer. `MaxFences`
  bounds the fences that close one VM. `Uses` and `Faults` choose what an
  instance may do, so that each question is asked with the behaviours it depends
  on. Generations are symmetric in `handoff_chain`, the run with two of them.
- Schema: two clients let one bring a VM up while the other attaches or waits,
  and with one slot they compete for it. Two VMs are one and its replacement; a
  spare is one that a lookup by name does not find. Two writes let one be older
  than a copy and one newer. The constraint of `schema` stops at the first race:
  `races` only grows and its properties are conditional on it, so nothing is
  missed (`TypeOK` after a race is proved). The view of `schema_live` leaves out
  the ghost and the disks and cached ids of VMs that do not exist, which no step
  reads. Compaction is in the proofs and in `schema_overlap`; with it `schema`
  takes more time than a run should, and in `schema_live` a compaction that is
  refused for ever would stand for one that backs off.
- CI: two processes are what redelivery, replacement and mutual retirement need;
  `MaxDeliveries` bounds the deliveries of a message and `MaxFailures` is the
  code's limit on failures before a claim. Two dependent jobs make two waves.
- Rollout: the smallest policy the code admits has two regions; they have
  two slots, so that a crash can fall between two candidates, and a budget of two,
  which the endpoint elsewhere does not meet alone. Two operations let
  candidates of an earlier one be the baseline of the next. Two ingresses can be
  at different versions. `Drain`, `Bake` and `Gap` are counted in clock ticks.
  The view leaves out the versions every ingress has left behind.
- Artifacts: two tags are what a retag during a collection needs, and let a blob
  be kept by itself and through a manifest; two publishers let one find the
  objects the other has just linked. Two manifests that share a blob passed as
  well, in more time than a run should take.

Fairness.

- `FencePostgres`: weak fairness of the controller's own steps, because the
  operation is a live task and each of its waits has a deadline; nothing is
  assumed of tenants or PostgreSQL.
- `PhysicalHandoff`: the recovery worker ticks for ever and tokio's mutex is
  first-in first-out, hence strong fairness of the resumptions and of delivery;
  an operation proceeds or fails; guests and replication progress; sessions end
  because a fence terminates them; and from some time on nothing is lost except
  by a check that fails, as no protocol finishes if every message is lost for ever.
- `CiJobs`: schedulers and workers are loops of a live process, and JetStream
  redelivers what is not acknowledged (weak); publication is tried again by every
  pass, so it succeeds at last if it can again and again (strong). No crash in
  `ci_live`: a run whose last process dies there may stay open, see section 5.
- `SchemaLifecycle`: every task that is running goes on and the loops of the
  reapers fire (weak). The poll of a checkout that waits for an offload is
  strongly fair: an offload that was refused backs off for many polls of 500 ms.
  No client has to connect or to leave; restarts may go on for ever for
  `CheckoutEnds`, and `UnusedStops` assumes that they end.
- `RegionalRollout` and `ArtifactStore`: none; only safety is checked.

## 4. Proofs

Each component's theorems are in a module of their own. All of them hold for
every value of the constants that the named assumptions allow. Every safety
theorem follows from one inductive invariant per component: the properties
themselves are not inductive, because each step relies on what earlier ones
established. One lemma per action, or per group of actions that touch the same
state, shows that it is preserved.

**The fence** (`FencePostgresProofs`, from `MaxLsn \in Nat`). That a ready
barrier covers every commit depends on what each earlier statement established.
`FenceInv` adds `FenceProgress`: from the ALTER on admission is closed, so no
new backend can appear; after the startup wait none is starting; after the drain
none is attached; after the second count nothing is prepared; so from the
capture on `captured = insert` and no action can write. Theorems: `TypeCorrect`,
`BarrierCovers`, `ReadyNeverOpen`, `StagesEstablish` and the action property
`BarrierFixed`.

**The handoff** (`PhysicalHandoffProofs`, from two nodes, one of them the home,
and a `None` that is none of the values it stands against). For any number of
generations, tenants and commits. `HandoffInv` has these parts:

- `GenInv`, `CandInv`: a generation is prepared by one node and seeded by the
  other, and used once. So the VMs a node may bind are its own.
- `BoundInv`: a node prepares the handoff of VMs it bound, its first one or an
  activated candidate; an older record of the bound VM was never fenced.
- `ShutInv`: a record whose fence is ready is of a primary that is closed and
  has no session. Only two steps reopen a VM: `unfence`, which looks at the
  records of the bound VM first, and the admission of a candidate, which has
  none yet.
- `OpInv`: what the holder of a mutex may rely on at each of its steps, although
  it read it before it waited for the peer or the guest.
- `PromoteInv`, `CreateInv`: a candidate is promoted only under a grant for it
  with the same barrier, and created once.
- `WriterInv`: there is at most one primary that was not granted away, and none
  at all while a grant waits for its candidate to be promoted.

`OneWriter` follows: a VM that admits tenants is a primary that was not granted
away, because a granted one is shut. `GrantedStaysShut`, `ActivatedServes`,
`CreatedOnce` and `TypeCorrect` are parts of it. The action properties
`GrantsIrrevocable` and `PhasesForward` need a classification of the steps by
what they write to the journals (`JournalWrites`).

**No commit is lost** (`PhysicalHandoffDurability`, from the same assumptions).
All commits go to the one primary that was not granted away, so it holds them
all. Its barrier is read when it is shut, and no commit is above it from then
on. A candidate's WAL is a prefix of the WAL of the VM its generation was
prepared for, and it is promoted when that prefix reaches the barrier of its
grant: then it holds what the granting VM held. `DurableInv` has a part for each
link: `GenOnce` (a generation names one record, so grant, copy and barrier are
of the same VM), `GrantFits` (a grant is at the barrier of its own fence),
`CopyInv` (what a standby has replayed), `BarrierInv` (a ready barrier is above
all commits), `ReplayInv` (a promotion begins at the barrier or above) and
`AckInv` (the ungranted primary, or the VM of a grant that still waits, holds
every acknowledged commit). `CommitsSurvive` follows with `OneWriter`.

**The journals** (`PhysicalJournalProofs`, from the same assumptions). A pooler
that restarts refuses a journal in which a generation (or the VM of a candidate)
occurs twice, a source VM comes again other than by a reseed, or a superseded
record is neither granted (activated) nor reseeded. Every step of the
handoff writes a journal in one of four ways (the current source record is
rewritten or superseded, the same for the candidate): four lemmas say what the
method's checks must give for the result to load, and one lemma per handler that
they do. `GrantsFound` needs more. The lookup for a VM takes the first record that
names it, current first, then oldest first. Only a reseed makes a second record of
one VM, and the granted one is the last; it would be hidden as soon as a successor
supersedes it. That never happens: a candidate is accepted as the successor of a
record that was not itself reseeded only (`SuccessorInv`; the refusal is the one
of section 5), so a superseded record with a grant is alone (`GrantAlone`).

**Jobs** (`CiJobsProofs`, from `CiAssumption`). The fact behind `CiInv` is that a
job which has left "pending" and "queued" never returns there, whoever writes its
row: so a claim happens once, the worker that claimed is the only one that acts
on the job (`ActInv`), and the obligation the claim wrote stands while that
worker acts or its VM is there. For retirement, a boot that was found ready is
quiet and stays so, and of all boots one has not been found ready (`RetireInv`).
Theorems: `TypeCorrect`, `ExecutedOnce`, `DrainedMeansQuiet`, `RetiredMeansIdle`,
`OneBootSurvives`, and the action property `CancellationSticks`.

**Regional rollouts** (`RegionalRolloutProofs`, from `RolloutAssumption`). For any
number of regions, replicas, ingresses and operations, with crashes between any
two durable writes. Three facts carry the argument. The row says which endpoints
of every region are active, even between the writes of a phase (`DiscInv`; what
remains to be written is one of the lists of `TodoInv`, and each says what is
done already). A phase that waits for the observers leaves every ingress at the
newest version (`SyncInv`), so the versions an ingress may still adopt (`Live`)
are those published since, which differ from it in the current region only
(`HistInv`, `EmptyInv`, `CapInv`, and `WholeInv` for a rollback, where all regions
but one are whole in every live version). What serves outside of the request is
in every version (`AwayInv`), because a call of discovery is for the region of
the row. The intent of a candidate is durable
before its VM is requested, and a tick that finds it never requests again
(`CreatedInv`). Steps are classified first: a move of the cursor, a block, one
call of discovery, one VM request, or nothing the row's readers can see
(`TickMoves`), and each part of the invariant is shown for these five. Theorems:
`TypeCorrect`, `CapacityAlways`, `DrainedFirst`, `RequestedOnce`, `SettledRight`,
and the action property `BakeObserved`, which needs that the deadline of the row
never runs ahead of the time that was really observed (`SeenInv`).

**Artifacts** (`ArtifactStoreProofs`). What a steady tag keeps is live once the
collector has read it (`MarkInv`); what a publication has linked and not tagged
is young, and after its tag is set a collection finds the objects young, or has
the tag still to read, or has marked them (`PublishInv`). Both hold with failed
reads of other tags, failed stats and `art rm` in the model. Theorems:
`TypeCorrect`, `PublicationsWhole`, and the action property `SteadyTagsKept`.

**The VM lifecycle** (`SchemaLifecycleProofs`, from `LifecycleAssumption`). For
any number of clients, VMs, slots and writes, and any set of offload jobs and
reapers. `TypeCorrect` holds whatever races are lost. The others hold up to the
first race: the inductive invariant is `races = {} => SerialInv`, and since
`races` only grows a step out of a state with a race has nothing to show. No
exclusion is assumed; a claim with a checkout in flight, say, is a step of the
proof that makes `races` nonempty. All faults stay: restarts, failed bring-ups,
dumps, kills, stops, reattaches and tier writes. `SerialInv` has these parts:

- `Shape`: a checkout has its cell from the lookup on and its VM from the boot
  on; an offload has a row, and from its eviction on the row's VM.
- `CellInv`: an entry that still reaches a running VM is the current one and of
  the VM a live row names, or that a bring-up is about to record. Older entries
  stay in the hands of their sessions, but their tunnels are dead.
- `CheckoutInv`, `BringUpInv`: the row a checkout read before its bring-up is
  still the row when it binds; one bring-up runs at a time, for a live row it is
  on the VM of the row and made none, so a failed one never kills it.
- `UnboundInv`: while the VM of a bring-up is not in the row yet, it holds every
  acknowledged write (other clients of its cell are served from it already), and
  nobody brings the database up beside it.
- `OffInv`: no checkout is in flight while an offload holds the schema, and what
  each step of the job has established: the copy is complete before the tier is
  written, no older dump shadows an image, and what is deleted last is not what
  the row names.
- `PlaceInv`: the row names a place that holds every acknowledged write, unless a
  bring-up is about to replace it.

`WritesKept`, `SessionsSeeAll` and the action property `ServingKept` follow.

Model-checked only:

- liveness (`OperationEnds`, `HandoffFinishes`, `CheckoutEnds`, `UnusedStops`,
  `RunSettles`), which the prover does not do;
- `RefinesLineage`: the abstract log is a `SelectSeq` of a WAL, and what that
  returns is an induction over the sequence;
- that each of the five races of `SchemaLifecycle` can lose a write
  (`schema_overlap` and section 5).

## 5. Divergences

One disagreement between the code and its own comment is shown by a run:

- **schema_overlap** (`registry.rs:3859`). The comment before the check says a
  checkout that slips in "either grabbed the entry first (active > 0 -> we
  refuse) or will see the set and wait". A checkout that has passed the archiving
  check and holds no slot yet does neither: it is served, the database is dumped
  meanwhile, and what the client commits after the dump dies with the VM while
  the row says archived.

The others were met with the same models, in instances that are not kept among
the runs.

Handoff. In none of these is data lost or a second writer admitted: the handoff
stops, or the database stays closed.

- A hard fence over a failed selective one keeps the mode "selective"
  (`orchestrate.rs:536`, `store.rs:393`); `unfence` (`orchestrate.rs:811`) then
  restores LOGIN and CONNECT but not `ALLOW_CONNECTIONS` and clears the record,
  where the pg-fc README (line 1453) says that it reopens the database.
- After a handoff is authorized and its request fails, a selective fence is
  accepted; the handoff refuses to go on while it is there (`physical.rs:284`),
  and `unfence` is refused because the handoff is authorized.
- A standby bind that arrives after the handoff has read the candidate's phase
  (`physical.rs:281`) puts it in `standby_binding`, which no handoff accepts; the
  bind cannot end once the close of the source has replicated.
- A generation that was reseeded has a predecessor, and the first successor on
  the other node requires that it has none (`physical_store.rs:468`).
- A fence asked of the old primary while it serves a standby records the
  standby's VM; a later handoff to that VM stops after promotion, before
  admission opens (`physical.rs:450`).

VM lifecycle. Each of the other races of `SchemaLifecycle` loses an acknowledged
write by itself (TLC refutes `races \subseteq {name} => Kept` for every name):

- purge: a pass kills from rows it read at its start (`registry.rs:4377`), and a
  restore may have adopted such a VM by its name, or not recorded its own, since.
- rebind: the entry is there before the bring-up records its VM, so another client
  is served and writes; if the VM is stopped then, the next cold checkout reads
  the old row (`registry.rs:1701`) and restores the older copy over it.
- reattach: when it fails after a restart the bring-up makes a new, empty VM
  (`vm.rs:2971`).
- restart: the registry write of a binding is detached, and a restart before it
  leaves the row of the earlier place. `store.rs:584` says that losing the write
  "only costs a find-by-name"; a VM that keeps its spare name is not found by
  name, and the row of a thawed database names the copy, not the VM.
- restart: a tier write that fails is only logged (`store.rs` 571-576, 614-617)
  and the kill follows, where the comment at `store.rs:552` says that "the tier
  must be durable *before* that"; a restart then finds a live row of a dead VM.

Two more:

- A bound VM keeps its spare name, and the untracked reaper skips such names
  (`registry.rs:2004`): after a restart it runs on unused (`UnusedStops` with a spare).
- The idle reaper stops a VM after it evicted the entry, so it may cut a session
  that has begun on the same VM since; the client reconnects.

CI:

- A crash between the end of the last job and the roll-up leaves the run open:
  the nudge (`store.rs:1207`) looks only at runs with pending jobs.
- "Cancelled stays cancelled" (`dispatch.rs:1591`) is not true of a job's status in
  every path: an unconditional status write may turn it into a failure, though
  never into a success (`CancelSticks`).
- The reaper's comment expects a redelivery to pick up a claimed job whose
  process died; `claim_job` refuses jobs that are running (`store.rs:1398`).

Artifacts:

- The collector's comment says a writer holds the lock "across 'link the blobs,
  write the manifest'"; each link takes it for itself, and the grace window is
  what bridges the gaps. An insert of bytes that are in the store already keeps the old age, and
  `set_tag` takes no lock: such an object may be swept between its insert and
  its tag, in spite of the grace window (`gc.rs:22`). `PublishedWhole` is
  therefore about publications that stored their objects themselves.
- A failed read makes the collector remove what a tag keeps. A tag that cannot be
  read is skipped (`store.rs:949`), a tagged manifest that cannot be read counts as
  absent whatever the error (`gc.rs:260`), one that cannot be parsed keeps itself
  and not its blobs (`gc.rs:269`), and a manifest whose stat fails is removed
  however young (`gc.rs:163`). `SteadyTagKeeps` and `PublishedWhole` are about the
  tags and manifests that were read; for the others nothing holds.
- `art rm` unlinks a blob without the lock and without a look at the tags
  (`cli.rs:519`).

Rollout:

- The policy checks the budget for the desired replicas only. A baseline smaller
  than `minimumServingReplicas` lets a rollback end below it; `RolloutAssumption`
  excludes it.
- A rollback restores the regions one after the other and looks at no budget
  (`rollback_step` does not call `probe_survivors`). With three or more regions
  whose sizes differ between baseline and candidates, a half-restored service can
  be below it: baseline 1, 2, 2, desired 2, 1, 2 and a budget of 3, rolled back in
  the third region. No document promises the budget for a rollback, so
  `CapacityKept` asks for it there only where every mixture of restored and
  replaced regions meets it (`MixedBudget`).
- A rollout may pass while old endpoints serve on. Neither admission
  (`regional_rollout.rs:400`), `regional_baseline` (`service_deploy.rs:3449`) nor
  `verify_complete` (`regional_rollout.rs:879`) looks at endpoints outside of the
  requested regions, or without a region. `SettledServes` says what then serves.
- After a compensation, a resume blocks again at "creating"; only a rollback
  finishes the operation.
- The lifecycle lock belongs to a database connection. If that is lost while the
  process goes on creating a candidate (`service_deploy.rs:2498`), the candidate
  may be published after another controller rolled back. The model loses the lock
  only with the process.

## 6. Not modelled

The repository has some 267 thousand lines in 373 implementation files; the map
covers under three percent of them. Most of the rest is HTTP handlers and
clients, parsing and validation of configuration, command lines, dashboards and
adapters to cloud APIs, which a model checker has nothing to say about. Of what
has a protocol in it, these are left:

- app-lb's VM pool (scale decisions against leases and health) and its
  blue/green deployments;
- the orchestrator's reconciler with its adapters, the lifecycle barrier of
  `before_withdrawal`, and the gated plans of versions 2 and 3;
- ci's self-update and host-maintenance controllers;
- app-obs's compaction against ingest and retention;
- pg-fc: the logical pairing's own operations, guest reboots, a late
  `OPEN_ADMISSION`, disk reclamation, the orphan sweep.

## 7. Plan

1. Done: the fence, the journals, the handoff and its lineage; the VM lifecycle;
   the jobs; the regional rollout; the artifact store.
2. Theorems. Done: the fence, the handoff, its durability and its journals, the
   jobs, the rollout, the artifact store, the VM lifecycle. Left: the first
   conjuncts of `RefinesLineage` that need no induction.
3. Models: the parts of section 6, app-lb's pool first.
