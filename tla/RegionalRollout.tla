--------------------------- MODULE RegionalRollout ---------------------------
(***************************************************************************)
(* The drained, region-at-a-time rollout of the orchestrator.  Code:       *)
(* orchestrator/src/handlers/regional_rollout.rs (the row, the reconciler  *)
(* tick and its phases, resume, rollback), service_discovery.rs (versioned *)
(* membership), regional_observers.rs (what the ingresses report),         *)
(* service_deploy.rs (creation of a candidate), and app-lb's discovery.rs  *)
(* and registry.rs (adoption of a snapshot, requests in flight).           *)
(*                                                                         *)
(* A tick of any controller takes the lifecycle lock of the service, reads *)
(* the row and performs one phase.  A phase is a sequence of durable       *)
(* writes, the last of them to the row: todo holds those that remain, and  *)
(* the lock is held while it is not empty.  A crash forgets todo.  A loop  *)
(* over endpoints is one entry.                                            *)
(*                                                                         *)
(* An endpoint is <<operation, region, index>>; operation 0 is the         *)
(* baseline.  Every version of the membership stays in history, because an *)
(* answer to an ingress may be in flight for any time.  A deadline is the  *)
(* time left.                                                              *)
(*                                                                         *)
(* Abstractions.  One service with a version 1 plan and no lifecycle       *)
(* contract, so that before_withdrawal passes.  An endpoint that is down,  *)
(* an observer that fails and a database error all make a tick fail; they  *)
(* are one choice, Fail.  Ingresses are not restarted or edited by hand.   *)
(***************************************************************************)
EXTENDS Naturals, Sequences, FiniteSets, FiniteSetsExt, SequencesExt

CONSTANTS
    None,
    RegionOrder,    \* ordered_regions of the request
    Elsewhere,      \* regions outside of the request that have endpoints
    Was, Size,      \* replicas of the baseline, and desired, in each region
    Minimum,        \* minimumServingReplicas
    Drain, Bake,    \* drainTimeoutSeconds and bakeSeconds, in clock ticks
    Gap,            \* three reconcile periods, in clock ticks
    Ingress,        \* the load balancers, each with its observer
    MaxOps,         \* bound: operations admitted
    Faults          \* what may go wrong

Regions == ToSet(RegionOrder)

\* replicaRegions, an entry for each replica.
Replicas(counts) == UNION {{r} \X (0 .. counts[r] - 1) : r \in DOMAIN counts}

\* At least two regions, and the budget is met outside of each of them.
validate_policy(counts) ==
    /\ Len(RegionOrder) >= 2
    /\ Minimum > 0
    /\ \A r \in Regions : Cardinality({x \in Replicas(counts) : x[1] # r}) >= Minimum
    /\ Drain > 0 /\ Bake > 0

Slots(op, r) == {<<op, r, i>> : i \in 0 .. Size[r] - 1}
\* What serves at first; no code asks that all of it is in the regions of the
\* request.
Baseline     == UNION {{<<0, r, i>> : i \in 0 .. Was[r] - 1} : r \in Regions \cup Elsewhere}
Endpoints    == Baseline \cup UNION {Slots(op, r) : op \in 1 .. MaxOps, r \in Regions}

\* The code checks the budget for the desired replicas; what a rollback returns
\* to is assumed to meet it too.
ASSUME RolloutAssumption ==
    /\ RegionOrder \in Seq(Regions) /\ IsInjective(RegionOrder)
    /\ Regions \cap Elsewhere = {} /\ IsFiniteSet(Elsewhere)
    /\ Was \in [Regions \cup Elsewhere -> Nat \ {0}] /\ Size \in [Regions -> Nat \ {0}]
    /\ {Minimum, Drain, Bake, Gap, MaxOps} \subseteq Nat /\ MaxOps > 0
    /\ validate_policy(Size) /\ validate_policy(Was)
    /\ Faults \subseteq {"crash", "error", "rollback"}
    /\ None \notin Nat \cup Endpoints /\ \A S \in SUBSET Endpoints : None # S

VARIABLES
    row,        \* regional_service_rollouts
    disc,       \* service_discovery_endpoints and service_region_drains
    history,    \* the serving set at each version of the discovery set
    todo,       \* writes the tick that holds the lock still has to do
    adopted,    \* the version each ingress routes by
    request,    \* a request of each ingress and the endpoint that serves it
    created,    \* how often the VM of a candidate was requested
    base,       \* the serving set when the operation was admitted
    evidence    \* how long the region in bake was seen healthy, and since when not

vars == <<row, disc, history, todo, adopted, request, created, base, evidence>>

------------------------------------------------------------------------------
(* Membership *)

In(r) == {e \in disc.members : e[2] = r}

\* read_snapshot: a region that is excluded drains every member in it.
Serving(d) == {e \in d.members : e \notin d.draining /\ e[2] \notin d.drains}

Version == Len(history)
View(l) == history[adopted[l]]

\* One transaction on the discovery set; the version moves when a row changed.
Publish(d) ==
    /\ disc' = d
    /\ history' = IF d = disc THEN history ELSE Append(history, Serving(d))

------------------------------------------------------------------------------
(* The cursor *)

Regional == row.region <= Len(RegionOrder)
R        == RegionOrder[row.region]
Targets  == Slots(row.id, R)
At(p)    == row.status = "running" /\ row.phase = p /\ todo = <<>>

\* update_full: every call writes the phase, the slot, the deadline and the
\* time of observation, those it does not name as NULL.
To(phase, slot, deadline, seen) ==
    [row EXCEPT !.phase = phase, !.slot = slot, !.deadline = deadline, !.seen = seen]
ToRegion(phase, n) ==
    [To(phase, 0, None, None) EXCEPT !.region = n]

\* A write of the row, and a call for each member of a set.
Row(r)     == [kind |-> "row", arg |-> r]
Each(k, S) == [kind |-> k, arg |-> S]

Advance(r) == row' = r /\ UNCHANGED <<disc, history, todo, created>>
Begin(ws)  == todo' = ws /\ UNCHANGED <<row, disc, history, created>>
block      == Advance([row EXCEPT !.status = "blocked"])
Gate(ok, A) == IF ok THEN A ELSE block

\* probe_survivors and probe_targets; a probe that is not answered is Fail.
probe_survivors == Cardinality({e \in Serving(disc) : e[2] # R}) >= Minimum
probe_targets(r) == Slots(row.id, r) \subseteq disc.members

ObserveVersion(withdrawn) ==
    \A l \in Ingress : adopted[l] >= Version /\ View(l) = Serving(disc)
\* regional_observe: every ingress routes by the current version, and has no
\* request left on what was withdrawn.
regional_observe(withdrawn) ==
    \A l \in Ingress :
        /\ adopted[l] >= Version /\ View(l) = Serving(disc)
        /\ request[l] \notin withdrawn

\* wait_*: ready, or out of time, or again at the next tick.
Await(ready, A) ==
    \/ ready /\ A
    \/ ~ready /\ row.deadline = 0 /\ block

------------------------------------------------------------------------------
(* The phases of step *)

Preflight ==
    LET old == In(R) \cap Serving(disc) IN
    /\ At("preflight")
    /\ Gate(probe_survivors /\ old # {},
            Advance([To("exclude_region", 0, None, None) EXCEPT !.old[R] = old]))

ExcludeRegion ==
    /\ At("exclude_region")
    /\ Gate(probe_survivors,
            Begin(<<Each("exclude", {R}), Row(To("wait_drained", 0, Drain, None))>>))

WaitDrained ==
    /\ At("wait_drained")
    /\ IF probe_survivors
       THEN Await(regional_observe(In(R)), Advance(To("create_slot", 0, None, None)))
       ELSE block

Candidate == <<row.id, R, row.slot>>

CreateSlotPast ==
    /\ At("create_slot")
    /\ IF row.slot = Size[R] + 1
       THEN Advance(To("probe_candidates", row.slot, None, None))
       ELSE Begin(<<Row(To("creating", row.slot, None, None)), Each("publish", {Candidate}),
                    Row(To("create_slot", row.slot + 1, None, None))>>)
\* The intent is durable before the VM is requested.
CreateSlot ==
    /\ At("create_slot")
    /\ IF row.slot = Size[R]
       THEN Advance(To("probe_candidates", row.slot, None, None))
       ELSE Gate(probe_survivors,
                 Begin(<<Row(To("creating", row.slot, None, None)),
                         Each("create", {Candidate}), Each("publish", {Candidate}),
                         Row(To("create_slot", row.slot + 1, None, None))>>))

CreatingAgain ==
    /\ At("creating")
    /\ IF Candidate \in disc.members
       THEN Advance(To("create_slot", row.slot + 1, None, None))
       ELSE Advance(To("create_slot", row.slot, None, None))
\* A tick that finds the intent does not know whether the VM was requested.
Creating ==
    /\ At("creating")
    /\ Gate(Candidate \in disc.members, Advance(To("create_slot", row.slot + 1, None, None)))

ProbeCandidates ==
    /\ At("probe_candidates")
    /\ Gate(probe_targets(R), Advance(To("mark_old_draining", row.slot, None, None)))

MarkOldDraining ==
    /\ At("mark_old_draining")
    /\ Begin(<<Each("drain", row.old[R]), Row(To("restore_region", row.slot, None, None))>>)

RestoreRegion ==
    /\ At("restore_region")
    /\ Gate(probe_targets(R),
            Begin(<<Each("include", {R}), Row(To("wait_restored", row.slot, Drain, None))>>))

WaitRestoredBlind ==
    /\ At("wait_restored")
    /\ Gate(probe_targets(R), Advance(To("bake", row.slot, Bake, 0)))
WaitRestored ==
    /\ At("wait_restored")
    /\ IF probe_targets(R)
       THEN Await(regional_observe({}), Advance(To("bake", row.slot, Bake, 0)))
       ELSE block

\* Too long without an observation, and the bake starts over.
BakeTick ==
    LET interrupted == row.seen = None \/ row.seen > Gap IN
    /\ At("bake")
    /\ Gate(probe_targets(R),
            Advance(IF interrupted THEN To("bake", row.slot, Bake, 0)
                    ELSE IF row.deadline > 0 THEN To("bake", row.slot, row.deadline, 0)
                    ELSE ToRegion(IF row.region = Len(RegionOrder) THEN "verify" ELSE "preflight",
                                  row.region + 1)))

\* verify_complete
Verify ==
    /\ At("verify")
    /\ Gate(/\ \A r \in Regions :
                 /\ probe_targets(r)
                 /\ Serving(disc) \cap Slots(row.id, r) = Slots(row.id, r)
            /\ regional_observe({}),
            Advance([row EXCEPT !.status = "passed", !.phase = "passed"]))

------------------------------------------------------------------------------
(* rollback_step *)

Published == Targets \cap disc.members

RollbackSkip ==
    /\ At("rollback_restore")
    /\ Regional /\ row.old[R] = None
    /\ Advance(ToRegion("rollback_restore", row.region + 1))

RollbackRestore ==
    /\ At("rollback_restore")
    /\ Regional /\ row.old[R] # None
    /\ Gate(row.old[R] \subseteq disc.members,
            Begin(<<Each("activate", row.old[R]), Each("drain", Published), Each("include", {R}),
                    Row(To("rollback_wait", 0, Drain, None))>>))

RollbackWaitBlind ==
    /\ At("rollback_wait")
    /\ Gate(row.old[R] \subseteq disc.members,
            Advance(ToRegion("rollback_restore", row.region + 1)))
RollbackWait ==
    /\ At("rollback_wait")
    /\ IF row.old[R] \subseteq disc.members
       THEN Await(regional_observe(Published), Advance(ToRegion("rollback_restore", row.region + 1)))
       ELSE block

RolledBack ==
    /\ At("rollback_restore")
    /\ ~Regional
    /\ Advance([row EXCEPT !.status = "rolled_back", !.phase = "rolled_back"])

------------------------------------------------------------------------------
(* The writes of a phase *)

\* The functions of service_discovery, one transaction each.
publish_healthy_endpoint(e) == [disc EXCEPT !.members = @ \cup {e}, !.draining = @ \ {e}]
mark_endpoint_draining(e)   == [disc EXCEPT !.draining = @ \cup {e}]
mark_endpoint_active(e)     == [disc EXCEPT !.draining = @ \ {e}]
set_region_draining(r, on)  == [disc EXCEPT !.drains = IF on THEN @ \cup {r} ELSE @ \ {r}]

\* A loop makes its calls in the order of the ids, whatever that is.
First       == CHOOSE x \in todo[1].arg : TRUE
Call(kind) ==
    /\ todo # <<>> /\ todo[1].kind = kind /\ todo[1].arg # {}
    /\ todo' = IF todo[1].arg = {First} THEN Tail(todo)
               ELSE [todo EXCEPT ![1].arg = @ \ {First}]

WriteRow ==
    /\ todo # <<>> /\ todo[1].kind = "row"
    /\ row' = todo[1].arg /\ todo' = Tail(todo)
    /\ UNCHANGED <<disc, history, created>>

WriteDiscovery ==
    /\ \/ Call("publish")  /\ Publish(publish_healthy_endpoint(First))
       \/ Call("drain")    /\ Publish(mark_endpoint_draining(First))
       \/ Call("activate") /\ Publish(mark_endpoint_active(First))
       \/ Call("exclude")  /\ Publish(set_region_draining(First, TRUE))
       \/ Call("include")  /\ Publish(set_region_draining(First, FALSE))
    /\ UNCHANGED <<row, created>>

\* deploy_service_candidate asks for the VM and waits until it is healthy.
RequestVM ==
    /\ Call("create") /\ created' = [created EXCEPT ![First] = @ + 1]
    /\ UNCHANGED <<row, disc, history>>

\* A loop over nothing.
NoCalls ==
    /\ todo # <<>> /\ todo[1].kind # "row" /\ todo[1].arg = {}
    /\ todo' = Tail(todo)
    /\ UNCHANGED <<row, disc, history, created>>

Write == WriteRow \/ WriteDiscovery \/ RequestVM \/ NoCalls

\* A failure after the candidate was published: compensate_failed_candidate
\* restores the membership, and the tick fails.
Compensate ==
    /\ "error" \in Faults /\ todo # <<>>
    /\ row.phase = "creating" /\ Candidate \in disc.members
    /\ Publish([disc EXCEPT !.members = @ \ {Candidate}])
    /\ todo' = <<Row([row EXCEPT !.status = "blocked"])>>
    /\ UNCHANGED <<row, created>>

\* An unanswered probe, a failed observer, creation or write: tick_in blocks
\* the operation before it releases the lock.
Fail ==
    /\ "error" \in Faults /\ row.status = "running"
    /\ row' = [row EXCEPT !.status = "blocked"] /\ todo' = <<>>
    /\ UNCHANGED <<disc, history, created>>

\* The controller dies, and its connection with the lock.
Crash ==
    /\ "crash" \in Faults /\ todo # <<>>
    /\ todo' = <<>>
    /\ UNCHANGED <<row, disc, history, created>>

Phase ==
    \/ Preflight \/ ExcludeRegion \/ WaitDrained \/ CreateSlot \/ Creating
    \/ ProbeCandidates \/ MarkOldDraining \/ RestoreRegion \/ WaitRestored
    \/ BakeTick \/ Verify
    \/ RollbackSkip \/ RollbackRestore \/ RollbackWait \/ RolledBack

\* What was really seen of the region in bake, whatever the row says.
Unseen  == [good |-> 0, since |-> Gap + 1]
Watched ==
    IF row'.phase # "bake" \/ row'.status # "running" THEN Unseen
    ELSE IF row.phase # "bake" \/ evidence.since > Gap THEN [good |-> 0, since |-> 0]
    ELSE [good |-> evidence.good + evidence.since, since |-> 0]

Tick ==
    /\ Phase \/ Write \/ Compensate \/ Fail \/ Crash
    /\ evidence' = IF row.phase = "bake" \/ row'.phase = "bake" THEN Watched ELSE evidence
    /\ UNCHANGED <<adopted, request, base>>

------------------------------------------------------------------------------
(* The operator *)

ResumeKeepsSeen ==
    /\ row.status = "blocked"
    /\ row' = [row EXCEPT !.status = "running",
                  !.deadline = IF row.phase \in {"wait_drained", "wait_restored", "rollback_wait"}
                               THEN Drain ELSE @]
    /\ UNCHANGED <<disc, history, todo, adopted, request, created, base, evidence>>
\* resume takes no lock: nobody else touches a row that is blocked.
Resume ==
    /\ row.status = "blocked"
    /\ row' = [row EXCEPT !.status = "running", !.seen = None,
                  !.deadline = IF row.phase \in {"wait_drained", "wait_restored", "rollback_wait"}
                               THEN Drain ELSE @]
    /\ UNCHANGED <<disc, history, todo, adopted, request, created, base, evidence>>

Rollback ==
    /\ "rollback" \in Faults /\ todo = <<>>
    /\ row.status \in {"running", "blocked"}
    /\ row' = [ToRegion("rollback_restore", 1) EXCEPT !.status = "running"]
    /\ evidence' = Unseen
    /\ UNCHANGED <<disc, history, todo, adopted, request, created, base>>

\* admit, with ensure_no_regional_rollout.
NewRow(n) ==
    [id |-> n, status |-> "running", phase |-> "preflight", region |-> 1, slot |-> 0,
     deadline |-> None, seen |-> None, old |-> [r \in Regions |-> None]]
Admit ==
    /\ row.status \notin {"running", "blocked"} /\ row.id < MaxOps
    /\ row' = NewRow(row.id + 1) /\ base' = Serving(disc)
    /\ UNCHANGED <<disc, history, todo, adopted, request, created, evidence>>

------------------------------------------------------------------------------
(* The ingresses, and time *)

\* refresh_target: the answer to any earlier poll, unless it is older than what
\* is routed.  A member that left takes no new request.
Refresh(l) ==
    /\ \E v \in adopted[l] + 1 .. Version : adopted' = [adopted EXCEPT ![l] = v]
    /\ UNCHANGED <<row, disc, history, todo, request, created, base, evidence>>

Start(l) ==
    /\ request[l] = None
    /\ \E e \in View(l) : request' = [request EXCEPT ![l] = e]
    /\ UNCHANGED <<row, disc, history, todo, adopted, created, base, evidence>>

End(l) ==
    /\ request[l] # None
    /\ request' = [request EXCEPT ![l] = None]
    /\ UNCHANGED <<row, disc, history, todo, adopted, created, base, evidence>>

Clock ==
    /\ row' = [row EXCEPT !.deadline = IF @ = None \/ @ = 0 THEN @ ELSE @ - 1,
                         !.seen = IF @ = None \/ @ > Gap THEN @ ELSE @ + 1]
    /\ evidence' = [evidence EXCEPT !.since = IF @ > Gap THEN @ ELSE @ + 1]
    /\ UNCHANGED <<disc, history, todo, adopted, request, created, base>>

------------------------------------------------------------------------------

Init ==
    /\ row = NewRow(1)
    /\ disc = [members |-> Baseline, draining |-> {}, drains |-> {}]
    /\ history = <<Baseline>>
    /\ todo = <<>>
    /\ adopted = [l \in Ingress |-> 1]
    /\ request = [l \in Ingress |-> None]
    /\ created = [e \in Endpoints |-> 0]
    /\ base = Baseline
    /\ evidence = Unseen

Next ==
    \/ Tick \/ Resume \/ Rollback \/ Admit \/ Clock
    \/ \E l \in Ingress : Refresh(l) \/ Start(l) \/ End(l)

Spec == Init /\ [][Next]_vars

------------------------------------------------------------------------------
(* Properties *)

Phases ==
    {"preflight", "exclude_region", "wait_drained", "create_slot", "creating", "probe_candidates",
     "mark_old_draining", "restore_region", "wait_restored", "bake", "verify", "passed",
     "rollback_restore", "rollback_wait", "rolled_back"}

\* The row stays a cursor of the saved plan (Plan::step accepts it), the drains
\* are of members, and no ingress is ahead of the discovery set.
TypeOK ==
    /\ row.id \in 1 .. MaxOps /\ row.status \in {"running", "blocked", "passed", "rolled_back"}
    /\ row.phase \in Phases /\ row.region \in 1 .. Len(RegionOrder) + 1
    /\ row.phase \notin {"verify", "passed", "rollback_restore", "rolled_back"} => Regional
    /\ row.phase \in {"create_slot", "creating"} => row.slot \in 0 .. Size[R]
    /\ row.phase = "creating" => row.slot < Size[R]
    /\ disc.draining \subseteq disc.members /\ disc.members \subseteq Endpoints
    /\ disc.drains \subseteq Regions
    /\ \A l \in Ingress : adopted[l] \in 1 .. Version /\ request[l] \in Endpoints \cup {None}

\* While a region is replaced, crashed or blocked anywhere, every ingress keeps
\* at least minimumServingReplicas to route to, not counting the region under
\* replacement, although it may route by an old membership.  A rollback restores
\* one region after the other without a look at the budget: it keeps it if any
\* mixture of restored and replaced regions meets it.
Replacing ==
    row.phase \in {"exclude_region", "wait_drained", "create_slot", "creating", "probe_candidates",
                   "mark_old_draining", "restore_region"}
MixedBudget ==
    validate_policy([r \in Regions \cup Elsewhere |->
                        IF r \in Regions THEN Min({Was[r], Size[r]}) ELSE Was[r]])
CapacityKept ==
    (row.phase \in {"rollback_restore", "rollback_wait"} => MixedBudget) =>
        \A l \in Ingress :
            Cardinality({e \in View(l) : Replacing => e[2] # R}) >= Minimum

\* From the first candidate of a region to its restoration no ingress routes to
\* the region or has a request in it, so no client meets a half-built region.
DrainedBeforeCreate ==
    row.phase \in {"create_slot", "creating", "probe_candidates", "mark_old_draining"} =>
        \A l \in Ingress :
            /\ \A e \in View(l) : e[2] # R
            /\ request[l] = None \/ request[l][2] # R

\* The VM of a slot is requested once, whatever crashes, fails or is resumed.
CreatedOnce == \A e \in Endpoints : created[e] <= 1

\* An operation that passed is served, in its regions, by its candidates alone,
\* and elsewhere by what served there when it was admitted, which verify_complete
\* does not look at; one that was rolled back by all that served when it was
\* admitted.  At every ingress.
SettledServes ==
    \A l \in Ingress :
        /\ row.status = "passed" =>
              View(l) = {e \in base : e[2] \in Elsewhere} \cup UNION {Slots(row.id, r) : r \in Regions}
        /\ row.status = "rolled_back" => View(l) = base

\* A region leaves its bake only after Bake time in which it was seen healthy,
\* with no failed tick and no gap between two observations.
BakeIsObserved ==
    [][row.phase = "bake" /\ row'.phase \in {"preflight", "verify"}
       => evidence.since <= Gap /\ evidence.good + evidence.since >= Bake]_vars

==============================================================================
