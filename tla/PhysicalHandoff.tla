--------------------------- MODULE PhysicalHandoff ---------------------------
(***************************************************************************)
(* The planned physical handoff of one database between two pg-fc nodes:   *)
(* preparation and seeding of a candidate, standby binding, authorization, *)
(* fencing and grant on the source, promotion and activation on the        *)
(* destination, recovery after crashes and lost requests, switch-back,     *)
(* reseeding of a lost preparation, operator fences, and the tenant        *)
(* connections that are routed while all of this happens.                  *)
(* Code: pg-fc/src/replication/physical.rs and orchestrate.rs, and the     *)
(* guest's pg-fc/physical.sh.                                              *)
(*                                                                         *)
(* Each node serialises its operations on the database with one mutex      *)
(* (op).  Journals, bindings and VMs survive a crash of the pooler; op     *)
(* does not.  A call between nodes is a message that may be lost, or be    *)
(* served after the caller gave up.  The caller of physical-replicas and   *)
(* standby-bind keeps its mutex until the answer or a timeout; as it does  *)
(* nothing more and the timeout may come at once, the model releases the   *)
(* mutex with the request.  An operation may fail at any step (Abort):     *)
(* whatever it has written stays.                                          *)
(*                                                                         *)
(* The drain of a fence is one step here: FencePostgres has its statements *)
(* and the crashes of PostgreSQL.                                          *)
(***************************************************************************)
EXTENDS HandoffState

Idle == [kind |-> "idle", step |-> None, req |-> None]
Off  == [at |-> "off", node |-> None, vm |-> None, claim |-> None]

\* The first VM of the home node is the writer; its peer holds the logical
\* replica, which is no copy of the writer's WAL.
Init ==
    /\ source = [n \in Nodes |-> EmptyJournal]
    /\ physical = [n \in Nodes |-> EmptyJournal]
    /\ bound = [n \in Nodes |-> n]
    /\ logical = [n \in Nodes |-> IF n = Home THEN "primary" ELSE "replica"]
    /\ lfence = [n \in Nodes |-> [phase |-> None, mode |-> None, vm |-> None]]
    /\ vm = [v \in VMs |-> [mode |-> IF v = Home THEN "primary"
                                     ELSE IF v \in Nodes THEN "logical" ELSE "absent",
                            wal |-> << >>, promo |-> "none", src |-> None]]
    /\ creates = [g \in Gens |-> 0]
    /\ lost = {}
    /\ op = [n \in Nodes |-> Idle]
    /\ seeds = [n \in Nodes |-> {}]
    /\ msgs = {}
    /\ sess = [c \in Clients |-> Off]
    /\ acked = {}

-----------------------------------------------------------------------------
(* The mutex of a node's database, and requests between nodes *)

Holds(n, kind, step) == op[n].kind = kind /\ op[n].step = step

Lock(n, kind, step, req) ==
    /\ op[n] = Idle
    /\ op' = [op EXCEPT ![n] = [kind |-> kind, step |-> step, req |-> req]]

Step(n, step) == op' = [op EXCEPT ![n].step = step]
Unlock(n)     == op' = [op EXCEPT ![n] = Idle]

Request(n, m) == m \in msgs /\ m.to = n

\* A durable transition of the candidate's record.
Advance(n, from, to, v) ==
    /\ advance_ok(physical[n], Cand(n).gen, from, to, v)
    /\ physical' = [physical EXCEPT ![n] = advance(@, to, v)]

-----------------------------------------------------------------------------
(* Source: prepare_source, reseed_source *)

UsedGens == UNION {{r.gen : r \in Records(source[n])} : n \in Nodes}

incoming(n) == IF Cand(n) # None /\ Cand(n).phase = "activated" THEN Cand(n) ELSE None

\* A session in the tenant database of the bound writer.
SourceAnswers(n) ==
    checkout_ok(n) /\ vm[bound[n]].mode = "primary" /\ Allows(bound[n])

\* The source record becomes durable, then the peer is asked for a candidate.
Provision(n, rec, reseed) ==
    LET made == source_created(source[n], rec) IN
    /\ op[n] = Idle
    /\ source' = [source EXCEPT ![n] = made]
    /\ msgs' = msgs \cup {[kind |-> "provision", to |-> Peer(n), gen |-> rec.gen,
                           pred |-> rec.pred, vm |-> rec.vm, lsn |-> made.cur.lsn,
                           reseed |-> reseed]}
    /\ UNCHANGED <<physical, serving, guests, op, seeds, tenants>>

prepare_source(n, g) ==
    LET active == incoming(n)
        rec == SourceRecord(g, IF active = None THEN None ELSE active.gen,
                            bound[n], Lsn(bound[n]))
    IN  /\ physical_admission_ready(n)
        /\ IF active # None THEN active.cand = bound[n]
                            ELSE logical[n] = "primary" /\ ~is_fenced(n)
        /\ IF Src(n) # None /\ Src(n).gen = g
           THEN /\ Src(n).vm = bound[n]
                /\ Src(n).cand = None /\ Src(n).grant = None /\ Src(n).fence = None
           ELSE /\ g \notin UsedGens
                /\ Src(n) # None => active # None
        /\ SourceAnswers(n)
        /\ IF active = None THEN source_create_ok(source[n], rec)
           ELSE source_create_successor_ok(source[n], rec, active, bound[n])
        /\ Provision(n, rec, FALSE)

\* A new generation for a preparation whose slots were lost.
reseed_source(n, g) ==
    LET prior == IF Src(n).gen = g THEN Src(n).pred ELSE Src(n).gen
        rec == SourceRecord(g, prior, bound[n], Lsn(bound[n]))
    IN  /\ "reseed" \in Uses
        /\ physical_admission_ready(n)
        /\ incoming(n) = None /\ logical[n] = "failed_primary" /\ ~is_fenced(n)
        /\ Src(n) # None /\ (Src(n).gen = g \/ g \notin UsedGens)
        /\ Src(n).vm = bound[n]
        /\ Src(n).fence = None /\ Src(n).grant = None /\ Src(n).cand = None
        /\ prior \in lost
        /\ SourceAnswers(n)
        /\ source_create_reseed_ok(source[n], rec)
        /\ Provision(n, rec, TRUE)

\* The source drops the WAL its slots retained: the pairing fails on both sides.
SlotsLost(n) ==
    /\ "reseed" \in Uses
    /\ Src(n) # None /\ logical[n] = "primary" /\ Src(n).vm = n
    /\ lost' = lost \cup {Src(n).gen}
    /\ logical' = [logical EXCEPT ![n] = "failed_primary",
                                  ![Peer(n)] = IF @ = "replica" THEN "failed_replica" ELSE @]
    /\ UNCHANGED <<journals, bound, lfence, vm, creates, control, tenants>>

-----------------------------------------------------------------------------
(* Destination: accept_candidate and the seed worker *)

AcceptsCandidate(n, m, rec) ==
    IF m.reseed THEN
        /\ logical[n] = "failed_replica"
        /\ Cand(n) # None
        /\ Cand(n).gen = m.pred \/ (Cand(n).gen = m.gen /\ Cand(n).pred = m.pred)
        /\ Cand(n).srcVm = m.vm
        /\ ~handoff_started(Cand(n)) /\ Cand(n).phase # "standby"
        /\ candidate_create_reseed_ok(physical[n], rec, bound[n])
    ELSE IF m.pred # None THEN
        /\ Src(n) # None
        /\ candidate_create_successor_ok(physical[n], rec, Src(n), bound[n])
    ELSE
        /\ logical[n] \in {"replica", "failed_replica"}
        /\ candidate_create_ok(physical[n], rec)

accept_candidate(n, m) ==
    LET rec == CandidateRecord(m.gen, m.pred, bound[n], m.vm)
        ok  == AcceptsCandidate(n, m, rec)
    IN  /\ Request(n, m) /\ m.kind = "provision" /\ op[n] = Idle
        /\ msgs' = msgs \ {m}
        /\ physical' = IF ok THEN [physical EXCEPT ![n] = candidate_created(@, rec)]
                             ELSE physical
        /\ seeds' = IF ok THEN [seeds EXCEPT ![n] = @ \cup {m}] ELSE seeds
        /\ UNCHANGED <<source, serving, guests, op, tenants>>

SeedIsStale(n, m) ==
    \/ Cand(n) = None
    \/ Cand(n).gen # m.gen \/ Cand(n).srcVm # m.vm \/ Cand(n).pred # m.pred
    \/ phase_number(Cand(n).phase) > phase_number("verified")

\* As SeedBegins, but a worker that finds the outcome of a create unknown may
\* create again.
SeedBeginsAgain(n, m) ==
    LET phase == Cand(n).phase IN
    /\ m \in seeds[n]
    /\ seeds' = [seeds EXCEPT ![n] = @ \ {m}]
    /\ IF SeedIsStale(n, m) THEN op[n] = Idle /\ UNCHANGED <<op, physical>>
       ELSE IF phase = "intent"
       THEN Lock(n, "seed", "create", m) /\ Advance(n, "intent", "creating", None)
       ELSE /\ Lock(n, "seed", IF phase = "creating" THEN "create" ELSE "run", m)
            /\ UNCHANGED physical
    /\ UNCHANGED <<source, serving, guests, msgs, tenants>>

\* A seed worker takes the mutex; only the one that finds the intent may create.
SeedBegins(n, m) ==
    LET phase == Cand(n).phase IN
    /\ m \in seeds[n]
    /\ seeds' = [seeds EXCEPT ![n] = @ \ {m}]
    /\ IF SeedIsStale(n, m) THEN op[n] = Idle /\ UNCHANGED <<op, physical>>
       ELSE IF phase = "intent"
       THEN Lock(n, "seed", "create", m) /\ Advance(n, "intent", "creating", None)
       ELSE /\ Lock(n, "seed", IF phase = "creating" THEN "find" ELSE "run", m)
            /\ UNCHANGED physical
    /\ UNCHANGED <<source, serving, guests, msgs, tenants>>

\* The create request is out; its VM becomes visible some time later, whether
\* or not the worker still waits for it.
SeedCreates(n) ==
    LET g == op[n].req.gen IN
    /\ Holds(n, "seed", "create")
    /\ Step(n, "find")
    /\ creates' = [creates EXCEPT ![g] = @ + 1]
    /\ vm' = [vm EXCEPT ![g].mode = IF @ = "absent" THEN "pending" ELSE @]
    /\ UNCHANGED <<journals, serving, lost, seeds, msgs, tenants>>

VmVisible(g) ==
    /\ vm[g].mode = "pending"
    /\ vm' = [vm EXCEPT ![g].mode = "fresh"]
    /\ UNCHANGED <<journals, serving, creates, lost, control, tenants>>

\* The VM is found by its name and owned; a worker that does not find it gives
\* up (Abort) and never creates a second one.
SeedOwns(n) ==
    LET g == op[n].req.gen IN
    /\ Holds(n, "seed", "find")
    /\ vm[g].mode \notin {"absent", "pending"}
    /\ Advance(n, "creating", "candidate", g)
    /\ Step(n, "run")
    /\ UNCHANGED <<source, serving, guests, seeds, msgs, tenants>>

SeedRuns(n) ==
    LET g == op[n].req.gen IN
    /\ Holds(n, "seed", "run")
    /\ \/ /\ Cand(n).phase = "candidate"
          /\ Advance(n, "candidate", "seeding", None)
          /\ UNCHANGED <<vm, op>>
       \/ /\ Cand(n).phase = "seeding"
          /\ vm' = [vm EXCEPT ![g] = IF @.mode # "fresh" THEN @
                                     ELSE [@ EXCEPT !.mode = "seeding", !.src = op[n].req.vm]]
          /\ Step(n, "verify")
          /\ UNCHANGED physical
       \/ /\ Cand(n).phase = "verified"
          /\ Unlock(n)
          /\ UNCHANGED <<physical, vm>>
    /\ UNCHANGED <<source, serving, creates, lost, seeds, msgs, tenants>>

\* A new replication connection to the source is not refused for a fence: a
\* selective one leaves the replication role in, a hard one only for a handoff.
physical_reconnect_allowed(n) ==
    lfence[n].mode = "hard" => /\ Src(n) # None /\ Src(n).vm = bound[n]
                               /\ Src(n).fence # None \/ Src(n).grant # None

\* The guest finishes its base backup and starts as a standby.
SeedCopied(g) ==
    /\ vm[g].mode = "seeding" /\ g \notin lost
    /\ \E n \in Nodes : bound[n] = vm[g].src /\ physical_reconnect_allowed(n)
    /\ vm' = [vm EXCEPT ![g].mode = "standby", ![g].wal = vm[vm[g].src].wal]
    /\ UNCHANGED <<journals, serving, creates, lost, control, tenants>>

SeedVerified(n) ==
    LET g == op[n].req.gen IN
    /\ Holds(n, "seed", "verify")
    /\ vm[g].mode = "standby" /\ g \notin lost
    /\ rolcanlogin(g)
    /\ Lsn(g) >= op[n].req.lsn
    /\ Advance(n, "seeding", "verified", None)
    /\ Unlock(n)
    /\ UNCHANGED <<source, serving, guests, seeds, msgs, tenants>>

\* Streaming replication replays the next WAL record of the source.
Replicate(g) ==
    /\ vm[g].mode = "standby" /\ g \notin lost
    /\ Lsn(g) < Lsn(vm[g].src)
    /\ vm' = [vm EXCEPT ![g].wal = Append(@, vm[vm[g].src].wal[Lsn(g) + 1])]
    /\ UNCHANGED <<journals, serving, creates, lost, control, tenants>>

-----------------------------------------------------------------------------
(* Binding the verified candidate as a read-only standby *)

bind_standby_source(n) ==
    LET t == Cand(Peer(n)) IN
    /\ "standby" \in Uses
    /\ Src(n) # None /\ Src(n).vm = bound[n]
    /\ Src(n).fence = None /\ Src(n).grant = None /\ Src(n).cand = None
    /\ t # None /\ t.gen = Src(n).gen /\ t.srcVm = Src(n).vm
    /\ t.phase = "verified"
    /\ SourceAnswers(n)
    /\ op[n] = Idle
    /\ msgs' = msgs \cup {[kind |-> "bind", to |-> Peer(n), gen |-> t.gen, cand |-> t.cand,
                           vm |-> t.srcVm, lsn |-> Lsn(bound[n])]}
    /\ UNCHANGED <<journals, serving, guests, op, seeds, tenants>>

\* The request is made durable before the guest is asked anything; one that
\* does not fit the record is refused.
accept_standby_bind(n, m) ==
    LET k == Cand(n) IN
    /\ Request(n, m) /\ m.kind = "bind"
    /\ msgs' = msgs \ {m}
    /\ IF /\ k # None /\ k.gen = m.gen /\ k.cand = m.cand /\ k.srcVm = m.vm
          /\ begin_standby_binding_ok(physical[n], m.gen, m.lsn)
       THEN /\ Lock(n, "bind", "verify", None)
            /\ physical' = [physical EXCEPT ![n] = begin_standby_binding(@, m.lsn)]
       ELSE op[n] = Idle /\ UNCHANGED <<op, physical>>
    /\ UNCHANGED <<source, serving, guests, seeds, tenants>>

\* spawn_handoff_recovery resumes a durable standby binding.
ResumeStandbyBind(n) ==
    /\ Cand(n) # None /\ Cand(n).phase = "standby_binding"
    /\ Lock(n, "bind", "verify", None)
    /\ UNCHANGED <<journals, serving, guests, seeds, msgs, tenants>>

\* commit_handoff_binding: an idempotent compare-and-swap of the serving VM.
commit_handoff_binding(n) ==
    /\ bound[n] \in {Cand(n).prev, Cand(n).cand}
    /\ bound' = [bound EXCEPT ![n] = Cand(n).cand]

\* VERIFY_STANDBY_BIND ends with a login of the tenant role on the standby.
StandbyVerified(n) ==
    LET g == Cand(n).cand IN
    /\ Holds(n, "bind", "verify")
    /\ vm[g].mode = "standby" /\ g \notin lost
    /\ Lsn(g) >= Cand(n).standbyLsn
    /\ Admits(g)
    /\ commit_handoff_binding(n)
    /\ Step(n, "advance")
    /\ UNCHANGED <<journals, logical, lfence, guests, seeds, msgs, tenants>>

StandbyBound(n) ==
    /\ Holds(n, "bind", "advance")
    /\ bound[n] = Cand(n).cand
    /\ Advance(n, "standby_binding", "standby", None)
    /\ Unlock(n)
    /\ UNCHANGED <<source, serving, guests, seeds, msgs, tenants>>

-----------------------------------------------------------------------------
(* Source: handoff_source *)

SelectivelyFenced(n) == is_fenced(n) /\ lfence[n].mode = "selective"

ReachesSource(n) ==
    IF Src(n).fence # None \/ is_fenced(n) THEN maintenance_ok(n) ELSE checkout_ok(n)

\* As HandoffBegins, but a grant already given does not let a request repeat.
HandoffBeginsOnce(n) ==
    LET t == Cand(Peer(n)) IN
    /\ Src(n) # None /\ Src(n).vm = bound[n]
    /\ t # None /\ t.gen = Src(n).gen /\ t.cand # None /\ t.srcVm = Src(n).vm
    /\ t.phase \in {"verified", "standby"}
    /\ ~SelectivelyFenced(n)
    /\ Lock(n, "handoff", "authorize", t.cand)
    /\ UNCHANGED <<journals, serving, guests, seeds, msgs, tenants>>

\* An operator's request, or the recovery worker's, for the prepared generation:
\* the peer's status is read, and used in the steps that follow.
HandoffBegins(n) ==
    LET t == Cand(Peer(n)) IN
    /\ Src(n) # None /\ Src(n).vm = bound[n]
    /\ t # None /\ t.gen = Src(n).gen /\ t.cand # None /\ t.srcVm = Src(n).vm
    /\ \/ Src(n).grant # None /\ Src(n).grant.cand = t.cand
       \/ t.phase \in {"verified", "standby"}
    /\ ~SelectivelyFenced(n)
    /\ Lock(n, "handoff", "authorize", t.cand)
    /\ UNCHANGED <<journals, serving, guests, seeds, msgs, tenants>>

AuthorizeHandoff(n) ==
    /\ Holds(n, "handoff", "authorize")
    /\ authorize_handoff_ok(source[n], Src(n).gen, op[n].req)
    /\ source' = [source EXCEPT ![n] = authorize_handoff(@, op[n].req)]
    /\ Step(n, "fence")
    /\ UNCHANGED <<physical, serving, guests, seeds, msgs, tenants>>

\* fence_source: a ready fence is taken as it is when its VM is still closed.
FenceSource(n) ==
    /\ Holds(n, "handoff", "fence")
    /\ ReachesSource(n) /\ vm[bound[n]].mode = "primary"
    /\ IF Src(n).fence = "ready"
       THEN /\ ~Allows(bound[n])
            /\ Step(n, "grant")
            /\ UNCHANGED source
       ELSE /\ source_set_fence_ok(source[n], Src(n).gen, "intent", None)
            /\ source' = [source EXCEPT ![n] = source_set_fence(@, "intent", None)]
            /\ Step(n, "close")
    /\ UNCHANGED <<physical, serving, guests, seeds, msgs, tenants>>

\* ALLOW_CONNECTIONS false, committed and flushed before the drain.
CloseSource(n) ==
    /\ Holds(n, "handoff", "close")
    /\ vm' = Write(bound[n], Close, Allows(bound[n]))
    /\ Step(n, "drain")
    /\ UNCHANGED <<journals, serving, creates, lost, seeds, msgs, tenants>>

\* As SourceDrained, but tenant sessions may still be attached.
SourceNotDrained(n) ==
    LET barrier == Lsn(bound[n]) IN
    /\ Holds(n, "handoff", "drain")
    /\ source_set_fence_ok(source[n], Src(n).gen, "ready", barrier)
    /\ source' = [source EXCEPT ![n] = source_set_fence(@, "ready", barrier)]
    /\ Step(n, "grant")
    /\ UNCHANGED <<physical, serving, guests, seeds, msgs, tenants>>

\* As SourceDrained, but the barrier is the position of the close, read before
\* the drain.
SourceDrainedLate(n) ==
    LET barrier == CHOOSE i \in DOMAIN vm[bound[n]].wal :
                      /\ vm[bound[n]].wal[i] = Close
                      /\ \A k \in DOMAIN vm[bound[n]].wal :
                            k > i => vm[bound[n]].wal[k] # Close
    IN  /\ Holds(n, "handoff", "drain")
        /\ Attached(bound[n]) = {}
        /\ source_set_fence_ok(source[n], Src(n).gen, "ready", barrier)
        /\ source' = [source EXCEPT ![n] = source_set_fence(@, "ready", barrier)]
        /\ Step(n, "grant")
        /\ UNCHANGED <<physical, serving, guests, seeds, msgs, tenants>>

\* Every tenant session is gone: the barrier is read and recorded as ready.
SourceDrained(n) ==
    LET barrier == Lsn(bound[n]) IN
    /\ Holds(n, "handoff", "drain")
    /\ Attached(bound[n]) = {}
    /\ source_set_fence_ok(source[n], Src(n).gen, "ready", barrier)
    /\ source' = [source EXCEPT ![n] = source_set_fence(@, "ready", barrier)]
    /\ Step(n, "grant")
    /\ UNCHANGED <<physical, serving, guests, seeds, msgs, tenants>>

\* The grant is durable before the mutex is released and the peer is told.
GrantHandoff(n) ==
    LET grant == [cand |-> op[n].req, barrier |-> Src(n).barrier] IN
    /\ Holds(n, "handoff", "grant")
    /\ grant_handoff_ok(source[n], Src(n).gen, grant)
    /\ source' = [source EXCEPT ![n] = grant_handoff(@, grant)]
    /\ Unlock(n)
    /\ msgs' = msgs \cup {[kind |-> "handoff", to |-> Peer(n), gen |-> Src(n).gen,
                           cand |-> grant.cand, vm |-> Src(n).vm, barrier |-> grant.barrier]}
    /\ UNCHANGED <<physical, serving, guests, seeds, tenants>>

\* The answer reaches the caller, which takes no mutex to record it.
HandoffAnswered(n, m) ==
    /\ Request(n, m) /\ m.kind = "activated"
    /\ msgs' = msgs \ {m}
    /\ source' = IF complete_handoff_ok(source[n], m.gen, m.cand)
                 THEN [source EXCEPT ![n] = complete_handoff(@)] ELSE source
    /\ UNCHANGED <<physical, serving, guests, op, seeds, tenants>>

-----------------------------------------------------------------------------
(* Destination: accept_handoff *)

Answer(n) == [kind |-> "activated", to |-> Peer(n), gen |-> Cand(n).gen, cand |-> Cand(n).cand]

\* A handoff request that does not match the durable candidate is refused.
accept_handoff(n, m) ==
    LET k == Cand(n)
        fits == k # None /\ k.gen = m.gen /\ k.cand = m.cand /\ k.srcVm = m.vm
    IN  /\ Request(n, m) /\ m.kind = "handoff" /\ op[n] = Idle
        /\ \/ /\ fits /\ k.phase \in {"verified", "standby"}
              /\ Lock(n, "accept", "grant", m)
              /\ msgs' = msgs \ {m}
           \/ /\ fits /\ handoff_started(k) /\ k.phase # "activated" /\ k.barrier = m.barrier
              /\ Lock(n, "accept", "run", m)
              /\ msgs' = msgs \ {m}
           \/ /\ fits /\ k.phase = "activated" /\ k.barrier = m.barrier /\ bound[n] = k.cand
              /\ msgs' = (msgs \ {m}) \cup {Answer(n)}
              /\ UNCHANGED op
           \/ /\ ~(fits /\ (\/ k.phase \in {"verified", "standby"}
                            \/ /\ handoff_started(k) /\ k.barrier = m.barrier
                               /\ k.phase = "activated" => bound[n] = k.cand))
              /\ msgs' = msgs \ {m}
              /\ UNCHANGED op
        /\ UNCHANGED <<journals, serving, guests, seeds, tenants>>

\* spawn_handoff_recovery resumes a started handoff; nobody waits for its answer.
ResumeHandoff(n) ==
    /\ Cand(n) # None /\ handoff_started(Cand(n)) /\ Cand(n).phase # "activated"
    /\ Lock(n, "accept", "run", None)
    /\ UNCHANGED <<journals, serving, guests, seeds, msgs, tenants>>

\* source_grant on the peer, under its mutex: its grant and its closed fence.
source_grant(n) ==
    /\ op[n] = Idle
    /\ Src(n) # None /\ Src(n).grant # None
    /\ bound[n] = Src(n).vm
    /\ Src(n).fence = "ready" /\ Src(n).barrier = Src(n).grant.barrier
    /\ maintenance_ok(n) /\ ~Allows(bound[n])

\* The source confirms the grant the request claims.
GrantConfirmed(n) ==
    LET m == op[n].req
        s == Src(Peer(n))
    IN  /\ Holds(n, "accept", "grant")
        /\ source_grant(Peer(n))
        /\ s.gen = m.gen /\ s.vm = m.vm
        /\ s.grant = [cand |-> m.cand, barrier |-> m.barrier]
        /\ Step(n, "begin")
        /\ UNCHANGED <<journals, serving, guests, seeds, msgs, tenants>>

HandoffAccepted(n) ==
    LET m == op[n].req IN
    /\ Holds(n, "accept", "begin")
    /\ begin_handoff_ok(physical[n], m.gen)
    /\ physical' = [physical EXCEPT ![n] = begin_handoff(@, m.barrier)]
    /\ Step(n, "run")
    /\ UNCHANGED <<source, serving, guests, seeds, msgs, tenants>>

\* As ReplayedFence, but the close alone is taken for the barrier.
ReplayedClose(g, barrier) == ~Allows(g)

\* The guest has replayed the barrier and the close before it.
ReplayedFence(g, barrier) == ~Allows(g) /\ Lsn(g) >= barrier

\* prepare-promotion in the guest, then its acknowledgement in the journal.
PreparePromotion(n) ==
    LET g == Cand(n).cand IN
    /\ Holds(n, "accept", "run") /\ Cand(n).phase = "prepared"
    /\ IF vm[g].promo = "none"
       THEN /\ vm[g].mode = "standby"
            /\ ReplayedFence(g, Cand(n).barrier)
            /\ vm' = [vm EXCEPT ![g].promo = "prepared"]
            /\ UNCHANGED physical
       ELSE /\ vm[g].promo = "prepared" => ReplayedFence(g, Cand(n).barrier)
            /\ Advance(n, "prepared", "promoting", None)
            /\ UNCHANGED vm
    /\ UNCHANGED <<source, serving, creates, lost, control, tenants>>

\* promote starts in the guest, and goes on there without its caller.
LaunchPromote(n) ==
    LET g == Cand(n).cand IN
    /\ Holds(n, "accept", "run") /\ Cand(n).phase = "promoting"
    /\ vm[g].promo = "prepared"
    /\ ReplayedFence(g, Cand(n).barrier)
    /\ vm' = [vm EXCEPT ![g].promo = "promoting"]
    /\ UNCHANGED <<journals, serving, creates, lost, control, tenants>>

PgPromote(g) ==
    /\ vm[g].promo = "promoting"
    /\ ~Allows(g)
    /\ vm' = [vm EXCEPT ![g] = IF @.mode = "standby" THEN [@ EXCEPT !.mode = "primary"]
                               ELSE [@ EXCEPT !.promo = "promoted"]]
    /\ UNCHANGED <<journals, serving, creates, lost, control, tenants>>

PromotionAcknowledged(n) ==
    /\ Holds(n, "accept", "run")
    /\ \/ /\ vm[Cand(n).cand].promo = "promoted"
          /\ Advance(n, "promoting", "promoted", None)
       \/ Advance(n, "promoted", "binding", None)
    /\ UNCHANGED <<source, serving, guests, control, tenants>>

\* As BindPromoted, but the serving binding is left as it is.
BindNothing(n) ==
    /\ Holds(n, "accept", "run") /\ Cand(n).phase = "binding"
    /\ Step(n, "retire")
    /\ UNCHANGED <<journals, serving, guests, seeds, msgs, tenants>>

\* The promoted VM becomes the serving one, before its admission opens.
BindPromoted(n) ==
    /\ Holds(n, "accept", "run") /\ Cand(n).phase = "binding"
    /\ commit_handoff_binding(n)
    /\ Step(n, "retire")
    /\ UNCHANGED <<journals, logical, lfence, guests, seeds, msgs, tenants>>

\* The logical pairing is dropped, unless its fence is of another VM.
RetireLogical(n) ==
    /\ Holds(n, "accept", "retire")
    /\ is_fenced(n) => lfence[n].vm = Cand(n).prev
    /\ logical' = [logical EXCEPT ![n] = "removed"]
    /\ lfence' = [lfence EXCEPT ![n] = [phase |-> None, mode |-> None, vm |-> None]]
    /\ Step(n, "open")
    /\ UNCHANGED <<journals, bound, guests, seeds, msgs, tenants>>

OpenAdmission(n) ==
    LET g == Cand(n).cand IN
    /\ Holds(n, "accept", "open")
    /\ vm[g].mode = "primary" /\ vm[g].promo = "promoted"
    /\ vm' = Write(g, Open, ~Allows(g))
    /\ Step(n, "activate")
    /\ UNCHANGED <<journals, serving, creates, lost, seeds, msgs, tenants>>

Activate(n) ==
    /\ Holds(n, "accept", "activate")
    /\ Advance(n, "binding", "activated", None)
    /\ msgs' = IF op[n].req = None THEN msgs ELSE msgs \cup {Answer(n)}
    /\ Unlock(n)
    /\ UNCHANGED <<source, serving, guests, seeds, tenants>>

-----------------------------------------------------------------------------
(* Operator fences of the logical primary: fence, fence_selective, unfence *)

RolePrimary(n) == logical[n] \in {"primary", "failed_primary"}

\* A bound on the fences that close one VM.
MayFence(v) ==
    Admits(v) => Cardinality({i \in DOMAIN vm[v].wal : vm[v].wal[i] \in {Close, NoLogin}})
                    < MaxFences

\* fence keeps the mode of a record that exists; fence_selective refuses a hard
\* one, and opens a session in the database.
FenceBegins(n, mode) ==
    /\ RolePrimary(n) /\ lfence[n].phase # "ready"
    /\ IF is_fenced(n) THEN maintenance_ok(n) /\ lfence[n].vm = bound[n]
                       ELSE checkout_ok(n)
    /\ MayFence(bound[n])
    /\ mode = "selective" => /\ ~is_fenced(n) \/ lfence[n].mode = "selective"
                             /\ Allows(bound[n])
    /\ lfence' = [lfence EXCEPT ![n] = [phase |-> "intent", vm |-> bound[n],
                                        mode |-> IF is_fenced(n) THEN @.mode ELSE mode]]
    /\ Lock(n, "fence", "close", mode)
    /\ UNCHANGED <<journals, bound, logical, guests, seeds, msgs, tenants>>

fence(n)           == "fence" \in Uses /\ FenceBegins(n, "hard")
fence_selective(n) == "selective" \in Uses /\ FenceBegins(n, "selective")

\* The ALTERs fail on a VM that is in recovery (Abort ends the operation).
FenceCloses(n) ==
    LET v == bound[n] IN
    /\ Holds(n, "fence", "close")
    /\ vm[v].mode = "primary"
    /\ vm' = IF op[n].req = "hard" THEN Write(v, Close, Allows(v))
                                   ELSE Write(v, NoLogin, rolcanlogin(v))
    /\ Step(n, "drain")
    /\ UNCHANGED <<journals, serving, creates, lost, seeds, msgs, tenants>>

FenceReady(n) ==
    /\ Holds(n, "fence", "drain")
    /\ Attached(bound[n]) = {}
    /\ lfence' = [lfence EXCEPT ![n].phase = "ready"]
    /\ Unlock(n)
    /\ UNCHANGED <<journals, bound, logical, guests, seeds, msgs, tenants>>

\* As unfence, but a durable authorization or grant does not refuse it.
unfence_after_grant(n) ==
    /\ is_fenced(n) /\ maintenance_ok(n)
    /\ Lock(n, "unfence", "open", None)
    /\ lfence' = [lfence EXCEPT ![n].phase = "unfencing"]
    /\ UNCHANGED <<journals, bound, logical, guests, seeds, msgs, tenants>>

\* The branch for a physical fence without authorization is left out: no
\* operation of this version makes one.
unfence(n) ==
    /\ ~(Src(n) # None /\ Src(n).cand # None /\ Src(n).vm = bound[n])
    /\ ~has_grant(n)
    /\ ~(Src(n) # None /\ Src(n).fence # None)
    /\ is_fenced(n) /\ maintenance_ok(n)
    /\ Lock(n, "unfence", "open", None)
    /\ lfence' = [lfence EXCEPT ![n].phase = "unfencing"]
    /\ UNCHANGED <<journals, bound, logical, guests, seeds, msgs, tenants>>

UnfenceOpens(n) ==
    LET v == bound[n] IN
    /\ Holds(n, "unfence", "open")
    /\ vm[v].mode = "primary"
    /\ vm' = IF lfence[n].mode = "hard" THEN Write(v, Open, ~Allows(v))
                                        ELSE Write(v, Login, ~rolcanlogin(v))
    /\ Step(n, "clear")
    /\ UNCHANGED <<journals, serving, creates, lost, seeds, msgs, tenants>>

\* As UnfenceClears, but the record keeps its mode and VM.
UnfenceClearsPhase(n) ==
    /\ Holds(n, "unfence", "clear")
    /\ lfence' = [lfence EXCEPT ![n].phase = None]
    /\ Unlock(n)
    /\ UNCHANGED <<journals, bound, logical, guests, seeds, msgs, tenants>>

UnfenceClears(n) ==
    /\ Holds(n, "unfence", "clear")
    /\ lfence' = [lfence EXCEPT ![n] = [phase |-> None, mode |-> None, vm |-> None]]
    /\ Unlock(n)
    /\ UNCHANGED <<journals, bound, logical, guests, seeds, msgs, tenants>>

-----------------------------------------------------------------------------
(* Tenant connections *)

Session(c, at, node, v, claim) ==
    sess' = [sess EXCEPT ![c] = [at |-> at, node |-> node, vm |-> v, claim |-> claim]]

\* The decision is taken when the connection arrives, and acted on later.
Connect(c, n) ==
    /\ sess[c].at = "off" /\ vm[bound[n]].mode # "logical"
    /\ RouteLocal(n) /\ physical_admission_ready(n) /\ ~is_fenced(n)
    /\ Session(c, "admitted", n, None, None)
    /\ UNCHANGED <<journals, serving, guests, control, acked>>

\* forward: the peer is given the claim this node routes by.
ConnectToPeer(c, n) ==
    /\ sess[c].at = "off"
    /\ \/ /\ RouteByGrant(n)
          /\ Session(c, "claim", Peer(n), None,
                     [kind |-> "activation", gen |-> Src(n).gen, cand |-> Src(n).grant.cand,
                      srcVm |-> Src(n).vm])
       \/ /\ RouteToInitialSource(n)
          /\ Session(c, "claim", Peer(n), None,
                     [kind |-> "initial", gen |-> Cand(n).gen, cand |-> Cand(n).cand,
                      srcVm |-> Cand(n).srcVm])
    /\ UNCHANGED <<journals, serving, guests, control, acked>>

\* accept_inner validates the claim before and after its checkout.
ClaimVetted(c) ==
    LET n == sess[c].node IN
    /\ sess[c].at = "claim"
    /\ validate_destination(n, sess[c].claim) /\ validate_sender(n, sess[c].claim)
    /\ sess' = [sess EXCEPT ![c].at = "vetted"]
    /\ UNCHANGED <<journals, serving, guests, control, acked>>

checkout(c) ==
    LET n == sess[c].node IN
    /\ \/ sess[c].at = "admitted"
       \/ sess[c].at = "vetted" /\ validate_destination(n, sess[c].claim)
    /\ checkout_ok(n)
    /\ Session(c, "routed", n, bound[n], None)
    /\ UNCHANGED <<journals, serving, guests, control, acked>>

\* PostgreSQL has the last word on admission.
SessionStarts(c) ==
    /\ sess[c].at = "routed"
    /\ vm[sess[c].vm].mode \in {"primary", "standby"} /\ Admits(sess[c].vm)
    /\ sess' = [sess EXCEPT ![c].at = "attached", ![c].node = None]
    /\ UNCHANGED <<journals, serving, guests, control, acked>>

Commit(c) ==
    LET x == Cardinality(acked) + 1 IN
    /\ sess[c].at = "attached" /\ vm[sess[c].vm].mode = "primary"
    /\ x <= MaxCommits
    /\ vm' = Write(sess[c].vm, x, TRUE)
    /\ acked' = acked \cup {x}
    /\ UNCHANGED <<journals, serving, creates, lost, control, sess>>

\* The connection is refused, ends, or is terminated by a fence.
Disconnect(c) ==
    /\ sess[c].at # "off"
    /\ sess' = [sess EXCEPT ![c] = Off]
    /\ UNCHANGED <<journals, serving, guests, control, acked>>

-----------------------------------------------------------------------------
(* Faults *)

\* The pooler restarts: mutexes, workers, callers waiting for an answer and
\* connections that have not reached PostgreSQL are gone; PostgreSQL sessions
\* end by themselves.
Crash(n) ==
    LET answers == {m \in msgs : Request(n, m) /\ m.kind = "activated"}
        opening == {c \in Clients : sess[c].at \notin {"off", "attached"} /\ sess[c].node = n}
    IN  /\ "crash" \in Faults
        /\ op[n] # Idle \/ seeds[n] # {} \/ answers # {} \/ opening # {}
        /\ op' = [op EXCEPT ![n] = Idle]
        /\ seeds' = [seeds EXCEPT ![n] = {}]
        /\ msgs' = msgs \ answers
        /\ sess' = [c \in Clients |-> IF c \in opening THEN Off ELSE sess[c]]
        /\ UNCHANGED <<journals, serving, guests, acked>>

Abort(n) ==
    /\ "abort" \in Faults
    /\ op[n] # Idle
    /\ Unlock(n)
    /\ UNCHANGED <<journals, serving, guests, seeds, msgs, tenants>>

\* A request or an answer is lost, or its caller gives up waiting for it.
LoseMessage(m) ==
    /\ "loss" \in Faults
    /\ msgs' = msgs \ {m}
    /\ UNCHANGED <<journals, serving, guests, op, seeds, tenants>>

Fault ==
    \/ \E n \in Nodes : Crash(n) \/ Abort(n)
    \/ \E m \in msgs : LoseMessage(m)

-----------------------------------------------------------------------------
Prepare(n) == \E g \in Gens : prepare_source(n, g) \/ reseed_source(n, g)

OperatorFence(n) == fence(n) \/ fence_selective(n) \/ unfence(n)

Recovery(n) ==
    \/ ResumeStandbyBind(n) \/ ResumeHandoff(n)
    \/ pending_handoff(source[n]) /\ HandoffBegins(n)

Deliver(n) ==
    \E m \in msgs : \/ accept_candidate(n, m) \/ accept_standby_bind(n, m)
                    \/ accept_handoff(n, m) \/ HandoffAnswered(n, m)

SeedWorker(n) == \E m \in seeds[n] : SeedBegins(n, m)

\* The steps of the operation that holds the mutex.
OpSteps(n) ==
    \/ SeedCreates(n) \/ SeedOwns(n) \/ SeedRuns(n) \/ SeedVerified(n)
    \/ StandbyVerified(n) \/ StandbyBound(n)
    \/ AuthorizeHandoff(n) \/ FenceSource(n) \/ CloseSource(n) \/ SourceDrained(n)
    \/ GrantHandoff(n)
    \/ GrantConfirmed(n) \/ HandoffAccepted(n)
    \/ PreparePromotion(n) \/ LaunchPromote(n) \/ PromotionAcknowledged(n)
    \/ BindPromoted(n) \/ RetireLogical(n) \/ OpenAdmission(n) \/ Activate(n)
    \/ FenceCloses(n) \/ FenceReady(n) \/ UnfenceOpens(n) \/ UnfenceClears(n)

\* A check of the operation fails, or what it waits for does not come in time;
\* the wait for the peer's mutex ends so by Abort only.
Fails(n) ==
    /\ "abort" \in Faults
    /\ op[n] # Idle
    /\ ~ENABLED OpSteps(n)
    /\ ~(Holds(n, "accept", "grant") /\ op[Peer(n)] # Idle)
    /\ Unlock(n)
    /\ UNCHANGED <<journals, serving, guests, seeds, msgs, tenants>>

Guest(g) == VmVisible(g) \/ SeedCopied(g) \/ Replicate(g) \/ PgPromote(g)

Tenant(c) ==
    \/ \E n \in Doors : Connect(c, n) \/ ConnectToPeer(c, n)
    \/ ClaimVetted(c) \/ checkout(c) \/ SessionStarts(c) \/ Commit(c) \/ Disconnect(c)

Next ==
    \/ \E n \in Nodes :
          \/ Prepare(n) \/ bind_standby_source(n) \/ HandoffBegins(n) \/ OperatorFence(n)
          \/ Recovery(n) \/ Deliver(n) \/ SeedWorker(n) \/ OpSteps(n) \/ Fails(n)
          \/ SlotsLost(n)
    \/ \E g \in Gens : Guest(g)
    \/ \E c \in Clients : Tenant(c)
    \/ Fault

Spec == Init /\ [][Next]_vars

\* The recovery worker ticks for ever and the mutex is fair (tokio's is FIFO);
\* requests, guests and streaming replication make progress; an operation goes
\* on or fails; sessions end, since a fence terminates them; at last nothing is
\* lost any more but what a check refuses.
FairSpec ==
    /\ Spec
    /\ \A n \in Nodes :
          /\ SF_vars(Deliver(n)) /\ WF_vars(OpSteps(n)) /\ WF_vars(Fails(n))
          /\ SF_vars(ResumeStandbyBind(n)) /\ SF_vars(ResumeHandoff(n))
          /\ SF_vars(pending_handoff(source[n]) /\ HandoffBegins(n))
          /\ SF_vars(GrantConfirmed(n))
    /\ \A g \in Gens : WF_vars(Guest(g))
    /\ \A c \in Clients : WF_vars(Disconnect(c))
    /\ <>[][Fault => \E n \in Nodes : Fails(n) \/ Deliver(n)]_vars

-----------------------------------------------------------------------------
(* Properties *)

VmModes == {"absent", "pending", "fresh", "seeding", "standby", "primary", "logical"}

\* Types of the bindings, VMs, workers and sessions.
TypeOK ==
    /\ bound \in [Nodes -> VMs]
    /\ logical \in [Nodes -> {"primary", "replica", "failed_primary", "failed_replica",
                              "removed"}]
    /\ \A n \in Nodes : /\ lfence[n].phase \in {None, "intent", "ready", "unfencing"}
                        /\ lfence[n].mode \in {None, "hard", "selective"}
                        /\ lfence[n].phase = None <=> lfence[n].mode = None
                        /\ lfence[n].phase = None <=> lfence[n].vm = None
    /\ \A v \in VMs : /\ vm[v].mode \in VmModes
                      /\ vm[v].promo \in {"none", "prepared", "promoting", "promoted"}
                      /\ vm[v].mode \in {"seeding", "standby"} => vm[v].src \in VMs
    /\ acked \in SUBSET (1..MaxCommits)

\* At most one VM lets a tenant write, whatever the two nodes, their requests and
\* the crashes interleave to (physical.rs, fence_source to OPEN_ADMISSION).
NoSplitBrain == Cardinality(Writable) <= 1

\* A VM on which tenants can write holds every commit ever acknowledged: the
\* barrier a candidate must replay covers them all (fence_source, physical.sh
\* verify_replay_barrier).
AckedSurvive == \A v \in Writable : acked \subseteq Commits(v)

\* What the stores have written, they will load again after a restart
\* (PhysicalSourceStore::load, PhysicalStore::load).
JournalsReload ==
    \A n \in Nodes : source_journal(source[n]) /\ candidate_journal(physical[n])

\* Every VM a record granted away is found granted, however many records of the
\* same VM a journal holds (grant_for_source_vm takes the first).
GrantLookupComplete ==
    \A n \in Nodes : \A r \in Records(source[n]) :
        r.grant # None => grant_for_source_vm(source[n], r.vm) = r.grant

\* A granted source VM admits no tenant again (unfence's "source admission can
\* never be reopened").
GrantedNeverOpens ==
    \A n \in Nodes : \A r \in Records(source[n]) :
        r.grant # None => ~Allows(r.vm) /\ Attached(r.vm) = {}

\* Whatever is activated serves: its VM is the bound one, promoted and a primary.
ActivatedIsBound ==
    \A n \in Nodes : Cand(n) # None /\ Cand(n).phase = "activated" =>
        /\ bound[n] = Cand(n).cand
        /\ vm[bound[n]].mode = "primary" /\ vm[bound[n]].promo = "promoted"

\* A lost answer to a create request never leads to a second VM of the same name
\* (vm.rs physical_candidate: "refusing a second create").
OneCreatePerCandidate == \A g \in Gens : creates[g] <= 1

\* A grant, once durable, is never withdrawn or changed by any step of any node.
GrantIrrevocable ==
    [][\A n \in Nodes : \A r \in Records(source[n]) : r.grant # None =>
          \E q \in Records(source'[n]) : q.gen = r.gen /\ q.grant = r.grant]_vars

\* A candidate's phase only moves forward while its generation is current.
PhaseForward ==
    [][\A n \in Nodes : Cand(n) # None /\ Cand(n)'.gen = Cand(n).gen =>
          phase_number(Cand(n)'.phase) >= phase_number(Cand(n).phase)]_vars

\* An authorized handoff is finished by the recovery workers alone
\* (physical.rs:291, README "After authorization the operation must finish").
HandoffFinishes ==
    \A n \in Nodes : pending_handoff(source[n]) ~> ~pending_handoff(source[n])

-----------------------------------------------------------------------------
(* Refinement *)

Primaries == {v \in VMs : vm[v].mode = "primary"}

\* The VM promoted last: no other primary was copied from it.
Writer == CHOOSE v \in Primaries : \A w \in Primaries : vm[w].src # v

Lineage == INSTANCE WriterLineage WITH
    First   <- Home,
    owner   <- Writer,
    retired <- Primaries \ {Writer},
    log     <- SelectSeq(vm[Writer].wal, LAMBDA r : r > 0),
    acked   <- acked

\* The two nodes together implement a single lineage of writers.
RefinesLineage == Lineage!Spec

=============================================================================
